----------------------------- MODULE LcdTiming -----------------------------
(***************************************************************************)
(* What the PPU promises the rest of the machine about time: while the LCD *)
(* is on, a beam moves one dot per clock over LinesPerFrame lines of       *)
(* DotsPerLine dots, whatever mode 3 took on each line, and VBLANK is      *)
(* raised by exactly the clocks that bring the beam to the start of line   *)
(* VBlankLine.  Switching the LCD off parks the beam at ParkDot of line 0. *)
(***************************************************************************)
EXTENDS Naturals

CONSTANTS DotsPerLine, LinesPerFrame, VBlankLine, ParkDot

VARIABLES on, line, dot, vblank

vars == <<on, line, dot, vblank>>

Init == on = TRUE /\ line = 0 /\ dot = 0 /\ vblank = FALSE

NextLine == IF line + 1 = LinesPerFrame THEN 0 ELSE line + 1

Tick ==
    /\ on
    /\ \/ /\ dot + 1 < DotsPerLine
          /\ dot' = dot + 1
          /\ line' = line
       \/ /\ dot + 1 = DotsPerLine
          /\ dot' = 0
          /\ line' = NextLine
    /\ vblank' = (dot' = 0 /\ line' = VBlankLine)
    /\ on' = on

Idle == ~on /\ vblank' = FALSE /\ UNCHANGED <<on, line, dot>>

SwitchOff == on /\ on' = FALSE /\ line' = 0 /\ dot' = ParkDot /\ vblank' = vblank

SwitchOn == ~on /\ on' = TRUE /\ UNCHANGED <<line, dot, vblank>>

Next == Tick \/ Idle \/ SwitchOff \/ SwitchOn

Spec == Init /\ [][Next]_vars
============================================================================
