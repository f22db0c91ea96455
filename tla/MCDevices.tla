----------------------------- MODULE MCDevices -----------------------------
(* The two devices whose registers the CPU reaches through a clock of its  *)
(* own: the timer, with a 7 bit divider and a 2 bit TIMA, and the memory   *)
(* bus, with an OAM of 3 bytes.  They share nothing: a behavior is a run   *)
(* of the one or of the other.                                             *)
EXTENDS Timer, Bus, TLC

const_Half == 0 :> 64 @@ 1 :> 8 @@ 2 :> 16 @@ 3 :> 32
const_TimerValues == 0 .. 3
const_Pages == {"VRAM", "WRAMX"}

VARIABLE device      \* which of the two runs

DevicesInit == Init /\ BusInit /\ device \in {"timer", "bus"}

DevicesNext ==
    /\ UNCHANGED device
    /\ \/ device = "timer" /\ Next /\ UNCHANGED busVars
       \/ device = "bus" /\ BusNext /\ UNCHANGED timer

DevicesSpec == DevicesInit /\ [][DevicesNext]_<<device, timer, busVars>>
============================================================================
