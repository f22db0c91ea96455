----------------------------- MODULE PpuProofs -----------------------------
(* Proofs about Ppu, for every screen size, every mode length and every    *)
(* value the CPU may write.                                                *)
EXTENDS Ppu, TLAPS

\* The part of the inductive invariant about the beam.
BeamInv == ModeMatchesLine /\ CyclesInMode /\ OffParked

\* The part about the picture and the window.
PictureInv == WindowLatch /\ WindowLineBound /\ DrawnSoFar

IInv == TypeOK /\ BeamInv /\ StatLineFresh /\ PictureInv

USE DEF Modes

\* What one evaluation of the STAT line leaves behind.
LEMMA StatHandled ==
    ASSUME TypeOK, stat_lyc_eq_ly' \in BOOLEAN,
           UNCHANGED stat_select,
           NEW others \in SUBSET {"VBLANK"}, handle_stat_interrupt(others)
    PROVE  /\ stat_interrupt' \in BOOLEAN
           /\ check_interrupt' = FALSE
           /\ irq' \subseteq {"VBLANK", "LCD"}
           /\ ("VBLANK" \in irq') <=> ("VBLANK" \in others)
           /\ LevelFresh'
<1> DEFINE level == StatLevel(stat_select, stat_mode', stat_lyc_eq_ly')
<1>1. level \in BOOLEAN
    BY DEF StatLevel
<1>2. /\ irq' = others \cup {i \in {"LCD"} : level /\ ~stat_interrupt}
      /\ stat_interrupt' = level
      /\ check_interrupt' = FALSE
    BY DEF handle_stat_interrupt
<1>3. irq' \subseteq {"VBLANK", "LCD"} /\ (("VBLANK" \in irq') <=> ("VBLANK" \in others))
    BY <1>2
<1>4. LevelFresh'
    BY <1>2, stat_select' = stat_select DEF LevelFresh
<1> QED
    BY <1>1, <1>2, <1>3, <1>4

\* An evaluation on top of no other interrupt raises no VBLANK.
LEMMA QuietStat == handle_stat_interrupt({}) => "VBLANK" \notin irq'
  BY DEF handle_stat_interrupt

\* The first state.
LEMMA InitIInv == Init => IInv
<1> SUFFICES ASSUME Init PROVE IInv
    OBVIOUS
<1>1. RegisterType /\ BeamType
  <2>1. RegisterType
    BY DEF Init, RegisterType
  <2>2. BeamType
    BY PpuConstants DEF Init, BeamType
  <2> QED
    BY <2>1, <2>2
<1>2. StatType /\ WindowType
  <2>1. StatType
    BY DEF Init, StatType
  <2>2. WindowType
    <3>1. window_line_counter \in 0 .. CounterMod - 1
      BY PpuConstants DEF Init
    <3> QED
      BY <3>1 DEF Init, WindowType
  <2> QED
    BY <2>1, <2>2
<1>3. BeamInv
    BY PpuConstants DEF Init, BeamInv, ModeMatchesLine, CyclesInMode, OffParked
<1>4. StatLineFresh
    BY DEF Init, StatLineFresh, LycFresh, LevelFresh, StatLevel
<1>5. PictureInv
    BY DEF Init, PictureInv, WindowLatch, WindowLineBound, DrawnSoFar, LinesDone
<1> QED
    BY <1>1, <1>2, <1>3, <1>4, <1>5 DEF IInv, TypeOK

----------------------------------------------------------------------------
(* One lemma per action. *)

\* A clock with the LCD off.
LEMMA ClockOffStep == IInv /\ ClockOff => IInv'
<1> SUFFICES ASSUME IInv, ClockOff PROVE IInv'
    OBVIOUS
<1> USE DEF ClockOff, IInv, TypeOK
<1>1. RegisterType' /\ BeamType' /\ WindowType'
    BY DEF RegisterType, BeamType, WindowType, lineVars, windowVars, histVars
<1>2. BeamInv'
    BY DEF BeamInv, ModeMatchesLine, CyclesInMode, OffParked, lineVars, histVars
<1>3. StatType' /\ LevelFresh'
  <2>1. CASE check_interrupt
    BY <2>1, StatHandled DEF StatIfRequested, StatType
  <2>2. CASE ~check_interrupt
    BY <2>2 DEF StatIfRequested, StatType, statVars, StatLineFresh, LevelFresh, StatLevel, lineVars
  <2> QED
    BY <2>1, <2>2
<1>4. LycFresh'
    BY DEF StatLineFresh, LycFresh
<1>5. PictureInv'
    BY DEF PictureInv, WindowLatch, WindowLineBound, DrawnSoFar, LinesDone, lineVars, windowVars, histVars
<1> QED
    BY <1>1, <1>2, <1>3, <1>4, <1>5 DEF StatLineFresh

\* A clock within a mode.
LEMMA ClockTickStep == IInv /\ ClockTick => IInv'
<1> SUFFICES ASSUME IInv, ClockTick PROVE IInv'
    OBVIOUS
<1> USE DEF ClockTick, IInv, TypeOK
<1>1. RegisterType' /\ WindowType'
    BY DEF RegisterType, WindowType, windowVars, histVars
<1>6. BeamType'
    BY PpuConstants DEF BeamType, CyclesLeft
<1>2. BeamInv'
    BY PpuConstants, DrawLengthsFit DEF BeamInv, BeamType, ModeMatchesLine, CyclesInMode, OffParked, CyclesLeft, histVars, LineCycles
<1>3. StatType' /\ LevelFresh'
  <2>1. CASE check_interrupt
    BY <2>1, StatHandled DEF StatIfRequested, StatType
  <2>2. CASE ~check_interrupt
    BY <2>2 DEF StatIfRequested, StatType, statVars, StatLineFresh, LevelFresh, StatLevel
  <2> QED
    BY <2>1, <2>2
<1>4. LycFresh'
    BY DEF StatLineFresh, LycFresh
<1>5. PictureInv'
    BY DEF PictureInv, WindowLatch, WindowLineBound, DrawnSoFar, LinesDone, windowVars, histVars
<1> QED
    BY <1>1, <1>2, <1>3, <1>4, <1>5, <1>6 DEF StatLineFresh

\* The end of mode 2.
LEMMA LeaveOamScanStep == IInv /\ LeaveOamScan => IInv'
<1> SUFFICES ASSUME IInv, LeaveOamScan PROVE IInv'
    OBVIOUS
<1> USE DEF LeaveOamScan, ClockEdge, IInv, TypeOK
<1>0. ly < VisibleLines /\ ly \in Nat
    BY PpuConstants DEF BeamInv, ModeMatchesLine, BeamType
<1>1. RegisterType'
    BY DEF RegisterType
<1>2. BeamType'
    BY PpuConstants, DrawLengthsFit DEF BeamType
<1>3. WindowType'
  <2>1. drawn' \subseteq 0 .. VisibleLines - 1
    BY <1>0, PpuConstants DEF WindowType
  <2>2. window_line_counter' \in 0 .. CounterMod - 1
    BY PpuConstants DEF WindowType, IncCounter
  <2> QED
    BY <2>1, <2>2 DEF WindowType
<1>4. BeamInv'
    BY <1>0, DrawLengthsFit, PpuConstants DEF BeamInv, BeamType, ModeMatchesLine, CyclesInMode, OffParked
<1>5. StatType' /\ LevelFresh'
    BY StatHandled DEF StatType
<1>6. LycFresh'
    BY DEF StatLineFresh, LycFresh
<1>7. WindowLatch'
    BY DEF PictureInv, WindowLatch, WindowType
<1>8. WindowLineBound'
    BY <1>0, PpuConstants DEF PictureInv, WindowLineBound, WindowType, LinesDone, IncCounter
<1>9. DrawnSoFar'
    BY <1>0, PpuConstants DEF PictureInv, DrawnSoFar, WindowType, LinesDone
<1> QED
    BY <1>1, <1>2, <1>3, <1>4, <1>5, <1>6, <1>7, <1>8, <1>9 DEF StatLineFresh, PictureInv

\* The end of mode 3.
LEMMA LeaveDrawStep == IInv /\ LeaveDraw => IInv'
<1> SUFFICES ASSUME IInv, LeaveDraw PROVE IInv'
    OBVIOUS
<1> USE DEF LeaveDraw, ClockEdge, IInv, TypeOK
<1>0. draw_length \in 1 .. DrawHBlankCycles - 1
    BY DrawLengthsFit DEF BeamInv, CyclesInMode
<1>1. RegisterType' /\ WindowType'
    BY DEF RegisterType, WindowType, windowVars, histVars
<1>2. BeamType'
    BY <1>0, PpuConstants DEF BeamType, HBlankLength
<1>3. BeamInv'
    BY <1>0, PpuConstants DEF BeamInv, BeamType, ModeMatchesLine, CyclesInMode, OffParked, HBlankLength
<1>4. StatType' /\ LevelFresh'
    BY StatHandled DEF StatType
<1>5. LycFresh'
    BY DEF StatLineFresh, LycFresh
<1>6. PictureInv'
    BY DEF PictureInv, WindowLatch, WindowLineBound, DrawnSoFar, LinesDone, windowVars, histVars
<1> QED
    BY <1>1, <1>2, <1>3, <1>4, <1>5, <1>6 DEF StatLineFresh

\* The end of mode 0, which is that of a line.
LEMMA LeaveHBlankStep == IInv /\ LeaveHBlank => IInv'
<1> SUFFICES ASSUME IInv, LeaveHBlank PROVE IInv'
    OBVIOUS
<1> USE DEF ClockEdge, IInv, TypeOK
<1>0. /\ ly \in Nat /\ ly < VisibleLines /\ ly' = ly + 1
      /\ UNCHANGED <<lcdc_enable, lcdc_wnd_enable, lyc, wy, stat_select, draw_length>>
      /\ lcdc_enable
      /\ hblank_cycle' = TRUE
      /\ stat_lyc_eq_ly' = (ly' = lyc)
    BY PpuConstants DEF BeamInv, ModeMatchesLine, BeamType, LeaveHBlank
<1>1. RegisterType'
    BY <1>0 DEF RegisterType
<1>2. LycFresh' /\ stat_lyc_eq_ly' \in BOOLEAN
    BY <1>0 DEF LycFresh
<1>3. CASE VBlankStarts
  <2>1. /\ EndWindow
        /\ cycles_mode' = LineCycles
        /\ stat_mode' = "VBlank"
        /\ drawn' = {} /\ wy_met' = FALSE /\ lcd_cut' = FALSE
        /\ handle_stat_interrupt({"VBLANK"})
    BY <1>3 DEF LeaveHBlank
  <2>2. BeamType'
    BY <1>0, <2>1, PpuConstants DEF BeamType, LineCycles
  <2>3. WindowType'
    <3>1. window_line_counter' \in 0 .. CounterMod - 1
      BY <2>1, PpuConstants DEF EndWindow
    <3> QED
      BY <2>1, <3>1 DEF WindowType, EndWindow
  <2>4. BeamInv'
    BY <1>0, <1>3, <2>1, PpuConstants DEF BeamInv, ModeMatchesLine, CyclesInMode, OffParked, LineCycles, VBlankStarts
  <2>5. StatType' /\ LevelFresh'
    BY <1>0, <1>2, <2>1, StatHandled DEF StatType
  <2>6. PictureInv'
    BY <2>1 DEF PictureInv, WindowLatch, WindowLineBound, DrawnSoFar, LinesDone, EndWindow
  <2> QED
    BY <1>1, <1>2, <2>2, <2>3, <2>4, <2>5, <2>6 DEF StatLineFresh
<1>4. CASE ~VBlankStarts
  <2>1. /\ UNCHANGED <<windowVars, histVars>>
        /\ cycles_mode' = OamScanCycles
        /\ stat_mode' = "OamScan"
        /\ handle_stat_interrupt({})
    BY <1>4 DEF LeaveHBlank
  <2>2. BeamType'
    BY <1>0, <1>4, <2>1, PpuConstants DEF BeamType, VBlankStarts
  <2>3. WindowType'
    BY <2>1 DEF WindowType, windowVars, histVars
  <2>4. BeamInv'
    BY <1>0, <1>4, <2>1, PpuConstants DEF BeamInv, ModeMatchesLine, CyclesInMode, OffParked, VBlankStarts
  <2>5. StatType' /\ LevelFresh'
    BY <1>0, <1>2, <2>1, StatHandled DEF StatType
  <2>6. PictureInv'
    BY <1>0, <2>1 DEF PictureInv, WindowLatch, WindowLineBound, DrawnSoFar, LinesDone, windowVars, histVars, LeaveHBlank
  <2> QED
    BY <1>1, <1>2, <2>2, <2>3, <2>4, <2>5, <2>6 DEF StatLineFresh
<1> QED
    BY <1>3, <1>4

\* The end of a blank line, perhaps of the frame.
LEMMA LeaveVBlankLineStep == IInv /\ LeaveVBlankLine => IInv'
<1> SUFFICES ASSUME IInv, LeaveVBlankLine PROVE IInv'
    OBVIOUS
<1> USE DEF LeaveVBlankLine, ClockEdge, IInv, TypeOK
<1>0. ly \in Nat /\ ly >= VisibleLines /\ ly < Lines
    BY PpuConstants DEF BeamInv, ModeMatchesLine, BeamType
<1>1. RegisterType' /\ WindowType'
    BY DEF RegisterType, WindowType, windowVars, histVars
<1>2. BeamType'
    BY <1>0, PpuConstants DEF BeamType, FrameEnds, StartFrame, LineCycles
<1>3. BeamInv'
    BY <1>0, PpuConstants DEF BeamInv, ModeMatchesLine, CyclesInMode, OffParked, FrameEnds, StartFrame, LineCycles
<1>4. LycFresh' /\ stat_lyc_eq_ly' \in BOOLEAN
    BY DEF LycFresh
<1>5. StatType' /\ LevelFresh'
    BY <1>4, StatHandled DEF StatType
<1>6. PictureInv'
    BY DEF PictureInv, WindowLatch, WindowLineBound, DrawnSoFar, LinesDone, windowVars, histVars, FrameEnds, StartFrame
<1> QED
    BY <1>1, <1>2, <1>3, <1>4, <1>5, <1>6 DEF StatLineFresh

\* A write of LCDC, which may switch the LCD off or on.
LEMMA WriteLcdcStep ==
    ASSUME IInv, NEW enable \in BOOLEAN, NEW wnd \in BOOLEAN, write_lcdc(enable, wnd)
    PROVE  IInv'
<1> USE DEF write_lcdc, IInv, TypeOK
<1>1. RegisterType'
    BY DEF RegisterType
<1>2. BeamType' /\ WindowType'
  <2>1. BeamType'
    BY PpuConstants DEF BeamType, reset, lineVars
  <2>2. WindowType'
    BY DEF WindowType, windowVars, histVars
  <2> QED
    BY <2>1, <2>2
<1>3. StatType'
    BY DEF StatType
<1>4. BeamInv'
    BY PpuConstants DEF BeamInv, ModeMatchesLine, CyclesInMode, OffParked, reset, lineVars, histVars, RegisterType
<1>5. LycFresh'
    BY DEF StatLineFresh, LycFresh, reset, lineVars, RegisterType
<1>6. LevelFresh'
    BY DEF StatLineFresh, LevelFresh, StatLevel, lineVars, RegisterType
<1>7. PictureInv'
    BY DEF PictureInv, WindowLatch, WindowLineBound, DrawnSoFar, LinesDone, lineVars, windowVars, histVars, RegisterType
<1> QED
    BY <1>1, <1>2, <1>3, <1>4, <1>5, <1>6, <1>7 DEF StatLineFresh

\* A write of STAT.
LEMMA WriteStatStep ==
    ASSUME IInv, NEW select \in SUBSET Selects, write_stat(select)
    PROVE  IInv'
<1> USE DEF write_stat, IInv, TypeOK
<1>1. RegisterType' /\ BeamType' /\ WindowType' /\ StatType'
    BY DEF RegisterType, BeamType, WindowType, StatType, lineVars, windowVars, histVars
<1>2. BeamInv'
    BY DEF BeamInv, ModeMatchesLine, CyclesInMode, OffParked, lineVars, histVars
<1>3. StatLineFresh'
    BY DEF StatLineFresh, LycFresh, LevelFresh, lineVars
<1>4. PictureInv'
    BY DEF PictureInv, WindowLatch, WindowLineBound, DrawnSoFar, LinesDone, lineVars, windowVars, histVars
<1> QED
    BY <1>1, <1>2, <1>3, <1>4

\* A write of LYC.
LEMMA WriteLycStep ==
    ASSUME IInv, NEW data \in LycValues, write_lyc(data)
    PROVE  IInv'
<1> USE DEF write_lyc, IInv, TypeOK
<1>1. RegisterType' /\ BeamType' /\ WindowType' /\ StatType'
    BY ZenonT(30), RegisterValues
       DEF RegisterType, BeamType, WindowType, StatType, lineVars, windowVars, histVars
<1>2. BeamInv'
    BY DEF BeamInv, ModeMatchesLine, CyclesInMode, OffParked, lineVars, histVars
<1>3. StatLineFresh'
  <2>1. LycFresh'
    BY DEF StatLineFresh, LycFresh, lineVars
  <2>2. LevelFresh'
    BY DEF StatLineFresh, LevelFresh, StatLevel, lineVars
  <2> QED
    BY <2>1, <2>2 DEF StatLineFresh
<1>4. PictureInv'
    BY DEF PictureInv, WindowLatch, WindowLineBound, DrawnSoFar, LinesDone, lineVars, windowVars, histVars
<1> QED
    BY <1>1, <1>2, <1>3, <1>4

\* A write of WY.
LEMMA WriteWyStep ==
    ASSUME IInv, NEW data \in WyValues, write_wy(data)
    PROVE  IInv'
<1> USE DEF write_wy, IInv, TypeOK
<1>1. RegisterType' /\ BeamType' /\ WindowType' /\ StatType'
    BY RegisterValues DEF RegisterType, BeamType, WindowType, StatType, lineVars, windowVars, histVars, statVars
<1>2. BeamInv'
    BY DEF BeamInv, ModeMatchesLine, CyclesInMode, OffParked, lineVars, histVars
<1>3. StatLineFresh'
    BY DEF StatLineFresh, LycFresh, LevelFresh, StatLevel, lineVars, statVars
<1>4. PictureInv'
    BY DEF PictureInv, WindowLatch, WindowLineBound, DrawnSoFar, LinesDone, lineVars, windowVars, histVars
<1> QED
    BY <1>1, <1>2, <1>3, <1>4

\* A step that changes nothing.
LEMMA StutterStep == IInv /\ UNCHANGED vars => IInv'
  BY DEF IInv, TypeOK, RegisterType, BeamType, WindowType, StatType, BeamInv, ModeMatchesLine,
     CyclesInMode, OffParked, StatLineFresh, LycFresh, LevelFresh, StatLevel, PictureInv,
     WindowLatch, WindowLineBound, DrawnSoFar, LinesDone, vars, lineVars, windowVars, histVars, statVars

----------------------------------------------------------------------------

\* Every step of the PPU preserves the inductive invariant.
LEMMA NextStep == IInv /\ [Next]_vars => IInv'
<1> SUFFICES ASSUME IInv, [Next]_vars PROVE IInv'
    OBVIOUS
<1>1. CASE clock
    BY <1>1, ClockOffStep, ClockTickStep, LeaveOamScanStep, LeaveDrawStep, LeaveHBlankStep,
       LeaveVBlankLineStep DEF clock, update_mode
<1>2. CASE RegisterWrite
    BY <1>2, WriteLcdcStep, WriteStatStep, WriteLycStep, WriteWyStep DEF RegisterWrite
<1>3. CASE UNCHANGED vars
    BY <1>3, StutterStep
<1> QED
    BY <1>1, <1>2, <1>3 DEF Next

\* The inductive invariant holds in every reachable state of the PPU.
THEOREM Invariance == Spec => []IInv
    BY InitIInv, NextStep, PTL DEF Spec

\* ppu.rs keeps its fields in their ranges: no countdown or counter wraps.
THEOREM TypeCorrect == Spec => []TypeOK
<1>1. IInv => TypeOK
    BY DEF IInv
<1> QED
    BY <1>1, Invariance, PTL

\* clock() and reset() keep the mode, LY and the countdown consistent, so that
\* neither `cycles_mode -= 1` nor `94 - draw_length` can underflow.
THEOREM BeamCorrect == Spec => [](ModeMatchesLine /\ CyclesInMode)
<1>1. IInv => ModeMatchesLine /\ CyclesInMode
    BY DEF IInv, BeamInv
<1> QED
    BY <1>1, Invariance, PTL

\* No register write and no mode change escapes the STAT edge detector, nor
\* leaves the coincidence bit that it looks at stale.
THEOREM StatLineCorrect == Spec => []StatLineFresh
<1>1. IInv => StatLineFresh
    BY DEF IInv, StatLineFresh
<1> QED
    BY <1>1, Invariance, PTL

\* The window state of an uncut frame is that frame's own.
THEOREM WindowCorrect == Spec => [](WindowLatch /\ WindowLineBound)
<1>1. IInv => WindowLatch /\ WindowLineBound
    BY DEF IInv, PictureInv
<1> QED
    BY <1>1, Invariance, PTL

\* update_mode() hands vsync() only complete pictures, unless the LCD was cut.
THEOREM PictureCorrect == Spec => FrameComplete
<1> DEFINE A == stat_mode = "HBlank" /\ stat_mode' = "VBlank" /\ ~lcd_cut
                   => drawn = 0 .. VisibleLines - 1
<1>1. IInv /\ [Next]_vars => [A]_vars
  <2> SUFFICES ASSUME IInv, Next, stat_mode = "HBlank", stat_mode' = "VBlank", ~lcd_cut
               PROVE  drawn = 0 .. VisibleLines - 1
    OBVIOUS
  <2>1. LeaveHBlank /\ VBlankStarts
    BY DEF Next, clock, update_mode, RegisterWrite, ClockOff, ClockTick, LeaveOamScan, LeaveDraw,
       LeaveHBlank, LeaveVBlankLine, ClockEdge, write_lcdc, write_stat, write_lyc, write_wy,
       reset, lineVars
  <2>2. ly = VisibleLines - 1
    BY <2>1, PpuConstants DEF IInv, TypeOK, BeamType, BeamInv, ModeMatchesLine, VBlankStarts
  <2> QED
    BY <2>2, PpuConstants DEF IInv, PictureInv, DrawnSoFar, LinesDone
<1> QED
    BY <1>1, Invariance, PTL DEF Spec, FrameComplete

----------------------------------------------------------------------------
(* Ppu implements LcdTiming. *)

\* A clock inside a mode moves the beam one dot along its line.
LEMMA TickMovesDot == IInv /\ ClockTick => Timing!Tick
<1> SUFFICES ASSUME IInv, ClockTick PROVE Timing!Tick
    OBVIOUS
<1>1. Dot + 1 < LineCycles /\ Dot' = Dot + 1
    BY PpuConstants, DrawLengthsFit DEF IInv, TypeOK, BeamType, BeamInv, CyclesInMode, ClockTick, CyclesLeft,
       Dot, LineCycles
<1>2. ("VBLANK" \in irq') <=> FALSE
    BY QuietStat DEF StatIfRequested, ClockTick
<1>3. Dot \in Nat
    BY PpuConstants, DrawLengthsFit DEF IInv, TypeOK, BeamType, BeamInv, CyclesInMode, Dot, LineCycles
<1> QED
    BY <1>1, <1>2, <1>3 DEF Timing!Tick, ClockTick, IInv, TypeOK, RegisterType

\* Leaving mode 2 or mode 3 also moves it one dot along its line.
LEMMA ModeChangeMovesDot == IInv /\ (LeaveOamScan \/ LeaveDraw) => Timing!Tick
<1> SUFFICES ASSUME IInv, LeaveOamScan \/ LeaveDraw PROVE Timing!Tick
    OBVIOUS
<1>1. cycles_mode = 1
    BY PpuConstants DEF IInv, TypeOK, BeamType, BeamInv, CyclesInMode, LeaveOamScan, LeaveDraw, ClockEdge, CyclesLeft
<1>2. Dot \in Nat /\ Dot + 1 < LineCycles /\ Dot' = Dot + 1
  <2>1. CASE LeaveOamScan
    <3>1. PICK len \in DrawLengths : cycles_mode' = len /\ draw_length' = len
      BY <2>1 DEF LeaveOamScan
    <3>2. Dot = OamScanCycles - 1 /\ Dot' = OamScanCycles
      BY <1>1, <2>1, <3>1, PpuConstants, DrawLengthsFit DEF LeaveOamScan, ClockEdge, Dot
    <3> QED
      BY <3>1, <3>2, PpuConstants, DrawLengthsFit DEF LineCycles
  <2>2. CASE LeaveDraw
    BY <1>1, <2>2, PpuConstants, DrawLengthsFit DEF LeaveDraw, ClockEdge, Dot, LineCycles, HBlankLength,
       IInv, BeamInv, CyclesInMode
  <2> QED
    BY <2>1, <2>2
<1>3. ("VBLANK" \in irq') <=> FALSE
    BY QuietStat DEF LeaveOamScan, LeaveDraw
<1> QED
    BY <1>2, <1>3 DEF Timing!Tick, LeaveOamScan, LeaveDraw, ClockEdge, IInv, TypeOK, RegisterType

\* Leaving mode 0 or a line of VBlank takes it to the start of the next line.
LEMMA LineChangeMovesDot == IInv /\ (LeaveHBlank \/ LeaveVBlankLine) => Timing!Tick
<1> SUFFICES ASSUME IInv, LeaveHBlank \/ LeaveVBlankLine PROVE Timing!Tick
    OBVIOUS
<1>0. ly \in Nat /\ ly < Lines /\ (stat_mode = "VBlank" <=> ly >= VisibleLines)
    BY PpuConstants DEF IInv, TypeOK, BeamType, BeamInv, ModeMatchesLine
<1>1. cycles_mode = 1
    BY PpuConstants DEF IInv, TypeOK, BeamType, BeamInv, CyclesInMode, LeaveHBlank, LeaveVBlankLine, ClockEdge, CyclesLeft
<1>2. Dot + 1 = LineCycles
    BY <1>1, PpuConstants DEF LeaveHBlank, LeaveVBlankLine, ClockEdge, Dot, LineCycles
<1>3. Dot' = 0
    BY PpuConstants DEF LeaveHBlank, LeaveVBlankLine, Dot, LineCycles, StartFrame
<1>4. lcdc_enable /\ lcdc_enable' = lcdc_enable
    BY DEF LeaveHBlank, LeaveVBlankLine, ClockEdge
<1>5. stat_lyc_eq_ly' \in BOOLEAN /\ UNCHANGED stat_select
    BY DEF LeaveHBlank, LeaveVBlankLine, ClockEdge
<1>6. ly' = Timing!NextLine /\ (("VBLANK" \in irq') <=> ly' = VisibleLines)
  <2>1. CASE LeaveHBlank /\ VBlankStarts
    <3>1. handle_stat_interrupt({"VBLANK"}) /\ ly' = ly + 1
      BY <2>1 DEF LeaveHBlank
    <3>2. "VBLANK" \in irq'
      BY <1>5, <3>1, StatHandled DEF IInv
    <3> QED
      BY <1>0, <2>1, <3>1, <3>2, PpuConstants DEF VBlankStarts, Timing!NextLine, LeaveHBlank, ClockEdge
  <2>2. CASE LeaveHBlank /\ ~VBlankStarts
    <3>1. handle_stat_interrupt({}) /\ ly' = ly + 1
      BY <2>2 DEF LeaveHBlank
    <3>2. "VBLANK" \notin irq'
      BY <3>1, QuietStat
    <3> QED
      BY <1>0, <2>2, <3>1, <3>2, PpuConstants DEF VBlankStarts, Timing!NextLine, LeaveHBlank, ClockEdge
  <2>3. CASE LeaveVBlankLine
    <3>1. handle_stat_interrupt({})
      BY <2>3 DEF LeaveVBlankLine
    <3>2. "VBLANK" \notin irq'
      BY <3>1, QuietStat
    <3> QED
      BY <1>0, <2>3, <3>2, PpuConstants DEF Timing!NextLine, LeaveVBlankLine, ClockEdge, FrameEnds, StartFrame
  <2> QED
    BY <2>1, <2>2, <2>3
<1> QED
    BY <1>2, <1>3, <1>4, <1>6 DEF Timing!Tick

\* With the LCD off a clock is idle.
LEMMA OffIsIdle == IInv /\ ClockOff => Timing!Idle
<1> SUFFICES ASSUME IInv, ClockOff PROVE Timing!Idle
    OBVIOUS
<1>1. ("VBLANK" \in irq') <=> FALSE
    BY QuietStat DEF StatIfRequested, ClockOff
<1> QED
    BY <1>1 DEF Timing!Idle, ClockOff, Dot, lineVars

\* A write to LCDC switches the beam off, on, or leaves it alone.
LEMMA WriteLcdcSwitches ==
    ASSUME IInv, NEW enable \in BOOLEAN, NEW wnd \in BOOLEAN, write_lcdc(enable, wnd)
    PROVE  [Timing!Next]_Timing!vars
<1>1. CASE lcdc_enable /\ ~enable
  <2>1. /\ ly' = 0 /\ cycles_mode' = OamScanCycles /\ stat_mode' = "HBlank"
        /\ lcdc_enable' = FALSE /\ irq' = irq
    BY <1>1 DEF write_lcdc, reset
  <2>2. Dot' = DrawHBlankCycles
    BY <2>1, PpuConstants DEF Dot, LineCycles
  <2> QED
    BY <1>1, <2>1, <2>2 DEF Timing!Next, Timing!SwitchOff
<1>2. CASE ~lcdc_enable /\ enable
    BY <1>2 DEF write_lcdc, lineVars, Timing!Next, Timing!SwitchOn, Dot
<1>3. CASE lcdc_enable = enable
    BY <1>3 DEF write_lcdc, lineVars, Timing!vars, Dot
<1> QED
    BY <1>1, <1>2, <1>3 DEF IInv, TypeOK, RegisterType

\* Every step is one of the dot clock, or none.
LEMMA TimingStep == IInv /\ [Next]_vars => [Timing!Next]_Timing!vars
<1> SUFFICES ASSUME IInv, [Next]_vars PROVE [Timing!Next]_Timing!vars
    OBVIOUS
<1>1. CASE clock
    BY <1>1, TickMovesDot, ModeChangeMovesDot, LineChangeMovesDot, OffIsIdle
       DEF clock, update_mode, Timing!Next
<1>2. CASE RegisterWrite
  <2>1. CASE \E enable, wnd \in BOOLEAN : write_lcdc(enable, wnd)
    BY <2>1, WriteLcdcSwitches
  <2>2. CASE \/ \E select \in SUBSET Selects : write_stat(select)
             \/ \E data \in LycValues : write_lyc(data)
             \/ \E data \in WyValues : write_wy(data)
    BY <2>2 DEF write_stat, write_lyc, write_wy, lineVars, Timing!vars, Dot
  <2> QED
    BY <1>2, <2>1, <2>2 DEF RegisterWrite
<1>3. CASE UNCHANGED vars
    BY <1>3 DEF vars, lineVars, Timing!vars, Dot
<1> QED
    BY <1>1, <1>2, <1>3 DEF Next

\* The PPU keeps exact time: each line takes LineCycles clocks whatever mode 3
\* took, and VBLANK comes at the start of line VisibleLines and nowhere else.
THEOREM TimingCorrect == Spec => TimingSpec
<1>1. Init => Timing!Init
    BY PpuConstants DEF Init, Timing!Init, Dot
<1> QED
    BY <1>1, Invariance, TimingStep, PTL DEF Spec, TimingSpec, Timing!Spec
============================================================================
