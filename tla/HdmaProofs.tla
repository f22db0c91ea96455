----------------------------- MODULE HdmaProofs -----------------------------
(***************************************************************************)
(* Proofs about the VRAM DMA composed with the PPU, for every size of      *)
(* screen, every length of the modes and every number of blocks.           *)
(***************************************************************************)
EXTENDS Hdma, TLAPS

\* A transfer, with its blocks counted.
HdmaTypes ==
    /\ hdma \in [on : BOOLEAN, hblank_dma : BOOLEAN, initial : Int, count : Int]
    /\ ly \in Int

\* The pulse that starts a block comes with the end of mode 0, in a line in
\* which no block was moved, and the next clock of the PPU takes it away.
PulseInTime == hblank_cycle => stat_mode # "Draw" /\ ~block_in_line

IInv == HdmaTypes /\ BlocksLeft /\ PulseInTime

\* One clock of the PPU: only the end of mode 0 raises the pulse, with the step
\* to the next line.
LEMMA PulseOfClock ==
    ASSUME Ppu!clock, ly \in Int
    PROVE  ly' \in Int /\ (hblank_cycle' => stat_mode' # "Draw" /\ ly' # ly)
<1>1. CASE Ppu!ClockOff
    BY <1>1 DEF Ppu!ClockOff, Ppu!lineVars
<1>2. CASE Ppu!ClockTick
    BY <1>2 DEF Ppu!ClockTick
<1>3. CASE Ppu!LeaveOamScan
    BY <1>3 DEF Ppu!LeaveOamScan
<1>4. CASE Ppu!LeaveDraw
    BY <1>4 DEF Ppu!LeaveDraw
<1>5. CASE Ppu!LeaveHBlank
    BY <1>5 DEF Ppu!LeaveHBlank
<1>6. CASE Ppu!LeaveVBlankLine
    BY <1>6 DEF Ppu!LeaveVBlankLine, Ppu!StartFrame
<1> QED
    BY <1>1, <1>2, <1>3, <1>4, <1>5, <1>6 DEF Ppu!clock, Ppu!update_mode

\* A write of LCDC raises no pulse; it leaves the mode or enters mode 0.
LEMMA PulseOfLcdc ==
    ASSUME NEW enable \in BOOLEAN, Ppu!write_lcdc(enable, FALSE), ly \in Int
    PROVE  /\ ly' \in Int /\ hblank_cycle' = hblank_cycle
           /\ stat_mode' \in {stat_mode, "HBlank"}
    BY DEF Ppu!write_lcdc, Ppu!reset, Ppu!lineVars

\* Before any transfer.
LEMMA InitIInv == Init => IInv
    BY DEF Init, Ppu!Init, IInv, HdmaTypes, NoHdma, BlocksLeft, PulseInTime

\* clock_hdma() counts up to the last block and ends there.
LEMMA BlocksOfClock ==
    ASSUME IInv, clock_hdma
    PROVE  /\ hdma' \in [on : BOOLEAN, hblank_dma : BOOLEAN, initial : Int, count : Int]
           /\ BlocksLeft'
           /\ moved' = "block" => hblank_cycle
<1>1. NoHdma \in [on : BOOLEAN, hblank_dma : BOOLEAN, initial : Int, count : Int] /\ ~NoHdma.on
    BY DEF NoHdma
<1>2. CASE HBlankBlock /\ hdma' = MovedBlock
  <2>1. CASE hdma.count + 1 = hdma.initial
      BY <1>1, <1>2, <2>1 DEF MovedBlock, HBlankBlock, BlocksLeft
  <2>2. CASE hdma.count + 1 # hdma.initial
    <3>1. hdma' = [hdma EXCEPT !.count = @ + 1] /\ hdma.count < hdma.initial
        BY <1>2, <2>2 DEF MovedBlock, HBlankBlock, IInv, BlocksLeft
    <3> QED
        BY <1>2, <2>2, <3>1 DEF HBlankBlock, IInv, HdmaTypes, BlocksLeft
  <2> QED
      BY <2>1, <2>2
<1>3. CASE hdma' = NoHdma /\ moved' = "all"
    BY <1>1, <1>3 DEF BlocksLeft
<1>4. CASE UNCHANGED hdma /\ moved' = "nothing"
    BY <1>4 DEF IInv, HdmaTypes, BlocksLeft
<1> QED
    BY <1>2, <1>3, <1>4 DEF clock_hdma

\* A clock, with the PPU's and perhaps a block, keeps the invariant.
LEMMA ClockStep == IInv /\ clock => IInv'
<1> SUFFICES ASSUME IInv, clock PROVE IInv'
    OBVIOUS
<1>1. CASE Clocked /\ clock_hdma /\ Ppu!clock
  <2>1. ly' \in Int /\ (hblank_cycle' => stat_mode' # "Draw" /\ ly' # ly)
      BY <1>1, PulseOfClock DEF IInv, HdmaTypes
  <2>2. PulseInTime'
      BY <2>1 DEF clock, PulseInTime
  <2> QED
      BY <1>1, <2>1, <2>2, BlocksOfClock DEF IInv, HdmaTypes
<1>2. CASE moved' = "nothing" /\ UNCHANGED <<ppuVars, hdma>>
    BY <1>2 DEF clock, IInv, HdmaTypes, BlocksLeft, PulseInTime, ppuVars
<1> QED
    BY <1>1, <1>2 DEF clock

\* Every step keeps the invariant.
LEMMA NextStep == IInv /\ [Next]_vars => IInv'
<1> SUFFICES ASSUME IInv, [Next]_vars PROVE IInv'
    OBVIOUS
<1>1. CASE clock
    BY <1>1, ClockStep
<1>2. CASE WriteHdma5
  <2>1. PICK n \in 1 .. MaxBlocks, hblank \in BOOLEAN :
            hdma' = [on |-> TRUE, hblank_dma |-> hblank, initial |-> n, count |-> 0]
      BY <1>2 DEF WriteHdma5
  <2>2. n \in Int /\ 0 < n
      BY HdmaConstants
  <2>3. UNCHANGED ppuVars /\ block_in_line' = FALSE
      BY <1>2 DEF WriteHdma5
  <2> QED
      BY <2>1, <2>2, <2>3 DEF IInv, HdmaTypes, BlocksLeft, PulseInTime, ppuVars
<1>3. CASE WriteLcdc
  <2>1. /\ ly' \in Int /\ hblank_cycle' = hblank_cycle
        /\ stat_mode' \in {stat_mode, "HBlank"}
      BY <1>3, PulseOfLcdc DEF WriteLcdc, IInv, HdmaTypes
  <2> QED
      BY <1>3, <2>1 DEF WriteLcdc, IInv, HdmaTypes, BlocksLeft, PulseInTime
<1>4. CASE UNCHANGED <<ppuVars, hdma, block_in_line>>
    BY <1>4 DEF IInv, HdmaTypes, BlocksLeft, PulseInTime, ppuVars
<1> QED
    BY <1>1, <1>2, <1>3, <1>4 DEF Next, WriteKey1, cgb_speed_switch, set_cpu_halted, vars

\* The invariant.
LEMMA Invariance == Spec => []IInv
    BY InitIInv, NextStep, PTL DEF Spec

\* While an HBlank DMA is active some of it is left: HDMA5, the blocks left
\* less one, is never read below zero.
THEOREM HdmaCountsDown == Spec => []BlocksLeft
<1>1. IInv => BlocksLeft
    BY DEF IInv
<1> QED
    BY <1>1, Invariance, PTL

\* At both speeds, through LCD and speed switches and HALT, a block of an
\* HBlank DMA is moved outside of mode 3 and one per line.
THEOREM BlocksLandOnce == Spec => BlockLands
<1>1. IInv /\ [Next]_vars => [moved' = "block" => stat_mode # "Draw" /\ ~block_in_line]_vars
  <2> SUFFICES ASSUME IInv, Next, moved' = "block" PROVE stat_mode # "Draw" /\ ~block_in_line
      OBVIOUS
  <2>1. clock_hdma
      BY DEF Next, clock, WriteHdma5, WriteLcdc, WriteKey1, cgb_speed_switch, set_cpu_halted
  <2>2. hblank_cycle
      BY <2>1, BlocksOfClock
  <2> QED
      BY <2>2 DEF IInv, PulseInTime
<1> QED
    BY <1>1, Invariance, PTL DEF Spec, BlockLands

\* Composed with the DMA, the two speeds and HALT, the PPU does nothing that the
\* PPU alone does not: what is proved of Ppu holds here too.
THEOREM PpuAsAlone == Spec => Ppu!Init /\ [][Ppu!Next]_Ppu!vars
<1>1. Init => Ppu!Init
    BY DEF Init
<1>2. [Next]_vars => [Ppu!Next]_Ppu!vars
  <2> SUFFICES ASSUME Next \/ UNCHANGED vars PROVE Ppu!Next \/ UNCHANGED Ppu!vars
      OBVIOUS
  <2>1. UNCHANGED ppuVars => UNCHANGED Ppu!vars
      BY DEF ppuVars, Ppu!vars, Ppu!lineVars, Ppu!statVars, Ppu!windowVars, Ppu!histVars
  <2>2. CASE clock
      BY <2>1, <2>2 DEF clock, Ppu!Next
  <2>3. CASE WriteLcdc
      BY <2>3 DEF WriteLcdc, Ppu!Next, Ppu!RegisterWrite
  <2> QED
      BY <2>1, <2>2, <2>3 DEF Next, WriteHdma5, WriteKey1, cgb_speed_switch, set_cpu_halted, vars
<1> QED
    BY <1>1, <1>2, PTL DEF Spec
=============================================================================
