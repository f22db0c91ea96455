-------------------------------- MODULE Hdma --------------------------------
(***************************************************************************)
(* The VRAM DMA of the CGB (soc/soc.rs clock_hdma) composed with the PPU   *)
(* (module Ppu), the two CPU speeds and HALT.  clock() of the SOC runs the *)
(* HDMA and the PPU on every cycle at normal speed and on every even cycle *)
(* at double speed; an HBlank DMA moves one block of 16 bytes per pulse of *)
(* hblank_cycle, and VRAM takes no writes while the PPU draws.             *)
(*                                                                         *)
(* A transfer is counted in blocks; their bytes are abstracted away.       *)
(* A definition Op_Fault is Op with a plausible mistake in it; nothing     *)
(* uses it.                                                                *)
(***************************************************************************)
EXTENDS Integers

CONSTANTS
    OamScanCycles, DrawHBlankCycles, DrawLengths, VisibleLines, Lines, CounterMod,
    MaxBlocks     \* 128, the blocks of the longest transfer

ASSUME HdmaConstants == MaxBlocks \in Nat \ {0}

VARIABLES
    \* the PPU
    lcdc_enable, lcdc_wnd_enable, stat_mode, ly, lyc, wy, cycles_mode, draw_length,
    stat_select, stat_lyc_eq_ly, stat_interrupt, check_interrupt,
    draw_window, window_line_counter, hblank_cycle, irq, drawn, wy_met, lcd_cut,
    \* the SOC
    hdma,            \* on, hblank_dma, initial and count (in blocks)
    cpu_halted, cpu_speed, cpu_speed_armed,
    odd,             \* the parity of cycles
    wrote,           \* a register was written since the last clock
    moved,           \* history: what clock_hdma() did in the last step
    block_in_line    \* history: a block was moved while LY was what it is

ppuVars == <<lcdc_enable, lcdc_wnd_enable, stat_mode, ly, lyc, wy, cycles_mode,
             draw_length, stat_select, stat_lyc_eq_ly, stat_interrupt, check_interrupt,
             draw_window, window_line_counter, hblank_cycle, irq, drawn, wy_met, lcd_cut>>
speedVars == <<cpu_speed, cpu_speed_armed>>
vars == <<ppuVars, hdma, cpu_halted, speedVars, odd, wrote, moved, block_in_line>>

\* The program leaves LYC and WY alone.
Ppu == INSTANCE Ppu WITH LycValues <- {}, WyValues <- {}

NoHdma == [on |-> FALSE, hblank_dma |-> FALSE, initial |-> 0, count |-> 0]

TypeOK ==
    /\ Ppu!TypeOK
    /\ hdma \in [on : BOOLEAN, hblank_dma : BOOLEAN,
                 initial : 0 .. MaxBlocks, count : 0 .. MaxBlocks]
    /\ cpu_halted \in BOOLEAN /\ cpu_speed \in BOOLEAN /\ cpu_speed_armed \in BOOLEAN
    /\ odd \in BOOLEAN /\ wrote \in BOOLEAN
    /\ moved \in {"nothing", "block", "all"}
    /\ block_in_line \in BOOLEAN

Init ==
    /\ Ppu!Init
    /\ hdma = NoHdma
    /\ cpu_halted = FALSE /\ cpu_speed = FALSE /\ cpu_speed_armed = FALSE
    /\ odd = FALSE /\ wrote = FALSE
    /\ moved = "nothing" /\ block_in_line = FALSE

----------------------------------------------------------------------------
HBlankBlock_InHBlank == hdma.on /\ hdma.hblank_dma /\ stat_mode = "HBlank" /\ ~cpu_halted
HBlankBlock_InHalt == hdma.on /\ hdma.hblank_dma /\ hblank_cycle /\ cpu_halted
\* clock_hdma() of an HBlank DMA: one block per pulse, unless the CPU is halted.
HBlankBlock == hdma.on /\ hdma.hblank_dma /\ hblank_cycle /\ ~cpu_halted

MovedBlock_Late == IF hdma.count = hdma.initial THEN NoHdma ELSE [hdma EXCEPT !.count = @ + 1]
MovedBlock == IF hdma.count + 1 = hdma.initial THEN NoHdma ELSE [hdma EXCEPT !.count = @ + 1]

clock_hdma ==
    \/ /\ HBlankBlock
       /\ hdma' = MovedBlock
       /\ moved' = "block"
    \/ /\ hdma.on /\ ~hdma.hblank_dma
       /\ hdma' = NoHdma
       /\ moved' = "all"
    \/ /\ ~HBlankBlock /\ ~(hdma.on /\ ~hdma.hblank_dma)
       /\ moved' = "nothing"
       /\ UNCHANGED hdma

\* clock_4_mhz(): every cycle, or every even one at double speed
Clocked == ~cpu_speed \/ ~odd

\* clock() of the SOC: the HDMA before the PPU
clock ==
    /\ \/ Clocked /\ clock_hdma /\ Ppu!clock
       \/ ~Clocked /\ moved' = "nothing" /\ UNCHANGED <<ppuVars, hdma>>
    /\ block_in_line' = (ly' = ly /\ (moved' = "block" \/ block_in_line))
    /\ odd' = ~odd
    /\ wrote' = FALSE
    /\ UNCHANGED <<cpu_halted, speedVars>>

\* A register write follows the clock that clock_write() runs first.
Write == ~wrote /\ wrote' = TRUE /\ UNCHANGED <<cpu_halted, cpu_speed, odd>>

WriteHdma5 ==
    /\ Write
    /\ \E n \in 1 .. MaxBlocks, hblank \in BOOLEAN :
          hdma' = [on |-> TRUE, hblank_dma |-> hblank, initial |-> n, count |-> 0]
    /\ moved' = "nothing" /\ block_in_line' = FALSE
    /\ UNCHANGED <<ppuVars, cpu_speed_armed>>

WriteLcdc ==
    /\ Write
    /\ \E enable \in BOOLEAN : Ppu!write_lcdc(enable, FALSE)
    /\ moved' = "nothing" /\ block_in_line' = FALSE
    /\ UNCHANGED <<hdma, cpu_speed_armed>>

WriteKey1 ==
    /\ Write
    /\ cpu_speed_armed' \in BOOLEAN
    /\ moved' = "nothing"
    /\ UNCHANGED <<ppuVars, hdma, block_in_line>>

\* STOP with a switch armed
cgb_speed_switch ==
    /\ cpu_speed_armed
    /\ cpu_speed' = ~cpu_speed /\ cpu_speed_armed' = FALSE
    /\ moved' = "nothing"
    /\ UNCHANGED <<ppuVars, hdma, cpu_halted, odd, wrote, block_in_line>>

set_cpu_halted ==
    /\ cpu_halted' = ~cpu_halted
    /\ moved' = "nothing"
    /\ UNCHANGED <<ppuVars, hdma, speedVars, odd, wrote, block_in_line>>

Next == clock \/ WriteHdma5 \/ WriteLcdc \/ WriteKey1 \/ cgb_speed_switch \/ set_cpu_halted

Spec == Init /\ [][Next]_vars /\ WF_vars(clock)

----------------------------------------------------------------------------
(* Properties *)

\* Whatever the speed, and switched on and off as the LCD may be, a block of
\* an HBlank DMA is never moved while the PPU draws, when VRAM drops it, and
\* two blocks of one transfer are never moved in the same line, although at
\* double speed the pulse that starts a block lasts for two cycles.
BlockLands == [][moved' = "block" => stat_mode # "Draw" /\ ~block_in_line]_vars

\* While an HBlank DMA is active some of it is left, so that HDMA5 reads as
\* the blocks left less one without running below zero.
BlocksLeft == hdma.on /\ hdma.hblank_dma => hdma.count < hdma.initial

\* An HBlank DMA ends, unless the program keeps starting others, or keeps
\* halting or the LCD off.
HdmaEnds ==
    \/ hdma.on ~> ~hdma.on
    \/ []<><<WriteHdma5>>_vars
    \/ []<>cpu_halted
    \/ []<>~lcdc_enable

\* The comment on clock_hdma(): HBlank DMA moves "16 bytes at a time at the
\* start of HBlank".
BlockInHBlank == [][moved' = "block" => stat_mode = "HBlank"]_vars
=============================================================================
