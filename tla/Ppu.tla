-------------------------------- MODULE Ppu --------------------------------
(***************************************************************************)
(* The picture processing unit, ppu/ppu.rs: the mode machine that walks    *)
(* through the lines of a frame, the LY = LYC comparison, the STAT         *)
(* interrupt line, the window latch and the LCD on/off switch.  One action *)
(* per method the bus calls: clock() once per 4 MHz tick, and the register *)
(* writes the CPU makes between two clocks.                                *)
(*                                                                         *)
(* Pixels are abstracted away: what mode_draw() leaves behind for control  *)
(* is the length of mode 3 (any member of DrawLengths), whether the window *)
(* was drawn, and which line of the frame buffer it filled.                *)
(*                                                                         *)
(* A definition Op_Fault is Op with a plausible mistake in it; nothing     *)
(* uses it.  Putting it in the place of Op shows what the properties catch.*)
(***************************************************************************)
EXTENDS Integers

CONSTANTS
    OamScanCycles,      \* CYCLES_PER_OAM_SCAN = 20
    DrawHBlankCycles,   \* the 94 clocks that modes 3 and 0 share
    DrawLengths,        \* the values calc_mode3_len() can return
    VisibleLines,       \* 144
    Lines,              \* 154
    CounterMod,         \* 2^16: width of window_line_counter and cycles_mode
    LycValues,          \* the LYC values the CPU writes, a set of bytes
    WyValues            \* the WY values the CPU writes, a set of bytes

ASSUME PpuConstants ==
    /\ OamScanCycles \in Nat \ {0}
    /\ DrawHBlankCycles \in Nat
    /\ VisibleLines \in Nat \ {0}
    /\ Lines \in Nat
    /\ VisibleLines < Lines
    /\ CounterMod \in Nat
    /\ OamScanCycles + DrawHBlankCycles < CounterMod

\* mode 3 always leaves at least one clock for mode 0 (see Mode3)
ASSUME DrawLengthsFit == DrawLengths \subseteq 1 .. DrawHBlankCycles - 1

ASSUME RegisterValues == LycValues \subseteq Nat /\ WyValues \subseteq Nat

LineCycles == OamScanCycles + DrawHBlankCycles    \* CYCLES_PER_VBLANK_LINE

VARIABLES
    lcdc_enable, lcdc_wnd_enable,
    stat_mode, ly, lyc, wy,
    cycles_mode, draw_length,
    stat_select,        \* the four stat_*_select bits, as a set
    stat_lyc_eq_ly, stat_interrupt, check_interrupt,
    draw_window, window_line_counter,
    hblank_cycle,       \* pulse that lets the HDMA move a block
    irq,                \* interrupts the last clock() put in its ClockContext
    drawn,              \* history: lines drawn into rt since the last vsync
    wy_met,             \* history: WY = LY was found true in this frame
    lcd_cut             \* history: the LCD was off at some time since VBlank

lineVars == <<stat_mode, ly, cycles_mode, draw_length>>
statVars == <<stat_interrupt, check_interrupt>>
windowVars == <<draw_window, window_line_counter>>
histVars == <<drawn, wy_met, lcd_cut>>
vars == <<lcdc_enable, lcdc_wnd_enable, lineVars, lyc, wy, stat_select,
          stat_lyc_eq_ly, statVars, windowVars, hblank_cycle, irq, histVars>>

Modes == {"OamScan", "Draw", "HBlank", "VBlank"}
Selects == {"LYC", "MODE2", "MODE1", "MODE0"}

RegisterType ==
    /\ lcdc_enable \in BOOLEAN
    /\ lcdc_wnd_enable \in BOOLEAN
    /\ lyc \in Nat
    /\ wy \in Nat
    /\ stat_select \subseteq Selects
    /\ hblank_cycle \in BOOLEAN

BeamType ==
    /\ stat_mode \in Modes
    /\ ly \in 0 .. Lines - 1
    /\ cycles_mode \in 0 .. CounterMod - 1
    /\ draw_length \in {0} \cup DrawLengths

StatType ==
    /\ stat_lyc_eq_ly \in BOOLEAN
    /\ stat_interrupt \in BOOLEAN
    /\ check_interrupt \in BOOLEAN
    /\ irq \subseteq {"VBLANK", "LCD"}

WindowType ==
    /\ draw_window \in BOOLEAN
    /\ window_line_counter \in 0 .. CounterMod - 1
    /\ drawn \subseteq 0 .. VisibleLines - 1
    /\ wy_met \in BOOLEAN
    /\ lcd_cut \in BOOLEAN

TypeOK == RegisterType /\ BeamType /\ StatType /\ WindowType

----------------------------------------------------------------------------
\* PPU::new(): the state the boot ROM leaves, the LCD on in mode 2 of line 0.
Init ==
    /\ lcdc_enable = TRUE
    /\ lcdc_wnd_enable = FALSE
    /\ stat_mode = "OamScan"
    /\ ly = 0
    /\ lyc = 0
    /\ wy = 0
    /\ cycles_mode = OamScanCycles
    /\ draw_length = 0
    /\ stat_select = {}
    /\ stat_lyc_eq_ly = TRUE
    /\ stat_interrupt = FALSE
    /\ check_interrupt = FALSE
    /\ draw_window = FALSE
    /\ window_line_counter = 0
    /\ hblank_cycle = FALSE
    /\ irq = {}
    /\ drawn = {}
    /\ wy_met = FALSE
    /\ lcd_cut = FALSE

----------------------------------------------------------------------------
\* The level of the STAT line: some selected condition is true.
StatLevel(select, mode, eq) ==
    \/ "LYC" \in select /\ eq
    \/ "MODE2" \in select /\ mode = "OamScan"
    \/ "MODE1" \in select /\ mode = "VBlank"
    \/ "MODE0" \in select /\ mode = "HBlank"

\* handle_stat_interrupt(), run at the end of a clock that raised `others`:
\* a rising level raises LCD, the level is remembered, the request cleared.
handle_stat_interrupt(others) ==
    LET level == StatLevel(stat_select, stat_mode', stat_lyc_eq_ly')
    IN  /\ irq' = others \cup {i \in {"LCD"} : level /\ ~stat_interrupt}
        /\ stat_interrupt' = level
        /\ check_interrupt' = FALSE

\* A clock that does not change mode looks at the line only when a register
\* write asked for it.
StatIfRequested ==
    \/ /\ check_interrupt
       /\ handle_stat_interrupt({})
    \/ /\ ~check_interrupt
       /\ irq' = {}
       /\ UNCHANGED statVars

CyclesLeft_Saturating == IF cycles_mode <= 1 THEN 1 ELSE cycles_mode - 1
\* cycles_mode - 1 in a u16
CyclesLeft == IF cycles_mode = 0 THEN CounterMod - 1 ELSE cycles_mode - 1

\* clock() with the LCD off
ClockOff ==
    /\ ~lcdc_enable
    /\ hblank_cycle' = FALSE
    /\ UNCHANGED <<lineVars, stat_lyc_eq_ly, windowVars, histVars>>
    /\ StatIfRequested
    /\ UNCHANGED <<lcdc_enable, lcdc_wnd_enable, lyc, wy, stat_select>>

\* clock() inside a mode
ClockTick ==
    /\ lcdc_enable
    /\ CyclesLeft > 0
    /\ cycles_mode' = CyclesLeft
    /\ hblank_cycle' = FALSE
    /\ UNCHANGED <<stat_mode, ly, draw_length, stat_lyc_eq_ly, windowVars, histVars>>
    /\ StatIfRequested
    /\ UNCHANGED <<lcdc_enable, lcdc_wnd_enable, lyc, wy, stat_select>>

\* clock() at the end of a mode; each action below adds what update_mode()
\* does on leaving the mode.
ClockEdge(mode) ==
    /\ lcdc_enable
    /\ CyclesLeft = 0
    /\ stat_mode = mode
    /\ UNCHANGED <<lcdc_enable, lcdc_wnd_enable, lyc, wy, stat_select>>

\* the increment of a u16
IncCounter(n) == IF n + 1 = CounterMod THEN 0 ELSE n + 1

\* Mode 2 ends: latch the window, draw the line (mode_draw()), enter mode 3.
\* `shown` says that wx and lcdc_bit_0 let draw_window() reach its drawing
\* loop, `len` is what calc_mode3_len() returns.
LeaveOamScan ==
    /\ ClockEdge("OamScan")
    /\ draw_window' = (draw_window \/ wy = ly)
    /\ \E shown \in BOOLEAN :
          window_line_counter' =
              IF shown /\ lcdc_wnd_enable /\ draw_window'
              THEN IncCounter(window_line_counter)
              ELSE window_line_counter
    /\ \E len \in DrawLengths : cycles_mode' = len /\ draw_length' = len
    /\ stat_mode' = "Draw"
    /\ hblank_cycle' = FALSE
    /\ drawn' = drawn \cup {ly}
    /\ wy_met' = (wy_met \/ wy = ly)
    /\ UNCHANGED <<ly, stat_lyc_eq_ly, lcd_cut>>
    /\ handle_stat_interrupt({})

HBlankLength_Fixed == 1
HBlankLength == DrawHBlankCycles - draw_length

\* Mode 3 ends: the rest of the line is mode 0.
LeaveDraw ==
    /\ ClockEdge("Draw")
    /\ cycles_mode' = HBlankLength
    /\ stat_mode' = "HBlank"
    /\ hblank_cycle' = FALSE
    /\ UNCHANGED <<ly, draw_length, stat_lyc_eq_ly, windowVars, histVars>>
    /\ handle_stat_interrupt({})

VBlankStarts == ly + 1 >= VisibleLines

EndWindow_CounterKept == draw_window' = FALSE /\ UNCHANGED window_line_counter
\* The window starts afresh in the next frame.
EndWindow == draw_window' = FALSE /\ window_line_counter' = 0

\* Mode 0 ends: the next line, which is either the first line of VBlank
\* (vsync(), VBLANK interrupt, window state reset) or another mode 2.
LeaveHBlank ==
    /\ ClockEdge("HBlank")
    /\ hblank_cycle' = TRUE
    /\ ly' = ly + 1
    /\ stat_lyc_eq_ly' = (ly' = lyc)
    /\ UNCHANGED draw_length
    /\ \/ /\ VBlankStarts
          /\ EndWindow
          /\ cycles_mode' = LineCycles
          /\ stat_mode' = "VBlank"
          /\ drawn' = {}
          /\ wy_met' = FALSE
          /\ lcd_cut' = FALSE
          /\ handle_stat_interrupt({"VBLANK"})
       \/ /\ ~VBlankStarts
          /\ cycles_mode' = OamScanCycles
          /\ stat_mode' = "OamScan"
          /\ UNCHANGED <<windowVars, histVars>>
          /\ handle_stat_interrupt({})

FrameEnds == ly + 1 >= Lines

StartFrame_InHBlank == ly' = 0 /\ stat_mode' = "HBlank" /\ cycles_mode' = OamScanCycles
StartFrame == ly' = 0 /\ stat_mode' = "OamScan" /\ cycles_mode' = OamScanCycles

\* A line of VBlank ends; after the last one a new frame starts.
LeaveVBlankLine ==
    /\ ClockEdge("VBlank")
    /\ \/ FrameEnds /\ StartFrame
       \/ /\ ~FrameEnds
          /\ ly' = ly + 1
          /\ stat_mode' = "VBlank"
          /\ cycles_mode' = LineCycles
    /\ stat_lyc_eq_ly' = (ly' = lyc)
    /\ hblank_cycle' = FALSE
    /\ UNCHANGED <<draw_length, windowVars, histVars>>
    /\ handle_stat_interrupt({})

update_mode == LeaveOamScan \/ LeaveDraw \/ LeaveHBlank \/ LeaveVBlankLine

clock == ClockOff \/ ClockTick \/ update_mode

----------------------------------------------------------------------------
(* Register writes.  clock_write() of the SOC clocks the system before it  *)
(* writes; in double speed mode, where only every second of those clocks   *)
(* reaches the PPU, several writes can fall between two clocks of the PPU. *)

reset_KeepsCountdown ==
    /\ ly' = 0
    /\ stat_mode' = "HBlank"
    /\ UNCHANGED <<cycles_mode, draw_length>>
\* reset(): line 0, mode 0 with the 20 clocks of a mode 2 to go.  The window
\* latch and its line counter are left as they are.
reset ==
    /\ ly' = 0
    /\ cycles_mode' = OamScanCycles
    /\ draw_length' = 0
    /\ stat_mode' = "HBlank"

write_lcdc(enable, wnd) ==
    /\ lcdc_enable' = enable
    /\ lcdc_wnd_enable' = wnd
    /\ \/ /\ lcdc_enable /\ ~enable
          /\ reset
          /\ check_interrupt' = TRUE
          /\ lcd_cut' = TRUE
          /\ wy_met' = FALSE
          /\ UNCHANGED <<stat_lyc_eq_ly, drawn>>
       \/ /\ ~lcdc_enable /\ enable
          /\ stat_lyc_eq_ly' = (ly = lyc)
          /\ check_interrupt' = TRUE
          /\ UNCHANGED <<lineVars, histVars>>
       \/ /\ lcdc_enable = enable
          /\ UNCHANGED <<lineVars, stat_lyc_eq_ly, check_interrupt, histVars>>
    /\ UNCHANGED <<lyc, wy, stat_select, stat_interrupt, windowVars, hblank_cycle, irq>>

write_stat_NoCheck(select) ==
    /\ stat_select' = select
    /\ UNCHANGED <<lcdc_enable, lcdc_wnd_enable, lineVars, lyc, wy, stat_lyc_eq_ly,
                   statVars, windowVars, hblank_cycle, irq, histVars>>
write_stat(select) ==
    /\ stat_select' = select
    /\ check_interrupt' = TRUE
    /\ UNCHANGED <<lcdc_enable, lcdc_wnd_enable, lineVars, lyc, wy, stat_lyc_eq_ly,
                   stat_interrupt, windowVars, hblank_cycle, irq, histVars>>

\* With the LCD off the comparison is not redone.
write_lyc(data) ==
    /\ lyc' = data
    /\ \/ /\ lcdc_enable
          /\ stat_lyc_eq_ly' = (ly = data)
          /\ check_interrupt' = TRUE
       \/ /\ ~lcdc_enable
          /\ UNCHANGED <<stat_lyc_eq_ly, check_interrupt>>
    /\ UNCHANGED <<lcdc_enable, lcdc_wnd_enable, lineVars, wy, stat_select,
                   stat_interrupt, windowVars, hblank_cycle, irq, histVars>>

write_wy(data) ==
    /\ wy' = data
    /\ UNCHANGED <<lcdc_enable, lcdc_wnd_enable, lineVars, lyc, stat_select,
                   stat_lyc_eq_ly, statVars, windowVars, hblank_cycle, irq, histVars>>

RegisterWrite ==
    \/ \E enable, wnd \in BOOLEAN : write_lcdc(enable, wnd)
    \/ \E select \in SUBSET Selects : write_stat(select)
    \/ \E data \in LycValues : write_lyc(data)
    \/ \E data \in WyValues : write_wy(data)

Next == clock \/ RegisterWrite

\* The CPU clocks the system on every step it takes, halted or not.
Spec == Init /\ [][Next]_vars /\ WF_vars(clock)
----------------------------------------------------------------------------
(* Properties *)

\* VBlank is exactly the lines from VisibleLines on: update_mode() changes
\* stat_mode and ly in different branches, reset() changes both.
ModeMatchesLine == stat_mode = "VBlank" <=> ly >= VisibleLines

\* The countdown never runs past zero: at every clock it is at least 1 and at
\* most what is left of the mode (the debug_assert at the end of clock(), and
\* the u16 subtractions `cycles_mode -= 1` and `94 - draw_length`).
CyclesInMode ==
    /\ cycles_mode >= 1
    /\ stat_mode = "OamScan" => cycles_mode <= OamScanCycles
    /\ stat_mode = "Draw" => draw_length \in DrawLengths /\ cycles_mode <= draw_length
    /\ stat_mode = "HBlank" => \/ cycles_mode <= DrawHBlankCycles - draw_length
                               \/ cycles_mode <= OamScanCycles /\ ly = 0
    /\ stat_mode = "VBlank" => cycles_mode <= LineCycles

\* While the LCD is on, STAT's coincidence bit agrees with LY and LYC after
\* every clock and every write, although each writer updates it by itself.
LycFresh == lcdc_enable => (stat_lyc_eq_ly <=> ly = lyc)

\* The remembered level of the STAT line is the present level unless a check
\* is already requested: no write that moves the line (LCDC, STAT, LYC) and no
\* mode change escapes the edge detector.
LevelFresh ==
    ~check_interrupt => (stat_interrupt <=> StatLevel(stat_select, stat_mode, stat_lyc_eq_ly))

\* Neither the coincidence bit, which the level is computed from, nor the level
\* that the edge detector remembers is ever stale.
StatLineFresh == LycFresh /\ LevelFresh

\* In a frame during which the LCD was never switched off, draw_window says
\* that WY = LY was met in this very frame.
WindowLatch == ~lcd_cut => (draw_window <=> wy_met)

\* Lines of the current frame whose drawing is over.
LinesDone ==
    CASE stat_mode = "OamScan" -> ly
      [] stat_mode = "VBlank" -> 0
      [] OTHER -> ly + 1

\* In such a frame the window never runs ahead of the beam: it has shown at
\* most one line per line drawn, so fetching window line window_line_counter
\* stays inside the tile map.
WindowLineBound == ~lcd_cut => window_line_counter <= LinesDone

\* In such a frame the lines drawn are the lines the beam has passed.
DrawnSoFar == ~lcd_cut => drawn = 0 .. LinesDone - 1

\* Every frame handed to vsync() without the LCD having been cut has had each
\* of its lines drawn since the previous one.
FrameComplete ==
    [][stat_mode = "HBlank" /\ stat_mode' = "VBlank" /\ ~lcd_cut
          => drawn = 0 .. VisibleLines - 1]_vars

\* With the LCD off the PPU is parked where reset() left it.
OffParked ==
    ~lcdc_enable => /\ stat_mode = "HBlank" /\ ly = 0
                    /\ cycles_mode = OamScanCycles
                    /\ lcd_cut

\* The beam position that the mode, its countdown and LY stand for.
Dot ==
    CASE stat_mode = "OamScan" -> OamScanCycles - cycles_mode
      [] stat_mode = "Draw" -> OamScanCycles + draw_length - cycles_mode
      [] OTHER -> LineCycles - cycles_mode

Timing == INSTANCE LcdTiming WITH
    DotsPerLine <- LineCycles, LinesPerFrame <- Lines, VBlankLine <- VisibleLines,
    ParkDot <- DrawHBlankCycles,
    on <- lcdc_enable, line <- ly, dot <- Dot, vblank <- ("VBLANK" \in irq)

\* The mode machine implements the dot clock of LcdTiming: every line takes
\* LineCycles clocks however long mode 3 was, and VBLANK is raised once per
\* frame, at the start of line VisibleLines.
TimingSpec == Timing!Spec

\* VBLANK is raised again and again as long as the LCD is not switched off
\* again and again (vsync(), the save timer and the exit all hang on it).
VBlankRecurs == []<>("VBLANK" \in irq) \/ []<>(~lcdc_enable)

============================================================================
