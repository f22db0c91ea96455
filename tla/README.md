# Zenith.gb in TLA+

Zenith.gb is an emulator of the Game Boy (DMG) and Game Boy Color (CGB) in
Rust. This directory holds a model of it: TLA+ modules translated from the
source, TLC configurations that check them on small instances, and theorems
checked by TLAPS. Paths like `ppu/ppu.rs` are relative to `src/src/` of the
repository.

## 1. The system

### 1.1 How it runs

`bin.rs` holds the UI thread's loop over two states of `lib.rs`, *idle* (no game)
and *running*. A running game is a second thread, started by `run_emulator()`:
`Gameboy::run()` in `gameboy/gameboy.rs` loops over `CPU::step()` until
`process_events()` says stop. The CPU owns the SOC and the SOC every device; the
only clock of the machine is a call of `SOC::clock()`, made by the CPU once per
M-cycle, before each access to memory and for each internal cycle. `clock()`
runs the devices in a fixed order: OAM DMA, VRAM DMA, PPU, timer, MBC, APU,
serial port; VRAM DMA, PPU, MBC and APU only on every second call at double
speed. So inside the emulator thread everything is sequential, and what
interleaves is *the program's accesses with the devices' clocks*: any access may
fall on any clock, in the middle of anything a device is doing. Between the
threads there are three bounded channels (`mpsc::sync_channel`): input events UI
-> emulator (10), frames emulator -> UI (1), sample blocks emulator -> SDL's audio
callback (1). The emulator also writes the save file, which the next emulator
thread or the next process reads.

### 1.2 Components

| Component | State | Operations | Interacts with |
|---|---|---|---|
| CPU step (`cpu/cpu.rs`) | registers, IME and its delayed EI, halt flag | fetch, dispatch of interrupts, EI/DI/RETI, HALT | calls `clock()` of the SOC inside every instruction; reads IE/IF, which devices set |
| CPU arithmetic (`cpu/inst_impl.rs`) | A and F, HL, SP | ALU, DAA, shifts and rotations, bit instructions | flags of one instruction feed the next |
| CPU jumps, calls, stack (`cpu/cpu.rs`, `cpu/inst_impl.rs`) | PC, SP, the prefetched opcode | jumps, calls, returns, pushes, pops | bus; a push can hit IE or IF |
| Bus, OAM DMA (`soc/soc.rs`) | WRAM and its bank, active and requested DMA, IE, IF | `clock_read`, `clock_write`, DMA step | routes to devices; asks the PPU whether OAM and VRAM are locked |
| VRAM DMA, speed switch (`soc/soc.rs`) | source, destination, length, mode of the transfer; speed | HDMA1-5, `clock_hdma`, `cgb_speed_switch` | PPU's HBlank pulse, CPU's halt flag |
| PPU timing (`ppu/ppu.rs`) | LCDC, STAT, LY, LYC, mode and its countdown, STAT line level, window latch and counter | `clock`, `update_mode`, `reset`, register writes | raises VBLANK and STAT, sends frames |
| PPU pixels (`ppu/ppu.rs`) | OAM, VRAM, palettes, line buffers | OAM scan, fetch, sprites | length of mode 3 goes back to timing |
| Timer (`timer/timer.rs`) | DIV (16 bit), TIMA, TMA, TAC, remembered signal, pending overflow | `clock`, four writes | raises TIMER |
| Serial port (`serial/serial.rs`) | SB, SC, bits left, cycles | `clock`, `finish_transmission`, writes of SB, SC | raises SERIAL; hands bytes to the cable |
| Printer (`serial/printer.rs`) | packet parser, image RAM, status, page | `send_byte`, print | called by the serial port at the last bit |
| MBC1/2/3/5 (`mbc/`) | bank registers, RAM, RAM enable | reads and writes of 0000-7FFF, A000-BFFF | load and save RAM to a file |
| RTC (`mbc/mbc3.rs`) | five registers, latched copy, cycles left | clock, latch, select, writes | in MBC3's RAM window |
| Save file (`mbc/mbc.rs`, `soc/soc.rs`) | file on disk, time of the last save | `read_save` at boot, `write_save` at VBlank and at exit | crosses processes |
| APU (`apu/`) | frame sequencer, four channels with length, envelope, sweep, frequency timer, wave RAM | `clock`, register writes, power switch | sends blocks of samples |
| Joypad (`soc/soc.rs`) | buttons, selection | `input_update`, read/write | raises JOYPAD |
| Front end (`lib.rs`, `bin.rs`, `gameboy/gameboy.rs`) | UI state, threads, channels | poll, send, receive, change of ROM, quit | everything above |
| Cartridge header, RomOnly, UI drawing, register constants, benchmarks | | | not modelled, see section 8 |

### 1.3 What is hard here

* **An access in the clock of a change.** A register write calls `clock()` first,
  then acts on what the clock left. TIMA written in the clock of its reload, OAM
  written in the clock in which mode 2 begins or a DMA starts, LCDC written at the
  end of a line.
* **State kept in two places that are changed in different handlers.** Mode and
  LY; STAT's coincidence bit; the level of the STAT line and the remembered one;
  the sequencer's step and each length counter's copy of it; the CPU's halt flag
  and the SOC's; a button state in SDL and in the machine.
* **State that survives a reset it should not, or the reverse.** LCD off,
  `NR52` off, a trigger, a finished page, a change of ROM.
* **Counters of unsigned type decremented at once**: `cycles_mode -= 1`,
  `period_timer -= 1`, `94 - draw_length`, HDMA5's remaining length.
* **Threads over bounded channels**: who waits for whom while a channel is full;
  a join with a peer blocked in a send; a process that ends while another thread
  writes a file; a thread that panics while another waits for it.
* **Flags between instructions**: the half carry of one instruction matters two
  instructions later, in DAA.

Every place where one of these bites is listed with its line under `hazards` in
`PROJECT.json`, with the properties that would catch it going wrong.

### 1.4 What makes each component correct

* PPU: beam position and mode agree, a line always takes the same number of
  clocks, each frame has all its lines, one VBLANK per frame; no change of the
  STAT line escapes the edge detector; the window never outruns the beam.
* Timer: each falling edge counts once, at the selected rate, whatever is
  written when; an overflow reloads TMA.
* CPU step: no instruction runs over a pending enabled interrupt but the one after
  an EI; no request is lost; HALT ends.
* Arithmetic: the flags of one instruction are what the next needs.
* Bus: a DMA is never mixed with other writes and copies all its bytes; PPU locks
  hold.
* VRAM DMA: one block per line, none into a VRAM that drops it; it ends.
* Serial and printer: each byte crosses once, in order; the printer answers by
  its protocol.
* MBC: the bank seen is the one the registers name; RAM keeps what it was given.
* CPU flow: a return leads to the instruction that was left, however interrupts
  and calls are nested.
* Pixels: a line shows what the tile maps, the window and the sprites say, with
  their priorities; mode 3 pays for each sprite once and leaves room for mode 0.
* RTC: the five registers are one counter of seconds.
* APU: timers never underflow; a note with a length ends after that length; a
  trigger plays; a volume settles; the noise has its full length.
* Front end: no circular wait, no input lost, no save lost but where the process
  ends inside of it; the window comes back from each of its waits while the game runs.

## 2. Modules and the code

A clock of the model is a call of the device's `clock()`; a register write is the
whole handler after the clock it begins with, so that a write and a clock may be
taken in any order and any number, a superset of what any program can do unless
the module says otherwise. Definitions keep the names of the source. History
variables (marked `history` at their declaration) are read by properties only.
In every module a definition `Op_Fault` is `Op` with a plausible mistake; nothing
uses it. It stands for a bug the properties are known to catch (section 5).

| Module | Models | How state and actions correspond |
|---|---|---|
| `Ppu` | `ppu/ppu.rs` `clock`, `update_mode`, `reset`, writes of LCDC, STAT, LYC, WY | variables are the fields; `clock` is split by what it finds (`ClockOff`, `ClockTick`, and one `Leave...` per mode) |
| `LcdTiming` | nothing: the abstract dot clock | refined by `Ppu` (`Timing!Spec`): the dot is computed from mode and countdown |
| `Timer` | `timer/timer.rs`, all of it | the device as one record; each handler a function from record to record, as the code composes them |
| `Mode3Length` | `ppu/ppu.rs` `calc_mode3_len` | one iteration of its loop is a step |
| `Scanline` | `ppu/ppu.rs` OAM scan, background, window, sprites of one line | composed with `Mode3Length`; a step is a tile or a sprite painted, or a change of registers or OAM between the modes; a pixel is its place in VRAM; the history `seen` keeps OAM, obj_size and OPRI as the scan found them |
| `CpuStep` | `cpu/cpu.rs` `step`, `handle_interrupt`, EI, DI, RETI, HALT; `active_interrupts`, `process_events` | `phase` is the place inside `step()`; between two phases lies one `clock()`, which may raise any interrupts; an instruction is what it does to IME, halt, IE and IF |
| `Program` | PC, SP, the stack and the prefetch of `cpu/cpu.rs` and the jumps, calls, returns, pushes and pops of `inst_impl.rs` | each action is one of `CpuStep` with what it does to PC, SP and memory; the history `frames` remembers the return addresses that are still intact |
| `Alu` | `cpu/inst_impl.rs`: arithmetic, logic, DAA, shifts, rotations, BIT/SET/RES, ADD HL, ADD SP | operators on the record of A and flags |
| `MultiByte` | the routines programs are made of | each step one instruction of `Alu`; three bytes at most |
| `Bus` | `soc/soc.rs` `clock_read`, `clock_write`, `clock_dma`, SVBK, VBK, DMA | memory one cell per page of 4 KiB, OAM a cell per byte; the PPU's mode may change in any clock |
| `Hdma` | `soc/soc.rs` `clock_hdma`, HDMA5, `cgb_speed_switch`, `clock_4_mhz` | composed with `Ppu` (INSTANCE), whose clock and LCDC writes it takes; a transfer is counted in blocks |
| `Frontend` | `bin.rs`, `lib.rs`, `gameboy.rs`, `vsync`, `process_events`, `input_update`, save files | `ui` and `emu` are the program counters of the two threads, at the calls that may block; one action per blocking call; `release` is the build: `panic = "abort"` and no `debug_assert` in a released one; the emulator thread may panic while it loads a ROM or runs it |
| `Printer` | `serial/printer.rs` `send_byte`, `reset`, `print` up to its indexing | the parser's fields; the sizes of a page are constants |
| `Serial` | `serial/serial.rs` with the printer plugged in, and a program that prints | composed with `Printer` by EXTENDS; the program may switch the port off and on at any bit and may send a stray byte between two packets |
| `PrinterJob` | nothing: the abstract printer | one action per packet; refined by `Serial` |
| `Banks` | `mbc/mbc1.rs`, `mbc2.rs`, `mbc3.rs`, `mbc5.rs` | all controllers in one module; what a register does depends on `hdr.kind` |
| `Rtc` | the clock of `mbc/mbc3.rs` | the registers as a record; the clock, the latch and the writes are actions |
| `Cartridge` | how a program reaches that clock | composed of `Banks` and `Rtc`: the writes that select a register or a bank of RAM, and the latch |
| `Length`, `Sweep`, `Envelope` | `apu/lengthcounter.rs`, `apu/sweep.rs`, `apu/envelope.rs` | the fields and, as operators, the handlers of the devices; none is a specification by itself |
| `Voice` | `apu/apu.rs` frame sequencer and NR52, the DAC and NRx1, NRx2, NRx4 of a channel | composed with `Length`; what all four channels share |
| `Channel1`, `Channel2` | `apu/channel1.rs` with NR10-NR14, `apu/channel2.rs` with NR21-NR24 | `Voice` with `Sweep`, `Voice` with `Envelope`; one action per step of the sequencer and per register write |
| `Noise` | the shift register of `apu/channel4.rs` | its clock, trigger and width |
| `Apu` | `apu/apu.rs` | one of the channels at a time: they share the sequencer and the power switch, which no channel moves |
| `...Proofs` | | theorems, section 6 |
| `MC...` | | values for TLC's constants |

Compositions: `Hdma` = SOC + `Ppu`; `Serial` = port + program + `Printer`;
`Program` = flow of control + `CpuStep`; `Cartridge` = `Banks` + `Rtc`;
`Scanline` = painting + `Mode3Length`; `Channel1` = `Voice` (with `Length`) + `Sweep`,
`Channel2` = `Voice` + `Envelope`; `MultiByte` = program + `Alu`.
Refinements: `Ppu` => `LcdTiming`, `Serial` => `PrinterJob`, `Program` => `CpuStep` (proved).

## 3. Runs

Nine passing runs and three that TLC must refute; the bounds are in the `.cfg` and
`MC` modules. Safety and liveness of a module are checked in one run, under the
fairness of section 7.

| Run | Question | What it shows |
|---|---|---|
| `ppu` | Can any order of writes and clocks upset the beam, the STAT line or the window, or stop the machine? | No: `CyclesInMode`, `StatLineFresh`, `WindowLineBound`; the PPU implements `LcdTiming` (`TimingSpec`); a picture handed over without an LCD cut has all its lines (`FrameComplete`); VBLANK recurs unless the LCD is switched off for ever or again and again (`VBlankRecurs`) |
| `devices` | Timer: is an edge ever lost, doubled or mistimed? Bus: can CPU writes mix with an OAM DMA, or slip past the PPU's locks? | No: `EdgesOnce`, `CountsAtRate`, `ReloadedFromTma`; no: `DmaExclusive`, `LockedWhileDrawing`. One run for both: they share no state, and a behavior shows one of the two |
| `cpu_step` | Can devices, pushes over IE/IF, EI and HALT confuse a dispatch, or a return lead astray? | An EI can, and nothing else: judged by IME as the instruction finds it, after the delayed EI of the same step, one instruction runs over an enabled interrupt after an EI that found IME clear, and the first instruction of a handler starts with IME set after an EI that found it set (`cpu.rs:209`; `InstructionMasked`). A dispatch is cancelled only by its own push (`CancelOnlyByPush`), a request is lost only to the program's own write (`RequestsKept`), HALT ends, for the CPU and in the SOC's copy of the flag (`HaltEnds`), and a return leads to the instruction that was to be executed when its address was pushed, also where PC wraps (`ReturnsWhereLeft`) |
| `algorithms` | Do the flags of one instruction serve the next; is a line what its maps and sprites say? | Yes, over all pairs of two-byte numbers of ten critical bytes and all flags left over (`RoutinesExact`, one conjunct per group of routines); over all scrolls, window positions and priorities of a small screen background and window show the map (`GroundShown`) and the uppermost sprite that decides is shown (`SpritesShown`; on a CGB one that the background hides does not decide, finding 3), also when registers or OAM change after the scan; mode 3 counts each sprite once (`FetchedOnce`) |
| `sprite_mask` | Does a sprite that the background hides mask those below it, as the comment says? | **Violated**, finding 3: not on a CGB |
| `hdma` | Does an HBlank DMA move one block per line into a VRAM that takes it, at both speeds, over HALT and LCD switches, and end? | Yes: `BlockLands`; HDMA5 never reads below zero (`BlocksLeft`); it ends unless the program restarts it, halts or switches the LCD off for ever (`HdmaEnds`) |
| `hdma_start` | Does it run "at the start of HBlank"? | **Violated**, finding 2 |
| `frontend` | Circular waits, lost input, lost saves, a frozen window? | No circular wait, as long as one pass over the event pump has no more input events than the channel holds (`NoCircularWait`). The machine's buttons become what was reported since it was started (`InputFaithful`): a key held over a change of ROM is up in the new machine, since `lib.rs:373` ignores its repeats. The file holds the RAM when a ROM has been changed (`SavedAtClose`; Quit and a panic save nothing), and the last complete save or more at any other time, but while it is written, and for good when the process ends inside that write (`SaveForward`). Every blocking call of the UI returns, unless the program keeps the LCD off or, in a build that unwinds, the emulator thread has panicked and the window waits for its frame (`UiResponds`, `Hung`) |
| `frontend_batch` | ... and with more events than that? | **Violated**, finding 1: both threads wait for ever |
| `serial` | Does printing survive the port being switched off in the middle of any bit, and stray bytes? | The first, yes: each byte crosses once (`Aligned`), packet by packet the program sees `PrinterJob` (`JobSpec`), and a packet is answered (`PacketAnswered`) unless the program looks away for ever, or prints a page that is not whole rows, on which `print()` panics. A stray byte between two packets makes the printer deaf for good, as `PrinterJob` says of it |
| `banks` | Is the bank the program sees the one its registers name, and does the clock count seconds? | Yes for every controller, size and order of writes (`RomMapped`), RAM keeps what was written to a bank (`RamKept`), and MBC3's clock adds one to its time after a full second, whatever is selected, latched, halted or set in between (`SecondAdded`) |
| `apu` | Can a channel play for ever on a spent counter, without power, or beyond its frequencies; does a trigger play, a note last and end, a volume settle, and has the noise its full length? | No (`PlayingHasClocks`, `SweepSafe`) and yes (`NoteLasts`: a trigger plays, with the one exception stated in `Played`, and a note of n clocks lasts 2n - 1 or 2n - 2 steps of the sequencer, unless the counter's copy of the step is stale; `NoteEnds`, `EnvelopeSettles`, `NoiseMaximal` unless its width is changed while it plays) |

Every passing run fires all the actions of its next-state relation.

### Findings

1. `lib.rs:421` A pass over the event pump sends each input event with a blocking
   `send` before receiving a frame; with 11 events the UI waits for the emulator,
   which waits for the UI in `vsync()`. Run `frontend_batch`.
2. `ppu.rs:302` The HBlank pulse comes on *leaving* HBlank, so blocks are moved in
   mode 2 of the next line or in VBlank, not "at the start of HBlank" as the
   comment at `soc.rs:685` says. Run `hdma_start`; `hdma` shows that they still land.
3. `ppu.rs:948` The comment at `ppu.rs:939` says that a sprite behind the background
   masks the sprites below it. The code does so on a DMG; on a CGB, where it has a
   `@todo`, a lower sprite shows through. Run `sprite_mask`. `SpritesShown` describes
   what is shown on both models, and `MaskedButOnCgb` (proved) says that the rule of the
   comment holds everywhere else.

Also seen while modelling, as the models show the code's behaviour there, without
a run of their own:

* `ppu.rs:216` `reset()` keeps `draw_window` and `window_line_counter`, so a frame
  after the LCD was switched off and on may show a window whose WY was not met in
  it (the comment at `ppu.rs:80` says "at some point during current frame").
* `bin.rs:76` On Quit the process ends without joining the emulator thread,
  perhaps inside `fs::write`, and without a save. The last complete save is gone
  then: the next launch reads a file cut short, on whose length the assertion of
  `mbc.rs:50` panics, or which a released build takes as the RAM and writes back.
* `lib.rs:439` `main()` keeps a sender of the frame channel (`bin.rs:21`), so in a build
  that unwinds the window waits for ever once the emulator thread has panicked: on a
  bad ROM (`cartridge.rs:88`), a short save, an opcode or a bank it does not know.
* `apu.rs:253` The sequencer runs on with the sound off and is reset when it is
  switched on; a counter's copy of its step is reset when it is switched off. After a
  step in between, the copy is stale until the next one, and a write to NRx4 in that
  time decides by it; a note may be two steps longer or shorter.
* `cpu.rs:209` An EI with IME set, followed by an interrupt, undoes the clearing of
  IME by the dispatch: the handler can be interrupted from its first instruction on.
* `soc.rs:237` Echo RAM above F000 is indexed without the bank of SVBK; SVBK 0 and 1
  are different pages, although the comment at `soc.rs:81` speaks of banks 1-7.
* `ppu.rs:829` With WX below 7 the window shows the left columns of its first tile
  where the hardware shows the right ones (`GroundShown` leaves these pixels out).
* `ppu.rs:990` A sprite at OAM x = 167 is visible in the last column and not paid
  for in mode 3.
* `ppu.rs:285` WY = LY is checked at the end of mode 2, not at its start as the
  comment at `ppu.rs:81` says.
* `mbc3.rs:187`, `mbc5.rs:95` Selecting a RAM bank on a cartridge without RAM divides
  by zero, also an MBC3 with a clock only whose program leaves the clock.
* `soc.rs:66` A VRAM DMA with a source from FE00 on hits `unreachable!()`; one of
  the general kind during mode 3 is dropped in silence; a second start without
  new addresses begins at the old ones again.
* `cpu.rs:279` `PC - 1` at PC = 0 panics in a build that checks overflow; `Program`
  models the build that wraps.
* `channel4.rs:105` The divisor of the noise is shifted within 16 bits: from a shift
  of 10 on bits fall out, and with a period of 0 the noise runs at full speed.
* `channel3.rs:114` After a trigger and before its first sample the wave channel of a
  CGB takes accesses to wave RAM to its last byte.

## 4. Bounds, and why they are enough

| Run | Bound | Enough because |
|---|---|---|
| `ppu`, `hdma` | 2 visible and 1-2 blank lines, mode 2 of 2 clocks, modes 3+0 of 3 with both lengths of mode 3; LYC 0 or 2 (a visible line and the first blank one), WY 1 (met in the middle of the screen) or 9 (never met) | each kind of line occurs twice or has a neighbour of each other kind; each mode has a first clock, a last clock and, for modes 3+0, one between; `PpuProofs` removes the bounds |
| `hdma` | 3 blocks of 128 (`MaxBlocks`) | a first, a middle and a last block |
| `devices` (timer) | divider of 7 bits, TIMA of 2 | all four rates keep different bits in the order of the real ones; TIMA overflows; `SocProofs` removes the bounds |
| `cpu_step` | 2 interrupts of 5, 16 addresses of two digits of base 4 (`Base`); opcodes at the top and bottom of memory and at the vectors (`CodeArea`, `Targets`), stacks in RAM and below IE (`Stacks`) | one interrupt more urgent than the other, which is the Joypad, raised outside the clocks; PC and SP wrap, and pushes hit RAM, IF, IE and neither; `ProgramProofs` removes the bounds |
| `algorithms` | ten bytes (0, 1, limits of nibbles, packed digits, sign) in numbers of two bytes | a flag passes between bytes in each direction; `AlgorithmsProofs` takes all bytes |
| `algorithms` (a line) | tiles of 2 pixels, 3 columns, maps of 3 tiles, 3 entries of OAM of which 2 fit a line, scenes of `const_Scenes` | the first tile cut, a whole one and the last one cut; maps wrap; a sprite more than fits; equal and different x; `AlgorithmsProofs` removes all of these bounds |
| `devices` (bus) | OAM of 3 bytes, one bank of WRAM | first, middle, last byte of a transfer |
| `frontend` | channels of 2, 1 and 1 (the latter two are the real capacities), batches of `MaxBatch` = 2 (3 in `frontend_batch`), one ROM, `MaxRam` = 1 change of its RAM per life of the file (0 in `frontend_batch`); a save file is whole or torn | a batch as large as the input channel is the critical one, one more is finding 1; a change of ROM to the same ROM is the one in which the new thread reads the file the old one writes, other ROMs have other files. `FrontendProofs` removes the bounds. Deadlock is not an error in these runs: a window whose emulator thread is dead stops for good, which `UiResponds` judges |
| `serial` | stray bytes 0 and the first magic byte (`Strays`), after which one packet goes to a deaf printer (`DeafPackets`); packets of 0, 2 and 4 bytes of data, 8 bytes of printer memory (`MaxRam`), a line of 4 bytes and 2 lines a row | whole rows, parts of rows and the end of a page all occur; all eight bits of each byte are clocked |
| `banks` | every controller with every size of ROM without RAM, and of RAM at the smallest and largest ROM; ten bytes; one MBC3 with a clock of 2 seconds to a minute, 1 minute, 1 hour, 4 days, 2 clocks to a second, and the bytes of `TimerData` | all bits of each register are set alone and together; every register rolls over and has a value past its rollover; `CartridgeProofs` removes the sizes |
| `apu` | a counter of 2 clocks, 4 frequencies of 2 low codes each, period and shift 0 or 1 | a counter above and at its last clock and spent, on both kinds of step of the sequencer; frequencies that overflow at once, at the second check and never; volumes 0 to 2; the noise with its real widths; channel 1 as on a DMG, channel 2 as on both (`Models`), since the model matters to the counter only |

The bounds are named: `MaxBatch`, `MaxRam`, `MaxBlocks` in the guards, sets of
values in the `MC` modules, widths and sizes (`CounterMod`, `DivMod`, `TimaMod`,
`LowCodes`, `MaxFrequency`, `InitialCount`, `MaxVolume`, `MaxPace`) as constants of the modules.

## 5. Mutants

Each property of each passing run is broken, under the run's own configuration,
by a mistake in one definition that models code: `PROJECT.json` `mutants` names
them, and the definition `Op_Fault` next to `Op` is the mistake (a dropped guard, a
missing reset, an off-by-one, a swapped order). A property that no such mistake
breaks is not in the project.

## 6. Proofs

Proved by TLAPS for every value of the constants that satisfies the module's
`ASSUME`s. The assumptions are the types of the constants, the order of lines and
modes, and where the code's own numbers matter:

* `DrawLengthsFit` (Ppu): mode 3 fits in its 94 clocks, and the mode lengths in the
  countdown's 16 bits. `LengthCorrect` below proves the first of `calc_mode3_len()`.
* `TimerRates`: the divider steps evenly through the cycle of each bit TAC can
  watch, and wraps at a multiple of it, as 4 of 2^16 does.
* `MaxPeriod < 256`, `MaxPace < 256`: a period of sweep or envelope fits its timer.
* `Len(fill) \in Words` (Serial): the length of a packet fits in the packet's two
  bytes. `51 \notin Strays`: no stray byte is the second magic one.
* `Maps`, `Inputs` (Scanline): a line and a frame are no larger than a tile map (less
  one tile for the fine scroll), a map holds tile numbers, and the registers and
  sprites of the inputs have the types of their fields.
* `NoiseNeverStuck`, `NoiseCorrect` and `ApuTypesCorrect` take the widths of the noise
  (`Widths`: 15 and 7 bits) and of NR10's shift (`Shifts`: 3 bits) as hypotheses,
  since the provers compute powers of two only of numbers.
* `NoCircularWaitHolds` has the hypothesis `MaxBatch <= InputCap`; without it the
  claim is false, as the run `frontend_batch` shows.

The theorems, by module, each with the invariant it rests on. Where an invariant
is more than the property, the property alone is not inductive, and the text says
what is missing.

* `PpuProofs`: `TypeCorrect`, `BeamCorrect`, `StatLineCorrect`, `WindowCorrect`,
  `PictureCorrect`, `TimingCorrect` (each action of `Ppu` is an action or a stutter
  of `LcdTiming`). `IInv == TypeOK /\ BeamInv /\ StatLineFresh /\ PictureInv`, one lemma
  per action.
  - `BeamInv`: mode and line agree, the countdown is within its mode, an LCD that
    is off is parked. On leaving a mode the next countdown depends on the line,
    hence `ModeMatchesLine`; on switching on, it depends on where the LCD was parked.
  - `StatLineFresh`: the remembered STAT level is the present one or a check is due
    (`LevelFresh`), and the coincidence bit it is computed from is not stale (`LycFresh`).
  - `PictureInv`: the window latch and the lines drawn; `WindowLineBound` needs
    `DrawnSoFar`, which counts the lines drawn in a frame without a cut.
* `SocProofs`, the devices around the bus:
  - *Timer*: `TypeCorrect`, `TimerCorrect` from `Good(timer)` (types, remembered
    signal, pending TIMA, one increment). `ReloadCorrect` follows a reload with
    `Reloaded`. `RateCorrect` needs `OnBeat`: the clocks since the last increment are
    the divider's place in the cycle of the watched bit, which is arithmetic on
    quotients and remainders (`Divides`, `Lap`) for any widths.
  - *Bus*: `BusTypeCorrect`, `DmaExclusiveHolds`, `LocksHold`. `BusInv` adds
    `CopiedSoFar`: what a running transfer has copied is still its own.
  - *Serial and printer*: `SerialTypeCorrect`, `AlignedHolds`, `PrinterKeepsPromise`.
    `LinkInv == LinkTypeOK /\ Turns /\ (panicked \/ Understood)`. `Turns` says what the
    shift register holds after n of eight clocks; `Understood` says what the printer
    has parsed and done after n bytes of a packet (`Heard`), or that a stray byte has
    made it deaf (`Deaf`). The refinement of `PrinterJob` follows: a packet is one
    abstract step, and all others are stutters.
* `ProgramProofs`:
  - *CpuStep*: `TypeCorrect`, `StepCorrect`, `NoRequestLost`.
    `IInv == TypeOK /\ DispatchHasCause /\ JumpMasks /\ EiKept /\ Safe`;
    `DispatchHasCause` (whoever waits in a dispatch has an interrupt, unless the push
    took it) makes `CancelOnlyByPush` inductive; `JumpMasks` (from the jump on IME is
    clear) and `EiKept` (where in the step an EI waits, and what the history
    `ei_found` says of it) make `InstructionMasked`, which is about IME after the delayed
    EI, inductive. That a set of interrupts has a most urgent one is proved
    (`LeastNat`), for any set of numbers.
  - *Program*: `ProgramImplementsStep` (it refines `CpuStep`), `ProgramStepCorrect`,
    `ReturnsCorrect`. `FlowInv` says where PC is in each phase (one past the
    prefetched opcode, except just before a fetch) and that memory holds every
    frame of the history. A push and a pop keep it by the arithmetic of wrapping
    addresses (`Wrap`) and of splitting an address into two bytes.
* `FrontendProofs`: `TypeCorrect`, `NoCircularWaitHolds`, `SavedAtCloseHolds`,
  `SaveForwardHolds`, `InputFaithfulHolds`. `Roles` ties the two threads' places
  together. `RoomLeft` is why the input channel cannot be full while the frame
  channel is: since the emulator last emptied the one, only the present batch can
  have been sent. `Files` relates file, last complete save and RAM, over panics,
  quits and new launches of either build. What a fold
  of key events over a queue gives is proved by induction on the length
  (`NatInduct` on a recursive function), for queues of any length.
* `HdmaProofs`: `HdmaCountsDown`, `BlocksLandOnce`, `PpuAsAlone`. `PulseInTime`: the
  HBlank pulse comes in a line without a block yet, and outside mode 3. `PpuAsAlone`
  shows that every step of the composition is one of `Ppu`, or leaves it alone.
* `CartridgeProofs`: `BanksInRange`, `BanksMapped`, `RamReadsBack` from `BankInv`
  (each bank register is what the controller's code has made of the bytes written,
  `RomBankKept`, `RamBankKept`; RAM is what the history says, `CellsKept`). Masking a
  number in parts and masking it whole agree for each number of banks.
  `ClockOfCartridge`: the clock in its cartridge is the clock alone.
  `SecondsCounted`: the time is a number in mixed radix and a second is the addition
  of one to it with the carry out of the days; `CyclesInv` relates the cycles left
  to the clocks counted since the last second.
* `VoiceProofs`: `PlayingCorrect` (`CountInv`), `SweepCorrect` (`SweepInv`: the period
  the timer is loaded from), `NotesCorrect` (`CopyInv`: a counter's copy of the step of
  the sequencer is that step, or 0 with the sound off, unless the sequencer has
  stepped with the sound off), `EnvelopeLoaded` (`EnvInv`, the safety
  part of `EnvelopeSettles`), `NoiseNeverStuck`, `NoiseCorrect`, `ApuTypesCorrect`.
  - `NoiseNeverStuck`: the state with all bits of the width set is its own successor
    and has no other predecessor (`ClockNeverSticks`): the register is halved, so its
    two lowest bits were set, and then the new bit is. A trigger leaves 0, and a
    change of width counts as none only of 0.
  - `NoiseCorrect`: the noise is exactly 2^15 - 1 or 2^7 - 1 samples long. `InStep`:
    the register is the state that a recursive function (`IsOrbit`) gives for the
    number of samples, so what is left is when that function is first 0 again.
    A bit enters as the sum, modulo 2, of the two that leave next, and it leaves 15
    (or 7) clocks later (`LongWindow`). So of the zeros that leave, `Cancel3(f, 15,
    1, 0)`: those 15, 1 and 0 clocks from anywhere cancel. Distances can be doubled
    (`Squared3`), and a term replaced by the two it is the sum of; after 15 doublings
    the 2^15-th from anywhere is the next one (`LongSums`), and 0 comes back after
    2^15 - 1 samples (`LongReturns`). The first return divides that number
    (`FirstReturn`), and the same sums, carried to the samples 217, 1057 and 4681,
    show that it is no proper divisor (`LongFirst`). 2^7 - 1 is a prime.
  - `ApuTypesCorrect` is not inductive alone: a timer of 8 bits at 0 would wrap
    around. It needs `SweepSafe` and `EnvInv`, and `NoiseInv` for the register.
* `AlgorithmsProofs`:
  - *Alu*: `AddExact`, `SubExact`, `DecimalSum`, `DecimalDifference`,
    `RotationsUndone`, for all bytes and carries.
  - *MultiByte*: `RoutinesCorrect`. The run takes ten bytes, the theorem all.
    `RoutineInv == TypeOK /\ Places /\ Progress` says for each of thirteen routines
    what it has computed when it has come to byte or round `at`, and what it needs
    of the flags there: after the low byte the carry is that of the sum; between
    an ADD and its DAA the flags are those of *some* sum of the two bytes and a
    decimal carry; in a round of the multiplication the bits RLA has not yet
    brought out are still on top of A. One lemma per instruction; TLC has
    checked `RoutineInv` on the run's operands.
  - *Mode3Length*: for any screen, tile and sprites the loop of `calc_mode3_len()`
    pays 6 to 11 cycles for a sprite, once (`FetchesCorrect`), and mode 3 is at most
    `LongestDraw`, 73 of the 94 clocks (`LengthCorrect`).
  - *Scanline*: `GroundCorrect`, `SpritesCorrect`, `LineFetchesOnce`,
    `LineLengthCorrect`, for any screen, tile, map, OAM and limit of sprites, from
    `LineInv`, which TLC has checked on the run's scenes. One lemma per action.
    `Buffered`: there is a one-to-one map from the buffer onto the candidates of the
    scan under which a later place in the buffer is `Above` an earlier one. The push
    loop gives the candidates in the order of OAM (`Selected` is a recursive
    function, and its prefixes are compared with those of OAM by induction),
    reversing turns the order, and each `Insert` of the stable sort keeps that the
    x fall and that equal ones stay in order.
    `BackgroundPainted` and `WindowPainted`: the columns to the left of `pos` show the
    map; `pos` and `fetcher_x` are tied by the fine scroll, so that the bits of
    one fetched tile are the bits of one tile of the map, also where the map
    wraps (`Divided`: quotients and remainders that move from one tile to the next).
    `SpritesPainted`: after n sprites a column shows what the last one of them that
    decides says (`ShowsLast`); with all of them painted that is the one `Above` all
    others, as `Above` is the order of the buffer. `PrioOfCgb`: no priority of the map
    on a DMG, where a sprite hidden by its own flag still covers those below. That the
    code departs from this rule on a CGB only, and only below a hidden sprite, is
    part of `SpritesCorrect` (`MaskedWhere`).

Proving changed the models in two respects. Where a `CASE` had guards that overlap
(`ram_banks`, `sweep_clock`, the printer's status), TLA+ leaves open which arm is
taken, so these are now `IF`s in the order of the code. And the proof of
`SpritesShown` showed that the order of priority is that of OPRI at the scan, not at
the painting; OPRI is now among the registers a program changes in mode 2, and
`seen` remembers it. Loops over sequences are recursive functions.

Only model-checked: liveness and whatever rests on ENABLED (`VBlankRecurs`,
`HaltEnds`, `HdmaEnds`, `UiResponds`, `PacketAnswered`, `NoteEnds`, and that a volume
settles in `EnvelopeSettles`).

## 7. Fairness

* `WF(clock)` in Ppu, Hdma, Serial, `WF(Sequenced)` in Apu:
  each step of the CPU, a halted one too, clocks the system, and `Gameboy::run()`
  steps for ever. No fairness for writes: the program need not make any.
* `WF(Next)` in CpuStep and Program: the emulator thread goes on.
* Frontend: `WF(UiWaits)`, `WF(EmuWorks)` - the operating system schedules both
  threads; `WF(PollEnds)` - the event pump runs empty; `WF(Callback)` - SDL calls
  back; `WF(ReachVBlank)` - a program whose LCD is on gets to the end of the frame.
  No fairness for user events, changes of RAM, panics or quits.
* Serial: `WF(StartTransfer)`, `WF(Interrupt)` and `SF(Resume)` are a property of
  the program that prints: it goes on with its packet. A program that stops is
  not promised an answer.

Where the program can prevent progress the property says so as a disjunct
(`[]<>(~lcdc_enable)`, `[]<><<WriteHdma5>>_vars`, ...) rather than by fairness.

## 8. Not modelled, and why

* Palettes and colors; pixels of VRAM changed in the middle of mode 3, which the
  code draws at its start anyway.
* Decoding: the table that leads from an opcode to its function, and the moves
  between registers, which are one assignment each.
* A printer fed with anything but whole packets and single stray bytes between
  them: after a stray byte it is deaf, whatever follows.
* Addresses of the VRAM DMA and the read-back of HDMA1-4; HRAM and unmapped
  registers; the joypad's selection lines; the picture the printer writes, whose
  compression and checksum the code ignores too.
* APU wave forms, wave RAM, panning, mixing and sample conversion, and the
  frequency timers: numbers without influence on the rest. Channels 3 and 4 are
  controlled by the same lines as channel 2.
* Cartridge header, RomOnly, SDL, drawing of the UI, screenshots, key tables,
  benchmarks: straight-line code or I/O.

## 9. Plan

Modelled, in the order of importance: (1) Ppu with LcdTiming, Timer, CpuStep with
Program; (2) Frontend; (3) Bus, Hdma; (4) Serial, Printer with PrinterJob;
(5) Banks, Rtc, Cartridge; (6) the APU's Voice, Length, Sweep, Envelope, Noise;
(7) Alu, MultiByte; (8) Mode3Length, Scanline.

What could still be modelled: the addresses of the VRAM DMA and its end in the
middle of a transfer; the joypad's selection lines, with the interrupt as an
edge; accesses to wave RAM while channel 3 plays.

Every invariant and action property that a passing run checks is stated by a theorem;
the liveness properties that section 6 lists are only model-checked.
