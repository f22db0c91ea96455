-------------------------------- MODULE Bus --------------------------------
(***************************************************************************)
(* The memory bus of soc/soc.rs as the CPU and the OAM DMA share it:       *)
(* clock_write() and clock_read() of every region with a state of its own, *)
(* the bank registers, and clock_dma(), which copies one byte into OAM on  *)
(* every clock while the CPU runs on.  An access first clocks the system   *)
(* and then reads or writes, so the mode of the PPU and the state of the   *)
(* DMA can change under it.                                                *)
(*                                                                         *)
(* Memory is abstracted to one cell per page of 4 KiB (one per byte of     *)
(* OAM), the PPU to its mode, which any clock may change.                  *)
(* A definition Op_Fault is Op with a plausible mistake in it; nothing     *)
(* uses it.                                                                *)
(***************************************************************************)
EXTENDS Integers

CONSTANTS
    OamSize,      \* 160 bytes
    WramBanks,    \* the values of SVBK, 0 .. 7
    DmaPages,     \* the pages the program copies from
    Values        \* what a cell can hold

OpenBus == -1     \* 0xFF, read from what is not accessible

\* The pages a DMA can read: ROM, VRAM, the two of WRAM, their echoes, and
\* the top two of the address space.
Pages == {"ROM", "VRAM", "WRAM0", "WRAMX", "ECHO0", "ECHOX", "HIGH"}

ASSUME BusConstants ==
    /\ OamSize \in Nat \ {0}
    /\ WramBanks \subseteq Nat /\ 0 \in WramBanks
    /\ DmaPages \subseteq Pages
    /\ 0 \in Values

VARIABLES
    svbk, vbk,
    wram, vram, oam,
    stat_mode,
    dma_request,   \* the page written to DMA in the last clock, or NoPage
    active_dma,    \* whether a transfer runs, from where, how many bytes it copied
    copied_by      \* history: who wrote each byte of OAM last

busVars == <<svbk, vbk, wram, vram, oam, stat_mode, dma_request, active_dma, copied_by>>

Modes == {"OamScan", "Draw", "HBlank", "VBlank"}
NoPage == "none"
Cells == Values \cup {OpenBus}
OamBytes == 0 .. OamSize - 1

\* wram[] in pages of 4 KiB: the fixed page at 0, bank b of the other at
\* 1 + 2 * b.
WramPages == {0} \cup {1 + 2 * b : b \in WramBanks}

BusTypeOK ==
    /\ svbk \in WramBanks /\ vbk \in 0 .. 1
    /\ wram \in [WramPages -> Values] /\ vram \in [0 .. 1 -> Values]
    /\ oam \in [OamBytes -> Cells]
    /\ stat_mode \in Modes
    /\ dma_request \in Pages \cup {NoPage}
    /\ active_dma \in [on : BOOLEAN, src : Pages, count : OamBytes]
    /\ copied_by \in [OamBytes -> {"cpu", "dma"}]

NoDma == [on |-> FALSE, src |-> "ROM", count |-> 0]

\* SOC::new() and PPU::new()
BusInit ==
    /\ svbk = 0 /\ vbk = 0
    /\ wram = [p \in WramPages |-> 0] /\ vram = [b \in 0 .. 1 |-> 0]
    /\ oam = [i \in OamBytes |-> 0]
    /\ stat_mode = "OamScan"
    /\ dma_request = NoPage
    /\ active_dma = NoDma
    /\ copied_by = [i \in OamBytes |-> "cpu"]

----------------------------------------------------------------------------
\* Where the WRAM addresses lead.  The echo knows no banks.
wram_page(page) ==
    CASE page \in {"WRAM0", "ECHO0"} -> 0
      [] page \in {"WRAMX", "HIGH"} -> 1 + 2 * svbk
      [] page = "ECHOX" -> 1

\* dma_read!, and clock_read() of the same pages, for PPU mode `mode`; the DMA
\* reads the top pages as WRAM.
dma_read(page, mode) ==
    CASE page = "ROM" -> 0
      [] page = "VRAM" -> IF mode = "Draw" THEN OpenBus ELSE vram[vbk]
      [] OTHER -> wram[wram_page(page)]

\* The transfer after the byte it copies now.
DmaAdvance(dma) ==
    IF dma.count + 1 > OamSize - 1 THEN NoDma ELSE [dma EXCEPT !.count = @ + 1]

\* A request replaces whatever runs.
Request(page) == [on |-> TRUE, src |-> page, count |-> 0]

\* clock_dma(), before the PPU's clock: copy a byte, then take up a request.
clock_dma ==
    /\ active_dma' = IF dma_request # NoPage THEN Request(dma_request)
                     ELSE IF active_dma.on THEN DmaAdvance(active_dma) ELSE NoDma

\* OAM after clock_dma() and nothing else
OamCopied ==
    IF active_dma.on
    THEN [oam EXCEPT ![active_dma.count] = dma_read(active_dma.src, stat_mode)]
    ELSE oam
CopiedBy ==
    IF active_dma.on THEN [copied_by EXCEPT ![active_dma.count] = "dma"] ELSE copied_by

\* clock() of the SOC, as far as this module goes
clock_bus ==
    /\ clock_dma
    /\ stat_mode' \in Modes

OamUnwritten == oam' = OamCopied /\ copied_by' = CopiedBy
RequestTaken == dma_request' = NoPage

\* A read, or a write to what is not modelled here (ROM, HRAM, registers).
Read ==
    /\ clock_bus /\ OamUnwritten /\ RequestTaken
    /\ UNCHANGED <<svbk, vbk, wram, vram>>

VramLocked_BeforeClock == stat_mode = "Draw"
\* write_vram() looks at the mode the clock has just left the PPU in.
VramLocked == stat_mode' = "Draw"

WriteVram ==
    /\ clock_bus /\ OamUnwritten /\ RequestTaken
    /\ \/ VramLocked /\ UNCHANGED vram
       \/ ~VramLocked /\ \E data \in Values : vram' = [vram EXCEPT ![vbk] = data]
    /\ UNCHANGED <<svbk, vbk, wram>>

WriteWram ==
    /\ clock_bus /\ OamUnwritten /\ RequestTaken
    /\ \E page \in {"WRAM0", "WRAMX", "ECHO0", "ECHOX"}, data \in Values :
          wram' = [wram EXCEPT ![wram_page(page)] = data]
    /\ UNCHANGED <<svbk, vbk, vram>>

OamLocked_NoDma == stat_mode' \in {"OamScan", "Draw"}
\* An OAM access looks at the DMA before its clock and at the mode after it.
OamLocked == active_dma.on \/ stat_mode' \in {"OamScan", "Draw"}

WriteOam ==
    /\ clock_bus /\ RequestTaken
    /\ \/ OamLocked /\ OamUnwritten
       \/ ~OamLocked /\ \E i \in OamBytes, data \in Values :
             /\ oam' = [OamCopied EXCEPT ![i] = data]
             /\ copied_by' = [CopiedBy EXCEPT ![i] = "cpu"]
    /\ UNCHANGED <<svbk, vbk, wram, vram>>

WriteDma ==
    /\ clock_bus /\ OamUnwritten
    /\ dma_request' \in DmaPages
    /\ UNCHANGED <<svbk, vbk, wram, vram>>

WriteBanks ==
    /\ clock_bus /\ OamUnwritten /\ RequestTaken
    /\ \/ svbk' \in WramBanks /\ UNCHANGED vbk
       \/ vbk' \in 0 .. 1 /\ UNCHANGED svbk
    /\ UNCHANGED <<wram, vram>>

clock_write == WriteVram \/ WriteWram \/ WriteOam \/ WriteDma \/ WriteBanks

BusNext == Read \/ clock_write

BusSpec == BusInit /\ [][BusNext]_busVars

----------------------------------------------------------------------------
(* Properties *)

\* What a transfer has copied so far is in OAM, all of it its own, and in the
\* end all of OAM is: no write of the CPU gets in between, although the CPU can
\* write OAM up to the clock that starts the transfer and after the one that
\* ends it, and may ask for another one at any time.
DmaExclusive ==
    [][LET done == IF active_dma'.on THEN active_dma'.count - 1 ELSE OamSize - 1
       IN  active_dma.on => \A i \in 0 .. done : copied_by'[i] = "dma"]_busVars

\* VRAM never changes while the PPU draws, and OAM only by the DMA while the
\* PPU scans it or draws, although the access and the mode change in the
\* same clock.
LockedWhileDrawing ==
    [][/\ vram' # vram => stat_mode' # "Draw"
       /\ \A i \in OamBytes : oam'[i] # oam[i] /\ copied_by'[i] = "cpu"
             => stat_mode' \in {"HBlank", "VBlank"}]_busVars

============================================================================
