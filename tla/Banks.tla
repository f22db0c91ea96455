------------------------------- MODULE Banks -------------------------------
(***************************************************************************)
(* The memory bank controllers of mbc/: which bank of ROM and of RAM the   *)
(* program sees, as the writes to the controller's registers leave it.     *)
(* MBC1 keeps 5 bits of the ROM bank in one register and 2 more, which are *)
(* those of the RAM bank too, in another; MBC5 keeps 8 bits and 1 bit; each *)
(* controller reduces what is written to the banks the cartridge has, at   *)
(* the moment of the write or of the read.                                 *)
(*                                                                         *)
(* ROM is abstracted to the number of the bank that is read, a bank of RAM *)
(* to one cell.  A write or read the code cannot index panics.             *)
(* A definition Op_Fault is Op with a plausible mistake in it; nothing     *)
(* uses it.                                                                *)
(***************************************************************************)
EXTENDS Integers, FiniteSets

CONSTANTS
    Headers,   \* the cartridges: their controller, rom_size and ram_size codes, and if they have a clock
    Data,      \* the bytes the program writes to the controller
    Values     \* the bytes it writes to RAM

Kinds == {"MBC1", "MBC2", "MBC3", "MBC5"}

\* The sizes each controller is sold with.
MaxRomSize == [k \in Kinds |-> CASE k = "MBC2" -> 3 [] k = "MBC5" -> 8 [] OTHER -> 6]
RamSizes == [k \in Kinds |-> CASE k = "MBC2" -> {0} [] k = "MBC5" -> {0, 2, 3, 4, 5} [] OTHER -> {0, 2, 3}]

ASSUME BanksConstants ==
    /\ \A hdr \in Headers :
         /\ hdr.kind \in Kinds
         /\ hdr.rom_size \in 0 .. MaxRomSize[hdr.kind]
         /\ hdr.ram_size \in RamSizes[hdr.kind]
         /\ hdr.timer \in BOOLEAN /\ (hdr.timer => hdr.kind = "MBC3")
    /\ Data \subseteq 0 .. 255 /\ Values \subseteq 0 .. 255

VARIABLES
    hdr,
    rom_bank, ram_bank, mode_flag, ram_enabled,
    ram,        \* a cell per bank
    panicked,
    regs,       \* history: the bytes last written to each register
    written     \* history: the value last written to each bank of the hardware

vars == <<hdr, rom_bank, ram_bank, mode_flag, ram_enabled, ram, panicked, regs, written>>

-----------------------------------------------------------------------------
(* The cartridge. *)

rom_banks(h) == 2 ^ (h.rom_size + 1)

ram_banks(h) ==
    IF h.kind = "MBC2" THEN 1
    ELSE CASE h.ram_size <= 1  -> 0
           [] h.ram_size = 2   -> 1
           [] h.ram_size = 3   -> 4
           [] h.ram_size = 4   -> 16
           [] h.ram_size = 5   -> 8

NoBank == -1

TypeOK ==
    /\ hdr \in Headers
    /\ rom_bank \in 0 .. 511 /\ ram_bank \in NoBank .. 15
    /\ {mode_flag, ram_enabled, panicked} \subseteq BOOLEAN
    /\ ram \in [0 .. ram_banks(hdr) - 1 -> 0 .. 255]

Init ==
    /\ hdr \in Headers
    /\ rom_bank = 1
    /\ ram_bank = IF hdr.kind = "MBC3" THEN NoBank ELSE 0
    /\ mode_flag = FALSE /\ ram_enabled = FALSE
    /\ ram = [b \in 0 .. ram_banks(hdr) - 1 |-> 0]
    /\ panicked = FALSE
    /\ regs = [rom |-> 1, high |-> 0, ram |-> 0]
    /\ written = [b \in 0 .. ram_banks(hdr) - 1 |-> 0]

-----------------------------------------------------------------------------
(* The registers. *)

MinOf(a, b) == IF a < b THEN a ELSE b

\* rom_mask = 0xFF >> max(7 - rom_size, 3), as the number of values it keeps.
Masked(bank) == bank % 2 ^ MinOf(hdr.rom_size + 1, 5)

Low(data) ==
    CASE hdr.kind = "MBC1" -> IF data % 32 = 0 THEN 1 ELSE Masked(data % 32)
      [] hdr.kind = "MBC2" -> IF data % 16 = 0 THEN 1 ELSE (data % 16) % rom_banks(hdr)
      [] hdr.kind = "MBC3" -> IF data % 128 = 0 THEN 1 ELSE (data % 128) % rom_banks(hdr)
      [] hdr.kind = "MBC5" -> (256 * (rom_bank \div 256) + data) % rom_banks(hdr)

\* 0x2000-0x3FFF, on MBC5 0x2000-0x2FFF, on MBC2 an address with bit 8.
WriteRomBank(data) ==
    /\ rom_bank' = Low(data)
    /\ regs' = [regs EXCEPT !.rom = data]
    /\ UNCHANGED <<hdr, ram_bank, mode_flag, ram_enabled, ram, panicked, written>>

WriteRomBankHigh_Replaces(data) ==
    /\ hdr.kind = "MBC5"
    /\ rom_bank' = ((data % 2) * 256) % rom_banks(hdr)
    /\ regs' = [regs EXCEPT !.high = data]
    /\ UNCHANGED <<hdr, ram_bank, mode_flag, ram_enabled, ram, panicked, written>>

\* 0x3000-0x3FFF of MBC5.
WriteRomBankHigh(data) ==
    /\ hdr.kind = "MBC5"
    /\ rom_bank' = (256 * (data % 2) + (rom_bank % 256)) % rom_banks(hdr)
    /\ regs' = [regs EXCEPT !.high = data]
    /\ UNCHANGED <<hdr, ram_bank, mode_flag, ram_enabled, ram, panicked, written>>

SelectRamBank(data) ==
    CASE hdr.kind = "MBC1" -> data % 4
      [] hdr.kind = "MBC3" -> IF data \in 0 .. 3 THEN data % ram_banks(hdr)
                              ELSE IF hdr.timer /\ data \in 8 .. 12 THEN NoBank ELSE ram_bank
      [] hdr.kind = "MBC5" -> (data % 16) % ram_banks(hdr)

\* data % num_ram_banks, with no banks.
DividesByZero(data) ==
    /\ ram_banks(hdr) = 0
    /\ hdr.kind \in {"MBC3", "MBC5"}
    /\ hdr.kind = "MBC3" => data \in 0 .. 3

\* 0x4000-0x5FFF.  (MBC3 selects the registers of its clock here too.)
WriteRamBank(data) ==
    /\ hdr.kind # "MBC2"
    /\ IF DividesByZero(data)
         THEN panicked' = TRUE /\ UNCHANGED <<ram_bank, regs>>
         ELSE /\ ram_bank' = SelectRamBank(data)
              /\ regs' = IF hdr.kind = "MBC3" /\ data \notin 0 .. 3 THEN regs
                         ELSE [regs EXCEPT !.ram = data]
              /\ UNCHANGED panicked
    /\ UNCHANGED <<hdr, rom_bank, mode_flag, ram_enabled, ram, written>>

\* 0x6000-0x7FFF of MBC1.
WriteMode(data) ==
    /\ hdr.kind = "MBC1"
    /\ mode_flag' = (data % 2 = 1)
    /\ UNCHANGED <<hdr, rom_bank, ram_bank, ram_enabled, ram, panicked, regs, written>>

\* 0x0000-0x1FFF, on MBC2 an address without bit 8.  MBC1 alone looks whether
\* there is RAM to enable.
WriteEnable(data) ==
    /\ ram_enabled' = IF hdr.kind = "MBC1" /\ ram_banks(hdr) = 0 THEN ram_enabled ELSE data % 16 = 10
    /\ UNCHANGED <<hdr, rom_bank, ram_bank, mode_flag, ram, panicked, regs, written>>

-----------------------------------------------------------------------------
(* What the program sees. *)

\* 0x0000-0x3FFF.
LowerRom ==
    IF hdr.kind = "MBC1" /\ mode_flag
      THEN CASE hdr.rom_size = 5 -> (ram_bank % 2) * 32
             [] hdr.rom_size = 6 -> ram_bank * 32
             [] OTHER            -> 0
      ELSE 0

\* 0x4000-0x7FFF.
UpperRom ==
    CASE hdr.kind = "MBC1" /\ hdr.rom_size = 5 -> Masked(rom_bank) + (ram_bank % 2) * 32
      [] hdr.kind = "MBC1" /\ hdr.rom_size = 6 -> Masked(rom_bank) + ram_bank * 32
      [] OTHER                                 -> rom_bank

RamIndex_Mode0 == IF hdr.kind \in {"MBC1", "MBC2"} THEN 0 ELSE ram_bank

\* ram_address(): 8 KiB have one bank, 32 KiB are banked in mode 1 only.
RamIndex ==
    CASE hdr.kind = "MBC1" -> IF ram_banks(hdr) = 4 /\ mode_flag THEN ram_bank ELSE 0
      [] hdr.kind = "MBC2" -> 0
      [] OTHER             -> ram_bank

HardwareRam ==
    IF ram_banks(hdr) = 0 THEN NoBank
    ELSE CASE hdr.kind = "MBC1" -> IF mode_flag THEN (regs.ram % 4) % ram_banks(hdr) ELSE 0
           [] hdr.kind = "MBC2" -> 0
           [] OTHER             -> (regs.ram % 16) % ram_banks(hdr)

\* The half bytes of MBC2.
Stored(value) == IF hdr.kind = "MBC2" THEN value % 16 ELSE value

\* 0xA000-0xBFFF.  No bank selected: nothing is written.
WriteRam(value) ==
    /\ ram_enabled /\ RamIndex # NoBank
    /\ IF RamIndex \in DOMAIN ram
         THEN /\ ram' = [ram EXCEPT ![RamIndex] = Stored(value)]
              /\ written' = [written EXCEPT ![HardwareRam] = Stored(value)]
              /\ UNCHANGED panicked
         ELSE panicked' = TRUE /\ UNCHANGED <<ram, written>>
    /\ UNCHANGED <<hdr, rom_bank, ram_bank, mode_flag, ram_enabled, regs>>

Next ==
    /\ ~panicked
    /\ \/ \E data \in Data :
            \/ WriteRomBank(data)
            \/ WriteRomBankHigh(data)
            \/ WriteRamBank(data)
            \/ WriteMode(data)
            \/ WriteEnable(data)
       \/ \E value \in Values : WriteRam(value)

Spec == Init /\ [][Next]_vars

-----------------------------------------------------------------------------
(* Properties. *)

\* The bank the registers name, all bits of it, among those the cartridge
\* has.  0 in the register of the lower bits selects bank 1, except on MBC5.
HardwareBank ==
    LET or1(n) == IF n = 0 THEN 1 ELSE n
    IN  CASE hdr.kind = "MBC1" -> (32 * (regs.ram % 4) + or1(regs.rom % 32)) % rom_banks(hdr)
          [] hdr.kind = "MBC2" -> or1(regs.rom % 16) % rom_banks(hdr)
          [] hdr.kind = "MBC3" -> or1(regs.rom % 128) % rom_banks(hdr)
          [] hdr.kind = "MBC5" -> (256 * (regs.high % 2) + regs.rom) % rom_banks(hdr)

\* However the program splits a bank number over the registers and in which
\* order it writes them, it sees the bank they name together, though the code
\* reduces each part at the moment it is written.
RomMapped ==
    /\ UpperRom = HardwareBank
    /\ LowerRom = IF hdr.kind = "MBC1" /\ mode_flag
                    THEN (32 * (regs.ram % 4)) % rom_banks(hdr) ELSE 0

\* Through any sequence of bank and mode switches the program finds in RAM
\* what it last wrote to that bank of the cartridge.
RamKept == ram_enabled /\ RamIndex \in DOMAIN ram => ram[RamIndex] = written[HardwareRam]
=============================================================================
