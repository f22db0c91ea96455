-------------------------- MODULE CartridgeProofs --------------------------
(***************************************************************************)
(* Proofs about the cartridges, for every size of ROM and RAM, every byte  *)
(* written and every rollover of the clock: the banks the program sees are *)
(* those the registers name together, RAM keeps what was written, and the  *)
(* clock counts seconds.                                                   *)
(***************************************************************************)
EXTENDS Cartridge, TLAPS

(* The arithmetic of bank numbers *)

Byte == 0 .. 255
Bit == 0 .. 1
Sizes == 1 .. 9
Or1(n) == IF n = 0 THEN 1 ELSE n

\* The sizes of ROM in banks.
LEMMA BankCounts ==
    ASSUME NEW n \in 1 .. 9
    PROVE  /\ 2 ^ n \in {2, 4, 8, 16, 32, 64, 128, 256, 512}
           /\ n <= 5 => 2 ^ n \in {2, 4, 8, 16, 32}
           /\ n = 6 => 2 ^ n = 64
           /\ n = 7 => 2 ^ n = 128
<1>1. CASE n = 1
    BY <1>1
<1>2. CASE n = 2
    BY <1>2
<1>3. CASE n = 3
    BY <1>3
<1>4. CASE n = 4
    BY <1>4
<1>5. CASE n = 5
    BY <1>5
<1>6. CASE n = 6
    BY <1>6
<1>7. CASE n = 7
    BY <1>7
<1>8. CASE n = 8
    BY <1>8
<1>9. CASE n = 9
    BY <1>9
<1> QED
    BY <1>1, <1>2, <1>3, <1>4, <1>5, <1>6, <1>7, <1>8, <1>9

\* What is left of a bank number is one of the banks.
LEMMA Reduced ==
    ASSUME NEW a \in Nat, NEW n \in Sizes
    PROVE  a % 2 ^ n \in 0 .. 511
<1> DEFINE p == 2 ^ n
<1>1. p \in {2, 4, 8, 16, 32, 64, 128, 256, 512}
    BY ZenonT(30), BankCounts DEF Sizes
<1> HIDE DEF p
<1>2. p \in Nat \ {0} /\ p <= 512
    BY <1>1
<1>3. a % p \in 0 .. p - 1
    BY <1>2
<1>4. a % p \in 0 .. 511
    BY <1>2, <1>3
<1> QED
    BY <1>4 DEF p

\* Bank 1 is there whatever the size.
LEMMA FirstBank == ASSUME NEW n \in 1 .. 9 PROVE 1 % 2 ^ n = 1
<1> DEFINE p == 2 ^ n
<1>1. p \in {2, 4, 8, 16, 32, 64, 128, 256, 512}
    BY ZenonT(30), BankCounts
<1> HIDE DEF p
<1>2. 1 % p = 1
    BY <1>1
<1> QED
    BY <1>2 DEF p

\* The five bits of MBC1 and the two above them, where there are at most 32
\* banks, 64 or 128.
LEMMA FiveBits ==
    ASSUME NEW n \in 1 .. 5, NEW x \in 0 .. 31, NEW r \in 0 .. 3
    PROVE  /\ (32 * r + x) % 2 ^ n = x % 2 ^ n
           /\ (32 * r) % 2 ^ n = 0
<1> DEFINE p == 2 ^ n
<1>1. p \in {2, 4, 8, 16, 32}
  <2>1. n \in 1 .. 9 /\ n <= 5
    OBVIOUS
  <2> QED
    BY ZenonT(30), <2>1, BankCounts
<1> HIDE DEF p
<1>2. (32 * r + x) % p = x % p /\ (32 * r) % p = 0
    BY <1>1
<1> QED
    BY <1>2 DEF p

\* Two parts of a bank number, put together, as one number.
LEMMA SixBits ==
    ASSUME NEW x \in 0 .. 31, NEW r \in 0 .. 3
    PROVE  /\ ((x % 32) % 32) + (r % 2) * 32 = (32 * r + x) % 64
           /\ ((x % 32) % 32) + r * 32 = (32 * r + x) % 128
           /\ (r % 2) * 32 = (32 * r) % 64
           /\ r * 32 = (32 * r) % 128
OBVIOUS

Nine(high, low, n) == (256 * high + low) % 2 ^ n
HighBits(bank) == bank \div 256
LowByte(bank) == bank % 256

\* Reducing a number of nine bits twice, part by part.
LEMMA NineBits ==
    ASSUME NEW n \in Sizes, NEW h \in Bit, NEW g \in Bit, NEW old \in Byte, NEW new \in Byte
    PROVE  /\ Nine(HighBits(Nine(h, old, n)), new, n) = Nine(h, new, n)
           /\ Nine(g, LowByte(Nine(h, old, n)), n) = Nine(g, old, n)
<1> DEFINE p == 2 ^ n
           b == (256 * h + old) % p
           Reduces == /\ (256 * (b \div 256) + new) % p = (256 * h + new) % p
                      /\ (256 * g + (b % 256)) % p = (256 * g + old) % p
<1>1. p \in {2, 4, 8, 16, 32, 64, 128, 256, 512} /\ b = (256 * h + old) % p
    BY ZenonT(30), BankCounts DEF Sizes
<1>0. h \in 0 .. 1 /\ g \in 0 .. 1 /\ old \in 0 .. 255 /\ new \in 0 .. 255
    BY DEF Bit, Byte
<1> HIDE DEF p, b
<1>2. ASSUME p = 512 PROVE Reduces
  <2>1. b = 256 * h + old
    BY <1>0, <1>1, <1>2
  <2>2. b \div 256 = h /\ b % 256 = old
    BY <1>0, <2>1
  <2> QED
    BY <1>0, <2>2
<1>3. ASSUME p = 256 PROVE Reduces
  <2>1. b = old
    BY <1>0, <1>1, <1>3
  <2>2. b \div 256 = 0 /\ b % 256 = old
    BY <1>0, <2>1
  <2>3. (256 * h + new) % 256 = new /\ (256 * 0 + new) % 256 = new
    BY <1>0
  <2>4. (256 * (b \div 256) + new) % 256 = (256 * h + new) % 256
    BY ZenonT(30), <2>2, <2>3, Zenon
  <2>5. (256 * g + (b % 256)) % 256 = (256 * g + old) % 256
    BY <2>2, Zenon
  <2> QED
    BY ZenonT(30), <1>3, <2>4, <2>5, Zenon
<1>4. ASSUME p \in {2, 4, 8, 16, 32, 64, 128} PROVE Reduces
  <2>1. b = old % p /\ old % p \in 0 .. 127
    BY <1>0, <1>1, <1>4
  <2>2. b \div 256 = 0 /\ b % 256 = b
    BY <1>0, <2>1
  <2>3. (256 * h + new) % p = new % p /\ (256 * 0 + new) % p = new % p
    BY <1>0, <1>4
  <2>4. (256 * g + old) % p = old % p /\ (256 * g + (old % p)) % p = old % p
    BY <1>0, <1>4
  <2>5. (256 * (b \div 256) + new) % p = new % p
    BY <2>2, <2>3, Zenon
  <2>6. (256 * g + (b % 256)) % p = old % p
    BY <2>1, <2>2, <2>4, Zenon
  <2>7. (256 * (b \div 256) + new) % p = (256 * h + new) % p
    BY <2>3, <2>5, Zenon
  <2>8. (256 * g + (b % 256)) % p = (256 * g + old) % p
    BY <2>4, <2>6, Zenon
  <2> QED
    BY <2>7, <2>8, Zenon
<1>5. Reduces
    BY <1>1, <1>2, <1>3, <1>4
<1> QED
    BY <1>5 DEF p, b, Nine, HighBits, LowByte

-----------------------------------------------------------------------------
(* The invariant: each controller's bank is the one its registers name, as *)
(* far as the write has reduced it.                                        *)

RegisterTypes ==
    /\ hdr \in Headers /\ panicked \in BOOLEAN
    /\ mode_flag \in BOOLEAN /\ ram_enabled \in BOOLEAN
    /\ regs \in [rom : Byte, high : Byte, ram : Byte]

RomBankKept == rom_bank = IF hdr.kind = "MBC1" THEN Masked(Or1(regs.rom % 32)) ELSE HardwareBank

SelectedRam == (regs.ram % 16) % ram_banks(hdr)

RamBankKept ==
    /\ hdr.kind = "MBC1" => ram_bank = regs.ram % 4
    /\ hdr.kind = "MBC2" => ram_bank = 0
    /\ hdr.kind = "MBC3" => ram_bank = NoBank \/ (ram_banks(hdr) # 0 /\ ram_bank = SelectedRam)
    /\ hdr.kind = "MBC5" => ram_bank = IF ram_banks(hdr) = 0 THEN 0 ELSE SelectedRam

CellsKept == ram = written /\ ram \in [0 .. ram_banks(hdr) - 1 -> Byte]

BankInv == RegisterTypes /\ RomBankKept /\ RamBankKept /\ CellsKept

\* The cartridges, as the controllers' manuals size them.
LEMMA HeaderSizes ==
    ASSUME hdr \in Headers
    PROVE  /\ hdr.kind \in {"MBC1", "MBC2", "MBC3", "MBC5"}
           /\ hdr.rom_size \in 0 .. 8
           /\ hdr.kind = "MBC1" => hdr.rom_size \in 0 .. 6 /\ ram_banks(hdr) \in {0, 1, 4}
           /\ hdr.kind = "MBC2" => ram_banks(hdr) = 1
           /\ ram_banks(hdr) \in {0, 1, 4, 8, 16}
<1>1. hdr.kind \in Kinds /\ hdr.rom_size \in 0 .. MaxRomSize[hdr.kind] /\ hdr.ram_size \in RamSizes[hdr.kind]
    BY BanksConstants
<1>2. CASE hdr.kind = "MBC1"
  <2>1. MaxRomSize[hdr.kind] = 6 /\ RamSizes[hdr.kind] = {0, 2, 3}
    BY <1>2 DEF MaxRomSize, RamSizes, Kinds
  <2> QED
    BY <1>1, <1>2, <2>1 DEF ram_banks
<1>3. CASE hdr.kind = "MBC2"
  <2>1. MaxRomSize[hdr.kind] = 3
    BY <1>3 DEF MaxRomSize, Kinds
  <2>2. ram_banks(hdr) = 1
    BY <1>3 DEF ram_banks
  <2> QED
    BY <1>1, <1>3, <2>1, <2>2
<1>4. CASE hdr.kind = "MBC3"
  <2>1. MaxRomSize[hdr.kind] = 6 /\ RamSizes[hdr.kind] = {0, 2, 3}
    BY <1>4 DEF MaxRomSize, RamSizes, Kinds
  <2> QED
    BY <1>1, <1>4, <2>1 DEF ram_banks
<1>5. CASE hdr.kind = "MBC5"
  <2>1. MaxRomSize[hdr.kind] = 8 /\ RamSizes[hdr.kind] = {0, 2, 3, 4, 5}
    BY <1>5 DEF MaxRomSize, RamSizes, Kinds
  <2> QED
    BY <1>1, <1>5, <2>1 DEF ram_banks
<1> QED
    BY <1>1, <1>2, <1>3, <1>4, <1>5 DEF Kinds

\* What a write of the lower bits leaves, but on MBC5, is what they name.
LEMMA LowBits ==
    ASSUME RegisterTypes, NEW data \in Byte
    PROVE  /\ hdr.kind = "MBC1" => Low(data) = Masked(Or1(data % 32))
           /\ hdr.kind = "MBC2" => Low(data) = Or1(data % 16) % rom_banks(hdr)
           /\ hdr.kind = "MBC3" => Low(data) = Or1(data % 128) % rom_banks(hdr)
<1>1. hdr.rom_size + 1 \in 1 .. 9 /\ MinOf(hdr.rom_size + 1, 5) \in 1 .. 9
    BY HeaderSizes DEF RegisterTypes, MinOf
<1>3. 1 % 2 ^ (hdr.rom_size + 1) = 1 /\ 1 % 2 ^ MinOf(hdr.rom_size + 1, 5) = 1
    BY <1>1, FirstBank
<1>4. CASE hdr.kind = "MBC1"
    BY <1>3, <1>4 DEF Low, Or1, Masked
<1>5. CASE hdr.kind = "MBC2"
    BY <1>3, <1>5 DEF Low, Or1, rom_banks
<1>6. CASE hdr.kind = "MBC3"
    BY <1>3, <1>6 DEF Low, Or1, rom_banks
<1> QED
    BY <1>4, <1>5, <1>6

\* Cartridges start with bank 1 and the registers' bits to match.
LEMMA BankStart == Init => BankInv
<1> SUFFICES ASSUME Init PROVE BankInv
    OBVIOUS
<1>1. RegisterTypes
  <2>1. regs = [rom |-> 1, high |-> 0, ram |-> 0] /\ 1 \in Byte /\ 0 \in Byte
    BY DEF Init, Byte
  <2>2. hdr \in Headers /\ panicked = FALSE /\ mode_flag = FALSE /\ ram_enabled = FALSE
    BY DEF Init
  <2> QED
    BY <2>1, <2>2 DEF RegisterTypes
<1>2. RomBankKept
  <2>1. /\ 1 \in Byte /\ 1 % 32 = 1 /\ 1 % 16 = 1 /\ 1 % 128 = 1 /\ 256 * (0 % 2) + 1 = 1
        /\ regs.rom = 1 /\ regs.high = 0 /\ rom_bank = 1
    BY DEF Init, Byte
  <2>2. hdr.rom_size + 1 \in 1 .. 9 /\ MinOf(hdr.rom_size + 1, 5) \in 1 .. 9
    BY <1>1, HeaderSizes DEF RegisterTypes, MinOf
  <2>4. Or1(1) = 1 /\ 1 % rom_banks(hdr) = 1 /\ Masked(1) = 1
    BY <2>2, FirstBank DEF Or1, rom_banks, Masked
  <2>5. hdr.kind \in {"MBC1", "MBC2", "MBC3", "MBC5"}
    BY <1>1, HeaderSizes DEF RegisterTypes
  <2>6. /\ Or1(regs.rom % 32) = 1 /\ Or1(regs.rom % 16) = 1 /\ Or1(regs.rom % 128) = 1
        /\ 256 * (regs.high % 2) + regs.rom = 1
    BY <2>1 DEF Or1
  <2>7. hdr.kind # "MBC1" => HardwareBank = 1
    BY <2>4, <2>5, <2>6 DEF HardwareBank, Or1
  <2> QED
    BY <2>1, <2>4, <2>6, <2>7 DEF RomBankKept
<1>3. RamBankKept
  <2>1. ram_banks(hdr) \in {0, 1, 4, 8, 16} /\ hdr.kind \in {"MBC1", "MBC2", "MBC3", "MBC5"}
    BY <1>1, HeaderSizes DEF RegisterTypes
  <2>2. regs.ram = 0 /\ ram_bank = IF hdr.kind = "MBC3" THEN NoBank ELSE 0
    BY DEF Init
  <2> QED
    BY <2>1, <2>2 DEF RamBankKept, SelectedRam
<1>4. CellsKept
  <2>1. ram = [b \in 0 .. ram_banks(hdr) - 1 |-> 0] /\ written = ram /\ 0 \in Byte
    BY DEF Init, Byte
  <2> QED
    BY <2>1 DEF CellsKept
<1> QED
    BY <1>1, <1>2, <1>3, <1>4 DEF BankInv

\* The lower bits name a bank with what the upper ones were, on MBC5.
LEMMA WriteRomBankInv ==
    ASSUME BankInv, NEW data \in Byte, WriteRomBank(data)
    PROVE  BankInv'
<1>1. /\ rom_bank' = Low(data) /\ regs' = [regs EXCEPT !.rom = data]
      /\ UNCHANGED <<hdr, ram_bank, mode_flag, ram_enabled, ram, panicked, written>>
    BY DEF WriteRomBank
<1>2. regs \in [rom : Byte, high : Byte, ram : Byte] /\ hdr \in Headers
    BY DEF BankInv, RegisterTypes
<1>3. regs'.rom = data /\ regs'.high = regs.high /\ regs'.ram = regs.ram
    BY <1>1, <1>2
<1>4. RegisterTypes'
    BY <1>1, <1>2 DEF BankInv, RegisterTypes
<1>5. RomBankKept'
  <2>1. hdr.kind \in {"MBC1", "MBC2", "MBC3", "MBC5"} /\ hdr' = hdr
      BY <1>1, <1>2, HeaderSizes
  <2>2. CASE hdr.kind = "MBC1"
    <3>1. rom_bank' = Masked(Or1(data % 32))
        BY <1>1, <2>2, LowBits DEF BankInv
    <3> QED
        BY <1>3, <2>1, <2>2, <3>1 DEF RomBankKept, Masked
  <2>3. CASE hdr.kind = "MBC2"
    <3>1. rom_bank' = Or1(data % 16) % rom_banks(hdr)
        BY <1>1, <2>3, LowBits DEF BankInv
    <3> QED
        BY <1>3, <2>1, <2>3, <3>1 DEF RomBankKept, HardwareBank, Or1
  <2>4. CASE hdr.kind = "MBC3"
    <3>1. rom_bank' = Or1(data % 128) % rom_banks(hdr)
        BY <1>1, <2>4, LowBits DEF BankInv
    <3> QED
        BY <1>3, <2>1, <2>4, <3>1 DEF RomBankKept, HardwareBank, Or1
  <2>5. CASE hdr.kind = "MBC5"
    <3>1. rom_bank = (256 * (regs.high % 2) + regs.rom) % rom_banks(hdr)
        BY <2>5 DEF BankInv, RomBankKept, HardwareBank
    <3>2. rom_bank' = (256 * (rom_bank \div 256) + data) % rom_banks(hdr)
        BY <1>1, <2>5 DEF Low
    <3>3. regs.high % 2 \in 0 .. 1 /\ regs.rom \in 0 .. 255 /\ data \in 0 .. 255
          /\ hdr.rom_size + 1 \in 1 .. 9
        BY <1>2, HeaderSizes DEF Byte
    <3> DEFINE n == hdr.rom_size + 1
               h == regs.high % 2
               old == regs.rom
    <3>4. n \in Sizes /\ h \in Bit /\ old \in Byte
          /\ rom_bank = Nine(h, old, n) /\ rom_bank' = Nine(HighBits(rom_bank), data, n)
        BY <3>1, <3>2, <3>3 DEF rom_banks, Nine, HighBits, LowByte, Sizes, Bit, Byte
    <3> HIDE DEF n, h, old
    <3>5. Nine(HighBits(Nine(h, old, n)), data, n) = Nine(h, data, n)
        BY <3>4, NineBits, Zenon
    <3>6. rom_bank' = Nine(h, data, n)
        BY <3>4, <3>5, Zenon
    <3>7. rom_bank' = (256 * (regs.high % 2) + data) % rom_banks(hdr)
        BY <3>6 DEF n, h, rom_banks, Nine
    <3> QED
        BY <1>3, <2>1, <2>5, <3>7 DEF RomBankKept, HardwareBank
  <2> QED
      BY <2>1, <2>2, <2>3, <2>4, <2>5
<1>6. RamBankKept' /\ CellsKept'
    BY <1>1, <1>3 DEF BankInv, RamBankKept, CellsKept, SelectedRam
<1> QED
    BY <1>4, <1>5, <1>6 DEF BankInv

\* The ninth bit keeps the eight below it.
LEMMA WriteRomBankHighInv ==
    ASSUME BankInv, NEW data \in Byte, WriteRomBankHigh(data)
    PROVE  BankInv'
<1>1. /\ rom_bank' = (256 * (data % 2) + (rom_bank % 256)) % rom_banks(hdr)
      /\ regs' = [regs EXCEPT !.high = data] /\ hdr.kind = "MBC5"
      /\ UNCHANGED <<hdr, ram_bank, mode_flag, ram_enabled, ram, panicked, written>>
    BY DEF WriteRomBankHigh
<1>2. regs \in [rom : Byte, high : Byte, ram : Byte] /\ hdr \in Headers
    BY DEF BankInv, RegisterTypes
<1>3. regs'.high = data /\ regs'.rom = regs.rom /\ regs'.ram = regs.ram
    BY <1>1, <1>2
<1>4. RegisterTypes'
    BY <1>1, <1>2 DEF BankInv, RegisterTypes
<1>5. RomBankKept'
  <2>1. rom_bank = (256 * (regs.high % 2) + regs.rom) % rom_banks(hdr)
      BY <1>1 DEF BankInv, RomBankKept, HardwareBank
  <2>2. /\ regs.high % 2 \in 0 .. 1 /\ data % 2 \in 0 .. 1 /\ regs.rom \in 0 .. 255
        /\ hdr.rom_size + 1 \in 1 .. 9
      BY <1>2, HeaderSizes DEF Byte
  <2> DEFINE n == hdr.rom_size + 1
             h == regs.high % 2
             g == data % 2
             old == regs.rom
  <2>3. n \in Sizes /\ h \in Bit /\ g \in Bit /\ old \in Byte
        /\ rom_bank = Nine(h, old, n) /\ rom_bank' = Nine(g, LowByte(rom_bank), n)
      BY <1>1, <2>1, <2>2 DEF rom_banks, Nine, HighBits, LowByte, Sizes, Bit, Byte
  <2> HIDE DEF n, h, g, old
  <2>4. Nine(g, LowByte(Nine(h, old, n)), n) = Nine(g, old, n)
      BY <2>3, NineBits, Zenon
  <2>5. rom_bank' = Nine(g, old, n)
      BY <2>3, <2>4, Zenon
  <2>6. rom_bank' = (256 * (data % 2) + regs.rom) % rom_banks(hdr)
      BY <2>5 DEF n, g, old, rom_banks, Nine
  <2> QED
      BY <1>1, <1>3, <2>6 DEF RomBankKept, HardwareBank
<1>6. RamBankKept' /\ CellsKept'
    BY <1>1, <1>3 DEF BankInv, RamBankKept, CellsKept, SelectedRam
<1> QED
    BY <1>4, <1>5, <1>6 DEF BankInv

\* A bank of RAM is selected among those there are, or the write panics.
LEMMA WriteRamBankInv ==
    ASSUME BankInv, NEW data \in Byte, WriteRamBank(data)
    PROVE  BankInv'
<1>1. /\ hdr.kind # "MBC2"
      /\ UNCHANGED <<hdr, rom_bank, mode_flag, ram_enabled, ram, written>>
    BY DEF WriteRamBank
<1>2. regs \in [rom : Byte, high : Byte, ram : Byte] /\ hdr \in Headers
    BY DEF BankInv, RegisterTypes
<1>3. hdr.kind \in {"MBC1", "MBC3", "MBC5"} /\ ram_banks(hdr) \in {0, 1, 4, 8, 16}
    BY <1>1, <1>2, HeaderSizes
<1>4. regs'.rom = regs.rom /\ regs'.high = regs.high /\ RegisterTypes'
    BY <1>1, <1>2 DEF WriteRamBank, BankInv, RegisterTypes
<1>5. CellsKept'
    BY <1>1 DEF BankInv, CellsKept
<1>6. RomBankKept' /\ RamBankKept'
  <2>1. CASE DividesByZero(data)
    <3>1. UNCHANGED <<ram_bank, regs>>
        BY <2>1 DEF WriteRamBank
    <3> QED
        BY <1>1, <3>1 DEF BankInv, RomBankKept, RamBankKept, HardwareBank, Masked, SelectedRam
  <2>2. CASE ~DividesByZero(data) /\ hdr.kind = "MBC1"
    <3>1. ram_bank' = data % 4 /\ regs'.ram = data
        BY <1>2, <2>2 DEF WriteRamBank, SelectRamBank
    <3>2. RamBankKept'
        BY <1>1, <2>2, <3>1 DEF RamBankKept
    <3> QED
        BY <1>1, <1>4, <2>2, <3>2 DEF BankInv, RomBankKept, Masked
  <2>3. CASE ~DividesByZero(data) /\ hdr.kind = "MBC5"
    <3>1. ram_bank' = (data % 16) % ram_banks(hdr) /\ regs'.ram = data /\ ram_banks(hdr) # 0
        BY <1>2, <2>3 DEF WriteRamBank, SelectRamBank, DividesByZero
    <3>2. RamBankKept'
        BY <1>1, <2>3, <3>1 DEF RamBankKept, SelectedRam
    <3> QED
        BY <1>1, <1>4, <2>3, <3>2 DEF BankInv, RomBankKept, HardwareBank
  <2>4. CASE ~DividesByZero(data) /\ hdr.kind = "MBC3"
    <3>1. RomBankKept'
        BY <1>1, <1>4, <2>4 DEF BankInv, RomBankKept, HardwareBank
    <3>2. CASE data \in 0 .. 3
      <4>1. ram_bank' = data % ram_banks(hdr) /\ regs'.ram = data /\ ram_banks(hdr) # 0
          BY <1>2, <2>4, <3>2 DEF WriteRamBank, SelectRamBank, DividesByZero
      <4>2. data % 16 = data
          BY <3>2
      <4> QED
          BY <1>1, <2>4, <3>1, <4>1, <4>2 DEF RamBankKept, SelectedRam
    <3>3. CASE data \notin 0 .. 3
      <4>1. ram_bank' \in {NoBank, ram_bank} /\ regs' = regs
          BY <2>4, <3>3 DEF WriteRamBank, SelectRamBank
      <4> QED
          BY <1>1, <2>4, <3>1, <4>1 DEF BankInv, RamBankKept, SelectedRam
    <3> QED
        BY <3>2, <3>3
  <2> QED
      BY <1>3, <2>1, <2>2, <2>3, <2>4
<1> QED
    BY <1>4, <1>5, <1>6 DEF BankInv

\* The registers without a bank in them.
LEMMA FlagsInv ==
    ASSUME BankInv, NEW data \in Byte, WriteMode(data) \/ WriteEnable(data) \/ UNCHANGED vars
    PROVE  BankInv'
<1>1. UNCHANGED <<hdr, rom_bank, ram_bank, ram, panicked, regs, written>>
    BY DEF WriteMode, WriteEnable, vars
<1>2. mode_flag' \in BOOLEAN /\ ram_enabled' \in BOOLEAN
    BY DEF WriteMode, WriteEnable, vars, BankInv, RegisterTypes
<1>3. RegisterTypes'
    BY <1>1, <1>2 DEF BankInv, RegisterTypes
<1>4. RomBankKept' /\ RamBankKept' /\ CellsKept'
    BY <1>1 DEF BankInv, RomBankKept, RamBankKept, CellsKept, HardwareBank, Masked, SelectedRam
<1> QED
    BY <1>3, <1>4 DEF BankInv

\* The cell the code reaches is that of the bank the registers name.
LEMMA CellFound == BankInv /\ RamIndex \in DOMAIN ram => RamIndex = HardwareRam
<1> SUFFICES ASSUME BankInv, RamIndex \in DOMAIN ram PROVE RamIndex = HardwareRam
    OBVIOUS
<1>1. DOMAIN ram = 0 .. ram_banks(hdr) - 1 /\ RamIndex \in 0 .. ram_banks(hdr) - 1
    BY DEF BankInv, CellsKept
<1>2. /\ hdr.kind \in {"MBC1", "MBC2", "MBC3", "MBC5"} /\ ram_banks(hdr) \in {0, 1, 4, 8, 16}
      /\ hdr.kind = "MBC1" => ram_banks(hdr) \in {0, 1, 4}
    BY HeaderSizes DEF BankInv, RegisterTypes
<1>3. regs.ram \in 0 .. 255 /\ mode_flag \in BOOLEAN
    BY DEF BankInv, RegisterTypes, Byte
<1>4. ram_banks(hdr) # 0
    BY <1>1, <1>2
<1>5. CASE hdr.kind = "MBC1"
  <2>1. ram_bank = regs.ram % 4
      BY <1>5 DEF BankInv, RamBankKept
  <2>2. (regs.ram % 4) % 4 = regs.ram % 4 /\ (regs.ram % 4) % 1 = 0
      BY <1>3
  <2> QED
      BY <1>2, <1>4, <1>5, <2>1, <2>2 DEF RamIndex, HardwareRam
<1>6. CASE hdr.kind = "MBC2"
    BY <1>4, <1>6 DEF RamIndex, HardwareRam
<1>7. CASE hdr.kind = "MBC3"
    BY <1>1, <1>4, <1>7 DEF RamIndex, HardwareRam, BankInv, RamBankKept, SelectedRam, NoBank
<1>8. CASE hdr.kind = "MBC5"
    BY <1>1, <1>4, <1>8 DEF RamIndex, HardwareRam, BankInv, RamBankKept, SelectedRam
<1> QED
    BY <1>2, <1>5, <1>6, <1>7, <1>8

\* A write to the RAM window keeps the invariant.
LEMMA WriteRamInv ==
    ASSUME BankInv, NEW value \in Byte, WriteRam(value)
    PROVE  BankInv'
<1>1. UNCHANGED <<hdr, rom_bank, ram_bank, mode_flag, ram_enabled, regs>>
    BY DEF WriteRam
<1>2. Stored(value) \in Byte
    BY DEF Stored, Byte
<1>3. CellsKept' /\ panicked' \in BOOLEAN
  <2>1. CASE RamIndex \in DOMAIN ram
    <3>1. /\ ram' = [ram EXCEPT ![RamIndex] = Stored(value)] /\ panicked' = panicked
          /\ written' = [written EXCEPT ![HardwareRam] = Stored(value)]
        BY <2>1 DEF WriteRam
    <3>2. RamIndex = HardwareRam
        BY <2>1, CellFound
    <3>3. ram' = written' /\ ram' \in [0 .. ram_banks(hdr) - 1 -> Byte]
        BY <1>2, <3>1, <3>2 DEF BankInv, CellsKept
    <3> QED
        BY <1>1, <3>1, <3>3 DEF CellsKept, BankInv, RegisterTypes
  <2>2. CASE RamIndex \notin DOMAIN ram
    <3>1. panicked' = TRUE /\ ram' = ram /\ written' = written
        BY <2>2 DEF WriteRam
    <3> QED
        BY <1>1, <3>1 DEF CellsKept, BankInv
  <2> QED
      BY <2>1, <2>2
<1>4. RegisterTypes'
    BY <1>1, <1>3 DEF BankInv, RegisterTypes
<1>5. RomBankKept' /\ RamBankKept'
    BY <1>1 DEF BankInv, RomBankKept, RamBankKept, HardwareBank, Masked, SelectedRam
<1> QED
    BY <1>3, <1>4, <1>5 DEF BankInv

-----------------------------------------------------------------------------
(* The clock of MBC3.  A time of day is a number in mixed radix, and       *)
(* rtc_inc() is the addition of one to it; the invariant relates the       *)
(* cycles left to the clocks counted.                                      *)

CyclesInv ==
    /\ rtc_registers \in Registers
    /\ rtc_cycles_left \in 1 .. ClocksPerSecond
    /\ run_clocks + rtc_cycles_left = ClocksPerSecond
    /\ run_clocks \in Nat

----------------------------------------------------------------------------
(* Numbers in mixed radix *)

Composed(a, B, b) == a * B + b

\* Two digits are a number below the product of their bases; the number is 0
\* when they are.
LEMMA Positional ==
    ASSUME NEW A \in Nat \ {0}, NEW B \in Nat \ {0}, NEW a \in 0 .. A - 1, NEW b \in 0 .. B - 1
    PROVE  /\ Composed(a, B, b) \in 0 .. A * B - 1
           /\ a = 0 /\ b = 0 => Composed(a, B, b) = 0
           /\ A * B \in Nat \ {0}
<1>1. a * B <= (A - 1) * B /\ a * B >= 0
    OBVIOUS
<1>2. (A - 1) * B = A * B - B
    OBVIOUS
<1>3. Composed(a, B, b) \in 0 .. A * B - 1
    BY <1>1, <1>2 DEF Composed
<1>4. a = 0 /\ b = 0 => Composed(a, B, b) = 0
    BY DEF Composed
<1> QED
    BY <1>3, <1>4

\* The last number of two digits.
LEMMA LastOne ==
    ASSUME NEW A \in Nat \ {0}, NEW B \in Nat \ {0}, NEW a \in 0 .. A - 1, NEW b \in 0 .. B - 1,
           a + 1 = A, b + 1 = B
    PROVE  Composed(a, B, b) + 1 = A * B
<1>1. a = A - 1
    OBVIOUS
<1>2. (A - 1) * B = A * B - B
    OBVIOUS
<1> QED
    BY <1>1, <1>2 DEF Composed

\* Adding one to the lower digit, or a carry to the upper one when the lower
\* is the last.
LEMMA AddOne ==
    ASSUME NEW B \in Nat \ {0}, NEW a \in Nat, NEW b \in 0 .. B - 1, NEW c, NEW d,
           \/ c = a /\ d = b + 1
           \/ c = a + 1 /\ b + 1 = B /\ d = 0
    PROVE  Composed(c, B, d) = Composed(a, B, b) + 1
<1>1. (a + 1) * B = a * B + B
    OBVIOUS
<1> QED
    BY <1>1 DEF Composed

\* One more, with a rollover to 0.
LEMMA Wrapped ==
    ASSUME NEW M \in Nat \ {0}, NEW t \in 0 .. M - 1
    PROVE  /\ t + 1 < M => (t + 1) % M = t + 1
           /\ t + 1 = M => (t + 1) % M = 0
    OBVIOUS

----------------------------------------------------------------------------
(* The parts of a time *)

HoursOf(r) == Composed(Days(r), Hours, r.h)
MinutesOf(r) == Composed(HoursOf(r), Minutes, r.m)

DaysInAll == 2 * DayCodes
HoursInAll == DaysInAll * Hours
MinutesInAll == HoursInAll * Minutes

\* The rollovers of the clock as natural numbers.
LEMMA Constants ==
    /\ DaysInAll \in Nat \ {0} /\ HoursInAll \in Nat \ {0} /\ MinutesInAll \in Nat \ {0}
    /\ Period \in Nat \ {0} /\ Period = MinutesInAll * Seconds
<1>1. DaysInAll \in Nat \ {0}
    BY RtcConstants DEF DaysInAll
<1>2. \A A \in Nat \ {0}, B \in Nat \ {0} : A * B \in Nat \ {0}
    BY Positional
<1>3. HoursInAll \in Nat \ {0}
    BY <1>1, <1>2, RtcConstants DEF HoursInAll
<1>4. MinutesInAll \in Nat \ {0}
    BY <1>2, <1>3, RtcConstants DEF MinutesInAll
<1>5. Period = MinutesInAll * Seconds
    BY DEF Period, MinutesInAll, HoursInAll, DaysInAll
<1> QED
    BY <1>1, <1>2, <1>3, <1>4, <1>5, RtcConstants

\* Day and day carry make a number below DaysInAll.
LEMMA DaysRange ==
    ASSUME NEW r \in Registers
    PROVE  Days(r) \in 0 .. DaysInAll - 1
<1>1. r.dl \in 0 .. DayCodes - 1 /\ r.day \in 0 .. 1
    BY DEF Registers
<1>2. DayCodes * r.day \in {0, DayCodes}
    BY <1>1, RtcConstants
<1> QED
    BY <1>1, <1>2, RtcConstants DEF Days, DaysInAll

\* The fields of the clock's registers.
LEMMA Ranges ==
    ASSUME NEW r \in Registers, Proper(r)
    PROVE  /\ r.s \in 0 .. Seconds - 1 /\ r.m \in 0 .. Minutes - 1 /\ r.h \in 0 .. Hours - 1
           /\ Days(r) \in 0 .. DaysInAll - 1
           /\ HoursOf(r) \in 0 .. HoursInAll - 1
           /\ MinutesOf(r) \in 0 .. MinutesInAll - 1
           /\ Time(r) \in 0 .. Period - 1
           /\ Time(r) = Composed(MinutesOf(r), Seconds, r.s)
<1>1. r.s \in 0 .. Seconds - 1 /\ r.m \in 0 .. Minutes - 1 /\ r.h \in 0 .. Hours - 1
    BY RtcConstants DEF Registers, Proper
<1>2. Days(r) \in 0 .. DaysInAll - 1
    BY DaysRange
<1>3. HoursOf(r) \in 0 .. HoursInAll - 1
    BY <1>1, <1>2, Positional, Constants, RtcConstants DEF HoursOf, HoursInAll
<1>4. MinutesOf(r) \in 0 .. MinutesInAll - 1
    BY <1>1, <1>3, Positional, Constants, RtcConstants DEF MinutesOf, MinutesInAll
<1>5. Time(r) = Composed(MinutesOf(r), Seconds, r.s)
    BY DEF Time, MinutesOf, HoursOf, Composed
<1>6. Composed(MinutesOf(r), Seconds, r.s) \in 0 .. MinutesInAll * Seconds - 1
    BY <1>1, <1>4, Positional, Constants, RtcConstants
<1> QED
    BY <1>1, <1>2, <1>3, <1>4, <1>5, <1>6, Constants

----------------------------------------------------------------------------
(* rtc_inc() adds one. *)

\* A count below 2 * M splits into a remainder and one bit.
LEMMA Split ==
    ASSUME NEW M \in Nat \ {0}, NEW d \in 0 .. 2 * M - 1
    PROVE  /\ d % M \in 0 .. M - 1 /\ d \div M \in 0 .. 1
           /\ (d % M) + M * (d \div M) = d
<1>1. CASE d < M
  <2>1. d % M = d /\ d \div M = 0
      BY <1>1
  <2> QED
      BY <1>1, <2>1
<1>2. CASE d >= M
  <2>1. d \div M = 1
    <3>1. d = M * 1 + (d - M) /\ d - M \in 0 .. M - 1
        BY <1>2
    <3> QED
        BY <1>2, <3>1
  <2>2. d = M * (d \div M) + (d % M)
      BY SMT
  <2>3. d % M = d - M
      BY <2>1, <2>2
  <2> QED
      BY <1>2, <2>1, <2>3
<1> QED
    BY <1>1, <1>2

\* A day more, with the carry, is one added to the days.
LEMMA DayAdded ==
    ASSUME NEW r \in Registers
    PROVE  /\ NextDay(r) \in Registers
           /\ Days(r) + 1 < DaysInAll => Days(NextDay(r)) = Days(r) + 1 /\ NextDay(r).carry = r.carry
           /\ Days(r) + 1 = DaysInAll => Days(NextDay(r)) = 0 /\ NextDay(r).carry = TRUE
<1> DEFINE overflow == Days(r) + 1 = 2 * DayCodes
           days == IF overflow THEN 0 ELSE Days(r) + 1
<1>1. r.dl \in 0 .. DayCodes - 1 /\ r.day \in 0 .. 1 /\ r.carry \in BOOLEAN
    BY DEF Registers
<1>2. Days(r) \in 0 .. 2 * DayCodes - 1
    BY DaysRange DEF DaysInAll
<1>3. days \in 0 .. 2 * DayCodes - 1
    BY <1>2, RtcConstants
<1>4. /\ days % DayCodes \in 0 .. DayCodes - 1 /\ days \div DayCodes \in 0 .. 1
      /\ (days % DayCodes) + DayCodes * (days \div DayCodes) = days
  <2> HIDE DEF days
  <2> QED
      BY <1>3, Split, RtcConstants
<1>5. NextDay(r) = [r EXCEPT !.dl = days % DayCodes, !.day = days \div DayCodes, !.carry = @ \/ overflow]
    BY DEF NextDay
<1>6. /\ NextDay(r).dl = days % DayCodes /\ NextDay(r).day = days \div DayCodes
      /\ NextDay(r).carry = (r.carry \/ overflow)
  <2> HIDE DEF days, overflow
  <2> QED
      BY <1>5 DEF Registers
<1>7. NextDay(r) \in Registers
  <2>1. (r.carry \/ overflow) \in BOOLEAN
      BY <1>1
  <2> HIDE DEF days, overflow
  <2> QED
      BY <1>1, <1>4, <1>5, <2>1 DEF Registers
<1>8. Days(NextDay(r)) = days
  <2> HIDE DEF days
  <2> QED
      BY <1>4, <1>6 DEF Days
<1>9. CASE overflow
  <2>1. days = 0
      BY <1>9
  <2>2. NextDay(r).carry = TRUE
      BY <1>6, <1>9
  <2> QED
      BY <1>2, <1>7, <1>8, <1>9, <2>1, <2>2, RtcConstants DEF DaysInAll
<1>10. CASE ~overflow
  <2>1. days = Days(r) + 1
      BY <1>10
  <2>2. NextDay(r).carry = r.carry
      BY <1>1, <1>6, <1>10
  <2> QED
      BY <1>2, <1>7, <1>8, <1>10, <2>1, <2>2, RtcConstants DEF DaysInAll
<1> QED
    BY <1>9, <1>10

\* What rtc_inc() leaves in each field.
LEMMA IncFields ==
    ASSUME NEW r \in Registers
    PROVE  /\ rtc_inc(r) \in Registers
           /\ rtc_inc(r).s = Incremented(r.s, Seconds, SecondCodes)
           /\ rtc_inc(r).m = IF MinuteEnds(r) THEN Incremented(r.m, Minutes, MinuteCodes) ELSE r.m
           /\ rtc_inc(r).h = IF HourEnds(r) THEN Incremented(r.h, Hours, HourCodes) ELSE r.h
           /\ Days(rtc_inc(r)) = IF DayEnds(r) THEN Days(NextDay(r)) ELSE Days(r)
           /\ rtc_inc(r).carry = IF DayEnds(r) THEN NextDay(r).carry ELSE r.carry
<1> DEFINE day == IF DayEnds(r) THEN NextDay(r) ELSE r
           s == Incremented(r.s, Seconds, SecondCodes)
           m == IF MinuteEnds(r) THEN Incremented(r.m, Minutes, MinuteCodes) ELSE r.m
           h == IF HourEnds(r) THEN Incremented(r.h, Hours, HourCodes) ELSE r.h
<1>1. day \in Registers
    BY DayAdded
<1>2. s \in 0 .. SecondCodes - 1
    BY RtcConstants DEF Registers, Incremented
<1>3. m \in 0 .. MinuteCodes - 1
    BY RtcConstants DEF Registers, Incremented
<1>4. h \in 0 .. HourCodes - 1
    BY RtcConstants DEF Registers, Incremented
<1>5. rtc_inc(r) = [day EXCEPT !.s = s, !.m = m, !.h = h]
    BY DEF rtc_inc
<1> HIDE DEF day, s, m, h
<1>6. rtc_inc(r) \in Registers
    BY <1>1, <1>2, <1>3, <1>4, <1>5 DEF Registers
<1>7. /\ rtc_inc(r).s = s /\ rtc_inc(r).m = m /\ rtc_inc(r).h = h
      /\ rtc_inc(r).dl = day.dl /\ rtc_inc(r).day = day.day /\ rtc_inc(r).carry = day.carry
    BY <1>1, <1>5 DEF Registers
<1>8. Days(rtc_inc(r)) = Days(day)
    BY <1>7 DEF Days
<1> QED
    BY <1>6, <1>7, <1>8 DEF day, s, m, h

\* A time of day is followed by the next, and the last by midnight of day 0.
LEMMA Counts ==
    ASSUME NEW r \in Registers, Proper(r)
    PROVE  /\ Proper(rtc_inc(r))
           /\ Time(rtc_inc(r)) = (Time(r) + 1) % Period
           /\ rtc_inc(r).carry = (r.carry \/ Time(r) + 1 = Period)
<1>0. PICK n : n = rtc_inc(r)
    OBVIOUS
<1>1. /\ r.s \in 0 .. Seconds - 1 /\ r.m \in 0 .. Minutes - 1 /\ r.h \in 0 .. Hours - 1
      /\ r.carry \in BOOLEAN
    BY Ranges DEF Registers
<1>2. /\ Days(r) \in 0 .. DaysInAll - 1
      /\ HoursOf(r) \in 0 .. HoursInAll - 1
      /\ MinutesOf(r) \in 0 .. MinutesInAll - 1
      /\ Time(r) \in 0 .. Period - 1
      /\ Time(r) = Composed(MinutesOf(r), Seconds, r.s)
    BY Ranges
<1>3. n \in Registers /\ Time(n) = Composed(MinutesOf(n), Seconds, n.s)
    BY <1>0, IncFields DEF Time, MinutesOf, HoursOf, Composed
<1>4. /\ Period \in Nat \ {0} /\ Seconds \in Nat \ {0} /\ Minutes \in Nat \ {0} /\ Hours \in Nat \ {0}
      /\ DaysInAll \in Nat \ {0} /\ HoursInAll \in Nat \ {0} /\ MinutesInAll \in Nat \ {0}
    BY Constants, RtcConstants
<1>5. n.s = IF r.s + 1 = Seconds THEN 0 ELSE r.s + 1
    BY <1>0, <1>1, IncFields, RtcConstants DEF Incremented
<1>6. ASSUME Proper(n), Time(n) = Time(r) + 1, n.carry = r.carry
      PROVE  /\ Proper(n)
             /\ Time(n) = (Time(r) + 1) % Period
             /\ n.carry = (r.carry \/ Time(r) + 1 = Period)
  <2>1. Time(n) \in 0 .. Period - 1
      BY <1>3, <1>6, Ranges
  <2>2. Time(r) + 1 < Period
      BY <1>2, <1>4, <1>6, <2>1
  <2>3. (Time(r) + 1) % Period = Time(r) + 1
      BY <1>2, <1>4, <2>2, Wrapped
  <2>4. Time(r) + 1 # Period
      BY <1>2, <1>4, <2>2
  <2> QED
      BY <1>6, <2>3, <2>4, <1>1
<1>7. CASE ~MinuteEnds(r)
  <2>1. n.m = r.m /\ n.h = r.h /\ Days(n) = Days(r) /\ n.carry = r.carry /\ n.s = r.s + 1
      BY <1>0, <1>5, <1>7, IncFields DEF HourEnds, DayEnds, MinuteEnds
  <2>2. Time(n) = Time(r) + 1
    <3>1. MinutesOf(n) = MinutesOf(r)
        BY <2>1 DEF MinutesOf, HoursOf
    <3> QED
        BY <1>1, <1>2, <1>3, <1>4, <2>1, <3>1, AddOne
  <2>3. Proper(n)
      BY <1>1, <1>4, <1>7, <2>1 DEF Proper, MinuteEnds
  <2> QED
      BY <1>0, <1>6, <2>1, <2>2, <2>3
<1>8. CASE MinuteEnds(r) /\ ~HourEnds(r)
  <2>1. n.m = r.m + 1 /\ n.m < Minutes /\ n.h = r.h /\ Days(n) = Days(r) /\ n.carry = r.carry
      BY <1>0, <1>1, <1>8, IncFields, RtcConstants DEF HourEnds, DayEnds, Incremented
  <2>2. n.s = 0 /\ r.s + 1 = Seconds
      BY <1>5, <1>8 DEF MinuteEnds
  <2>3. HoursOf(n) = HoursOf(r)
      BY <2>1 DEF HoursOf
  <2>4. MinutesOf(n) = MinutesOf(r) + 1
      BY <1>1, <1>2, <1>4, <2>1, <2>3, AddOne DEF MinutesOf
  <2>5. Time(n) = Time(r) + 1
      BY <1>1, <1>2, <1>3, <1>4, <2>2, <2>4, AddOne
  <2>6. Proper(n)
      BY <1>1, <1>4, <2>1, <2>2 DEF Proper
  <2> QED
      BY <1>0, <1>6, <2>1, <2>5, <2>6
<1>9. CASE HourEnds(r) /\ ~DayEnds(r)
  <2>1. n.m = 0 /\ n.h = r.h + 1 /\ n.h < Hours /\ Days(n) = Days(r) /\ n.carry = r.carry
      BY <1>0, <1>1, <1>9, IncFields, RtcConstants DEF HourEnds, DayEnds, Incremented
  <2>2. n.s = 0 /\ r.s + 1 = Seconds /\ r.m + 1 = Minutes
      BY <1>5, <1>9 DEF HourEnds, MinuteEnds
  <2>3. HoursOf(n) = HoursOf(r) + 1
      BY <1>1, <1>2, <1>4, <2>1, AddOne DEF HoursOf
  <2>4. MinutesOf(n) = MinutesOf(r) + 1
      BY <1>1, <1>2, <1>4, <2>1, <2>2, <2>3, AddOne DEF MinutesOf
  <2>5. Time(n) = Time(r) + 1
      BY <1>1, <1>2, <1>3, <1>4, <2>2, <2>4, AddOne
  <2>6. Proper(n)
      BY <1>4, <2>1, <2>2 DEF Proper
  <2> QED
      BY <1>0, <1>6, <2>1, <2>5, <2>6
<1>10. CASE DayEnds(r)
  <2>1. n.m = 0 /\ n.h = 0 /\ n.s = 0
      BY <1>0, <1>1, <1>5, <1>10, IncFields, RtcConstants DEF HourEnds, MinuteEnds, DayEnds, Incremented
  <2>2. Proper(n)
      BY <1>4, <2>1 DEF Proper
  <2>3. Days(n) = Days(NextDay(r)) /\ n.carry = NextDay(r).carry
      BY <1>0, <1>10, IncFields
  <2>4. r.s + 1 = Seconds /\ r.m + 1 = Minutes /\ r.h + 1 = Hours
      BY <1>10 DEF DayEnds, HourEnds, MinuteEnds
  <2>5. CASE Days(r) + 1 < DaysInAll
    <3>1. Days(n) = Days(r) + 1 /\ n.carry = r.carry
        BY <2>3, <2>5, DayAdded
    <3>2. HoursOf(n) = HoursOf(r) + 1
        BY <1>1, <1>2, <1>4, <2>1, <2>4, <3>1, AddOne DEF HoursOf
    <3>3. MinutesOf(n) = MinutesOf(r) + 1
        BY <1>1, <1>2, <1>4, <2>1, <2>4, <3>2, AddOne DEF MinutesOf
    <3>4. Time(n) = Time(r) + 1
        BY <1>1, <1>2, <1>3, <1>4, <2>1, <2>4, <3>3, AddOne
    <3> QED
        BY <1>0, <1>6, <2>2, <3>1, <3>4
  <2>6. CASE Days(r) + 1 = DaysInAll
    <3>1. Days(n) = 0 /\ n.carry = TRUE
        BY <2>3, <2>6, DayAdded
    <3>2. Time(n) = 0
        BY <1>3, <2>1, <3>1, <1>4 DEF MinutesOf, HoursOf, Composed
    <3>3. HoursOf(r) + 1 = HoursInAll
        BY <1>1, <1>2, <1>4, <2>4, <2>6, LastOne DEF HoursOf, HoursInAll
    <3>4. MinutesOf(r) + 1 = MinutesInAll
        BY <1>1, <1>2, <1>4, <2>4, <3>3, LastOne DEF MinutesOf, MinutesInAll
    <3>5. Time(r) + 1 = Period
        BY <1>1, <1>2, <1>4, <2>4, <3>4, LastOne, Constants
    <3>6. (Time(r) + 1) % Period = 0
        BY <1>2, <1>4, <3>5, Wrapped
    <3> QED
        BY <1>0, <2>2, <3>1, <3>2, <3>5, <3>6
  <2> QED
      BY <1>2, <1>4, <2>5, <2>6
<1> QED
    BY <1>7, <1>8, <1>9, <1>10 DEF HourEnds, DayEnds

\* A register set past its rollover runs to the end of its bits.
LEMMA RunsOut ==
    ASSUME NEW codes \in Nat, NEW rollover \in Nat \ {0}, NEW reg \in rollover .. codes - 1
    PROVE  Incremented(reg, rollover, codes) = (reg + 1) % codes
<1>1. reg + 1 # rollover /\ codes \in Nat \ {0} /\ reg \in 0 .. codes - 1
    OBVIOUS
<1>2. Incremented(reg, rollover, codes) = IF reg + 1 = codes THEN 0 ELSE reg + 1
    BY <1>1 DEF Incremented
<1>3. reg + 1 = codes => (reg + 1) % codes = 0
    BY <1>1, Wrapped
<1>4. reg + 1 # codes => (reg + 1) % codes = reg + 1
    BY <1>1, Wrapped
<1> QED
    BY <1>2, <1>3, <1>4

\* A field set past its rollover wraps without a carry into the next.
LEMMA Improper ==
    ASSUME NEW r \in Registers
    PROVE  /\ r.s >= Seconds => rtc_inc(r) = [r EXCEPT !.s = (@ + 1) % SecondCodes]
           /\ MinuteEnds(r) /\ r.m >= Minutes => rtc_inc(r) = [r EXCEPT !.s = 0, !.m = (@ + 1) % MinuteCodes]
           /\ HourEnds(r) /\ r.h >= Hours =>
                rtc_inc(r) = [r EXCEPT !.s = 0, !.m = 0, !.h = (@ + 1) % HourCodes]
<1>1. r.s \in 0 .. SecondCodes - 1 /\ r.m \in 0 .. MinuteCodes - 1 /\ r.h \in 0 .. HourCodes - 1
    BY DEF Registers
<1>2. ASSUME r.s >= Seconds
      PROVE  rtc_inc(r) = [r EXCEPT !.s = (@ + 1) % SecondCodes]
  <2>1. ~MinuteEnds(r) /\ ~HourEnds(r) /\ ~DayEnds(r)
      BY <1>1, <1>2, RtcConstants DEF MinuteEnds, HourEnds, DayEnds
  <2>2. Incremented(r.s, Seconds, SecondCodes) = (r.s + 1) % SecondCodes
      BY <1>1, <1>2, RunsOut, RtcConstants
  <2>3. rtc_inc(r) = [r EXCEPT !.s = Incremented(r.s, Seconds, SecondCodes), !.m = r.m, !.h = r.h]
      BY <2>1 DEF rtc_inc
  <2> QED
      BY <2>2, <2>3 DEF Registers
<1>3. ASSUME MinuteEnds(r), r.m >= Minutes
      PROVE  rtc_inc(r) = [r EXCEPT !.s = 0, !.m = (@ + 1) % MinuteCodes]
  <2>1. ~HourEnds(r) /\ ~DayEnds(r)
      BY <1>1, <1>3, RtcConstants DEF MinuteEnds, HourEnds, DayEnds
  <2>2. Incremented(r.m, Minutes, MinuteCodes) = (r.m + 1) % MinuteCodes
      BY <1>1, <1>3, RunsOut, RtcConstants
  <2>3. Incremented(r.s, Seconds, SecondCodes) = 0
      BY <1>3 DEF Incremented, MinuteEnds
  <2>4. rtc_inc(r) = [r EXCEPT !.s = Incremented(r.s, Seconds, SecondCodes),
                               !.m = Incremented(r.m, Minutes, MinuteCodes), !.h = r.h]
      BY <1>3, <2>1 DEF rtc_inc
  <2> QED
      BY <2>2, <2>3, <2>4 DEF Registers
<1>4. ASSUME HourEnds(r), r.h >= Hours
      PROVE  rtc_inc(r) = [r EXCEPT !.s = 0, !.m = 0, !.h = (@ + 1) % HourCodes]
  <2>1. ~DayEnds(r) /\ MinuteEnds(r)
      BY <1>1, <1>4, RtcConstants DEF HourEnds, DayEnds
  <2>2. Incremented(r.h, Hours, HourCodes) = (r.h + 1) % HourCodes
      BY <1>1, <1>4, RunsOut, RtcConstants
  <2>3. Incremented(r.s, Seconds, SecondCodes) = 0 /\ Incremented(r.m, Minutes, MinuteCodes) = 0
      BY <1>4 DEF Incremented, MinuteEnds, HourEnds
  <2>4. rtc_inc(r) = [r EXCEPT !.s = Incremented(r.s, Seconds, SecondCodes),
                               !.m = Incremented(r.m, Minutes, MinuteCodes),
                               !.h = Incremented(r.h, Hours, HourCodes)]
      BY <1>4, <2>1 DEF rtc_inc
  <2> QED
      BY <2>2, <2>3, <2>4 DEF Registers
<1> QED
    BY <1>2, <1>3, <1>4

----------------------------------------------------------------------------
(* The clock's invariant *)

\* The first state has a whole second before it.
LEMMA CyclesStart == RtcInit => CyclesInv
    BY RtcConstants DEF RtcInit, CyclesInv, Registers

\* Every step keeps the count of cycles.
LEMMA CyclesStep ==
    ASSUME CyclesInv, [RtcNext]_rtcVars
    PROVE  CyclesInv'
<1> USE DEF CyclesInv
<1>1. CASE clock
  <2>1. CASE rtc_cycles_left <= 1
    <3>1. rtc_registers' = rtc_inc(rtc_registers)
        BY <1>1, <2>1 DEF clock
    <3>2. rtc_cycles_left' = ClocksPerSecond /\ run_clocks' = 0
        BY <1>1, <2>1, RtcConstants DEF clock
    <3>3. rtc_registers' \in Registers
        BY <3>1, IncFields
    <3> QED
        BY <3>2, <3>3, RtcConstants
  <2>2. CASE ~ (rtc_cycles_left <= 1)
    <3>1. rtc_registers' = rtc_registers /\ rtc_cycles_left' = rtc_cycles_left - 1 /\ run_clocks' = run_clocks + 1
        BY <1>1, <2>2 DEF clock
    <3> QED
        BY <2>2, <3>1, RtcConstants
  <2> QED
      BY <2>1, <2>2
<1>2. ASSUME NEW data \in Nat, WriteLatch(data)
      PROVE  CyclesInv'
    BY <1>2 DEF WriteLatch
<1>3. ASSUME NEW name \in Names, NEW value \in Codes[name], WriteRegister(name, value)
      PROVE  CyclesInv'
  <2>1. With(rtc_registers, name, value) \in Registers
    <3>1. name \in {"s", "m", "h", "dl", "dh"}
        BY DEF Names, Codes
    <3>2. CASE name = "s"
        BY <3>2 DEF With, Codes, Registers
    <3>3. CASE name = "m"
        BY <3>3 DEF With, Codes, Registers
    <3>4. CASE name = "h"
        BY <3>4 DEF With, Codes, Registers
    <3>5. CASE name = "dl"
        BY <3>5 DEF With, Codes, Registers
    <3>6. CASE name = "dh"
      <4>1. value \in [day : 0 .. 1, halt : BOOLEAN, carry : BOOLEAN]
          BY <3>6 DEF Codes
      <4> QED
          BY <3>6, <4>1 DEF With, Registers
    <3> QED
        BY <3>1, <3>2, <3>3, <3>4, <3>5, <3>6
  <2> QED
      BY <1>3, <2>1, RtcConstants DEF WriteRegister
<1>4. CASE UNCHANGED rtcVars
    BY <1>4 DEF rtcVars
<1> QED
    BY <1>1, <1>2, <1>3, <1>4 DEF RtcNext

\* For any rollovers and any widths of the registers: the clock changes them
\* only when a full second has passed since the program set the seconds, and
\* the change is the addition of one second.
LEMMA ClockCounts == RtcSpec => SecondAdded
<1> DEFINE Added == clock /\ rtc_registers' # rtc_registers =>
                      /\ run_clocks + 1 = ClocksPerSecond
                      /\ CountsOne(rtc_registers, rtc_registers')
<1>1. CyclesInv /\ [RtcNext]_rtcVars => [Added]_rtcVars
  <2> SUFFICES ASSUME CyclesInv, clock, rtc_registers' # rtc_registers
               PROVE  run_clocks + 1 = ClocksPerSecond /\ CountsOne(rtc_registers, rtc_registers')
      BY DEF Added
  <2>1. rtc_cycles_left <= 1 /\ rtc_registers' = rtc_inc(rtc_registers)
      BY DEF clock
  <2>2. run_clocks + 1 = ClocksPerSecond
      BY <2>1, RtcConstants DEF CyclesInv
  <2>3. rtc_registers \in Registers
      BY DEF CyclesInv
  <2>4. CountsOne(rtc_registers, rtc_inc(rtc_registers))
      BY <2>3, Counts, Improper DEF CountsOne
  <2> QED
      BY <2>1, <2>2, <2>4
<1> QED
    BY <1>1, CyclesStart, CyclesStep, PTL DEF RtcSpec, SecondAdded

-----------------------------------------------------------------------------
(* What the program sees *)

\* The banks the code reduces in two steps are the bank reduced once.
LEMMA RomFound == BankInv => RomMapped
<1> SUFFICES ASSUME BankInv PROVE RomMapped
    OBVIOUS
<1>1. /\ hdr.kind \in {"MBC1", "MBC2", "MBC3", "MBC5"}
      /\ hdr.kind = "MBC1" => hdr.rom_size \in 0 .. 6
    BY HeaderSizes DEF BankInv, RegisterTypes
<1>2. CASE hdr.kind # "MBC1"
    BY <1>1, <1>2 DEF RomMapped, UpperRom, LowerRom, BankInv, RomBankKept
<1>3. CASE hdr.kind = "MBC1"
  <2> DEFINE r == regs.ram % 4
             x == Or1(regs.rom % 32)
  <2>1. /\ r \in 0 .. 3 /\ x \in 0 .. 31
        /\ ram_bank = r /\ rom_bank = Masked(x) /\ hdr.rom_size \in 0 .. 6 /\ mode_flag \in BOOLEAN
    <3>1. regs.ram \in 0 .. 255 /\ regs.rom \in 0 .. 255
        BY DEF BankInv, RegisterTypes, Byte
    <3>2. x \in 0 .. 31
        BY <3>1 DEF Or1
    <3> QED
        BY <1>1, <1>3, <3>1, <3>2 DEF BankInv, RegisterTypes, RomBankKept, RamBankKept
  <2>2. HardwareBank = (32 * r + x) % rom_banks(hdr)
      BY <1>3 DEF HardwareBank, Or1
  <2>3. RomMapped <=> /\ UpperRom = (32 * r + x) % rom_banks(hdr)
                      /\ LowerRom = IF mode_flag THEN (32 * r) % rom_banks(hdr) ELSE 0
      BY <1>3, <2>2 DEF RomMapped
  <2> HIDE DEF r, x
  <2>4. CASE hdr.rom_size \in 0 .. 4
    <3> DEFINE n == hdr.rom_size + 1
    <3>1. n \in 1 .. 5 /\ MinOf(n, 5) = n
        BY <2>4 DEF MinOf
    <3>2. (32 * r + x) % 2 ^ n = x % 2 ^ n /\ (32 * r) % 2 ^ n = 0
        BY <2>1, <3>1, FiveBits
    <3>3. UpperRom = rom_bank /\ rom_bank = x % 2 ^ n /\ LowerRom = 0
        BY <1>3, <2>1, <2>4, <3>1 DEF UpperRom, LowerRom, Masked
    <3> QED
        BY <2>3, <3>2, <3>3 DEF rom_banks
  <2>5. CASE hdr.rom_size = 5
    <3>1. rom_banks(hdr) = 64 /\ MinOf(hdr.rom_size + 1, 5) = 5
        BY <2>5 DEF rom_banks, MinOf
    <3>2. \A b : Masked(b) = b % 32
      <4>1. 2 ^ 5 = 32
          OBVIOUS
      <4> QED
          BY <3>1, <4>1, Zenon DEF Masked
    <3>3. UpperRom = ((x % 32) % 32) + (r % 2) * 32
        BY <1>3, <2>1, <2>5, <3>2 DEF UpperRom
    <3>4. LowerRom = IF mode_flag THEN (r % 2) * 32 ELSE 0
        BY <1>3, <2>1, <2>5 DEF LowerRom
    <3> QED
        BY <2>1, <2>3, <3>1, <3>3, <3>4, SixBits
  <2>6. CASE hdr.rom_size = 6
    <3>1. rom_banks(hdr) = 128 /\ MinOf(hdr.rom_size + 1, 5) = 5
        BY <2>6 DEF rom_banks, MinOf
    <3>2. \A b : Masked(b) = b % 32
      <4>1. 2 ^ 5 = 32
          OBVIOUS
      <4> QED
          BY <3>1, <4>1, Zenon DEF Masked
    <3>3. UpperRom = ((x % 32) % 32) + r * 32
        BY <1>3, <2>1, <2>6, <3>2 DEF UpperRom
    <3>4. LowerRom = IF mode_flag THEN r * 32 ELSE 0
        BY <1>3, <2>1, <2>6 DEF LowerRom
    <3> QED
        BY <2>1, <2>3, <3>1, <3>3, <3>4, SixBits
  <2> QED
      BY <2>1, <2>4, <2>5, <2>6
<1> QED
    BY <1>2, <1>3

\* The property is part of the invariant.
LEMMA RamFound == BankInv => RamKept
<1> SUFFICES ASSUME BankInv, RamIndex \in DOMAIN ram PROVE ram[RamIndex] = written[HardwareRam]
    BY DEF RamKept
<1>1. RamIndex = HardwareRam /\ ram = written
    BY CellFound DEF BankInv, CellsKept
<1> QED
    BY <1>1

\* The ranges of the banks.
LEMMA BankTypes == BankInv => TypeOK
<1> SUFFICES ASSUME BankInv PROVE TypeOK
    OBVIOUS
<1>1. /\ hdr.kind \in {"MBC1", "MBC2", "MBC3", "MBC5"} /\ hdr.rom_size + 1 \in 1 .. 9
      /\ ram_banks(hdr) \in {0, 1, 4, 8, 16} /\ MinOf(hdr.rom_size + 1, 5) \in 1 .. 9
    BY HeaderSizes DEF BankInv, RegisterTypes, MinOf
<1>2. regs.ram \in 0 .. 255 /\ regs.rom \in 0 .. 255 /\ regs.high \in 0 .. 255
    BY DEF BankInv, RegisterTypes, Byte
<1>3. rom_bank \in 0 .. 511
  <2>1. ASSUME NEW a \in Nat PROVE a % rom_banks(hdr) \in 0 .. 511 /\ Masked(a) \in 0 .. 511
    <3>1. hdr.rom_size + 1 \in Sizes /\ MinOf(hdr.rom_size + 1, 5) \in Sizes
        BY <1>1 DEF Sizes
    <3> QED
        BY SMTT(30), <3>1, Reduced DEF rom_banks, Masked
  <2>2. /\ Or1(regs.rom % 32) \in Nat /\ Or1(regs.rom % 16) \in Nat /\ Or1(regs.rom % 128) \in Nat
        /\ 256 * (regs.high % 2) + regs.rom \in Nat
    <3>1. regs.rom \in Nat /\ regs.high \in Nat
        BY <1>2
    <3>2. regs.high % 2 \in 0 .. 1 /\ regs.rom % 32 \in Nat /\ regs.rom % 16 \in Nat /\ regs.rom % 128 \in Nat
        BY <3>1
    <3> QED
        BY <3>1, <3>2 DEF Or1
  <2>3. CASE hdr.kind = "MBC1"
      BY <2>1, <2>2, <2>3 DEF BankInv, RomBankKept
  <2>4. CASE hdr.kind = "MBC2"
    <3>1. HardwareBank = Or1(regs.rom % 16) % rom_banks(hdr)
        BY <2>4 DEF HardwareBank, Or1
    <3> QED
        BY <2>1, <2>2, <2>4, <3>1 DEF BankInv, RomBankKept
  <2>5. CASE hdr.kind = "MBC3"
    <3>1. HardwareBank = Or1(regs.rom % 128) % rom_banks(hdr)
        BY <2>5 DEF HardwareBank, Or1
    <3> QED
        BY <2>1, <2>2, <2>5, <3>1 DEF BankInv, RomBankKept
  <2>6. CASE hdr.kind = "MBC5"
    <3>1. HardwareBank = (256 * (regs.high % 2) + regs.rom) % rom_banks(hdr)
        BY <2>6 DEF HardwareBank
    <3> QED
        BY <2>1, <2>2, <2>6, <3>1 DEF BankInv, RomBankKept
  <2> QED
      BY <1>1, <2>3, <2>4, <2>5, <2>6
<1>4. ram_bank \in NoBank .. 15
  <2>1. ram_banks(hdr) # 0 => SelectedRam \in 0 .. 15
    <3>1. regs.ram % 16 \in 0 .. 15
        BY <1>2
    <3> QED
        BY <1>1, <3>1 DEF SelectedRam
  <2> QED
      BY <1>1, <1>2, <2>1 DEF BankInv, RamBankKept, NoBank
<1> QED
    BY <1>3, <1>4 DEF BankInv, RegisterTypes, CellsKept, TypeOK, Byte

-----------------------------------------------------------------------------
(* The cartridge *)

CartridgeInv == BankInv /\ CyclesInv /\ rtc_select \in Names \cup {NoRegister}

\* A step of a cartridge keeps the invariant of its banks.
LEMMA BankStep ==
    ASSUME BankInv, Next
    PROVE  BankInv'
<1>1. Data \subseteq Byte /\ Values \subseteq Byte
    BY BanksConstants DEF Byte
<1>2. ASSUME NEW data \in Data,
             \/ WriteRomBank(data) \/ WriteRomBankHigh(data) \/ WriteRamBank(data)
             \/ WriteMode(data) \/ WriteEnable(data)
      PROVE  BankInv'
    BY <1>1, <1>2, WriteRomBankInv, WriteRomBankHighInv, WriteRamBankInv, FlagsInv
<1>3. ASSUME NEW value \in Values, WriteRam(value)
      PROVE  BankInv'
    BY <1>1, <1>3, WriteRamInv
<1> QED
    BY <1>2, <1>3 DEF Next

\* Whatever the program does with the controller, the clock sees a step of its
\* own or none.
LEMMA ClockStep == CartridgeInv /\ [CartridgeNext]_allVars => [RtcNext]_rtcVars
<1> SUFFICES ASSUME CartridgeInv, CartridgeNext PROVE [RtcNext]_rtcVars
    BY DEF allVars, rtcVars
<1>1. TimerData \subseteq Nat
    BY CartridgeConstants
<1>2. CASE WriteClock
  <2>1. rtc_select \in Names
      BY <1>2 DEF WriteClock, CartridgeInv
  <2> QED
      BY <1>2, <2>1 DEF WriteClock, RtcNext
<1>3. CASE \E data \in TimerData : WriteLatch(data) /\ UNCHANGED <<vars, rtc_select>>
    BY <1>1, <1>3 DEF RtcNext
<1>4. CASE clock /\ UNCHANGED <<vars, rtc_select>>
    BY <1>4 DEF RtcNext
<1> QED
    BY <1>2, <1>3, <1>4 DEF CartridgeNext, Clockless, Timed, SelectBank

\* The first state of a cartridge with its clock.
LEMMA CartridgeStart == CartridgeInit => CartridgeInv
    BY BankStart, CyclesStart DEF CartridgeInit, CartridgeInv

\* Every step of a cartridge keeps its invariant.
LEMMA CartridgeStep == CartridgeInv /\ [CartridgeNext]_allVars => CartridgeInv'
<1> SUFFICES ASSUME CartridgeInv, [CartridgeNext]_allVars PROVE CartridgeInv'
    OBVIOUS
<1>1. CyclesInv'
    BY ClockStep, CyclesStep DEF CartridgeInv
<1>2. TimerData \subseteq Byte /\ Values \subseteq Byte /\ BankInv
    BY CartridgeConstants, BanksConstants DEF Byte, CartridgeInv
<1>3. CASE Clockless
    BY <1>1, <1>2, <1>3, BankStep DEF Clockless, CartridgeInv
<1>4. ASSUME NEW data \in TimerData, SelectBank(data)
      PROVE  CartridgeInv'
  <2>1. BankInv'
      BY <1>2, <1>4, WriteRamBankInv DEF SelectBank
  <2>2. \A d \in 8 .. 12 : Register[d] \in Names
    <3>1. Names = {"s", "m", "h", "dl", "dh"}
        BY DEF Names, Codes
    <3> QED
        BY <3>1 DEF Register
  <2>3. rtc_select' \in Names \cup {NoRegister}
      BY <1>4, <2>2 DEF SelectBank, CartridgeInv
  <2> QED
      BY <1>1, <2>1, <2>3 DEF CartridgeInv
<1>5. ASSUME NEW data \in TimerData, WriteEnable(data), rtc_select' = rtc_select
      PROVE  CartridgeInv'
    BY <1>1, <1>2, <1>5, FlagsInv DEF CartridgeInv
<1>6. ASSUME NEW value \in Values, WriteRam(value), rtc_select' = rtc_select
      PROVE  CartridgeInv'
    BY <1>1, <1>2, <1>6, WriteRamInv DEF CartridgeInv
<1>7. CASE UNCHANGED <<vars, rtc_select>>
  <2>1. BankInv'
    <3>1. 0 \in Byte
        BY DEF Byte
    <3> QED
        BY <1>2, <1>7, <3>1, FlagsInv
  <2> QED
      BY <1>1, <1>7, <2>1 DEF CartridgeInv
<1> QED
    BY <1>3, <1>4, <1>5, <1>6, <1>7 DEF CartridgeNext, Timed, WriteClock, allVars

\* The invariant holds in every state.
LEMMA CartridgeInvariance == CartridgeSpec => []CartridgeInv
    BY CartridgeStart, CartridgeStep, PTL DEF CartridgeSpec

\* The banks and cells stay in their ranges, for every cartridge.
THEOREM BanksInRange == CartridgeSpec => []TypeOK
<1>1. CartridgeInv => TypeOK
    BY BankTypes DEF CartridgeInv
<1> QED
    BY <1>1, CartridgeInvariance, PTL

\* In whatever parts and order the program writes a bank number, and however
\* the controller reduces the parts, it sees the bank the registers name
\* together: for all four controllers, every size of ROM and every byte.
THEOREM BanksMapped == CartridgeSpec => []RomMapped
<1>1. CartridgeInv => RomMapped
    BY RomFound DEF CartridgeInv
<1> QED
    BY <1>1, CartridgeInvariance, PTL

\* Any sequence of bank and mode switches leaves in RAM what was last written
\* to that bank of the hardware.
THEOREM RamReadsBack == CartridgeSpec => []RamKept
<1>1. CartridgeInv => RamKept
    BY RamFound DEF CartridgeInv
<1> QED
    BY <1>1, CartridgeInvariance, PTL

\* The clock in a cartridge, reached through the controller, is the clock of
\* Rtc with any byte written.
THEOREM ClockOfCartridge == CartridgeSpec => RtcSpec
<1>1. CartridgeInit => RtcInit
    BY DEF CartridgeInit
<1> QED
    BY <1>1, ClockStep, CartridgeInvariance, PTL DEF CartridgeSpec, RtcSpec

\* For any rollovers and widths the clock in the cartridge changes only after
\* a full second and by one second, whatever the program writes in between.
THEOREM SecondsCounted == CartridgeSpec => SecondAdded
    BY ClockOfCartridge, ClockCounts, PTL
=============================================================================
