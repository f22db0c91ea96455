---------------------------- MODULE MCCartridge ----------------------------
(* Cartridges of every kind, and an MBC3 with a bank of RAM and a clock of *)
(* 2 seconds to a minute, one minute to the hour and one hour to the day,  *)
(* each with an odd value, and 4 days.                                     *)
EXTENDS Cartridge

Header(k, s, r, t) == [kind |-> k, rom_size |-> s, ram_size |-> r, timer |-> t]

\* Every size of ROM without RAM, and every size of RAM with the smallest and
\* the largest ROM.
const_Headers ==
    UNION {{Header(k, s, 0, FALSE) : s \in 0 .. MaxRomSize[k]}
             \cup {Header(k, s, r, FALSE) : s \in {0, MaxRomSize[k]}, r \in RamSizes[k]} : k \in Kinds}
       \cup {Header("MBC3", 0, 2, TRUE)}

\* 0, the enabling value, single bits, all bits.
const_Data == {0, 1, 3, 10, 16, 32, 33, 96, 128, 255}
const_Values == {23}

\* a bank of RAM, the enabling value, the five registers, both for the latch
const_TimerData == {0, 1} \cup 8 .. 12
============================================================================
