----------------------------- MODULE Cartridge -----------------------------
(***************************************************************************)
(* The cartridges of Banks, some of them an MBC3 with the clock of Rtc.    *)
(* The clock's registers share the address of the RAM: what a write to     *)
(* 0x4000-0x5FFF has selected decides which of them the program reaches.   *)
(***************************************************************************)
EXTENDS Banks, Rtc

CONSTANT
    TimerData     \* bound: the bytes written to the registers of an MBC3 with a clock

ASSUME CartridgeConstants == TimerData \subseteq 0 .. 255

VARIABLE
    rtc_select     \* the register of the clock in place of the RAM, or NoRegister

allVars == <<vars, rtcVars, rtc_select>>

NoRegister == "none"
Register == [data \in 8 .. 12 |-> <<"s", "m", "h", "dl", "dh">>[data - 7]]

CartridgeInit == Init /\ RtcInit /\ rtc_select = NoRegister

----------------------------------------------------------------------------
\* A controller without a clock: has_rtc is FALSE.
Clockless == ~hdr.timer /\ Next /\ UNCHANGED <<rtcVars, rtc_select>>

\* 0x4000-0x5FFF: a bank of RAM or a register of the clock, the one instead of
\* the other.
SelectBank(data) ==
    /\ WriteRamBank(data)
    /\ rtc_select' = CASE data \in 0 .. 3  -> IF panicked' THEN rtc_select ELSE NoRegister
                       [] data \in 8 .. 12 -> Register[data]
                       [] OTHER            -> rtc_select
    /\ UNCHANGED rtcVars

\* 0xA000-0xBFFF.  The register that is selected comes first.
WriteClock ==
    /\ ram_enabled /\ rtc_select # NoRegister
    /\ \E value \in Codes[rtc_select] : WriteRegister(rtc_select, value)
    /\ UNCHANGED <<vars, rtc_select>>

\* A program that leaves the bank of ROM alone: that is Banks' concern.
Timed ==
    /\ hdr.timer /\ ~panicked
    /\ \/ \E data \in TimerData : SelectBank(data)
       \/ \E data \in TimerData : WriteEnable(data) /\ UNCHANGED <<rtcVars, rtc_select>>
       \/ \E data \in TimerData : WriteLatch(data) /\ UNCHANGED <<vars, rtc_select>>
       \/ WriteClock
       \/ /\ rtc_select = NoRegister
          /\ \E value \in Values : WriteRam(value)
          /\ UNCHANGED <<rtcVars, rtc_select>>
       \/ clock /\ UNCHANGED <<vars, rtc_select>>

CartridgeNext == Clockless \/ Timed

CartridgeSpec == CartridgeInit /\ [][CartridgeNext]_allVars
============================================================================
