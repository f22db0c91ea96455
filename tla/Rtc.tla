-------------------------------- MODULE Rtc --------------------------------
(***************************************************************************)
(* The real time clock of an MBC3 cartridge, mbc/mbc3.rs.  Five registers  *)
(* count seconds, minutes, hours and 512 days; the program sets them and   *)
(* reads a latched copy.  A register can be set to more than the clock     *)
(* would count to: it then counts on to the end of its bits and starts     *)
(* from 0 without a carry.  How the program comes to the registers is in   *)
(* module Cartridge.                                                       *)
(* A definition Op_Fault is Op with a plausible mistake in it; nothing     *)
(* uses it.                                                                *)
(***************************************************************************)
EXTENDS Integers

CONSTANTS
    Seconds, Minutes, Hours,                   \* 60, 60, 24: where they roll over
    SecondCodes, MinuteCodes, HourCodes,       \* 64, 64, 32: what their bits hold
    DayCodes,                                  \* 256: what RTC_DL holds
    ClocksPerSecond                            \* GB_CLOCKS_PER_SECOND

ASSUME RtcConstants ==
    /\ Seconds \in Nat \ {0} /\ Minutes \in Nat \ {0} /\ Hours \in Nat \ {0}
    /\ SecondCodes \in Nat /\ SecondCodes > Seconds
    /\ MinuteCodes \in Nat /\ MinuteCodes > Minutes
    /\ HourCodes \in Nat /\ HourCodes > Hours
    /\ DayCodes \in Nat \ {0}
    /\ ClocksPerSecond \in Nat \ {0}

VARIABLES
    rtc_registers,     \* s, m, h, dl, and dh as its bits: day, halt, carry
    rtc_latch,         \* the registers as they were latched, or NoLatch
    rtc_latch_next,
    rtc_cycles_left,
    run_clocks         \* history: clocks the seconds have counted since they changed

rtcVars == <<rtc_registers, rtc_latch, rtc_latch_next, rtc_cycles_left, run_clocks>>

Registers ==
    [s : 0 .. SecondCodes - 1, m : 0 .. MinuteCodes - 1, h : 0 .. HourCodes - 1,
     dl : 0 .. DayCodes - 1, day : 0 .. 1, halt : BOOLEAN, carry : BOOLEAN]

\* The values the program can write to each register, after the mask.
Codes ==
    [s |-> 0 .. SecondCodes - 1, m |-> 0 .. MinuteCodes - 1, h |-> 0 .. HourCodes - 1,
     dl |-> 0 .. DayCodes - 1,
     dh |-> [day : 0 .. 1, halt : BOOLEAN, carry : BOOLEAN]]

NoLatch == [none |-> TRUE]
Names == DOMAIN Codes

RtcInit ==
    /\ rtc_registers = [s |-> 0, m |-> 0, h |-> 0, dl |-> 0, day |-> 0, halt |-> FALSE, carry |-> FALSE]
    /\ rtc_latch = NoLatch
    /\ rtc_latch_next = FALSE
    /\ rtc_cycles_left = ClocksPerSecond
    /\ run_clocks = 0

-----------------------------------------------------------------------------
(* The clock. *)

\* rtc_inc(): a register back at 0 at its rollover carries, at the end of its
\* bits it does not.
Incremented(reg, rollover, codes) == IF reg + 1 \in {rollover, codes} THEN 0 ELSE reg + 1

MinuteEnds(r) == r.s + 1 = Seconds
HourEnds(r)   == MinuteEnds(r) /\ r.m + 1 = Minutes
DayEnds(r)    == HourEnds(r) /\ r.h + 1 = Hours

Days(r) == r.dl + DayCodes * r.day

NextDay_CarryLost(r) ==
    LET overflow == Days(r) + 1 = 2 * DayCodes
        days     == IF overflow THEN 0 ELSE Days(r) + 1
    IN  [r EXCEPT !.dl = days % DayCodes, !.day = days \div DayCodes, !.carry = overflow]

\* The count of days drops its halt bit, which is 0 while the clock runs, and
\* keeps the carry bit.
NextDay(r) ==
    LET overflow == Days(r) + 1 = 2 * DayCodes
        days     == IF overflow THEN 0 ELSE Days(r) + 1
    IN  [r EXCEPT !.dl = days % DayCodes, !.day = days \div DayCodes, !.carry = @ \/ overflow]

rtc_inc(r) ==
    LET day == IF DayEnds(r) THEN NextDay(r) ELSE r
    IN  [day EXCEPT !.s = Incremented(r.s, Seconds, SecondCodes),
                    !.m = IF MinuteEnds(r) THEN Incremented(r.m, Minutes, MinuteCodes) ELSE r.m,
                    !.h = IF HourEnds(r) THEN Incremented(r.h, Hours, HourCodes) ELSE r.h]

clock ==
    /\ ~rtc_registers.halt
    /\ IF rtc_cycles_left <= 1
         THEN /\ rtc_registers' = rtc_inc(rtc_registers)
              /\ rtc_cycles_left' = ClocksPerSecond - (1 - rtc_cycles_left)
              /\ run_clocks' = 0
         ELSE /\ rtc_cycles_left' = rtc_cycles_left - 1
              /\ run_clocks' = run_clocks + 1
              /\ UNCHANGED rtc_registers
    /\ UNCHANGED <<rtc_latch, rtc_latch_next>>

-----------------------------------------------------------------------------
(* The program. *)

\* 0x6000-0x7FFF.
WriteLatch(data) ==
    /\ rtc_latch' = IF rtc_latch_next /\ data = 1 THEN rtc_registers ELSE rtc_latch
    /\ rtc_latch_next' = (data = 0)
    /\ UNCHANGED <<rtc_registers, rtc_cycles_left, run_clocks>>

With(r, name, value) ==
    CASE name = "s"  -> [r EXCEPT !.s = value]
      [] name = "m"  -> [r EXCEPT !.m = value]
      [] name = "h"  -> [r EXCEPT !.h = value]
      [] name = "dl" -> [r EXCEPT !.dl = value]
      [] name = "dh" -> [r EXCEPT !.day = value.day, !.halt = value.halt, !.carry = value.carry]

\* 0xA000-0xBFFF: the register and its latched copy, and a new second when it
\* is the seconds.
WriteRegister(name, value) ==
    /\ rtc_registers' = With(rtc_registers, name, value)
    /\ rtc_latch' = IF rtc_latch = NoLatch THEN NoLatch ELSE With(rtc_latch, name, value)
    /\ rtc_cycles_left' = IF name = "s" THEN ClocksPerSecond ELSE rtc_cycles_left
    /\ run_clocks' = IF name = "s" THEN 0 ELSE run_clocks
    /\ UNCHANGED rtc_latch_next

RtcNext ==
    \/ clock
    \/ \E data \in Nat : WriteLatch(data)
    \/ \E name \in Names : \E value \in Codes[name] : WriteRegister(name, value)

RtcSpec == RtcInit /\ [][RtcNext]_rtcVars

-----------------------------------------------------------------------------
(* Properties. *)

\* The registers hold a time of day.
Proper(r) == r.s < Seconds /\ r.m < Minutes /\ r.h < Hours

\* The seconds they hold, and after how many the count starts again.
Time(r) == ((Days(r) * Hours + r.h) * Minutes + r.m) * Seconds + r.s
Period == 2 * DayCodes * Hours * Minutes * Seconds

\* Five registers with three kinds of rollover are one count of seconds: the
\* clock changes them only by adding one, modulo 512 days, and raises the
\* carry exactly then, never clearing it.  Seconds, minutes and hours past their
\* rollover run to the end of their bits and leave all above them alone.
CountsOne(r, s) ==
    /\ Proper(r) => /\ Proper(s)
                    /\ Time(s) = (Time(r) + 1) % Period
                    /\ s.carry = (r.carry \/ Time(r) + 1 = Period)
    /\ r.s >= Seconds => s = [r EXCEPT !.s = (@ + 1) % SecondCodes]
    /\ MinuteEnds(r) /\ r.m >= Minutes => s = [r EXCEPT !.s = 0, !.m = (@ + 1) % MinuteCodes]
    /\ HourEnds(r) /\ r.h >= Hours => s = [r EXCEPT !.s = 0, !.m = 0, !.h = (@ + 1) % HourCodes]

\* It does so after a full second: one that the program has interrupted by
\* setting the seconds starts anew, and halting the clock, selecting or
\* latching a register costs it nothing.
SecondAdded ==
    [][clock /\ rtc_registers' # rtc_registers =>
         /\ run_clocks + 1 = ClocksPerSecond
         /\ CountsOne(rtc_registers, rtc_registers')]_rtcVars
=============================================================================
