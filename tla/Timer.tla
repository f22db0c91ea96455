------------------------------- MODULE Timer -------------------------------
(***************************************************************************)
(* The timer, timer/timer.rs: DIV counts up on every clock, TIMA counts    *)
(* the falling edges of "selected DIV bit AND enable", and an overflow of  *)
(* TIMA is turned into a reload from TMA and an interrupt one clock later. *)
(* A bus write to TAC, DIV, TIMA or TMA runs its own handler around the    *)
(* clock (clock_timer_write of the SOC), so the order of its parts matters.*)
(*                                                                         *)
(* The handlers are functions of the timer's record, composed in the order *)
(* of the calls in the code.  A definition Op_Fault is Op with a plausible *)
(* mistake in it; nothing uses it.                                         *)
(***************************************************************************)
EXTENDS Integers

CONSTANTS
    DivMod,      \* 2^16, the width of the internal divider
    DivStep,     \* 4, divider steps per clock
    DivInit,     \* 0xABCC, the divider after the boot ROM
    Half,        \* Half[sel] = 2^9, 2^3, 2^5, 2^7: weight of the selected bit
    TimaMod,     \* 2^8, the width of TIMA and TMA
    TmaValues,   \* values the CPU writes to TMA
    TimaValues   \* values the CPU writes to TIMA

ASSUME TimerConstants ==
    /\ DivMod \in Nat \ {0} /\ DivStep \in Nat /\ DivInit \in 0 .. DivMod - 1
    /\ Half \in [0 .. 3 -> Nat \ {0}]
    /\ TimaMod \in Nat \ {0}
    /\ TmaValues \subseteq 0 .. TimaMod - 1
    /\ TimaValues \subseteq 0 .. TimaMod - 1

\* The divider steps evenly through the cycles of all watched bits.
ASSUME TimerRates ==
    /\ DivStep # 0 /\ DivInit % DivStep = 0
    /\ \A sel \in 0 .. 3 : Half[sel] % DivStep = 0 /\ DivMod % (2 * Half[sel]) = 0

VARIABLE
    timer  \* and_result, tima_overflow, tac (enable, select), div, tima, tma;
           \* irq: whether the last clock raised TIMER;
           \* history: bumps, the increments of TIMA in the last step; since,
           \* the clocks since the last increment; period, the clocks between
           \* the last two.  A write to TAC or DIV makes both unknown, until
           \* the increment after the next (the next may be its own doing).

Unknown == -1
Disturbed == -2

Timers ==
    [and_result : BOOLEAN, tima_overflow : BOOLEAN,
     enable : BOOLEAN, select : 0 .. 3,
     div : 0 .. DivMod - 1, tima : 0 .. TimaMod - 1, tma : 0 .. TimaMod - 1,
     irq : BOOLEAN, bumps : Nat, since : Int, period : Int]

TypeOK == timer \in Timers

\* Timer::new()
Init ==
    timer = [and_result |-> FALSE, tima_overflow |-> FALSE,
             enable |-> FALSE, select |-> 0,
             div |-> DivInit, tima |-> 0, tma |-> 0,
             irq |-> FALSE, bumps |-> 0, since |-> Disturbed, period |-> Unknown]

----------------------------------------------------------------------------
\* Bit log2(Half[sel]) of the divider; with the enable bit of TAC, the signal.
DivBit_Reversed(div, sel) == (div \div Half[3 - sel]) % 2 = 1
DivBit(div, sel) == (div \div Half[sel]) % 2 = 1
Signal(t) == t.enable /\ DivBit(t.div, t.select)

NextTima(t) == IF t.tima + 1 = TimaMod THEN 0 ELSE t.tima + 1

\* the history of one increment of TIMA
Bumped(t) ==
    [t EXCEPT !.bumps = @ + 1,
              !.period = IF t.since >= 0 THEN t.since ELSE Unknown,
              !.since = IF @ = Disturbed THEN Unknown ELSE 0]

\* check_increment(): a falling edge of the signal increments TIMA.
check_increment(t) ==
    IF t.and_result /\ ~Signal(t)
    THEN [Bumped(t) EXCEPT !.and_result = FALSE,
                           !.tima = NextTima(t),
                           !.tima_overflow = @ \/ NextTima(t) = 0]
    ELSE [t EXCEPT !.and_result = Signal(t)]

\* An overflow seen by the previous clock: reload TIMA, raise TIMER.
Reload(t) ==
    IF t.tima_overflow
    THEN [t EXCEPT !.tima = t.tma, !.tima_overflow = FALSE, !.irq = TRUE, !.bumps = 0]
    ELSE [t EXCEPT !.irq = FALSE, !.bumps = 0]

Advance(t) ==
    [t EXCEPT !.div = (@ + DivStep) % DivMod,
              !.since = IF @ >= 0 THEN @ + 1 ELSE @]

clock(t) == check_increment(Advance(Reload(t)))

\* the history after interference with TAC or DIV
Interfered(t) == [t EXCEPT !.since = Disturbed, !.period = Unknown]

clock_write_tac_StaleSignal(t, enable, select) ==
    Interfered(check_increment([clock(t) EXCEPT !.enable = enable, !.select = select,
                                                !.and_result = t.and_result]))
clock_write_tac(t, enable, select) ==
    Interfered(check_increment([clock(t) EXCEPT !.enable = enable, !.select = select]))

\* The edge that zeroing DIV may cause is seen by the next clock only.
clock_write_div(t) ==
    Interfered([check_increment(clock(t)) EXCEPT !.div = 0])

\* A write in the clock of the reload is lost; any other one cancels an
\* overflow that happens in its own clock.
clock_write_tima(t, data) ==
    IF t.tima_overflow
    THEN clock(t)
    ELSE [clock(t) EXCEPT !.tima_overflow = FALSE, !.tima = data]

clock_write_tma_NoForward(t, data) == [clock(t) EXCEPT !.tma = data]
\* A write in the clock of the reload reaches TIMA as well.
clock_write_tma(t, data) ==
    IF t.tima_overflow
    THEN [clock(t) EXCEPT !.tma = data, !.tima = data]
    ELSE [clock(t) EXCEPT !.tma = data]

\* The speed switch zeroes the divider without a clock.
reset_div(t) == Interfered([t EXCEPT !.div = 0])

----------------------------------------------------------------------------
Clock == timer' = clock(timer)
WriteTac == \E enable \in BOOLEAN, select \in 0 .. 3 : timer' = clock_write_tac(timer, enable, select)
WriteDiv == timer' = clock_write_div(timer)
WriteTima == \E data \in TimaValues : timer' = clock_write_tima(timer, data)
WriteTma == \E data \in TmaValues : timer' = clock_write_tma(timer, data)
ResetDiv == timer' = reset_div(timer)

Next == Clock \/ WriteTac \/ WriteDiv \/ WriteTima \/ WriteTma \/ ResetDiv

Spec == Init /\ [][Next]_timer

----------------------------------------------------------------------------
(* Properties *)

\* While an overflow waits for its reload TIMA reads 0.  One sequence breaks
\* that: a TAC write in the clock of the overflow leaves the signal high, TMA
\* is 0xFF, the signal falls in the clock of the reload, and TMA is written
\* then: TIMA already holds the value the second reload will give it.
PendingTima == timer.tima_overflow => timer.tima \in {0, timer.tma}

\* Each edge of the watched bit counts once.  The remembered input of the edge
\* detector is the present one, except right after DIV was zeroed: a handler
\* that changed TAC or DIV without looking at it again would lose or invent an
\* edge.  And the handlers of TAC and DIV, which look twice in their clock, do
\* not count twice.
EdgesOnce ==
    /\ Signal(timer) => timer.and_result
    /\ timer.and_result => Signal(timer) \/ timer.div = 0
    /\ timer.bumps <= 1

\* A clock that raises TIMER leaves TIMA at TMA, or one past it (0 if TMA is
\* 0xFF) when an edge falls into the very clock of the reload, whatever
\* register is written in that clock.
ReloadedFromTma ==
    timer.irq => \/ timer.tima \in {timer.tma, timer.tma + 1}
                 \/ timer.tima = 0 /\ timer.tma + 1 = TimaMod

\* Left alone, TIMA counts every 2 * Half[select] / DivStep clocks.
CountsAtRate ==
    timer.period # Unknown => timer.period * DivStep = 2 * Half[timer.select]
============================================================================
