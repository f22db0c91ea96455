----------------------------- MODULE SocProofs -----------------------------
(***************************************************************************)
(* Proofs about three devices that the clock of the SOC drives: the timer, *)
(* for every width of the counters, every selection of divider bits and    *)
(* every value the CPU may write; the memory bus with the OAM DMA, for     *)
(* every size of OAM, number of banks and set of values; and the serial    *)
(* port with the printer, for every size of a page and every data that a   *)
(* packet may hold.                                                        *)
(***************************************************************************)
EXTENDS Timer, Bus, Serial, SequenceTheorems, TLAPS

\* The inductive invariant, of a timer record.
Good(t) ==
    /\ t \in Timers
    /\ Signal(t) => t.and_result
    /\ t.and_result => Signal(t) \/ t.div = 0
    /\ t.tima_overflow => t.tima \in {0, t.tma}
    /\ t.bumps <= 1
    /\ t.irq => \/ t.tima \in {t.tma, t.tma + 1}
                \/ t.tima = 0 /\ t.tma + 1 = TimaMod

\* The watched bit with the enable bit is a truth value.
LEMMA SignalType == ASSUME NEW t PROVE Signal(t) \in BOOLEAN
    BY DEF Signal, DivBit

\* A divider of zero has no bit set.
LEMMA ZeroHasNoBit == ASSUME NEW sel \in 0 .. 3 PROVE ~DivBit(0, sel)
<1>1. 0 \div Half[sel] = 0
    BY TimerConstants
<1> QED
    BY <1>1 DEF DivBit

\* An increment is a timer again, and is counted.
LEMMA BumpedType ==
    ASSUME NEW t \in Timers
    PROVE  /\ Bumped(t) \in Timers
           /\ Bumped(t).bumps = t.bumps + 1
<1> DEFINE a == t.bumps + 1
<1> DEFINE b == IF t.since >= 0 THEN t.since ELSE Unknown
<1> DEFINE c == IF t.since = Disturbed THEN Unknown ELSE 0
<1>1. a \in Nat /\ b \in Int /\ c \in Int
    BY DEF Timers, Unknown, Disturbed
<1>2. Bumped(t) = [t EXCEPT !.bumps = a, !.period = b, !.since = c]
    BY DEF Bumped, Timers
<1> HIDE DEF a, b, c
<1>3. Bumped(t) \in Timers /\ Bumped(t).bumps = a
    BY <1>1, <1>2 DEF Timers
<1> QED
    BY <1>3 DEF a

\* check_increment() on a falling edge: one increment.
LEMMA CheckFalls ==
    ASSUME NEW t \in Timers, t.and_result, ~Signal(t)
    PROVE  LET c == check_increment(t) IN
           /\ c \in Timers
           /\ ~c.and_result
           /\ c.enable = t.enable /\ c.select = t.select /\ c.div = t.div
           /\ c.tma = t.tma /\ c.irq = t.irq
           /\ c.bumps = t.bumps + 1
           /\ c.tima = NextTima(t)
           /\ c.tima_overflow <=> (t.tima_overflow \/ NextTima(t) = 0)
<1> DEFINE n == NextTima(t)
<1> DEFINE o == t.tima_overflow \/ n = 0
<1>1. n \in 0 .. TimaMod - 1
    BY TimerConstants DEF NextTima, Timers
<1>2. o \in BOOLEAN
    BY DEF Timers
<1>3. check_increment(t) = [Bumped(t) EXCEPT !.and_result = FALSE, !.tima = n, !.tima_overflow = o]
    BY DEF check_increment, Bumped, Timers
<1>4. /\ Bumped(t).enable = t.enable /\ Bumped(t).select = t.select /\ Bumped(t).div = t.div
      /\ Bumped(t).tma = t.tma /\ Bumped(t).irq = t.irq
    BY DEF Bumped, Timers
<1>5. Bumped(t) \in Timers /\ Bumped(t).bumps = t.bumps + 1
    BY BumpedType
<1> HIDE DEF n, o
<1>6. /\ check_increment(t) \in Timers
      /\ check_increment(t).tima = n /\ check_increment(t).tima_overflow = o
    BY <1>1, <1>2, <1>3, <1>5 DEF Timers
<1>7. /\ check_increment(t).and_result = FALSE
      /\ check_increment(t).enable = t.enable /\ check_increment(t).select = t.select
      /\ check_increment(t).div = t.div /\ check_increment(t).tma = t.tma
      /\ check_increment(t).irq = t.irq /\ check_increment(t).bumps = t.bumps + 1
    BY <1>3, <1>4, <1>5 DEF Timers
<1> QED
    BY <1>6, <1>7 DEF n, o

\* check_increment() without a falling edge: the signal is remembered.
LEMMA CheckHolds ==
    ASSUME NEW t \in Timers, ~(t.and_result /\ ~Signal(t))
    PROVE  LET c == check_increment(t) IN
           /\ c \in Timers
           /\ c.and_result = Signal(t)
           /\ c.enable = t.enable /\ c.select = t.select /\ c.div = t.div
           /\ c.tma = t.tma /\ c.irq = t.irq /\ c.bumps = t.bumps
           /\ c.tima = t.tima /\ c.tima_overflow = t.tima_overflow
<1>1. check_increment(t) = [t EXCEPT !.and_result = Signal(t)]
    BY DEF check_increment
<1> QED
    BY <1>1, SignalType DEF Timers

\* check_increment() remembers the signal it saw.
LEMMA CheckRemembers ==
    ASSUME NEW t \in Timers
    PROVE  check_increment(t).and_result <=> Signal(check_increment(t))
<1>1. Signal(check_increment(t)) <=> Signal(t)
    BY CheckFalls, CheckHolds DEF Signal
<1> QED
    BY <1>1, CheckFalls, CheckHolds, SignalType

\* The value TIMA has when the edge of this clock is looked for.
Reloaded(t) == IF t.tima_overflow THEN t.tma ELSE t.tima
Following(n) == IF n + 1 = TimaMod THEN 0 ELSE n + 1

\* Reload and Advance leave the timer ready for the check.
LEMMA AdvanceFacts ==
    ASSUME NEW t \in Timers
    PROVE  LET a == Advance(Reload(t)) IN
           /\ a \in Timers
           /\ a.enable = t.enable /\ a.select = t.select
           /\ a.tma = t.tma /\ a.irq = t.tima_overflow /\ a.bumps = 0
           /\ a.tima = Reloaded(t) /\ a.tima_overflow = FALSE
<1> DEFINE r == Reload(t)
<1>1. /\ r \in Timers
      /\ r.enable = t.enable /\ r.select = t.select
      /\ r.tma = t.tma /\ r.irq = t.tima_overflow /\ r.bumps = 0
      /\ r.tima = Reloaded(t) /\ r.tima_overflow = FALSE
  <2>1. CASE t.tima_overflow
    BY <2>1 DEF Reload, Reloaded, Timers
  <2>2. CASE ~t.tima_overflow
    BY <2>2 DEF Reload, Reloaded, Timers
  <2> QED
    BY <2>1, <2>2
<1> HIDE DEF r
<1> DEFINE d == (r.div + DivStep) % DivMod
<1> DEFINE s == IF r.since >= 0 THEN r.since + 1 ELSE r.since
<1>2. d \in 0 .. DivMod - 1 /\ s \in Int
    BY <1>1, TimerConstants DEF Timers
<1>3. Advance(r) = [r EXCEPT !.div = d, !.since = s]
    BY DEF Advance
<1> HIDE DEF d, s
<1>4. /\ Advance(r) \in Timers
      /\ Advance(r).enable = r.enable /\ Advance(r).select = r.select
      /\ Advance(r).tma = r.tma /\ Advance(r).irq = r.irq /\ Advance(r).bumps = r.bumps
      /\ Advance(r).tima = r.tima /\ Advance(r).tima_overflow = r.tima_overflow
    BY ZenonT(30), <1>1, <1>2, <1>3 DEF Timers
<1> QED
    BY <1>1, <1>4 DEF r

\* What one clock does.
LEMMA ClockFacts ==
    ASSUME NEW t \in Timers
    PROVE  LET c == clock(t) IN
           /\ c \in Timers
           /\ c.and_result <=> Signal(c)
           /\ c.enable = t.enable /\ c.select = t.select /\ c.tma = t.tma
           /\ c.irq = t.tima_overflow
           /\ \/ c.bumps = 0 /\ c.tima = Reloaded(t) /\ ~c.tima_overflow
              \/ /\ c.bumps = 1 /\ ~c.and_result /\ c.tima = Following(Reloaded(t))
                 /\ c.tima_overflow => c.tima = 0
<1> DEFINE a == Advance(Reload(t))
<1>1. /\ a \in Timers
      /\ a.enable = t.enable /\ a.select = t.select
      /\ a.tma = t.tma /\ a.irq = t.tima_overflow /\ a.bumps = 0
      /\ a.tima = Reloaded(t) /\ a.tima_overflow = FALSE
    BY AdvanceFacts
<1>2. clock(t) = check_increment(a)
    BY DEF clock
<1> HIDE DEF a
<1>3. clock(t).and_result <=> Signal(clock(t))
    BY <1>1, <1>2, CheckRemembers
<1>4. CASE a.and_result /\ ~Signal(a)
    BY <1>1, <1>2, <1>3, <1>4, CheckFalls DEF NextTima, Following
<1>5. CASE ~(a.and_result /\ ~Signal(a))
    BY <1>1, <1>2, <1>3, <1>5, CheckHolds
<1> QED
    BY <1>4, <1>5

\* What a reload leaves in TIMA fits.
LEMMA ReloadedType == ASSUME NEW t \in Timers PROVE Reloaded(t) \in 0 .. TimaMod - 1
    BY DEF Reloaded, Timers

----------------------------------------------------------------------------
(* One lemma per handler. *)

\* A clock keeps the invariant.
LEMMA ClockGood == ASSUME NEW t, Good(t) PROVE Good(clock(t))
<1>1. t \in Timers
    BY DEF Good
<1> DEFINE c == clock(t)
<1>2. /\ c \in Timers /\ (c.and_result <=> Signal(c)) /\ c.tma = t.tma
      /\ c.irq = t.tima_overflow
      /\ \/ c.bumps = 0 /\ c.tima = Reloaded(t) /\ ~c.tima_overflow
         \/ /\ c.bumps = 1 /\ c.tima = Following(Reloaded(t))
            /\ c.tima_overflow => c.tima = 0
    BY <1>1, ClockFacts
<1> HIDE DEF c
<1>3. c.irq => \/ c.tima \in {c.tma, c.tma + 1}
               \/ c.tima = 0 /\ c.tma + 1 = TimaMod
    BY <1>2 DEF Reloaded, Following
<1>4. c.bumps <= 1 /\ (c.tima_overflow => c.tima \in {0, c.tma})
    BY <1>2
<1> QED
    BY <1>2, <1>3, <1>4 DEF Good, c

\* The mark of a write keeps the invariant.
LEMMA InterferedGood == ASSUME NEW t, Good(t) PROVE Good(Interfered(t))
<1>1. t \in Timers
    BY DEF Good
<1> DEFINE i == Interfered(t)
<1>2. /\ i \in Timers /\ i.and_result = t.and_result /\ i.enable = t.enable
      /\ i.select = t.select /\ i.div = t.div /\ i.tma = t.tma /\ i.irq = t.irq
      /\ i.bumps = t.bumps /\ i.tima = t.tima /\ i.tima_overflow = t.tima_overflow
  <2>1. Unknown \in Int /\ Disturbed \in Int
    BY DEF Unknown, Disturbed
  <2> QED
    BY <1>1, <2>1 DEF Interfered, Timers
<1> HIDE DEF i
<1> QED
    BY <1>2 DEF Good, Signal, i

\* A write to TAC keeps the invariant.
LEMMA WriteTacGood ==
    ASSUME NEW t, Good(t), NEW enable \in BOOLEAN, NEW select \in 0 .. 3
    PROVE  Good(clock_write_tac(t, enable, select))
<1>1. t \in Timers
    BY DEF Good
<1> DEFINE c == clock(t)
<1> DEFINE w == [c EXCEPT !.enable = enable, !.select = select]
<1> DEFINE k == check_increment(w)
<1>2. /\ c \in Timers /\ c.tma = t.tma /\ c.irq = t.tima_overflow
      /\ \/ c.bumps = 0 /\ c.tima = Reloaded(t) /\ ~c.tima_overflow
         \/ /\ c.bumps = 1 /\ ~c.and_result /\ c.tima = Following(Reloaded(t))
            /\ c.tima_overflow => c.tima = 0
    BY <1>1, ClockFacts
<1> HIDE DEF c
<1>3. /\ w \in Timers /\ w.tma = c.tma /\ w.irq = c.irq /\ w.bumps = c.bumps
      /\ w.tima = c.tima /\ w.tima_overflow = c.tima_overflow /\ w.and_result = c.and_result
    BY <1>2 DEF Timers
<1> HIDE DEF w
<1>4. k \in Timers /\ (k.and_result <=> Signal(k))
  <2>1. k \in Timers
    BY <1>3, CheckFalls, CheckHolds
  <2>2. k.and_result <=> Signal(k)
    BY <1>3, CheckRemembers
  <2> QED
    BY <2>1, <2>2
<1>5. /\ k.tma = t.tma /\ k.irq = t.tima_overflow /\ k.bumps <= 1
      /\ k.tima_overflow => k.tima = 0
      /\ k.tima \in {Reloaded(t), Following(Reloaded(t))}
  <2>1. CASE w.and_result /\ ~Signal(w)
    BY <1>2, <1>3, <2>1, CheckFalls DEF NextTima, Following
  <2>2. CASE ~(w.and_result /\ ~Signal(w))
    BY <1>2, <1>3, <2>2, CheckHolds
  <2> QED
    BY <2>1, <2>2
<1> HIDE DEF k
<1>6. k.irq => \/ k.tima \in {k.tma, k.tma + 1}
               \/ k.tima = 0 /\ k.tma + 1 = TimaMod
    BY <1>5 DEF Reloaded, Following
<1>7. Good(k)
    BY <1>4, <1>5, <1>6 DEF Good
<1> QED
    BY <1>7, InterferedGood DEF clock_write_tac, k, w, c

\* A write to DIV keeps the invariant.
LEMMA WriteDivGood == ASSUME NEW t, Good(t) PROVE Good(clock_write_div(t))
<1> DEFINE c == clock(t)
<1> DEFINE k == check_increment(c)
<1> DEFINE z == [k EXCEPT !.div = 0]
<1>1. Good(c) /\ c \in Timers /\ (c.and_result <=> Signal(c))
    BY ClockGood, ClockFacts DEF Good
<1> HIDE DEF c
<1>2. /\ k \in Timers /\ k.and_result = Signal(c)
      /\ k.tma = c.tma /\ k.irq = c.irq /\ k.bumps = c.bumps
      /\ k.tima = c.tima /\ k.tima_overflow = c.tima_overflow
    BY <1>1, CheckHolds
<1> HIDE DEF k
<1>3. /\ z \in Timers /\ z.div = 0
      /\ z.tma = c.tma /\ z.irq = c.irq /\ z.bumps = c.bumps
      /\ z.tima = c.tima /\ z.tima_overflow = c.tima_overflow
    BY <1>2, TimerConstants DEF Timers
<1> HIDE DEF z
<1>4. ~Signal(z)
    BY <1>3, ZeroHasNoBit DEF Signal, Timers
<1>5. Good(z)
    BY <1>1, <1>3, <1>4 DEF Good
<1> QED
    BY <1>5, InterferedGood DEF clock_write_div, z, k, c

\* A write to TIMA keeps the invariant.
LEMMA WriteTimaGood ==
    ASSUME NEW t, Good(t), NEW data \in TimaValues
    PROVE  Good(clock_write_tima(t, data))
<1>1. CASE t.tima_overflow
    BY <1>1, ClockGood DEF clock_write_tima
<1>2. CASE ~t.tima_overflow
  <2> DEFINE c == clock(t)
  <2> DEFINE w == [c EXCEPT !.tima_overflow = FALSE, !.tima = data]
  <2>1. c \in Timers /\ (c.and_result <=> Signal(c)) /\ c.irq = t.tima_overflow /\ c.bumps <= 1
    BY ClockFacts DEF Good
  <2> HIDE DEF c
  <2>2. /\ w \in Timers /\ w.tima_overflow = FALSE /\ w.and_result = c.and_result /\ w.div = c.div
        /\ w.enable = c.enable /\ w.select = c.select /\ w.irq = c.irq /\ w.bumps = c.bumps
    BY <2>1, TimerConstants DEF Timers
  <2> HIDE DEF w
  <2>3. Good(w)
    BY <1>2, <2>1, <2>2 DEF Good, Signal
  <2> QED
    BY <1>2, <2>3 DEF clock_write_tima, w, c
<1> QED
    BY <1>1, <1>2

\* A write to TMA keeps the invariant.
LEMMA WriteTmaGood ==
    ASSUME NEW t, Good(t), NEW data \in TmaValues
    PROVE  Good(clock_write_tma(t, data))
<1> DEFINE c == clock(t)
<1>1. /\ c \in Timers /\ (c.and_result <=> Signal(c)) /\ c.irq = t.tima_overflow /\ c.bumps <= 1
      /\ c.tima_overflow => c.tima = 0
    BY ClockFacts DEF Good
<1> HIDE DEF c
<1>2. CASE t.tima_overflow
  <2> DEFINE w == [c EXCEPT !.tma = data, !.tima = data]
  <2>1. /\ w \in Timers /\ w.and_result = c.and_result /\ w.div = c.div
        /\ w.tima = data /\ w.tma = data
        /\ w.enable = c.enable /\ w.select = c.select /\ w.irq = c.irq /\ w.bumps = c.bumps
    BY <1>1, TimerConstants DEF Timers
  <2> HIDE DEF w
  <2>2. Good(w)
    BY <1>1, <2>1 DEF Good, Signal
  <2> QED
    BY <1>2, <2>2 DEF clock_write_tma, w, c
<1>3. CASE ~t.tima_overflow
  <2> DEFINE w == [c EXCEPT !.tma = data]
  <2>1. /\ w \in Timers /\ w.and_result = c.and_result /\ w.div = c.div /\ w.tima = c.tima
        /\ w.tima_overflow = c.tima_overflow
        /\ w.enable = c.enable /\ w.select = c.select /\ w.irq = c.irq /\ w.bumps = c.bumps
    BY <1>1, TimerConstants DEF Timers
  <2> HIDE DEF w
  <2>2. Good(w)
    BY <1>1, <1>3, <2>1 DEF Good, Signal
  <2> QED
    BY <1>3, <2>2 DEF clock_write_tma, w, c
<1> QED
    BY <1>2, <1>3

\* The reset of the divider keeps the invariant.
LEMMA ResetDivGood == ASSUME NEW t, Good(t) PROVE Good(reset_div(t))
<1> DEFINE z == [t EXCEPT !.div = 0]
<1>1. /\ z \in Timers /\ z.div = 0 /\ z.and_result = t.and_result
      /\ z.tma = t.tma /\ z.irq = t.irq /\ z.bumps = t.bumps
      /\ z.tima = t.tima /\ z.tima_overflow = t.tima_overflow
    BY TimerConstants DEF Good, Timers
<1> HIDE DEF z
<1>2. ~Signal(z)
    BY <1>1, ZeroHasNoBit DEF Signal, Timers
<1>3. Good(z)
    BY <1>1, <1>2 DEF Good
<1> QED
    BY <1>3, InterferedGood DEF reset_div, z

----------------------------------------------------------------------------

\* The invariant holds when the console is switched on.
LEMMA InitGood == Init => Good(timer)
<1> SUFFICES ASSUME Init PROVE Good(timer)
    OBVIOUS
<1>1. timer \in Timers
    BY TimerConstants DEF Init, Timers, Unknown, Disturbed
<1> QED
    BY <1>1 DEF Init, Good, Signal

\* Every step keeps the invariant.
LEMMA NextGood == Good(timer) /\ [Next]_timer => Good(timer)'
<1> SUFFICES ASSUME Good(timer), [Next]_timer PROVE Good(timer')
    BY DEF Good, Signal, DivBit
<1>1. CASE Clock
    BY <1>1, ClockGood DEF Clock
<1>2. CASE WriteTac
    BY <1>2, WriteTacGood DEF WriteTac
<1>3. CASE WriteDiv
    BY <1>3, WriteDivGood DEF WriteDiv
<1>4. CASE WriteTima
    BY <1>4, WriteTimaGood DEF WriteTima
<1>5. CASE WriteTma
    BY <1>5, WriteTmaGood DEF WriteTma
<1>6. CASE ResetDiv
    BY <1>6, ResetDivGood DEF ResetDiv
<1>7. CASE UNCHANGED timer
    BY <1>7
<1> QED
    BY <1>1, <1>2, <1>3, <1>4, <1>5, <1>6, <1>7 DEF Next

\* The invariant.
LEMMA Invariance == Spec => []Good(timer)
    BY InitGood, NextGood, PTL DEF Spec

\* timer.rs keeps DIV, TIMA and TMA in their widths.
THEOREM TypeCorrect == Spec => []TypeOK
<1>1. Good(timer) => TypeOK
    BY DEF Good, TypeOK
<1> QED
    BY <1>1, Invariance, PTL

\* Whatever register the CPU writes in whatever clock, the edge detector is up
\* to date, TIMA counts an edge once, and an overflow ends in TMA.
THEOREM TimerCorrect == Spec => [](EdgesOnce /\ PendingTima /\ ReloadedFromTma)
<1>1. Good(timer) => EdgesOnce /\ PendingTima /\ ReloadedFromTma
    BY DEF Good, EdgesOnce, PendingTima, ReloadedFromTma
<1> QED
    BY <1>1, Invariance, PTL

----------------------------------------------------------------------------
(* The rate at which TIMA counts: division first, then the cycle of the    *)
(* watched bit, counted in clocks.                                         *)

\* What division leaves: the quotient q and the remainder r.
Divides(b, a, q, r) == q \in Int /\ r \in 0 .. b - 1 /\ a = b * q + r

\* A product with a positive factor is no smaller than the other one.
LEMMA ProductGrows == ASSUME NEW b \in Nat, NEW d \in Nat \ {0} PROVE b * d >= b
    OBVIOUS

\* \div and % give a quotient and a remainder.
LEMMA Division ==
    ASSUME NEW b \in Nat \ {0}, NEW a \in Int
    PROVE  Divides(b, a, a \div b, a % b)
    BY DEF Divides

\* The quotient and the remainder are the only ones.
LEMMA DivisionUnique ==
    ASSUME NEW b \in Nat \ {0}, NEW a \in Int, NEW q, NEW r, Divides(b, a, q, r)
    PROVE  a \div b = q /\ a % b = r
<1> DEFINE p == a \div b
<1> DEFINE s == a % b
<1>0. q \in Int /\ r \in 0 .. b - 1 /\ a = b * q + r
    BY DEF Divides
<1>1. p \in Int /\ s \in 0 .. b - 1 /\ a = b * p + s
    BY Division DEF Divides
<1> HIDE DEF p, s
<1>2. b * (p - q) = r - s
    BY <1>0, <1>1
<1>3. ~(p > q)
  <2> SUFFICES ASSUME p > q PROVE FALSE
    OBVIOUS
  <2>1. b * (p - q) >= b
    BY <1>0, <1>1, ProductGrows
  <2> QED
    BY <1>0, <1>1, <1>2, <2>1
<1>4. ~(q > p)
  <2> SUFFICES ASSUME q > p PROVE FALSE
    OBVIOUS
  <2>1. b * (q - p) >= b
    BY <1>0, <1>1, ProductGrows
  <2>2. b * (q - p) = s - r
    BY <1>0, <1>1
  <2> QED
    BY <1>0, <1>1, <2>1, <2>2
<1>5. p = q
    BY <1>0, <1>1, <1>3, <1>4
<1>6. s = r
    BY <1>0, <1>1, <1>5
<1> QED
    BY <1>5, <1>6 DEF p, s

\* The next place in a cycle of n.
Onward(i, n) == IF i + 1 = n THEN 0 ELSE i + 1

\* A lap of l takes m cycles of n.
Lap(l, n, m) == l = n * m

\* A counter that wraps at a multiple of a cycle goes on in its cycle.
LEMMA NextInCycle ==
    ASSUME NEW n \in Nat \ {0}, NEW m \in Nat \ {0}, NEW j \in Nat, NEW l, Lap(l, n, m)
    PROVE  ((j + 1) % l) % n = Onward(j % n, n)
<1> DEFINE w == (j + 1) \div l
<1> DEFINE v == (j + 1) % l
<1> DEFINE q == j \div n
<1> DEFINE i == j % n
<1>0. l \in Nat \ {0} /\ j + 1 \in Int /\ l = n * m
    BY DEF Lap
<1>1. w \in Int /\ v \in Int /\ j + 1 = l * w + v
  <2>1. Divides(l, j + 1, w, v)
    BY <1>0, Division, Zenon
  <2> HIDE DEF w, v
  <2> QED
    BY <1>0, <2>1 DEF Divides
<1>2. q \in Int /\ i \in 0 .. n - 1 /\ j = n * q + i
  <2>0. j \in Int
    OBVIOUS
  <2>1. Divides(n, j, q, i)
    BY <2>0, Division, Zenon
  <2> HIDE DEF q, i
  <2> QED
    BY <2>1 DEF Divides
<1> HIDE DEF w, v, q, i
<1>3. v = n * q + i + 1 - n * (m * w)
  <2>1. l * w = n * (m * w)
    BY <1>0, <1>1
  <2> QED
    BY <1>1, <1>2, <2>1
<1>4. m * w \in Int
    BY <1>1
<1> DEFINE x == m * w
<1>7. v = n * q + i + 1 - n * x /\ x \in Int
    BY <1>3, <1>4, Zenon DEF x
<1> HIDE DEF x
<1> DEFINE next == IF i + 1 = n THEN 0 ELSE i + 1
<1> DEFINE turn == IF i + 1 = n THEN q + 1 - x ELSE q - x
<1>5. Divides(n, v, turn, next)
  <2>1. CASE i + 1 = n
    <3>1. n * (q + 1 - x) = n * q + n - n * x
      BY <1>2, <1>7
    <3>2. v = n * q + n - n * x
      BY <1>2, <1>7, <2>1
    <3> QED
      BY <1>2, <1>7, <2>1, <3>1, <3>2 DEF Divides
  <2>2. CASE i + 1 # n
    <3>1. n * (q - x) = n * q - n * x
      BY <1>2, <1>7
    <3> QED
      BY <1>2, <1>7, <2>2, <3>1 DEF Divides
  <2> QED
    BY <2>1, <2>2
<1> HIDE DEF next, turn
<1>6. v % n = next
    BY <1>1, <1>5, DivisionUnique
<1> QED
    BY <1>6 DEF next, i, v, Onward

\* A multiple of a length, counted in its units.
LEMMA InUnits ==
    ASSUME NEW s \in Nat \ {0}, NEW n \in Nat \ {0}, NEW j \in Int
    PROVE  /\ (s * j) % (s * n) = s * (j % n)
           /\ (s * j) \div (s * n) = j \div n
<1> DEFINE a == s * j
<1> DEFINE b == s * n
<1> DEFINE q == j \div n
<1> DEFINE i == j % n
<1>1. q \in Int /\ i \in 0 .. n - 1 /\ j = n * q + i
    BY Division DEF Divides
<1> HIDE DEF q, i
<1>2. a = b * q + s * i
    BY <1>1
<1>3. b \in Nat \ {0} /\ a \in Int
    OBVIOUS
<1>7. b = s * n
    OBVIOUS
<1> HIDE DEF a, b
<1>4. s * i \in 0 .. b - 1
  <2>1. s * (n - i) >= s
    BY <1>1, ProductGrows
  <2>2. s * (n - i) = s * n - s * i
    BY <1>1
  <2>3. s * i \in Nat
    BY <1>1
  <2> QED
    BY <1>3, <1>7, <2>1, <2>2, <2>3
<1> DEFINE r == s * i
<1> HIDE DEF r
<1>5. Divides(b, a, q, r)
    BY <1>1, <1>2, <1>4 DEF Divides, r
<1>6. a \div b = q /\ a % b = r
    BY <1>3, <1>5, DivisionUnique
<1> QED
    BY <1>6 DEF q, i, r, a, b

\* The watched bit is set in the second half of its cycle.
LEMMA BitInCycle ==
    ASSUME NEW k \in Nat \ {0}, NEW j \in Nat, NEW n, n = 2 * k
    PROVE  (j \div k) % 2 = 1 <=> j % n >= k
<1> DEFINE q == j \div n
<1> DEFINE i == j % n
<1>1. q \in Int /\ i \in 0 .. n - 1 /\ j = n * q + i
  <2>1. n \in Nat \ {0} /\ j \in Int
    OBVIOUS
  <2>2. Divides(n, j, q, i)
    BY <2>1, Division, Zenon
  <2> HIDE DEF q, i
  <2> QED
    BY <2>2 DEF Divides
<1> HIDE DEF q, i
<1> DEFINE h == IF i < k THEN 2 * q ELSE 2 * q + 1
<1> DEFINE r == IF i < k THEN i ELSE i - k
<1>2. Divides(k, j, h, r)
  <2>1. CASE i < k
    BY <1>1, <2>1 DEF Divides
  <2>2. CASE i >= k
    BY <1>1, <2>2 DEF Divides
  <2> QED
    BY <1>1, <2>1, <2>2
<1>3. h % 2 = IF i < k THEN 0 ELSE 1
    BY <1>1
<1> HIDE DEF h, r
<1>4. j \div k = h
    BY <1>2, DivisionUnique
<1> QED
    BY <1>1, <1>3, <1>4 DEF i

\* The clocks for which the watched bit is clear, and those for which it is set.
Beats(sel) == Half[sel] \div DivStep

\* Where in the cycle of its watched bit the divider is, in clocks.
Phase(t) == (t.div \div DivStep) % (2 * Beats(t.select))

\* The divider has counted whole clocks.
WholeClock(t) == t.div % DivStep = 0

\* The inductive invariant behind CountsAtRate: the divider is at a whole clock;
\* undisturbed, the edge detector is up to date; the clocks since the last
\* increment are the place in the cycle; the last distance was a whole cycle.
OnBeat(t) ==
    /\ WholeClock(t)
    /\ t.since >= 0 \/ t.since \in {Unknown, Disturbed}
    /\ t.since # Disturbed => (t.and_result => Signal(t))
    /\ t.since >= 0 => t.enable /\ Phase(t) = t.since
    /\ t.period # Unknown => t.period = 2 * Beats(t.select)

\* A remainder of zero: the dividend is a multiple.
LEMMA Multiple ==
    ASSUME NEW s \in Nat \ {0}, NEW a \in Nat, a % s = 0
    PROVE  a \div s \in Nat /\ a = s * (a \div s)
<1> DEFINE q == a \div s
<1>1. Divides(s, a, q, a % s)
    BY Division
<1> HIDE DEF q
<1>2. q \in Int /\ a = s * q
    BY <1>1 DEF Divides
<1>3. q \in Nat
  <2> SUFFICES ASSUME q < 0 PROVE FALSE
    BY <1>2
  <2>1. s * (0 - q) >= s
    BY <1>2, ProductGrows
  <2>2. s * (0 - q) = 0 - s * q
    BY <1>2
  <2> QED
    BY <1>2, <2>1, <2>2
<1> QED
    BY <1>2, <1>3 DEF q

\* The watched bits change at whole clocks, and the divider wraps between two
\* cycles.
LEMMA BeatsFacts ==
    ASSUME NEW sel \in 0 .. 3
    PROVE  /\ DivStep \in Nat \ {0}
           /\ Beats(sel) \in Nat \ {0}
           /\ Half[sel] = DivStep * Beats(sel)
           /\ \E m \in Nat \ {0} : DivMod = DivStep * ((2 * Beats(sel)) * m)
<1>1. /\ DivStep \in Nat \ {0} /\ Half[sel] \in Nat \ {0} /\ DivMod \in Nat \ {0}
      /\ Half[sel] % DivStep = 0 /\ DivMod % (2 * Half[sel]) = 0
    BY TimerConstants, TimerRates
<1>2. Beats(sel) \in Nat /\ Half[sel] = DivStep * Beats(sel)
    BY <1>1, Multiple DEF Beats
<1>3. Beats(sel) # 0
    BY <1>1, <1>2
<1> DEFINE c == 2 * Half[sel]
<1>4. c \in Nat \ {0} /\ DivMod % c = 0
    BY <1>1
<1> DEFINE m == DivMod \div c
<1>5. m \in Nat /\ DivMod = c * m
  <2> HIDE DEF c
  <2> QED
    BY <1>1, <1>4, Multiple
<1> HIDE DEF m
<1>6. m # 0
    BY <1>1, <1>4, <1>5
<1>7. DivMod = DivStep * ((2 * Beats(sel)) * m)
  <2>1. DivMod = (2 * (DivStep * Beats(sel))) * m
    BY <1>2, <1>5, Zenon
  <2> QED
    BY <1>1, <1>2, <1>5, <2>1
<1> QED
    BY <1>1, <1>2, <1>3, <1>5, <1>6, <1>7

\* The signal is high in the second half of the cycle.
LEMMA SignalInPhase ==
    ASSUME NEW t \in Timers, WholeClock(t)
    PROVE  /\ Phase(t) \in 0 .. 2 * Beats(t.select) - 1
           /\ Signal(t) <=> t.enable /\ Phase(t) >= Beats(t.select)
<1> DEFINE k == Beats(t.select)
<1> DEFINE j == t.div \div DivStep
<1> DEFINE n == 2 * k
<1>1. t.select \in 0 .. 3 /\ t.div \in Nat /\ t.enable \in BOOLEAN
    BY TimerConstants DEF Timers
<1>2. DivStep \in Nat \ {0} /\ k \in Nat \ {0} /\ Half[t.select] = DivStep * k
    BY <1>1, BeatsFacts
<1>3. j \in Nat /\ t.div = DivStep * j
    BY <1>1, <1>2, Multiple DEF WholeClock
<1> HIDE DEF k, j
<1>4. t.div \div Half[t.select] = j \div k
  <2>1. (DivStep * j) \div (DivStep * k) = j \div k
    BY <1>2, <1>3, InUnits
  <2> QED
    BY <1>2, <1>3, <2>1, Zenon
<1>5. n \in Nat \ {0}
    BY <1>2
<1> HIDE DEF n
<1>6. (j \div k) % 2 = 1 <=> j % n >= k
    BY <1>2, <1>3, BitInCycle DEF n
<1>7. Divides(n, j, j \div n, j % n)
    BY <1>3, <1>5, Division
<1>8. j % n \in 0 .. n - 1
    BY <1>7 DEF Divides
<1>9. Phase(t) = j % n
    BY DEF Phase, j, k, n
<1> QED
    BY <1>1, <1>4, <1>6, <1>8, <1>9 DEF Signal, DivBit, n, k

\* A divider that steps by s and wraps after m cycles of n steps, after step j.
Stepped(s, n, m, j) == (s * (j + 1)) % (s * (n * m))

\* The place of its step in the cycle.
StepPlace(s, n, m, j) == (Stepped(s, n, m, j) \div s) % n

\* The number of its step.
StepNo(n, m, j) == (j + 1) % (n * m)

\* Stepping and counting steps agree.
LEMMA StepNumber ==
    ASSUME NEW s \in Nat \ {0}, NEW n \in Nat \ {0}, NEW m \in Nat \ {0}, NEW j \in Nat
    PROVE  Stepped(s, n, m, j) = s * StepNo(n, m, j)
<1> DEFINE l == n * m
<1> DEFINE h == j + 1
<1>1. l \in Nat \ {0} /\ h \in Int
    OBVIOUS
<1>2. Stepped(s, n, m, j) = (s * h) % (s * l)
    BY DEF Stepped
<1> HIDE DEF l, h
<1>3. Stepped(s, n, m, j) = s * (h % l)
    BY <1>1, <1>2, InUnits, Zenon
<1> QED
    BY <1>3 DEF l, h, StepNo

\* Steps are numbered by integers.
LEMMA StepNumberType ==
    ASSUME NEW n \in Nat \ {0}, NEW m \in Nat \ {0}, NEW j \in Nat
    PROVE  StepNo(n, m, j) \in Int
<1> DEFINE l == n * m
<1> DEFINE y == (j + 1) % l
<1>1. l \in Nat \ {0} /\ j + 1 \in Int
    OBVIOUS
<1>2. Divides(l, j + 1, (j + 1) \div l, y)
    BY <1>1, Division
<1> HIDE DEF l, y
<1>3. y \in Int
    BY <1>1, <1>2 DEF Divides
<1> QED
    BY <1>3 DEF y, l, StepNo

\* It is at a whole step.
LEMMA StepIsWhole ==
    ASSUME NEW s \in Nat \ {0}, NEW n \in Nat \ {0}, NEW m \in Nat \ {0}, NEW j \in Nat
    PROVE  Stepped(s, n, m, j) % s = 0
<1> DEFINE x == Stepped(s, n, m, j)
<1> DEFINE y == StepNo(n, m, j)
<1>0. y \in Int
    BY StepNumberType, Zenon
<1>1. x = s * y
    BY StepNumber
<1> HIDE DEF x, y
<1>2. x \div s = y /\ x % s = 0
  <2>1. x \in Int /\ Divides(s, x, y, 0)
    BY <1>0, <1>1 DEF Divides
  <2> QED
    BY <2>1, DivisionUnique
<1> QED
    BY <1>2 DEF x

\* It is one place further in the cycle.
LEMMA StepInCycle ==
    ASSUME NEW s \in Nat \ {0}, NEW n \in Nat \ {0}, NEW m \in Nat \ {0}, NEW j \in Nat
    PROVE  StepPlace(s, n, m, j) = Onward(j % n, n)
<1> DEFINE x == Stepped(s, n, m, j)
<1> DEFINE l == n * m
<1> DEFINE y == StepNo(n, m, j)
<1>0. y \in Int
    BY StepNumberType, Zenon
<1>1. x = s * y
    BY StepNumber
<1>2. Lap(l, n, m)
    BY DEF Lap
<1> HIDE DEF l
<1>3. y % n = Onward(j % n, n)
  <2>1. ((j + 1) % l) % n = Onward(j % n, n)
    BY <1>2, NextInCycle, Zenon
  <2> QED
    BY <2>1 DEF StepNo, l
<1> HIDE DEF x, y
<1>4. x \div s = y /\ x % s = 0
  <2>1. x \in Int /\ Divides(s, x, y, 0)
    BY <1>0, <1>1 DEF Divides
  <2> QED
    BY <2>1, DivisionUnique
<1> QED
    BY <1>3, <1>4, Zenon DEF StepPlace, x

\* The divider after a clock.
NextDiv(d) == (d + DivStep) % DivMod

\* One clock moves the divider by one place in the cycle.
LEMMA AdvancePhase ==
    ASSUME NEW t \in Timers, WholeClock(t), NEW a, a.div = NextDiv(t.div), a.select = t.select
    PROVE  /\ WholeClock(a)
           /\ Phase(a) = Onward(Phase(t), 2 * Beats(t.select))
<1> DEFINE n == 2 * Beats(t.select)
<1> DEFINE j == t.div \div DivStep
<1>1. t.select \in 0 .. 3 /\ t.div \in Nat
    BY TimerConstants DEF Timers
<1>2. DivStep \in Nat \ {0} /\ n \in Nat \ {0}
  <2>1. Beats(t.select) \in Nat \ {0} /\ DivStep \in Nat \ {0}
    BY <1>1, BeatsFacts
  <2> QED
    BY <2>1
<1>3. PICK m \in Nat \ {0} : DivMod = DivStep * (n * m)
    BY <1>1, BeatsFacts
<1>4. j \in Nat /\ t.div = DivStep * j
    BY <1>1, <1>2, Multiple DEF WholeClock
<1>5. Phase(t) = j % n /\ Phase(a) = (a.div \div DivStep) % n
    BY DEF Phase
<1> HIDE DEF n, j
<1>6. t.div + DivStep = DivStep * (j + 1)
    BY <1>2, <1>4
<1>7. a.div = Stepped(DivStep, n, m, j)
    BY <1>3, <1>6, Zenon DEF Stepped, NextDiv
<1>10. DivStep \in Nat \ {0} /\ n \in Nat \ {0} /\ m \in Nat \ {0} /\ j \in Nat
    BY <1>2, <1>4
<1>8. Stepped(DivStep, n, m, j) % DivStep = 0
    BY <1>10, StepIsWhole, Zenon
<1>9. StepPlace(DivStep, n, m, j) = Onward(j % n, n)
    BY <1>10, StepInCycle, Zenon
<1> QED
    BY <1>5, <1>7, <1>8, <1>9, Zenon DEF n, WholeClock, StepPlace

\* What a clock does to the history before it looks for an edge.
LEMMA AdvanceHistory ==
    ASSUME NEW t \in Timers
    PROVE  LET a == Advance(Reload(t)) IN
           /\ a.div = (t.div + DivStep) % DivMod /\ a.and_result = t.and_result
           /\ a.since = IF t.since >= 0 THEN t.since + 1 ELSE t.since
           /\ a.period = t.period
<1> DEFINE r == Reload(t)
<1>1. /\ r.div = t.div /\ r.and_result = t.and_result /\ r.since = t.since /\ r.period = t.period
      /\ r \in Timers
  <2>1. CASE t.tima_overflow
    BY <2>1 DEF Reload, Timers
  <2>2. CASE ~t.tima_overflow
    BY <2>2 DEF Reload, Timers
  <2> QED
    BY <2>1, <2>2
<1> HIDE DEF r
<1> DEFINE d == (r.div + DivStep) % DivMod
<1> DEFINE s == IF r.since >= 0 THEN r.since + 1 ELSE r.since
<1>2. Advance(r) = [r EXCEPT !.div = d, !.since = s]
    BY DEF Advance
<1> HIDE DEF d, s
<1>3. /\ Advance(r).div = d /\ Advance(r).since = s
      /\ Advance(r).and_result = r.and_result /\ Advance(r).period = r.period
    BY <1>1, <1>2 DEF Timers
<1> QED
    BY <1>1, <1>3 DEF r, d, s

\* What looking for the edge does to it.
LEMMA CheckHistory ==
    ASSUME NEW a \in Timers
    PROVE  LET c == check_increment(a) IN
           /\ (a.and_result /\ ~Signal(a)) =>
                 /\ c.since = IF a.since = Disturbed THEN Unknown ELSE 0
                 /\ c.period = IF a.since >= 0 THEN a.since ELSE Unknown
           /\ ~(a.and_result /\ ~Signal(a)) => c.since = a.since /\ c.period = a.period
<1>1. CASE a.and_result /\ ~Signal(a)
  <2> DEFINE n == NextTima(a)
  <2> DEFINE o == a.tima_overflow \/ n = 0
  <2> DEFINE s == IF a.since = Disturbed THEN Unknown ELSE 0
  <2> DEFINE p == IF a.since >= 0 THEN a.since ELSE Unknown
  <2>1. check_increment(a) =
           [Bumped(a) EXCEPT !.and_result = FALSE, !.tima = n, !.tima_overflow = o]
    BY <1>1 DEF check_increment, Bumped, Timers
  <2>2. Bumped(a) \in Timers
    BY BumpedType
  <2>3. Bumped(a) = [a EXCEPT !.bumps = a.bumps + 1, !.period = p, !.since = s]
    BY DEF Bumped, Timers
  <2> HIDE DEF n, o, s, p
  <2>4. Bumped(a).since = s /\ Bumped(a).period = p
    BY <2>3 DEF Timers
  <2>5. check_increment(a).since = s /\ check_increment(a).period = p
    BY <2>1, <2>2, <2>4 DEF Timers
  <2> QED
    BY <1>1, <2>5 DEF s, p
<1>2. CASE ~(a.and_result /\ ~Signal(a))
  <2>1. check_increment(a) = [a EXCEPT !.and_result = Signal(a)]
    BY <1>2 DEF check_increment
  <2>2. check_increment(a).since = a.since /\ check_increment(a).period = a.period
    BY <2>1 DEF Timers
  <2> QED
    BY <1>2, <2>2
<1> QED
    BY <1>1, <1>2

\* A clock keeps the beat.
LEMMA ClockOnBeat == ASSUME NEW t, Good(t), OnBeat(t) PROVE OnBeat(clock(t))
<1> DEFINE a == Advance(Reload(t))
<1> DEFINE c == clock(t)
<1> DEFINE k == Beats(t.select)
<1>1. t \in Timers /\ t.select \in 0 .. 3 /\ t.since \in Int /\ t.period \in Int
    BY DEF Good, Timers
<1>2. a \in Timers /\ a.enable = t.enable /\ a.select = t.select
    BY <1>1, AdvanceFacts
<1>3. /\ a.div = (t.div + DivStep) % DivMod /\ a.and_result = t.and_result
      /\ a.since = IF t.since >= 0 THEN t.since + 1 ELSE t.since
      /\ a.period = t.period
    BY <1>1, AdvanceHistory
<1>4. c = check_increment(a)
    BY DEF clock
<1>5. k \in Nat \ {0}
    BY <1>1, BeatsFacts
<1> HIDE DEF a, c
<1>6. /\ WholeClock(a)
      /\ Phase(a) = IF Phase(t) + 1 = 2 * k THEN 0 ELSE Phase(t) + 1
    BY <1>1, <1>2, <1>3, AdvancePhase DEF OnBeat, Onward, NextDiv
<1>7. /\ Phase(t) \in 0 .. 2 * k - 1
      /\ Signal(t) <=> t.enable /\ Phase(t) >= k
    BY <1>1, SignalInPhase DEF OnBeat
<1>8. Signal(a) <=> t.enable /\ Phase(a) >= k
    BY <1>2, <1>6, SignalInPhase
<1>9. c.enable = a.enable /\ c.select = a.select /\ c.div = a.div
    BY <1>2, <1>4, CheckFalls, CheckHolds
<1>10. Phase(c) = Phase(a) /\ (Signal(c) <=> Signal(a))
    BY <1>9 DEF Phase, Signal
<1>11. Signal(t) => t.and_result
    BY DEF Good
<1> HIDE DEF k
<1> USE DEF Unknown, Disturbed
<1>12. CASE a.and_result /\ ~Signal(a)
  <2>1. /\ ~c.and_result
        /\ c.since = IF a.since = Disturbed THEN Unknown ELSE 0
        /\ c.period = IF a.since >= 0 THEN a.since ELSE Unknown
    BY <1>2, <1>4, <1>12, CheckFalls, CheckHistory
  <2>2. ASSUME a.since # Disturbed
        PROVE  t.enable /\ Phase(c) = 0 /\ Phase(t) + 1 = 2 * k
    <3>1. t.since # Disturbed
      BY <1>1, <1>3, <2>2
    <3>2. t.enable /\ Phase(t) >= k
      BY <1>3, <1>7, <1>12, <3>1 DEF OnBeat
    <3>3. ~(Phase(a) >= k)
      BY <1>8, <1>12, <3>2
    <3> QED
      BY <1>5, <1>6, <1>7, <1>10, <3>2, <3>3
  <2>3. c.period # Unknown => c.period = 2 * k
    <3> SUFFICES ASSUME a.since >= 0 PROVE a.since = 2 * k
      BY <2>1
    <3>1. t.since >= 0 /\ a.since = t.since + 1
      BY <1>1, <1>3
    <3>2. Phase(t) = t.since
      BY <3>1 DEF OnBeat
    <3> QED
      BY <2>2, <3>1, <3>2
  <2>4. c.since >= 0 => c.enable /\ Phase(c) = c.since
    BY <1>2, <1>9, <2>1, <2>2
  <2>5. c.since >= 0 \/ c.since \in {Unknown, Disturbed}
    BY <2>1
  <2> QED
    BY <1>2, <1>6, <1>9, <2>1, <2>3, <2>4, <2>5 DEF OnBeat, WholeClock, c, k
<1>13. CASE ~(a.and_result /\ ~Signal(a))
  <2>1. c.and_result = Signal(a) /\ c.since = a.since /\ c.period = a.period
    BY <1>2, <1>4, <1>13, CheckHolds, CheckHistory
  <2>2. c.since >= 0 => c.enable /\ Phase(c) = c.since
    <3> SUFFICES ASSUME a.since >= 0 PROVE t.enable /\ Phase(a) = a.since
      BY <1>2, <1>9, <1>10, <2>1
    <3>1. t.since >= 0 /\ a.since = t.since + 1
      BY <1>1, <1>3
    <3>2. t.enable /\ Phase(t) = t.since
      BY <3>1 DEF OnBeat
    <3>3. Phase(t) + 1 # 2 * k
      <4> SUFFICES ASSUME Phase(t) + 1 = 2 * k PROVE FALSE
        OBVIOUS
      <4>1. Phase(t) >= k /\ Phase(a) = 0
        BY <1>5, <1>6, <1>7
      <4>2. a.and_result /\ ~Signal(a)
        BY <1>3, <1>5, <1>7, <1>8, <1>11, <3>2, <4>1
      <4> QED
        BY <1>13, <4>2
    <3> QED
      BY <1>6, <3>1, <3>2, <3>3
  <2>3. c.since >= 0 \/ c.since \in {Unknown, Disturbed}
    BY <1>1, <1>3, <2>1 DEF OnBeat
  <2>4. c.and_result => Signal(c)
    BY <1>10, <2>1
  <2>5. c.period # Unknown => c.period = 2 * Beats(c.select)
    BY <1>2, <1>3, <1>9, <2>1 DEF OnBeat
  <2> QED
    BY <1>6, <1>9, <2>2, <2>3, <2>4, <2>5 DEF OnBeat, WholeClock, c
<1> QED
    BY <1>12, <1>13

\* Interference makes the history unknown.
LEMMA InterferedOnBeat ==
    ASSUME NEW t \in Timers, WholeClock(t) PROVE OnBeat(Interfered(t))
<1> DEFINE i == Interfered(t)
<1> USE DEF Unknown, Disturbed
<1>1. i.div = t.div /\ i.since = Disturbed /\ i.period = Unknown
    BY DEF Interfered, Timers
<1> HIDE DEF i
<1> QED
    BY <1>1 DEF OnBeat, WholeClock, i

\* Writes that leave divider, selection and edge detector alone.
LEMMA SameBeat ==
    ASSUME NEW c, OnBeat(c), NEW w,
           w.div = c.div, w.enable = c.enable, w.select = c.select, w.since = c.since,
           w.period = c.period, w.and_result = c.and_result
    PROVE  OnBeat(w)
    BY DEF OnBeat, WholeClock, Phase, Signal

\* A write keeps the beat.
LEMMA WritesOnBeat ==
    ASSUME NEW t, Good(t), OnBeat(t)
    PROVE  /\ \A data \in TimaValues : OnBeat(clock_write_tima(t, data))
           /\ \A data \in TmaValues : OnBeat(clock_write_tma(t, data))
<1> DEFINE c == clock(t)
<1>1. c \in Timers /\ OnBeat(c)
    BY ClockGood, ClockOnBeat DEF Good
<1> HIDE DEF c
<1>2. ASSUME NEW data \in TimaValues PROVE OnBeat(clock_write_tima(t, data))
  <2>1. CASE t.tima_overflow
    BY <1>1, <2>1 DEF clock_write_tima, c
  <2>2. CASE ~t.tima_overflow
    <3> DEFINE w == [c EXCEPT !.tima_overflow = FALSE, !.tima = data]
    <3>1. /\ w.div = c.div /\ w.enable = c.enable /\ w.select = c.select /\ w.since = c.since
          /\ w.period = c.period /\ w.and_result = c.and_result
      BY <1>1 DEF Timers
    <3> HIDE DEF w
    <3>2. OnBeat(w)
      BY <1>1, <3>1, SameBeat
    <3> QED
      BY <2>2, <3>2 DEF clock_write_tima, w, c
  <2> QED
    BY <2>1, <2>2
<1>3. ASSUME NEW data \in TmaValues PROVE OnBeat(clock_write_tma(t, data))
  <2> DEFINE w == IF t.tima_overflow THEN [c EXCEPT !.tma = data, !.tima = data]
                  ELSE [c EXCEPT !.tma = data]
  <2>1. /\ w.div = c.div /\ w.enable = c.enable /\ w.select = c.select /\ w.since = c.since
        /\ w.period = c.period /\ w.and_result = c.and_result
    BY <1>1 DEF Timers
  <2>2. clock_write_tma(t, data) = w
    BY DEF clock_write_tma, c
  <2> HIDE DEF w
  <2> QED
    BY <1>1, <2>1, <2>2, SameBeat
<1> QED
    BY <1>2, <1>3

\* A divider at a whole clock stays there.
LEMMA DividersOnBeat ==
    ASSUME NEW t, Good(t), OnBeat(t)
    PROVE  /\ \A enable \in BOOLEAN, select \in 0 .. 3 : OnBeat(clock_write_tac(t, enable, select))
           /\ OnBeat(clock_write_div(t))
           /\ OnBeat(reset_div(t))
<1> DEFINE c == clock(t)
<1>1. t \in Timers /\ c \in Timers /\ WholeClock(c)
    BY ClockGood, ClockOnBeat DEF Good, OnBeat
<1> HIDE DEF c
<1>2. 0 % DivStep = 0 /\ 0 \in 0 .. DivMod - 1
    BY TimerConstants, TimerRates
<1>3. ASSUME NEW enable \in BOOLEAN, NEW select \in 0 .. 3
      PROVE  OnBeat(clock_write_tac(t, enable, select))
  <2> DEFINE w == [c EXCEPT !.enable = enable, !.select = select]
  <2>1. w \in Timers /\ w.div = c.div
    BY <1>1 DEF Timers
  <2> HIDE DEF w
  <2>2. check_increment(w) \in Timers /\ check_increment(w).div = w.div
    BY <2>1, CheckFalls, CheckHolds
  <2> QED
    BY <1>1, <2>1, <2>2, InterferedOnBeat DEF WholeClock, clock_write_tac, w, c
<1>4. OnBeat(clock_write_div(t))
  <2> DEFINE k == check_increment(c)
  <2> DEFINE w == [k EXCEPT !.div = 0]
  <2>1. k \in Timers
    BY <1>1, CheckFalls, CheckHolds
  <2> HIDE DEF k
  <2>2. w \in Timers /\ w.div = 0
    BY <1>2, <2>1 DEF Timers
  <2> HIDE DEF w
  <2> QED
    BY <1>2, <2>2, InterferedOnBeat DEF WholeClock, clock_write_div, w, k, c
<1>5. OnBeat(reset_div(t))
  <2> DEFINE w == [t EXCEPT !.div = 0]
  <2>1. w \in Timers /\ w.div = 0
    BY <1>1, <1>2 DEF Timers
  <2> HIDE DEF w
  <2> QED
    BY <1>2, <2>1, InterferedOnBeat DEF WholeClock, reset_div, w
<1> QED
    BY <1>3, <1>4, <1>5

\* The first clock is on the beat.
LEMMA InitOnBeat == Init => OnBeat(timer)
    BY TimerConstants, TimerRates DEF Init, OnBeat, WholeClock, Unknown, Disturbed

\* Every step keeps the beat.
LEMMA NextOnBeat == Good(timer) /\ OnBeat(timer) /\ [Next]_timer => OnBeat(timer)'
<1> SUFFICES ASSUME Good(timer), OnBeat(timer), [Next]_timer PROVE OnBeat(timer')
    BY DEF OnBeat, WholeClock, Signal, DivBit, Phase
<1>1. CASE Clock
    BY <1>1, ClockOnBeat DEF Clock
<1>2. CASE WriteTac
    BY <1>2, DividersOnBeat DEF WriteTac
<1>3. CASE WriteDiv
    BY <1>3, DividersOnBeat DEF WriteDiv
<1>4. CASE WriteTima
    BY <1>4, WritesOnBeat DEF WriteTima
<1>5. CASE WriteTma
    BY <1>5, WritesOnBeat DEF WriteTma
<1>6. CASE ResetDiv
    BY <1>6, DividersOnBeat DEF ResetDiv
<1>7. CASE UNCHANGED timer
    BY <1>7
<1> QED
    BY <1>1, <1>2, <1>3, <1>4, <1>5, <1>6, <1>7 DEF Next

\* However TIMA and TMA are written meanwhile: as long as the program leaves TAC
\* and DIV alone, TIMA counts once in every cycle of the selected bit.
THEOREM RateCorrect == Spec => []CountsAtRate
<1>1. OnBeat(timer) /\ Good(timer) => CountsAtRate
  <2> SUFFICES ASSUME OnBeat(timer), Good(timer), timer.period # Unknown
               PROVE  timer.period * DivStep = 2 * Half[timer.select]
    BY DEF CountsAtRate
  <2>1. timer.select \in 0 .. 3
    BY DEF Good, Timers
  <2>2. timer.period = 2 * Beats(timer.select)
    BY DEF OnBeat
  <2> DEFINE b == Beats(timer.select)
  <2>3. DivStep \in Nat /\ b \in Nat /\ Half[timer.select] = DivStep * b
    BY <2>1, BeatsFacts
  <2> HIDE DEF b
  <2>4. (2 * b) * DivStep = 2 * (DivStep * b)
    BY <2>3
  <2> QED
    BY <2>2, <2>3, <2>4 DEF b
<1> QED
    BY <1>1, Invariance, InitOnBeat, NextOnBeat, PTL DEF Spec

\* clock() and clock_write_tma(): the clock that raises TIMER leaves TIMA at
\* TMA, or one past it.
THEOREM ReloadCorrect == Spec => []ReloadedFromTma
<1>1. Good(timer) => ReloadedFromTma
    BY DEF Good, ReloadedFromTma
<1> QED
    BY <1>1, Invariance, PTL

----------------------------------------------------------------------------
(* The bus. *)

\* The inductive invariant: types, and what a transfer has copied so far is
\* its own.
CopiedSoFar == active_dma.on => \A i \in 0 .. active_dma.count - 1 : copied_by[i] = "dma"
BusInv == BusTypeOK /\ CopiedSoFar

\* Every page leads to one of WRAM's.
LEMMA WramPageType == ASSUME NEW pg \in Pages \ {"ROM", "VRAM"}, svbk \in WramBanks
                      PROVE  wram_page(pg) \in WramPages
<1>1. 1 + 2 * svbk \in WramPages
    BY DEF WramPages
<1>2. 0 \in WramPages
    BY DEF WramPages
<1>3. 1 \in WramPages
  <2>1. 0 \in WramBanks /\ 1 = 1 + 2 * 0
    BY BusConstants
  <2> QED
    BY <2>1 DEF WramPages
<1>4. CASE pg \in {"WRAM0", "ECHO0"}
    BY <1>2, <1>4 DEF wram_page
<1>5. CASE pg \in {"WRAMX", "HIGH"}
    BY <1>1, <1>5 DEF wram_page
<1>6. CASE pg = "ECHOX"
    BY <1>3, <1>6 DEF wram_page
<1> QED
    BY <1>4, <1>5, <1>6 DEF Pages

\* What the DMA reads is a value or the open bus.
LEMMA DmaReadType ==
    ASSUME BusTypeOK, NEW pg \in Pages, NEW mode
    PROVE  dma_read(pg, mode) \in Cells
<1>1. CASE pg = "ROM"
    BY <1>1, BusConstants DEF dma_read, Cells
<1>2. CASE pg = "VRAM"
    BY <1>2 DEF dma_read, Cells, BusTypeOK
<1>3. CASE pg \in Pages \ {"ROM", "VRAM"}
  <2>1. wram_page(pg) \in WramPages
    BY <1>3, WramPageType DEF BusTypeOK
  <2>2. wram[wram_page(pg)] \in Values
    BY <2>1 DEF BusTypeOK
  <2>3. dma_read(pg, mode) = wram[wram_page(pg)]
    BY <1>3 DEF dma_read
  <2> QED
    BY <2>2, <2>3 DEF Cells
<1> QED
    BY <1>1, <1>2, <1>3

\* The invariant holds when the console is switched on.
LEMMA BusInitInv == BusInit => BusInv
<1> SUFFICES ASSUME BusInit PROVE BusInv
    OBVIOUS
<1>1. BusTypeOK
    BY BusConstants DEF BusInit, BusTypeOK, NoDma, Cells, Modes, Pages, OamBytes
<1>2. CopiedSoFar
    BY DEF BusInit, CopiedSoFar, NoDma
<1> QED
    BY <1>1, <1>2 DEF BusInv

\* The byte of this clock is the DMA's, and so are those before it.
LEMMA CopiedFacts ==
    ASSUME BusInv
    PROVE  /\ OamCopied \in [OamBytes -> Cells]
           /\ CopiedBy \in [OamBytes -> {"cpu", "dma"}]
           /\ active_dma.on => \A i \in 0 .. active_dma.count : CopiedBy[i] = "dma"
           /\ \A i \in OamBytes : OamCopied[i] # oam[i] => CopiedBy[i] = "dma"
<1> USE DEF BusInv
<1>1. CASE ~active_dma.on
    BY <1>1 DEF OamCopied, CopiedBy, BusTypeOK
<1>2. CASE active_dma.on
  <2>1. active_dma.count \in OamBytes /\ active_dma.src \in Pages
    BY DEF BusTypeOK
  <2>2. dma_read(active_dma.src, stat_mode) \in Cells
    BY <2>1, DmaReadType
  <2>3. OamCopied = [oam EXCEPT ![active_dma.count] = dma_read(active_dma.src, stat_mode)]
    BY <1>2 DEF OamCopied
  <2>4. CopiedBy = [copied_by EXCEPT ![active_dma.count] = "dma"]
    BY <1>2 DEF CopiedBy
  <2>5. OamCopied \in [OamBytes -> Cells] /\ CopiedBy \in [OamBytes -> {"cpu", "dma"}]
    BY <2>1, <2>2, <2>3, <2>4 DEF BusTypeOK
  <2>6. \A i \in 0 .. active_dma.count : CopiedBy[i] = "dma"
    BY <1>2, <2>1, <2>4, BusConstants DEF CopiedSoFar, BusTypeOK, OamBytes
  <2>7. \A i \in OamBytes : OamCopied[i] # oam[i] => CopiedBy[i] = "dma"
    BY <2>1, <2>3, <2>4 DEF BusTypeOK
  <2> QED
    BY <2>5, <2>6, <2>7
<1> QED
    BY <1>1, <1>2

\* The transfer after a clock: a new one, which has copied nothing, or the one
\* that ran, one byte further.
LEMMA DmaFacts ==
    ASSUME BusInv, clock_dma
    PROVE  /\ active_dma' \in [on : BOOLEAN, src : Pages, count : OamBytes]
           /\ active_dma'.on => \/ active_dma'.count = 0
                                \/ active_dma.on /\ active_dma'.count = active_dma.count + 1
<1> USE BusConstants DEF BusInv
<1>0. 0 \in OamBytes
    BY DEF OamBytes
<1>1. CASE dma_request # NoPage
  <2>1. dma_request \in Pages /\ active_dma' = Request(dma_request)
    BY <1>1 DEF BusTypeOK, clock_dma
  <2> QED
    BY <1>0, <2>1 DEF Request
<1>2. CASE dma_request = NoPage /\ active_dma.on
  <2>1. active_dma' = DmaAdvance(active_dma)
    BY <1>2 DEF clock_dma
  <2>2. active_dma \in [on : BOOLEAN, src : Pages, count : OamBytes]
    BY DEF BusTypeOK
  <2>3. CASE active_dma.count + 1 > OamSize - 1
    BY <1>0, <2>1, <2>3 DEF DmaAdvance, NoDma, Pages
  <2>4. CASE ~(active_dma.count + 1 > OamSize - 1)
    <3>1. active_dma' = [active_dma EXCEPT !.count = @ + 1]
      BY <2>1, <2>4 DEF DmaAdvance
    <3>2. active_dma.count + 1 \in OamBytes
      BY <2>2, <2>4 DEF OamBytes
    <3> QED
      BY <1>2, <2>2, <3>1, <3>2
  <2> QED
    BY <2>3, <2>4
<1>3. CASE dma_request = NoPage /\ ~active_dma.on
  <2>1. active_dma' = NoDma
    BY <1>3 DEF clock_dma
  <2> QED
    BY <1>0, <2>1 DEF NoDma, Pages
<1> QED
    BY <1>1, <1>2, <1>3

\* A step leaves OAM as the clock does, or writes a byte when no transfer runs
\* and the PPU has left the modes that lock it.
OamStep ==
    \/ OamUnwritten
    \/ /\ ~active_dma.on /\ stat_mode' \notin {"OamScan", "Draw"}
       /\ \E i \in OamBytes, data \in Values :
             /\ oam' = [OamCopied EXCEPT ![i] = data]
             /\ copied_by' = [CopiedBy EXCEPT ![i] = "cpu"]

\* Every access of the CPU clocks the DMA and the OAM.
LEMMA EveryStepClocks == BusNext => clock_bus /\ OamStep
<1> SUFFICES ASSUME BusNext PROVE clock_bus /\ OamStep
    OBVIOUS
<1> USE DEF OamStep
<1>1. CASE Read
    BY <1>1 DEF Read
<1>2. CASE WriteVram
    BY <1>2 DEF WriteVram
<1>3. CASE WriteWram
    BY <1>3 DEF WriteWram
<1>4. CASE WriteOam
    BY <1>4 DEF WriteOam, OamLocked
<1>5. CASE WriteDma
    BY <1>5 DEF WriteDma
<1>6. CASE WriteBanks
    BY <1>6 DEF WriteBanks
<1> QED
    BY <1>1, <1>2, <1>3, <1>4, <1>5, <1>6 DEF BusNext, clock_write

\* OAM keeps its type, and while a transfer runs only the DMA writes it.
LEMMA OamFacts ==
    ASSUME BusInv, OamStep
    PROVE  /\ oam' \in [OamBytes -> Cells]
           /\ copied_by' \in [OamBytes -> {"cpu", "dma"}]
           /\ active_dma.on => copied_by' = CopiedBy
<1>1. CASE OamUnwritten
    BY <1>1, CopiedFacts DEF OamUnwritten
<1>2. CASE ~OamUnwritten
  <2>1. ~active_dma.on
    BY <1>2 DEF OamStep
  <2>2. PICK i \in OamBytes, data \in Values :
             /\ oam' = [OamCopied EXCEPT ![i] = data]
             /\ copied_by' = [CopiedBy EXCEPT ![i] = "cpu"]
    BY <1>2 DEF OamStep
  <2>3. data \in Cells
    BY DEF Cells
  <2> QED
    BY <2>1, <2>2, <2>3, CopiedFacts
<1> QED
    BY <1>1, <1>2

\* The registers and memories the program writes keep their types.
LEMMA MemoryFacts ==
    ASSUME BusTypeOK, BusNext
    PROVE  /\ svbk' \in WramBanks /\ vbk' \in 0 .. 1
           /\ wram' \in [WramPages -> Values] /\ vram' \in [0 .. 1 -> Values]
           /\ dma_request' \in Pages \cup {NoPage}
<1> USE DEF BusTypeOK
<1>1. CASE Read
    BY <1>1 DEF Read, RequestTaken
<1>2. CASE WriteVram
    BY <1>2 DEF WriteVram, RequestTaken
<1>3. CASE WriteWram
  <2>1. PICK pg \in {"WRAM0", "WRAMX", "ECHO0", "ECHOX"}, data \in Values :
            wram' = [wram EXCEPT ![wram_page(pg)] = data]
    BY <1>3 DEF WriteWram
  <2>2. wram_page(pg) \in WramPages
    BY WramPageType DEF Pages
  <2> QED
    BY <1>3, <2>1, <2>2 DEF WriteWram, RequestTaken
<1>4. CASE WriteOam
    BY <1>4 DEF WriteOam, RequestTaken
<1>5. CASE WriteDma
    BY <1>5, BusConstants DEF WriteDma
<1>6. CASE WriteBanks
    BY <1>6 DEF WriteBanks, RequestTaken
<1> QED
    BY <1>1, <1>2, <1>3, <1>4, <1>5, <1>6 DEF BusNext, clock_write

\* Every access keeps the invariant.
LEMMA BusNextInv == BusInv /\ [BusNext]_busVars => BusInv'
<1> SUFFICES ASSUME BusInv, [BusNext]_busVars PROVE BusInv'
    OBVIOUS
<1>1. CASE BusNext
  <2>1. clock_bus /\ OamStep /\ clock_dma
    BY <1>1, EveryStepClocks DEF clock_bus
  <2>2. BusTypeOK'
    BY <1>1, <2>1, OamFacts, MemoryFacts, DmaFacts DEF BusTypeOK, BusInv, clock_bus
  <2>3. CopiedSoFar'
    <3> SUFFICES ASSUME active_dma'.on, NEW i \in 0 .. active_dma'.count - 1
                 PROVE  copied_by'[i] = "dma"
        BY DEF CopiedSoFar
    <3>1. active_dma.on /\ active_dma'.count = active_dma.count + 1
        BY <2>1, DmaFacts
    <3>2. active_dma.count \in Nat
        BY BusConstants DEF BusInv, BusTypeOK, OamBytes
    <3>3. i \in 0 .. active_dma.count
        BY <3>1, <3>2
    <3> QED
        BY <2>1, <3>1, <3>3, CopiedFacts, OamFacts
  <2> QED
    BY <2>2, <2>3 DEF BusInv
<1>2. CASE UNCHANGED busVars
    BY <1>2 DEF BusInv, BusTypeOK, CopiedSoFar, busVars
<1> QED
    BY <1>1, <1>2

\* The invariant.
LEMMA BusInvariance == BusSpec => []BusInv
    BY BusInitInv, BusNextInv, PTL DEF BusSpec

\* soc.rs keeps the transfer's counter within OAM, the banks among those of
\* SVBK and VBK, and every access on memory that is there.
THEOREM BusTypeCorrect == BusSpec => []BusTypeOK
<1>1. BusInv => BusTypeOK
    BY DEF BusInv
<1> QED
    BY <1>1, BusInvariance, PTL

\* clock_dma() and the OAM writes of clock_write(): no byte of a transfer is
\* overwritten by the CPU before the transfer has ended.
THEOREM DmaExclusiveHolds == BusSpec => DmaExclusive
<1> DEFINE done == IF active_dma'.on THEN active_dma'.count - 1 ELSE OamSize - 1
<1> DEFINE Exclusive == active_dma.on => \A i \in 0 .. done : copied_by'[i] = "dma"
<1>1. BusInv /\ [BusNext]_busVars => [Exclusive]_busVars
  <2> SUFFICES ASSUME BusInv, BusNext, active_dma.on, NEW i \in 0 .. done
               PROVE  copied_by'[i] = "dma"
    BY DEF busVars
  <2>1. clock_dma /\ OamStep
    BY EveryStepClocks DEF clock_bus
  <2>2. copied_by' = CopiedBy /\ \A k \in 0 .. active_dma.count : CopiedBy[k] = "dma"
    BY <2>1, CopiedFacts, OamFacts
  <2>3. active_dma \in [on : BOOLEAN, src : Pages, count : OamBytes]
    BY DEF BusInv, BusTypeOK
  <2>4. done <= active_dma.count
    <3>1. CASE active_dma'.on
      BY <2>1, <2>3, <3>1, DmaFacts, BusConstants DEF OamBytes
    <3>2. CASE ~active_dma'.on
      <4>1. dma_request = NoPage
        BY <2>1, <3>2 DEF clock_dma, Request
      <4>2. active_dma' = DmaAdvance(active_dma)
        BY <2>1, <4>1 DEF clock_dma
      <4>3. active_dma.count + 1 > OamSize - 1
        BY <2>3, <3>2, <4>2 DEF DmaAdvance
      <4> QED
        BY <2>3, <3>2, <4>3, BusConstants DEF OamBytes
    <3> QED
      BY <3>1, <3>2
  <2>5. i \in 0 .. active_dma.count
    BY <2>1, <2>3, <2>4, DmaFacts, BusConstants DEF OamBytes
  <2> QED
    BY <2>2, <2>5
<1> QED
    BY <1>1, BusInvariance, PTL DEF BusSpec, DmaExclusive

\* write_vram() and write_oam() after their clock: nothing but the DMA changes
\* OAM in modes 2 and 3, and nothing changes VRAM in mode 3.
THEOREM LocksHold == BusSpec => LockedWhileDrawing
<1> DEFINE Locked ==
       /\ vram' # vram => stat_mode' # "Draw"
       /\ \A i \in OamBytes : oam'[i] # oam[i] /\ copied_by'[i] = "cpu"
             => stat_mode' \in {"HBlank", "VBlank"}
<1>1. BusInv /\ [BusNext]_busVars => [Locked]_busVars
  <2> SUFFICES ASSUME BusInv, BusNext PROVE Locked
    BY DEF busVars
  <2>1. clock_bus /\ OamStep
    BY EveryStepClocks
  <2>2. vram' # vram => stat_mode' # "Draw"
    BY DEF BusNext, clock_write, Read, WriteVram, WriteWram, WriteOam, WriteDma, WriteBanks,
           VramLocked
  <2>3. ASSUME NEW i \in OamBytes, oam'[i] # oam[i], copied_by'[i] = "cpu"
        PROVE  stat_mode' \in {"HBlank", "VBlank"}
    <3>1. CASE OamUnwritten
      <4>1. OamCopied[i] # oam[i] /\ CopiedBy[i] = "cpu"
        BY <2>3, <3>1 DEF OamUnwritten
      <4> QED
        BY <4>1, CopiedFacts
    <3>2. CASE ~OamUnwritten
      <4>1. stat_mode' \notin {"OamScan", "Draw"}
        BY <2>1, <3>2 DEF OamStep
      <4>2. stat_mode' \in Modes
        BY <2>1 DEF clock_bus
      <4> QED
        BY <4>1, <4>2 DEF Modes
    <3> QED
      BY <3>1, <3>2
  <2> QED
    BY <2>2, <2>3
<1> QED
    BY <1>1, BusInvariance, PTL DEF BusSpec, LockedWhileDrawing

-----------------------------------------------------------------------------
(* The serial port with the printer.  The inductive invariant says, of     *)
(* each byte of the packet under way, what the printer holds and has done  *)
(* once it has heard it, what is in the shift register, and what the       *)
(* program has been answered.                                              *)

Statuses == {Idle, Ready, Printing, Done}

Jobs == [status : Statuses, ram : Seq(Bytes), page : Seq(Bytes),
         answer : Seq(Bytes), lost : BOOLEAN]

LinkTypeOK ==
    /\ SerialTypeOK
    /\ line \in Seq(Bytes) /\ sent \in Seq(Bytes) /\ answer \in Seq(Bytes)
    /\ job \in Jobs

\* After n of the eight clocks the low n bits of sb are the high n of in.
InShifted(byte, in, n) == byte % 2 ^ n = in \div 2 ^ (8 - n)

\* Where a transfer stands, and that the program keeps to its turn.
Turns ==
    /\ waiting => line # << >>
    /\ ~waiting => ~requested /\ shift_counter = 0 /\ ~(reg_enable /\ reg_select)
    /\ requested => shift_counter = 0 /\ ~(reg_enable /\ reg_select)
    /\ waiting /\ shift_counter = 0 /\ ~requested => sb = Head(line)
    /\ shift_counter > 0 => incoming \in Bytes /\ InShifted(sb, incoming, shift_counter)
    /\ panicked => waiting /\ ~requested /\ shift_counter = 0

\* What the printer holds of the part of the packet it is in, after n bytes.
Collected(n, data) ==
    CASE n = 1                       -> <<136>>
      [] n = 5                       -> <<Len(data) % 256>>
      [] n \in 7 .. 5 + Len(data)    -> SubSeq(data, 1, n - 6)
      [] n = 7 + Len(data)           -> <<0>>
      [] OTHER                       -> << >>

\* What the printer has done of the packet after n bytes of it.
Effect(n, command, data) ==
    CASE n < 2             -> job
      [] n = 2             -> Job!Woken
      [] n \in 3 .. 5 + Len(data) ->
            [Job!Obeyed(command, data) EXCEPT
                !.ram = IF command = Clear THEN << >> ELSE Job!Woken.ram, !.page = job.page]
      [] OTHER             -> Job!Obeyed(command, data)

Stands(j) == status = j.status /\ ram = j.ram /\ page = j.page

Heard(n, command, data) ==
    /\ recv_state = ExpectedAfter(n, Len(data))
    /\ recv_data = Collected(n, data)
    /\ n >= 6 => recv_data_length = Len(data)
    /\ Stands(Effect(n, command, data))

\* The answer to byte n of a packet.
AnswerTo(n, command, data) ==
    CASE n = 9 + Len(data)  -> 129
      [] n = 10 + Len(data) -> Job!Obeyed(command, data).status
      [] OTHER              -> 0

\* The answer to the byte delivered last and, once the program has it, to the
\* one sent last.
Told(a) == (shift_counter > 0 => incoming = a) /\ (requested => sb = a)
Recalls(a) == answer # << >> /\ answer[Len(answer)] = a

\* The data a command comes with.
Contents(command, data) ==
    \/ command \in {Null, Clear} /\ data = << >>
    \/ command = PrintPage /\ data = <<1, 0, 228, 64>>
    \/ command = Fill /\ data \in Fills

\* A packet is under way, and the printer listens.
Talk(command, data) ==
    /\ ~job.lost /\ line # << >>
    /\ sent \o line = PacketBytes(command, data)
    /\ Heard(Delivered, command, data)
    /\ Told(AnswerTo(Delivered, command, data))
    /\ sent # << >> => Recalls(AnswerTo(Len(sent), command, data))

\* A packet is under way to a printer that has lost its place.
Deaf ==
    /\ job.lost /\ line # << >>
    /\ sent \o line = PacketBytes(Null, << >>)
    /\ recv_state = "Magic" /\ Stands(job)
    /\ Len(recv_data) = 2 \/ (Len(recv_data) = 1 /\ Delivered = 0)
    /\ Told(0)
    /\ sent # << >> => Recalls(0)

\* A byte between two packets is under way.
Stray ==
    /\ ~job.lost /\ sent = << >> /\ Len(line) = 1 /\ line[1] \in Strays
    /\ recv_state = "Magic" /\ Stands(job)
    /\ recv_data = IF Delivered = 0 THEN << >> ELSE line

\* Nothing is under way.
Rest ==
    /\ line = << >>
    /\ Len(sent) >= 10 \/ sent = << >> \/ (Len(sent) = 1 /\ job.lost)
    /\ recv_state = "Magic" /\ Stands(job)
    /\ IF job.lost THEN Len(recv_data) \in 1 .. 2 ELSE recv_data = << >>

Understood ==
    \/ Rest \/ Stray \/ Deaf
    \/ \E command, data : Contents(command, data) /\ Talk(command, data)

LinkInv == LinkTypeOK /\ Turns /\ (panicked \/ Understood)

-----------------------------------------------------------------------------
(* Bytes, and the shift register. *)

\* Bytes and words are intervals; the prover need not list them.
LEMMA InBytes == \A i : i \in Bytes <=> i \in Nat /\ i < 256
<1>1. MaxByte = 255
    BY DEF MaxByte
<1>2. MaxByte \in Nat
    BY <1>1
<1>3. \A i : i \in Bytes <=> i \in Nat /\ i <= MaxByte
    BY <1>2 DEF Bytes
<1> QED
    BY <1>1, <1>3

\* The same of a word.
LEMMA InWords == \A i : i \in Words <=> i \in Nat /\ i < 65536
<1>1. MaxWord = 65535
    BY DEF MaxWord
<1>2. MaxWord \in Nat
    BY <1>1
<1>3. \A i : i \in Words <=> i \in Nat /\ i <= MaxWord
    BY <1>2 DEF Words
<1> QED
    BY <1>1, <1>3

\* The pair that an element appended to another makes.
LEMMA AppendToOne == ASSUME NEW x, NEW y PROVE Append(<<x>>, y) = <<x, y>>
<1> DEFINE s == <<x>>
<1>1. s \in Seq({x, y}) /\ Len(s) = 1 /\ s[1] = x
    OBVIOUS
<1>2. <<x, y>> \in Seq({x, y}) /\ Len(<<x, y>>) = 2 /\ <<x, y>>[1] = x /\ <<x, y>>[2] = y
    OBVIOUS
<1> HIDE DEF s
<1>3. /\ Append(s, y) \in Seq({x, y}) /\ Len(Append(s, y)) = 2
      /\ Append(s, y)[1] = x /\ Append(s, y)[2] = y
  <2>1. /\ Append(s, y) \in Seq({x, y}) /\ Len(Append(s, y)) = Len(s) + 1
        /\ \A i \in 1 .. Len(s) : Append(s, y)[i] = s[i]
        /\ Append(s, y)[Len(s) + 1] = y
    <3>1. s \in Seq({x, y}) /\ y \in {x, y}
      BY <1>1
    <3> QED
      BY <3>1, AppendProperties
  <2>2. Len(s) = 1 /\ 1 \in 1 .. Len(s) /\ Len(s) + 1 = 2
    BY <1>1
  <2> QED
    BY <1>1, <2>1, <2>2
<1> DEFINE a == Append(s, y)
<1> DEFINE p == <<x, y>>
<1>4. \A i \in 1 .. Len(a) : a[i] = p[i]
  <2>1. \A i \in 1 .. 2 : i = 1 \/ i = 2
    OBVIOUS
  <2> QED
    BY <1>2, <1>3, <2>1
<1>5. a \in Seq({x, y}) /\ p \in Seq({x, y}) /\ Len(a) = Len(p)
    BY <1>2, <1>3
<1> HIDE DEF a, p
<1>6. a = p
    BY <1>4, <1>5, SeqEqual, Zenon
<1> QED
    BY <1>6 DEF a, p, s

\* A byte whose low part is the upper part of x, shifted by one bit, with the
\* last bit of x in it: its low part, of a bit more, is x.
LEMMA Moved ==
    ASSUME NEW b \in Nat, NEW x \in Nat, NEW m \in Nat \ {0}, NEW p \in Nat \ {0},
           Lap(128, m, p), x < 2 * m, b % m = x \div 2
    PROVE  ((2 * b + (x % 2)) % 256) % (2 * m) = x
<1> DEFINE k == b \div m
<1> DEFINE y == 2 * b + (x % 2)
<1> DEFINE q == y \div 256
<1> DEFINE r == y % 256
<1> DEFINE g == p * q
<1>1. k \in Int /\ b = m * k + (x \div 2)
  <2>1. b \in Int
    OBVIOUS
  <2>2. Divides(m, b, b \div m, b % m)
    BY <2>1, Division, Zenon
  <2> QED
    BY <2>2 DEF Divides
<1>2. x = 2 * (x \div 2) + (x % 2)
    OBVIOUS
<1>3. y \in Nat /\ r \in Nat /\ q \in Int /\ y = 256 * q + r
    OBVIOUS
<1> HIDE DEF k
<1>4. m * k \in Int /\ y = 2 * (m * k) + x
  <2>1. m * k \in Int
    BY <1>1
  <2> QED
    BY <1>1, <1>2, <2>1
<1> HIDE DEF y, q, r
<1>5. m * g \in Int /\ g \in Int /\ 128 * q = m * g
  <2>1. (m * p) * q = m * (p * q)
    BY <1>3
  <2>2. g \in Int
    BY <1>3
  <2> QED
    BY <2>1, <2>2 DEF Lap
<1> HIDE DEF g
<1>6. r = 2 * (m * k) - 2 * (m * g) + x
    BY <1>3, <1>4, <1>5
<1>7. (2 * m) * (k - g) = 2 * (m * k) - 2 * (m * g)
    BY <1>1, <1>5
<1>8. Divides(2 * m, r, k - g, x)
  <2>1. r = (2 * m) * (k - g) + x
    BY <1>6, <1>7
  <2>2. x \in 0 .. 2 * m - 1 /\ k - g \in Int
    BY <1>1, <1>5
  <2> QED
    BY <2>1, <2>2 DEF Divides
<1>9. r \in Int /\ 2 * m \in Nat \ {0}
    BY <1>3
<1>10. r % (2 * m) = x
    BY <1>8, <1>9, DivisionUnique, Zenon
<1> QED
    BY <1>10 DEF r, y

\* The powers of two of a byte.
LEMMA PowersOfTwo ==
    /\ 2 ^ 0 = 1 /\ 2 ^ 1 = 2 /\ 2 ^ 2 = 4 /\ 2 ^ 3 = 8 /\ 2 ^ 4 = 16
    /\ 2 ^ 5 = 32 /\ 2 ^ 6 = 64 /\ 2 ^ 7 = 128 /\ 2 ^ 8 = 256
    OBVIOUS

\* The powers of two that matter for clock n of a transfer, and the answer in
\* halves of them.
LEMMA Halves ==
    ASSUME NEW n \in 0 .. 7, NEW a \in Bytes
    PROVE  /\ 2 ^ n \in Nat \ {0} /\ 2 ^ (7 - n) \in Nat \ {0}
           /\ 2 ^ n * 2 ^ (7 - n) = 128
           /\ 2 ^ (n + 1) = 2 * 2 ^ n
           /\ a \div 2 ^ (7 - n) \in Nat
           /\ a \div 2 ^ (7 - n) < 2 * 2 ^ n
           /\ (a \div 2 ^ (7 - n)) \div 2 = a \div 2 ^ (8 - n)
<1>1. a \in Nat /\ a <= 255
    BY InBytes
<1>2. CASE n = 0
    BY <1>1, <1>2, PowersOfTwo
<1>3. CASE n = 1
    BY <1>1, <1>3, PowersOfTwo
<1>4. CASE n = 2
    BY <1>1, <1>4, PowersOfTwo
<1>5. CASE n = 3
    BY <1>1, <1>5, PowersOfTwo
<1>6. CASE n = 4
    BY <1>1, <1>6, PowersOfTwo
<1>7. CASE n = 5
    BY <1>1, <1>7, PowersOfTwo
<1>8. CASE n = 6
    BY <1>1, <1>8, PowersOfTwo
<1>9. CASE n = 7
    BY <1>1, <1>9, PowersOfTwo
<1> QED
    BY <1>2, <1>3, <1>4, <1>5, <1>6, <1>7, <1>8, <1>9

\* A clock of the port shifts in the next bit of the answer.
LEMMA ShiftFacts ==
    ASSUME NEW b \in Bytes, NEW a \in Bytes, NEW n \in 0 .. 7, InShifted(b, a, n)
    PROVE  Shifted(b, a, n) \in Bytes /\ InShifted(Shifted(b, a, n), a, n + 1)
<1> DEFINE m == 2 ^ n
<1> DEFINE p == 2 ^ (7 - n)
<1> DEFINE x == a \div p
<1>1. /\ m \in Nat \ {0} /\ p \in Nat \ {0} /\ Lap(128, m, p)
      /\ x \in Nat /\ x < 2 * m /\ 2 ^ (n + 1) = 2 * m /\ x \div 2 = a \div 2 ^ (8 - n)
    BY ZenonT(30), Halves DEF Lap
<1>2. b % m = x \div 2
    BY <1>1 DEF InShifted
<1>3. Shifted(b, a, n) = (2 * b + (x % 2)) % 256
    BY DEF Shifted, Bit
<1>4. 8 - (n + 1) = 7 - n
    OBVIOUS
<1> HIDE DEF m, p, x
<1>5. b \in Nat
    BY InBytes
<1>6. ((2 * b + (x % 2)) % 256) % (2 * m) = x
    BY <1>1, <1>2, <1>5, Moved, Zenon
<1>7. (2 * b + (x % 2)) % 256 \in Bytes
    BY <1>1, <1>5, InBytes
<1> QED
    BY <1>1, <1>3, <1>4, <1>6, <1>7 DEF InShifted, m, p, x

\* Before the first clock the answer is all still to come.
LEMMA NoneShifted == ASSUME NEW b \in Bytes, NEW a \in Bytes PROVE InShifted(b, a, 0)
<1>1. a \in Nat /\ a <= 255 /\ b \in Nat
    BY InBytes
<1> QED
    BY <1>1, PowersOfTwo DEF InShifted

\* After the last clock the answer is in sb.
LEMMA AllShifted ==
    ASSUME NEW b \in Bytes, NEW a \in Bytes, InShifted(b, a, 8)
    PROVE  b = a
<1>1. a \in Nat /\ a <= 255 /\ b \in Nat /\ b <= 255
    BY InBytes
<1>2. b % 256 = a \div 1
    BY PowersOfTwo DEF InShifted
<1> QED
    BY <1>1, <1>2

-----------------------------------------------------------------------------
(* The printer. *)

PrinterTypeOK ==
    /\ recv_state \in RecvStates /\ recv_data \in Seq(Bytes) /\ recv_data_length \in Words
    /\ status \in {Idle, Ready, Printing, Done}
    /\ ram \in Seq(Bytes) /\ page \in Seq(Bytes)
    /\ panicked \in BOOLEAN

\* What the printer does with a byte depends on the part it waits for.
LEMMA ByPart ==
    ASSUME NEW byte, send_byte(byte)
    PROVE  /\ recv_state = "Magic" =>
                IF Received(byte) = <<136, 51>> THEN RecvMagic(byte) ELSE Collect(byte)
           /\ recv_state = "Command" =>
                IF byte \in {Null, Clear, PrintPage, Fill} THEN RecvCommand(byte) ELSE Panic
           /\ recv_state = "Compression" => RecvCompression
           /\ recv_state = "Length" =>
                IF Len(Received(byte)) = 2 THEN RecvLength(byte) ELSE Collect(byte)
           /\ recv_state = "Data" =>
                \/ Len(Received(byte)) < recv_data_length /\ Collect(byte)
                \/ Panic
                \/ RecvData(byte)
           /\ recv_state = "Checksum" =>
                IF Len(Received(byte)) = 2 THEN RecvChecksum(byte) ELSE Collect(byte)
           /\ recv_state = "KeepAlive" => IF byte = 0 THEN RecvKeepAlive(byte) ELSE Panic
           /\ recv_state = "Status" => RecvStatus
<1> USE DEF send_byte, Partial, Rejected
<1>1. recv_state = "Magic" =>
         IF Received(byte) = <<136, 51>> THEN RecvMagic(byte) ELSE Collect(byte)
    BY DEF RecvMagic, RecvCommand, RecvCompression, RecvLength, RecvData, RecvChecksum,
           RecvKeepAlive, RecvStatus
<1>2. recv_state = "Command" =>
         IF byte \in {Null, Clear, PrintPage, Fill} THEN RecvCommand(byte) ELSE Panic
    BY DEF RecvMagic, RecvCommand, RecvCompression, RecvLength, RecvData, RecvChecksum,
           RecvKeepAlive, RecvStatus
<1>3. recv_state = "Compression" => RecvCompression
    BY DEF RecvMagic, RecvCommand, RecvCompression, RecvLength, RecvData, RecvChecksum,
           RecvKeepAlive, RecvStatus
<1>4. recv_state = "Length" =>
         IF Len(Received(byte)) = 2 THEN RecvLength(byte) ELSE Collect(byte)
    BY DEF RecvMagic, RecvCommand, RecvCompression, RecvLength, RecvData, RecvChecksum,
           RecvKeepAlive, RecvStatus
<1>5. recv_state = "Data" =>
         \/ Len(Received(byte)) < recv_data_length /\ Collect(byte)
         \/ Panic
         \/ RecvData(byte)
    BY DEF RecvMagic, RecvCommand, RecvCompression, RecvLength, RecvData, RecvChecksum,
           RecvKeepAlive, RecvStatus
<1>6. recv_state = "Checksum" =>
         IF Len(Received(byte)) = 2 THEN RecvChecksum(byte) ELSE Collect(byte)
    BY DEF RecvMagic, RecvCommand, RecvCompression, RecvLength, RecvData, RecvChecksum,
           RecvKeepAlive, RecvStatus
<1>7. recv_state = "KeepAlive" => IF byte = 0 THEN RecvKeepAlive(byte) ELSE Panic
    BY DEF RecvMagic, RecvCommand, RecvCompression, RecvLength, RecvData, RecvChecksum,
           RecvKeepAlive, RecvStatus
<1>8. recv_state = "Status" => RecvStatus
    BY DEF RecvMagic, RecvCommand, RecvCompression, RecvLength, RecvData, RecvChecksum,
           RecvKeepAlive, RecvStatus
<1> QED
    BY <1>1, <1>2, <1>3, <1>4, <1>5, <1>6, <1>7, <1>8

\* The printer stays within its types.
LEMMA SendType ==
    ASSUME PrinterTypeOK, NEW byte \in Bytes, send_byte(byte)
    PROVE  PrinterTypeOK'
<1> USE DEF PrinterTypeOK
<1>1. Received(byte) \in Seq(Bytes)
    BY DEF Received
<1>2. ASSUME Collect(byte) PROVE PrinterTypeOK'
    BY <1>1, <1>2 DEF Collect
<1>3. CASE Panic
    BY <1>3 DEF Panic
<1>4. CASE RecvMagic(byte)
  <2>1. status' \in {Idle, Ready, Printing, Done}
    BY <1>4 DEF RecvMagic, Idle, Ready, Printing, Done
  <2> QED
    BY <1>4, <2>1, InWords DEF RecvMagic, Await, RecvStates
<1>5. CASE RecvCommand(byte)
    BY <1>5 DEF RecvCommand, Await, RecvStates
<1>6. CASE RecvCompression
    BY <1>6 DEF RecvCompression, Await, RecvStates
<1>7. CASE RecvLength(byte)
  <2>1. Received(byte)[1] \in Bytes /\ Received(byte)[2] \in Bytes
    <3>1. Len(Received(byte)) = 2
      BY <1>7 DEF RecvLength
    <3>2. 1 \in 1 .. Len(Received(byte)) /\ 2 \in 1 .. Len(Received(byte))
      BY <3>1
    <3> QED
      BY <1>1, <3>2, ElementOfSeq
  <2>2. recv_data_length' = Received(byte)[1] + 256 * Received(byte)[2]
    BY <1>7 DEF RecvLength
  <2>3. recv_data_length' \in Nat /\ recv_data_length' < 65536
    BY <2>1, <2>2, InBytes
  <2>4. recv_data_length' \in Words
    BY <2>3, InWords
  <2> QED
    BY <1>7, <2>4 DEF RecvLength, Await, RecvStates
<1>8. CASE RecvData(byte)
    BY <1>1, <1>8 DEF RecvData, Await, RecvStates
<1>9. CASE RecvChecksum(byte)
    BY <1>9 DEF RecvChecksum, Await, RecvStates
<1>10. CASE RecvKeepAlive(byte)
    BY <1>10 DEF RecvKeepAlive, Await, RecvStates
<1>11. CASE RecvStatus
    BY <1>11 DEF RecvStatus, Await, RecvStates
<1> QED
    BY <1>2, <1>3, <1>4, <1>5, <1>6, <1>7, <1>8, <1>9, <1>10, <1>11 DEF send_byte

\* The bytes of a packet.
LEMMA PacketFacts ==
    ASSUME NEW command \in Bytes, NEW data \in Seq(Bytes), Len(data) \in Words
    PROVE  /\ PacketBytes(command, data) \in Seq(Bytes)
           /\ Len(PacketBytes(command, data)) = 10 + Len(data)
           /\ PacketBytes(command, data)[1] = 136
           /\ PacketBytes(command, data)[2] = 51
           /\ PacketBytes(command, data)[3] = command
           /\ PacketBytes(command, data)[5] = Len(data) % 256
           /\ PacketBytes(command, data)[6] = Len(data) \div 256
           /\ \A i \in 1 .. Len(data) : PacketBytes(command, data)[6 + i] = data[i]
           /\ \A i \in 1 .. 4 : PacketBytes(command, data)[6 + Len(data) + i] = 0
<1> DEFINE l == Len(data)
<1> DEFINE head == <<136, 51, command, 0, l % 256, l \div 256>>
<1> DEFINE end == <<0, 0, 0, 0>>
<1>1. l \in Nat /\ l % 256 \in Bytes /\ l \div 256 \in Bytes
  <2>1. l \in Nat /\ l < 65536
    BY InWords
  <2>2. l % 256 \in Nat /\ l % 256 < 256 /\ l \div 256 \in Nat /\ l \div 256 < 256
    BY <2>1
  <2> HIDE DEF l
  <2> QED
    BY <2>1, <2>2, InBytes
<1>2. 0 \in Bytes /\ 136 \in Bytes /\ 51 \in Bytes
    BY DEF Bytes, MaxByte
<1>3. PacketBytes(command, data) = head \o data \o end
    BY DEF PacketBytes
<1> HIDE DEF l
<1>4. /\ head \in Seq(Bytes) /\ Len(head) = 6
      /\ head[1] = 136 /\ head[2] = 51 /\ head[3] = command
      /\ head[5] = l % 256 /\ head[6] = l \div 256
    BY <1>1, <1>2
<1>5. end \in Seq(Bytes) /\ Len(end) = 4 /\ \A i \in 1 .. 4 : end[i] = 0
    BY <1>2
<1> HIDE DEF head, end
<1> DEFINE most == head \o data
<1>6. /\ most \in Seq(Bytes) /\ Len(most) = 6 + l
      /\ \A i \in 1 .. 6 + l : most[i] = IF i <= 6 THEN head[i] ELSE data[i - 6]
  <2>1. head \in Seq(Bytes) /\ data \in Seq(Bytes)
    BY <1>4
  <2>2. /\ most \in Seq(Bytes) /\ Len(most) = Len(head) + Len(data)
        /\ \A i \in 1 .. Len(head) + Len(data) :
              most[i] = IF i <= Len(head) THEN head[i] ELSE data[i - Len(head)]
    BY <2>1, ConcatProperties, Zenon
  <2> QED
    BY <1>4, <2>2 DEF l
<1> HIDE DEF most
<1> DEFINE all == most \o end
<1>7. /\ all \in Seq(Bytes) /\ Len(all) = 10 + l
      /\ \A i \in 1 .. 10 + l : all[i] = IF i <= 6 + l THEN most[i] ELSE end[i - (6 + l)]
  <2>1. /\ all \in Seq(Bytes) /\ Len(all) = Len(most) + Len(end)
        /\ \A i \in 1 .. Len(most) + Len(end) :
              all[i] = IF i <= Len(most) THEN most[i] ELSE end[i - Len(most)]
    BY <1>5, <1>6, ConcatProperties, Zenon
  <2> HIDE DEF all
  <2>2. 6 + l + 4 = 10 + l
    BY <1>1
  <2> QED
    BY <1>5, <1>6, <2>1, <2>2
<1> HIDE DEF all
<1>8. \A i \in 1 .. 6 : all[i] = head[i]
    BY <1>1, <1>6, <1>7
<1>9. \A i \in 1 .. l : all[6 + i] = data[i]
    BY <1>1, <1>6, <1>7
<1>10. \A i \in 1 .. 4 : all[6 + l + i] = 0
    BY <1>1, <1>5, <1>7
<1>11. all = PacketBytes(command, data)
    BY <1>3 DEF all, most
<1> QED
    BY SMTT(30), <1>4, <1>7, <1>8, <1>9, <1>10, <1>11 DEF l

\* The commands, and the data they come with.
LEMMA ContentsFacts ==
    ASSUME NEW command, NEW data, Contents(command, data)
    PROVE  /\ command \in {Null, Clear, PrintPage, Fill} /\ command \in Bytes
           /\ data \in Seq(Bytes) /\ Len(data) \in Words /\ Len(data) \in Nat
           /\ command \in {Null, Clear} => data = << >>
           /\ command = PrintPage => Len(data) = 4
<1>1. command \in {Null, Clear, PrintPage, Fill}
    BY DEF Contents
<1>2. command \in Bytes
    BY <1>1, InBytes DEF Null, Clear, PrintPage, Fill
<1>3. CASE command \in {Null, Clear} /\ data = << >>
  <2>1. data \in Seq(Bytes) /\ Len(data) = 0 /\ 0 \in Words
    BY <1>3, InWords
  <2> QED
    BY <1>1, <1>2, <1>3, <2>1 DEF Null, Clear, PrintPage
<1>4. CASE command = PrintPage /\ data = <<1, 0, 228, 64>>
  <2>1. 0 \in Bytes /\ 1 \in Bytes /\ 228 \in Bytes /\ 64 \in Bytes
    BY DEF Bytes, MaxByte
  <2>2. data \in Seq(Bytes) /\ Len(data) = 4 /\ 4 \in Words
    BY <1>4, <2>1, InWords
  <2> QED
    BY <1>1, <1>2, <1>4, <2>2 DEF Null, Clear, PrintPage
<1>5. CASE command = Fill /\ data \in Fills
  <2>1. data \in Seq(Bytes) /\ Len(data) \in Words
    BY <1>5, SerialConstants
  <2> QED
    BY <1>1, <1>2, <1>5, <2>1 DEF Null, Clear, PrintPage, Fill
<1> QED
    BY <1>3, <1>4, <1>5 DEF Contents

\* What a packet does to the printer, field by field.
LEMMA ObeyedFacts ==
    ASSUME job \in Jobs, NEW command \in {Null, Clear, PrintPage, Fill},
           NEW data \in Seq(Bytes)
    PROVE  LET w == Job!Woken
               o == Job!Obeyed(command, data)
           IN  /\ w.status = IF job.status = Printing THEN Done
                             ELSE IF job.status = Done THEN Idle ELSE job.status
               /\ w.ram = IF job.status = Done THEN << >> ELSE job.ram
               /\ w.page = job.page
               /\ o.status = IF command = PrintPage THEN Printing
                             ELSE IF command = Fill THEN Ready ELSE w.status
               /\ o.ram = IF command = Clear THEN << >>
                          ELSE IF command = Fill THEN w.ram \o data ELSE w.ram
               /\ o.page = IF command = PrintPage THEN w.ram ELSE job.page
               /\ o \in Jobs /\ o.answer = job.answer /\ o.lost = job.lost
<1> DEFINE s == IF job.status = Printing THEN Done
                ELSE IF job.status = Done THEN Idle ELSE job.status
<1> DEFINE r == IF job.status = Done THEN << >> ELSE job.ram
<1> DEFINE w == Job!Woken
<1> DEFINE woken == CASE job.status = Job!Printing -> Job!Done
                       [] job.status = Job!Done     -> Job!Idle
                       [] OTHER                     -> job.status
<1>0. woken = s
    BY DEF Job!Printing, Job!Done, Job!Idle, Printing, Done, Idle
<1>1. w = [job EXCEPT !.status = s, !.ram = r]
  <2>1. w = [job EXCEPT !.status = woken,
                        !.ram = IF job.status = Job!Done THEN << >> ELSE job.ram]
    BY Zenon DEF Job!Woken
  <2>2. Job!Done = Done
    BY DEF Job!Done, Done
  <2> QED
    BY <1>0, <2>1, <2>2
<1>2. s \in Statuses /\ r \in Seq(Bytes)
  <2>1. job.status \in Statuses /\ job.ram \in Seq(Bytes)
    BY DEF Jobs
  <2> QED
    BY <2>1 DEF Statuses
<1> HIDE DEF s, r
<1>3. /\ w.status = s /\ w.ram = r /\ w.page = job.page
      /\ w \in Jobs /\ w.answer = job.answer /\ w.lost = job.lost
    BY <1>1, <1>2 DEF Jobs
<1> HIDE DEF w
<1> DEFINE o == Job!Obeyed(command, data)
<1> DEFINE Goal ==
         /\ o.status = IF command = PrintPage THEN Printing
                       ELSE IF command = Fill THEN Ready ELSE w.status
         /\ o.ram = IF command = Clear THEN << >>
                    ELSE IF command = Fill THEN w.ram \o data ELSE w.ram
         /\ o.page = IF command = PrintPage THEN w.ram ELSE job.page
         /\ o \in Jobs /\ o.answer = job.answer /\ o.lost = job.lost
<1>4. Printing \in Statuses /\ Ready \in Statuses
    BY DEF Statuses
<1>5. /\ command = Null => o = w
      /\ command = Clear => o = [w EXCEPT !.ram = << >>]
      /\ command = PrintPage => o = [w EXCEPT !.status = Printing, !.page = w.ram]
      /\ command = Fill => o = [w EXCEPT !.status = Ready, !.ram = w.ram \o data]
    BY DEF w, Job!Obeyed, Job!Null, Job!Clear, Job!PrintPage, Job!Fill, Job!Printing, Job!Ready,
           Null, Clear, PrintPage, Fill, Printing, Ready
<1>6. << >> \in Seq(Bytes) /\ w.ram \o data \in Seq(Bytes) /\ w.ram \in Seq(Bytes)
    BY <1>2, <1>3
<1>7. /\ command # PrintPage \/ command # Fill
      /\ command # PrintPage \/ command # Clear
      /\ command # Clear \/ command # Fill
      /\ command # Null \/ command \notin {Clear, PrintPage, Fill}
    BY DEF Null, Clear, PrintPage, Fill
<1> HIDE DEF o
<1>8. ASSUME command = Null PROVE Goal
    BY <1>3, <1>5, <1>7, <1>8
<1>9. ASSUME command = Clear PROVE Goal
    BY <1>3, <1>5, <1>6, <1>7, <1>9 DEF Jobs
<1>10. ASSUME command = PrintPage PROVE Goal
    BY <1>3, <1>4, <1>5, <1>6, <1>7, <1>10 DEF Jobs
<1>11. ASSUME command = Fill PROVE Goal
    BY <1>3, <1>4, <1>5, <1>6, <1>7, <1>11 DEF Jobs
<1>12. Goal
    BY <1>8, <1>9, <1>10, <1>11
<1> QED
    BY <1>3, <1>12 DEF o, s, r, w

\* What the printer has done after n bytes, field by field.
LEMMA EffectFacts ==
    ASSUME job \in Jobs, NEW command, NEW data, Contents(command, data), NEW n \in Nat
    PROVE  LET w == Job!Woken
               o == Job!Obeyed(command, data)
               e == Effect(n, command, data)
           IN  /\ n < 2 => e = job
               /\ n = 2 => e = w
               /\ n >= 3 => e.status = o.status
               /\ n \in 3 .. 5 + Len(data) =>
                    e.ram = (IF command = Clear THEN << >> ELSE w.ram) /\ e.page = job.page
               /\ n >= 3 /\ n >= 6 + Len(data) => e = o
               /\ n >= 3 /\ data = << >> => e.ram = o.ram /\ e.page = o.page
<1> DEFINE w == Job!Woken
<1> DEFINE o == Job!Obeyed(command, data)
<1> DEFINE e == Effect(n, command, data)
<1>1. /\ Len(data) \in Nat /\ command \in {Null, Clear, PrintPage, Fill}
      /\ data \in Seq(Bytes)
    BY ContentsFacts
<1>2. /\ o \in Jobs
      /\ o.ram = IF command = Clear THEN << >>
                 ELSE IF command = Fill THEN w.ram \o data ELSE w.ram
      /\ o.page = IF command = PrintPage THEN w.ram ELSE job.page
      /\ w.ram = IF job.status = Done THEN << >> ELSE job.ram
    BY <1>1, ObeyedFacts
<1> DEFINE r == IF command = Clear THEN << >> ELSE w.ram
<1>3. n < 2 => e = job
    BY <1>1 DEF Effect
<1>4. n = 2 => e = w
    BY <1>1 DEF Effect
<1>5. n \in 3 .. 5 + Len(data) => e = [o EXCEPT !.ram = r, !.page = job.page]
    BY <1>1 DEF Effect
<1>6. n >= 3 /\ n >= 6 + Len(data) => e = o
    BY <1>1 DEF Effect
<1> HIDE DEF w, o, e
<1>7. n \in 3 .. 5 + Len(data) => e.status = o.status /\ e.ram = r /\ e.page = job.page
    BY <1>2, <1>5 DEF Jobs
<1>8. n >= 3 => n \in 3 .. 5 + Len(data) \/ n >= 6 + Len(data)
    BY <1>1
<1>9. data = << >> => o.ram = r /\ o.page = job.page
  <2> SUFFICES ASSUME data = << >> PROVE o.ram = r /\ o.page = job.page
    OBVIOUS
  <2>1. Len(data) = 0
    OBVIOUS
  <2>2. command # PrintPage
    BY SMTT(30), <2>1, ContentsFacts
  <2>3. w.ram \in Seq(Bytes)
    BY <1>2 DEF Jobs
  <2>4. w.ram \o data = w.ram
    BY <2>3, ConcatEmptySeq
  <2> QED
    BY <1>2, <2>2, <2>4
<1> QED
    BY <1>3, <1>4, <1>6, <1>7, <1>8, <1>9 DEF w, o, e

\* The place after n bytes of a packet, seen after the byte.
LEMMA HeardNext ==
    ASSUME NEW n, NEW command, NEW data, job' = job,
           recv_state' = ExpectedAfter(n, Len(data)),
           recv_data' = Collected(n, data),
           n >= 6 => recv_data_length' = Len(data),
           status' = Effect(n, command, data).status,
           ram' = Effect(n, command, data).ram,
           page' = Effect(n, command, data).page
    PROVE  Heard(n, command, data)'
<1>1. Effect(n, command, data)' = Effect(n, command, data)
    BY DEF Effect, Job!Obeyed, Job!Woken
<1> QED
    BY <1>1 DEF Heard, Stands

\* Byte n + 1 of a packet goes to the printer, which heard the n before it.
Delivers(n, command, data) ==
    /\ PrinterTypeOK /\ job \in Jobs /\ Contents(command, data)
    /\ Heard(n, command, data)
    /\ send_byte(PacketBytes(command, data)[n + 1])
    /\ UNCHANGED job

\* It is one byte on, unless a page that ends in the middle of a row stopped it.
Hears(n, command, data) ==
    \/ panicked'
    \/ Heard(n + 1, command, data)' /\ Answer = AnswerTo(n + 1, command, data)

\* The magic bytes.
LEMMA HearsMagic ==
    ASSUME NEW command, NEW data, NEW n \in 0 .. 1, Delivers(n, command, data)
    PROVE  Hears(n, command, data)
<1> DEFINE b == PacketBytes(command, data)[n + 1]
<1> DEFINE w == Job!Woken
<1>1. /\ Len(data) \in Nat /\ command \in {Null, Clear, PrintPage, Fill}
      /\ data \in Seq(Bytes) /\ Len(data) \in Words /\ command \in Bytes
    BY ContentsFacts DEF Delivers
<1>2. b = IF n = 0 THEN 136 ELSE 51
    BY <1>1, PacketFacts
<1> HIDE DEF b
<1>3. send_byte(b) /\ job' = job /\ job \in Jobs /\ Heard(n, command, data)
    BY DEF Delivers, b
<1>4. recv_state = "Magic" /\ recv_data = IF n = 0 THEN << >> ELSE <<136>>
    BY SMTT(30), <1>1, <1>3 DEF Heard, ExpectedAfter, Collected
<1>5. Stands(job)
    BY <1>1, <1>3 DEF Heard, Effect
<1>6. Answer = AnswerTo(n + 1, command, data)
    BY <1>1, <1>4 DEF Answer, AnswerTo
<1>7. IF Received(b) = <<136, 51>> THEN RecvMagic(b) ELSE Collect(b)
    BY <1>3, <1>4, ByPart
<1>8. CASE n = 0
  <2>1. Received(b) = <<136>>
    BY <1>2, <1>4, <1>8 DEF Received
  <2>2. Collect(b)
    BY <1>7, <2>1
  <2>3. recv_data' = <<136>> /\ recv_state' = "Magic" /\ UNCHANGED <<status, ram, page>>
    BY <1>4, <1>8, <2>1, <2>2 DEF Collect
  <2>4. /\ ExpectedAfter(1, Len(data)) = "Magic" /\ Collected(1, data) = <<136>>
        /\ Effect(1, command, data) = job
    BY <1>1 DEF ExpectedAfter, Collected, Effect
  <2>5. Heard(1, command, data)'
    BY <1>3, <1>5, <2>3, <2>4, HeardNext DEF Stands
  <2> QED
    BY <1>6, <1>8, <2>5 DEF Hears
<1>9. CASE n = 1
  <2>1. Received(b) = <<136, 51>>
    <3>1. b = 51 /\ recv_data = <<136>>
      BY <1>2, <1>4, <1>9
    <3> QED
      BY <3>1, AppendToOne DEF Received
  <2>2. RecvMagic(b)
    BY <1>7, <2>1
  <2>3. /\ ExpectedAfter(2, Len(data)) = "Command" /\ Collected(2, data) = << >>
        /\ Effect(2, command, data) = w
    BY <1>1 DEF ExpectedAfter, Collected, Effect
  <2>4. /\ w.status = IF job.status = Printing THEN Done
                      ELSE IF job.status = Done THEN Idle ELSE job.status
        /\ w.ram = IF job.status = Done THEN << >> ELSE job.ram
        /\ w.page = job.page
    BY <1>1, <1>3, ObeyedFacts
  <2> HIDE DEF w
  <2>5. /\ recv_state' = "Command" /\ recv_data' = << >> /\ page' = page
        /\ status' = (CASE status = Done -> Idle [] status = Printing -> Done [] OTHER -> status)
        /\ ram' = IF status = Done THEN << >> ELSE ram
    BY <2>2 DEF RecvMagic, Await
  <2>6. status' = w.status /\ ram' = w.ram /\ page' = w.page
    BY <1>5, <2>4, <2>5 DEF Stands, Done, Printing, Idle
  <2>7. Heard(2, command, data)'
    BY <1>3, <2>3, <2>5, <2>6, HeardNext
  <2> QED
    BY <1>6, <1>9, <2>7 DEF Hears
<1> QED
    BY <1>8, <1>9

\* The command and the compression byte.
LEMMA HearsCommand ==
    ASSUME NEW command, NEW data, NEW n \in 2 .. 3, Delivers(n, command, data)
    PROVE  Hears(n, command, data)
<1> DEFINE b == PacketBytes(command, data)[n + 1]
<1> DEFINE w == Job!Woken
<1> DEFINE o == Job!Obeyed(command, data)
<1> DEFINE e == Effect(n, command, data)
<1> DEFINE f == Effect(n + 1, command, data)
<1>1. /\ Len(data) \in Nat /\ command \in {Null, Clear, PrintPage, Fill}
      /\ data \in Seq(Bytes) /\ Len(data) \in Words /\ command \in Bytes
    BY ContentsFacts DEF Delivers
<1>2. n = 2 => b = command
    BY <1>1, PacketFacts
<1> HIDE DEF b
<1>3. send_byte(b) /\ job' = job /\ job \in Jobs /\ Heard(n, command, data)
      /\ Contents(command, data)
    BY DEF Delivers, b
<1>4. recv_state = (IF n = 2 THEN "Command" ELSE "Compression") /\ recv_data = << >>
    BY <1>1, <1>3 DEF Heard, ExpectedAfter, Collected
<1>5. Stands(e)
    BY <1>3 DEF Heard
<1>6. Answer = AnswerTo(n + 1, command, data)
    BY <1>1, <1>4 DEF Answer, AnswerTo
<1>7. /\ ExpectedAfter(n + 1, Len(data)) = IF n = 2 THEN "Compression" ELSE "Length"
      /\ Collected(n + 1, data) = << >>
    BY <1>1 DEF ExpectedAfter, Collected
<1>8. /\ n = 2 => e = w
      /\ n = 3 => e.status = o.status
      /\ n = 3 => e.ram = (IF command = Clear THEN << >> ELSE w.ram) /\ e.page = job.page
    BY <1>1, <1>3, EffectFacts
<1>9. /\ f.status = o.status
      /\ f.ram = (IF command = Clear THEN << >> ELSE w.ram) /\ f.page = job.page
    BY <1>1, <1>3, EffectFacts
<1>10. /\ o.status = IF command = PrintPage THEN Printing
                     ELSE IF command = Fill THEN Ready ELSE w.status
       /\ w.page = job.page
    BY <1>1, <1>3, ObeyedFacts
<1> HIDE DEF w, o, e, f
<1>11. /\ recv_state' = ExpectedAfter(n + 1, Len(data)) /\ recv_data' = << >>
       /\ status' = f.status /\ ram' = f.ram /\ page' = f.page
  <2>1. CASE n = 2
    <3>1. RecvCommand(b)
      BY <1>1, <1>2, <1>3, <1>4, <2>1, ByPart
    <3>2. /\ recv_state' = "Compression" /\ recv_data' = << >> /\ page' = page
          /\ status' = (CASE b = PrintPage -> Printing [] b = Fill -> Ready [] OTHER -> status)
          /\ ram' = IF b = Clear THEN << >> ELSE ram
      BY <3>1 DEF RecvCommand, Await
    <3>3. status' = IF b = PrintPage THEN Printing ELSE IF b = Fill THEN Ready ELSE status
      BY <3>2 DEF PrintPage, Fill
    <3> QED
      BY <1>2, <1>5, <1>7, <1>8, <1>9, <1>10, <2>1, <3>2, <3>3 DEF Stands
  <2>2. CASE n = 3
    <3>1. RecvCompression
      BY <1>3, <1>4, <2>2, ByPart
    <3>2. /\ recv_state' = "Length" /\ recv_data' = << >>
          /\ UNCHANGED <<status, ram, page>>
      BY <3>1 DEF RecvCompression, Await
    <3> QED
      BY <1>5, <1>7, <1>8, <1>9, <2>2, <3>2 DEF Stands
  <2> QED
    BY <2>1, <2>2
<1>12. Heard(n + 1, command, data)'
  <2>1. ~(n + 1 >= 6)
    OBVIOUS
  <2> QED
    BY <1>3, <1>7, <1>11, <2>1, HeardNext DEF f
<1> QED
    BY <1>6, <1>12 DEF Hears

\* The two bytes of the length.
LEMMA HearsLength ==
    ASSUME NEW command, NEW data, NEW n \in 4 .. 5, Delivers(n, command, data)
    PROVE  Hears(n, command, data)
<1> DEFINE b == PacketBytes(command, data)[n + 1]
<1> DEFINE l == Len(data)
<1> DEFINE w == Job!Woken
<1> DEFINE o == Job!Obeyed(command, data)
<1> DEFINE e == Effect(n, command, data)
<1> DEFINE f == Effect(n + 1, command, data)
<1>1. /\ l \in Nat /\ command \in {Null, Clear, PrintPage, Fill}
      /\ data \in Seq(Bytes) /\ l \in Words /\ command \in Bytes
    BY ContentsFacts DEF Delivers
<1>2. b = IF n = 4 THEN l % 256 ELSE l \div 256
    BY <1>1, PacketFacts
<1> HIDE DEF b
<1>3. send_byte(b) /\ job' = job /\ job \in Jobs /\ Heard(n, command, data)
      /\ Contents(command, data)
    BY DEF Delivers, b
<1>4. recv_state = "Length" /\ recv_data = IF n = 4 THEN << >> ELSE <<l % 256>>
    BY SMTT(30), <1>1, <1>3 DEF Heard, ExpectedAfter, Collected
<1>5. Stands(e)
    BY <1>3 DEF Heard
<1>6. Answer = AnswerTo(n + 1, command, data)
    BY <1>1, <1>4 DEF Answer, AnswerTo
<1>7. e.status = f.status /\ e.ram = f.ram /\ e.page = f.page
  <2>1. /\ e.status = o.status
        /\ e.ram = (IF command = Clear THEN << >> ELSE w.ram) /\ e.page = job.page
        /\ data = << >> => e.ram = o.ram /\ e.page = o.page
    BY <1>1, <1>3, EffectFacts
  <2>2. /\ f.status = o.status
        /\ n + 1 \in 3 .. 5 + l =>
             f.ram = (IF command = Clear THEN << >> ELSE w.ram) /\ f.page = job.page
        /\ n + 1 >= 6 + l => f = o
    BY <1>1, <1>3, EffectFacts
  <2> HIDE DEF e, f, o, w
  <2>3. CASE l = 0
    <3>1. data = << >>
      BY <1>1, <2>3, EmptySeq
    <3> QED
      BY <2>1, <2>2, <2>3, <3>1
  <2>4. CASE l > 0
    BY <1>1, <2>1, <2>2, <2>4
  <2> QED
    BY <1>1, <2>3, <2>4
<1> HIDE DEF w, o, e, f
<1>8. CASE n = 4
  <2>1. Received(b) = <<l % 256>>
    BY <1>2, <1>4, <1>8 DEF Received
  <2>2. Collect(b)
    <3>1. Len(Received(b)) # 2
      BY <2>1
    <3> QED
      BY <1>3, <1>4, <3>1, ByPart
  <2>3. recv_data' = <<l % 256>> /\ recv_state' = "Length" /\ UNCHANGED <<status, ram, page>>
    BY <1>4, <2>1, <2>2 DEF Collect
  <2>4. ExpectedAfter(5, l) = "Length" /\ Collected(5, data) = <<l % 256>>
    BY <1>1 DEF ExpectedAfter, Collected
  <2>5. status' = f.status /\ ram' = f.ram /\ page' = f.page
    BY <1>5, <1>7, <2>3 DEF Stands
  <2>6. Heard(5, command, data)'
    BY <1>3, <1>8, <2>3, <2>4, <2>5, HeardNext DEF f
  <2> QED
    BY <1>6, <1>8, <2>6 DEF Hears
<1>9. CASE n = 5
  <2>1. Received(b) = <<l % 256, l \div 256>>
    <3>1. b = l \div 256 /\ recv_data = <<l % 256>>
      BY <1>2, <1>4, <1>9
    <3> QED
      BY <3>1, AppendToOne DEF Received
  <2>2. RecvLength(b)
    <3>1. Len(Received(b)) = 2
      BY <2>1
    <3> QED
      BY <1>3, <1>4, <3>1, ByPart
  <2>3. recv_data_length' = l
    <3>1. recv_data_length' = (l % 256) + 256 * (l \div 256)
      BY <2>1, <2>2 DEF RecvLength
    <3> HIDE DEF l
    <3> QED
      BY <1>1, <3>1
  <2>4. /\ recv_state' = (IF l = 0 THEN "Checksum" ELSE "Data") /\ recv_data' = << >>
        /\ UNCHANGED <<status, ram, page>>
    BY <2>2, <2>3 DEF RecvLength, Await
  <2>5. /\ ExpectedAfter(6, l) = (IF l = 0 THEN "Checksum" ELSE "Data")
        /\ Collected(6, data) = << >>
    BY <1>1 DEF ExpectedAfter, Collected
  <2>6. status' = f.status /\ ram' = f.ram /\ page' = f.page
    BY <1>5, <1>7, <2>4 DEF Stands
  <2>7. Heard(6, command, data)'
    BY <1>3, <1>9, <2>3, <2>4, <2>5, <2>6, HeardNext DEF f
  <2> QED
    BY <1>6, <1>9, <2>7 DEF Hears
<1> QED
    BY <1>8, <1>9

\* A byte of the data.
LEMMA HearsData ==
    ASSUME NEW command, NEW data, NEW n \in 6 .. 5 + Len(data), Delivers(n, command, data)
    PROVE  Hears(n, command, data)
<1> DEFINE b == PacketBytes(command, data)[n + 1]
<1> DEFINE l == Len(data)
<1> DEFINE w == Job!Woken
<1> DEFINE o == Job!Obeyed(command, data)
<1> DEFINE e == Effect(n, command, data)
<1> DEFINE f == Effect(n + 1, command, data)
<1>1. /\ l \in Nat /\ command \in {Null, Clear, PrintPage, Fill}
      /\ data \in Seq(Bytes) /\ l \in Words /\ command \in Bytes
    BY ContentsFacts DEF Delivers
<1>2. b = data[n - 5]
  <2>1. n - 5 \in 1 .. l /\ 6 + (n - 5) = n + 1
    BY <1>1
  <2>2. PacketBytes(command, data)[6 + (n - 5)] = data[n - 5]
    BY <1>1, <2>1, PacketFacts
  <2> QED
    BY <2>1, <2>2
<1> HIDE DEF b
<1>3. send_byte(b) /\ job' = job /\ job \in Jobs /\ Heard(n, command, data)
      /\ Contents(command, data)
    BY DEF Delivers, b
<1>4. recv_state = "Data" /\ recv_data_length = l
    BY <1>1, <1>3 DEF Heard, ExpectedAfter
<1>5. Stands(e)
    BY <1>3 DEF Heard
<1>6. Answer = AnswerTo(n + 1, command, data)
    BY <1>1, <1>4 DEF Answer, AnswerTo
<1>7. /\ e.status = o.status /\ f.status = o.status
      /\ e.ram = (IF command = Clear THEN << >> ELSE w.ram) /\ e.page = job.page
      /\ n + 1 \in 3 .. 5 + l =>
           f.ram = (IF command = Clear THEN << >> ELSE w.ram) /\ f.page = job.page
      /\ n + 1 >= 6 + l => f = o
  <2>1. n \in Nat /\ n + 1 \in Nat /\ n \in 3 .. 5 + l /\ n >= 3 /\ n + 1 >= 3
    BY <1>1
  <2>2. /\ e.status = o.status
        /\ e.ram = (IF command = Clear THEN << >> ELSE w.ram) /\ e.page = job.page
    BY <1>3, <2>1, EffectFacts
  <2>3. /\ f.status = o.status
        /\ n + 1 \in 3 .. 5 + l =>
             f.ram = (IF command = Clear THEN << >> ELSE w.ram) /\ f.page = job.page
        /\ n + 1 >= 6 + l => f = o
    BY <1>3, <2>1, EffectFacts
  <2> QED
    BY <2>2, <2>3
<1>8. /\ o.status = IF command = PrintPage THEN Printing
                    ELSE IF command = Fill THEN Ready ELSE w.status
      /\ o.ram = IF command = Clear THEN << >>
                 ELSE IF command = Fill THEN w.ram \o data ELSE w.ram
      /\ o.page = IF command = PrintPage THEN w.ram ELSE job.page
    BY <1>1, <1>3, ObeyedFacts
<1> HIDE DEF w, o, e, f
<1>9. recv_data = SubSeq(data, 1, n - 6)
  <2>1. n > 6 => Collected(n, data) = SubSeq(data, 1, n - 6)
    BY <1>1 DEF Collected
  <2>2. n = 6 => Collected(n, data) = << >>
    BY <1>1 DEF Collected
  <2>3. SubSeq(data, 1, 0) = << >>
    BY <1>1
  <2>4. recv_data = Collected(n, data)
    BY <1>3 DEF Heard
  <2>5. CASE n = 6
    <3>1. n - 6 = 0
      BY <2>5
    <3> QED
      BY <2>2, <2>3, <2>4, <2>5, <3>1
  <2>6. CASE n > 6
    BY <2>1, <2>4, <2>6
  <2> QED
    BY <1>1, <2>5, <2>6
<1>10. Received(b) = SubSeq(data, 1, n - 5) /\ Len(Received(b)) = n - 5
  <2>1. n - 6 \in 0 .. l - 1 /\ n - 5 = (n - 6) + 1
    BY <1>1
  <2>2. Append(SubSeq(data, 1, n - 6), data[n - 5]) = SubSeq(data, 1, n - 5)
    BY <1>1, <2>1
  <2>3. Len(SubSeq(data, 1, n - 5)) = n - 5
    BY <1>1, <2>1
  <2> QED
    BY <1>2, <1>9, <2>2, <2>3 DEF Received
<1>11. CASE n < 5 + l
  <2>1. Collect(b) \/ Panic \/ RecvData(b)
    BY <1>3, <1>4, ByPart
  <2>2. ~RecvData(b)
    BY <1>1, <1>4, <1>10, <1>11 DEF RecvData
  <2>3. CASE Panic
    BY <2>3 DEF Panic, Hears
  <2>4. CASE Collect(b)
    <3>1. /\ recv_data' = SubSeq(data, 1, n - 5) /\ recv_state' = "Data"
          /\ UNCHANGED <<status, ram, page, recv_data_length>>
      BY <1>4, <1>10, <2>4 DEF Collect
    <3>2. ExpectedAfter(n + 1, l) = "Data" /\ Collected(n + 1, data) = SubSeq(data, 1, n - 5)
      <4>1. n + 1 \in 7 .. 5 + l /\ (n + 1) - 6 = n - 5
        BY <1>1, <1>11
      <4> QED
        BY SMTT(30), <1>1, <4>1 DEF ExpectedAfter, Collected
    <3>3. status' = f.status /\ ram' = f.ram /\ page' = f.page
      BY <1>1, <1>5, <1>7, <1>11, <3>1 DEF Stands
    <3>4. Heard(n + 1, command, data)'
      BY <1>3, <1>4, <3>1, <3>2, <3>3, HeardNext DEF f
    <3> QED
      BY <1>6, <3>4 DEF Hears
  <2> QED
    BY <2>1, <2>2, <2>3, <2>4
<1>12. CASE n = 5 + l
  <2>1. Received(b) = data
    <3>1. n - 5 = l /\ SubSeq(data, 1, l) = data
      BY <1>1, <1>12
    <3> QED
      BY <1>10, <3>1
  <2>2. Panic \/ RecvData(b)
    BY <1>3, <1>4, <2>1, ByPart
  <2>3. CASE Panic
    BY <2>3 DEF Panic, Hears
  <2>4. CASE RecvData(b)
    <3>1. /\ recv_state' = "Checksum" /\ recv_data' = << >>
          /\ UNCHANGED <<recv_data_length, status>>
          /\ page' = IF status = Printing THEN ram ELSE page
          /\ ram' = IF status = Ready THEN ram \o data ELSE ram
      BY <2>1, <2>4 DEF RecvData, Await
    <3>2. ExpectedAfter(n + 1, l) = "Checksum" /\ Collected(n + 1, data) = << >>
      BY <1>1, <1>12 DEF ExpectedAfter, Collected
    <3>3. command \in {PrintPage, Fill}
      <4>1. data # << >>
        BY <1>1, <1>12
      <4> QED
        BY <1>1, <1>3, <4>1, ContentsFacts
    <3>4. PrintPage # Fill /\ Printing # Ready /\ command # Clear
      BY <3>3 DEF PrintPage, Fill, Printing, Ready, Clear
    <3>5. f = o
      BY <1>1, <1>7, <1>12
    <3>6. status' = f.status /\ ram' = f.ram /\ page' = f.page
      BY <1>5, <1>7, <1>8, <3>1, <3>3, <3>4, <3>5 DEF Stands
    <3>7. Heard(n + 1, command, data)'
      BY <1>3, <1>4, <3>1, <3>2, <3>6, HeardNext DEF f
    <3> QED
      BY <1>6, <3>7 DEF Hears
  <2> QED
    BY <2>2, <2>3, <2>4
<1> QED
    BY <1>1, <1>11, <1>12

\* The two bytes of the checksum.
LEMMA HearsChecksum ==
    ASSUME NEW command, NEW data, NEW n \in 6 + Len(data) .. 7 + Len(data),
           Delivers(n, command, data)
    PROVE  Hears(n, command, data)
<1> DEFINE b == PacketBytes(command, data)[n + 1]
<1> DEFINE l == Len(data)
<1> DEFINE e == Effect(n, command, data)
<1> DEFINE f == Effect(n + 1, command, data)
<1>1. /\ l \in Nat /\ command \in {Null, Clear, PrintPage, Fill}
      /\ data \in Seq(Bytes) /\ l \in Words /\ command \in Bytes
    BY ContentsFacts DEF Delivers
<1>2. b = 0
  <2>1. n - 5 - l \in 1 .. 4 /\ 6 + l + (n - 5 - l) = n + 1
    BY <1>1
  <2>2. \A i \in 1 .. 4 : PacketBytes(command, data)[6 + l + i] = 0
    BY SMTT(30), <1>1, PacketFacts
  <2>3. PacketBytes(command, data)[6 + l + (n - 5 - l)] = 0
    BY <2>1, <2>2
  <2> QED
    BY <2>1, <2>3
<1> HIDE DEF b
<1>3. send_byte(b) /\ job' = job /\ job \in Jobs /\ Heard(n, command, data)
      /\ Contents(command, data)
    BY DEF Delivers, b
<1>4. /\ recv_state = "Checksum" /\ recv_data_length = l
      /\ recv_data = IF n = 6 + l THEN << >> ELSE <<0>>
    BY <1>1, <1>3 DEF Heard, ExpectedAfter, Collected
<1>5. Stands(e)
    BY <1>3 DEF Heard
<1>6. Answer = AnswerTo(n + 1, command, data)
    BY <1>1, <1>4 DEF Answer, AnswerTo
<1>7. e = f
  <2>1. n \in Nat /\ n + 1 \in Nat /\ n >= 3 /\ n + 1 >= 3 /\ n >= 6 + l /\ n + 1 >= 6 + l
    BY <1>1
  <2> QED
    BY <1>3, <2>1, EffectFacts
<1> HIDE DEF e, f
<1>8. CASE n = 6 + l
  <2>1. Received(b) = <<0>>
    BY <1>2, <1>4, <1>8 DEF Received
  <2>2. Collect(b)
    <3>1. Len(Received(b)) # 2
      BY <2>1
    <3> QED
      BY <1>3, <1>4, <3>1, ByPart
  <2>3. /\ recv_data' = <<0>> /\ recv_state' = "Checksum"
        /\ UNCHANGED <<status, ram, page, recv_data_length>>
    BY <1>4, <2>1, <2>2 DEF Collect
  <2>4. ExpectedAfter(n + 1, l) = "Checksum" /\ Collected(n + 1, data) = <<0>>
    BY <1>1, <1>8 DEF ExpectedAfter, Collected
  <2>5. Heard(n + 1, command, data)'
    BY <1>3, <1>4, <1>5, <1>7, <2>3, <2>4, HeardNext DEF f, Stands
  <2> QED
    BY <1>6, <2>5 DEF Hears
<1>9. CASE n = 7 + l
  <2>1. Received(b) = <<0, 0>>
    <3>1. b = 0 /\ recv_data = <<0>>
      BY <1>1, <1>2, <1>4, <1>9
    <3> QED
      BY <3>1, AppendToOne DEF Received
  <2>2. RecvChecksum(b)
    <3>1. Len(Received(b)) = 2
      BY <2>1
    <3> QED
      BY <1>3, <1>4, <3>1, ByPart
  <2>3. /\ recv_data' = << >> /\ recv_state' = "KeepAlive"
        /\ UNCHANGED <<status, ram, page, recv_data_length>>
    BY <2>2 DEF RecvChecksum, Await
  <2>4. ExpectedAfter(n + 1, l) = "KeepAlive" /\ Collected(n + 1, data) = << >>
    BY <1>1, <1>9 DEF ExpectedAfter, Collected
  <2>5. Heard(n + 1, command, data)'
    BY <1>3, <1>4, <1>5, <1>7, <2>3, <2>4, HeardNext DEF f, Stands
  <2> QED
    BY <1>6, <2>5 DEF Hears
<1> QED
    BY <1>1, <1>8, <1>9

\* The two bytes that the printer answers.
LEMMA HearsEnd ==
    ASSUME NEW command, NEW data, NEW n \in 8 + Len(data) .. 9 + Len(data),
           Delivers(n, command, data)
    PROVE  Hears(n, command, data)
<1> DEFINE b == PacketBytes(command, data)[n + 1]
<1> DEFINE l == Len(data)
<1> DEFINE e == Effect(n, command, data)
<1> DEFINE f == Effect(n + 1, command, data)
<1>1. /\ l \in Nat /\ command \in {Null, Clear, PrintPage, Fill}
      /\ data \in Seq(Bytes) /\ l \in Words /\ command \in Bytes
    BY ContentsFacts DEF Delivers
<1>2. b = 0
  <2>1. n - 5 - l \in 1 .. 4 /\ 6 + l + (n - 5 - l) = n + 1
    BY <1>1
  <2>2. \A i \in 1 .. 4 : PacketBytes(command, data)[6 + l + i] = 0
    BY SMTT(30), <1>1, PacketFacts
  <2>3. PacketBytes(command, data)[6 + l + (n - 5 - l)] = 0
    BY <2>1, <2>2
  <2> QED
    BY <2>1, <2>3
<1> HIDE DEF b
<1>3. send_byte(b) /\ job' = job /\ job \in Jobs /\ Heard(n, command, data)
      /\ Contents(command, data)
    BY DEF Delivers, b
<1>4. /\ recv_state = (IF n = 8 + l THEN "KeepAlive" ELSE "Status")
      /\ recv_data_length = l /\ recv_data = << >>
    BY <1>1, <1>3 DEF Heard, ExpectedAfter, Collected
<1>5. Stands(e)
    BY <1>3 DEF Heard
<1>6. e = f /\ e = Job!Obeyed(command, data)
  <2>1. n \in Nat /\ n + 1 \in Nat /\ n >= 3 /\ n + 1 >= 3 /\ n >= 6 + l /\ n + 1 >= 6 + l
    BY <1>1
  <2> QED
    BY <1>3, <2>1, EffectFacts
<1> HIDE DEF e, f
<1>7. Answer = AnswerTo(n + 1, command, data)
  <2>1. Answer = IF n = 8 + l THEN 129 ELSE status
    BY <1>1, <1>4 DEF Answer
  <2>2. AnswerTo(n + 1, command, data) = IF n = 8 + l THEN 129 ELSE e.status
    BY <1>1, <1>6 DEF AnswerTo
  <2> QED
    BY <1>5, <2>1, <2>2 DEF Stands
<1>8. /\ recv_data' = << >> /\ recv_state' = (IF n = 8 + l THEN "Status" ELSE "Magic")
      /\ UNCHANGED <<status, ram, page, recv_data_length>>
  <2>1. CASE n = 8 + l
    <3>1. RecvKeepAlive(b)
      BY <1>2, <1>3, <1>4, <2>1, ByPart
    <3> QED
      BY <2>1, <3>1 DEF RecvKeepAlive, Await
  <2>2. CASE n # 8 + l
    <3>1. RecvStatus
      BY <1>3, <1>4, <2>2, ByPart
    <3> QED
      BY <2>2, <3>1 DEF RecvStatus, Await
  <2> QED
    BY <2>1, <2>2
<1>9. /\ ExpectedAfter(n + 1, l) = (IF n = 8 + l THEN "Status" ELSE "Magic")
      /\ Collected(n + 1, data) = << >>
    BY <1>1 DEF ExpectedAfter, Collected
<1>10. Heard(n + 1, command, data)'
    BY <1>3, <1>4, <1>5, <1>6, <1>8, <1>9, HeardNext DEF f, Stands
<1> QED
    BY <1>7, <1>10 DEF Hears

\* A printer that heard n bytes of a packet hears the next one.
LEMMA HearsNext ==
    ASSUME NEW command, NEW data, NEW n \in 0 .. 9 + Len(data), Delivers(n, command, data)
    PROVE  Hears(n, command, data)
<1>1. Len(data) \in Nat
    BY ContentsFacts DEF Delivers
<1>2. CASE n \in 0 .. 1
    BY <1>2, HearsMagic
<1>3. CASE n \in 2 .. 3
    BY <1>3, HearsCommand
<1>4. CASE n \in 4 .. 5
    BY <1>4, HearsLength
<1>5. CASE n \in 6 .. 5 + Len(data)
    BY <1>5, HearsData
<1>6. CASE n \in 6 + Len(data) .. 7 + Len(data)
    BY <1>6, HearsChecksum
<1>7. CASE n \in 8 + Len(data) .. 9 + Len(data)
    BY <1>7, HearsEnd
<1> QED
    BY <1>1, <1>2, <1>3, <1>4, <1>5, <1>6, <1>7

-----------------------------------------------------------------------------
(* The port and the program. *)

\* A byte of the packet goes from what is to be sent to what was sent.
LEMMA Passing ==
    ASSUME NEW s \in Seq(Bytes), NEW t \in Seq(Bytes), t # << >>
    PROVE  /\ Head(t) \in Bytes /\ Tail(t) \in Seq(Bytes) /\ Len(t) \in Nat \ {0}
           /\ Len(Tail(t)) = Len(t) - 1 /\ Tail(t) = << >> <=> Len(t) = 1
           /\ Append(s, Head(t)) \in Seq(Bytes) /\ Append(s, Head(t)) # << >>
           /\ Len(Append(s, Head(t))) = Len(s) + 1
           /\ (s \o t)[Len(s) + 1] = Head(t)
           /\ Append(s, Head(t)) \o Tail(t) = s \o t
<1>1. /\ Head(t) \in Bytes /\ Tail(t) \in Seq(Bytes) /\ Len(t) \in Nat \ {0}
      /\ Len(Tail(t)) = Len(t) - 1
    BY EmptySeq, HeadTailProperties
<1>2. Tail(t) = << >> <=> Len(t) = 1
    BY SMTT(30), <1>1, EmptySeq
<1>3. /\ Append(s, Head(t)) \in Seq(Bytes) /\ Append(s, Head(t)) # << >>
      /\ Len(Append(s, Head(t))) = Len(s) + 1
      /\ Append(s, Head(t)) = s \o <<Head(t)>>
    BY <1>1, AppendProperties, AppendIsConcat
<1>4. t = <<Head(t)>> \o Tail(t)
  <2> DEFINE h == <<Head(t)>>
  <2>1. h \in Seq(Bytes) /\ Len(h) = 1 /\ h[1] = Head(t)
    BY <1>1
  <2>2. \A i \in 1 .. Len(Tail(t)) : Tail(t)[i] = t[i + 1]
    BY HeadTailProperties
  <2> HIDE DEF h
  <2>3. /\ h \o Tail(t) \in Seq(Bytes) /\ Len(h \o Tail(t)) = Len(h) + Len(Tail(t))
        /\ \A i \in 1 .. Len(h) + Len(Tail(t)) :
              (h \o Tail(t))[i] = IF i <= Len(h) THEN h[i] ELSE Tail(t)[i - Len(h)]
    BY <1>1, <2>1, ConcatProperties
  <2>4. Len(h \o Tail(t)) = Len(t)
    BY <1>1, <2>1, <2>3
  <2>5. t[1] = Head(t)
    BY <1>1
  <2>6. ASSUME NEW i \in 1 .. Len(t) PROVE t[i] = (h \o Tail(t))[i]
    <3>1. i \in 1 .. Len(h) + Len(Tail(t))
      BY <1>1, <2>1
    <3>2. CASE i = 1
      BY <2>1, <2>3, <2>5, <3>1, <3>2
    <3>3. CASE i # 1
      <4>1. i - 1 \in 1 .. Len(Tail(t)) /\ ~(i <= 1) /\ (i - 1) + 1 = i
        BY <1>1, <3>3
      <4>2. (h \o Tail(t))[i] = Tail(t)[i - 1]
        BY <2>1, <2>3, <3>1, <4>1
      <4> QED
        BY <2>2, <4>1, <4>2
    <3> QED
      BY <3>2, <3>3
  <2>7. t = h \o Tail(t)
    BY <2>3, <2>4, <2>6, SeqEqual
  <2> QED
    BY <2>7 DEF h
<1>5. (s \o t)[Len(s) + 1] = Head(t)
  <2>1. \A i \in 1 .. Len(s) + Len(t) :
           (s \o t)[i] = IF i <= Len(s) THEN s[i] ELSE t[i - Len(s)]
    BY ConcatProperties
  <2>2. Len(s) \in Nat /\ t[1] = Head(t)
    BY <1>1
  <2> QED
    BY <1>1, <2>1, <2>2
<1>6. <<Head(t)>> \in Seq(Bytes)
    BY <1>1
<1>7. (s \o <<Head(t)>>) \o Tail(t) = s \o (<<Head(t)>> \o Tail(t))
    BY <1>1, <1>6, ConcatAssociative
<1> QED
    BY <1>1, <1>2, <1>3, <1>4, <1>5, <1>7

\* What the program begins.
LEMMA BeginFacts ==
    ASSUME BeginPacket
    PROVE  /\ line = << >> /\ sent' = << >>
           /\ UNCHANGED <<waiting, answer, job, requested, port_vars, printer_vars>>
           /\ \/ job.lost /\ line' = PacketBytes(Null, << >>)
              \/ /\ ~job.lost
                 /\ \E command, data : Contents(command, data) /\ line' = PacketBytes(command, data)
              \/ ~job.lost /\ \E byte \in Strays : line' = <<byte>>
<1>1. CASE job.lost
    BY <1>1 DEF BeginPacket, DeafPackets
<1>2. CASE ~job.lost
  <2>1. line' \in Packets \cup {<<byte>> : byte \in Strays}
    BY <1>2 DEF BeginPacket
  <2>2. ASSUME line' \in Packets
        PROVE  \E command, data : Contents(command, data) /\ line' = PacketBytes(command, data)
    <3>1. \/ \E command \in {Null, Clear} : line' = PacketBytes(command, << >>)
          \/ line' = PacketBytes(PrintPage, <<1, 0, 228, 64>>)
          \/ \E data \in Fills : line' = PacketBytes(Fill, data)
      BY <2>2 DEF Packets
    <3>2. /\ \A command \in {Null, Clear} : Contents(command, << >>)
          /\ Contents(PrintPage, <<1, 0, 228, 64>>)
          /\ \A data \in Fills : Contents(Fill, data)
      BY DEF Contents
    <3> QED
      BY <3>1, <3>2
  <2> QED
    BY <1>2, <2>1, <2>2 DEF BeginPacket
<1> QED
    BY <1>1, <1>2

\* The program's bytes are bytes.
LEMMA BeginType == ASSUME BeginPacket PROVE line' \in Seq(Bytes) /\ line' # << >>
<1>1. ASSUME NEW command, NEW data, Contents(command, data),
             line' = PacketBytes(command, data)
      PROVE  line' \in Seq(Bytes) /\ line' # << >>
  <2>1. /\ PacketBytes(command, data) \in Seq(Bytes)
        /\ Len(PacketBytes(command, data)) = 10 + Len(data)
        /\ Len(data) \in Nat
    BY <1>1, ContentsFacts, PacketFacts
  <2>2. Len(line') # 0
    BY <1>1, <2>1
  <2> QED
    BY <1>1, <2>1, <2>2
<1>2. Contents(Null, << >>)
    BY DEF Contents
<1>3. ASSUME NEW byte \in Strays, line' = <<byte>>
      PROVE  line' \in Seq(Bytes) /\ line' # << >>
  <2>1. byte \in Bytes
    BY SerialConstants
  <2> QED
    BY <1>3, <2>1
<1> QED
    BY <1>1, <1>2, <1>3, BeginFacts

\* The printer answers a byte.
LEMMA AnswerType == ASSUME PrinterTypeOK PROVE Answer \in Bytes
<1>1. 129 \in Bytes /\ 0 \in Bytes
    BY DEF Bytes, MaxByte
<1>2. status \in Bytes
    BY DEF PrinterTypeOK, Idle, Ready, Printing, Done, Bytes, MaxByte
<1> QED
    BY <1>1, <1>2 DEF Answer

\* The types of the port and of the program.
PortTypeOK ==
    /\ sb \in Bytes /\ shift_counter \in 0 .. 8 /\ incoming \in Bytes \cup {NoByte}
    /\ reg_enable \in BOOLEAN /\ reg_select \in BOOLEAN /\ requested \in BOOLEAN

ProgramTypeOK ==
    /\ line \in Seq(Bytes) /\ sent \in Seq(Bytes) /\ answer \in Seq(Bytes)
    /\ waiting \in BOOLEAN /\ job \in Jobs

\* The types of the three parts.
LEMMA LinkTypes == LinkTypeOK <=> PrinterTypeOK /\ PortTypeOK /\ ProgramTypeOK
    BY DEF LinkTypeOK, SerialTypeOK, PrinterTypeOK, PortTypeOK, ProgramTypeOK

\* The types of the three parts, after a step.
LEMMA LinkTypesNext == LinkTypeOK' <=> PrinterTypeOK' /\ PortTypeOK' /\ ProgramTypeOK'
    BY DEF LinkTypeOK, SerialTypeOK, PrinterTypeOK, PortTypeOK, ProgramTypeOK

\* The clock that exchanges the byte.
LEMMA ExchangeFacts ==
    ASSUME LinkTypeOK, Turns, clock_serial, shift_counter = 0
    PROVE  /\ waiting /\ ~requested /\ ~panicked /\ line # << >> /\ sb = Head(line)
           /\ send_byte(sb)
           /\ UNCHANGED <<reg_enable, reg_select, requested, program_vars>>
           /\ \/ panicked' /\ UNCHANGED <<incoming, sb, shift_counter>>
              \/ /\ ~panicked' /\ incoming' = Answer /\ shift_counter' = 1
                 /\ incoming' \in Bytes /\ sb' \in Bytes /\ InShifted(sb', incoming', 1)
<1>1. PrinterTypeOK /\ PortTypeOK /\ ProgramTypeOK
    BY LinkTypes
<1>2. Exchange /\ ~panicked /\ reg_enable /\ reg_select /\ UNCHANGED program_vars
    BY DEF clock_serial, Shift, finish_transmission
<1>3. waiting /\ ~requested /\ line # << >> /\ sb = Head(line)
    BY <1>2 DEF Turns
<1>4. ASSUME incoming' = Answer, sb' = Shifted(sb, incoming', 0)
      PROVE  incoming' \in Bytes /\ sb' \in Bytes /\ InShifted(sb', incoming', 1)
  <2>1. incoming' \in Bytes
    BY <1>1, <1>4, AnswerType
  <2>2. sb \in Bytes /\ 0 \in 0 .. 7
    BY <1>1 DEF PortTypeOK
  <2>3. InShifted(sb, incoming', 0)
    BY <2>1, <2>2, NoneShifted
  <2>4. /\ Shifted(sb, incoming', 0) \in Bytes
        /\ InShifted(Shifted(sb, incoming', 0), incoming', 0 + 1)
    BY <2>1, <2>2, <2>3, ShiftFacts
  <2> QED
    BY <1>4, <2>1, <2>4
<1> QED
    BY <1>2, <1>3, <1>4 DEF Exchange

\* The clocks that shift.
LEMMA ShiftStep ==
    ASSUME LinkTypeOK, Turns, clock_serial, shift_counter \in 1 .. 7
    PROVE  /\ waiting /\ ~requested /\ ~panicked
           /\ sb' \in Bytes /\ InShifted(sb', incoming, shift_counter + 1)
           /\ shift_counter' = shift_counter + 1 /\ incoming \in Bytes
           /\ UNCHANGED <<incoming, reg_enable, reg_select, requested, printer_vars, program_vars>>
<1>1. PrinterTypeOK /\ PortTypeOK /\ ProgramTypeOK
    BY LinkTypes
<1>2. Shift /\ ~panicked /\ reg_enable /\ reg_select /\ UNCHANGED program_vars
  <2>1. ~Exchange
    BY DEF Exchange
  <2>2. ~finish_transmission
    BY DEF finish_transmission
  <2> QED
    BY <2>1, <2>2 DEF clock_serial
<1>3. waiting /\ ~requested /\ incoming \in Bytes /\ InShifted(sb, incoming, shift_counter)
    BY <1>2 DEF Turns
<1>4. sb \in Bytes /\ shift_counter \in 0 .. 7
    BY <1>1 DEF PortTypeOK
<1>5. /\ Shifted(sb, incoming, shift_counter) \in Bytes
      /\ InShifted(Shifted(sb, incoming, shift_counter), incoming, shift_counter + 1)
    BY <1>3, <1>4, ShiftFacts
<1> QED
    BY <1>2, <1>3, <1>5 DEF Shift

\* The clock that ends the transfer.
LEMMA FinishFacts ==
    ASSUME LinkTypeOK, Turns, clock_serial, shift_counter = 8
    PROVE  /\ waiting /\ ~requested /\ ~panicked
           /\ sb = incoming
           /\ reg_enable' = FALSE /\ shift_counter' = 0 /\ incoming' = NoByte /\ requested' = TRUE
           /\ UNCHANGED <<sb, reg_select, printer_vars, program_vars>>
<1>1. PrinterTypeOK /\ PortTypeOK /\ ProgramTypeOK
    BY LinkTypes
<1>2. finish_transmission /\ ~panicked /\ reg_enable /\ reg_select /\ UNCHANGED program_vars
    BY DEF clock_serial, Exchange, Shift
<1>3. waiting /\ ~requested /\ incoming \in Bytes /\ InShifted(sb, incoming, 8)
    BY <1>2 DEF Turns
<1>4. sb = incoming
    BY <1>1, <1>3, AllShifted DEF PortTypeOK
<1> QED
    BY <1>2, <1>3, <1>4 DEF finish_transmission

\* Which of them it is.
LEMMA ClockCases ==
    ASSUME LinkTypeOK
    PROVE  shift_counter = 0 \/ shift_counter \in 1 .. 7 \/ shift_counter = 8
<1>1. shift_counter \in 0 .. 8
    BY LinkTypes DEF PortTypeOK
<1> QED
    BY <1>1

\* A clock of the port.
LEMMA ClockTurns ==
    ASSUME LinkTypeOK, Turns, clock_serial
    PROVE  LinkTypeOK' /\ Turns'
<1>1. PrinterTypeOK /\ PortTypeOK /\ ProgramTypeOK
    BY LinkTypes
<1>2. CASE shift_counter = 0
  <2>1. PrinterTypeOK'
    BY <1>1, <1>2, ExchangeFacts, SendType DEF PortTypeOK
  <2>2. PortTypeOK' /\ ProgramTypeOK'
    BY <1>1, <1>2, ExchangeFacts DEF PortTypeOK, ProgramTypeOK, program_vars
  <2>3. Turns'
    BY <1>2, ExchangeFacts DEF Turns, program_vars
  <2> QED
    BY <2>1, <2>2, <2>3, LinkTypesNext
<1>3. CASE shift_counter \in 1 .. 7
  <2>1. PrinterTypeOK'
    BY <1>1, <1>3, ShiftStep DEF PrinterTypeOK, printer_vars
  <2>2. PortTypeOK' /\ ProgramTypeOK'
    BY <1>1, <1>3, ShiftStep DEF PortTypeOK, ProgramTypeOK, program_vars
  <2>3. Turns'
    BY <1>3, ShiftStep DEF Turns, program_vars, printer_vars
  <2> QED
    BY <2>1, <2>2, <2>3, LinkTypesNext
<1>4. CASE shift_counter = 8
  <2>1. PrinterTypeOK'
    BY <1>1, <1>4, FinishFacts DEF PrinterTypeOK, printer_vars
  <2>2. PortTypeOK' /\ ProgramTypeOK'
    BY <1>1, <1>4, FinishFacts DEF PortTypeOK, ProgramTypeOK, program_vars
  <2>3. waiting /\ ~panicked /\ UNCHANGED <<waiting, line, panicked>>
    BY <1>4, FinishFacts DEF program_vars, printer_vars
  <2>4. reg_enable' = FALSE /\ shift_counter' = 0 /\ requested' = TRUE
    BY <1>4, FinishFacts
  <2>5. Turns'
    BY <2>3, <2>4 DEF Turns
  <2> QED
    BY <2>1, <2>2, <2>5, LinkTypesNext
<1> QED
    BY <1>2, <1>3, <1>4, ClockCases

\* A step of the program.
LEMMA ProgramTurns ==
    ASSUME LinkTypeOK, Turns, BeginPacket \/ StartTransfer \/ Pause \/ Resume \/ Interrupt
    PROVE  LinkTypeOK' /\ Turns'
<1>1. PrinterTypeOK /\ PortTypeOK /\ ProgramTypeOK
    BY LinkTypes
<1>2. CASE BeginPacket
  <2>1. line' \in Seq(Bytes) /\ line' # << >> /\ sent' = << >> /\ line = << >>
        /\ UNCHANGED <<waiting, answer, job, requested, port_vars, printer_vars>>
    BY <1>2, BeginType, BeginFacts
  <2>2. PrinterTypeOK' /\ PortTypeOK' /\ ProgramTypeOK'
    BY <1>1, <2>1 DEF PrinterTypeOK, PortTypeOK, ProgramTypeOK, printer_vars, port_vars
  <2>3. Turns'
    BY <2>1 DEF Turns, printer_vars, port_vars
  <2> QED
    BY <2>2, <2>3, LinkTypesNext
<1>3. CASE StartTransfer
  <2>1. Head(line) \in Bytes
    BY <1>1, <1>3, HeadTailProperties DEF StartTransfer, ProgramTypeOK
  <2>2. PrinterTypeOK' /\ PortTypeOK' /\ ProgramTypeOK'
    BY <1>1, <1>3, <2>1
    DEF StartTransfer, write_sc, PrinterTypeOK, PortTypeOK, ProgramTypeOK, printer_vars
  <2>3. Turns'
    BY <1>3 DEF StartTransfer, write_sc, Turns, printer_vars
  <2> QED
    BY <2>2, <2>3, LinkTypesNext
<1>4. CASE Pause
  <2>1. PrinterTypeOK' /\ PortTypeOK' /\ ProgramTypeOK'
    BY <1>1, <1>4
    DEF Pause, write_sc, PrinterTypeOK, PortTypeOK, ProgramTypeOK, printer_vars, program_vars
  <2>2. /\ waiting' /\ UNCHANGED <<sb, shift_counter, incoming, requested, line, panicked>>
        /\ ~(reg_enable' /\ reg_select')
    <3>1. PICK enable \in BOOLEAN : write_sc(enable, ~enable)
      BY <1>4 DEF Pause
    <3>2. ~(reg_enable' /\ reg_select') /\ UNCHANGED <<shift_counter, incoming>>
      BY <3>1, Zenon DEF write_sc
    <3> QED
      BY <1>4, <3>2 DEF Pause, printer_vars, program_vars
  <2>3. Turns'
    BY <1>4, <2>2 DEF Pause, Turns
  <2> QED
    BY <2>1, <2>3, LinkTypesNext
<1>5. CASE Resume
  <2>1. PrinterTypeOK' /\ PortTypeOK' /\ ProgramTypeOK'
    BY <1>1, <1>5
    DEF Resume, write_sc, PrinterTypeOK, PortTypeOK, ProgramTypeOK, printer_vars, program_vars
  <2>2. Turns'
    BY <1>5 DEF Resume, write_sc, Turns, printer_vars, program_vars
  <2> QED
    BY <2>1, <2>2, LinkTypesNext
<1>6. CASE Interrupt
  <2>1. waiting /\ line # << >>
    BY <1>6 DEF Interrupt, Turns
  <2>2. line' \in Seq(Bytes) /\ sent' \in Seq(Bytes)
    BY <1>1, <1>6, <2>1, Passing DEF Interrupt, ProgramTypeOK
  <2>3. answer' \in Seq(Bytes)
    <3>1. sb \in Bytes
      BY <1>1 DEF PortTypeOK
    <3>2. CASE answer = << >>
      BY <1>6, <3>1, <3>2 DEF Interrupt
    <3>3. CASE answer # << >>
      <4>1. answer[Len(answer)] \in Bytes
        BY <1>1, <3>3 DEF ProgramTypeOK
      <4> QED
        BY <1>6, <3>1, <3>3, <4>1 DEF Interrupt
    <3> QED
      BY <3>2, <3>3
  <2>4. job' \in Jobs
    <3>1. status \in Statuses /\ ram \in Seq(Bytes) /\ page \in Seq(Bytes)
      BY <1>1 DEF PrinterTypeOK, Statuses
    <3>2. job \in Jobs /\ job.lost \in BOOLEAN
      BY <1>1 DEF ProgramTypeOK, Jobs
    <3>3. [job EXCEPT !.lost = TRUE] \in Jobs
      BY <3>2 DEF Jobs
    <3>4. [status |-> status, ram |-> ram, page |-> page, answer |-> answer', lost |-> job.lost]
            \in Jobs
      BY <2>3, <3>1, <3>2 DEF Jobs
    <3> QED
      BY <1>6, <3>2, <3>3, <3>4 DEF Interrupt
  <2>5. PrinterTypeOK' /\ PortTypeOK' /\ ProgramTypeOK'
    BY <1>1, <1>6, <2>2, <2>3, <2>4
    DEF Interrupt, PrinterTypeOK, PortTypeOK, ProgramTypeOK, printer_vars, port_vars
  <2>6. Turns'
    BY <1>6 DEF Interrupt, Turns, printer_vars, port_vars
  <2> QED
    BY <2>5, <2>6, LinkTypesNext
<1> QED
    BY <1>2, <1>3, <1>4, <1>5, <1>6

\* Nothing happens that matters to the packet under way.
LEMMA Steady ==
    ASSUME Understood, UNCHANGED <<printer_vars, line, sent, answer, job>>,
           Delivered' = Delivered,
           shift_counter' > 0 => shift_counter > 0 /\ incoming' = incoming,
           requested' => \/ requested /\ sb' = sb
                         \/ shift_counter > 0 /\ sb' = incoming
    PROVE  Understood'
<1>1. UNCHANGED <<recv_state, recv_data, recv_data_length, status, ram, page, panicked>>
    BY DEF printer_vars
<1>2. ASSUME NEW a, Told(a) PROVE Told(a)'
    BY <1>2 DEF Told
<1>3. ASSUME Rest PROVE Rest'
    BY <1>1, <1>3 DEF Rest, Stands
<1>4. ASSUME Stray PROVE Stray'
    BY <1>1, <1>4 DEF Stray, Stands
<1>5. ASSUME Deaf PROVE Deaf'
  <2>1. Told(0)'
    BY <1>2, <1>5 DEF Deaf
  <2> QED
    BY <1>1, <1>5, <2>1 DEF Deaf, Stands, Recalls, PacketBytes, Null
<1>6. ASSUME NEW command, NEW data, Talk(command, data) PROVE Talk(command, data)'
  <2>1. /\ Heard(Delivered, command, data)' /\ (sent # << >>)' = (sent # << >>)
    <3>1. Effect(Delivered, command, data)' = Effect(Delivered, command, data)
      BY DEF Effect, Job!Obeyed, Job!Woken
    <3> QED
      BY <1>1, <1>6, <3>1 DEF Talk, Heard, Stands
  <2>2. /\ AnswerTo(Delivered, command, data)' = AnswerTo(Delivered, command, data)
        /\ AnswerTo(Len(sent), command, data)' = AnswerTo(Len(sent), command, data)
    BY DEF AnswerTo, Job!Obeyed, Job!Woken
  <2>3. Told(AnswerTo(Delivered, command, data))'
    BY <1>6, <2>2 DEF Talk, Told
  <2>4. (sent # << >> => Recalls(AnswerTo(Len(sent), command, data)))'
    BY <1>6, <2>2 DEF Talk, Recalls
  <2> QED
    BY <1>1, <1>6, <2>1, <2>3, <2>4 DEF Talk
<1>7. CASE Rest
    BY <1>3, <1>7 DEF Understood
<1>8. CASE Stray
    BY <1>4, <1>8 DEF Understood
<1>9. CASE Deaf
    BY <1>5, <1>9 DEF Understood
<1>10. CASE \E command, data : Contents(command, data) /\ Talk(command, data)
  <2>1. PICK command, data : Contents(command, data) /\ Talk(command, data)
    BY <1>10
  <2>2. Talk(command, data)' /\ Contents(command, data)'
    BY <1>6, <2>1 DEF Contents
  <2> QED
    BY <2>2 DEF Understood
<1> QED
    BY <1>7, <1>8, <1>9, <1>10 DEF Understood

\* The first clock of a transfer takes the byte to the printer.
LEMMA ExchangeUnderstood ==
    ASSUME LinkTypeOK, Turns, Understood, clock_serial, shift_counter = 0
    PROVE  panicked' \/ Understood'
<1> SUFFICES ASSUME ~panicked' PROVE Understood'
    OBVIOUS
<1>1. PrinterTypeOK /\ PortTypeOK /\ ProgramTypeOK
    BY LinkTypes
<1>2. /\ waiting /\ ~requested /\ line # << >> /\ sb = Head(line)
      /\ send_byte(sb) /\ requested' = requested
      /\ incoming' = Answer /\ shift_counter' = 1
    BY ExchangeFacts
<1>3. UNCHANGED <<line, sent, answer, job>>
    BY ExchangeFacts DEF program_vars
<1>4. /\ line \in Seq(Bytes) /\ sent \in Seq(Bytes) /\ Len(sent) \in Nat
      /\ Len(line) \in Nat \ {0} /\ job \in Jobs
    BY <1>1, <1>2, EmptySeq DEF ProgramTypeOK
<1>5. Delivered = Len(sent) /\ Delivered' = Len(sent) + 1
    BY <1>2, <1>3, <1>4 DEF Delivered
<1>6. CASE Rest
    BY <1>2, <1>6 DEF Rest
<1>7. CASE Stray
  <2>1. sent = << >> /\ recv_state = "Magic" /\ recv_data = << >> /\ line = <<sb>>
    <3>1. sent = << >> /\ Len(line) = 1 /\ recv_state = "Magic"
      BY <1>7 DEF Stray
    <3>2. Delivered = 0
      BY <1>5, <3>1
    <3>3. line = <<Head(line)>>
      BY <1>4, <3>1
    <3> QED
      BY <1>2, <1>7, <3>1, <3>2, <3>3 DEF Stray
  <2>2. Received(sb) = <<sb>>
    BY <2>1 DEF Received
  <2>3. Received(sb) # <<136, 51>>
    BY <2>2
  <2>4. Collect(sb)
    BY <1>2, <2>1, <2>3, ByPart
  <2>5. recv_data' = <<sb>> /\ UNCHANGED <<recv_state, status, ram, page>>
    BY <2>1, <2>2, <2>4 DEF Collect
  <2>6. Delivered' # 0
    BY <1>4, <1>5
  <2>7. Stray'
    BY <1>3, <1>7, <2>1, <2>5, <2>6 DEF Stray, Stands
  <2> QED
    BY <2>7 DEF Understood
<1>8. CASE Deaf
  <2>1. /\ recv_state = "Magic" /\ recv_data \in Seq(Bytes)
        /\ Len(recv_data) = 2 \/ (Len(recv_data) = 1 /\ Delivered = 0)
        /\ sent \o line = PacketBytes(Null, << >>)
    BY <1>1, <1>8 DEF Deaf, PrinterTypeOK
  <2>2. sb \in Bytes
    BY <1>1 DEF PortTypeOK
  <2>3. Received(sb) \in Seq(Bytes) /\ Len(Received(sb)) = Len(recv_data) + 1
        /\ Received(sb)[Len(recv_data) + 1] = sb
    BY <2>1, <2>2, AppendProperties DEF Received
  <2>4. Len(recv_data) = 1 => sb = 136
    <3> SUFFICES ASSUME Len(recv_data) = 1 PROVE sb = 136
      OBVIOUS
    <3>1. Len(sent) = 0
      BY <1>5, <2>1
    <3>2. (sent \o line)[Len(sent) + 1] = sb
      BY <1>2, <1>4, Passing
    <3>3. PacketBytes(Null, << >>)[1] = 136
      BY DEF PacketBytes
    <3> QED
      BY <2>1, <3>1, <3>2, <3>3
  <2>5. Received(sb) # <<136, 51>>
    <3> SUFFICES ASSUME Received(sb) = <<136, 51>> PROVE FALSE
      OBVIOUS
    <3>1. Len(Received(sb)) = 2 /\ Received(sb)[2] = 51
      OBVIOUS
    <3>2. Len(recv_data) = 1
      <4>1. Len(recv_data) = 2 \/ Len(recv_data) = 1
        BY <2>1
      <4>2. Len(Received(sb)) = Len(recv_data) + 1
        BY <2>3
      <4> QED
        BY <3>1, <4>1, <4>2
    <3>3. Received(sb)[Len(recv_data) + 1] = sb
      BY <2>3
    <3> QED
      BY <2>4, <3>1, <3>2, <3>3
  <2>6. Collect(sb)
    BY <1>2, <2>1, <2>5, ByPart
  <2>7. UNCHANGED <<recv_state, status, ram, page>> /\ Len(recv_data') = 2
    <3>1. /\ UNCHANGED <<recv_state, status, ram, page>>
          /\ recv_data' = IF Len(recv_data) = 2 THEN recv_data ELSE Received(sb)
      BY <2>1, <2>6 DEF Collect
    <3>2. CASE Len(recv_data) = 2
      BY <3>1, <3>2
    <3>3. CASE Len(recv_data) = 1
      <4>1. Len(Received(sb)) = Len(recv_data) + 1
        BY <2>3
      <4> QED
        BY <3>1, <3>3, <4>1
    <3> QED
      BY <2>1, <3>2, <3>3
  <2>8. Answer = 0
    BY <2>1 DEF Answer
  <2>9. Told(0)'
    BY <1>2, <2>8 DEF Told
  <2>10. Deaf'
    BY <1>3, <1>8, <2>7, <2>9 DEF Deaf, Stands, Recalls, PacketBytes, Null
  <2> QED
    BY <2>10 DEF Understood
<1>9. CASE \E command, data : Contents(command, data) /\ Talk(command, data)
  <2>1. PICK command, data : Contents(command, data) /\ Talk(command, data)
    BY <1>9
  <2> DEFINE n == Len(sent)
  <2>2. /\ sent \o line = PacketBytes(command, data)
        /\ Len(PacketBytes(command, data)) = 10 + Len(data) /\ Len(data) \in Nat
    BY <2>1, ContentsFacts, PacketFacts DEF Talk
  <2>3. Len(sent) + Len(line) = 10 + Len(data)
    BY <1>4, <2>2, ConcatProperties
  <2>4. n \in 0 .. 9 + Len(data)
    BY <1>4, <2>2, <2>3
  <2>5. sb = PacketBytes(command, data)[n + 1]
    <3>1. (sent \o line)[Len(sent) + 1] = Head(line)
      BY <1>2, <1>4, Passing
    <3> QED
      BY <1>2, <2>2, <3>1
  <2>6. Delivers(n, command, data)
    BY <1>1, <1>2, <1>3, <1>4, <1>5, <2>1, <2>5 DEF Delivers, Talk
  <2>7. Heard(n + 1, command, data)' /\ Answer = AnswerTo(n + 1, command, data)
    <3>1. Hears(n, command, data)
      BY <2>4, <2>6, HearsNext
    <3> QED
      BY <3>1 DEF Hears
  <2> HIDE DEF n
  <2>8. n' = n /\ Delivered' = n + 1
    BY <1>3, <1>5 DEF n
  <2>9. Heard(Delivered, command, data)'
    BY <2>7, <2>8 DEF Heard
  <2>10. /\ AnswerTo(Delivered, command, data)' = AnswerTo(n + 1, command, data)
         /\ AnswerTo(Len(sent), command, data)' = AnswerTo(Len(sent), command, data)
    BY <1>3, <2>8 DEF AnswerTo, Job!Obeyed, Job!Woken
  <2>11. Told(AnswerTo(Delivered, command, data))'
    BY <1>2, <2>7, <2>10 DEF Told
  <2>12. (sent # << >> => Recalls(AnswerTo(Len(sent), command, data)))'
    BY <1>3, <2>1, <2>10 DEF Talk, Recalls
  <2>13. Talk(command, data)'
    BY <1>3, <2>1, <2>9, <2>11, <2>12 DEF Talk
  <2>14. Contents(command, data)'
    BY <2>1 DEF Contents
  <2> QED
    BY <2>13, <2>14 DEF Understood
<1> QED
    BY <1>6, <1>7, <1>8, <1>9 DEF Understood

\* The job is what the program knows, field by field.
LEMMA SameJob ==
    ASSUME NEW j \in Jobs, NEW k \in Jobs, j.status = k.status, j.ram = k.ram,
           j.page = k.page, j.answer = k.answer, j.lost = k.lost
    PROVE  j = k
    BY DEF Jobs

\* What the interrupt leaves of a packet.
InterruptedPacket ==
    /\ ~panicked' /\ line' = Tail(line) /\ sent' = Append(sent, Head(line))
    /\ sent' \o line' = sent \o line /\ sent' # << >>
    /\ Delivered = Len(sent) + 1 /\ Delivered' = Delivered /\ Len(sent') = Delivered
    /\ shift_counter' = 0 /\ ~requested'
    /\ UNCHANGED <<recv_state, recv_data, recv_data_length, status, ram, page>>
    /\ answer' # << >> /\ answer'[Len(answer')] = sb
    /\ answer # << >> => answer' = <<answer[Len(answer)], sb>>

\* What the handler of the interrupt does.
LEMMA InterruptFacts ==
    ASSUME LinkTypeOK, Turns, Interrupt
    PROVE  InterruptedPacket
<1>1. ProgramTypeOK /\ PortTypeOK
    BY LinkTypes
<1>2. requested /\ waiting /\ shift_counter = 0 /\ ~panicked /\ line # << >>
    BY <1>1, Zenon DEF Interrupt, Turns
<1>3. /\ line' = Tail(line) /\ sent' = Append(sent, Head(line))
      /\ requested' = FALSE /\ shift_counter' = 0 /\ panicked' = panicked
      /\ UNCHANGED <<recv_state, recv_data, recv_data_length, status, ram, page>>
    BY <1>2 DEF Interrupt, port_vars, printer_vars
<1>4. /\ sent' \o line' = sent \o line /\ sent' # << >> /\ Len(sent') = Len(sent) + 1
    BY <1>1, <1>2, <1>3, Passing DEF ProgramTypeOK
<1>5. Delivered = Len(sent) + 1
    BY <1>2 DEF Delivered
<1>6. Delivered' = Len(sent')
  <2>1. Len(sent') \in Nat
    BY <1>1, <1>4 DEF ProgramTypeOK
  <2> QED
    BY <1>3, <2>1 DEF Delivered
<1>7. /\ answer' # << >> /\ answer'[Len(answer')] = sb
      /\ answer # << >> => answer' = <<answer[Len(answer)], sb>>
  <2>1. CASE answer = << >>
    <3>1. answer' = <<sb>>
      BY <2>1 DEF Interrupt
    <3> QED
      BY <2>1, <3>1
  <2>2. CASE answer # << >>
    <3>1. answer' = <<answer[Len(answer)], sb>>
      BY <2>2 DEF Interrupt
    <3> QED
      BY <2>2, <3>1
  <2> QED
    BY <2>1, <2>2
<1> QED
  <2>1. ~panicked' /\ ~requested'
    BY <1>2, <1>3
  <2> QED
    BY <1>3, <1>4, <1>5, <1>6, <1>7, <2>1 DEF InterruptedPacket

\* The interrupt of a byte between two packets.
LEMMA InterruptStray ==
    ASSUME LinkTypeOK, Turns, Interrupt, Stray
    PROVE  Understood' /\ [Job!JobNext]_job
<1>1. ProgramTypeOK /\ InterruptedPacket
    BY LinkTypes, InterruptFacts
<1>2. job' = [job EXCEPT !.lost = TRUE]
    BY DEF Interrupt, Stray
<1>3. line' = << >> /\ Len(sent') = 1
  <2>1. Len(line) = 1 /\ line # << >> /\ sent = << >>
    BY DEF Stray
  <2>2. Tail(line) = << >>
    BY <1>1, <2>1, Passing DEF ProgramTypeOK
  <2> QED
    BY <1>1, <2>1, <2>2 DEF InterruptedPacket
<1>4. Len(recv_data') = 1
  <2>1. Delivered # 0
    BY <1>1 DEF InterruptedPacket, ProgramTypeOK
  <2> QED
    BY <1>1, <2>1 DEF Stray, InterruptedPacket
<1>5. job'.lost /\ Stands(job)'
    BY <1>1, <1>2 DEF InterruptedPacket, Stray, Stands, ProgramTypeOK, Jobs
<1>6. Rest'
    BY <1>1, <1>3, <1>4, <1>5 DEF Rest, Stray, InterruptedPacket
<1>7. Job!JobNext
    BY <1>2 DEF Job!JobNext, Job!Stray
<1> QED
    BY <1>6, <1>7 DEF Understood

\* The interrupt of a byte of a packet, as far as the job goes.
LEMMA InterruptJob ==
    ASSUME Interrupt, sent # << >> \/ Len(line) > 1
    PROVE  job' = IF Len(line) > 1 THEN job
                  ELSE [status |-> status, ram |-> ram, page |-> page, answer |-> answer',
                        lost |-> job.lost]
    BY DEF Interrupt

\* The interrupt of a byte of a packet to a printer that lost its place.
LEMMA InterruptDeaf ==
    ASSUME LinkTypeOK, Turns, Interrupt, Deaf
    PROVE  Understood' /\ [Job!JobNext]_job
<1>1. ProgramTypeOK /\ InterruptedPacket
    BY LinkTypes, InterruptFacts
<1>2. sb = 0
    BY DEF Deaf, Told, Interrupt
<1>3. Len(sent) + Len(line) = 10 /\ line # << >>
  <2>1. Len(PacketBytes(Null, << >>)) = 10
    BY DEF PacketBytes
  <2>2. sent \o line = PacketBytes(Null, << >>) /\ line # << >>
    BY DEF Deaf
  <2>3. Len(sent \o line) = Len(sent) + Len(line)
    BY <1>1, ConcatProperties DEF ProgramTypeOK
  <2> QED
    BY <2>1, <2>2, <2>3
<1>4. Len(recv_data) = 2
    BY <1>1 DEF Deaf, InterruptedPacket, ProgramTypeOK
<1>5. Len(line) \in Nat \ {0} /\ Len(sent) \in Nat
    BY <1>1, <1>3, EmptySeq DEF ProgramTypeOK
<1>6. sent # << >> \/ Len(line) > 1
    BY <1>3
<1>7. CASE Len(line) > 1
  <2>1. job' = job
    BY <1>6, <1>7, InterruptJob
  <2>2. line' # << >>
    <3>1. line' = Tail(line) /\ line \in Seq(Bytes) /\ sent \in Seq(Bytes) /\ line # << >>
      BY <1>1, <1>3 DEF InterruptedPacket, ProgramTypeOK
    <3>2. Tail(line) = << >> <=> Len(line) = 1
      BY <3>1, Passing
    <3> QED
      BY <1>7, <3>1, <3>2
  <2>3. Told(0)' /\ Recalls(0)'
    BY <1>1, <1>2 DEF Told, Recalls, InterruptedPacket
  <2>4. Deaf'
    BY <1>1, <1>4, <2>1, <2>2, <2>3 DEF Deaf, InterruptedPacket, Stands, PacketBytes, Null
  <2> QED
    BY <2>1, <2>4 DEF Understood
<1>8. CASE Len(line) = 1
  <2>1. sent # << >> /\ Len(sent') = 10
    BY <1>1, <1>3, <1>5, <1>8 DEF InterruptedPacket
  <2>2. answer' = <<0, 0>>
    BY <1>1, <1>2, <2>1 DEF Deaf, Recalls, InterruptedPacket
  <2>3. job' = [status |-> status, ram |-> ram, page |-> page, answer |-> answer',
                lost |-> job.lost]
    BY <1>6, <1>8, InterruptJob
  <2>4. line' = << >>
    BY <1>1, <1>3, <1>8, Passing DEF InterruptedPacket, ProgramTypeOK
  <2>5. Rest'
    BY <1>1, <1>4, <2>1, <2>3, <2>4 DEF Deaf, Rest, InterruptedPacket, Stands
  <2>6. job' = [job EXCEPT !.answer = <<0, 0>>]
    <3> DEFINE k == [job EXCEPT !.answer = <<0, 0>>]
    <3>1. job \in Jobs /\ Stands(job) /\ job.lost
      BY <1>1 DEF Deaf, ProgramTypeOK
    <3>2. <<0, 0>> \in Seq(Bytes)
      <4>1. 0 \in Bytes
        BY DEF Bytes, MaxByte
      <4> QED
        BY <4>1
    <3>3. k \in Jobs /\ k.status = job.status /\ k.ram = job.ram /\ k.page = job.page
          /\ k.answer = <<0, 0>> /\ k.lost = job.lost
      BY <3>1, <3>2 DEF Jobs
    <3>4. job' \in Jobs
      BY ProgramTurns, LinkTypesNext DEF ProgramTypeOK
    <3> HIDE DEF k
    <3>5. job' = k
      BY <2>2, <2>3, <3>1, <3>3, <3>4, SameJob DEF Stands
    <3> QED
      BY <3>5 DEF k
  <2>7. Job!JobNext
    <3>1. Job!Packet(Job!Null, << >>)
      BY <2>6 DEF Job!Packet, Deaf
    <3> QED
      BY <3>1 DEF Job!JobNext
  <2> QED
    BY <2>5, <2>7 DEF Understood
<1>9. Len(line) > 1 \/ Len(line) = 1
    BY <1>5
<1> QED
    BY <1>7, <1>8, <1>9, Zenon

\* The interrupt of a byte of a packet to a printer that listens.
LEMMA InterruptTalk ==
    ASSUME LinkTypeOK, Turns, Interrupt,
           NEW command, NEW data, Contents(command, data), Talk(command, data)
    PROVE  Understood' /\ [Job!JobNext]_job
<1> DEFINE n == Delivered
<1> DEFINE l == Len(data)
<1> DEFINE o == Job!Obeyed(command, data)
<1>1. ProgramTypeOK /\ InterruptedPacket
    BY LinkTypes, InterruptFacts
<1>2. /\ l \in Nat /\ command \in {Null, Clear, PrintPage, Fill} /\ command \in Bytes
      /\ data \in Seq(Bytes) /\ l \in Words
    BY ContentsFacts
<1>3. /\ sent \o line = PacketBytes(command, data) /\ line # << >> /\ ~job.lost
      /\ Heard(n, command, data) /\ requested
    BY DEF Talk, Interrupt
<1>4. Len(sent) + Len(line) = 10 + l
  <2>1. Len(PacketBytes(command, data)) = 10 + l
    BY <1>2, PacketFacts
  <2> QED
    BY <1>1, <1>3, <2>1, ConcatProperties DEF ProgramTypeOK
<1>5. Len(line) \in Nat \ {0} /\ Len(sent) \in Nat /\ n = Len(sent) + 1
    BY <1>1, <1>3, EmptySeq DEF ProgramTypeOK, InterruptedPacket
<1>6. sent # << >> \/ Len(line) > 1
    BY <1>2, <1>4, <1>5
<1>7. sb = AnswerTo(n, command, data)
    BY <1>3 DEF Talk, Told
<1>8. CASE Len(line) > 1
  <2>1. job' = job
    BY <1>6, <1>8, InterruptJob
  <2>2. line' # << >>
    <3>1. line' = Tail(line) /\ line \in Seq(Bytes) /\ sent \in Seq(Bytes) /\ line # << >>
      BY <1>1, <1>3 DEF InterruptedPacket, ProgramTypeOK
    <3>2. Tail(line) = << >> <=> Len(line) = 1
      BY <3>1, Passing
    <3> QED
      BY <1>8, <3>1, <3>2
  <2>3. /\ AnswerTo(Delivered, command, data)' = AnswerTo(n, command, data)
        /\ AnswerTo(Len(sent), command, data)' = AnswerTo(n, command, data)
    BY <1>1, <2>1 DEF AnswerTo, Job!Obeyed, Job!Woken, InterruptedPacket
  <2>4. Told(AnswerTo(Delivered, command, data))'
    BY <1>1 DEF Told, InterruptedPacket
  <2>5. Recalls(AnswerTo(Len(sent), command, data))'
    BY <1>1, <1>7, <2>3 DEF Recalls, InterruptedPacket
  <2>6. Heard(Delivered, command, data)'
    <3>1. Effect(Delivered, command, data)' = Effect(n, command, data)
      BY <1>1, <2>1 DEF Effect, Job!Obeyed, Job!Woken, InterruptedPacket
    <3> QED
      BY <1>1, <1>3, <3>1 DEF Heard, Stands, InterruptedPacket
  <2>7. Talk(command, data)'
    BY <1>1, <1>3, <2>1, <2>2, <2>4, <2>5, <2>6 DEF Talk, InterruptedPacket
  <2>8. Contents(command, data)'
    BY DEF Contents
  <2> QED
    BY <2>1, <2>7, <2>8 DEF Understood
<1>9. CASE Len(line) = 1
  <2>1. sent # << >> /\ Len(sent') = 10 + l /\ Len(sent) = 9 + l /\ n = 10 + l
    BY <1>1, <1>2, <1>4, <1>5, <1>9 DEF InterruptedPacket
  <2>2. job' = [status |-> status, ram |-> ram, page |-> page, answer |-> answer',
                lost |-> job.lost]
    BY <1>6, <1>9, InterruptJob
  <2>3. line' = << >>
    BY <1>1, <1>3, <1>9, Passing DEF InterruptedPacket, ProgramTypeOK
  <2>4. recv_state = "Magic" /\ recv_data = << >>
    BY <1>2, <1>3, <2>1 DEF Heard, ExpectedAfter, Collected
  <2>5. Rest'
    BY <1>1, <1>2, <1>3, <2>1, <2>2, <2>3, <2>4 DEF Rest, InterruptedPacket, Stands
  <2>6. job \in Jobs
    BY <1>1 DEF ProgramTypeOK
  <2>7. status = o.status /\ ram = o.ram /\ page = o.page
    <3>1. Effect(n, command, data) = o
      <4>1. n \in Nat /\ n >= 3 /\ n >= 6 + l
        BY <1>2, <1>5, <2>1
      <4> QED
        BY <2>6, <4>1, EffectFacts
    <3> QED
      BY <1>3, <3>1 DEF Heard, Stands
  <2>8. o \in Jobs /\ o.answer = job.answer /\ o.lost = job.lost
    BY <1>2, <2>6, ObeyedFacts
  <2>9. answer' = <<129, o.status>>
    <3>1. AnswerTo(9 + l, command, data) = 129 /\ AnswerTo(10 + l, command, data) = o.status
      BY <1>2 DEF AnswerTo
    <3>2. answer # << >> /\ answer[Len(answer)] = 129
      BY <2>1, <3>1 DEF Talk, Recalls
    <3>3. sb = o.status
      BY <1>7, <2>1, <3>1
    <3> QED
      BY <1>1, <3>2, <3>3 DEF InterruptedPacket
  <2>10. job' \in Jobs
    BY ProgramTurns, LinkTypesNext DEF ProgramTypeOK
  <2>11. job' = Job!Answered(o)
    <3> DEFINE k == [o EXCEPT !.answer = <<129, o.status>>]
    <3>1. k = Job!Answered(o)
      BY DEF Job!Answered
    <3> HIDE DEF o
    <3>2. <<129, o.status>> \in Seq(Bytes)
      BY <2>2, <2>9, <2>10 DEF Jobs
    <3>3. k \in Jobs /\ k.status = o.status /\ k.ram = o.ram /\ k.page = o.page
          /\ k.answer = <<129, o.status>> /\ k.lost = o.lost
      BY <2>8, <3>2 DEF Jobs
    <3> HIDE DEF k
    <3>4. job' = k
      BY <2>2, <2>7, <2>8, <2>9, <2>10, <3>3, SameJob
    <3> QED
      BY <3>1, <3>4
  <2>12. Job!Packet(command, data)
    BY <1>3, <2>11 DEF Job!Packet
  <2>13. Job!JobNext
    <3>1. CASE command \in {Null, Clear}
      <4>1. data = << >>
        BY <3>1, ContentsFacts
      <4> QED
        BY <2>12, <3>1, <4>1 DEF Job!JobNext, Job!Null, Job!Clear, Null, Clear
    <3>2. CASE command = PrintPage
      <4>1. Job!Obeyed(command, << >>) = o
        BY <3>2 DEF Job!Obeyed, Job!Null, Job!Clear, Job!PrintPage, Job!Fill, PrintPage
      <4>2. Job!Packet(command, << >>)
        BY <1>3, <2>11, <4>1 DEF Job!Packet
      <4> QED
        BY <3>2, <4>2 DEF Job!JobNext, Job!PrintPage, PrintPage
    <3>3. CASE command = Fill
      <4>1. data \in Fills
        BY <3>3 DEF Contents, Null, Clear, PrintPage, Fill
      <4> QED
        BY <2>12, <3>3, <4>1 DEF Job!JobNext, Job!Fill, Fill
    <3> QED
      BY <1>2, <3>1, <3>2, <3>3
  <2> QED
    BY <2>5, <2>13 DEF Understood
<1>10. Len(line) > 1 \/ Len(line) = 1
  <2>1. Len(line) \in Nat \ {0}
    BY <1>5
  <2> HIDE DEF n, l, o
  <2> QED
    BY <2>1
<1> QED
    BY <1>8, <1>9, <1>10, Zenon

\* The program begins a packet, or a byte between two packets.
LEMMA BeginUnderstood ==
    ASSUME LinkTypeOK, Turns, Understood, BeginPacket
    PROVE  Understood'
<1>1. PrinterTypeOK /\ PortTypeOK /\ ProgramTypeOK
    BY LinkTypes
<1>2. /\ line = << >> /\ sent' = << >> /\ line' # << >> /\ line' \in Seq(Bytes)
      /\ UNCHANGED <<waiting, answer, job, requested, shift_counter, incoming, sb>>
      /\ UNCHANGED <<recv_state, recv_data, recv_data_length, status, ram, page, panicked>>
    BY BeginFacts, BeginType DEF port_vars, printer_vars
<1>3. ~waiting /\ ~requested /\ shift_counter = 0
    BY <1>2, Zenon DEF Turns
<1>4. Rest
  <2>1. ~Stray
    BY <1>2 DEF Stray
  <2>2. ~Deaf
    BY <1>2 DEF Deaf
  <2>3. ~\E command, data : Contents(command, data) /\ Talk(command, data)
    BY <1>2 DEF Talk
  <2> QED
    BY <2>1, <2>2, <2>3 DEF Understood
<1>5. Delivered' = 0 /\ \A a : Told(a)'
    BY <1>2, <1>3 DEF Delivered, Told
<1>6. sent' \o line' = line'
    BY <1>2, ConcatEmptySeq
<1>7. ASSUME job.lost, line' = PacketBytes(Null, << >>)
      PROVE  Deaf'
  <2>1. Len(recv_data) \in 1 .. 2
    BY <1>4, <1>7 DEF Rest
  <2>2. Len(recv_data) = 2 \/ Len(recv_data) = 1
    BY <2>1
  <2> QED
    BY <1>2, <1>4, <1>5, <1>6, <1>7, <2>2 DEF Rest, Deaf, Stands, PacketBytes, Null
<1>8. ASSUME ~job.lost, NEW command, NEW data, Contents(command, data),
             line' = PacketBytes(command, data)
      PROVE  Talk(command, data)'
  <2>1. Len(data) \in Nat
    BY <1>8, ContentsFacts
  <2>2. /\ ExpectedAfter(0, Len(data)) = "Magic" /\ Collected(0, data) = << >>
        /\ Effect(0, command, data) = job
    BY <2>1 DEF ExpectedAfter, Collected, Effect
  <2>3. Heard(0, command, data)'
    BY <1>2, <1>4, <1>8, <2>2, HeardNext DEF Rest, Stands
  <2>4. Heard(Delivered, command, data)'
    BY <1>5, <2>3 DEF Heard
  <2>5. Told(AnswerTo(Delivered, command, data))'
    BY <1>5 DEF Told
  <2> QED
    BY <1>2, <1>6, <1>8, <2>4, <2>5 DEF Talk
<1>9. ASSUME ~job.lost, NEW byte \in Strays, line' = <<byte>>
      PROVE  Stray'
    BY <1>2, <1>4, <1>5, <1>9 DEF Rest, Stray, Stands
<1>10. CASE job.lost /\ line' = PacketBytes(Null, << >>)
    BY <1>7, <1>10 DEF Understood
<1>11. CASE /\ ~job.lost
            /\ \E command, data : Contents(command, data) /\ line' = PacketBytes(command, data)
  <2>1. PICK command, data : Contents(command, data) /\ line' = PacketBytes(command, data)
    BY <1>11
  <2>2. Talk(command, data)' /\ Contents(command, data)'
    BY <1>8, <1>11, <2>1 DEF Contents
  <2> QED
    BY <2>2 DEF Understood
<1>12. CASE ~job.lost /\ \E byte \in Strays : line' = <<byte>>
    BY <1>9, <1>12 DEF Understood
<1> QED
    BY <1>10, <1>11, <1>12, BeginFacts

\* A clock of the port.
LEMMA ClockUnderstood ==
    ASSUME LinkTypeOK, Turns, Understood, clock_serial
    PROVE  panicked' \/ Understood'
<1>1. CASE shift_counter = 0
    BY <1>1, ExchangeUnderstood
<1>2. CASE shift_counter \in 1 .. 7
  <2>1. /\ ~requested /\ shift_counter' = shift_counter + 1
        /\ UNCHANGED <<incoming, requested, printer_vars, line, sent, answer, job>>
    BY <1>2, ShiftStep DEF program_vars
  <2>2. shift_counter > 0 /\ shift_counter' > 0
    BY <1>2, <2>1
  <2>3. Delivered' = Delivered
    BY <2>1, <2>2 DEF Delivered
  <2> QED
    BY <2>1, <2>2, <2>3, Steady
<1>3. CASE shift_counter = 8
  <2>1. /\ ~requested /\ sb = incoming /\ shift_counter' = 0 /\ requested'
        /\ UNCHANGED <<sb, printer_vars, line, sent, answer, job>>
    BY <1>3, FinishFacts DEF program_vars
  <2>2. Delivered' = Delivered
    BY <1>3, <2>1 DEF Delivered
  <2> QED
    BY <1>3, <2>1, <2>2, Steady
<1> QED
    BY <1>1, <1>2, <1>3, ClockCases

\* A step of the program between the beginning of a packet and an interrupt.
LEMMA ProgramUnderstood ==
    ASSUME LinkTypeOK, Turns, Understood, StartTransfer \/ Pause \/ Resume
    PROVE  Understood'
<1>1. CASE StartTransfer
  <2>1. ~requested
    BY <1>1, Zenon DEF StartTransfer, Turns
  <2>2. UNCHANGED <<shift_counter, incoming, requested, printer_vars, line, sent, answer, job>>
    BY <1>1 DEF StartTransfer, write_sc
  <2>3. Delivered' = Delivered
    BY <2>2 DEF Delivered
  <2> QED
    BY <2>1, <2>2, <2>3, Steady
<1>2. CASE Pause \/ Resume
  <2>1. /\ UNCHANGED <<sb, shift_counter, incoming, requested>>
        /\ UNCHANGED <<printer_vars, line, sent, answer, job>>
    BY <1>2 DEF Pause, Resume, write_sc, program_vars
  <2>2. Delivered' = Delivered
    BY <2>1 DEF Delivered
  <2> QED
    BY <2>1, <2>2, Steady
<1> QED
    BY <1>1, <1>2

\* An interrupt.
LEMMA InterruptUnderstood ==
    ASSUME LinkTypeOK, Turns, Understood, Interrupt
    PROVE  Understood' /\ [Job!JobNext]_job
<1>1. CASE Rest
  <2>1. waiting
    BY Zenon DEF Interrupt, Turns
  <2> QED
    BY <1>1, <2>1 DEF Rest, Turns
<1>2. CASE Stray
    BY <1>2, InterruptStray
<1>3. CASE Deaf
    BY <1>3, InterruptDeaf
<1>4. CASE \E command, data : Contents(command, data) /\ Talk(command, data)
    BY <1>4, InterruptTalk
<1> QED
    BY <1>1, <1>2, <1>3, <1>4 DEF Understood

\* The invariant holds when the console is switched on.
LEMMA SerialInitInv == SerialInit => LinkInv
<1> SUFFICES ASSUME SerialInit PROVE LinkInv
    OBVIOUS
<1>1. 0 \in Bytes /\ 0 \in Words /\ 0 \in 0 .. 8 /\ << >> \in Seq(Bytes)
    BY InWords DEF Bytes, MaxByte
<1>2. job = [status |-> 0, ram |-> << >>, page |-> << >>, answer |-> << >>, lost |-> FALSE]
    BY DEF SerialInit, Job!NewJob, Job!Idle
<1>3. job \in Jobs
    BY <1>2 DEF Jobs, Statuses, Idle
<1>4. PrinterTypeOK /\ PortTypeOK /\ ProgramTypeOK
  <2>1. PrinterTypeOK
    BY <1>1, Zenon DEF SerialInit, PrinterInit, PrinterTypeOK, RecvStates
  <2>2. PortTypeOK
    BY <1>1, Zenon DEF SerialInit, PortTypeOK
  <2>3. ProgramTypeOK
    BY <1>1, <1>3, Zenon DEF SerialInit, ProgramTypeOK
  <2> QED
    BY <2>1, <2>2, <2>3
<1>5. Turns
    BY DEF SerialInit, PrinterInit, Turns
<1>6. Rest
    BY <1>2 DEF SerialInit, PrinterInit, Rest, Stands, Idle
<1> QED
    BY <1>4, <1>5, <1>6, LinkTypes DEF LinkInv, Understood

\* After a panic nothing changes but the pauses of the program.
LEMMA PanicStays ==
    ASSUME LinkTypeOK, Turns, panicked, [SerialNext]_serial_vars
    PROVE  panicked' /\ job' = job
<1>1. waiting /\ ~requested /\ line # << >>
    BY Zenon DEF Turns
<1>2. ~clock_serial /\ ~BeginPacket /\ ~StartTransfer /\ ~Interrupt
    BY <1>1 DEF clock_serial, BeginPacket, StartTransfer, Interrupt
<1>3. Pause \/ Resume \/ UNCHANGED serial_vars
    BY <1>2 DEF SerialNext
<1>4. UNCHANGED <<panicked, job>>
    BY <1>3 DEF Pause, Resume, serial_vars, program_vars, printer_vars
<1> QED
    BY <1>4

\* Every step keeps the invariant, and is a packet of the job or none.
LEMMA SerialNextInv == LinkInv /\ [SerialNext]_serial_vars => LinkInv' /\ [Job!JobNext]_job
<1> SUFFICES ASSUME LinkInv, [SerialNext]_serial_vars
             PROVE  LinkInv' /\ [Job!JobNext]_job
    OBVIOUS
<1>1. LinkTypeOK /\ Turns /\ (panicked \/ Understood)
    BY DEF LinkInv
<1>2. LinkTypeOK' /\ Turns'
  <2>1. CASE clock_serial
    BY <1>1, <2>1, ClockTurns
  <2>2. CASE BeginPacket \/ StartTransfer \/ Pause \/ Resume \/ Interrupt
    BY <1>1, <2>2, ProgramTurns
  <2>3. CASE UNCHANGED serial_vars
    <3>1. PrinterTypeOK' /\ PortTypeOK' /\ ProgramTypeOK'
      BY <1>1, <2>3, LinkTypes
      DEF serial_vars, printer_vars, port_vars, program_vars, PrinterTypeOK, PortTypeOK,
          ProgramTypeOK
    <3>2. Turns'
      BY <1>1, <2>3 DEF serial_vars, printer_vars, port_vars, program_vars, Turns
    <3> QED
      BY <3>1, <3>2, LinkTypesNext
  <2> QED
    BY <2>1, <2>2, <2>3 DEF SerialNext
<1>3. CASE panicked
    BY <1>1, <1>2, <1>3, PanicStays DEF LinkInv
<1>4. CASE ~panicked
  <2>1. Understood
    BY <1>1, <1>4
  <2>2. CASE clock_serial
    <3>1. job' = job
      BY <2>2 DEF clock_serial, program_vars
    <3> QED
      BY <1>1, <1>2, <2>1, <2>2, <3>1, ClockUnderstood DEF LinkInv
  <2>3. CASE BeginPacket
    <3>1. job' = job
      BY <2>3 DEF BeginPacket
    <3> QED
      BY <1>1, <1>2, <2>1, <2>3, <3>1, BeginUnderstood DEF LinkInv
  <2>4. CASE StartTransfer \/ Pause \/ Resume
    <3>1. job' = job
      BY <2>4 DEF StartTransfer, Pause, Resume, program_vars
    <3> QED
      BY <1>1, <1>2, <2>1, <2>4, <3>1, ProgramUnderstood DEF LinkInv
  <2>5. CASE Interrupt
    BY <1>1, <1>2, <2>1, <2>5, InterruptUnderstood DEF LinkInv
  <2>6. CASE UNCHANGED serial_vars
    <3>1. /\ UNCHANGED <<sb, shift_counter, incoming, requested>>
          /\ UNCHANGED <<printer_vars, line, sent, answer, job>>
      BY <2>6 DEF serial_vars, port_vars, program_vars
    <3>2. Delivered' = Delivered
      BY <3>1 DEF Delivered
    <3> QED
      BY <1>2, <2>1, <3>1, <3>2, Steady DEF LinkInv
  <2> QED
    BY <2>2, <2>3, <2>4, <2>5, <2>6 DEF SerialNext
<1> QED
    BY <1>3, <1>4

\* The invariant.
LEMMA LinkInvariance == SerialSpec => []LinkInv
<1> QED
    BY SerialInitInv, SerialNextInv, PTL DEF SerialSpec

\* The port, the printer and the program stay within their types.
THEOREM SerialTypeCorrect == SerialSpec => []SerialTypeOK
<1>1. LinkInv => SerialTypeOK
    BY DEF LinkInv, LinkTypeOK
<1> QED
    BY <1>1, LinkInvariance, PTL

\* Whatever the program does to SC in the middle of a byte, the printer is at
\* the place of the packet the program is at.
THEOREM AlignedHolds == SerialSpec => []Aligned
<1>1. LinkInv => Aligned
  <2> SUFFICES ASSUME LinkInv, Len(sent) + Len(line) > 0, ~panicked
               PROVE  recv_state = IF job.lost \/ Len(sent) + Len(line) = 1 THEN "Magic"
                                   ELSE ExpectedAfter(Delivered, Len(sent) + Len(line) - 10)
    BY DEF Aligned
  <2>1. Understood /\ Turns /\ line \in Seq(Bytes) /\ sent \in Seq(Bytes)
    BY DEF LinkInv, LinkTypeOK
  <2>2. CASE Rest
    <3>1. ~requested /\ shift_counter = 0
      BY <2>1, <2>2, Zenon DEF Rest, Turns
    <3>2. Delivered = Len(sent) /\ Len(line) = 0 /\ Len(sent) \in Nat
      BY <2>1, <2>2, <3>1 DEF Rest, Delivered
    <3>3. Len(sent) >= 10 \/ (Len(sent) = 1 /\ job.lost)
      BY <2>2, <3>2 DEF Rest
    <3>4. recv_state = "Magic"
      BY <2>2 DEF Rest
    <3>5. Len(sent) >= 10 => ExpectedAfter(Delivered, Len(sent) + Len(line) - 10) = "Magic"
      BY <3>2 DEF ExpectedAfter
    <3> QED
      BY <3>2, <3>3, <3>4, <3>5
  <2>3. CASE Stray
    BY <2>3 DEF Stray
  <2>4. CASE Deaf
    BY <2>4 DEF Deaf
  <2>5. CASE \E command, data : Contents(command, data) /\ Talk(command, data)
    <3>1. PICK command, data : Contents(command, data) /\ Talk(command, data)
      BY <2>5
    <3>2. /\ sent \o line = PacketBytes(command, data) /\ ~job.lost
          /\ recv_state = ExpectedAfter(Delivered, Len(data))
      BY <3>1 DEF Talk, Heard
    <3>3. Len(PacketBytes(command, data)) = 10 + Len(data) /\ Len(data) \in Nat
      BY <3>1, ContentsFacts, PacketFacts
    <3>4. Len(sent \o line) = Len(sent) + Len(line)
      BY <2>1, ConcatProperties
    <3>5. Len(sent) + Len(line) = 10 + Len(data)
      BY <3>2, <3>3, <3>4
    <3>6. Len(sent) + Len(line) - 10 = Len(data) /\ Len(sent) + Len(line) # 1
      BY <3>3, <3>5
    <3> QED
      BY <3>2, <3>6
  <2> QED
    BY <2>1, <2>2, <2>3, <2>4, <2>5 DEF Understood
<1> QED
    BY <1>1, LinkInvariance, PTL

\* The port with the printer does, packet by packet, what PrinterJob promises.
THEOREM PrinterKeepsPromise == SerialSpec => JobSpec
<1>1. SerialInit => Job!JobInit
    BY DEF SerialInit, Job!JobInit
<1>2. SerialSpec => Job!JobInit /\ [][Job!JobNext]_job
    BY <1>1, LinkInvariance, SerialNextInv, PTL DEF SerialSpec
<1> QED
    BY <1>2 DEF JobSpec, Job!JobSpec
=============================================================================
