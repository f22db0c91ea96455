------------------------------- MODULE Sweep -------------------------------
(***************************************************************************)
(* The frequency sweep of channel 1 (apu/sweep.rs): every period it moves  *)
(* the frequency by a fraction of itself, and reports an overflow, which   *)
(* silences the channel, when that or the next frequency does not fit 11   *)
(* bits.  Channel1 composes it with the channel.                           *)
(* A definition Op_Fault is Op with a plausible mistake in it; nothing     *)
(* uses it.                                                                *)
(***************************************************************************)
EXTENDS Integers

CONSTANTS
    MaxFrequency,   \* 2047
    MaxPeriod,      \* 7
    MaxShift,       \* 7
    LowCodes        \* 256: what NR13 holds of the frequency

ASSUME SweepConstants ==
    /\ MaxFrequency \in Nat /\ MaxPeriod \in Nat /\ MaxShift \in Nat
    /\ MaxPeriod < 256   \* a period fits the timer
    /\ LowCodes \in Nat \ {0} /\ (MaxFrequency + 1) % LowCodes = 0

VARIABLES
    period_timer, sweep_enabled, negated_since_trigger,
    period, negate, shift,
    shadow_frequency, reg_frequency,
    checked   \* history: NR10 was not written since the last overflow check

regs == <<period, negate, shift>>
sweep_vars == <<period_timer, sweep_enabled, negated_since_trigger, regs,
                shadow_frequency, reg_frequency, checked>>

Frequencies == 0 .. MaxFrequency

SweepTypeOK ==
    /\ period_timer \in 0 .. MaxPeriod + 1
    /\ {sweep_enabled, negated_since_trigger, negate, checked} \subseteq BOOLEAN
    /\ period \in 0 .. MaxPeriod /\ shift \in 0 .. MaxShift
    /\ shadow_frequency \in Frequencies /\ reg_frequency \in Frequencies

SweepInit ==
    /\ period_timer = 0 /\ sweep_enabled = FALSE /\ negated_since_trigger = FALSE
    /\ period = 0 /\ negate = FALSE /\ shift = 0
    /\ shadow_frequency = 0 /\ reg_frequency = 0
    /\ checked = FALSE

\* A period of 0 counts as 8.
Reload(p) == IF p = 0 THEN MaxPeriod + 1 ELSE p

\* calc_frequency() of a frequency.
Swept(freq) == freq + (IF negate THEN -1 ELSE 1) * (freq \div 2 ^ shift)

Overflows(freq) == freq > MaxFrequency

\* The end of a period; one of 0 sweeps nothing.
Due == sweep_enabled /\ period_timer = 1 /\ period # 0

\* The frequency moves unless it would overflow or the shift is 0.
Moves == Due /\ shift # 0 /\ ~Overflows(Swept(shadow_frequency))

ClockOverflows_CheckedOnce == Due /\ Overflows(Swept(shadow_frequency))

\* What clock() returns: the frequency after the move is checked at once.
ClockOverflows ==
    /\ Due
    /\ \/ Overflows(Swept(shadow_frequency))
       \/ Moves /\ Overflows(Swept(Swept(shadow_frequency)))

\* The timer has 8 bits.
sweep_clock ==
    /\ period_timer' = IF ~sweep_enabled THEN period_timer
                       ELSE IF period_timer = 1 THEN Reload(period)
                       ELSE (period_timer - 1) % 256
    /\ negated_since_trigger' = (negated_since_trigger \/ (Due /\ negate))
    /\ shadow_frequency' = IF Moves THEN Swept(shadow_frequency) ELSE shadow_frequency
    /\ reg_frequency' = IF Moves THEN Swept(shadow_frequency) ELSE reg_frequency
    /\ checked' = (checked \/ Due)
    /\ UNCHANGED <<sweep_enabled, regs>>

write_nr10_regs(p, n, s) ==
    /\ period' = p /\ negate' = n /\ shift' = s
    /\ checked' = FALSE
    /\ UNCHANGED <<period_timer, sweep_enabled, negated_since_trigger, shadow_frequency, reg_frequency>>

\* NR13 and NR14 set the two parts of the frequency, not of its shadow.
set_frequency_lsb(lsb) ==
    /\ reg_frequency' = LowCodes * (reg_frequency \div LowCodes) + lsb
    /\ UNCHANGED <<period_timer, sweep_enabled, negated_since_trigger, regs, shadow_frequency, checked>>

WithMsb(msb) == LowCodes * msb + (reg_frequency % LowCodes)

set_frequency_msb(msb) ==
    /\ reg_frequency' = WithMsb(msb)
    /\ UNCHANGED <<period_timer, sweep_enabled, negated_since_trigger, regs, shadow_frequency, checked>>

TriggerOverflows(msb) == shift # 0 /\ Overflows(Swept(WithMsb(msb)))

\* set_frequency_msb() and trigger(), as a write to NR14 makes them.
sweep_trigger(msb) ==
    /\ reg_frequency' = WithMsb(msb) /\ shadow_frequency' = WithMsb(msb)
    /\ sweep_enabled' = (period # 0 \/ shift # 0)
    /\ period_timer' = Reload(period)
    /\ negated_since_trigger' = (negate /\ shift # 0)
    /\ checked' = (shift # 0)
    /\ UNCHANGED regs

sweep_shutdown ==
    /\ period_timer' = 0 /\ sweep_enabled' = FALSE /\ negated_since_trigger' = FALSE
    /\ period' = 0 /\ negate' = FALSE /\ shift' = 0
    /\ shadow_frequency' = 0 /\ reg_frequency' = 0
    /\ checked' = FALSE
=============================================================================
