---------------------------- MODULE VoiceProofs ----------------------------
(***************************************************************************)
(* For a counter of any length, any volumes, frequencies and widths: a     *)
(* channel of module Apu that plays can be silenced by its counter, its    *)
(* notes last the steps of the sequencer that they should, its sweep never *)
(* takes the frequency out of its range, and the timers of sweep and       *)
(* envelope never run through 0.  The first invariant is inductive         *)
(* together with the range of the count: every handler that leaves the     *)
(* counter on looks at the count it leaves.  The notes rest on a second    *)
(* one, that the counter's copy of the sequencer's step is that step.      *)
(* With the widths of the code, the noise never sticks, is as long as they *)
(* allow, and nothing leaves its range.                                    *)
(***************************************************************************)
EXTENDS Apu, WellFoundedInduction, TLAPS

USE LengthConstants

CountInv == count \in 0 .. InitialCount /\ PlayingHasClocks

-----------------------------------------------------------------------------
\* A clock takes at most one from the count (LengthCounter::clock()).
LEMMA ClockedRange == count \in 0 .. InitialCount => Clocked \in 0 .. InitialCount
  BY DEF Clocked, Decremented

\* What a write to NRx4 leaves is a count (LengthCounter::write_nrx4()).
LEMMA CountedRange ==
  ASSUME count \in 0 .. InitialCount, NEW trigger \in BOOLEAN, NEW enable \in BOOLEAN
  PROVE  Counted(trigger, enable) \in 0 .. InitialCount
<1>1. Decremented(count) \in 0 .. InitialCount
  BY DEF Decremented
<1>2. (InitialCount - 1) \in 0 .. InitialCount /\ InitialCount \in 0 .. InitialCount
  OBVIOUS
<1> QED
  BY <1>1, <1>2 DEF Counted

\* A step of the sequencer silences a channel whose count it spends.
LEMMA SequenceKeeps ==
  ASSUME CountInv, NEW silenced, sequence(silenced)
  PROVE  CountInv'
<1>1. Clocked \in 0 .. InitialCount
  BY ClockedRange DEF CountInv
<1>2. count' \in 0 .. InitialCount
  BY <1>1 DEF CountInv, sequence
<1>3. is_enabled' => is_enabled /\ ~(~Odd(frame_sequencer_step) /\ enabled /\ Clocked = 0)
  BY DEF sequence
<1>4. enabled' = enabled /\ audio_enabled' = audio_enabled /\ reg_dac_enable' = reg_dac_enable
  BY DEF sequence
<1>5. is_enabled' /\ enabled' => count' > 0
  <2> SUFFICES ASSUME is_enabled', enabled' PROVE count' > 0
    OBVIOUS
  <2>1. CASE Odd(frame_sequencer_step)
    BY <2>1, <1>3, <1>4 DEF CountInv, PlayingHasClocks, sequence
  <2>2. CASE ~Odd(frame_sequencer_step)
    <3>1. count' = Clocked
      BY <2>2 DEF sequence
    <3>2. Clocked # 0
      BY <2>2, <1>3, <1>4
    <3> QED
      BY <3>1, <3>2, <1>1
  <2> QED
    BY <2>1, <2>2
<1> QED
  BY <1>2, <1>3, <1>4, <1>5 DEF CountInv, PlayingHasClocks

\* The power switch resets the counter only together with the channel.
LEMMA PowerKeeps ==
  ASSUME CountInv, NEW on \in BOOLEAN, voice_nr52(on)
  PROVE  CountInv'
<1>1. CASE SwitchedOff(on)
  BY <1>1 DEF CountInv, PlayingHasClocks, voice_nr52, length_shutdown
<1>2. CASE ~SwitchedOff(on)
  BY <1>2 DEF CountInv, PlayingHasClocks, voice_nr52, SwitchedOff, channel_vars, counter_vars
<1> QED
  BY <1>1, <1>2

\* A new length is at least 1.
LEMMA LengthKeeps ==
  ASSUME CountInv, WriteLength
  PROVE  CountInv'
<1>1. PICK length \in 0 .. InitialCount - 1 : voice_nrx1(length)
  BY DEF WriteLength
<1>2. count' \in 1 .. InitialCount
  BY <1>1 DEF voice_nrx1, set_count
<1> QED
  BY <1>1, <1>2 DEF CountInv, PlayingHasClocks, voice_nrx1, set_count, apu_vars, channel_vars

\* A write to NRx2 keeps the count: it can only stop the channel.
LEMMA DacKeeps ==
  ASSUME CountInv, NEW dac \in BOOLEAN, voice_nrx2(dac)
  PROVE  CountInv'
  BY DEF CountInv, PlayingHasClocks, voice_nrx2, apu_vars, counter_vars

\* A write to NRx4 that leaves the counter on and spent silences the channel
\* and does not trigger it.
LEMMA ControlKeeps ==
  ASSUME CountInv, NEW trigger \in BOOLEAN, NEW enable \in BOOLEAN, NEW overflow,
         voice_nrx4(trigger, enable, overflow)
  PROVE  CountInv'
<1>1. Counted(trigger, enable) \in 0 .. InitialCount
  BY CountedRange DEF CountInv
<1>2. count' = Counted(trigger, enable) /\ enabled' = enable
  BY DEF voice_nrx4, write_nrx4
<1>3. audio_enabled /\ audio_enabled' = audio_enabled /\ reg_dac_enable' = reg_dac_enable
  BY DEF voice_nrx4, apu_vars
<1>4. is_enabled' => ~(enable /\ Counted(trigger, enable) = 0)
  BY DEF voice_nrx4, Triggers
<1>5. is_enabled' => reg_dac_enable
  BY DEF voice_nrx4, CountInv, PlayingHasClocks
<1> QED
  BY <1>1, <1>2, <1>3, <1>4, <1>5 DEF CountInv, PlayingHasClocks

\* A step that leaves the channel alone.
LEMMA IdleKeeps ==
  ASSUME CountInv, UNCHANGED voice_vars
  PROVE  CountInv'
  BY DEF CountInv, PlayingHasClocks, voice_vars, apu_vars, channel_vars, counter_vars

-----------------------------------------------------------------------------
\* Every step of channel 1 keeps the count.
LEMMA Channel1Keeps ==
  ASSUME CountInv, Channel1Next
  PROVE  CountInv'
<1>1. CASE sequence_sweep
  BY <1>1, SequenceKeeps DEF sequence_sweep
<1>2. ASSUME NEW p, NEW n, NEW s, write_nr10(p, n, s)
      PROVE  CountInv'
  BY <1>2 DEF CountInv, PlayingHasClocks, write_nr10, apu_vars, counter_vars
<1>3. ASSUME NEW lsb, write_nr13(lsb)
      PROVE  CountInv'
  BY <1>3, IdleKeeps DEF write_nr13
<1>4. CASE WriteSweep
  BY <1>4, <1>2, <1>3 DEF WriteSweep
<1>5. CASE WriteNr14
  BY <1>5, ControlKeeps DEF WriteNr14, write_nr14
<1>6. CASE PowerSweep
  BY <1>6, PowerKeeps DEF PowerSweep, power_sweep
<1>7. CASE WriteRest
  BY <1>7, LengthKeeps, DacKeeps DEF WriteRest
<1> QED
  BY <1>1, <1>4, <1>5, <1>6, <1>7 DEF Channel1Next

\* Every step of channel 2 keeps the count.
LEMMA Channel2Keeps ==
  ASSUME CountInv, Channel2Next
  PROVE  CountInv'
<1>1. CASE sequence_envelope
  BY <1>1, SequenceKeeps DEF sequence_envelope
<1>2. CASE WriteEnvelope
  <2>1. PICK v \in Volumes, add \in BOOLEAN : voice_nrx2(v # 0 \/ add)
    BY <1>2 DEF WriteEnvelope, write_nr22
  <2>2. (v # 0 \/ add) \in BOOLEAN
    OBVIOUS
  <2> QED
    BY <2>1, <2>2, DacKeeps
<1>3. CASE WriteNr24
  BY <1>3, ControlKeeps DEF WriteNr24, write_nr24
<1>4. CASE PowerEnvelope
  BY <1>4, PowerKeeps DEF PowerEnvelope, power_envelope
<1>5. CASE WriteLength
  BY <1>5, LengthKeeps
<1> QED
  BY <1>1, <1>2, <1>3, <1>4, <1>5 DEF Channel2Next

-----------------------------------------------------------------------------
\* The invariant of the count holds in every state.
LEMMA CountInvariance == Spec => []CountInv
<1>1. Init => CountInv
  BY DEF Init, Channel1Init, Channel2Init, VoiceInit, LengthInit, CountInv, PlayingHasClocks
<1>2. CountInv /\ [Next]_vars => CountInv'
  <2> SUFFICES ASSUME CountInv, [Next]_vars PROVE CountInv'
    OBVIOUS
  <2>1. CASE Channel1Next
    BY <2>1, Channel1Keeps
  <2>2. CASE Channel2Next
    BY <2>2, Channel2Keeps
  <2>3. CASE UNCHANGED voice_vars
    BY <2>3, IdleKeeps
  <2>4. CASE UNCHANGED vars
    BY <2>4, IdleKeeps DEF vars
  <2> QED
    BY <2>1, <2>2, <2>3, <2>4 DEF Next
<1> QED
  BY <1>1, <1>2, PTL DEF Spec

\* A channel that plays against its counter has clocks left and its sound and
\* DAC on, for a counter of any length (write_nrx4() and its callers).
THEOREM PlayingCorrect == Spec => []PlayingHasClocks
<1>1. CountInv => PlayingHasClocks
  BY DEF CountInv
<1> QED
  BY <1>1, CountInvariance, PTL

-----------------------------------------------------------------------------
\* What SweepSafe needs to be inductive: the period that the timer is loaded
\* with, and that no other channel touches the sweep.
SweepInv ==
  /\ period \in 0 .. MaxPeriod
  /\ SweepSafe
  /\ part # "Channel1" => ~checked /\ ~sweep_enabled

\* What the sweep's timer is loaded with is never 0.
LEMMA ReloadRange ==
  ASSUME NEW p \in 0 .. MaxPeriod PROVE Reload(p) \in 1 .. MaxPeriod + 1
  BY SweepConstants DEF Reload

\* clock() of the sweep looks at the frequency it moves to, and silences the
\* channel (the argument of sequence()) when the step after that overflows.
LEMMA SweepClockKeeps ==
  ASSUME SweepInv, UNCHANGED part, sweep_clock, is_enabled' => is_enabled /\ ~ClockOverflows
  PROVE  SweepInv'
<1>1. UNCHANGED <<period, negate, shift, sweep_enabled>>
  BY DEF sweep_clock, regs
<1>2. sweep_enabled => period_timer' \in 1 .. MaxPeriod + 1
  <2> SUFFICES ASSUME sweep_enabled PROVE period_timer' \in 1 .. MaxPeriod + 1
    OBVIOUS
  <2>1. period_timer \in 1 .. MaxPeriod + 1
    BY DEF SweepInv, SweepSafe
  <2>2. CASE period_timer = 1
    BY <2>2, ReloadRange DEF sweep_clock, SweepInv
  <2>3. CASE period_timer # 1
    <3>1. period_timer' = (period_timer - 1) % 256
      BY <2>3 DEF sweep_clock
    <3>2. (period_timer - 1) \in 1 .. MaxPeriod /\ period_timer - 1 < 256
      BY <2>1, <2>3, SweepConstants
    <3> QED
      BY <3>1, <3>2, SweepConstants
  <2> QED
    BY <2>2, <2>3
<1>3. checked' /\ is_enabled' => ~Overflows(Swept(shadow_frequency))'
  <2> SUFFICES ASSUME checked', is_enabled' PROVE ~Overflows(Swept(shadow_frequency))'
    OBVIOUS
  <2>1. is_enabled /\ ~ClockOverflows
    OBVIOUS
  <2>2. CASE Moves
    <3>1. shadow_frequency' = Swept(shadow_frequency)
      BY <2>2 DEF sweep_clock
    <3>2. ~Overflows(Swept(Swept(shadow_frequency)))
      BY <2>1, <2>2 DEF ClockOverflows, Moves
    <3> QED
      BY <1>1, <3>1, <3>2 DEF Overflows, Swept
  <2>3. CASE ~Moves
    <3>1. shadow_frequency' = shadow_frequency
      BY <2>3 DEF sweep_clock
    <3>2. ~Overflows(Swept(shadow_frequency))
      <4>1. CASE Due
        BY <2>1, <4>1 DEF ClockOverflows
      <4>2. CASE ~Due
        <5>1. checked
          BY <4>2 DEF sweep_clock
        <5> QED
          BY <2>1, <5>1 DEF SweepInv, SweepSafe
      <4> QED
        BY <4>1, <4>2
    <3> QED
      BY <1>1, <3>1, <3>2 DEF Overflows, Swept
  <2> QED
    BY <2>2, <2>3
<1>4. part # "Channel1" => ~checked' /\ ~sweep_enabled'
  <2>1. part # "Channel1" => ~checked /\ ~sweep_enabled
    BY DEF SweepInv
  <2>2. checked' = (checked \/ Due) /\ (Due => sweep_enabled) /\ sweep_enabled' = sweep_enabled
    BY <1>1 DEF sweep_clock, Due
  <2> QED
    BY <2>1, <2>2, Zenon
<1> QED
  BY <1>1, <1>2, <1>3, <1>4 DEF SweepInv, SweepSafe

\* What leaves the sweep and the silence of the channel alone.
LEMMA SweepIdle ==
  ASSUME SweepInv, UNCHANGED part, UNCHANGED sweep_vars,
         (part = "Channel1") => (is_enabled' => is_enabled)
  PROVE  SweepInv'
<1>1. UNCHANGED <<period, negate, shift, sweep_enabled, period_timer, shadow_frequency, checked>>
  BY DEF sweep_vars, regs
<1>2. checked /\ is_enabled' => ~Overflows(Swept(shadow_frequency))
  BY DEF SweepInv, SweepSafe
<1>3. Overflows(Swept(shadow_frequency))' = Overflows(Swept(shadow_frequency))
  BY <1>1 DEF Overflows, Swept
<1> QED
  BY <1>1, <1>2, <1>3 DEF SweepInv, SweepSafe

\* A trigger computes the first step of the frequency it takes over.
LEMMA TriggerKeeps ==
  ASSUME SweepInv, part = "Channel1", UNCHANGED part, NEW msb, sweep_trigger(msb),
         is_enabled' => ~TriggerOverflows(msb)
  PROVE  SweepInv'
<1>1. UNCHANGED <<period, negate, shift>> /\ shadow_frequency' = WithMsb(msb)
  BY DEF sweep_trigger, regs
<1>2. period_timer' \in 1 .. MaxPeriod + 1
  BY ReloadRange DEF sweep_trigger, SweepInv
<1>3. checked' /\ is_enabled' => ~Overflows(Swept(WithMsb(msb)))
  BY DEF sweep_trigger, TriggerOverflows
<1>4. Overflows(Swept(shadow_frequency))' = Overflows(Swept(WithMsb(msb)))
  BY <1>1 DEF Overflows, Swept
<1> QED
  BY <1>1, <1>2, <1>3, <1>4 DEF SweepInv, SweepSafe

\* Every step of channel 1 keeps the sweep in range.
LEMMA Channel1Sweeps ==
  ASSUME SweepInv, part = "Channel1", UNCHANGED part, Channel1Next
  PROVE  SweepInv'
<1>1. CASE sequence_sweep
  <2>1. is_enabled' => is_enabled
    BY <1>1 DEF sequence_sweep, sequence
  <2>2. CASE frame_sequencer_step \in {2, 6}
    <3>1. sweep_clock /\ (is_enabled' => ~ClockOverflows)
      BY <1>1, <2>2 DEF sequence_sweep, sequence
    <3> QED
      BY <2>1, <3>1, SweepClockKeeps
  <2>3. CASE frame_sequencer_step \notin {2, 6}
    <3>1. UNCHANGED sweep_vars
      BY <1>1, <2>3 DEF sequence_sweep
    <3> QED
      BY <2>1, <3>1, SweepIdle
  <2> QED
    BY <2>2, <2>3
<1>2. ASSUME NEW p \in 0 .. MaxPeriod, NEW n \in BOOLEAN, NEW s \in 0 .. MaxShift, write_nr10(p, n, s)
      PROVE  SweepInv'
  BY <1>2 DEF SweepInv, SweepSafe, write_nr10, write_nr10_regs
<1>3. ASSUME NEW lsb, write_nr13(lsb)
      PROVE  SweepInv'
  <2>1. UNCHANGED <<period, negate, shift, sweep_enabled, period_timer, shadow_frequency, checked, is_enabled>>
    BY <1>3 DEF write_nr13, set_frequency_lsb, regs, voice_vars, channel_vars
  <2>2. Overflows(Swept(shadow_frequency))' = Overflows(Swept(shadow_frequency))
    BY <2>1 DEF Overflows, Swept
  <2> QED
    BY <2>1, <2>2 DEF SweepInv, SweepSafe
<1>4. ASSUME NEW msb, NEW trigger \in BOOLEAN, NEW enable \in BOOLEAN, write_nr14(msb, trigger, enable)
      PROVE  SweepInv'
  <2>1. voice_nrx4(trigger, enable, TriggerOverflows(msb))
    BY <1>4 DEF write_nr14
  <2>2. CASE Triggers(trigger, enable)
    <3>1. is_enabled' => ~TriggerOverflows(msb)
      BY <2>1, <2>2 DEF voice_nrx4
    <3>2. sweep_trigger(msb)
      BY <1>4, <2>2 DEF write_nr14
    <3> QED
      BY <3>1, <3>2, TriggerKeeps
  <2>3. CASE ~Triggers(trigger, enable)
    <3>1. is_enabled' => is_enabled
      BY <2>1, <2>3 DEF voice_nrx4
    <3>2. set_frequency_msb(msb)
      BY <1>4, <2>3 DEF write_nr14
    <3>3. UNCHANGED <<period, negate, shift, sweep_enabled, period_timer, shadow_frequency, checked>>
      BY <3>2 DEF set_frequency_msb, regs
    <3>4. Overflows(Swept(shadow_frequency))' = Overflows(Swept(shadow_frequency))
      BY <3>3 DEF Overflows, Swept
    <3> QED
      BY <3>1, <3>3, <3>4 DEF SweepInv, SweepSafe
  <2> QED
    BY <2>2, <2>3
<1>5. ASSUME NEW on \in BOOLEAN, power_sweep(on)
      PROVE  SweepInv'
  <2>1. CASE SwitchedOff(on)
    BY <1>5, <2>1, SweepConstants DEF SweepInv, SweepSafe, power_sweep, sweep_shutdown
  <2>2. CASE ~SwitchedOff(on)
    <3>1. UNCHANGED sweep_vars /\ is_enabled' = is_enabled
      BY <1>5, <2>2 DEF power_sweep, voice_nr52, channel_vars
    <3> QED
      BY <3>1, SweepIdle
  <2> QED
    BY <2>1, <2>2
<1>6. CASE WriteRest /\ UNCHANGED sweep_vars
  <2>1. is_enabled' => is_enabled
    BY <1>6 DEF WriteRest, WriteLength, voice_nrx1, voice_nrx2, channel_vars
  <2> QED
    BY <1>6, <2>1, SweepIdle
<1> QED
  BY <1>1, <1>2, <1>3, <1>4, <1>5, <1>6 DEF Channel1Next, WriteSweep, WriteNr14, PowerSweep

\* sweep.rs under channel1.rs: a frequency that the next step would take out of
\* its range silences the channel before that step, and the timer of the sweep
\* is loaded before it is counted down.
THEOREM SweepCorrect == Spec => []SweepSafe
<1>1. Init => SweepInv
  BY SweepConstants DEF Init, SweepInit, SweepInv, SweepSafe
<1>2. SweepInv /\ [Next]_vars => SweepInv'
  <2> SUFFICES ASSUME SweepInv, [Next]_vars PROVE SweepInv'
    OBVIOUS
  <2>1. CASE part = "Channel1" /\ UNCHANGED part /\ Channel1Next
    BY <2>1, Channel1Sweeps
  <2>2. CASE part # "Channel1" /\ UNCHANGED part /\ UNCHANGED sweep_vars
    BY <2>2, SweepIdle
  <2>3. CASE UNCHANGED vars
    BY <2>3, SweepIdle DEF vars, voice_vars, channel_vars
  <2> QED
    BY <2>1, <2>2, <2>3 DEF Next
<1>3. SweepInv => SweepSafe
  BY DEF SweepInv
<1> QED
  BY <1>1, <1>2, <1>3, PTL DEF Spec

-----------------------------------------------------------------------------
\* The count after a trigger: only a counter that was off and is switched on
\* when spent, and not clocked by it, stays at 0.
LEMMA TriggerCounts ==
  ASSUME count \in 0 .. InitialCount, NEW enable, enable, Counted(TRUE, enable) = 0
  PROVE  ~enabled /\ count = 0 /\ ~Odd(frame_seq_step)
<1> DEFINE extra == IF Odd(frame_seq_step) THEN 1 ELSE 0
<1>0. extra \in {0, 1} /\ (extra = 0 => ~Odd(frame_seq_step))
  OBVIOUS
<1>1. ~enabled
  <2> SUFFICES ASSUME enabled PROVE FALSE
    OBVIOUS
  <2>1. Counted(TRUE, enable) = IF count = 0 THEN InitialCount - extra ELSE count
    BY DEF Counted
  <2> HIDE DEF extra
  <2>2. count # 0 => FALSE
    BY <2>1
  <2>3. InitialCount - extra = 0
    BY <2>1, <2>2
  <2> QED
    BY <1>0, <2>3, LengthConstants
<1>2. Counted(TRUE, enable) = IF extra = 0 THEN count
                              ELSE IF Decremented(count) = 0 THEN InitialCount - 1
                              ELSE Decremented(count)
  BY <1>1 DEF Counted
<1> HIDE DEF extra
<1>3. extra = 0
  <2> SUFFICES ASSUME extra # 0 PROVE FALSE
    OBVIOUS
  <2>1. Decremented(count) = 0 \/ Counted(TRUE, enable) = Decremented(count)
    BY <1>2
  <2>2. Decremented(count) = 0 => Counted(TRUE, enable) = InitialCount - 1
    BY <1>2
  <2>3. InitialCount - 1 # 0
    BY LengthConstants
  <2>4. Decremented(count) # 0
    BY <2>2, <2>3, Zenon
  <2> QED
    BY <2>1, <2>4, Zenon
<1> QED
  BY <1>0, <1>1, <1>2, <1>3

\* What a counter that is switched on unspent is left with, by the step that the
\* next step of the sequencer really is.
LEMMA NoteCounts ==
  ASSUME count \in 0 .. InitialCount, ~(enabled /\ count > 0),
         NEW trigger \in BOOLEAN, Counted(trigger, TRUE) # 0
  PROVE  LET n == NoteClocks(count, frame_seq_step)
         IN  StepsLeft(Counted(trigger, TRUE), frame_seq_step) \in {2 * n - 1, 2 * n - 2}
<1> DEFINE c == Counted(trigger, TRUE)
           n == NoteClocks(count, frame_seq_step)
<1> SUFFICES StepsLeft(c, frame_seq_step) \in {2 * n - 1, 2 * n - 2}
  OBVIOUS
<1>0. InitialCount \in Nat /\ InitialCount > 1 /\ count \in Nat /\ (enabled => count = 0)
  BY LengthConstants
<1>c. c # 0
  BY Zenon
<1>1. CASE Odd(frame_seq_step)
  <2>1. StepsLeft(c, frame_seq_step) = 2 * c - 0
    BY <1>1 DEF StepsLeft
  <2>2. c = n - 1 /\ n \in Nat
    <3>1. CASE enabled
      <4>1. count = 0
        BY <1>0, <3>1
      <4>2. c = IF trigger THEN InitialCount - 1 ELSE count
        BY <1>1, <3>1, <4>1 DEF Counted
      <4> HIDE DEF c
      <4>3. c = InitialCount - 1
        BY <1>c, <4>1, <4>2, Zenon
      <4> QED
        BY <1>0, <4>1, <4>3 DEF NoteClocks
    <3>2. CASE ~enabled
      <4>1. c = IF Decremented(count) = 0 /\ trigger THEN InitialCount - 1 ELSE Decremented(count)
        BY <1>1, <3>2 DEF Counted
      <4> HIDE DEF c
      <4>2. CASE count = 0 \/ count = 1
        <5>1. Decremented(count) = 0
          BY <4>2 DEF Decremented
        <5>2. c = InitialCount - 1
          BY <1>0, <1>c, <4>1, <5>1
        <5> QED
          BY <1>0, <1>1, <4>2, <5>2 DEF NoteClocks
      <4>3. CASE count # 0 /\ count # 1
        <5>1. Decremented(count) = count - 1 /\ count - 1 # 0
          BY <1>0, <4>3 DEF Decremented
        <5>2. c = count - 1
          BY <4>1, <5>1
        <5> QED
          BY <1>0, <4>3, <5>2 DEF NoteClocks
      <4> QED
        BY <4>2, <4>3
    <3> QED
      BY <3>1, <3>2
  <2> HIDE DEF c, n
  <2> QED
    BY <2>1, <2>2
<1>2. CASE ~Odd(frame_seq_step)
  <2>1. StepsLeft(c, frame_seq_step) = 2 * c - 1
    BY <1>2 DEF StepsLeft
  <2>2. c = n /\ n \in Nat
    <3>1. CASE enabled
      <4>1. count = 0
        BY <1>0, <3>1
      <4>2. c = IF trigger THEN InitialCount - 0 ELSE count
        BY <1>2, <3>1, <4>1 DEF Counted
      <4> HIDE DEF c
      <4>3. c = InitialCount - 0
        BY <1>c, <4>1, <4>2, Zenon
      <4> QED
        BY <1>0, <4>1, <4>3 DEF NoteClocks
    <3>2. CASE ~enabled
      <4>1. c = count
        BY <1>2, <3>2 DEF Counted
      <4> QED
        BY <1>0, <1>c, <1>2, <4>1 DEF NoteClocks
    <3> QED
      BY <3>1, <3>2
  <2> HIDE DEF c, n
  <2> QED
    BY <2>1, <2>2
<1> QED
  BY <1>1, <1>2

-----------------------------------------------------------------------------
\* The copy of the sequencer's step, which only the sequencer's steps and the
\* switching off write, is the step itself as long as the sound is on, and 0
\* while it is off, unless the sequencer has stepped then.
CopyInv ==
  ~stepped_off => frame_seq_step = (IF audio_enabled THEN frame_sequencer_step ELSE 0)

\* A step of the sequencer refreshes the copy.
LEMMA SequenceCopies ==
  ASSUME NEW silenced, sequence(silenced)
  PROVE  CopyInv'
<1>1. stepped_off' = ~audio_enabled /\ audio_enabled' = audio_enabled
  BY DEF sequence
<1>2. frame_seq_step' = frame_sequencer_step'
  BY DEF sequence
<1>3. ~stepped_off' => audio_enabled'
  BY <1>1, Zenon
<1> QED
  BY <1>2, <1>3 DEF CopyInv

\* Switching off resets the copy, switching on the sequencer.
LEMMA PowerCopies ==
  ASSUME CopyInv, NEW on \in BOOLEAN, voice_nr52(on)
  PROVE  CopyInv'
<1>1. stepped_off' = (stepped_off /\ ~SwitchedOff(on)) /\ audio_enabled' = on
  BY DEF voice_nr52
<1>2. frame_sequencer_step' = IF ~audio_enabled /\ on THEN 0 ELSE frame_sequencer_step
  BY DEF voice_nr52
<1>3. CASE SwitchedOff(on)
  <2>1. ~audio_enabled' /\ frame_seq_step' = 0
    BY <1>1, <1>3 DEF SwitchedOff, voice_nr52, length_shutdown
  <2> QED
    BY <2>1 DEF CopyInv
<1>4. CASE ~SwitchedOff(on)
  <2>1. frame_seq_step' = frame_seq_step
    BY <1>4 DEF voice_nr52, counter_vars
  <2>2. stepped_off' <=> stepped_off
    BY <1>1, <1>4, Zenon
  <2>3. CASE audio_enabled
    <3>1. audio_enabled' /\ frame_sequencer_step' = frame_sequencer_step
      BY <1>1, <1>2, <1>4, <2>3 DEF SwitchedOff
    <3> QED
      BY <2>1, <2>2, <2>3, <3>1 DEF CopyInv
  <2>4. CASE ~audio_enabled
    <3>1. ~stepped_off => frame_seq_step' = 0
      BY <2>1, <2>4 DEF CopyInv
    <3>2. audio_enabled' => frame_sequencer_step' = 0
      BY <1>1, <1>2, <2>4
    <3> QED
      BY <2>2, <3>1, <3>2 DEF CopyInv
  <2> QED
    BY <2>3, <2>4
<1> QED
  BY <1>3, <1>4

\* Every other step leaves the power, the sequencer and the copy alone.
LEMMA CopyIdle ==
  ASSUME CopyInv, UNCHANGED <<audio_enabled, frame_sequencer_step, stepped_off, frame_seq_step>>
  PROVE  CopyInv'
  BY DEF CopyInv

\* A write to NRx4 is such a step.
LEMMA ControlCopies ==
  ASSUME CopyInv, NEW trigger, NEW enable, NEW overflow, voice_nrx4(trigger, enable, overflow)
  PROVE  CopyInv'
  BY CopyIdle DEF voice_nrx4, write_nrx4, apu_vars

\* What a step that leaves the channel alone leaves of the copy.
LEMMA CopyUnchanged ==
  ASSUME CopyInv, UNCHANGED voice_vars
  PROVE  CopyInv'
  BY CopyIdle DEF voice_vars, apu_vars, counter_vars

\* A write to NRx1 leaves the copy.
LEMMA LengthCopies ==
  ASSUME CopyInv, WriteLength
  PROVE  CopyInv'
  BY CopyIdle DEF WriteLength, voice_nrx1, set_count, apu_vars

\* A write to NRx2 leaves the copy.
LEMMA DacCopies ==
  ASSUME CopyInv, NEW dac, voice_nrx2(dac)
  PROVE  CopyInv'
  BY CopyIdle DEF voice_nrx2, apu_vars, counter_vars

\* Every step of channel 1 keeps the copy.
LEMMA Channel1Copies ==
  ASSUME CopyInv, Channel1Next
  PROVE  CopyInv'
<1>1. CASE sequence_sweep
  BY <1>1, SequenceCopies DEF sequence_sweep
<1>2. ASSUME NEW p, NEW n, NEW s, write_nr10(p, n, s)
      PROVE  CopyInv'
  BY <1>2, CopyIdle DEF write_nr10, apu_vars, counter_vars
<1>3. ASSUME NEW lsb, write_nr13(lsb)
      PROVE  CopyInv'
  BY <1>3, CopyUnchanged DEF write_nr13
<1>4. CASE WriteSweep
  BY <1>4, <1>2, <1>3 DEF WriteSweep
<1>5. CASE WriteNr14
  BY <1>5, ControlCopies DEF WriteNr14, write_nr14
<1>6. CASE PowerSweep
  BY <1>6, PowerCopies DEF PowerSweep, power_sweep
<1>7. CASE WriteRest
  BY <1>7, LengthCopies, DacCopies DEF WriteRest
<1> QED
  BY <1>1, <1>4, <1>5, <1>6, <1>7 DEF Channel1Next

\* Every step of channel 2 keeps the copy.
LEMMA Channel2Copies ==
  ASSUME CopyInv, Channel2Next
  PROVE  CopyInv'
<1>1. CASE sequence_envelope
  BY <1>1, SequenceCopies DEF sequence_envelope
<1>2. CASE WriteEnvelope
  BY <1>2, DacCopies DEF WriteEnvelope, write_nr22
<1>3. CASE WriteNr24
  BY <1>3, ControlCopies DEF WriteNr24, write_nr24
<1>4. CASE PowerEnvelope
  BY <1>4, PowerCopies DEF PowerEnvelope, power_envelope
<1>5. CASE WriteLength
  BY <1>5, LengthCopies
<1> QED
  BY <1>1, <1>2, <1>3, <1>4, <1>5 DEF Channel2Next

\* The copy is the step in every state.
LEMMA CopyInvariance == Spec => []CopyInv
<1>1. Init => CopyInv
  BY DEF Init, Channel1Init, Channel2Init, VoiceInit, LengthInit, CopyInv
<1>2. CopyInv /\ [Next]_vars => CopyInv'
  <2> SUFFICES ASSUME CopyInv, [Next]_vars PROVE CopyInv'
    OBVIOUS
  <2>1. CASE Channel1Next
    BY <2>1, Channel1Copies
  <2>2. CASE Channel2Next
    BY <2>2, Channel2Copies
  <2>3. CASE UNCHANGED voice_vars
    BY <2>3, CopyUnchanged
  <2>4. CASE UNCHANGED vars
    BY <2>4, CopyUnchanged DEF vars
  <2> QED
    BY <2>1, <2>2, <2>3, <2>4 DEF Next
<1> QED
  BY <1>1, <1>2, PTL DEF Spec

\* write_nrx4() and trigger() of channel 1: a trigger plays the channel whatever
\* the length counter held, but for the one case the property names, and a note
\* lasts as many steps of the frame sequencer as its clocks, for a counter of
\* any length, as long as the counter's copy of the step is not the stale one.
THEOREM NotesCorrect == Spec => NoteLasts
<1> DEFINE msb == reg_frequency' \div LowCodes
<1> DEFINE Note ==
      \A trigger \in BOOLEAN :
         write_nr14(msb, trigger, enabled') => (trigger => Played(msb)) /\ Limited
<1>1. CountInv /\ CopyInv /\ [Next]_vars => [Note]_<<voice_vars, sweep_vars>>
  <2> SUFFICES ASSUME CountInv, CopyInv, NEW trigger \in BOOLEAN, write_nr14(msb, trigger, enabled')
               PROVE  (trigger => Played(msb)) /\ Limited
    OBVIOUS
  <2> HIDE DEF msb
  <2>1. voice_nrx4(trigger, enabled', TriggerOverflows(msb))
    BY DEF write_nr14
  <2>2. trigger => Played(msb)
    <3> SUFFICES ASSUME trigger = TRUE PROVE Played(msb)
      BY Zenon
    <3>0. voice_nrx4(TRUE, enabled', TriggerOverflows(msb))
      BY <2>1, Zenon
    <3>1. CASE Triggers(TRUE, enabled')
      BY <3>0, <3>1 DEF voice_nrx4, Played
    <3>2. CASE ~Triggers(TRUE, enabled')
      <4>1. enabled' /\ Counted(TRUE, enabled') = 0
        BY <3>2 DEF Triggers
      <4> QED
        BY <4>1, TriggerCounts DEF CountInv, Played
    <3> QED
      BY <3>1, <3>2
  <2>3. Limited
    <3> DEFINE step == frame_sequencer_step
    <3> DEFINE n == NoteClocks(count, step)
    <3> SUFFICES ASSUME is_enabled', enabled', ~(enabled /\ count > 0), ~stepped_off
                 PROVE  StepsLeft(count', step) \in {2 * n - 1, 2 * n - 2}
      BY DEF Limited
    <3>1. enabled' = TRUE
      BY <2>1 DEF voice_nrx4, write_nrx4
    <3>2. count' = Counted(trigger, TRUE) /\ count' # 0
      <4>1. count' = Counted(trigger, enabled')
        BY <2>1 DEF voice_nrx4, write_nrx4
      <4>2. is_enabled' => ~(enabled' /\ Counted(trigger, enabled') = 0)
        BY <2>1 DEF voice_nrx4, Triggers
      <4> QED
        BY <3>1, <4>1, <4>2, Zenon
    <3>3. step = frame_seq_step
      <4>1. audio_enabled
        BY <2>1 DEF voice_nrx4
      <4> QED
        BY <4>1 DEF CopyInv
    <3> HIDE DEF step
    <3> QED
      BY <3>2, <3>3, NoteCounts DEF CountInv
  <2> QED
    BY <2>2, <2>3
<1> QED
  BY <1>1, CountInvariance, CopyInvariance, PTL DEF Spec, NoteLasts

-----------------------------------------------------------------------------
EnvInv ==
  /\ env_period \in 0 .. MaxPace
  /\ env_enabled => env_timer \in 1 .. MaxPace + 1

\* The pace of the envelope is never 0.
LEMMA PaceRange == env_period \in 0 .. MaxPace => Pace \in 1 .. MaxPace + 1
  BY EnvelopeConstants DEF Pace

\* clock() of the envelope counts down a timer that is not 0.
LEMMA EnvClockKeeps ==
  ASSUME EnvInv, env_clock
  PROVE  EnvInv'
<1>1. env_period' = env_period /\ (env_enabled' => env_enabled)
  BY DEF env_clock, nrx2
<1>2. ASSUME env_enabled PROVE env_timer' \in 1 .. MaxPace + 1
  <2>1. env_timer \in 1 .. MaxPace + 1 /\ env_period \in 0 .. MaxPace
    BY <1>2 DEF EnvInv
  <2>2. CASE env_period # 0 /\ env_timer = 1
    BY <1>2, <2>1, <2>2, PaceRange DEF env_clock
  <2>3. CASE env_period # 0 /\ env_timer # 1
    <3>1. env_timer' = (env_timer - 1) % 256
      BY <1>2, <2>3 DEF env_clock
    <3>2. env_timer - 1 \in 1 .. MaxPace /\ env_timer - 1 < 256
      BY <2>1, <2>3, EnvelopeConstants
    <3> QED
      BY <3>1, <3>2, EnvelopeConstants
  <2>4. CASE env_period = 0
    BY <2>1, <2>4 DEF env_clock
  <2> QED
    BY <2>2, <2>3, <2>4
<1> QED
  BY <1>1, <1>2 DEF EnvInv

\* The invariant of the envelope holds in every state.
LEMMA EnvInvariance == Spec => []EnvInv
<1>1. Init => EnvInv
  BY EnvelopeConstants DEF Init, EnvelopeInit, EnvInv
<1>2. EnvInv /\ [Next]_vars => EnvInv'
  <2> SUFFICES ASSUME EnvInv, [Next]_vars PROVE EnvInv'
    OBVIOUS
  <2>1. CASE UNCHANGED env_vars
    BY <2>1 DEF EnvInv, env_vars, nrx2
  <2>2. CASE env_clock
    BY <2>2, EnvClockKeeps
  <2>3. ASSUME NEW v \in Volumes, NEW add \in BOOLEAN, NEW p \in 0 .. MaxPace, write_nrx2(v, add, p)
        PROVE  EnvInv'
    BY <2>3 DEF EnvInv, write_nrx2
  <2>4. CASE env_trigger
    <3>1. Pace \in 1 .. MaxPace + 1
      BY PaceRange DEF EnvInv
    <3> QED
      BY <2>4, <3>1 DEF EnvInv, env_trigger, nrx2
  <2>5. CASE env_shutdown
    BY <2>5, EnvelopeConstants DEF EnvInv, env_shutdown
  <2>6. CASE Channel2Next
    <3>1. CASE sequence_envelope
      BY <2>1, <2>2, <3>1 DEF sequence_envelope
    <3>2. CASE WriteEnvelope
      BY <2>3, <3>2 DEF WriteEnvelope, write_nr22
    <3>3. CASE WriteNr24
      BY <2>1, <2>4, <3>3 DEF WriteNr24, write_nr24
    <3>4. CASE PowerEnvelope
      BY <2>1, <2>5, <3>4 DEF PowerEnvelope, power_envelope
    <3> QED
      BY <2>1, <2>6, <3>1, <3>2, <3>3, <3>4 DEF Channel2Next
  <2> QED
    BY <2>1, <2>6 DEF Next, vars
<1> QED
  BY <1>1, <1>2, PTL DEF Spec

\* envelope.rs under channel2.rs: the timer is loaded before the envelope that
\* counts it down is enabled, so it never runs through 0.
THEOREM EnvelopeLoaded == Spec => [](env_enabled => env_timer \in 1 .. MaxPace + 1)
<1>1. EnvInv => (env_enabled => env_timer \in 1 .. MaxPace + 1)
  BY DEF EnvInv
<1> QED
  BY <1>1, EnvInvariance, PTL

-----------------------------------------------------------------------------
\* The widths of channel4.rs.
Widths == LongBits = 15 /\ ShortBits = 7

\* The range of the register, and all bits of a width set.
Fits(n) == n \in Nat /\ n < 32768
AllShort == 127
AllLong == 32767

\* From a trigger on not all bits of the width are set.
NotAllSet ==
  ~switched => /\ reg_lfsr_7bit => lfsr % 128 # AllShort
               /\ ~reg_lfsr_7bit => lfsr # AllLong

NoiseInv ==
  /\ Fits(lfsr)
  /\ reg_lfsr_7bit \in BOOLEAN
  /\ NotAllSet

\* The new bit, from the two lowest ones.
LEMMA NewBit ==
  ASSUME NoiseInv
  PROVE  /\ xor_result = ((lfsr % 2) + ((lfsr \div 2) % 2) + 1) % 2
         /\ xor_result \in {0, 1}
<1>1. 2 ^ 0 = 1 /\ 2 ^ 1 = 2
  OBVIOUS
<1>2. lfsr \div 1 = lfsr
  BY DEF NoiseInv, Fits
<1>3. xor_result = ((lfsr % 2) + ((lfsr \div 2) % 2) + 1) % 2
  BY <1>1, <1>2 DEF xor_result, Bit
<1>4. lfsr \in Nat /\ lfsr \div 2 \in Nat
  BY DEF NoiseInv, Fits
<1> QED
  BY <1>3, <1>4

\* Clocked with the long register, it is halved and gets a new highest bit.
LEMMA ClockedLong ==
  ASSUME Widths, NoiseInv, noise_clock, ~reg_lfsr_7bit
  PROVE  lfsr' = lfsr \div 2 + 16384 * xor_result
<1>1. 2 ^ LongBits = 32768
  BY DEF Widths
<1>2. xor_result \in {0, 1} /\ Fits(lfsr)
  BY NewBit DEF NoiseInv, Fits
<1>3. Bit(lfsr, LongBits) = 0
  BY <1>1, <1>2 DEF Bit, Fits
<1>4. lfsr' = WithBit(lfsr, LongBits, xor_result) \div 2
  BY DEF noise_clock
<1>5. WithBit(lfsr, LongBits, xor_result) = lfsr + 32768 * xor_result
  <2>1. WithBit(lfsr, LongBits, xor_result) = lfsr + (xor_result - 0) * 32768
    BY <1>1, <1>3 DEF WithBit
  <2> QED
    BY <2>1, <1>2
<1> QED
  BY <1>2, <1>4, <1>5 DEF Fits

\* Clocked with the short one, its seven lowest bits are moved alike.
LEMMA ClockedShort ==
  ASSUME Widths, NoiseInv, noise_clock, reg_lfsr_7bit
  PROVE  /\ Fits(lfsr')
         /\ lfsr' % 128 = (lfsr % 128) \div 2 + 64 * xor_result
<1>1. 2 ^ LongBits = 32768 /\ 2 ^ ShortBits = 128
  BY DEF Widths
<1>2. xor_result \in {0, 1} /\ Fits(lfsr)
  BY NewBit DEF NoiseInv, Fits
<1> DEFINE wide == lfsr + 32768 * xor_result
<1>3. Bit(lfsr, LongBits) = 0
  BY <1>1, <1>2 DEF Bit, Fits
<1>4. WithBit(lfsr, LongBits, xor_result) = wide
  <2>1. WithBit(lfsr, LongBits, xor_result) = lfsr + (xor_result - 0) * 32768
    BY <1>1, <1>3 DEF WithBit
  <2> QED
    BY <2>1, <1>2
<1>5. wide \in Nat /\ wide < 65536
  BY <1>2 DEF Fits
<1>6. lfsr' = WithBit(wide, ShortBits, xor_result) \div 2
  BY <1>4 DEF noise_clock
<1>7. Bit(wide, ShortBits) = (wide \div 128) % 2
  BY <1>1 DEF Bit
<1>8. WithBit(wide, ShortBits, xor_result) = wide + 128 * xor_result - 128 * ((wide \div 128) % 2)
  <2>1. WithBit(wide, ShortBits, xor_result) = wide + (xor_result - ((wide \div 128) % 2)) * 128
    BY <1>1, <1>7 DEF WithBit
  <2> QED
    BY <2>1, <1>2, <1>5
<1>9. wide % 128 = lfsr % 128
  BY <1>2 DEF Fits
<1> HIDE DEF wide
<1>10. PICK h, b, r : /\ wide = 256 * h + 128 * b + r
                     /\ h \in Nat /\ h < 256 /\ b \in {0, 1} /\ r \in Nat /\ r < 128
  <2>1. /\ wide \div 256 \in Nat /\ wide \div 256 < 256
        /\ (wide \div 128) % 2 \in {0, 1} /\ wide % 128 \in Nat /\ wide % 128 < 128
    BY <1>5
  <2>2. wide = 256 * (wide \div 256) + 128 * ((wide \div 128) % 2) + (wide % 128)
    BY <1>5
  <2> QED
    BY <2>1, <2>2
<1>11. (wide \div 128) % 2 = b /\ wide % 128 = r
  BY <1>10
<1>12. lfsr' = (256 * h + 128 * xor_result + r) \div 2
  BY <1>2, <1>6, <1>8, <1>10, <1>11
<1>13. /\ r \div 2 \in Nat /\ r \div 2 < 64 /\ r % 2 \in {0, 1}
       /\ r = 2 * (r \div 2) + (r % 2)
  BY <1>10
<1> DEFINE q == 64 * xor_result + (r \div 2)
<1>14. lfsr' = 128 * h + q /\ q \in Nat /\ q < 128
  <2>1. 256 * h + 128 * xor_result + r = 2 * (128 * h + q) + (r % 2)
    BY <1>2, <1>10, <1>13
  <2>2. q \in Nat /\ q < 128 /\ h \in Nat
    BY <1>2, <1>10, <1>13
  <2> DEFINE rest == r % 2
  <2>3. rest \in {0, 1} /\ lfsr' = (2 * (128 * h + q) + rest) \div 2
    BY <1>12, <1>13, <2>1
  <2> HIDE DEF q, rest
  <2>4. (128 * h + q) \in Nat
    BY <2>2
  <2>5. (2 * (128 * h + q) + rest) \div 2 = 128 * h + q
    BY <2>3, <2>4
  <2> QED
    BY <2>2, <2>3, <2>5
<1>15. lfsr' % 128 = q /\ Fits(lfsr')
  <2> HIDE DEF q
  <2> QED
    BY <1>10, <1>14 DEF Fits
<1>16. q = (lfsr % 128) \div 2 + 64 * xor_result
  BY <1>2, <1>9, <1>11, <1>13
<1> QED
  BY <1>15, <1>16

\* Only the state with all bits set leads to it: its two lowest bits are alike,
\* so the new one is set.
LEMMA ClockNeverSticks ==
  ASSUME Widths, NoiseInv, noise_clock
  PROVE  NoiseInv'
<1>1. UNCHANGED <<reg_lfsr_7bit, switched>>
  BY DEF noise_clock
<1>2. Fits(lfsr) /\ xor_result \in {0, 1}
  BY NewBit DEF NoiseInv, NotAllSet
<1>3. CASE reg_lfsr_7bit
  <2> DEFINE low == lfsr % 128
  <2>1. low \in Nat /\ low < 128 /\ low % 2 = lfsr % 2 /\ (low \div 2) % 2 = (lfsr \div 2) % 2
    BY <1>2 DEF Fits
  <2>2. xor_result = ((low % 2) + ((low \div 2) % 2) + 1) % 2
    BY <2>1, NewBit
  <2>3. lfsr' % 128 = low \div 2 + 64 * xor_result /\ Fits(lfsr')
    BY <1>3, ClockedShort
  <2> HIDE DEF low
  <2>4. lfsr' % 128 = AllShort => low = AllShort
    <3> DEFINE q == low \div 2
    <3> DEFINE b == low % 2
    <3>1. q \in Nat /\ q < 64 /\ b \in {0, 1} /\ low = 2 * q + b
      BY <2>1
    <3>2. lfsr' % 128 = q + 64 * xor_result /\ xor_result = (b + (q % 2) + 1) % 2
      BY <2>2, <2>3
    <3> HIDE DEF q, b
    <3>3. lfsr' % 128 = AllShort => q = 63 /\ xor_result = 1
      BY <1>2, <3>1, <3>2 DEF AllShort
    <3>4. q = 63 => q % 2 = 1
      OBVIOUS
    <3>5. q = 63 /\ xor_result = 1 => b = 1
      BY <3>1, <3>2, <3>4
    <3> QED
      BY <3>1, <3>3, <3>5 DEF AllShort
  <2>5. ~switched => low # AllShort
    BY <1>3 DEF low, NoiseInv, NotAllSet
  <2>6. ~switched' => lfsr' % 128 # AllShort
    BY <1>1, <2>4, <2>5, Zenon
  <2>7. reg_lfsr_7bit' /\ reg_lfsr_7bit' \in BOOLEAN
    BY <1>1, <1>3 DEF NoiseInv, NotAllSet
  <2>8. NotAllSet'
    BY <2>6, <2>7, Zenon DEF NotAllSet
  <2> QED
    BY <2>3, <2>7, <2>8 DEF NoiseInv
<1>4. CASE ~reg_lfsr_7bit
  <2>1. xor_result = ((lfsr % 2) + ((lfsr \div 2) % 2) + 1) % 2
    BY NewBit
  <2>2. lfsr' = lfsr \div 2 + 16384 * xor_result
    BY <1>4, ClockedLong
  <2>3. Fits(lfsr')
    BY <1>2, <2>2 DEF Fits
  <2>4. lfsr' = AllLong => lfsr = AllLong
    BY <1>2, <2>1, <2>2 DEF Fits, AllLong
  <2>5. ~switched => lfsr # AllLong
    BY <1>2, <1>4 DEF NoiseInv, NotAllSet
  <2>6. ~switched' => lfsr' # AllLong
    BY <1>1, <2>4, <2>5, Zenon
  <2>7. ~reg_lfsr_7bit' /\ reg_lfsr_7bit' \in BOOLEAN
    BY <1>1, <1>4 DEF NoiseInv
  <2>8. NotAllSet'
    BY <2>6, <2>7, Zenon DEF NotAllSet
  <2> QED
    BY <2>3, <2>7, <2>8 DEF NoiseInv
<1> QED
  BY <1>3, <1>4 DEF NoiseInv, NotAllSet

\* A trigger clears the register, and only a cleared one takes another width
\* without the history saying so.
LEMMA NoiseKeeps ==
  ASSUME Widths, NoiseInv, [NoiseNext]_noise_vars
  PROVE  NoiseInv'
<1>1. CASE noise_clock
  BY <1>1, ClockNeverSticks
<1>2. 0 % 128 # AllShort /\ 0 # AllLong
  BY DEF AllShort, AllLong
<1>3. CASE noise_trigger
  <2>1. lfsr' = 0 /\ reg_lfsr_7bit' = reg_lfsr_7bit
    BY <1>3 DEF noise_trigger
  <2>2. Fits(lfsr')
    BY <2>1 DEF Fits
  <2>3. NotAllSet'
    BY <1>2, <2>1 DEF NotAllSet
  <2> QED
    BY <2>1, <2>2, <2>3 DEF NoiseInv
<1>4. ASSUME NEW short \in BOOLEAN, write_nr43(short)
      PROVE  NoiseInv'
  <2>1. lfsr' = lfsr /\ reg_lfsr_7bit' = short
    BY <1>4 DEF write_nr43
  <2>2. ~switched' => ~switched /\ (short = reg_lfsr_7bit \/ lfsr = 0)
    BY <1>4 DEF write_nr43
  <2>3. ~switched' => (short => lfsr % 128 # AllShort) /\ (~short => lfsr # AllLong)
    <3>1. CASE short = reg_lfsr_7bit
      BY <2>2, <3>1 DEF NoiseInv, NotAllSet
    <3>2. CASE lfsr = 0
      BY <1>2, <3>2
    <3> QED
      BY <2>2, <3>1, <3>2
  <2> QED
    BY <2>1, <2>3 DEF NoiseInv, NotAllSet
<1>5. CASE UNCHANGED noise_vars
  BY <1>5 DEF NoiseInv, NotAllSet, noise_vars
<1> QED
  BY <1>1, <1>3, <1>4, <1>5 DEF NoiseNext

\* The register starts cleared.
LEMMA NoiseInitial == Init => NoiseInv
<1>1. Init => lfsr = 0 /\ ~reg_lfsr_7bit /\ reg_lfsr_7bit \in BOOLEAN
  BY DEF Init, NoiseInit
<1>2. lfsr = 0 /\ ~reg_lfsr_7bit => NotAllSet
  <2>1. 0 # AllLong
    BY DEF AllLong
  <2> QED
    BY <2>1, Zenon DEF NotAllSet
<1>3. lfsr = 0 => Fits(lfsr)
  BY DEF Fits
<1> QED
  BY <1>1, <1>2, <1>3, Zenon DEF NoiseInv

\* sample() of channel 4, with the widths of the code: from a trigger on the
\* register never comes to the state that is its own successor, all bits set,
\* in which the channel would play no more noise, unless NR43 changes the width
\* in between.
THEOREM NoiseNeverStuck ==
  ASSUME Widths
  PROVE  Spec => [](~switched => lfsr % 2 ^ Bits # Repeat)
<1>1. NoiseInv /\ [Next]_vars => NoiseInv'
  BY NoiseKeeps DEF Next, vars, noise_vars
<1>2. NoiseInv => (~switched => lfsr % 2 ^ Bits # Repeat)
  <2>1. Bits = IF reg_lfsr_7bit THEN 7 ELSE 15
    BY DEF Bits, Widths
  <2>2. 2 ^ 7 = 128 /\ 2 ^ 15 = 32768
    OBVIOUS
  <2>3. 2 ^ Bits = IF reg_lfsr_7bit THEN 128 ELSE 32768
    BY <2>1, <2>2
  <2> QED
    BY <2>3 DEF NoiseInv, NotAllSet, Repeat, Fits, AllShort, AllLong
<1> QED
  BY <1>1, <1>2, NoiseInitial, PTL DEF Spec

-----------------------------------------------------------------------------
\* The shift of NR10 has three bits.
Shifts == MaxShift = 7

\* A step of the frequency stays in its range unless it overflows it.
LEMMA SweptRange ==
  ASSUME Shifts, SweepTypeOK, NEW freq \in Frequencies, ~Overflows(Swept(freq))
  PROVE  Swept(freq) \in Frequencies
<1>1. shift \in Nat /\ shift <= 7
  BY SweepConstants DEF SweepTypeOK, Shifts
<1>2. PICK d \in Nat : d > 0 /\ 2 ^ shift = d
  <2>1. shift = 0 \/ shift = 1 \/ shift = 2 \/ shift = 3 \/ shift = 4 \/ shift = 5 \/ shift = 6 \/ shift = 7
    BY <1>1
  <2> DEFINE power(n) == 2 ^ n
  <2>2. /\ power(0) > 0 /\ power(1) > 0 /\ power(2) > 0 /\ power(3) > 0
        /\ power(4) > 0 /\ power(5) > 0 /\ power(6) > 0 /\ power(7) > 0
    OBVIOUS
  <2>3. /\ power(0) \in Nat /\ power(1) \in Nat /\ power(2) \in Nat /\ power(3) \in Nat
        /\ power(4) \in Nat /\ power(5) \in Nat /\ power(6) \in Nat /\ power(7) \in Nat
    OBVIOUS
  <2> HIDE DEF power
  <2>4. power(shift) \in Nat /\ power(shift) > 0
    BY <2>1, <2>2, <2>3
  <2> QED
    BY <2>4 DEF power
<1>3. freq \in Nat /\ freq <= MaxFrequency
  BY SweepConstants DEF Frequencies
<1> DEFINE step == freq \div 2 ^ shift
<1>4. step \in Nat /\ step <= freq
  BY <1>2, <1>3
<1>5. Swept(freq) = freq + step \/ Swept(freq) = freq - step
  <2>1. Swept(freq) = freq + (IF negate THEN -1 ELSE 1) * step
    BY DEF Swept
  <2> HIDE DEF step
  <2>2. CASE negate
    BY <1>3, <1>4, <2>1, <2>2
  <2>3. CASE ~negate
    BY <1>3, <1>4, <2>1, <2>3
  <2> QED
    BY <2>2, <2>3
<1> HIDE DEF step
<1>6. Swept(freq) \in Nat
  BY <1>3, <1>4, <1>5
<1>7. Swept(freq) <= MaxFrequency
  BY <1>6, SweepConstants DEF Overflows
<1> QED
  BY <1>6, <1>7, SweepConstants DEF Frequencies

\* The two parts of the frequency make one in its range.
LEMMA PartsRange ==
  ASSUME NEW high \in Msbs, NEW low \in 0 .. LowCodes - 1
  PROVE  LowCodes * high + low \in Frequencies
<1>1. /\ MaxFrequency \in Nat /\ LowCodes \in Nat \ {0} /\ (MaxFrequency + 1) % LowCodes = 0
  BY SweepConstants
<1> DEFINE most == MaxFrequency \div LowCodes
<1>2. most \in Nat /\ MaxFrequency = LowCodes * most + LowCodes - 1
  <2>1. PICK r \in 0 .. LowCodes - 1 : MaxFrequency = LowCodes * most + r /\ most \in Nat
    <3>1. /\ MaxFrequency % LowCodes \in 0 .. LowCodes - 1 /\ most \in Nat
          /\ MaxFrequency = LowCodes * most + (MaxFrequency % LowCodes)
      BY <1>1
    <3> QED
      BY <3>1
  <2>2. (MaxFrequency + 1) % LowCodes = 0 => r = LowCodes - 1
    <3> SUFFICES ASSUME r + 1 < LowCodes PROVE (MaxFrequency + 1) % LowCodes # 0
      BY <1>1, <2>1
    <3>1. MaxFrequency + 1 = LowCodes * most + (r + 1)
      BY <1>1, <2>1
    <3> HIDE DEF most
    <3>2. (MaxFrequency + 1) % LowCodes = r + 1
      BY <1>1, <2>1, <3>1
    <3> QED
      BY <2>1, <3>2
  <2> QED
    BY <1>1, <2>1, <2>2
<1>3. high \in Nat /\ high <= most
  BY <1>1, <1>2 DEF Msbs
<1> HIDE DEF most
<1>4. LowCodes * high \in Nat /\ LowCodes * high <= LowCodes * most
  BY <1>1, <1>2, <1>3
<1> QED
  BY <1>1, <1>2, <1>4 DEF Frequencies

-----------------------------------------------------------------------------
\* The handlers that all channels have in common keep the types.
LEMMA SequenceTypes ==
  ASSUME VoiceTypeOK, NEW silenced \in BOOLEAN, sequence(silenced)
  PROVE  VoiceTypeOK'
<1>1. Clocked \in 0 .. InitialCount
  BY ClockedRange DEF VoiceTypeOK, LengthTypeOK
<1>2. (frame_sequencer_step + 1) % 8 \in 0 .. 7
  BY DEF VoiceTypeOK
<1>3. count' \in 0 .. InitialCount
  BY <1>1 DEF sequence, VoiceTypeOK, LengthTypeOK
<1>4. frame_sequencer_step' \in 0 .. 7 /\ frame_seq_step' \in 0 .. 7
  BY <1>2 DEF sequence
<1>5. is_enabled' \in BOOLEAN
  BY Zenon DEF sequence
<1>6. UNCHANGED <<cgb, audio_enabled, reg_dac_enable, enabled>>
  BY DEF sequence
<1>7. stepped_off' \in BOOLEAN
  BY Zenon DEF sequence
<1> QED
  BY <1>3, <1>4, <1>5, <1>6, <1>7 DEF VoiceTypeOK, LengthTypeOK

\* The same for a write to NR52.
LEMMA PowerTypes ==
  ASSUME VoiceTypeOK, NEW on \in BOOLEAN, voice_nr52(on)
  PROVE  VoiceTypeOK'
<1>1. audio_enabled' = on /\ cgb' = cgb
  BY DEF voice_nr52
<1>2. frame_sequencer_step' \in 0 .. 7
  BY DEF voice_nr52, VoiceTypeOK
<1>5. stepped_off' \in BOOLEAN
  BY Zenon DEF voice_nr52
<1>3. CASE SwitchedOff(on)
  <2>1. is_enabled' = FALSE /\ reg_dac_enable' = FALSE /\ length_shutdown(cgb)
    BY <1>3 DEF voice_nr52
  <2>2. LengthTypeOK'
    <3>1. count \in 0 .. InitialCount /\ InitialCount \in 0 .. InitialCount
      BY DEF VoiceTypeOK, LengthTypeOK
    <3>2. count' \in 0 .. InitialCount
      BY <2>1, <3>1, Zenon DEF length_shutdown
    <3>3. frame_seq_step' \in 0 .. 7 /\ enabled' = FALSE
      BY <2>1 DEF length_shutdown
    <3> QED
      BY <3>2, <3>3, Zenon DEF LengthTypeOK
  <2> QED
    BY <1>1, <1>2, <1>5, <2>1, <2>2 DEF VoiceTypeOK
<1>4. CASE ~SwitchedOff(on)
  <2>1. UNCHANGED <<channel_vars, counter_vars>>
    BY <1>4 DEF voice_nr52
  <2> QED
    BY <1>1, <1>2, <1>5, <2>1 DEF VoiceTypeOK, LengthTypeOK, channel_vars, counter_vars
<1> QED
  BY <1>3, <1>4

\* The same for a write to NRx1.
LEMMA LengthTypes ==
  ASSUME VoiceTypeOK, WriteLength
  PROVE  VoiceTypeOK'
<1>1. PICK length \in 0 .. InitialCount - 1 : voice_nrx1(length)
  BY DEF WriteLength
<1>2. InitialCount - length \in 0 .. InitialCount
  OBVIOUS
<1> QED
  BY <1>1, <1>2 DEF VoiceTypeOK, LengthTypeOK, voice_nrx1, set_count, apu_vars, channel_vars

\* The same for a write to NRx2.
LEMMA DacTypes ==
  ASSUME VoiceTypeOK, NEW dac \in BOOLEAN, voice_nrx2(dac)
  PROVE  VoiceTypeOK'
  BY DEF VoiceTypeOK, LengthTypeOK, voice_nrx2, apu_vars, counter_vars

\* The same for a write to NRx4.
LEMMA ControlTypes ==
  ASSUME VoiceTypeOK, NEW trigger \in BOOLEAN, NEW enable \in BOOLEAN, NEW overflow \in BOOLEAN,
         voice_nrx4(trigger, enable, overflow)
  PROVE  VoiceTypeOK'
<1>1. Counted(trigger, enable) \in 0 .. InitialCount
  BY CountedRange DEF VoiceTypeOK, LengthTypeOK
<1>2. count' \in 0 .. InitialCount /\ enabled' = enable /\ frame_seq_step' = frame_seq_step
  BY <1>1 DEF voice_nrx4, write_nrx4
<1>3. is_enabled' \in BOOLEAN
  <2>1. is_enabled' = IF Triggers(trigger, enable) THEN reg_dac_enable /\ ~overflow
                      ELSE is_enabled /\ ~(enable /\ Counted(trigger, enable) = 0)
    BY DEF voice_nrx4
  <2> QED
    BY <2>1, Zenon
<1>4. UNCHANGED <<apu_vars, reg_dac_enable>>
  BY DEF voice_nrx4
<1> QED
  BY <1>2, <1>3, <1>4 DEF VoiceTypeOK, LengthTypeOK, apu_vars

\* What a step that leaves the channel alone keeps.
LEMMA IdleTypes ==
  ASSUME VoiceTypeOK, UNCHANGED voice_vars
  PROVE  VoiceTypeOK'
  BY DEF VoiceTypeOK, LengthTypeOK, voice_vars, apu_vars, channel_vars, counter_vars

-----------------------------------------------------------------------------
\* What the sweep's own handlers leave of its types.
LEMMA SweepClockTypes ==
  ASSUME Shifts, SweepTypeOK, SweepSafe, sweep_clock
  PROVE  SweepTypeOK'
<1>1. UNCHANGED <<period, negate, shift, sweep_enabled>>
  BY DEF sweep_clock, regs
<1>2. period_timer' \in 0 .. MaxPeriod + 1
  <2>1. CASE ~sweep_enabled
    BY <2>1 DEF sweep_clock, SweepTypeOK
  <2>2. CASE sweep_enabled /\ period_timer = 1
    <3>1. Reload(period) \in 0 .. MaxPeriod + 1
      BY ReloadRange, SweepConstants DEF SweepTypeOK
    <3> QED
      BY <2>2, <3>1 DEF sweep_clock
  <2>3. CASE sweep_enabled /\ period_timer # 1
    <3>1. period_timer \in 1 .. MaxPeriod + 1
      BY <2>3 DEF SweepSafe
    <3>2. period_timer' = (period_timer - 1) % 256
      BY <2>3 DEF sweep_clock
    <3>3. (period_timer - 1) \in 1 .. MaxPeriod /\ period_timer - 1 < 256
      BY <2>3, <3>1, SweepConstants
    <3> QED
      BY <3>2, <3>3, SweepConstants
  <2> QED
    BY <2>1, <2>2, <2>3
<1>3. shadow_frequency' \in Frequencies /\ reg_frequency' \in Frequencies
  <2>1. shadow_frequency \in Frequencies /\ reg_frequency \in Frequencies
    BY DEF SweepTypeOK
  <2>2. Moves => Swept(shadow_frequency) \in Frequencies
    BY <2>1, SweptRange DEF Moves
  <2> QED
    BY <2>1, <2>2 DEF sweep_clock
<1>4. checked' \in BOOLEAN /\ negated_since_trigger' \in BOOLEAN
  BY Zenon DEF sweep_clock
<1> QED
  BY <1>1, <1>2, <1>3, <1>4 DEF SweepTypeOK

\* The new frequency of a write to NR14.
LEMMA MsbRange ==
  ASSUME SweepTypeOK, NEW msb \in Msbs
  PROVE  WithMsb(msb) \in Frequencies
<1>1. reg_frequency \in Nat
  BY SweepConstants DEF SweepTypeOK, Frequencies
<1>2. (reg_frequency % LowCodes) \in 0 .. LowCodes - 1
  BY <1>1, SweepConstants
<1> QED
  BY <1>2, PartsRange DEF WithMsb

\* That of a write to NR13.
LEMMA LsbRange ==
  ASSUME SweepTypeOK, NEW lsb \in 0 .. LowCodes - 1
  PROVE  LowCodes * (reg_frequency \div LowCodes) + lsb \in Frequencies
<1>1. reg_frequency \in Nat /\ reg_frequency <= MaxFrequency
  BY SweepConstants DEF SweepTypeOK, Frequencies
<1>2. reg_frequency \div LowCodes \in Nat /\ reg_frequency \div LowCodes <= MaxFrequency \div LowCodes
  BY <1>1, SweepConstants
<1>3. reg_frequency \div LowCodes \in Msbs
  BY <1>2, SweepConstants DEF Msbs
<1> QED
  BY <1>3, PartsRange

\* Every step of channel 1 keeps the types of channel and sweep.
LEMMA Channel1Types ==
  ASSUME Shifts, VoiceTypeOK, SweepTypeOK, SweepSafe, Channel1Next
  PROVE  VoiceTypeOK' /\ SweepTypeOK'
<1>1. CASE sequence_sweep
  <2> DEFINE overflows == frame_sequencer_step \in {2, 6} /\ ClockOverflows
  <2>1. overflows \in BOOLEAN /\ sequence(overflows)
    BY <1>1 DEF sequence_sweep
  <2>2. VoiceTypeOK'
    <3> HIDE DEF overflows
    <3> QED
      BY <2>1, SequenceTypes
  <2>3. sweep_clock \/ UNCHANGED sweep_vars
    BY <1>1 DEF sequence_sweep
  <2>4. UNCHANGED sweep_vars => SweepTypeOK'
    BY DEF SweepTypeOK, sweep_vars, regs
  <2> QED
    BY <2>2, <2>3, <2>4, SweepClockTypes
<1>2. ASSUME NEW p \in 0 .. MaxPeriod, NEW n \in BOOLEAN, NEW sh \in 0 .. MaxShift, write_nr10(p, n, sh)
      PROVE  VoiceTypeOK' /\ SweepTypeOK'
  <2>1. VoiceTypeOK'
    BY <1>2 DEF write_nr10, VoiceTypeOK, LengthTypeOK, apu_vars, counter_vars
  <2>2. SweepTypeOK'
    BY <1>2 DEF write_nr10, write_nr10_regs, SweepTypeOK
  <2> QED
    BY <2>1, <2>2
<1>3. ASSUME NEW lsb \in 0 .. LowCodes - 1, write_nr13(lsb)
      PROVE  VoiceTypeOK' /\ SweepTypeOK'
  <2>1. VoiceTypeOK'
    BY <1>3, IdleTypes DEF write_nr13
  <2>2. reg_frequency' \in Frequencies
    BY <1>3, LsbRange DEF write_nr13, set_frequency_lsb
  <2>3. SweepTypeOK'
    BY <1>3, <2>2 DEF write_nr13, set_frequency_lsb, SweepTypeOK, regs
  <2> QED
    BY <2>1, <2>3
<1>4. ASSUME NEW msb \in Msbs, NEW trigger \in BOOLEAN, NEW enable \in BOOLEAN,
             write_nr14(msb, trigger, enable)
      PROVE  VoiceTypeOK' /\ SweepTypeOK'
  <2>1. TriggerOverflows(msb) \in BOOLEAN
    BY DEF TriggerOverflows
  <2>2. VoiceTypeOK'
    BY <1>4, <2>1, ControlTypes DEF write_nr14
  <2>3. WithMsb(msb) \in Frequencies
    BY MsbRange
  <2>4. CASE sweep_trigger(msb)
    <3>1. Reload(period) \in 0 .. MaxPeriod + 1
      BY ReloadRange, SweepConstants DEF SweepTypeOK
    <3>2. /\ reg_frequency' \in Frequencies /\ shadow_frequency' \in Frequencies
          /\ period_timer' \in 0 .. MaxPeriod + 1
      BY <2>3, <2>4, <3>1 DEF sweep_trigger
    <3>3. /\ sweep_enabled' \in BOOLEAN /\ negated_since_trigger' \in BOOLEAN /\ checked' \in BOOLEAN
          /\ UNCHANGED regs
      BY <2>4, Zenon DEF sweep_trigger
    <3> QED
      BY <2>2, <3>2, <3>3 DEF SweepTypeOK, regs
  <2>5. CASE set_frequency_msb(msb)
    BY <2>2, <2>3, <2>5 DEF set_frequency_msb, SweepTypeOK, regs
  <2> QED
    BY <1>4, <2>4, <2>5 DEF write_nr14
<1>5. ASSUME NEW on \in BOOLEAN, power_sweep(on)
      PROVE  VoiceTypeOK' /\ SweepTypeOK'
  <2>1. VoiceTypeOK'
    BY <1>5, PowerTypes DEF power_sweep
  <2>2. sweep_shutdown \/ UNCHANGED sweep_vars
    BY <1>5 DEF power_sweep
  <2>3. ASSUME sweep_shutdown PROVE SweepTypeOK'
    <3>1. /\ period_timer' \in 0 .. MaxPeriod + 1 /\ period' \in 0 .. MaxPeriod /\ shift' \in 0 .. MaxShift
          /\ shadow_frequency' \in Frequencies /\ reg_frequency' \in Frequencies
      BY <2>3, SweepConstants DEF sweep_shutdown, Frequencies
    <3>2. sweep_enabled' = FALSE /\ negated_since_trigger' = FALSE /\ negate' = FALSE /\ checked' = FALSE
      BY <2>3 DEF sweep_shutdown
    <3> QED
      BY <3>1, <3>2 DEF SweepTypeOK
  <2>4. UNCHANGED sweep_vars => SweepTypeOK'
    BY DEF SweepTypeOK, sweep_vars, regs
  <2> QED
    BY <2>1, <2>2, <2>3, <2>4
<1>6. CASE WriteRest /\ UNCHANGED sweep_vars
  <2>1. VoiceTypeOK'
    BY <1>6, LengthTypes, DacTypes DEF WriteRest
  <2> QED
    BY <1>6, <2>1 DEF SweepTypeOK, sweep_vars, regs
<1> QED
  BY <1>1, <1>2, <1>3, <1>4, <1>5, <1>6 DEF Channel1Next, WriteSweep, WriteNr14, PowerSweep

-----------------------------------------------------------------------------
\* A step of the envelope keeps its types: the volume stops at its ends.
LEMMA EnvelopeClockTypes ==
  ASSUME EnvelopeTypeOK, EnvInv, env_clock
  PROVE  EnvelopeTypeOK'
<1>1. EnvInv'
  BY EnvClockKeeps
<1>2. UNCHANGED <<initial_volume, add_mode, env_period>> /\ env_enabled' \in BOOLEAN
  BY Zenon DEF env_clock, nrx2
<1>3. env_timer' \in 0 .. MaxPace + 1
  <2>1. CASE env_enabled /\ env_period # 0 /\ env_timer = 1
    <3>1. Pace \in 0 .. MaxPace + 1
      BY PaceRange, EnvelopeConstants DEF EnvInv
    <3> QED
      BY <2>1, <3>1 DEF env_clock
  <2>2. CASE env_enabled /\ env_period # 0 /\ env_timer # 1
    <3>1. env_timer' = (env_timer - 1) % 256
      BY <2>2 DEF env_clock
    <3>2. env_timer \in 1 .. MaxPace + 1
      BY <2>2 DEF EnvInv
    <3>3. (env_timer - 1) \in 1 .. MaxPace /\ env_timer - 1 < 256
      BY <2>2, <3>2, EnvelopeConstants
    <3> QED
      BY <3>1, <3>3, EnvelopeConstants
  <2>3. CASE ~(env_enabled /\ env_period # 0)
    BY <2>3 DEF env_clock, EnvelopeTypeOK
  <2> QED
    BY <2>1, <2>2, <2>3
<1>4. volume' \in Volumes
  <2>1. volume \in Volumes
    BY DEF EnvelopeTypeOK
  <2>2. Moved \in Volumes
    BY <2>1, EnvelopeConstants DEF Moved, Volumes
  <2> QED
    BY <2>1, <2>2 DEF env_clock
<1> QED
  BY <1>2, <1>3, <1>4 DEF EnvelopeTypeOK

\* Every step of channel 2 keeps the types of channel and envelope.
LEMMA Channel2Types ==
  ASSUME VoiceTypeOK, EnvelopeTypeOK, EnvInv, Channel2Next
  PROVE  VoiceTypeOK' /\ EnvelopeTypeOK'
<1>1. UNCHANGED env_vars => EnvelopeTypeOK'
  BY DEF EnvelopeTypeOK, env_vars, nrx2
<1>2. CASE sequence_envelope
  <2>1. VoiceTypeOK'
    BY <1>2, SequenceTypes DEF sequence_envelope
  <2>2. env_clock \/ UNCHANGED env_vars
    BY <1>2 DEF sequence_envelope
  <2> QED
    BY <1>1, <2>1, <2>2, EnvelopeClockTypes
<1>3. ASSUME NEW v \in Volumes, NEW add \in BOOLEAN, NEW p \in 0 .. MaxPace, write_nr22(v, add, p)
      PROVE  VoiceTypeOK' /\ EnvelopeTypeOK'
  <2>1. (v # 0 \/ add) \in BOOLEAN
    OBVIOUS
  <2>2. VoiceTypeOK'
    BY <1>3, <2>1, DacTypes DEF write_nr22
  <2>3. EnvelopeTypeOK'
    BY <1>3 DEF write_nr22, write_nrx2, EnvelopeTypeOK
  <2> QED
    BY <2>2, <2>3
<1>4. ASSUME NEW trigger \in BOOLEAN, NEW enable \in BOOLEAN, write_nr24(trigger, enable)
      PROVE  VoiceTypeOK' /\ EnvelopeTypeOK'
  <2>1. VoiceTypeOK'
    BY <1>4, ControlTypes DEF write_nr24
  <2>2. env_trigger \/ UNCHANGED env_vars
    BY <1>4 DEF write_nr24
  <2>3. ASSUME env_trigger PROVE EnvelopeTypeOK'
    <3>1. Pace \in 0 .. MaxPace + 1
      BY PaceRange, EnvelopeConstants DEF EnvInv
    <3> QED
      BY <2>3, <3>1 DEF env_trigger, EnvelopeTypeOK, nrx2
  <2> QED
    BY <1>1, <2>1, <2>2, <2>3
<1>5. ASSUME NEW on \in BOOLEAN, power_envelope(on)
      PROVE  VoiceTypeOK' /\ EnvelopeTypeOK'
  <2>1. VoiceTypeOK'
    BY <1>5, PowerTypes DEF power_envelope
  <2>2. env_shutdown \/ UNCHANGED env_vars
    BY <1>5 DEF power_envelope
  <2>3. ASSUME env_shutdown PROVE EnvelopeTypeOK'
    <3>1. /\ env_timer' \in 0 .. MaxPace + 1 /\ env_period' \in 0 .. MaxPace
          /\ volume' \in Volumes /\ initial_volume' \in Volumes
      BY <2>3, EnvelopeConstants DEF env_shutdown, Volumes
    <3>2. env_enabled' = FALSE /\ add_mode' = FALSE
      BY <2>3 DEF env_shutdown
    <3> QED
      BY <3>1, <3>2 DEF EnvelopeTypeOK
  <2> QED
    BY <1>1, <2>1, <2>2, <2>3
<1>6. CASE WriteLength /\ UNCHANGED env_vars
  BY <1>1, <1>6, LengthTypes
<1> QED
  BY <1>2, <1>3, <1>4, <1>5, <1>6 DEF Channel2Next, WriteEnvelope, WriteNr24, PowerEnvelope

-----------------------------------------------------------------------------
\* The samples counted are fewer than the noise is long.
SamplesFit == samples \in Nat /\ samples < AllLong

\* The register and its history, in the widths of the code.
LEMMA NoiseTypes ==
  ASSUME Widths, NoiseInv, SamplesFit, switched \in BOOLEAN
  PROVE  NoiseTypeOK
<1>1. 2 ^ LongBits = 32768
  BY DEF Widths
<1>2. lfsr \in 0 .. 2 ^ LongBits - 1
  BY <1>1 DEF NoiseInv, Fits
<1>3. samples \in 0 .. 2 ^ LongBits - 2
  BY <1>1 DEF SamplesFit, AllLong
<1> QED
  BY <1>2, <1>3 DEF NoiseTypeOK, NoiseInv

\* Every step keeps the count of the samples in its range.
LEMMA SamplesKept ==
  ASSUME Widths, SamplesFit, switched \in BOOLEAN, [NoiseNext]_noise_vars
  PROVE  SamplesFit' /\ switched' \in BOOLEAN
<1>1. Repeat = AllShort \/ Repeat = AllLong
  <2>1. Bits = 7 \/ Bits = 15
    BY DEF Bits, Widths
  <2>2. 2 ^ 7 - 1 = AllShort /\ 2 ^ 15 - 1 = AllLong
    BY DEF AllShort, AllLong
  <2> QED
    BY <2>1, <2>2 DEF Repeat
<1>2. samples' = 0 \/ samples' = samples \/ samples' = (samples + 1) % Repeat
  BY DEF noise_clock, noise_trigger, write_nr43, NoiseNext, noise_vars
<1>3. (samples + 1) % Repeat \in Nat /\ (samples + 1) % Repeat < AllLong
  BY <1>1 DEF SamplesFit, AllShort, AllLong
<1>4. SamplesFit'
  <2>1. 0 < AllLong
    BY DEF AllLong
  <2> QED
    BY <1>2, <1>3, <2>1 DEF SamplesFit
<1>5. switched' \in BOOLEAN
  BY Zenon DEF noise_clock, noise_trigger, write_nr43, NoiseNext, noise_vars
<1> QED
  BY <1>4, <1>5

-----------------------------------------------------------------------------
\* The type invariant with what it needs to be inductive: the invariants of the
\* sweep, the envelope and the noise, without which a timer could wrap around.
TypeInv ==
  /\ part \in DOMAIN Models
  /\ VoiceTypeOK /\ SweepTypeOK /\ EnvelopeTypeOK
  /\ NoiseInv /\ SamplesFit /\ switched \in BOOLEAN

\* It holds at the start.
LEMMA TypesInitial == Init => TypeInv
<1> SUFFICES ASSUME Init PROVE TypeInv
  OBVIOUS
<1>1. /\ part \in {"Channel1", "Channel2", "Noise"} /\ \E playing \in BOOLEAN : VoiceInit(playing)
      /\ SweepInit /\ EnvelopeInit /\ NoiseInit
  BY DEF Init, Channel1Init, Channel2Init
<1>2. part \in DOMAIN Models
  BY <1>1, ApuConstants
<1>3. VoiceTypeOK
  <2>1. PICK playing \in BOOLEAN : VoiceInit(playing)
    BY <1>1
  <2>2. frame_sequencer_step \in 0 .. 7 /\ frame_seq_step \in 0 .. 7 /\ count \in 0 .. InitialCount
    BY <2>1 DEF VoiceInit, LengthInit
  <2>3. /\ cgb \in BOOLEAN /\ audio_enabled = TRUE /\ is_enabled = playing /\ reg_dac_enable = playing
        /\ enabled = FALSE /\ stepped_off = FALSE
    BY <2>1 DEF VoiceInit, LengthInit
  <2> QED
    BY <2>2, <2>3 DEF VoiceTypeOK, LengthTypeOK
<1>4. SweepTypeOK
  <2>1. /\ period_timer \in 0 .. MaxPeriod + 1 /\ period \in 0 .. MaxPeriod /\ shift \in 0 .. MaxShift
        /\ shadow_frequency \in Frequencies /\ reg_frequency \in Frequencies
    BY <1>1, SweepConstants DEF SweepInit, Frequencies
  <2>2. sweep_enabled = FALSE /\ negated_since_trigger = FALSE /\ negate = FALSE /\ checked = FALSE
    BY <1>1 DEF SweepInit
  <2> QED
    BY <2>1, <2>2 DEF SweepTypeOK
<1>5. EnvelopeTypeOK
  <2>1. /\ env_timer \in 0 .. MaxPace + 1 /\ env_period \in 0 .. MaxPace
        /\ volume \in Volumes /\ initial_volume \in Volumes
    BY <1>1, EnvelopeConstants DEF EnvelopeInit, Volumes
  <2>2. env_enabled = FALSE /\ add_mode = FALSE
    BY <1>1 DEF EnvelopeInit
  <2> QED
    BY <2>1, <2>2 DEF EnvelopeTypeOK
<1>6. NoiseInv
  BY NoiseInitial
<1>7. SamplesFit /\ switched \in BOOLEAN
  <2>1. samples = 0 /\ switched = FALSE
    BY <1>1 DEF NoiseInit
  <2>2. SamplesFit
    BY <2>1 DEF SamplesFit, AllLong
  <2> QED
    BY <2>1, <2>2
<1> QED
  BY <1>2, <1>3, <1>4, <1>5, <1>6, <1>7 DEF TypeInv

\* For the widths of NR10's shift and of the noise in the code: no timer, count,
\* volume, frequency or register of the channels leaves its range, though the
\* timers are bytes that are counted down with wrapping_sub().
THEOREM ApuTypesCorrect ==
  ASSUME Shifts, Widths
  PROVE  Spec => []TypeOK
<1>1. TypeInv /\ SweepSafe /\ EnvInv /\ [Next]_vars => TypeInv'
  <2> SUFFICES ASSUME TypeInv, SweepSafe, EnvInv, [Next]_vars PROVE TypeInv'
    OBVIOUS
  <2>1. part' = part /\ [NoiseNext]_noise_vars
    BY DEF Next, vars
  <2>2. NoiseInv' /\ SamplesFit' /\ switched' \in BOOLEAN
    BY <2>1, NoiseKeeps, SamplesKept DEF TypeInv
  <2>3. UNCHANGED sweep_vars => SweepTypeOK'
    BY DEF TypeInv, SweepTypeOK, sweep_vars, regs
  <2>4. UNCHANGED env_vars => EnvelopeTypeOK'
    BY DEF TypeInv, EnvelopeTypeOK, env_vars, nrx2
  <2>5. VoiceTypeOK' /\ SweepTypeOK' /\ EnvelopeTypeOK'
    <3>1. CASE Channel1Next /\ UNCHANGED env_vars
      BY <2>4, <3>1, Channel1Types DEF TypeInv
    <3>2. CASE Channel2Next /\ UNCHANGED sweep_vars
      BY <2>3, <3>2, Channel2Types DEF TypeInv
    <3>3. CASE UNCHANGED <<voice_vars, sweep_vars, env_vars>>
      BY <2>3, <2>4, <3>3, IdleTypes DEF TypeInv
    <3> QED
      BY <3>1, <3>2, <3>3 DEF Next, vars
  <2> QED
    BY <2>1, <2>2, <2>5 DEF TypeInv
<1>2. TypeInv => TypeOK
  BY NoiseTypes DEF TypeInv, TypeOK
<1> QED
  BY <1>1, <1>2, TypesInitial, SweepCorrect, EnvInvariance, PTL DEF Spec

HIDE LengthConstants

-----------------------------------------------------------------------------
(* The length of the noise: the states the register goes through from 0,   *)
(* as a function of the number of samples.                                 *)

\* A non-empty set of natural numbers has a least element.
LEMMA Least ==
  ASSUME NEW T, T \subseteq Nat, T # {}
  PROVE  \E a \in T : \A b \in T : a <= b
<1> DEFINE R == {p \in Nat \X Nat : p[1] < p[2]}
<1>1. IsWellFoundedOn(R, Nat)
  BY NatLessThanWellFounded DEF OpToRel
<1>2. \A a, b \in Nat : a < b => <<a, b>> \in R
  OBVIOUS
<1> HIDE DEF R
<1>3. PICK a \in T : \A b \in T : ~ (<<b, a>> \in R)
  BY <1>1, WFMin
<1>4. SUFFICES ASSUME NEW b \in T PROVE a <= b
  BY Zenon
<1>5. ~(b < a)
  BY <1>2, <1>3
<1> QED
  BY <1>5

\* Induction over the natural numbers, for a set instead of a predicate.
LEMMA NatInduct ==
  ASSUME NEW T, 0 \in T, \A n \in Nat : n \in T => n + 1 \in T
  PROVE  \A n \in Nat : n \in T
<1> DEFINE C == Nat \ T
<1>1. SUFFICES ASSUME C # {} PROVE FALSE
  OBVIOUS
<1>2. C \subseteq Nat
  OBVIOUS
<1> HIDE DEF C
<1>3. PICK a \in C : \A b \in C : a <= b
  BY <1>1, <1>2, Least
<1> USE DEF C
<1>4. a \in Nat /\ a # 0
  OBVIOUS
<1>5. a - 1 \in Nat /\ a - 1 \in T
  BY <1>3, <1>4
<1> QED
  BY <1>4, <1>5

\* A register of which top is the highest bit, clocked.
Successor(v, top) == v \div 2 + top * (((v % 2) + ((v \div 2) % 2) + 1) % 2)

IsPath(g, n, top) == g[0] = 0 /\ \A k \in 0 .. n - 1 : g[k + 1] = Successor(g[k], top)
IsOrbit(o, top) ==
  /\ o = [n \in Nat |-> o[n]]
  /\ o[0] = 0 /\ \A n \in Nat : o[n + 1] = Successor(o[n], top)

\* The register can be clocked any number of times.
LEMMA Paths ==
  ASSUME NEW top
  PROVE  \A n \in Nat : \E g : IsPath(g, n, top)
<1> DEFINE T == {n \in Nat : \E g : IsPath(g, n, top)}
<1>1. 0 \in T
  <2>1. IsPath([k \in {0} |-> 0], 0, top)
    BY DEF IsPath
  <2> QED
    BY <2>1
<1>2. ASSUME NEW n \in Nat, n \in T PROVE n + 1 \in T
  <2>1. PICK g : IsPath(g, n, top)
    BY <1>2
  <2> DEFINE h == [k \in 0 .. n + 1 |-> IF k <= n THEN g[k] ELSE Successor(g[n], top)]
  <2>2. h[0] = 0 /\ \A k \in 0 .. n : h[k] = g[k]
    BY <2>1 DEF IsPath
  <2>3. h[n + 1] = Successor(g[n], top)
    OBVIOUS
  <2> HIDE DEF h
  <2>4. ASSUME NEW k \in 0 .. n PROVE h[k + 1] = Successor(h[k], top)
    <3>1. CASE k = n
      BY <2>2, <2>3, <3>1
    <3>2. CASE k # n
      BY <2>1, <2>2, <3>2 DEF IsPath
    <3> QED
      BY <3>1, <3>2
  <2>5. IsPath(h, n + 1, top)
    BY <2>2, <2>4 DEF IsPath
  <2> QED
    BY <2>5
<1> HIDE DEF T
<1>3. \A n \in Nat : n \in T
  BY <1>1, <1>2, NatInduct
<1> QED
  BY <1>3 DEF T

\* It goes through the same states each time.
LEMMA PathsAgree ==
  ASSUME NEW top, NEW g, NEW h, NEW n \in Nat, NEW m \in Nat, n <= m,
         IsPath(g, n, top), IsPath(h, m, top)
  PROVE  g[n] = h[n]
<1> DEFINE T == {k \in Nat : k <= n => g[k] = h[k]}
<1>1. 0 \in T
  BY DEF IsPath
<1>2. ASSUME NEW k \in Nat, k \in T PROVE k + 1 \in T
  <2> SUFFICES ASSUME k + 1 <= n PROVE g[k + 1] = h[k + 1]
    OBVIOUS
  <2>1. k \in 0 .. n - 1 /\ k \in 0 .. m - 1 /\ g[k] = h[k]
    BY <1>2
  <2> QED
    BY <2>1 DEF IsPath
<1> HIDE DEF T
<1>3. n \in T
  BY <1>1, <1>2, NatInduct
<1> QED
  BY <1>3 DEF T

\* So there is the function of all of them.
LEMMA Orbits ==
  ASSUME NEW top
  PROVE  \E o : IsOrbit(o, top)
<1> DEFINE path(n) == CHOOSE g : IsPath(g, n, top)
<1> DEFINE o == [n \in Nat |-> path(n)[n]]
<1>1. \A n \in Nat : IsPath(path(n), n, top)
  BY Paths
<1>2. \A n \in Nat : o[n] = path(n)[n]
  OBVIOUS
<1>3. o = [n \in Nat |-> o[n]]
  OBVIOUS
<1> HIDE DEF path, o
<1>4. o[0] = 0
  BY <1>1, <1>2 DEF IsPath
<1>5. ASSUME NEW n \in Nat PROVE o[n + 1] = Successor(o[n], top)
  <2>1. IsPath(path(n), n, top) /\ IsPath(path(n + 1), n + 1, top)
    BY <1>1
  <2>2. path(n)[n] = path(n + 1)[n]
    <3>1. n + 1 \in Nat /\ n <= n + 1
      OBVIOUS
    <3> QED
      BY <2>1, <3>1, PathsAgree
  <2>3. path(n + 1)[n + 1] = Successor(path(n + 1)[n], top)
    BY <2>1 DEF IsPath
  <2> QED
    BY <1>2, <2>2, <2>3
<1> QED
  BY <1>3, <1>4, <1>5 DEF IsOrbit

Tops == {64, 16384}

\* What a clock leaves is a state of the register.
LEMMA SuccessorFits ==
  ASSUME NEW top \in Tops, NEW v \in Nat, v < 2 * top
  PROVE  Successor(v, top) \in Nat /\ Successor(v, top) < 2 * top
<1> DEFINE bit == ((v % 2) + ((v \div 2) % 2) + 1) % 2
<1>1. v % 2 \in Nat /\ v \div 2 \in Nat /\ v \div 2 < top /\ (v \div 2) % 2 \in Nat
  BY DEF Tops
<1>2. bit = 0 \/ bit = 1
  BY <1>1
<1>3. Successor(v, top) = v \div 2 + top * bit
  BY DEF Successor
<1> HIDE DEF bit
<1>4. top \in Nat
  BY DEF Tops
<1>5. CASE bit = 0
  BY <1>1, <1>3, <1>4, <1>5
<1>6. CASE bit = 1
  BY <1>1, <1>3, <1>4, <1>6
<1> QED
  BY <1>2, <1>5, <1>6

\* So are all of them.
LEMMA OrbitFits ==
  ASSUME NEW top \in Tops, NEW o, IsOrbit(o, top)
  PROVE  \A n \in Nat : o[n] \in Nat /\ o[n] < 2 * top
<1> DEFINE T == {n \in Nat : o[n] \in Nat /\ o[n] < 2 * top}
<1>1. 0 \in T
  BY DEF IsOrbit, Tops
<1>2. ASSUME NEW n \in Nat, n \in T PROVE n + 1 \in T
  <2>1. o[n] \in Nat /\ o[n] < 2 * top
    BY <1>2
  <2>2. o[n + 1] = Successor(o[n], top)
    BY Zenon DEF IsOrbit
  <2> QED
    BY <1>2, <2>1, <2>2, SuccessorFits
<1> HIDE DEF T
<1>3. \A n \in Nat : n \in T
  BY <1>1, <1>2, NatInduct
<1> QED
  BY <1>3 DEF T

\* From a return to 0 on the states are those from the start on.
LEMMA Returned ==
  ASSUME NEW top, NEW o, IsOrbit(o, top), NEW n \in Nat, o[n] = 0
  PROVE  \A m \in Nat : o[n + m] = o[m]
<1> DEFINE T == {m \in Nat : o[n + m] = o[m]}
<1>1. 0 \in T
  BY DEF IsOrbit
<1>2. ASSUME NEW m \in Nat, m \in T PROVE m + 1 \in T
  <2>1. o[(n + m) + 1] = Successor(o[n + m], top) /\ o[m + 1] = Successor(o[m], top)
    BY DEF IsOrbit
  <2>2. n + (m + 1) = (n + m) + 1
    OBVIOUS
  <2> QED
    BY <1>2, <2>1, <2>2
<1> HIDE DEF T
<1>3. \A m \in Nat : m \in T
  BY <1>1, <1>2, NatInduct
<1> QED
  BY <1>3 DEF T

\* It returns after every multiple of the samples it returns after.
LEMMA ReturnsAgain ==
  ASSUME NEW top, NEW o, IsOrbit(o, top), NEW d \in Nat, o[d] = 0
  PROVE  \A e \in Nat : o[d * e] = 0
<1> DEFINE T == {e \in Nat : o[d * e] = 0}
<1>1. 0 \in T
  BY DEF IsOrbit
<1>2. ASSUME NEW e \in Nat, e \in T PROVE e + 1 \in T
  <2>1. d * e \in Nat /\ d * (e + 1) = d + d * e
    OBVIOUS
  <2>2. o[d + d * e] = o[d * e]
    BY <2>1, Returned
  <2> QED
    BY <1>2, <2>1, <2>2
<1> HIDE DEF T
<1>3. \A e \in Nat : e \in T
  BY <1>1, <1>2, NatInduct
<1> QED
  BY <1>3 DEF T

\* The first return divides every other one.
LEMMA FirstReturn ==
  ASSUME NEW top, NEW o, IsOrbit(o, top), NEW n \in Nat \ {0}, o[n] = 0
  PROVE  \E d, e \in Nat \ {0} : /\ n = d * e /\ o[d] = 0
                                /\ \A m \in Nat \ {0} : o[m] = 0 => d <= m
<1> DEFINE T == {m \in Nat \ {0} : o[m] = 0}
<1>1. T \subseteq Nat /\ n \in T
  OBVIOUS
<1>2. \E a \in T : \A b \in T : a <= b
  <2> HIDE DEF T
  <2> QED
    BY <1>1, Least
<1>3. PICK d \in T : \A b \in T : d <= b
  BY <1>2
<1>4. d \in Nat \ {0} /\ o[d] = 0 /\ \A m \in Nat \ {0} : o[m] = 0 => d <= m
  BY <1>3
<1> HIDE DEF T
<1> DEFINE e == n \div d
<1> DEFINE r == n % d
<1>5. e \in Nat /\ r \in Nat /\ r < d /\ n = d * e + r
  BY <1>4
<1> HIDE DEF e, r
<1>6. d * e \in Nat
  BY <1>4, <1>5
<1>7. o[d * e] = 0
  BY <1>4, <1>5, ReturnsAgain
<1>8. o[d * e + r] = o[r]
  BY <1>5, <1>6, <1>7, Returned
<1>9. r = 0
  <2>1. o[r] = 0
    BY <1>5, <1>8
  <2> QED
    BY <1>4, <1>5, <2>1
<1>10. n = d * e
  BY <1>5, <1>6, <1>9
<1>11. e # 0
  BY <1>4, <1>10
<1> QED
  BY <1>4, <1>5, <1>10, <1>11

-----------------------------------------------------------------------------
(* The states in terms of the bits that leave the register. *)

\* The bit that leaves the register in state n, and the one that enters it then.
OutAt(o, n) == o[n] % 2
InAt(o, n) == (OutAt(o, n) + OutAt(o, n + 1) + 1) % 2

\* The register is halved: what it was, from what it gets to be.
LEMMA Halved ==
  ASSUME NEW top \in Tops, NEW o, IsOrbit(o, top), NEW n \in Nat
  PROVE  /\ o[n] = 2 * o[n + 1] + OutAt(o, n) - 2 * top * InAt(o, n)
         /\ OutAt(o, n) \in {0, 1} /\ InAt(o, n) \in {0, 1}
         /\ o[n] \in Nat /\ o[n] < 2 * top
<1>1. o[n] \in Nat /\ o[n] < 2 * top
  BY OrbitFits
<1>2. o[n + 1] \in Nat
  <2>1. n + 1 \in Nat
    OBVIOUS
  <2> QED
    BY <2>1, OrbitFits
<1> DEFINE v == o[n]
<1> DEFINE w == o[n + 1]
<1> DEFINE half == v \div 2
<1> DEFINE fed == ((v % 2) + (half % 2) + 1) % 2
<1>3. w = half + top * fed
  <2>1. o[n + 1] = Successor(o[n], top)
    BY Zenon DEF IsOrbit
  <2> QED
    BY <2>1, Zenon DEF Successor
<1>4. half \in Nat /\ v % 2 \in {0, 1} /\ v = 2 * half + (v % 2) /\ half % 2 \in {0, 1}
  BY <1>1
<1>5. fed \in {0, 1}
  BY <1>4
<1>6. w % 2 = half % 2
  <2> HIDE DEF half, fed, v, w
  <2>1. CASE top = 64
    BY <1>3, <1>4, <1>5, <2>1
  <2>2. CASE top = 16384
    BY <1>3, <1>4, <1>5, <2>2
  <2> QED
    BY <2>1, <2>2 DEF Tops
<1>7. InAt(o, n) = fed
  BY <1>6 DEF InAt, OutAt
<1>8. OutAt(o, n) = v % 2
  BY DEF OutAt
<1>9. v = 2 * w + (v % 2) - 2 * top * fed
  <2> HIDE DEF half, fed, v, w
  <2>1. CASE top = 64
    BY <1>3, <1>4, <1>5, <2>1
  <2>2. CASE top = 16384
    BY <1>3, <1>4, <1>5, <2>2
  <2> QED
    BY <2>1, <2>2 DEF Tops
<1> HIDE DEF half, fed
<1> QED
  BY <1>1, <1>4, <1>5, <1>7, <1>8, <1>9

\* Five bits as a number, and two.
Five(c, k) == c[k] + 2 * c[k + 1] + 4 * c[k + 2] + 8 * c[k + 3] + 16 * c[k + 4]
Two(c, k) == c[k] + 2 * c[k + 1]

AreBits(c) == \A i \in Nat : c[i] \in Nat /\ c[i] <= 1
Clear(c, k, m) == \A i \in Nat : k <= i /\ i < m => c[i] = 0

\* v is halved: b leaves it and y enters it.
AreHalved(v, b, y) == \A i \in Nat : /\ v[i] = 2 * v[i + 1] + b[i] - y[i]
                                     /\ v[i] \in Nat /\ b[i] \in Nat /\ y[i] \in Nat

\* Five bits are a number below 32, which is 0 if they all are.
LEMMA FiveFit ==
  ASSUME NEW c, NEW k \in Nat, AreBits(c)
  PROVE  /\ Five(c, k) \in Nat /\ Five(c, k) < 32 /\ Five(c, k) % 2 = c[k]
         /\ Five(c, k) = 0 <=> Clear(c, k, k + 5)
<1>1. PICK c0, c1, c2, c3, c4 : /\ c0 = c[k] /\ c1 = c[k + 1] /\ c2 = c[k + 2]
                                /\ c3 = c[k + 3] /\ c4 = c[k + 4]
  OBVIOUS
<1>2. k + 1 \in Nat /\ k + 2 \in Nat /\ k + 3 \in Nat /\ k + 4 \in Nat
  OBVIOUS
<1>3. /\ c0 \in Nat /\ c0 <= 1 /\ c1 \in Nat /\ c1 <= 1 /\ c2 \in Nat /\ c2 <= 1
      /\ c3 \in Nat /\ c3 <= 1 /\ c4 \in Nat /\ c4 <= 1
  BY <1>1, <1>2 DEF AreBits
<1> DEFINE high == c3 + 2 * c4
<1> DEFINE rest == c1 + 2 * c2 + 4 * high
<1>4. high \in Nat /\ high <= 3 /\ (high = 0 <=> c3 = 0 /\ c4 = 0)
  BY <1>3
<1>5. Five(c, k) = c0 + 2 * rest
  <2>1. Five(c, k) = c0 + 2 * c1 + 4 * c2 + 8 * c3 + 16 * c4
    BY ONLY <1>1 DEF Five
  <2>2. c0 + 2 * c1 + 4 * c2 + 8 * c3 + 16 * c4 = c0 + 2 * rest
    BY ONLY <1>3 DEF rest, high
  <2> QED
    BY ONLY <2>1, <2>2
<1> HIDE DEF high
<1>6. rest \in Nat /\ rest <= 15 /\ (rest = 0 <=> c1 = 0 /\ c2 = 0 /\ high = 0)
  BY <1>3, <1>4
<1> HIDE DEF rest
<1>7. /\ Five(c, k) \in Nat /\ Five(c, k) < 32 /\ Five(c, k) % 2 = c0
      /\ Five(c, k) = 0 <=> c0 = 0 /\ rest = 0
  BY <1>3, <1>5, <1>6
<1>8. Five(c, k) = 0 <=> c0 = 0 /\ c1 = 0 /\ c2 = 0 /\ c3 = 0 /\ c4 = 0
  BY <1>4, <1>6, <1>7
<1>9. Clear(c, k, k + 5) <=> c0 = 0 /\ c1 = 0 /\ c2 = 0 /\ c3 = 0 /\ c4 = 0
  <2>1. ASSUME Clear(c, k, k + 5)
        PROVE  c0 = 0 /\ c1 = 0 /\ c2 = 0 /\ c3 = 0 /\ c4 = 0
    BY <1>1, <1>2, <2>1 DEF Clear
  <2>2. ASSUME c0 = 0, c1 = 0, c2 = 0, c3 = 0, c4 = 0, NEW i \in Nat, k <= i, i < k + 5
        PROVE  c[i] = 0
    <3>1. i = k \/ i = k + 1 \/ i = k + 2 \/ i = k + 3 \/ i = k + 4
      BY <2>2
    <3> QED
      BY <1>1, <2>2, <3>1
  <2> QED
    BY <2>1, <2>2 DEF Clear
<1> QED
  BY <1>1, <1>7, <1>8, <1>9

\* The same for two bits.
LEMMA TwoFit ==
  ASSUME NEW c, NEW k \in Nat, AreBits(c)
  PROVE  /\ Two(c, k) \in Nat /\ Two(c, k) < 4
         /\ Two(c, k) = 0 <=> Clear(c, k, k + 2)
<1>1. PICK c0, c1 : c0 = c[k] /\ c1 = c[k + 1]
  OBVIOUS
<1>2. k + 1 \in Nat
  OBVIOUS
<1>3. c0 \in Nat /\ c0 <= 1 /\ c1 \in Nat /\ c1 <= 1
  BY <1>1, <1>2 DEF AreBits
<1>4. Two(c, k) \in Nat /\ Two(c, k) < 4 /\ (Two(c, k) = 0 <=> c0 = 0 /\ c1 = 0)
  <2>1. Two(c, k) = c0 + 2 * c1
    BY ONLY <1>1 DEF Two
  <2> QED
    BY ONLY <1>3, <2>1
<1>5. Clear(c, k, k + 2) <=> c0 = 0 /\ c1 = 0
  <2>1. ASSUME Clear(c, k, k + 2) PROVE c0 = 0 /\ c1 = 0
    BY <1>1, <1>2, <2>1 DEF Clear
  <2>2. ASSUME c0 = 0, c1 = 0, NEW i \in Nat, k <= i, i < k + 2 PROVE c[i] = 0
    <3>1. i = k \/ i = k + 1
      BY <2>2
    <3> QED
      BY <1>1, <2>2, <3>1
  <2> QED
    BY <2>1, <2>2 DEF Clear
<1> QED
  BY <1>4, <1>5

\* What five clocks make of it.
LEMMA FiveHalved ==
  ASSUME NEW v, NEW b, NEW y, NEW k \in Nat, AreHalved(v, b, y)
  PROVE  v[k] + Five(y, k) = 32 * v[k + 5] + Five(b, k)
<1> DEFINE Step(i) == /\ v[i] = 2 * v[i + 1] + b[i] - y[i]
                         /\ v[i] \in Nat /\ b[i] \in Nat /\ y[i] \in Nat
<1>1. Step(k) /\ Step(k + 1) /\ Step(k + 2) /\ Step(k + 3) /\ Step(k + 4)
  <2>1. k + 1 \in Nat /\ k + 2 \in Nat /\ k + 3 \in Nat /\ k + 4 \in Nat
    OBVIOUS
  <2> QED
    BY <2>1 DEF AreHalved
<1>2. v[k + 5] \in Nat
  <2>1. k + 5 \in Nat
    OBVIOUS
  <2> QED
    BY <2>1 DEF AreHalved
<1>3. /\ (k + 1) + 1 = k + 2 /\ (k + 2) + 1 = k + 3 /\ (k + 3) + 1 = k + 4
      /\ (k + 4) + 1 = k + 5
  OBVIOUS
<1>4. PICK v0, v1, v2, v3, v4, v5 : /\ v0 = v[k] /\ v1 = v[k + 1] /\ v2 = v[k + 2]
                                    /\ v3 = v[k + 3] /\ v4 = v[k + 4] /\ v5 = v[k + 5]
  OBVIOUS
<1>5. PICK b0, b1, b2, b3, b4 : /\ b0 = b[k] /\ b1 = b[k + 1] /\ b2 = b[k + 2]
                                /\ b3 = b[k + 3] /\ b4 = b[k + 4]
  OBVIOUS
<1>6. PICK y0, y1, y2, y3, y4 : /\ y0 = y[k] /\ y1 = y[k + 1] /\ y2 = y[k + 2]
                                /\ y3 = y[k + 3] /\ y4 = y[k + 4]
  OBVIOUS
<1>7. /\ v0 = 2 * v1 + b0 - y0 /\ v1 = 2 * v2 + b1 - y1 /\ v2 = 2 * v3 + b2 - y2
      /\ v3 = 2 * v4 + b3 - y3 /\ v4 = 2 * v5 + b4 - y4
      /\ v0 \in Nat /\ v1 \in Nat /\ v2 \in Nat /\ v3 \in Nat /\ v4 \in Nat /\ v5 \in Nat
      /\ b0 \in Nat /\ b1 \in Nat /\ b2 \in Nat /\ b3 \in Nat /\ b4 \in Nat
      /\ y0 \in Nat /\ y1 \in Nat /\ y2 \in Nat /\ y3 \in Nat /\ y4 \in Nat
  BY <1>1, <1>2, <1>3, <1>4, <1>5, <1>6
<1>8. v0 + (y0 + 2 * y1 + 4 * y2 + 8 * y3 + 16 * y4)
      = 32 * v5 + (b0 + 2 * b1 + 4 * b2 + 8 * b3 + 16 * b4)
  BY ONLY <1>7
<1> QED
  BY ONLY <1>4, <1>5, <1>6, <1>8 DEF Five

\* What two make of it.
LEMMA TwoHalved ==
  ASSUME NEW v, NEW b, NEW y, NEW k \in Nat, AreHalved(v, b, y)
  PROVE  v[k] + Two(y, k) = 4 * v[k + 2] + Two(b, k)
<1>1. k + 1 \in Nat /\ k + 2 \in Nat /\ (k + 1) + 1 = k + 2
  OBVIOUS
<1>2. /\ v[k] = 2 * v[k + 1] + b[k] - y[k] /\ v[k + 1] = 2 * v[k + 2] + b[k + 1] - y[k + 1]
      /\ v[k] \in Nat /\ v[k + 1] \in Nat /\ v[k + 2] \in Nat
      /\ b[k] \in Nat /\ b[k + 1] \in Nat /\ y[k] \in Nat /\ y[k + 1] \in Nat
  BY <1>1 DEF AreHalved
<1> QED
  BY <1>2 DEF Two


\* The whole register, from its bits five by five: v0 gets to be v3.
Fifteen(v0, v1, v2, v3, l0, l1, l2, e0, e1, e2) ==
  /\ v0 \in Nat /\ v1 \in Nat /\ v2 \in Nat /\ v3 \in Nat /\ v0 < 32768
  /\ l0 \in Nat /\ l1 \in Nat /\ l2 \in Nat /\ l0 < 32 /\ l1 < 32 /\ l2 < 32
  /\ e0 \in Nat /\ e1 \in Nat /\ e2 \in Nat
  /\ v0 + 32768 * e0 = 32 * v1 + l0
  /\ v1 + 32768 * e1 = 32 * v2 + l1
  /\ v2 + 32768 * e2 = 32 * v3 + l2

Seven(v0, v1, v2, l0, l1, e0, e1) ==
  /\ v0 \in Nat /\ v1 \in Nat /\ v2 \in Nat /\ v0 < 128
  /\ l0 \in Nat /\ l1 \in Nat /\ l0 < 32 /\ l1 < 4
  /\ e0 \in Nat /\ e1 \in Nat
  /\ v0 + 128 * e0 = 32 * v1 + l0
  /\ v1 + 128 * e1 = 4 * v2 + l1

\* In fifteen clocks all the register leaves, and all that is in it then has
\* entered.
LEMMA FifteenJoin ==
  ASSUME NEW v0, NEW v1, NEW v2, NEW v3, NEW l0, NEW l1, NEW l2, NEW e0, NEW e1, NEW e2,
         Fifteen(v0, v1, v2, v3, l0, l1, l2, e0, e1, e2)
  PROVE  /\ v0 = 0 <=> l0 = 0 /\ l1 = 0 /\ l2 = 0
         /\ v3 % 2 = e0 % 2
<1> DEFINE left == l0 + 32 * l1 + 1024 * l2
<1> DEFINE entered == e0 + 32 * e1 + 1024 * e2
<1>0. v0 \in Nat /\ v3 \in Nat /\ v0 < 32768 /\ e0 \in Nat
  BY DEF Fifteen
<1>1. v0 + 32768 * entered = 32768 * v3 + left
  BY DEF Fifteen
<1>2. left \in Nat /\ left < 32768 /\ (left = 0 <=> l0 = 0 /\ l1 = 0 /\ l2 = 0)
  BY DEF Fifteen
<1>3. entered \in Nat /\ entered % 2 = e0 % 2
  <2> DEFINE rest == 16 * e1 + 512 * e2
  <2>1. rest \in Nat /\ entered = e0 + 2 * rest
    BY DEF Fifteen
  <2> HIDE DEF rest, entered
  <2> QED
    BY <1>0, <2>1
<1> HIDE DEF left, entered
<1>4. v0 = left /\ v3 = entered
  BY <1>0, <1>1, <1>2, <1>3
<1> QED
  BY <1>2, <1>3, <1>4

\* The same for the seven clocks of the short one.
LEMMA SevenJoin ==
  ASSUME NEW v0, NEW v1, NEW v2, NEW l0, NEW l1, NEW e0, NEW e1,
         Seven(v0, v1, v2, l0, l1, e0, e1)
  PROVE  /\ v0 = 0 <=> l0 = 0 /\ l1 = 0
         /\ v2 % 2 = e0 % 2
<1> DEFINE left == l0 + 32 * l1
<1> DEFINE entered == e0 + 32 * e1
<1>0. v0 \in Nat /\ v2 \in Nat /\ v0 < 128 /\ e0 \in Nat
  BY DEF Seven
<1>1. v0 + 128 * entered = 128 * v2 + left
  BY DEF Seven
<1>2. left \in Nat /\ left < 128 /\ (left = 0 <=> l0 = 0 /\ l1 = 0)
  BY DEF Seven
<1>3. entered \in Nat /\ entered % 2 = e0 % 2
  <2> DEFINE rest == 16 * e1
  <2>1. rest \in Nat /\ entered = e0 + 2 * rest
    BY DEF Seven
  <2> HIDE DEF rest, entered
  <2> QED
    BY <1>0, <2>1
<1> HIDE DEF left, entered
<1>4. v0 = left /\ v2 = entered
  BY <1>0, <1>1, <1>2, <1>3
<1> QED
  BY <1>2, <1>3, <1>4

\* The next 15 bits that leave are those of the register, and the one after
\* them is the one that enters now.
LEMMA LongWindow ==
  ASSUME NEW o, IsOrbit(o, 16384), NEW n \in Nat
  PROVE  /\ o[n] = 0 <=> \A j \in Nat : j < 15 => OutAt(o, n + j) = 0
         /\ OutAt(o, n + 15) = InAt(o, n)
<1> DEFINE v == [i \in Nat |-> o[n + i]]
<1> DEFINE b == [i \in Nat |-> OutAt(o, n + i)]
<1> DEFINE x == [i \in Nat |-> InAt(o, n + i)]
<1> DEFINE y == [i \in Nat |-> 32768 * InAt(o, n + i)]
<1>1. ASSUME NEW i \in Nat
      PROVE  /\ v[i] = 2 * v[i + 1] + b[i] - y[i] /\ y[i] = 32768 * x[i]
             /\ v[i] \in Nat /\ v[i] < 32768 /\ y[i] \in Nat
             /\ b[i] \in Nat /\ b[i] <= 1 /\ x[i] \in Nat /\ x[i] <= 1
  <2>1. /\ n + i \in Nat /\ 16384 \in Tops /\ 2 * 16384 = 32768
        /\ n + (i + 1) = (n + i) + 1 /\ i + 1 \in Nat
    BY DEF Tops
  <2>2. /\ o[n + i] = 2 * o[(n + i) + 1] + OutAt(o, n + i) - 2 * 16384 * InAt(o, n + i)
        /\ OutAt(o, n + i) \in {0, 1} /\ InAt(o, n + i) \in {0, 1}
        /\ o[n + i] \in Nat /\ o[n + i] < 2 * 16384
    BY <2>1, Halved
  <2> QED
    BY <2>1, <2>2
<1>2. v[15] % 2 = b[15]
  BY DEF OutAt
<1>3. v[0] = o[n] /\ x[0] = InAt(o, n) /\ b[15] = OutAt(o, n + 15)
  <2>1. n + 0 = n
    OBVIOUS
  <2> QED
    BY <2>1
<1>4. \A j \in Nat : b[j] = OutAt(o, n + j)
  OBVIOUS
<1> HIDE DEF v, b, x, y
<1>5. AreBits(b) /\ AreBits(x) /\ AreHalved(v, b, y)
  BY <1>1 DEF AreBits, AreHalved
<1>6. v[0] + 32768 * Five(x, 0) = 32 * v[5] + Five(b, 0)
  <2>1. Five(y, 0) = 32768 * Five(x, 0)
    <3>1. y[0] = 32768 * x[0] /\ y[1] = 32768 * x[1] /\ y[2] = 32768 * x[2] /\ y[3] = 32768 * x[3] /\ y[4] = 32768 * x[4]
      BY <1>1
    <3>2. x[0] \in Nat /\ x[1] \in Nat /\ x[2] \in Nat /\ x[3] \in Nat /\ x[4] \in Nat
      BY <1>1
    <3>3. 0 + 1 = 1 /\ 0 + 2 = 2 /\ 0 + 3 = 3 /\ 0 + 4 = 4
      OBVIOUS
    <3>4. PICK x0, x1, x2, x3, x4 : x0 = x[0] /\ x1 = x[1] /\ x2 = x[2] /\ x3 = x[3] /\ x4 = x[4]
      OBVIOUS
    <3>5. Five(x, 0) = x0 + 2 * x1 + 4 * x2 + 8 * x3 + 16 * x4
      BY ONLY <3>3, <3>4 DEF Five
    <3>6. Five(y, 0) = 32768 * x0 + 2 * (32768 * x1) + 4 * (32768 * x2) + 8 * (32768 * x3) + 16 * (32768 * x4)
      BY ONLY <3>1, <3>3, <3>4 DEF Five
    <3>7. x0 \in Nat /\ x1 \in Nat /\ x2 \in Nat /\ x3 \in Nat /\ x4 \in Nat
      BY <3>2, <3>4
    <3> QED
      BY ONLY <3>5, <3>6, <3>7
  <2>2. 0 \in Nat /\ 0 + 5 = 5
    OBVIOUS
  <2> QED
    BY <1>5, <2>1, <2>2, FiveHalved
<1>7. /\ Five(b, 0) \in Nat /\ Five(b, 0) < 32 /\ (Five(b, 0) = 0 <=> Clear(b, 0, 5))
     /\ Five(x, 0) \in Nat /\ Five(x, 0) % 2 = x[0]
  <2>1. 0 \in Nat /\ 0 + 5 = 5
    OBVIOUS
  <2> QED
    BY <1>5, <2>1, FiveFit
<1>8. v[5] + 32768 * Five(x, 5) = 32 * v[10] + Five(b, 5)
  <2>1. Five(y, 5) = 32768 * Five(x, 5)
    <3>1. y[5] = 32768 * x[5] /\ y[6] = 32768 * x[6] /\ y[7] = 32768 * x[7] /\ y[8] = 32768 * x[8] /\ y[9] = 32768 * x[9]
      BY <1>1
    <3>2. x[5] \in Nat /\ x[6] \in Nat /\ x[7] \in Nat /\ x[8] \in Nat /\ x[9] \in Nat
      BY <1>1
    <3>3. 5 + 1 = 6 /\ 5 + 2 = 7 /\ 5 + 3 = 8 /\ 5 + 4 = 9
      OBVIOUS
    <3>4. PICK x0, x1, x2, x3, x4 : x0 = x[5] /\ x1 = x[6] /\ x2 = x[7] /\ x3 = x[8] /\ x4 = x[9]
      OBVIOUS
    <3>5. Five(x, 5) = x0 + 2 * x1 + 4 * x2 + 8 * x3 + 16 * x4
      BY ONLY <3>3, <3>4 DEF Five
    <3>6. Five(y, 5) = 32768 * x0 + 2 * (32768 * x1) + 4 * (32768 * x2) + 8 * (32768 * x3) + 16 * (32768 * x4)
      BY ONLY <3>1, <3>3, <3>4 DEF Five
    <3>7. x0 \in Nat /\ x1 \in Nat /\ x2 \in Nat /\ x3 \in Nat /\ x4 \in Nat
      BY <3>2, <3>4
    <3> QED
      BY ONLY <3>5, <3>6, <3>7
  <2>2. 5 \in Nat /\ 5 + 5 = 10
    OBVIOUS
  <2> QED
    BY <1>5, <2>1, <2>2, FiveHalved
<1>9. /\ Five(b, 5) \in Nat /\ Five(b, 5) < 32 /\ (Five(b, 5) = 0 <=> Clear(b, 5, 10))
     /\ Five(x, 5) \in Nat
  <2>1. 5 \in Nat /\ 5 + 5 = 10
    OBVIOUS
  <2> QED
    BY <1>5, <2>1, FiveFit
<1>10. v[10] + 32768 * Five(x, 10) = 32 * v[15] + Five(b, 10)
  <2>1. Five(y, 10) = 32768 * Five(x, 10)
    <3>1. y[10] = 32768 * x[10] /\ y[11] = 32768 * x[11] /\ y[12] = 32768 * x[12] /\ y[13] = 32768 * x[13] /\ y[14] = 32768 * x[14]
      BY <1>1
    <3>2. x[10] \in Nat /\ x[11] \in Nat /\ x[12] \in Nat /\ x[13] \in Nat /\ x[14] \in Nat
      BY <1>1
    <3>3. 10 + 1 = 11 /\ 10 + 2 = 12 /\ 10 + 3 = 13 /\ 10 + 4 = 14
      OBVIOUS
    <3>4. PICK x0, x1, x2, x3, x4 : x0 = x[10] /\ x1 = x[11] /\ x2 = x[12] /\ x3 = x[13] /\ x4 = x[14]
      OBVIOUS
    <3>5. Five(x, 10) = x0 + 2 * x1 + 4 * x2 + 8 * x3 + 16 * x4
      BY ONLY <3>3, <3>4 DEF Five
    <3>6. Five(y, 10) = 32768 * x0 + 2 * (32768 * x1) + 4 * (32768 * x2) + 8 * (32768 * x3) + 16 * (32768 * x4)
      BY ONLY <3>1, <3>3, <3>4 DEF Five
    <3>7. x0 \in Nat /\ x1 \in Nat /\ x2 \in Nat /\ x3 \in Nat /\ x4 \in Nat
      BY <3>2, <3>4
    <3> QED
      BY ONLY <3>5, <3>6, <3>7
  <2>2. 10 \in Nat /\ 10 + 5 = 15
    OBVIOUS
  <2> QED
    BY <1>5, <2>1, <2>2, FiveHalved
<1>11. /\ Five(b, 10) \in Nat /\ Five(b, 10) < 32 /\ (Five(b, 10) = 0 <=> Clear(b, 10, 15))
     /\ Five(x, 10) \in Nat
  <2>1. 10 \in Nat /\ 10 + 5 = 15
    OBVIOUS
  <2> QED
    BY <1>5, <2>1, FiveFit
<1>12. v[0] \in Nat /\ v[5] \in Nat /\ v[10] \in Nat /\ v[15] \in Nat /\ v[0] < 32768
  BY <1>1
<1>13. /\ v[0] = 0 <=> Five(b, 0) = 0 /\ Five(b, 5) = 0 /\ Five(b, 10) = 0
      /\ v[15] % 2 = Five(x, 0) % 2
  <2>1. Fifteen(v[0], v[5], v[10], v[15], Five(b, 0), Five(b, 5), Five(b, 10), Five(x, 0), Five(x, 5), Five(x, 10))
    BY <1>6, <1>8, <1>10, <1>7, <1>9, <1>11, <1>12 DEF Fifteen
  <2> QED
    BY <2>1, FifteenJoin
<1>14. Clear(b, 0, 15) <=> Clear(b, 0, 5) /\ Clear(b, 5, 10) /\ Clear(b, 10, 15)
  <2>1. \A i \in Nat : 0 <= i /\ i < 15 <=> (0 <= i /\ i < 5) \/ (5 <= i /\ i < 10) \/ (10 <= i /\ i < 15)
    OBVIOUS
  <2> QED
    BY <2>1 DEF Clear
<1>15. v[0] = 0 <=> Clear(b, 0, 15)
  BY <1>13, <1>14, <1>7, <1>9, <1>11
<1>16. Clear(b, 0, 15) <=> \A j \in Nat : j < 15 => OutAt(o, n + j) = 0
  BY <1>4 DEF Clear
<1> QED
  BY <1>2, <1>3, <1>7, <1>13, <1>15, <1>16

\* The next 7 bits that leave are those of the register, and the one after
\* them is the one that enters now.
LEMMA ShortWindow ==
  ASSUME NEW o, IsOrbit(o, 64), NEW n \in Nat
  PROVE  /\ o[n] = 0 <=> \A j \in Nat : j < 7 => OutAt(o, n + j) = 0
         /\ OutAt(o, n + 7) = InAt(o, n)
<1> DEFINE v == [i \in Nat |-> o[n + i]]
<1> DEFINE b == [i \in Nat |-> OutAt(o, n + i)]
<1> DEFINE x == [i \in Nat |-> InAt(o, n + i)]
<1> DEFINE y == [i \in Nat |-> 128 * InAt(o, n + i)]
<1>1. ASSUME NEW i \in Nat
      PROVE  /\ v[i] = 2 * v[i + 1] + b[i] - y[i] /\ y[i] = 128 * x[i]
             /\ v[i] \in Nat /\ v[i] < 128 /\ y[i] \in Nat
             /\ b[i] \in Nat /\ b[i] <= 1 /\ x[i] \in Nat /\ x[i] <= 1
  <2>1. /\ n + i \in Nat /\ 64 \in Tops /\ 2 * 64 = 128
        /\ n + (i + 1) = (n + i) + 1 /\ i + 1 \in Nat
    BY DEF Tops
  <2>2. /\ o[n + i] = 2 * o[(n + i) + 1] + OutAt(o, n + i) - 2 * 64 * InAt(o, n + i)
        /\ OutAt(o, n + i) \in {0, 1} /\ InAt(o, n + i) \in {0, 1}
        /\ o[n + i] \in Nat /\ o[n + i] < 2 * 64
    BY <2>1, Halved
  <2> QED
    BY <2>1, <2>2
<1>2. v[7] % 2 = b[7]
  BY DEF OutAt
<1>3. v[0] = o[n] /\ x[0] = InAt(o, n) /\ b[7] = OutAt(o, n + 7)
  <2>1. n + 0 = n
    OBVIOUS
  <2> QED
    BY <2>1
<1>4. \A j \in Nat : b[j] = OutAt(o, n + j)
  OBVIOUS
<1> HIDE DEF v, b, x, y
<1>5. AreBits(b) /\ AreBits(x) /\ AreHalved(v, b, y)
  BY <1>1 DEF AreBits, AreHalved
<1>6. v[0] + 128 * Five(x, 0) = 32 * v[5] + Five(b, 0)
  <2>1. Five(y, 0) = 128 * Five(x, 0)
    <3>1. y[0] = 128 * x[0] /\ y[1] = 128 * x[1] /\ y[2] = 128 * x[2] /\ y[3] = 128 * x[3] /\ y[4] = 128 * x[4]
      BY <1>1
    <3>2. x[0] \in Nat /\ x[1] \in Nat /\ x[2] \in Nat /\ x[3] \in Nat /\ x[4] \in Nat
      BY <1>1
    <3>3. 0 + 1 = 1 /\ 0 + 2 = 2 /\ 0 + 3 = 3 /\ 0 + 4 = 4
      OBVIOUS
    <3>4. PICK x0, x1, x2, x3, x4 : x0 = x[0] /\ x1 = x[1] /\ x2 = x[2] /\ x3 = x[3] /\ x4 = x[4]
      OBVIOUS
    <3>5. Five(x, 0) = x0 + 2 * x1 + 4 * x2 + 8 * x3 + 16 * x4
      BY ONLY <3>3, <3>4 DEF Five
    <3>6. Five(y, 0) = 128 * x0 + 2 * (128 * x1) + 4 * (128 * x2) + 8 * (128 * x3) + 16 * (128 * x4)
      BY ONLY <3>1, <3>3, <3>4 DEF Five
    <3>7. x0 \in Nat /\ x1 \in Nat /\ x2 \in Nat /\ x3 \in Nat /\ x4 \in Nat
      BY <3>2, <3>4
    <3> QED
      BY ONLY <3>5, <3>6, <3>7
  <2>2. 0 \in Nat /\ 0 + 5 = 5
    OBVIOUS
  <2> QED
    BY <1>5, <2>1, <2>2, FiveHalved
<1>7. /\ Five(b, 0) \in Nat /\ Five(b, 0) < 32 /\ (Five(b, 0) = 0 <=> Clear(b, 0, 5))
     /\ Five(x, 0) \in Nat /\ Five(x, 0) % 2 = x[0]
  <2>1. 0 \in Nat /\ 0 + 5 = 5
    OBVIOUS
  <2> QED
    BY <1>5, <2>1, FiveFit
<1>8. v[5] + 128 * Two(x, 5) = 4 * v[7] + Two(b, 5)
  <2>1. Two(y, 5) = 128 * Two(x, 5)
    <3>1. y[5] = 128 * x[5] /\ y[6] = 128 * x[6]
      BY <1>1
    <3>2. x[5] \in Nat /\ x[6] \in Nat
      BY <1>1
    <3>3. 5 + 1 = 6
      OBVIOUS
    <3>4. PICK x0, x1 : x0 = x[5] /\ x1 = x[6]
      OBVIOUS
    <3>5. Two(x, 5) = x0 + 2 * x1
      BY ONLY <3>3, <3>4 DEF Two
    <3>6. Two(y, 5) = 128 * x0 + 2 * (128 * x1)
      BY ONLY <3>1, <3>3, <3>4 DEF Two
    <3>7. x0 \in Nat /\ x1 \in Nat
      BY <3>2, <3>4
    <3> QED
      BY ONLY <3>5, <3>6, <3>7
  <2>2. 5 \in Nat /\ 5 + 2 = 7
    OBVIOUS
  <2> QED
    BY <1>5, <2>1, <2>2, TwoHalved
<1>9. /\ Two(b, 5) \in Nat /\ Two(b, 5) < 4 /\ (Two(b, 5) = 0 <=> Clear(b, 5, 7))
     /\ Two(x, 5) \in Nat
  <2>1. 5 \in Nat /\ 5 + 2 = 7
    OBVIOUS
  <2> QED
    BY <1>5, <2>1, TwoFit
<1>10. v[0] \in Nat /\ v[5] \in Nat /\ v[7] \in Nat /\ v[0] < 128
  BY <1>1
<1>11. /\ v[0] = 0 <=> Five(b, 0) = 0 /\ Two(b, 5) = 0
      /\ v[7] % 2 = Five(x, 0) % 2
  <2>1. Seven(v[0], v[5], v[7], Five(b, 0), Two(b, 5), Five(x, 0), Two(x, 5))
    BY <1>6, <1>8, <1>7, <1>9, <1>10 DEF Seven
  <2> QED
    BY <2>1, SevenJoin
<1>12. Clear(b, 0, 7) <=> Clear(b, 0, 5) /\ Clear(b, 5, 7)
  <2>1. \A i \in Nat : 0 <= i /\ i < 7 <=> (0 <= i /\ i < 5) \/ (5 <= i /\ i < 7)
    OBVIOUS
  <2> QED
    BY <2>1 DEF Clear
<1>13. v[0] = 0 <=> Clear(b, 0, 7)
  BY <1>11, <1>12, <1>7, <1>9
<1>14. Clear(b, 0, 7) <=> \A j \in Nat : j < 7 => OutAt(o, n + j) = 0
  BY <1>4 DEF Clear
<1> QED
  BY <1>2, <1>3, <1>7, <1>11, <1>13, <1>14

-----------------------------------------------------------------------------
(* The bits that leave are a sequence in which each is the sum of two     *)
(* earlier ones, modulo 2: sums of more and more distant ones follow.      *)

\* Those bits of f always cancel.
Cancel3(f, k, a, b) == \A n \in Nat : (f[n + k] + f[n + a] + f[n + b]) % 2 = 0
Cancel4(f, k, a, b, c) == \A n \in Nat : (f[n + k] + f[n + a] + f[n + b] + f[n + c]) % 2 = 0
Cancel5(f, k, a, b, c, d) == \A n \in Nat : (f[n + k] + f[n + a] + f[n + b] + f[n + c] + f[n + d]) % 2 = 0

\* The distances can be doubled: the other terms cancel.
LEMMA Squared3 ==
  ASSUME NEW f, AreBits(f), NEW k \in Nat, NEW a \in Nat, NEW b \in Nat,
         Cancel3(f, k, a, b)
  PROVE  Cancel3(f, 2 * k, 2 * a, 2 * b)
<1> SUFFICES ASSUME NEW n \in Nat PROVE (f[n + 2 * k] + f[n + 2 * a] + f[n + 2 * b]) % 2 = 0
  BY DEF Cancel3
<1>1. PICK s0, s1, s2 :
        /\ s0 = f[n + 2 * k]
        /\ s1 = f[n + 2 * a]
        /\ s2 = f[n + 2 * b]
  OBVIOUS
<1>2. PICK c01, c02, c12 :
        /\ c01 = f[n + (k + a)]
        /\ c02 = f[n + (k + b)]
        /\ c12 = f[n + (a + b)]
  OBVIOUS
<1>3. /\ n + 2 * k \in Nat
      /\ n + 2 * a \in Nat
      /\ n + 2 * b \in Nat
      /\ n + (k + a) \in Nat
      /\ n + (k + b) \in Nat
      /\ n + (a + b) \in Nat
  OBVIOUS
<1>4. /\ s0 \in Nat
      /\ s1 \in Nat
      /\ s2 \in Nat
      /\ c01 \in Nat
      /\ c02 \in Nat
      /\ c12 \in Nat
  BY <1>1, <1>2, <1>3 DEF AreBits
<1>5. (s0 + c01 + c02) % 2 = 0
  <2>1. n + k \in Nat
    OBVIOUS
  <2>2. (f[(n + k) + k] + f[(n + k) + a] + f[(n + k) + b]) % 2 = 0
    BY <2>1 DEF Cancel3
  <2>3. /\ (n + k) + k = n + 2 * k
        /\ (n + k) + a = n + (k + a)
        /\ (n + k) + b = n + (k + b)
    OBVIOUS
  <2> QED
    BY ONLY <1>1, <1>2, <2>2, <2>3
<1>6. (c01 + s1 + c12) % 2 = 0
  <2>1. n + a \in Nat
    OBVIOUS
  <2>2. (f[(n + a) + k] + f[(n + a) + a] + f[(n + a) + b]) % 2 = 0
    BY <2>1 DEF Cancel3
  <2>3. /\ (n + a) + k = n + (k + a)
        /\ (n + a) + a = n + 2 * a
        /\ (n + a) + b = n + (a + b)
    OBVIOUS
  <2> QED
    BY ONLY <1>1, <1>2, <2>2, <2>3
<1>7. (c02 + c12 + s2) % 2 = 0
  <2>1. n + b \in Nat
    OBVIOUS
  <2>2. (f[(n + b) + k] + f[(n + b) + a] + f[(n + b) + b]) % 2 = 0
    BY <2>1 DEF Cancel3
  <2>3. /\ (n + b) + k = n + (k + b)
        /\ (n + b) + a = n + (a + b)
        /\ (n + b) + b = n + 2 * b
    OBVIOUS
  <2> QED
    BY ONLY <1>1, <1>2, <2>2, <2>3
<1>8. (s0 + s1 + s2) % 2 = 0
  BY ONLY <1>4, <1>5, <1>6, <1>7
<1> QED
  BY ONLY <1>1, <1>8

\* The same for four terms.
LEMMA Squared4 ==
  ASSUME NEW f, AreBits(f), NEW k \in Nat, NEW a \in Nat, NEW b \in Nat, NEW c \in Nat,
         Cancel4(f, k, a, b, c)
  PROVE  Cancel4(f, 2 * k, 2 * a, 2 * b, 2 * c)
<1> SUFFICES ASSUME NEW n \in Nat PROVE (f[n + 2 * k] + f[n + 2 * a] + f[n + 2 * b] + f[n + 2 * c]) % 2 = 0
  BY DEF Cancel4
<1>1. PICK s0, s1, s2, s3 :
        /\ s0 = f[n + 2 * k]
        /\ s1 = f[n + 2 * a]
        /\ s2 = f[n + 2 * b]
        /\ s3 = f[n + 2 * c]
  OBVIOUS
<1>2. PICK c01, c02, c03, c12, c13, c23 :
        /\ c01 = f[n + (k + a)]
        /\ c02 = f[n + (k + b)]
        /\ c03 = f[n + (k + c)]
        /\ c12 = f[n + (a + b)]
        /\ c13 = f[n + (a + c)]
        /\ c23 = f[n + (b + c)]
  OBVIOUS
<1>3. /\ n + 2 * k \in Nat
      /\ n + 2 * a \in Nat
      /\ n + 2 * b \in Nat
      /\ n + 2 * c \in Nat
      /\ n + (k + a) \in Nat
      /\ n + (k + b) \in Nat
      /\ n + (k + c) \in Nat
      /\ n + (a + b) \in Nat
      /\ n + (a + c) \in Nat
      /\ n + (b + c) \in Nat
  OBVIOUS
<1>4. /\ s0 \in Nat
      /\ s1 \in Nat
      /\ s2 \in Nat
      /\ s3 \in Nat
      /\ c01 \in Nat
      /\ c02 \in Nat
      /\ c03 \in Nat
      /\ c12 \in Nat
      /\ c13 \in Nat
      /\ c23 \in Nat
  BY <1>1, <1>2, <1>3 DEF AreBits
<1>5. (s0 + c01 + c02 + c03) % 2 = 0
  <2>1. n + k \in Nat
    OBVIOUS
  <2>2. (f[(n + k) + k] + f[(n + k) + a] + f[(n + k) + b] + f[(n + k) + c]) % 2 = 0
    BY <2>1 DEF Cancel4
  <2>3. /\ (n + k) + k = n + 2 * k
        /\ (n + k) + a = n + (k + a)
        /\ (n + k) + b = n + (k + b)
        /\ (n + k) + c = n + (k + c)
    OBVIOUS
  <2> QED
    BY ONLY <1>1, <1>2, <2>2, <2>3
<1>6. (c01 + s1 + c12 + c13) % 2 = 0
  <2>1. n + a \in Nat
    OBVIOUS
  <2>2. (f[(n + a) + k] + f[(n + a) + a] + f[(n + a) + b] + f[(n + a) + c]) % 2 = 0
    BY <2>1 DEF Cancel4
  <2>3. /\ (n + a) + k = n + (k + a)
        /\ (n + a) + a = n + 2 * a
        /\ (n + a) + b = n + (a + b)
        /\ (n + a) + c = n + (a + c)
    OBVIOUS
  <2> QED
    BY ONLY <1>1, <1>2, <2>2, <2>3
<1>7. (c02 + c12 + s2 + c23) % 2 = 0
  <2>1. n + b \in Nat
    OBVIOUS
  <2>2. (f[(n + b) + k] + f[(n + b) + a] + f[(n + b) + b] + f[(n + b) + c]) % 2 = 0
    BY <2>1 DEF Cancel4
  <2>3. /\ (n + b) + k = n + (k + b)
        /\ (n + b) + a = n + (a + b)
        /\ (n + b) + b = n + 2 * b
        /\ (n + b) + c = n + (b + c)
    OBVIOUS
  <2> QED
    BY ONLY <1>1, <1>2, <2>2, <2>3
<1>8. (c03 + c13 + c23 + s3) % 2 = 0
  <2>1. n + c \in Nat
    OBVIOUS
  <2>2. (f[(n + c) + k] + f[(n + c) + a] + f[(n + c) + b] + f[(n + c) + c]) % 2 = 0
    BY <2>1 DEF Cancel4
  <2>3. /\ (n + c) + k = n + (k + c)
        /\ (n + c) + a = n + (a + c)
        /\ (n + c) + b = n + (b + c)
        /\ (n + c) + c = n + 2 * c
    OBVIOUS
  <2> QED
    BY ONLY <1>1, <1>2, <2>2, <2>3
<1>9. (s0 + s1 + s2 + s3) % 2 = 0
  BY ONLY <1>4, <1>5, <1>6, <1>7, <1>8
<1> QED
  BY ONLY <1>1, <1>9

\* And for five.
LEMMA Squared5 ==
  ASSUME NEW f, AreBits(f), NEW k \in Nat, NEW a \in Nat, NEW b \in Nat, NEW c \in Nat, NEW d \in Nat,
         Cancel5(f, k, a, b, c, d)
  PROVE  Cancel5(f, 2 * k, 2 * a, 2 * b, 2 * c, 2 * d)
<1> SUFFICES ASSUME NEW n \in Nat PROVE (f[n + 2 * k] + f[n + 2 * a] + f[n + 2 * b] + f[n + 2 * c] + f[n + 2 * d]) % 2 = 0
  BY DEF Cancel5
<1>1. PICK s0, s1, s2, s3, s4 :
        /\ s0 = f[n + 2 * k]
        /\ s1 = f[n + 2 * a]
        /\ s2 = f[n + 2 * b]
        /\ s3 = f[n + 2 * c]
        /\ s4 = f[n + 2 * d]
  OBVIOUS
<1>2. PICK c01, c02, c03, c04, c12, c13, c14, c23, c24, c34 :
        /\ c01 = f[n + (k + a)]
        /\ c02 = f[n + (k + b)]
        /\ c03 = f[n + (k + c)]
        /\ c04 = f[n + (k + d)]
        /\ c12 = f[n + (a + b)]
        /\ c13 = f[n + (a + c)]
        /\ c14 = f[n + (a + d)]
        /\ c23 = f[n + (b + c)]
        /\ c24 = f[n + (b + d)]
        /\ c34 = f[n + (c + d)]
  OBVIOUS
<1>3. /\ n + 2 * k \in Nat
      /\ n + 2 * a \in Nat
      /\ n + 2 * b \in Nat
      /\ n + 2 * c \in Nat
      /\ n + 2 * d \in Nat
      /\ n + (k + a) \in Nat
      /\ n + (k + b) \in Nat
      /\ n + (k + c) \in Nat
      /\ n + (k + d) \in Nat
      /\ n + (a + b) \in Nat
      /\ n + (a + c) \in Nat
      /\ n + (a + d) \in Nat
      /\ n + (b + c) \in Nat
      /\ n + (b + d) \in Nat
      /\ n + (c + d) \in Nat
  OBVIOUS
<1>4. /\ s0 \in Nat
      /\ s1 \in Nat
      /\ s2 \in Nat
      /\ s3 \in Nat
      /\ s4 \in Nat
      /\ c01 \in Nat
      /\ c02 \in Nat
      /\ c03 \in Nat
      /\ c04 \in Nat
      /\ c12 \in Nat
      /\ c13 \in Nat
      /\ c14 \in Nat
      /\ c23 \in Nat
      /\ c24 \in Nat
      /\ c34 \in Nat
  BY <1>1, <1>2, <1>3 DEF AreBits
<1>5. (s0 + c01 + c02 + c03 + c04) % 2 = 0
  <2>1. n + k \in Nat
    OBVIOUS
  <2>2. (f[(n + k) + k] + f[(n + k) + a] + f[(n + k) + b] + f[(n + k) + c] + f[(n + k) + d]) % 2 = 0
    BY <2>1 DEF Cancel5
  <2>3. /\ (n + k) + k = n + 2 * k
        /\ (n + k) + a = n + (k + a)
        /\ (n + k) + b = n + (k + b)
        /\ (n + k) + c = n + (k + c)
        /\ (n + k) + d = n + (k + d)
    OBVIOUS
  <2> QED
    BY ONLY <1>1, <1>2, <2>2, <2>3
<1>6. (c01 + s1 + c12 + c13 + c14) % 2 = 0
  <2>1. n + a \in Nat
    OBVIOUS
  <2>2. (f[(n + a) + k] + f[(n + a) + a] + f[(n + a) + b] + f[(n + a) + c] + f[(n + a) + d]) % 2 = 0
    BY <2>1 DEF Cancel5
  <2>3. /\ (n + a) + k = n + (k + a)
        /\ (n + a) + a = n + 2 * a
        /\ (n + a) + b = n + (a + b)
        /\ (n + a) + c = n + (a + c)
        /\ (n + a) + d = n + (a + d)
    OBVIOUS
  <2> QED
    BY ONLY <1>1, <1>2, <2>2, <2>3
<1>7. (c02 + c12 + s2 + c23 + c24) % 2 = 0
  <2>1. n + b \in Nat
    OBVIOUS
  <2>2. (f[(n + b) + k] + f[(n + b) + a] + f[(n + b) + b] + f[(n + b) + c] + f[(n + b) + d]) % 2 = 0
    BY <2>1 DEF Cancel5
  <2>3. /\ (n + b) + k = n + (k + b)
        /\ (n + b) + a = n + (a + b)
        /\ (n + b) + b = n + 2 * b
        /\ (n + b) + c = n + (b + c)
        /\ (n + b) + d = n + (b + d)
    OBVIOUS
  <2> QED
    BY ONLY <1>1, <1>2, <2>2, <2>3
<1>8. (c03 + c13 + c23 + s3 + c34) % 2 = 0
  <2>1. n + c \in Nat
    OBVIOUS
  <2>2. (f[(n + c) + k] + f[(n + c) + a] + f[(n + c) + b] + f[(n + c) + c] + f[(n + c) + d]) % 2 = 0
    BY <2>1 DEF Cancel5
  <2>3. /\ (n + c) + k = n + (k + c)
        /\ (n + c) + a = n + (a + c)
        /\ (n + c) + b = n + (b + c)
        /\ (n + c) + c = n + 2 * c
        /\ (n + c) + d = n + (c + d)
    OBVIOUS
  <2> QED
    BY ONLY <1>1, <1>2, <2>2, <2>3
<1>9. (c04 + c14 + c24 + c34 + s4) % 2 = 0
  <2>1. n + d \in Nat
    OBVIOUS
  <2>2. (f[(n + d) + k] + f[(n + d) + a] + f[(n + d) + b] + f[(n + d) + c] + f[(n + d) + d]) % 2 = 0
    BY <2>1 DEF Cancel5
  <2>3. /\ (n + d) + k = n + (k + d)
        /\ (n + d) + a = n + (a + d)
        /\ (n + d) + b = n + (b + d)
        /\ (n + d) + c = n + (c + d)
        /\ (n + d) + d = n + 2 * d
    OBVIOUS
  <2> QED
    BY ONLY <1>1, <1>2, <2>2, <2>3
<1>10. (s0 + s1 + s2 + s3 + s4) % 2 = 0
  BY ONLY <1>4, <1>5, <1>6, <1>7, <1>8, <1>9
<1> QED
  BY ONLY <1>1, <1>10

\* A term can be replaced by the two that it is the sum of.
LEMMA Replaced34 ==
  ASSUME NEW f, AreBits(f), NEW k \in Nat, NEW t \in Nat, NEW a \in Nat, NEW p \in Nat, NEW q \in Nat,
         Cancel3(f, k, t, a), Cancel3(f, t, p, q)
  PROVE  Cancel4(f, k, a, p, q)
<1> SUFFICES ASSUME NEW n \in Nat PROVE (f[n + k] + f[n + a] + f[n + p] + f[n + q]) % 2 = 0
  BY DEF Cancel4
<1>1. PICK fk, ft, fa, fp, fq :
        fk = f[n + k] /\ ft = f[n + t] /\ fa = f[n + a] /\ fp = f[n + p] /\ fq = f[n + q]
  OBVIOUS
<1>2. n + k \in Nat /\ n + t \in Nat /\ n + a \in Nat /\ n + p \in Nat /\ n + q \in Nat
  OBVIOUS
<1>3. fk \in Nat /\ ft \in Nat /\ fa \in Nat /\ fp \in Nat /\ fq \in Nat
  BY <1>1, <1>2 DEF AreBits
<1>4. (fk + ft + fa) % 2 = 0
  BY <1>1 DEF Cancel3
<1>5. (ft + fp + fq) % 2 = 0
  BY <1>1 DEF Cancel3
<1>6. (fk + fa + fp + fq) % 2 = 0
  BY ONLY <1>3, <1>4, <1>5
<1> QED
  BY ONLY <1>1, <1>6

\* One of the two can be there already, and then cancels.
LEMMA Replaced43 ==
  ASSUME NEW f, AreBits(f), NEW k \in Nat, NEW t \in Nat, NEW a \in Nat, NEW p \in Nat, NEW q \in Nat,
         Cancel4(f, k, t, a, p), Cancel3(f, t, p, q)
  PROVE  Cancel3(f, k, a, q)
<1> SUFFICES ASSUME NEW n \in Nat PROVE (f[n + k] + f[n + a] + f[n + q]) % 2 = 0
  BY DEF Cancel3
<1>1. PICK fk, ft, fa, fp, fq :
        fk = f[n + k] /\ ft = f[n + t] /\ fa = f[n + a] /\ fp = f[n + p] /\ fq = f[n + q]
  OBVIOUS
<1>2. n + k \in Nat /\ n + t \in Nat /\ n + a \in Nat /\ n + p \in Nat /\ n + q \in Nat
  OBVIOUS
<1>3. fk \in Nat /\ ft \in Nat /\ fa \in Nat /\ fp \in Nat /\ fq \in Nat
  BY <1>1, <1>2 DEF AreBits
<1>4. (fk + ft + fa + fp) % 2 = 0
  BY <1>1 DEF Cancel4
<1>5. (ft + fp + fq) % 2 = 0
  BY <1>1 DEF Cancel3
<1>6. (fk + fa + fq) % 2 = 0
  BY ONLY <1>3, <1>4, <1>5
<1> QED
  BY ONLY <1>1, <1>6

\* The same with one term more.
LEMMA Replaced45 ==
  ASSUME NEW f, AreBits(f), NEW k \in Nat, NEW t \in Nat, NEW a \in Nat, NEW b \in Nat, NEW p \in Nat, NEW q \in Nat,
         Cancel4(f, k, t, a, b), Cancel3(f, t, p, q)
  PROVE  Cancel5(f, k, a, b, p, q)
<1> SUFFICES ASSUME NEW n \in Nat PROVE (f[n + k] + f[n + a] + f[n + b] + f[n + p] + f[n + q]) % 2 = 0
  BY DEF Cancel5
<1>1. PICK fk, ft, fa, fb, fp, fq :
        fk = f[n + k] /\ ft = f[n + t] /\ fa = f[n + a] /\ fb = f[n + b] /\ fp = f[n + p] /\ fq = f[n + q]
  OBVIOUS
<1>2. n + k \in Nat /\ n + t \in Nat /\ n + a \in Nat /\ n + b \in Nat /\ n + p \in Nat /\ n + q \in Nat
  OBVIOUS
<1>3. fk \in Nat /\ ft \in Nat /\ fa \in Nat /\ fb \in Nat /\ fp \in Nat /\ fq \in Nat
  BY <1>1, <1>2 DEF AreBits
<1>4. (fk + ft + fa + fb) % 2 = 0
  BY <1>1 DEF Cancel4
<1>5. (ft + fp + fq) % 2 = 0
  BY <1>1 DEF Cancel3
<1>6. (fk + fa + fb + fp + fq) % 2 = 0
  BY ONLY <1>3, <1>4, <1>5
<1> QED
  BY ONLY <1>1, <1>6

\* And once more.
LEMMA Replaced54 ==
  ASSUME NEW f, AreBits(f), NEW k \in Nat, NEW t \in Nat, NEW a \in Nat, NEW b \in Nat, NEW p \in Nat, NEW q \in Nat,
         Cancel5(f, k, t, a, b, p), Cancel3(f, t, p, q)
  PROVE  Cancel4(f, k, a, b, q)
<1> SUFFICES ASSUME NEW n \in Nat PROVE (f[n + k] + f[n + a] + f[n + b] + f[n + q]) % 2 = 0
  BY DEF Cancel4
<1>1. PICK fk, ft, fa, fb, fp, fq :
        fk = f[n + k] /\ ft = f[n + t] /\ fa = f[n + a] /\ fb = f[n + b] /\ fp = f[n + p] /\ fq = f[n + q]
  OBVIOUS
<1>2. n + k \in Nat /\ n + t \in Nat /\ n + a \in Nat /\ n + b \in Nat /\ n + p \in Nat /\ n + q \in Nat
  OBVIOUS
<1>3. fk \in Nat /\ ft \in Nat /\ fa \in Nat /\ fb \in Nat /\ fp \in Nat /\ fq \in Nat
  BY <1>1, <1>2 DEF AreBits
<1>4. (fk + ft + fa + fb + fp) % 2 = 0
  BY <1>1 DEF Cancel5
<1>5. (ft + fp + fq) % 2 = 0
  BY <1>1 DEF Cancel3
<1>6. (fk + fa + fb + fq) % 2 = 0
  BY ONLY <1>3, <1>4, <1>5
<1> QED
  BY ONLY <1>1, <1>6

\* If nothing else is left, the two bits are the same.
LEMMA Replaced32 ==
  ASSUME NEW f, AreBits(f), NEW k \in Nat, NEW t \in Nat, NEW p \in Nat, NEW q \in Nat,
         Cancel3(f, k, t, p), Cancel3(f, t, p, q)
  PROVE  \A n \in Nat : f[n + k] = f[n + q]
<1> SUFFICES ASSUME NEW n \in Nat PROVE f[n + k] = f[n + q]
  OBVIOUS
<1>1. PICK fk, ft, fp, fq : fk = f[n + k] /\ ft = f[n + t] /\ fp = f[n + p] /\ fq = f[n + q]
  OBVIOUS
<1>2. n + k \in Nat /\ n + t \in Nat /\ n + p \in Nat /\ n + q \in Nat
  OBVIOUS
<1>3. fk \in Nat /\ fk <= 1 /\ ft \in Nat /\ fp \in Nat /\ fq \in Nat /\ fq <= 1
  BY <1>1, <1>2 DEF AreBits
<1>4. (fk + ft + fp) % 2 = 0 /\ (ft + fp + fq) % 2 = 0
  BY <1>1 DEF Cancel3
<1>5. fk = fq
  BY ONLY <1>3, <1>4
<1> QED
  BY ONLY <1>1, <1>5

-----------------------------------------------------------------------------
(* How long the noise is: 2^15 - 1 samples, and 2^7 - 1 with the short     *)
(* register.                                                               *)

\* Where a zero leaves.
Zeros(o) == [n \in Nat |-> 1 - OutAt(o, n)]

\* They are bits, which say what leaves.
LEMMA ZerosAre ==
  ASSUME NEW top \in Tops, NEW o, IsOrbit(o, top)
  PROVE  /\ AreBits(Zeros(o))
         /\ \A n \in Nat : Zeros(o)[n] = 1 <=> OutAt(o, n) = 0
<1>1. \A n \in Nat : OutAt(o, n) \in {0, 1}
  BY Halved
<1> QED
  BY <1>1 DEF Zeros, AreBits

\* The bit that enters leaves fifteen clocks later.
LEMMA LongCancels ==
  ASSUME NEW o, IsOrbit(o, 16384)
  PROVE  Cancel3(Zeros(o), 15, 1, 0)
<1> DEFINE f == Zeros(o)
<1> SUFFICES ASSUME NEW n \in Nat PROVE (f[n + 15] + f[n + 1] + f[n + 0]) % 2 = 0
  BY DEF Cancel3
<1>1. n + 0 = n /\ n + 1 \in Nat /\ n + 15 \in Nat /\ 16384 \in Tops
  BY DEF Tops
<1>2. f[n] = 1 - OutAt(o, n) /\ f[n + 1] = 1 - OutAt(o, n + 1) /\ f[n + 15] = 1 - OutAt(o, n + 15)
  BY <1>1 DEF Zeros
<1>3. OutAt(o, n + 15) = (OutAt(o, n) + OutAt(o, n + 1) + 1) % 2
  BY LongWindow DEF InAt
<1>4. OutAt(o, n) \in {0, 1} /\ OutAt(o, n + 1) \in {0, 1}
  BY <1>1, Halved
<1> HIDE DEF f
<1> QED
  BY <1>1, <1>2, <1>3, <1>4

\* With the short register seven clocks later.
LEMMA ShortCancels ==
  ASSUME NEW o, IsOrbit(o, 64)
  PROVE  Cancel3(Zeros(o), 7, 1, 0)
<1> DEFINE f == Zeros(o)
<1> SUFFICES ASSUME NEW n \in Nat PROVE (f[n + 7] + f[n + 1] + f[n + 0]) % 2 = 0
  BY DEF Cancel3
<1>1. n + 0 = n /\ n + 1 \in Nat /\ n + 7 \in Nat /\ 64 \in Tops
  BY DEF Tops
<1>2. f[n] = 1 - OutAt(o, n) /\ f[n + 1] = 1 - OutAt(o, n + 1) /\ f[n + 7] = 1 - OutAt(o, n + 7)
  BY <1>1 DEF Zeros
<1>3. OutAt(o, n + 7) = (OutAt(o, n) + OutAt(o, n + 1) + 1) % 2
  BY ShortWindow DEF InAt
<1>4. OutAt(o, n) \in {0, 1} /\ OutAt(o, n + 1) \in {0, 1}
  BY <1>1, Halved
<1> HIDE DEF f
<1> QED
  BY <1>1, <1>2, <1>3, <1>4

\* One clock later the same holds.
LEMMA NextCancels ==
  ASSUME NEW f, NEW k \in Nat, Cancel3(f, k, 1, 0)
  PROVE  Cancel3(f, k + 1, 2, 1)
<1> SUFFICES ASSUME NEW n \in Nat PROVE (f[n + (k + 1)] + f[n + 2] + f[n + 1]) % 2 = 0
  BY DEF Cancel3
<1>1. (f[(n + 1) + k] + f[(n + 1) + 1] + f[(n + 1) + 0]) % 2 = 0
  <2>1. n + 1 \in Nat
    OBVIOUS
  <2> QED
    BY <2>1 DEF Cancel3
<1>2. (n + 1) + k = n + (k + 1) /\ (n + 1) + 1 = n + 2 /\ (n + 1) + 0 = n + 1
  OBVIOUS
<1> QED
  BY <1>1, <1>2

\* The 2^15-th bit from each is the next one.
LEMMA LongSums ==
  ASSUME NEW f, AreBits(f), Cancel3(f, 15, 1, 0)
  PROVE  /\ Cancel3(f, 64, 8, 4) /\ Cancel4(f, 128, 8, 2, 1) /\ Cancel3(f, 512, 8, 2)
         /\ Cancel4(f, 1024, 4, 2, 1) /\ Cancel5(f, 4096, 8, 4, 2, 1)
         /\ \A n \in Nat : f[n + 32768] = f[n + 1]
<1>1. Cancel3(f, 16, 2, 1)
  <2>1. 15 + 1 = 16 /\ 15 \in Nat
    OBVIOUS
  <2> QED
    BY <2>1, NextCancels
<1>2. Cancel3(f, 32, 4, 2)
  <2>1. 2 * 16 = 32 /\ 2 * 2 = 4 /\ 2 * 1 = 2
    OBVIOUS
  <2>2. 16 \in Nat /\ 2 \in Nat /\ 1 \in Nat
    OBVIOUS
  <2>3. Cancel3(f, 2 * 16, 2 * 2, 2 * 1)
    BY <1>1, <2>2, Squared3
  <2> QED
    BY ONLY <2>1, <2>3
<1>3. Cancel3(f, 64, 8, 4)
  <2>1. 2 * 32 = 64 /\ 2 * 4 = 8 /\ 2 * 2 = 4
    OBVIOUS
  <2>2. 32 \in Nat /\ 4 \in Nat /\ 2 \in Nat
    OBVIOUS
  <2>3. Cancel3(f, 2 * 32, 2 * 4, 2 * 2)
    BY <1>2, <2>2, Squared3
  <2> QED
    BY ONLY <2>1, <2>3
<1>4. Cancel3(f, 128, 16, 8)
  <2>1. 2 * 64 = 128 /\ 2 * 8 = 16 /\ 2 * 4 = 8
    OBVIOUS
  <2>2. 64 \in Nat /\ 8 \in Nat /\ 4 \in Nat
    OBVIOUS
  <2>3. Cancel3(f, 2 * 64, 2 * 8, 2 * 4)
    BY <1>3, <2>2, Squared3
  <2> QED
    BY ONLY <2>1, <2>3
<1>5. Cancel4(f, 128, 8, 2, 1)
  <2>1. 1 \in Nat /\ 2 \in Nat /\ 8 \in Nat /\ 16 \in Nat /\ 128 \in Nat
    OBVIOUS
  <2>2. ASSUME NEW k \in Nat, Cancel3(f, k, 16, 8)
        PROVE  Cancel4(f, k, 8, 2, 1)
    BY <1>1, <2>1, <2>2, Replaced34
  <2> QED
    BY <1>4, <2>1, <2>2
<1>6. Cancel4(f, 256, 16, 4, 2)
  <2>1. 2 * 128 = 256 /\ 2 * 8 = 16 /\ 2 * 2 = 4 /\ 2 * 1 = 2
    OBVIOUS
  <2>2. 128 \in Nat /\ 8 \in Nat /\ 2 \in Nat /\ 1 \in Nat
    OBVIOUS
  <2>3. Cancel4(f, 2 * 128, 2 * 8, 2 * 2, 2 * 1)
    BY <1>5, <2>2, Squared4
  <2> QED
    BY ONLY <2>1, <2>3
<1>7. Cancel3(f, 256, 4, 1)
  <2>1. 1 \in Nat /\ 2 \in Nat /\ 4 \in Nat /\ 16 \in Nat /\ 256 \in Nat
    OBVIOUS
  <2>2. ASSUME NEW k \in Nat, Cancel4(f, k, 16, 4, 2)
        PROVE  Cancel3(f, k, 4, 1)
    BY <1>1, <2>1, <2>2, Replaced43
  <2> QED
    BY <1>6, <2>1, <2>2
<1>8. Cancel3(f, 512, 8, 2)
  <2>1. 2 * 256 = 512 /\ 2 * 4 = 8 /\ 2 * 1 = 2
    OBVIOUS
  <2>2. 256 \in Nat /\ 4 \in Nat /\ 1 \in Nat
    OBVIOUS
  <2>3. Cancel3(f, 2 * 256, 2 * 4, 2 * 1)
    BY <1>7, <2>2, Squared3
  <2> QED
    BY ONLY <2>1, <2>3
<1>9. Cancel3(f, 1024, 16, 4)
  <2>1. 2 * 512 = 1024 /\ 2 * 8 = 16 /\ 2 * 2 = 4
    OBVIOUS
  <2>2. 512 \in Nat /\ 8 \in Nat /\ 2 \in Nat
    OBVIOUS
  <2>3. Cancel3(f, 2 * 512, 2 * 8, 2 * 2)
    BY <1>8, <2>2, Squared3
  <2> QED
    BY ONLY <2>1, <2>3
<1>10. Cancel4(f, 1024, 4, 2, 1)
  <2>1. 1 \in Nat /\ 2 \in Nat /\ 4 \in Nat /\ 16 \in Nat /\ 1024 \in Nat
    OBVIOUS
  <2>2. ASSUME NEW k \in Nat, Cancel3(f, k, 16, 4)
        PROVE  Cancel4(f, k, 4, 2, 1)
    BY <1>1, <2>1, <2>2, Replaced34
  <2> QED
    BY <1>9, <2>1, <2>2
<1>11. Cancel4(f, 2048, 8, 4, 2)
  <2>1. 2 * 1024 = 2048 /\ 2 * 4 = 8 /\ 2 * 2 = 4 /\ 2 * 1 = 2
    OBVIOUS
  <2>2. 1024 \in Nat /\ 4 \in Nat /\ 2 \in Nat /\ 1 \in Nat
    OBVIOUS
  <2>3. Cancel4(f, 2 * 1024, 2 * 4, 2 * 2, 2 * 1)
    BY <1>10, <2>2, Squared4
  <2> QED
    BY ONLY <2>1, <2>3
<1>12. Cancel4(f, 4096, 16, 8, 4)
  <2>1. 2 * 2048 = 4096 /\ 2 * 8 = 16 /\ 2 * 4 = 8 /\ 2 * 2 = 4
    OBVIOUS
  <2>2. 2048 \in Nat /\ 8 \in Nat /\ 4 \in Nat /\ 2 \in Nat
    OBVIOUS
  <2>3. Cancel4(f, 2 * 2048, 2 * 8, 2 * 4, 2 * 2)
    BY <1>11, <2>2, Squared4
  <2> QED
    BY ONLY <2>1, <2>3
<1>13. Cancel5(f, 4096, 8, 4, 2, 1)
  <2>1. 1 \in Nat /\ 2 \in Nat /\ 4 \in Nat /\ 8 \in Nat /\ 16 \in Nat /\ 4096 \in Nat
    OBVIOUS
  <2>2. ASSUME NEW k \in Nat, Cancel4(f, k, 16, 8, 4)
        PROVE  Cancel5(f, k, 8, 4, 2, 1)
    BY <1>1, <2>1, <2>2, Replaced45
  <2> QED
    BY <1>12, <2>1, <2>2
<1>14. Cancel5(f, 8192, 16, 8, 4, 2)
  <2>1. 2 * 4096 = 8192 /\ 2 * 8 = 16 /\ 2 * 4 = 8 /\ 2 * 2 = 4 /\ 2 * 1 = 2
    OBVIOUS
  <2>2. 4096 \in Nat /\ 8 \in Nat /\ 4 \in Nat /\ 2 \in Nat /\ 1 \in Nat
    OBVIOUS
  <2>3. Cancel5(f, 2 * 4096, 2 * 8, 2 * 4, 2 * 2, 2 * 1)
    BY <1>13, <2>2, Squared5
  <2> QED
    BY ONLY <2>1, <2>3
<1>15. Cancel4(f, 8192, 8, 4, 1)
  <2>1. 1 \in Nat /\ 2 \in Nat /\ 4 \in Nat /\ 8 \in Nat /\ 16 \in Nat /\ 8192 \in Nat
    OBVIOUS
  <2>2. ASSUME NEW k \in Nat, Cancel5(f, k, 16, 8, 4, 2)
        PROVE  Cancel4(f, k, 8, 4, 1)
    BY <1>1, <2>1, <2>2, Replaced54
  <2> QED
    BY <1>14, <2>1, <2>2
<1>16. Cancel4(f, 16384, 16, 8, 2)
  <2>1. 2 * 8192 = 16384 /\ 2 * 8 = 16 /\ 2 * 4 = 8 /\ 2 * 1 = 2
    OBVIOUS
  <2>2. 8192 \in Nat /\ 8 \in Nat /\ 4 \in Nat /\ 1 \in Nat
    OBVIOUS
  <2>3. Cancel4(f, 2 * 8192, 2 * 8, 2 * 4, 2 * 1)
    BY <1>15, <2>2, Squared4
  <2> QED
    BY ONLY <2>1, <2>3
<1>17. Cancel3(f, 16384, 8, 1)
  <2>1. 1 \in Nat /\ 2 \in Nat /\ 8 \in Nat /\ 16 \in Nat /\ 16384 \in Nat
    OBVIOUS
  <2>2. ASSUME NEW k \in Nat, Cancel4(f, k, 16, 8, 2)
        PROVE  Cancel3(f, k, 8, 1)
    BY <1>1, <2>1, <2>2, Replaced43
  <2> QED
    BY <1>16, <2>1, <2>2
<1>18. Cancel3(f, 32768, 16, 2)
  <2>1. 2 * 16384 = 32768 /\ 2 * 8 = 16 /\ 2 * 1 = 2
    OBVIOUS
  <2>2. 16384 \in Nat /\ 8 \in Nat /\ 1 \in Nat
    OBVIOUS
  <2>3. Cancel3(f, 2 * 16384, 2 * 8, 2 * 1)
    BY <1>17, <2>2, Squared3
  <2> QED
    BY ONLY <2>1, <2>3
<1>19. \A n \in Nat : f[n + 32768] = f[n + 1]
  <2>1. 1 \in Nat /\ 2 \in Nat /\ 16 \in Nat /\ 32768 \in Nat
    OBVIOUS
  <2>2. ASSUME NEW k \in Nat, Cancel3(f, k, 16, 2)
        PROVE  \A n \in Nat : f[n + k] = f[n + 1]
    BY <1>1, <2>1, <2>2, Replaced32
  <2> QED
    BY <1>18, <2>1, <2>2
<1> QED
  BY <1>1, <1>2, <1>3, <1>4, <1>5, <1>6, <1>7, <1>8, <1>9, <1>10, <1>11, <1>12, <1>13, <1>14, <1>15, <1>16, <1>17, <1>18, <1>19

\* With the short register it is the 2^7-th.
LEMMA ShortSums ==
  ASSUME NEW f, AreBits(f), Cancel3(f, 7, 1, 0)
  PROVE  /\ \A n \in Nat : f[n + 128] = f[n + 1]
<1>1. Cancel3(f, 8, 2, 1)
  <2>1. 7 + 1 = 8 /\ 7 \in Nat
    OBVIOUS
  <2> QED
    BY <2>1, NextCancels
<1>2. Cancel3(f, 16, 4, 2)
  <2>1. 2 * 8 = 16 /\ 2 * 2 = 4 /\ 2 * 1 = 2
    OBVIOUS
  <2>2. 8 \in Nat /\ 2 \in Nat /\ 1 \in Nat
    OBVIOUS
  <2>3. Cancel3(f, 2 * 8, 2 * 2, 2 * 1)
    BY <1>1, <2>2, Squared3
  <2> QED
    BY ONLY <2>1, <2>3
<1>3. Cancel3(f, 32, 8, 4)
  <2>1. 2 * 16 = 32 /\ 2 * 4 = 8 /\ 2 * 2 = 4
    OBVIOUS
  <2>2. 16 \in Nat /\ 4 \in Nat /\ 2 \in Nat
    OBVIOUS
  <2>3. Cancel3(f, 2 * 16, 2 * 4, 2 * 2)
    BY <1>2, <2>2, Squared3
  <2> QED
    BY ONLY <2>1, <2>3
<1>4. Cancel4(f, 32, 4, 2, 1)
  <2>1. 1 \in Nat /\ 2 \in Nat /\ 4 \in Nat /\ 8 \in Nat /\ 32 \in Nat
    OBVIOUS
  <2>2. ASSUME NEW k \in Nat, Cancel3(f, k, 8, 4)
        PROVE  Cancel4(f, k, 4, 2, 1)
    BY <1>1, <2>1, <2>2, Replaced34
  <2> QED
    BY <1>3, <2>1, <2>2
<1>5. Cancel4(f, 64, 8, 4, 2)
  <2>1. 2 * 32 = 64 /\ 2 * 4 = 8 /\ 2 * 2 = 4 /\ 2 * 1 = 2
    OBVIOUS
  <2>2. 32 \in Nat /\ 4 \in Nat /\ 2 \in Nat /\ 1 \in Nat
    OBVIOUS
  <2>3. Cancel4(f, 2 * 32, 2 * 4, 2 * 2, 2 * 1)
    BY <1>4, <2>2, Squared4
  <2> QED
    BY ONLY <2>1, <2>3
<1>6. Cancel3(f, 64, 4, 1)
  <2>1. 1 \in Nat /\ 2 \in Nat /\ 4 \in Nat /\ 8 \in Nat /\ 64 \in Nat
    OBVIOUS
  <2>2. ASSUME NEW k \in Nat, Cancel4(f, k, 8, 4, 2)
        PROVE  Cancel3(f, k, 4, 1)
    BY <1>1, <2>1, <2>2, Replaced43
  <2> QED
    BY <1>5, <2>1, <2>2
<1>7. Cancel3(f, 128, 8, 2)
  <2>1. 2 * 64 = 128 /\ 2 * 4 = 8 /\ 2 * 1 = 2
    OBVIOUS
  <2>2. 64 \in Nat /\ 4 \in Nat /\ 1 \in Nat
    OBVIOUS
  <2>3. Cancel3(f, 2 * 64, 2 * 4, 2 * 1)
    BY <1>6, <2>2, Squared3
  <2> QED
    BY ONLY <2>1, <2>3
<1>8. \A n \in Nat : f[n + 128] = f[n + 1]
  <2>1. 1 \in Nat /\ 2 \in Nat /\ 8 \in Nat /\ 128 \in Nat
    OBVIOUS
  <2>2. ASSUME NEW k \in Nat, Cancel3(f, k, 8, 2)
        PROVE  \A n \in Nat : f[n + k] = f[n + 1]
    BY <1>1, <2>1, <2>2, Replaced32
  <2> QED
    BY <1>7, <2>1, <2>2
<1> QED
  BY <1>1, <1>2, <1>3, <1>4, <1>5, <1>6, <1>7, <1>8

\* So the register returns to 0.
LEMMA LongReturns ==
  ASSUME NEW o, IsOrbit(o, 16384)
  PROVE  o[32767] = 0
<1> DEFINE f == Zeros(o)
<1>1. 16384 \in Tops /\ 32767 \in Nat /\ 0 \in Nat
  BY DEF Tops
<1>2. AreBits(f) /\ Cancel3(f, 15, 1, 0) /\ \A n \in Nat : f[n] = 1 <=> OutAt(o, n) = 0
  BY <1>1, ZerosAre, LongCancels
<1>3. \A n \in Nat : f[n + 32768] = f[n + 1]
  BY <1>2, LongSums
<1>4. \A j \in Nat : j < 15 => f[j] = 1
  <2>1. o[0] = 0
    BY DEF IsOrbit
  <2>2. \A j \in Nat : j < 15 => OutAt(o, 0 + j) = 0
    <3>1. PICK n \in Nat : n = 0
      OBVIOUS
    <3>2. o[n] = 0
      BY <2>1, <3>1
    <3>3. \A j \in Nat : j < 15 => OutAt(o, n + j) = 0
      BY <3>2, LongWindow
    <3> QED
      BY <3>1, <3>3
  <2>3. \A j \in Nat : 0 + j = j
    OBVIOUS
  <2> QED
    BY <1>2, <2>2, <2>3
<1> HIDE DEF f
<1>5. \A j \in Nat : j # 0 => f[32767 + j] = f[j]
  <2> SUFFICES ASSUME NEW j \in Nat, j # 0 PROVE f[32767 + j] = f[j]
    OBVIOUS
  <2>1. j - 1 \in Nat /\ (j - 1) + 32768 = 32767 + j /\ (j - 1) + 1 = j
    OBVIOUS
  <2>2. f[(j - 1) + 32768] = f[(j - 1) + 1]
    BY <1>3, <2>1
  <2> QED
    BY <2>1, <2>2
<1>6. f[32767] = 1
  <2>1. (f[32767 + 15] + f[32767 + 1] + f[32767 + 0]) % 2 = 0
    BY <1>1, <1>2 DEF Cancel3
  <2>2. (f[0 + 15] + f[0 + 1] + f[0 + 0]) % 2 = 0
    BY <1>1, <1>2 DEF Cancel3
  <2>3. /\ 32767 + 0 = 32767 /\ 0 + 15 = 15 /\ 0 + 1 = 1 /\ 0 + 0 = 0
        /\ 15 \in Nat /\ 15 # 0 /\ 1 \in Nat /\ 1 # 0
    OBVIOUS
  <2>4. f[32767 + 15] = f[15] /\ f[32767 + 1] = f[1]
    BY <1>5, <2>3
  <2>5. f[0] = 1 /\ f[1] = 1
    BY <1>4
  <2>6. f[15] \in Nat /\ f[32767] \in Nat /\ f[32767] <= 1
    BY <1>1, <1>2, <2>3 DEF AreBits
  <2> QED
    BY <2>1, <2>2, <2>3, <2>4, <2>5, <2>6
<1>7. \A j \in Nat : j < 15 => OutAt(o, 32767 + j) = 0
  <2> SUFFICES ASSUME NEW j \in Nat, j < 15 PROVE OutAt(o, 32767 + j) = 0
    OBVIOUS
  <2>1. 32767 + j \in Nat /\ 32767 + 0 = 32767
    OBVIOUS
  <2>2. f[32767 + j] = 1
    BY <1>4, <1>5, <1>6, <2>1
  <2> QED
    BY <1>2, <2>1, <2>2
<1> QED
  BY <1>1, <1>7, LongWindow

\* The short one as well.
LEMMA ShortReturns ==
  ASSUME NEW o, IsOrbit(o, 64)
  PROVE  o[127] = 0
<1> DEFINE f == Zeros(o)
<1>1. 64 \in Tops /\ 127 \in Nat /\ 0 \in Nat
  BY DEF Tops
<1>2. AreBits(f) /\ Cancel3(f, 7, 1, 0) /\ \A n \in Nat : f[n] = 1 <=> OutAt(o, n) = 0
  BY <1>1, ZerosAre, ShortCancels
<1>3. \A n \in Nat : f[n + 128] = f[n + 1]
  BY <1>2, ShortSums
<1>4. \A j \in Nat : j < 7 => f[j] = 1
  <2>1. o[0] = 0
    BY DEF IsOrbit
  <2>2. \A j \in Nat : j < 7 => OutAt(o, 0 + j) = 0
    <3>1. PICK n \in Nat : n = 0
      OBVIOUS
    <3>2. o[n] = 0
      BY <2>1, <3>1
    <3>3. \A j \in Nat : j < 7 => OutAt(o, n + j) = 0
      BY <3>2, ShortWindow
    <3> QED
      BY <3>1, <3>3
  <2>3. \A j \in Nat : 0 + j = j
    OBVIOUS
  <2> QED
    BY <1>2, <2>2, <2>3
<1> HIDE DEF f
<1>5. \A j \in Nat : j # 0 => f[127 + j] = f[j]
  <2> SUFFICES ASSUME NEW j \in Nat, j # 0 PROVE f[127 + j] = f[j]
    OBVIOUS
  <2>1. j - 1 \in Nat /\ (j - 1) + 128 = 127 + j /\ (j - 1) + 1 = j
    OBVIOUS
  <2>2. f[(j - 1) + 128] = f[(j - 1) + 1]
    BY <1>3, <2>1
  <2> QED
    BY <2>1, <2>2
<1>6. f[127] = 1
  <2>1. (f[127 + 7] + f[127 + 1] + f[127 + 0]) % 2 = 0
    BY <1>1, <1>2 DEF Cancel3
  <2>2. (f[0 + 7] + f[0 + 1] + f[0 + 0]) % 2 = 0
    BY <1>1, <1>2 DEF Cancel3
  <2>3. /\ 127 + 0 = 127 /\ 0 + 7 = 7 /\ 0 + 1 = 1 /\ 0 + 0 = 0
        /\ 7 \in Nat /\ 7 # 0 /\ 1 \in Nat /\ 1 # 0
    OBVIOUS
  <2>4. f[127 + 7] = f[7] /\ f[127 + 1] = f[1]
    BY <1>5, <2>3
  <2>5. f[0] = 1 /\ f[1] = 1
    BY <1>4
  <2>6. f[7] \in Nat /\ f[127] \in Nat /\ f[127] <= 1
    BY <1>1, <1>2, <2>3 DEF AreBits
  <2> QED
    BY <2>1, <2>2, <2>3, <2>4, <2>5, <2>6
<1>7. \A j \in Nat : j < 7 => OutAt(o, 127 + j) = 0
  <2> SUFFICES ASSUME NEW j \in Nat, j < 7 PROVE OutAt(o, 127 + j) = 0
    OBVIOUS
  <2>1. 127 + j \in Nat /\ 127 + 0 = 127
    OBVIOUS
  <2>2. f[127 + j] = 1
    BY <1>4, <1>5, <1>6, <2>1
  <2> QED
    BY <1>2, <2>1, <2>2
<1> QED
  BY <1>1, <1>7, ShortWindow

-----------------------------------------------------------------------------
\* The zeros of the long register at the start.
LEMMA LongStart ==
  ASSUME NEW f, AreBits(f), Cancel3(f, 15, 1, 0), \A j \in Nat : j < 15 => f[j] = 1
  PROVE  /\ \A j \in Nat : 15 <= j /\ j <= 28 => f[j] = 0
         /\ f[29] = 1
         /\ \A j \in Nat : 30 <= j /\ j <= 42 => f[j] = 0
<1>1. ASSUME NEW n \in Nat
      PROVE  /\ f[n] = f[n + 1] => f[n + 15] = 0
             /\ f[n] # f[n + 1] => f[n + 15] = 1
  <2>1. (f[n + 15] + f[n + 1] + f[n + 0]) % 2 = 0
    BY DEF Cancel3
  <2>2. n + 0 = n /\ n + 1 \in Nat /\ n + 15 \in Nat
    OBVIOUS
  <2>3. PICK f0, f1, f15 : f0 = f[n] /\ f1 = f[n + 1] /\ f15 = f[n + 15]
    OBVIOUS
  <2>4. f0 \in Nat /\ f0 <= 1 /\ f1 \in Nat /\ f1 <= 1 /\ f15 \in Nat /\ f15 <= 1
    BY <2>2, <2>3 DEF AreBits
  <2>5. (f15 + f1 + f0) % 2 = 0
    BY ONLY <2>1, <2>2, <2>3
  <2>6. (f0 = f1 => f15 = 0) /\ (f0 # f1 => f15 = 1)
    BY ONLY <2>4, <2>5
  <2> QED
    BY ONLY <2>3, <2>6
<1>2. ASSUME NEW j \in Nat, 15 <= j, j <= 28 PROVE f[j] = 0
  <2>1. PICK n \in Nat : n < 14 /\ j = n + 15
    <3>1. j - 15 \in Nat /\ j - 15 < 14 /\ j = (j - 15) + 15
      BY <1>2
    <3> QED
      BY <3>1
  <2>2. f[n] = 1 /\ f[n + 1] = 1
    BY <2>1
  <2> QED
    BY <1>1, <2>1, <2>2
<1>3. f[29] = 1
  <2>1. 14 \in Nat /\ 14 + 1 = 15 /\ 14 + 15 = 29
    OBVIOUS
  <2>2. f[14] = 1 /\ f[15] = 0
    BY <1>2
  <2> QED
    BY <1>1, <2>1, <2>2
<1>4. ASSUME NEW j \in Nat, 30 <= j, j <= 42 PROVE f[j] = 0
  <2>1. PICK n \in Nat : 15 <= n /\ n < 28 /\ j = n + 15
    <3>1. j - 15 \in Nat /\ 15 <= j - 15 /\ j - 15 < 28 /\ j = (j - 15) + 15
      BY <1>4
    <3> QED
      BY <3>1
  <2>2. f[n] = 0 /\ f[n + 1] = 0
    BY <1>2, <2>1
  <2> QED
    BY <1>1, <2>1, <2>2
<1> QED
  BY <1>2, <1>3, <1>4

\* After none of the three greatest proper divisors of 2^15 - 1 does a zero leave.
LEMMA LongNotYet ==
  ASSUME NEW f, AreBits(f), Cancel3(f, 15, 1, 0), \A j \in Nat : j < 15 => f[j] = 1
  PROVE  f[217] = 0 /\ f[1057] = 0 /\ f[4681] = 0
<1>1. /\ \A j \in Nat : 15 <= j /\ j <= 28 => f[j] = 0
      /\ f[29] = 1
      /\ \A j \in Nat : 30 <= j /\ j <= 42 => f[j] = 0
  BY LongStart
<1>2. /\ Cancel3(f, 64, 8, 4) /\ Cancel4(f, 128, 8, 2, 1) /\ Cancel3(f, 512, 8, 2)
      /\ Cancel4(f, 1024, 4, 2, 1) /\ Cancel5(f, 4096, 8, 4, 2, 1)
  BY LongSums
<1>3. /\ f[16] = 0 /\ f[17] = 0 /\ f[19] = 0 /\ f[20] = 0 /\ f[21] = 0 /\ f[22] = 0
      /\ f[23] = 0 /\ f[25] = 0 /\ f[26] = 0 /\ f[27] = 0 /\ f[30] = 0 /\ f[31] = 0
      /\ f[33] = 0 /\ f[34] = 0 /\ f[35] = 0 /\ f[37] = 0 /\ f[41] = 0
      /\ f[29] = 1
  BY <1>1
<1>4. f[90] = 0
  <2>1. PICK n \in Nat : n = 26
    OBVIOUS
  <2>2. Cancel3(f, 64, 8, 4)
    BY <1>2
  <2>3. (f[n + 64] + f[n + 8] + f[n + 4]) % 2 = 0
    BY <2>2 DEF Cancel3
  <2>4. n + 64 = 90 /\ n + 8 = 34 /\ n + 4 = 30 /\ 90 \in Nat
    BY <2>1
  <2>5. (f[90] + f[34] + f[30]) % 2 = 0
    BY ONLY <2>3, <2>4
  <2>6. f[90] \in Nat /\ f[90] <= 1
    BY <2>4 DEF AreBits
  <2>7. f[34] = 0 /\ f[30] = 0
    BY ONLY <1>3
  <2> QED
    BY ONLY <2>5, <2>6, <2>7
<1>5. f[91] = 0
  <2>1. PICK n \in Nat : n = 27
    OBVIOUS
  <2>2. Cancel3(f, 64, 8, 4)
    BY <1>2
  <2>3. (f[n + 64] + f[n + 8] + f[n + 4]) % 2 = 0
    BY <2>2 DEF Cancel3
  <2>4. n + 64 = 91 /\ n + 8 = 35 /\ n + 4 = 31 /\ 91 \in Nat
    BY <2>1
  <2>5. (f[91] + f[35] + f[31]) % 2 = 0
    BY ONLY <2>3, <2>4
  <2>6. f[91] \in Nat /\ f[91] <= 1
    BY <2>4 DEF AreBits
  <2>7. f[35] = 0 /\ f[31] = 0
    BY ONLY <1>3
  <2> QED
    BY ONLY <2>5, <2>6, <2>7
<1>6. f[97] = 0
  <2>1. PICK n \in Nat : n = 33
    OBVIOUS
  <2>2. Cancel3(f, 64, 8, 4)
    BY <1>2
  <2>3. (f[n + 64] + f[n + 8] + f[n + 4]) % 2 = 0
    BY <2>2 DEF Cancel3
  <2>4. n + 64 = 97 /\ n + 8 = 41 /\ n + 4 = 37 /\ 97 \in Nat
    BY <2>1
  <2>5. (f[97] + f[41] + f[37]) % 2 = 0
    BY ONLY <2>3, <2>4
  <2>6. f[97] \in Nat /\ f[97] <= 1
    BY <2>4 DEF AreBits
  <2>7. f[41] = 0 /\ f[37] = 0
    BY ONLY <1>3
  <2> QED
    BY ONLY <2>5, <2>6, <2>7
<1>7. f[217] = 0
  <2>1. PICK n \in Nat : n = 89
    OBVIOUS
  <2>2. Cancel4(f, 128, 8, 2, 1)
    BY <1>2
  <2>3. (f[n + 128] + f[n + 8] + f[n + 2] + f[n + 1]) % 2 = 0
    BY <2>2 DEF Cancel4
  <2>4. n + 128 = 217 /\ n + 8 = 97 /\ n + 2 = 91 /\ n + 1 = 90 /\ 217 \in Nat
    BY <2>1
  <2>5. (f[217] + f[97] + f[91] + f[90]) % 2 = 0
    BY ONLY <2>3, <2>4
  <2>6. f[217] \in Nat /\ f[217] <= 1
    BY <2>4 DEF AreBits
  <2>7. f[97] = 0 /\ f[91] = 0 /\ f[90] = 0
    BY ONLY <1>4, <1>5, <1>6
  <2> QED
    BY ONLY <2>5, <2>6, <2>7
<1>8. f[1057] = 0
  <2>1. PICK n \in Nat : n = 33
    OBVIOUS
  <2>2. Cancel4(f, 1024, 4, 2, 1)
    BY <1>2
  <2>3. (f[n + 1024] + f[n + 4] + f[n + 2] + f[n + 1]) % 2 = 0
    BY <2>2 DEF Cancel4
  <2>4. n + 1024 = 1057 /\ n + 4 = 37 /\ n + 2 = 35 /\ n + 1 = 34 /\ 1057 \in Nat
    BY <2>1
  <2>5. (f[1057] + f[37] + f[35] + f[34]) % 2 = 0
    BY ONLY <2>3, <2>4
  <2>6. f[1057] \in Nat /\ f[1057] <= 1
    BY <2>4 DEF AreBits
  <2>7. f[37] = 0 /\ f[35] = 0 /\ f[34] = 0
    BY ONLY <1>3
  <2> QED
    BY ONLY <2>5, <2>6, <2>7
<1>9. f[89] = 1
  <2>1. PICK n \in Nat : n = 25
    OBVIOUS
  <2>2. Cancel3(f, 64, 8, 4)
    BY <1>2
  <2>3. (f[n + 64] + f[n + 8] + f[n + 4]) % 2 = 0
    BY <2>2 DEF Cancel3
  <2>4. n + 64 = 89 /\ n + 8 = 33 /\ n + 4 = 29 /\ 89 \in Nat
    BY <2>1
  <2>5. (f[89] + f[33] + f[29]) % 2 = 0
    BY ONLY <2>3, <2>4
  <2>6. f[89] \in Nat /\ f[89] <= 1
    BY <2>4 DEF AreBits
  <2>7. f[33] = 0 /\ f[29] = 1
    BY ONLY <1>3
  <2>8. (f[89] + 0 + 1) % 2 = 0
    BY ONLY <2>5, <2>7
  <2>9. f[89] = 0 \/ f[89] = 1
    BY ONLY <2>6
  <2> QED
    BY ONLY <2>8, <2>9
<1>10. f[85] = 1
  <2>1. PICK n \in Nat : n = 21
    OBVIOUS
  <2>2. Cancel3(f, 64, 8, 4)
    BY <1>2
  <2>3. (f[n + 64] + f[n + 8] + f[n + 4]) % 2 = 0
    BY <2>2 DEF Cancel3
  <2>4. n + 64 = 85 /\ n + 8 = 29 /\ n + 4 = 25 /\ 85 \in Nat
    BY <2>1
  <2>5. (f[85] + f[29] + f[25]) % 2 = 0
    BY ONLY <2>3, <2>4
  <2>6. f[85] \in Nat /\ f[85] <= 1
    BY <2>4 DEF AreBits
  <2>7. f[29] = 1 /\ f[25] = 0
    BY ONLY <1>3
  <2>8. (f[85] + 1 + 0) % 2 = 0
    BY ONLY <2>5, <2>7
  <2>9. f[85] = 0 \/ f[85] = 1
    BY ONLY <2>6
  <2> QED
    BY ONLY <2>8, <2>9
<1>11. f[79] = 0
  <2>1. PICK n \in Nat : n = 15
    OBVIOUS
  <2>2. Cancel3(f, 64, 8, 4)
    BY <1>2
  <2>3. (f[n + 64] + f[n + 8] + f[n + 4]) % 2 = 0
    BY <2>2 DEF Cancel3
  <2>4. n + 64 = 79 /\ n + 8 = 23 /\ n + 4 = 19 /\ 79 \in Nat
    BY <2>1
  <2>5. (f[79] + f[23] + f[19]) % 2 = 0
    BY ONLY <2>3, <2>4
  <2>6. f[79] \in Nat /\ f[79] <= 1
    BY <2>4 DEF AreBits
  <2>7. f[23] = 0 /\ f[19] = 0
    BY ONLY <1>3
  <2> QED
    BY ONLY <2>5, <2>6, <2>7
<1>12. f[77] = 0
  <2>1. PICK n \in Nat : n = 13
    OBVIOUS
  <2>2. Cancel3(f, 64, 8, 4)
    BY <1>2
  <2>3. (f[n + 64] + f[n + 8] + f[n + 4]) % 2 = 0
    BY <2>2 DEF Cancel3
  <2>4. n + 64 = 77 /\ n + 8 = 21 /\ n + 4 = 17 /\ 77 \in Nat
    BY <2>1
  <2>5. (f[77] + f[21] + f[17]) % 2 = 0
    BY ONLY <2>3, <2>4
  <2>6. f[77] \in Nat /\ f[77] <= 1
    BY <2>4 DEF AreBits
  <2>7. f[21] = 0 /\ f[17] = 0
    BY ONLY <1>3
  <2> QED
    BY ONLY <2>5, <2>6, <2>7
<1>13. f[82] = 0
  <2>1. PICK n \in Nat : n = 18
    OBVIOUS
  <2>2. Cancel3(f, 64, 8, 4)
    BY <1>2
  <2>3. (f[n + 64] + f[n + 8] + f[n + 4]) % 2 = 0
    BY <2>2 DEF Cancel3
  <2>4. n + 64 = 82 /\ n + 8 = 26 /\ n + 4 = 22 /\ 82 \in Nat
    BY <2>1
  <2>5. (f[82] + f[26] + f[22]) % 2 = 0
    BY ONLY <2>3, <2>4
  <2>6. f[82] \in Nat /\ f[82] <= 1
    BY <2>4 DEF AreBits
  <2>7. f[26] = 0 /\ f[22] = 0
    BY ONLY <1>3
  <2> QED
    BY ONLY <2>5, <2>6, <2>7
<1>14. f[76] = 0
  <2>1. PICK n \in Nat : n = 12
    OBVIOUS
  <2>2. Cancel3(f, 64, 8, 4)
    BY <1>2
  <2>3. (f[n + 64] + f[n + 8] + f[n + 4]) % 2 = 0
    BY <2>2 DEF Cancel3
  <2>4. n + 64 = 76 /\ n + 8 = 20 /\ n + 4 = 16 /\ 76 \in Nat
    BY <2>1
  <2>5. (f[76] + f[20] + f[16]) % 2 = 0
    BY ONLY <2>3, <2>4
  <2>6. f[76] \in Nat /\ f[76] <= 1
    BY <2>4 DEF AreBits
  <2>7. f[20] = 0 /\ f[16] = 0
    BY ONLY <1>3
  <2> QED
    BY ONLY <2>5, <2>6, <2>7
<1>15. f[83] = 0
  <2>1. PICK n \in Nat : n = 19
    OBVIOUS
  <2>2. Cancel3(f, 64, 8, 4)
    BY <1>2
  <2>3. (f[n + 64] + f[n + 8] + f[n + 4]) % 2 = 0
    BY <2>2 DEF Cancel3
  <2>4. n + 64 = 83 /\ n + 8 = 27 /\ n + 4 = 23 /\ 83 \in Nat
    BY <2>1
  <2>5. (f[83] + f[27] + f[23]) % 2 = 0
    BY ONLY <2>3, <2>4
  <2>6. f[83] \in Nat /\ f[83] <= 1
    BY <2>4 DEF AreBits
  <2>7. f[27] = 0 /\ f[23] = 0
    BY ONLY <1>3
  <2> QED
    BY ONLY <2>5, <2>6, <2>7
<1>16. f[593] = 1
  <2>1. PICK n \in Nat : n = 81
    OBVIOUS
  <2>2. Cancel3(f, 512, 8, 2)
    BY <1>2
  <2>3. (f[n + 512] + f[n + 8] + f[n + 2]) % 2 = 0
    BY <2>2 DEF Cancel3
  <2>4. n + 512 = 593 /\ n + 8 = 89 /\ n + 2 = 83 /\ 593 \in Nat
    BY <2>1
  <2>5. (f[593] + f[89] + f[83]) % 2 = 0
    BY ONLY <2>3, <2>4
  <2>6. f[593] \in Nat /\ f[593] <= 1
    BY <2>4 DEF AreBits
  <2>7. f[89] = 1 /\ f[83] = 0
    BY ONLY <1>9, <1>15
  <2>8. (f[593] + 1 + 0) % 2 = 0
    BY ONLY <2>5, <2>7
  <2>9. f[593] = 0 \/ f[593] = 1
    BY ONLY <2>6
  <2> QED
    BY ONLY <2>8, <2>9
<1>17. f[589] = 1
  <2>1. PICK n \in Nat : n = 77
    OBVIOUS
  <2>2. Cancel3(f, 512, 8, 2)
    BY <1>2
  <2>3. (f[n + 512] + f[n + 8] + f[n + 2]) % 2 = 0
    BY <2>2 DEF Cancel3
  <2>4. n + 512 = 589 /\ n + 8 = 85 /\ n + 2 = 79 /\ 589 \in Nat
    BY <2>1
  <2>5. (f[589] + f[85] + f[79]) % 2 = 0
    BY ONLY <2>3, <2>4
  <2>6. f[589] \in Nat /\ f[589] <= 1
    BY <2>4 DEF AreBits
  <2>7. f[85] = 1 /\ f[79] = 0
    BY ONLY <1>10, <1>11
  <2>8. (f[589] + 1 + 0) % 2 = 0
    BY ONLY <2>5, <2>7
  <2>9. f[589] = 0 \/ f[589] = 1
    BY ONLY <2>6
  <2> QED
    BY ONLY <2>8, <2>9
<1>18. f[587] = 0
  <2>1. PICK n \in Nat : n = 75
    OBVIOUS
  <2>2. Cancel3(f, 512, 8, 2)
    BY <1>2
  <2>3. (f[n + 512] + f[n + 8] + f[n + 2]) % 2 = 0
    BY <2>2 DEF Cancel3
  <2>4. n + 512 = 587 /\ n + 8 = 83 /\ n + 2 = 77 /\ 587 \in Nat
    BY <2>1
  <2>5. (f[587] + f[83] + f[77]) % 2 = 0
    BY ONLY <2>3, <2>4
  <2>6. f[587] \in Nat /\ f[587] <= 1
    BY <2>4 DEF AreBits
  <2>7. f[83] = 0 /\ f[77] = 0
    BY ONLY <1>12, <1>15
  <2> QED
    BY ONLY <2>5, <2>6, <2>7
<1>19. f[586] = 0
  <2>1. PICK n \in Nat : n = 74
    OBVIOUS
  <2>2. Cancel3(f, 512, 8, 2)
    BY <1>2
  <2>3. (f[n + 512] + f[n + 8] + f[n + 2]) % 2 = 0
    BY <2>2 DEF Cancel3
  <2>4. n + 512 = 586 /\ n + 8 = 82 /\ n + 2 = 76 /\ 586 \in Nat
    BY <2>1
  <2>5. (f[586] + f[82] + f[76]) % 2 = 0
    BY ONLY <2>3, <2>4
  <2>6. f[586] \in Nat /\ f[586] <= 1
    BY <2>4 DEF AreBits
  <2>7. f[82] = 0 /\ f[76] = 0
    BY ONLY <1>13, <1>14
  <2> QED
    BY ONLY <2>5, <2>6, <2>7
<1>20. f[4681] = 0
  <2>1. PICK n \in Nat : n = 585
    OBVIOUS
  <2>2. Cancel5(f, 4096, 8, 4, 2, 1)
    BY <1>2
  <2>3. (f[n + 4096] + f[n + 8] + f[n + 4] + f[n + 2] + f[n + 1]) % 2 = 0
    BY <2>2 DEF Cancel5
  <2>4. n + 4096 = 4681 /\ n + 8 = 593 /\ n + 4 = 589 /\ n + 2 = 587 /\ n + 1 = 586 /\ 4681 \in Nat
    BY <2>1
  <2>5. (f[4681] + f[593] + f[589] + f[587] + f[586]) % 2 = 0
    BY ONLY <2>3, <2>4
  <2>6. f[4681] \in Nat /\ f[4681] <= 1
    BY <2>4 DEF AreBits
  <2>7. f[593] = 1 /\ f[589] = 1 /\ f[587] = 0 /\ f[586] = 0
    BY ONLY <1>16, <1>17, <1>18, <1>19
  <2>8. (f[4681] + 1 + 1 + 0 + 0) % 2 = 0
    BY ONLY <2>5, <2>7
  <2>9. f[4681] = 0 \/ f[4681] = 1
    BY ONLY <2>6
  <2> QED
    BY ONLY <2>8, <2>9
<1> QED
  BY <1>7, <1>8, <1>20

\* The divisors of 2^15 - 1 = 7 * 31 * 151 up to its square root.
LongProduct(d, e) == d * e = 32767

\* Of e that are not greater there are four.
LEMMA LongDivisors ==
  ASSUME NEW d \in Nat, NEW e \in Nat, LongProduct(d, e), e <= 181
  PROVE  e = 1 \/ e = 7 \/ e = 31 \/ e = 151
<1>0. d * e = 32767
  BY DEF LongProduct
<1>1. ASSUME 0 <= e, e <= 9 PROVE e = 1 \/ e = 7
  <2>1. e = 0 \/ e = 1 \/ e = 2 \/ e = 3 \/ e = 4 \/ e = 5 \/ e = 6 \/ e = 7 \/ e = 8 \/ e = 9
    BY <1>1
  <2>2. /\ d * 0 # 32767
        /\ d * 2 # 32767
        /\ d * 3 # 32767
        /\ d * 4 # 32767
        /\ d * 5 # 32767
        /\ d * 6 # 32767
        /\ d * 8 # 32767
        /\ d * 9 # 32767
    OBVIOUS
  <2> QED
    BY <1>0, <2>1, <2>2
<1>2. ASSUME 10 <= e, e <= 19 PROVE FALSE
  <2>1. e = 10 \/ e = 11 \/ e = 12 \/ e = 13 \/ e = 14 \/ e = 15 \/ e = 16 \/ e = 17 \/ e = 18 \/ e = 19
    BY <1>2
  <2>2. /\ d * 10 # 32767
        /\ d * 11 # 32767
        /\ d * 12 # 32767
        /\ d * 13 # 32767
        /\ d * 14 # 32767
        /\ d * 15 # 32767
        /\ d * 16 # 32767
        /\ d * 17 # 32767
        /\ d * 18 # 32767
        /\ d * 19 # 32767
    OBVIOUS
  <2> QED
    BY <1>0, <2>1, <2>2
<1>3. ASSUME 20 <= e, e <= 29 PROVE FALSE
  <2>1. e = 20 \/ e = 21 \/ e = 22 \/ e = 23 \/ e = 24 \/ e = 25 \/ e = 26 \/ e = 27 \/ e = 28 \/ e = 29
    BY <1>3
  <2>2. /\ d * 20 # 32767
        /\ d * 21 # 32767
        /\ d * 22 # 32767
        /\ d * 23 # 32767
        /\ d * 24 # 32767
        /\ d * 25 # 32767
        /\ d * 26 # 32767
        /\ d * 27 # 32767
        /\ d * 28 # 32767
        /\ d * 29 # 32767
    OBVIOUS
  <2> QED
    BY <1>0, <2>1, <2>2
<1>4. ASSUME 30 <= e, e <= 39 PROVE e = 31
  <2>1. e = 30 \/ e = 31 \/ e = 32 \/ e = 33 \/ e = 34 \/ e = 35 \/ e = 36 \/ e = 37 \/ e = 38 \/ e = 39
    BY <1>4
  <2>2. /\ d * 30 # 32767
        /\ d * 32 # 32767
        /\ d * 33 # 32767
        /\ d * 34 # 32767
        /\ d * 35 # 32767
        /\ d * 36 # 32767
        /\ d * 37 # 32767
        /\ d * 38 # 32767
        /\ d * 39 # 32767
    OBVIOUS
  <2> QED
    BY <1>0, <2>1, <2>2
<1>5. ASSUME 40 <= e, e <= 49 PROVE FALSE
  <2>1. e = 40 \/ e = 41 \/ e = 42 \/ e = 43 \/ e = 44 \/ e = 45 \/ e = 46 \/ e = 47 \/ e = 48 \/ e = 49
    BY <1>5
  <2>2. /\ d * 40 # 32767
        /\ d * 41 # 32767
        /\ d * 42 # 32767
        /\ d * 43 # 32767
        /\ d * 44 # 32767
        /\ d * 45 # 32767
        /\ d * 46 # 32767
        /\ d * 47 # 32767
        /\ d * 48 # 32767
        /\ d * 49 # 32767
    OBVIOUS
  <2> QED
    BY <1>0, <2>1, <2>2
<1>6. ASSUME 50 <= e, e <= 59 PROVE FALSE
  <2>1. e = 50 \/ e = 51 \/ e = 52 \/ e = 53 \/ e = 54 \/ e = 55 \/ e = 56 \/ e = 57 \/ e = 58 \/ e = 59
    BY <1>6
  <2>2. /\ d * 50 # 32767
        /\ d * 51 # 32767
        /\ d * 52 # 32767
        /\ d * 53 # 32767
        /\ d * 54 # 32767
        /\ d * 55 # 32767
        /\ d * 56 # 32767
        /\ d * 57 # 32767
        /\ d * 58 # 32767
        /\ d * 59 # 32767
    OBVIOUS
  <2> QED
    BY <1>0, <2>1, <2>2
<1>7. ASSUME 60 <= e, e <= 69 PROVE FALSE
  <2>1. e = 60 \/ e = 61 \/ e = 62 \/ e = 63 \/ e = 64 \/ e = 65 \/ e = 66 \/ e = 67 \/ e = 68 \/ e = 69
    BY <1>7
  <2>2. /\ d * 60 # 32767
        /\ d * 61 # 32767
        /\ d * 62 # 32767
        /\ d * 63 # 32767
        /\ d * 64 # 32767
        /\ d * 65 # 32767
        /\ d * 66 # 32767
        /\ d * 67 # 32767
        /\ d * 68 # 32767
        /\ d * 69 # 32767
    OBVIOUS
  <2> QED
    BY <1>0, <2>1, <2>2
<1>8. ASSUME 70 <= e, e <= 79 PROVE FALSE
  <2>1. e = 70 \/ e = 71 \/ e = 72 \/ e = 73 \/ e = 74 \/ e = 75 \/ e = 76 \/ e = 77 \/ e = 78 \/ e = 79
    BY <1>8
  <2>2. /\ d * 70 # 32767
        /\ d * 71 # 32767
        /\ d * 72 # 32767
        /\ d * 73 # 32767
        /\ d * 74 # 32767
        /\ d * 75 # 32767
        /\ d * 76 # 32767
        /\ d * 77 # 32767
        /\ d * 78 # 32767
        /\ d * 79 # 32767
    OBVIOUS
  <2> QED
    BY <1>0, <2>1, <2>2
<1>9. ASSUME 80 <= e, e <= 89 PROVE FALSE
  <2>1. e = 80 \/ e = 81 \/ e = 82 \/ e = 83 \/ e = 84 \/ e = 85 \/ e = 86 \/ e = 87 \/ e = 88 \/ e = 89
    BY <1>9
  <2>2. /\ d * 80 # 32767
        /\ d * 81 # 32767
        /\ d * 82 # 32767
        /\ d * 83 # 32767
        /\ d * 84 # 32767
        /\ d * 85 # 32767
        /\ d * 86 # 32767
        /\ d * 87 # 32767
        /\ d * 88 # 32767
        /\ d * 89 # 32767
    OBVIOUS
  <2> QED
    BY <1>0, <2>1, <2>2
<1>10. ASSUME 90 <= e, e <= 99 PROVE FALSE
  <2>1. e = 90 \/ e = 91 \/ e = 92 \/ e = 93 \/ e = 94 \/ e = 95 \/ e = 96 \/ e = 97 \/ e = 98 \/ e = 99
    BY <1>10
  <2>2. /\ d * 90 # 32767
        /\ d * 91 # 32767
        /\ d * 92 # 32767
        /\ d * 93 # 32767
        /\ d * 94 # 32767
        /\ d * 95 # 32767
        /\ d * 96 # 32767
        /\ d * 97 # 32767
        /\ d * 98 # 32767
        /\ d * 99 # 32767
    OBVIOUS
  <2> QED
    BY <1>0, <2>1, <2>2
<1>11. ASSUME 100 <= e, e <= 109 PROVE FALSE
  <2>1. e = 100 \/ e = 101 \/ e = 102 \/ e = 103 \/ e = 104 \/ e = 105 \/ e = 106 \/ e = 107 \/ e = 108 \/ e = 109
    BY <1>11
  <2>2. /\ d * 100 # 32767
        /\ d * 101 # 32767
        /\ d * 102 # 32767
        /\ d * 103 # 32767
        /\ d * 104 # 32767
        /\ d * 105 # 32767
        /\ d * 106 # 32767
        /\ d * 107 # 32767
        /\ d * 108 # 32767
        /\ d * 109 # 32767
    OBVIOUS
  <2> QED
    BY <1>0, <2>1, <2>2
<1>12. ASSUME 110 <= e, e <= 119 PROVE FALSE
  <2>1. e = 110 \/ e = 111 \/ e = 112 \/ e = 113 \/ e = 114 \/ e = 115 \/ e = 116 \/ e = 117 \/ e = 118 \/ e = 119
    BY <1>12
  <2>2. /\ d * 110 # 32767
        /\ d * 111 # 32767
        /\ d * 112 # 32767
        /\ d * 113 # 32767
        /\ d * 114 # 32767
        /\ d * 115 # 32767
        /\ d * 116 # 32767
        /\ d * 117 # 32767
        /\ d * 118 # 32767
        /\ d * 119 # 32767
    OBVIOUS
  <2> QED
    BY <1>0, <2>1, <2>2
<1>13. ASSUME 120 <= e, e <= 129 PROVE FALSE
  <2>1. e = 120 \/ e = 121 \/ e = 122 \/ e = 123 \/ e = 124 \/ e = 125 \/ e = 126 \/ e = 127 \/ e = 128 \/ e = 129
    BY <1>13
  <2>2. /\ d * 120 # 32767
        /\ d * 121 # 32767
        /\ d * 122 # 32767
        /\ d * 123 # 32767
        /\ d * 124 # 32767
        /\ d * 125 # 32767
        /\ d * 126 # 32767
        /\ d * 127 # 32767
        /\ d * 128 # 32767
        /\ d * 129 # 32767
    OBVIOUS
  <2> QED
    BY <1>0, <2>1, <2>2
<1>14. ASSUME 130 <= e, e <= 139 PROVE FALSE
  <2>1. e = 130 \/ e = 131 \/ e = 132 \/ e = 133 \/ e = 134 \/ e = 135 \/ e = 136 \/ e = 137 \/ e = 138 \/ e = 139
    BY <1>14
  <2>2. /\ d * 130 # 32767
        /\ d * 131 # 32767
        /\ d * 132 # 32767
        /\ d * 133 # 32767
        /\ d * 134 # 32767
        /\ d * 135 # 32767
        /\ d * 136 # 32767
        /\ d * 137 # 32767
        /\ d * 138 # 32767
        /\ d * 139 # 32767
    OBVIOUS
  <2> QED
    BY <1>0, <2>1, <2>2
<1>15. ASSUME 140 <= e, e <= 149 PROVE FALSE
  <2>1. e = 140 \/ e = 141 \/ e = 142 \/ e = 143 \/ e = 144 \/ e = 145 \/ e = 146 \/ e = 147 \/ e = 148 \/ e = 149
    BY <1>15
  <2>2. /\ d * 140 # 32767
        /\ d * 141 # 32767
        /\ d * 142 # 32767
        /\ d * 143 # 32767
        /\ d * 144 # 32767
        /\ d * 145 # 32767
        /\ d * 146 # 32767
        /\ d * 147 # 32767
        /\ d * 148 # 32767
        /\ d * 149 # 32767
    OBVIOUS
  <2> QED
    BY <1>0, <2>1, <2>2
<1>16. ASSUME 150 <= e, e <= 159 PROVE e = 151
  <2>1. e = 150 \/ e = 151 \/ e = 152 \/ e = 153 \/ e = 154 \/ e = 155 \/ e = 156 \/ e = 157 \/ e = 158 \/ e = 159
    BY <1>16
  <2>2. /\ d * 150 # 32767
        /\ d * 152 # 32767
        /\ d * 153 # 32767
        /\ d * 154 # 32767
        /\ d * 155 # 32767
        /\ d * 156 # 32767
        /\ d * 157 # 32767
        /\ d * 158 # 32767
        /\ d * 159 # 32767
    OBVIOUS
  <2> QED
    BY <1>0, <2>1, <2>2
<1>17. ASSUME 160 <= e, e <= 169 PROVE FALSE
  <2>1. e = 160 \/ e = 161 \/ e = 162 \/ e = 163 \/ e = 164 \/ e = 165 \/ e = 166 \/ e = 167 \/ e = 168 \/ e = 169
    BY <1>17
  <2>2. /\ d * 160 # 32767
        /\ d * 161 # 32767
        /\ d * 162 # 32767
        /\ d * 163 # 32767
        /\ d * 164 # 32767
        /\ d * 165 # 32767
        /\ d * 166 # 32767
        /\ d * 167 # 32767
        /\ d * 168 # 32767
        /\ d * 169 # 32767
    OBVIOUS
  <2> QED
    BY <1>0, <2>1, <2>2
<1>18. ASSUME 170 <= e, e <= 179 PROVE FALSE
  <2>1. e = 170 \/ e = 171 \/ e = 172 \/ e = 173 \/ e = 174 \/ e = 175 \/ e = 176 \/ e = 177 \/ e = 178 \/ e = 179
    BY <1>18
  <2>2. /\ d * 170 # 32767
        /\ d * 171 # 32767
        /\ d * 172 # 32767
        /\ d * 173 # 32767
        /\ d * 174 # 32767
        /\ d * 175 # 32767
        /\ d * 176 # 32767
        /\ d * 177 # 32767
        /\ d * 178 # 32767
        /\ d * 179 # 32767
    OBVIOUS
  <2> QED
    BY <1>0, <2>1, <2>2
<1>19. ASSUME 180 <= e, e <= 181 PROVE FALSE
  <2>1. e = 180 \/ e = 181
    BY <1>19
  <2>2. /\ d * 180 # 32767
        /\ d * 181 # 32767
    OBVIOUS
  <2> QED
    BY <1>0, <2>1, <2>2
<1> QED
  BY <1>1, <1>2, <1>3, <1>4, <1>5, <1>6, <1>7, <1>8, <1>9, <1>10, <1>11, <1>12, <1>13, <1>14, <1>15, <1>16, <1>17, <1>18, <1>19

-----------------------------------------------------------------------------
\* The long register is not back at 0 before that: the samples it first returns
\* after divide 2^15 - 1, and it does not return after a proper divisor.
LEMMA LongFirst ==
  ASSUME NEW o, IsOrbit(o, 16384), NEW m \in Nat, m # 0, m < 32767
  PROVE  o[m] # 0
<1> DEFINE f == Zeros(o)
<1>1. 16384 \in Tops
  BY DEF Tops
<1>2. AreBits(f) /\ Cancel3(f, 15, 1, 0) /\ \A n \in Nat : f[n] = 1 <=> OutAt(o, n) = 0
  BY <1>1, ZerosAre, LongCancels
<1>3. \A j \in Nat : j < 15 => f[j] = 1
  <2>1. PICK n \in Nat : n = 0
    OBVIOUS
  <2>2. o[n] = 0
    BY <2>1 DEF IsOrbit
  <2>3. \A j \in Nat : j < 15 => OutAt(o, n + j) = 0
    BY <2>2, LongWindow
  <2>4. \A j \in Nat : n + j = j
    BY <2>1
  <2> QED
    BY <1>2, <2>3, <2>4
<1> HIDE DEF f
<1>4. o[217] # 0 /\ o[1057] # 0 /\ o[4681] # 0
  <2>1. f[217] = 0 /\ f[1057] = 0 /\ f[4681] = 0
    BY <1>2, <1>3, LongNotYet
  <2>2. OutAt(o, 217) # 0 /\ OutAt(o, 1057) # 0 /\ OutAt(o, 4681) # 0
    <3>1. 217 \in Nat /\ 1057 \in Nat /\ 4681 \in Nat
      OBVIOUS
    <3> QED
      BY <1>2, <2>1, <3>1
  <2> QED
    BY <2>2 DEF OutAt
<1>5. o[32767] = 0 /\ 32767 \in Nat \ {0}
  BY LongReturns
<1>6. PICK d, e \in Nat \ {0} : /\ 32767 = d * e /\ o[d] = 0
                                /\ \A i \in Nat \ {0} : o[i] = 0 => d <= i
  <2>1. PICK n \in Nat \ {0} : n = 32767
    BY <1>5
  <2>2. o[n] = 0
    BY <1>5, <2>1
  <2>3. \E d, e \in Nat \ {0} : /\ n = d * e /\ o[d] = 0
                                /\ \A i \in Nat \ {0} : o[i] = 0 => d <= i
    BY <2>2, FirstReturn
  <2> QED
    BY <2>1, <2>3
<1>7. d = 32767
  <2>1. CASE e <= 181
    <3>1. e = 1 \/ e = 7 \/ e = 31 \/ e = 151
      <4>1. LongProduct(d, e)
        BY <1>6 DEF LongProduct
      <4> QED
        BY <1>6, <2>1, <4>1, LongDivisors
    <3>2. d = 32767 \/ d = 4681 \/ d = 1057 \/ d = 217
      BY <1>6, <3>1
    <3> QED
      BY <1>4, <1>6, <3>2
  <2>2. CASE e > 181
    <3>1. d <= 181
      <4> SUFFICES ASSUME d > 181 PROVE FALSE
        BY <1>6
      <4>1. (d - 181) * (e - 181) \in Nat
        BY <1>6, <2>2
      <4>2. (d - 181) * (e - 181) = d * e - 181 * d - 181 * e + 32761
        BY <1>6
      <4> QED
        BY <1>6, <2>2, <4>1, <4>2
    <3>2. e * d = 32767
      BY <1>6
    <3>3. d = 1 \/ d = 7 \/ d = 31 \/ d = 151
      <4>1. LongProduct(e, d)
        BY <3>2 DEF LongProduct
      <4> QED
        BY <1>6, <3>1, <4>1, LongDivisors
    <3>4. \A i \in Nat : o[d * i] = 0
      BY <1>6, ReturnsAgain
    <3>5. 217 \in Nat /\ 31 \in Nat /\ 7 \in Nat
      OBVIOUS
    <3>6. o[d * 217] = 0 /\ o[d * 31] = 0 /\ o[d * 7] = 0
      BY <3>4, <3>5
    <3>7. CASE d = 1
      <4>1. d * 217 = 217
        BY <3>7
      <4> QED
        BY <1>4, <3>6, <4>1
    <3>8. CASE d = 7
      <4>1. d * 31 = 217
        BY <3>8
      <4> QED
        BY <1>4, <3>6, <4>1
    <3>9. CASE d = 31
      <4>1. d * 7 = 217
        BY <3>9
      <4> QED
        BY <1>4, <3>6, <4>1
    <3>10. CASE d = 151
      <4>1. d * 7 = 1057
        BY <3>10
      <4> QED
        BY <1>4, <3>6, <4>1
    <3> QED
      BY <3>3, <3>7, <3>8, <3>9, <3>10
  <2> QED
    BY <1>6, <2>1, <2>2
<1> QED
  BY <1>6, <1>7

\* Nor is the short one: 2^7 - 1 is a prime.
LEMMA ShortFirst ==
  ASSUME NEW o, IsOrbit(o, 64), NEW m \in Nat, m # 0, m < 127
  PROVE  o[m] # 0
<1>1. o[1] # 0
  <2>1. PICK n \in Nat : n = 0
    OBVIOUS
  <2>2. o[n + 1] = Successor(o[n], 64) /\ o[n] = 0
    BY <2>1 DEF IsOrbit
  <2>3. n + 1 = 1
    BY <2>1
  <2>4. Successor(0, 64) = 64
    BY DEF Successor
  <2> QED
    BY <2>2, <2>3, <2>4
<1>2. o[127] = 0 /\ 127 \in Nat \ {0}
  BY ShortReturns
<1>3. PICK d, e \in Nat \ {0} : /\ 127 = d * e /\ o[d] = 0
                                /\ \A i \in Nat \ {0} : o[i] = 0 => d <= i
  <2>1. PICK n \in Nat \ {0} : n = 127
    BY <1>2
  <2>2. o[n] = 0
    BY <1>2, <2>1
  <2>3. \E d, e \in Nat \ {0} : /\ n = d * e /\ o[d] = 0
                                /\ \A i \in Nat \ {0} : o[i] = 0 => d <= i
    BY <2>2, FirstReturn
  <2> QED
    BY <2>1, <2>3
<1>4. ASSUME NEW p \in Nat, NEW q \in Nat, p * q = 127, q <= 11
      PROVE  q = 1
  <2>1. \/ q = 0 \/ q = 1 \/ q = 2 \/ q = 3 \/ q = 4 \/ q = 5 \/ q = 6 \/ q = 7 \/ q = 8
        \/ q = 9 \/ q = 10 \/ q = 11
    BY <1>4
  <2>2. /\ p * 0 # 127 /\ p * 2 # 127 /\ p * 3 # 127 /\ p * 4 # 127 /\ p * 5 # 127
        /\ p * 6 # 127 /\ p * 7 # 127 /\ p * 8 # 127 /\ p * 9 # 127 /\ p * 10 # 127
        /\ p * 11 # 127
    OBVIOUS
  <2> QED
    BY <1>4, <2>1, <2>2
<1>5. d = 127
  <2>1. CASE e <= 11
    <3>1. e = 1
      BY <1>3, <1>4, <2>1
    <3> QED
      BY <1>3, <3>1
  <2>2. CASE e > 11
    <3>1. d <= 11
      <4> SUFFICES ASSUME d > 11 PROVE FALSE
        BY <1>3
      <4>1. (d - 11) * (e - 11) \in Nat
        BY <1>3, <2>2
      <4>2. (d - 11) * (e - 11) = d * e - 11 * d - 11 * e + 121
        BY <1>3
      <4> QED
        BY <1>3, <2>2, <4>1, <4>2
    <3>2. e * d = 127
      BY <1>3
    <3>3. d = 1
      BY <1>3, <1>4, <3>1, <3>2
    <3> QED
      BY <1>1, <1>3, <3>3
  <2> QED
    BY <1>3, <2>1, <2>2
<1> QED
  BY <1>3, <1>5

\* The states of the two registers, by the samples since they were 0.
LongStates == CHOOSE o : IsOrbit(o, 16384)
ShortStates == CHOOSE o : IsOrbit(o, 64)

\* There are such functions.
LEMMA StatesAre == IsOrbit(LongStates, 16384) /\ IsOrbit(ShortStates, 64)
<1>1. (\E o : IsOrbit(o, 16384)) /\ \E o : IsOrbit(o, 64)
  BY Orbits
<1> QED
  BY <1>1 DEF LongStates, ShortStates

\* Each state leads to the next one.
LEMMA OrbitNext ==
  ASSUME NEW top, NEW o, IsOrbit(o, top), NEW n \in Nat
  PROVE  o[n + 1] = Successor(o[n], top) /\ o[0] = 0
  BY Zenon DEF IsOrbit

\* Counted modulo the length of the noise, it still does.
LEMMA LongNext ==
  ASSUME NEW n \in Nat, n < AllLong
  PROVE  LongStates[(n + 1) % AllLong] = Successor(LongStates[n], 16384)
<1>1. LongStates[n + 1] = Successor(LongStates[n], 16384) /\ LongStates[0] = 0
  <2>1. IsOrbit(LongStates, 16384)
    BY StatesAre
  <2> QED
    BY <2>1, OrbitNext
<1>2. CASE n + 1 < AllLong
  <2>1. (n + 1) % AllLong = n + 1
    BY <1>2 DEF AllLong
  <2> QED
    BY <1>1, <2>1
<1>3. CASE n + 1 = AllLong
  <2>1. (n + 1) % AllLong = 0 /\ n + 1 = 32767
    BY <1>3 DEF AllLong
  <2>2. LongStates[32767] = 0
    BY StatesAre, LongReturns
  <2> QED
    BY <1>1, <2>1, <2>2
<1> QED
  BY <1>2, <1>3 DEF AllLong

\* The same with the short register.
LEMMA ShortNext ==
  ASSUME NEW n \in Nat, n < AllShort
  PROVE  ShortStates[(n + 1) % AllShort] = Successor(ShortStates[n], 64)
<1>1. ShortStates[n + 1] = Successor(ShortStates[n], 64) /\ ShortStates[0] = 0
  BY StatesAre DEF IsOrbit
<1>2. CASE n + 1 < AllShort
  <2>1. (n + 1) % AllShort = n + 1
    BY <1>2 DEF AllShort
  <2> QED
    BY <1>1, <2>1
<1>3. CASE n + 1 = AllShort
  <2>1. (n + 1) % AllShort = 0 /\ n + 1 = 127
    BY <1>3 DEF AllShort
  <2>2. ShortStates[127] = 0
    BY StatesAre, ShortReturns
  <2> QED
    BY <1>1, <2>1, <2>2
<1> QED
  BY <1>2, <1>3 DEF AllShort

\* Only the first state is 0.
LEMMA OnlyFirst ==
  /\ LongStates[0] = 0 /\ ShortStates[0] = 0
  /\ \A n \in Nat : n < AllLong => (LongStates[n] = 0 <=> n = 0)
  /\ \A n \in Nat : n < AllShort => (ShortStates[n] = 0 <=> n = 0)
<1>1. LongStates[0] = 0 /\ ShortStates[0] = 0
  BY StatesAre DEF IsOrbit
<1>2. \A n \in Nat : n # 0 /\ n < AllLong => LongStates[n] # 0
  BY StatesAre, LongFirst DEF AllLong
<1>3. \A n \in Nat : n # 0 /\ n < AllShort => ShortStates[n] # 0
  BY StatesAre, ShortFirst DEF AllShort
<1> QED
  BY <1>1, <1>2, <1>3

-----------------------------------------------------------------------------
\* From a trigger on the register is in the state of its width for the number of
\* samples.
OnLong == samples \in Nat /\ samples < AllLong /\ lfsr = LongStates[samples]
OnShort == samples \in Nat /\ samples < AllShort /\ lfsr % 128 = ShortStates[samples]
InStep == ~switched => IF reg_lfsr_7bit THEN OnShort ELSE OnLong

\* The length of the noise, and the number that the width is looked at with.
LEMMA Lengths ==
  ASSUME Widths
  PROVE  /\ reg_lfsr_7bit => Repeat = AllShort /\ 2 ^ Bits = 128
         /\ ~reg_lfsr_7bit => Repeat = AllLong /\ 2 ^ Bits = 32768
<1>1. (reg_lfsr_7bit => Bits = 7) /\ (~reg_lfsr_7bit => Bits = 15)
  BY DEF Bits, Widths
<1>2. 2 ^ 7 = 128 /\ 2 ^ 15 = 32768
  OBVIOUS
<1>3. 128 - 1 = AllShort /\ 32768 - 1 = AllLong
  BY DEF AllShort, AllLong
<1>4. ASSUME reg_lfsr_7bit PROVE Repeat = AllShort /\ 2 ^ Bits = 128
  BY <1>1, <1>2, <1>3, <1>4 DEF Repeat
<1>5. ASSUME ~reg_lfsr_7bit PROVE Repeat = AllLong /\ 2 ^ Bits = 32768
  BY <1>1, <1>2, <1>3, <1>5 DEF Repeat
<1> QED
  BY <1>4, <1>5

\* A clock leads to the next state and to the next number.
LEMMA ClockInStep ==
  ASSUME Widths, NoiseInv, InStep, noise_clock
  PROVE  InStep'
<1>1. UNCHANGED <<reg_lfsr_7bit, switched>>
  BY DEF noise_clock
<1>2. Fits(lfsr) /\ xor_result = ((lfsr % 2) + ((lfsr \div 2) % 2) + 1) % 2
  BY NewBit DEF NoiseInv
<1>3. SUFFICES ASSUME ~switched
               PROVE  (reg_lfsr_7bit => OnShort') /\ (~reg_lfsr_7bit => OnLong')
  BY <1>1 DEF InStep
<1>4. samples' = (samples + 1) % Repeat
  BY <1>3 DEF noise_clock
<1>5. ASSUME reg_lfsr_7bit PROVE OnShort'
  <2> DEFINE low == lfsr % 128
  <2>1. low % 2 = lfsr % 2 /\ (low \div 2) % 2 = (lfsr \div 2) % 2
    BY <1>2 DEF Fits
  <2>2. lfsr' % 128 = low \div 2 + 64 * xor_result
    BY <1>5, ClockedShort
  <2>3. OnShort
    BY <1>3, <1>5 DEF InStep
  <2>4. low = ShortStates[samples] /\ samples \in Nat /\ samples < AllShort
    BY <2>3 DEF OnShort
  <2> HIDE DEF low
  <2>5. lfsr' % 128 = Successor(low, 64)
    BY <1>2, <2>1, <2>2 DEF Successor
  <2>6. samples' = (samples + 1) % AllShort
    BY <1>4, <1>5, Lengths
  <2>7. lfsr' % 128 = ShortStates[samples']
    BY <2>4, <2>5, <2>6, ShortNext
  <2>8. samples' \in Nat /\ samples' < AllShort
    BY <2>4, <2>6 DEF AllShort
  <2> QED
    BY <2>7, <2>8 DEF OnShort
<1>6. ASSUME ~reg_lfsr_7bit PROVE OnLong'
  <2>1. lfsr' = lfsr \div 2 + 16384 * xor_result
    BY <1>6, ClockedLong
  <2>2. OnLong
    BY <1>3, <1>6 DEF InStep
  <2>3. lfsr = LongStates[samples] /\ samples \in Nat /\ samples < AllLong
    BY <2>2 DEF OnLong
  <2>4. lfsr' = Successor(lfsr, 16384)
    BY <1>2, <2>1 DEF Successor
  <2>5. samples' = (samples + 1) % AllLong
    BY <1>4, <1>6, Lengths
  <2>6. lfsr' = LongStates[samples']
    BY <2>3, <2>4, <2>5, LongNext
  <2>7. samples' \in Nat /\ samples' < AllLong
    BY <2>3, <2>5 DEF AllLong
  <2> QED
    BY <2>6, <2>7 DEF OnLong
<1> QED
  BY <1>5, <1>6

\* In step, the register is 0 after no sample and after no other number of them.
LEMMA ZeroInStep ==
  ASSUME NoiseInv, InStep, ~switched
  PROVE  /\ reg_lfsr_7bit => (lfsr % 128 = 0 <=> samples = 0)
         /\ ~reg_lfsr_7bit => (lfsr = 0 <=> samples = 0)
<1>1. OnShort => (lfsr % 128 = 0 <=> samples = 0)
  BY OnlyFirst DEF OnShort
<1>2. OnLong => (lfsr = 0 <=> samples = 0)
  BY OnlyFirst DEF OnLong
<1> QED
  BY <1>1, <1>2 DEF InStep

\* So does nothing else: only a register that is 0 takes another width.
LEMMA StaysInStep ==
  ASSUME Widths, NoiseInv, InStep, [NoiseNext]_noise_vars
  PROVE  InStep'
<1>1. ASSUME lfsr' = 0, samples' = 0 PROVE InStep'
  <2>1. 0 < AllLong /\ 0 < AllShort /\ 0 % 128 = 0 /\ 0 \in Nat
    BY DEF AllLong, AllShort
  <2>2. OnLong' /\ OnShort'
    BY <1>1, <2>1, OnlyFirst DEF OnLong, OnShort
  <2> QED
    BY <2>2 DEF InStep
<1>2. CASE noise_clock
  BY <1>2, ClockInStep
<1>3. CASE noise_trigger
  BY <1>1, <1>3 DEF noise_trigger
<1>4. ASSUME NEW short \in BOOLEAN, write_nr43(short) PROVE InStep'
  <2>1. SUFFICES ASSUME ~switched' PROVE InStep'
    BY DEF InStep
  <2>2. /\ ~switched /\ (short = reg_lfsr_7bit \/ lfsr = 0)
        /\ lfsr' = lfsr /\ samples' = samples /\ reg_lfsr_7bit' = short
    BY <1>4, <2>1 DEF write_nr43
  <2>3. CASE short = reg_lfsr_7bit
    <3>1. OnLong' = OnLong /\ OnShort' = OnShort
      BY <2>2 DEF OnLong, OnShort
    <3> QED
      BY <2>2, <2>3, <3>1 DEF InStep
  <2>4. CASE lfsr = 0
    <3>1. 0 % 128 = 0
      OBVIOUS
    <3>2. samples = 0
      BY <2>2, <2>4, <3>1, ZeroInStep DEF NoiseInv
    <3> QED
      BY <1>1, <2>2, <2>4, <3>2
  <2> QED
    BY <2>2, <2>3, <2>4
<1>5. CASE UNCHANGED noise_vars
  <2>1. OnLong' = OnLong /\ OnShort' = OnShort
    BY <1>5 DEF noise_vars, OnLong, OnShort
  <2> QED
    BY <1>5, <2>1 DEF noise_vars, InStep
<1> QED
  BY <1>2, <1>3, <1>4, <1>5 DEF NoiseNext

\* At the start both are 0.
LEMMA InStepInitial == Init => InStep
<1> SUFFICES ASSUME Init PROVE InStep
  OBVIOUS
<1>1. lfsr = 0 /\ samples = 0
  BY DEF Init, NoiseInit
<1>2. 0 < AllLong /\ 0 < AllShort /\ 0 % 128 = 0 /\ 0 \in Nat
  BY DEF AllLong, AllShort
<1>3. OnLong /\ OnShort
  BY <1>1, <1>2, OnlyFirst DEF OnLong, OnShort
<1> QED
  BY <1>3 DEF InStep

\* sample() of channel 4, with the widths of the code: the noise is as long as
\* the width allows, from a trigger on and with no other width in between.
THEOREM NoiseCorrect ==
  ASSUME Widths
  PROVE  Spec => []NoiseMaximal
<1>1. NoiseInv /\ [Next]_vars => NoiseInv'
  BY NoiseKeeps DEF Next, vars, noise_vars
<1>2. NoiseInv /\ InStep /\ [Next]_vars => InStep'
  BY StaysInStep DEF Next, vars, noise_vars
<1>3. NoiseInv /\ InStep => NoiseMaximal
  <2> SUFFICES ASSUME NoiseInv, InStep, ~switched PROVE lfsr % 2 ^ Bits = 0 <=> samples = 0
    BY DEF NoiseMaximal
  <2>1. CASE reg_lfsr_7bit
    BY <2>1, Lengths, ZeroInStep
  <2>2. CASE ~reg_lfsr_7bit
    <3>1. lfsr % 32768 = lfsr
      BY DEF NoiseInv, Fits
    <3> QED
      BY <2>2, <3>1, Lengths, ZeroInStep
  <2> QED
    BY <2>1, <2>2
<1> QED
  BY <1>1, <1>2, <1>3, NoiseInitial, InStepInitial, PTL DEF Spec
=============================================================================
