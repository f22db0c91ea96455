------------------------------ MODULE Channel1 ------------------------------
(***************************************************************************)
(* Channel 1 of the APU (apu/channel1.rs): a Voice with a Sweep.  Its      *)
(* envelope, the one of Channel2, never silences it and is left out.       *)
(***************************************************************************)
EXTENDS Voice, Sweep

Channel1Init == VoiceInit(TRUE) /\ SweepInit

sequence_sweep ==
    LET sweep_step == frame_sequencer_step \in {2, 6}
    IN  /\ sequence(sweep_step /\ ClockOverflows)
        /\ IF sweep_step THEN sweep_clock ELSE UNCHANGED sweep_vars

power_sweep(on) ==
    /\ voice_nr52(on)
    /\ IF SwitchedOff(on) THEN sweep_shutdown ELSE UNCHANGED sweep_vars

\* Going back to a rising sweep after a falling step silences the channel.
write_nr10(p, n, s) ==
    /\ audio_enabled
    /\ write_nr10_regs(p, n, s)
    /\ is_enabled' = (is_enabled /\ ~(~n /\ negated_since_trigger))
    /\ UNCHANGED <<apu_vars, reg_dac_enable, counter_vars>>

write_nr13(lsb) ==
    /\ audio_enabled
    /\ set_frequency_lsb(lsb)
    /\ UNCHANGED voice_vars

write_nr14(msb, trigger, enable) ==
    /\ voice_nrx4(trigger, enable, TriggerOverflows(msb))
    /\ IF Triggers(trigger, enable) THEN sweep_trigger(msb) ELSE set_frequency_msb(msb)

Msbs == 0 .. MaxFrequency \div LowCodes

WriteSweep ==
    \/ \E p \in 0 .. MaxPeriod, n \in BOOLEAN, s \in 0 .. MaxShift : write_nr10(p, n, s)
    \/ \E lsb \in 0 .. LowCodes - 1 : write_nr13(lsb)
WriteNr14 == \E msb \in Msbs, trigger, enable \in BOOLEAN : write_nr14(msb, trigger, enable)
PowerSweep == \E on \in BOOLEAN : power_sweep(on)
WriteRest == WriteLength \/ \E dac \in BOOLEAN : voice_nrx2(dac)

Channel1Next ==
    \/ sequence_sweep \/ WriteSweep \/ WriteNr14 \/ PowerSweep
    \/ WriteRest /\ UNCHANGED sweep_vars

-----------------------------------------------------------------------------
(* Properties. *)

\* The steps of the sequencer, whose next is step, until a counter that stands
\* at c is spent: every other step clocks it.
StepsLeft(c, step) == 2 * c - (IF Odd(step) THEN 0 ELSE 1)

\* The clocks of a note that starts with the counter at c: a spent counter is
\* reloaded, and so is one that the write itself spends.
NoteClocks(c, step) == IF c = 0 \/ (c = 1 /\ Odd(step)) THEN InitialCount ELSE c

\* A trigger plays the channel, with its DAC on and no overflow of the sweep,
\* with one exception: a write that triggers and switches the counter on when it
\* is spent, before a step that clocks it, does not reload it.
Played(msb) ==
    \/ is_enabled' = (reg_dac_enable /\ ~TriggerOverflows(msb))
    \/ ~enabled /\ enabled' /\ count = 0 /\ ~Odd(frame_seq_step)

\* A note that gets a limit of n clocks lasts 2n - 1 steps of the sequencer or
\* 2n - 2.  The exception is the code's: when the sequencer has stepped with the
\* sound off and not since, the counter's copy of the step is stale.
Limited ==
    LET step == frame_sequencer_step
        n    == NoteClocks(count, step)
    IN  is_enabled' /\ enabled' /\ ~(enabled /\ count > 0) =>
            stepped_off \/ StepsLeft(count', step) \in {2 * n - 1, 2 * n - 2}

\* The note that a write to NR14 starts is played, and the one that it limits
\* lasts as long as it should, wherever among the steps of the sequencer the
\* write falls, though the counter decides by its own copy of the step: the two
\* are reset at different switches of the power.
NoteLasts ==
    [][\A trigger \in BOOLEAN :
          LET msb == reg_frequency' \div LowCodes
          IN  write_nr14(msb, trigger, enabled') => (trigger => Played(msb)) /\ Limited
      ]_<<voice_vars, sweep_vars>>

\* The check runs one step ahead: as long as the program leaves NR10 alone, a
\* playing channel can make its next step without leaving 11 bits.  And the
\* timer of 8 bits, 0 until the first trigger and after a shutdown, is loaded
\* whenever the sweep that decrements it is enabled, whatever was written.
SweepSafe ==
    /\ checked /\ is_enabled => ~Overflows(Swept(shadow_frequency))
    /\ sweep_enabled => period_timer \in 1 .. MaxPeriod + 1
=============================================================================
