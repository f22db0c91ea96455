------------------------------- MODULE Voice -------------------------------
(***************************************************************************)
(* What the four channels of the APU have in common: the frame sequencer,  *)
(* the power switch (apu/apu.rs), the DAC and the length counter (module   *)
(* Length).  All of them silence a channel; only a trigger makes it play.  *)
(* How many clocks lie between two steps of the sequencer is left open,    *)
(* and so are the frequency timer and the wave, which never silence a      *)
(* channel.  Channel1 and Channel2 complete these actions.                 *)
(* A definition Op_Fault is Op with a plausible mistake in it; nothing     *)
(* uses it.                                                                *)
(***************************************************************************)
EXTENDS Length

VARIABLES
    cgb, audio_enabled, frame_sequencer_step,
    is_enabled, reg_dac_enable,
    stepped_off      \* history: the sequencer's last step came with the sound off,
                     \* since it was last switched off

apu_vars == <<cgb, audio_enabled, frame_sequencer_step, stepped_off>>
channel_vars == <<is_enabled, reg_dac_enable>>
voice_vars == <<apu_vars, channel_vars, counter_vars>>

VoiceTypeOK ==
    /\ LengthTypeOK
    /\ {cgb, audio_enabled, is_enabled, reg_dac_enable, stepped_off} \subseteq BOOLEAN
    /\ frame_sequencer_step \in 0 .. 7

\* Channel 1 starts playing, the others silent.
VoiceInit(playing) ==
    /\ LengthInit
    /\ cgb \in BOOLEAN
    /\ audio_enabled = TRUE /\ frame_sequencer_step = 0 /\ stepped_off = FALSE
    /\ is_enabled = playing /\ reg_dac_enable = playing

-----------------------------------------------------------------------------
\* A step of the sequencer, which runs with the sound switched off, too.
sequence(silenced) ==
    LET length_step == ~Odd(frame_sequencer_step)
    IN  /\ count' = IF length_step THEN Clocked ELSE count
        /\ is_enabled' = (is_enabled /\ ~silenced /\ ~(length_step /\ enabled /\ Clocked = 0))
        /\ frame_sequencer_step' = (frame_sequencer_step + 1) % 8
        /\ frame_seq_step' = frame_sequencer_step'
        /\ stepped_off' = ~audio_enabled
        /\ UNCHANGED <<cgb, audio_enabled, reg_dac_enable, enabled>>

\* Only the switching off resets the channel and the copy of the step; only
\* the switching on resets the sequencer.
SwitchedOff(on) == audio_enabled /\ ~on

voice_nr52(on) ==
    /\ audio_enabled' = on
    /\ IF SwitchedOff(on)
         THEN is_enabled' = FALSE /\ reg_dac_enable' = FALSE /\ length_shutdown(cgb)
         ELSE UNCHANGED <<channel_vars, counter_vars>>
    /\ stepped_off' = (stepped_off /\ ~SwitchedOff(on))
    /\ frame_sequencer_step' = IF ~audio_enabled /\ on THEN 0 ELSE frame_sequencer_step
    /\ UNCHANGED cgb

\* A DMG takes lengths with the sound switched off.
voice_nrx1(length) ==
    /\ audio_enabled \/ ~cgb
    /\ set_count(InitialCount - length)
    /\ UNCHANGED <<apu_vars, channel_vars>>

voice_nrx2(dac) ==
    /\ audio_enabled
    /\ reg_dac_enable' = dac
    /\ is_enabled' = (is_enabled /\ dac)
    /\ UNCHANGED <<apu_vars, counter_vars>>

\* A write to NRx4 triggers unless it leaves the counter on and spent.
Triggers_Unchecked(trigger, enable) == trigger
Triggers(trigger, enable) == trigger /\ ~(enable /\ Counted(trigger, enable) = 0)

voice_nrx4(trigger, enable, overflow) ==
    /\ audio_enabled
    /\ write_nrx4(trigger, enable)
    /\ is_enabled' = IF Triggers(trigger, enable) THEN reg_dac_enable /\ ~overflow
                     ELSE is_enabled /\ ~(enable /\ Counted(trigger, enable) = 0)
    /\ UNCHANGED <<apu_vars, reg_dac_enable>>

WriteLength == \E length \in 0 .. InitialCount - 1 : voice_nrx1(length)

-----------------------------------------------------------------------------
(* Properties. *)

\* A channel that plays against its counter has clocks left, and its sound and
\* DAC are on: no sequence of writes to NRx1, NRx2, NRx4 and NR52 leaves it
\* playing with a spent counter, which would never silence it.
PlayingHasClocks ==
    is_enabled => /\ audio_enabled /\ reg_dac_enable
                  /\ enabled => count > 0

\* A channel that plays against its counter falls silent, unless the program
\* switches the counter off, or gives it more clocks again and again.
NoteEnds ==
    \/ []<><<count' > count>>_voice_vars
    \/ (is_enabled /\ enabled) ~> (~is_enabled \/ ~enabled)
=============================================================================
