------------------------------ MODULE Channel2 ------------------------------
(***************************************************************************)
(* Channel 2 of the APU (apu/channel2.rs): a Voice with an Envelope.       *)
(* Channel 4 (apu/channel4.rs) is controlled in the same way; its noise is *)
(* in module Noise.                                                        *)
(***************************************************************************)
EXTENDS Voice, Envelope

Channel2Init == VoiceInit(FALSE) /\ EnvelopeInit

sequence_envelope ==
    /\ sequence(FALSE)
    /\ IF frame_sequencer_step = 7 THEN env_clock ELSE UNCHANGED env_vars

power_envelope(on) ==
    /\ voice_nr52(on)
    /\ IF SwitchedOff(on) THEN env_shutdown ELSE UNCHANGED env_vars

\* The upper five bits of NR22 switch the DAC.
write_nr22(v, add, p) == voice_nrx2(v # 0 \/ add) /\ write_nrx2(v, add, p)

write_nr24(trigger, enable) ==
    /\ voice_nrx4(trigger, enable, FALSE)
    /\ IF Triggers(trigger, enable) THEN env_trigger ELSE UNCHANGED env_vars

WriteEnvelope == \E v \in Volumes, add \in BOOLEAN, p \in 0 .. MaxPace : write_nr22(v, add, p)
WriteNr24 == \E trigger, enable \in BOOLEAN : write_nr24(trigger, enable)
PowerEnvelope == \E on \in BOOLEAN : power_envelope(on)

Channel2Next ==
    \/ sequence_envelope \/ WriteEnvelope \/ WriteNr24 \/ PowerEnvelope
    \/ WriteLength /\ UNCHANGED env_vars
=============================================================================
