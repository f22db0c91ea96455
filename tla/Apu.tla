-------------------------------- MODULE Apu --------------------------------
(***************************************************************************)
(* The channels of the APU, of which a behavior shows one: they have the   *)
(* sequencer and the power switch in common, which none of them moves, and *)
(* share nothing else.  "Noise" is the shift register of channel 4 alone.  *)
(***************************************************************************)
EXTENDS Channel1, Channel2, Noise

CONSTANT Models    \* for each part, the models shown: is it a CGB?

ASSUME ApuConstants == Models \in [{"Channel1", "Channel2", "Noise"} -> SUBSET BOOLEAN]

VARIABLE part      \* the channel shown

vars == <<part, voice_vars, sweep_vars, env_vars, noise_vars>>

TypeOK ==
    /\ part \in DOMAIN Models
    /\ VoiceTypeOK /\ SweepTypeOK /\ EnvelopeTypeOK /\ NoiseTypeOK

Init ==
    /\ SweepInit /\ EnvelopeInit /\ NoiseInit
    /\ \/ part = "Channel1" /\ Channel1Init
       \/ part = "Channel2" /\ Channel2Init
       \/ part = "Noise" /\ VoiceInit(TRUE)
    /\ cgb \in Models[part]

Sequenced ==
    \/ part = "Channel1" /\ sequence_sweep /\ UNCHANGED <<part, env_vars, noise_vars>>
    \/ part = "Channel2" /\ sequence_envelope /\ UNCHANGED <<part, sweep_vars, noise_vars>>

Next ==
    /\ UNCHANGED part
    /\ \/ part = "Channel1" /\ Channel1Next /\ UNCHANGED <<env_vars, noise_vars>>
       \/ part = "Channel2" /\ Channel2Next /\ UNCHANGED <<sweep_vars, noise_vars>>
       \/ part = "Noise" /\ NoiseNext /\ UNCHANGED <<voice_vars, sweep_vars, env_vars>>

\* The sequencer steps whatever the program does.
Spec == Init /\ [][Next]_vars /\ WF_vars(Sequenced)
=============================================================================
