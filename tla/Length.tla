------------------------------- MODULE Length -------------------------------
(***************************************************************************)
(* A length counter of the APU (apu/lengthcounter.rs).  It keeps a copy of *)
(* the step the frame sequencer will take next: a write to NRx4 that       *)
(* switches the counter on when that step does not clock it clocks it once *)
(* at once.  Channel1 composes it with the sequencer.                      *)
(* A definition Op_Fault is Op with a plausible mistake in it; nothing     *)
(* uses it.                                                                *)
(***************************************************************************)
EXTENDS Integers

CONSTANT InitialCount   \* LENGTH_COUNTER_INIT: 64, 256 for channel 3

ASSUME LengthConstants == InitialCount \in Nat /\ InitialCount > 1

VARIABLES frame_seq_step, count, enabled

counter_vars == <<frame_seq_step, count, enabled>>

LengthTypeOK ==
    /\ frame_seq_step \in 0 .. 7
    /\ count \in 0 .. InitialCount
    /\ enabled \in BOOLEAN

LengthInit == frame_seq_step = 0 /\ count = 1 /\ enabled = FALSE

Odd(step) == step % 2 = 1

Decremented(c) == IF c = 0 THEN 0 ELSE c - 1

Clocked_Once == IF enabled /\ count > 1 THEN count - 1 ELSE count

\* clock(): what it leaves of the count.
Clocked == IF enabled THEN Decremented(count) ELSE count

\* write_nrx4(): what the write leaves of the count.
Counted(trigger, enable) ==
    LET extra == IF Odd(frame_seq_step) THEN 1 ELSE 0
    IN  CASE enabled -> IF trigger /\ count = 0
                          THEN InitialCount - (IF enable THEN extra ELSE 0)
                          ELSE count
          [] ~enabled /\ enable -> IF extra = 0 THEN count
                                   ELSE IF Decremented(count) = 0 /\ trigger THEN InitialCount - 1
                                   ELSE Decremented(count)
          [] OTHER -> IF trigger /\ count = 0 THEN InitialCount ELSE count

write_nrx4(trigger, enable) ==
    /\ count' = Counted(trigger, enable)
    /\ enabled' = enable
    /\ UNCHANGED frame_seq_step

set_count(c) == count' = c /\ UNCHANGED <<frame_seq_step, enabled>>

length_shutdown_KeepsStep(cgb) ==
    /\ enabled' = FALSE
    /\ UNCHANGED frame_seq_step
    /\ count' = IF cgb THEN InitialCount ELSE count
\* On a CGB the counter is reloaded, on a DMG it keeps its count.
length_shutdown(cgb) ==
    /\ enabled' = FALSE
    /\ frame_seq_step' = 0
    /\ count' = IF cgb THEN InitialCount ELSE count
=============================================================================
