------------------------------ MODULE Envelope ------------------------------
(***************************************************************************)
(* The volume envelope of channels 1, 2 and 4 (apu/envelope.rs): from a    *)
(* trigger on, the volume moves by one every period until it reaches an    *)
(* end.  The program may write NRx2 at any time; what it writes takes      *)
(* effect at the next period or the next trigger.  Channel2 composes it    *)
(* with a channel.                                                         *)
(* A definition Op_Fault is Op with a plausible mistake in it; nothing     *)
(* uses it.                                                                *)
(***************************************************************************)
EXTENDS Integers

CONSTANTS
    MaxVolume,   \* 15
    MaxPace      \* 7: the longest period

ASSUME EnvelopeConstants == MaxVolume \in Nat \ {0} /\ MaxPace \in Nat /\ MaxPace < 256

VARIABLES env_timer, env_enabled, volume, initial_volume, add_mode, env_period

nrx2 == <<initial_volume, add_mode, env_period>>
env_vars == <<env_timer, env_enabled, volume, nrx2>>

Volumes == 0 .. MaxVolume

EnvelopeTypeOK ==
    /\ env_timer \in 0 .. MaxPace + 1 /\ env_period \in 0 .. MaxPace
    /\ volume \in Volumes /\ initial_volume \in Volumes
    /\ {env_enabled, add_mode} \subseteq BOOLEAN

EnvelopeInit ==
    /\ env_timer = 0 /\ env_enabled = FALSE /\ volume = 0
    /\ initial_volume = 0 /\ add_mode = FALSE /\ env_period = 0

\* A period of 0 counts as 8.
Pace == IF env_period = 0 THEN MaxPace + 1 ELSE env_period

Moved ==
    CASE add_mode /\ volume < MaxVolume -> volume + 1
      [] ~add_mode /\ volume > 0        -> volume - 1
      [] OTHER                          -> volume

Ends_Upwards == Moved = MaxVolume
Ends == Moved \in {0, MaxVolume}

\* The timer has 8 bits.
env_clock ==
    LET runs == env_enabled /\ env_period # 0
        due  == runs /\ env_timer = 1
    IN  /\ env_timer' = CASE due  -> Pace
                          [] runs /\ ~due -> (env_timer - 1) % 256
                          [] OTHER -> env_timer
        /\ volume' = IF due THEN Moved ELSE volume
        /\ env_enabled' = (env_enabled /\ ~(due /\ Ends))
        /\ UNCHANGED nrx2

write_nrx2(v, add, p) ==
    /\ initial_volume' = v /\ add_mode' = add /\ env_period' = p
    /\ UNCHANGED <<env_timer, env_enabled, volume>>

env_trigger ==
    /\ env_enabled' = TRUE
    /\ volume' = initial_volume
    /\ env_timer' = Pace
    /\ UNCHANGED nrx2

env_shutdown ==
    /\ env_timer' = 0 /\ env_enabled' = FALSE /\ volume' = 0
    /\ initial_volume' = 0 /\ add_mode' = FALSE /\ env_period' = 0

-----------------------------------------------------------------------------
\* The timer of 8 bits, 0 until the first trigger and after a shutdown, is
\* loaded whenever the envelope that decrements it is enabled, whatever was
\* written to NRx2.  And an envelope with a period comes to an end and stays
\* there, unless the program triggers or writes NRx2 again and again.
EnvelopeSettles ==
    /\ [](env_enabled => env_timer \in 1 .. MaxPace + 1)
    /\ \/ []<><<env_trigger \/ nrx2' # nrx2>>_env_vars
       \/ env_enabled ~> ~env_enabled \/ env_period = 0
=============================================================================
