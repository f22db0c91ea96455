------------------------------- MODULE Noise -------------------------------
(***************************************************************************)
(* The shift register of channel 4 (apu/channel4.rs) while the channel     *)
(* plays.  When it is clocked, the frequency timer, is left open.          *)
(* A definition Op_Fault is Op with a plausible mistake in it; nothing     *)
(* uses it.                                                                *)
(***************************************************************************)
EXTENDS Integers

CONSTANTS
    LongBits,    \* 15 bits of the register
    ShortBits    \* 7 of them with reg_lfsr_7bit

ASSUME NoiseConstants ==
    /\ LongBits \in Nat /\ ShortBits \in Nat /\ 1 < ShortBits /\ ShortBits < LongBits

VARIABLES
    lfsr, reg_lfsr_7bit,
    samples,    \* history: since the register was 0, modulo the length of the noise
    switched    \* history: the width was changed since the register was 0

noise_vars == <<lfsr, reg_lfsr_7bit, samples, switched>>

Bits == IF reg_lfsr_7bit THEN ShortBits ELSE LongBits
Repeat == 2 ^ Bits - 1

NoiseTypeOK ==
    /\ lfsr \in 0 .. 2 ^ LongBits - 1
    /\ {reg_lfsr_7bit, switched} \subseteq BOOLEAN
    /\ samples \in 0 .. 2 ^ LongBits - 2

NoiseInit == lfsr = 0 /\ reg_lfsr_7bit = FALSE /\ samples = 0 /\ switched = FALSE

Bit(n, i) == (n \div 2 ^ i) % 2
WithBit(n, i, bit) == n + (bit - Bit(n, i)) * 2 ^ i

xor_result_Wide == (Bit(lfsr, 0) + Bit(lfsr, 2) + 1) % 2
xor_result == (Bit(lfsr, 0) + Bit(lfsr, 1) + 1) % 2

\* The result enters at the top, and at the top of the short register.
noise_clock ==
    LET wide == WithBit(lfsr, LongBits, xor_result)
        both == IF reg_lfsr_7bit THEN WithBit(wide, ShortBits, xor_result) ELSE wide
    IN  /\ lfsr' = both \div 2
        /\ samples' = IF switched THEN 0 ELSE (samples + 1) % Repeat
        /\ UNCHANGED <<reg_lfsr_7bit, switched>>

noise_trigger ==
    /\ lfsr' = 0 /\ samples' = 0 /\ switched' = FALSE
    /\ UNCHANGED reg_lfsr_7bit

write_nr43(short) ==
    /\ reg_lfsr_7bit' = short
    /\ switched' = (switched \/ (short # reg_lfsr_7bit /\ lfsr # 0))
    /\ samples' = IF switched' THEN 0 ELSE samples
    /\ UNCHANGED lfsr

NoiseNext == noise_clock \/ noise_trigger \/ \E short \in BOOLEAN : write_nr43(short)

-----------------------------------------------------------------------------
\* From a trigger on the noise repeats after 2^15 - 1 samples, or 2^7 - 1, and
\* not before: the register never gets stuck in the state that is its own
\* successor, all bits set, unless the program changes the width in between.
NoiseMaximal == ~switched => (lfsr % 2 ^ Bits = 0 <=> samples = 0)
=============================================================================
