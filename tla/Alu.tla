-------------------------------- MODULE Alu --------------------------------
(***************************************************************************)
(* The arithmetic of cpu/inst_impl.rs: what each instruction computes from *)
(* a register and the flags.  A state s of the unit is the register the    *)
(* instruction works on, s.a, and the four flags as bits; the registers,   *)
(* the memory an operand comes from and the clocks are left out.           *)
(* A definition Op_Fault is Op with a plausible mistake in it; nothing     *)
(* uses it.                                                                *)
(***************************************************************************)
EXTENDS Integers

Byte == 0 .. 255
Bit == {0, 1}
States == [a : Byte, z : Bit, n : Bit, h : Bit, c : Bit]

\* set_flag() takes a condition
AsBit(condition) == IF condition THEN 1 ELSE 0
Result(a, n, h, c) == [a |-> a, z |-> AsBit(a = 0), n |-> n, h |-> h, c |-> c]

BitAt(value, i) == (value \div 2 ^ i) % 2
OfBits(b) == b[0] + 2 * b[1] + 4 * b[2] + 8 * b[3] + 16 * b[4] + 32 * b[5] + 64 * b[6] + 128 * b[7]
-----------------------------------------------------------------------------
(* ADD, ADC, SUB, SBC, CP and the logical operations *)

add_a8(s, val, carry) ==
    LET sum == s.a + val + carry
    IN  Result(sum % 256, 0, AsBit((s.a % 16) + (val % 16) + carry > 15), AsBit(sum > 255))

sub_a8(s, val, carry) ==
    LET res == s.a - val - carry
    IN  Result(res % 256, 1, AsBit((s.a % 16) - (val % 16) - carry < 0), AsBit(res < 0))

cp_a8(s, val) == [sub_a8(s, val, 0) EXCEPT !.a = s.a]

and_a8(s, val) == Result(OfBits([i \in 0 .. 7 |-> BitAt(s.a, i) * BitAt(val, i)]), 0, 1, 0)
or_a8(s, val) == Result(OfBits([i \in 0 .. 7 |-> AsBit(BitAt(s.a, i) + BitAt(val, i) > 0)]), 0, 0, 0)
xor_a8(s, val) == Result(OfBits([i \in 0 .. 7 |-> AsBit(BitAt(s.a, i) # BitAt(val, i))]), 0, 0, 0)

\* INC and DEC leave the carry alone.
inc(s) == LET sum == (s.a + 1) % 256 IN Result(sum, 0, AsBit(sum % 16 = 0), s.c)
dec(s) == LET sum == (s.a - 1) % 256 IN Result(sum, 1, AsBit(sum % 16 = 15), s.c)

-----------------------------------------------------------------------------
(* DAA, CPL, SCF, CCF *)

\* The carry of an addition survives only when the high digit is corrected.
daa(s) ==
    LET low  == (s.n = 0 /\ s.a % 16 > 9) \/ s.h = 1
        high == (s.n = 0 /\ s.a > 153) \/ s.c = 1
        offset == (IF low THEN 6 ELSE 0) + (IF high THEN 96 ELSE 0)
        value == (s.a + (IF s.n = 1 THEN -offset ELSE offset)) % 256
    IN  Result(value, s.n, 0, AsBit(high))

cpl(s) == [s EXCEPT !.a = 255 - s.a, !.n = 1, !.h = 1]
scf(s) == [s EXCEPT !.c = 1, !.n = 0, !.h = 0]
ccf(s) == [s EXCEPT !.c = 1 - s.c, !.n = 0, !.h = 0]

-----------------------------------------------------------------------------
(* Rotations and shifts; the bit that falls out is the carry. *)

rlc(s) == Result(((2 * s.a) % 256) + BitAt(s.a, 7), 0, 0, BitAt(s.a, 7))
rrc(s) == Result(s.a \div 2 + 128 * BitAt(s.a, 0), 0, 0, BitAt(s.a, 0))

rl(s) == Result(((2 * s.a) % 256) + s.c, 0, 0, BitAt(s.a, 7))
rr(s) == Result(s.a \div 2 + 128 * s.c, 0, 0, BitAt(s.a, 0))

\* the forms on A clear Z
rlca(s) == [rlc(s) EXCEPT !.z = 0]
rrca(s) == [rrc(s) EXCEPT !.z = 0]
rla(s) == [rl(s) EXCEPT !.z = 0]
rra(s) == [rr(s) EXCEPT !.z = 0]

\* A rotation with the incoming bit replaced.
sla(s) == Result(rlc(s).a - (rlc(s).a % 2), 0, 0, rlc(s).c)
srl(s) == Result(rrc(s).a % 128, 0, 0, rrc(s).c)
sra(s) == Result((rrc(s).a % 128) + 128 * BitAt(s.a, 7), 0, 0, rrc(s).c)

swap(s) == Result(s.a \div 16 + 16 * (s.a % 16), 0, 0, 0)

bit(s, i) == [s EXCEPT !.z = 1 - BitAt(s.a, i), !.n = 0, !.h = 1]
res(s, i) == [s EXCEPT !.a = s.a - 2 ^ i * BitAt(s.a, i)]
set(s, i) == [s EXCEPT !.a = s.a + 2 ^ i * (1 - BitAt(s.a, i))]

-----------------------------------------------------------------------------
(* Sixteen bits *)

add_hl_KeepsCarry(s, hl, rr16) ==
    [hl |-> (hl + rr16) % 65536,
     s |-> [s EXCEPT !.n = 0, !.h = AsBit((hl % 4096) + (rr16 % 4096) > 4095)]]

add_hl(s, hl, rr16) ==
    [hl |-> (hl + rr16) % 65536,
     s |-> [s EXCEPT !.n = 0, !.h = AsBit((hl % 4096) + (rr16 % 4096) > 4095),
                     !.c = AsBit(hl + rr16 > 65535)]]

\* The operand of ADD SP and LD HL, SP + e is a signed byte.
Signed(byte) == IF byte > 127 THEN byte - 256 ELSE byte

\* The carry into a bit, out of the sum and the two operands.
CarryInto(i, x, y, sum) == (BitAt(x, i) + BitAt(y % 65536, i) + BitAt(sum % 65536, i)) % 2

add_sp(s, sp, byte) ==
    LET sum == sp + Signed(byte)
    IN  [sp |-> sum % 65536,
         s |-> [s EXCEPT !.z = 0, !.n = 0, !.h = CarryInto(4, sp, Signed(byte), sum),
                         !.c = CarryInto(8, sp, Signed(byte), sum)]]
=============================================================================
