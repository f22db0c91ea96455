----------------------------- MODULE MultiByte -----------------------------
(***************************************************************************)
(* What programs use the arithmetic of Alu for: numbers wider than a       *)
(* byte, binary and decimal, built from instructions that pass a carry, a  *)
(* half carry and the N flag from one to the next.  Each action is one     *)
(* instruction, with the loads around it, of a routine on two numbers of   *)
(* two bytes; a routine starts with the flags the one before it left.      *)
(***************************************************************************)
EXTENDS Alu, Sequences

CONSTANT Operands     \* the bytes the numbers are made of

ASSUME OperandBytes == Operands \subseteq Byte

VARIABLES
    routine,   \* what is computed
    x, y,      \* its operands, low byte first
    at,        \* the byte, or the round, it has come to
    adjust,    \* the next instruction is DAA
    s, hl,     \* the register, the flags and HL
    out        \* the bytes stored

operands == <<routine, x, y>>
vars == <<operands, at, adjust, s, hl, out>>

Decimal == {"add_bcd", "sub_bcd"}
FromLow == Decimal \cup {"add", "sub", "neg", "inc", "left"}
FromHigh == {"dec", "right", "signed_right"}
Rounds == {"mul", "copy_bits"}
Unary == {"neg", "inc", "dec", "left", "right", "signed_right"}
Routines == FromLow \cup FromHigh \cup Rounds \cup {"logic"}

NoRoutine == "none"
Done == 0
Zero == <<0, 0>>
Numbers == Operands \X Operands
MaxWord == 65535
Value(bytes) == bytes[1] + 256 * bytes[2]

IsBcd(byte) == byte % 16 <= 9 /\ byte \div 16 <= 9
Digits(byte) == (byte % 16) + 10 * (byte \div 16)
DecimalValue(bytes) == Digits(bytes[1]) + 100 * Digits(bytes[2])
AllBcd(bytes) == IsBcd(bytes[1]) /\ IsBcd(bytes[2])

TypeOK ==
    /\ routine \in Routines \cup {NoRoutine} /\ {x, y} \subseteq Byte \X Byte
    /\ at \in 0 .. 8 /\ adjust \in BOOLEAN
    /\ s \in States /\ hl \in 0 .. MaxWord
    /\ out \in Byte \X Byte

\* CPU::init() of a Game Boy Color with a color game.
Init ==
    /\ routine = NoRoutine /\ x = Zero /\ y = Zero
    /\ at = Done /\ adjust = FALSE
    /\ s = [a |-> 17, z |-> 1, n |-> 0, h |-> 0, c |-> 0]
    /\ hl = 0
    /\ out = Zero

Start(r, n, m) ==
    /\ r \in Decimal => AllBcd(n) /\ AllBcd(m)
    /\ r \in Unary => m = n
    /\ routine' = r /\ x' = n /\ y' = m
    /\ at' = IF r \in FromHigh THEN 2 ELSE IF r \in Rounds THEN 8 ELSE 1
    /\ s' = [s EXCEPT !.a = m[1]]
    /\ UNCHANGED <<adjust, hl, out>>

\* The results are used; the flags stay as they are.
Finish ==
    /\ routine # NoRoutine /\ at = Done
    /\ routine' = NoRoutine /\ x' = Zero /\ y' = Zero
    /\ s' = [s EXCEPT !.a = 0] /\ hl' = 0 /\ out' = Zero
    /\ UNCHANGED <<at, adjust>>

-----------------------------------------------------------------------------
(* Byte by byte *)

NextByte == IF routine \in FromHigh THEN at - 1 ELSE (at + 1) % 3

\* An instruction with the current byte in its register, and what follows it.
ByteStep(rs, result) ==
    /\ routine \in rs /\ at # Done /\ ~adjust
    /\ s' = result
    /\ out' = [out EXCEPT ![at] = result.a]
    /\ adjust' = (routine \in Decimal)
    /\ at' = IF adjust' THEN at ELSE NextByte
    /\ UNCHANGED <<operands, hl>>

WithByte == [s EXCEPT !.a = x[at]]
First == at = 1

\* ADD, then ADC; SUB, then SBC
Add == ByteStep({"add", "add_bcd"}, add_a8(WithByte, y[at], IF First THEN 0 ELSE s.c))
Sub == ByteStep({"sub", "sub_bcd"}, sub_a8(WithByte, y[at], IF First THEN 0 ELSE s.c))

\* SCF once, and for each byte CPL and ADC 0: CPL must leave the carry.
Neg == ByteStep({"neg"}, LET flipped == cpl(IF First THEN scf(WithByte) ELSE WithByte)
                          IN  add_a8(flipped, 0, flipped.c))

\* SLA, then RL; from the high byte SRL or SRA, then RR
Left == ByteStep({"left"}, IF First THEN sla(WithByte) ELSE rl(WithByte))
Right == ByteStep({"right"}, IF First THEN rr(WithByte) ELSE srl(WithByte))
SignedRight == ByteStep({"signed_right"}, IF First THEN rr(WithByte) ELSE sra(WithByte))

\* INC low; JR NZ; INC high
Inc == ByteStep({"inc"}, IF First \/ s.z = 1 THEN inc(WithByte) ELSE WithByte)

\* LD A, low; OR A; JR NZ over DEC high; DEC low
Dec ==
    ByteStep({"dec"}, IF First \/ or_a8([s EXCEPT !.a = x[1]], x[1]).z = 1
                      THEN dec(WithByte) ELSE WithByte)

\* DAA after the byte of a decimal routine
Daa ==
    /\ adjust
    /\ s' = daa(s)
    /\ out' = [out EXCEPT ![at] = s'.a]
    /\ adjust' = FALSE
    /\ at' = NextByte
    /\ UNCHANGED <<operands, hl>>

\* AND, XOR and OR of the same two bytes
Logic ==
    /\ routine = "logic" /\ at # Done
    /\ out' = <<and_a8(WithByte, y[1]).a, xor_a8(WithByte, y[1]).a>>
    /\ s' = or_a8(WithByte, y[1])
    /\ at' = Done
    /\ UNCHANGED <<operands, adjust, hl>>

-----------------------------------------------------------------------------
(* Round by round *)

\* ADD HL, HL; RLA; JR NC over ADD HL, DE
Mul ==
    LET doubled == add_hl(s, hl, hl)
        shifted == rla(doubled.s)
        added   == add_hl(shifted, doubled.hl, Value(x))
    IN  /\ routine = "mul" /\ at # Done
        /\ IF shifted.c = 1 THEN hl' = added.hl /\ s' = added.s
                            ELSE hl' = doubled.hl /\ s' = shifted
        /\ at' = at - 1
        /\ UNCHANGED <<operands, adjust, out>>

\* BIT of the one register, then SET or RES in the other
CopyBit ==
    /\ routine = "copy_bits" /\ at # Done
    /\ LET tested == bit([s EXCEPT !.a = x[1]], at - 1)
           flags  == [tested EXCEPT !.a = s.a]
       IN  s' = IF tested.z = 1 THEN res(flags, at - 1) ELSE set(flags, at - 1)
    /\ at' = at - 1
    /\ UNCHANGED <<operands, adjust, hl, out>>

Next ==
    \/ routine = NoRoutine /\ \E r \in Routines, n, m \in Numbers : Start(r, n, m)
    \/ Finish
    \/ Add \/ Sub \/ Neg \/ Left \/ Right \/ SignedRight \/ Inc \/ Dec \/ Daa
    \/ Logic \/ Mul \/ CopyBit

Spec == Init /\ [][Next]_vars

-----------------------------------------------------------------------------
(* Properties.  Each one is about a routine that has come to its end. *)

Ended(r) == at = Done /\ routine = r

\* The carry ADD leaves is the one ADC needs: no bit of a sum is lost, and ADD
\* HL of the same numbers has the sum and the flags of the last ADC.
SumExact ==
    Ended("add") =>
        /\ Value(out) + 65536 * s.c = Value(x) + Value(y)
        /\ LET wide == add_hl(ccf(s), Value(x), Value(y))
           IN  wide.hl = Value(out) /\ wide.s.c = s.c /\ wide.s.h = s.h

\* The same for the borrow of SUB and SBC, which is also the comparison: the
\* carry says "less".
DifferenceExact ==
    Ended("sub") => /\ Value(out) - 65536 * s.c = Value(x) - Value(y)
                    /\ s.c = AsBit(Value(x) < Value(y))

\* DAA after every ADD, ADC, SUB and SBC of packed digits gives packed digits,
\* and a carry that is the decimal one.
DecimalExact ==
    /\ Ended("add_bcd") => /\ AllBcd(out)
                           /\ DecimalValue(out) + 10000 * s.c = DecimalValue(x) + DecimalValue(y)
    /\ Ended("sub_bcd") => /\ AllBcd(out)
                           /\ DecimalValue(out) - 10000 * s.c = DecimalValue(x) - DecimalValue(y)

\* CPL keeps the carry, INC and DEC tell by Z when the next byte must change.
CountExact ==
    /\ Ended("neg") => Value(out) = (65536 - Value(x)) % 65536
    /\ Ended("inc") => Value(out) = (Value(x) + 1) % 65536
    /\ Ended("dec") => Value(out) = (Value(x) + 65535) % 65536

\* A shift of two bytes doubles or halves the number, signed or not, and the
\* bit that falls out is in the carry.
ShiftExact ==
    /\ Ended("left") => Value(out) + 65536 * s.c = 2 * Value(x)
    /\ Ended("right") => 2 * Value(out) + s.c = Value(x)
    /\ Ended("signed_right") =>
          2 * (Value(out) - 65536 * BitAt(out[2], 7)) + s.c = Value(x) - 65536 * BitAt(x[2], 7)

\* Eight rounds of ADD HL and RLA multiply: the carry of ADD HL is overwritten
\* by RLA in time, and RLA brings the multiplier out high bit first.
ProductExact == Ended("mul") => hl = (Value(x) * y[1]) % 65536

\* x AND y and x XOR y add up to x OR y, and twice the one and once the other
\* to the sum; BIT, SET and RES copy a byte.
BitsExact ==
    /\ Ended("logic") => out[1] + out[2] = s.a /\ 2 * out[1] + out[2] = x[1] + y[1]
    /\ Ended("copy_bits") => s.a = x[1]

\* ADD SP has the half carry and carry of an unsigned ADD of the low bytes,
\* whatever the sign of its operand.
SpFlags ==
    routine = "add" /\ at = 2 =>
        LET moved == add_sp(ccf(s), Value(x), y[1]).s IN moved.h = s.h /\ moved.c = s.c

\* SWAP is four rotations, and a rotation to the right undoes one to the
\* left: RRCA that of the byte, RRA that of the byte and the carry.
RotationsExact ==
    Ended("logic") =>
        LET turned == [s EXCEPT !.a = x[2]]
            back   == rra(rla(turned))
        IN  /\ swap(turned).a = rlca(rlca(rlca(rlca(turned)))).a
            /\ rrca(rlca(turned)).a = turned.a
            /\ back.a = turned.a /\ back.c = turned.c

\* Every routine computes its number exactly, whatever flags and bytes the
\* rounds before have left in the registers.
RoutinesExact ==
    /\ SumExact /\ DifferenceExact /\ DecimalExact /\ CountExact /\ ShiftExact
    /\ ProductExact /\ BitsExact /\ RotationsExact /\ SpFlags
=============================================================================
