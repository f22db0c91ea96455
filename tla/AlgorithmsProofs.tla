-------------------------- MODULE AlgorithmsProofs --------------------------
(***************************************************************************)
(* Proofs about the algorithms: the arithmetic of Alu for every byte; the  *)
(* length of mode 3 for every screen and every buffer of sprites; and the  *)
(* drawing of a line for every screen, map, registers and OAM: the scan of *)
(* OAM keeps the first sprites of the line in the order they are painted   *)
(* in, the ground is the map's under any scrolling, and every pixel shows  *)
(* the sprite above all others there.                                      *)
(***************************************************************************)
EXTENDS MultiByte, Scanline, FiniteSetTheorems, WellFoundedInduction, TLAPS

(* What the runs of MultiByte show on ten bytes, proved for every byte. *)

Digit == 0 .. 9
Packed(tens, units) == 16 * tens + units

\* What every arithmetic instruction leaves is a state of the unit.
LEMMA ResultType ==
    ASSUME NEW a \in Byte, NEW n \in Bit, NEW h \in Bit, NEW c \in Bit
    PROVE  /\ Result(a, n, h, c) \in States
           /\ Result(a, n, h, c).a = a /\ Result(a, n, h, c).n = n
           /\ Result(a, n, h, c).h = h /\ Result(a, n, h, c).c = c
  <1>1. AsBit(a = 0) \in Bit
    BY DEF AsBit, Bit
  <1> QED
    BY <1>1 DEF Result, States

\* The result of ADD and ADC, its parts named.
LEMMA AddParts ==
    ASSUME NEW st \in States, NEW val \in Byte, NEW carry \in Bit
    PROVE  LET sum == st.a + val + carry
               r   == add_a8(st, val, carry)
           IN  /\ r \in States
               /\ r.a = (IF sum > 255 THEN sum - 256 ELSE sum)
               /\ r.n = 0
               /\ r.h = (IF (st.a % 16) + (val % 16) + carry > 15 THEN 1 ELSE 0)
               /\ r.c = (IF sum > 255 THEN 1 ELSE 0)
  <1> DEFINE sum == st.a + val + carry
             half == AsBit((st.a % 16) + (val % 16) + carry > 15)
             full == AsBit(sum > 255)
  <1>1. st.a \in 0 .. 255 /\ val \in 0 .. 255 /\ carry \in 0 .. 1
    BY DEF States, Byte, Bit
  <1>2. half \in Bit /\ full \in Bit /\ 0 \in Bit
    BY DEF AsBit, Bit
  <1> HIDE DEF half, full
  <1>3. sum \in 0 .. 511
    <2>1. \A m \in 0 .. 255, n \in 0 .. 255, c \in 0 .. 1 : m + n + c \in 0 .. 511
      OBVIOUS
    <2> QED
      BY <1>1, <2>1
  <1> HIDE DEF sum
  <1>4. sum % 256 = (IF sum > 255 THEN sum - 256 ELSE sum) /\ sum % 256 \in Byte
    BY <1>3 DEF Byte
  <1>5. add_a8(st, val, carry) = Result(sum % 256, 0, half, full)
    BY DEF add_a8, sum, half, full
  <1>6. /\ add_a8(st, val, carry) \in States
        /\ add_a8(st, val, carry).a = sum % 256
        /\ add_a8(st, val, carry).n = 0
        /\ add_a8(st, val, carry).h = half
        /\ add_a8(st, val, carry).c = full
    BY <1>2, <1>4, <1>5, ResultType
  <1> QED
    BY <1>4, <1>6 DEF sum, half, full, AsBit

\* The result of SUB and SBC, its parts named.
LEMMA SubParts ==
    ASSUME NEW st \in States, NEW val \in Byte, NEW carry \in Bit
    PROVE  LET rest == st.a - val - carry
               r    == sub_a8(st, val, carry)
           IN  /\ r \in States
               /\ r.a = (IF rest < 0 THEN rest + 256 ELSE rest)
               /\ r.n = 1
               /\ r.h = (IF (st.a % 16) - (val % 16) - carry < 0 THEN 1 ELSE 0)
               /\ r.c = (IF rest < 0 THEN 1 ELSE 0)
  <1> DEFINE rest == st.a - val - carry
             half == AsBit((st.a % 16) - (val % 16) - carry < 0)
             full == AsBit(rest < 0)
  <1>1. st.a \in 0 .. 255 /\ val \in 0 .. 255 /\ carry \in 0 .. 1
    BY DEF States, Byte, Bit
  <1>2. half \in Bit /\ full \in Bit /\ 1 \in Bit
    BY DEF AsBit, Bit
  <1> HIDE DEF half, full
  <1>3. rest \in -256 .. 255
    <2>1. \A m \in 0 .. 255, n \in 0 .. 255, c \in 0 .. 1 : m - n - c \in -256 .. 255
      OBVIOUS
    <2> QED
      BY ZenonT(30), <1>1, <2>1
  <1> HIDE DEF rest
  <1>4. rest % 256 = (IF rest < 0 THEN rest + 256 ELSE rest) /\ rest % 256 \in Byte
    BY <1>3 DEF Byte
  <1>5. sub_a8(st, val, carry) = Result(rest % 256, 1, half, full)
    BY DEF sub_a8, rest, half, full
  <1>6. /\ sub_a8(st, val, carry) \in States
        /\ sub_a8(st, val, carry).a = rest % 256
        /\ sub_a8(st, val, carry).n = 1
        /\ sub_a8(st, val, carry).h = half
        /\ sub_a8(st, val, carry).c = full
    BY <1>2, <1>4, <1>5, ResultType
  <1> QED
    BY <1>4, <1>6 DEF rest, half, full, AsBit

(***************************************************************************)
(* ADD and ADC lose nothing: the result and the carry are the sum, so a    *)
(* chain of them adds numbers of any width.                                *)
(***************************************************************************)
THEOREM AddExact ==
    ASSUME NEW st \in States, NEW val \in Byte, NEW carry \in Bit
    PROVE  add_a8(st, val, carry).a + 256 * add_a8(st, val, carry).c = st.a + val + carry
  <1>1. st.a + val + carry \in Int
    BY DEF States, Byte, Bit
  <1> QED
    BY <1>1, AddParts

(***************************************************************************)
(* The same for SUB and SBC; and after CP the carry says "less".           *)
(***************************************************************************)
THEOREM SubExact ==
    ASSUME NEW st \in States, NEW val \in Byte, NEW carry \in Bit
    PROVE  /\ sub_a8(st, val, carry).a - 256 * sub_a8(st, val, carry).c = st.a - val - carry
           /\ cp_a8(st, val).c = 1 <=> st.a < val
  <1>1. st.a \in Int /\ val \in Int /\ carry \in Int /\ 0 \in Bit
    BY DEF States, Byte, Bit
  <1>2. cp_a8(st, val).c = sub_a8(st, val, 0).c
    BY <1>1, SubParts DEF cp_a8, States
  <1>3. sub_a8(st, val, 0).c = 1 <=> st.a - val - 0 < 0
    BY <1>1, SubParts
  <1> QED
    BY <1>1, <1>2, <1>3, SubParts

-----------------------------------------------------------------------------
(* Packed decimal digits *)

\* The two digits of a byte below 512, and of the byte it is cut to.
LEMMA Nibbles ==
    ASSUME NEW t \in 0 .. 31, NEW u \in 0 .. 15
    PROVE  (Packed(t, u) % 16) = u
  BY DEF Packed

(***************************************************************************)
(* DAA after an addition of two packed pairs of digits, with or without a  *)
(* carry: the decimal sum, packed, and the decimal carry.                  *)
(***************************************************************************)
THEOREM DecimalSum ==
    ASSUME NEW st \in States, NEW carry \in Bit,
           NEW t1 \in Digit, NEW u1 \in Digit, NEW t2 \in Digit, NEW u2 \in Digit,
           st.a = Packed(t1, u1)
    PROVE  LET r     == daa(add_a8(st, Packed(t2, u2), carry))
               units == u1 + u2 + carry
               tens  == t1 + t2 + (IF units > 9 THEN 1 ELSE 0)
           IN  /\ r.a = Packed(IF tens > 9 THEN tens - 10 ELSE tens,
                               IF units > 9 THEN units - 10 ELSE units)
               /\ r.c = (IF tens > 9 THEN 1 ELSE 0)
  <1> DEFINE units == u1 + u2 + carry
             both == t1 + t2
             sum == st.a + Packed(t2, u2) + carry
             r1 == add_a8(st, Packed(t2, u2), carry)
  <1>1. /\ t1 \in 0 .. 9 /\ u1 \in 0 .. 9 /\ t2 \in 0 .. 9 /\ u2 \in 0 .. 9
        /\ carry \in 0 .. 1
    BY DEF Digit, Bit
  <1>2. Packed(t2, u2) \in Byte /\ (Packed(t2, u2) % 16) = u2 /\ (st.a % 16) = u1
    BY <1>1, Nibbles DEF Packed, Byte
  <1>3. units \in 0 .. 19 /\ both \in 0 .. 18 /\ sum = 16 * both + units
    BY <1>1 DEF Packed
  <1>4. /\ r1 \in States
        /\ r1.a = (IF sum > 255 THEN sum - 256 ELSE sum)
        /\ r1.n = 0
        /\ r1.h = (IF units > 15 THEN 1 ELSE 0)
        /\ r1.c = (IF sum > 255 THEN 1 ELSE 0)
    BY <1>2, AddParts
  <1> HIDE DEF units, both, sum, r1
  \* the low digit the addition leaves
  <1>5. (r1.a % 16) = (IF units > 15 THEN units - 16 ELSE units)
    <2> DEFINE high == both + (IF units > 15 THEN 1 ELSE 0) - (IF sum > 255 THEN 16 ELSE 0)
               low  == IF units > 15 THEN units - 16 ELSE units
    <2>1. high \in 0 .. 31 /\ low \in 0 .. 15 /\ r1.a = Packed(high, low)
      BY <1>3, <1>4 DEF Packed
    <2> QED
      BY <2>1, Nibbles
  <1> DEFINE lowFix == units > 9
             highFix == both + (IF units > 9 THEN 1 ELSE 0) > 9
             offset == (IF lowFix THEN 6 ELSE 0) + (IF highFix THEN 96 ELSE 0)
  <1>6. ((r1.n = 0 /\ r1.a % 16 > 9) \/ r1.h = 1) <=> lowFix
    BY <1>3, <1>4, <1>5
  <1>7. ((r1.n = 0 /\ r1.a > 153) \/ r1.c = 1) <=> highFix
    BY <1>3, <1>4
  <1>8. /\ offset \in 0 .. 102
        /\ (r1.a + offset) % 256 =
              Packed(IF highFix THEN both + (IF lowFix THEN 1 ELSE 0) - 10
                                ELSE both + (IF lowFix THEN 1 ELSE 0),
                     IF lowFix THEN units - 10 ELSE units)
    BY <1>3, <1>4 DEF Packed
  <1>9. /\ daa(r1).a = (r1.a + offset) % 256
        /\ daa(r1).c = (IF highFix THEN 1 ELSE 0)
    BY <1>4, <1>6, <1>7 DEF daa, Result, AsBit
  <1> QED
    BY <1>3, <1>8, <1>9 DEF units, both, r1

-----------------------------------------------------------------------------
(* The routines of MultiByte, for every byte.  What a routine has computed *)
(* when it has come to byte or round "at", and what it needs of the flags. *)

\* The unit with a byte in its register: the arithmetic reads no flag of it.
Loaded(byte) == [a |-> byte, z |-> 0, n |-> 0, h |-> 0, c |-> 0]

Adding ==
    /\ at = 2 => /\ out[1] + 256 * s.c = x[1] + y[1]
                 /\ s.h = AsBit((x[1] % 16) + (y[1] % 16) > 15)
    /\ at = Done => /\ Value(out) + 65536 * s.c = Value(x) + Value(y)
                    /\ s.h = AsBit((x[2] % 16) + (y[2] % 16) + AsBit(x[1] + y[1] > 255) > 15)

Subtracting ==
    /\ at = 2 => out[1] - 256 * s.c = x[1] - y[1]
    /\ at = Done => Value(out) - 65536 * s.c = Value(x) - Value(y)

\* What DAA finds: the binary sum of two bytes and of the decimal carry.
DecimalAdding ==
    /\ adjust => \E carry \in Bit :
                    /\ s = add_a8(Loaded(x[at]), y[at], carry)
                    /\ at = 1 => carry = 0
                    /\ at = 2 => /\ IsBcd(out[1])
                                 /\ Digits(out[1]) + 100 * carry = Digits(x[1]) + Digits(y[1])
    /\ ~adjust /\ at = 2 => /\ IsBcd(out[1])
                            /\ Digits(out[1]) + 100 * s.c = Digits(x[1]) + Digits(y[1])
    /\ at = Done => /\ AllBcd(out)
                    /\ DecimalValue(out) + 10000 * s.c = DecimalValue(x) + DecimalValue(y)

DecimalSubtracting ==
    /\ adjust => \E carry \in Bit :
                    /\ s = sub_a8(Loaded(x[at]), y[at], carry)
                    /\ at = 1 => carry = 0
                    /\ at = 2 => /\ IsBcd(out[1])
                                 /\ Digits(out[1]) - 100 * carry = Digits(x[1]) - Digits(y[1])
    /\ ~adjust /\ at = 2 => /\ IsBcd(out[1])
                            /\ Digits(out[1]) - 100 * s.c = Digits(x[1]) - Digits(y[1])
    /\ at = Done => /\ AllBcd(out)
                    /\ DecimalValue(out) - 10000 * s.c = DecimalValue(x) - DecimalValue(y)

Negating ==
    /\ at = 2 => out[1] + 256 * s.c = 256 - x[1]
    /\ at = Done => Value(out) + 65536 * s.c = 65536 - Value(x)

Counting ==
    /\ routine = "inc" /\ at = 2 => out[1] = (x[1] + 1) % 256 /\ s.z = AsBit(out[1] = 0)
    /\ routine = "dec" /\ at = 1 => out[2] = (IF x[1] = 0 THEN (x[2] - 1) % 256 ELSE x[2])
    /\ routine = "inc" /\ at = Done => Value(out) = (Value(x) + 1) % 65536
    /\ routine = "dec" /\ at = Done => Value(out) = (Value(x) + 65535) % 65536

Shifting ==
    /\ routine = "left" => /\ at = 2 => out[1] + 256 * s.c = 2 * x[1]
                           /\ at = Done => Value(out) + 65536 * s.c = 2 * Value(x)
    /\ routine = "right" => /\ at = 1 => 2 * out[2] + s.c = x[2]
                            /\ at = Done => 2 * Value(out) + s.c = Value(x)
    /\ routine = "signed_right" =>
          /\ at = 1 => 2 * (out[2] - 256 * BitAt(out[2], 7)) + s.c = x[2] - 256 * BitAt(x[2], 7)
          /\ at = Done => 2 * (Value(out) - 65536 * BitAt(out[2], 7)) + s.c
                             = Value(x) - 65536 * BitAt(x[2], 7)

\* The multiplier's low bits are what RLA has left on top of A, the product
\* that of its high bits.
Multiplying ==
    /\ s.a \div 2 ^ (8 - at) = y[1] % 2 ^ at
    /\ hl = (Value(x) * (y[1] \div 2 ^ at)) % 65536

Copying == s.a \div 2 ^ at = x[1] \div 2 ^ at

Combining ==
    at = Done => /\ out[1] + out[2] = s.a
                 /\ 2 * out[1] + out[2] = x[1] + y[1]

\* Where a routine may be, and what its operands are.
Places ==
    /\ routine = NoRoutine => at = Done
    /\ routine \in FromLow \cup FromHigh => at \in {Done, 1, 2}
    /\ routine = "logic" => at \in {Done, 1}
    /\ adjust => routine \in Decimal /\ at # Done
    /\ routine \in Decimal => AllBcd(x) /\ AllBcd(y)
    /\ routine # "mul" => hl = 0

Progress ==
    /\ routine = "add" => Adding
    /\ routine = "sub" => Subtracting
    /\ routine = "add_bcd" => DecimalAdding
    /\ routine = "sub_bcd" => DecimalSubtracting
    /\ routine = "neg" => Negating
    /\ routine \in {"inc", "dec"} => Counting
    /\ routine \in {"left", "right", "signed_right"} => Shifting
    /\ routine = "mul" => Multiplying
    /\ routine = "copy_bits" => Copying
    /\ routine = "logic" => Combining

RoutineInv == TypeOK /\ Places /\ Progress

-----------------------------------------------------------------------------
(* What the instructions the routines are made of compute, for every byte. *)

\* A byte and a bit as numbers, so that no leaf lists the values.
LEMMA InByte == ASSUME NEW b PROVE b \in Byte <=> b \in Int /\ 0 <= b /\ b <= 255
  BY DEF Byte

\* The same for a bit.
LEMMA InBit == ASSUME NEW b PROVE b \in Bit <=> b = 0 \/ b = 1
  BY DEF Bit

\* The powers of two a byte needs.
LEMMA PowersOfTwo ==
    /\ 2 ^ 0 = 1 /\ 2 ^ 1 = 2 /\ 2 ^ 2 = 4 /\ 2 ^ 3 = 8 /\ 2 ^ 4 = 16
    /\ 2 ^ 5 = 32 /\ 2 ^ 6 = 64 /\ 2 ^ 7 = 128 /\ 2 ^ 8 = 256
  OBVIOUS

\* The register and the flags of a state.
LEMMA Parts ==
    ASSUME NEW st \in States
    PROVE  st.a \in Byte /\ st.z \in Bit /\ st.n \in Bit /\ st.h \in Bit /\ st.c \in Bit
  BY DEF States

\* A register loaded between two instructions: the flags stay.
LEMMA Load ==
    ASSUME NEW st \in States, NEW b \in Byte
    PROVE  LET l == [st EXCEPT !.a = b]
           IN  /\ l \in States /\ l.a = b
               /\ l.z = st.z /\ l.n = st.n /\ l.h = st.h /\ l.c = st.c
  BY DEF States

\* A state of the unit with a byte in its register.
LEMMA LoadedState == ASSUME NEW b \in Byte PROVE Loaded(b) \in States /\ Loaded(b).a = b
  BY InBit DEF Loaded, States

\* A condition as a flag.
LEMMA Condition == ASSUME NEW p \in BOOLEAN PROVE AsBit(p) \in Bit /\ (AsBit(p) = 1 <=> p)
  BY InBit DEF AsBit

\* The bit that falls out of a shift.
LEMMA OutmostBits ==
    ASSUME NEW v \in Byte
    PROVE  /\ BitAt(v, 7) = v \div 128 /\ BitAt(v, 7) \in Bit
           /\ BitAt(v, 0) = v % 2 /\ BitAt(v, 0) \in Bit
<1>1. v \in Int /\ 0 <= v /\ v <= 255
    BY InByte
<1>2. BitAt(v, 7) = (v \div 128) % 2
    BY PowersOfTwo DEF BitAt
<1>3. BitAt(v, 0) = (v \div 1) % 2
    BY PowersOfTwo DEF BitAt
<1>4. v \div 1 = v
    BY <1>1
<1>5. BitAt(v, 7) = v \div 128 /\ (v \div 128 = 0 \/ v \div 128 = 1)
    BY <1>1, <1>2
<1>6. BitAt(v, 0) = v % 2 /\ (v % 2 = 0 \/ v % 2 = 1)
    BY <1>1, <1>3, <1>4
<1> QED
    BY <1>5, <1>6, InBit

\* RLC and RRC, which the other shifts are made of.
LEMMA Rotated ==
    ASSUME NEW st \in States
    PROVE  /\ rlc(st) \in States /\ rlc(st).c = BitAt(st.a, 7)
           /\ rlc(st).a = 2 * st.a - 255 * BitAt(st.a, 7)
           /\ rrc(st) \in States /\ rrc(st).c = BitAt(st.a, 0)
           /\ 2 * rrc(st).a = st.a + 255 * BitAt(st.a, 0)
<1> DEFINE v == st.a
           b7 == BitAt(v, 7)
           b0 == BitAt(v, 0)
<1>1. /\ v \in Int /\ 0 <= v /\ v <= 255
      /\ b7 = v \div 128 /\ b7 \in Bit /\ b0 = v % 2 /\ b0 \in Bit /\ 0 \in Bit
    BY Parts, OutmostBits, InByte, InBit
<1> HIDE DEF v, b7, b0
<1>2. ((2 * v) % 256) + b7 = 2 * v - 255 * b7 /\ ((2 * v) % 256) + b7 \in Byte
    BY <1>1, InByte
<1>3. 2 * ((v \div 2) + 128 * b0) = v + 255 * b0 /\ (v \div 2) + 128 * b0 \in Byte
    BY <1>1, InByte
<1>4. rlc(st) = Result(((2 * v) % 256) + b7, 0, 0, b7)
    BY DEF rlc, v, b7
<1>5. rrc(st) = Result((v \div 2) + 128 * b0, 0, 0, b0)
    BY DEF rrc, v, b0
<1>6. rlc(st) \in States /\ rlc(st).a = ((2 * v) % 256) + b7 /\ rlc(st).c = b7
    BY <1>1, <1>2, <1>4, ResultType
<1>7. rrc(st) \in States /\ rrc(st).a = (v \div 2) + 128 * b0 /\ rrc(st).c = b0
    BY <1>1, <1>3, <1>5, ResultType
<1> QED
    BY <1>2, <1>3, <1>6, <1>7 DEF v, b7, b0

\* SLA and RL double a byte, and the carry takes what no longer fits.
LEMMA LeftShifts ==
    ASSUME NEW st \in States
    PROVE  /\ sla(st) \in States /\ sla(st).a + 256 * sla(st).c = 2 * st.a
           /\ rl(st) \in States /\ rl(st).a + 256 * rl(st).c = 2 * st.a + st.c
<1> DEFINE v == st.a
           b7 == BitAt(v, 7)
           r == rlc(st)
<1>1. /\ v \in Int /\ 0 <= v /\ v <= 255 /\ st.c \in Bit
      /\ b7 = v \div 128 /\ b7 \in Bit /\ 0 \in Bit
    BY Parts, OutmostBits, InByte, InBit
<1>2. r.a = 2 * v - 255 * b7 /\ r.c = b7
    BY Rotated
<1>3. sla(st) = Result(r.a - (r.a % 2), 0, 0, r.c)
    BY DEF sla
<1>4. rl(st) = Result(((2 * v) % 256) + st.c, 0, 0, b7)
    BY DEF rl
<1> HIDE DEF v, b7, r
<1>5. r.a - (r.a % 2) = 2 * v - 256 * b7 /\ r.a - (r.a % 2) \in Byte
    BY <1>1, <1>2, InBit, InByte
<1>6. (2 * v) % 256 = 2 * v - 256 * b7
    BY <1>1
<1>7. ((2 * v) % 256) + st.c \in Byte
    BY <1>1, <1>6, InByte, InBit
<1>8. sla(st) \in States /\ sla(st).a = r.a - (r.a % 2) /\ sla(st).c = b7
    BY <1>1, <1>2, <1>3, <1>5, ResultType
<1>9. rl(st) \in States /\ rl(st).a = ((2 * v) % 256) + st.c /\ rl(st).c = b7
    BY <1>1, <1>4, <1>7, ResultType
<1>10. sla(st).a + 256 * sla(st).c = 2 * v
    BY <1>1, <1>5, <1>8, InBit
<1>11. rl(st).a + 256 * rl(st).c = 2 * v + st.c
    BY <1>1, <1>6, <1>9, InBit
<1> QED
    BY <1>8, <1>9, <1>10, <1>11 DEF v

\* SRL, SRA and RR halve a byte, and the carry takes the remainder.
LEMMA RightShifts ==
    ASSUME NEW st \in States
    PROVE  /\ srl(st) \in States /\ 2 * srl(st).a + srl(st).c = st.a
           /\ sra(st) \in States
           /\ 2 * (sra(st).a - 256 * BitAt(sra(st).a, 7)) + sra(st).c = st.a - 256 * BitAt(st.a, 7)
           /\ rr(st) \in States /\ 2 * rr(st).a + rr(st).c = st.a + 256 * st.c
<1> DEFINE v == st.a
           b7 == BitAt(v, 7)
           b0 == BitAt(v, 0)
           r == rrc(st)
<1>1. /\ v \in Int /\ 0 <= v /\ v <= 255 /\ st.c \in Bit /\ 0 \in Bit
      /\ b7 = v \div 128 /\ b7 \in Bit /\ b0 = v % 2 /\ b0 \in Bit
    BY Parts, OutmostBits, InByte, InBit
<1>2. 2 * r.a = v + 255 * b0 /\ r.c = b0 /\ r.a \in Int
    BY Rotated, Parts, InByte
<1>3. srl(st) = Result(r.a % 128, 0, 0, r.c)
    BY DEF srl
<1>4. sra(st) = Result((r.a % 128) + 128 * b7, 0, 0, r.c)
    BY DEF sra
<1>5. rr(st) = Result(v \div 2 + 128 * st.c, 0, 0, b0)
    BY DEF rr
<1> HIDE DEF v, b7, b0, r
<1>6. r.a % 128 = v \div 2 /\ 2 * (v \div 2) + b0 = v /\ (r.a % 128) \in Byte
    BY <1>1, <1>2, InBit, InByte
<1>7. (v \div 2) + 128 * b7 \in Byte /\ ((v \div 2) + 128 * b7) \div 128 = b7
  <2>1. v \div 2 \in Int /\ 0 <= v \div 2 /\ v \div 2 <= 127
    BY <1>1
  <2>2. CASE b7 = 0
    BY <2>1, <2>2, InByte
  <2>3. CASE b7 = 1
    BY <2>1, <2>3, InByte
  <2> QED
    BY <1>1, <2>2, <2>3, InBit
<1>8. (v \div 2) + 128 * st.c \in Byte
  <2>1. v \div 2 \in Int /\ 0 <= v \div 2 /\ v \div 2 <= 127
    BY <1>1
  <2>2. st.c = 0 \/ st.c = 1
    BY <1>1, InBit
  <2> QED
    BY <2>1, <2>2, InByte
<1>9. srl(st) \in States /\ srl(st).a = v \div 2 /\ srl(st).c = b0
    BY <1>1, <1>2, <1>3, <1>6, ResultType
<1>10. sra(st) \in States /\ sra(st).a = (v \div 2) + 128 * b7 /\ sra(st).c = b0
    BY <1>1, <1>2, <1>4, <1>6, <1>7, ResultType
<1>11. rr(st) \in States /\ rr(st).a = (v \div 2) + 128 * st.c /\ rr(st).c = b0
    BY <1>1, <1>5, <1>8, ResultType
<1>12. BitAt(sra(st).a, 7) = b7
    BY <1>7, <1>10, OutmostBits
<1>13. 2 * srl(st).a + srl(st).c = v
    BY <1>1, <1>6, <1>9
<1>14. 2 * (sra(st).a - 256 * b7) + sra(st).c = v - 256 * b7
    BY <1>1, <1>6, <1>10, InBit
<1>15. 2 * rr(st).a + rr(st).c = v + 256 * st.c
    BY <1>1, <1>6, <1>11, InBit
<1> QED
    BY <1>9, <1>10, <1>11, <1>12, <1>13, <1>14, <1>15 DEF v, b7

\* INC and DEC, and Z that tells of a byte run over.
LEMMA Counts ==
    ASSUME NEW st \in States
    PROVE  /\ inc(st) \in States /\ inc(st).z = AsBit(st.a = 255)
           /\ inc(st).a = (IF st.a = 255 THEN 0 ELSE st.a + 1)
           /\ dec(st) \in States
           /\ dec(st).a = (IF st.a = 0 THEN 255 ELSE st.a - 1)
<1> DEFINE v == st.a
           up == (v + 1) % 256
           down == (v - 1) % 256
           uh == AsBit(up % 16 = 0)
           dh == AsBit(down % 16 = 15)
<1>1. /\ v \in Int /\ 0 <= v /\ v <= 255 /\ st.c \in Bit /\ 0 \in Bit /\ 1 \in Bit
      /\ uh \in Bit /\ dh \in Bit
    BY ZenonT(30), Parts, InByte, InBit, Condition
<1>2. inc(st) = Result(up, 0, uh, st.c) /\ dec(st) = Result(down, 1, dh, st.c)
    BY DEF inc, dec
<1>3. up = (IF v = 255 THEN 0 ELSE v + 1) /\ down = (IF v = 0 THEN 255 ELSE v - 1)
    BY <1>1
<1> HIDE DEF uh, dh, up, down
<1>4. up \in Byte /\ down \in Byte
    BY <1>1, <1>3, InByte
<1>5. inc(st) \in States /\ inc(st).a = up /\ dec(st) \in States /\ dec(st).a = down
    BY <1>1, <1>2, <1>4, ResultType
<1>6. inc(st).z = AsBit(up = 0)
    BY <1>2 DEF Result
<1>7. up = 0 <=> v = 255
    BY <1>1, <1>3
<1>8. AsBit(up = 0) = AsBit(v = 255)
    BY <1>7 DEF AsBit
<1> QED
    BY <1>3, <1>5, <1>6, <1>8

\* A byte is the number of its bits.
LEMMA BitsOf ==
    ASSUME NEW v \in Byte
    PROVE  /\ v = OfBits([i \in 0 .. 7 |-> BitAt(v, i)])
           /\ \A i \in 0 .. 7 : BitAt(v, i) \in Bit
<1> DEFINE b == [i \in 0 .. 7 |-> BitAt(v, i)]
<1>1. v \in Int /\ 0 <= v /\ v <= 255
    BY InByte
<1>2. /\ b[0] = (v \div 1) % 2 /\ b[1] = (v \div 2) % 2 /\ b[2] = (v \div 4) % 2
      /\ b[3] = (v \div 8) % 2 /\ b[4] = (v \div 16) % 2 /\ b[5] = (v \div 32) % 2
      /\ b[6] = (v \div 64) % 2 /\ b[7] = (v \div 128) % 2
    BY PowersOfTwo DEF BitAt
<1>3. /\ v = (2 * (v \div 2)) + ((v \div 1) % 2)
      /\ v \div 2 = (2 * (v \div 4)) + ((v \div 2) % 2)
      /\ v \div 4 = (2 * (v \div 8)) + ((v \div 4) % 2)
      /\ v \div 8 = (2 * (v \div 16)) + ((v \div 8) % 2)
    BY <1>1
<1>4. /\ v \div 16 = (2 * (v \div 32)) + ((v \div 16) % 2)
      /\ v \div 32 = (2 * (v \div 64)) + ((v \div 32) % 2)
      /\ v \div 64 = (2 * (v \div 128)) + ((v \div 64) % 2)
      /\ v \div 128 = (v \div 128) % 2
    BY <1>1
<1>5. \A w \in Int : (w % 2) \in Int
    OBVIOUS
<1>6. /\ (v \div 1) \in Int /\ (v \div 2) \in Int /\ (v \div 4) \in Int /\ (v \div 8) \in Int
      /\ (v \div 16) \in Int /\ (v \div 32) \in Int /\ (v \div 64) \in Int
      /\ (v \div 128) \in Int
    BY <1>1
<1>7. /\ b[0] \in Int /\ b[1] \in Int /\ b[2] \in Int /\ b[3] \in Int /\ b[4] \in Int
      /\ b[5] \in Int /\ b[6] \in Int /\ b[7] \in Int
    BY <1>2, <1>5, <1>6
<1>8. \A i \in 0 .. 7 : BitAt(v, i) \in Bit
  <2>1. SUFFICES ASSUME NEW i \in 0 .. 7 PROVE (v \div 2 ^ i) % 2 \in Bit
    BY DEF BitAt
  <2>2. 2 ^ i \in {1, 2, 4, 8, 16, 32, 64, 128}
    <3>1. CASE i = 0
      BY <3>1, PowersOfTwo
    <3>2. CASE i = 1
      BY <3>2, PowersOfTwo
    <3>3. CASE i = 2
      BY <3>3, PowersOfTwo
    <3>4. CASE i = 3
      BY <3>4, PowersOfTwo
    <3>5. CASE i = 4
      BY <3>5, PowersOfTwo
    <3>6. CASE i = 5
      BY <3>6, PowersOfTwo
    <3>7. CASE i = 6
      BY <3>7, PowersOfTwo
    <3>8. CASE i = 7
      BY <3>8, PowersOfTwo
    <3> QED
      BY <3>1, <3>2, <3>3, <3>4, <3>5, <3>6, <3>7, <3>8
  <2>3. v \div 2 ^ i \in Int
    BY <1>6, <2>2
  <2>4. \A w \in Int : w % 2 = 0 \/ w % 2 = 1
    OBVIOUS
  <2> QED
    BY <2>3, <2>4, InBit
<1> HIDE DEF b
<1>9. v = b[0] + 2 * b[1] + 4 * b[2] + 8 * b[3] + 16 * b[4] + 32 * b[5] + 64 * b[6] + 128 * b[7]
    BY <1>1, <1>2, <1>3, <1>4, <1>6, <1>7
<1> QED
    BY <1>8, <1>9 DEF OfBits, b

\* A number of bits is a byte.
LEMMA BitsByte ==
    ASSUME NEW b, \A i \in 0 .. 7 : b[i] \in Bit
    PROVE  OfBits(b) \in Byte
<1>1. \A i \in 0 .. 7 : b[i] \in Int /\ 0 <= b[i] /\ b[i] <= 1
    BY InBit
<1>2. /\ b[0] \in Int /\ 0 <= b[0] /\ b[0] <= 1
      /\ b[1] \in Int /\ 0 <= b[1] /\ b[1] <= 1
      /\ b[2] \in Int /\ 0 <= b[2] /\ b[2] <= 1
      /\ b[3] \in Int /\ 0 <= b[3] /\ b[3] <= 1
      /\ b[4] \in Int /\ 0 <= b[4] /\ b[4] <= 1
      /\ b[5] \in Int /\ 0 <= b[5] /\ b[5] <= 1
      /\ b[6] \in Int /\ 0 <= b[6] /\ b[6] <= 1
      /\ b[7] \in Int /\ 0 <= b[7] /\ b[7] <= 1
    BY <1>1
<1>3. OfBits(b) \in Int /\ 0 <= OfBits(b) /\ OfBits(b) <= 255
    BY <1>2 DEF OfBits
<1> QED
    BY <1>3, InByte

\* AND, OR and XOR of two bytes: what both have and what one of them has are
\* together what any has.
LEMMA Combined ==
    ASSUME NEW st \in States, NEW v \in Byte
    PROVE  /\ and_a8(st, v) \in States /\ or_a8(st, v) \in States /\ xor_a8(st, v) \in States
           /\ and_a8(st, v).a + xor_a8(st, v).a = or_a8(st, v).a
           /\ 2 * and_a8(st, v).a + xor_a8(st, v).a = st.a + v
<1> DEFINE p == [i \in 0 .. 7 |-> BitAt(st.a, i)]
           q == [i \in 0 .. 7 |-> BitAt(v, i)]
           both == [i \in 0 .. 7 |-> BitAt(st.a, i) * BitAt(v, i)]
           any == [i \in 0 .. 7 |-> AsBit(BitAt(st.a, i) + BitAt(v, i) > 0)]
           one == [i \in 0 .. 7 |-> AsBit(BitAt(st.a, i) # BitAt(v, i))]
<1>1. /\ st.a = OfBits(p) /\ v = OfBits(q) /\ st.a \in Byte
      /\ \A i \in 0 .. 7 : p[i] \in Bit /\ q[i] \in Bit
    BY Parts, BitsOf
<1>2. ASSUME NEW i \in 0 .. 7
      PROVE  /\ both[i] \in Bit /\ any[i] \in Bit /\ one[i] \in Bit
             /\ both[i] + one[i] = any[i] /\ 2 * both[i] + one[i] = p[i] + q[i]
  <2>1. /\ both[i] = p[i] * q[i] /\ any[i] = AsBit(p[i] + q[i] > 0)
        /\ one[i] = AsBit(p[i] # q[i])
    OBVIOUS
  <2>2. (p[i] = 0 \/ p[i] = 1) /\ (q[i] = 0 \/ q[i] = 1)
    BY <1>1, InBit
  <2> HIDE DEF p, q, both, any, one
  <2> QED
    BY <2>1, <2>2, InBit DEF AsBit
<1>3. /\ and_a8(st, v) = Result(OfBits(both), 0, 1, 0)
      /\ or_a8(st, v) = Result(OfBits(any), 0, 0, 0)
      /\ xor_a8(st, v) = Result(OfBits(one), 0, 0, 0)
    BY DEF and_a8, or_a8, xor_a8
<1> HIDE DEF p, q, both, any, one
<1>4. OfBits(both) \in Byte /\ OfBits(any) \in Byte /\ OfBits(one) \in Byte
    BY <1>2, BitsByte
<1>5. 0 \in Bit /\ 1 \in Bit
    BY InBit
<1>6. /\ and_a8(st, v) \in States /\ and_a8(st, v).a = OfBits(both)
      /\ or_a8(st, v) \in States /\ or_a8(st, v).a = OfBits(any)
      /\ xor_a8(st, v) \in States /\ xor_a8(st, v).a = OfBits(one)
    BY <1>3, <1>4, <1>5, ResultType
<1>7. \A i \in 0 .. 7 : both[i] \in Int /\ any[i] \in Int /\ one[i] \in Int
                        /\ p[i] \in Int /\ q[i] \in Int
    BY <1>1, <1>2, InBit
<1>8. OfBits(both) + OfBits(one) = OfBits(any)
    BY SMTT(30), <1>2, <1>7 DEF OfBits
<1>9. 2 * OfBits(both) + OfBits(one) = OfBits(p) + OfBits(q)
    BY SMTT(30), <1>2, <1>7 DEF OfBits
<1> QED
    BY <1>1, <1>6, <1>8, <1>9

\* OR of a byte with itself tells by Z whether it is 0.
LEMMA OrItself ==
    ASSUME NEW st \in States
    PROVE  or_a8(st, st.a).z = 1 <=> st.a = 0
<1> DEFINE b == [i \in 0 .. 7 |-> BitAt(st.a, i)]
           any == [i \in 0 .. 7 |-> AsBit(BitAt(st.a, i) + BitAt(st.a, i) > 0)]
<1>1. st.a = OfBits(b) /\ \A i \in 0 .. 7 : b[i] \in Bit
    BY Parts, BitsOf
<1>2. ASSUME NEW i \in 0 .. 7 PROVE any[i] = b[i]
  <2>1. any[i] = AsBit(b[i] + b[i] > 0) /\ (b[i] = 0 \/ b[i] = 1)
    BY <1>1, InBit
  <2> HIDE DEF any, b
  <2> QED
    BY <2>1 DEF AsBit
<1>3. any = b
    BY <1>2
<1>4. or_a8(st, st.a) = Result(OfBits(any), 0, 0, 0)
    BY DEF or_a8
<1> HIDE DEF any, b
<1>5. or_a8(st, st.a).z = AsBit(st.a = 0)
    BY <1>1, <1>3, <1>4 DEF Result
<1> QED
    BY <1>5, Condition

(***************************************************************************)
(* SWAP is four rotations to the left, and a rotation to the right undoes  *)
(* one to the left, through the carry or past it: for every byte and flag. *)
(***************************************************************************)
THEOREM RotationsUndone ==
    ASSUME NEW st \in States
    PROVE  /\ swap(st).a = rlca(rlca(rlca(rlca(st)))).a
           /\ rrca(rlca(st)).a = st.a
           /\ rra(rla(st)).a = st.a /\ rra(rla(st)).c = st.c
<1> DEFINE Turn(v) == 2 * v - 255 * (v \div 128)
<1>1. ASSUME NEW r \in States
      PROVE  /\ rlca(r) \in States /\ rlca(r).a = Turn(r.a)
             /\ 2 * rrca(r).a = r.a + 255 * (r.a % 2) /\ rrca(r).a \in Int
  <2>1. r.a \in Byte /\ 0 \in Bit
    BY Parts, InBit
  <2>2. /\ rlc(r) \in States /\ rlc(r).a = Turn(r.a)
        /\ rrc(r) \in States /\ 2 * rrc(r).a = r.a + 255 * (r.a % 2)
    BY <2>1, Rotated, OutmostBits
  <2>3. rlca(r) \in States /\ rlca(r).a = rlc(r).a
    BY <2>1, <2>2 DEF rlca, States
  <2>4. rrca(r) \in States /\ rrca(r).a = rrc(r).a
    BY <2>1, <2>2 DEF rrca, States
  <2>5. rrca(r).a \in Int
    BY <2>4, Parts, InByte
  <2> QED
    BY <2>2, <2>3, <2>4, <2>5
<1> DEFINE v == st.a
<1>2. v \in Int /\ 0 <= v /\ v <= 255 /\ st.c \in Bit /\ 0 \in Bit
    BY Parts, InByte, InBit
<1>3. swap(st).a = rlca(rlca(rlca(rlca(st)))).a
  <2> DEFINE high == v \div 16
             low == v % 16
             swapped == high + 16 * low
  <2>1. swap(st) = Result(swapped, 0, 0, 0)
    BY DEF swap
  <2>2. /\ v = 16 * high + low /\ high \in Int /\ 0 <= high /\ high <= 15
        /\ low \in Int /\ 0 <= low /\ low <= 15
    <3> HIDE DEF v
    <3> QED
      BY <1>2
  <2>3. rlca(rlca(rlca(rlca(st)))).a = Turn(Turn(Turn(Turn(v))))
    BY <1>1
  <2> HIDE DEF high, low, v
  <2>4. Turn(Turn(Turn(Turn(v)))) = swapped
    <3> DEFINE b7 == high \div 8
               b6 == (high \div 4) % 2
               b5 == (high \div 2) % 2
               b4 == high % 2
    <3>1. /\ high = 8 * b7 + 4 * b6 + 2 * b5 + b4
          /\ b7 \in 0 .. 1 /\ b6 \in 0 .. 1 /\ b5 \in 0 .. 1 /\ b4 \in 0 .. 1
      BY <2>2
    <3> HIDE DEF b7, b6, b5, b4
    <3>2. Turn(v) = 128 * b6 + 64 * b5 + 32 * b4 + 2 * low + b7
      BY <2>2, <3>1
    <3>3. Turn(Turn(v)) = 128 * b5 + 64 * b4 + 4 * low + 2 * b7 + b6
      BY <2>2, <3>1, <3>2
    <3>4. Turn(Turn(Turn(v))) = 128 * b4 + 8 * low + 4 * b7 + 2 * b6 + b5
      BY <2>2, <3>1, <3>3
    <3>5. Turn(Turn(Turn(Turn(v)))) = 16 * low + 8 * b7 + 4 * b6 + 2 * b5 + b4
      BY <2>2, <3>1, <3>4
    <3> QED
      BY <2>2, <3>1, <3>5
  <2>5. swap(st).a = swapped
    BY <2>1 DEF Result
  <2> QED
    BY <2>3, <2>4, <2>5
<1>4. rrca(rlca(st)).a = v
  <2>1. 2 * rrca(rlca(st)).a = Turn(v) + 255 * (Turn(v) % 2) /\ rrca(rlca(st)).a \in Int
    BY <1>1
  <2> HIDE DEF v
  <2>2. Turn(v) + 255 * (Turn(v) % 2) = 2 * v
    <3>1. v \div 128 = 0 \/ v \div 128 = 1
      BY <1>2
    <3> QED
      BY <1>2, <3>1
  <2> HIDE DEF Turn
  <2> QED
    BY <1>2, <2>1, <2>2
<1>5. rra(rla(st)).a = v /\ rra(rla(st)).c = st.c
  <2> DEFINE l == rla(st)
  <2>1. /\ l \in States /\ l.a = rl(st).a /\ l.c = rl(st).c
    BY ZenonT(30), <1>2, LeftShifts DEF rla, States
  <2>2. l.a + 256 * l.c = 2 * v + st.c
    BY <2>1, LeftShifts
  <2> HIDE DEF l
  <2>3. /\ rra(l).a = rr(l).a /\ rra(l).c = rr(l).c /\ rr(l) \in States
        /\ 2 * rr(l).a + rr(l).c = l.a + 256 * l.c
    <3>1. rr(l) \in States /\ 2 * rr(l).a + rr(l).c = l.a + 256 * l.c
      <4> HIDE DEF v
      <4> QED
        BY <2>1, RightShifts
    <3>2. rra(l) = [rr(l) EXCEPT !.z = 0]
      BY DEF rra
    <3>3. rra(l).a = rr(l).a /\ rra(l).c = rr(l).c
      BY <3>1, <3>2 DEF States
    <3> QED
      BY <3>1, <3>3
  <2>4. rr(l).a \in Int /\ rr(l).c \in Bit
    BY <2>3, Parts, InByte
  <2> HIDE DEF v
  <2>5. 2 * rr(l).a + rr(l).c = 2 * v + st.c
    BY <2>2, <2>3
  <2>6. rr(l).a = v /\ rr(l).c = st.c
    BY <1>2, <2>4, <2>5, InBit
  <2> QED
    BY <2>3, <2>6 DEF l
<1> QED
    BY <1>3, <1>4, <1>5

(***************************************************************************)
(* DAA after a subtraction of two packed pairs of digits, with or without  *)
(* a borrow: the decimal difference, packed, and the decimal borrow.       *)
(***************************************************************************)
THEOREM DecimalDifference ==
    ASSUME NEW st \in States, NEW carry \in Bit,
           NEW t1 \in Digit, NEW u1 \in Digit, NEW t2 \in Digit, NEW u2 \in Digit,
           st.a = Packed(t1, u1)
    PROVE  LET r     == daa(sub_a8(st, Packed(t2, u2), carry))
               units == u1 - u2 - carry
               tens  == t1 - t2 - (IF units < 0 THEN 1 ELSE 0)
           IN  /\ r.a = Packed(IF tens < 0 THEN tens + 10 ELSE tens,
                               IF units < 0 THEN units + 10 ELSE units)
               /\ r.c = (IF tens < 0 THEN 1 ELSE 0)
  <1> DEFINE units == u1 - u2 - carry
             both == t1 - t2
             rest == st.a - Packed(t2, u2) - carry
             r1 == sub_a8(st, Packed(t2, u2), carry)
  <1>1. /\ t1 \in 0 .. 9 /\ u1 \in 0 .. 9 /\ t2 \in 0 .. 9 /\ u2 \in 0 .. 9
        /\ carry \in 0 .. 1
    BY DEF Digit, Bit
  <1>2. Packed(t2, u2) \in Byte /\ (Packed(t2, u2) % 16) = u2 /\ (st.a % 16) = u1
    BY <1>1, Nibbles DEF Packed, Byte
  <1>3. /\ units \in -10 .. 9 /\ both \in -9 .. 9 /\ rest = 16 * both + units
    BY <1>1 DEF Packed
  <1>4. /\ r1 \in States
        /\ r1.a = (IF rest < 0 THEN rest + 256 ELSE rest)
        /\ r1.n = 1
        /\ r1.h = (IF units < 0 THEN 1 ELSE 0)
        /\ r1.c = (IF rest < 0 THEN 1 ELSE 0)
    BY <1>2, SubParts
  <1> HIDE DEF units, both, rest, r1
  <1> DEFINE lowFix == units < 0
             highFix == both - (IF units < 0 THEN 1 ELSE 0) < 0
             offset == (IF lowFix THEN 6 ELSE 0) + (IF highFix THEN 96 ELSE 0)
  <1>5. rest < 0 <=> highFix
    BY <1>3
  <1>6. /\ ((r1.n = 0 /\ r1.a % 16 > 9) \/ r1.h = 1) <=> lowFix
        /\ ((r1.n = 0 /\ r1.a > 153) \/ r1.c = 1) <=> highFix
    BY <1>4, <1>5
  <1>7. /\ offset \in 0 .. 102
        /\ (r1.a + (-offset)) % 256 =
              Packed(IF highFix THEN both - (IF lowFix THEN 1 ELSE 0) + 10
                                ELSE both - (IF lowFix THEN 1 ELSE 0),
                     IF lowFix THEN units + 10 ELSE units)
    BY <1>3, <1>4, <1>5 DEF Packed
  <1>8. /\ daa(r1).a = (r1.a + (-offset)) % 256
        /\ daa(r1).c = (IF highFix THEN 1 ELSE 0)
    BY <1>4, <1>6 DEF daa, Result, AsBit
  <1> QED
    BY <1>3, <1>7, <1>8 DEF units, both, r1

\* DAA leaves a byte and four bits, whatever it is given.
LEMMA DaaType == ASSUME NEW st \in States PROVE daa(st) \in States
  <1> DEFINE low == (st.n = 0 /\ st.a % 16 > 9) \/ st.h = 1
             high == (st.n = 0 /\ st.a > 153) \/ st.c = 1
             offset == (IF low THEN 6 ELSE 0) + (IF high THEN 96 ELSE 0)
             value == (st.a + (IF st.n = 1 THEN -offset ELSE offset)) % 256
  <1>1. st.a \in Int /\ st.n \in Bit /\ 0 \in Bit
    BY Parts, InByte, InBit
  <1>2. daa(st) = Result(value, st.n, 0, AsBit(high))
    BY DEF daa
  <1>3. high \in BOOLEAN /\ low \in BOOLEAN
    OBVIOUS
  <1> HIDE DEF low, high
  <1>4. offset \in Int
    OBVIOUS
  <1> HIDE DEF offset
  <1>5. value \in Byte
    BY <1>1, <1>4, InByte
  <1>6. AsBit(high) \in Bit
    BY <1>3, Condition
  <1> HIDE DEF value
  <1> QED
    BY <1>1, <1>2, <1>5, <1>6, ResultType

\* A byte of packed digits, as its digits.
LEMMA Packing ==
    /\ \A b \in Byte : IsBcd(b) => /\ b \div 16 \in Digit /\ b % 16 \in Digit
                                   /\ b = Packed(b \div 16, b % 16)
                                   /\ Digits(b) = (b % 16) + 10 * (b \div 16)
    /\ \A t, u \in Digit : /\ IsBcd(Packed(t, u)) /\ Digits(Packed(t, u)) = u + 10 * t
<1>1. ASSUME NEW b \in Byte, IsBcd(b)
      PROVE  /\ b \div 16 \in Digit /\ b % 16 \in Digit
             /\ b = Packed(b \div 16, b % 16)
             /\ Digits(b) = (b % 16) + 10 * (b \div 16)
  <2>1. b \in Int /\ 0 <= b /\ b <= 255
    BY InByte
  <2> QED
    BY <1>1, <2>1 DEF IsBcd, Digits, Packed, Digit
<1>2. ASSUME NEW t \in Digit, NEW u \in Digit
      PROVE  /\ IsBcd(Packed(t, u)) /\ Digits(Packed(t, u)) = u + 10 * t
  <2>1. /\ t \in Int /\ 0 <= t /\ t <= 9 /\ u \in Int /\ 0 <= u /\ u <= 9
    BY DEF Digit
  <2>2. (16 * t + u) % 16 = u /\ (16 * t + u) \div 16 = t
    BY <2>1
  <2> QED
    BY <2>1, <2>2 DEF IsBcd, Digits, Packed
<1> QED
    BY <1>1, <1>2

\* What a decimal routine makes of one byte of each number.
LEMMA DecimalBytes ==
    ASSUME NEW m \in Byte, NEW n \in Byte, NEW carry \in Bit, IsBcd(m), IsBcd(n)
    PROVE  /\ LET r == daa(add_a8(Loaded(m), n, carry))
              IN  /\ r \in States /\ IsBcd(r.a)
                  /\ Digits(r.a) + 100 * r.c = Digits(m) + Digits(n) + carry
           /\ LET r == daa(sub_a8(Loaded(m), n, carry))
              IN  /\ r \in States /\ IsBcd(r.a)
                  /\ Digits(r.a) - 100 * r.c = Digits(m) - Digits(n) - carry
<1> DEFINE t1 == m \div 16
           u1 == m % 16
           t2 == n \div 16
           u2 == n % 16
           st == Loaded(m)
<1>1. /\ st \in States /\ st.a = Packed(t1, u1) /\ n = Packed(t2, u2)
      /\ t1 \in Digit /\ u1 \in Digit /\ t2 \in Digit /\ u2 \in Digit
      /\ Digits(m) = u1 + 10 * t1 /\ Digits(n) = u2 + 10 * t2
    BY LoadedState, Packing
<1> HIDE DEF t1, u1, t2, u2, st
<1>2. /\ t1 \in Int /\ 0 <= t1 /\ t1 <= 9 /\ u1 \in Int /\ 0 <= u1 /\ u1 <= 9
      /\ t2 \in Int /\ 0 <= t2 /\ t2 <= 9 /\ u2 \in Int /\ 0 <= u2 /\ u2 <= 9
      /\ (carry = 0 \/ carry = 1)
    BY <1>1, InBit DEF Digit
<1>3. ASSUME NEW r, NEW t \in Digit, NEW u \in Digit, r.a = Packed(t, u)
      PROVE  IsBcd(r.a) /\ Digits(r.a) = u + 10 * t
    BY <1>3, Packing
<1>4. LET r == daa(add_a8(st, n, carry))
      IN  /\ r \in States /\ IsBcd(r.a)
          /\ Digits(r.a) + 100 * r.c = Digits(m) + Digits(n) + carry
  <2> DEFINE r == daa(add_a8(st, n, carry))
             units == u1 + u2 + carry
             tens == t1 + t2 + (IF units > 9 THEN 1 ELSE 0)
             t == IF tens > 9 THEN tens - 10 ELSE tens
             u == IF units > 9 THEN units - 10 ELSE units
  <2>1. r.a = Packed(t, u) /\ r.c = (IF tens > 9 THEN 1 ELSE 0)
    BY <1>1, DecimalSum
  <2>2. r \in States
    BY <1>1, AddParts, DaaType
  <2>3. t \in Digit /\ u \in Digit
    BY <1>2 DEF Digit
  <2>4. u + 10 * t + 100 * (IF tens > 9 THEN 1 ELSE 0) = u1 + 10 * t1 + u2 + 10 * t2 + carry
    BY <1>2
  <2> HIDE DEF r, t, u, tens
  <2>5. IsBcd(r.a) /\ Digits(r.a) = u + 10 * t
    BY <1>3, <2>1, <2>3
  <2>6. Digits(r.a) + 100 * r.c = Digits(m) + Digits(n) + carry
    <3>1. Digits(r.a) + 100 * r.c = u1 + 10 * t1 + u2 + 10 * t2 + carry
      BY <2>1, <2>4, <2>5
    <3> QED
      BY <1>1, <1>2, <3>1
  <2> QED
    BY <2>2, <2>5, <2>6 DEF r
<1>5. LET r == daa(sub_a8(st, n, carry))
      IN  /\ r \in States /\ IsBcd(r.a)
          /\ Digits(r.a) - 100 * r.c = Digits(m) - Digits(n) - carry
  <2> DEFINE r == daa(sub_a8(st, n, carry))
             units == u1 - u2 - carry
             tens == t1 - t2 - (IF units < 0 THEN 1 ELSE 0)
             t == IF tens < 0 THEN tens + 10 ELSE tens
             u == IF units < 0 THEN units + 10 ELSE units
  <2>1. r.a = Packed(t, u) /\ r.c = (IF tens < 0 THEN 1 ELSE 0)
    BY <1>1, DecimalDifference
  <2>2. r \in States
    BY <1>1, SubParts, DaaType
  <2>3. t \in Digit /\ u \in Digit /\ t \in Int /\ u \in Int /\ tens \in Int
    BY <1>2 DEF Digit
  <2>4. u + 10 * t - 100 * (IF tens < 0 THEN 1 ELSE 0) = u1 + 10 * t1 - (u2 + 10 * t2) - carry
    BY <1>2
  <2> HIDE DEF r, t, u, tens
  <2>5. IsBcd(r.a) /\ Digits(r.a) = u + 10 * t
    BY <1>3, <2>1, <2>3
  <2>6. Digits(r.a) - 100 * r.c = Digits(m) - Digits(n) - carry
    <3>1. Digits(r.a) - 100 * r.c = u1 + 10 * t1 - (u2 + 10 * t2) - carry
      BY <2>1, <2>3, <2>4, <2>5
    <3> QED
      BY <1>1, <1>2, <3>1
  <2> QED
    BY <2>2, <2>5, <2>6 DEF r
<1> QED
    BY <1>4, <1>5 DEF st

-----------------------------------------------------------------------------
(* Sixteen bits *)

\* ADD HL of two numbers of two bytes.
LEMMA WideSum ==
    ASSUME NEW st \in States, NEW m1 \in Byte, NEW m2 \in Byte, NEW n1 \in Byte, NEW n2 \in Byte
    PROVE  LET wide == add_hl(st, m1 + 256 * m2, n1 + 256 * n2)
               sum  == m1 + 256 * m2 + n1 + 256 * n2
           IN  /\ wide.hl = sum % 65536 /\ wide.s.c = AsBit(sum > 65535)
               /\ wide.s.h = AsBit((m2 % 16) + (n2 % 16) + AsBit(m1 + n1 > 255) > 15)
<1> DEFINE v == m1 + 256 * m2
           w == n1 + 256 * n2
<1>1. /\ m1 \in Int /\ 0 <= m1 /\ m1 <= 255 /\ m2 \in Int /\ 0 <= m2 /\ m2 <= 255
      /\ n1 \in Int /\ 0 <= n1 /\ n1 <= 255 /\ n2 \in Int /\ 0 <= n2 /\ n2 <= 255
    BY InByte
<1>2. v % 4096 = m1 + 256 * (m2 % 16) /\ w % 4096 = n1 + 256 * (n2 % 16)
    BY <1>1
<1>3. v + w = m1 + 256 * m2 + n1 + 256 * n2
    BY <1>1
<1> HIDE DEF v, w
<1>4. /\ add_hl(st, v, w).hl = (v + w) % 65536
      /\ add_hl(st, v, w).s = [st EXCEPT !.n = 0, !.h = AsBit((v % 4096) + (w % 4096) > 4095),
                                         !.c = AsBit(v + w > 65535)]
    BY DEF add_hl
<1>5. /\ add_hl(st, v, w).s.h = AsBit((v % 4096) + (w % 4096) > 4095)
      /\ add_hl(st, v, w).s.c = AsBit(v + w > 65535)
    BY <1>4 DEF States
<1>6. (v % 4096) + (w % 4096) > 4095
         <=> (m2 % 16) + (n2 % 16) + (IF m1 + n1 > 255 THEN 1 ELSE 0) > 15
    BY <1>1, <1>2
<1>7. AsBit((v % 4096) + (w % 4096) > 4095)
         = AsBit((m2 % 16) + (n2 % 16) + AsBit(m1 + n1 > 255) > 15)
    BY <1>6 DEF AsBit
<1> QED
    BY <1>3, <1>4, <1>5, <1>7 DEF v, w

\* The bits ADD SP looks at, of a number given by its last byte and the rest.
LEMMA HighBits ==
    ASSUME NEW v \in Int, NEW m \in Int, NEW w, w = v + 256 * m
    PROVE  /\ BitAt(w, 4) = (v \div 16) % 2
           /\ BitAt(w, 8) = ((v \div 256) + m) % 2
<1>1. /\ BitAt(w, 4) = ((v + 256 * m) \div 16) % 2
      /\ BitAt(w, 8) = ((v + 256 * m) \div 256) % 2
    BY PowersOfTwo DEF BitAt
<1>2. (v + 256 * m) \div 16 = (v \div 16) + 16 * m
    OBVIOUS
<1>3. (v + 256 * m) \div 256 = (v \div 256) + m
    OBVIOUS
<1>4. ((v \div 16) + 16 * m) % 2 = (v \div 16) % 2
    OBVIOUS
<1> QED
    BY <1>1, <1>2, <1>3, <1>4

\* ADD SP carries as ADD of the two low bytes does, whatever the sign.
LEMMA SpCarries ==
    ASSUME NEW st \in States, NEW m1 \in Byte, NEW m2 \in Byte, NEW n \in Byte
    PROVE  LET moved == add_sp(st, m1 + 256 * m2, n).s
           IN  /\ moved.h = AsBit((m1 % 16) + (n % 16) > 15)
               /\ moved.c = AsBit(m1 + n > 255)
<1> DEFINE sp == m1 + 256 * m2
           e == Signed(n)
           sum == sp + e
           neg == IF n > 127 THEN 1 ELSE 0
           k == sum \div 65536
<1>1. /\ m1 \in Int /\ 0 <= m1 /\ m1 <= 255 /\ m2 \in Int /\ 0 <= m2 /\ m2 <= 255
      /\ n \in Int /\ 0 <= n /\ n <= 255 /\ neg \in Int
    BY InByte
<1>2. e = n - 256 * neg
    BY <1>1 DEF Signed
<1>3. e % 65536 = n + 256 * (255 * neg)
    BY <1>1, <1>2
<1>4. sum = (m1 + n) + 256 * (m2 - neg) /\ k \in Int
    BY <1>1, <1>2
<1>5. sum % 65536 = (m1 + n) + 256 * (m2 - neg - 256 * k)
    BY <1>1, <1>4
<1>6. add_sp(st, sp, n).s
          = [st EXCEPT !.z = 0, !.n = 0, !.h = CarryInto(4, sp, e, sum),
                       !.c = CarryInto(8, sp, e, sum)]
    BY DEF add_sp
<1> HIDE DEF e, sum, k, neg, sp
<1>7. /\ add_sp(st, sp, n).s.h = (BitAt(sp, 4) + BitAt(e % 65536, 4) + BitAt(sum % 65536, 4)) % 2
      /\ add_sp(st, sp, n).s.c = (BitAt(sp, 8) + BitAt(e % 65536, 8) + BitAt(sum % 65536, 8)) % 2
    BY <1>6 DEF CarryInto, States
<1>8. /\ BitAt(sp, 4) = (m1 \div 16) % 2 /\ BitAt(sp, 8) = ((m1 \div 256) + m2) % 2
    BY <1>1, HighBits DEF sp
<1>9. /\ BitAt(e % 65536, 4) = (n \div 16) % 2
      /\ BitAt(e % 65536, 8) = ((n \div 256) + 255 * neg) % 2
  <2> DEFINE rest == 255 * neg
  <2>1. rest \in Int /\ n \in Int /\ e % 65536 = n + 256 * rest
    BY <1>1, <1>3
  <2> HIDE DEF rest
  <2>2. ASSUME NEW w, w = n + 256 * rest
        PROVE  /\ BitAt(w, 4) = (n \div 16) % 2
               /\ BitAt(w, 8) = ((n \div 256) + rest) % 2
    BY <2>1, <2>2, HighBits
  <2> QED
    BY <2>1, <2>2 DEF rest
<1>10. /\ BitAt(sum % 65536, 4) = ((m1 + n) \div 16) % 2
      /\ BitAt(sum % 65536, 8) = (((m1 + n) \div 256) + (m2 - neg - 256 * k)) % 2
  <2>1. m2 - neg - 256 * k \in Int /\ m1 + n \in Int
    BY <1>1, <1>4
  <2> QED
    BY <1>5, <2>1, HighBits
<1>11. (((m1 \div 16) % 2) + ((n \div 16) % 2) + (((m1 + n) \div 16) % 2)) % 2
          = (IF (m1 % 16) + (n % 16) > 15 THEN 1 ELSE 0)
    BY <1>1
<1>12. ((((m1 \div 256) + m2) % 2) + (((n \div 256) + 255 * neg) % 2)
           + ((((m1 + n) \div 256) + (m2 - neg - 256 * k)) % 2)) % 2
          = (IF m1 + n > 255 THEN 1 ELSE 0)
    BY <1>1, <1>4
<1> QED
    BY <1>7, <1>8, <1>9, <1>10, <1>11, <1>12 DEF AsBit, sp

-----------------------------------------------------------------------------
(* The routines: each instruction keeps RoutineInv. *)

\* Two bytes, and one of them replaced.
LEMMA Pair ==
    ASSUME NEW p \in Byte \X Byte
    PROVE  /\ p[1] \in Byte /\ p[2] \in Byte
           /\ \A v \in Byte : /\ [p EXCEPT ![1] = v] \in Byte \X Byte
                              /\ [p EXCEPT ![1] = v][1] = v /\ [p EXCEPT ![1] = v][2] = p[2]
                              /\ [p EXCEPT ![2] = v] \in Byte \X Byte
                              /\ [p EXCEPT ![2] = v][2] = v /\ [p EXCEPT ![2] = v][1] = p[1]
  OBVIOUS

\* The numbers and their parts.
LEMMA Numerals ==
    ASSUME TypeOK
    PROVE  /\ x \in Byte \X Byte /\ y \in Byte \X Byte /\ out \in Byte \X Byte
           /\ x[1] \in Byte /\ x[2] \in Byte /\ y[1] \in Byte /\ y[2] \in Byte
           /\ out[1] \in Byte /\ out[2] \in Byte
           /\ s \in States /\ s.c \in Bit /\ s.a \in Byte
           /\ adjust \in BOOLEAN /\ hl \in 0 .. MaxWord
<1>1. x \in Byte \X Byte /\ y \in Byte \X Byte /\ out \in Byte \X Byte /\ s \in States
    BY DEF TypeOK
<1>2. adjust \in BOOLEAN /\ hl \in 0 .. MaxWord
    BY DEF TypeOK
<1> QED
    BY <1>1, <1>2, Pair, Parts

\* Two digits are a number.
LEMMA DigitsInt == \A b \in Byte : Digits(b) \in Int
<1>1. ASSUME NEW b \in Byte PROVE Digits(b) \in Int
  <2>1. b \in Int
    BY InByte
  <2> QED
    BY <2>1 DEF Digits
<1> QED
    BY <1>1

\* The values of a routine that has not begun.
LEMMA Empty ==
    /\ Zero \in Byte \X Byte /\ Zero[1] = 0 /\ Zero[2] = 0 /\ 0 \in Byte
    /\ 0 \in 0 .. MaxWord
<1>1. 0 \in Byte
    BY InByte
<1> QED
    BY <1>1 DEF Zero, MaxWord

\* The invariant holds after CPU::init().
LEMMA InitKept == Init => RoutineInv
<1> SUFFICES ASSUME Init PROVE RoutineInv
    OBVIOUS
<1>1. s \in States
  <2>1. 17 \in Byte /\ 1 \in Bit /\ 0 \in Bit
    BY InByte, InBit
  <2> QED
    BY <2>1 DEF Init, States
<1>2. TypeOK
  <2>1. x = Zero /\ y = Zero /\ out = Zero /\ hl = 0 /\ routine = NoRoutine
    BY DEF Init
  <2>2. at \in 0 .. 8
    BY DEF Init, Done
  <2>3. adjust \in BOOLEAN
    BY Zenon DEF Init
  <2> QED
    BY <1>1, <2>1, <2>2, <2>3, Empty DEF TypeOK
<1>3. Places /\ Progress
    BY DEF Init, Places, Progress, NoRoutine, Decimal, FromLow, FromHigh, Done
<1> QED
    BY <1>2, <1>3 DEF RoutineInv

\* A routine begins with any flags.
LEMMA StartKept ==
    ASSUME RoutineInv, routine = NoRoutine,
           NEW r \in Routines, NEW n \in Numbers, NEW m \in Numbers, Start(r, n, m)
    PROVE  RoutineInv'
<1>1. /\ n \in Byte \X Byte /\ m \in Byte \X Byte /\ m[1] \in Byte
    BY OperandBytes, Pair DEF Numbers
<1>2. TypeOK /\ at = Done /\ adjust = FALSE /\ hl = 0
    BY Numerals DEF RoutineInv, Places, NoRoutine, Decimal
<1>3. s' \in States /\ s'.a = m[1]
    BY <1>1, <1>2, Numerals, Load DEF Start
<1>4. /\ routine' = r /\ x' = n /\ y' = m /\ adjust' = FALSE /\ ~adjust' /\ hl' = 0 /\ out' = out
      /\ at' = (IF r \in FromHigh THEN 2 ELSE IF r \in Rounds THEN 8 ELSE 1)
      /\ r \in Decimal => AllBcd(n) /\ AllBcd(m)
    BY <1>2 DEF Start
<1>5. TypeOK'
  <2>1. at' \in 0 .. 8
    BY <1>4
  <2>2. adjust' \in BOOLEAN
    BY <1>4, Zenon
  <2>3. out' \in Byte \X Byte
    BY <1>2, <1>4, Numerals
  <2> QED
    BY <1>1, <1>3, <1>4, <2>1, <2>2, <2>3, Empty DEF TypeOK
<1>6. Places'
    BY <1>4 DEF Places, Routines, NoRoutine, Decimal, FromLow, FromHigh, Rounds, Done
<1>7. r = "mul" => Multiplying'
  <2> SUFFICES ASSUME r = "mul" PROVE Multiplying'
    OBVIOUS
  <2>1. at' = 8 /\ hl' = 0 /\ s'.a = m[1] /\ y' = m /\ x' = n
    BY <1>3, <1>4 DEF FromHigh, Rounds
  <2>2. /\ m[1] \in Int /\ 0 <= m[1] /\ m[1] <= 255
        /\ n[1] \in Int /\ n[2] \in Int
    BY <1>1, Pair, InByte
  <2>3. 2 ^ (8 - at') = 1 /\ 2 ^ at' = 256
    BY <2>1, PowersOfTwo
  <2>4. m[1] \div 1 = m[1] % 256 /\ m[1] \div 256 = 0
    BY <2>2
  <2>5. Value(n) * 0 = 0
    BY <2>2 DEF Value
  <2>6. (Value(n) * (m[1] \div 256)) % 65536 = 0
    BY <2>4, <2>5
  <2>7. s'.a \div 2 ^ (8 - at') = y'[1] % 2 ^ at'
    BY <2>1, <2>3, <2>4
  <2>8. hl' = (Value(x') * (y'[1] \div 2 ^ at')) % 65536
    BY <2>1, <2>3, <2>6
  <2> QED
    BY <2>7, <2>8 DEF Multiplying, Value
<1>8. r = "copy_bits" => Copying'
  <2> SUFFICES ASSUME r = "copy_bits" PROVE Copying'
    OBVIOUS
  <2>1. at' = 8 /\ s'.a = m[1] /\ x' = n
    BY <1>3, <1>4 DEF FromHigh, Rounds
  <2>2. /\ m[1] \in Int /\ 0 <= m[1] /\ m[1] <= 255
        /\ n[1] \in Int /\ 0 <= n[1] /\ n[1] <= 255
    BY <1>1, Pair, InByte
  <2>3. 2 ^ at' = 256
    BY <2>1, PowersOfTwo
  <2>4. m[1] \div 256 = 0 /\ n[1] \div 256 = 0
    <3>1. ASSUME NEW v \in Int, 0 <= v, v <= 255 PROVE v \div 256 = 0
      BY <3>1
    <3> QED
      BY <2>2, <3>1
  <2> QED
    BY <2>1, <2>3, <2>4 DEF Copying
<1>9. Progress'
  <2>1. /\ routine' = r
        /\ r \notin Rounds /\ r \notin FromHigh => at' = 1
        /\ r \in FromHigh => at' = 2
    BY <1>4
  <2>2. r = "add" => Adding'
    <3> SUFFICES ASSUME r = "add" PROVE Adding'
      OBVIOUS
    <3>1. at' = 1 /\ routine' = "add"
      BY <2>1 DEF Rounds, FromHigh
    <3> QED
      BY <3>1 DEF Adding, Done
  <2>3. r = "sub" => Subtracting'
    <3> SUFFICES ASSUME r = "sub" PROVE Subtracting'
      OBVIOUS
    <3>1. at' = 1 /\ routine' = "sub"
      BY <2>1 DEF Rounds, FromHigh
    <3> QED
      BY <3>1 DEF Subtracting, Done
  <2>4. r = "add_bcd" => DecimalAdding'
    <3> SUFFICES ASSUME r = "add_bcd" PROVE DecimalAdding'
      OBVIOUS
    <3>1. at' = 1 /\ routine' = "add_bcd"
      BY <2>1 DEF Rounds, FromHigh
    <3>2. at' # 2 /\ at' # Done
      BY <3>1 DEF Done
    <3>3. ~adjust'
      BY <1>4
    <3> QED
      BY <3>2, <3>3, Zenon DEF DecimalAdding
  <2>5. r = "sub_bcd" => DecimalSubtracting'
    <3> SUFFICES ASSUME r = "sub_bcd" PROVE DecimalSubtracting'
      OBVIOUS
    <3>1. at' = 1 /\ routine' = "sub_bcd"
      BY <2>1 DEF Rounds, FromHigh
    <3>2. at' # 2 /\ at' # Done
      BY <3>1 DEF Done
    <3>3. ~adjust'
      BY <1>4
    <3> QED
      BY <3>2, <3>3, Zenon DEF DecimalSubtracting
  <2>6. r = "neg" => Negating'
    <3> SUFFICES ASSUME r = "neg" PROVE Negating'
      OBVIOUS
    <3>1. at' = 1 /\ routine' = "neg"
      BY <2>1 DEF Rounds, FromHigh
    <3> QED
      BY <3>1 DEF Negating, Done
  <2>7. r = "inc" => Counting'
    <3> SUFFICES ASSUME r = "inc" PROVE Counting'
      OBVIOUS
    <3>1. at' = 1 /\ routine' = "inc"
      BY <2>1 DEF Rounds, FromHigh
    <3> QED
      BY <3>1 DEF Counting, Done
  <2>8. r = "dec" => Counting'
    <3> SUFFICES ASSUME r = "dec" PROVE Counting'
      OBVIOUS
    <3>1. at' = 2 /\ routine' = "dec"
      BY <2>1 DEF Rounds, FromHigh
    <3> QED
      BY <3>1 DEF Counting, Done
  <2>9. r = "left" => Shifting'
    <3> SUFFICES ASSUME r = "left" PROVE Shifting'
      OBVIOUS
    <3>1. at' = 1 /\ routine' = "left"
      BY <2>1 DEF Rounds, FromHigh
    <3> QED
      BY <3>1 DEF Shifting, Done
  <2>10. r = "right" => Shifting'
    <3> SUFFICES ASSUME r = "right" PROVE Shifting'
      OBVIOUS
    <3>1. at' = 2 /\ routine' = "right"
      BY <2>1 DEF Rounds, FromHigh
    <3> QED
      BY <3>1 DEF Shifting, Done
  <2>11. r = "signed_right" => Shifting'
    <3> SUFFICES ASSUME r = "signed_right" PROVE Shifting'
      OBVIOUS
    <3>1. at' = 2 /\ routine' = "signed_right"
      BY <2>1 DEF Rounds, FromHigh
    <3> QED
      BY <3>1 DEF Shifting, Done
  <2>12. r = "logic" => Combining'
    <3> SUFFICES ASSUME r = "logic" PROVE Combining'
      OBVIOUS
    <3>1. at' = 1 /\ routine' = "logic"
      BY <2>1 DEF Rounds, FromHigh
    <3> QED
      BY <3>1 DEF Combining, Done
  <2> QED
    BY <1>4, <1>7, <1>8, <2>2, <2>3, <2>4, <2>5, <2>6, <2>7, <2>8, <2>9, <2>10, <2>11, <2>12
       DEF Progress
<1> QED
    BY <1>5, <1>6, <1>9 DEF RoutineInv

\* When a routine ends, the flags it leaves are all that stays.
LEMMA FinishKept == ASSUME RoutineInv, Finish PROVE RoutineInv'
<1>1. TypeOK /\ at = Done /\ adjust = FALSE
    BY Numerals DEF RoutineInv, Places, Finish
<1>2. s' \in States
    BY <1>1, Numerals, Load, Empty DEF Finish
<1>3. TypeOK'
    BY <1>1, <1>2, Empty DEF Finish, TypeOK
<1>4. Places' /\ Progress'
    BY <1>1 DEF Finish, Places, Progress, NoRoutine, Decimal, FromLow, FromHigh
<1> QED
    BY <1>3, <1>4 DEF RoutineInv

\* An instruction on a byte: what it stores, and where the routine goes on.
LEMMA ByteStepped ==
    ASSUME RoutineInv, NEW rs, rs \subseteq FromLow \cup FromHigh,
           NEW result \in States, ByteStep(rs, result)
    PROVE  /\ TypeOK' /\ Places'
           /\ routine \in rs /\ at \in {1, 2} /\ ~adjust
           /\ routine' = routine /\ x' = x /\ y' = y /\ s' = result
           /\ at = 1 => out'[1] = result.a /\ out'[2] = out[2]
           /\ at = 2 => out'[2] = result.a /\ out'[1] = out[1]
           /\ routine \in Decimal => adjust' /\ at' = at
           /\ routine \notin Decimal => /\ ~adjust'
                                        /\ routine \in FromLow => at' = (IF at = 1 THEN 2 ELSE 0)
                                        /\ routine \in FromHigh => at' = at - 1
<1>1. /\ routine \in rs /\ at # Done /\ ~adjust /\ s' = result
      /\ out' = [out EXCEPT ![at] = result.a]
      /\ adjust' = (routine \in Decimal) /\ at' = (IF adjust' THEN at ELSE NextByte)
      /\ routine' = routine /\ x' = x /\ y' = y /\ hl' = hl
    BY DEF ByteStep, operands
<1>2. /\ TypeOK /\ Places /\ routine \in Routines
    BY <1>1 DEF RoutineInv, Routines
<1>3. at \in {1, 2}
    BY <1>1, <1>2 DEF Places
<1>4. /\ out' \in Byte \X Byte
      /\ at = 1 => out'[1] = result.a /\ out'[2] = out[2]
      /\ at = 2 => out'[2] = result.a /\ out'[1] = out[1]
  <2>1. result.a \in Byte
    BY Parts
  <2> QED
    BY <1>1, <1>2, <1>3, <2>1, Numerals, Pair
<1>5. routine \in Decimal => adjust' /\ at' = at
    BY <1>1
<1>6. routine \notin Decimal => /\ ~adjust'
                                /\ routine \in FromLow => at' = (IF at = 1 THEN 2 ELSE 0)
                                /\ routine \in FromHigh => at' = at - 1
  <2> SUFFICES ASSUME routine \notin Decimal
               PROVE  /\ ~adjust'
                      /\ routine \in FromLow => at' = (IF at = 1 THEN 2 ELSE 0)
                      /\ routine \in FromHigh => at' = at - 1
    OBVIOUS
  <2>1. ~adjust'
    BY <1>1
  <2>2. at' = NextByte
    BY <1>1, <2>1
  <2>3. (1 + 1) % 3 = 2 /\ (2 + 1) % 3 = 0
    OBVIOUS
  <2>4. routine \in FromLow => routine \notin FromHigh
    BY DEF FromLow, FromHigh, Decimal
  <2> QED
    BY <1>3, <2>1, <2>2, <2>3, <2>4 DEF NextByte
<1>7. at' \in {0, 1, 2} /\ (adjust' => at' # 0)
  <2>1. routine \in FromLow \/ routine \in FromHigh
    BY <1>1
  <2> QED
    BY <1>3, <1>5, <1>6, <2>1
<1>8. TypeOK'
  <2>1. at' \in 0 .. 8 /\ adjust' \in BOOLEAN
    BY <1>1, <1>7
  <2> QED
    BY <1>1, <1>2, <1>4, <2>1 DEF TypeOK
<1>9. Places'
    BY <1>1, <1>2, <1>7 DEF Places, Decimal, FromLow, FromHigh, NoRoutine, Done
<1> QED
    BY <1>1, <1>3, <1>4, <1>5, <1>6, <1>8, <1>9

\* The register loaded with the current byte, and the carry left for it.
LEMMA Current ==
    ASSUME RoutineInv, at \in {1, 2}
    PROVE  /\ WithByte \in States /\ WithByte.a = x[at] /\ WithByte.c = s.c /\ WithByte.z = s.z
           /\ x[at] \in Byte /\ y[at] \in Byte
           /\ (IF First THEN 0 ELSE s.c) \in Bit
<1>1. TypeOK
    BY DEF RoutineInv
<1>2. x[at] \in Byte /\ y[at] \in Byte /\ s \in States /\ s.c \in Bit /\ 0 \in Bit
    BY <1>1, Numerals, InBit
<1> QED
    BY <1>2, Load DEF WithByte

\* Addition and subtraction read nothing of a state but its byte.
LEMMA ByteOnly ==
    ASSUME NEW st \in States, NEW b \in Byte, st.a = b, NEW v, NEW c
    PROVE  /\ add_a8(st, v, c) = add_a8(Loaded(b), v, c)
           /\ sub_a8(st, v, c) = sub_a8(Loaded(b), v, c)
  BY LoadedState DEF add_a8, sub_a8

\* ADD and ADC keep the invariant, of binary and of decimal numbers.
LEMMA AddKept == ASSUME RoutineInv, Add PROVE RoutineInv'
<1> DEFINE st == WithByte
           c == IF First THEN 0 ELSE s.c
           r == add_a8(st, y[at], c)
           rs == {"add", "add_bcd"}
<1>1. at \in {1, 2} /\ routine \in rs
  <2>1. at # Done /\ routine \in rs /\ Places
    BY DEF Add, ByteStep, RoutineInv
  <2> QED
    BY <2>1 DEF Places, FromLow, Decimal, Done
<1>2. /\ st \in States /\ st.a = x[at] /\ x[at] \in Byte /\ y[at] \in Byte /\ c \in Bit
    BY <1>1, Current
<1>3. r \in States /\ ByteStep(rs, r) /\ rs \subseteq FromLow \cup FromHigh
    BY <1>2, AddParts DEF Add, FromLow, Decimal
<1>4. /\ r.a + 256 * r.c = x[at] + y[at] + c
      /\ r.h = AsBit((x[at] % 16) + (y[at] % 16) + c > 15)
      /\ r = add_a8(Loaded(x[at]), y[at], c)
  <2>1. r.a + 256 * r.c = x[at] + y[at] + c
    BY <1>2, AddExact
  <2>2. r.h = AsBit((x[at] % 16) + (y[at] % 16) + c > 15)
    BY <1>2, AddParts DEF AsBit
  <2>3. r = add_a8(Loaded(x[at]), y[at], c)
    BY <1>2, ByteOnly
  <2> QED
    BY <2>1, <2>2, <2>3
<1> HIDE DEF st, r, rs
<1>5. /\ TypeOK' /\ Places' /\ ~adjust
      /\ routine' = routine /\ x' = x /\ y' = y /\ s' = r
      /\ at = 1 => out'[1] = r.a /\ out'[2] = out[2]
      /\ at = 2 => out'[2] = r.a /\ out'[1] = out[1]
      /\ routine \in Decimal => adjust' /\ at' = at
      /\ routine \notin Decimal => /\ ~adjust'
                                   /\ routine \in FromLow => at' = (IF at = 1 THEN 2 ELSE 0)
    BY <1>3, ByteStepped
<1>6. /\ x[1] \in Int /\ x[2] \in Int /\ y[1] \in Int /\ y[2] \in Int
      /\ out[1] \in Int /\ 0 <= out[1] /\ out[1] <= 255 /\ s.c \in Int /\ s.c \in Bit
      /\ r.c \in Int /\ r.a \in Int
    BY <1>3, Numerals, Parts, InByte, InBit DEF RoutineInv
<1>7. at = 1 => c = 0
    BY DEF First
<1>8. at = 2 => c = s.c
    BY DEF First
<1> HIDE DEF c
<1>9. CASE routine = "add"
  <2>1. Adding /\ at' = (IF at = 1 THEN 2 ELSE 0)
    BY <1>5, <1>9 DEF RoutineInv, Progress, Decimal, FromLow
  <2>2. CASE at = 1
    <3>1. at' = 2 /\ out'[1] + 256 * s'.c = x'[1] + y'[1]
      BY <1>4, <1>5, <1>6, <1>7, <2>1, <2>2
    <3>2. s'.h = AsBit((x'[1] % 16) + (y'[1] % 16) > 15)
      <4>1. (x[1] % 16) + (y[1] % 16) + 0 = (x[1] % 16) + (y[1] % 16)
        BY <1>6
      <4> QED
        BY <1>4, <1>5, <1>7, <2>2, <4>1
    <3>3. Adding'
      BY <3>1, <3>2 DEF Adding, Done
    <3> QED
      BY <1>5, <1>9, <3>3 DEF RoutineInv, Progress
  <2>3. CASE at = 2
    <3>1. /\ at' = 0 /\ out'[1] = out[1] /\ out'[2] = r.a
          /\ out[1] + 256 * s.c = x[1] + y[1]
          /\ r.a + 256 * r.c = x[2] + y[2] + s.c
      BY <1>4, <1>5, <1>8, <2>1, <2>3 DEF Adding
    <3>2. Value(out') + 65536 * s'.c = Value(x') + Value(y')
      <4>1. x' = x /\ y' = y /\ s' = r
        BY <1>5
      <4>2. out[1] + 256 * r.a + 65536 * r.c = (x[1] + y[1]) + 256 * (x[2] + y[2])
        <5> DEFINE low == x[1] + y[1]
                   high == x[2] + y[2]
                   a1 == out[1]
                   a2 == r.a
                   c1 == s.c
                   c2 == r.c
        <5>1. /\ low \in Int /\ high \in Int /\ a1 \in Int /\ c1 \in Int /\ a2 \in Int /\ c2 \in Int
          BY <1>6
        <5>2. a1 + 256 * c1 = low /\ a2 + 256 * c2 = high + c1
          BY <1>6, <3>1
        <5> HIDE DEF low, high, a1, a2, c1, c2
        <5>3. a1 + 256 * a2 + 65536 * c2 = low + 256 * high
          BY <5>1, <5>2
        <5> QED
          BY <5>3 DEF low, high, a1, a2, c2
      <4> QED
        BY <1>6, <3>1, <4>1, <4>2 DEF Value
    <3>3. s.c = AsBit(x[1] + y[1] > 255)
      BY <1>6, <3>1, InBit DEF AsBit
    <3>4. s'.h = AsBit((x'[2] % 16) + (y'[2] % 16) + AsBit(x'[1] + y'[1] > 255) > 15)
      BY <1>4, <1>5, <1>8, <2>3, <3>3
    <3>5. Adding'
      BY <3>1, <3>2, <3>4 DEF Adding, Done, Value
    <3> QED
      BY <1>5, <1>9, <3>5 DEF RoutineInv, Progress
  <2> QED
    BY <1>1, <2>2, <2>3
<1>10. CASE routine = "add_bcd"
  <2>1. DecimalAdding
    BY <1>10 DEF RoutineInv, Progress
  <2>2. adjust' /\ at' = at
    BY <1>5, <1>10 DEF Decimal
  <2>3. at' # Done /\ s' = add_a8(Loaded(x'[at']), y'[at'], c)
    BY <1>1, <1>4, <1>5, <2>2 DEF Done
  <2>4. at' = 2 => /\ IsBcd(out'[1])
                   /\ Digits(out'[1]) + 100 * c = Digits(x'[1]) + Digits(y'[1])
    BY <1>5, <1>8, <2>1, <2>2 DEF DecimalAdding
  <2>5. \E carry \in Bit :
           /\ s' = add_a8(Loaded(x'[at']), y'[at'], carry)
           /\ at' = 1 => carry = 0
           /\ at' = 2 => /\ IsBcd(out'[1])
                         /\ Digits(out'[1]) + 100 * carry = Digits(x'[1]) + Digits(y'[1])
    <3>1. (at' = 1 => c = 0) /\ c \in Bit
      BY <1>2, <1>7, <2>2
    <3> QED
      BY <2>3, <2>4, <3>1
  <2>6. DecimalAdding'
    BY <2>2, <2>3, <2>5, Zenon DEF DecimalAdding
  <2> QED
    BY <1>5, <1>10, <2>6 DEF RoutineInv, Progress
<1> QED
    BY <1>1, <1>9, <1>10 DEF rs

\* SUB and SBC keep the invariant, of binary and of decimal numbers.
LEMMA SubKept == ASSUME RoutineInv, Sub PROVE RoutineInv'
<1> DEFINE st == WithByte
           c == IF First THEN 0 ELSE s.c
           r == sub_a8(st, y[at], c)
           rs == {"sub", "sub_bcd"}
<1>1. at \in {1, 2} /\ routine \in rs
  <2>1. at # Done /\ routine \in rs /\ Places
    BY DEF Sub, ByteStep, RoutineInv
  <2> QED
    BY <2>1 DEF Places, FromLow, Decimal, Done
<1>2. /\ st \in States /\ st.a = x[at] /\ x[at] \in Byte /\ y[at] \in Byte /\ c \in Bit
    BY <1>1, Current
<1>3. r \in States /\ ByteStep(rs, r) /\ rs \subseteq FromLow \cup FromHigh
    BY <1>2, SubParts DEF Sub, FromLow, Decimal
<1>4. /\ r.a - 256 * r.c = x[at] - y[at] - c
      /\ r = sub_a8(Loaded(x[at]), y[at], c)
  <2>1. r.a - 256 * r.c = x[at] - y[at] - c
    BY <1>2, SubExact
  <2>2. r = sub_a8(Loaded(x[at]), y[at], c)
    BY <1>2, ByteOnly
  <2> QED
    BY <2>1, <2>2
<1> HIDE DEF st, r, rs
<1>5. /\ TypeOK' /\ Places' /\ ~adjust
      /\ routine' = routine /\ x' = x /\ y' = y /\ s' = r
      /\ at = 1 => out'[1] = r.a /\ out'[2] = out[2]
      /\ at = 2 => out'[2] = r.a /\ out'[1] = out[1]
      /\ routine \in Decimal => adjust' /\ at' = at
      /\ routine \notin Decimal => /\ ~adjust'
                                   /\ routine \in FromLow => at' = (IF at = 1 THEN 2 ELSE 0)
    BY <1>3, ByteStepped
<1>6. /\ x[1] \in Int /\ x[2] \in Int /\ y[1] \in Int /\ y[2] \in Int
      /\ out[1] \in Int /\ s.c \in Int /\ r.c \in Int /\ r.a \in Int
    BY <1>3, Numerals, Parts, InByte, InBit DEF RoutineInv
<1>7. at = 1 => c = 0
    BY DEF First
<1>8. at = 2 => c = s.c
    BY DEF First
<1> HIDE DEF c
<1>9. CASE routine = "sub"
  <2>1. Subtracting /\ at' = (IF at = 1 THEN 2 ELSE 0)
    BY <1>5, <1>9 DEF RoutineInv, Progress, Decimal, FromLow
  <2>2. CASE at = 1
    <3>1. at' = 2 /\ out'[1] - 256 * s'.c = x'[1] - y'[1]
      BY <1>4, <1>5, <1>6, <1>7, <2>1, <2>2
    <3>2. Subtracting'
      BY <3>1 DEF Subtracting, Done
    <3> QED
      BY <1>5, <1>9, <3>2 DEF RoutineInv, Progress
  <2>3. CASE at = 2
    <3>1. /\ at' = 0 /\ out'[1] = out[1] /\ out'[2] = r.a
          /\ out[1] - 256 * s.c = x[1] - y[1]
          /\ r.a - 256 * r.c = x[2] - y[2] - s.c
      BY <1>4, <1>5, <1>8, <2>1, <2>3 DEF Subtracting
    <3>2. Value(out') - 65536 * s'.c = Value(x') - Value(y')
      <4>1. x' = x /\ y' = y /\ s' = r
        BY <1>5
      <4>2. out[1] + 256 * r.a - 65536 * r.c = x[1] + 256 * x[2] - (y[1] + 256 * y[2])
        BY <1>6, <3>1
      <4> QED
        BY <1>6, <3>1, <4>1, <4>2 DEF Value
    <3>3. Subtracting'
      BY <3>1, <3>2 DEF Subtracting, Done, Value
    <3> QED
      BY <1>5, <1>9, <3>3 DEF RoutineInv, Progress
  <2> QED
    BY <1>1, <2>2, <2>3
<1>10. CASE routine = "sub_bcd"
  <2>1. DecimalSubtracting
    BY <1>10 DEF RoutineInv, Progress
  <2>2. adjust' /\ at' = at
    BY <1>5, <1>10 DEF Decimal
  <2>3. at' # Done /\ s' = sub_a8(Loaded(x'[at']), y'[at'], c)
    BY <1>1, <1>4, <1>5, <2>2 DEF Done
  <2>4. at' = 2 => /\ IsBcd(out'[1])
                   /\ Digits(out'[1]) - 100 * c = Digits(x'[1]) - Digits(y'[1])
    BY <1>5, <1>8, <2>1, <2>2 DEF DecimalSubtracting
  <2>5. \E carry \in Bit :
           /\ s' = sub_a8(Loaded(x'[at']), y'[at'], carry)
           /\ at' = 1 => carry = 0
           /\ at' = 2 => /\ IsBcd(out'[1])
                         /\ Digits(out'[1]) - 100 * carry = Digits(x'[1]) - Digits(y'[1])
    <3>1. (at' = 1 => c = 0) /\ c \in Bit
      BY <1>2, <1>7, <2>2
    <3> QED
      BY <2>3, <2>4, <3>1
  <2>6. DecimalSubtracting'
    BY <2>2, <2>3, <2>5, Zenon DEF DecimalSubtracting
  <2> QED
    BY <1>5, <1>10, <2>6 DEF RoutineInv, Progress
<1> QED
    BY <1>1, <1>9, <1>10 DEF rs

\* CPL and SCF, which negation begins with.
LEMMA Flips ==
    ASSUME NEW st \in States
    PROVE  /\ scf(st) \in States /\ scf(st).a = st.a /\ scf(st).c = 1
           /\ cpl(st) \in States /\ cpl(st).a = 255 - st.a /\ cpl(st).c = st.c
<1>1. 255 - st.a \in Byte
  <2>1. st.a \in Int /\ 0 <= st.a /\ st.a <= 255
    BY Parts, InByte
  <2> QED
    BY <2>1, InByte
<1>2. 0 \in Bit /\ 1 \in Bit
    BY InBit
<1> QED
    BY ZenonT(30), <1>1, <1>2 DEF scf, cpl, States

\* A routine of bytes is at one of the two, and not done.
LEMMA AtByte ==
    ASSUME RoutineInv, NEW rs, rs \subseteq FromLow \cup FromHigh, NEW result, ByteStep(rs, result)
    PROVE  at \in {1, 2} /\ routine \in rs
<1>1. at # Done /\ routine \in rs /\ Places
    BY DEF ByteStep, RoutineInv
<1> QED
    BY <1>1 DEF Places, Done

\* Negation keeps the invariant: CPL leaves the carry for ADC.
LEMMA NegKept == ASSUME RoutineInv, Neg PROVE RoutineInv'
<1> DEFINE flipped == cpl(IF First THEN scf(WithByte) ELSE WithByte)
           r == add_a8(flipped, 0, flipped.c)
           rs == {"neg"}
<1>1. rs \subseteq FromLow \cup FromHigh /\ ByteStep(rs, r)
    BY DEF Neg, FromLow
<1>2. at \in {1, 2} /\ routine = "neg"
  <2> HIDE DEF r
  <2> QED
    BY <1>1, AtByte
<1>3. /\ WithByte \in States /\ WithByte.a = x[at] /\ WithByte.c = s.c /\ x[at] \in Byte
    BY <1>2, Current
<1>4. /\ flipped \in States /\ flipped.a = 255 - x[at]
      /\ flipped.c = (IF at = 1 THEN 1 ELSE s.c)
  <2>1. CASE at = 1
    <3>1. flipped = cpl(scf(WithByte))
      BY <2>1 DEF First
    <3> QED
      BY <1>3, <2>1, <3>1, Flips
  <2>2. CASE at = 2
    <3>1. flipped = cpl(WithByte)
      BY <2>2 DEF First
    <3> QED
      BY <1>3, <2>2, <3>1, Flips
  <2> QED
    BY <1>2, <2>1, <2>2
<1> HIDE DEF flipped
<1>5. r \in States /\ r.a + 256 * r.c = flipped.a + 0 + flipped.c
  <2>1. flipped.c \in Bit /\ 0 \in Byte
    BY <1>4, Parts, InByte
  <2> QED
    BY <1>4, <2>1, AddParts, AddExact
<1> HIDE DEF r, rs
<1>6. /\ TypeOK' /\ Places'
      /\ routine' = "neg" /\ x' = x /\ s' = r
      /\ at = 1 => out'[1] = r.a /\ out'[2] = out[2]
      /\ at = 2 => out'[2] = r.a /\ out'[1] = out[1]
    BY <1>1, <1>2, <1>5, ByteStepped
<1>7. at' = (IF at = 1 THEN 2 ELSE 0)
  <2>1. "neg" \notin Decimal /\ "neg" \in FromLow
    BY DEF Decimal, FromLow
  <2> QED
    BY <1>1, <1>2, <1>5, <2>1, ByteStepped
<1> DEFINE x1 == x[1]
           x2 == x[2]
           o1 == out[1]
           c1 == s.c
           ra == r.a
           rc == r.c
<1>8. /\ x1 \in Int /\ x2 \in Int /\ o1 \in Int /\ c1 \in Int /\ ra \in Int /\ rc \in Int
    BY <1>5, Numerals, Parts, InByte, InBit DEF RoutineInv
<1>9. Negating
    BY <1>2 DEF RoutineInv, Progress
<1>10. Negating'
  <2>1. CASE at = 1
    <3>1. ra + 256 * rc = 256 - x1
      <4>1. ra + 256 * rc = 255 - x1 + 0 + 1
        BY <1>4, <1>5, <2>1
      <4> HIDE DEF x1, ra, rc
      <4> QED
        BY <1>8, <4>1
    <3>2. at' = 2
      BY <1>7, <2>1
    <3> QED
      BY <1>6, <2>1, <3>1, <3>2 DEF Negating, Done
  <2>2. CASE at = 2
    <3>1. ra + 256 * rc = 255 - x2 + 0 + c1 /\ o1 + 256 * c1 = 256 - x1
      BY <1>4, <1>5, <1>9, <2>2 DEF Negating
    <3>2. o1 + 256 * ra + 65536 * rc = 65536 - (x1 + 256 * x2)
      <4> HIDE DEF x1, x2, o1, c1, ra, rc
      <4> QED
        BY <1>8, <3>1
    <3>3. at' = 0
      BY <1>7, <2>2
    <3>4. Value(out') = o1 + 256 * ra /\ Value(x') = x1 + 256 * x2 /\ s'.c = rc
      BY <1>6, <2>2 DEF Value
    <3>5. Value(out') + 65536 * s'.c = 65536 - Value(x')
      BY <3>2, <3>4
    <3> QED
      BY <3>3, <3>5 DEF Negating, Done, Value
  <2> QED
    BY <1>2, <2>1, <2>2
<1>11. Progress'
    BY <1>6, <1>10 DEF Progress
<1> QED
    BY <1>6, <1>11 DEF RoutineInv

\* SLA and RL keep the invariant.
LEMMA LeftKept == ASSUME RoutineInv, Left PROVE RoutineInv'
<1> DEFINE r == IF First THEN sla(WithByte) ELSE rl(WithByte)
           rs == {"left"}
<1>1. rs \subseteq FromLow \cup FromHigh /\ ByteStep(rs, r)
    BY DEF Left, FromLow
<1>2. at \in {1, 2} /\ routine = "left"
    BY <1>1, AtByte
<1>3. /\ WithByte \in States /\ WithByte.a = x[at] /\ WithByte.c = s.c
    BY <1>2, Current
<1>4. /\ r \in States
      /\ at = 1 => r.a + 256 * r.c = 2 * x[1]
      /\ at = 2 => r.a + 256 * r.c = 2 * x[2] + s.c
  <2>1. CASE at = 1
    <3>1. r = sla(WithByte)
      BY <2>1 DEF First
    <3> QED
      BY <1>3, <2>1, <3>1, LeftShifts
  <2>2. CASE at = 2
    <3>1. r = rl(WithByte)
      BY <2>2 DEF First
    <3> QED
      BY <1>3, <2>2, <3>1, LeftShifts
  <2> QED
    BY <1>2, <2>1, <2>2
<1> HIDE DEF r, rs
<1>5. /\ TypeOK' /\ Places'
      /\ routine' = "left" /\ x' = x /\ s' = r
      /\ at = 1 => out'[1] = r.a /\ out'[2] = out[2]
      /\ at = 2 => out'[2] = r.a /\ out'[1] = out[1]
    BY <1>1, <1>2, <1>4, ByteStepped
<1>6. at' = (IF at = 1 THEN 2 ELSE 0)
  <2>1. "left" \notin Decimal /\ "left" \in FromLow
    BY DEF Decimal, FromLow
  <2> QED
    BY <1>1, <1>2, <1>4, <2>1, ByteStepped
<1> DEFINE x1 == x[1]
           x2 == x[2]
           o1 == out[1]
           c1 == s.c
           ra == r.a
           rc == r.c
<1>7. /\ x1 \in Int /\ x2 \in Int /\ o1 \in Int /\ c1 \in Int /\ ra \in Int /\ rc \in Int
    BY <1>4, Numerals, Parts, InByte, InBit DEF RoutineInv
<1>8. Shifting
    BY <1>2 DEF RoutineInv, Progress
<1>9. Shifting'
  <2>1. CASE at = 1
    <3>1. at' = 2 /\ out'[1] + 256 * s'.c = 2 * x'[1]
      BY <1>4, <1>5, <1>6, <2>1
    <3> QED
      BY <1>5, <3>1 DEF Shifting, Done
  <2>2. CASE at = 2
    <3>1. ra + 256 * rc = 2 * x2 + c1 /\ o1 + 256 * c1 = 2 * x1
      BY <1>2, <1>4, <1>8, <2>2 DEF Shifting
    <3>2. o1 + 256 * ra + 65536 * rc = 2 * (x1 + 256 * x2)
      <4> HIDE DEF x1, x2, o1, c1, ra, rc
      <4> QED
        BY <1>7, <3>1
    <3>3. at' = 0
      BY <1>6, <2>2
    <3>4. Value(out') = o1 + 256 * ra /\ Value(x') = x1 + 256 * x2 /\ s'.c = rc
      BY <1>5, <2>2 DEF Value
    <3>5. Value(out') + 65536 * s'.c = 2 * Value(x')
      BY <3>2, <3>4
    <3> QED
      BY <1>5, <3>3, <3>5 DEF Shifting, Done, Value
  <2> QED
    BY <1>2, <2>1, <2>2
<1>10. Progress'
    BY <1>5, <1>9 DEF Progress
<1> QED
    BY <1>5, <1>10 DEF RoutineInv

\* SRL and RR keep the invariant.
LEMMA RightKept == ASSUME RoutineInv, Right PROVE RoutineInv'
<1> DEFINE r == IF First THEN rr(WithByte) ELSE srl(WithByte)
           rs == {"right"}
<1>1. rs \subseteq FromLow \cup FromHigh /\ ByteStep(rs, r)
    BY DEF Right, FromHigh
<1>2. at \in {1, 2} /\ routine = "right"
    BY <1>1, AtByte
<1>3. /\ WithByte \in States /\ WithByte.a = x[at] /\ WithByte.c = s.c
    BY <1>2, Current
<1>4. /\ r \in States
      /\ at = 2 => 2 * r.a + r.c = x[2]
      /\ at = 1 => 2 * r.a + r.c = x[1] + 256 * s.c
  <2>1. CASE at = 1
    <3>1. r = rr(WithByte)
      BY <2>1 DEF First
    <3> QED
      BY <1>3, <2>1, <3>1, RightShifts
  <2>2. CASE at = 2
    <3>1. r = srl(WithByte)
      BY <2>2 DEF First
    <3> QED
      BY <1>3, <2>2, <3>1, RightShifts
  <2> QED
    BY <1>2, <2>1, <2>2
<1> HIDE DEF r, rs
<1>5. /\ TypeOK' /\ Places'
      /\ routine' = "right" /\ x' = x /\ s' = r
      /\ at = 1 => out'[1] = r.a /\ out'[2] = out[2]
      /\ at = 2 => out'[2] = r.a /\ out'[1] = out[1]
    BY <1>1, <1>2, <1>4, ByteStepped
<1>6. at' = at - 1
  <2>1. "right" \notin Decimal /\ "right" \in FromHigh
    BY DEF Decimal, FromHigh
  <2> QED
    BY <1>1, <1>2, <1>4, <2>1, ByteStepped
<1> DEFINE x1 == x[1]
           x2 == x[2]
           o2 == out[2]
           c1 == s.c
           ra == r.a
           rc == r.c
<1>7. /\ x1 \in Int /\ x2 \in Int /\ o2 \in Int /\ c1 \in Int /\ ra \in Int /\ rc \in Int
    BY <1>4, Numerals, Parts, InByte, InBit DEF RoutineInv
<1>8. Shifting
    BY <1>2 DEF RoutineInv, Progress
<1>9. Shifting'
  <2>1. CASE at = 2
    <3>1. at' = 1 /\ 2 * out'[2] + s'.c = x'[2]
      BY <1>4, <1>5, <1>6, <2>1
    <3> QED
      BY <1>5, <3>1 DEF Shifting, Done
  <2>2. CASE at = 1
    <3>1. 2 * ra + rc = x1 + 256 * c1 /\ 2 * o2 + c1 = x2
      BY <1>2, <1>4, <1>8, <2>2 DEF Shifting
    <3>2. 2 * (ra + 256 * o2) + rc = x1 + 256 * x2
      <4> HIDE DEF x1, x2, o2, c1, ra, rc
      <4> QED
        BY <1>7, <3>1
    <3>3. at' = 0
      BY <1>6, <2>2
    <3>4. Value(out') = ra + 256 * o2 /\ Value(x') = x1 + 256 * x2 /\ s'.c = rc
      BY <1>5, <2>2 DEF Value
    <3>5. 2 * Value(out') + s'.c = Value(x')
      BY <3>2, <3>4
    <3> QED
      BY <1>5, <3>3, <3>5 DEF Shifting, Done, Value
  <2> QED
    BY <1>2, <2>1, <2>2
<1>10. Progress'
    BY <1>5, <1>9 DEF Progress
<1> QED
    BY <1>5, <1>10 DEF RoutineInv

\* SRA and RR keep the invariant.
LEMMA SignedRightKept == ASSUME RoutineInv, SignedRight PROVE RoutineInv'
<1> DEFINE r == IF First THEN rr(WithByte) ELSE sra(WithByte)
           rs == {"signed_right"}
<1>1. rs \subseteq FromLow \cup FromHigh /\ ByteStep(rs, r)
    BY DEF SignedRight, FromHigh
<1>2. at \in {1, 2} /\ routine = "signed_right"
    BY <1>1, AtByte
<1>3. /\ WithByte \in States /\ WithByte.a = x[at] /\ WithByte.c = s.c
    BY <1>2, Current
<1>4. /\ r \in States
      /\ at = 2 => 2 * (r.a - 256 * BitAt(r.a, 7)) + r.c = x[2] - 256 * BitAt(x[2], 7)
      /\ at = 1 => 2 * r.a + r.c = x[1] + 256 * s.c
  <2>1. CASE at = 1
    <3>1. r = rr(WithByte)
      BY <2>1 DEF First
    <3> QED
      BY <1>3, <2>1, <3>1, RightShifts
  <2>2. CASE at = 2
    <3>1. r = sra(WithByte)
      BY <2>2 DEF First
    <3> QED
      BY <1>3, <2>2, <3>1, RightShifts
  <2> QED
    BY <1>2, <2>1, <2>2
<1> HIDE DEF r, rs
<1>5. /\ TypeOK' /\ Places'
      /\ routine' = "signed_right" /\ x' = x /\ s' = r
      /\ at = 1 => out'[1] = r.a /\ out'[2] = out[2]
      /\ at = 2 => out'[2] = r.a /\ out'[1] = out[1]
    BY <1>1, <1>2, <1>4, ByteStepped
<1>6. at' = at - 1
  <2>1. "signed_right" \notin Decimal /\ "signed_right" \in FromHigh
    BY DEF Decimal, FromHigh
  <2> QED
    BY <1>1, <1>2, <1>4, <2>1, ByteStepped
<1> DEFINE x1 == x[1]
           x2 == x[2]
           o2 == out[2]
           bx == BitAt(x[2], 7)
           bo == BitAt(out[2], 7)
           c1 == s.c
           ra == r.a
           rc == r.c
<1>7. /\ x1 \in Int /\ x2 \in Int /\ o2 \in Int /\ c1 \in Int /\ ra \in Int /\ rc \in Int
      /\ bx \in Int /\ bo \in Int
    BY <1>4, Numerals, Parts, OutmostBits, InByte, InBit DEF RoutineInv
<1>8. Shifting
    BY <1>2 DEF RoutineInv, Progress
<1>9. Shifting'
  <2>1. CASE at = 2
    <3>1. at' = 1 /\ 2 * (out'[2] - 256 * BitAt(out'[2], 7)) + s'.c = x'[2] - 256 * BitAt(x'[2], 7)
      BY <1>4, <1>5, <1>6, <2>1
    <3> QED
      BY <1>5, <3>1 DEF Shifting, Done
  <2>2. CASE at = 1
    <3>1. 2 * ra + rc = x1 + 256 * c1 /\ 2 * (o2 - 256 * bo) + c1 = x2 - 256 * bx
      BY <1>2, <1>4, <1>8, <2>2 DEF Shifting
    <3>2. 2 * (ra + 256 * o2 - 65536 * bo) + rc = x1 + 256 * x2 - 65536 * bx
      <4> HIDE DEF x1, x2, o2, c1, ra, rc, bx, bo
      <4> QED
        BY <1>7, <3>1
    <3>3. at' = 0
      BY <1>6, <2>2
    <3>4. /\ Value(out') = ra + 256 * o2 /\ Value(x') = x1 + 256 * x2 /\ s'.c = rc
          /\ BitAt(out'[2], 7) = bo /\ BitAt(x'[2], 7) = bx
      BY <1>5, <2>2 DEF Value
    <3>5. 2 * (Value(out') - 65536 * BitAt(out'[2], 7)) + s'.c = Value(x') - 65536 * BitAt(x'[2], 7)
      <4>1. 2 * (ra + 256 * o2 - 65536 * bo) = 2 * ((ra + 256 * o2) - 65536 * bo)
        <5> HIDE DEF x1, x2, o2, c1, ra, rc, bx, bo
        <5> QED
          BY <1>7
      <4>2. x1 + 256 * x2 - 65536 * bx = (x1 + 256 * x2) - 65536 * bx
        <5> HIDE DEF x1, x2, o2, c1, ra, rc, bx, bo
        <5> QED
          BY <1>7
      <4> HIDE DEF x1, x2, o2, c1, ra, rc, bx, bo
      <4> QED
        BY <3>2, <3>4, <4>1, <4>2
    <3> QED
      BY <1>5, <3>3, <3>5 DEF Shifting, Done, Value
  <2> QED
    BY <1>2, <2>1, <2>2
<1>10. Progress'
    BY <1>5, <1>9 DEF Progress
<1> QED
    BY <1>5, <1>10 DEF RoutineInv

\* One up and one down, byte by byte.
LEMMA Steps ==
    ASSUME NEW m1 \in Byte, NEW m2 \in Byte
    PROVE  /\ (m1 + 1) % 256 = (IF m1 = 255 THEN 0 ELSE m1 + 1)
           /\ (m1 - 1) % 256 = (IF m1 = 0 THEN 255 ELSE m1 - 1)
           /\ (m1 + 256 * m2 + 1) % 65536 =
                 IF m1 = 255 THEN IF m2 = 255 THEN 0 ELSE 256 * (m2 + 1) ELSE m1 + 1 + 256 * m2
           /\ (m1 + 256 * m2 + 65535) % 65536 =
                 IF m1 = 0 THEN IF m2 = 0 THEN 65535 ELSE 255 + 256 * (m2 - 1)
                 ELSE m1 - 1 + 256 * m2
<1>1. /\ m1 \in Int /\ 0 <= m1 /\ m1 <= 255
      /\ m2 \in Int /\ 0 <= m2 /\ m2 <= 255
    BY InByte
<1> QED
    BY <1>1

\* INC keeps the invariant: Z tells when the high byte changes.
LEMMA IncKept == ASSUME RoutineInv, Inc PROVE RoutineInv'
<1> DEFINE r == IF First \/ s.z = 1 THEN inc(WithByte) ELSE WithByte
           rs == {"inc"}
<1>1. rs \subseteq FromLow \cup FromHigh /\ ByteStep(rs, r)
    BY DEF Inc, FromLow
<1>2. at \in {1, 2} /\ routine = "inc"
  <2> HIDE DEF r
  <2> QED
    BY <1>1, AtByte
<1>3. WithByte \in States /\ WithByte.a = x[at] /\ x[1] \in Byte /\ x[2] \in Byte
    BY <1>2, Current, Numerals DEF RoutineInv
<1>4. Counting
    BY <1>2 DEF RoutineInv, Progress
<1>5. at = 2 => (s.z = 1 <=> x[1] = 255)
  <2>1. x[1] \in Int /\ (x[1] + 1) % 256 = (IF x[1] = 255 THEN 0 ELSE x[1] + 1) /\ 0 <= x[1]
    BY <1>3, Steps, InByte
  <2>2. at = 2 => (s.z = 1 <=> out[1] = 0) /\ out[1] = (x[1] + 1) % 256
    BY <1>2, <1>4 DEF Counting, AsBit
  <2> QED
    BY <2>1, <2>2
<1>6. /\ r \in States
      /\ at = 1 => r.a = (IF x[1] = 255 THEN 0 ELSE x[1] + 1) /\ r.z = AsBit(x[1] = 255)
      /\ at = 2 => r.a = (IF x[1] = 255 THEN IF x[2] = 255 THEN 0 ELSE x[2] + 1 ELSE x[2])
  <2>1. /\ inc(WithByte) \in States /\ inc(WithByte).z = AsBit(x[at] = 255)
        /\ inc(WithByte).a = (IF x[at] = 255 THEN 0 ELSE x[at] + 1)
    BY <1>3, Counts
  <2>2. CASE at = 1
    <3>1. r = inc(WithByte)
      BY <2>2 DEF First
    <3> QED
      BY <2>1, <2>2, <3>1
  <2>3. CASE at = 2 /\ x[1] = 255
    <3>1. r = inc(WithByte)
      BY <1>5, <2>3
    <3> QED
      BY <2>1, <2>3, <3>1
  <2>4. CASE at = 2 /\ x[1] # 255
    <3>1. r = WithByte
      BY <1>5, <2>4 DEF First
    <3> QED
      BY <1>3, <2>4, <3>1
  <2> QED
    BY <1>2, <2>2, <2>3, <2>4
<1> HIDE DEF r, rs
<1>7. /\ TypeOK' /\ Places'
      /\ routine' = "inc" /\ x' = x /\ s' = r
      /\ at = 1 => out'[1] = r.a /\ out'[2] = out[2]
      /\ at = 2 => out'[2] = r.a /\ out'[1] = out[1]
    BY <1>1, <1>2, <1>6, ByteStepped
<1>8. at' = (IF at = 1 THEN 2 ELSE 0)
  <2>1. "inc" \notin Decimal /\ "inc" \in FromLow
    BY DEF Decimal, FromLow
  <2> QED
    BY <1>1, <1>2, <1>6, <2>1, ByteStepped
<1> DEFINE x1 == x[1]
           x2 == x[2]
           o1 == out[1]
           ra == r.a
<1>9. /\ x1 \in Byte /\ x2 \in Byte /\ x1 \in Int /\ x2 \in Int /\ 0 <= x1 /\ 0 <= x2
      /\ ra \in Int
    BY <1>3, <1>6, Parts, InByte
<1>10. Counting'
  <2>1. CASE at = 1
    <3>1. ra = (x1 + 1) % 256 /\ (ra = 0 <=> x1 = 255)
      BY <1>6, <1>9, <2>1, Steps
    <3>2. r.z = AsBit(ra = 0)
      BY <1>6, <2>1, <3>1 DEF AsBit
    <3>3. at' = 2 /\ out'[1] = (x'[1] + 1) % 256 /\ s'.z = AsBit(out'[1] = 0)
      BY <1>7, <1>8, <2>1, <3>1, <3>2
    <3> QED
      BY <1>7, <3>3 DEF Counting, Done
  <2>2. CASE at = 2
    <3>1. o1 = (x1 + 1) % 256
      BY <1>2, <1>4, <2>2 DEF Counting
    <3>2. o1 = (IF x1 = 255 THEN 0 ELSE x1 + 1)
      BY <1>9, <3>1, Steps
    <3>3. ra = (IF x1 = 255 THEN IF x2 = 255 THEN 0 ELSE x2 + 1 ELSE x2)
      BY <1>6, <2>2
    <3>4. o1 + 256 * ra = (x1 + 256 * x2 + 1) % 65536
      <4>1. (x1 + 256 * x2 + 1) % 65536 =
                 IF x1 = 255 THEN IF x2 = 255 THEN 0 ELSE 256 * (x2 + 1) ELSE x1 + 1 + 256 * x2
        BY <1>9, Steps
      <4> HIDE DEF x1, x2, o1, ra
      <4> QED
        BY <1>9, <3>2, <3>3, <4>1
    <3>5. at' = 0
      BY <1>8, <2>2
    <3>6. Value(out') = o1 + 256 * ra /\ Value(x') = x1 + 256 * x2
      BY <1>7, <2>2 DEF Value
    <3>7. Value(out') = (Value(x') + 1) % 65536
      BY <3>4, <3>6
    <3> QED
      BY <1>7, <3>5, <3>7 DEF Counting, Done, Value
  <2> QED
    BY <1>2, <2>1, <2>2
<1>11. Progress'
    BY <1>7, <1>10 DEF Progress
<1> QED
    BY <1>7, <1>11 DEF RoutineInv

\* DEC keeps the invariant: the test comes before the low byte changes.
LEMMA DecKept == ASSUME RoutineInv, Dec PROVE RoutineInv'
<1> DEFINE low == [s EXCEPT !.a = x[1]]
           r == IF First \/ or_a8(low, x[1]).z = 1 THEN dec(WithByte) ELSE WithByte
           rs == {"dec"}
<1>1. rs \subseteq FromLow \cup FromHigh /\ ByteStep(rs, r)
    BY DEF Dec, FromHigh
<1>2. at \in {1, 2} /\ routine = "dec"
  <2> HIDE DEF r
  <2> QED
    BY <1>1, AtByte
<1>3. WithByte \in States /\ WithByte.a = x[at] /\ x[1] \in Byte /\ x[2] \in Byte
    BY <1>2, Current, Numerals DEF RoutineInv
<1>4. Counting
    BY <1>2 DEF RoutineInv, Progress
<1>5. or_a8(low, x[1]).z = 1 <=> x[1] = 0
  <2>1. low \in States /\ low.a = x[1]
    BY <1>3, Numerals, Load DEF RoutineInv
  <2> HIDE DEF low
  <2> QED
    BY <2>1, OrItself
<1> HIDE DEF low
<1>6. /\ r \in States
      /\ at = 1 => r.a = (IF x[1] = 0 THEN 255 ELSE x[1] - 1)
      /\ at = 2 => r.a = (IF x[1] = 0 THEN IF x[2] = 0 THEN 255 ELSE x[2] - 1 ELSE x[2])
  <2>1. /\ dec(WithByte) \in States
        /\ dec(WithByte).a = (IF x[at] = 0 THEN 255 ELSE x[at] - 1)
    BY <1>3, Counts
  <2>2. CASE at = 1
    <3>1. r = dec(WithByte)
      BY <2>2 DEF First
    <3> QED
      BY <2>1, <2>2, <3>1
  <2>3. CASE at = 2 /\ x[1] = 0
    <3>1. r = dec(WithByte)
      BY <1>5, <2>3
    <3> QED
      BY <2>1, <2>3, <3>1
  <2>4. CASE at = 2 /\ x[1] # 0
    <3>1. r = WithByte
      BY <1>5, <2>4 DEF First
    <3> QED
      BY <1>3, <2>4, <3>1
  <2> QED
    BY <1>2, <2>2, <2>3, <2>4
<1> HIDE DEF r, rs
<1>7. /\ TypeOK' /\ Places'
      /\ routine' = "dec" /\ x' = x /\ s' = r
      /\ at = 1 => out'[1] = r.a /\ out'[2] = out[2]
      /\ at = 2 => out'[2] = r.a /\ out'[1] = out[1]
    BY <1>1, <1>2, <1>6, ByteStepped
<1>8. at' = at - 1
  <2>1. "dec" \notin Decimal /\ "dec" \in FromHigh
    BY DEF Decimal, FromHigh
  <2> QED
    BY <1>1, <1>2, <1>6, <2>1, ByteStepped
<1> DEFINE x1 == x[1]
           x2 == x[2]
           o2 == out[2]
           ra == r.a
<1>9. /\ x1 \in Byte /\ x2 \in Byte /\ x1 \in Int /\ x2 \in Int /\ 0 <= x1 /\ 0 <= x2
      /\ ra \in Int
    BY <1>3, <1>6, Parts, InByte
<1>10. Counting'
  <2>1. CASE at = 2
    <3>1. ra = (IF x1 = 0 THEN (x2 - 1) % 256 ELSE x2)
      <4>1. (x2 - 1) % 256 = (IF x2 = 0 THEN 255 ELSE x2 - 1)
        <5> HIDE DEF x2
        <5> QED
          BY <1>9, Steps
      <4> QED
        BY <1>6, <2>1, <4>1
    <3>2. at' = 1 /\ out'[2] = (IF x'[1] = 0 THEN (x'[2] - 1) % 256 ELSE x'[2])
      BY <1>7, <1>8, <2>1, <3>1
    <3> QED
      BY <1>7, <3>2 DEF Counting, Done
  <2>2. CASE at = 1
    <3>1. o2 = (IF x1 = 0 THEN (x2 - 1) % 256 ELSE x2)
      BY <1>2, <1>4, <2>2 DEF Counting
    <3>2. o2 = (IF x1 = 0 THEN IF x2 = 0 THEN 255 ELSE x2 - 1 ELSE x2)
      BY <1>9, <3>1, Steps
    <3>3. ra = (IF x1 = 0 THEN 255 ELSE x1 - 1)
      BY <1>6, <2>2
    <3>4. ra + 256 * o2 = (x1 + 256 * x2 + 65535) % 65536
      <4>1. (x1 + 256 * x2 + 65535) % 65536 =
                 IF x1 = 0 THEN IF x2 = 0 THEN 65535 ELSE 255 + 256 * (x2 - 1)
                 ELSE x1 - 1 + 256 * x2
        <5> HIDE DEF x1, x2
        <5> QED
          BY <1>9, Steps
      <4> HIDE DEF x1, x2, o2, ra
      <4> QED
        BY <1>9, <3>2, <3>3, <4>1
    <3>5. at' = 0
      BY <1>8, <2>2
    <3>6. Value(out') = ra + 256 * o2 /\ Value(x') = x1 + 256 * x2
      BY <1>7, <2>2 DEF Value
    <3>7. Value(out') = (Value(x') + 65535) % 65536
      BY <3>4, <3>6
    <3> QED
      BY <1>7, <3>5, <3>7 DEF Counting, Done, Value
  <2> QED
    BY <1>2, <2>1, <2>2
<1>11. Progress'
    BY <1>7, <1>10 DEF Progress
<1> QED
    BY <1>7, <1>11 DEF RoutineInv

\* DAA keeps the invariant: the sum and the carry become decimal ones.
LEMMA DaaKept == ASSUME RoutineInv, Daa PROVE RoutineInv'
<1> DEFINE r == daa(s)
<1>1. /\ adjust /\ s' = r /\ out' = [out EXCEPT ![at] = r.a] /\ ~adjust' /\ adjust' = FALSE
      /\ at' = NextByte /\ routine' = routine /\ x' = x /\ y' = y /\ hl' = hl
    BY DEF Daa, operands
<1>2. TypeOK /\ Places /\ Progress
    BY DEF RoutineInv
<1>3. routine \in Decimal /\ at \in {1, 2} /\ AllBcd(x) /\ AllBcd(y)
    BY <1>1, <1>2 DEF Places, FromLow
<1>4. r \in States /\ r.a \in Byte
    BY <1>2, Numerals, DaaType, Parts
<1>5. at' = (IF at = 1 THEN 2 ELSE 0) /\ at' \in 0 .. 8
  <2>1. routine \notin FromHigh
    BY <1>3 DEF Decimal, FromHigh
  <2> QED
    BY <1>1, <1>3, <2>1 DEF NextByte
<1>6. /\ x[at] \in Byte /\ y[at] \in Byte /\ IsBcd(x[at]) /\ IsBcd(y[at])
    BY <1>2, <1>3, Numerals DEF AllBcd
<1> HIDE DEF r
<1>7. /\ out' \in Byte \X Byte
      /\ at = 1 => out'[1] = r.a /\ out'[2] = out[2]
      /\ at = 2 => out'[2] = r.a /\ out'[1] = out[1]
    BY <1>1, <1>2, <1>3, <1>4, Numerals, Pair
<1>8. TypeOK'
  <2>1. adjust' \in BOOLEAN
    BY <1>1
  <2> QED
    BY <1>1, <1>2, <1>4, <1>5, <1>7, <2>1 DEF TypeOK
<1>9. Places'
  <2>1. routine' = routine /\ at' \in {0, 2} /\ ~adjust' /\ x' = x /\ y' = y /\ hl' = hl
    BY <1>1, <1>5
  <2>2. routine # NoRoutine /\ routine # "logic"
    BY <1>3 DEF Decimal, NoRoutine
  <2> QED
    BY <1>2, <2>1, <2>2 DEF Places, Done
<1> DEFINE dx1 == Digits(x[1])
           dx2 == Digits(x[2])
           dy1 == Digits(y[1])
           dy2 == Digits(y[2])
           do == Digits(out[1])
           dr == Digits(r.a)
           rc == r.c
<1>10. /\ dx1 \in Int /\ dx2 \in Int /\ dy1 \in Int /\ dy2 \in Int /\ do \in Int /\ dr \in Int
       /\ rc \in Int
    BY <1>2, <1>4, Numerals, DigitsInt, Parts, InBit
<1>11. CASE routine = "add_bcd"
  <2>1. DecimalAdding
    BY <1>2, <1>11 DEF Progress
  <2>2. PICK carry \in Bit :
           /\ s = add_a8(Loaded(x[at]), y[at], carry)
           /\ at = 1 => carry = 0
           /\ at = 2 => /\ IsBcd(out[1])
                        /\ Digits(out[1]) + 100 * carry = Digits(x[1]) + Digits(y[1])
    BY <1>1, <2>1 DEF DecimalAdding
  <2>3. /\ IsBcd(r.a) /\ dr + 100 * rc = Digits(x[at]) + Digits(y[at]) + carry
    BY <1>6, <2>2, DecimalBytes DEF r
  <2>4. carry \in Int
    BY InBit
  <2>5. ASSUME at = 1 PROVE DecimalAdding'
    <3>1. dr + 100 * rc = dx1 + dy1
      <4>1. dr + 100 * rc = dx1 + dy1 + carry /\ carry = 0
        BY <2>2, <2>3, <2>5
      <4> HIDE DEF dx1, dx2, dy1, dy2, do, dr, rc
      <4> QED
        BY <1>10, <4>1
    <3>2. /\ ~adjust' /\ at' # Done /\ IsBcd(out'[1])
          /\ Digits(out'[1]) + 100 * s'.c = Digits(x'[1]) + Digits(y'[1])
      BY <1>1, <1>5, <1>7, <2>3, <2>5, <3>1 DEF Done
    <3> QED
      BY <3>2, Zenon DEF DecimalAdding
  <2>6. ASSUME at = 2 PROVE DecimalAdding'
    <3>1. dr + 100 * rc = dx2 + dy2 + carry /\ do + 100 * carry = dx1 + dy1
      BY <2>2, <2>3, <2>6
    <3>2. (do + 100 * dr) + 10000 * rc = (dx1 + 100 * dx2) + (dy1 + 100 * dy2)
      <4> HIDE DEF dx1, dx2, dy1, dy2, do, dr, rc
      <4> QED
        BY <1>10, <2>4, <3>1
    <3>3. AllBcd(out')
      BY <1>7, <2>2, <2>3, <2>6 DEF AllBcd
    <3>4. /\ DecimalValue(out') = do + 100 * dr /\ s'.c = rc
          /\ DecimalValue(x') = dx1 + 100 * dx2 /\ DecimalValue(y') = dy1 + 100 * dy2
      BY <1>1, <1>7, <2>6 DEF DecimalValue
    <3>5. DecimalValue(out') + 10000 * s'.c = DecimalValue(x') + DecimalValue(y')
      BY <3>2, <3>4
    <3>6. ~adjust' /\ at' # 2
      BY <1>1, <1>5, <2>6
    <3>7. (AllBcd(out) /\ DecimalValue(out) + 10000 * s.c = DecimalValue(x) + DecimalValue(y))'
      BY <3>3, <3>5 DEF AllBcd, DecimalValue
    <3> QED
      BY <3>6, <3>7 DEF DecimalAdding
  <2>7. DecimalAdding'
    BY <1>3, <2>5, <2>6
  <2>8. Progress'
    BY <1>1, <1>11, <2>7 DEF Progress
  <2> QED
    BY <1>8, <1>9, <2>8 DEF RoutineInv
<1>12. CASE routine = "sub_bcd"
  <2>1. DecimalSubtracting
    BY <1>2, <1>12 DEF Progress
  <2>2. PICK carry \in Bit :
           /\ s = sub_a8(Loaded(x[at]), y[at], carry)
           /\ at = 1 => carry = 0
           /\ at = 2 => /\ IsBcd(out[1])
                        /\ Digits(out[1]) - 100 * carry = Digits(x[1]) - Digits(y[1])
    BY <1>1, <2>1 DEF DecimalSubtracting
  <2>3. /\ IsBcd(r.a) /\ dr - 100 * rc = Digits(x[at]) - Digits(y[at]) - carry
    BY <1>6, <2>2, DecimalBytes DEF r
  <2>4. carry \in Int
    BY InBit
  <2>5. ASSUME at = 1 PROVE DecimalSubtracting'
    <3>1. dr - 100 * rc = dx1 - dy1
      <4>1. dr - 100 * rc = dx1 - dy1 - carry /\ carry = 0
        BY <2>2, <2>3, <2>5
      <4> HIDE DEF dx1, dx2, dy1, dy2, do, dr, rc
      <4> QED
        BY <1>10, <4>1
    <3>2. /\ ~adjust' /\ at' # Done /\ IsBcd(out'[1])
          /\ Digits(out'[1]) - 100 * s'.c = Digits(x'[1]) - Digits(y'[1])
      BY <1>1, <1>5, <1>7, <2>3, <2>5, <3>1 DEF Done
    <3> QED
      BY <3>2, Zenon DEF DecimalSubtracting
  <2>6. ASSUME at = 2 PROVE DecimalSubtracting'
    <3>1. dr - 100 * rc = dx2 - dy2 - carry /\ do - 100 * carry = dx1 - dy1
      BY <2>2, <2>3, <2>6
    <3>2. (do + 100 * dr) - 10000 * rc = (dx1 + 100 * dx2) - (dy1 + 100 * dy2)
      <4> HIDE DEF dx1, dx2, dy1, dy2, do, dr, rc
      <4> QED
        BY <1>10, <2>4, <3>1
    <3>3. AllBcd(out')
      BY <1>7, <2>2, <2>3, <2>6 DEF AllBcd
    <3>4. /\ DecimalValue(out') = do + 100 * dr /\ s'.c = rc
          /\ DecimalValue(x') = dx1 + 100 * dx2 /\ DecimalValue(y') = dy1 + 100 * dy2
      BY <1>1, <1>7, <2>6 DEF DecimalValue
    <3>5. DecimalValue(out') - 10000 * s'.c = DecimalValue(x') - DecimalValue(y')
      BY <3>2, <3>4
    <3>6. ~adjust' /\ at' # 2
      BY <1>1, <1>5, <2>6
    <3>7. (AllBcd(out) /\ DecimalValue(out) - 10000 * s.c = DecimalValue(x) - DecimalValue(y))'
      BY <3>3, <3>5 DEF AllBcd, DecimalValue
    <3> QED
      BY <3>6, <3>7 DEF DecimalSubtracting
  <2>7. DecimalSubtracting'
    BY <1>3, <2>5, <2>6
  <2>8. Progress'
    BY <1>1, <1>12, <2>7 DEF Progress
  <2> QED
    BY <1>8, <1>9, <2>8 DEF RoutineInv
<1> QED
    BY <1>3, <1>11, <1>12 DEF Decimal

\* AND, XOR and OR keep the invariant.
LEMMA LogicKept == ASSUME RoutineInv, Logic PROVE RoutineInv'
<1>1. /\ routine = "logic" /\ at # Done /\ at' = Done
      /\ routine' = routine /\ x' = x /\ y' = y /\ adjust' = adjust /\ hl' = hl
      /\ out' = <<and_a8(WithByte, y[1]).a, xor_a8(WithByte, y[1]).a>>
      /\ s' = or_a8(WithByte, y[1])
    BY DEF Logic, operands
<1>2. TypeOK /\ Places
    BY DEF RoutineInv
<1>3. at = 1
    BY <1>1, <1>2 DEF Places
<1>4. WithByte \in States /\ WithByte.a = x[1] /\ y[1] \in Byte
    BY <1>2, <1>3, Current, Numerals
<1> DEFINE and == and_a8(WithByte, y[1])
           xor == xor_a8(WithByte, y[1])
           or  == or_a8(WithByte, y[1])
<1>5. /\ and \in States /\ or \in States /\ xor \in States
      /\ and.a + xor.a = or.a
      /\ 2 * and.a + xor.a = x[1] + y[1]
    BY <1>4, Combined
<1> HIDE DEF and, xor, or
<1>6. out' = <<and.a, xor.a>> /\ s' = or
    BY <1>1 DEF and, xor, or
<1>7. out' \in Byte \X Byte
    BY <1>5, <1>6, Parts
<1>8. TypeOK'
  <2>1. adjust' \in BOOLEAN /\ at' \in 0 .. 8
    BY <1>1, <1>2 DEF TypeOK, Done
  <2>2. /\ routine \in Routines \cup {NoRoutine} /\ {x, y} \subseteq Byte \X Byte
        /\ hl \in 0 .. MaxWord
    BY <1>2 DEF TypeOK
  <2> QED
    BY <1>1, <1>5, <1>6, <1>7, <2>1, <2>2 DEF TypeOK
<1>9. Places'
  <2>1. "logic" \notin Decimal /\ "logic" \notin FromLow \cup FromHigh
        /\ "logic" # NoRoutine /\ "logic" # "mul"
    BY DEF Decimal, FromLow, FromHigh, NoRoutine
  <2>2. ~adjust'
    <3>1. ~adjust
      BY <1>1, <1>2, <2>1 DEF Places
    <3> QED
      BY <1>1, <3>1
  <2>3. hl' = 0 /\ routine' = "logic" /\ at' = Done
    BY <1>1, <1>2, <2>1 DEF Places
  <2> QED
    BY <2>1, <2>2, <2>3, Zenon DEF Places
<1>10. Combining'
    BY <1>1, <1>5, <1>6 DEF Combining
<1>11. Progress'
    BY <1>1, <1>10 DEF Progress
<1> QED
    BY <1>8, <1>9, <1>11 DEF RoutineInv

\* The powers of two of a round, and of the one that follows it.
RoundOf(p, q) ==
    \/ (p = 128 /\ q = 1) \/ (p = 64 /\ q = 2) \/ (p = 32 /\ q = 4) \/ (p = 16 /\ q = 8)
    \/ (p = 8 /\ q = 16) \/ (p = 4 /\ q = 32) \/ (p = 2 /\ q = 64) \/ (p = 1 /\ q = 128)

\* The powers of the rounds of MultiByte are these pairs.
LEMMA RoundPowers ==
    ASSUME NEW k \in 1 .. 8
    PROVE  /\ RoundOf(2 ^ (8 - k), 2 ^ (k - 1)) /\ 2 ^ (8 - k) \in Int /\ 2 ^ (k - 1) \in Int
           /\ 2 ^ (8 - (k - 1)) = 2 * 2 ^ (8 - k) /\ 2 ^ k = 2 * 2 ^ (k - 1)
<1>1. CASE k = 1
  <2>1. 2 ^ (8 - k) = 128 /\ 2 ^ (8 - (k - 1)) = 256 /\ 2 ^ k = 2 /\ 2 ^ (k - 1) = 1
    BY <1>1, PowersOfTwo
  <2> QED
    BY <2>1 DEF RoundOf
<1>2. CASE k = 2
  <2>1. 2 ^ (8 - k) = 64 /\ 2 ^ (8 - (k - 1)) = 128 /\ 2 ^ k = 4 /\ 2 ^ (k - 1) = 2
    BY <1>2, PowersOfTwo
  <2> QED
    BY <2>1 DEF RoundOf
<1>3. CASE k = 3
  <2>1. 2 ^ (8 - k) = 32 /\ 2 ^ (8 - (k - 1)) = 64 /\ 2 ^ k = 8 /\ 2 ^ (k - 1) = 4
    BY <1>3, PowersOfTwo
  <2> QED
    BY <2>1 DEF RoundOf
<1>4. CASE k = 4
  <2>1. 2 ^ (8 - k) = 16 /\ 2 ^ (8 - (k - 1)) = 32 /\ 2 ^ k = 16 /\ 2 ^ (k - 1) = 8
    BY <1>4, PowersOfTwo
  <2> QED
    BY <2>1 DEF RoundOf
<1>5. CASE k = 5
  <2>1. 2 ^ (8 - k) = 8 /\ 2 ^ (8 - (k - 1)) = 16 /\ 2 ^ k = 32 /\ 2 ^ (k - 1) = 16
    BY <1>5, PowersOfTwo
  <2> QED
    BY <2>1 DEF RoundOf
<1>6. CASE k = 6
  <2>1. 2 ^ (8 - k) = 4 /\ 2 ^ (8 - (k - 1)) = 8 /\ 2 ^ k = 64 /\ 2 ^ (k - 1) = 32
    BY <1>6, PowersOfTwo
  <2> QED
    BY <2>1 DEF RoundOf
<1>7. CASE k = 7
  <2>1. 2 ^ (8 - k) = 2 /\ 2 ^ (8 - (k - 1)) = 4 /\ 2 ^ k = 128 /\ 2 ^ (k - 1) = 64
    BY <1>7, PowersOfTwo
  <2> QED
    BY <2>1 DEF RoundOf
<1>8. CASE k = 8
  <2>1. 2 ^ (8 - k) = 1 /\ 2 ^ (8 - (k - 1)) = 2 /\ 2 ^ k = 256 /\ 2 ^ (k - 1) = 128
    BY <1>8, PowersOfTwo
  <2> QED
    BY <2>1 DEF RoundOf
<1> QED
    BY <1>1, <1>2, <1>3, <1>4, <1>5, <1>6, <1>7, <1>8

\* The bit RLA takes out of the register is the multiplier's highest one left.
LEMMA MultiplierShifted ==
    ASSUME NEW a \in Byte, NEW v \in Byte, NEW c \in Bit, NEW p \in Int, NEW q \in Int,
           RoundOf(p, q), a \div p = v % (2 * q)
    PROVE  /\ (2 * a + c - 256 * (a \div 128)) \div (2 * p) = v % q
           /\ v \div q = 2 * (v \div (2 * q)) + (a \div 128)
<1>1. /\ a \in Int /\ 0 <= a /\ a <= 255 /\ v \in Int /\ 0 <= v /\ v <= 255
      /\ c \in Int /\ 0 <= c /\ c <= 1
    BY InByte, InBit
<1>2. CASE p = 128 /\ q = 1
  <2>1. a \div 128 = v % 2
    BY <1>2
  <2>2. /\ (2 * a + c - 256 * (a \div 128)) \div 256 = v % 1
        /\ v \div 1 = 2 * (v \div 2) + (a \div 128)
    BY <1>1, <2>1
  <2> QED
    BY <1>2, <2>2
<1>3. CASE p = 64 /\ q = 2
  <2>1. a \div 64 = v % 4
    BY <1>3
  <2>2. /\ (2 * a + c - 256 * (a \div 128)) \div 128 = v % 2
        /\ v \div 2 = 2 * (v \div 4) + (a \div 128)
    BY <1>1, <2>1
  <2> QED
    BY <1>3, <2>2
<1>4. CASE p = 32 /\ q = 4
  <2>1. a \div 32 = v % 8
    BY <1>4
  <2>2. /\ (2 * a + c - 256 * (a \div 128)) \div 64 = v % 4
        /\ v \div 4 = 2 * (v \div 8) + (a \div 128)
    BY <1>1, <2>1
  <2> QED
    BY <1>4, <2>2
<1>5. CASE p = 16 /\ q = 8
  <2>1. a \div 16 = v % 16
    BY <1>5
  <2>2. /\ (2 * a + c - 256 * (a \div 128)) \div 32 = v % 8
        /\ v \div 8 = 2 * (v \div 16) + (a \div 128)
    BY <1>1, <2>1
  <2> QED
    BY <1>5, <2>2
<1>6. CASE p = 8 /\ q = 16
  <2>1. a \div 8 = v % 32
    BY <1>6
  <2>2. /\ (2 * a + c - 256 * (a \div 128)) \div 16 = v % 16
        /\ v \div 16 = 2 * (v \div 32) + (a \div 128)
    BY <1>1, <2>1
  <2> QED
    BY <1>6, <2>2
<1>7. CASE p = 4 /\ q = 32
  <2>1. a \div 4 = v % 64
    BY <1>7
  <2>2. /\ (2 * a + c - 256 * (a \div 128)) \div 8 = v % 32
        /\ v \div 32 = 2 * (v \div 64) + (a \div 128)
    BY <1>1, <2>1
  <2> QED
    BY <1>7, <2>2
<1>8. CASE p = 2 /\ q = 64
  <2>1. a \div 2 = v % 128
    BY <1>8
  <2>2. /\ (2 * a + c - 256 * (a \div 128)) \div 4 = v % 64
        /\ v \div 64 = 2 * (v \div 128) + (a \div 128)
    BY <1>1, <2>1
  <2> QED
    BY <1>8, <2>2
<1>9. CASE p = 1 /\ q = 128
  <2>1. a \div 1 = v % 256
    BY <1>9
  <2>2. /\ (2 * a + c - 256 * (a \div 128)) \div 2 = v % 128
        /\ v \div 128 = 2 * (v \div 256) + (a \div 128)
    BY <1>1, <2>1
  <2> QED
    BY <1>9, <2>2
<1> QED
    BY <1>2, <1>3, <1>4, <1>5, <1>6, <1>7, <1>8, <1>9 DEF RoundOf

\* A bit is replaced under the ones that agree.
LEMMA BitCopied ==
    ASSUME NEW a \in Byte, NEW v \in Byte, NEW p \in Int, NEW q \in Int, RoundOf(p, q),
           a \div (2 * q) = v \div (2 * q), NEW b,
           b = a - q * ((a \div q) % 2) + q * ((v \div q) % 2)
    PROVE  b \in Byte /\ b \div q = v \div q
<1>1. /\ a \in Int /\ 0 <= a /\ a <= 255 /\ v \in Int /\ 0 <= v /\ v <= 255
    BY InByte
<1>2. CASE q = 1
  <2>1. a \div 2 = v \div 2 /\ b = a - 1 * ((a \div 1) % 2) + 1 * ((v \div 1) % 2)
    BY <1>2
  <2>2. b \in Int /\ 0 <= b /\ b <= 255 /\ b \div 1 = v \div 1
    BY <1>1, <2>1
  <2> QED
    BY <1>2, <2>2, InByte
<1>3. CASE q = 2
  <2>1. a \div 4 = v \div 4 /\ b = a - 2 * ((a \div 2) % 2) + 2 * ((v \div 2) % 2)
    BY <1>3
  <2>2. b \in Int /\ 0 <= b /\ b <= 255 /\ b \div 2 = v \div 2
    BY <1>1, <2>1
  <2> QED
    BY <1>3, <2>2, InByte
<1>4. CASE q = 4
  <2>1. a \div 8 = v \div 8 /\ b = a - 4 * ((a \div 4) % 2) + 4 * ((v \div 4) % 2)
    BY <1>4
  <2>2. b \in Int /\ 0 <= b /\ b <= 255 /\ b \div 4 = v \div 4
    BY <1>1, <2>1
  <2> QED
    BY <1>4, <2>2, InByte
<1>5. CASE q = 8
  <2>1. a \div 16 = v \div 16 /\ b = a - 8 * ((a \div 8) % 2) + 8 * ((v \div 8) % 2)
    BY <1>5
  <2>2. b \in Int /\ 0 <= b /\ b <= 255 /\ b \div 8 = v \div 8
    BY <1>1, <2>1
  <2> QED
    BY <1>5, <2>2, InByte
<1>6. CASE q = 16
  <2>1. a \div 32 = v \div 32 /\ b = a - 16 * ((a \div 16) % 2) + 16 * ((v \div 16) % 2)
    BY <1>6
  <2>2. b \in Int /\ 0 <= b /\ b <= 255 /\ b \div 16 = v \div 16
    BY <1>1, <2>1
  <2> QED
    BY <1>6, <2>2, InByte
<1>7. CASE q = 32
  <2>1. a \div 64 = v \div 64 /\ b = a - 32 * ((a \div 32) % 2) + 32 * ((v \div 32) % 2)
    BY <1>7
  <2>2. b \in Int /\ 0 <= b /\ b <= 255 /\ b \div 32 = v \div 32
    BY <1>1, <2>1
  <2> QED
    BY <1>7, <2>2, InByte
<1>8. CASE q = 64
  <2>1. a \div 128 = v \div 128 /\ b = a - 64 * ((a \div 64) % 2) + 64 * ((v \div 64) % 2)
    BY <1>8
  <2>2. b \in Int /\ 0 <= b /\ b <= 255 /\ b \div 64 = v \div 64
    BY <1>1, <2>1
  <2> QED
    BY <1>8, <2>2, InByte
<1>9. CASE q = 128
  <2>1. a \div 256 = v \div 256 /\ b = a - 128 * ((a \div 128) % 2) + 128 * ((v \div 128) % 2)
    BY <1>9
  <2>2. b \in Int /\ 0 <= b /\ b <= 255 /\ b \div 128 = v \div 128
    BY <1>1, <2>1
  <2> QED
    BY <1>9, <2>2, InByte
<1> QED
    BY <1>2, <1>3, <1>4, <1>5, <1>6, <1>7, <1>8, <1>9 DEF RoundOf

\* A word as a number.
LEMMA InWord == ASSUME NEW w PROVE w \in 0 .. MaxWord <=> w \in Int /\ 0 <= w /\ w <= 65535
<1>1. \A n \in Int : w \in 0 .. n <=> w \in Int /\ 0 <= w /\ w <= n
    OBVIOUS
<1>2. MaxWord \in Int
    BY DEF MaxWord
<1>3. w \in 0 .. MaxWord <=> w \in Int /\ 0 <= w /\ w <= MaxWord
    BY <1>1, <1>2
<1>4. w <= MaxWord <=> w <= 65535
    BY DEF MaxWord
<1> QED
    BY <1>3, <1>4

\* ADD HL and RLA, what a round of the product uses of them.
LEMMA WideAdd ==
    ASSUME NEW st \in States, NEW h \in Int, NEW w \in Int
    PROVE  /\ add_hl(st, h, w).s \in States /\ add_hl(st, h, w).s.a = st.a
           /\ add_hl(st, h, w).hl = (h + w) % 65536 /\ add_hl(st, h, w).hl \in 0 .. MaxWord
<1> DEFINE half == AsBit((h % 4096) + (w % 4096) > 4095)
           carry == AsBit(h + w > 65535)
<1>1. half \in Bit /\ carry \in Bit /\ 0 \in Bit
    BY InBit DEF AsBit
<1>2. /\ add_hl(st, h, w).s = [st EXCEPT !.n = 0, !.h = half, !.c = carry]
      /\ add_hl(st, h, w).hl = (h + w) % 65536
    BY DEF add_hl
<1> HIDE DEF half, carry
<1>3. (h + w) % 65536 \in 0 .. MaxWord
    BY InWord
<1>4. /\ [st EXCEPT !.n = 0, !.h = half, !.c = carry] \in States
      /\ [st EXCEPT !.n = 0, !.h = half, !.c = carry].a = st.a
    BY <1>1 DEF States
<1> QED
    BY <1>2, <1>3, <1>4

\* RLA as arithmetic: the carry comes in below, the highest bit goes out.
LEMMA RotatedIn ==
    ASSUME NEW st \in States
    PROVE  /\ rla(st) \in States /\ rla(st).c = st.a \div 128 /\ st.a \div 128 \in Bit
           /\ rla(st).a = 2 * st.a + st.c - 256 * (st.a \div 128)
<1>1. rla(st) = [rl(st) EXCEPT !.z = 0] /\ rl(st) \in States /\ 0 \in Bit
    BY LeftShifts, InBit DEF rla
<1>2. rla(st) \in States /\ rla(st).a = rl(st).a /\ rla(st).c = rl(st).c
    BY <1>1 DEF States
<1>3. st.a \in Byte /\ st.c \in Bit
    BY Parts
<1>4. BitAt(st.a, 7) = st.a \div 128 /\ BitAt(st.a, 7) \in Bit
    BY <1>3, OutmostBits
<1>5. rl(st).c = BitAt(st.a, 7)
  <2> DEFINE v == ((2 * st.a) % 256) + st.c
  <2>1. v \in Byte
    <3>1. st.a \in Int /\ 0 <= st.a /\ st.a <= 255 /\ st.c \in Int /\ 0 <= st.c /\ st.c <= 1
      BY <1>3, InByte, InBit
    <3> QED
      BY <3>1, InByte
  <2>2. rl(st) = Result(v, 0, 0, BitAt(st.a, 7))
    BY DEF rl
  <2> HIDE DEF v
  <2> QED
    BY <1>1, <1>4, <2>1, <2>2, ResultType
<1>6. rl(st).a + 256 * rl(st).c = 2 * st.a + st.c
    BY LeftShifts
<1> DEFINE a == st.a
           c == st.c
           d == st.a \div 128
           ra == rl(st).a
           rc == rl(st).c
<1>7. a \in Int /\ c \in Int /\ d \in Int /\ ra \in Int /\ rc \in Int
    BY <1>1, <1>3, <1>4, Parts, InByte, InBit
<1>8. ra = 2 * a + c - 256 * d
  <2>1. ra + 256 * rc = 2 * a + c /\ rc = d
    BY <1>4, <1>5, <1>6
  <2> HIDE DEF a, c, d, ra, rc
  <2> QED
    BY <1>7, <2>1
<1> QED
    BY <1>2, <1>4, <1>5, <1>8

\* A round of the multiplication keeps the invariant.
LEMMA MulKept == ASSUME RoutineInv, Mul PROVE RoutineInv'
<1> DEFINE v == Value(x)
           doubled == add_hl(s, hl, hl)
           shifted == rla(doubled.s)
           added == add_hl(shifted, doubled.hl, v)
           p == 2 ^ (8 - at)
           q == 2 ^ (at - 1)
           d == s.a \div 128
<1>1. /\ routine = "mul" /\ at # Done /\ at' = at - 1
      /\ IF shifted.c = 1 THEN hl' = added.hl /\ s' = added.s
                          ELSE hl' = doubled.hl /\ s' = shifted
      /\ routine' = routine /\ x' = x /\ y' = y /\ adjust' = adjust /\ out' = out
    BY DEF Mul, operands
<1>2. TypeOK /\ Places /\ Multiplying
    BY <1>1 DEF RoutineInv, Progress
<1>3. at \in 1 .. 8 /\ at' \in 0 .. 8
    BY <1>1, <1>2 DEF TypeOK, Done
<1>4. /\ s \in States /\ hl \in Int /\ hl \in 0 .. MaxWord /\ v \in Int /\ y[1] \in Byte
      /\ s.a \in Byte
  <2>1. hl \in 0 .. MaxWord
    BY <1>2, Numerals
  <2>2. hl \in Int
    BY <2>1, InWord
  <2>3. x[1] \in Int /\ x[2] \in Int
    BY <1>2, Numerals, InByte
  <2> QED
    BY <1>2, <2>1, <2>2, <2>3, Numerals DEF Value
<1>5. /\ doubled.s \in States /\ doubled.s.a = s.a /\ doubled.hl = (hl + hl) % 65536
      /\ doubled.hl \in 0 .. MaxWord
    BY <1>4, WideAdd
<1>6. /\ shifted \in States /\ shifted.c = d /\ d \in Bit
      /\ shifted.a = 2 * s.a + doubled.s.c - 256 * d /\ doubled.s.c \in Bit
    BY <1>5, RotatedIn, Parts
<1> HIDE DEF v, doubled, shifted
<1>7. /\ added.s \in States /\ added.s.a = shifted.a /\ added.hl \in 0 .. MaxWord
      /\ added.hl = (doubled.hl + v) % 65536
  <2>1. doubled.hl \in Int
    BY <1>4, <1>5
  <2> QED
    BY <1>4, <1>6, <2>1, WideAdd
<1> HIDE DEF added
<1>8. /\ s' \in States /\ s'.a = shifted.a /\ hl' \in 0 .. MaxWord
      /\ hl' = (doubled.hl + d * v) % 65536
  <2>1. CASE shifted.c = 1
    <3>1. d * v = v
      BY <1>4, <1>6, <2>1
    <3> QED
      BY <1>1, <1>7, <2>1, <3>1
  <2>2. CASE shifted.c # 1
    <3>1. d = 0
      BY <1>6, <2>2, InBit
    <3>2. d * v = 0
      BY <1>4, <3>1
    <3>3. doubled.hl = (doubled.hl + 0) % 65536
      BY <1>4, <1>5
    <3> QED
      BY <1>1, <1>5, <1>6, <2>2, <3>2, <3>3
  <2> QED
    BY <2>1, <2>2
<1>9. /\ RoundOf(p, q) /\ p \in Int /\ q \in Int
      /\ 2 ^ (8 - at') = 2 * p /\ 2 ^ at = 2 * q /\ 2 ^ at' = q
  <2>1. 2 ^ (8 - (at - 1)) = 2 * p /\ RoundOf(p, q) /\ p \in Int /\ q \in Int /\ 2 ^ at = 2 * q
    BY <1>3, RoundPowers
  <2> QED
    BY <1>1, <2>1
<1>10. s.a \div p = y[1] % (2 * q) /\ hl = (v * (y[1] \div (2 * q))) % 65536
    BY <1>2, <1>9 DEF Multiplying, v
<1> HIDE DEF p, q
<1>11. /\ shifted.a \div (2 * p) = y[1] % q
       /\ y[1] \div q = 2 * (y[1] \div (2 * q)) + d
    BY <1>4, <1>6, <1>9, <1>10, MultiplierShifted
<1> HIDE DEF d
<1>12. hl' = (v * (y[1] \div q)) % 65536
  <2> DEFINE n == y[1] \div (2 * q)
  <2>1. n \in Int
    <3>1. y[1] \in Int /\ q \in Int /\ q > 0
      BY <1>4, <1>9, InByte DEF RoundOf
    <3> QED
      BY <3>1
  <2>2. hl = (v * n) % 65536
    BY <1>10
  <2>3. y[1] \div q = 2 * n + d
    BY <1>11
  <2> HIDE DEF n
  <2>4. (((hl + hl) % 65536) + d * v) % 65536 = (v * (2 * n + d)) % 65536
    <3> DEFINE w == v * n
    <3>1. w \in Int /\ v \in Int
      BY <1>4, <2>1
    <3>2. hl = w % 65536
      BY <2>2
    <3>3. CASE d = 0
      <4>1. v * (2 * n + d) = 2 * w /\ d * v = 0
        BY <1>4, <2>1, <3>3
      <4> HIDE DEF w
      <4>2. (((hl + hl) % 65536) + 0) % 65536 = (2 * w) % 65536
        BY <3>1, <3>2
      <4> QED
        BY <4>1, <4>2
    <3>4. CASE d = 1
      <4>1. v * (2 * n + d) = 2 * w + v /\ d * v = v
        BY <1>4, <2>1, <3>4
      <4> HIDE DEF w
      <4>2. (((hl + hl) % 65536) + v) % 65536 = (2 * w + v) % 65536
        BY <3>1, <3>2
      <4> QED
        BY <4>1, <4>2
    <3> QED
      BY <1>6, <3>3, <3>4, InBit
  <2> QED
    BY <1>5, <1>8, <2>3, <2>4
<1>13. TypeOK'
  <2>1. adjust' \in BOOLEAN /\ routine' \in Routines \cup {NoRoutine}
    BY <1>1, <1>2 DEF TypeOK
  <2>2. {x', y'} \subseteq Byte \X Byte /\ out' \in Byte \X Byte
    BY <1>1, <1>2 DEF TypeOK
  <2> QED
    BY <1>3, <1>8, <2>1, <2>2 DEF TypeOK
<1>14. ~adjust'
  <2>1. "mul" \notin Decimal
    BY DEF Decimal
  <2>2. ~adjust
    BY <1>1, <1>2, <2>1 DEF Places
  <2> QED
    BY <1>1, <2>2
<1>15. Places'
  <2>1. /\ "mul" \notin Decimal /\ "mul" \notin FromLow \cup FromHigh
        /\ "mul" # NoRoutine /\ "mul" # "logic"
    BY DEF Decimal, FromLow, FromHigh, NoRoutine
  <2>2. routine' = "mul"
    BY <1>1
  <2> QED
    BY <1>14, <2>1, <2>2, Zenon DEF Places
<1>16. Multiplying'
    BY <1>1, <1>8, <1>9, <1>11, <1>12 DEF Multiplying, v, Value
<1>17. Progress'
    BY <1>1, <1>16 DEF Progress
<1> QED
    BY <1>13, <1>15, <1>17 DEF RoutineInv

\* A round of copying bits keeps the invariant.
LEMMA CopyBitKept == ASSUME RoutineInv, CopyBit PROVE RoutineInv'
<1> DEFINE i == at - 1
           q == 2 ^ i
           tested == bit([s EXCEPT !.a = x[1]], i)
           flags == [tested EXCEPT !.a = s.a]
           b == s.a - q * ((s.a \div q) % 2) + q * ((x[1] \div q) % 2)
<1>1. /\ routine = "copy_bits" /\ at # Done /\ at' = at - 1
      /\ s' = (IF tested.z = 1 THEN res(flags, i) ELSE set(flags, i))
      /\ routine' = routine /\ x' = x /\ y' = y /\ adjust' = adjust /\ out' = out /\ hl' = hl
    BY DEF CopyBit, operands
<1>2. TypeOK /\ Places /\ Copying
    BY <1>1 DEF RoutineInv, Progress
<1>3. at \in 1 .. 8 /\ at' \in 0 .. 8
    BY <1>1, <1>2 DEF TypeOK, Done
<1>4. s \in States /\ s.a \in Byte /\ x[1] \in Byte
    BY <1>2, Numerals
<1>5. RoundOf(2 ^ (8 - at), q) /\ 2 ^ (8 - at) \in Int /\ q \in Int /\ 2 ^ at = 2 * q
    BY <1>3, RoundPowers
<1>6. /\ BitAt(s.a, i) = (s.a \div q) % 2 /\ BitAt(x[1], i) = (x[1] \div q) % 2
    BY DEF BitAt
<1>7. BitAt(x[1], i) \in Bit /\ BitAt(s.a, i) \in Bit
  <2>1. i \in 0 .. 7
    BY <1>3
  <2> QED
    BY <1>4, <2>1, BitsOf
<1> HIDE DEF i, q
<1>8. b \in Byte /\ b \div q = x[1] \div q
  <2>1. s.a \div (2 * q) = x[1] \div (2 * q)
    BY <1>2, <1>5 DEF Copying
  <2> QED
    BY <1>4, <1>5, <2>1, BitCopied
<1>9. /\ tested.z = 1 - BitAt(x[1], i) /\ flags \in States /\ flags.a = s.a
  <2> DEFINE loaded == [s EXCEPT !.a = x[1]]
  <2>1. loaded \in States /\ loaded.a = x[1]
    BY <1>4, Load
  <2> HIDE DEF loaded
  <2>2. tested = [loaded EXCEPT !.z = 1 - BitAt(x[1], i), !.n = 0, !.h = 1]
    BY <2>1 DEF bit, loaded
  <2>3. 1 - BitAt(x[1], i) \in Bit /\ 0 \in Bit /\ 1 \in Bit
    BY <1>7, InBit
  <2>4. tested \in States /\ tested.z = 1 - BitAt(x[1], i)
    BY <2>1, <2>2, <2>3 DEF States
  <2> QED
    BY <1>4, <2>4, Load
<1> HIDE DEF tested, flags
<1>10. s' = [flags EXCEPT !.a = b]
  <2>1. CASE BitAt(x[1], i) = 1
    <3>1. s' = set(flags, i)
      BY <1>1, <1>9, <2>1
    <3>2. s.a + q * (1 - BitAt(s.a, i)) = b
      BY <1>4, <1>5, <1>6, <1>7, <2>1, InByte, InBit
    <3> QED
      BY <1>9, <3>1, <3>2 DEF set, q
  <2>2. CASE BitAt(x[1], i) = 0
    <3>1. s' = res(flags, i)
      BY <1>1, <1>9, <2>2
    <3>2. s.a - q * BitAt(s.a, i) = b
      BY <1>4, <1>5, <1>6, <1>7, <2>2, InByte, InBit
    <3> QED
      BY <1>9, <3>1, <3>2 DEF res, q
  <2> QED
    BY <1>7, <2>1, <2>2, InBit
<1> HIDE DEF b
<1>11. s' \in States /\ s'.a = b
    BY <1>8, <1>9, <1>10, Load
<1>12. TypeOK'
  <2>1. adjust' \in BOOLEAN /\ routine' \in Routines \cup {NoRoutine}
    BY <1>1, <1>2 DEF TypeOK
  <2>2. {x', y'} \subseteq Byte \X Byte /\ out' \in Byte \X Byte /\ hl' \in 0 .. MaxWord
    BY <1>1, <1>2 DEF TypeOK
  <2> QED
    BY <1>3, <1>11, <2>1, <2>2 DEF TypeOK
<1>13. Places'
  <2>1. /\ "copy_bits" \notin Decimal /\ "copy_bits" \notin FromLow \cup FromHigh
        /\ "copy_bits" # NoRoutine /\ "copy_bits" # "logic" /\ "copy_bits" # "mul"
    BY DEF Decimal, FromLow, FromHigh, NoRoutine
  <2>2. routine' = "copy_bits" /\ hl' = 0
    BY <1>1, <1>2, <2>1 DEF Places
  <2>3. ~adjust'
    <3>1. ~adjust
      BY <1>1, <1>2, <2>1 DEF Places
    <3> QED
      BY <1>1, <3>1
  <2> QED
    BY <2>1, <2>2, <2>3, Zenon DEF Places
<1>14. Copying'
  <2>1. 2 ^ at' = q
    BY <1>1 DEF q, i
  <2> QED
    BY <1>1, <1>8, <1>11, <2>1 DEF Copying
<1>15. Progress'
    BY <1>1, <1>14 DEF Progress
<1> QED
    BY <1>12, <1>13, <1>15 DEF RoutineInv

\* A step that changes nothing keeps the invariant.
LEMMA StutterKept == ASSUME RoutineInv, UNCHANGED vars PROVE RoutineInv'
<1>1. /\ routine' = routine /\ x' = x /\ y' = y /\ at' = at /\ adjust' = adjust
      /\ s' = s /\ hl' = hl /\ out' = out
    BY DEF vars, operands
<1> QED
    BY <1>1 DEF RoutineInv, TypeOK, Places, Progress, Adding, Subtracting, DecimalAdding,
                DecimalSubtracting, Negating, Counting, Shifting, Multiplying, Copying, Combining

\* Every step keeps the invariant: one case for each instruction.
LEMMA RoutineStep == RoutineInv /\ [Next]_vars => RoutineInv'
<1> SUFFICES ASSUME RoutineInv, [Next]_vars PROVE RoutineInv'
    OBVIOUS
<1>1. ASSUME routine = NoRoutine, NEW r \in Routines, NEW n \in Numbers, NEW m \in Numbers,
             Start(r, n, m)
      PROVE  RoutineInv'
    BY <1>1, StartKept
<1>2. ASSUME Add \/ Sub \/ Neg \/ Left \/ Right \/ SignedRight PROVE RoutineInv'
    BY <1>2, AddKept, SubKept, NegKept, LeftKept, RightKept, SignedRightKept
<1>3. ASSUME Inc \/ Dec \/ Daa \/ Logic \/ Mul \/ CopyBit PROVE RoutineInv'
    BY <1>3, IncKept, DecKept, DaaKept, LogicKept, MulKept, CopyBitKept
<1>4. ASSUME Finish PROVE RoutineInv'
    BY <1>4, FinishKept
<1>5. ASSUME UNCHANGED vars PROVE RoutineInv'
    BY <1>5, StutterKept
<1> QED
    BY <1>1, <1>2, <1>3, <1>4, <1>5 DEF Next

\* A word is the sum or the difference it has the carry of.
LEMMA Words16 ==
    ASSUME NEW w \in Int, 0 <= w, w <= 65535, NEW c \in Bit, NEW n \in Int
    PROVE  /\ w + 65536 * c = n => w = n % 65536 /\ c = AsBit(n > 65535)
           /\ w - 65536 * c = n => c = AsBit(n < 0)
<1>1. c \in Int /\ (c = 0 \/ c = 1)
    BY InBit
<1>2. w + 65536 * c = n => w = n % 65536 /\ (c = 1 <=> n > 65535)
    BY <1>1
<1>3. w - 65536 * c = n => (c = 1 <=> n < 0)
    BY <1>1
<1> QED
    BY <1>1, <1>2, <1>3 DEF AsBit

\* The value of two bytes is a word.
LEMMA ValueWord ==
    ASSUME NEW p \in Byte \X Byte
    PROVE  Value(p) \in Int /\ 0 <= Value(p) /\ Value(p) <= 65535
<1> DEFINE p1 == p[1]
           p2 == p[2]
<1>1. /\ p1 \in Int /\ 0 <= p1 /\ p1 <= 255
      /\ p2 \in Int /\ 0 <= p2 /\ p2 <= 255
    BY Pair, InByte
<1>2. Value(p) = p1 + 256 * p2
    BY DEF Value
<1> HIDE DEF p1, p2
<1> QED
    BY <1>1, <1>2

\* CCF changes the carry and two flags.
LEMMA Complemented == ASSUME NEW st \in States PROVE ccf(st) \in States
<1>1. 1 - st.c \in Bit /\ 0 \in Bit
    BY Parts, InBit
<1> QED
    BY <1>1 DEF ccf, States

\* What the invariant says of a sum that is done, and of ADD SP on its way.
LEMMA SumsExact == RoutineInv => SumExact /\ SpFlags
<1> SUFFICES ASSUME RoutineInv PROVE SumExact /\ SpFlags
    OBVIOUS
<1>1. /\ x \in Byte \X Byte /\ y \in Byte \X Byte /\ out \in Byte \X Byte
      /\ x[1] \in Byte /\ x[2] \in Byte /\ y[1] \in Byte /\ y[2] \in Byte /\ out[1] \in Byte
      /\ s \in States /\ s.c \in Bit
    BY Numerals DEF RoutineInv
<1>2. ccf(s) \in States
    BY <1>1, Complemented
<1>3. ASSUME Ended("add")
      PROVE  /\ Value(out) + 65536 * s.c = Value(x) + Value(y)
             /\ LET wide == add_hl(ccf(s), Value(x), Value(y))
                IN  wide.hl = Value(out) /\ wide.s.c = s.c /\ wide.s.h = s.h
  <2> DEFINE wide == add_hl(ccf(s), Value(x), Value(y))
             sum == Value(x) + Value(y)
  <2>1. Adding /\ at = Done /\ at # 2
    BY <1>3 DEF RoutineInv, Progress, Ended, Done
  <2>2. /\ Value(out) + 65536 * s.c = sum
        /\ s.h = AsBit((x[2] % 16) + (y[2] % 16) + AsBit(x[1] + y[1] > 255) > 15)
    BY <2>1 DEF Adding
  <2>3. sum \in Int /\ Value(out) \in Int /\ 0 <= Value(out) /\ Value(out) <= 65535
    BY <1>1, ValueWord
  <2> HIDE DEF sum
  <2>4. Value(out) = sum % 65536 /\ s.c = AsBit(sum > 65535)
    BY <1>1, <2>2, <2>3, Words16
  <2>5. /\ wide.hl = sum % 65536 /\ wide.s.c = AsBit(sum > 65535)
        /\ wide.s.h = AsBit((x[2] % 16) + (y[2] % 16) + AsBit(x[1] + y[1] > 255) > 15)
    <3> DEFINE w == add_hl(ccf(s), x[1] + 256 * x[2], y[1] + 256 * y[2])
               total == x[1] + 256 * x[2] + y[1] + 256 * y[2]
    <3>1. /\ w.hl = total % 65536 /\ w.s.c = AsBit(total > 65535)
          /\ w.s.h = AsBit((x[2] % 16) + (y[2] % 16) + AsBit(x[1] + y[1] > 255) > 15)
      BY <1>1, <1>2, WideSum
    <3>2. w = wide
      BY DEF Value
    <3>3. total = sum
      <4> DEFINE x1 == x[1]
                 x2 == x[2]
                 y1 == y[1]
                 y2 == y[2]
      <4>1. x1 \in Int /\ x2 \in Int /\ y1 \in Int /\ y2 \in Int
        BY <1>1, InByte
      <4>2. sum = (x1 + 256 * x2) + (y1 + 256 * y2) /\ total = x1 + 256 * x2 + y1 + 256 * y2
        BY DEF sum, Value
      <4> HIDE DEF x1, x2, y1, y2, total
      <4> QED
        BY <4>1, <4>2
    <3> HIDE DEF total, w, wide
    <3> QED
      BY <3>1, <3>2, <3>3
  <2> HIDE DEF wide
  <2>6. wide.hl = Value(out) /\ wide.s.c = s.c /\ wide.s.h = s.h
    BY <2>2, <2>4, <2>5
  <2> QED
    BY <2>2, <2>6 DEF sum, wide
<1>4. ASSUME routine = "add", at = 2
      PROVE  LET moved == add_sp(ccf(s), Value(x), y[1]).s IN moved.h = s.h /\ moved.c = s.c
  <2> DEFINE moved == add_sp(ccf(s), Value(x), y[1]).s
             m == x[1]
             n == y[1]
             o == out[1]
             c == s.c
  <2>1. Adding
    BY <1>4 DEF RoutineInv, Progress
  <2>2. o + 256 * c = m + n /\ s.h = AsBit((m % 16) + (n % 16) > 15)
    BY <1>4, <2>1 DEF Adding
  <2>3. c = AsBit(m + n > 255)
    <3>1. /\ m \in Int /\ n \in Int /\ o \in Int /\ 0 <= o /\ o <= 255 /\ (c = 0 \/ c = 1)
      BY <1>1, InByte, InBit
    <3> HIDE DEF m, n, o, c
    <3>2. c = 1 <=> m + n > 255
      BY <2>2, <3>1
    <3> QED
      BY <3>1, <3>2 DEF AsBit
  <2>4. /\ moved.h = AsBit((m % 16) + (n % 16) > 15)
        /\ moved.c = AsBit(m + n > 255)
    <3> DEFINE other == add_sp(ccf(s), x[1] + 256 * x[2], y[1]).s
    <3>1. /\ other.h = AsBit((m % 16) + (n % 16) > 15)
          /\ other.c = AsBit(m + n > 255)
      BY <1>1, <1>2, SpCarries
    <3>2. other = moved
      BY DEF Value
    <3> HIDE DEF other, moved, m, n
    <3> QED
      BY <3>1, <3>2
  <2> QED
    BY <2>2, <2>3, <2>4
<1> QED
    BY <1>3, <1>4 DEF SumExact, SpFlags

\* What it says of the other routines that are done.
LEMMA OthersExact ==
    RoutineInv => /\ DifferenceExact /\ DecimalExact /\ CountExact /\ ShiftExact
                  /\ ProductExact /\ BitsExact /\ RotationsExact
<1> SUFFICES ASSUME RoutineInv
             PROVE  /\ DifferenceExact /\ DecimalExact /\ CountExact /\ ShiftExact
                    /\ ProductExact /\ BitsExact /\ RotationsExact
    OBVIOUS
<1>1. /\ x \in Byte \X Byte /\ y \in Byte \X Byte /\ out \in Byte \X Byte
      /\ x[1] \in Byte /\ x[2] \in Byte /\ y[1] \in Byte
      /\ s \in States /\ s.c \in Bit /\ s.a \in Byte
    BY Numerals DEF RoutineInv
<1>2. /\ Value(x) \in Int /\ 0 <= Value(x) /\ Value(x) <= 65535
      /\ Value(y) \in Int
      /\ Value(out) \in Int /\ 0 <= Value(out) /\ Value(out) <= 65535
    BY <1>1, ValueWord
<1>3. DifferenceExact
  <2> SUFFICES ASSUME Ended("sub")
               PROVE  /\ Value(out) - 65536 * s.c = Value(x) - Value(y)
                      /\ s.c = AsBit(Value(x) < Value(y))
    BY DEF DifferenceExact
  <2> DEFINE n == Value(x) - Value(y)
  <2>1. Subtracting /\ at = Done /\ at # 2
    BY DEF RoutineInv, Progress, Ended, Done
  <2>2. Value(out) - 65536 * s.c = n
    BY <2>1 DEF Subtracting
  <2>3. n \in Int /\ (n < 0 <=> Value(x) < Value(y))
    BY <1>2
  <2> HIDE DEF n
  <2>4. s.c = AsBit(n < 0)
    BY <1>1, <1>2, <2>2, <2>3, Words16
  <2> QED
    BY <2>2, <2>3, <2>4 DEF n, AsBit
<1>4. DecimalExact
    BY DEF RoutineInv, Progress, Ended, DecimalExact, DecimalAdding, DecimalSubtracting
<1>5. CountExact
  <2>1. ASSUME Ended("neg") PROVE Value(out) = (65536 - Value(x)) % 65536
    <3> DEFINE n == 65536 - Value(x)
    <3>1. Negating /\ at = Done
      BY <2>1 DEF RoutineInv, Progress, Ended
    <3>2. Value(out) + 65536 * s.c = n /\ n \in Int
      BY <1>2, <3>1 DEF Negating
    <3> HIDE DEF n
    <3>3. Value(out) = n % 65536
      BY <1>1, <1>2, <3>2, Words16
    <3> QED
      BY <3>3 DEF n
  <2>2. ASSUME Ended("inc") \/ Ended("dec") PROVE Counting /\ at = Done
    BY <2>2 DEF RoutineInv, Progress, Ended
  <2>3. Ended("inc") => Value(out) = (Value(x) + 1) % 65536
    BY <2>2 DEF Counting, Ended
  <2>4. Ended("dec") => Value(out) = (Value(x) + 65535) % 65536
    BY <2>2 DEF Counting, Ended
  <2> QED
    BY <2>1, <2>3, <2>4 DEF CountExact
<1>6. ShiftExact
  <2>1. ASSUME Ended("left") \/ Ended("right") \/ Ended("signed_right")
        PROVE  Shifting /\ at = Done
    BY <2>1 DEF RoutineInv, Progress, Ended
  <2> QED
    BY <2>1 DEF ShiftExact, Shifting, Ended
<1>7. ProductExact
  <2> SUFFICES ASSUME Ended("mul") PROVE hl = (Value(x) * y[1]) % 65536
    BY DEF ProductExact
  <2>1. Multiplying /\ at = 0
    BY DEF RoutineInv, Progress, Ended, Done
  <2>2. y[1] \div 2 ^ at = y[1]
    <3>1. y[1] \in Int /\ 2 ^ at = 1
      BY <1>1, <2>1, PowersOfTwo, InByte
    <3> QED
      BY <3>1
  <2> QED
    BY <2>1, <2>2 DEF Multiplying
<1>8. BitsExact
  <2>1. ASSUME Ended("logic")
        PROVE  out[1] + out[2] = s.a /\ 2 * out[1] + out[2] = x[1] + y[1]
    BY <2>1 DEF RoutineInv, Progress, Ended, Combining
  <2>2. ASSUME Ended("copy_bits") PROVE s.a = x[1]
    <3>1. Copying /\ at = 0
      BY <2>2 DEF RoutineInv, Progress, Ended, Done
    <3>2. s.a \in Int /\ x[1] \in Int /\ 2 ^ at = 1
      BY <1>1, <3>1, PowersOfTwo, InByte
    <3>3. s.a \div 1 = x[1] \div 1
      BY <3>1, <3>2 DEF Copying
    <3> QED
      BY <3>2, <3>3
  <2> QED
    BY <2>1, <2>2 DEF BitsExact
<1>9. RotationsExact
  <2>1. [s EXCEPT !.a = x[2]] \in States
    BY <1>1, Load
  <2> QED
    BY <2>1, RotationsUndone DEF RotationsExact
<1> QED
    BY <1>3, <1>4, <1>5, <1>6, <1>7, <1>8, <1>9

\* Every routine computes its number exactly, whatever flags the ones before
\* it left: the carries, half carries and borrows of inst_impl.rs compose.
THEOREM RoutinesCorrect == Spec => []RoutinesExact
<1>1. RoutineInv => RoutinesExact
    BY SumsExact, OthersExact DEF RoutinesExact
<1> QED
    BY InitKept, RoutineStep, <1>1, PTL DEF Spec

-----------------------------------------------------------------------------
(* For every width of screen and tile, every limit of sprites and every    *)
(* buffer of sprites: the loop of calc_mode3_len() fetches each sprite     *)
(* once, and mode 3 never gets longer than LongestDraw.                    *)

\* The variables of the loop in their ranges.
LoopTypes ==
    /\ Len(sprite_buffer) \in 0 .. MaxSprites /\ \A i \in 1 .. Len(sprite_buffer) : sprite_buffer[i].x \in Nat
    /\ column \in 0 .. Width
    /\ bg_fifo_count \in 1 .. Tile
    /\ did_sprite_fetch \in BOOLEAN
    /\ sprite_mask \subseteq Sprites
    /\ sprite_penalty \in Nat

\* Five cycles are set aside for a fetch whose remainder is not paid yet.
Paid ==
    /\ sprite_penalty >= 6 * Cardinality(sprite_mask)
    /\ sprite_penalty + (IF did_sprite_fetch THEN 5 ELSE 0) <= 11 * Cardinality(sprite_mask)

FetchedInTime ==
    /\ \A i \in sprite_mask : FromEnd(i).x < column + Tile
    /\ 0 < column /\ column < Width =>
          \A i \in Sprites : FromEnd(i).x < column + Tile - 1 => i \in sprite_mask

IInv == LoopTypes /\ Paid /\ FetchedInTime

\* What a sequence holds is in the set it is a sequence of.
LEMMA ElementIn ==
    ASSUME NEW S, NEW seq \in Seq(S), NEW i \in 1 .. Len(seq)
    PROVE  seq[i] \in S
  OBVIOUS

\* Sets of sprites are finite, and no larger than the buffer allows.
LEMMA MaskFinite ==
    ASSUME LoopTypes
    PROVE  IsFiniteSet(sprite_mask) /\ Cardinality(sprite_mask) \in 0 .. MaxSprites
<1>1. Len(sprite_buffer) \in 0 .. MaxSprites /\ Len(sprite_buffer) \in Nat
  BY Sizes DEF LoopTypes
<1>2. IsFiniteSet(Sprites) /\ Cardinality(Sprites) = Len(sprite_buffer)
  <2>1. Cardinality(1 .. Len(sprite_buffer)) = IF 1 > Len(sprite_buffer) THEN 0 ELSE Len(sprite_buffer) - 1 + 1
    BY SMTT(30), <1>1, FS_Interval
  <2>2. IsFiniteSet(1 .. Len(sprite_buffer))
    BY <1>1, FS_Interval
  <2> QED
    BY <1>1, <2>1, <2>2 DEF Sprites
<1>3. IsFiniteSet(sprite_mask) /\ Cardinality(sprite_mask) <= Cardinality(Sprites)
  BY <1>2, FS_Subset DEF LoopTypes
<1>4. Cardinality(sprite_mask) \in Nat
  BY <1>3, FS_CardinalityType
<1> QED
  BY <1>1, <1>2, <1>3, <1>4, Sizes DEF LoopTypes

\* The loop before its first round, with any buffer.
LoopSet ==
    /\ Len(sprite_buffer) \in 0 .. MaxSprites /\ \A i \in 1 .. Len(sprite_buffer) : sprite_buffer[i].x \in Nat
    /\ \E obj_enable \in BOOLEAN : LoopStart(obj_enable)

\* The loop starts with nothing fetched and nothing paid.
LEMMA StartInv == LoopSet => IInv
<1> SUFFICES ASSUME LoopSet PROVE IInv
  OBVIOUS
<1>1. Cardinality(sprite_mask) = 0
  BY FS_EmptySet DEF LoopSet, LoopStart
<1>2. /\ column \in 0 .. Width /\ bg_fifo_count \in 1 .. Tile /\ ~(0 < column /\ column < Width)
      /\ did_sprite_fetch = FALSE /\ sprite_mask = {} /\ sprite_penalty = 0
  BY Sizes DEF LoopSet, LoopStart
<1>3. LoopTypes
  BY <1>2 DEF LoopTypes, LoopSet
<1>4. Paid
  BY <1>1, <1>2 DEF Paid
<1>5. FetchedInTime
  BY <1>2 DEF FetchedInTime
<1> QED
  BY <1>3, <1>4, <1>5 DEF IInv

\* A buffer of sprites is one.
LEMMA InitInv == LengthInit => IInv
<1> SUFFICES ASSUME LengthInit PROVE IInv
  OBVIOUS
<1>1. sprite_buffer \in Seq([x : Nat]) /\ Len(sprite_buffer) \in 0 .. MaxSprites
  BY Sizes DEF LengthInit
<1>2. \A i \in 1 .. Len(sprite_buffer) : sprite_buffer[i].x \in Nat
  <2> SUFFICES ASSUME NEW i \in 1 .. Len(sprite_buffer) PROVE sprite_buffer[i].x \in Nat
    OBVIOUS
  <2>1. sprite_buffer[i] \in [x : Nat]
    BY <1>1, ElementIn
  <2> QED
    BY <2>1
<1>3. PICK obj_enable \in BOOLEAN : LoopStart(obj_enable)
  BY DEF LengthInit
<1> QED
  BY <1>1, <1>2, <1>3, StartInv DEF LoopSet

\* A fetch adds one sprite and its six cycles.
LEMMA FetchInv == IInv /\ FetchSprite => IInv'
<1> SUFFICES ASSUME IInv, FetchSprite PROVE IInv'
  OBVIOUS
<1>1. PICK i \in Sprites : Reached(i) /\ sprite_mask' = sprite_mask \cup {i}
  BY DEF FetchSprite
<1>2. IsFiniteSet(sprite_mask) /\ Cardinality(sprite_mask) \in Nat
  BY MaskFinite DEF IInv
<1>3. Cardinality(sprite_mask') = Cardinality(sprite_mask) + 1
  BY <1>1, <1>2, FS_AddElement DEF Reached
<1>4. LoopTypes'
  <2>1. UNCHANGED <<sprite_buffer, column, bg_fifo_count>>
    BY DEF FetchSprite
  <2>2. sprite_mask' \subseteq Sprites' /\ did_sprite_fetch' \in BOOLEAN /\ sprite_penalty' \in Nat
    BY <1>1, <2>1 DEF IInv, LoopTypes, FetchSprite, FetchCycles, Sprites
  <2> QED
    BY <2>1, <2>2 DEF IInv, LoopTypes
<1>5. Paid'
  BY <1>2, <1>3 DEF IInv, LoopTypes, Paid, FetchSprite, FetchCycles
<1>6. FetchedInTime'
  <2>1. sprite_buffer' = sprite_buffer /\ column' = column
    BY DEF FetchSprite
  <2>2. \A j \in sprite_mask' : FromEnd(j)'.x < column' + Tile
    BY <1>1, <2>1 DEF IInv, FetchedInTime, Reached, FromEnd
  <2> QED
    BY <1>1, <2>1, <2>2 DEF IInv, FetchedInTime, FromEnd, Sprites
<1> QED
  BY <1>4, <1>5, <1>6 DEF IInv

\* A column goes by only when every sprite reached there was fetched, and pays
\* what was set aside.
LEMMA ColumnInv == IInv /\ NextColumn => IInv'
<1> SUFFICES ASSUME IInv, NextColumn PROVE IInv'
  OBVIOUS
<1>1. Cardinality(sprite_mask) \in Nat
  BY MaskFinite DEF IInv
<1>2. /\ sprite_buffer' = sprite_buffer /\ sprite_mask' = sprite_mask
      /\ column' = column + 1 /\ column < Width /\ did_sprite_fetch' = FALSE
  BY DEF NextColumn
<1>3. Remaining \in 0 .. 5
  BY Sizes DEF Remaining, IInv, LoopTypes
<1>4. LoopTypes'
  <2>1. column % Tile \in 0 .. Tile - 1
    BY Sizes DEF IInv, LoopTypes
  <2>2. bg_fifo_count' \in 1 .. Tile
    BY <2>1, Sizes DEF NextColumn
  <2>3. sprite_penalty' \in Nat
    BY <1>3 DEF NextColumn, IInv, LoopTypes
  <2>4. column' \in 0 .. Width
    BY <1>2, Sizes DEF IInv, LoopTypes
  <2>5. /\ Len(sprite_buffer') \in 0 .. MaxSprites
        /\ \A i \in 1 .. Len(sprite_buffer') : sprite_buffer'[i].x \in Nat
    BY <1>2 DEF IInv, LoopTypes
  <2>6. sprite_mask' \subseteq Sprites' /\ did_sprite_fetch' \in BOOLEAN
    BY <1>2 DEF IInv, LoopTypes, Sprites
  <2> QED
    BY <2>2, <2>3, <2>4, <2>5, <2>6 DEF LoopTypes
<1>5. Paid'
  <2>1. sprite_penalty' <= sprite_penalty + (IF did_sprite_fetch THEN 5 ELSE 0)
        /\ sprite_penalty' >= sprite_penalty
    BY <1>3 DEF NextColumn, IInv, LoopTypes
  <2> QED
    BY <1>1, <1>2, <1>4, <2>1 DEF IInv, LoopTypes, Paid
<1>6. FetchedInTime'
  <2>1. \A i \in Sprites : FromEnd(i).x \in Nat
    <3> SUFFICES ASSUME NEW i \in Sprites PROVE FromEnd(i).x \in Nat
      OBVIOUS
    <3>1. Len(sprite_buffer) \in Nat
      BY Sizes DEF IInv, LoopTypes
    <3>2. Len(sprite_buffer) + 1 - i \in 1 .. Len(sprite_buffer)
      BY <3>1 DEF Sprites
    <3> QED
      BY <3>2 DEF FromEnd, IInv, LoopTypes
  <2>2. \A i \in sprite_mask : FromEnd(i).x < column + 1 + Tile
    BY <2>1, Sizes DEF IInv, LoopTypes, FetchedInTime
  <2>3. \A i \in Sprites : FromEnd(i).x < column + Tile => i \in sprite_mask
    BY DEF NextColumn, Reached
  <2>4. column + 1 + Tile - 1 = column + Tile
    BY Sizes DEF IInv, LoopTypes
  <2> QED
    BY <1>2, <2>2, <2>3, <2>4 DEF FetchedInTime, FromEnd, Sprites
<1> QED
  BY <1>4, <1>5, <1>6 DEF IInv

\* A stutter changes nothing.
LEMMA StutterInv == IInv /\ UNCHANGED lengthVars => IInv'
  BY DEF IInv, LoopTypes, Paid, FetchedInTime, Sprites, FromEnd, lengthVars, loopVars

\* The invariant.
LEMMA Invariance == LengthSpec => []IInv
<1>1. IInv /\ [LoopStep]_lengthVars => IInv'
  BY FetchInv, ColumnInv, StutterInv DEF LoopStep
<1> QED
  BY InitInv, <1>1, PTL DEF LengthSpec

\* What the invariant says of the fetches.
LEMMA FetchedWhen == IInv => FetchedOnce
<1> SUFFICES ASSUME IInv PROVE FetchedOnce
  OBVIOUS
<1>1. Cardinality(sprite_mask) \in Nat
  BY MaskFinite DEF IInv
<1>2. sprite_penalty <= 11 * Cardinality(sprite_mask)
  BY <1>1 DEF IInv, LoopTypes, Paid
<1> QED
  BY <1>2 DEF IInv, Paid, FetchedInTime, FetchedOnce, FetchCycles

\* No pattern of sprites makes the loop of calc_mode3_len() pay twice for a
\* sprite or leave one out.
THEOREM FetchesCorrect == LengthSpec => []FetchedOnce
BY Invariance, FetchedWhen, PTL

\* The whole quotient is monotone in the numerator.
LEMMA QuarterMonotone == \A a, b \in Nat : a <= b => a \div 4 <= b \div 4 /\ a \div 4 \in Nat
  OBVIOUS

\* What it says of the length.
LEMMA LengthFits == IInv => LengthBounded
<1> SUFFICES ASSUME IInv, NEW scx \in Nat, NEW window \in BOOLEAN
             PROVE  calc_mode3_len(scx, window) \in DrawCycles .. LongestDraw
  BY DEF LengthBounded
<1>1. Cardinality(sprite_mask) \in 0 .. MaxSprites
  BY MaskFinite DEF IInv
<1>2. sprite_penalty \in Nat /\ sprite_penalty <= 11 * MaxSprites
  BY <1>1, Sizes DEF IInv, LoopTypes, Paid
<1>3. scx % Tile \in 0 .. Tile - 1
  BY Sizes
<1> DEFINE spent == (scx % Tile) + (IF window THEN WindowCycles ELSE 0) + sprite_penalty
           most  == Tile - 1 + WindowCycles + 11 * MaxSprites
<1>4. spent \in Nat /\ most \in Nat /\ spent <= most
  BY <1>2, <1>3, Sizes DEF WindowCycles
<1> HIDE DEF spent, most
<1>5. spent \div 4 \in Nat /\ most \div 4 \in Nat /\ spent \div 4 <= most \div 4
  BY <1>4, QuarterMonotone
<1>6. calc_mode3_len(scx, window) = DrawCycles + (spent \div 4) /\ LongestDraw = DrawCycles + (most \div 4)
  BY DEF calc_mode3_len, LongestDraw, spent, most
<1> QED
  BY <1>5, <1>6, Sizes

\* Mode 3 stays within the bounds that Ppu assumes of DrawLengths, whatever the
\* scrolling, the window and the sprites: 94 - draw_length never under-runs.
THEOREM LengthCorrect == LengthSpec => []LengthBounded
BY Invariance, LengthFits, PTL
-----------------------------------------------------------------------------
(* Induction over the natural numbers, and the loops of mode_oam_scan().   *)

\* A non-empty set of natural numbers has a least element.
LEMMA Least ==
    ASSUME NEW T, T \subseteq Nat, T # {}
    PROVE  \E a \in T : \A b \in T : a <= b
<1> DEFINE R == {p \in Nat \X Nat : p[1] < p[2]}
<1>1. IsWellFoundedOn(R, Nat)
  BY NatLessThanWellFounded DEF OpToRel
<1>2. \A a, b \in Nat : a < b => <<a, b>> \in R
  OBVIOUS
<1> HIDE DEF R
<1>3. PICK a \in T : \A b \in T : ~ (<<b, a>> \in R)
  BY <1>1, WFMin
<1>4. SUFFICES ASSUME NEW b \in T PROVE a <= b
  BY Zenon
<1>5. ~(b < a)
  BY <1>2, <1>3
<1> QED
  BY <1>5

\* Induction over the natural numbers, for a set instead of a predicate.
LEMMA NatInduct ==
    ASSUME NEW T, 0 \in T, \A n \in Nat : n \in T => n + 1 \in T
    PROVE  \A n \in Nat : n \in T
<1> DEFINE C == Nat \ T
<1>1. SUFFICES ASSUME C # {} PROVE FALSE
  OBVIOUS
<1>2. C \subseteq Nat
  OBVIOUS
<1> HIDE DEF C
<1>3. PICK a \in C : \A b \in C : a <= b
  BY <1>1, <1>2, Least
<1> USE DEF C
<1>4. a \in Nat /\ a # 0
  OBVIOUS
<1>5. a - 1 \in Nat /\ a - 1 \in T
  BY <1>3, <1>4
<1> QED
  BY <1>4, <1>5

\* The values a loop of n rounds goes through, round k being the function F[k].
LoopRun(g, n, F, start) ==
    g = [k \in 0 .. n |-> IF k = 0 THEN start ELSE F[k][g[k - 1]]]

\* Every such loop has a run.
LEMMA LoopRuns ==
    ASSUME NEW F, NEW start
    PROVE  \A n \in Nat : \E g : LoopRun(g, n, F, start)
<1> DEFINE T == {n \in Nat : \E g : LoopRun(g, n, F, start)}
<1>1. 0 \in T
  <2> DEFINE g == [k \in 0 .. 0 |-> start]
  <2>1. LoopRun(g, 0, F, start)
    BY DEF LoopRun
  <2> QED
    BY <2>1
<1>2. ASSUME NEW n \in Nat, n \in T PROVE n + 1 \in T
  <2>1. PICK g : LoopRun(g, n, F, start)
    BY <1>2
  <2> DEFINE h == [k \in 0 .. n + 1 |-> IF k <= n THEN g[k] ELSE F[k][g[k - 1]]]
  <2>2. \A k \in 0 .. n : h[k] = g[k]
    OBVIOUS
  <2>3. \A k \in 0 .. n + 1 : h[k] = IF k = 0 THEN start ELSE F[k][h[k - 1]]
    <3> SUFFICES ASSUME NEW k \in 0 .. n + 1
                 PROVE  h[k] = IF k = 0 THEN start ELSE F[k][h[k - 1]]
      OBVIOUS
    <3>1. k # 0 => h[k - 1] = g[k - 1]
      BY <2>2
    <3>2. CASE k <= n
      <4>1. h[k] = g[k] /\ g[k] = IF k = 0 THEN start ELSE F[k][g[k - 1]]
        BY <2>1, <2>2, <3>2 DEF LoopRun
      <4> HIDE DEF h
      <4> QED
        BY <3>1, <4>1
    <3>3. CASE k = n + 1
      <4>1. h[k] = F[k][g[k - 1]] /\ k # 0
        BY <3>3
      <4> HIDE DEF h
      <4> QED
        BY <3>1, <4>1
    <3> QED
      BY <3>2, <3>3
  <2>4. h = [k \in 0 .. n + 1 |-> h[k]]
    OBVIOUS
  <2>5. LoopRun(h, n + 1, F, start)
    <3> HIDE DEF h
    <3> QED
      BY <2>3, <2>4 DEF LoopRun
  <2> HIDE DEF h
  <2> QED
    BY <2>5
<1> HIDE DEF T
<1>3. \A n \in Nat : n \in T
  BY <1>1, <1>2, NatInduct
<1> QED
  BY <1>3 DEF T

\* What every round keeps holds after each of them.
LEMMA LoopKeeps ==
    ASSUME NEW n \in Nat, NEW g, NEW P, g[0] \in P[0],
           \A k \in 1 .. n : g[k - 1] \in P[k - 1] => g[k] \in P[k]
    PROVE  \A k \in 0 .. n : g[k] \in P[k]
<1> DEFINE T == {k \in Nat : k <= n => g[k] \in P[k]}
<1>1. 0 \in T
  OBVIOUS
<1>2. ASSUME NEW k \in Nat, k \in T PROVE k + 1 \in T
  <2>1. SUFFICES ASSUME k + 1 <= n PROVE g[k + 1] \in P[k + 1]
    OBVIOUS
  <2>2. g[k] \in P[k]
    BY <1>2, <2>1
  <2>3. k + 1 \in 1 .. n /\ (k + 1) - 1 = k
    BY <2>1
  <2>4. g[(k + 1) - 1] \in P[(k + 1) - 1] => g[k + 1] \in P[k + 1]
    BY <2>3
  <2> QED
    BY <2>2, <2>3, <2>4
<1> HIDE DEF T
<1>3. \A k \in Nat : k \in T
  BY <1>1, <1>2, NatInduct
<1> QED
  BY <1>3 DEF T

-----------------------------------------------------------------------------
(* The sprites the scan selects, by their places in OAM. *)

\* The sprites on the line among the first n of OAM, and those of them that
\* find room in the buffer.
OnLineUpTo(n) == {i \in 1 .. n : OnLine(oam[i], regs.obj_size)}
FirstOnLine(n) ==
    {i \in OnLineUpTo(n) : Cardinality({j \in OnLineUpTo(n) : j < i}) < MaxSprites}

\* The sequence buf holds the sprites of OAM at the places id.
Holds(buf, id, n) ==
    /\ buf \in Seq(SpriteType) /\ id \in [1 .. Len(buf) -> 1 .. n]
    /\ \A i \in 1 .. Len(buf) : buf[i] = oam[id[i]]

\* After n entries of OAM buf holds the first on the line in the order of OAM.
Scan(buf, id, n) ==
    /\ Holds(buf, id, n)
    /\ \A i, j \in 1 .. Len(buf) : i < j => id[i] < id[j]
    /\ {id[i] : i \in 1 .. Len(buf)} = FirstOnLine(n)
    /\ Len(buf) = IF Cardinality(OnLineUpTo(n)) < MaxSprites THEN Cardinality(OnLineUpTo(n))
                                                           ELSE MaxSprites

\* The places on the line are finitely many, one more with each sprite there.
LEMMA OnLineCounts ==
    ASSUME NEW n \in Nat
    PROVE  /\ IsFiniteSet(OnLineUpTo(n)) /\ Cardinality(OnLineUpTo(n)) \in Nat
           /\ OnLineUpTo(n) \subseteq 1 .. n
           /\ OnLine(oam[n + 1], regs.obj_size) =>
                 /\ OnLineUpTo(n + 1) = OnLineUpTo(n) \cup {n + 1}
                 /\ Cardinality(OnLineUpTo(n + 1)) = Cardinality(OnLineUpTo(n)) + 1
           /\ ~OnLine(oam[n + 1], regs.obj_size) => OnLineUpTo(n + 1) = OnLineUpTo(n)
<1>1. OnLineUpTo(n) \subseteq 1 .. n
  BY DEF OnLineUpTo
<1>2. IsFiniteSet(OnLineUpTo(n))
  BY <1>1, FS_Interval, FS_Subset
<1>3. Cardinality(OnLineUpTo(n)) \in Nat
  BY <1>2, FS_CardinalityType
<1>4. ASSUME OnLine(oam[n + 1], regs.obj_size)
      PROVE  OnLineUpTo(n + 1) = OnLineUpTo(n) \cup {n + 1}
  <2>1. \A i : i \in OnLineUpTo(n + 1) <=> i \in OnLineUpTo(n) \cup {n + 1}
    BY <1>4 DEF OnLineUpTo
  <2> QED
    BY <2>1
<1>5. n + 1 \notin OnLineUpTo(n)
  BY <1>1
<1>6. OnLineUpTo(n + 1) = OnLineUpTo(n) \cup {n + 1} =>
         Cardinality(OnLineUpTo(n + 1)) = Cardinality(OnLineUpTo(n)) + 1
  BY <1>2, <1>5, FS_AddElement
<1>7. ASSUME ~OnLine(oam[n + 1], regs.obj_size)
      PROVE  OnLineUpTo(n + 1) = OnLineUpTo(n)
  <2>1. \A i : i \in OnLineUpTo(n + 1) <=> i \in OnLineUpTo(n)
    BY <1>7 DEF OnLineUpTo
  <2> QED
    BY <2>1
<1> QED
  BY <1>1, <1>2, <1>3, <1>4, <1>6, <1>7

\* The next sprite on the line finds room if the buffer is not full.
LEMMA FirstOnLineGrows ==
    ASSUME NEW n \in Nat
    PROVE  /\ ~OnLine(oam[n + 1], regs.obj_size) => FirstOnLine(n + 1) = FirstOnLine(n)
           /\ OnLine(oam[n + 1], regs.obj_size) =>
                 FirstOnLine(n + 1) = IF Cardinality(OnLineUpTo(n)) < MaxSprites
                                      THEN FirstOnLine(n) \cup {n + 1} ELSE FirstOnLine(n)
<1>1. ~OnLine(oam[n + 1], regs.obj_size) => FirstOnLine(n + 1) = FirstOnLine(n)
  BY OnLineCounts DEF FirstOnLine
<1>2. ASSUME OnLine(oam[n + 1], regs.obj_size)
      PROVE  FirstOnLine(n + 1) = IF Cardinality(OnLineUpTo(n)) < MaxSprites
                                  THEN FirstOnLine(n) \cup {n + 1} ELSE FirstOnLine(n)
  <2>1. /\ OnLineUpTo(n + 1) = OnLineUpTo(n) \cup {n + 1}
        /\ OnLineUpTo(n) \subseteq 1 .. n
    BY <1>2, OnLineCounts
  <2>2. ASSUME NEW i \in OnLineUpTo(n)
        PROVE  {j \in OnLineUpTo(n + 1) : j < i} = {j \in OnLineUpTo(n) : j < i}
    BY <2>1
  <2>3. {j \in OnLineUpTo(n + 1) : j < n + 1} = OnLineUpTo(n)
    BY <2>1
  <2>4. \A i : i \in FirstOnLine(n + 1) <=>
               \/ i \in FirstOnLine(n)
               \/ i = n + 1 /\ Cardinality(OnLineUpTo(n)) < MaxSprites
    <3> SUFFICES ASSUME NEW i
                 PROVE  i \in FirstOnLine(n + 1) <=>
                           \/ i \in FirstOnLine(n)
                           \/ i = n + 1 /\ Cardinality(OnLineUpTo(n)) < MaxSprites
      OBVIOUS
    <3>1. CASE i \in OnLineUpTo(n)
      <4>1. i # n + 1 /\ i \in OnLineUpTo(n + 1)
        BY <2>1, <3>1
      <4> QED
        BY <2>2, <3>1, <4>1 DEF FirstOnLine
    <3>2. CASE i = n + 1
      <4>1. i \notin OnLineUpTo(n) /\ i \in OnLineUpTo(n + 1)
        BY <2>1, <3>2
      <4> QED
        BY <2>3, <3>2, <4>1 DEF FirstOnLine
    <3>3. CASE i \notin OnLineUpTo(n) /\ i # n + 1
      BY <2>1, <3>3 DEF FirstOnLine
    <3> QED
      BY <3>1, <3>2, <3>3
  <2>5. CASE Cardinality(OnLineUpTo(n)) < MaxSprites
    BY <2>4, <2>5
  <2>6. CASE ~(Cardinality(OnLineUpTo(n)) < MaxSprites)
    BY <2>4, <2>6
  <2> QED
    BY <2>5, <2>6
<1> QED
  BY <1>1, <1>2

\* One round of the scan.
LEMMA ScanRound ==
    ASSUME NEW n \in Nat, NEW buf, NEW id, Scan(buf, id, n), oam[n + 1] \in SpriteType
    PROVE  \E longer : Scan(IF OnLine(oam[n + 1], regs.obj_size) /\ Len(buf) < MaxSprites
                            THEN Append(buf, oam[n + 1]) ELSE buf, longer, n + 1)
<1> DEFINE found == OnLine(oam[n + 1], regs.obj_size)
           count == Cardinality(OnLineUpTo(n))
           m     == Len(buf)
<1>1. /\ buf \in Seq(SpriteType) /\ m \in Nat /\ id \in [1 .. m -> 1 .. n]
      /\ \A i \in 1 .. m : buf[i] = oam[id[i]]
      /\ \A i, j \in 1 .. m : i < j => id[i] < id[j]
      /\ {id[i] : i \in 1 .. m} = FirstOnLine(n)
      /\ m = IF count < MaxSprites THEN count ELSE MaxSprites
  BY DEF Scan, Holds
<1>2. count \in Nat /\ MaxSprites \in Nat
  BY OnLineCounts, Sizes
<1>3. CASE found /\ m < MaxSprites
  <2> DEFINE longer == [i \in 1 .. m + 1 |-> IF i <= m THEN id[i] ELSE n + 1]
             t == Append(buf, oam[n + 1])
  <2>1. /\ t \in Seq(SpriteType) /\ Len(t) = m + 1 /\ t[m + 1] = oam[n + 1]
        /\ \A i \in 1 .. m : t[i] = buf[i]
    BY <1>1
  <2>2. count < MaxSprites /\ m = count
    BY <1>1, <1>2, <1>3
  <2>3. \A i \in 1 .. m : longer[i] = id[i] /\ id[i] \in 1 .. n
    BY <1>1
  <2>4. longer[m + 1] = n + 1 /\ longer \in [1 .. m + 1 -> 1 .. n + 1]
    BY <1>1
  <2> HIDE DEF longer, t, m, count
  <2>5. Holds(t, longer, n + 1)
    <3>1. \A i \in 1 .. m + 1 : t[i] = oam[longer[i]]
      <4> SUFFICES ASSUME NEW i \in 1 .. m + 1 PROVE t[i] = oam[longer[i]]
        OBVIOUS
      <4>1. CASE i = m + 1
        BY <2>1, <2>4, <4>1
      <4>2. CASE i \in 1 .. m
        BY <1>1, <2>1, <2>3, <4>2
      <4> QED
        BY <1>1, <4>1, <4>2
    <3> QED
      BY <2>1, <2>4, <3>1 DEF Holds
  <2>6. ASSUME NEW i \in 1 .. m + 1, NEW j \in 1 .. m + 1, i < j PROVE longer[i] < longer[j]
    <3>1. i \in 1 .. m
      BY <1>1, <2>6
    <3>2. CASE j = m + 1
      BY <2>3, <2>4, <3>1, <3>2
    <3>3. CASE j \in 1 .. m
      BY <1>1, <2>3, <2>6, <3>1, <3>3
    <3> QED
      BY <1>1, <3>2, <3>3
  <2>7. {longer[i] : i \in 1 .. m + 1} = FirstOnLine(n + 1)
    <3>1. FirstOnLine(n + 1) = FirstOnLine(n) \cup {n + 1}
      BY <1>3, <2>2, FirstOnLineGrows DEF count
    <3>2. {longer[i] : i \in 1 .. m + 1} = {longer[i] : i \in 1 .. m} \cup {longer[m + 1]}
      <4>1. 1 .. m + 1 = (1 .. m) \cup {m + 1}
        BY <1>1
      <4> QED
        BY <4>1
    <3>3. {longer[i] : i \in 1 .. m} = {id[i] : i \in 1 .. m}
      BY <2>3
    <3> QED
      BY <1>1, <2>4, <3>1, <3>2, <3>3
  <2>8. Cardinality(OnLineUpTo(n + 1)) = count + 1
    BY <1>3, OnLineCounts DEF count
  <2>9. m + 1 = IF count + 1 < MaxSprites THEN count + 1 ELSE MaxSprites
    BY <1>2, <2>2
  <2>10. Scan(t, longer, n + 1)
    BY <2>1, <2>5, <2>6, <2>7, <2>8, <2>9 DEF Scan
  <2> QED
    BY <1>3, <2>10 DEF t, m
<1>4. CASE ~(found /\ m < MaxSprites)
  <2>1. Holds(buf, id, n + 1)
    BY <1>1 DEF Holds
  <2>2. FirstOnLine(n + 1) = FirstOnLine(n)
    BY <1>1, <1>2, <1>4, FirstOnLineGrows
  <2>3. m = IF Cardinality(OnLineUpTo(n + 1)) < MaxSprites
            THEN Cardinality(OnLineUpTo(n + 1)) ELSE MaxSprites
    <3>1. CASE ~found
      BY <1>1, <3>1, OnLineCounts
    <3>2. CASE found
      <4>1. Cardinality(OnLineUpTo(n + 1)) = count + 1
        BY <3>2, OnLineCounts
      <4> HIDE DEF m, count
      <4> QED
        BY <1>1, <1>2, <1>4, <3>2, <4>1
    <3> QED
      BY <3>1, <3>2
  <2>4. Scan(buf, id, n + 1)
    BY <1>1, <2>1, <2>2, <2>3 DEF Scan
  <2> QED
    BY <1>4, <2>4
<1> QED
  BY <1>3, <1>4

\* What the scan selects.
LEMMA ScanSelects ==
    ASSUME oam \in Seq(SpriteType)
    PROVE  \E id : Scan(Selected, id, Len(oam))
<1> DEFINE L == Len(oam)
           Round(k, buf) == IF OnLine(oam[k], regs.obj_size) /\ Len(buf) < MaxSprites
                          THEN Append(buf, oam[k]) ELSE buf
           U == Seq(SpriteType)
           F == [k \in 1 .. L |-> [buf \in U |-> Round(k, buf)]]
           P == [k \in 0 .. L |-> {buf \in U : \E id : Scan(buf, id, k)}]
           IsRun(g) == g = [k \in 0 .. L |-> IF k = 0 THEN <<>>
                               ELSE IF OnLine(oam[k], regs.obj_size) /\ Len(g[k - 1]) < MaxSprites
                                    THEN Append(g[k - 1], oam[k])
                                    ELSE g[k - 1]]
<1>1. L \in Nat /\ \A k \in 1 .. L : oam[k] \in SpriteType
  OBVIOUS
<1>2. <<>> \in P[0]
  <2>1. OnLineUpTo(0) = {} /\ FirstOnLine(0) = {}
    BY DEF OnLineUpTo, FirstOnLine
  <2>2. Cardinality(OnLineUpTo(0)) = 0
    BY <2>1, FS_EmptySet
  <2>3. <<>> \in U /\ Len(<<>>) = 0
    OBVIOUS
  <2> DEFINE none == [i \in 1 .. 0 |-> 1]
  <2>4. none \in [1 .. 0 -> 1 .. 0] /\ {none[i] : i \in 1 .. 0} = {}
    OBVIOUS
  <2> HIDE DEF none, U
  <2>5. Holds(<<>>, none, 0)
    BY <2>3, <2>4 DEF Holds, U
  <2>6. Scan(<<>>, none, 0)
    BY <2>1, <2>2, <2>3, <2>4, <2>5, Sizes DEF Scan
  <2> QED
    BY <1>1, <2>3, <2>6
<1>3. ASSUME NEW k \in 1 .. L, NEW buf \in P[k - 1] PROVE Round(k, buf) \in P[k]
  <2>1. k - 1 \in 0 .. L /\ k - 1 \in Nat /\ (k - 1) + 1 = k
    BY <1>1
  <2>2. PICK id : Scan(buf, id, k - 1)
    BY <2>1
  <2>3. oam[(k - 1) + 1] \in SpriteType
    BY <1>1, <2>1
  <2>4. \E longer : Scan(Round((k - 1) + 1, buf), longer, (k - 1) + 1)
    BY <2>1, <2>2, <2>3, ScanRound
  <2>5. PICK longer : Scan(Round(k, buf), longer, k)
    BY <2>1, <2>4
  <2>6. Round(k, buf) \in U
    BY <2>5 DEF Scan, Holds
  <2>7. k \in 0 .. L
    BY <1>1
  <2>8. P[k] = {q \in U : \E place : Scan(q, place, k)}
    BY <2>7
  <2> HIDE DEF Round, U, P, L
  <2> QED
    BY <2>5, <2>6, <2>8, Zenon
<1>4. \A k \in 0 .. L : P[k] \subseteq U
  OBVIOUS
<1> HIDE DEF P
<1>5. \E g : IsRun(g)
  <2>1. PICK g : LoopRun(g, L, F, <<>>)
    BY <1>1, LoopRuns
  <2>2. g[0] = <<>> /\ \A k \in 1 .. L : g[k] = F[k][g[k - 1]]
    <3> HIDE DEF F
    <3> QED
      BY <1>1, <2>1 DEF LoopRun
  <2>3. \A k \in 1 .. L : \A buf \in U : F[k][buf] = Round(k, buf)
    OBVIOUS
  <2> HIDE DEF F, Round
  <2>4. \A k \in 1 .. L : g[k - 1] \in P[k - 1] => g[k] \in P[k]
    BY <1>1, <1>3, <1>4, <2>2, <2>3
  <2>5. \A k \in 0 .. L : g[k] \in P[k]
    BY <1>1, <1>2, <2>2, <2>4, LoopKeeps
  <2>6. \A k \in 1 .. L : F[k][g[k - 1]] = Round(k, g[k - 1])
    BY <1>1, <1>4, <2>3, <2>5
  <2>7. g = [k \in 0 .. L |-> IF k = 0 THEN <<>> ELSE Round(k, g[k - 1])]
    BY <1>1, <2>1, <2>6 DEF LoopRun
  <2>8. IsRun(g)
    BY <2>7 DEF Round
  <2> QED
    BY <2>8
<1> DEFINE run == CHOOSE g : IsRun(g)
<1>6. IsRun(run)
  BY <1>5, Zenon
<1>7. Selected = run[L]
  BY Zenon DEF Selected
<1> HIDE DEF run
<1>8. run[0] = <<>> /\ \A k \in 1 .. L : run[k] = Round(k, run[k - 1])
  <2>1. run = [k \in 0 .. L |-> IF k = 0 THEN <<>> ELSE Round(k, run[k - 1])]
    BY <1>6
  <2> HIDE DEF Round, IsRun
  <2> QED
    BY <1>1, <2>1
<1> HIDE DEF IsRun, Round
<1>9. \A k \in 1 .. L : run[k - 1] \in P[k - 1] => run[k] \in P[k]
  BY <1>3, <1>8
<1>10. \A k \in 0 .. L : run[k] \in P[k]
  BY <1>1, <1>2, <1>8, <1>9, LoopKeeps
<1>11. Selected \in P[L]
  BY <1>1, <1>7, <1>10
<1> QED
  BY <1>1, <1>11 DEF P

-----------------------------------------------------------------------------
(* The order the sprites are painted in. *)

\* The sequence buf is the first k of the sprites at the places id, from right to
\* left, and of those at one x the one that comes later in OAM first.
SortedTo(buf, g, k, id) ==
    /\ buf \in Seq(SpriteType) /\ Len(buf) = k /\ g \in [1 .. k -> Nat]
    /\ \A i \in 1 .. k : buf[i] = oam[g[i]]
    /\ {g[i] : i \in 1 .. k} = {id[i] : i \in 1 .. k}
    /\ \A i, j \in 1 .. k : i < j => buf[i].x > buf[j].x \/ (buf[i].x = buf[j].x /\ g[i] > g[j])

\* The position of a sprite is a number.
LEMMA SpriteX == \A o \in SpriteType : o.x \in Nat
  BY DEF SpriteType

\* What a sequence holds is in the set it is a sequence of.
LEMMA ElementOf ==
    ASSUME NEW S, NEW seq \in Seq(S)
    PROVE  DOMAIN seq = 1 .. Len(seq) /\ Len(seq) \in Nat /\ \A i \in 1 .. Len(seq) : seq[i] \in S
  OBVIOUS

\* A function on 1 .. n is a sequence.
LEMMA AsSequence ==
    ASSUME NEW S, NEW n \in Nat, NEW f \in [1 .. n -> S]
    PROVE  f \in Seq(S) /\ Len(f) = n
  OBVIOUS

\* The sequence t is buf, of length k, with o put in at p, where it belongs.
PutIn(t, buf, k, o, p) ==
    /\ p \in 1 .. k + 1
    /\ \A i \in 1 .. p - 1 : buf[i].x >= o.x
    /\ \A i \in p .. k : o.x > buf[i].x
    /\ t = [i \in 1 .. k + 1 |-> IF i < p THEN buf[i] ELSE IF i = p THEN o ELSE buf[i - 1]]

\* The element inserted comes after those that are not less, and all others
\* keep their order.
LEMMA InsertParts ==
    ASSUME NEW k \in Nat, NEW buf \in Seq(SpriteType), Len(buf) = k, NEW o \in SpriteType,
           \A i, j \in 1 .. k : i < j => buf[i].x >= buf[j].x
    PROVE  \E p : PutIn(Insert(buf, o), buf, k, o, p)
<1> DEFINE before == {i \in DOMAIN buf : buf[i].x >= o.x}
           T == {i \in 1 .. k + 1 : i \notin before}
<1>1. /\ DOMAIN buf = 1 .. k /\ o.x \in Nat
      /\ \A i \in 1 .. k : buf[i] \in SpriteType
  BY SpriteX, ElementOf
<1>2. \A i \in 1 .. k : buf[i].x \in Nat
  BY <1>1, SpriteX
<1>3. k + 1 \in T
  BY <1>1
<1>4. PICK p \in T : \A i \in T : p <= i
  <2>1. T # {}
    BY <1>3
  <2>2. T \subseteq Nat
    <3> HIDE DEF before
    <3> QED
      OBVIOUS
  <2> HIDE DEF T
  <2> QED
    BY <2>1, <2>2, Least
<1>5. p \in 1 .. k + 1 /\ p \notin before
  BY <1>4
<1>6. \A i \in 1 .. k + 1 : i < p <=> i \in before
  <2> SUFFICES ASSUME NEW i \in 1 .. k + 1 PROVE i < p <=> i \in before
    OBVIOUS
  <2>1. ASSUME i < p PROVE i \in before
    <3>1. i \notin T
      BY <1>4, <1>5, <2>1
    <3> QED
      BY <3>1
  <2>2. ASSUME i \in before, ~(i < p) PROVE FALSE
    <3>1. i \in 1 .. k /\ buf[i].x >= o.x
      BY <1>1, <2>2
    <3>2. p # i
      BY <1>5, <2>2
    <3>3. p < i /\ p \in 1 .. k
      BY <1>5, <2>2, <3>1, <3>2
    <3>4. buf[p].x >= buf[i].x
      BY <3>1, <3>3
    <3>5. buf[p].x >= o.x
      BY <1>1, <1>2, <3>1, <3>3, <3>4
    <3> QED
      BY <1>1, <1>5, <3>3, <3>5
  <2> QED
    BY <2>1, <2>2
<1>7. \A i \in 1 .. p - 1 : buf[i].x >= o.x
  BY <1>5, <1>6
<1>8. \A i \in p .. k : o.x > buf[i].x
  <2> SUFFICES ASSUME NEW i \in p .. k PROVE o.x > buf[i].x
    OBVIOUS
  <2>1. i \in 1 .. k /\ i \notin before
    BY <1>5, <1>6
  <2>2. ~(buf[i].x >= o.x)
    BY <1>1, <2>1
  <2> QED
    BY <1>1, <1>2, <2>1, <2>2
<1>9. \A i \in 1 .. k + 1 : i = p <=> i \notin before /\ (i = 1 \/ i - 1 \in before)
  <2> SUFFICES ASSUME NEW i \in 1 .. k + 1
               PROVE  i = p <=> i \notin before /\ (i = 1 \/ i - 1 \in before)
    OBVIOUS
  <2>1. i # 1 => i - 1 \in 1 .. k + 1
    OBVIOUS
  <2>2. i # 1 => (i - 1 \in before <=> i - 1 < p)
    BY <1>6, <2>1
  <2>3. i \in before <=> i < p
    BY <1>6
  <2> HIDE DEF before
  <2> QED
    BY <1>5, <2>2, <2>3
<1>10. Insert(buf, o) = [i \in 1 .. k + 1 |-> IF i < p THEN buf[i] ELSE IF i = p THEN o ELSE buf[i - 1]]
  <2>1. Insert(buf, o) = [i \in 1 .. k + 1 |-> IF i \in before THEN buf[i]
                                             ELSE IF i = 1 \/ i - 1 \in before THEN o ELSE buf[i - 1]]
    BY DEF Insert
  <2> HIDE DEF before
  <2> QED
    BY <1>6, <1>9, <2>1
<1> QED
  BY <1>5, <1>7, <1>8, <1>10 DEF PutIn

\* One round of the sort: the next sprite comes earlier in OAM than the others.
LEMMA SortRound ==
    ASSUME NEW k \in Nat, NEW buf, NEW g, NEW id, SortedTo(buf, g, k, id),
           id[k + 1] \in Nat, oam[id[k + 1]] \in SpriteType,
           \A i \in 1 .. k : id[i] > id[k + 1] /\ id[i] \in Nat
    PROVE  \E h : SortedTo(Insert(buf, oam[id[k + 1]]), h, k + 1, id)
<1> DEFINE place == id[k + 1]
           o == oam[place]
           t == Insert(buf, o)
<1>1. /\ buf \in Seq(SpriteType) /\ Len(buf) = k /\ g \in [1 .. k -> Nat]
      /\ \A i \in 1 .. k : buf[i] = oam[g[i]]
  BY DEF SortedTo
<1>a. {g[i] : i \in 1 .. k} = {id[i] : i \in 1 .. k}
  BY DEF SortedTo
<1>b. \A i, j \in 1 .. k : i < j => buf[i].x > buf[j].x \/ (buf[i].x = buf[j].x /\ g[i] > g[j])
  BY DEF SortedTo
<1>2. o \in SpriteType /\ o.x \in Nat /\ place \in Nat
  BY SpriteX
<1>3. \A i \in 1 .. k : buf[i] \in SpriteType /\ buf[i].x \in Nat
  BY <1>1, SpriteX, ElementOf
<1>4. \A i \in 1 .. k : g[i] > place /\ g[i] \in Nat
  <2> SUFFICES ASSUME NEW i \in 1 .. k PROVE g[i] > place /\ g[i] \in Nat
    OBVIOUS
  <2>1. g[i] \in {id[j] : j \in 1 .. k} /\ g[i] \in Nat
    BY <1>1, <1>a
  <2>2. PICK j \in 1 .. k : g[i] = id[j]
    BY <2>1
  <2> QED
    BY <2>1, <2>2
<1>c. o = oam[place]
  OBVIOUS
<1> HIDE DEF place, o
<1>5. \A i, j \in 1 .. k : i < j => buf[i].x >= buf[j].x
  <2> SUFFICES ASSUME NEW i \in 1 .. k, NEW j \in 1 .. k, i < j PROVE buf[i].x >= buf[j].x
    OBVIOUS
  <2>1. buf[i].x > buf[j].x \/ buf[i].x = buf[j].x
    BY <1>b
  <2>2. buf[i].x \in Nat /\ buf[j].x \in Nat
    BY <1>3
  <2> QED
    BY <2>1, <2>2
<1>d. PICK p : PutIn(t, buf, k, o, p)
  <2>1. buf \in Seq(SpriteType) /\ Len(buf) = k /\ o \in SpriteType
    BY <1>1, <1>2
  <2> QED
    BY <2>1, <1>5, InsertParts
<1>6. /\ p \in 1 .. k + 1
      /\ \A i \in 1 .. p - 1 : buf[i].x >= o.x
      /\ \A i \in p .. k : o.x > buf[i].x
      /\ t = [i \in 1 .. k + 1 |-> IF i < p THEN buf[i] ELSE IF i = p THEN o ELSE buf[i - 1]]
  <2> HIDE DEF t
  <2> QED
    BY <1>d DEF PutIn
<1> DEFINE h == [i \in 1 .. k + 1 |-> IF i < p THEN g[i] ELSE IF i = p THEN place ELSE g[i - 1]]
<1> HIDE DEF t
<1>7. \A i \in 1 .. k + 1 :
         /\ i < p => i \in 1 .. k /\ t[i] = buf[i] /\ h[i] = g[i]
         /\ i = p => t[i] = o /\ h[i] = place
         /\ i > p => i - 1 \in 1 .. k /\ t[i] = buf[i - 1] /\ h[i] = g[i - 1]
  BY <1>6
<1>8. t \in [1 .. k + 1 -> SpriteType] /\ h \in [1 .. k + 1 -> Nat]
  <2>1. \A i \in 1 .. k + 1 : t[i] \in SpriteType /\ h[i] \in Nat
    <3> SUFFICES ASSUME NEW i \in 1 .. k + 1 PROVE t[i] \in SpriteType /\ h[i] \in Nat
      OBVIOUS
    <3> HIDE DEF h
    <3>1. i < p \/ i = p \/ i > p
      BY <1>6
    <3> QED
      BY <1>2, <1>3, <1>4, <1>7, <3>1
  <2>2. t = [i \in 1 .. k + 1 |-> t[i]] /\ h = [i \in 1 .. k + 1 |-> h[i]]
    BY <1>6
  <2> HIDE DEF h
  <2> QED
    BY <2>1, <2>2
<1> HIDE DEF h
<1>9. t \in Seq(SpriteType) /\ Len(t) = k + 1
  BY <1>8, AsSequence
<1>10. \A i \in 1 .. k + 1 : t[i] = oam[h[i]]
  <2> SUFFICES ASSUME NEW i \in 1 .. k + 1 PROVE t[i] = oam[h[i]]
    OBVIOUS
  <2>1. i < p \/ i = p \/ i > p
    BY <1>6
  <2> QED
    BY <1>1, <1>7, <1>c, <2>1
<1>11. {h[i] : i \in 1 .. k + 1} = {id[i] : i \in 1 .. k + 1}
  <2>1. {h[i] : i \in 1 .. k + 1} = {g[i] : i \in 1 .. k} \cup {place}
    <3>1. ASSUME NEW i \in 1 .. k PROVE \E j \in 1 .. k + 1 : h[j] = g[i]
      <4>1. CASE i < p
        BY <1>7, <4>1
      <4>2. CASE i >= p
        <5>1. i + 1 \in 1 .. k + 1 /\ i + 1 > p /\ (i + 1) - 1 = i
          BY <1>6, <4>2
        <5> QED
          BY <1>7, <5>1
      <4> QED
        BY <1>6, <4>1, <4>2
    <3>2. h[p] = place
      BY <1>6, <1>7
    <3>3. ASSUME NEW i \in 1 .. k + 1 PROVE h[i] = place \/ \E j \in 1 .. k : h[i] = g[j]
      <4>1. i < p \/ i = p \/ i > p
        BY <1>6
      <4> QED
        BY <1>7, <4>1
    <3>4. p \in 1 .. k + 1
      BY <1>6
    <3>5. \A v : v \in {h[i] : i \in 1 .. k + 1} <=> v \in {g[i] : i \in 1 .. k} \/ v = place
      BY <3>1, <3>2, <3>3, <3>4
    <3> QED
      BY <3>5
  <2>2. {id[i] : i \in 1 .. k + 1} = {id[i] : i \in 1 .. k} \cup {place}
    <3>1. 1 .. k + 1 = (1 .. k) \cup {k + 1}
      OBVIOUS
    <3> QED
      BY <3>1 DEF place
  <2> QED
    BY <1>a, <2>1, <2>2
<1>12. ASSUME NEW i \in 1 .. k + 1, NEW j \in 1 .. k + 1, i < j
       PROVE  t[i].x > t[j].x \/ (t[i].x = t[j].x /\ h[i] > h[j])
  <2>1. CASE j < p
    <3>1. i < p
      BY <1>6, <1>12, <2>1
    <3> QED
      BY <1>b, <1>7, <1>12, <2>1, <3>1
  <2>2. CASE j = p
    <3>1. i < p /\ i \in 1 .. p - 1
      BY <1>6, <1>12, <2>2
    <3>2. buf[i].x >= o.x /\ i \in 1 .. k /\ t[i] = buf[i] /\ h[i] = g[i] /\ t[j] = o /\ h[j] = place
      BY <1>6, <1>7, <2>2, <3>1
    <3> QED
      BY <1>2, <1>3, <1>4, <3>2
  <2>3. CASE j > p /\ i < p
    <3>1. i \in 1 .. k /\ j - 1 \in 1 .. k /\ i < j - 1
      BY <1>6, <1>7, <2>3
    <3> QED
      BY <1>b, <1>7, <2>3, <3>1
  <2>4. CASE j > p /\ i = p
    <3>1. j - 1 \in p .. k
      BY <1>6, <2>4
    <3>2. o.x > buf[j - 1].x /\ t[i] = o /\ t[j] = buf[j - 1]
      BY <1>6, <1>7, <2>4, <3>1
    <3> QED
      BY <3>2
  <2>5. CASE j > p /\ i > p
    <3>1. i - 1 \in 1 .. k /\ j - 1 \in 1 .. k /\ i - 1 < j - 1
      BY <1>6, <1>7, <1>12, <2>5
    <3> QED
      BY <1>b, <1>7, <2>5, <3>1
  <2> QED
    BY <1>6, <2>1, <2>2, <2>3, <2>4, <2>5
<1>13. SortedTo(t, h, k + 1, id)
  BY <1>8, <1>9, <1>10, <1>11, <1>12 DEF SortedTo
<1> QED
  BY <1>13 DEF t, o, place

\* The sort sorts.
LEMMA SortSorts ==
    ASSUME NEW r \in Seq(SpriteType), NEW id,
           \A i \in 1 .. Len(r) : id[i] \in Nat /\ r[i] = oam[id[i]],
           \A i, j \in 1 .. Len(r) : i < j => id[i] > id[j]
    PROVE  \E g : SortedTo(SortedByX(r), g, Len(r), id)
<1> DEFINE L == Len(r)
           Round(k, buf) == Insert(buf, r[k])
           U == Seq(SpriteType)
           F == [k \in 1 .. L |-> [buf \in U |-> Round(k, buf)]]
           P == [k \in 0 .. L |-> {buf \in U : \E g : SortedTo(buf, g, k, id)}]
           IsRun(g) == g = [k \in 0 .. L |-> IF k = 0 THEN <<>> ELSE Insert(g[k - 1], r[k])]
<1>1. L \in Nat /\ \A k \in 1 .. L : r[k] \in SpriteType
  BY ElementOf
<1>2. <<>> \in P[0]
  <2>1. <<>> \in U /\ Len(<<>>) = 0
    OBVIOUS
  <2> DEFINE none == [i \in 1 .. 0 |-> 1]
  <2>2. none \in [1 .. 0 -> Nat] /\ {none[i] : i \in 1 .. 0} = {id[i] : i \in 1 .. 0}
    OBVIOUS
  <2> HIDE DEF none, U
  <2>3. SortedTo(<<>>, none, 0, id)
    BY <2>1, <2>2 DEF SortedTo, U
  <2> QED
    BY <1>1, <2>1, <2>3
<1>3. ASSUME NEW k \in 1 .. L, NEW buf \in P[k - 1] PROVE Round(k, buf) \in P[k]
  <2>1. k - 1 \in 0 .. L /\ k - 1 \in Nat /\ (k - 1) + 1 = k
    BY <1>1
  <2>2. PICK g : SortedTo(buf, g, k - 1, id)
    BY <2>1
  <2>3. /\ id[(k - 1) + 1] \in Nat /\ r[k] = oam[id[k]] /\ oam[id[(k - 1) + 1]] \in SpriteType
        /\ \A i \in 1 .. k - 1 : id[i] > id[(k - 1) + 1] /\ id[i] \in Nat
    BY <1>1, <2>1
  <2>4. \E h : SortedTo(Insert(buf, oam[id[(k - 1) + 1]]), h, (k - 1) + 1, id)
    BY <2>1, <2>2, <2>3, SortRound
  <2>5. PICK h : SortedTo(Round(k, buf), h, k, id)
    BY <2>1, <2>3, <2>4
  <2>6. Round(k, buf) \in U
    BY <2>5 DEF SortedTo
  <2>7. k \in 0 .. L
    BY <1>1
  <2>8. P[k] = {q \in U : \E h_1 : SortedTo(q, h_1, k, id)}
    BY <2>7
  <2> HIDE DEF Round, U, P, L
  <2> QED
    BY <2>5, <2>6, <2>8, Zenon
<1>4. \A k \in 0 .. L : P[k] \subseteq U
  OBVIOUS
<1> HIDE DEF P
<1>5. \E g : IsRun(g)
  <2>1. PICK g : LoopRun(g, L, F, <<>>)
    BY <1>1, LoopRuns
  <2>2. g[0] = <<>> /\ \A k \in 1 .. L : g[k] = F[k][g[k - 1]]
    <3> HIDE DEF F, L
    <3>1. g = [k \in 0 .. L |-> IF k = 0 THEN <<>> ELSE F[k][g[k - 1]]]
      BY <2>1 DEF LoopRun
    <3> QED
      BY <1>1, <3>1
  <2>3. \A k \in 1 .. L : \A buf \in U : F[k][buf] = Round(k, buf)
    OBVIOUS
  <2> HIDE DEF F, Round
  <2>4. \A k \in 1 .. L : g[k - 1] \in P[k - 1] => g[k] \in P[k]
    BY <1>1, <1>3, <1>4, <2>2, <2>3
  <2>5. \A k \in 0 .. L : g[k] \in P[k]
    BY <1>1, <1>2, <2>2, <2>4, LoopKeeps
  <2>6. \A k \in 1 .. L : F[k][g[k - 1]] = Round(k, g[k - 1])
    BY <1>1, <1>4, <2>3, <2>5
  <2>7. g = [k \in 0 .. L |-> IF k = 0 THEN <<>> ELSE Round(k, g[k - 1])]
    BY <1>1, <2>1, <2>6 DEF LoopRun
  <2>8. IsRun(g)
    BY <2>7 DEF Round
  <2> QED
    BY <2>8
<1> DEFINE run == CHOOSE g : IsRun(g)
<1>6. IsRun(run)
  BY <1>5, Zenon
<1>7. SortedByX(r) = run[L]
  BY Zenon DEF SortedByX
<1> HIDE DEF run
<1>8. run[0] = <<>> /\ \A k \in 1 .. L : run[k] = Round(k, run[k - 1])
  <2>1. run = [k \in 0 .. L |-> IF k = 0 THEN <<>> ELSE Round(k, run[k - 1])]
    BY <1>6
  <2> HIDE DEF Round, IsRun
  <2> QED
    BY <1>1, <2>1
<1> HIDE DEF IsRun, Round
<1>9. \A k \in 1 .. L : run[k - 1] \in P[k - 1] => run[k] \in P[k]
  BY <1>3, <1>8
<1>10. \A k \in 0 .. L : run[k] \in P[k]
  BY <1>1, <1>2, <1>8, <1>9, LoopKeeps
<1>11. SortedByX(r) \in P[L]
  BY <1>1, <1>7, <1>10
<1> QED
  BY <1>1, <1>11 DEF P

\* The buffer buf holds the first sprites on the line, painted from the lowest
\* to the highest: with opri by x and place in OAM, without by place alone.
InOrder(buf, g) ==
    /\ buf \in Seq(SpriteType) /\ g \in [1 .. Len(buf) -> 1 .. Len(oam)]
    /\ \A i \in 1 .. Len(buf) : buf[i] = oam[g[i]]
    /\ {g[i] : i \in 1 .. Len(buf)} = FirstOnLine(Len(oam))
    /\ \A i, j \in 1 .. Len(buf) : i < j =>
          \/ regs.opri /\ oam[g[j]].x < oam[g[i]].x
          \/ (~regs.opri \/ oam[g[j]].x = oam[g[i]].x) /\ g[j] < g[i]

\* What mode_oam_scan() leaves in the buffer.
LEMMA PaintOrderInOrder ==
    ASSUME oam \in Seq(SpriteType)
    PROVE  (\E g : InOrder(PaintOrder, g)) /\ Len(PaintOrder) \in 0 .. MaxSprites
<1> DEFINE L == Len(oam)
           m == Len(Selected)
           r == Reverse(Selected)
<1>1. PICK id : Scan(Selected, id, L)
  BY ScanSelects
<1>2. /\ Selected \in Seq(SpriteType) /\ id \in [1 .. m -> 1 .. L] /\ m \in Nat /\ L \in Nat
      /\ \A i \in 1 .. m : Selected[i] = oam[id[i]]
  BY <1>1 DEF Scan, Holds
<1>3. \A i, j \in 1 .. m : i < j => id[i] < id[j]
  BY <1>1 DEF Scan
<1>4. {id[i] : i \in 1 .. m} = FirstOnLine(L)
  BY <1>1 DEF Scan
<1>5. m <= MaxSprites
  <2>1. L \in Nat
    OBVIOUS
  <2>2. Cardinality(OnLineUpTo(L)) \in Nat
    BY <2>1, OnLineCounts
  <2> QED
    BY <1>1, <2>2, Sizes DEF Scan
<1> DEFINE back == [i \in 1 .. m |-> id[m - i + 1]]
<1>6. r = [i \in 1 .. m |-> Selected[(m - i) + 1]]
  BY DEF Reverse
<1> HIDE DEF L, m, r
<1>7. \A i \in 1 .. m : (m - i) + 1 \in 1 .. m
  BY <1>2
<1>8. r \in [1 .. m -> SpriteType]
  <2>1. \A i \in 1 .. m : Selected[i] \in SpriteType
    BY <1>2, ElementOf DEF m
  <2> QED
    BY <1>6, <1>7, <2>1
<1>9. r \in Seq(SpriteType) /\ Len(r) = m
  BY <1>2, <1>8, AsSequence
<1>10. back \in [1 .. m -> 1 .. L] /\ \A i \in 1 .. m : back[i] = id[(m - i) + 1]
  BY <1>2, <1>7
<1> HIDE DEF back
<1>11. \A i \in 1 .. m : r[i] = oam[back[i]]
  BY <1>2, <1>6, <1>7, <1>10
<1>12. {back[i] : i \in 1 .. m} = FirstOnLine(L)
  <2>1. ASSUME NEW i \in 1 .. m PROVE \E j \in 1 .. m : id[i] = back[j]
    <3>1. (m - i) + 1 \in 1 .. m /\ (m - ((m - i) + 1)) + 1 = i
      BY <1>2
    <3> QED
      BY <1>10, <3>1
  <2>2. ASSUME NEW i \in 1 .. m PROVE \E j \in 1 .. m : back[i] = id[j]
    BY <1>7, <1>10
  <2>3. \A v : v \in {back[i] : i \in 1 .. m} <=> v \in {id[i] : i \in 1 .. m}
    BY ONLY <2>1, <2>2, Zenon
  <2>4. {back[i] : i \in 1 .. m} = {id[i] : i \in 1 .. m}
    BY ONLY <2>3, Zenon
  <2> QED
    BY <1>4, <2>4
<1>13. ASSUME NEW i \in 1 .. m, NEW j \in 1 .. m, i < j PROVE back[i] > back[j]
  <2>1. (m - j) + 1 < (m - i) + 1
    BY <1>2, <1>13
  <2>2. id[(m - j) + 1] < id[(m - i) + 1]
    BY <1>3, <1>7, <2>1
  <2>3. id[(m - j) + 1] \in 1 .. L /\ id[(m - i) + 1] \in 1 .. L
    BY <1>2, <1>7
  <2> QED
    BY <1>2, <1>10, <2>2, <2>3
<1>14. CASE ~regs.opri
  <2>1. PaintOrder = r
    BY <1>14 DEF PaintOrder, r
  <2>2. InOrder(r, back)
    <3>1. \A i, j \in 1 .. m : i < j => back[j] < back[i]
      BY <1>2, <1>10, <1>13
    <3> QED
      BY <1>9, <1>10, <1>11, <1>12, <1>14, <3>1 DEF InOrder, L
  <2> QED
    BY <1>2, <1>5, <1>9, <2>1, <2>2, Sizes
<1>15. CASE regs.opri
  <2>1. PaintOrder = SortedByX(r)
    BY <1>15, Zenon DEF PaintOrder, r
  <2>2. \A i \in 1 .. Len(r) : back[i] \in Nat /\ r[i] = oam[back[i]]
    BY <1>2, <1>9, <1>10, <1>11
  <2>3. \A i, j \in 1 .. Len(r) : i < j => back[i] > back[j]
    BY <1>9, <1>13
  <2>4. PICK g : SortedTo(SortedByX(r), g, Len(r), back)
    BY <1>9, <2>2, <2>3, SortSorts
  <2> DEFINE t == SortedByX(r)
  <2>11. PaintOrder = t
    BY <2>1
  <2> HIDE DEF t
  <2>5. /\ t \in Seq(SpriteType) /\ Len(t) = m /\ g \in [1 .. m -> Nat]
        /\ \A i \in 1 .. m : t[i] = oam[g[i]]
    BY <1>9, <2>4 DEF SortedTo, t
  <2>6. {g[i] : i \in 1 .. m} = {back[i] : i \in 1 .. m}
    BY <1>9, <2>4 DEF SortedTo
  <2>7. \A i, j \in 1 .. m : i < j => t[i].x > t[j].x \/ (t[i].x = t[j].x /\ g[i] > g[j])
    BY <1>9, <2>4 DEF SortedTo, t
  <2>8. g \in [1 .. m -> 1 .. L]
    <3> SUFFICES ASSUME NEW i \in 1 .. m PROVE g[i] \in 1 .. L
      BY <2>5
    <3>1. g[i] \in {back[j] : j \in 1 .. m}
      BY <2>6
    <3>2. PICK j \in 1 .. m : g[i] = back[j]
      BY <3>1
    <3> QED
      BY <1>10, <3>2
  <2>9. ASSUME NEW i \in 1 .. m, NEW j \in 1 .. m, i < j
        PROVE  \/ oam[g[j]].x < oam[g[i]].x
               \/ oam[g[j]].x = oam[g[i]].x /\ g[j] < g[i]
    <3>1. t[i].x > t[j].x \/ (t[i].x = t[j].x /\ g[i] > g[j])
      BY <2>7, <2>9
    <3>2. t[i].x \in Nat /\ t[j].x \in Nat /\ g[i] \in Nat /\ g[j] \in Nat
      BY <2>5, ElementOf, SpriteX
    <3>3. t[i] = oam[g[i]] /\ t[j] = oam[g[j]]
      BY <2>5
    <3>4. CASE t[i].x > t[j].x
      <4>1. t[j].x < t[i].x
        BY <3>2, <3>4
      <4> QED
        BY <3>3, <4>1
    <3>5. CASE t[i].x = t[j].x /\ g[i] > g[j]
      <4>1. g[j] < g[i]
        BY <3>2, <3>5
      <4> QED
        BY <3>3, <3>5, <4>1
    <3> QED
      BY <3>1, <3>4, <3>5
  <2>10. InOrder(t, g)
    <3>1. {g[i] : i \in 1 .. Len(t)} = FirstOnLine(Len(oam))
      BY <1>12, <2>5, <2>6 DEF L
    <3>2. g \in [1 .. Len(t) -> 1 .. Len(oam)]
      BY <2>5, <2>8 DEF L
    <3> QED
      BY <1>15, <2>5, <2>9, <3>1, <3>2 DEF InOrder
  <2> QED
    BY <1>2, <1>5, <2>11, <2>5, <2>10, Sizes
<1> QED
  BY <1>14, <1>15

-----------------------------------------------------------------------------
(* What holds while a line is drawn. *)

\* The registers and OAM have the values they can hold, and the window has
\* had at most one line of its own in each line before.
InputTypes ==
    /\ cgb \in BOOLEAN /\ DOMAIN regs = Flags \cup Positions /\ Typed(regs)
    /\ oam \in Seq(SpriteType) /\ seen.oam \in Seq(SpriteType)
    /\ ly \in 0 .. VisibleLines - 1
    /\ window_line_counter \in Nat
    /\ window_line_counter <= IF phase \in {"Sprites", "Length", "Drawn"} THEN ly + 1 ELSE ly

\* The place in OAM each sprite of the buffer was found at: g.
BufferOf(g) ==
    /\ \A i \in 1 .. Len(sprite_buffer) : sprite_buffer[i] = seen.oam[g[i]]
    /\ {g[i] : i \in 1 .. Len(sprite_buffer)} = Candidates
    /\ \A i, j \in 1 .. Len(sprite_buffer) : i < j => Above(g[j], g[i])

\* After the scan the buffer holds the sprites of the line, whatever the
\* program writes, and what is painted later is above what is painted before.
Buffered ==
    /\ sprite_buffer \in Seq(SpriteType) /\ Len(sprite_buffer) <= MaxSprites
    /\ phase # "Scan" => \E g \in [1 .. Len(sprite_buffer) -> DOMAIN seen.oam] : BufferOf(g)

\* The ground where there is no window, under the mask of a pixel.
GroundBg(c) ==
    IF ~cgb /\ ~regs.bit_0 THEN [pixel |-> Blank, prio |-> FALSE]
    ELSE MapPixel(regs.bg_tilemap, (ly + regs.scy) % (Tile * MapTiles), (c + regs.scx) % (Tile * MapTiles))

\* The ground of the window, where it starts at the left edge of its map.
GroundWindow(c) == MapPixel(regs.wnd_tilemap, window_line_counter, c - (regs.wx - (Tile - 1)))

\* Only a map of the CGB puts its pixels first.
PrioOfCgb == \A c \in Columns : bg_scanline_mask[c].prio => cgb

\* Up to pos the background is painted, and the fetcher is at the tile of pos.
BackgroundPainted ==
    phase = "Background" =>
        /\ window_pos = NoWindow /\ pos \in 0 .. Width /\ fetcher_x \in Nat
        /\ \/ pos = Width \/ (pos = 0 /\ fetcher_x = 0)
           \/ pos > 0 /\ pos + (regs.scx % Tile) = Tile * fetcher_x
        /\ \A c \in Columns : c < pos => /\ bg_scanline_mask[c] = GroundBg(c)
                                         /\ line[c] = bg_scanline_mask[c].pixel

\* Left of the window the background is painted, and up to pos the window.
WindowPainted ==
    phase = "Window" =>
        /\ WindowShown /\ wx_sub7 < Width /\ window_pos = NoWindow
        /\ pos \in 0 .. Width /\ fetcher_x \in Nat
        /\ regs.wx >= Tile - 1 => pos = Width \/ pos = wx_sub7 + Tile * fetcher_x
        /\ \A c \in Columns :
              /\ c < wx_sub7 => bg_scanline_mask[c] = GroundBg(c)
              /\ regs.wx >= Tile - 1 /\ wx_sub7 <= c /\ c < pos => bg_scanline_mask[c] = GroundWindow(c)
              /\ line[c] = bg_scanline_mask[c].pixel

\* The sprite at place k of the buffer decides what is seen at column c, and
\* what is seen then.
Decides(k, c) ==
    /\ Spans(sprite_buffer[k], c) /\ HasInk(SpritePixel(sprite_buffer[k], c))
    /\ cgb => ~MapHides(sprite_buffer[k], c) /\ ~SpriteHides(sprite_buffer[k], c)
Decided(k, c) ==
    IF MapHides(sprite_buffer[k], c) \/ SpriteHides(sprite_buffer[k], c)
    THEN bg_scanline_mask[c].pixel
    ELSE SpritePixel(sprite_buffer[k], c)

\* After n sprites a column shows what the last one that decides says.
ShowsLast(n, c) ==
    \/ (\A k \in 1 .. n : ~Decides(k, c)) /\ line[c] = bg_scanline_mask[c].pixel
    \/ \E k \in 1 .. n : /\ Decides(k, c) /\ (\A j \in 1 .. n : k < j => ~Decides(j, c))
                         /\ line[c] = Decided(k, c)

SpritesPainted ==
    phase = "Sprites" =>
        /\ pos \in 0 .. Len(sprite_buffer) /\ (~regs.obj_enable => pos = 0)
        /\ \A c \in Columns : ShowsLast(pos, c)

\* Between lines the loop of calc_mode3_len() is at rest.
LoopAtRest == phase # "Length" => LoopStart(FALSE)

LineInv ==
    /\ InputTypes /\ Buffered /\ PrioOfCgb
    /\ BackgroundPainted /\ WindowPainted /\ SpritesPainted
    /\ GroundShown /\ SpritesShown /\ LoopAtRest

-----------------------------------------------------------------------------
(* Tiles on a map that wraps. *)

\* A product of a natural number and a positive one is no less than this one,
\* unless the other is 0.
LEMMA Multiple ==
    ASSUME NEW b \in Nat \ {0}, NEW d \in Int
    PROVE  /\ d >= 1 => b * d >= b
           /\ d <= -1 => b * d <= -b
           /\ b * d \in Int
<1>1. CASE d >= 1
  <2>1. d - 1 \in Nat
    BY <1>1
  <2>2. b * (d - 1) \in Nat
    BY <2>1
  <2>3. b * d = b * (d - 1) + b
    OBVIOUS
  <2> QED
    BY <1>1, <2>2, <2>3
<1>2. CASE d <= -1
  <2>1. -d - 1 \in Nat
    BY <1>2
  <2>2. b * (-d - 1) \in Nat
    BY <2>1
  <2>3. b * d = -(b * (-d - 1)) - b
    OBVIOUS
  <2> QED
    BY <1>2, <2>2, <2>3
<1> QED
  BY <1>1, <1>2

\* n is p times b and r more.
Divided(n, b, p, r) == p \in Int /\ r \in 0 .. b - 1 /\ n = b * p + r

\* Quotient and remainder are the only numbers that fit.
LEMMA Division ==
    ASSUME NEW b \in Nat \ {0}, NEW n \in Int, NEW p, NEW r, Divided(n, b, p, r)
    PROVE  n \div b = p /\ n % b = r
<1> DEFINE u == n \div b
           v == n % b
<1>1. u \in Int /\ v \in 0 .. b - 1 /\ n = b * u + v
  OBVIOUS
<1> HIDE DEF u, v
<1>7. p \in Int /\ r \in 0 .. b - 1 /\ n = b * p + r
  BY DEF Divided
<1>2. b * (p - u) = v - r
  BY <1>7, <1>1
<1>3. v - r < b /\ v - r > -b
  BY <1>7, <1>1
<1>4. p - u \in Int /\ ~(p - u >= 1) /\ ~(p - u <= -1)
  BY <1>7, <1>1, <1>2, <1>3, Multiple
<1>5. p = u
  BY <1>7, <1>1, <1>4
<1>6. v = r
  BY <1>7, <1>1, <1>5
<1> QED
  BY <1>5, <1>6 DEF u, v

\* On a map of t tiles of size b the number n is at r in tile q modulo t.
Wraps(n, b, t, q, r) ==
    /\ (n % (b * t)) \in Nat
    /\ (n % (b * t)) \div b = q % t
    /\ (n % (b * t)) % b = r

\* A place on a map that wraps is that in its tile, and its tile wraps.
LEMMA Wrapped ==
    ASSUME NEW b \in Nat \ {0}, NEW t \in Nat \ {0}, NEW n \in Nat, NEW q \in Nat, NEW r,
           Divided(n, b, q, r)
    PROVE  Wraps(n, b, t, q, r)
<1> DEFINE u == q \div t
           v == q % t
<1>1. u \in Nat /\ v \in 0 .. t - 1 /\ q = t * u + v
  OBVIOUS
<1>2. b * t \in Nat \ {0}
  OBVIOUS
<1> HIDE DEF u, v
<1>8. r \in 0 .. b - 1 /\ n = b * q + r
  BY DEF Divided
<1>3. n = (b * t) * u + (b * v + r)
  BY <1>1, <1>8
<1>4. b * v + r \in 0 .. b * t - 1
  <2>1. b * v \in Nat
    BY <1>1
  <2>2. b * (t - v) >= b
    <3>1. t - v \in Int /\ t - v >= 1
      BY <1>1
    <3> QED
      BY <3>1, Multiple
  <2>3. b * (t - v) = b * t - b * v
    BY <1>1
  <2> DEFINE most == b * t
             low == b * v
  <2>4. most \in Nat /\ low \in Nat /\ most - low >= b
    BY <1>2, <2>1, <2>2, <2>3
  <2> HIDE DEF most, low
  <2>5. low + r \in 0 .. most - 1
    BY <1>8, <2>4
  <2> QED
    BY <2>5 DEF most, low
<1>5. n % (b * t) = b * v + r
  <2> DEFINE most == b * t
             w == b * v + r
  <2>1. n \in Int /\ most \in Nat \ {0} /\ Divided(n, most, u, w)
    BY <1>1, <1>2, <1>3, <1>4 DEF Divided
  <2> HIDE DEF most, w
  <2>2. n % most = w
    BY <2>1, Division
  <2> QED
    BY <2>2 DEF most, w
<1> DEFINE m == b * v + r
<1>6. m \in Int /\ Divided(m, b, v, r)
  BY <1>1, <1>8 DEF Divided
<1> HIDE DEF m
<1>7. m \div b = v /\ m % b = r
  BY <1>6, Division
<1> QED
  BY <1>1, <1>4, <1>5, <1>7 DEF v, m, Wraps

\* The same for any number.
LEMMA WrappedAny ==
    ASSUME NEW b \in Nat \ {0}, NEW t \in Nat \ {0}, NEW n \in Nat
    PROVE  /\ (n % (b * t)) \in Nat
           /\ (n % (b * t)) \div b \in 0 .. t - 1
           /\ (n % (b * t)) % b = n % b
<1> DEFINE q == n \div b
           r == n % b
<1>1. q \in Nat /\ r \in 0 .. b - 1 /\ n = b * q + r
  OBVIOUS
<1> HIDE DEF q, r
<1>2. q % t \in 0 .. t - 1
  BY <1>1
<1>3. Divided(n, b, q, r)
  BY <1>1 DEF Divided
<1>4. Wraps(n, b, t, q, r)
  BY <1>1, <1>3, Wrapped
<1> QED
  BY <1>2, <1>4 DEF r, Wraps

\* A row counted from the bottom of its tile.
LEMMA Flipped ==
    ASSUME NEW b \in Nat \ {0}, NEW n \in Nat
    PROVE  (b - n - 1) % b = b - 1 - (n % b)
<1> DEFINE u == n \div b
           v == n % b
<1>1. u \in Nat /\ v \in 0 .. b - 1 /\ n = b * u + v
  OBVIOUS
<1> HIDE DEF u, v
<1>2. b - n - 1 = b * (-u) + (b - 1 - v)
  BY <1>1
<1> DEFINE m == b - n - 1
           w == b - 1 - v
           p == -u
<1>3. m \in Int /\ Divided(m, b, p, w)
  BY <1>1, <1>2 DEF Divided
<1> HIDE DEF m, p, w
<1>4. m % b = w
  BY <1>3, Division
<1> QED
  BY <1>4 DEF m, w, v

\* The registers by name.
LEMMA RegisterValues ==
    ASSUME InputTypes
    PROVE  /\ {regs.scx, regs.scy, regs.wx, regs.wy} \subseteq Nat
           /\ {regs.obj_enable, regs.obj_size, regs.wnd_enable, regs.wnd_tilemap, regs.bg_tilemap,
               regs.bg_wnd_tiles, regs.bit_0, regs.opri} \subseteq BOOLEAN
<1>1. \A r \in Positions : regs[r] \in Nat
  BY DEF InputTypes, Typed, Flags, Positions
<1>2. \A r \in Flags : regs[r] \in BOOLEAN
  BY DEF InputTypes, Typed, Flags, Positions
<1> QED
  BY <1>1, <1>2 DEF Positions, Flags

\* The tiles a line shows are on the map.
LEMMA TileNumber ==
    ASSUME NEW tilemap \in BOOLEAN, NEW row \in 0 .. MapTiles - 1, NEW col \in 0 .. MapTiles - 1
    PROVE  MapTile[tilemap][<<row, col>>].number \in 0 .. TileNumbers - 1
BY Maps

\* The pixel of a cell, by row and bit, that fetch_bg_tile_tuple() gives.
CellPixel(cell, y_base, nth) ==
    [pixel |-> Pixel("bg", cgb /\ cell.bank, TileIndex(cell.number),
                     (IF cgb /\ cell.y_flip THEN Tile - y_base - 1 ELSE y_base) % Tile,
                     IF cgb /\ cell.x_flip THEN Tile - 1 - nth ELSE nth),
     prio |-> cgb /\ cell.prio]

\* The fetched cell shows what is at its place on the map, in both addressing
\* modes and under both flips.
LEMMA CellShown ==
    ASSUME InputTypes, NEW tilemap \in BOOLEAN, NEW py \in Nat, NEW px \in Nat,
           NEW y_base \in Nat, y_base % Tile = py % Tile, NEW nth \in Int, nth = Tile - 1 - (px % Tile),
           py \div Tile \in 0 .. MapTiles - 1, px \div Tile \in 0 .. MapTiles - 1
    PROVE  MapPixel(tilemap, py, px) = CellPixel(MapTile[tilemap][<<py \div Tile, px \div Tile>>], y_base, nth)
<1> DEFINE cell == MapTile[tilemap][<<py \div Tile, px \div Tile>>]
<1>1. cell.number \in Nat /\ Tile \in Nat \ {0} /\ TileNumbers \in Nat \ {0}
  BY TileNumber, Sizes, Maps
<1> HIDE DEF cell
<1>2. (IF regs.bg_wnd_tiles \/ cell.number >= TileNumbers \div 2 THEN cell.number
       ELSE cell.number + TileNumbers) = TileIndex(cell.number)
  <2> DEFINE half == TileNumbers \div 2
  <2>1. half \in Nat
    BY <1>1
  <2> HIDE DEF half
  <2>2. (IF regs.bg_wnd_tiles \/ cell.number >= half THEN cell.number ELSE cell.number + TileNumbers)
        = IF regs.bg_wnd_tiles THEN cell.number
          ELSE TileNumbers + (IF cell.number < half THEN cell.number ELSE cell.number - TileNumbers)
    BY <1>1, <2>1
  <2> QED
    BY <2>2 DEF half, TileIndex, SignedNumber
<1>3. (IF cgb /\ cell.y_flip THEN Tile - 1 - (py % Tile) ELSE py % Tile)
      = (IF cgb /\ cell.y_flip THEN Tile - y_base - 1 ELSE y_base) % Tile
  BY <1>1, Flipped
<1>4. (IF cgb /\ cell.x_flip THEN px % Tile ELSE Tile - 1 - (px % Tile))
      = (IF cgb /\ cell.x_flip THEN Tile - 1 - nth ELSE nth)
  <2>1. px % Tile \in Nat
    BY <1>1
  <2>2. Tile - 1 - nth = px % Tile
    BY <1>1, <2>1
  <2> QED
    BY <2>2
<1> QED
  BY <1>2, <1>3, <1>4, Zenon DEF MapPixel, CellPixel, cell

-----------------------------------------------------------------------------
(* One round of the fetcher. *)

\* Where the round of the background paints, the map is what it paints.
LEMMA BackgroundCell ==
    ASSUME InputTypes, BackgroundPainted, phase = "Background", pos < Width,
           NEW c \in Columns, pos <= c, c - pos <= LastBit
    PROVE  MapPixel(regs.bg_tilemap, (ly + regs.scy) % (Tile * MapTiles), (c + regs.scx) % (Tile * MapTiles))
           = CellPixel(fetch_bg_tile_number(FALSE), ly + regs.scy, LastBit - (c - pos))
<1> DEFINE scx == regs.scx
           right == scx \div Tile
           fine == scx % Tile
           start == Tile - 1 - (LastBit - (c - pos))
           rows == ly + regs.scy
           py == rows % (Tile * MapTiles)
           px == (c + scx) % (Tile * MapTiles)
<1>1. /\ Tile \in Nat \ {0} /\ MapTiles \in Nat \ {0} /\ Width \in Nat
      /\ scx \in Nat /\ rows \in Nat /\ regs.bg_tilemap \in BOOLEAN
      /\ pos \in Nat /\ fetcher_x \in Nat /\ c \in Nat
  <2>1. Tile \in Nat \ {0} /\ MapTiles \in Nat \ {0} /\ Width \in Nat /\ VisibleLines \in Nat
    BY Sizes, Maps
  <2>2. regs.scx \in Nat /\ regs.scy \in Nat /\ regs.bg_tilemap \in BOOLEAN
    BY RegisterValues
  <2>3. ly \in Nat
    BY <2>1 DEF InputTypes
  <2> QED
    BY <2>1, <2>2, <2>3 DEF BackgroundPainted, Columns
<1>2. LastBit = Tile - 1 - (IF pos = 0 THEN fine ELSE 0)
  BY DEF LastBit
<1>3. (pos = 0 /\ fetcher_x = 0) \/ (pos > 0 /\ pos + fine = Tile * fetcher_x)
  <2>1. pos # Width
    BY <1>1
  <2> QED
    BY <2>1 DEF BackgroundPainted
<1>4. fetch_bg_tile_number(FALSE)
      = MapTile[regs.bg_tilemap][<<py \div Tile, (right + fetcher_x) % MapTiles>>]
  BY DEF fetch_bg_tile_number
<1> HIDE DEF rows
<1>5. py \in Nat /\ py \div Tile \in 0 .. MapTiles - 1 /\ py % Tile = rows % Tile
  BY <1>1, WrappedAny
<1> HIDE DEF scx, py
<1>6. right \in Nat /\ fine \in 0 .. Tile - 1 /\ scx = Tile * right + fine
  BY <1>1
<1> HIDE DEF right, fine
<1>7. start \in 0 .. Tile - 1 /\ c + scx = Tile * (right + fetcher_x) + start
  <2>1. Tile * (right + fetcher_x) = Tile * right + Tile * fetcher_x
        /\ Tile * right \in Nat /\ Tile * fetcher_x \in Nat
    BY <1>1, <1>6
  <2>2. CASE pos = 0 /\ fetcher_x = 0
    <3>1. Tile * fetcher_x = 0
      BY <1>1, <2>2
    <3>2. LastBit = Tile - 1 - fine /\ start = fine + c
      BY <1>1, <1>2, <1>6, <2>2
    <3> HIDE DEF start
    <3> QED
      BY <1>1, <1>6, <2>1, <2>2, <3>1, <3>2
  <2>3. CASE pos > 0 /\ pos + fine = Tile * fetcher_x
    <3>1. LastBit = Tile - 1 /\ start = c - pos
      BY <1>1, <1>2, <2>3
    <3> HIDE DEF start
    <3> QED
      BY <1>1, <1>6, <2>1, <2>3, <3>1
  <2> QED
    BY <1>3, <2>2, <2>3
<1>8. LastBit - (c - pos) \in Int /\ LastBit - (c - pos) = Tile - 1 - start
  BY <1>1, <1>2, <1>6
<1> HIDE DEF start
<1>9. px \in Nat /\ px \div Tile = (right + fetcher_x) % MapTiles /\ px % Tile = start
  <2> DEFINE q == right + fetcher_x
             n == c + scx
  <2>1. q \in Nat /\ n \in Nat /\ Divided(n, Tile, q, start)
    BY <1>1, <1>6, <1>7 DEF Divided
  <2> HIDE DEF q, n
  <2>2. Wraps(n, Tile, MapTiles, q, start)
    BY <1>1, <2>1, Wrapped
  <2> QED
    BY <2>2 DEF Wraps, q, n, px
<1>10. px \div Tile \in 0 .. MapTiles - 1
  BY <1>1, <1>6, <1>9
<1> HIDE DEF px
<1>11. MapPixel(regs.bg_tilemap, py, px)
       = CellPixel(MapTile[regs.bg_tilemap][<<py \div Tile, px \div Tile>>], rows, LastBit - (c - pos))
  BY <1>1, <1>5, <1>8, <1>9, <1>10, CellShown
<1> QED
  BY <1>4, <1>9, <1>11 DEF px, py, rows, scx

\* The same for the window, unless it starts left of the screen.
LEMMA WindowCell ==
    ASSUME InputTypes, WindowPainted, phase = "Window", pos < Width, regs.wx >= Tile - 1,
           NEW c \in Columns, pos <= c, c - pos <= Tile - 1
    PROVE  GroundWindow(c) = CellPixel(fetch_bg_tile_number(TRUE), window_line_counter, Tile - 1 - (c - pos))
<1> DEFINE px == c - (regs.wx - (Tile - 1))
           X == c - pos
<1>1. /\ Tile \in Nat \ {0} /\ MapTiles \in Nat \ {0} /\ VisibleLines \in Nat \ {0} /\ Width \in Nat
      /\ Width <= Tile * (MapTiles - 1) /\ VisibleLines <= Tile * MapTiles
      /\ regs.wx \in Nat /\ ly \in 0 .. VisibleLines - 1 /\ regs.wnd_tilemap \in BOOLEAN
      /\ pos \in Nat /\ fetcher_x \in Nat /\ c \in Nat /\ c < Width
      /\ window_line_counter \in Nat /\ window_line_counter <= ly
  BY RegisterValues, Sizes, Maps DEF InputTypes, WindowPainted, Columns
<1>2. pos = (regs.wx - (Tile - 1)) + Tile * fetcher_x
  BY <1>1 DEF WindowPainted, wx_sub7
<1>3. X \in 0 .. Tile - 1 /\ px = Tile * fetcher_x + X /\ Tile * fetcher_x \in Nat
  BY <1>1, <1>2
<1>4. px \in Nat /\ px \div Tile = fetcher_x /\ px % Tile = X
  <2>1. px \in Int /\ fetcher_x \in Int /\ X \in 0 .. Tile - 1
    BY <1>1, <1>3
  <2>2. Divided(px, Tile, fetcher_x, X)
    BY <1>3, <2>1 DEF Divided
  <2> HIDE DEF px, X
  <2>3. px \div Tile = fetcher_x /\ px % Tile = X
    BY <1>1, <2>1, <2>2, Division
  <2> QED
    BY <1>3, <2>3
<1>5. fetcher_x \in 0 .. MapTiles - 1
  <2>1. Tile * fetcher_x < Tile * (MapTiles - 1)
    BY <1>1, <1>3
  <2>2. ASSUME fetcher_x >= MapTiles PROVE FALSE
    <3>1. fetcher_x - (MapTiles - 1) \in Int /\ fetcher_x - (MapTiles - 1) >= 1
      BY <1>1, <2>2
    <3>2. Tile * (fetcher_x - (MapTiles - 1)) >= Tile
      BY <1>1, <3>1, Multiple
    <3>3. Tile * (fetcher_x - (MapTiles - 1)) = Tile * fetcher_x - Tile * (MapTiles - 1)
      BY <1>1
    <3> QED
      BY <1>1, <2>1, <3>2, <3>3
  <2> QED
    BY <1>1, <2>2
<1>6. window_line_counter \div Tile \in 0 .. MapTiles - 1
  <2> DEFINE d == window_line_counter \div Tile
  <2>1. /\ d \in Nat /\ window_line_counter % Tile \in 0 .. Tile - 1
        /\ window_line_counter = Tile * d + (window_line_counter % Tile)
    BY <1>1
  <2> HIDE DEF d
  <2>2. Tile * d < Tile * MapTiles /\ Tile * d \in Int /\ Tile * MapTiles \in Int
    BY <1>1, <2>1
  <2>3. ASSUME d >= MapTiles PROVE FALSE
    <3>1. Tile * (d - MapTiles) \in Nat
      BY <1>1, <2>1, <2>3
    <3>2. Tile * (d - MapTiles) = Tile * d - Tile * MapTiles
      BY <1>1, <2>1
    <3> QED
      BY <2>2, <3>1, <3>2
  <2> QED
    BY <1>1, <2>1, <2>3 DEF d
<1>7. Tile - 1 - X \in Int /\ Tile - 1 - X = Tile - 1 - (px % Tile)
  BY <1>1, <1>3, <1>4
<1>8. fetch_bg_tile_number(TRUE) = MapTile[regs.wnd_tilemap][<<window_line_counter \div Tile, px \div Tile>>]
  BY <1>4 DEF fetch_bg_tile_number
<1> HIDE DEF px, X
<1>9. MapPixel(regs.wnd_tilemap, window_line_counter, px)
      = CellPixel(MapTile[regs.wnd_tilemap][<<window_line_counter \div Tile, px \div Tile>>],
                  window_line_counter, Tile - 1 - X)
  BY <1>1, <1>4, <1>5, <1>6, <1>7, CellShown
<1> QED
  BY <1>8, <1>9 DEF px, X, GroundWindow

\* What a round of the fetcher leaves, column by column.
TileAt(is_window, first, last, c) ==
    /\ pos <= c /\ c - pos <= last - first =>
          /\ bg_scanline_mask'[c] = CellPixel(fetch_bg_tile_number(is_window),
                                       IF is_window THEN window_line_counter ELSE ly + regs.scy,
                                       last - (c - pos))
          /\ line'[c] = bg_scanline_mask'[c].pixel
    /\ ~(pos <= c /\ c - pos <= last - first) =>
          bg_scanline_mask'[c] = bg_scanline_mask[c] /\ line'[c] = line[c]

\* A round paints its columns, and these only.
LEMMA TilePainted ==
    ASSUME NEW is_window, NEW first, NEW last, PaintTile(is_window, first, last),
           NEW c \in Columns
    PROVE  TileAt(is_window, first, last, c)
<1> DEFINE cell == fetch_bg_tile_number(is_window)
           row == FetchRow(cell, is_window)
           Shown(d) == Pixel("bg", row[1], row[2], row[3],
                             IF cgb /\ cell.x_flip THEN Tile - 1 - (last - (d - pos)) ELSE last - (d - pos))
           painted == {d \in Columns : d >= pos /\ d - pos <= last - first}
<1>1. /\ line' = [d \in Columns |-> IF d \in painted THEN Shown(d) ELSE line[d]]
      /\ bg_scanline_mask' =
            [d \in Columns |-> IF d \in painted THEN [pixel |-> Shown(d), prio |-> cgb /\ cell.prio]
                                                ELSE bg_scanline_mask[d]]
  BY DEF PaintTile
<1>2. c \in painted <=> c >= pos /\ c - pos <= last - first
  OBVIOUS
<1>3. CellPixel(cell, IF is_window THEN window_line_counter ELSE ly + regs.scy, last - (c - pos))
      = [pixel |-> Shown(c), prio |-> cgb /\ cell.prio]
  BY DEF CellPixel, FetchRow
<1> HIDE DEF cell, row, Shown, painted
<1>4. /\ line'[c] = IF c \in painted THEN Shown(c) ELSE line[c]
      /\ bg_scanline_mask'[c] = IF c \in painted THEN [pixel |-> Shown(c), prio |-> cgb /\ cell.prio]
                                                 ELSE bg_scanline_mask[c]
  BY <1>1
<1>5. [pixel |-> Shown(c), prio |-> cgb /\ cell.prio].pixel = Shown(c)
  OBVIOUS
<1> QED
  BY <1>2, <1>3, <1>4, <1>5 DEF cell, TileAt

-----------------------------------------------------------------------------
(* What a step leaves as it is. *)

\* The parts of the invariant that are about other phases.
LEMMA OtherPhases ==
    /\ phase' # "Background" => BackgroundPainted'
    /\ phase' # "Window" => WindowPainted'
    /\ phase' # "Sprites" => SpritesPainted'
    /\ phase' \notin {"Sprites", "Length", "Drawn"} => GroundShown'
    /\ phase' \notin {"Length", "Drawn"} => SpritesShown'
BY DEF BackgroundPainted, WindowPainted, SpritesPainted, GroundShown, SpritesShown

\* The map at a place.
LEMMA MapKept ==
    ASSUME UNCHANGED <<cgb, regs>>
    PROVE  \A tilemap, py, px : MapPixel(tilemap, py, px)' = MapPixel(tilemap, py, px)
BY DEF MapPixel

\* The sprites of the line, and which of two is above.
LEMMA CandidatesKept ==
    ASSUME UNCHANGED <<ly, seen>>
    PROVE  Candidates' = Candidates /\ \A i, j : Above(i, j)' <=> Above(i, j)
<1>1. \A i : OnLine(seen.oam[i], seen.obj_size)' <=> OnLine(seen.oam[i], seen.obj_size)
  BY DEF OnLine
<1>2. {i \in DOMAIN seen.oam : OnLine(seen.oam[i], seen.obj_size)}'
      = {i \in DOMAIN seen.oam : OnLine(seen.oam[i], seen.obj_size)}
  BY <1>1
<1> DEFINE on == {i \in DOMAIN seen.oam : OnLine(seen.oam[i], seen.obj_size)}
<1>3. Candidates = {i \in on : Cardinality({j \in on : j < i}) < MaxSprites}
  BY DEF Candidates
<1>4. Candidates' = {i \in on' : Cardinality({j \in on' : j < i}) < MaxSprites}
  BY DEF Candidates
<1> HIDE DEF on
<1>5. on' = on
  BY <1>2 DEF on
<1>6. Candidates' = Candidates
  BY <1>3, <1>4, <1>5
<1>7. \A i, j : Above(i, j)' <=> Above(i, j)
  BY DEF Above
<1> QED
  BY <1>6, <1>7

\* The buffer and where its sprites were found.
LEMMA BufferKept ==
    ASSUME Buffered, UNCHANGED <<ly, seen, sprite_buffer>>, phase # "Scan" \/ phase' = "Scan"
    PROVE  Buffered'
<1>1. ASSUME NEW g, BufferOf(g) PROVE BufferOf(g)'
  BY <1>1, CandidatesKept DEF BufferOf
<1>2. sprite_buffer' = sprite_buffer /\ (DOMAIN seen.oam)' = DOMAIN seen.oam
  OBVIOUS
<1> QED
  BY <1>1, <1>2 DEF Buffered

\* The ground, once painted.
LEMMA GroundKept ==
    ASSUME GroundShown, UNCHANGED <<ly, cgb, regs, window_line_counter, window_pos, bg_scanline_mask>>,
           phase \in {"Sprites", "Length", "Drawn"}
    PROVE  GroundShown'
<1>1. \A c : InWindow(c)' <=> InWindow(c)
  BY DEF InWindow
<1>2. \A c : Ground(c)' = Ground(c)
  BY <1>1, MapKept DEF Ground
<1> QED
  BY <1>1, <1>2 DEF GroundShown

\* The pixels of sprites and what hides them.
LEMMA PixelsKept ==
    ASSUME UNCHANGED <<ly, cgb, regs, bg_scanline_mask>>
    PROVE  /\ \A o, c : SpritePixel(o, c)' = SpritePixel(o, c)
           /\ \A o, c : MapHides(o, c)' <=> MapHides(o, c)
           /\ \A o, c : SpriteHides(o, c)' <=> SpriteHides(o, c)
<1>1. \A o : SpriteRow(o)' = SpriteRow(o) /\ SpriteBase(o)' = SpriteBase(o)
  BY DEF SpriteRow, SpriteBase
<1>2. \A o, c : SpritePixel(o, c)' = SpritePixel(o, c)
  BY <1>1 DEF SpritePixel
<1>3. PriorityOff' = PriorityOff /\ \A c : OnGround(c)' <=> OnGround(c)
  BY DEF PriorityOff, OnGround
<1> QED
  BY <1>2, <1>3 DEF MapHides, SpriteHides

\* The sprite above all others that decide at a column, and the column with it.
Topmost(c) == Uppermost(Deciding(c))
SpritesAt(c) ==
    line[c] = IF ~regs.obj_enable \/ Topmost(c) = {} \/ \E i \in Topmost(c) : Hidden(i, c)
              THEN bg_scanline_mask[c].pixel
              ELSE SpritePixel(seen.oam[CHOOSE i \in Topmost(c) : TRUE], c)

\* The sprites shown, once painted.
LEMMA ShownKept ==
    ASSUME UNCHANGED <<ly, cgb, regs, seen, line, bg_scanline_mask>>, NEW c \in Columns, SpritesAt(c)
    PROVE  SpritesAt(c)'
<1>1. \A i, d : Hidden(i, d)' <=> Hidden(i, d)
  BY PixelsKept DEF Hidden
<1>2. \A d : InkAt(d)' = InkAt(d)
  <2> SUFFICES ASSUME NEW d PROVE InkAt(d)' = InkAt(d)
    OBVIOUS
  <2>1. \A i : (Spans(seen.oam[i], d) /\ HasInk(SpritePixel(seen.oam[i], d)))'
               <=> Spans(seen.oam[i], d) /\ HasInk(SpritePixel(seen.oam[i], d))
    BY PixelsKept
  <2> QED
    BY <2>1, CandidatesKept DEF InkAt
<1>3. \A d : Deciding(d)' = Deciding(d)
  <2> SUFFICES ASSUME NEW d PROVE Deciding(d)' = Deciding(d)
    OBVIOUS
  <2> DEFINE shown == {i \in InkAt(d) : ~Hidden(i, d)}
  <2>1. shown' = shown
    BY <1>1, <1>2
  <2> HIDE DEF shown
  <2> QED
    BY <1>2, <2>1 DEF Deciding, shown
<1>4. Topmost(c)' = Topmost(c)
  BY <1>3, CandidatesKept DEF Topmost, Uppermost
<1>5. SpritePixel(seen.oam[CHOOSE i \in Topmost(c) : TRUE], c)' = SpritePixel(seen.oam[CHOOSE i \in Topmost(c) : TRUE], c)
  <2>1. (CHOOSE i \in Topmost(c)' : TRUE) = (CHOOSE i \in Topmost(c) : TRUE)
    BY <1>4
  <2> DEFINE o == seen.oam[CHOOSE i \in Topmost(c) : TRUE]
  <2>2. o' = o
    BY <2>1
  <2> HIDE DEF o
  <2>3. SpriteRow(o)' = SpriteRow(o) /\ SpriteBase(o)' = SpriteBase(o)
    BY <2>2 DEF SpriteRow, SpriteBase
  <2>4. SpritePixel(o, c)' = SpritePixel(o, c)
    BY <2>2, <2>3 DEF SpritePixel
  <2> QED
    BY <2>4 DEF o
<1> QED
  BY <1>1, <1>4, <1>5 DEF SpritesAt

\* The property, column by column.
LEMMA ShownAt == SpritesShown <=> (phase \in {"Length", "Drawn"} => \A c \in Columns : SpritesAt(c))
BY DEF SpritesShown, DecidedBy, SpritesAt, Topmost

-----------------------------------------------------------------------------
(* Registers, OAM and the scan *)

\* Only y of the sprites is changed by the DMA that the model has.
LEMMA SpriteMoved == \A o \in SpriteType : [o EXCEPT !.y = 0] \in SpriteType
BY DEF SpriteType

\* A field of a sprite is one.
LEMMA SpriteOf == ASSUME NEW buf \in Seq(SpriteType), NEW i \in 1 .. Len(buf) PROVE buf[i] \in SpriteType /\ buf[i].x \in Nat
BY ElementOf, SpriteX

\* Registers and OAM at the start of a frame.
LEMMA InputsInit == LineInit => InputTypes
<1> SUFFICES ASSUME LineInit PROVE InputTypes
  OBVIOUS
<1>1. PICK scene \in Scenes : cgb = scene.cgb /\ regs = scene.regs /\ oam = scene.oam
  BY DEF LineInit
<1>2. cgb \in BOOLEAN /\ DOMAIN regs = Flags \cup Positions /\ Typed(regs) /\ oam \in Seq(SpriteType)
  BY <1>1, Inputs
<1>3. ly = 0 /\ window_line_counter = 0 /\ phase = "Scan" /\ seen.oam = oam
  BY DEF LineInit
<1>4. 0 \in 0 .. VisibleLines - 1
  BY Maps
<1> QED
  BY <1>2, <1>3, <1>4 DEF InputTypes

\* A step that leaves registers and OAM, and counts no line.
LEMMA InputsKept ==
    ASSUME InputTypes, UNCHANGED <<ly, inputVars, window_line_counter>>,
           phase \in {"Sprites", "Length", "Drawn"} => phase' \in {"Sprites", "Length", "Drawn"}
    PROVE  InputTypes'
<1>1. /\ cgb' \in BOOLEAN /\ DOMAIN regs' = Flags \cup Positions /\ Typed(regs')
      /\ oam' \in Seq(SpriteType) /\ seen'.oam \in Seq(SpriteType)
      /\ ly' \in 0 .. VisibleLines - 1 /\ window_line_counter' \in Nat
  BY DEF InputTypes, inputVars
<1>2. window_line_counter <= IF phase \in {"Sprites", "Length", "Drawn"} THEN ly + 1 ELSE ly
  BY DEF InputTypes
<1>3. ly \in Nat /\ window_line_counter \in Nat /\ ly' = ly /\ window_line_counter' = window_line_counter
  BY Maps DEF InputTypes
<1>4. window_line_counter' <= IF phase' \in {"Sprites", "Length", "Drawn"} THEN ly' + 1 ELSE ly'
  BY <1>2, <1>3
<1> QED
  BY <1>1, <1>4 DEF InputTypes

\* The scan leaves the sprites of the line in the buffer, in order.
LEMMA ScanLine == ASSUME LineInv, mode_oam_scan PROVE LineInv'
<1>1. /\ phase = "Scan" /\ phase' = "Scanned" /\ sprite_buffer' = PaintOrder
      /\ seen' = [oam |-> oam, obj_size |-> regs.obj_size, opri |-> regs.opri]
      /\ UNCHANGED <<ly, cgb, regs, oam, window_line_counter, bg_scanline_mask, loopVars>>
  BY DEF mode_oam_scan, windowVars, lineVars
<1>2. oam \in Seq(SpriteType) /\ InputTypes
  BY DEF LineInv, InputTypes
<1>3. InputTypes'
  <2>1. seen'.oam = oam
    BY <1>1
  <2>2. /\ cgb' \in BOOLEAN /\ DOMAIN regs' = Flags \cup Positions /\ Typed(regs')
        /\ oam' \in Seq(SpriteType) /\ seen'.oam \in Seq(SpriteType)
        /\ ly' \in 0 .. VisibleLines - 1 /\ window_line_counter' \in Nat
    BY <1>1, <1>2, <2>1 DEF InputTypes
  <2>3. window_line_counter' <= ly'
    BY <1>1, <1>2 DEF InputTypes
  <2>4. window_line_counter' <= IF phase' \in {"Sprites", "Length", "Drawn"} THEN ly' + 1 ELSE ly'
    BY <1>1, <2>3
  <2> QED
    BY <2>2, <2>4 DEF InputTypes
<1>4. Buffered'
  <2>1. (\E g : InOrder(PaintOrder, g)) /\ Len(PaintOrder) \in 0 .. MaxSprites
    BY <1>2, PaintOrderInOrder
  <2>2. PICK g : InOrder(PaintOrder, g)
    BY <2>1
  <2> DEFINE L == Len(PaintOrder)
  <2>3. seen'.oam = oam /\ seen'.obj_size = regs.obj_size /\ seen'.opri = regs.opri /\ ly' = ly
    BY <1>1
  <2>4. DOMAIN oam = 1 .. Len(oam)
    BY <1>2
  <2>5. Candidates' = FirstOnLine(Len(oam))
    <3> DEFINE on == {i \in DOMAIN seen.oam : OnLine(seen.oam[i], seen.obj_size)}
    <3>1. \A i : OnLine(seen.oam[i], seen.obj_size)' <=> OnLine(oam[i], regs.obj_size)
      BY <2>3 DEF OnLine
    <3>2. on' = OnLineUpTo(Len(oam))
      BY <2>3, <2>4, <3>1 DEF OnLineUpTo
    <3>3. Candidates' = {i \in on' : Cardinality({j \in on' : j < i}) < MaxSprites}
      BY DEF Candidates
    <3> HIDE DEF on
    <3> QED
      BY <3>2, <3>3 DEF FirstOnLine
  <2>6. /\ sprite_buffer' \in Seq(SpriteType) /\ Len(sprite_buffer') = L /\ L <= MaxSprites
        /\ g \in [1 .. L -> DOMAIN seen'.oam]
    BY <1>1, <2>1, <2>2, <2>3, <2>4, Sizes DEF InOrder
  <2>7. \A i \in 1 .. L : sprite_buffer'[i] = seen'.oam[g[i]]
    BY <1>1, <2>2, <2>3 DEF InOrder
  <2>8. {g[i] : i \in 1 .. L} = Candidates'
    BY <2>2, <2>5 DEF InOrder
  <2>9. \A i, j \in 1 .. L : i < j => Above(g[j], g[i])'
    BY <2>2, <2>3 DEF InOrder, Above
  <2>10. BufferOf(g)'
    <3> HIDE DEF L
    <3> QED
      BY <2>6, <2>7, <2>8, <2>9 DEF BufferOf
  <2>11. g \in [1 .. Len(sprite_buffer) -> DOMAIN seen.oam]'
    BY <2>6
  <2> QED
    BY <2>6, <2>10, <2>11 DEF Buffered
<1>5. PrioOfCgb' /\ LoopAtRest'
  BY <1>1 DEF LineInv, PrioOfCgb, LoopAtRest, LoopStart, loopVars
<1> QED
  BY <1>1, <1>3, <1>4, <1>5, OtherPhases DEF LineInv

\* A step between the phases of painting, or in one, that leaves what was
\* painted: the parts of the invariant that are about neither phase.
LEMMA OthersKept ==
    ASSUME LineInv, UNCHANGED <<ly, inputVars, window_line_counter, sprite_buffer, loopVars, bg_scanline_mask>>,
           phase \in {"Sprites", "Length", "Drawn"} => phase' \in {"Sprites", "Length", "Drawn"},
           phase # "Scan", phase # "Length", phase' # "Length"
    PROVE  InputTypes' /\ Buffered' /\ PrioOfCgb' /\ LoopAtRest'
<1>1. InputTypes'
  BY InputsKept DEF LineInv
<1>2. Buffered'
  BY BufferKept DEF LineInv, inputVars
<1>3. PrioOfCgb' /\ LoopAtRest'
  BY DEF LineInv, PrioOfCgb, LoopAtRest, LoopStart, loopVars, inputVars
<1> QED
  BY <1>1, <1>2, <1>3

\* What the program writes is of the kind of what was there.
LEMMA WriteLine == ASSUME LineInv, WriteRegister PROVE LineInv'
<1>1. /\ phase = "Scanned" /\ phase' = "Changed"
      /\ UNCHANGED <<ly, cgb, oam, seen, window_line_counter, sprite_buffer, loopVars, bg_scanline_mask>>
  BY DEF WriteRegister, windowVars, lineVars, lengthVars
<1>2. PICK change \in Changes :
        regs' = [r \in DOMAIN regs |-> IF r \in DOMAIN change /\ (r = "opri" => cgb) THEN change[r] ELSE regs[r]]
  BY DEF WriteRegister, Writes
<1>3. InputTypes
  BY DEF LineInv
<1>4. DOMAIN regs' = DOMAIN regs /\ Typed(regs')
  <2>1. Typed(change) /\ Typed(regs)
    BY <1>3, Inputs DEF InputTypes
  <2>2. DOMAIN regs' = DOMAIN regs
    BY <1>2
  <2>3. ASSUME NEW r \in DOMAIN regs'
        PROVE  (r \in Flags /\ regs'[r] \in BOOLEAN) \/ (r \in Positions /\ regs'[r] \in Nat)
    <3>1. CASE r \in DOMAIN change /\ (r = "opri" => cgb)
      <4>1. regs'[r] = change[r]
        BY <1>2, <2>2, <2>3, <3>1
      <4> QED
        BY <2>1, <3>1, <4>1 DEF Typed
    <3>2. CASE ~(r \in DOMAIN change /\ (r = "opri" => cgb))
      <4>1. regs'[r] = regs[r] /\ r \in DOMAIN regs
        BY <1>2, <2>2, <2>3, <3>2
      <4> QED
        BY <2>1, <4>1 DEF Typed
    <3> QED
      BY <3>1, <3>2
  <2> QED
    BY <2>2, <2>3 DEF Typed
<1>5. InputTypes'
  <2>1. /\ cgb' \in BOOLEAN /\ DOMAIN regs' = Flags \cup Positions /\ Typed(regs')
        /\ oam' \in Seq(SpriteType) /\ seen'.oam \in Seq(SpriteType)
        /\ ly' \in 0 .. VisibleLines - 1 /\ window_line_counter' \in Nat
    BY <1>1, <1>3, <1>4 DEF InputTypes
  <2>2. window_line_counter' <= ly'
    BY <1>1, <1>3 DEF InputTypes
  <2>3. window_line_counter' <= IF phase' \in {"Sprites", "Length", "Drawn"} THEN ly' + 1 ELSE ly'
    BY <1>1, <2>2
  <2> QED
    BY <2>1, <2>3 DEF InputTypes
<1>6. Buffered'
  BY <1>1, BufferKept DEF LineInv
<1>7. PrioOfCgb' /\ LoopAtRest'
  BY <1>1 DEF LineInv, PrioOfCgb, LoopAtRest, LoopStart, loopVars
<1> QED
  BY <1>1, <1>5, <1>6, <1>7, OtherPhases DEF LineInv

\* Nor does a DMA change what the scan has found.
LEMMA DmaLine == ASSUME LineInv, oam_dma PROVE LineInv'
<1>1. /\ phase = "Scanned" /\ phase' = "Changed"
      /\ oam' = [i \in DOMAIN oam |-> [oam[i] EXCEPT !.y = 0]]
      /\ UNCHANGED <<ly, cgb, regs, seen, window_line_counter, sprite_buffer, loopVars, bg_scanline_mask>>
  BY DEF oam_dma, windowVars, lineVars, lengthVars
<1>2. InputTypes
  BY DEF LineInv
<1>3. oam' \in Seq(SpriteType)
  <2>1. DOMAIN oam = 1 .. Len(oam) /\ Len(oam) \in Nat
    BY <1>2 DEF InputTypes
  <2>2. \A i \in 1 .. Len(oam) : [oam[i] EXCEPT !.y = 0] \in SpriteType
    BY <1>2, ElementOf, SpriteMoved DEF InputTypes
  <2>3. oam' \in [1 .. Len(oam) -> SpriteType]
    BY <1>1, <2>1, <2>2
  <2> QED
    BY <2>1, <2>3, AsSequence
<1>4. InputTypes'
  <2>1. /\ cgb' \in BOOLEAN /\ DOMAIN regs' = Flags \cup Positions /\ Typed(regs')
        /\ seen'.oam \in Seq(SpriteType)
        /\ ly' \in 0 .. VisibleLines - 1 /\ window_line_counter' \in Nat
    BY <1>1, <1>2 DEF InputTypes
  <2>2. window_line_counter' <= ly'
    BY <1>1, <1>2 DEF InputTypes
  <2>3. window_line_counter' <= IF phase' \in {"Sprites", "Length", "Drawn"} THEN ly' + 1 ELSE ly'
    BY <1>1, <2>2
  <2> QED
    BY <1>3, <2>1, <2>3 DEF InputTypes
<1>5. Buffered'
  BY <1>1, BufferKept DEF LineInv
<1>6. PrioOfCgb' /\ LoopAtRest'
  BY <1>1 DEF LineInv, PrioOfCgb, LoopAtRest, LoopStart, loopVars
<1> QED
  BY <1>1, <1>4, <1>5, <1>6, OtherPhases DEF LineInv

-----------------------------------------------------------------------------
(* Background and window *)

\* Painting starts at the left edge, with the first tile.
LEMMA StartLine == ASSUME LineInv, StartDraw PROVE LineInv'
<1>1. /\ phase \in {"Scanned", "Changed"} /\ phase' = "Background"
      /\ window_pos' = NoWindow /\ fetcher_x' = 0 /\ pos' = 0
      /\ UNCHANGED <<ly, inputVars, window_line_counter, sprite_buffer, loopVars, bg_scanline_mask>>
  BY DEF StartDraw, lineVars, lengthVars
<1>2. InputTypes' /\ Buffered' /\ PrioOfCgb' /\ LoopAtRest'
  BY <1>1, OthersKept
<1>3. BackgroundPainted'
  <2>1. Width \in Nat
    BY Sizes
  <2>2. \A c \in Columns : ~(c < 0)
    BY <2>1 DEF Columns
  <2> QED
    BY <1>1, <2>1, <2>2 DEF BackgroundPainted
<1> QED
  BY <1>1, <1>2, <1>3, OtherPhases DEF LineInv

\* Ground without a window depends on the registers alone.
LEMMA GroundBgKept ==
    ASSUME UNCHANGED <<ly, cgb, regs>>
    PROVE  \A c : GroundBg(c)' = GroundBg(c)
BY MapKept DEF GroundBg

\* The same for that of the window, within its line.
LEMMA GroundWindowKept ==
    ASSUME UNCHANGED <<cgb, regs, window_line_counter>>
    PROVE  \A c : GroundWindow(c)' = GroundWindow(c)
BY MapKept DEF GroundWindow

\* A round paints tile by tile, from where the last has ended.
LEMMA BackgroundLine == ASSUME LineInv, draw_background PROVE LineInv'
<1>1. /\ phase = "Background" /\ phase' = "Background" /\ pos < Width
      /\ UNCHANGED <<ly, inputVars, cgb, regs, window_line_counter, window_pos, sprite_buffer, loopVars>>
  BY DEF draw_background, windowVars, lengthVars, inputVars
<1>2. InputTypes /\ BackgroundPainted /\ PrioOfCgb
  BY DEF LineInv
<1>3. InputTypes'
  BY <1>1, <1>2, InputsKept
<1>4. Buffered'
  BY <1>1, BufferKept DEF LineInv, inputVars
<1>5. LoopAtRest'
  BY <1>1 DEF LineInv, LoopAtRest, LoopStart, loopVars
<1>6. \A c : GroundBg(c)' = GroundBg(c)
  BY <1>1, GroundBgKept
<1>7. CASE ~cgb /\ ~regs.bit_0
  <2>1. BlankLine
    BY <1>7 DEF draw_background
  <2>2. /\ \A c \in Columns : line'[c] = Blank /\ bg_scanline_mask'[c] = [pixel |-> Blank, prio |-> FALSE]
        /\ pos' = Width /\ fetcher_x' = fetcher_x
    BY <2>1 DEF BlankLine
  <2>3. \A c \in Columns : GroundBg(c)' = [pixel |-> Blank, prio |-> FALSE]
    BY <1>6, <1>7 DEF GroundBg
  <2>4. PrioOfCgb'
    BY <2>2 DEF PrioOfCgb
  <2>5. BackgroundPainted'
    <3>1. \A c \in Columns : bg_scanline_mask'[c] = GroundBg(c)'
      BY <2>2, <2>3, Zenon
    <3>3. \A c \in Columns : line'[c] = bg_scanline_mask'[c].pixel
      BY <2>2
    <3>2. Width \in 0 .. Width /\ fetcher_x \in Nat /\ window_pos = NoWindow
      BY <1>1, <1>2, Sizes DEF BackgroundPainted
    <3> QED
      BY <1>1, <2>2, <3>1, <3>2, <3>3 DEF BackgroundPainted
  <2> QED
    BY <1>1, <1>3, <1>4, <1>5, <2>4, <2>5, OtherPhases DEF LineInv
<1>8. CASE ~(~cgb /\ ~regs.bit_0)
  <2>1. PaintTile(FALSE, 0, LastBit)
    BY <1>8 DEF draw_background
  <2>2. /\ Tile \in Nat \ {0} /\ Width \in Nat /\ pos \in Nat /\ fetcher_x \in Nat /\ regs.scx \in Nat
    BY <1>1, <1>2, RegisterValues, Sizes DEF BackgroundPainted
  <2> DEFINE fine == regs.scx % Tile
             next == pos + LastBit + 1
  <2>3. fine \in 0 .. Tile - 1 /\ LastBit = Tile - 1 - (IF pos = 0 THEN fine ELSE 0)
    BY <2>2 DEF LastBit
  <2>4. (pos = 0 /\ fetcher_x = 0) \/ (pos > 0 /\ pos + fine = Tile * fetcher_x)
    <3>1. pos # Width
      BY <1>1, <2>2
    <3> QED
      BY <1>1, <1>2, <3>1 DEF BackgroundPainted
  <2>5. LastBit \in 0 .. Tile - 1
    BY <2>2, <2>3
  <2>6. fetcher_x' = fetcher_x + 1 /\ pos' = (IF next < Width THEN next ELSE Width)
    <3>1. pos + LastBit - 0 + 1 = next
      BY <2>2, <2>5
    <3> QED
      BY <2>1, <3>1 DEF PaintTile
  <2> HIDE DEF fine
  <2>7. next \in Nat /\ next > 0 /\ next + fine = Tile * (fetcher_x + 1)
    <3>1. Tile * (fetcher_x + 1) = Tile * fetcher_x + Tile
      BY <2>2
    <3>2. CASE pos = 0 /\ fetcher_x = 0
      <4>1. Tile * fetcher_x = 0
        BY <2>2, <3>2
      <4> QED
        BY <2>2, <2>3, <2>5, <3>1, <3>2, <4>1
    <3>3. CASE pos > 0 /\ pos + fine = Tile * fetcher_x
      BY <2>2, <2>3, <2>5, <3>1, <3>3
    <3> QED
      BY <2>4, <3>2, <3>3
  <2> HIDE DEF next
  <2>8. ASSUME NEW c \in Columns
        PROVE  /\ pos <= c /\ c - pos <= LastBit =>
                     bg_scanline_mask'[c] = GroundBg(c) /\ line'[c] = bg_scanline_mask'[c].pixel
               /\ ~(pos <= c /\ c - pos <= LastBit) =>
                     bg_scanline_mask'[c] = bg_scanline_mask[c] /\ line'[c] = line[c]
               /\ bg_scanline_mask'[c].prio => cgb
    <3>1. LastBit - 0 = LastBit /\ LastBit \in Int
      BY <2>2, <2>5
    <3>2. /\ pos <= c /\ c - pos <= LastBit =>
                /\ bg_scanline_mask'[c] = CellPixel(fetch_bg_tile_number(FALSE), ly + regs.scy, LastBit - (c - pos))
                /\ line'[c] = bg_scanline_mask'[c].pixel
          /\ ~(pos <= c /\ c - pos <= LastBit) =>
                bg_scanline_mask'[c] = bg_scanline_mask[c] /\ line'[c] = line[c]
      <4>1. TileAt(FALSE, 0, LastBit, c)
        BY <2>1, TilePainted
      <4> QED
        BY <3>1, <4>1 DEF TileAt
    <3>3. pos <= c /\ c - pos <= LastBit =>
            GroundBg(c) = CellPixel(fetch_bg_tile_number(FALSE), ly + regs.scy, LastBit - (c - pos))
      BY <1>1, <1>2, <1>8, BackgroundCell DEF GroundBg
    <3>4. \A cell, y_base, nth : CellPixel(cell, y_base, nth).prio => cgb
      BY DEF CellPixel
    <3> QED
      BY <1>2, <3>2, <3>3, <3>4 DEF PrioOfCgb
  <2>9. ASSUME NEW c \in Columns, c < pos'
        PROVE  bg_scanline_mask'[c] = GroundBg(c)' /\ line'[c] = bg_scanline_mask'[c].pixel
    <3>1. c \in Nat /\ c < Width
      BY <2>2 DEF Columns
    <3>2. CASE c < pos
      BY <1>1, <1>2, <1>6, <2>2, <2>8, <3>1, <3>2 DEF BackgroundPainted
    <3>3. CASE ~(c < pos)
      <4>1. c < next
        BY <2>2, <2>6, <2>7, <2>9, <3>1
      <4>2. pos <= c /\ c - pos <= LastBit
        BY <2>2, <2>5, <3>1, <3>3, <4>1 DEF next
      <4> QED
        BY <1>6, <2>8, <4>2
    <3> QED
      BY <3>2, <3>3
  <2>10. PrioOfCgb'
    BY <1>1, <2>8 DEF PrioOfCgb
  <2>11. BackgroundPainted'
    <3>1. /\ pos' \in 0 .. Width /\ fetcher_x' \in Nat
          /\ pos' = Width \/ (pos' > 0 /\ pos' + fine = Tile * fetcher_x')
      BY <2>2, <2>6, <2>7
    <3>2. window_pos' = NoWindow /\ regs'.scx % Tile = fine
      BY <1>1, <1>2 DEF BackgroundPainted, fine
    <3> QED
      BY <2>9, <3>1, <3>2 DEF BackgroundPainted
  <2> QED
    BY <1>1, <1>3, <1>4, <1>5, <2>10, <2>11, OtherPhases DEF LineInv
<1> QED
  BY <1>7, <1>8

\* Sprites are painted over what the ground shows.
LEMMA SpritesBegin ==
    ASSUME InputTypes, Buffered, phase' = "Sprites", pos' = 0, UNCHANGED sprite_buffer,
           \A c \in Columns : line'[c] = bg_scanline_mask'[c].pixel
    PROVE  SpritesPainted'
<1>1. Len(sprite_buffer') \in Nat
  BY DEF Buffered
<1>2. \A c \in Columns : ShowsLast(0, c)'
  BY DEF ShowsLast
<1>3. \A c \in Columns : ShowsLast(pos, c)'
  BY <1>2
<1> QED
  BY <1>1, <1>3 DEF SpritesPainted

\* Left edge of the window.
LEMMA WindowEdge == InputTypes => wx_sub7 \in Nat
BY RegisterValues, Sizes DEF wx_sub7

\* The background is done: the window is started or left out.
LEMMA BackgroundEnds == ASSUME LineInv, BackgroundDone PROVE LineInv'
<1>1. /\ phase = "Background" /\ pos = Width /\ fetcher_x' = 0
      /\ UNCHANGED <<ly, inputVars, cgb, regs, draw_window, window_line_counter, window_pos,
                     sprite_buffer, loopVars, line, bg_scanline_mask>>
  BY DEF BackgroundDone, windowVars, lineVars, lengthVars, inputVars
<1>2. InputTypes /\ Buffered /\ BackgroundPainted
  BY DEF LineInv
<1>3. Width \in Nat /\ Tile \in Nat /\ \A c \in Columns : c \in Nat /\ c < Width
  BY Sizes DEF Columns
<1>4. /\ window_pos = NoWindow
      /\ \A c \in Columns : bg_scanline_mask[c] = GroundBg(c) /\ line[c] = bg_scanline_mask[c].pixel
  BY <1>1, <1>2, <1>3 DEF BackgroundPainted
<1>5. \A c : GroundBg(c)' = GroundBg(c)
  BY <1>1, GroundBgKept
<1>6. CASE WindowShown /\ wx_sub7 < Width
  <2>1. phase' = "Window" /\ pos' = wx_sub7
    BY <1>6 DEF BackgroundDone
  <2>2. InputTypes' /\ Buffered' /\ PrioOfCgb' /\ LoopAtRest'
    BY <1>1, <2>1, OthersKept
  <2>3. WindowShown' /\ wx_sub7' = wx_sub7
    BY <1>1, <1>6 DEF WindowShown, wx_sub7
  <2>4. wx_sub7 \in Nat /\ Tile * 0 = 0
    BY <1>2, <1>3, WindowEdge
  <2>5. WindowPainted'
    <3>1. wx_sub7' < Width /\ window_pos' = NoWindow /\ pos' \in 0 .. Width /\ fetcher_x' \in Nat
          /\ pos' = wx_sub7' + Tile * fetcher_x'
      BY <1>1, <1>3, <1>4, <1>6, <2>1, <2>3, <2>4
    <3>2. \A c \in Columns : bg_scanline_mask'[c] = GroundBg(c)' /\ line'[c] = bg_scanline_mask'[c].pixel
      BY <1>1, <1>4, <1>5
    <3>3. \A c \in Columns : ~(wx_sub7' <= c /\ c < pos')
      BY <1>3, <2>1, <2>3, <2>4
    <3> QED
      BY <2>3, <3>1, <3>2, <3>3 DEF WindowPainted
  <2> QED
    BY <2>1, <2>2, <2>5, OtherPhases DEF LineInv
<1>7. CASE ~(WindowShown /\ wx_sub7 < Width)
  <2>1. phase' = "Sprites" /\ pos' = 0
    BY <1>7 DEF BackgroundDone
  <2>2. InputTypes' /\ Buffered' /\ PrioOfCgb' /\ LoopAtRest'
    BY <1>1, <2>1, OthersKept
  <2>3. GroundShown'
    <3>1. \A c : ~InWindow(c)'
      BY <1>1, <1>4 DEF InWindow
    <3>2. \A c : Ground(c)' = GroundBg(c)'
      BY <3>1 DEF Ground, GroundBg
    <3>3. \A c \in Columns : bg_scanline_mask'[c] = Ground(c)'
      BY <1>1, <1>4, <1>5, <3>2
    <3> QED
      BY <3>3 DEF GroundShown
  <2>4. SpritesPainted'
    BY <1>1, <1>2, <1>4, <2>1, SpritesBegin
  <2> QED
    BY <2>1, <2>2, <2>3, <2>4, OtherPhases DEF LineInv
<1> QED
  BY <1>6, <1>7

\* A round of the window; only one that starts left of the screen is short.
LEMMA WindowLine == ASSUME LineInv, draw_window_tile PROVE LineInv'
<1> DEFINE first == IF fetcher_x = 0 THEN skip_pixels ELSE 0
           next == pos + (Tile - 1) - first + 1
<1>1. /\ phase = "Window" /\ phase' = "Window" /\ pos < Width
      /\ UNCHANGED <<ly, inputVars, cgb, regs, draw_window, window_line_counter, window_pos, sprite_buffer, loopVars>>
      /\ PaintTile(TRUE, first, Tile - 1)
  BY DEF draw_window_tile, windowVars, lengthVars, inputVars
<1>2. InputTypes /\ WindowPainted /\ PrioOfCgb
  BY DEF LineInv
<1>3. InputTypes'
  BY <1>1, <1>2, InputsKept
<1>4. Buffered'
  BY <1>1, BufferKept DEF LineInv, inputVars
<1>5. LoopAtRest'
  BY <1>1 DEF LineInv, LoopAtRest, LoopStart, loopVars
<1>6. /\ \A c : GroundBg(c)' = GroundBg(c) /\ GroundWindow(c)' = GroundWindow(c)
      /\ WindowShown' /\ wx_sub7' = wx_sub7
  BY <1>1, <1>2, GroundBgKept, GroundWindowKept DEF WindowPainted, WindowShown, wx_sub7
<1>7. /\ Tile \in Nat \ {0} /\ Width \in Nat /\ pos \in Nat /\ fetcher_x \in Nat /\ regs.wx \in Nat
      /\ wx_sub7 \in Nat
  BY <1>1, <1>2, RegisterValues, WindowEdge, Sizes DEF WindowPainted
<1>8. first \in 0 .. Tile - 1 /\ (regs.wx >= Tile - 1 => first = 0)
  BY <1>7 DEF skip_pixels
<1>9. fetcher_x' = fetcher_x + 1 /\ pos' = IF next < Width THEN next ELSE Width
  BY <1>1 DEF PaintTile
<1> HIDE DEF first
<1>10. next \in Nat /\ next > pos /\ (regs.wx >= Tile - 1 => next = pos + Tile)
  BY <1>7, <1>8
<1>11. regs.wx >= Tile - 1 => pos = wx_sub7 + Tile * fetcher_x
  <2>1. pos # Width
    BY <1>1, <1>7
  <2> QED
    BY <1>1, <1>2, <2>1 DEF WindowPainted
<1>12. regs.wx >= Tile - 1 => next = wx_sub7 + Tile * (fetcher_x + 1)
  <2>1. Tile * (fetcher_x + 1) = Tile * fetcher_x + Tile /\ Tile * fetcher_x \in Nat
    BY <1>7
  <2> HIDE DEF next
  <2> QED
    BY <1>7, <1>10, <1>11, <2>1
<1>13. pos >= wx_sub7 \/ regs.wx < Tile - 1
  <2>1. Tile * fetcher_x \in Nat
    BY <1>7
  <2> QED
    BY <1>7, <1>11, <2>1
<1> HIDE DEF next
<1>14. ASSUME NEW c \in Columns
       PROVE  /\ pos <= c /\ c - pos <= Tile - 1 - first =>
                    /\ regs.wx >= Tile - 1 => bg_scanline_mask'[c] = GroundWindow(c)
                    /\ line'[c] = bg_scanline_mask'[c].pixel
              /\ ~(pos <= c /\ c - pos <= Tile - 1 - first) =>
                    bg_scanline_mask'[c] = bg_scanline_mask[c] /\ line'[c] = line[c]
              /\ bg_scanline_mask'[c].prio => cgb
  <2>1. TileAt(TRUE, first, Tile - 1, c)
    BY <1>1, TilePainted
  <2>2. /\ pos <= c /\ c - pos <= Tile - 1 - first =>
              /\ bg_scanline_mask'[c] = CellPixel(fetch_bg_tile_number(TRUE), window_line_counter, Tile - 1 - (c - pos))
              /\ line'[c] = bg_scanline_mask'[c].pixel
        /\ ~(pos <= c /\ c - pos <= Tile - 1 - first) =>
              bg_scanline_mask'[c] = bg_scanline_mask[c] /\ line'[c] = line[c]
    BY <2>1 DEF TileAt
  <2>3. regs.wx >= Tile - 1 /\ pos <= c /\ c - pos <= Tile - 1 =>
          GroundWindow(c) = CellPixel(fetch_bg_tile_number(TRUE), window_line_counter, Tile - 1 - (c - pos))
    BY <1>1, <1>2, WindowCell
  <2>4. \A cell, y_base, nth : CellPixel(cell, y_base, nth).prio => cgb
    BY DEF CellPixel
  <2>5. regs.wx >= Tile - 1 => Tile - 1 - first = Tile - 1
    BY <1>7, <1>8
  <2> QED
    BY <1>2, <2>2, <2>3, <2>4, <2>5 DEF PrioOfCgb
<1>15. \A c \in Columns : line'[c] = bg_scanline_mask'[c].pixel
  BY <1>1, <1>2, <1>14 DEF WindowPainted
<1>16. ASSUME NEW c \in Columns
       PROVE  /\ c < wx_sub7 => regs.wx < Tile - 1 \/ bg_scanline_mask'[c] = GroundBg(c)
              /\ regs.wx >= Tile - 1 /\ wx_sub7 <= c /\ c < pos' => bg_scanline_mask'[c] = GroundWindow(c)
  <2>1. c \in Nat /\ c < Width
    BY <1>7 DEF Columns
  <2>2. ASSUME c < wx_sub7, regs.wx >= Tile - 1 PROVE bg_scanline_mask'[c] = GroundBg(c)
    <3>1. ~(pos <= c)
      BY <1>7, <1>13, <2>1, <2>2
    <3> QED
      BY <1>1, <1>2, <1>14, <2>2, <3>1 DEF WindowPainted
  <2>3. ASSUME regs.wx >= Tile - 1, wx_sub7 <= c, c < pos' PROVE bg_scanline_mask'[c] = GroundWindow(c)
    <3>1. CASE c < pos
      <4>1. ~(pos <= c)
        BY <1>7, <2>1, <3>1
      <4> QED
        BY <1>1, <1>2, <1>14, <2>3, <3>1, <4>1 DEF WindowPainted
    <3>2. CASE ~(c < pos)
      <4>1. c < next
        BY <1>7, <1>9, <1>10, <2>1, <2>3
      <4>2. pos <= c /\ c - pos <= Tile - 1 - first
        BY <1>7, <1>8, <2>1, <3>2, <4>1 DEF next
      <4> QED
        BY <1>14, <2>3, <4>2
    <3> QED
      BY <3>1, <3>2
  <2> QED
    BY <1>7, <2>2, <2>3
<1>17. WindowPainted'
  <2>1. \A c \in Columns : c < wx_sub7 => bg_scanline_mask'[c] = GroundBg(c)
    <3>1. regs.wx < Tile - 1 => wx_sub7 = 0
      BY DEF wx_sub7
    <3>2. \A c \in Columns : ~(c < 0)
      BY <1>7 DEF Columns
    <3> QED
      BY <1>16, <3>1, <3>2
  <2>2. /\ pos' \in 0 .. Width /\ fetcher_x' \in Nat
        /\ regs'.wx >= Tile - 1 => pos' = Width \/ pos' = wx_sub7' + Tile * fetcher_x'
    BY <1>1, <1>6, <1>7, <1>9, <1>10, <1>12
  <2>3. wx_sub7' < Width /\ window_pos' = NoWindow
    BY <1>1, <1>2, <1>6 DEF WindowPainted
  <2> QED
    BY <1>1, <1>6, <1>15, <1>16, <2>1, <2>2, <2>3 DEF WindowPainted
<1>18. PrioOfCgb'
  BY <1>1, <1>14 DEF PrioOfCgb
<1> QED
  BY <1>1, <1>3, <1>4, <1>5, <1>17, <1>18, OtherPhases DEF LineInv

\* After the window its lines are one more.
LEMMA WindowEnds == ASSUME LineInv, WindowDone PROVE LineInv'
<1>1. /\ phase = "Window" /\ phase' = "Sprites" /\ pos = Width /\ pos' = 0
      /\ window_line_counter' = window_line_counter + 1 /\ window_pos' = wx_sub7
      /\ UNCHANGED <<ly, inputVars, cgb, regs, sprite_buffer, loopVars, line, bg_scanline_mask>>
  BY DEF WindowDone, lineVars, lengthVars, inputVars
<1>2. InputTypes /\ Buffered /\ WindowPainted
  BY DEF LineInv
<1>3. wx_sub7 \in Nat /\ wx_sub7 # NoWindow /\ regs.wx \in Nat /\ Tile \in Nat
  BY <1>2, WindowEdge, RegisterValues, Sizes DEF NoWindow
<1>4. InputTypes'
  <2>1. /\ cgb' \in BOOLEAN /\ DOMAIN regs' = Flags \cup Positions /\ Typed(regs')
        /\ oam' \in Seq(SpriteType) /\ seen'.oam \in Seq(SpriteType)
        /\ ly' \in 0 .. VisibleLines - 1 /\ window_line_counter' \in Nat
    BY <1>1, <1>2 DEF InputTypes, inputVars
  <2>2. window_line_counter <= ly /\ ly \in Nat /\ window_line_counter \in Nat
    BY <1>1, <1>2, Maps DEF InputTypes
  <2>3. window_line_counter' <= ly' + 1
    BY <1>1, <2>2
  <2>4. window_line_counter' <= IF phase' \in {"Sprites", "Length", "Drawn"} THEN ly' + 1 ELSE ly'
    BY <1>1, <2>3
  <2> QED
    BY <2>1, <2>4 DEF InputTypes
<1>5. Buffered'
  BY <1>1, BufferKept DEF LineInv, inputVars
<1>6. PrioOfCgb' /\ LoopAtRest'
  BY <1>1 DEF LineInv, PrioOfCgb, LoopAtRest, LoopStart, loopVars, inputVars
<1>7. GroundShown'
  <2> SUFFICES ASSUME NEW c \in Columns
               PROVE  (InWindow(c)' /\ regs'.wx < Tile - 1) \/ bg_scanline_mask'[c] = Ground(c)'
    BY DEF GroundShown
  <2>1. c \in Nat /\ c < Width
    BY Sizes DEF Columns
  <2>2. InWindow(c)' <=> c >= wx_sub7
    BY <1>1, <1>3 DEF InWindow
  <2>3. cgb' \/ regs'.bit_0
    BY <1>1, <1>2 DEF WindowPainted, WindowShown
  <2>4. CASE c < wx_sub7
    <3>1. ~InWindow(c)'
      BY <1>3, <2>1, <2>2, <2>4
    <3>2. Ground(c)' = GroundBg(c)'
      BY <2>3, <3>1 DEF Ground, GroundBg
    <3> QED
      BY <1>1, <1>2, <2>4, <3>2, GroundBgKept DEF WindowPainted
  <2>5. CASE c >= wx_sub7 /\ regs.wx >= Tile - 1
    <3>1. bg_scanline_mask[c] = GroundWindow(c)
      BY <1>1, <1>2, <1>3, <2>1, <2>5 DEF WindowPainted
    <3>2. window_line_counter' - 1 = window_line_counter
      BY <1>1, <1>2 DEF InputTypes
    <3>3. MapPixel(regs.wnd_tilemap, window_line_counter - 1, c - (regs.wx - (Tile - 1)))' = GroundWindow(c)
      BY <1>1, <3>2, Zenon DEF GroundWindow, MapPixel
    <3>4. Ground(c)' = MapPixel(regs.wnd_tilemap, window_line_counter - 1, c - (regs.wx - (Tile - 1)))'
      BY <2>2, <2>3, <2>5 DEF Ground
    <3> QED
      BY <1>1, <3>1, <3>3, <3>4
  <2>6. CASE c >= wx_sub7 /\ regs.wx < Tile - 1
    BY <1>1, <2>2, <2>6
  <2> QED
    BY <1>3, <2>1, <2>4, <2>5, <2>6
<1>8. SpritesPainted'
  BY <1>1, <1>2, SpritesBegin DEF WindowPainted
<1> QED
  BY <1>1, <1>4, <1>5, <1>6, <1>7, <1>8, OtherPhases DEF LineInv

-----------------------------------------------------------------------------
(* Sprites *)

\* Only a map of the CGB hides sprites.
LEMMA HiddenByMap ==
    ASSUME PrioOfCgb, NEW o, NEW c \in Columns, MapHides(o, c)
    PROVE  cgb
BY DEF PrioOfCgb, MapHides

\* Painting a sprite shows it where it decides, and leaves the rest.
LEMMA PaintedColumn ==
    ASSUME PrioOfCgb, NEW c \in Columns, NEW k
    PROVE  /\ Decides(k, c) => Painted(sprite_buffer[k], c) = Decided(k, c)
           /\ ~Decides(k, c) => Painted(sprite_buffer[k], c) = line[c]
<1> DEFINE o == sprite_buffer[k]
<1>1. MapHides(o, c) => cgb
  BY HiddenByMap
<1>2. Decides(k, c) <=> /\ Spans(o, c) /\ HasInk(SpritePixel(o, c))
                        /\ cgb => ~MapHides(o, c) /\ ~SpriteHides(o, c)
  BY Zenon DEF Decides
<1>3. Decided(k, c) = IF MapHides(o, c) \/ SpriteHides(o, c) THEN bg_scanline_mask[c].pixel ELSE SpritePixel(o, c)
  BY Zenon DEF Decided
<1> HIDE DEF o
<1>4. CASE ~Spans(o, c) \/ MapHides(o, c) \/ ~HasInk(SpritePixel(o, c))
  <2>1. Painted(o, c) = line[c]
    BY <1>4, Zenon DEF Painted
  <2> QED
    BY <1>1, <1>2, <1>4, <2>1 DEF o
<1>5. CASE ~(~Spans(o, c) \/ MapHides(o, c) \/ ~HasInk(SpritePixel(o, c)))
  <2>1. Painted(o, c) = IF SpriteHides(o, c) THEN (IF cgb THEN line[c] ELSE bg_scanline_mask[c].pixel)
                        ELSE SpritePixel(o, c)
    BY <1>5 DEF Painted
  <2> QED
    BY <1>1, <1>2, <1>3, <1>5, <2>1 DEF o
<1> QED
  BY <1>4, <1>5

\* One sprite more is painted.
LEMMA SpriteLine == ASSUME LineInv, draw_sprite PROVE LineInv'
<1>1. /\ phase = "Sprites" /\ phase' = "Sprites" /\ regs.obj_enable /\ pos < Len(sprite_buffer) /\ pos' = pos + 1
      /\ line' = [c \in Columns |-> Painted(sprite_buffer[pos + 1], c)]
      /\ UNCHANGED <<ly, inputVars, cgb, regs, window_line_counter, window_pos, sprite_buffer, loopVars, bg_scanline_mask>>
  BY DEF draw_sprite, windowVars, lengthVars, inputVars
<1>2. InputTypes' /\ Buffered' /\ PrioOfCgb' /\ LoopAtRest'
  BY <1>1, OthersKept
<1>3. GroundShown'
  BY <1>1, GroundKept DEF LineInv
<1>4. Len(sprite_buffer) \in Nat /\ pos \in 0 .. Len(sprite_buffer) /\ PrioOfCgb
  BY <1>1 DEF LineInv, Buffered, SpritesPainted
<1>5. ASSUME NEW c \in Columns, NEW n \in Nat, n = pos + 1 PROVE ShowsLast(n, c)'
  <2>1. ShowsLast(pos, c)
    BY <1>1 DEF LineInv, SpritesPainted
  <2>2. /\ Decides(n, c) => line'[c] = Decided(n, c)
        /\ ~Decides(n, c) => line'[c] = line[c]
    BY <1>1, <1>4, <1>5, PaintedColumn
  <2>3. \A k : (Decides(k, c)' <=> Decides(k, c)) /\ Decided(k, c)' = Decided(k, c)
    <3>1. UNCHANGED <<ly, cgb, regs, bg_scanline_mask>>
      BY <1>1
    <3>2. \A o : /\ SpritePixel(o, c)' = SpritePixel(o, c)
                 /\ MapHides(o, c)' <=> MapHides(o, c)
                 /\ SpriteHides(o, c)' <=> SpriteHides(o, c)
      BY <3>1, PixelsKept
    <3> SUFFICES ASSUME NEW k PROVE (Decides(k, c)' <=> Decides(k, c)) /\ Decided(k, c)' = Decided(k, c)
      OBVIOUS
    <3> DEFINE o == sprite_buffer[k]
    <3>3. o' = o
      BY <1>1
    <3>4. /\ SpritePixel(o, c)' = SpritePixel(o, c)
          /\ MapHides(o, c)' <=> MapHides(o, c)
          /\ SpriteHides(o, c)' <=> SpriteHides(o, c)
      BY <1>1, <3>3 DEF SpritePixel, SpriteRow, SpriteBase, MapHides, SpriteHides, PriorityOff, OnGround
    <3>5. Spans(o, c)' <=> Spans(o, c)
      BY <3>3 DEF Spans
    <3> QED
      BY <1>1, <3>4, <3>5 DEF Decides, Decided
  <2>10. pos \in Nat /\ n \in Nat /\ n = pos + 1
    BY <1>4, <1>5
  <2>4. \A k \in 1 .. n : k = n \/ k \in 1 .. pos
    BY <2>10
  <2>5. \A k \in 1 .. pos : k \in 1 .. n /\ k < n
    BY <2>10
  <2>6. n \in 1 .. n /\ \A k \in 1 .. n : ~(n < k)
    BY <2>10
  <2>7. bg_scanline_mask'[c] = bg_scanline_mask[c]
    BY <1>1
  <2>8. CASE Decides(n, c)
    <3>1. line'[c] = Decided(n, c)'
      BY <2>2, <2>3, <2>8
    <3>2. Decides(n, c)' /\ \A j \in 1 .. n : n < j => ~Decides(j, c)'
      BY <2>3, <2>6, <2>8
    <3> QED
      BY <2>6, <3>1, <3>2 DEF ShowsLast
  <2>9. CASE ~Decides(n, c)
    <3>1. line'[c] = line[c]
      BY <2>2, <2>9
    <3>2. CASE (\A k \in 1 .. pos : ~Decides(k, c)) /\ line[c] = bg_scanline_mask[c].pixel
      <4>1. (\A k \in 1 .. n : ~Decides(k, c)') /\ line'[c] = bg_scanline_mask'[c].pixel
        BY <2>3, <2>4, <2>7, <2>9, <3>1, <3>2
      <4> QED
        BY <4>1 DEF ShowsLast
    <3>3. ASSUME NEW k \in 1 .. pos, Decides(k, c), \A j \in 1 .. pos : k < j => ~Decides(j, c),
                 line[c] = Decided(k, c)
          PROVE  ShowsLast(n, c)'
      <4>1. /\ k \in 1 .. n /\ Decides(k, c)' /\ line'[c] = Decided(k, c)'
            /\ \A j \in 1 .. n : k < j => ~Decides(j, c)'
        BY <2>3, <2>4, <2>5, <2>9, <3>1, <3>3
      <4> QED
        BY <4>1 DEF ShowsLast
    <3> QED
      BY <2>1, <3>2, <3>3 DEF ShowsLast
  <2> QED
    BY <2>8, <2>9
<1>6. SpritesPainted'
  <2>1. pos' \in 0 .. Len(sprite_buffer') /\ regs'.obj_enable
    BY <1>1, <1>4
  <2>2. pos' \in Nat /\ pos' = pos + 1
    BY <1>1, <1>4
  <2>3. \A c \in Columns : ShowsLast(pos, c)'
    BY <1>5, <2>2 DEF ShowsLast
  <2> QED
    BY <2>1, <2>3 DEF SpritesPainted
<1> QED
  BY <1>1, <1>2, <1>3, <1>6, OtherPhases DEF LineInv

\* Of two sprites only one is above the other.
LEMMA AboveOnce ==
    ASSUME InputTypes, NEW i \in DOMAIN seen.oam, NEW j \in DOMAIN seen.oam, Above(i, j)
    PROVE  ~Above(j, i)
<1>1. i \in Nat /\ j \in Nat /\ seen.oam[i].x \in Nat /\ seen.oam[j].x \in Nat
  <2>1. seen.oam \in Seq(SpriteType)
    BY DEF InputTypes
  <2> QED
    BY <2>1, SpriteOf
<1> QED
  BY <1>1 DEF Above

\* When all sprites are painted, the last that decides is the topmost.
LEMMA TopmostShown ==
    ASSUME InputTypes, Buffered, phase # "Scan", NEW c \in Columns,
           ShowsLast(IF regs.obj_enable THEN Len(sprite_buffer) ELSE 0, c)
    PROVE  SpritesAt(c)
<1> DEFINE n == Len(sprite_buffer)
<1>1. PICK g \in [1 .. n -> DOMAIN seen.oam] : BufferOf(g)
  BY DEF Buffered
<1>2. n \in Nat
  BY DEF Buffered
<1> HIDE DEF n
<1>3. /\ \A k \in 1 .. n : sprite_buffer[k] = seen.oam[g[k]]
      /\ {g[k] : k \in 1 .. n} = Candidates
      /\ \A k, m \in 1 .. n : k < m => Above(g[m], g[k])
  BY <1>1 DEF BufferOf, n
<1>4. CASE ~regs.obj_enable
  <2>1. line[c] = bg_scanline_mask[c].pixel
    BY <1>4 DEF ShowsLast
  <2> QED
    BY <1>4, <2>1 DEF SpritesAt
<1>5. CASE regs.obj_enable
  <2>1. ShowsLast(n, c)
    BY <1>5 DEF n
  <2>2. \A k \in 1 .. n : Decides(k, c) <=> g[k] \in Deciding(c)
    <3> SUFFICES ASSUME NEW k \in 1 .. n PROVE Decides(k, c) <=> g[k] \in Deciding(c)
      OBVIOUS
    <3>1. g[k] \in Candidates /\ sprite_buffer[k] = seen.oam[g[k]]
      BY <1>3
    <3>2. g[k] \in InkAt(c) <=> Spans(sprite_buffer[k], c) /\ HasInk(SpritePixel(sprite_buffer[k], c))
      BY <3>1 DEF InkAt
    <3>3. Hidden(g[k], c) <=> MapHides(sprite_buffer[k], c) \/ SpriteHides(sprite_buffer[k], c)
      BY <3>1 DEF Hidden
    <3> QED
      BY <3>2, <3>3 DEF Decides, Deciding
  <2>3. \A i \in Deciding(c) : \E k \in 1 .. n : i = g[k] /\ Decides(k, c)
    <3> SUFFICES ASSUME NEW i \in Deciding(c) PROVE \E k \in 1 .. n : i = g[k] /\ Decides(k, c)
      OBVIOUS
    <3>1. i \in Candidates
      BY DEF Deciding, InkAt
    <3>2. PICK k \in 1 .. n : i = g[k]
      BY <1>3, <3>1
    <3> QED
      BY <2>2, <3>2
  <2>4. CASE (\A k \in 1 .. n : ~Decides(k, c)) /\ line[c] = bg_scanline_mask[c].pixel
    <3>1. Topmost(c) = {}
      BY <2>3, <2>4 DEF Topmost, Uppermost
    <3> QED
      BY <2>4, <3>1 DEF SpritesAt
  <2>5. ASSUME NEW k \in 1 .. n, Decides(k, c), \A j \in 1 .. n : k < j => ~Decides(j, c), line[c] = Decided(k, c)
        PROVE  SpritesAt(c)
    <3>1. g[k] \in Deciding(c)
      BY <2>2, <2>5
    <3>2. \A j \in Deciding(c) \ {g[k]} : Above(g[k], j)
      <4> SUFFICES ASSUME NEW j \in Deciding(c), j # g[k] PROVE Above(g[k], j)
        OBVIOUS
      <4>1. PICK m \in 1 .. n : j = g[m] /\ Decides(m, c)
        BY <2>3
      <4>2. m # k /\ ~(k < m)
        BY <2>5, <4>1
      <4>3. m < k
        BY <1>2, <4>2
      <4> QED
        BY <1>3, <4>1, <4>3
    <3>3. g[k] \in Topmost(c)
      BY <3>1, <3>2 DEF Topmost, Uppermost
    <3>4. \A i \in Topmost(c) : i = g[k]
      <4> SUFFICES ASSUME NEW i \in Topmost(c), i # g[k] PROVE FALSE
        OBVIOUS
      <4>1. i \in Deciding(c) /\ Above(i, g[k])
        BY <3>1 DEF Topmost, Uppermost
      <4>2. Above(g[k], i)
        BY <3>2, <4>1
      <4>3. i \in DOMAIN seen.oam /\ g[k] \in DOMAIN seen.oam
        BY <1>1, <2>3, <4>1
      <4> QED
        BY <4>1, <4>2, <4>3, AboveOnce
    <3>5. Topmost(c) # {} /\ (CHOOSE i \in Topmost(c) : TRUE) = g[k]
      BY <3>3, <3>4
    <3>6. (\E i \in Topmost(c) : Hidden(i, c)) <=> Hidden(g[k], c)
      BY <3>3, <3>4
    <3>7. sprite_buffer[k] = seen.oam[g[k]]
      BY <1>3
    <3>8. Hidden(g[k], c) <=> MapHides(sprite_buffer[k], c) \/ SpriteHides(sprite_buffer[k], c)
      BY <3>7 DEF Hidden
    <3>9. line[c] = IF Hidden(g[k], c) THEN bg_scanline_mask[c].pixel ELSE SpritePixel(seen.oam[g[k]], c)
      BY <2>5, <3>7, <3>8 DEF Decided
    <3> QED
      BY <1>5, <3>5, <3>6, <3>9 DEF SpritesAt
  <2> QED
    BY <2>1, <2>4, <2>5 DEF ShowsLast
<1> QED
  BY <1>4, <1>5

\* The sprites are painted.
LEMMA SpritesEnd == ASSUME LineInv, SpritesDone PROVE LineInv'
<1>1. /\ phase = "Sprites" /\ phase' = "Length" /\ (pos = Len(sprite_buffer) \/ ~regs.obj_enable)
      /\ UNCHANGED <<ly, inputVars, cgb, regs, seen, window_line_counter, window_pos, sprite_buffer,
                     line, bg_scanline_mask>>
  BY DEF SpritesDone, windowVars, lineVars, inputVars
<1>2. InputTypes /\ Buffered /\ SpritesPainted
  BY DEF LineInv
<1>3. InputTypes'
  BY <1>1, <1>2, InputsKept
<1>4. Buffered'
  BY <1>1, BufferKept DEF LineInv
<1>5. GroundShown'
  BY <1>1, GroundKept DEF LineInv
<1>6. PrioOfCgb' /\ LoopAtRest'
  BY <1>1 DEF LineInv, PrioOfCgb, LoopAtRest
<1>7. SpritesShown'
  <2>1. ASSUME NEW c \in Columns PROVE SpritesAt(c)
    <3>1. ShowsLast(pos, c) /\ (~regs.obj_enable => pos = 0)
      BY <1>1, <1>2 DEF SpritesPainted
    <3>2. pos = IF regs.obj_enable THEN Len(sprite_buffer) ELSE 0
      BY <1>1, <3>1
    <3> QED
      BY <1>1, <1>2, <3>1, <3>2, TopmostShown
  <2>2. \A c \in Columns : SpritesAt(c)'
    BY <1>1, <2>1, ShownKept
  <2> QED
    BY <2>2 DEF SpritesShown, DecidedBy, SpritesAt, Topmost
<1> QED
  BY <1>1, <1>3, <1>4, <1>5, <1>6, <1>7, OtherPhases DEF LineInv

\* Nothing of this is changed while the length is counted,
LEMMA CountKeeps == ASSUME LineInv, CountLength PROVE LineInv'
<1>1. /\ phase = "Length" /\ phase' = "Length"
      /\ UNCHANGED <<ly, inputVars, cgb, regs, seen, window_line_counter, window_pos, line, bg_scanline_mask>>
  BY DEF CountLength, windowVars, lineVars, inputVars
<1>2. sprite_buffer' = sprite_buffer
  BY DEF CountLength, LoopStep, FetchSprite, NextColumn
<1>3. InputTypes'
  BY <1>1, InputsKept DEF LineInv
<1>4. Buffered'
  BY <1>1, <1>2, BufferKept DEF LineInv
<1>5. GroundShown'
  BY <1>1, GroundKept DEF LineInv
<1>6. PrioOfCgb' /\ LoopAtRest'
  BY <1>1 DEF LineInv, PrioOfCgb, LoopAtRest
<1>7. SpritesShown'
  <2>1. \A c \in Columns : SpritesAt(c)
    BY <1>1, ShownAt DEF LineInv
  <2>2. \A c \in Columns : SpritesAt(c)'
    BY <1>1, <2>1, ShownKept
  <2> QED
    BY <2>2 DEF SpritesShown, DecidedBy, SpritesAt, Topmost
<1> QED
  BY <1>1, <1>3, <1>4, <1>5, <1>6, <1>7, OtherPhases DEF LineInv

\* and when it is taken over.
LEMMA LengthEnds == ASSUME LineInv, LengthDone PROVE LineInv'
<1>1. /\ phase = "Length" /\ phase' = "Drawn"
      /\ UNCHANGED <<ly, inputVars, cgb, regs, seen, window_line_counter, window_pos, sprite_buffer,
                     line, bg_scanline_mask>>
  BY DEF LengthDone, windowVars, lineVars, inputVars
<1>2. InputTypes'
  BY <1>1, InputsKept DEF LineInv
<1>3. Buffered'
  BY <1>1, BufferKept DEF LineInv
<1>4. GroundShown'
  BY <1>1, GroundKept DEF LineInv
<1>5. PrioOfCgb'
  BY <1>1 DEF LineInv, PrioOfCgb
<1>6. LoopAtRest'
  BY DEF LengthDone, StartLoop, LoopAtRest, LoopStart
<1>7. SpritesShown'
  <2>1. \A c \in Columns : SpritesAt(c)
    BY <1>1, ShownAt DEF LineInv
  <2>2. \A c \in Columns : SpritesAt(c)'
    BY <1>1, <2>1, ShownKept
  <2> QED
    BY <2>2 DEF SpritesShown, DecidedBy, SpritesAt, Topmost
<1> QED
  BY <1>1, <1>2, <1>3, <1>4, <1>5, <1>6, <1>7, OtherPhases DEF LineInv

\* The next line, or the first of the next frame.
LEMMA NextLineKeeps == ASSUME LineInv, NextLine PROVE LineInv'
<1>1. /\ phase = "Drawn" /\ phase' = "Scan" /\ ly' = (ly + 1) % VisibleLines
      /\ UNCHANGED <<cgb, regs, oam, seen, sprite_buffer, loopVars, bg_scanline_mask>>
      /\ IF ly' = 0 THEN window_line_counter' = 0 ELSE window_line_counter' = window_line_counter
  BY DEF NextLine, lineVars, lengthVars, inputVars
<1>2. InputTypes
  BY DEF LineInv
<1>3. InputTypes'
  <2>1. /\ VisibleLines \in Nat \ {0} /\ ly \in 0 .. VisibleLines - 1
        /\ window_line_counter \in Nat /\ window_line_counter <= ly + 1
    BY <1>1, <1>2, Maps DEF InputTypes
  <2>2. (ly + 1) % VisibleLines = IF ly + 1 = VisibleLines THEN 0 ELSE ly + 1
    <3>1. CASE ly + 1 = VisibleLines
      <4> DEFINE n == ly + 1
      <4>1. n \in Int /\ Divided(n, VisibleLines, 1, 0)
        BY <2>1, <3>1 DEF Divided
      <4> HIDE DEF n
      <4>2. n % VisibleLines = 0
        BY <2>1, <4>1, Division
      <4> QED
        BY <3>1, <4>2 DEF n
    <3>2. CASE ly + 1 # VisibleLines
      <4> DEFINE n == ly + 1
      <4>1. n \in Int /\ Divided(n, VisibleLines, 0, n)
        BY <2>1, <3>2 DEF Divided
      <4> HIDE DEF n
      <4>2. n % VisibleLines = n
        BY <2>1, <4>1, Division
      <4> QED
        BY <3>2, <4>2 DEF n
    <3> QED
      BY <3>1, <3>2
  <2>3. /\ ly' \in 0 .. VisibleLines - 1 /\ window_line_counter' \in Nat
        /\ window_line_counter' <= ly'
    <3>1. CASE ly + 1 = VisibleLines
      <4>1. ly' = 0 /\ window_line_counter' = 0
        BY <1>1, <2>2, <3>1
      <4> QED
        BY <2>1, <4>1
    <3>2. CASE ly + 1 # VisibleLines
      <4>1. ly' = ly + 1 /\ ly' # 0
        BY <1>1, <2>1, <2>2, <3>2
      <4>2. window_line_counter' = window_line_counter
        BY <1>1, <4>1
      <4> QED
        BY <2>1, <3>2, <4>1, <4>2
    <3> QED
      BY <3>1, <3>2
  <2>4. window_line_counter' <= IF phase' \in {"Sprites", "Length", "Drawn"} THEN ly' + 1 ELSE ly'
    BY <1>1, <2>3
  <2>5. /\ cgb' \in BOOLEAN /\ DOMAIN regs' = Flags \cup Positions /\ Typed(regs')
        /\ oam' \in Seq(SpriteType) /\ seen'.oam \in Seq(SpriteType)
    BY <1>1, <1>2 DEF InputTypes
  <2> QED
    BY <2>3, <2>4, <2>5 DEF InputTypes
<1>4. Buffered'
  BY <1>1 DEF LineInv, Buffered
<1>5. PrioOfCgb' /\ LoopAtRest'
  BY <1>1 DEF LineInv, PrioOfCgb, LoopAtRest, LoopStart, loopVars
<1> QED
  BY <1>1, <1>3, <1>4, <1>5, OtherPhases DEF LineInv

\* A line starts with everything at rest.
LEMMA LineStarts == LineInit => LineInv
<1> SUFFICES ASSUME LineInit PROVE LineInv
  OBVIOUS
<1>1. InputTypes
  BY InputsInit
<1>2. phase = "Scan" /\ sprite_buffer = <<>> /\ LoopStart(FALSE)
  BY DEF LineInit
<1>3. Buffered
  <2>1. <<>> \in Seq(SpriteType) /\ Len(<<>>) = 0
    OBVIOUS
  <2> QED
    BY <1>2, <2>1, Sizes DEF Buffered
<1>4. PrioOfCgb
  BY DEF LineInit, PrioOfCgb
<1> QED
  BY <1>1, <1>2, <1>3, <1>4
  DEF LineInv, LoopAtRest, BackgroundPainted, WindowPainted, SpritesPainted, GroundShown, SpritesShown

\* A step that changes nothing.
LEMMA LineStutter == ASSUME LineInv, UNCHANGED lineStateVars PROVE LineInv'
<1>1. UNCHANGED <<phase, ly, inputVars, cgb, regs, oam, seen, draw_window, window_line_counter, window_pos, fetcher_x, pos,
                  line, bg_scanline_mask, draw_length, sprite_buffer, loopVars>>
  BY DEF lineStateVars, inputVars, windowVars, lineVars, lengthVars
<1>2. InputTypes'
  BY <1>1, InputsKept DEF LineInv
<1>3. Buffered'
  BY <1>1, BufferKept DEF LineInv
<1>4. PrioOfCgb' /\ LoopAtRest'
  BY <1>1 DEF LineInv, PrioOfCgb, LoopAtRest, LoopStart, loopVars
<1>5. BackgroundPainted'
  BY <1>1, GroundBgKept DEF LineInv, BackgroundPainted
<1>6. WindowPainted'
  <2>1. WindowShown' = WindowShown /\ wx_sub7' = wx_sub7
    BY <1>1 DEF WindowShown, wx_sub7
  <2> QED
    BY <1>1, <2>1, GroundBgKept, GroundWindowKept DEF LineInv, WindowPainted
<1>7. SpritesPainted'
  <2>1. \A k, c : /\ Decides(k, c)' <=> Decides(k, c)
                  /\ Decided(k, c)' = Decided(k, c)
    <3> SUFFICES ASSUME NEW k, NEW c PROVE (Decides(k, c)' <=> Decides(k, c)) /\ Decided(k, c)' = Decided(k, c)
      OBVIOUS
    <3> DEFINE o == sprite_buffer[k]
    <3>1. o' = o
      BY <1>1
    <3>2. /\ SpritePixel(o, c)' = SpritePixel(o, c)
          /\ MapHides(o, c)' <=> MapHides(o, c)
          /\ SpriteHides(o, c)' <=> SpriteHides(o, c)
      BY <1>1, <3>1 DEF SpritePixel, SpriteRow, SpriteBase, MapHides, SpriteHides, PriorityOff, OnGround
    <3>3. Spans(o, c)' <=> Spans(o, c)
      BY <3>1 DEF Spans
    <3> QED
      BY <1>1, <3>2, <3>3 DEF Decides, Decided
  <2>2. \A n, c : ShowsLast(n, c) => ShowsLast(n, c)'
    BY <1>1, <2>1 DEF ShowsLast
  <2>3. pos' = pos
    BY <1>1
  <2>4. \A c : ShowsLast(pos, c) => ShowsLast(pos, c)'
    BY <2>2, <2>3 DEF ShowsLast
  <2> QED
    BY <1>1, <2>4 DEF LineInv, SpritesPainted
<1>8. GroundShown'
  BY <1>1, GroundKept DEF LineInv, GroundShown
<1>9. SpritesShown'
  <2>1. CASE phase \in {"Length", "Drawn"}
    <3>1. \A c \in Columns : SpritesAt(c)
      BY <2>1, ShownAt DEF LineInv
    <3>2. \A c \in Columns : SpritesAt(c)'
      BY <1>1, <3>1, ShownKept
    <3> QED
      BY <3>2 DEF SpritesShown, DecidedBy, SpritesAt, Topmost
  <2>2. CASE phase \notin {"Length", "Drawn"}
    BY <1>1, <2>2 DEF SpritesShown
  <2> QED
    BY <2>1, <2>2
<1> QED
  BY <1>2, <1>3, <1>4, <1>5, <1>6, <1>7, <1>8, <1>9 DEF LineInv

\* Every step keeps the invariant.
LEMMA LineStep == LineInv /\ [LineNext]_lineStateVars => LineInv'
BY ScanLine, WriteLine, DmaLine, StartLine, BackgroundLine, BackgroundEnds, WindowLine, WindowEnds,
   SpriteLine, SpritesEnd, CountKeeps, LengthEnds, NextLineKeeps, LineStutter DEF LineNext, mode_draw

\* The invariant of the drawing of lines.
LEMMA LineInvariance == LineSpec => []LineInv
BY LineStarts, LineStep, PTL DEF LineSpec

\* The ground shown is that of the map.
THEOREM GroundCorrect == LineSpec => []GroundShown
<1>1. LineInv => GroundShown
  BY DEF LineInv
<1> QED
  BY <1>1, LineInvariance, PTL

\* One of several sprites is above all others.
LEMMA UppermostExists ==
    ASSUME InputTypes, NEW T, T \subseteq DOMAIN seen.oam, T # {}
    PROVE  Uppermost(T) # {}
<1>1. \A i \in T : i \in Nat /\ seen.oam[i].x \in Nat
  <2>1. seen.oam \in Seq(SpriteType)
    BY DEF InputTypes
  <2> QED
    BY <2>1, SpriteOf
<1>2. CASE seen.opri
  <2> DEFINE xs == {seen.oam[i].x : i \in T}
  <2>1. xs \subseteq Nat /\ xs # {}
    BY <1>1
  <2> HIDE DEF xs
  <2>2. PICK m \in xs : \A u \in xs : m <= u
    BY <2>1, Least
  <2> DEFINE leftmost == {i \in T : seen.oam[i].x = m}
  <2>3. leftmost \subseteq Nat /\ leftmost # {}
    BY <1>1, <2>2 DEF xs
  <2> HIDE DEF leftmost
  <2>4. PICK i \in leftmost : \A j \in leftmost : i <= j
    BY <2>3, Least
  <2>5. i \in T /\ seen.oam[i].x = m
    BY DEF leftmost
  <2>6. ASSUME NEW j \in T \ {i} PROVE Above(i, j)
    <3>1. m <= seen.oam[j].x /\ m \in Nat /\ seen.oam[j].x \in Nat /\ i \in Nat /\ j \in Nat
      BY <1>1, <2>1, <2>2, <2>5 DEF xs
    <3>2. seen.oam[j].x = m => i <= j
      BY <2>4 DEF leftmost
    <3> QED
      BY <1>2, <2>5, <3>1, <3>2 DEF Above
  <2> QED
    BY <2>5, <2>6 DEF Uppermost
<1>3. CASE ~seen.opri
  <2>1. T \subseteq Nat
    BY <1>1
  <2>2. PICK i \in T : \A j \in T : i <= j
    BY <2>1, Least
  <2>3. ASSUME NEW j \in T \ {i} PROVE Above(i, j)
    BY <1>1, <1>3, <2>2 DEF Above
  <2> QED
    BY <2>3 DEF Uppermost
<1> QED
  BY <1>2, <1>3

\* Where the uppermost sprite is not hidden, or the model is a DMG, the rule of
\* the code is the masking rule.
LEMMA MaskedWhere == InputTypes /\ SpritesShown => MaskedButOnCgb
<1> SUFFICES ASSUME InputTypes, SpritesShown, phase \in {"Length", "Drawn"}, NEW c \in Columns,
                    ~(cgb /\ \E i \in Uppermost(InkAt(c)) : Hidden(i, c))
             PROVE  Masked(c)
  BY DEF MaskedButOnCgb
<1>1. line[c] = DecidedBy(Deciding(c), c)
  BY DEF SpritesShown
<1>2. CASE ~cgb
  <2>1. Deciding(c) = InkAt(c)
    BY <1>2 DEF Deciding
  <2> QED
    BY <1>1, <2>1 DEF Masked
<1>3. CASE \A i \in Uppermost(InkAt(c)) : ~Hidden(i, c)
  <2>1. Uppermost(InkAt(c)) \subseteq Uppermost(Deciding(c))
    BY <1>3 DEF Uppermost, Deciding
  <2>2. CASE Uppermost(InkAt(c)) # {}
    <3>1. PICK i \in Uppermost(InkAt(c)) : TRUE
      BY <2>2
    <3>2. \A j \in Uppermost(Deciding(c)) : j = i
      <4> SUFFICES ASSUME NEW j \in Uppermost(Deciding(c)), j # i PROVE FALSE
        OBVIOUS
      <4>1. i \in InkAt(c) /\ j \in InkAt(c) /\ i \in Deciding(c)
        BY <2>1, <3>1 DEF Uppermost, Deciding
      <4>2. Above(i, j) /\ Above(j, i)
        BY <3>1, <4>1 DEF Uppermost
      <4>3. i \in DOMAIN seen.oam /\ j \in DOMAIN seen.oam
        BY <4>1 DEF InkAt, Candidates
      <4> QED
        BY <4>2, <4>3, AboveOnce
    <3>3. Uppermost(Deciding(c)) = Uppermost(InkAt(c))
      BY <2>1, <3>1, <3>2
    <3> QED
      BY <1>1, <3>3 DEF Masked, DecidedBy
  <2>3. CASE Uppermost(InkAt(c)) = {}
    <3>1. InkAt(c) = {}
      BY <2>3, UppermostExists DEF InkAt, Candidates
    <3>2. Deciding(c) = InkAt(c)
      BY <3>1 DEF Deciding
    <3> QED
      BY <1>1, <3>2 DEF Masked
  <2> QED
    BY <2>2, <2>3
<1> QED
  BY <1>2, <1>3

\* Every pixel shows the uppermost of the sprites that decide, and by the
\* masking rule unless a CGB hides the uppermost.
THEOREM SpritesCorrect == LineSpec => [](SpritesShown /\ MaskedButOnCgb)
<1>1. LineInv => SpritesShown /\ MaskedButOnCgb
  BY MaskedWhere DEF LineInv
<1> QED
  BY <1>1, LineInvariance, PTL

-----------------------------------------------------------------------------
(* The length of mode 3 in the line *)

\* At rest, the loop's invariant holds of whatever the scan has left.
LEMMA AtRest == Buffered /\ LoopAtRest /\ phase # "Length" => IInv
<1> SUFFICES ASSUME Buffered, LoopAtRest, phase # "Length" PROVE IInv
  OBVIOUS
<1>1. /\ Len(sprite_buffer) \in 0 .. MaxSprites
      /\ \A i \in 1 .. Len(sprite_buffer) : sprite_buffer[i].x \in Nat
  BY SpriteOf, Sizes DEF Buffered
<1>2. LoopStart(FALSE) /\ FALSE \in BOOLEAN
  BY DEF LoopAtRest
<1> QED
  BY <1>1, <1>2, StartInv DEF LoopSet

\* The length taken over is that of the loop.
LengthTaken == phase = "Drawn" => draw_length \in DrawCycles .. LongestDraw

\* The loop runs in the line as it does on its own.
LEMMA LoopInLine == LineInv /\ IInv /\ LengthTaken /\ [LineNext]_lineStateVars => (IInv /\ LengthTaken)'
<1> SUFFICES ASSUME LineInv, IInv, LengthTaken, [LineNext]_lineStateVars PROVE (IInv /\ LengthTaken)'
  OBVIOUS
<1>1. LineInv'
  BY LineStep
<1>2. /\ Len(sprite_buffer') \in 0 .. MaxSprites
      /\ \A i \in 1 .. Len(sprite_buffer') : sprite_buffer'[i].x \in Nat
  <2>1. sprite_buffer' \in Seq(SpriteType) /\ Len(sprite_buffer') \in 0 .. MaxSprites
    BY <1>1, Sizes DEF LineInv, Buffered
  <2> QED
    BY <2>1, SpriteOf
<1>3. CASE phase' # "Length"
  <2>1. IInv'
    <3>1. LoopStart(FALSE)' /\ FALSE \in BOOLEAN
      BY <1>1, <1>3 DEF LineInv, LoopAtRest
    <3>2. LoopSet'
      BY <1>2, <3>1 DEF LoopSet
    <3> QED
      BY <3>2, StartInv, PTL
  <2>2. LengthTaken'
    <3>1. CASE LengthDone
      <4>1. LengthBounded
        BY LengthFits
      <4>2. regs.scx \in Nat /\ (window_pos # NoWindow) \in BOOLEAN
        BY RegisterValues DEF LineInv
      <4>3. draw_length' = calc_mode3_len(regs.scx, window_pos # NoWindow)
        BY <3>1 DEF LengthDone
      <4>4. draw_length' \in DrawCycles .. LongestDraw
        BY <4>1, <4>2, <4>3 DEF LengthBounded
      <4> QED
        BY <4>4 DEF LengthTaken, LongestDraw
    <3>2. CASE UNCHANGED lineStateVars
      BY <3>2 DEF LengthTaken, LongestDraw, lineStateVars
    <3>3. CASE LineNext /\ ~LengthDone
      <4>1. phase' # "Drawn"
        BY <3>3 DEF LineNext, mode_draw, mode_oam_scan, WriteRegister, oam_dma, StartDraw, draw_background,
                    BackgroundDone, draw_window_tile, WindowDone, draw_sprite, SpritesDone, CountLength, NextLine
      <4> QED
        BY <4>1 DEF LengthTaken
    <3> QED
      BY <3>1, <3>2, <3>3
  <2> QED
    BY <2>1, <2>2
<1>4. CASE phase' = "Length"
  <2>1. LengthTaken'
    BY <1>4 DEF LengthTaken
  <2>2. CASE SpritesDone
    <3>1. LoopStart(regs.obj_enable)' /\ regs'.obj_enable \in BOOLEAN
      <4>1. regs' = regs /\ regs.obj_enable \in BOOLEAN
        BY <2>2, RegisterValues DEF SpritesDone, inputVars, LineInv
      <4> QED
        BY <2>2, <4>1 DEF SpritesDone, StartLoop, LoopStart
    <3>2. LoopSet'
      BY <1>2, <3>1 DEF LoopSet
    <3>3. IInv'
      BY <3>2, StartInv, PTL
    <3> QED
      BY <2>1, <3>3
  <2>3. CASE CountLength
    BY <2>1, <2>3, FetchInv, ColumnInv DEF CountLength, LoopStep
  <2>4. CASE UNCHANGED lineStateVars
    BY <2>1, <2>4, StutterInv DEF lineStateVars
  <2>5. CASE LineNext /\ ~SpritesDone /\ ~CountLength
    <3>1. phase' # "Length"
      BY <2>5 DEF LineNext, mode_draw, mode_oam_scan, WriteRegister, oam_dma, StartDraw, draw_background,
                  BackgroundDone, draw_window_tile, WindowDone, draw_sprite, LengthDone, NextLine
    <3> QED
      BY <1>4, <3>1
  <2> QED
    BY <2>2, <2>3, <2>4, <2>5
<1> QED
  BY <1>3, <1>4

\* The invariant of the loop in the line.
LEMMA LoopInvariance == LineSpec => [](IInv /\ LengthTaken)
<1>1. LineInit => IInv /\ LengthTaken
  <2>1. LineInit => Buffered /\ LoopAtRest /\ phase # "Length" /\ phase # "Drawn"
    <3>1. LineInit => phase = "Scan"
      BY DEF LineInit
    <3> QED
      BY <3>1, LineStarts DEF LineInv
  <2> QED
    BY <2>1, AtRest DEF LengthTaken
<1> QED
  BY <1>1, LoopInLine, LineInvariance, PTL DEF LineSpec

\* In the line, too, each sprite the scan has left is fetched once,
THEOREM LineFetchesOnce == LineSpec => []FetchedOnce
BY LoopInvariance, FetchedWhen, PTL

\* and the length mode_draw() computes is within the bounds of the timing.
THEOREM LineLengthCorrect == LineSpec => [](phase = "Drawn" => draw_length \in DrawCycles .. LongestDraw)
BY LoopInvariance, PTL DEF LengthTaken
=============================================================================
