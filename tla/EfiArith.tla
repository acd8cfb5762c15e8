------------------------------- MODULE EfiArith -------------------------------
(***************************************************************************)
(* The 64-bit arithmetic of gnu-efi on machines of 32 and 64 bits (math.c  *)
(* of each, and the assembly for arm that its compiler calls).  A register *)
(* of the smaller machines holds HALF bits and a double two of them, high  *)
(* and low.                                                                *)
(***************************************************************************)
EXTENDS Integers, Sequences, SequencesExt, EfiAnswer

CONSTANTS
  HALF,                \* 32: a power of two, from 8 on
  Halves,              \* the values looked at in each half of a double
  Dividends, Divisors  \* what the arm's 32-bit division is looked at with

R == 2 ^ HALF
DOUBLE_MOD == R * R

EfiArithAssumption ==
  /\ \E n \in 3 .. 5 : HALF = 2 ^ n
  /\ Halves \subseteq 0 .. R - 1 /\ Dividends \subseteq Nat /\ Divisors \subseteq Nat

High(a) == a \div R
Low(a)  == a % R
Pair(h, l) == ((h % R) * R) + (l % R)
Doubles == {Pair(h, l) : h, l \in Halves}

(* The bits of a register shifted; all are out at HALF.                    *)
Lsl(r, n) == (r * 2 ^ n) % R
Lsr(r, n) == r \div 2 ^ n

-----------------------------------------------------------------------------
(* What a compiler makes of the operators of C where it has doubles.       *)
Native(op, a, b) ==
  CASE op = "shl" -> (a * 2 ^ b) % DOUBLE_MOD
    [] op = "shr" -> a \div 2 ^ b
    [] op = "mul" -> (a * b) % DOUBLE_MOD
    [] op = "div" -> a \div b
    [] op = "rem" -> a % b
MathIa64(op, a, b)     == Native(op, a, b)
MathAarch64(op, a, b)  == Native(op, a, b)
MathMips64el(op, a, b) == Native(op, a, b)

(* The x86 assembly.  The CPU takes a shift's count modulo HALF, and the   *)
(* other half comes in from the side.                                      *)
Shld(h, l, n) == (h * 2 ^ n + Lsr(l, HALF - n)) % R
Shrd(l, h, n) == (Lsr(l, n) + Lsl(h, HALF - n)) % R
LShift86(a, Count) ==
  LET c == Count % (2 * HALF)
      edx == Shld(High(a), Low(a), c % HALF)
      eax == Lsl(Low(a), c % HALF)
  IN  IF c < HALF THEN Pair(edx, eax) ELSE Pair(eax, 0)
RShift86(a, Count) ==
  LET c == Count % (2 * HALF)
      eax == Shrd(Low(a), High(a), c % HALF)
      edx == Lsr(High(a), c % HALF)
  IN  IF c < HALF THEN Pair(edx, eax) ELSE Pair(0, edx)
Mult86(a, m) == Pair(High(Low(a) * m) + Low(High(a) * m), Low(Low(a) * m))

(* One bit of the dividend at a time goes into Rem, from above; the bit    *)
(* that Rem has no room for is lost.                                       *)
Takes(Rem, Divisor) == Rem >= Divisor
DivStep(st, Divisor) ==
  LET Rem == (st.Rem * 2 + High(st.Dividend) \div (R \div 2)) % R
      more == Takes(Rem, Divisor)
  IN  [Dividend |-> ((st.Dividend * 2) % DOUBLE_MOD) + (IF more THEN 1 ELSE 0),
       Rem |-> IF more THEN Rem - Divisor ELSE Rem]
Div86(a, Divisor) ==
  FoldLeft(LAMBDA st, bit : DivStep(st, Divisor), [Dividend |-> a, Rem |-> 0], [bit \in 1 .. 2 * HALF |-> bit])
Assembly(op, a, b) ==
  CASE op = "shl" -> LShift86(a, b) [] op = "shr" -> RShift86(a, b) [] op = "mul" -> Mult86(a, b)
    [] op = "div" -> Div86(a, b).Dividend [] op = "rem" -> Div86(a, b).Rem

(* The assembly is left to other compilers; on ia32 MinGW divides with it. *)
MathX86_64(compiler, op, a, b) == IF compiler = "gcc" THEN Native(op, a, b) ELSE Assembly(op, a, b)
MathIa32(compiler, op, a, b) ==
  IF compiler = "gcc" \/ (compiler = "mingw" /\ op \notin {"div", "rem"}) THEN Native(op, a, b)
  ELSE Assembly(op, a, b)

-----------------------------------------------------------------------------
(* The functions that the compiler for arm calls for operators on doubles. *)
llsl(a, n) ==
  IF n >= HALF THEN Pair(Lsl(Low(a), n - HALF), 0)
  ELSE Pair(Lsl(High(a), n) + Lsr(Low(a), HALF - n), Lsl(Low(a), n))
llsr(a, n) ==
  IF n >= HALF THEN Pair(0, Lsr(High(a), n - HALF))
  ELSE Pair(Lsr(High(a), n), Lsr(Low(a), n) + Lsl(High(a), HALF - n))
lmul(a, b) ==
  LET first == Low(a) * Low(b)
  IN  Pair(High(b) * Low(a) + Low(b) * High(a) + High(first), Low(first))

(* Unsigned division of doubles (uldiv.S).  The divisor is moved up until  *)
(* the second bit of its register is its first, by steps each half the     *)
(* last; 0 is moved as far as that goes.                                   *)
Powers(first) == [i \in 1 .. CHOOSE n \in 1 .. HALF : 2 ^ (n - 1) = first |-> first \div 2 ^ (i - 1)]
Normalised(r) ==
  FoldLeft(LAMBDA st, s : IF st.r < 2 ^ (HALF - 1 - s) THEN [r |-> st.r * 2 ^ s, up |-> st.up + s] ELSE st,
           [r |-> r, up |-> 0], Powers(HALF \div 2))

(* Of n bits of the quotient, those passed over because the dividend is    *)
(* small (h is its upper register).                                        *)
Skipped(h, n) ==
  FoldLeft(LAMBDA st, s : IF n - st.by >= s /\ st.h < 2 ^ (HALF - 2 - s)
                          THEN [h |-> st.h * 2 ^ s, by |-> st.by + s] ELSE st,
           [h |-> h, by |-> 0], <<HALF \div 2, HALF \div 4>>).by

(* Bit by bit, from below into the dividend; the last stays in the carry.  *)
Longer(st, V) ==
  LET twice == 2 * st.D + st.c
  IN  IF twice >= V THEN [D |-> twice - V, c |-> 1] ELSE [D |-> twice, c |-> 0]
Divide(D, V, n) == FoldLeft(LAMBDA st, k : Longer(st, V), [D |-> D, c |-> 0], [k \in 1 .. n |-> k])

(* A divisor of less than a register, of less than a double, or of all its *)
(* bits; by 0 the result is 0.                                             *)
udiv_small(a, b) ==
  LET ip == Normalised(b)
      V == ip.r * R
      r3 == a \div V
      D0 == a % V
      short == D0 < R \div 4
      D == IF short THEN D0 * R ELSE D0
      n == IF short THEN ip.up ELSE ip.up + HALF
      by == Skipped(High(D), n)
      st == Divide(D * 2 ^ by, V, n - by)
  IN  <<(2 * (st.D % (R * 2 ^ ip.up)) + st.c + r3 * 2 ^ ip.up * R) % DOUBLE_MOD,
        High(st.D) \div 2 ^ ip.up>>
udiv_big(a, b) ==
  LET r6 == Normalised(High(b)).up
      V == b * 2 ^ r6
      by == Skipped(High(a % V), r6)
      st == Divide((a % V) * 2 ^ by, V, r6 - by)
  IN  <<2 * (Low(st.D) % 2 ^ r6) + st.c + (a \div V) * 2 ^ r6, st.D \div 2 ^ r6>>
udiv_ginormous(a, b) == IF a >= b THEN <<1, a - b>> ELSE <<0, a>>
uldivmod(a, b) ==
  CASE b = 0 -> <<0, 0>>
    [] b # 0 /\ b < R \div 2 -> udiv_small(a, b)
    [] b >= R \div 2 /\ b < DOUBLE_MOD \div 2 -> udiv_big(a, b)
    [] b >= DOUBLE_MOD \div 2 -> udiv_ginormous(a, b)
MathArm(op, a, b) ==
  CASE op = "shl" -> llsl(a, b) [] op = "shr" -> llsr(a, b) [] op = "mul" -> lmul(a, b)
    [] op = "div" -> uldivmod(a, b)[1] [] op = "rem" -> uldivmod(a, b)[2]

(* Signed division of doubles: unsigned, with the signs put back.          *)
Negative(a) == a >= DOUBLE_MOD \div 2
Neg(a) == (DOUBLE_MOD - a) % DOUBLE_MOD
Abs(a) == IF Negative(a) THEN Neg(a) ELSE a
ldivmod(a, b) ==
  LET q == uldivmod(Abs(a), Abs(b))
  IN  <<IF Negative(a) # Negative(b) THEN Neg(q[1]) ELSE q[1], IF Negative(a) THEN Neg(q[2]) ELSE q[2]>>

(* Division of one register (div.S): the quotient's bits from the highest  *)
(* that its size allows, 1, 4 or 8 of them, or 8 and 6 more for each time  *)
(* the divisor is moved up.                                                *)
Big(r0, r1, n) == r0 \div 2 ^ n >= r1
Moves(r0, r1) == CHOOSE n \in 0 .. 4 :
  (n = 4 \/ ~ Big(r0, r1 * 2 ^ (6 * n), 8)) /\ \A k \in 0 .. n - 1 : Big(r0, r1 * 2 ^ (6 * k), 8)
Bits(r0, r1, signed) ==
  IF signed /\ ~ Big(r0, r1, 1) THEN 1 ELSE IF ~ Big(r0, r1, 4) THEN 4 ELSE 8 + 6 * Moves(r0, r1)
Quotient(r0, r1, bits) ==
  FoldLeft(LAMBDA st, k : IF Big(st.r, r1, bits - k) THEN [r |-> st.r - r1 * 2 ^ (bits - k), q |-> 2 * st.q + 1]
                          ELSE [st EXCEPT !.q = 2 * @],
           [r |-> r0, q |-> 0], [k \in 1 .. bits |-> k])
uidivmod(r0, r1) == LET st == Quotient(r0, r1, Bits(r0, r1, FALSE)) IN <<st.q, st.r>>
Size(i) == IF i < 0 THEN -i ELSE i
idivmod(r0, r1) ==
  LET st == Quotient(Size(r0), Size(r1), Bits(Size(r0), Size(r1), r0 >= 0 /\ r1 >= 0))
  IN  <<IF (r0 < 0) # (r1 < 0) THEN -st.q ELSE st.q, IF r0 < 0 THEN -st.r ELSE st.r>>

-----------------------------------------------------------------------------
Ops == {"shl", "shr", "mul", "div", "rem"}
Seconds(op) == CASE op \in {"shl", "shr"} -> 0 .. 2 * HALF - 1 [] op = "mul" -> Halves
                 [] op \in {"div", "rem"} -> Halves \ {0}
Machines == {"x86_64", "ia32", "arm", "aarch64", "mips64el", "ia64"}
Compilers(m) == CASE m = "x86_64" -> {"gcc", "other"} [] m = "ia32" -> {"gcc", "mingw", "other"}
                  [] OTHER -> {"gcc"}
Math(m, compiler, op, a, b) ==
  CASE m = "x86_64" -> MathX86_64(compiler, op, a, b) [] m = "ia32" -> MathIa32(compiler, op, a, b)
    [] m = "arm" -> MathArm(op, a, b) [] m = "aarch64" -> MathAarch64(op, a, b)
    [] m = "mips64el" -> MathMips64el(op, a, b) [] m = "ia64" -> MathIa64(op, a, b)

Next ==
  \/ /\ question = "none"
     /\ \/ \E m \in Machines, op \in Ops : \E c \in Compilers(m), b \in Seconds(op) :
             Ask("math", <<m, c, op, b>>, [a \in Doubles |-> Math(m, c, op, a, b)])
        \/ \E b \in Doubles \ {0} : Ask("ldivmod", <<b>>, [a \in Doubles |-> ldivmod(a, b)])
        \/ \E b \in Doubles : Ask("uldivmod", <<b>>, [a \in Doubles |-> uldivmod(a, b)])
        \/ \E b \in Divisors : Ask("uidivmod", <<b>>, [a \in Dividends |-> uidivmod(a, b)])
        \/ \E b \in Divisors, s, t \in {-1, 1} :
             Ask("idivmod", <<b, s, t>>, [a \in Dividends |-> idivmod(s * a, t * b)])
  \/ Again
Spec == Init /\ [][Next]_asked

-----------------------------------------------------------------------------
(* Every machine computes the same, except that division one bit at a time *)
(* is wrong for some dividends as soon as the divisor's top bit is set     *)
(* ("only works for 31bit divisors", as its comment says).                 *)
BitByBit(m, c, op) == op \in {"div", "rem"} /\ m \in {"x86_64", "ia32"} /\ c # "gcc"
SameEverywhere ==
  question = "math" =>
    LET m == subject[1]
        c == subject[2]
        op == subject[3]
        b == subject[4]
    IN  (\A a \in Doubles : answer[a] = Native(op, a, b))
        <=> ~ BitByBit(m, c, op) \/ b <= R \div 2

(* Quotient and remainder make up the dividend; the remainder is smaller   *)
(* than the divisor and has the dividend's sign.  By 0 both are 0.         *)
Value(a) == IF Negative(a) THEN a - DOUBLE_MOD ELSE a
Divides(a, b, q, r) == a = b * q + r /\ Size(r) < Size(b) /\ (r # 0 => (r < 0) = (a < 0))
DivisionExact ==
  /\ question = "ldivmod" =>
       \A a \in Doubles :
         LET res == answer[a]
         IN  \/ Value(a) = -(DOUBLE_MOD \div 2) /\ Value(subject[1]) = -1
             \/ Divides(Value(a), Value(subject[1]), Value(res[1]), Value(res[2]))
  /\ question = "uldivmod" =>
       \A a \in Doubles :
         IF subject[1] = 0 THEN answer[a] = <<0, 0>> ELSE Divides(a, subject[1], answer[a][1], answer[a][2])
  /\ question = "uidivmod" => \A a \in Dividends : Divides(a, subject[1], answer[a][1], answer[a][2])
  /\ question = "idivmod" =>
       \A a \in Dividends :
         Divides(subject[2] * a, subject[3] * subject[1], answer[a][1], answer[a][2])

ArithExact == SameEverywhere /\ DivisionExact
=============================================================================
