-------------------------------- MODULE Itoa --------------------------------
(***************************************************************************)
(* itoa of vgatext.c (hello.c has a copy for unsigned values): the digits  *)
(* of a number, least first and then inverted in place.  A digit is the    *)
(* number it stands for; the sign is Minus.  C's division and remainder    *)
(* round towards zero, so the remainders of a negative value are negative, *)
(* and the digit table is indexed from its middle.                         *)
(***************************************************************************)
EXTENDS Integers, Sequences

CONSTANTS Values, Bases, Minus, INT_MAX

ItoaAssumption ==
  /\ INT_MAX \in Nat /\ Values \subseteq -INT_MAX - 1 .. INT_MAX
  /\ Bases \subseteq Nat /\ Minus \notin 0 .. 35

VARIABLES
  value, base,         \* the arguments
  left,                \* what is left of the value
  str,                 \* the characters written so far
  low, ptr,            \* the ends that inversion has reached
  at                   \* "start", "convert", "invert", "done"

vars == <<value, base, left, str, low, ptr, at>>
args == <<value, base>>

Init ==
  /\ value = 0 /\ base = 10 /\ left = 0
  /\ str = <<>> /\ low = 1 /\ ptr = 0 /\ at = "start"

Abs(n) == IF n < 0 THEN -n ELSE n
CQuotient(a, b) == IF a < 0 THEN -((-a) \div b) ELSE a \div b
Digit(v, b) == Abs(v - b * CQuotient(v, b))

Supported(b) == ~ (b < 2 \/ b > 36)
Start(v, b) ==
  /\ at = "start" /\ value' = v /\ base' = b /\ left' = v
  /\ at' = IF Supported(b) THEN "convert" ELSE "done"
  /\ str' = IF Supported(b) /\ v < 0 /\ b = 10 THEN <<Minus>> ELSE <<>>
  /\ low' = Len(str') + 1
  /\ UNCHANGED ptr

Convert ==
  /\ at = "convert"
  /\ str' = Append(str, Digit(left, base))
  /\ left' = CQuotient(left, base)
  /\ at' = IF left' # 0 THEN at ELSE "invert"
  /\ ptr' = Len(str')
  /\ UNCHANGED <<args, low>>

Crossed_early(l, p) == l + 1 >= p                     \* mutant of Crossed
Crossed(l, p)       == l >= p
Invert ==
  /\ at = "invert"
  /\ IF Crossed(low, ptr) THEN at' = "done" /\ UNCHANGED <<str, low, ptr>>
     ELSE /\ str' = [str EXCEPT ![low] = str[ptr], ![ptr] = str[low]]
          /\ low' = low + 1 /\ ptr' = ptr - 1 /\ UNCHANGED at
  /\ UNCHANGED <<args, left>>

Done == at = "done" /\ UNCHANGED vars
Next == (\E v \in Values, b \in Bases : Start(v, b)) \/ Convert \/ Invert \/ Done
Spec == Init /\ [][Next]_vars

-----------------------------------------------------------------------------
(* The result is the number in positional notation: no leading zero, the   *)
(* most significant digit first, the smallest int included, with a sign in *)
(* base ten and without one in any other base.                             *)
Power[n \in Nat] == IF n = 0 THEN 1 ELSE base * Power[n - 1]
Length == CHOOSE n \in 1 .. INT_MAX + 2 :
            Abs(value) < Power[n] /\ (n > 1 => Power[n - 1] <= Abs(value))
Positional == [k \in 1 .. Length |-> (Abs(value) \div Power[Length - k]) % base]
ItoaExact ==
  at = "done" =>
    str = IF base \notin 2 .. 36 THEN <<>>
          ELSE (IF value < 0 /\ base = 10 THEN <<Minus>> ELSE <<>>) \o Positional
=============================================================================
