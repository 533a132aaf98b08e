-------------------------------- MODULE BitOps --------------------------------
(***************************************************************************)
(* The bit operations of stdlib_ext.hpp that stand in for std::popcount,   *)
(* std::countl_zero and their kin on compilers and types that lack them    *)
(* (__uint128_t has none of them), on words of Width bits.                 *)
(***************************************************************************)
EXTENDS Words

Doubled == {1, 2, 4, 8, 16, 32, 64, 128}   \* the indices of the loops

(* Repeats a byte over the word, doubling the part that is filled.         *)
broadcast(byte) ==
  LET Fill[i \in Doubled] ==
        IF i = 1 THEN byte
        ELSE Fill[i \div 2] \cup Shl(Fill[i \div 2], (i \div 2) * 8)
  IN  Fill[Width \div 8]

b01       == broadcast({0, 2, 4, 6})   \* 0x55
b0011     == broadcast({0, 1, 4, 5})   \* 0x33
b00001111 == broadcast(0 .. 3)         \* 0x0f

ToNumber(x) == MapThenSumSet(LAMBDA b : 2^b, x)

popcount_fallback(x) ==
  LET x2 == Sub(x, Shr(x, 1) \cap b01)
      x4 == Add(x2 \cap b0011, Shr(x2, 2) \cap b0011)
      x8 == Add(x4, Shr(x4, 4)) \cap b00001111
  IN  ToNumber(Shr(Mul(x8, broadcast({0})), Width - 8))

(* Smears the highest bit down.                                            *)
Smear(x) ==
  LET Step[i \in Doubled] ==
        IF i = 1 THEN x ELSE Step[i \div 2] \cup Shr(Step[i \div 2], i \div 2)
  IN  Step[Width]

countl_zero_fallback(x) == Width - popcount_fallback(Smear(x))

(* Mutant: the word itself is rounded up, not its predecessor.             *)
bit_ceil_of_next(x) ==
  LET y == Add(Smear(x), {0}) IN IF y \subseteq {0} THEN {0} ELSE y

countr_zero_fallback(x) ==
  IF x # {} THEN popcount_fallback(Xor(x, Sub(x, {0}))) - 1
            ELSE popcount_fallback(broadcast(0 .. 7))

(* The shift counts are masked to the width: s & (n - 1) and -s & (n - 1). *)
rotl_fallback(x, s) == Shl(x, s % Width) \cup Shr(x, (-s) % Width)
rotr_fallback(x, s) == Shr(x, s % Width) \cup Shl(x, (-s) % Width)

bit_ceil_fallback(x) ==
  LET y == Add(Smear(Sub(x, {0})), {0}) IN IF y \subseteq {0} THEN {0} ELSE y

has_single_bit_fallback(x) == x # {} /\ x \cap Sub(x, {0}) = {}

(* What the standard says of each, in terms of the bits.                   *)
BitOpsMatch(x) ==
  LET Top == IF x = {} THEN -1 ELSE Max(x) IN
  /\ popcount_fallback(x) = Cardinality(x)
  /\ countl_zero_fallback(x) = Width - 1 - Top
  /\ countr_zero_fallback(x) = IF x = {} THEN Width ELSE Min(x)
  /\ has_single_bit_fallback(x) <=> Cardinality(x) = 1
  /\ \A s \in {-Width, -1, 0, 1, Width - 1, Width, Width + 3} :
       /\ rotl_fallback(x, s) = {(b + s) % Width : b \in x}
       /\ rotr_fallback(x, s) = {(b - s) % Width : b \in x}
  /\ LET c == bit_ceil_fallback(x) IN
       (Top < Width - 1 \/ x = {Width - 1}) =>
         c = IF x = {} THEN {0} ELSE IF Cardinality(x) = 1 THEN x ELSE {Top + 1}
===============================================================================
