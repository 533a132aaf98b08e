-------------------------------- MODULE Words ---------------------------------
(***************************************************************************)
(* Unsigned integers of Width bits: a word is the set of its bits that are *)
(* one, so that words of every width the code uses (32, 64 and 128 bits)   *)
(* can be checked.  Arithmetic is modulo 2^Width, as in C++.               *)
(***************************************************************************)
EXTENDS Integers, FiniteSetsExt

CONSTANT Width

Bits == 0 .. Width - 1

Not(x)    == Bits \ x
Xor(x, y) == (x \ y) \cup (y \ x)
Shl(x, n) == {b + n : b \in x} \cap Bits
Shr(x, n) == {b - n : b \in x} \cap Bits

(* A bit receives a carry when a lower one generates it and all those      *)
(* between pass it on; a borrow likewise.                                  *)
Add(x, y) ==
  Xor(Xor(x, y), {i \in Bits : \E g \in x \cap y :
                    g < i /\ \A b \in g + 1 .. i - 1 : b \in x \cup y})

Sub(x, y) ==
  Xor(Xor(x, y), {i \in Bits : \E g \in y \ x :
                    g < i /\ \A b \in g + 1 .. i - 1 : b \notin x \ y})

Mul(x, y) == FoldSet(LAMBDA b, sum : Add(sum, Shl(x, b)), {}, y)
===============================================================================
