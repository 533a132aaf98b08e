------------------------------- MODULE UintMask -------------------------------
(***************************************************************************)
(* uint_mask (mask.hpp): a mask in an unsigned integer with one to eight   *)
(* bits for every slot, of which the lowest or the highest is used.        *)
(***************************************************************************)
EXTENDS Integers, FiniteSets

CONSTANTS
  num_bits_max,   \* the width of the integer
  num_bits_used, bits_per_slot,
  left            \* mask_align_t::left: the highest bit of a slot is used

INSTANCE BitOps WITH Width <- num_bits_max

max_count == num_bits_used \div bits_per_slot

Align(m) == IF left THEN Shl(m, bits_per_slot - 1) ELSE m

none == {}   \* empty()

full ==
  LET m8 == broadcast({0})
      m4 == IF bits_per_slot < 8 THEN m8 \cup Shl(m8, 4) ELSE m8
      m2 == IF bits_per_slot < 4 THEN m4 \cup Shl(m4, 2) ELSE m4
      m1 == IF bits_per_slot < 2 THEN m2 \cup Shl(m2, 1) ELSE m2
  IN  Align(Shr(m1, num_bits_max - max_count * bits_per_slot))

SingleIf(i, v) == Align(Shl(IF v THEN {0} ELSE {}, i * bits_per_slot))
single(i)      == SingleIf(i, TRUE)

(* Mutant: the slot before the first is taken for the first.               *)
above_first(m, i) ==
  Xor(m, Sub(Shl(single(IF i > 0 THEN i ELSE 0), 1), {0})) \cap m

above(m, i) ==
  LET i0 == IF i > 0 THEN i ELSE 0
      n  == Sub(Shl(SingleIf(i0, i0 = i), 1), IF i0 = i THEN {0} ELSE {})
  IN  Xor(m, n) \cap m

from(m, i) == Xor(m, Sub(single(i), {0})) \cap m

intersect(m, n) == m \cap n
join(m, n)      == m \cup n
drop(m, n)      == m \cap Not(n)
contains(m, n)  == m \cap n = n

has_next(m) == m # {}
count(m)    == Cardinality(m)
next(m)     == Min(m) \div bits_per_slot
step(m)     == m \cap Sub(m, {0})
truncate(m) == Xor(m, step(m))
at(m, i)    == m \cap single(i) # {}

Contract == INSTANCE MaskContract
===============================================================================
