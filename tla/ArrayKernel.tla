----------------------------- MODULE ArrayKernel ------------------------------
(***************************************************************************)
(* array_kernel (kernel.hpp): the operations of a kernel written as loops  *)
(* over the slots of a bucket.  A mask has one bit per slot (uint_mask<    *)
(* Size, 1, right> or bitset_mask), so it is the set of the slots it       *)
(* marks.  The other kernels must compute the same.                        *)
(***************************************************************************)
EXTENDS Bytes, FiniteSets

CONSTANTS Size, empty, tombstone

Slots == 0 .. Size - 1

mask(k, s)            == {i \in Slots : k[i] = s}
mask_not(k, s)        == {i \in Slots : k[i] # s}
mask_hash(k)          == {i \in Slots : is_hash(k[i])}
mask_not_hash(k)      == {i \in Slots : is_not_hash(k[i])}
mask_empty(k)         == mask(k, empty)
mask_not_empty(k)     == mask_not(k, empty)
mask_tombstone(k)     == mask(k, tombstone)
mask_not_tombstone(k) == mask_not(k, tombstone)
mask_equal(k0, k1)     == {i \in Slots : k0[i] = k1[i]}
mask_not_equal(k0, k1) == {i \in Slots : k0[i] # k1[i]}

has(k, s)     == \E i \in Slots : k[i] = s
has_not(k, s) == \E i \in Slots : k[i] # s

has_hash(k)          == \E i \in Slots : is_hash(k[i])
has_not_hash(k)      == \E i \in Slots : is_not_hash(k[i])
has_empty(k)         == has(k, empty)
has_not_empty(k)     == has_not(k, empty)
has_tombstone(k)     == has(k, tombstone)
has_not_tombstone(k) == has_not(k, tombstone)

count_equal(k0, k1)     == Cardinality({i \in Slots : k0[i] = k1[i]})
count_not_equal(k0, k1) == Cardinality({i \in Slots : k0[i] # k1[i]})
count_empty(k)          == Cardinality({i \in Slots : k[i] = empty})
count_tombstone(k)      == Cardinality({i \in Slots : k[i] = tombstone})

hash_to_tombstone(k) == [i \in Slots |-> MinS8(k[i], tombstone)]
not_hash_to_empty(k) == [i \in Slots |-> MinU8(k[i], empty)]
to_empty(k, m)       == [i \in Slots |-> IF i \in m THEN empty ELSE k[i]]

at(k, i) == k[i]

(* The lowest count, and the first slot that has it.                       *)
min_lru(l) ==
  LET i == CHOOSE i \in Slots : /\ \A j \in Slots : l[i] <= l[j]
                                /\ \A j \in 0 .. i - 1 : l[i] < l[j]
  IN  <<l[i], i>>

mask_min_lru(l)      == {min_lru(l)[2]}
mask_lru_below(l, t) == {i \in Slots : l[i] < t}

(* Counts a hit of the first slot of the mask; when its count is at its    *)
(* maximum all counts of the bucket are halved first.                      *)
update_lru(l, n) ==
  LET i == Min(n)
      Rescaled(x) == IF l[i] >= max_lru THEN x \div 2 ELSE x
  IN  [j \in Slots |-> U8(Rescaled(l[j]) + (IF j = i THEN 1 ELSE 0))]

to_empty_if_lru_below(k, l, t) ==
  [i \in Slots |-> IF l[i] < t THEN empty ELSE k[i]]
===============================================================================
