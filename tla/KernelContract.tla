---------------------------- MODULE KernelContract ----------------------------
(***************************************************************************)
(* What the map and the cache rely on in a kernel: it computes on the      *)
(* representation of a bucket what array_kernel computes slot by slot.     *)
(* The module of a kernel instantiates this one with its own definitions,  *)
(* and with the contract of its mask type (slots, walks, encode, matches). *)
(***************************************************************************)
EXTENDS Bytes, FiniteSets

CONSTANTS
  Size, empty, tombstone, produces_false_positives,
  slots(_), walks(_), encode(_), matches(_, _),
  load(_), store(_), at(_, _),
  mask(_, _), mask_not(_, _), mask_hash(_), mask_not_hash(_), mask_empty(_),
  mask_not_empty(_), mask_tombstone(_), mask_not_tombstone(_),
  mask_equal(_, _), mask_not_equal(_, _),
  has_hash(_), has_not_hash(_), has_empty(_), has_not_empty(_),
  has_tombstone(_), has_not_tombstone(_),
  count_equal(_, _), count_not_equal(_, _),
  hash_to_tombstone(_), not_hash_to_empty(_), to_empty(_, _),
  load_lru(_), store_lru(_), lru_at(_, _),
  min_lru(_), mask_min_lru(_), mask_lru_below(_, _), update_lru(_, _),
  to_empty_if_lru_below(_, _, _)

Ref == INSTANCE ArrayKernel

(* m is a mask of exactly the slots S.                                     *)
Marks(m, S) == slots(m) = S /\ walks(m)

(* count_collisions: how many hashes of the bucket the kernel's mask finds *)
(* c + 1 times, for every c.                                               *)
count_collisions(k) ==
  [c \in Ref!Slots |->
     Cardinality({s \in {k[i] : i \in slots(mask_hash(load(k)))} :
                    Cardinality(slots(mask(load(k), s))) = c + 1})]

(* The masks and tests of the states of the bucket k, and its slots.       *)
StatesExact(k) ==
  LET v == load(k) IN
  /\ Marks(mask_hash(v), Ref!mask_hash(k))
  /\ Marks(mask_not_hash(v), Ref!mask_not_hash(k))
  /\ Marks(mask_empty(v), Ref!mask_empty(k))
  /\ Marks(mask_not_empty(v), Ref!mask_not_empty(k))
  /\ Marks(mask_tombstone(v), Ref!mask_tombstone(k))
  /\ Marks(mask_not_tombstone(v), Ref!mask_not_tombstone(k))
  /\ has_hash(v) <=> Ref!has_hash(k)
  /\ has_not_hash(v) <=> Ref!has_not_hash(k)
  /\ has_empty(v) <=> Ref!has_empty(k)
  /\ has_not_empty(v) <=> Ref!has_not_empty(k)
  /\ has_tombstone(v) <=> Ref!has_tombstone(k)
  /\ has_not_tombstone(v) <=> Ref!has_not_tombstone(k)
  /\ \A i \in Ref!Slots : at(v, i) = k[i]

(* Every hash of the bucket is counted once.                               *)
CollisionsExact(k) ==
  LET n == count_collisions(k) IN
    ~ produces_false_positives =>
      MapThenSumSet(LAMBDA c : n[c] * (c + 1), Ref!Slots) = Cardinality(Ref!mask_hash(k))

(* Two buckets compared, as count_equal does it over both of them.         *)
Compares(k0, k1) ==
  LET v0 == load(k0)
      v1 == load(k1)
  IN
  /\ Marks(mask_equal(v0, v1), Ref!mask_equal(k0, k1))
  /\ Marks(mask_not_equal(v0, v1), Ref!mask_not_equal(k0, k1))
  /\ count_equal(v0, v1) = Ref!count_equal(k0, k1)
  /\ count_not_equal(v0, v1) = Ref!count_not_equal(k0, k1)

(* The search for a fingerprint.  A kernel that produces false positives   *)
(* marks every slot that matches, and the lowest slot it marks does match; *)
(* what else it marks holds some other hash, so the key that is compared   *)
(* with is there.  mask_not is the complement of mask.                     *)
Searches(k, s) ==
  LET m == mask(load(k), s) IN
  /\ walks(m)
  /\ Marks(mask_not(load(k), s), Ref!Slots \ slots(m))
  /\ IF produces_false_positives
     THEN /\ Ref!mask(k, s) \subseteq slots(m)
          /\ slots(m) \subseteq Ref!mask_hash(k)
          /\ slots(m) # {} => Min(slots(m)) \in Ref!mask(k, s)
     ELSE slots(m) = Ref!mask(k, s)

(* The bucket is rewritten slot by slot: no slot disturbs its neighbour.   *)
Rewrites(k, S) ==
  LET v == load(k) IN
  /\ store(hash_to_tombstone(v)) = Ref!hash_to_tombstone(k)
  /\ store(not_hash_to_empty(v)) = Ref!not_hash_to_empty(k)
  /\ store(to_empty(v, encode(S))) = Ref!to_empty(k, S)

(* The counts of hits.  mask_min_lru may mark every slot that has the      *)
(* lowest count: its users take the first.  update_lru is given what is    *)
(* left of the mask of a search, of which it counts the first slot only.   *)
Counts(k, l, t) ==
  LET u == load_lru(l)
      m == mask_min_lru(u)
  IN
  /\ min_lru(u) = Ref!min_lru(l)
  /\ walks(m) /\ slots(m) \subseteq {i \in Ref!Slots : l[i] = Ref!min_lru(l)[1]}
  /\ slots(m) # {} /\ Min(slots(m)) = Ref!min_lru(l)[2]
  /\ Marks(mask_lru_below(u, t), Ref!mask_lru_below(l, t))
  /\ \A i \in Ref!Slots : lru_at(u, i) = l[i]
  /\ LET n == mask_hash(load(k)) IN
       slots(n) # {} => store_lru(update_lru(u, n)) = Ref!update_lru(l, Ref!mask_hash(k))
  /\ store(to_empty_if_lru_below(load(k), u, t)) = Ref!to_empty_if_lru_below(k, l, t)

(* One of these for a bucket k with counts l, a second bucket k1 to        *)
(* compare with, and sets of hashes H and thresholds T.                    *)
Agrees(aspect, k, l, k1, H, T) ==
  CASE aspect = "masks"    -> StatesExact(k) /\ CollisionsExact(k) /\ Compares(k, k1)
    [] aspect = "searches" -> \A s \in H : Searches(k, s)
    [] aspect = "rewrites" -> \A S \in {Ref!mask_hash(k), Ref!mask_not_hash(k)} : Rewrites(k, S)
    [] aspect = "counts"   -> \A t \in T : Counts(k, l, t)
    [] aspect = "walks"    -> matches(Ref!mask_hash(k), Ref!mask_equal(k, k1))
===============================================================================
