----------------------------- MODULE MaskContract -----------------------------
(***************************************************************************)
(* What the map and the cache rely on in a mask type: its operations, seen *)
(* through the slots a mask marks, are those of bitset_mask.  The module   *)
(* of a mask type instantiates this one with its own definitions.          *)
(***************************************************************************)
EXTENDS Integers, FiniteSetsExt

CONSTANTS
  max_count, none, full, single(_), from(_, _), above(_, _), intersect(_, _),
  join(_, _), drop(_, _), contains(_, _), has_next(_), count(_), next(_),
  step(_), truncate(_), at(_, _)

Ref == INSTANCE BitsetMask

slots(m) == {i \in Ref!full : at(m, i)}

(* The mask of a set of slots.                                             *)
Encode(S) == FoldSet(LAMBDA i, m : join(m, single(i)), none, S)

(* A loop `for (; has_next(m); m = step(m)) next(m)' meets the slots of a  *)
(* mask in ascending order: each turn yields the lowest one and leaves the *)
(* mask of the others.                                                     *)
Walks(m) ==
  /\ has_next(m) <=> slots(m) # {}
  /\ count(m) = Cardinality(slots(m))
  /\ has_next(m) => /\ next(m) = Ref!next(slots(m))
                    /\ slots(step(m)) = Ref!step(slots(m))
                    /\ count(step(m)) = count(m) - 1
                    /\ slots(truncate(m)) = Ref!truncate(slots(m))

(* The slots at which masks are cut: from the one before the first to the  *)
(* last.                                                                   *)
Cuts == {-1, 0, 1, max_count \div 2, max_count - 1} \cap (-1 .. max_count - 1)

(* For two sets of slots the operations of the type agree with those on    *)
(* the sets.                                                               *)
Matches(S, T) ==
  LET m == Encode(S)
      n == Encode(T)
  IN
  /\ slots(full) = Ref!full /\ Walks(full)
  /\ slots(m) = S /\ Walks(m)
  /\ \A i \in Cuts \ {-1} : slots(from(m, i)) = Ref!from(S, i) /\ Walks(from(m, i))
  /\ \A i \in Cuts : slots(above(m, i)) = Ref!above(S, i) /\ Walks(above(m, i))
  /\ slots(intersect(m, n)) = Ref!intersect(S, T)
  /\ slots(join(m, n)) = Ref!join(S, T)
  /\ slots(drop(m, n)) = Ref!drop(S, T)
  /\ contains(m, n) <=> Ref!contains(S, T)
===============================================================================
