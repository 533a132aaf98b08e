------------------------------ MODULE BitsetMask ------------------------------
(***************************************************************************)
(* bitset_mask (mask.hpp): a mask has one bit for every slot of a bucket,  *)
(* so it is the set of the slots it marks.  This is what every other mask  *)
(* represents.                                                             *)
(***************************************************************************)
EXTENDS Integers, FiniteSetsExt

CONSTANT max_count

none == {}   \* empty()
full         == 0 .. max_count - 1
single(i)    == {i}
from(m, i)   == {j \in m : j >= i}
above(m, i)  == {j \in m : j > i}

intersect(m, n) == m \cap n
join(m, n)      == m \cup n
drop(m, n)      == m \ n
contains(m, n)  == m \cap n = n

has_next(m) == m # {}
count(m)    == Cardinality(m)
next(m)     == Min(m)
step(m)     == m \ {next(m)}
truncate(m) == IF m = {} THEN {} ELSE {next(m)}
at(m, i)    == i \in m
===============================================================================
