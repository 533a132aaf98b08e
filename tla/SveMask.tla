------------------------------- MODULE SveMask --------------------------------
(***************************************************************************)
(* sve_mask (mask.hpp): a mask in a predicate register, the set of the     *)
(* lanes that are active.  The register has VL lanes, of which a mask uses *)
(* the first max_count.                                                    *)
(***************************************************************************)
EXTENDS Integers, FiniteSetsExt

CONSTANTS max_count, VL

LOCAL Lanes == 0 .. VL - 1

(* The intrinsics on predicates: the lanes for which 0 + lane is below (or *)
(* not above) i, the lane after the last one of m, the lanes of g before   *)
(* and up to the first one of m.                                           *)
svwhilelt(i)   == {j \in Lanes : j < i}
svwhilele(i)   == {j \in Lanes : j <= i}
svpnext(g, m)  == LET After == {j \in g : \A a \in m : j > a}
                  IN  IF After = {} THEN {} ELSE {Min(After)}
svbrkb_z(g, m) == {j \in g : \A a \in g \cap m : j < a}
svbrka_z(g, m) == {j \in g : \A a \in g \cap m : j <= a}
svnot_z(g, m)  == g \ m
sveor_z(g, m, n) == g \cap ((m \ n) \cup (n \ m))
svsel(g, m, n) == (g \cap m) \cup (n \ g)
svptest_last(g, m) == g # {} /\ Max(g) \in m

none == {}
full == svwhilelt(max_count)   \* svptrue_pat_b8(SV_VL<max_count>)

until(i)  == svwhilelt(i)
to(i)     == svwhilele(i)
single(i) == svpnext(full, until(i))

intersect(m, n) == m \cap (m \cap n)
join(m, n)      == svsel(m, m, n)
drop(m, n)      == svnot_z(m, n)
contains(m, n)  == sveor_z(n, n, m) = {}

from(m, i)  == drop(m, until(i))
above(m, i) == drop(m, to(i))

has_next(m) == m # {}
count(m)    == Cardinality(m)
next(m)     == count(svbrkb_z(full, m))
truncate(m) == svbrka_z(m, m)
step(m)     == svnot_z(m, truncate(m))
at(m, i)    == svptest_last(to(i), m)

Contract == INSTANCE MaskContract
===============================================================================
