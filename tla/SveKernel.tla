------------------------------ MODULE SveKernel -------------------------------
(***************************************************************************)
(* sve_kernel (kernel.hpp): a bucket in the first Size lanes of a scalable *)
(* vector of VL lanes.  Loading sets the other lanes to zero, which is a   *)
(* hash; what is computed from them must not reach a mask.                 *)
(***************************************************************************)
EXTENDS Bytes, FiniteSets

CONSTANTS Size, VL

empty     == 240   \* -16
tombstone == 241   \* -15
produces_false_positives == FALSE

LOCAL Lanes == 0 .. VL - 1
M == INSTANCE SveMask WITH max_count <- Size

slots(m)  == M!Contract!slots(m)
walks(m)  == M!Contract!Walks(m)
encode(S) == M!Contract!Encode(S)
matches(S, T) == M!Contract!Matches(S, T)

(* Compares in the lanes of g; the lane after the last one of g, or the    *)
(* first lane; the lanes of m if the last lane of g is in r.               *)
svcmp(g, P(_))     == {i \in g : P(i)}
svlasta(g, k)      == IF g = {} THEN k[0] ELSE k[(Max(g) + 1) % VL]
svbrkn_z(g, r, m)  == IF M!svptest_last(g, r) THEN m ELSE {}

load(k)      == [i \in Lanes |-> IF i \in M!full THEN k[i] ELSE 0]
store(k)     == [i \in M!full |-> k[i]]
load_lru(l)  == load(l)
store_lru(l) == store(l)

mask(k, s)            == svcmp(M!full, LAMBDA i : k[i] = s)
mask_not(k, s)        == svcmp(M!full, LAMBDA i : k[i] # s)
mask_hash(k)          == svcmp(M!full, LAMBDA i : S8(k[i]) >= 0)
mask_not_hash(k)      == svcmp(M!full, LAMBDA i : S8(k[i]) < 0)
mask_empty(k)         == mask(k, empty)
mask_not_empty(k)     == mask_not(k, empty)
mask_tombstone(k)     == mask(k, tombstone)
mask_not_tombstone(k) == mask_not(k, tombstone)

mask_equal(k0, k1)     == svcmp(M!full, LAMBDA i : k0[i] = k1[i])
mask_not_equal(k0, k1) == svcmp(M!full, LAMBDA i : k0[i] # k1[i])

has(k, s)            == M!has_next(mask(k, s))
has_not(k, s)        == M!has_next(mask_not(k, s))
has_hash(k)          == M!has_next(mask_hash(k))
has_not_hash(k)      == M!has_next(mask_not_hash(k))
has_empty(k)         == has(k, empty)
has_not_empty(k)     == has_not(k, empty)
has_tombstone(k)     == has(k, tombstone)
has_not_tombstone(k) == has_not(k, tombstone)

count_equal(k0, k1)     == M!count(mask_equal(k0, k1))
count_not_equal(k0, k1) == Size - count_equal(k0, k1)

(* These two work on all lanes of the vector.                              *)
hash_to_tombstone(k) == [i \in Lanes |-> MinS8(k[i], tombstone)]
not_hash_to_empty(k) == [i \in Lanes |-> MinU8(k[i], empty)]
to_empty(k, m)       == [i \in Lanes |-> IF i \in m THEN empty ELSE k[i]]

at(k, i)     == svlasta(M!until(i), k)
lru_at(l, i) == svlasta(M!until(i), l)

min_lru_(l)          == Min({l[i] : i \in M!full})
mask_lru(l, lru)     == svcmp(M!full, LAMBDA i : l[i] = lru)
mask_min_lru(l)      == mask_lru(l, min_lru_(l))
mask_lru_below(l, t) == svcmp(M!full, LAMBDA i : l[i] < t)
min_lru(l) ==
  LET lru == min_lru_(l) IN <<lru, M!next(mask_lru(l, lru))>>

(* The slots at their maximum are looked for in the whole mask, and the    *)
(* one that is hit decides whether all lanes are halved.                   *)
update_lru(l, mask_of_hit) ==
  LET n == M!truncate(mask_of_hit)
      r == svbrkn_z(n, svcmp(mask_of_hit, LAMBDA i : l[i] = max_lru), M!full)
      scaled == [i \in Lanes |-> IF i \in r THEN l[i] \div 2 ELSE l[i]]
  IN  [i \in Lanes |-> IF i \in n THEN U8(scaled[i] + 1) ELSE scaled[i]]

to_empty_if_lru_below(k, l, t) == to_empty(k, mask_lru_below(l, t))

Contract == INSTANCE KernelContract
===============================================================================
