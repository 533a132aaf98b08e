------------------------------ MODULE CacheProofs ------------------------------
(***************************************************************************)
(* Proofs about Cache, for every kernel size, hash function, width of the  *)
(* counts and set of keys.                                                 *)
(***************************************************************************)
EXTENDS Cache, TLAPS, FiniteSetTheorems

-----------------------------------------------------------------------------
(* The bucket of a key is a bucket of the table.                           *)
LEMMA HomeType ==
  ASSUME NEW k \in Keys, NEW n \in Nat \ {0}
  PROVE  Home(k, n) \in 0 .. n - 1
BY CacheAssumption DEF Home

(* Some count of the bucket is at its maximum, or the one that is hit is   *)
(* below it: no count grows past MaxLru.                                   *)
LEMMA UpdateLruType ==
  ASSUME NEW n \in Nat, NEW l \in [Pos(n) -> Lru], NEW p \in Pos(n)
  PROVE  update_lru(l, p) \in [Pos(n) -> Lru]
<1> DEFINE scale == IF l[p] >= MaxLru THEN 2 ELSE 1
           new(q) == IF q[1] = p[1]
                     THEN (l[q] \div scale) + (IF q = p THEN 1 ELSE 0)
                     ELSE l[q]
<1> USE CacheAssumption DEF Lru
<1>1. ASSUME NEW q \in Pos(n) PROVE new(q) \in Lru
  <2>1. l[q] \in 0 .. MaxLru /\ l[p] \in 0 .. MaxLru
    OBVIOUS
  <2>2. CASE l[p] >= MaxLru
    <3>1. l[q] \div 2 \in 0 .. MaxLru - 1
      BY <2>1
    <3>2. scale = 2
      BY <2>2
    <3> QED  BY <2>1, <3>1, <3>2
  <2>3. CASE ~(l[p] >= MaxLru)
    <3>1. l[q] \div 1 = l[q]
      BY <2>1
    <3>2. scale = 1
      BY <2>3
    <3>3. q = p => l[q] + 1 \in 0 .. MaxLru
      BY <2>1, <2>3
    <3> QED  BY <2>1, <3>1, <3>2, <3>3
  <2> QED  BY <2>2, <2>3
<1>2. DOMAIN l = Pos(n)
  OBVIOUS
<1>3. update_lru(l, p) = [q \in Pos(n) |-> new(q)]
  BY <1>2 DEF update_lru
<1> HIDE DEF new
<1> QED  BY <1>1, <1>3

(* The invariant between operations.                                       *)
LEMMA ReadyInv ==
  ASSUME IInv, pc = "ready", pc' = "ready", UNCHANGED <<nbuckets, rehash>>,
         slots' \in [Pos(nbuckets) -> Slot], lrus' \in [Pos(nbuckets) -> Lru],
         num_empty' \in Int, EntriesAtHome'
  PROVE  IInv'
<1>1. TypeOK'
  BY DEF IInv, TypeOK, rehash, HashPos
<1>2. ResizeUnique' /\ HottestKept'
  BY DEF ResizeUnique, HottestKept
<1> QED  BY <1>1, <1>2 DEF IInv

(* Steps that leave the slots alone or write a slot of the key it holds.   *)
LEMMA SameKeys ==
  ASSUME IInv, UNCHANGED nbuckets,
         slots' \in [Pos(nbuckets) -> Slot],
         \A p \in Pos(nbuckets) :
           /\ IsHash(slots[p]) <=> IsHash(slots'[p])
           /\ IsHash(slots'[p]) => slots'[p][1] = slots[p][1]
  PROVE  EntriesAtHome'
BY DEF IInv, TypeOK, EntriesAtHome, HashPos

(* A look-up keeps the invariant.                                          *)
LEMMA FindInv ==
  ASSUME IInv,
         \/ \E k \in Keys : FindFirst(k)
         \/ \E k \in Keys, p \in Pos(nbuckets) : FindNext(k, p)
         \/ \E p \in Pos(nbuckets) : FindIf(p)
  PROVE  IInv'
<1>1. PICK p \in Pos(nbuckets) :
        Ready /\ Return(slots, update_lru(lrus, p), num_empty)
  BY DEF FindFirst, FindNext, FindIf
<1>2. TypeOK /\ nbuckets \in Nat
  BY DEF IInv, TypeOK
<1>3. update_lru(lrus, p) \in [Pos(nbuckets) -> Lru]
  BY <1>2, UpdateLruType DEF TypeOK
<1>4. slots' \in [Pos(nbuckets) -> Slot] /\ slots' = slots /\ num_empty' \in Int
  BY <1>1, <1>2 DEF Return, TypeOK
<1>5. EntriesAtHome'
  BY <1>1, <1>4, SameKeys DEF Return
<1> QED  BY <1>1, <1>3, <1>4, <1>5, ReadyInv DEF Return, Ready

(* An update keeps the invariant.                                          *)
LEMMA UpdateInv ==
  ASSUME IInv, NEW k \in Keys, NEW v \in Values, Update(k, v)
  PROVE  IInv'
<1>1. PICK p \in Pos(nbuckets) :
        /\ LowestIn(KeyPos(slots, k), Home(k, nbuckets), p)
        /\ Return([slots EXCEPT ![p] = <<k, v>>], update_lru(lrus, p), num_empty)
  BY DEF Update
<1>2. TypeOK /\ nbuckets \in Nat
  BY DEF IInv, TypeOK
<1>3. update_lru(lrus, p) \in [Pos(nbuckets) -> Lru]
  BY <1>2, UpdateLruType DEF TypeOK
<1>4. <<k, v>> \in Entry /\ <<k, v>> \in Slot /\ IsHash(<<k, v>>)
  BY CacheAssumption DEF Entry, Slot, IsHash
<1>5. slots' \in [Pos(nbuckets) -> Slot] /\ num_empty' \in Int
  BY <1>1, <1>2, <1>4 DEF Return, TypeOK
<1>6. IsHash(slots[p]) /\ slots[p][1] = k
  BY <1>1 DEF LowestIn, In, KeyPos
<1>7. ASSUME NEW q \in Pos(nbuckets)
      PROVE  /\ IsHash(slots[q]) <=> IsHash(slots'[q])
             /\ IsHash(slots'[q]) => slots'[q][1] = slots[q][1]
  <2>1. q # p => slots'[q] = slots[q]
    BY <1>1, <1>2 DEF Return, TypeOK
  <2>2. slots'[p] = <<k, v>>
    BY <1>1, <1>2 DEF Return, TypeOK
  <2> QED  BY <1>4, <1>6, <2>1, <2>2
<1>8. EntriesAtHome'
  BY <1>1, <1>5, <1>7, SameKeys DEF Return
<1>9. pc = "ready"
  BY DEF Update, Ready
<1> QED  BY <1>1, <1>3, <1>5, <1>8, <1>9, ReadyInv DEF Return

(* Look-ups that overlap keep the invariant, whichever counts survive.     *)
LEMMA OverlapInv ==
  ASSUME IInv, NEW p \in Pos(nbuckets), NEW q \in Pos(nbuckets),
         OverlappingFinds(p, q)
  PROVE  IInv'
<1>1. PICK from_p \in SUBSET In(Pos(nbuckets), p[1]) :
        Return(slots,
               [r \in Pos(nbuckets) |->
                  IF r \in from_p THEN update_lru(lrus, p)[r]
                  ELSE update_lru(lrus, q)[r]],
               num_empty)
  BY DEF OverlappingFinds
<1>2. TypeOK /\ nbuckets \in Nat
  BY DEF IInv, TypeOK
<1>3. /\ update_lru(lrus, p) \in [Pos(nbuckets) -> Lru]
      /\ update_lru(lrus, q) \in [Pos(nbuckets) -> Lru]
  BY <1>2, UpdateLruType DEF TypeOK
<1>4. lrus' \in [Pos(nbuckets) -> Lru]
  BY <1>1, <1>3 DEF Return
<1>5. slots' \in [Pos(nbuckets) -> Slot] /\ slots' = slots /\ num_empty' \in Int
  BY <1>1, <1>2 DEF Return, TypeOK
<1>6. EntriesAtHome'
  BY <1>1, <1>5, SameKeys DEF Return
<1>7. pc = "ready"
  BY DEF OverlappingFinds, Ready
<1> QED  BY <1>1, <1>4, <1>5, <1>6, <1>7, ReadyInv DEF Return

(* A slot of the bucket of k that is given to k, unless k has another one. *)
LEMMA StoreInv ==
  ASSUME IInv, UNCHANGED nbuckets, NEW e \in Entry, NEW p \in Pos(nbuckets),
         p[1] = Home(e[1], nbuckets),
         slots' = [slots EXCEPT ![p] = e],
         Duplicates \/ \A q \in HashPos(slots) : q # p => slots[q][1] # e[1]
  PROVE  EntriesAtHome' /\ slots' \in [Pos(nbuckets) -> Slot]
<1>1. e \in Slot /\ IsHash(e)
  BY CacheAssumption DEF Slot, IsHash
<1>2. slots \in [Pos(nbuckets) -> Slot]
  BY DEF IInv, TypeOK
<1>3. slots' \in [Pos(nbuckets) -> Slot]
  BY <1>1, <1>2
<1>4. HashPos(slots') = HashPos(slots) \cup {p}
  BY <1>1, <1>2, <1>3 DEF HashPos
<1>5. slots'[p] = e /\ \A q \in Pos(nbuckets) : q # p => slots'[q] = slots[q]
  BY <1>2
<1>6. HashPos(slots) \subseteq Pos(nbuckets)
  BY <1>2 DEF HashPos
<1>7. EntriesAtHome
  BY DEF IInv
<1>8. ASSUME NEW q \in HashPos(slots') PROVE q[1] = Home(slots'[q][1], nbuckets)
  BY <1>4, <1>5, <1>6, <1>7 DEF EntriesAtHome
<1>9. ASSUME ~Duplicates, NEW q \in HashPos(slots'), NEW r \in HashPos(slots'),
             slots'[q][1] = slots'[r][1]
      PROVE  q = r
  BY <1>4, <1>5, <1>6, <1>7, <1>9 DEF EntriesAtHome
<1> QED  BY <1>3, <1>8, <1>9 DEF EntriesAtHome

(* An insertion keeps the invariant: the key is searched where it would be *)
(* stored.                                                                 *)
LEMMA InsertInv ==
  ASSUME IInv, NEW k \in Keys, NEW v \in Values, Insert(k, v)
  PROVE  IInv'
<1> DEFINE b == Home(k, nbuckets)
<1>1. TypeOK /\ nbuckets \in Nat /\ EntriesAtHome
  BY DEF IInv, TypeOK
<1>2. PICK p \in Pos(nbuckets) :
        LET s == [slots EXCEPT ![p] = <<k, v>>]
            l == [lrus EXCEPT ![p] = default_lru]
        IN  \/ InsertFinds(k, p) /\ Return(s, update_lru(lrus, p), num_empty)
            \/ InsertTakes(k, p) /\ Return(s, l, num_empty - 1)
            \/ InsertReplaces(k, p) /\ Return(s, l, num_empty)
  BY DEF Insert
<1>3. slots' = [slots EXCEPT ![p] = <<k, v>>] /\ UNCHANGED <<nbuckets, pc, rehash>>
  BY <1>2 DEF Return
<1>4. p[1] = b
  BY <1>2 DEF InsertFinds, InsertTakes, InsertReplaces, LowestIn, In, Coldest
<1>5. Duplicates \/ \A q \in HashPos(slots) : q # p => slots[q][1] # k
  <2> SUFFICES ASSUME ~Duplicates, NEW q \in HashPos(slots), q # p,
                      slots[q][1] = k
               PROVE  FALSE
    OBVIOUS
  <2>1. q[1] = b /\ q \in KeyPos(slots, k)
    BY <1>1 DEF EntriesAtHome, HashPos, KeyPos
  <2>2. InsertFinds(k, p)
    BY <1>2, <2>1 DEF InsertTakes, InsertReplaces, InsertMisses, In
  <2>3. p \in HashPos(slots) /\ slots[p][1] = k
    BY <2>2 DEF InsertFinds, LowestIn, In, KeyPos, HashPos
  <2> QED  BY <1>1, <2>3 DEF EntriesAtHome
<1>6. <<k, v>> \in Entry /\ <<k, v>>[1] = k
  BY DEF Entry
<1>7. EntriesAtHome' /\ slots' \in [Pos(nbuckets) -> Slot]
  BY <1>3, <1>4, <1>5, <1>6, StoreInv
<1>8. update_lru(lrus, p) \in [Pos(nbuckets) -> Lru]
  BY <1>1, UpdateLruType DEF TypeOK
<1>9. [lrus EXCEPT ![p] = default_lru] \in [Pos(nbuckets) -> Lru]
  <2>1. default_lru \in Lru
    BY CacheAssumption DEF default_lru, Lru
  <2> QED  BY <1>1, <2>1 DEF TypeOK
<1>10. lrus' \in [Pos(nbuckets) -> Lru] /\ num_empty' \in Int
  BY <1>1, <1>2, <1>8, <1>9 DEF Return, TypeOK
<1>11. pc = "ready"
  BY DEF Insert, Ready
<1> QED  BY <1>3, <1>7, <1>10, <1>11, ReadyInv

(* Every erasure, and a scrub, keeps the invariant.                        *)
LEMMA EraseInv ==
  ASSUME IInv, pc = "ready", NEW P \in SUBSET Pos(nbuckets), EraseSlots(P)
  PROVE  IInv'
<1>1. TypeOK /\ nbuckets \in Nat /\ EntriesAtHome
  BY DEF IInv, TypeOK
<1>2. slots' = [p \in Pos(nbuckets) |-> IF p \in P THEN Empty ELSE slots[p]]
  BY DEF EraseSlots
<1>3. slots' \in [Pos(nbuckets) -> Slot]
  BY <1>1, <1>2 DEF TypeOK, Slot
<1>4. IsFiniteSet(P)
  <2>1. nbuckets - 1 \in Int /\ KernelSize - 1 \in Int
    BY <1>1, CacheAssumption
  <2>2. IsFiniteSet(Pos(nbuckets))
    <3>1. IsFiniteSet(0 .. nbuckets - 1)
      BY <2>1, FS_Interval
    <3>2. IsFiniteSet(Lanes)
      BY <2>1, FS_Interval DEF Lanes
    <3> QED  BY <3>1, <3>2, FS_Product DEF Pos
  <2> QED  BY <2>2, FS_Subset
<1>5. num_empty' \in Int
  <2>1. Cardinality(P) \in Nat
    BY <1>4, FS_CardinalityType
  <2> QED  BY <1>1, <2>1 DEF EraseSlots, TypeOK
<1>6. \A p \in HashPos(slots') : p \in HashPos(slots) /\ slots'[p] = slots[p]
  BY <1>1, <1>2 DEF HashPos, IsHash, TypeOK
<1>7. EntriesAtHome'
  BY <1>1, <1>6 DEF EntriesAtHome, EraseSlots
<1>8. lrus' \in [Pos(nbuckets) -> Lru]
  BY <1>1 DEF EraseSlots, TypeOK
<1> QED  BY <1>3, <1>5, <1>7, <1>8, ReadyInv DEF EraseSlots

(* A fresh table has no entry.                                             *)
LEMMA FreshTable ==
  ASSUME NEW n, Allocate(n)
  PROVE  /\ nbuckets' \in 1 .. MaxBuckets /\ nbuckets' = n
         /\ slots' \in [Pos(nbuckets') -> Slot]
         /\ lrus' \in [Pos(nbuckets') -> Lru]
         /\ num_empty' \in Int
         /\ HashPos(slots') = {}
<1>1. n \in 1 .. MaxBuckets /\ nbuckets' = n /\ n \in Nat
  BY CacheAssumption DEF Allocate
<1>2. slots' \in [Pos(n) -> Slot] /\ HashPos(slots') = {}
  BY DEF Allocate, Slot, HashPos, IsHash
<1>3. lrus' \in [Pos(n) -> Lru]
  BY CacheAssumption DEF Allocate, Lru
<1>4. num_empty' \in Int
  BY <1>1, CacheAssumption DEF Allocate
<1> QED  BY <1>1, <1>2, <1>3, <1>4

(* Clearing keeps the invariant.                                           *)
LEMMA ClearInv ==
  ASSUME IInv, NEW n, ClearTo(n)
  PROVE  IInv'
<1>1. Allocate(n \div KernelSize) /\ UNCHANGED <<pc, rehash>> /\ pc = "ready"
  BY DEF ClearTo, Ready
<1>2. /\ nbuckets' \in 1 .. MaxBuckets
      /\ slots' \in [Pos(nbuckets') -> Slot]
      /\ lrus' \in [Pos(nbuckets') -> Lru]
      /\ num_empty' \in Int
      /\ HashPos(slots') = {}
  BY <1>1, FreshTable
<1>3. TypeOK'
  BY <1>1, <1>2 DEF IInv, TypeOK, rehash, HashPos
<1>4. EntriesAtHome' /\ ResizeUnique' /\ HottestKept'
  BY <1>1, <1>2 DEF EntriesAtHome, ResizeUnique, HottestKept
<1> QED  BY <1>3, <1>4 DEF IInv

(* The start of a resize keeps the invariant.                              *)
LEMMA StartResizeInv ==
  ASSUME IInv, pc = "ready", NEW end, StartResize(end)
  PROVE  IInv'
<1>1. CASE UNCHANGED vars
  BY <1>1 DEF vars, table, rehash, IInv, TypeOK, EntriesAtHome, ResizeUnique,
              HottestKept, HashPos
<1>2. CASE /\ Allocate(end \div KernelSize)
           /\ old' = slots /\ old_lrus' = lrus
           /\ todo' = HashPos(slots) /\ num_insert' = 0
           /\ pc' = "resize"
  <2>1. /\ nbuckets' \in 1 .. MaxBuckets
        /\ slots' \in [Pos(nbuckets') -> Slot]
        /\ lrus' \in [Pos(nbuckets') -> Lru]
        /\ num_empty' \in Int
        /\ HashPos(slots') = {}
    BY <1>2, FreshTable
  <2>2. nbuckets \in 0 .. MaxBuckets /\ nbuckets \in 1 .. MaxBuckets
    BY CacheAssumption DEF IInv, TypeOK
  <2>3. \E n \in 0 .. MaxBuckets :
          /\ old' \in [Pos(n) -> Slot]
          /\ pc' = "resize" => old_lrus' \in [Pos(n) -> Lru]
    BY <1>2, <2>2 DEF IInv, TypeOK
  <2>4. TypeOK'
    BY <1>2, <2>1, <2>3 DEF TypeOK, HashPos
  <2>5. EntriesAtHome'
    BY <2>1 DEF EntriesAtHome
  <2>6. ResizeUnique'
    BY <1>2, <2>1 DEF ResizeUnique, IInv, EntriesAtHome
  <2>7. HottestKept'
    <3>1. HashPos(old') \ todo' = {}
      BY <1>2
    <3> QED  BY <3>1 DEF HottestKept
  <2> QED  BY <2>4, <2>5, <2>6, <2>7 DEF IInv
<1> QED  BY <1>1, <1>2 DEF StartResize

(* The end of a resize keeps the invariant.                                *)
LEMMA FinishInv ==
  ASSUME IInv, FinishResize
  PROVE  IInv'
<1>1. pc' = "ready" /\ UNCHANGED <<nbuckets, slots, lrus>> /\ todo' = {}
  BY DEF FinishResize
<1>2. old' \in [Pos(0) -> Slot]
  BY DEF FinishResize, NoTable, Pos
<1>3. num_empty' \in Int /\ num_insert' \in Int
  BY DEF FinishResize, IInv, TypeOK
<1>4. 0 \in 0 .. MaxBuckets
  BY CacheAssumption
<1>5. \E n \in 0 .. MaxBuckets :
        /\ old' \in [Pos(n) -> Slot]
        /\ pc' = "resize" => old_lrus' \in [Pos(n) -> Lru]
  BY <1>1, <1>2, <1>4
<1>6. TypeOK'
  BY <1>1, <1>3, <1>5 DEF TypeOK, IInv
<1>7. EntriesAtHome'
  BY <1>1 DEF IInv, EntriesAtHome, HashPos
<1>8. ResizeUnique' /\ HottestKept'
  BY <1>1 DEF ResizeUnique, HottestKept
<1> QED  BY <1>6, <1>7, <1>8 DEF IInv

(* A step of a resize keeps the invariant.  An entry that is replaced had  *)
(* the lowest count of a full bucket and what replaces it has at least     *)
(* that count, so the counts of the bucket never fall below what was       *)
(* dropped.                                                                *)
LEMMA RehashInv ==
  ASSUME IInv, RehashEntry
  PROVE  IInv'
<1>1. /\ TypeOK /\ EntriesAtHome /\ ResizeUnique /\ HottestKept
      /\ pc = "resize" /\ pc' = "resize"
      /\ nbuckets \in Nat \ {0}
      /\ slots \in [Pos(nbuckets) -> Slot] /\ lrus \in [Pos(nbuckets) -> Lru]
      /\ UNCHANGED <<nbuckets, num_empty, old, old_lrus>>
  BY DEF IInv, TypeOK, RehashEntry
<1>2. PICK n \in 0 .. MaxBuckets :
        old \in [Pos(n) -> Slot] /\ old_lrus \in [Pos(n) -> Lru]
  BY <1>1 DEF TypeOK
<1>3. todo \subseteq HashPos(old) /\ HashPos(old) \subseteq Pos(n)
  BY <1>1, <1>2 DEF TypeOK, HashPos
<1>4. \A p \in HashPos(old) : /\ old[p] \in Entry /\ old[p][1] \in Keys
                              /\ old_lrus[p] \in Lru /\ IsHash(old[p])
  BY <1>2, <1>3 DEF HashPos, IsHash, Slot, Entry
<1>5. Lru \subseteq Int
  BY DEF Lru
<1>6. PICK p \in todo, q \in Pos(nbuckets) :
        LET b == Home(old[p][1], nbuckets)
        IN  /\ todo' = todo \ {p}
            /\ \/ LowestIn(EmptyPos(slots), b, q) /\ Rehash(p, q, 1)
               \/ /\ In(EmptyPos(slots), b) = {}
                  /\ Coldest(lrus, b, q)
                  /\ \/ PutAside(p, q) /\ UNCHANGED <<slots, lrus, num_insert>>
                     \/ ~PutAside(p, q) /\ Rehash(p, q, 0)
  BY DEF RehashEntry
<1> DEFINE b == Home(old[p][1], nbuckets)
           bucket(r) == In(Pos(nbuckets), Home(old[r][1], nbuckets))
           Kept(r) == \E x \in bucket(r) :
                        slots[x] = old[r] /\ lrus[x] = old_lrus[r]
           Cold(r) == \A x \in bucket(r) :
                        IsHash(slots[x]) /\ lrus[x] >= old_lrus[r]
<1>7. p \in HashPos(old) /\ todo' = todo \ {p} /\ q[1] = b
  BY <1>3, <1>6 DEF LowestIn, In, Coldest
<1>8. \A r \in HashPos(old) \ todo : Kept(r) \/ Cold(r)
  BY <1>1 DEF HottestKept
<1>9. b \in 0 .. nbuckets - 1 /\ q \in bucket(p)
  BY <1>1, <1>4, <1>7, HomeType DEF In
<1>10. SUFFICES /\ slots' \in [Pos(nbuckets) -> Slot]
                /\ lrus' \in [Pos(nbuckets) -> Lru]
                /\ num_insert' \in Int
                /\ EntriesAtHome'
                /\ ~Duplicates => \A t \in todo', x \in HashPos(slots') :
                                    old[t][1] # slots'[x][1]
                /\ \A r \in HashPos(old) \ todo' :
                     \/ \E x \in bucket(r) :
                          slots'[x] = old[r] /\ lrus'[x] = old_lrus[r]
                     \/ \A x \in bucket(r) :
                          IsHash(slots'[x]) /\ lrus'[x] >= old_lrus[r]
  <2>1. TypeOK'
    BY <1>1, <1>2, <1>3, <1>7, <1>10 DEF TypeOK
  <2>2. ResizeUnique'
    BY <1>1, <1>10 DEF ResizeUnique
  <2>3. HottestKept'
    BY <1>1, <1>10 DEF HottestKept
  <2> QED  BY <1>10, <2>1, <2>2, <2>3 DEF IInv
<1>11. CASE UNCHANGED <<slots, lrus, num_insert>> /\ PutAside(p, q)
            /\ In(EmptyPos(slots), b) = {} /\ Coldest(lrus, b, q)
  <2>1. EntriesAtHome'
    BY <1>1, <1>11 DEF EntriesAtHome, HashPos
  <2>2. Cold(p)
    <3> SUFFICES ASSUME NEW x \in bucket(p)
                 PROVE  IsHash(slots[x]) /\ lrus[x] >= old_lrus[p]
      OBVIOUS
    <3>1. x \in Pos(nbuckets) /\ x[1] = b
      BY DEF In
    <3>2. IsHash(slots[x])
      BY <1>1, <1>11, <3>1 DEF In, EmptyPos, IsHash
    <3>3. lrus[q] <= lrus[x] /\ old_lrus[p] < lrus[q]
      BY <1>1, <1>11, <3>1 DEF Coldest, In, PutAside
    <3>4. lrus[x] \in Int /\ lrus[q] \in Int /\ old_lrus[p] \in Int
      BY <1>1, <1>4, <1>5, <1>7, <3>1
    <3> QED  BY <3>2, <3>3, <3>4
  <2>3. \A t \in todo', x \in HashPos(slots') : ~Duplicates => old[t][1] # slots'[x][1]
    BY <1>1, <1>7, <1>11 DEF ResizeUnique, HashPos
  <2>4. \A r \in HashPos(old) \ todo' : Kept(r) \/ Cold(r)
    <3> HIDE DEF Kept, Cold
    <3> QED  BY <1>7, <1>8, <2>2
  <2>5. num_insert' \in Int
    BY <1>1, <1>11 DEF TypeOK
  <2> QED  BY <1>1, <1>11, <2>1, <2>3, <2>4, <2>5
<1>12. ASSUME NEW taken \in {0, 1}, Rehash(p, q, taken),
              \/ slots[q] = Empty
              \/ /\ In(EmptyPos(slots), b) = {} /\ Coldest(lrus, b, q)
                 /\ ~PutAside(p, q)
       PROVE  /\ slots' \in [Pos(nbuckets) -> Slot]
              /\ lrus' \in [Pos(nbuckets) -> Lru]
              /\ num_insert' \in Int
              /\ EntriesAtHome'
              /\ ~Duplicates => \A t \in todo', x \in HashPos(slots') :
                                  old[t][1] # slots'[x][1]
              /\ \A r \in HashPos(old) \ todo' :
                   \/ \E x \in bucket(r) :
                        slots'[x] = old[r] /\ lrus'[x] = old_lrus[r]
                   \/ \A x \in bucket(r) :
                        IsHash(slots'[x]) /\ lrus'[x] >= old_lrus[r]
  <2>1. /\ slots' = [slots EXCEPT ![q] = old[p]]
        /\ lrus' = [lrus EXCEPT ![q] = old_lrus[p]]
        /\ num_insert' = num_insert + taken
    BY <1>12 DEF Rehash
  <2>2. lrus' \in [Pos(nbuckets) -> Lru] /\ num_insert' \in Int
    BY <1>1, <1>4, <1>7, <2>1 DEF TypeOK
  <2>3. Duplicates \/ \A x \in HashPos(slots) : x # q => slots[x][1] # old[p][1]
    BY <1>1 DEF ResizeUnique
  <2>4. EntriesAtHome' /\ slots' \in [Pos(nbuckets) -> Slot]
    BY <1>1, <1>4, <1>7, <2>1, <2>3, StoreInv
  <2>5. /\ slots'[q] = old[p] /\ lrus'[q] = old_lrus[p]
        /\ \A x \in Pos(nbuckets) : x # q => slots'[x] = slots[x] /\ lrus'[x] = lrus[x]
    BY <1>1, <2>1
  <2>6. ASSUME ~Duplicates, NEW t \in todo', NEW x \in HashPos(slots')
        PROVE  old[t][1] # slots'[x][1]
    <3>1. t \in todo /\ t # p /\ t \in HashPos(old) /\ x \in Pos(nbuckets)
      BY <1>3, <1>7, <2>4 DEF HashPos
    <3>2. CASE x = q
      BY <1>1, <1>7, <2>5, <2>6, <3>1, <3>2 DEF ResizeUnique
    <3>3. CASE x # q
      BY <1>1, <2>5, <2>6, <3>1, <3>3 DEF ResizeUnique, HashPos
    <3> QED  BY <3>2, <3>3
  <2>7. ASSUME NEW r \in HashPos(old) \ todo'
        PROVE  \/ \E x \in bucket(r) :
                    slots'[x] = old[r] /\ lrus'[x] = old_lrus[r]
               \/ \A x \in bucket(r) :
                    IsHash(slots'[x]) /\ lrus'[x] >= old_lrus[r]
    <3>1. CASE r = p
      BY <1>9, <2>5, <3>1
    <3>2. CASE r # p
      <4>1. Kept(r) \/ Cold(r)
        BY <1>7, <1>8, <3>2
      <4>2. \A x \in bucket(r) : x \in Pos(nbuckets) /\ x[1] = Home(old[r][1], nbuckets)
        BY DEF In
      <4>3. old_lrus[r] \in Int /\ old_lrus[p] \in Int /\ IsHash(old[r]) /\ IsHash(old[p])
        BY <1>4, <1>5, <1>7
      <4>4. \A x \in Pos(nbuckets) : lrus[x] \in Int
        BY <1>1, <1>5
      <4>5. CASE slots[q] = Empty
        BY <2>5, <4>1, <4>2, <4>3, <4>5 DEF IsHash
      <4>6. CASE /\ In(EmptyPos(slots), b) = {} /\ Coldest(lrus, b, q)
                 /\ ~PutAside(p, q)
        <5>1. lrus[q] <= old_lrus[p]
          BY <4>3, <4>4, <4>6 DEF PutAside
        <5>2. \A x \in Pos(nbuckets) : x[1] = b => IsHash(slots[x]) /\ lrus[q] <= lrus[x]
          BY <1>1, <4>6 DEF In, EmptyPos, IsHash, Coldest
        <5>3. CASE Cold(r)
          BY <2>5, <4>2, <4>3, <4>4, <5>1, <5>3
        <5>4. CASE Kept(r)
          <6>1. PICK w \in bucket(r) : slots[w] = old[r] /\ lrus[w] = old_lrus[r]
            BY <5>4
          <6>2. CASE w # q
            BY <2>5, <4>2, <6>1, <6>2
          <6>3. CASE w = q
            <7>1. Home(old[r][1], nbuckets) = b
              BY <1>7, <4>2, <6>1, <6>3
            <7>2. ASSUME NEW x \in bucket(r)
                  PROVE  IsHash(slots'[x]) /\ lrus'[x] >= old_lrus[r]
              <8>1. x \in Pos(nbuckets) /\ x[1] = b
                BY <4>2, <7>1
              <8>2. CASE x = q
                BY <2>5, <4>3, <4>4, <5>1, <6>1, <6>3, <8>2
              <8>3. CASE x # q
                BY <2>5, <4>3, <4>4, <5>2, <6>1, <6>3, <8>1, <8>3
              <8> QED  BY <8>2, <8>3
            <7> QED  BY <7>2
          <6> QED  BY <6>2, <6>3
        <5> QED  BY <4>1, <5>3, <5>4
      <4> QED  BY <1>12, <4>5, <4>6
    <3> QED  BY <3>1, <3>2
  <2> QED  BY <2>2, <2>4, <2>6, <2>7
<1>13. LowestIn(EmptyPos(slots), b, q) => slots[q] = Empty
  BY DEF LowestIn, In, EmptyPos
<1> QED  BY <1>6, <1>11, <1>12, <1>13

(* The initial state satisfies the invariant.                              *)
LEMMA InitInv == Init => IInv
<1> SUFFICES ASSUME Init PROVE IInv
  OBVIOUS
<1>1. nbuckets \in 1 .. MaxBuckets /\ nbuckets \in Nat
  BY CacheAssumption DEF Init
<1>2. slots \in [Pos(nbuckets) -> Slot] /\ HashPos(slots) = {}
  BY DEF Init, Slot, HashPos, IsHash
<1>3. lrus \in [Pos(nbuckets) -> Lru]
  BY CacheAssumption DEF Init, Lru
<1>4. num_empty \in Int
  BY <1>1, CacheAssumption DEF Init
<1>5. old \in [Pos(0) -> Slot] /\ 0 \in 0 .. MaxBuckets
  BY CacheAssumption DEF Init, NoTable, Pos
<1>6. TypeOK
  BY <1>1, <1>2, <1>3, <1>4, <1>5 DEF Init, TypeOK
<1>7. EntriesAtHome /\ ResizeUnique /\ HottestKept
  BY <1>2 DEF Init, EntriesAtHome, ResizeUnique, HottestKept
<1> QED  BY <1>6, <1>7 DEF IInv

(* Every step keeps the invariant.                                         *)
LEMMA NextInv == IInv /\ [Next]_vars => IInv'
<1> SUFFICES ASSUME IInv, [Next]_vars PROVE IInv'
  OBVIOUS
<1>1. slots \in [Pos(nbuckets) -> Slot]
  BY DEF IInv, TypeOK
<1>2. CASE \/ \E k \in Keys : FindFirst(k)
           \/ \E k \in Keys, p \in Pos(nbuckets) : FindNext(k, p)
           \/ \E p \in Pos(nbuckets) : FindIf(p)
  BY <1>2, FindInv
<1>3. CASE \E k \in Keys, v \in Values : Insert(k, v) \/ Update(k, v)
  BY <1>3, InsertInv, UpdateInv
<1>4. CASE \E p, q \in Pos(nbuckets) : OverlappingFinds(p, q)
  BY <1>4, OverlapInv
<1>5. CASE \/ \E k \in Keys : EraseFirst(k) \/ EraseAll(k)
           \/ \E k \in Keys, p \in Pos(nbuckets) : EraseNext(k, p)
           \/ \E p \in Pos(nbuckets) : EraseAt(p)
           \/ \E P \in SUBSET HashPos(slots) : EraseIf(P)
           \/ \E t \in Lru : Scrub(t)
  <2>1. \A k : KeyPos(slots, k) \subseteq Pos(nbuckets)
    BY <1>1 DEF KeyPos
  <2>2. HashPos(slots) \subseteq Pos(nbuckets)
    BY <1>1 DEF HashPos
  <2>3. pc = "ready" /\ \E P \in SUBSET Pos(nbuckets) : EraseSlots(P)
    <3>1. CASE \E k \in Keys : EraseFirst(k)
      BY <3>1 DEF EraseFirst, Ready
    <3>2. CASE \E k \in Keys : EraseAll(k)
      BY <2>1, <3>2 DEF EraseAll, Ready, In
    <3>3. CASE \E k \in Keys, p \in Pos(nbuckets) : EraseNext(k, p)
      BY <3>3 DEF EraseNext, Ready
    <3>4. CASE \E p \in Pos(nbuckets) : EraseAt(p)
      BY <3>4 DEF EraseAt, Ready
    <3>5. CASE \E P \in SUBSET HashPos(slots) : EraseIf(P)
      BY <2>2, <3>5 DEF EraseIf, Ready
    <3>6. CASE \E t \in Lru : Scrub(t)
      BY <2>2, <3>6 DEF Scrub, Ready, Below
    <3> QED  BY <1>5, <3>1, <3>2, <3>3, <3>4, <3>5, <3>6
  <2> QED  BY <2>3, EraseInv
<1>6. CASE \E n \in Requests : Resize(n) \/ Reserve(n)
  BY <1>6, StartResizeInv DEF Resize, Reserve, Ready
<1>7. CASE Grow \/ Shrink
  BY <1>7, StartResizeInv DEF Grow, Shrink, Ready
<1>8. CASE (\E n \in Requests : ClearCapacity(n)) \/ Clear
  BY <1>8, ClearInv DEF ClearCapacity, Clear
<1>9. CASE RehashEntry
  BY <1>9, RehashInv
<1>10. CASE FinishResize
  BY <1>10, FinishInv
<1>11. CASE UNCHANGED vars
  BY <1>11 DEF vars, table, rehash, IInv, TypeOK, EntriesAtHome, ResizeUnique,
               HottestKept, HashPos
<1> QED
  BY <1>2, <1>3, <1>4, <1>5, <1>6, <1>7, <1>8, <1>9, <1>10, <1>11 DEF Next

(* Every entry of the cache is in the bucket that a look-up searches, once *)
(* unless duplicates are allowed, and what a resize drops is colder than   *)
(* what it keeps.                                                          *)
THEOREM CacheInvariant == Spec => []IInv
BY InitInv, NextInv, PTL DEF Spec

(* A look-up, which searches one bucket, misses no entry.                  *)
THEOREM AtHome == Spec => []EntriesAtHome
<1>1. IInv => EntriesAtHome
  BY DEF IInv
<1> QED  BY <1>1, CacheInvariant, PTL

(* A resize keeps the hottest entries of each bucket.                      *)
THEOREM ResizeKeepsHottest == Spec => []HottestKept
<1>1. IInv => HottestKept
  BY DEF IInv
<1> QED  BY <1>1, CacheInvariant, PTL

(* What two look-ups that race can leave in a count: one of the two values *)
(* that they store.                                                        *)
LEMMA OneOfTwoStores ==
  ASSUME IInv, NEW p \in Pos(nbuckets), NEW q \in Pos(nbuckets),
         OverlappingFinds(p, q), NEW r \in Pos(nbuckets)
  PROVE  \E h \in {p, q} : lrus'[r] = update_lru(lrus, h)[r]
<1>1. PICK from_p \in SUBSET In(Pos(nbuckets), p[1]) :
        lrus' = [x \in Pos(nbuckets) |-> IF x \in from_p THEN update_lru(lrus, p)[x]
                                         ELSE update_lru(lrus, q)[x]]
  BY DEF OverlappingFinds, Return
<1>2. lrus'[r] = IF r \in from_p THEN update_lru(lrus, p)[r]
                 ELSE update_lru(lrus, q)[r]
  BY <1>1
<1> QED  BY <1>2

(* What a look-up stores in a count.                                       *)
LEMMA OneStore ==
  ASSUME IInv, NEW h \in Pos(nbuckets), NEW r \in Pos(nbuckets)
  PROVE  LET stored == update_lru(lrus, h)[r]
         IN  /\ lrus[r] \div 2 <= stored
             /\ stored <= lrus[r] + (IF r = h THEN 1 ELSE 0)
             /\ lrus[h] < MaxLru => lrus[r] <= stored
<1> DEFINE stored == update_lru(lrus, h)[r]
<1>1. /\ DOMAIN lrus = Pos(nbuckets)
      /\ lrus[r] \in Nat /\ lrus[h] \in Nat /\ MaxLru \in Nat
  BY CacheAssumption DEF IInv, TypeOK, Lru
<1>2. \A n \in Nat : n \div 2 \in Nat /\ n \div 2 <= n /\ n \div 1 = n
  OBVIOUS
<1>3. CASE r[1] # h[1]
  <2>1. stored = lrus[r] /\ r # h
    BY <1>1, <1>3 DEF update_lru
  <2> QED  BY <1>1, <1>2, <2>1
<1>4. CASE r[1] = h[1] /\ lrus[h] >= MaxLru
  <2>1. stored = (lrus[r] \div 2) + (IF r = h THEN 1 ELSE 0)
    BY <1>1, <1>4 DEF update_lru
  <2> QED  BY <1>1, <1>2, <1>4, <2>1
<1>5. CASE r[1] = h[1] /\ ~(lrus[h] >= MaxLru)
  <2>1. stored = (lrus[r] \div 1) + (IF r = h THEN 1 ELSE 0)
    BY <1>1, <1>5 DEF update_lru
  <2> QED  BY <1>1, <1>2, <1>5, <2>1
<1> QED  BY <1>3, <1>4, <1>5

(* A hit counts also when it makes the counts of the bucket halve: the     *)
(* slot that is hit rises above those that were level with it.  Two        *)
(* look-ups that race leave every count between half of what it was and    *)
(* one more.                                                               *)
THEOREM HitsCount == Spec => HitsRank
<1>1. ASSUME IInv, NEW p \in DOMAIN lrus, FindIf(p) PROVE HitRanks(p)
  <2> DEFINE scale == IF lrus[p] >= MaxLru THEN 2 ELSE 1
  <2>1. lrus \in [Pos(nbuckets) -> Lru] /\ p \in Pos(nbuckets)
    BY <1>1 DEF IInv, TypeOK
  <2>2. lrus' = update_lru(lrus, p)
    BY <1>1 DEF FindIf, Return
  <2>3. \A q \in Pos(nbuckets) : lrus[q] \in Nat
    BY <2>1, CacheAssumption DEF Lru
  <2>4. ASSUME NEW q \in Pos(nbuckets), q[1] = p[1]
        PROVE  lrus'[q] = (lrus[q] \div scale) + (IF q = p THEN 1 ELSE 0)
    BY <2>1, <2>2, <2>4 DEF update_lru
  <2>5. scale \in {1, 2}
    OBVIOUS
  <2> HIDE DEF scale
  <2>6. \A a, b \in Nat : a <= b => a \div scale <= b \div scale
    <3>1. \A a, b \in Nat : a <= b => a \div 2 <= b \div 2
      OBVIOUS
    <3>2. \A a \in Nat : a \div 1 = a
      OBVIOUS
    <3> QED  BY <2>5, <3>1, <3>2
  <2>7. \A a \in Nat : a \div scale \in Nat
    BY <2>5
  <2>8. ASSUME NEW q \in In(DOMAIN lrus, p[1]) \ {p},
               NEW r \in In(DOMAIN lrus, p[1]) \ {p}
        PROVE  /\ lrus[q] <= lrus[p] => lrus'[q] < lrus'[p]
               /\ lrus[q] <= lrus[r] => lrus'[q] <= lrus'[r]
    <3>1. /\ q \in Pos(nbuckets) /\ q[1] = p[1] /\ q # p
          /\ r \in Pos(nbuckets) /\ r[1] = p[1] /\ r # p
      BY <2>1 DEF In
    <3>2. /\ lrus'[q] = lrus[q] \div scale
          /\ lrus'[r] = lrus[r] \div scale
          /\ lrus'[p] = (lrus[p] \div scale) + 1
      <4>1. lrus'[q] = (lrus[q] \div scale) + 0
        BY <2>4, <3>1
      <4>2. lrus'[r] = (lrus[r] \div scale) + 0
        BY <2>4, <3>1
      <4>3. lrus'[p] = (lrus[p] \div scale) + 1
        BY <2>1, <2>4
      <4> QED  BY <2>3, <2>7, <3>1, <4>1, <4>2, <4>3
    <3> QED  BY <2>1, <2>3, <2>6, <2>7, <3>1, <3>2
  <2> QED  BY <2>8 DEF HitRanks
<1>2. ASSUME IInv, NEW p \in DOMAIN lrus, NEW q \in DOMAIN lrus,
             OverlappingFinds(p, q)
      PROVE  RacingHits(p, q)
  <2>1. DOMAIN lrus = Pos(nbuckets)
    BY <1>2 DEF IInv, TypeOK
  <2>2. ASSUME NEW r \in Pos(nbuckets)
        PROVE  /\ lrus[r] \div 2 <= lrus'[r]
               /\ lrus'[r] <= lrus[r] + (IF r \in {p, q} THEN 1 ELSE 0)
               /\ lrus[p] < MaxLru /\ lrus[q] < MaxLru => lrus[r] <= lrus'[r]
    <3>1. p \in Pos(nbuckets) /\ q \in Pos(nbuckets)
      BY <2>1
    <3>2. PICK h \in {p, q} : lrus'[r] = update_lru(lrus, h)[r]
      BY <1>2, <3>1, OneOfTwoStores
    <3>3. /\ lrus[r] \div 2 <= lrus'[r]
          /\ lrus'[r] <= lrus[r] + (IF r = h THEN 1 ELSE 0)
          /\ lrus[h] < MaxLru => lrus[r] <= lrus'[r]
      BY <1>2, <3>1, <3>2, OneStore
    <3>4. lrus[r] \in Nat /\ lrus'[r] \in Int
      BY <1>2, <2>1, <3>1, <3>2, CacheAssumption DEF IInv, TypeOK, Lru, update_lru
    <3> QED  BY <3>2, <3>3, <3>4
  <2> QED  BY <2>1, <2>2 DEF RacingHits
<1> DEFINE Ranks ==
             /\ \A p \in DOMAIN lrus : FindIf(p) => HitRanks(p)
             /\ \A p, q \in DOMAIN lrus : OverlappingFinds(p, q) => RacingHits(p, q)
<1>3. IInv => Ranks
  BY <1>1, <1>2
<1>4. [][Ranks]_vars => HitsRank
  BY DEF HitsRank
<1> QED  BY <1>3, <1>4, CacheInvariant, PTL DEF Spec

-----------------------------------------------------------------------------
(* Counting slots.                                                         *)
Tables(n) == [Pos(n) -> Slot]

Count(s, x) == Cardinality({p \in DOMAIN s : s[p] = x})

(* Disjoint finite sets add up.                                            *)
LEMMA DisjointUnion ==
  ASSUME NEW S, NEW T, IsFiniteSet(S), IsFiniteSet(T), S \cap T = {}
  PROVE  /\ IsFiniteSet(S \cup T)
         /\ Cardinality(S) \in Nat /\ Cardinality(T) \in Nat
         /\ Cardinality(S \cup T) = Cardinality(S) + Cardinality(T)
<1>1. Cardinality(S) \in Nat /\ Cardinality(T) \in Nat
  BY FS_CardinalityType
<1>2. Cardinality(S \cap T) = 0
  BY FS_EmptySet
<1>3. /\ IsFiniteSet(S \cup T)
      /\ Cardinality(S \cup T) = Cardinality(S) + Cardinality(T) - Cardinality(S \cap T)
  BY FS_Union, Zenon
<1> QED
  BY <1>1, <1>2, <1>3

(* The number of slots of a table.                                         *)
LEMMA PosFinite ==
  ASSUME NEW n \in Nat
  PROVE  IsFiniteSet(Pos(n)) /\ Cardinality(Pos(n)) = n * KernelSize
<1>1. IsFiniteSet(0 .. n - 1) /\ Cardinality(0 .. n - 1) = n
  BY FS_Interval
<1>2. IsFiniteSet(Lanes) /\ Cardinality(Lanes) = KernelSize
  BY FS_Interval, CacheAssumption DEF Lanes
<1> QED
  BY <1>1, <1>2, FS_Product DEF Pos

(* The number of slots with a given content is a natural number.           *)
LEMMA CountType ==
  ASSUME NEW n \in Nat, NEW s \in Tables(n), NEW x
  PROVE  /\ Count(s, x) \in Nat
         /\ IsFiniteSet({p \in DOMAIN s : s[p] = x})
         /\ Count(s, x) = 0 <=> \A p \in Pos(n) : s[p] # x
<1>1. DOMAIN s = Pos(n)
  BY DEF Tables
<1>2. IsFiniteSet({p \in DOMAIN s : s[p] = x})
  BY <1>1, PosFinite, FS_Subset
<1>3. /\ Count(s, x) \in Nat
      /\ Count(s, x) = 0 <=> {p \in DOMAIN s : s[p] = x} = {}
  BY <1>2, FS_CardinalityType, FS_EmptySet DEF Count
<1> QED
  BY <1>1, <1>2, <1>3

(* Slots E that did not hold x get it, no other slot changes to or from x. *)
LEMMA CountGain ==
  ASSUME NEW n \in Nat, NEW s \in Tables(n), NEW t \in Tables(n), NEW x,
         NEW E \in SUBSET Pos(n),
         \A p \in E : s[p] # x /\ t[p] = x,
         \A p \in Pos(n) \ E : t[p] = x <=> s[p] = x
  PROVE  Count(t, x) = Count(s, x) + Cardinality(E)
<1> DEFINE S == {p \in DOMAIN s : s[p] = x}
           T == {p \in DOMAIN t : t[p] = x}
<1>1. DOMAIN s = Pos(n) /\ DOMAIN t = Pos(n)
  BY DEF Tables
<1>2. T = S \cup E /\ S \cap E = {}
  BY <1>1
<1>3. IsFiniteSet(S) /\ IsFiniteSet(E)
  BY <1>1, CountType, PosFinite, FS_Subset
<1> HIDE DEF S, T
<1>4. Cardinality(T) = Cardinality(S) + Cardinality(E)
  BY <1>2, <1>3, DisjointUnion
<1> QED
  BY <1>4 DEF Count, S, T

(* What a change of the slot p does to the number of slots that hold x.    *)
LEMMA CountChange ==
  ASSUME NEW n \in Nat, NEW s \in Tables(n), NEW t \in Tables(n), NEW p \in Pos(n),
         \A q \in Pos(n) \ {p} : t[q] = s[q], NEW x
  PROVE  Count(t, x)
           = Count(s, x) + (IF t[p] = x THEN 1 ELSE 0) - (IF s[p] = x THEN 1 ELSE 0)
<1>1. Cardinality({p}) = 1 /\ Cardinality({}) = 0 /\ {p} \in SUBSET Pos(n)
  BY FS_Singleton, FS_EmptySet
<1>2. Count(s, x) \in Nat /\ Count(t, x) \in Nat
  BY CountType
<1>3. CASE t[p] = x /\ s[p] # x
  <2>1. Count(t, x) = Count(s, x) + Cardinality({p})
    BY <1>1, <1>3, CountGain
  <2> QED  BY <1>1, <1>2, <1>3, <2>1
<1>4. CASE t[p] # x /\ s[p] = x
  <2>1. Count(s, x) = Count(t, x) + Cardinality({p})
    BY <1>1, <1>4, CountGain
  <2> QED  BY <1>1, <1>2, <1>4, <2>1
<1>5. CASE (t[p] = x) = (s[p] = x)
  <2>1. Count(t, x) = Count(s, x) + Cardinality({})
    BY <1>1, <1>5, CountGain
  <2> QED  BY <1>1, <1>2, <1>5, <2>1
<1> QED
  BY <1>3, <1>4, <1>5

(* What storing e in the slot p does to it.                                *)
LEMMA CountStore ==
  ASSUME NEW n \in Nat, NEW s \in Tables(n), NEW p \in Pos(n), NEW e \in Slot, NEW x
  PROVE  /\ [s EXCEPT ![p] = e] \in Tables(n)
         /\ Count([s EXCEPT ![p] = e], x)
              = Count(s, x) + (IF e = x THEN 1 ELSE 0) - (IF s[p] = x THEN 1 ELSE 0)
<1> DEFINE t == [s EXCEPT ![p] = e]
<1>1. t \in Tables(n) /\ t[p] = e /\ \A q \in Pos(n) \ {p} : t[q] = s[q]
  BY DEF Tables
<1> HIDE DEF t
<1>2. Count(t, x) = Count(s, x) + (IF e = x THEN 1 ELSE 0) - (IF s[p] = x THEN 1 ELSE 0)
  BY <1>1, CountChange
<1> QED
  BY <1>1, <1>2 DEF t

(* A fresh table has nothing but empty slots.                              *)
LEMMA CountFresh ==
  ASSUME NEW n \in Nat, NEW s, s = [p \in Pos(n) |-> Empty]
  PROVE  /\ s \in Tables(n)
         /\ Count(s, Empty) = n * KernelSize
         /\ \A x : x # Empty => Count(s, x) = 0
<1>1. s \in Tables(n)
  BY DEF Tables, Slot
<1>2. {p \in DOMAIN s : s[p] = Empty} = Pos(n)
  OBVIOUS
<1>3. ASSUME NEW x, x # Empty PROVE Count(s, x) = 0
  <2>1. \A p \in Pos(n) : s[p] # x
    BY <1>3
  <2> QED  BY <1>1, <2>1, CountType
<1> QED
  BY <1>1, <1>2, <1>3, PosFinite DEF Count

-----------------------------------------------------------------------------
(* What the steps do to the slots.                                         *)

(* A hit: only counts change.                                              *)
Hits == pc = "ready" /\ UNCHANGED <<nbuckets, slots, num_empty, pc, rehash>>

Stores(p, e, ne) ==
  /\ pc = "ready" /\ slots' = [slots EXCEPT ![p] = e]
  /\ num_empty' = ne /\ UNCHANGED <<nbuckets, pc, rehash>>

(* An entry gets another value.                                            *)
Overwrites ==
  \E k \in Keys, v \in Values, p \in HashPos(slots) :
    slots[p][1] = k /\ Stores(p, <<k, v>>, num_empty)

(* An insertion takes an empty slot, or one that is not empty.             *)
Inserts ==
  \E k \in Keys, v \in Values, p \in Pos(nbuckets) :
    \/ InsertTakes(k, p) /\ Stores(p, <<k, v>>, num_empty - 1)
    \/ InsertReplaces(k, p) /\ Stores(p, <<k, v>>, num_empty)

Erases == pc = "ready" /\ \E P \in SUBSET HashPos(slots) : EraseSlots(P)

Resizes == pc = "ready" /\ \E end : StartResize(end)

Clears == \E n : ClearTo(n)

(* There is no other step.                                                 *)
LEMMA CallCases ==
  ASSUME TypeOK, [Next]_vars
  PROVE  \/ Hits \/ Overwrites \/ Inserts \/ Erases \/ Resizes \/ Clears
         \/ RehashEntry \/ FinishResize \/ UNCHANGED vars
<1>1. CASE \/ \E k \in Keys : FindFirst(k)
           \/ \E k \in Keys, p \in Pos(nbuckets) : FindNext(k, p)
           \/ \E p \in Pos(nbuckets) : FindIf(p)
           \/ \E p, q \in Pos(nbuckets) : OverlappingFinds(p, q)
  <2>1. Hits
    BY <1>1 DEF FindFirst, FindNext, FindIf, OverlappingFinds, Return, Hits, Ready
  <2> QED  BY <2>1
<1>2. ASSUME NEW k, NEW p \in Pos(nbuckets), LowestIn(KeyPos(slots, k), Home(k, nbuckets), p)
      PROVE  p \in HashPos(slots) /\ slots[p][1] = k
  BY <1>2 DEF LowestIn, In, KeyPos, HashPos
<1>3. ASSUME NEW k \in Keys, NEW v \in Values, Update(k, v) PROVE Overwrites
  BY <1>2, <1>3 DEF Update, Return, Overwrites, Stores, Ready
<1>4. ASSUME NEW k \in Keys, NEW v \in Values, Insert(k, v) PROVE Overwrites \/ Inserts
  <2>1. PICK p \in Pos(nbuckets) :
          LET s == [slots EXCEPT ![p] = <<k, v>>]
              l == [lrus EXCEPT ![p] = default_lru]
          IN  \/ InsertFinds(k, p) /\ Return(s, update_lru(lrus, p), num_empty)
              \/ InsertTakes(k, p) /\ Return(s, l, num_empty - 1)
              \/ InsertReplaces(k, p) /\ Return(s, l, num_empty)
    BY <1>4 DEF Insert
  <2>2. pc = "ready"
    BY <1>4 DEF Insert, Ready
  <2>3. CASE InsertFinds(k, p) /\ Stores(p, <<k, v>>, num_empty)
    BY <1>2, <2>3 DEF InsertFinds, Overwrites
  <2>4. CASE \/ InsertTakes(k, p) /\ Stores(p, <<k, v>>, num_empty - 1)
             \/ InsertReplaces(k, p) /\ Stores(p, <<k, v>>, num_empty)
    BY <2>4 DEF Inserts
  <2> QED  BY <2>1, <2>2, <2>3, <2>4 DEF Return, Stores
<1>5. CASE \/ \E k \in Keys : EraseFirst(k) \/ EraseAll(k)
           \/ \E k \in Keys, p \in Pos(nbuckets) : EraseNext(k, p)
           \/ \E p \in Pos(nbuckets) : EraseAt(p)
           \/ \E P \in SUBSET HashPos(slots) : EraseIf(P)
           \/ \E t \in Lru : Scrub(t)
  <2>1. \A k, b : In(KeyPos(slots, k), b) \subseteq HashPos(slots)
    BY DEF KeyPos, HashPos, In
  <2>2. \A k \in Keys : EraseFirst(k) => Erases
    BY <1>2 DEF EraseFirst, Ready, Erases
  <2>3. \A k \in Keys : EraseAll(k) => Erases
    BY <2>1 DEF EraseAll, Ready, Erases
  <2>4. \A k \in Keys, p \in Pos(nbuckets) : EraseNext(k, p) => Erases
    <3> SUFFICES ASSUME NEW k \in Keys, NEW p \in Pos(nbuckets), EraseNext(k, p)
                 PROVE  Erases
      OBVIOUS
    <3>1. PICK q \in Pos(nbuckets) :
            /\ LowestIn({r \in KeyPos(slots, k) : r[2] > p[2]}, p[1], q)
            /\ EraseSlots({q})
      BY DEF EraseNext
    <3>2. q \in HashPos(slots)
      BY <3>1 DEF LowestIn, In, KeyPos, HashPos
    <3> QED  BY <3>1, <3>2 DEF EraseNext, Ready, Erases
  <2>5. \A p \in Pos(nbuckets) : EraseAt(p) => Erases
    BY DEF EraseAt, Ready, Erases
  <2>6. \A P \in SUBSET HashPos(slots) : EraseIf(P) => Erases
    BY DEF EraseIf, Ready, Erases
  <2>7. \A t \in Lru : Scrub(t) => Erases
    BY DEF Scrub, Ready, Below, Erases
  <2> QED  BY <1>5, <2>2, <2>3, <2>4, <2>5, <2>6, <2>7
<1>6. CASE (\E n \in Requests : Resize(n) \/ Reserve(n)) \/ Grow \/ Shrink
  <2>1. Resizes
    BY <1>6 DEF Resize, Reserve, Grow, Shrink, Ready, Resizes
  <2> QED  BY <2>1
<1>7. CASE (\E n \in Requests : ClearCapacity(n)) \/ Clear
  BY <1>7 DEF ClearCapacity, Clear, Clears
<1> QED
  BY <1>1, <1>3, <1>4, <1>5, <1>6, <1>7, Zenon DEF Next

(* The shape of a step of a resize.                                        *)
LEMMA RehashCases ==
  ASSUME TypeOK, RehashEntry
  PROVE  /\ pc = "resize" /\ UNCHANGED <<nbuckets, num_empty, pc, old, old_lrus>>
         /\ \E p \in todo, q \in Pos(nbuckets) :
              /\ old[p] \in Entry /\ todo' = todo \ {p}
              /\ \/ slots[q] = Empty /\ Rehash(p, q, 1)
                 \/ slots[q] \in Entry /\ Rehash(p, q, 0)
                 \/ UNCHANGED <<slots, num_insert>>
<1>1. PICK p \in todo, q \in Pos(nbuckets) :
        LET b == Home(old[p][1], nbuckets)
        IN  /\ todo' = todo \ {p}
            /\ \/ LowestIn(EmptyPos(slots), b, q) /\ Rehash(p, q, 1)
               \/ /\ In(EmptyPos(slots), b) = {}
                  /\ Coldest(lrus, b, q)
                  /\ \/ PutAside(p, q) /\ UNCHANGED <<slots, lrus, num_insert>>
                     \/ ~PutAside(p, q) /\ Rehash(p, q, 0)
  BY DEF RehashEntry
<1>2. pc = "resize" /\ UNCHANGED <<nbuckets, num_empty, pc, old, old_lrus>>
  BY DEF RehashEntry
<1>3. old[p] \in Entry
  <2>1. p \in HashPos(old) /\ \E n \in 0 .. MaxBuckets : old \in [Pos(n) -> Slot]
    BY <1>2 DEF TypeOK
  <2> QED  BY <2>1 DEF HashPos, IsHash, Slot
<1>4. slots[q] \in Slot
  BY DEF TypeOK
<1>5. \A b : LowestIn(EmptyPos(slots), b, q) => slots[q] = Empty
  BY DEF LowestIn, In, EmptyPos
<1>6. ASSUME NEW b, In(EmptyPos(slots), b) = {}, Coldest(lrus, b, q)
      PROVE  slots[q] \in Entry
  <2>1. q[1] = b /\ q \in DOMAIN slots
    BY <1>6 DEF Coldest, TypeOK
  <2> QED  BY <1>4, <1>6, <2>1 DEF In, EmptyPos, Slot
<1> QED
  BY <1>1, <1>2, <1>3, <1>5, <1>6

-----------------------------------------------------------------------------
(* The counter of empty slots.                                             *)

(* What FreshTable says, and the counts of the table.                      *)
LEMMA FreshCounts ==
  ASSUME NEW n, Allocate(n)
  PROVE  /\ nbuckets' \in Nat /\ num_empty' = Count(slots', Empty)
         /\ num_empty' \in Nat
         /\ \A e \in Entry : Count(slots', e) = 0
<1>1. n \in Nat /\ nbuckets' = n /\ slots' = [p \in Pos(n) |-> Empty]
      /\ num_empty' = n * KernelSize
  BY CacheAssumption DEF Allocate
<1>2. /\ Count(slots', Empty) = n * KernelSize
      /\ \A x : x # Empty => Count(slots', x) = 0
  BY <1>1, CountFresh
<1>3. n * KernelSize \in Nat
  BY <1>1, CacheAssumption
<1> QED
  BY <1>1, <1>2, <1>3, CacheAssumption

(* The empty slots of a table that loses the entries at P.                 *)
LEMMA EraseCounts ==
  ASSUME TypeOK, NEW P \in SUBSET HashPos(slots), EraseSlots(P)
  PROVE  Count(slots', Empty) = Count(slots, Empty) + Cardinality(P)
<1>1. nbuckets \in Nat /\ slots \in Tables(nbuckets)
  BY DEF TypeOK, Tables
<1>2. slots' = [p \in Pos(nbuckets) |-> IF p \in P THEN Empty ELSE slots[p]]
  BY DEF EraseSlots
<1>3. slots' \in Tables(nbuckets) /\ P \in SUBSET Pos(nbuckets)
  BY <1>1, <1>2 DEF Tables, Slot, HashPos
<1>4. \A p \in P : slots[p] # Empty /\ slots'[p] = Empty
  BY <1>2, <1>3 DEF HashPos, IsHash
<1>5. \A p \in Pos(nbuckets) \ P : slots'[p] = slots[p]
  BY <1>2
<1> QED
  BY <1>1, <1>3, <1>4, <1>5, CountGain

(* Every way to change an empty slot is counted.                           *)
LEMMA NumEmptyNext ==
  ASSUME NumEmptyExact, TypeOK', [Next]_vars
  PROVE  NumEmptyExact'
<1> DEFINE c == Count(slots, Empty)
<1>1. /\ TypeOK /\ nbuckets \in Nat /\ slots \in Tables(nbuckets)
      /\ num_insert \in Int
  BY DEF NumEmptyExact, TypeOK, Tables
<1>2. c \in Nat
  BY <1>1, CountType
<1>3. num_empty = c + (IF pc = "resize" THEN num_insert ELSE 0)
  BY DEF NumEmptyExact, Count, EmptyPos
<1> HIDE DEF c
<1>4. SUFFICES num_empty' = Count(slots', Empty)
                            + (IF pc' = "resize" THEN num_insert' ELSE 0)
  BY DEF NumEmptyExact, Count, EmptyPos
<1>5. CASE Hits
  BY <1>3, <1>5 DEF Hits, rehash, c
<1>6. CASE Overwrites
  <2>1. PICK k \in Keys, v \in Values, p \in HashPos(slots) :
          Stores(p, <<k, v>>, num_empty)
    BY <1>6 DEF Overwrites
  <2>2. /\ p \in Pos(nbuckets) /\ slots[p] # Empty
        /\ <<k, v>> \in Slot /\ <<k, v>> # Empty
    BY <1>1, CacheAssumption DEF HashPos, IsHash, Tables, Entry, Slot
  <2>3. Count([slots EXCEPT ![p] = <<k, v>>], Empty) = c
    BY <1>1, <1>2, <2>2, CountStore DEF c
  <2> QED  BY <1>2, <1>3, <2>1, <2>3 DEF Stores, rehash
<1>7. CASE Inserts
  <2>1. PICK k \in Keys, v \in Values, p \in Pos(nbuckets) :
          \/ InsertTakes(k, p) /\ Stores(p, <<k, v>>, num_empty - 1)
          \/ InsertReplaces(k, p) /\ Stores(p, <<k, v>>, num_empty)
    BY <1>7 DEF Inserts
  <2>2. <<k, v>> \in Slot /\ <<k, v>> # Empty
    BY CacheAssumption DEF Entry, Slot
  <2>3. Count([slots EXCEPT ![p] = <<k, v>>], Empty)
          = c - (IF slots[p] = Empty THEN 1 ELSE 0)
    BY <1>1, <1>2, <2>2, CountStore DEF c
  <2>4. CASE InsertTakes(k, p) /\ Stores(p, <<k, v>>, num_empty - 1)
    <3>1. slots[p] = Empty
      BY <2>4 DEF InsertTakes, LowestIn, In, EmptyPos
    <3> QED  BY <1>2, <1>3, <2>3, <2>4, <3>1 DEF Stores, rehash
  <2>5. CASE InsertReplaces(k, p) /\ Stores(p, <<k, v>>, num_empty)
    <3>1. slots[p] # Empty
      BY <1>1, <2>5 DEF InsertReplaces, In, EmptyPos, Coldest, Tables
    <3> QED  BY <1>2, <1>3, <2>3, <2>5, <3>1 DEF Stores, rehash
  <2> QED  BY <2>1, <2>4, <2>5
<1>8. CASE Erases
  <2>1. PICK P \in SUBSET HashPos(slots) : EraseSlots(P)
    BY <1>8 DEF Erases
  <2>2. Count(slots', Empty) = c + Cardinality(P)
    BY <1>1, <2>1, EraseCounts DEF c
  <2> QED  BY <1>2, <1>3, <1>8, <2>1, <2>2 DEF Erases, EraseSlots
<1>9. CASE Resizes
  <2>1. PICK end : StartResize(end)
    BY <1>9 DEF Resizes
  <2>2. CASE UNCHANGED vars
    BY <1>3, <2>2 DEF vars, table, rehash, c
  <2>3. CASE Allocate(end \div KernelSize) /\ num_insert' = 0
    <3>1. num_empty' = Count(slots', Empty) /\ num_empty' \in Nat
      BY <2>3, FreshCounts
    <3> QED  BY <2>3, <3>1
  <2> QED  BY <2>1, <2>2, <2>3 DEF StartResize
<1>10. CASE Clears
  <2>1. PICK n : ClearTo(n)
    BY <1>10 DEF Clears
  <2>2. num_empty' = Count(slots', Empty) /\ num_empty' \in Nat /\ pc' # "resize"
    BY <2>1, FreshCounts DEF ClearTo, Ready
  <2> QED  BY <2>2
<1>11. CASE RehashEntry
  <2>1. /\ pc = "resize" /\ UNCHANGED <<nbuckets, num_empty, pc, old, old_lrus>>
        /\ \E p \in todo, q \in Pos(nbuckets) :
             /\ old[p] \in Entry
             /\ \/ slots[q] = Empty /\ Rehash(p, q, 1)
                \/ slots[q] \in Entry /\ Rehash(p, q, 0)
                \/ UNCHANGED <<slots, num_insert>>
    BY <1>1, <1>11, RehashCases
  <2>2. PICK p \in todo, q \in Pos(nbuckets) :
          /\ old[p] \in Entry
          /\ \/ slots[q] = Empty /\ Rehash(p, q, 1)
             \/ slots[q] \in Entry /\ Rehash(p, q, 0)
             \/ UNCHANGED <<slots, num_insert>>
    BY <2>1
  <2> DEFINE e == old[p]
  <2>3. e \in Slot /\ e # Empty
    BY <2>2, CacheAssumption DEF Slot
  <2>4. ASSUME NEW taken, Rehash(p, q, taken)
        PROVE  slots' = [slots EXCEPT ![q] = e] /\ num_insert' = num_insert + taken
    BY <2>4 DEF Rehash
  <2> HIDE DEF e
  <2>5. Count([slots EXCEPT ![q] = e], Empty) = c - (IF slots[q] = Empty THEN 1 ELSE 0)
    BY <1>1, <1>2, <2>3, CountStore DEF c
  <2>6. CASE slots[q] = Empty /\ Rehash(p, q, 1)
    BY <1>1, <1>2, <1>3, <2>1, <2>4, <2>5, <2>6
  <2>7. CASE slots[q] \in Entry /\ Rehash(p, q, 0)
    BY <1>1, <1>2, <1>3, <2>1, <2>4, <2>5, <2>7, CacheAssumption
  <2>8. CASE UNCHANGED <<slots, num_insert>>
    BY <1>3, <2>1, <2>8 DEF c
  <2> QED  BY <2>2, <2>6, <2>7, <2>8
<1>12. CASE FinishResize
  BY <1>1, <1>2, <1>3, <1>12 DEF FinishResize, c
<1>13. CASE UNCHANGED vars
  BY <1>3, <1>13 DEF vars, table, rehash, c
<1> QED
  BY <1>1, <1>5, <1>6, <1>7, <1>8, <1>9, <1>10, <1>11, <1>12, <1>13, CallCases

(* num_empty_ is the number of empty slots, whichever replacements,        *)
(* erasures, scrubs, clears and resizes came before.                       *)
THEOREM EmptyCounted == Spec => []NumEmptyExact
<1>1. Init => NumEmptyExact
  <2> SUFFICES ASSUME Init PROVE NumEmptyExact
    OBVIOUS
  <2>1. TypeOK /\ nbuckets \in Nat
    BY InitInv DEF IInv, TypeOK
  <2>2. slots = [p \in Pos(nbuckets) |-> Empty] /\ num_empty = nbuckets * KernelSize
        /\ pc = "ready"
    BY DEF Init
  <2>3. Count(slots, Empty) = nbuckets * KernelSize /\ nbuckets * KernelSize \in Nat
    BY <2>1, <2>2, CountFresh, CacheAssumption
  <2> QED  BY <2>1, <2>2, <2>3 DEF NumEmptyExact, Count, EmptyPos
<1>2. IInv => TypeOK
  BY DEF IInv
<1>3. NumEmptyExact /\ TypeOK' /\ [Next]_vars => NumEmptyExact'
  BY NumEmptyNext
<1> QED  BY <1>1, <1>2, <1>3, CacheInvariant, PTL DEF Spec

-----------------------------------------------------------------------------
(* The cache implements the lossy dictionary.                              *)

(* The entries e that a resize has still to move.                          *)
Left(e) == {p \in todo : old[p] = e}

(* The content between operations.                                         *)
LEMMA ReadyContent ==
  ASSUME TypeOK, pc = "ready", NEW e \in Entry
  PROVE  content[e] = Count(slots, e) /\ content[e] \in Nat
<1>1. nbuckets \in Nat /\ slots \in Tables(nbuckets) /\ todo = {}
  BY DEF TypeOK, Tables
<1>2. Count(slots, e) \in Nat
  BY <1>1, CountType
<1>3. Cardinality({p \in todo : old[p] = e}) = 0
  BY <1>1, FS_EmptySet
<1>4. content[e] = Count(slots, e) + Cardinality({p \in todo : old[p] = e})
  BY DEF content, Count
<1> QED
  BY <1>2, <1>3, <1>4

(* The content during a resize.                                            *)
LEMMA BusyContent ==
  ASSUME TypeOK, NEW e \in Entry
  PROVE  /\ content[e] = Count(slots, e) + Cardinality(Left(e))
         /\ Count(slots, e) \in Nat /\ Cardinality(Left(e)) \in Nat
         /\ IsFiniteSet(todo)
<1>1. nbuckets \in Nat /\ slots \in Tables(nbuckets)
  BY DEF TypeOK, Tables
<1>2. IsFiniteSet(todo)
  <2>1. PICK n \in 0 .. MaxBuckets : old \in [Pos(n) -> Slot]
    BY DEF TypeOK
  <2>2. todo \subseteq Pos(n)
    BY <2>1 DEF TypeOK, HashPos
  <2> QED  BY <2>2, PosFinite, FS_Subset
<1>3. Left(e) \subseteq todo
  BY DEF Left
<1>4. Cardinality(Left(e)) \in Nat
  BY <1>2, <1>3, FS_Subset, FS_CardinalityType
<1> QED
  BY <1>1, <1>2, <1>4, CountType DEF content, Count, Left

(* What changes entry by entry, as the lossy dictionary says it: nothing.  *)
LEMMA SameContent ==
  ASSUME \A e \in Entry : content'[e] = content[e]
  PROVE  content' = content
BY DEF content

(* An entry more.                                                          *)
LEMMA PutContent ==
  ASSUME NEW f \in Entry, L!Store(f), \A e \in Entry : content[e] \in Nat,
         \A e \in Entry : content'[e] = content[e] + (IF e = f THEN 1 ELSE 0)
  PROVE  L!Put(f)
<1>1. content' = [e \in Entry |-> content'[e]] /\ content = [e \in Entry |-> content[e]]
  BY DEF content
<1>2. content' = L!With(content, f)
  BY <1>1 DEF L!With
<1> QED
  BY <1>2 DEF L!Put

(* An entry for another.                                                   *)
LEMMA SwapContent ==
  ASSUME NEW f \in Entry, NEW d \in Entry, \A e \in Entry : content[e] \in Nat,
         \A e \in Entry : content'[e] =
           content[e] + (IF e = f THEN 1 ELSE 0) - (IF e = d THEN 1 ELSE 0)
  PROVE  content' = L!With(L!Without(content, d), f)
<1> DEFINE c == L!Without(content, d)
<1>1. content' = [e \in Entry |-> content'[e]] /\ content = [e \in Entry |-> content[e]]
  BY DEF content
<1>2. /\ c = [e \in Entry |-> c[e]]
      /\ \A e \in Entry : c[e] = content[e] - (IF e = d THEN 1 ELSE 0)
  BY <1>1 DEF L!Without
<1> HIDE DEF c
<1>3. L!With(c, f) = [e \in Entry |-> c[e] + (IF e = f THEN 1 ELSE 0)]
  BY <1>2 DEF L!With
<1>4. \A e \in Entry : content'[e] = c[e] + (IF e = f THEN 1 ELSE 0)
  BY <1>2
<1> QED
  BY <1>1, <1>3, <1>4 DEF c

(* An entry less.                                                          *)
LEMMA ForgetContent ==
  ASSUME NEW d \in Entry, \A e \in Entry : content[e] \in Nat, content[d] > 0,
         \A e \in Entry : content'[e] = content[e] - (IF e = d THEN 1 ELSE 0)
  PROVE  L!Forget(d)
<1>1. content' = [e \in Entry |-> content'[e]] /\ content = [e \in Entry |-> content[e]]
  BY DEF content
<1> QED
  BY <1>1 DEF L!Forget, L!Without

(* Entries are removed.                                                    *)
LEMMA RemoveContent ==
  ASSUME \A e \in Entry : content'[e] \in Nat /\ content'[e] <= content[e]
  PROVE  L!Remove
<1>1. content' = [e \in Entry |-> content'[e]]
  BY DEF content
<1> QED
  BY <1>1 DEF L!Remove, L!Entry, Entry

(* What storing an entry does to the content between operations.           *)
LEMMA StoreContent ==
  ASSUME TypeOK, NEW p \in Pos(nbuckets), NEW f \in Entry, NEW ne, Stores(p, f, ne),
         NEW e \in Entry
  PROVE  content'[e] = content[e] + (IF e = f THEN 1 ELSE 0)
                                  - (IF e = slots[p] THEN 1 ELSE 0)
<1>1. nbuckets \in Nat /\ slots \in Tables(nbuckets) /\ f \in Slot /\ pc = "ready"
  BY DEF TypeOK, Tables, Slot, Stores
<1>2. /\ [slots EXCEPT ![p] = f] \in Tables(nbuckets)
      /\ Count([slots EXCEPT ![p] = f], e)
           = Count(slots, e) + (IF f = e THEN 1 ELSE 0) - (IF slots[p] = e THEN 1 ELSE 0)
  BY <1>1, CountStore
<1>3. slots' = [slots EXCEPT ![p] = f] /\ todo' = {}
  BY <1>1 DEF Stores, rehash, TypeOK
<1>4. content[e] = Count(slots, e) /\ content[e] \in Nat
  BY <1>1, ReadyContent
<1>5. content'[e] = Count(slots', e)
  <2>1. {p_1 \in todo' : old'[p_1] = e} = {}
    BY <1>3
  <2>2. Cardinality({p_1 \in todo' : old'[p_1] = e}) = 0
    BY <2>1, FS_EmptySet
  <2>3. Count([slots EXCEPT ![p] = f], e) \in Nat
    BY <1>1, <1>2, CountType
  <2>4. Count(slots', e) \in Nat
    BY <1>3, <2>3
  <2>5. content'[e] = Count(slots', e) + Cardinality({p_1 \in todo' : old'[p_1] = e})
    BY DEF content, Count
  <2> QED  BY <2>2, <2>4, <2>5
<1> QED
  BY <1>2, <1>3, <1>4, <1>5

(* Overwriting an entry is one of its steps between operations.            *)
LEMMA OverwriteActs ==
  ASSUME TypeOK, Overwrites
  PROVE  L!Act
<1>1. PICK k \in Keys, v \in Values, p \in HashPos(slots) :
        slots[p][1] = k /\ Stores(p, <<k, v>>, num_empty)
  BY DEF Overwrites
<1> DEFINE f == <<k, v>>
           w == slots[p][2]
<1>2. nbuckets \in Nat /\ slots \in Tables(nbuckets) /\ pc = "ready" /\ pc' = "ready"
  BY <1>1 DEF TypeOK, Tables, Stores
<1>3. /\ p \in Pos(nbuckets) /\ slots[p] \in Entry
      /\ f \in Entry /\ w \in Values /\ slots[p] = <<k, w>> /\ f[1] = k
  BY <1>1, <1>2 DEF HashPos, IsHash, Tables, Slot, Entry
<1> HIDE DEF f, w
<1>4. \A e \in Entry : content[e] = Count(slots, e) /\ content[e] \in Nat
  BY <1>2, ReadyContent
<1>5. \A e \in Entry : content'[e] = content[e] + (IF e = f THEN 1 ELSE 0)
                                                - (IF e = <<k, w>> THEN 1 ELSE 0)
  BY <1>1, <1>3, StoreContent DEF f
<1>6. content[<<k, w>>] > 0
  <2>1. Count(slots, <<k, w>>) # 0
    BY <1>2, <1>3, CountType
  <2> QED  BY <1>3, <1>4, <2>1
<1>7. content' = L!With(L!Without(content, <<k, w>>), f)
  BY <1>3, <1>4, <1>5, SwapContent
<1>8. L!Overwrite(f)
  BY <1>3, <1>6, <1>7 DEF L!Overwrite
<1> QED
  BY <1>2, <1>3, <1>8 DEF L!Act, L!Entry, Entry

(* So is an insertion.                                                     *)
LEMMA InsertActs ==
  ASSUME TypeOK, EntriesAtHome, Inserts
  PROVE  L!Act
<1>1. PICK k \in Keys, v \in Values, p \in Pos(nbuckets) :
        \/ InsertTakes(k, p) /\ Stores(p, <<k, v>>, num_empty - 1)
        \/ InsertReplaces(k, p) /\ Stores(p, <<k, v>>, num_empty)
  BY DEF Inserts
<1> DEFINE f == <<k, v>>
<1>2. /\ nbuckets \in Nat /\ slots \in Tables(nbuckets)
      /\ pc = "ready" /\ pc' = "ready" /\ f \in Entry /\ f[1] = k
  BY <1>1 DEF TypeOK, Tables, Stores, Entry
<1>3. \E ne : Stores(p, f, ne)
  BY <1>1
<1>4. slots[p] = Empty \/ slots[p] \in Entry
  BY <1>1, <1>2 DEF Tables, Slot
<1>5. slots[p] \notin Entry \/ slots[p] \in Entry
  OBVIOUS
<1> HIDE DEF f
<1>6. \A e \in Entry : content[e] = Count(slots, e) /\ content[e] \in Nat
  BY <1>2, ReadyContent
<1>7. \A e \in Entry : content'[e] = content[e] + (IF e = f THEN 1 ELSE 0)
                                                - (IF e = slots[p] THEN 1 ELSE 0)
  BY <1>2, <1>3, StoreContent
<1>8. L!Store(f)
  <2> SUFFICES ASSUME ~Duplicates, NEW u \in Values PROVE content[<<k, u>>] = 0
    BY <1>2 DEF L!Store
  <2>1. In(KeyPos(slots, k), Home(k, nbuckets)) = {}
    BY <1>1 DEF InsertTakes, InsertReplaces, InsertMisses
  <2>2. KeyPos(slots, k) = {}
    BY <2>1 DEF In, KeyPos, EntriesAtHome, HashPos
  <2>3. <<k, u>> \in Entry /\ <<k, u>> # Empty /\ <<k, u>>[1] = k
    BY CacheAssumption DEF Entry
  <2>4. \A q \in Pos(nbuckets) : slots[q] # <<k, u>>
    BY <1>2, <2>2, <2>3 DEF KeyPos, IsHash, Tables
  <2>5. Count(slots, <<k, u>>) = 0
    BY <1>2, <2>4, CountType
  <2> QED  BY <1>6, <2>3, <2>5
<1>9. CASE slots[p] = Empty
  <2>1. \A e \in Entry : e # slots[p]
    BY <1>9, CacheAssumption
  <2>2. \A e \in Entry : content'[e] = content[e] + (IF e = f THEN 1 ELSE 0)
    BY <1>6, <1>7, <2>1
  <2>3. L!Put(f)
    BY <1>2, <1>6, <1>8, <2>2, PutContent
  <2> QED  BY <1>2, <2>3 DEF L!Act, L!Entry, Entry
<1>10. CASE slots[p] \in Entry
  <2>1. content[slots[p]] > 0
    <3>1. Count(slots, slots[p]) # 0
      BY <1>2, CountType
    <3> QED  BY <1>6, <1>10, <3>1
  <2>2. content' = L!With(L!Without(content, slots[p]), f)
    BY <1>2, <1>6, <1>7, <1>10, SwapContent
  <2>3. L!Put(f)
    BY <1>8, <1>10, <2>1, <2>2 DEF L!Put, L!Entry, Entry
  <2> QED  BY <1>2, <2>3 DEF L!Act, L!Entry, Entry
<1> QED
  BY <1>4, <1>9, <1>10

(* So are erasures and scrubs.                                             *)
LEMMA EraseActs ==
  ASSUME TypeOK, Erases
  PROVE  L!Act
<1>1. PICK P \in SUBSET HashPos(slots) : EraseSlots(P)
  BY DEF Erases
<1>2. /\ nbuckets \in Nat /\ slots \in Tables(nbuckets) /\ todo' = {}
      /\ pc = "ready" /\ pc' = "ready"
      /\ slots' = [p \in Pos(nbuckets) |-> IF p \in P THEN Empty ELSE slots[p]]
  BY <1>1 DEF TypeOK, Tables, Erases, EraseSlots, rehash
<1>3. slots' \in Tables(nbuckets) /\ DOMAIN slots = Pos(nbuckets)
  BY <1>2 DEF Tables, Slot
<1>4. ASSUME NEW e \in Entry
      PROVE  content'[e] \in Nat /\ content'[e] <= content[e]
  <2>1. content[e] = Count(slots, e) /\ content[e] \in Nat
    BY <1>2, ReadyContent
  <2>2. content'[e] = Count(slots', e) /\ content'[e] \in Nat
    <3>1. Count(slots', e) \in Nat
      BY <1>2, <1>3, CountType
    <3>2. Cardinality({p \in todo' : old'[p] = e}) = 0
      BY <1>2, FS_EmptySet
    <3>3. content'[e] = Count(slots', e) + Cardinality({p \in todo' : old'[p] = e})
      BY DEF content, Count
    <3> QED  BY <3>1, <3>2, <3>3
  <2>3. {p \in DOMAIN slots' : slots'[p] = e} \subseteq {p \in DOMAIN slots : slots[p] = e}
    BY <1>2, <1>3, CacheAssumption DEF Tables
  <2>4. IsFiniteSet({p \in DOMAIN slots : slots[p] = e})
    BY <1>2, CountType
  <2>5. Count(slots', e) <= Count(slots, e)
    BY <2>3, <2>4, FS_Subset DEF Count
  <2> QED  BY <2>1, <2>2, <2>5
<1>5. L!Remove
  BY <1>4, RemoveContent
<1> QED
  BY <1>2, <1>5 DEF L!Act

(* So is clearing.                                                         *)
LEMMA ClearActs ==
  ASSUME TypeOK, Clears
  PROVE  L!Act
<1>1. PICK n : ClearTo(n)
  BY DEF Clears
<1>2. /\ pc = "ready" /\ pc' = "ready" /\ todo' = {}
      /\ Allocate(n \div KernelSize)
  BY <1>1 DEF ClearTo, Ready, TypeOK, rehash
<1>3. \A e \in Entry : Count(slots', e) = 0
  BY <1>2, FreshCounts
<1>4. ASSUME NEW e \in Entry
      PROVE  content'[e] \in Nat /\ content'[e] <= content[e]
  <2>1. content[e] \in Nat
    BY <1>2, ReadyContent
  <2>2. Cardinality({p \in todo' : old'[p] = e}) = 0
    BY <1>2, FS_EmptySet
  <2>3. content'[e] = Count(slots', e) + Cardinality({p \in todo' : old'[p] = e})
    BY DEF content, Count
  <2>4. content'[e] = 0
    BY <1>3, <2>2, <2>3
  <2> QED  BY <2>1, <2>4
<1>5. L!Remove
  BY <1>4, RemoveContent
<1> QED
  BY <1>2, <1>5 DEF L!Act

(* A resize that begins has everything still to move.                      *)
LEMMA ResizeBegins ==
  ASSUME TypeOK, Resizes
  PROVE  L!Begin \/ UNCHANGED L!vars
<1>1. PICK end : StartResize(end)
  BY DEF Resizes
<1>2. CASE UNCHANGED vars
  BY <1>2 DEF vars, table, rehash, content, L!vars
<1>3. CASE /\ Allocate(end \div KernelSize) /\ old' = slots
           /\ todo' = HashPos(slots) /\ pc' = "resize"
  <2>1. pc = "ready" /\ nbuckets \in Nat /\ slots \in Tables(nbuckets)
    BY DEF Resizes, TypeOK, Tables
  <2>2. ASSUME NEW e \in Entry PROVE content'[e] = content[e]
    <3>1. content[e] = Count(slots, e) /\ content[e] \in Nat
      BY <2>1, ReadyContent
    <3>2. Count(slots', e) = 0
      BY <1>3, FreshCounts
    <3>3. {p \in todo' : old'[p] = e} = {p \in DOMAIN slots : slots[p] = e}
      BY <1>3, CacheAssumption DEF HashPos, IsHash
    <3>4. content'[e] = Count(slots', e) + Cardinality({p \in todo' : old'[p] = e})
      BY DEF content, Count
    <3>5. content'[e] = 0 + Count(slots, e)
      BY <3>2, <3>3, <3>4 DEF Count
    <3> QED  BY <3>1, <3>5
  <2>3. content' = content
    BY <2>2, SameContent
  <2> QED  BY <1>3, <2>1, <2>3 DEF L!Begin
<1> QED
  BY <1>1, <1>2, <1>3 DEF StartResize

(* A step of a resize moves an entry, or drops the one that it visits or   *)
(* the one that it replaces.                                               *)
LEMMA RehashWorks ==
  ASSUME TypeOK, TypeOK', RehashEntry
  PROVE  L!Work
<1>1. /\ pc = "resize" /\ pc' = "resize" /\ UNCHANGED <<nbuckets, old>>
      /\ nbuckets \in Nat /\ slots \in Tables(nbuckets)
  BY RehashCases DEF TypeOK, Tables
<1>2. PICK p \in todo, q \in Pos(nbuckets) :
        /\ old[p] \in Entry /\ todo' = todo \ {p}
        /\ \/ slots[q] = Empty /\ Rehash(p, q, 1)
           \/ slots[q] \in Entry /\ Rehash(p, q, 0)
           \/ UNCHANGED <<slots, num_insert>>
  BY RehashCases
<1> DEFINE f == old[p]
           c == [e \in Entry |-> Count(slots, e)]
<1>3. f \in Entry /\ f \in Slot
  BY <1>2 DEF Slot
<1>4. ASSUME NEW e \in Entry
      PROVE  /\ content[e] = c[e] + Cardinality(Left(e))
             /\ content'[e] = Count(slots', e) + Cardinality(Left(e)')
             /\ c[e] \in Nat /\ Count(slots', e) \in Nat
             /\ Cardinality(Left(e)) \in Nat /\ Cardinality(Left(e)') \in Nat
  <2>1. /\ content[e] = Count(slots, e) + Cardinality(Left(e))
        /\ Count(slots, e) \in Nat /\ Cardinality(Left(e)) \in Nat
    BY BusyContent
  <2>2. /\ (content[e])' = (Count(slots, e))' + (Cardinality(Left(e)))'
        /\ (Count(slots, e))' \in Nat /\ (Cardinality(Left(e)))' \in Nat
    <3>1. IsFiniteSet(todo) /\ todo' \subseteq todo
      BY <1>2, BusyContent
    <3>2. Left(e)' \subseteq todo
      BY <3>1 DEF Left
    <3>3. Cardinality(Left(e)') \in Nat
      BY <3>1, <3>2, FS_Subset, FS_CardinalityType
    <3>4. nbuckets' \in Nat /\ slots' \in Tables(nbuckets')
      BY DEF TypeOK, Tables
    <3>5. Count(slots', e) \in Nat
      BY <3>4, CountType
    <3>6. content'[e] = Count(slots', e) + Cardinality(Left(e)')
      BY DEF content, Count, Left
    <3> QED  BY <3>3, <3>5, <3>6 DEF Count
  <2> QED  BY <2>1, <2>2 DEF Count
<1>5. ASSUME NEW e \in Entry
      PROVE  Cardinality(Left(e)') = Cardinality(Left(e)) - (IF e = f THEN 1 ELSE 0)
  <2>1. IsFiniteSet(Left(e))
    <3>1. IsFiniteSet(todo)
      BY BusyContent
    <3> QED  BY <3>1, FS_Subset DEF Left
  <2>2. CASE e = f
    <3>1. Left(e)' = Left(e) \ {p} /\ p \in Left(e)
      BY <1>1, <1>2, <2>2 DEF Left
    <3>2. Cardinality(Left(e) \ {p}) = Cardinality(Left(e)) - 1
      BY <2>1, <3>1, FS_RemoveElement
    <3> QED  BY <2>2, <3>1, <3>2
  <2>3. CASE e # f
    <3>1. Left(e)' = Left(e)
      BY <1>1, <1>2, <2>3 DEF Left
    <3> QED  BY <1>4, <2>3, <3>1
  <2> QED  BY <2>2, <2>3
<1>6. content[f] > 0
  <2>1. p \in Left(f)
    BY <1>2 DEF Left
  <2>2. IsFiniteSet(Left(f))
    <3>1. IsFiniteSet(todo)
      BY <1>3, BusyContent
    <3> QED  BY <3>1, FS_Subset DEF Left
  <2>3. Cardinality(Left(f)) # 0
    BY <2>1, <2>2, FS_EmptySet
  <2> QED  BY <1>3, <1>4, <2>3
<1>7. \A e \in Entry : content[e] \in Nat
  BY <1>4
<1>8. ASSUME NEW taken, Rehash(p, q, taken), NEW e \in Entry
      PROVE  content'[e] = content[e] - (IF e = slots[q] THEN 1 ELSE 0)
  <2>1. slots' = [slots EXCEPT ![q] = f]
    BY <1>8 DEF Rehash
  <2> HIDE DEF f
  <2>2. Count([slots EXCEPT ![q] = f], e)
          = Count(slots, e) + (IF f = e THEN 1 ELSE 0) - (IF slots[q] = e THEN 1 ELSE 0)
    BY <1>1, <1>3, CountStore
  <2>3. Count(slots', e) = c[e] + (IF e = f THEN 1 ELSE 0) - (IF e = slots[q] THEN 1 ELSE 0)
    BY <2>1, <2>2
  <2> DEFINE here == Count(slots', e)
             left == Cardinality(Left(e))
             left_next == Cardinality(Left(e)')
  <2>4. /\ content[e] = c[e] + left /\ content'[e] = here + left_next
        /\ c[e] \in Nat /\ left \in Nat
    BY <1>4
  <2>5. left_next = left - (IF e = f THEN 1 ELSE 0)
    BY <1>5
  <2>6. here = c[e] + (IF e = f THEN 1 ELSE 0) - (IF e = slots[q] THEN 1 ELSE 0)
    BY <2>3
  <2> HIDE DEF c, here, left, left_next
  <2> QED  BY <2>4, <2>5, <2>6
<1> HIDE DEF f, c
<1>9. CASE slots[q] = Empty /\ Rehash(p, q, 1)
  <2>1. \A e \in Entry : e # slots[q]
    BY <1>9, CacheAssumption
  <2>2. \A e \in Entry : content'[e] = content[e]
    BY <1>7, <1>8, <1>9, <2>1
  <2>3. content' = content
    BY <2>2, SameContent
  <2> QED  BY <1>1, <2>3 DEF L!Work
<1>10. CASE slots[q] \in Entry /\ Rehash(p, q, 0)
  <2>1. content[slots[q]] > 0
    <3>1. Count(slots, slots[q]) # 0
      BY <1>1, CountType
    <3>2. c[slots[q]] = Count(slots, slots[q])
      BY <1>10 DEF c
    <3> DEFINE d == slots[q]
    <3>3. d \in Entry /\ c[d] # 0
      BY <1>10, <3>1, <3>2
    <3> HIDE DEF d
    <3>4. content[d] > 0
      BY <1>4, <3>3
    <3> QED  BY <3>4 DEF d
  <2>2. L!Forget(slots[q])
    BY <1>7, <1>8, <1>10, <2>1, ForgetContent
  <2> QED  BY <1>1, <1>10, <2>2 DEF L!Work, L!Entry, Entry
<1>11. CASE UNCHANGED <<slots, num_insert>>
  <2>1. \A e \in Entry : Count(slots', e) = c[e]
    BY <1>11 DEF c
  <2>2. \A e \in Entry : content'[e] = content[e] - (IF e = f THEN 1 ELSE 0)
    BY <1>4, <1>5, <2>1
  <2>3. L!Forget(f)
    BY <1>3, <1>6, <1>7, <2>2, ForgetContent
  <2> QED  BY <1>1, <1>3, <2>3 DEF L!Work, L!Entry, Entry
<1> QED
  BY <1>2, <1>9, <1>10, <1>11

(* The end of a resize has nothing left to move.                           *)
LEMMA FinishWorks ==
  ASSUME TypeOK, FinishResize
  PROVE  L!Work
<1>1. /\ pc = "resize" /\ pc' = "ready" /\ todo = {} /\ todo' = {}
      /\ slots' = slots
  BY DEF FinishResize
<1>2. content' = content
  BY <1>1 DEF content
<1> QED
  BY <1>1, <1>2 DEF L!Work

(* The cache is a dictionary that may forget: an insertion displaces at    *)
(* most one other entry, a resize drops entries one after the other, and   *)
(* no step changes another entry or brings one back.                       *)
THEOREM CacheForgetsOnly == Spec => ImplementsLossyDictionary
<1>1. Init => L!Init
  <2> SUFFICES ASSUME Init PROVE L!Init
    OBVIOUS
  <2>1. TypeOK /\ nbuckets \in Nat
    BY InitInv DEF IInv, TypeOK
  <2>2. slots = [p \in Pos(nbuckets) |-> Empty] /\ pc = "ready"
    BY DEF Init
  <2>3. \A e \in Entry : Count(slots, e) = 0
    BY <2>1, <2>2, CountFresh, CacheAssumption
  <2>4. \A e \in Entry : content[e] = 0
    BY <2>1, <2>2, <2>3, ReadyContent
  <2>5. content = [e \in Entry |-> content[e]]
    BY DEF content
  <2> QED  BY <2>2, <2>4, <2>5 DEF L!Init, L!Entry, Entry
<1>2. IInv /\ IInv' /\ [Next]_vars => [L!Next]_(L!vars)
  <2> SUFFICES ASSUME IInv, IInv', [Next]_vars
               PROVE  L!Next \/ UNCHANGED L!vars
    OBVIOUS
  <2>1. TypeOK /\ TypeOK' /\ EntriesAtHome
    BY DEF IInv
  <2>2. CASE Hits
    BY <2>2 DEF Hits, rehash, content, L!vars
  <2>3. CASE Overwrites
    BY <2>1, <2>3, OverwriteActs DEF L!Next
  <2>4. CASE Inserts
    BY <2>1, <2>4, InsertActs DEF L!Next
  <2>5. CASE Erases
    BY <2>1, <2>5, EraseActs DEF L!Next
  <2>6. CASE Resizes
    BY <2>1, <2>6, ResizeBegins DEF L!Next
  <2>7. CASE Clears
    BY <2>1, <2>7, ClearActs DEF L!Next
  <2>8. CASE RehashEntry
    BY <2>1, <2>8, RehashWorks DEF L!Next
  <2>9. CASE FinishResize
    BY <2>1, <2>9, FinishWorks DEF L!Next
  <2>10. CASE UNCHANGED vars
    BY <2>10 DEF vars, table, rehash, content, L!vars
  <2> QED
    BY <2>1, <2>2, <2>3, <2>4, <2>5, <2>6, <2>7, <2>8, <2>9, <2>10, CallCases
<1> QED
  BY <1>1, <1>2, CacheInvariant, PTL DEF Spec, ImplementsLossyDictionary, L!Spec

-----------------------------------------------------------------------------
(* Growth.  The capacities are powers of two, so that a bucket of a larger *)
(* table holds entries of one bucket of a smaller table only.              *)

(* conf::set_capacity rounds capacities up to powers of two, and a kernel  *)
(* has a power of two of slots; bit_ceil is defined up to 2 ^ 24 here.     *)
Configured ==
  /\ KernelSize \in PowersOfTwo
  /\ MinCapacity \in PowersOfTwo /\ InitCapacity \in PowersOfTwo
  /\ MaxBuckets * KernelSize <= 2 ^ 24

Literal == {1, 2, 4, 8, 16, 32, 64, 128, 256, 512, 1024, 2048, 4096, 8192, 16384,
            32768, 65536, 131072, 262144, 524288, 1048576, 2097152, 4194304,
            8388608, 16777216}

(* The powers of two, written out.                                         *)
LEMMA PowersAre == PowersOfTwo = Literal /\ 2^24 = 16777216
<1>1. /\ 2 ^ 0 = 1 /\ 2 ^ 1 = 2 /\ 2 ^ 2 = 4 /\ 2 ^ 3 = 8 /\ 2 ^ 4 = 16
      /\ 2 ^ 5 = 32 /\ 2 ^ 6 = 64 /\ 2 ^ 7 = 128 /\ 2 ^ 8 = 256 /\ 2 ^ 9 = 512
      /\ 2 ^ 10 = 1024 /\ 2 ^ 11 = 2048 /\ 2 ^ 12 = 4096 /\ 2 ^ 13 = 8192
      /\ 2 ^ 14 = 16384 /\ 2 ^ 15 = 32768 /\ 2 ^ 16 = 65536 /\ 2 ^ 17 = 131072
      /\ 2 ^ 18 = 262144 /\ 2 ^ 19 = 524288 /\ 2 ^ 20 = 1048576
      /\ 2 ^ 21 = 2097152 /\ 2 ^ 22 = 4194304 /\ 2 ^ 23 = 8388608
      /\ 2 ^ 24 = 16777216
  OBVIOUS
<1>2. 0 .. 24 = {0, 1, 2, 3, 4, 5, 6, 7, 8, 9, 10, 11, 12, 13, 14, 15, 16, 17,
                 18, 19, 20, 21, 22, 23, 24}
  OBVIOUS
<1>3. PowersOfTwo = {2 ^ i : i \in {0, 1, 2, 3, 4, 5, 6, 7, 8, 9, 10, 11, 12, 13, 14, 15, 16, 17,
                 18, 19, 20, 21, 22, 23, 24}}
  BY <1>2 DEF PowersOfTwo
<1> QED  BY <1>1, <1>3 DEF Literal

(* They are positive numbers up to the largest.                            *)
LEMMA PowersType == \A a \in PowersOfTwo : a \in Nat \ {0} /\ a <= 2 ^ 24
BY PowersAre DEF Literal

(* The smaller of two divides the larger, and the quotient is one.         *)
LEMMA PowersDivide ==
  \A a, b \in PowersOfTwo : a <= b => b % a = 0 /\ b \div a \in PowersOfTwo
BY PowersAre DEF Literal

(* All but 1 are twice another one.                                        *)
LEMMA PowersHalve == \A a \in PowersOfTwo : a = 1 \/ \E b \in PowersOfTwo : a = 2 * b
BY PowersAre DEF Literal

(* Twice one of them is another one, up to the largest.                    *)
LEMMA PowersDouble == \A a \in PowersOfTwo : a < 2 ^ 24 => 2 * a \in PowersOfTwo
BY PowersAre DEF Literal

(* bit_ceil rounds up to a power of two.                                   *)
LEMMA BitCeil ==
  ASSUME NEW x \in Nat, x <= 2 ^ 24
  PROVE  bit_ceil(x) \in PowersOfTwo /\ bit_ceil(x) >= x
<1>1. \E c \in PowersOfTwo : c >= x /\ \A d \in PowersOfTwo : d >= x => c <= d
  BY PowersAre, SMTT(60) DEF Literal
<1> QED  BY <1>1 DEF bit_ceil

(* The quotient of a multiple.                                             *)
LEMMA MultipleDivides ==
  ASSUME NEW a \in Nat, NEW k \in Nat \ {0}
  PROVE  (a * k) \div k = a
OBVIOUS

(* The remainder of a division is determined by its range.                 *)
LEMMA ModUnique ==
  ASSUME NEW a \in Nat \ {0}, NEW x \in Nat, NEW y \in Nat, NEW z \in 0 .. a - 1,
         x = a * y + z
  PROVE  x % a = z
OBVIOUS

(* The remainder modulo a multiple of a determines the one modulo a.       *)
LEMMA ModMod ==
  ASSUME NEW h \in Nat, NEW a \in Nat \ {0}, NEW b \in Nat \ {0}, b % a = 0
  PROVE  (h % b) % a = h % a
<1> DEFINE c == b \div a
           q == h \div b
           r == h % b
           d == r \div a
           m == r % a
<1>1. /\ c \in Nat /\ q \in Nat /\ r \in Nat /\ d \in Nat /\ m \in 0 .. a - 1
      /\ b = a * c /\ h = b * q + r /\ r = a * d + m
  OBVIOUS
<1> HIDE DEF c, q, r, d, m
<1>2. h = a * (c * q + d) + m /\ c * q + d \in Nat
  BY <1>1
<1> DEFINE y == c * q + d
<1> HIDE DEF y
<1>3. h % a = m
  BY <1>1, <1>2, ModUnique DEF y
<1> QED  BY <1>3 DEF r, m

(* A quotient of powers of two that is not zero is one.                    *)
LEMMA PowersQuotient ==
  ASSUME NEW a \in PowersOfTwo, NEW b \in PowersOfTwo, b \div a >= 1
  PROVE  b \div a \in PowersOfTwo
<1>1. a \in Nat \ {0} /\ b \in Nat \ {0}
  BY PowersType
<1>2. a <= b
  <2>1. b < a => b \div a = 0
    BY <1>1
  <2> QED  BY <1>1, <2>1
<1> QED
  BY <1>2, PowersDivide

(* Every table has a power of two of buckets.                              *)
LEMMA SizesStay ==
  ASSUME Configured, TypeOK, nbuckets \in PowersOfTwo, [Next]_vars
  PROVE  nbuckets' \in PowersOfTwo
<1>1. /\ KernelSize \in PowersOfTwo /\ KernelSize \in Nat \ {0}
      /\ MinCapacity \in PowersOfTwo /\ MinCapacity \in Nat \ {0}
      /\ MinCapacity <= 2 ^ 24 /\ 2 ^ 24 \in Nat
      /\ nbuckets \in Nat \ {0} /\ MaxBuckets \in Nat \ {0}
      /\ MaxBuckets * KernelSize <= 2 ^ 24 /\ MaxBuckets <= 2 ^ 24
  <2>1. 2 ^ 24 \in Nat
    BY PowersAre
  <2>2. MaxBuckets \in Nat /\ KernelSize \in Nat \ {0}
    BY CacheAssumption
  <2>3. MaxBuckets <= MaxBuckets * KernelSize
    BY <2>2
  <2>4. MaxBuckets * KernelSize \in Nat
    BY <2>2
  <2> QED  BY <2>1, <2>2, <2>3, <2>4, PowersType, CacheAssumption DEF Configured, TypeOK
<1>2. ASSUME NEW c \in PowersOfTwo, Allocate(c \div KernelSize)
      PROVE  nbuckets' \in PowersOfTwo
  BY <1>1, <1>2, PowersQuotient DEF Allocate
<1>3. ASSUME NEW n \in Requests
      PROVE  /\ bit_ceil(n) \in PowersOfTwo
             /\ Larger(bit_ceil(n), MinCapacity) \in PowersOfTwo
             /\ bit_ceil(Larger(n, MinCapacity)) \in PowersOfTwo
  <2>1. n \in Nat /\ n <= 2 ^ 24
    <3>1. MaxBuckets * KernelSize \in Nat
      BY <1>1
    <3> QED  BY <1>1, <3>1 DEF Requests
  <2>2. Larger(n, MinCapacity) \in Nat /\ Larger(n, MinCapacity) <= 2 ^ 24
    BY <1>1, <2>1 DEF Larger
  <2> QED  BY <1>1, <2>1, <2>2, BitCeil DEF Larger
<1>4. ASSUME NEW c \in PowersOfTwo, StartResize(c) PROVE nbuckets' \in PowersOfTwo
  BY <1>2, <1>4 DEF StartResize, vars, table
<1>5. CASE \E n \in Requests : Resize(n) \/ Reserve(n)
  BY <1>3, <1>4, <1>5 DEF Resize, Reserve
<1>6. CASE Grow
  <2>1. 2 * capacity = (2 * nbuckets) * KernelSize
    BY <1>1 DEF capacity
  <2>2. (2 * capacity) \div KernelSize = 2 * nbuckets
    BY <1>1, <2>1, MultipleDivides
  <2>3. CASE Allocate(2 * nbuckets)
    <3>1. nbuckets < 2 ^ 24 /\ nbuckets' = 2 * nbuckets
      BY <1>1, <2>3 DEF Allocate
    <3> QED  BY <3>1, PowersDouble
  <2> QED  BY <1>6, <2>2, <2>3 DEF Grow, StartResize, vars, table
<1>7. CASE Shrink
  <2>1. CASE StartResize(MinCapacity)
    BY <1>1, <1>4, <2>1
  <2>2. CASE StartResize(capacity \div 2)
    <3>1. CASE nbuckets = 1
      <4>1. (capacity \div 2) \div KernelSize = 0
        BY <1>1, <3>1 DEF capacity
      <4> QED  BY <2>2, <4>1 DEF StartResize, Allocate, vars, table
    <3>2. CASE nbuckets # 1
      <4>1. PICK b \in PowersOfTwo : nbuckets = 2 * b
        BY <3>2, PowersHalve
      <4>2. b \in Nat
        BY PowersType
      <4>3. capacity = (b * KernelSize) * 2 /\ b * KernelSize \in Nat
        BY <1>1, <4>1, <4>2 DEF capacity
      <4>4. (capacity \div 2) \div KernelSize = b
        BY <1>1, <4>2, <4>3, MultipleDivides
      <4> QED  BY <2>2, <4>4 DEF StartResize, Allocate, vars, table
    <3> QED  BY <3>1, <3>2
  <2> QED  BY <1>7, <2>1, <2>2 DEF Shrink, Larger
<1>8. CASE \E n \in Requests : ClearCapacity(n)
  BY <1>2, <1>3, <1>8 DEF ClearCapacity, ClearTo
<1>9. CASE Clear
  <2>1. capacity \div KernelSize = nbuckets
    BY <1>1, MultipleDivides DEF capacity
  <2> QED  BY <1>9, <2>1 DEF Clear, ClearTo, Allocate
<1>10. CASE \/ \E k \in Keys : FindFirst(k) \/ EraseFirst(k) \/ EraseAll(k)
            \/ \E k \in Keys, v \in Values : Insert(k, v) \/ Update(k, v)
            \/ \E k \in Keys, p \in Pos(nbuckets) : FindNext(k, p) \/ EraseNext(k, p)
            \/ \E p \in Pos(nbuckets) : FindIf(p) \/ EraseAt(p)
            \/ \E p, q \in Pos(nbuckets) : OverlappingFinds(p, q)
            \/ \E P \in SUBSET HashPos(slots) : EraseIf(P)
            \/ \E t \in Lru : Scrub(t)
            \/ RehashEntry \/ FinishResize \/ UNCHANGED vars
  <2>1. UNCHANGED nbuckets
    BY <1>10 DEF FindFirst, EraseFirst, EraseAll, Insert, Update, FindNext, EraseNext,
                 FindIf, EraseAt, OverlappingFinds, EraseIf, Scrub, Return, EraseSlots,
                 RehashEntry, FinishResize, vars, table
  <2> QED  BY <2>1
<1> QED
  BY <1>5, <1>6, <1>7, <1>8, <1>9, <1>10, Zenon DEF Next

(* What a resize has put into bucket b, and what it has visited of that    *)
(* bucket: entries with the same bucket in the new table.                  *)
Held(b) == In(HashPos(slots), b)
Visited(b) == {p \in HashPos(old) \ todo : Home(old[p][1], nbuckets) = b}

(* The inductive invariant of growth.  A bucket of the new table never     *)
(* holds more than has been visited for it.                                *)
OldAtHome ==
  \E m \in PowersOfTwo :
    /\ DOMAIN old = Pos(m)
    /\ \A p \in HashPos(old) : p[1] = Home(old[p][1], m)

HeldVisited ==
  \A b \in 0 .. nbuckets - 1 : Cardinality(Held(b)) <= Cardinality(Visited(b))

GrowthInv ==
  /\ nbuckets \in PowersOfTwo
  /\ pc = "resize" => OldAtHome /\ HeldVisited
  /\ GrowthKeepsEntries

(* A resize begins with an empty table and nothing visited.                *)
LEMMA GrowthBegins ==
  ASSUME IInv, GrowthInv, nbuckets' \in PowersOfTwo, pc = "ready",
         NEW end, StartResize(end)
  PROVE  GrowthInv'
<1>1. CASE UNCHANGED vars
  BY <1>1 DEF GrowthInv, OldAtHome, HeldVisited, Held, Visited, GrowthKeepsEntries,
              capacity, vars, table, rehash
<1>2. CASE /\ Allocate(end \div KernelSize)
           /\ old' = slots /\ todo' = HashPos(slots) /\ pc' = "resize"
  <2>1. slots' = [p \in Pos(nbuckets') |-> Empty]
    BY <1>2 DEF Allocate
  <2>2. HashPos(slots') = {} /\ HashPos(old') \ todo' = {}
    BY <1>2, <2>1 DEF HashPos, IsHash
  <2>3. OldAtHome'
    <3>1. /\ DOMAIN old' = Pos(nbuckets) /\ nbuckets \in PowersOfTwo
          /\ \A p \in HashPos(old') : p[1] = Home(old'[p][1], nbuckets)
      BY <1>2 DEF IInv, TypeOK, EntriesAtHome, GrowthInv
    <3> QED  BY <3>1 DEF OldAtHome
  <2>4. HeldVisited'
    <3> SUFFICES ASSUME NEW b \in 0 .. nbuckets' - 1
                 PROVE  Cardinality(Held(b)') <= Cardinality(Visited(b)')
      BY DEF HeldVisited
    <3>1. Held(b)' = {} /\ Visited(b)' = {}
      BY <2>2 DEF Held, Visited, In
    <3> QED  BY <3>1, FS_EmptySet
  <2>5. GrowthKeepsEntries'
    BY <2>2 DEF GrowthKeepsEntries
  <2> QED  BY <2>3, <2>4, <2>5 DEF GrowthInv
<1> QED
  BY <1>1, <1>2 DEF StartResize

(* The lanes of one bucket.                                                *)
LEMMA BucketSize ==
  ASSUME NEW n \in Nat, NEW b \in 0 .. n - 1
  PROVE  /\ IsFiniteSet(In(Pos(n), b))
         /\ Cardinality(In(Pos(n), b)) = KernelSize
<1>1. In(Pos(n), b) = {b} \X Lanes
  BY DEF In, Pos
<1>2. IsFiniteSet({b}) /\ Cardinality({b}) = 1
  BY FS_Singleton
<1>3. IsFiniteSet(Lanes) /\ Cardinality(Lanes) = KernelSize
  BY FS_Interval, CacheAssumption DEF Lanes
<1> QED
  BY <1>1, <1>2, <1>3, FS_Product, CacheAssumption

(* When a table grows, an entry still to be moved finds an empty slot: what*)
(* was visited for its bucket comes from its old bucket, with it.          *)
LEMMA RoomToGrow ==
  ASSUME TypeOK, GrowthInv, pc = "resize", Cardinality(DOMAIN old) < capacity,
         NEW p \in todo
  PROVE  In(EmptyPos(slots), Home(old[p][1], nbuckets)) # {}
<1>1. PICK m \in PowersOfTwo :
        /\ DOMAIN old = Pos(m)
        /\ \A r \in HashPos(old) : r[1] = Home(old[r][1], m)
  BY DEF GrowthInv, OldAtHome
<1>2. /\ m \in Nat \ {0} /\ nbuckets \in PowersOfTwo /\ nbuckets \in Nat \ {0}
      /\ slots \in Tables(nbuckets)
  BY PowersType DEF GrowthInv, TypeOK, Tables
<1>3. m < nbuckets
  <2>1. m * KernelSize < nbuckets * KernelSize
    BY <1>1, <1>2, PosFinite DEF capacity
  <2>2. m >= nbuckets => m * KernelSize >= nbuckets * KernelSize
    BY <1>2, CacheAssumption
  <2> QED  BY <1>2, <2>1, <2>2, CacheAssumption
<1>4. nbuckets % m = 0
  BY <1>1, <1>2, <1>3, PowersDivide
<1>5. \A r \in HashPos(old) : old[r][1] \in Keys
  BY DEF TypeOK, HashPos, IsHash, Slot, Entry
<1>6. p \in HashPos(old)
  BY DEF TypeOK
<1> DEFINE b == Home(old[p][1], nbuckets)
           B == In(Pos(m), b % m)
<1>7. b \in 0 .. nbuckets - 1 /\ b % m \in 0 .. m - 1
  BY <1>2, <1>5, <1>6, HomeType
<1>8. \A r \in HashPos(old) : Home(old[r][1], nbuckets) = b => r \in B
  <2> SUFFICES ASSUME NEW r \in HashPos(old), Home(old[r][1], nbuckets) = b
               PROVE  r[1] = b % m
    BY <1>1 DEF In, HashPos
  <2>1. Hash[old[r][1]] \in Nat
    BY <1>5, CacheAssumption
  <2>2. (Hash[old[r][1]] % nbuckets) % m = Hash[old[r][1]] % m
    BY <1>2, <1>4, <2>1, ModMod
  <2> QED  BY <1>1, <2>2 DEF Home
<1> HIDE DEF b
<1>9. Visited(b) \cup {p} \in SUBSET B /\ p \notin Visited(b)
  BY <1>6, <1>8 DEF Visited, b
<1>10. IsFiniteSet(B) /\ Cardinality(B) = KernelSize
  BY <1>2, <1>7, BucketSize
<1> HIDE DEF B
<1>11. Cardinality(Visited(b)) < KernelSize
  <2>1. IsFiniteSet(Visited(b))
    BY <1>9, <1>10, FS_Subset
  <2>2. Cardinality(Visited(b) \cup {p}) = Cardinality(Visited(b)) + 1
    BY <1>9, <2>1, FS_AddElement
  <2>3. Cardinality(Visited(b) \cup {p}) <= Cardinality(B)
    BY <1>9, <1>10, FS_Subset
  <2> QED  BY <1>10, <2>1, <2>2, <2>3, FS_CardinalityType, CacheAssumption
<1>12. Cardinality(Held(b)) <= Cardinality(Visited(b))
  BY <1>7 DEF GrowthInv, HeldVisited
<1>13. ASSUME In(EmptyPos(slots), b) = {} PROVE FALSE
  <2>1. Held(b) = In(Pos(nbuckets), b)
    BY <1>2, <1>13 DEF Held, In, HashPos, EmptyPos, IsHash, Tables
  <2>2. Cardinality(Held(b)) = KernelSize
    BY <1>2, <1>7, <2>1, BucketSize
  <2>3. Cardinality(Visited(b)) \in Nat
    <3>1. IsFiniteSet(Visited(b))
      BY <1>9, <1>10, FS_Subset
    <3> QED  BY <3>1, FS_CardinalityType
  <2> QED  BY <1>11, <1>12, <2>2, <2>3, CacheAssumption
<1> QED
  BY <1>13 DEF b

(* Moving an entry: what is held for a bucket grows by one at most, and    *)
(* what is visited for it by one.                                          *)
LEMMA GrowthMoves ==
  ASSUME TypeOK, TypeOK', GrowthInv, RehashEntry
  PROVE  GrowthInv'
<1>1. PICK p \in todo, q \in Pos(nbuckets) :
        LET b == Home(old[p][1], nbuckets)
        IN  /\ todo' = todo \ {p}
            /\ \/ LowestIn(EmptyPos(slots), b, q) /\ Rehash(p, q, 1)
               \/ /\ In(EmptyPos(slots), b) = {}
                  /\ Coldest(lrus, b, q)
                  /\ \/ UNCHANGED <<slots, lrus, num_insert>>
                     \/ Rehash(p, q, 0)
  BY DEF RehashEntry
<1> DEFINE b == Home(old[p][1], nbuckets)
<1>2. /\ pc = "resize" /\ pc' = "resize" /\ UNCHANGED <<nbuckets, old>>
      /\ nbuckets \in Nat /\ slots \in Tables(nbuckets) /\ todo' = todo \ {p}
      /\ slots' \in Tables(nbuckets)
  BY <1>1 DEF RehashEntry, TypeOK, Tables
<1>3. p \in HashPos(old) /\ IsHash(old[p])
  BY <1>2 DEF TypeOK, HashPos
<1>4. ASSUME Rehash(p, q, 0) \/ Rehash(p, q, 1)
      PROVE  slots'[q] = old[p] /\ \A r \in Pos(nbuckets) \ {q} : slots'[r] = slots[r]
  BY <1>2, <1>4 DEF Rehash, Tables
<1>5. \/ /\ q[1] = b /\ slots[q] = Empty /\ slots'[q] = old[p]
         /\ \A r \in Pos(nbuckets) \ {q} : slots'[r] = slots[r]
      \/ /\ q[1] = b /\ IsHash(slots[q]) /\ slots'[q] = old[p]
         /\ \A r \in Pos(nbuckets) \ {q} : slots'[r] = slots[r]
         /\ In(EmptyPos(slots), b) = {}
      \/ slots' = slots /\ In(EmptyPos(slots), b) = {}
  <2>1. ASSUME LowestIn(EmptyPos(slots), b, q)
        PROVE  q[1] = b /\ slots[q] = Empty
    BY <2>1 DEF LowestIn, In, EmptyPos
  <2>2. ASSUME In(EmptyPos(slots), b) = {}, Coldest(lrus, b, q)
        PROVE  q[1] = b /\ IsHash(slots[q])
    BY <1>2, <2>2 DEF Coldest, In, EmptyPos, IsHash, Tables
  <2> QED  BY <1>1, <1>4, <2>1, <2>2
<1> HIDE DEF b
<1>6. ASSUME NEW c
      PROVE  /\ Visited(c)' = Visited(c) \cup (IF c = b THEN {p} ELSE {})
             /\ p \notin Visited(c)
             /\ Held(c)' = Held(c) \/ (c = b /\ \E x : Held(c)' = Held(c) \cup {x})
  <2>1. Visited(c)' = Visited(c) \cup (IF c = b THEN {p} ELSE {}) /\ p \notin Visited(c)
    BY <1>2, <1>3 DEF Visited, b
  <2>2. Held(c) = {r \in Pos(nbuckets) : IsHash(slots[r]) /\ r[1] = c}
        /\ Held(c)' = {r \in Pos(nbuckets) : IsHash(slots'[r]) /\ r[1] = c}
    BY <1>2 DEF Held, In, HashPos, Tables
  <2>3. CASE /\ q[1] = b /\ slots'[q] = old[p]
             /\ \A r \in Pos(nbuckets) \ {q} : slots'[r] = slots[r]
    <3>1. c = b => Held(c)' = Held(c) \cup {q}
      BY <1>3, <2>2, <2>3
    <3>2. c # b => Held(c)' = Held(c)
      BY <2>2, <2>3
    <3> QED  BY <2>1, <3>1, <3>2
  <2>4. CASE slots' = slots
    BY <2>1, <2>2, <2>4
  <2> QED  BY <1>5, <2>3, <2>4
<1>7. HeldVisited'
  <2> SUFFICES ASSUME NEW c \in 0 .. nbuckets - 1
               PROVE  Cardinality(Held(c)') <= Cardinality(Visited(c)')
    BY <1>2 DEF HeldVisited
  <2>1. Cardinality(Held(c)) <= Cardinality(Visited(c))
    BY <1>2 DEF GrowthInv, HeldVisited
  <2>2. IsFiniteSet(Held(c)) /\ IsFiniteSet(Visited(c))
    <3>1. \E m \in Nat : DOMAIN old = Pos(m)
      BY PowersType, <1>2 DEF GrowthInv, OldAtHome
    <3>2. Held(c) \subseteq Pos(nbuckets) /\ Visited(c) \subseteq DOMAIN old
      BY <1>2 DEF Held, Visited, In, HashPos, Tables
    <3> QED  BY <1>2, <3>1, <3>2, PosFinite, FS_Subset
  <2>3. Cardinality(Held(c)) \in Nat /\ Cardinality(Visited(c)) \in Nat
    BY <2>2, FS_CardinalityType
  <2>4. CASE c = b
    <3>1. Cardinality(Visited(c)') = Cardinality(Visited(c)) + 1
      BY <1>6, <2>2, <2>4, FS_AddElement
    <3>2. ASSUME NEW x, Held(c)' = Held(c) \cup {x}
          PROVE  Cardinality(Held(c)') <= Cardinality(Held(c)) + 1
      <4>1. x \in Held(c) => Held(c)' = Held(c)
        BY <3>2
      <4>2. x \notin Held(c) => Cardinality(Held(c)') = Cardinality(Held(c)) + 1
        BY <2>2, <3>2, FS_AddElement
      <4> QED  BY <2>3, <4>1, <4>2
    <3>3. Cardinality(Held(c)') <= Cardinality(Held(c)) + 1
      <4>1. CASE Held(c)' = Held(c)
        <5> DEFINE h == Cardinality(Held(c))
        <5>1. Cardinality(Held(c)') = h /\ h \in Nat
          BY <2>3, <4>1
        <5> HIDE DEF h
        <5>2. Cardinality(Held(c)') <= h + 1
          BY <5>1
        <5> QED  BY <5>2 DEF h
      <4>2. CASE \E x : Held(c)' = Held(c) \cup {x}
        BY <3>2, <4>2
      <4> QED  BY <1>6, <4>1, <4>2
    <3>4. Cardinality(Held(c)') \in Nat
      BY <1>6, <2>2, FS_AddElement, FS_CardinalityType
    <3> QED  BY <2>1, <2>3, <3>1, <3>3, <3>4
  <2>5. CASE c # b
    <3>1. Visited(c)' = Visited(c) /\ Held(c)' = Held(c)
      BY <1>6, <2>5
    <3> QED  BY <2>1, <3>1
  <2> QED  BY <2>4, <2>5
<1>8. GrowthKeepsEntries'
  <2> SUFFICES ASSUME Cardinality(DOMAIN old) < capacity,
                      NEW r \in HashPos(old) \ todo'
               PROVE  \E x \in HashPos(slots') : slots'[x] = old[r]
    BY <1>2 DEF GrowthKeepsEntries, capacity
  <2>1. In(EmptyPos(slots), b) # {}
    BY <1>2, RoomToGrow DEF b
  <2>2. /\ slots[q] = Empty /\ slots'[q] = old[p]
        /\ \A x \in Pos(nbuckets) \ {q} : slots'[x] = slots[x]
    BY <1>5, <2>1
  <2>3. CASE r = p
    <3>1. q \in HashPos(slots')
      BY <1>2, <1>3, <2>2 DEF HashPos, Tables
    <3> QED  BY <2>2, <2>3, <3>1
  <2>4. CASE r # p
    <3>1. PICK x \in HashPos(slots) : slots[x] = old[r]
      BY <1>2, <2>4 DEF GrowthInv, GrowthKeepsEntries
    <3>2. x # q /\ x \in Pos(nbuckets) /\ x \in HashPos(slots')
      BY <1>2, <2>2 DEF HashPos, IsHash, Tables
    <3> QED  BY <2>2, <3>1, <3>2
  <2> QED  BY <2>3, <2>4
<1>9. nbuckets' \in PowersOfTwo /\ OldAtHome'
  BY <1>2 DEF GrowthInv, OldAtHome
<1> QED
  BY <1>7, <1>8, <1>9 DEF GrowthInv

(* A resize to a larger capacity drops nothing, whatever the sizes, the    *)
(* hash function and the duplicates: the entries of a bucket of the new    *)
(* table were in one bucket of the old one, so they fit.                   *)
THEOREM GrowthDropsNothing ==
  ASSUME Configured
  PROVE  Spec => []GrowthKeepsEntries
<1>1. Init => GrowthInv
  <2> SUFFICES ASSUME Init PROVE GrowthInv
    OBVIOUS
  <2>1. nbuckets \in PowersOfTwo
    BY PowersQuotient, CacheAssumption DEF Init, Configured
  <2>2. pc = "ready"
    BY DEF Init
  <2> QED  BY <2>1, <2>2 DEF GrowthInv, GrowthKeepsEntries
<1>2. IInv /\ IInv' /\ GrowthInv /\ [Next]_vars => GrowthInv'
  <2> SUFFICES ASSUME IInv, IInv', GrowthInv, [Next]_vars
               PROVE  GrowthInv'
    OBVIOUS
  <2>1. TypeOK /\ TypeOK' /\ nbuckets \in PowersOfTwo
    BY DEF IInv, GrowthInv
  <2>2. nbuckets' \in PowersOfTwo
    BY <2>1, SizesStay
  <2>3. CASE pc' = "ready"
    BY <2>2, <2>3 DEF GrowthInv, GrowthKeepsEntries
  <2>4. CASE Hits \/ Overwrites \/ Inserts \/ Erases
    <3>1. pc' = "ready"
      BY <2>4 DEF Hits, Overwrites, Inserts, Stores, Erases, EraseSlots
    <3> QED  BY <2>3, <3>1
  <2>5. CASE Clears
    <3>1. pc' = "ready"
      BY <2>5 DEF Clears, ClearTo, Ready
    <3> QED  BY <2>3, <3>1
  <2>6. CASE FinishResize
    BY <2>3, <2>6 DEF FinishResize
  <2>7. CASE Resizes
    BY <2>2, <2>7, GrowthBegins DEF Resizes
  <2>8. CASE RehashEntry
    BY <2>1, <2>8, GrowthMoves
  <2>9. CASE UNCHANGED vars
    BY <2>9 DEF GrowthInv, OldAtHome, HeldVisited, Held, Visited, GrowthKeepsEntries,
                capacity, vars, table, rehash
  <2> QED
    BY <2>1, <2>4, <2>5, <2>6, <2>7, <2>8, <2>9, CallCases
<1>3. GrowthInv => GrowthKeepsEntries
  BY DEF GrowthInv
<1> QED
  BY <1>1, <1>2, <1>3, CacheInvariant, PTL DEF Spec
===============================================================================
