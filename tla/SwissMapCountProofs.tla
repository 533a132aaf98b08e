-------------------------- MODULE SwissMapCountProofs --------------------------
(***************************************************************************)
(* The counters of SwissMap are exact and its keys unique, iteration over  *)
(* the entries of a key is complete, probing ends, and the map implements  *)
(* Dictionary.  The counters come first: an insertion chooses by           *)
(* num_tombstone_ how far it searches for its key, so that a wrong count   *)
(* would let a second entry of a key in.                                   *)
(***************************************************************************)
EXTENDS SwissMapProofs

-----------------------------------------------------------------------------
(* Counting slots.                                                         *)

(* Disjoint finite sets add up.                                            *)
LEMMA DisjointUnion ==
  ASSUME NEW S, NEW T, IsFiniteSet(S), IsFiniteSet(T), S \cap T = {}
  PROVE  /\ IsFiniteSet(S \cup T)
         /\ Cardinality(S) \in Nat /\ Cardinality(T) \in Nat
         /\ Cardinality(S \cup T) = Cardinality(S) + Cardinality(T)
<1>1. Cardinality(S) \in Nat /\ Cardinality(T) \in Nat
  BY FS_CardinalityType
<1>2. Cardinality(S \cap T) = 0
  BY FS_EmptySet
<1>3. /\ IsFiniteSet(S \cup T)
      /\ Cardinality(S \cup T) = Cardinality(S) + Cardinality(T) - Cardinality(S \cap T)
  BY FS_Union, Zenon
<1> QED
  BY <1>1, <1>2, <1>3

(* The number of slots with a given content is a natural number.           *)
LEMMA CountType ==
  ASSUME NEW n \in Nat, NEW s \in Tables(n), NEW x
  PROVE  /\ Count(s, x) \in Nat
         /\ IsFiniteSet({p \in DOMAIN s : s[p] = x})
         /\ Count(s, x) = 0 <=> \A p \in Pos(n) : s[p] # x
<1>1. DOMAIN s = Pos(n)
  BY DEF Tables
<1>2. {p \in DOMAIN s : s[p] = x} \in SUBSET Pos(n)
  BY <1>1
<1>3. /\ IsFiniteSet({p \in DOMAIN s : s[p] = x})
      /\ Cardinality({p \in DOMAIN s : s[p] = x}) \in Nat
  BY <1>2, PosCardinality
<1> QED
  BY <1>1, <1>3, FS_EmptySet DEF Count

(* Slots E that did not hold x get it, no other slot changes to or from x. *)
LEMMA CountGain ==
  ASSUME NEW n \in Nat, NEW s \in Tables(n), NEW t \in Tables(n), NEW x,
         NEW E \in SUBSET Pos(n),
         \A p \in E : s[p] # x /\ t[p] = x,
         \A p \in Pos(n) \ E : t[p] = x <=> s[p] = x
  PROVE  Count(t, x) = Count(s, x) + Cardinality(E)
<1> DEFINE S == {p \in DOMAIN s : s[p] = x}
           T == {p \in DOMAIN t : t[p] = x}
<1>1. DOMAIN s = Pos(n) /\ DOMAIN t = Pos(n)
  BY DEF Tables
<1>2. T = S \cup E /\ S \cap E = {}
  BY <1>1
<1>3. IsFiniteSet(S) /\ IsFiniteSet(E)
  BY <1>1, CountType, PosCardinality
<1> HIDE DEF S, T
<1>4. Cardinality(T) = Cardinality(S) + Cardinality(E)
  BY <1>2, <1>3, DisjointUnion
<1> QED
  BY <1>4 DEF Count, S, T

(* What a change of the slot p does to the number of slots that hold x.    *)
LEMMA CountChange ==
  ASSUME NEW n \in Nat, NEW s \in Tables(n), NEW t \in Tables(n), NEW p \in Pos(n),
         \A q \in Pos(n) \ {p} : t[q] = s[q], NEW x
  PROVE  Count(t, x)
           = Count(s, x) + (IF t[p] = x THEN 1 ELSE 0) - (IF s[p] = x THEN 1 ELSE 0)
<1>1. Cardinality({p}) = 1 /\ Cardinality({}) = 0 /\ {p} \in SUBSET Pos(n)
  BY FS_Singleton, FS_EmptySet
<1>2. Count(s, x) \in Nat /\ Count(t, x) \in Nat
  BY CountType
<1>3. CASE t[p] = x /\ s[p] # x
  <2>1. Count(t, x) = Count(s, x) + Cardinality({p})
    BY <1>1, <1>3, CountGain
  <2> QED  BY <1>1, <1>2, <1>3, <2>1
<1>4. CASE t[p] # x /\ s[p] = x
  <2>1. Count(s, x) = Count(t, x) + Cardinality({p})
    BY <1>1, <1>4, CountGain
  <2> QED  BY <1>1, <1>2, <1>4, <2>1
<1>5. CASE (t[p] = x) = (s[p] = x)
  <2>1. Count(t, x) = Count(s, x) + Cardinality({})
    BY <1>1, <1>5, CountGain
  <2> QED  BY <1>1, <1>2, <1>5, <2>1
<1> QED
  BY <1>3, <1>4, <1>5

(* What storing e in the slot p does to it.                                *)
LEMMA CountStore ==
  ASSUME NEW n \in Nat, NEW s \in Tables(n), NEW p \in Pos(n), NEW e \in Slot, NEW x
  PROVE  Count([s EXCEPT ![p] = e], x)
           = Count(s, x) + (IF e = x THEN 1 ELSE 0) - (IF s[p] = x THEN 1 ELSE 0)
<1> DEFINE t == [s EXCEPT ![p] = e]
<1>1. t \in Tables(n) /\ t[p] = e /\ \A q \in Pos(n) \ {p} : t[q] = s[q]
  BY DEF Tables
<1> HIDE DEF t
<1>2. Count(t, x) = Count(s, x) + (IF e = x THEN 1 ELSE 0) - (IF s[p] = x THEN 1 ELSE 0)
  BY <1>1, CountChange
<1> QED
  BY <1>2 DEF t

(* The entries are what is left of a table.                                *)
LEMMA CountSlots ==
  ASSUME NEW n \in Nat, NEW s \in Tables(n)
  PROVE  /\ Cardinality(HashPos(s)) \in Nat /\ IsFiniteSet(HashPos(s))
         /\ Count(s, Empty) \in Nat /\ Count(s, Tombstone) \in Nat
         /\ n * KernelSize = Cardinality(HashPos(s)) + Count(s, Empty) + Count(s, Tombstone)
<1>1. /\ IsFiniteSet(HashPos(s)) /\ IsFiniteSet(EmptyPos(s)) /\ IsFiniteSet(TombPos(s))
      /\ Cardinality(HashPos(s)) \in Nat /\ Cardinality(EmptyPos(s)) \in Nat
      /\ Cardinality(TombPos(s)) \in Nat
  BY SlotKinds, PosCardinality DEF Tables, HashPos
<1>2. /\ Pos(n) = HashPos(s) \cup (EmptyPos(s) \cup TombPos(s))
      /\ HashPos(s) \cap (EmptyPos(s) \cup TombPos(s)) = {}
      /\ EmptyPos(s) \cap TombPos(s) = {}
  BY SlotKinds DEF FreePos
<1>3. /\ IsFiniteSet(EmptyPos(s) \cup TombPos(s))
      /\ Cardinality(EmptyPos(s) \cup TombPos(s))
           = Cardinality(EmptyPos(s)) + Cardinality(TombPos(s))
  BY <1>1, <1>2, DisjointUnion
<1>4. Cardinality(Pos(n)) = Cardinality(HashPos(s))
                            + (Cardinality(EmptyPos(s)) + Cardinality(TombPos(s)))
  BY <1>1, <1>2, <1>3, DisjointUnion
<1> QED
  BY <1>1, <1>4, PosFinite DEF Count, EmptyPos, TombPos

(* A fresh table has nothing but empty slots.                              *)
LEMMA CountFresh ==
  ASSUME NEW n \in Nat
  PROVE  /\ AllEmpty(n) \in Tables(n)
         /\ Count(AllEmpty(n), Empty) = n * KernelSize
         /\ \A x : x # Empty => Count(AllEmpty(n), x) = 0
<1>1. AllEmpty(n) \in Tables(n)
  BY DEF AllEmpty, Tables, Slot
<1>2. {p \in DOMAIN AllEmpty(n) : AllEmpty(n)[p] = Empty} = Pos(n)
  BY DEF AllEmpty
<1>3. ASSUME NEW x, x # Empty PROVE Count(AllEmpty(n), x) = 0
  <2>1. \A p \in Pos(n) : AllEmpty(n)[p] # x
    BY <1>3 DEF AllEmpty
  <2> QED  BY <1>1, <2>1, CountType
<1> QED
  BY <1>1, <1>2, <1>3, PosFinite DEF Count

-----------------------------------------------------------------------------
(* What the steps that operations end with do: the table is s with the     *)
(* counters ne and nt, or s is the old table of a resize that begins.      *)
Keeps(s, ne, nt) ==
  /\ nbuckets' = nbuckets /\ slots' = s
  /\ num_empty' = ne /\ num_tombstone' = nt
  /\ pc' # "resize"

Moves(s, ne, nt) ==
  /\ nbuckets' \in 1 .. MaxBuckets /\ slots' = AllEmpty(nbuckets')
  /\ num_empty' = nbuckets' * KernelSize /\ num_tombstone' = 0
  /\ pc' = "resize" /\ todo' = HashPos(s)
  /\ old' = s /\ old_size' = capacity - (ne + nt)

Ends(s, ne, nt) == Keeps(s, ne, nt) \/ Moves(s, ne, nt)

(* resize_ keeps the table or moves its entries.                           *)
LEMMA StartResizeEnds ==
  ASSUME NEW s, NEW ne, NEW nt, NEW end, NEW pend, StartResize(end, s, ne, nt, pend)
  PROVE  Ends(s, ne, nt)
<1>1. CASE /\ slots' = s /\ num_empty' = ne /\ num_tombstone' = nt
           /\ pc' = (IF pend = None THEN "ready" ELSE "insert")
           /\ nbuckets' = nbuckets
  BY <1>1 DEF Ends, Keeps
<1>2. CASE /\ Allocate(resize_target(end, capacity - (ne + nt)) \div KernelSize)
           /\ old' = s /\ old_size' = capacity - (ne + nt) /\ todo' = HashPos(s)
           /\ pc' = "resize"
  BY <1>2 DEF Ends, Moves, Allocate
<1> QED
  BY <1>1, <1>2, Zenon DEF StartResize

(* So does the end of every operation.                                     *)
LEMMA AutoEnds ==
  ASSUME NEW s, NEW ne, NEW nt, NEW buried,
         \/ Return(s, ne, nt) \/ StartScrub(s, ne, nt)
         \/ AutoShrinkAndScrub(s, ne, nt, buried)
  PROVE  Ends(s, ne, nt)
<1>1. ASSUME Return(s, ne, nt) PROVE Ends(s, ne, nt)
  BY <1>1 DEF Return, Ends, Keeps
<1>2. ASSUME StartScrub(s, ne, nt) PROVE Ends(s, ne, nt)
  <2>1. CASE /\ slots' = s /\ num_empty' = ne /\ num_tombstone' = nt
             /\ pc' = "scrub" /\ nbuckets' = nbuckets
    BY <2>1 DEF Ends, Keeps
  <2> QED  BY <1>1, <1>2, <2>1, Zenon DEF StartScrub
<1>3. AutoShrinkAndScrub(s, ne, nt, buried) =>
        \/ StartResize(capacity \div 2, s, ne, nt, None)
        \/ StartScrub(s, ne, nt) \/ Return(s, ne, nt)
  BY DEF AutoShrinkAndScrub
<1> QED
  BY <1>1, <1>2, <1>3, StartResizeEnds

-----------------------------------------------------------------------------
(* The counters.                                                           *)
Counts(s, ne, nt) == ne = Count(s, Empty) /\ nt = Count(s, Tombstone)

Counted == CountersExact /\ ResizeCounters

(* An operation that ends with exact counters leaves them exact.           *)
LEMMA EndsCounted ==
  ASSUME TypeOK, NEW s \in Tables(nbuckets), NEW ne, NEW nt,
         Counts(s, ne, nt), Ends(s, ne, nt)
  PROVE  Counted'
<1>1. CASE Keeps(s, ne, nt)
  BY <1>1 DEF Keeps, Counts, Counted, CountersExact, ResizeCounters
<1>2. CASE Moves(s, ne, nt)
  <2>1. nbuckets \in Nat /\ nbuckets' \in Nat
    BY <1>2, SwissMapAssumption DEF TypeOK, Moves
  <2>2. old_size' = Cardinality(HashPos(s)) /\ Cardinality(HashPos(s)) \in Nat
    BY <1>2, <2>1, CountSlots DEF Moves, Counts, capacity
  <2>3. Count(slots', Empty) = num_empty' /\ num_empty' \in Nat
    <3>1. /\ AllEmpty(nbuckets') \in Tables(nbuckets')
          /\ Count(AllEmpty(nbuckets'), Empty) = nbuckets' * KernelSize
      BY <2>1, CountFresh
    <3>2. Count(AllEmpty(nbuckets'), Empty) \in Nat
      BY <2>1, <3>1, CountType
    <3> QED  BY <1>2, <3>1, <3>2 DEF Moves
  <2>4. TombPos(slots') = {}
    BY <1>2, FreshWellPlaced DEF Moves
  <2>5. pc' = "resize" /\ num_tombstone' = 0 /\ old' = s /\ todo' = HashPos(s)
    BY <1>2 DEF Moves
  <2>6. /\ old_size' = Cardinality(HashPos(old'))
        /\ num_empty' = Count(slots', Empty) + (old_size' - Cardinality(todo'))
    BY <2>2, <2>3, <2>5
  <2> QED  BY <2>4, <2>5, <2>6 DEF Counted, CountersExact, ResizeCounters
<1> QED
  BY <1>1, <1>2 DEF Ends

(* Between the steps of a resize the counters are those of the table.      *)
LEMMA CountedNow ==
  ASSUME TypeOK, Counted, pc # "resize"
  PROVE  /\ nbuckets \in Nat /\ slots \in Tables(nbuckets)
         /\ Counts(slots, num_empty, num_tombstone)
         /\ num_empty \in Nat /\ num_tombstone \in Nat
<1>1. nbuckets \in Nat /\ slots \in Tables(nbuckets)
  BY SwissMapAssumption DEF TypeOK, Tables
<1>2. num_empty = Count(slots, Empty) /\ num_tombstone = Count(slots, Tombstone)
  BY DEF Counted, CountersExact
<1>3. Count(slots, Empty) \in Nat /\ Count(slots, Tombstone) \in Nat
  BY <1>1, CountType, Zenon
<1> QED
  BY <1>1, <1>2, <1>3, Zenon DEF Counts

(* Overwriting an entry does not change the counters.                      *)
LEMMA OverwriteCounts ==
  ASSUME NEW n \in Nat, NEW s \in Tables(n), NEW ne, NEW nt, Counts(s, ne, nt),
         NEW e \in Entry, NEW p \in HashPos(s)
  PROVE  /\ [s EXCEPT ![p] = e] \in Tables(n)
         /\ Counts([s EXCEPT ![p] = e], ne, nt)
<1>1. p \in Pos(n) /\ s[p] # Empty /\ s[p] # Tombstone
  BY SlotKinds DEF HashPos, IsHash
<1>2. e \in Slot /\ e # Empty /\ e # Tombstone
  BY SwissMapAssumption DEF Slot
<1>3. [s EXCEPT ![p] = e] \in Tables(n)
  BY <1>2 DEF Tables
<1>4. Count(s, Empty) \in Nat /\ Count(s, Tombstone) \in Nat
  BY CountType
<1> QED
  BY <1>1, <1>2, <1>3, <1>4, CountStore DEF Counts

(* The slot that an insertion takes is taken from its counter.             *)
LEMMA StoreCounts ==
  ASSUME TypeOK, Counted, pc # "resize",
         NEW e \in Entry, NEW p \in FreePos(slots)
  PROVE  /\ [slots EXCEPT ![p] = e] \in Tables(nbuckets)
         /\ Counts([slots EXCEPT ![p] = e],
                   num_empty - (1 - Reuses(p)), num_tombstone - Reuses(p))
<1> DEFINE t == [slots EXCEPT ![p] = e]
<1>1. /\ nbuckets \in Nat /\ slots \in Tables(nbuckets)
      /\ Counts(slots, num_empty, num_tombstone)
      /\ num_empty \in Nat /\ num_tombstone \in Nat
  BY CountedNow
<1>2. e \in Slot /\ e # Empty /\ e # Tombstone
  BY SwissMapAssumption DEF Slot
<1>3. p \in Pos(nbuckets) /\ (slots[p] = Empty \/ slots[p] = Tombstone)
  BY <1>1, SlotKinds DEF FreePos, EmptyPos, TombPos
<1>4. t \in Tables(nbuckets)
  BY <1>1, <1>2 DEF Tables
<1>5. /\ Count(t, Empty) = num_empty - (IF slots[p] = Empty THEN 1 ELSE 0)
      /\ Count(t, Tombstone) = num_tombstone - (IF slots[p] = Tombstone THEN 1 ELSE 0)
  BY <1>1, <1>2, <1>3, CountStore DEF Counts
<1>6. slots[p] = Tombstone => num_tombstone > 0
  <2>1. Count(slots, Tombstone) = 0 => slots[p] # Tombstone
    BY <1>1, <1>3, CountType
  <2> QED  BY <1>1, <2>1 DEF Counts
<1>7. Reuses(p) = IF slots[p] = Tombstone THEN 1 ELSE 0
  BY <1>6 DEF Reuses
<1> HIDE DEF t
<1>8. ASSUME slots[p] = Empty
      PROVE  Counts(t, num_empty - (1 - Reuses(p)), num_tombstone - Reuses(p))
  BY <1>1, <1>5, <1>7, <1>8, SwissMapAssumption DEF Counts
<1>9. ASSUME slots[p] = Tombstone
      PROVE  Counts(t, num_empty - (1 - Reuses(p)), num_tombstone - Reuses(p))
  BY <1>1, <1>5, <1>7, <1>9, SwissMapAssumption DEF Counts
<1>10. Counts(t, num_empty - (1 - Reuses(p)), num_tombstone - Reuses(p))
  BY <1>3, <1>8, <1>9
<1> QED
  BY <1>4, <1>10 DEF t

-----------------------------------------------------------------------------
(* Unique keys.                                                            *)
Unique(s) == \A p, q \in HashPos(s) : s[p][1] = s[q][1] => p = q

Uniqueness == KeysUnique /\ ResizeUnique

(* An operation that ends with unique keys leaves them unique.             *)
LEMMA EndsUnique ==
  ASSUME NEW s, NEW ne, NEW nt, ~Duplicates => Unique(s), Ends(s, ne, nt)
  PROVE  Uniqueness'
<1>1. CASE Keeps(s, ne, nt)
  BY <1>1 DEF Keeps, Unique, Uniqueness, KeysUnique, ResizeUnique
<1>2. CASE Moves(s, ne, nt)
  <2>1. HashPos(slots') = {} /\ old' = s
    BY <1>2, FreshWellPlaced DEF Moves
  <2> QED  BY <2>1 DEF Unique, Uniqueness, KeysUnique, ResizeUnique
<1> QED
  BY <1>1, <1>2 DEF Ends

(* Overwriting an entry keeps the keys as they are.                        *)
LEMMA OverwriteUnique ==
  ASSUME NEW n, NEW s \in Tables(n), Unique(s),
         NEW e \in Entry, NEW p \in HashPos(s), s[p][1] = e[1]
  PROVE  Unique([s EXCEPT ![p] = e])
<1> DEFINE t == [s EXCEPT ![p] = e]
<1>1. p \in Pos(n) /\ DOMAIN s = Pos(n) /\ DOMAIN t = Pos(n)
  BY SlotKinds DEF Tables
<1>2. t[p] = e /\ \A q \in Pos(n) : q # p => t[q] = s[q]
  BY <1>1
<1> HIDE DEF t
<1>3. \A q \in HashPos(t) : q \in HashPos(s) /\ t[q][1] = s[q][1]
  BY <1>1, <1>2 DEF HashPos
<1>4. Unique(t)
  BY <1>3 DEF Unique
<1> QED
  BY <1>4 DEF t

(* Storing an entry of a key that the table does not have.                 *)
LEMMA StoreUnique ==
  ASSUME NEW n, NEW s \in Tables(n), Unique(s),
         NEW e \in Entry, NEW p \in Pos(n), KeyPos(s, e[1]) = {}
  PROVE  Unique([s EXCEPT ![p] = e])
<1> DEFINE t == [s EXCEPT ![p] = e]
<1>1. DOMAIN s = Pos(n) /\ DOMAIN t = Pos(n)
  BY DEF Tables
<1>2. t[p] = e /\ \A q \in Pos(n) : q # p => t[q] = s[q]
  BY <1>1
<1> HIDE DEF t
<1>3. \A q \in HashPos(t) : q = p \/ (q \in HashPos(s) /\ t[q] = s[q] /\ t[q][1] # e[1])
  BY <1>1, <1>2 DEF HashPos, KeyPos
<1>4. Unique(t)
  BY <1>2, <1>3 DEF Unique
<1> QED
  BY <1>4 DEF t

(* An insertion that takes a slot, in a map without duplicates, has not    *)
(* missed an entry of its key.  It searches on behind tombstones because   *)
(* the counter tells it that there are some.                               *)
LEMMA InsertMisses ==
  ASSUME TypeOK, Placed, Counted, Calling, ~Duplicates,
         NEW k, NEW j \in Steps(nbuckets), NEW p \in Pos(nbuckets),
         InsertTakes(k, j, p)
  PROVE  KeyPos(slots, k) = {}
<1> SUFFICES ASSUME NEW q \in KeyPos(slots, k) PROVE FALSE
  OBVIOUS
<1>1. /\ nbuckets \in Nat /\ slots \in Tables(nbuckets)
      /\ Counts(slots, num_empty, num_tombstone) /\ num_tombstone \in Nat
  BY CountedNow DEF Calling
<1>2. q \in HashPos(slots) /\ slots[q][1] = k /\ q[1] \in BucketsOf(KeyPos(slots, k))
  BY DEF KeyPos, HashPos, BucketsOf
<1>3. PICK i \in Steps(nbuckets) :
        Probe(k, nbuckets, i) = q[1] /\ Reaches(slots, nbuckets, k, i)
  BY <1>2 DEF Placed, WellPlaced, ReachableAt
<1>4. /\ FirstIn(k, nbuckets, InsertStop(k), j)
      /\ Probe(k, nbuckets, j) \notin BucketsOf(KeyPos(slots, k))
  BY DEF InsertTakes
<1>5. q[1] \in InsertStop(k)
  BY <1>2 DEF InsertStop
<1>6. Steps(nbuckets) \subseteq Nat
  BY <1>1, StepsNat
<1>7. j <= i /\ j # i
  BY <1>2, <1>3, <1>4, <1>5, <1>6 DEF FirstIn
<1>8. Probe(k, nbuckets, j) \notin WithEmpty(slots)
  BY <1>3, <1>6, <1>7 DEF Reaches
<1>9. num_tombstone = 0 /\ Probe(k, nbuckets, j) \in BucketsOf(FreePos(slots))
  BY <1>1, <1>4, <1>8 DEF FirstIn, InsertStop
<1>10. TombPos(slots) = {}
  <2>1. \A r \in Pos(nbuckets) : slots[r] # Tombstone
    BY <1>1, <1>9, CountType DEF Counts
  <2> QED  BY <1>1, <2>1 DEF TombPos, Tables
<1> QED
  BY <1>8, <1>9, <1>10 DEF FreePos, WithEmpty, BucketsOf

-----------------------------------------------------------------------------
(* Each kind of step.                                                      *)
CU == Counted /\ Uniqueness

(* What an erasure leaves: the other entries, and exact counters.          *)
LEMMA EraseTable ==
  ASSUME TypeOK, Counted, pc = "ready",
         NEW P \in SUBSET HashPos(slots), EraseSlots(P)
  PROVE  \E s \in Tables(nbuckets) : \E ne, nt :
           /\ \A p \in Pos(nbuckets) : IF p \in P THEN s[p] \in {Empty, Tombstone}
                                       ELSE s[p] = slots[p]
           /\ Counts(s, ne, nt)
           /\ \E buried : AutoShrinkAndScrub(s, ne, nt, buried)
<1> DEFINE n == nbuckets
           E == Emptied(P)
           s == [p \in Pos(n) |->
                   IF p \in E THEN Empty
                   ELSE IF p \in P \ E THEN Tombstone ELSE slots[p]]
           ne == num_empty + Cardinality(E)
           nt == num_tombstone + Cardinality(P \ E)
<1>1. /\ n \in Nat /\ slots \in Tables(n)
      /\ Counts(slots, num_empty, num_tombstone)
  BY CountedNow
<1>2. AutoShrinkAndScrub(s, ne, nt, Cardinality(P \ E))
  BY Zenon DEF EraseSlots
<1>3. E \subseteq P /\ P \subseteq Pos(n) /\ \A p \in P : slots[p] \in Entry
  BY <1>1, SlotKinds DEF Emptied
<1>4. \A p \in P : slots[p] # Empty /\ slots[p] # Tombstone
  BY <1>3, SwissMapAssumption
<1>5. s \in Tables(n)
  BY <1>1 DEF Tables, Slot
<1>6. \A p \in Pos(n) : s[p] = IF p \in E THEN Empty
                               ELSE IF p \in P THEN Tombstone ELSE slots[p]
  OBVIOUS
<1> HIDE DEF E, s
<1>7. Count(s, Empty) = Count(slots, Empty) + Cardinality(E)
  <2>1. \A p \in E : slots[p] # Empty /\ s[p] = Empty
    BY <1>3, <1>4, <1>6
  <2>2. \A p \in Pos(n) \ E : s[p] = Empty <=> slots[p] = Empty
    BY <1>3, <1>4, <1>6, SwissMapAssumption
  <2> QED  BY <1>1, <1>3, <1>5, <2>1, <2>2, CountGain
<1>8. Count(s, Tombstone) = Count(slots, Tombstone) + Cardinality(P \ E)
  <2>1. \A p \in P \ E : slots[p] # Tombstone /\ s[p] = Tombstone
    BY <1>3, <1>4, <1>6
  <2>2. \A p \in Pos(n) \ (P \ E) : s[p] = Tombstone <=> slots[p] = Tombstone
    BY <1>3, <1>4, <1>6, SwissMapAssumption
  <2> QED  BY <1>1, <1>3, <1>5, <2>1, <2>2, CountGain
<1>9. Counts(s, ne, nt)
  BY <1>1, <1>7, <1>8 DEF Counts
<1>10. \A p \in Pos(n) : IF p \in P THEN s[p] \in {Empty, Tombstone} ELSE s[p] = slots[p]
  BY <1>3, <1>6
<1> HIDE DEF ne, nt
<1> QED
  BY <1>2, <1>5, <1>9, <1>10

(* Erasing keeps the counters exact and the keys unique.                   *)
LEMMA EraseCU ==
  ASSUME TypeOK, CU, pc = "ready", NEW P \in SUBSET HashPos(slots), EraseSlots(P)
  PROVE  CU'
<1>1. PICK s \in Tables(nbuckets) : \E ne, nt :
        /\ \A p \in Pos(nbuckets) : IF p \in P THEN s[p] \in {Empty, Tombstone}
                                    ELSE s[p] = slots[p]
        /\ Counts(s, ne, nt)
        /\ \E buried : AutoShrinkAndScrub(s, ne, nt, buried)
  BY EraseTable DEF CU
<1>2. PICK ne, nt : /\ Counts(s, ne, nt)
                    /\ Ends(s, ne, nt)
  BY <1>1, AutoEnds
<1>3. \A p \in HashPos(s) : p \in HashPos(slots) /\ s[p] = slots[p]
  BY <1>1 DEF TypeOK, Tables, HashPos, IsHash
<1>4. ~Duplicates => Unique(s)
  BY <1>3 DEF Unique, CU, Uniqueness, KeysUnique
<1> QED
  BY <1>2, <1>4, EndsCounted, EndsUnique DEF CU

(* So does an insertion.                                                   *)
LEMMA InsertTurnCU ==
  ASSUME TypeOK, Placed, CU, Calling, NEW k \in Keys, NEW v \in Values, InsertTurn(k, v)
  PROVE  CU'
<1> DEFINE e == <<k, v>>
<1>1. /\ nbuckets \in Nat /\ slots \in Tables(nbuckets) /\ e \in Entry /\ e[1] = k
      /\ Counts(slots, num_empty, num_tombstone) /\ pc # "resize"
  BY CountedNow DEF Calling, Entry, CU
<1>2. ~Duplicates => Unique(slots)
  BY DEF Unique, CU, Uniqueness, KeysUnique
<1> HIDE DEF e
<1>3. ASSUME NEW j \in Steps(nbuckets), NEW p \in Pos(nbuckets), InsertFinds(k, j, p),
             Return([slots EXCEPT ![p] = e], num_empty, num_tombstone)
      PROVE  CU'
  <2>1. p \in HashPos(slots) /\ slots[p][1] = k
    BY <1>3 DEF InsertFinds, LowestIn, KeyPos, HashPos
  <2>2. ~Duplicates => Unique([slots EXCEPT ![p] = e])
    BY <1>1, <1>2, <2>1, OverwriteUnique
  <2>3. /\ [slots EXCEPT ![p] = e] \in Tables(nbuckets)
        /\ Counts([slots EXCEPT ![p] = e], num_empty, num_tombstone)
    BY <1>1, <2>1, OverwriteCounts
  <2> QED  BY <1>3, <2>2, <2>3, AutoEnds, EndsCounted, EndsUnique DEF CU
<1>4. ASSUME NEW j \in Steps(nbuckets), NEW p \in Pos(nbuckets), InsertTakes(k, j, p),
             Return([slots EXCEPT ![p] = e],
                    num_empty - (1 - Reuses(p)), num_tombstone - Reuses(p))
      PROVE  CU'
  <2>1. p \in FreePos(slots)
    BY <1>4, InsertTakesReached
  <2>2. ~Duplicates => Unique([slots EXCEPT ![p] = e])
    <3>1. ~Duplicates => KeyPos(slots, k) = {}
      BY <1>4, InsertMisses DEF CU
    <3> QED  BY <1>1, <1>2, <3>1, StoreUnique
  <2>3. /\ [slots EXCEPT ![p] = e] \in Tables(nbuckets)
        /\ Counts([slots EXCEPT ![p] = e],
                  num_empty - (1 - Reuses(p)), num_tombstone - Reuses(p))
    BY <1>1, <2>1, StoreCounts DEF CU
  <2> QED  BY <1>4, <2>2, <2>3, AutoEnds, EndsCounted, EndsUnique DEF CU
<1>5. ASSUME StartResize(2 * capacity, slots, num_empty, num_tombstone, e)
      PROVE  CU'
  BY <1>1, <1>2, <1>5, StartResizeEnds, EndsCounted, EndsUnique DEF CU
<1> QED
  BY <1>3, <1>4, <1>5, Zenon DEF InsertTurn, e

(* Moving an entry of the old table, or starting over.                     *)
LEMMA RehashCU ==
  ASSUME TypeOK, CU, RehashEntry
  PROVE  CU'
<1>1. pc = "resize" /\ pc' = "resize" /\ old' = old /\ old_size' = old_size
  BY DEF RehashEntry, rehash
<1>2. PICK m \in 0 .. MaxBuckets : old \in Tables(m)
  BY DEF TypeOK, Tables
<1>3. /\ m \in Nat /\ nbuckets \in Nat /\ slots \in Tables(nbuckets)
      /\ todo \subseteq HashPos(old) /\ old_size = Cardinality(HashPos(old))
      /\ num_tombstone = 0 /\ TombPos(slots) = {}
      /\ num_empty = Count(slots, Empty) + (old_size - Cardinality(todo))
  BY <1>1, SwissMapAssumption DEF TypeOK, Tables, CU, Counted, ResizeCounters
<1>4. /\ IsFiniteSet(HashPos(old)) /\ IsFiniteSet(todo)
      /\ Cardinality(HashPos(old)) \in Nat /\ Cardinality(todo) \in Nat
  <2>1. HashPos(old) \in SUBSET Pos(m) /\ todo \in SUBSET Pos(m)
    BY <1>2, <1>3, SlotKinds
  <2> QED  BY <1>3, <2>1, PosCardinality
<1>5. PICK p \in todo :
       \/ \E j \in Steps(nbuckets), q \in Pos(nbuckets) :
            /\ LowestIn(FreePos(slots), Probe(old[p][1], nbuckets, j), q)
            /\ slots' = [slots EXCEPT ![q] = old[p]]
            /\ todo' = todo \ {p}
            /\ UNCHANGED <<nbuckets, num_empty, num_tombstone>>
       \/ Allocate(RestartedBuckets) /\ todo' = HashPos(old)
  BY Zenon DEF RehashEntry, Restarted
<1>6. old[p] \in Entry /\ p \in HashPos(old)
  BY <1>2, <1>3, SlotKinds
<1>7. ASSUME NEW q \in FreePos(slots),
             slots' = [slots EXCEPT ![q] = old[p]], todo' = todo \ {p},
             UNCHANGED <<nbuckets, num_empty, num_tombstone>>
      PROVE  CU'
  <2>1. /\ q \in Pos(nbuckets) /\ slots[q] = Empty
        /\ old[p] \in Slot /\ old[p] # Empty /\ old[p] # Tombstone
    BY <1>3, <1>6, SlotKinds, SwissMapAssumption DEF FreePos, EmptyPos, Slot
  <2>2. Cardinality(todo') = Cardinality(todo) - 1
    BY <1>4, <1>7, FS_RemoveElement
  <2>3. Count(slots', Empty) = Count(slots, Empty) - 1 /\ Count(slots, Empty) \in Nat
    <3>1. Count([slots EXCEPT ![q] = old[p]], Empty)
            = Count(slots, Empty) + (IF old[p] = Empty THEN 1 ELSE 0)
                                  - (IF slots[q] = Empty THEN 1 ELSE 0)
      BY <1>3, <2>1, CountStore
    <3>2. Count(slots, Empty) \in Nat
      BY <1>3, CountType
    <3> QED  BY <1>7, <2>1, <3>1, <3>2
  <2>4. /\ slots'[q] = old[p] /\ DOMAIN slots' = DOMAIN slots
        /\ \A r \in DOMAIN slots : r # q => slots'[r] = slots[r]
    BY <1>3, <1>7, <2>1 DEF Tables
  <2>5. TombPos(slots') = {}
    BY <1>3, <2>1, <2>4 DEF TombPos
  <2>6. Counted'
    <3>1. num_empty' = Count(slots', Empty) + (old_size - Cardinality(todo'))
      BY <1>3, <1>4, <1>7, <2>2, <2>3
    <3> QED  BY <1>1, <1>3, <1>7, <2>5, <3>1 DEF Counted, CountersExact, ResizeCounters
  <2>7. ASSUME ~Duplicates PROVE Unique(slots')
    <3>1. Unique(slots) /\ KeyPos(slots, old[p][1]) = {}
      BY <1>1, <2>7
         DEF CU, Uniqueness, KeysUnique, ResizeUnique, Unique, KeyPos, HashPos
    <3> QED  BY <1>3, <1>6, <1>7, <2>1, <3>1, StoreUnique
  <2>8. ASSUME ~Duplicates, NEW r \in todo', NEW h \in HashPos(slots')
        PROVE  old[r][1] # slots'[h][1]
    <3>1. r \in todo /\ r # p /\ old[r][1] # old[p][1]
      BY <1>1, <1>3, <1>6, <1>7, <2>8 DEF CU, Uniqueness, ResizeUnique
    <3>2. h = q \/ (h \in HashPos(slots) /\ slots'[h] = slots[h])
      BY <2>4 DEF HashPos
    <3> QED  BY <1>1, <2>4, <2>8, <3>1, <3>2 DEF CU, Uniqueness, ResizeUnique
  <2>9. Uniqueness'
    BY <1>1, <2>7, <2>8 DEF CU, Uniqueness, KeysUnique, ResizeUnique, Unique
  <2> QED  BY <2>6, <2>9 DEF CU
<1>8. ASSUME Allocate(RestartedBuckets), todo' = HashPos(old)
      PROVE  CU'
  <2>1. /\ nbuckets' \in Nat /\ slots' = AllEmpty(nbuckets')
        /\ num_empty' = nbuckets' * KernelSize /\ num_tombstone' = 0
    BY <1>8 DEF Allocate
  <2>2. /\ Count(slots', Empty) = num_empty' /\ num_empty' \in Nat
        /\ TombPos(slots') = {} /\ HashPos(slots') = {}
    <3> DEFINE nb == nbuckets'
               s == slots'
    <3>1. nb \in Nat /\ s = AllEmpty(nb) /\ num_empty' = nb * KernelSize
      BY <2>1
    <3> HIDE DEF nb, s
    <3>2. s \in Tables(nb) /\ Count(s, Empty) = nb * KernelSize
      BY <3>1, CountFresh
    <3>3. Count(s, Empty) \in Nat
      BY <3>1, <3>2, CountType, Zenon
    <3>4. TombPos(s) = {} /\ HashPos(s) = {}
      BY <3>1, FreshWellPlaced
    <3> QED  BY <3>1, <3>2, <3>3, <3>4 DEF nb, s
  <2>3. num_empty' = Count(slots', Empty) + (old_size - Cardinality(todo'))
    BY <1>3, <1>4, <1>8, <2>2
  <2>4. Counted'
    BY <1>1, <1>3, <2>1, <2>2, <2>3 DEF Counted, CountersExact, ResizeCounters
  <2>5. Uniqueness'
    BY <1>1, <2>2 DEF CU, Uniqueness, KeysUnique, ResizeUnique
  <2> QED  BY <2>4, <2>5 DEF CU
<1> QED
  BY <1>5, <1>7, <1>8 DEF LowestIn

(* The end of resize_ accounts for the entries it has moved.               *)
LEMMA FinishResizeCU ==
  ASSUME TypeOK, CU, FinishResize
  PROVE  CU'
<1>1. /\ pc = "resize" /\ todo = {} /\ pc' # "resize"
      /\ slots' = slots /\ num_tombstone' = num_tombstone
      /\ num_empty' = num_empty - old_size
  BY DEF FinishResize
<1>2. nbuckets \in Nat /\ slots \in Tables(nbuckets) /\ old_size \in Int
  BY SwissMapAssumption DEF TypeOK, Tables
<1>3. /\ num_empty = Count(slots, Empty) + (old_size - 0)
      /\ num_tombstone = 0 /\ TombPos(slots) = {}
  BY <1>1, FS_EmptySet DEF CU, Counted, ResizeCounters
<1>4. Count(slots, Empty) \in Nat
  BY <1>2, CountType
<1>5. Count(slots, Tombstone) = 0
  BY <1>3, FS_EmptySet DEF Count, TombPos
<1>6. Counted'
  <2>1. num_empty' = Count(slots', Empty)
    BY <1>1, <1>2, <1>3, <1>4
  <2> QED  BY <1>1, <1>3, <1>5, <2>1 DEF Counted, CountersExact, ResizeCounters
<1>7. Uniqueness'
  BY <1>1 DEF CU, Uniqueness, KeysUnique, ResizeUnique
<1> QED
  BY <1>6, <1>7 DEF CU

(* Moving the entry at p to another slot q and leaving x at p: only the    *)
(* numbers of what was at q and of x change.                               *)
LEMMA MoveCounts ==
  ASSUME NEW n \in Nat, NEW s \in Tables(n), NEW t \in Tables(n),
         NEW p \in Pos(n), NEW q \in Pos(n), p # q, t[q] = s[p],
         \A r \in Pos(n) : r # p /\ r # q => t[r] = s[r], NEW y
  PROVE  Count(t, y) = Count(s, y) + (IF t[p] = y THEN 1 ELSE 0)
                                   - (IF s[q] = y THEN 1 ELSE 0)
<1> DEFINE u == [s EXCEPT ![q] = s[p]]
<1>1. u \in Tables(n) /\ u[q] = s[p] /\ u[p] = s[p]
  BY DEF Tables
<1>2. \A r \in Pos(n) \ {q} : u[r] = s[r]
  BY DEF Tables
<1> HIDE DEF u
<1>3. Count(u, y) = Count(s, y) + (IF s[p] = y THEN 1 ELSE 0)
                                - (IF s[q] = y THEN 1 ELSE 0)
  BY <1>1, <1>2, CountChange
<1>4. \A r \in Pos(n) \ {p} : t[r] = u[r]
  BY <1>1, <1>2
<1>5. Count(t, y) = Count(u, y) + (IF t[p] = y THEN 1 ELSE 0)
                                - (IF s[p] = y THEN 1 ELSE 0)
  BY <1>1, <1>4, CountChange
<1>6. Count(s, y) \in Nat /\ Count(u, y) \in Nat /\ Count(t, y) \in Nat
  BY <1>1, CountType
<1> QED
  BY <1>3, <1>5, <1>6

(* What a step of scrub_ that moves an entry does to the table.            *)
LEMMA ScrubMovesTable ==
  ASSUME TypeOK, Placed, NEW p \in HashPos(slots), NEW j \in Steps(nbuckets),
         FirstIn(slots[p][1], nbuckets, ScrubStop(p), j),
         NEW q \in Pos(nbuckets), ScrubMoves(p, j, q)
  PROVE  \E x \in {Empty, Tombstone} :
           /\ q # p /\ p \in Pos(nbuckets) /\ slots[q] = Tombstone
           /\ slots' = [slots EXCEPT ![q] = slots[p], ![p] = x]
           /\ num_empty' = num_empty + (IF x = Empty THEN 1 ELSE 0)
           /\ num_tombstone' = num_tombstone - (IF x = Empty THEN 1 ELSE 0)
<1>1. q # p /\ p \in Pos(nbuckets) /\ slots[q] = Tombstone
  BY ScrubTarget, SlotKinds DEF TombPos, TypeOK, Tables
<1>2. CASE p[1] \in WithEmpty(slots)
  BY <1>1, <1>2 DEF ScrubMoves
<1>3. CASE p[1] \notin WithEmpty(slots)
  BY <1>1, <1>3, SwissMapAssumption DEF ScrubMoves
<1> QED
  BY <1>2, <1>3

(* A step of a pass visits an entry and leaves or moves it.                *)
LEMMA ScrubEntryCases ==
  ASSUME TypeOK, Placed, ScrubEntry
  PROVE  /\ pc = "scrub" /\ UNCHANGED <<nbuckets, pc, pending, rehash>>
         /\ \/ UNCHANGED <<slots, num_empty, num_tombstone>>
            \/ \E p \in HashPos(slots), q \in Pos(nbuckets), x \in {Empty, Tombstone} :
                 /\ q # p /\ p \in Pos(nbuckets) /\ slots[q] = Tombstone
                 /\ slots' = [slots EXCEPT ![q] = slots[p], ![p] = x]
                 /\ num_empty' = num_empty + (IF x = Empty THEN 1 ELSE 0)
                 /\ num_tombstone' = num_tombstone - (IF x = Empty THEN 1 ELSE 0)
<1>1. pc = "scrub" /\ UNCHANGED <<nbuckets, pc, pending, rehash>>
  BY DEF ScrubEntry
<1>2. PICK p \in todo \cap HashPos(slots), j \in Steps(nbuckets) :
        /\ FirstIn(slots[p][1], nbuckets, ScrubStop(p), j)
        /\ \/ ScrubStays(p, j)
           \/ \E q \in Pos(nbuckets) : ScrubMoves(p, j, q)
  BY Zenon DEF ScrubEntry
<1>3. CASE ScrubStays(p, j)
  BY <1>1, <1>3 DEF ScrubStays
<1>4. ASSUME NEW q \in Pos(nbuckets), ScrubMoves(p, j, q)
      PROVE  \E x \in {Empty, Tombstone} :
               /\ q # p /\ p \in Pos(nbuckets) /\ slots[q] = Tombstone
               /\ slots' = [slots EXCEPT ![q] = slots[p], ![p] = x]
               /\ num_empty' = num_empty + (IF x = Empty THEN 1 ELSE 0)
               /\ num_tombstone' = num_tombstone - (IF x = Empty THEN 1 ELSE 0)
  BY <1>2, <1>4, ScrubMovesTable
<1> QED
  BY <1>1, <1>2, <1>3, <1>4, Zenon

(* A move keeps the counters exact and the keys unique.                    *)
LEMMA ScrubEntryCU ==
  ASSUME TypeOK, Placed, CU, ScrubEntry
  PROVE  CU'
<1>1. pc = "scrub" /\ pc' = pc /\ nbuckets' = nbuckets
  BY ScrubEntryCases
<1>2. /\ nbuckets \in Nat /\ slots \in Tables(nbuckets)
      /\ num_empty = Count(slots, Empty) /\ num_tombstone = Count(slots, Tombstone)
      /\ num_empty \in Nat /\ num_tombstone \in Nat
  BY <1>1, CountedNow DEF CU, Counts
<1>3. CASE UNCHANGED <<slots, num_empty, num_tombstone>>
  BY <1>1, <1>2, <1>3
     DEF CU, Counted, CountersExact, ResizeCounters, Uniqueness, KeysUnique, ResizeUnique
<1>4. ASSUME NEW p \in HashPos(slots), NEW q \in Pos(nbuckets), NEW x \in {Empty, Tombstone},
             q # p, p \in Pos(nbuckets), slots[q] = Tombstone,
             slots' = [slots EXCEPT ![q] = slots[p], ![p] = x],
             num_empty' = num_empty + (IF x = Empty THEN 1 ELSE 0),
             num_tombstone' = num_tombstone - (IF x = Empty THEN 1 ELSE 0)
      PROVE  CU'
  <2>1. x \in Slot
    BY DEF Slot
  <2>2. /\ slots' \in Tables(nbuckets) /\ slots'[q] = slots[p] /\ slots'[p] = x
        /\ \A r \in Pos(nbuckets) : r # p /\ r # q => slots'[r] = slots[r]
    BY <1>2, <1>4, <2>1 DEF Tables
  <2>3. ASSUME NEW y
         PROVE  Count(slots', y) = Count(slots, y) + (IF x = y THEN 1 ELSE 0)
                                                   - (IF slots[q] = y THEN 1 ELSE 0)
    <3>1. /\ p # q /\ p \in Pos(nbuckets) /\ q \in Pos(nbuckets)
          /\ nbuckets \in Nat /\ slots \in Tables(nbuckets)
      BY <1>2, <1>4
    <3>2. Count(slots', y) = Count(slots, y) + (IF slots'[p] = y THEN 1 ELSE 0)
                                             - (IF slots[q] = y THEN 1 ELSE 0)
      BY <2>2, <3>1, MoveCounts
    <3> QED  BY <2>2, <3>2
  <2>4. Count(slots', Empty) = num_empty'
    <3>1. Count(slots', Empty) = Count(slots, Empty) + (IF x = Empty THEN 1 ELSE 0)
                                                     - (IF slots[q] = Empty THEN 1 ELSE 0)
      BY <2>3
    <3> QED  BY <1>2, <1>4, <3>1, SwissMapAssumption
  <2>5. Count(slots', Tombstone) = num_tombstone'
    <3>1. Count(slots', Tombstone)
            = Count(slots, Tombstone) + (IF x = Tombstone THEN 1 ELSE 0)
                                      - (IF slots[q] = Tombstone THEN 1 ELSE 0)
      BY <2>3
    <3>2. (IF x = Tombstone THEN 1 ELSE 0) - 1 = 0 - (IF x = Empty THEN 1 ELSE 0)
      BY <1>4, SwissMapAssumption
    <3> QED  BY <1>2, <1>4, <3>1, <3>2
  <2>6. Counted'
    BY <1>1, <2>4, <2>5 DEF Counted, CountersExact, ResizeCounters
  <2>7. \A r \in HashPos(slots') : \/ r = q /\ slots'[r] = slots[p]
                                   \/ r # p /\ r \in HashPos(slots) /\ slots'[r] = slots[r]
    BY <1>2, <1>4, SwissMapAssumption DEF HashPos, IsHash, Tables
  <2>8. ~Duplicates => Unique(slots')
    BY <2>7 DEF CU, Uniqueness, KeysUnique, Unique
  <2>9. Uniqueness'
    BY <1>1, <2>8 DEF Uniqueness, KeysUnique, ResizeUnique, Unique
  <2> QED  BY <2>6, <2>9 DEF CU
<1> QED
  BY <1>3, <1>4, ScrubEntryCases, Zenon

(* The end of scrub_: the slots that become empty are tombstones, and they *)
(* are as many as the counters say.                                        *)
LEMMA FinishScrubTable ==
  ASSUME TypeOK, CU, FinishScrub
  PROVE  /\ pc = "scrub" /\ pc' = "ready" /\ nbuckets' = nbuckets
         /\ slots' \in Tables(nbuckets)
         /\ \A p \in Pos(nbuckets) :
              \/ slots'[p] = slots[p]
              \/ slots[p] = Tombstone /\ slots'[p] = Empty
         /\ num_empty' = Count(slots', Empty)
         /\ num_tombstone' = Count(slots', Tombstone)
<1> DEFINE R == Reclaimed
<1>1. pc = "scrub" /\ pc' = "ready" /\ nbuckets' = nbuckets
  BY DEF FinishScrub, PassDone
<1>2. /\ nbuckets \in Nat /\ slots \in Tables(nbuckets) /\ DOMAIN slots = Pos(nbuckets)
      /\ num_empty = Count(slots, Empty) /\ num_tombstone = Count(slots, Tombstone)
      /\ num_empty \in Nat /\ num_tombstone \in Nat
  BY <1>1, CountedNow DEF CU, Counts, Tables
<1>3. /\ slots' \in Tables(nbuckets) /\ DOMAIN slots' = Pos(nbuckets)
      /\ \A p \in Pos(nbuckets) : slots'[p] = IF p \in R THEN Empty ELSE slots[p]
  BY <1>2 DEF FinishScrub, Tables, Slot
<1>4. R \in SUBSET TombPos(slots) /\ R \in SUBSET Pos(nbuckets)
  BY <1>2 DEF Reclaimed, DeadPos, TombPos
<1>5. NumReclaimed = Cardinality(R)
  <2>1. Cardinality({}) = 0 /\ num_tombstone = Cardinality(TombPos(slots))
    BY <1>2, FS_EmptySet DEF Count, TombPos
  <2> QED  BY <2>1 DEF NumReclaimed, Reclaimed
<1>6. IsFiniteSet(R) /\ Cardinality(R) \in Nat
  BY <1>2, <1>4, PosCardinality
<1> HIDE DEF R
<1>7. \A p \in R : slots[p] = Tombstone /\ slots'[p] = Empty
  BY <1>3, <1>4 DEF TombPos
<1>8. Count(slots', Empty) = Count(slots, Empty) + Cardinality(R)
  <2>1. \A p \in R : slots[p] # Empty /\ slots'[p] = Empty
    BY <1>7, SwissMapAssumption
  <2>2. \A p \in Pos(nbuckets) \ R : slots'[p] = Empty <=> slots[p] = Empty
    BY <1>3
  <2> QED  BY <1>2, <1>3, <1>4, <2>1, <2>2, CountGain
<1>9. Count(slots, Tombstone) = Count(slots', Tombstone) + Cardinality(R)
  <2>1. \A p \in R : slots'[p] # Tombstone /\ slots[p] = Tombstone
    BY <1>7, SwissMapAssumption
  <2>2. \A p \in Pos(nbuckets) \ R : slots[p] = Tombstone <=> slots'[p] = Tombstone
    BY <1>3
  <2> QED  BY <1>2, <1>3, <1>4, <2>1, <2>2, CountGain
<1>10. Count(slots', Tombstone) \in Nat
  BY <1>2, <1>3, CountType
<1>11. num_empty' = num_empty + NumReclaimed /\ num_tombstone' = num_tombstone - NumReclaimed
  BY DEF FinishScrub
<1>12. num_empty' = Count(slots', Empty) /\ num_tombstone' = Count(slots', Tombstone)
  BY <1>2, <1>5, <1>6, <1>8, <1>9, <1>10, <1>11
<1> QED
  BY <1>1, <1>3, <1>7, <1>12

(* So the counters stay exact and the keys unique.                         *)
LEMMA FinishScrubCU ==
  ASSUME TypeOK, CU, FinishScrub
  PROVE  CU'
<1>1. /\ pc' = "ready" /\ slots \in Tables(nbuckets) /\ slots' \in Tables(nbuckets)
      /\ \A p \in Pos(nbuckets) : \/ slots'[p] = slots[p]
                                  \/ slots[p] = Tombstone /\ slots'[p] = Empty
      /\ num_empty' = Count(slots', Empty)
      /\ num_tombstone' = Count(slots', Tombstone)
  BY FinishScrubTable DEF TypeOK, Tables
<1>2. \A p \in HashPos(slots') : p \in HashPos(slots) /\ slots'[p] = slots[p]
  BY <1>1 DEF HashPos, IsHash, Tables
<1>3. Counted'
  BY <1>1 DEF Counted, CountersExact, ResizeCounters
<1>4. Uniqueness'
  BY <1>1, <1>2 DEF CU, Uniqueness, KeysUnique, ResizeUnique
<1> QED
  BY <1>3, <1>4 DEF CU

(* The empty map.                                                          *)
LEMMA InitCU ==
  ASSUME Init
  PROVE  CU
<1>1. /\ nbuckets \in Nat /\ slots = AllEmpty(nbuckets) /\ pc = "ready"
      /\ num_empty = nbuckets * KernelSize /\ num_tombstone = 0
  BY SwissMapAssumption DEF Init
<1>2. /\ Count(slots, Empty) = nbuckets * KernelSize /\ Count(slots, Tombstone) = 0
  BY <1>1, CountFresh, SwissMapAssumption
<1>3. HashPos(slots) = {}
  BY <1>1, FreshWellPlaced
<1> QED
  BY <1>1, <1>2, <1>3
     DEF CU, Counted, CountersExact, ResizeCounters, Uniqueness, KeysUnique, ResizeUnique

(* Every step keeps the counters exact and the keys unique.                *)
LEMMA NextCU ==
  ASSUME TypeOK, Placed, CU, [Next]_vars
  PROVE  CU'
<1>1. slots \in Tables(nbuckets) /\ nbuckets \in Nat /\ (~Duplicates => Unique(slots))
  BY SwissMapAssumption DEF TypeOK, Tables, CU, Uniqueness, KeysUnique, Unique
<1>2. ASSUME pc = "ready" PROVE Counts(slots, num_empty, num_tombstone)
  BY <1>2, CountedNow DEF CU
<1>3. CASE UNCHANGED vars
  BY <1>3 DEF vars, table, rehash, CU, Counted, CountersExact, ResizeCounters,
              Uniqueness, KeysUnique, ResizeUnique
<1>4. CASE pc = "ready" /\ Overwrites
  <2>1. PICK k \in Keys, v \in Values, p \in HashPos(slots) :
          /\ slots[p][1] = k
          /\ Return([slots EXCEPT ![p] = <<k, v>>], num_empty, num_tombstone)
    BY <1>4 DEF Overwrites
  <2> DEFINE e == <<k, v>>
  <2>2. e \in Entry /\ slots[p][1] = e[1]
    BY <2>1 DEF Entry
  <2>3. Ends([slots EXCEPT ![p] = e], num_empty, num_tombstone)
    BY <2>1, AutoEnds
  <2> HIDE DEF e
  <2>4. /\ [slots EXCEPT ![p] = e] \in Tables(nbuckets)
        /\ Counts([slots EXCEPT ![p] = e], num_empty, num_tombstone)
    BY <1>1, <1>2, <1>4, <2>2, OverwriteCounts
  <2>5. ~Duplicates => Unique([slots EXCEPT ![p] = e])
    BY <1>1, <2>2, OverwriteUnique
  <2> QED  BY <2>3, <2>4, <2>5, EndsCounted, EndsUnique DEF CU
<1>5. CASE Calling /\ Inserts
  BY <1>5, InsertTurnCU DEF Inserts
<1>6. CASE pc = "ready" /\ Erases
  BY <1>6, EraseCU DEF Erases
<1>7. CASE pc = "ready" /\ Resizes
  <2>1. Ends(slots, num_empty, num_tombstone)
    BY <1>7, StartResizeEnds DEF Resizes
  <2> QED  BY <1>1, <1>2, <1>7, <2>1, EndsCounted, EndsUnique DEF CU
<1>8. CASE pc = "ready" /\ StartScrub(slots, num_empty, num_tombstone)
  <2>1. Ends(slots, num_empty, num_tombstone)
    BY <1>8, AutoEnds
  <2> QED  BY <1>1, <1>2, <1>8, <2>1, EndsCounted, EndsUnique DEF CU
<1>9. CASE pc = "ready" /\ Empties
  <2>1. /\ nbuckets' \in Nat /\ slots' = AllEmpty(nbuckets') /\ pc' = "ready"
        /\ num_empty' = nbuckets' * KernelSize /\ num_tombstone' = 0
    BY <1>9 DEF Empties, Allocate
  <2>2. Count(slots', Empty) = num_empty' /\ Count(slots', Tombstone) = 0
    BY <2>1, CountFresh, SwissMapAssumption
  <2>3. HashPos(slots') = {}
    BY <2>1, FreshWellPlaced
  <2> QED  BY <2>1, <2>2, <2>3
       DEF CU, Counted, CountersExact, ResizeCounters, Uniqueness, KeysUnique, ResizeUnique
<1>10. CASE NextPass
  <2>1. /\ pc = "scrub" /\ pc' = pc /\ slots' = slots
        /\ num_empty' = num_empty /\ num_tombstone' = num_tombstone
    BY <1>10 DEF NextPass, PassDone, table
  <2> QED  BY <2>1 DEF CU, Counted, CountersExact, ResizeCounters, Uniqueness,
                       KeysUnique, ResizeUnique
<1> QED
  BY <1>3, <1>4, <1>5, <1>6, <1>7, <1>8, <1>9, <1>10, NextCases, RehashCU,
     FinishResizeCU, ScrubEntryCU, FinishScrubCU

-----------------------------------------------------------------------------
(* The inductive invariant.  It is IInv of SwissMap.                       *)
LEMMA Inductive ==
  ASSUME KernelSize > 1
  PROVE  Spec => [](TypeOK /\ Placed /\ CU)
<1>1. Init => TypeOK /\ Placed /\ CU
  BY InitType, InitPlaced, InitCU
<1>2. TypeOK /\ Placed /\ CU /\ [Next]_vars => (TypeOK /\ Placed /\ CU)'
  BY NextType, NextPlaced, NextCU
<1> QED
  BY <1>1, <1>2, PTL DEF Spec

(* The strengthening that the runs check is what is inductive here.        *)
THEOREM InductiveInvariant ==
  ASSUME KernelSize > 1
  PROVE  Spec => []IInv
<1>1. TypeOK /\ Placed /\ CU => IInv
  BY WellPlacedMeans DEF Placed, CU, Counted, Uniqueness, IInv
<1> QED
  BY <1>1, Inductive, PTL

(* Outside of a resize num_empty_ and num_tombstone_ are always what       *)
(* check_integrity_ counts: no order of insertions into empty slots and    *)
(* tombstones, erasures, moves of scrub_, its reclaiming and restarted     *)
(* resizes makes them drift.                                               *)
THEOREM CountersCorrect ==
  ASSUME KernelSize > 1
  PROVE  Spec => []CountersExact
<1>1. IInv => CountersExact
  BY DEF IInv
<1> QED
  BY <1>1, InductiveInvariant, PTL

(* A map without duplicates never stores a key twice, although insert_     *)
(* ends its search where num_tombstone_ tells it to.                       *)
THEOREM KeysStayUnique ==
  ASSUME KernelSize > 1
  PROVE  Spec => []KeysUnique
<1>1. IInv => KeysUnique
  BY DEF IInv
<1> QED
  BY <1>1, InductiveInvariant, PTL

(* No bucket ever has an empty slot and a tombstone, which an insertion    *)
(* takes for granted ("Table corrupted!").                                 *)
THEOREM BucketsSound ==
  ASSUME KernelSize > 1
  PROVE  Spec => []TombstonesOnlyInFullBuckets
<1>1. IInv => TombstonesOnlyInFullBuckets
  BY DEF IInv
<1> QED
  BY <1>1, InductiveInvariant, PTL

(* While scrub_ goes over the entries, its flags tell the truth about the  *)
(* entries it has visited, which is what it reclaims tombstones by.        *)
THEOREM ScrubFlagsSound ==
  ASSUME KernelSize > 1
  PROVE  Spec => []PassProgress
<1>1. IInv => PassProgress
  BY DEF IInv
<1> QED
  BY <1>1, InductiveInvariant, PTL

-----------------------------------------------------------------------------
(* Iterating over the entries of a key.                                    *)

(* find_next_ goes on as long as there is an entry it has not met.         *)
LEMMA NextIsFound ==
  ASSUME TypeOK, EntriesReachable, NEW k, NEW j \in Steps(nbuckets),
         NEW p \in Pos(nbuckets), p[1] = Probe(k, nbuckets, j),
         NEW q \in KeyPos(slots, k), ~(q[1] = p[1] /\ q[2] <= p[2]),
         \A i \in Steps(nbuckets) : i < j => Probe(k, nbuckets, i) # q[1]
  PROVE  \E i \in Steps(nbuckets), r \in Pos(nbuckets) :
           FindsNext(slots, nbuckets, k, j, p, i, r)
<1> DEFINE n == nbuckets
<1>1. n \in Nat /\ DOMAIN slots = Pos(n) /\ Steps(n) \subseteq Nat
  BY StepsNat DEF TypeOK
<1>2. KeyPos(slots, k) \in SUBSET Pos(n)
  BY <1>1 DEF KeyPos
<1>3. PICK i \in Steps(n) : Probe(k, n, i) = q[1] /\ Reaches(slots, n, k, i)
  BY DEF EntriesReachable, ReachableAt, KeyPos, HashPos
<1>4. CASE InBucketAfter(slots, k, p) # {}
  <2>1. /\ InBucketAfter(slots, k, p) \in SUBSET Pos(n)
        /\ \E r \in InBucketAfter(slots, k, p) : r[1] = p[1]
    BY <1>2, <1>4 DEF InBucketAfter
  <2>2. PICK r \in InBucketAfter(slots, k, p) :
          LowestIn(InBucketAfter(slots, k, p), p[1], r)
    BY <1>1, <2>1, LowestExists
  <2> QED  BY <2>1, <2>2 DEF FindsNext
<1>5. CASE InBucketAfter(slots, k, p) = {}
  <2>1. q[1] # p[1]
    <3>1. q[2] \in Nat /\ p[2] \in Nat
      BY <1>2 DEF Pos, Lanes
    <3> QED  BY <1>5, <3>1 DEF InBucketAfter
  <2>2. j < i
    BY <1>1, <1>3, <2>1
  <2>3. LeavesBucket(slots, k, p)
    BY <1>3, <1>5, <2>2 DEF LeavesBucket, Reaches
  <2> DEFINE S == {h \in Steps(n) : j < h /\ Probe(k, n, h) \in FindStop(slots, k)}
  <2>4. q[1] \in BucketsOf(KeyPos(slots, k))
    BY DEF BucketsOf
  <2>5. S \in SUBSET Nat /\ i \in S
    BY <1>1, <1>3, <2>2, <2>4 DEF FindStop
  <2> HIDE DEF S
  <2>6. PICK m \in S : \A h \in S : m <= h
    BY <2>5, LeastNat
  <2>7. /\ m \in Steps(n) /\ j < m /\ m <= i
        /\ Probe(k, n, m) \in FindStop(slots, k)
        /\ \A h \in Steps(n) : j < h /\ h < m => Probe(k, n, h) \notin FindStop(slots, k)
    BY <1>1, <2>5, <2>6 DEF S
  <2>8. Probe(k, n, m) \in BucketsOf(KeyPos(slots, k))
    <3>1. CASE m = i
      BY <1>3, <2>4, <3>1
    <3>2. CASE m # i
      BY <1>1, <1>3, <2>7, <3>2 DEF Reaches, FindStop
    <3> QED  BY <3>1, <3>2
  <2>9. PICK r \in KeyPos(slots, k) : LowestIn(KeyPos(slots, k), Probe(k, n, m), r)
    <3>1. \E r \in KeyPos(slots, k) : r[1] = Probe(k, n, m)
      BY <2>8 DEF BucketsOf
    <3> QED  BY <1>1, <1>2, <3>1, LowestExists
  <2> QED  BY <1>1, <1>2, <2>3, <2>7, <2>9 DEF FindsNext
<1> QED
  BY <1>4, <1>5

(* find_first and find_next together miss no entry of a key: when none     *)
(* follows, all have been passed, wherever duplicates have ended up and    *)
(* whatever was erased, moved or rehashed since.                           *)
THEOREM IterationMissesNone ==
  ASSUME KernelSize > 1
  PROVE  Spec => []NoneMissed
<1>1. TypeOK /\ EntriesReachable => NoneMissed
  <2> SUFFICES ASSUME TypeOK, EntriesReachable,
                      NEW k \in Keys, NEW j \in Steps(nbuckets), NEW p \in Pos(nbuckets),
                      SearchAt(k, j, p),
                      ~(KeyPos(slots, k) \subseteq Passed(k, j, p))
               PROVE  \E i \in Steps(nbuckets), q \in Pos(nbuckets) :
                        FindsNext(slots, nbuckets, k, j, p, i, q)
    BY DEF NoneMissed
  <2>1. PICK q \in KeyPos(slots, k) : q \notin Passed(k, j, p)
    OBVIOUS
  <2>2. q \in Pos(nbuckets)
    BY DEF KeyPos, TypeOK
  <2>3. /\ ~(q[1] = p[1] /\ q[2] <= p[2])
        /\ \A i \in Steps(nbuckets) : i < j => Probe(k, nbuckets, i) # q[1]
    BY <2>1, <2>2 DEF Passed
  <2> QED  BY <2>3, NextIsFound DEF SearchAt
<1> QED
  BY <1>1, TypeCorrect, Reachability, PTL

-----------------------------------------------------------------------------
(* The end of probing.  A table always has an empty slot, and a sequence   *)
(* that meets every bucket gets to it.                                     *)

(* conf::is_valid and the limits of the biases in conf.hpp.  Capacities    *)
(* are powers of two (conf::set_capacity), and a kernel has a power of two *)
(* of slots; bit_ceil is defined up to 2 ^ 24 here.                        *)
Configured ==
  /\ KernelSize \in PowersOfTwo
  /\ MinCapacity \in PowersOfTwo /\ InitCapacity \in PowersOfTwo
  /\ GrowBias >= 2 /\ GrowBias <= MinCapacity
  /\ MaxBuckets * KernelSize <= 2 ^ 23

(* What VisitsEveryBucketOnce says of the sequences of ProbeSeq.           *)
SequencesMeetAll ==
  \A n \in PowersOfTwo : n <= MaxBuckets =>
    \A k \in Keys : \A b \in 0 .. n - 1 : \E j \in Steps(n) : Probe(k, n, j) = b

Literal == {1, 2, 4, 8, 16, 32, 64, 128, 256, 512, 1024, 2048, 4096, 8192, 16384,
            32768, 65536, 131072, 262144, 524288, 1048576, 2097152, 4194304,
            8388608, 16777216}

(* The powers of two, written out.                                         *)
LEMMA PowersAre == PowersOfTwo = Literal /\ 2 ^ 24 = 16777216 /\ 2 ^ 23 = 8388608
<1>1. /\ 2 ^ 0 = 1 /\ 2 ^ 1 = 2 /\ 2 ^ 2 = 4 /\ 2 ^ 3 = 8 /\ 2 ^ 4 = 16
      /\ 2 ^ 5 = 32 /\ 2 ^ 6 = 64 /\ 2 ^ 7 = 128 /\ 2 ^ 8 = 256 /\ 2 ^ 9 = 512
      /\ 2 ^ 10 = 1024 /\ 2 ^ 11 = 2048 /\ 2 ^ 12 = 4096 /\ 2 ^ 13 = 8192
      /\ 2 ^ 14 = 16384 /\ 2 ^ 15 = 32768 /\ 2 ^ 16 = 65536 /\ 2 ^ 17 = 131072
      /\ 2 ^ 18 = 262144 /\ 2 ^ 19 = 524288 /\ 2 ^ 20 = 1048576
      /\ 2 ^ 21 = 2097152 /\ 2 ^ 22 = 4194304 /\ 2 ^ 23 = 8388608
      /\ 2 ^ 24 = 16777216
  OBVIOUS
<1>2. 0 .. 24 = {0, 1, 2, 3, 4, 5, 6, 7, 8, 9, 10, 11, 12, 13, 14, 15, 16, 17,
                 18, 19, 20, 21, 22, 23, 24}
  OBVIOUS
<1>3. PowersOfTwo = {2 ^ i : i \in {0, 1, 2, 3, 4, 5, 6, 7, 8, 9, 10, 11, 12, 13, 14, 15, 16, 17,
                 18, 19, 20, 21, 22, 23, 24}}
  BY <1>2 DEF PowersOfTwo
<1> QED  BY <1>1, <1>3 DEF Literal

(* They are positive numbers up to the largest.                            *)
LEMMA PowersType == \A a \in PowersOfTwo : a \in Nat \ {0} /\ a <= 2 ^ 24
BY PowersAre DEF Literal

(* The smaller of two divides the larger, and the quotient is one.         *)
LEMMA PowersDivide ==
  \A a, b \in PowersOfTwo : a <= b => b % a = 0 /\ b \div a \in PowersOfTwo
BY PowersAre DEF Literal

(* All but 1 are twice another one.                                        *)
LEMMA PowersHalve == \A a \in PowersOfTwo : a = 1 \/ \E b \in PowersOfTwo : a = 2 * b
BY PowersAre DEF Literal

(* Twice one of them is another one, up to the largest.                    *)
LEMMA PowersDouble == \A a \in PowersOfTwo : a < 2 ^ 24 => 2 * a \in PowersOfTwo
BY PowersAre DEF Literal

(* bit_ceil rounds up to a power of two.                                   *)
LEMMA BitCeil ==
  ASSUME NEW x \in Nat, x <= 2 ^ 24
  PROVE  bit_ceil(x) \in PowersOfTwo /\ bit_ceil(x) >= x
<1>1. \E c \in PowersOfTwo : c >= x /\ \A d \in PowersOfTwo : d >= x => c <= d
  BY PowersAre, SMTT(60) DEF Literal
<1> QED  BY <1>1 DEF bit_ceil

(* The quotient of a multiple.                                             *)
LEMMA MultipleDivides ==
  ASSUME NEW a \in Nat, NEW k \in Nat \ {0}
  PROVE  (a * k) \div k = a
OBVIOUS

(* A product of two of them is one, up to the largest.                     *)
LEMMA PowersMultiply ==
  \A a, b \in PowersOfTwo : a * b <= 2 ^ 24 => a * b \in PowersOfTwo
BY PowersAre, SMTT(60) DEF Literal

(* A quotient of powers of two that is not zero is one.                    *)
LEMMA PowersQuotient ==
  ASSUME NEW a \in PowersOfTwo, NEW b \in PowersOfTwo, b \div a >= 1
  PROVE  b \div a \in PowersOfTwo
<1>1. a \in Nat \ {0} /\ b \in Nat \ {0}
  BY PowersType
<1>2. a <= b
  <2>1. b < a => b \div a = 0
    BY <1>1
  <2> QED  BY <1>1, <2>1
<1> QED
  BY <1>2, PowersDivide

(* The sizes of the table at hand.                                         *)
LEMMA Sizes ==
  ASSUME Configured, TypeOK, nbuckets \in PowersOfTwo
  PROVE  /\ nbuckets \in Nat \ {0} /\ KernelSize \in Nat \ {0}
         /\ MinCapacity \in Nat \ {0} /\ MinCapacity <= 2 ^ 24
         /\ capacity \in PowersOfTwo /\ capacity \in Nat \ {0}
         /\ capacity <= 2 ^ 23 /\ 2 * capacity \in PowersOfTwo
         /\ nbuckets <= MaxBuckets /\ MaxBuckets < 2 ^ 24
         /\ 2 ^ 23 \in Nat /\ 2 ^ 24 \in Nat /\ 2 ^ 24 = 2 * 2 ^ 23
<1>1. 2 ^ 23 = 8388608 /\ 2 ^ 24 = 16777216
  BY PowersAre
<1>2. /\ nbuckets \in Nat \ {0} /\ KernelSize \in Nat \ {0} /\ nbuckets <= MaxBuckets
      /\ MaxBuckets \in Nat \ {0}
      /\ MinCapacity \in Nat \ {0} /\ MinCapacity <= 2 ^ 24
  BY PowersType, SwissMapAssumption DEF TypeOK, Configured
<1>3. /\ nbuckets * KernelSize <= MaxBuckets * KernelSize
      /\ MaxBuckets <= MaxBuckets * KernelSize
      /\ nbuckets * KernelSize \in Nat \ {0} /\ MaxBuckets * KernelSize \in Nat
  BY <1>2
<1>4. MaxBuckets * KernelSize <= 8388608
  BY <1>1 DEF Configured
<1>5. capacity \in Nat \ {0} /\ capacity <= 8388608 /\ MaxBuckets <= 8388608
  BY <1>2, <1>3, <1>4 DEF capacity
<1>6. capacity \in PowersOfTwo
  BY <1>1, <1>5, PowersMultiply DEF capacity, Configured
<1>7. 2 * capacity \in PowersOfTwo
  BY <1>1, <1>5, <1>6, PowersDouble
<1> QED
  BY <1>1, <1>2, <1>5, <1>6, <1>7

(* The growth threshold is at least one slot and at most half of a table.  *)
LEMMA Threshold ==
  ASSUME Configured, NEW c \in PowersOfTwo
  PROVE  /\ grow_threshold(c) \in Nat \ {0}
         /\ grow_threshold(c) <= 2 ^ 23
<1> DEFINE l == Larger(c, MinCapacity)
<1>1. /\ l \in Nat /\ l >= GrowBias /\ l <= 2 ^ 24
      /\ GrowBias \in Nat /\ GrowBias >= 2
  BY PowersType, SwissMapAssumption DEF Configured, Larger
<1>2. 2 ^ 23 = 8388608 /\ 2 ^ 24 = 16777216
  BY PowersAre
<1> HIDE DEF l
<1>3. l \div GrowBias \in Nat /\ l \div GrowBias >= 1 /\ 2 * (l \div GrowBias) <= l
  <2> DEFINE q == l \div GrowBias
             r == l % GrowBias
  <2>1. q \in Nat /\ r \in 0 .. GrowBias - 1 /\ l = GrowBias * q + r
    BY <1>1
  <2> HIDE DEF q, r
  <2>2. GrowBias * q >= 2 * q
    BY <1>1, <2>1
  <2>3. q # 0
    BY <1>1, <2>1
  <2>4. GrowBias * q \in Nat
    BY <1>1, <2>1
  <2>5. 2 * q <= l
    <3> DEFINE x == GrowBias * q
    <3>1. l = x + r /\ x >= 2 * q /\ x \in Nat
      BY <2>1, <2>2, <2>4
    <3> HIDE DEF x
    <3> QED  BY <1>1, <2>1, <3>1
  <2> QED  BY <2>1, <2>3, <2>5 DEF q
<1> QED
  BY <1>1, <1>2, <1>3 DEF grow_threshold, l

(* The capacity that resize_ chooses has a slot more than there are        *)
(* entries, in whole buckets.                                              *)
LEMMA ResizeTarget ==
  ASSUME Configured, NEW end \in PowersOfTwo \cup {0}, NEW sz \in Nat, sz < 2 ^ 23
  PROVE  /\ resize_target(end, sz) \in PowersOfTwo
         /\ resize_target(end, sz) >= end
         /\ resize_target(end, sz) > sz
<1>1. 2 ^ 23 = 8388608 /\ 2 ^ 24 = 16777216
  BY PowersAre
<1>2. bit_ceil(sz) \in PowersOfTwo
  BY <1>1, BitCeil
<1> DEFINE x == sz + grow_threshold(bit_ceil(sz))
<1>3. x \in Nat /\ x > sz /\ x <= 2 ^ 24
  BY <1>1, <1>2, Threshold
<1> HIDE DEF x
<1>4. bit_ceil(x) \in PowersOfTwo /\ bit_ceil(x) >= x
  BY <1>3, BitCeil
<1>5. /\ MinCapacity \in PowersOfTwo /\ MinCapacity \in Nat \ {0}
      /\ bit_ceil(x) \in Nat /\ end \in Nat
  BY <1>4, PowersType DEF Configured
<1>6. /\ Larger(end, MinCapacity) \in PowersOfTwo /\ Larger(end, MinCapacity) \in Nat
      /\ Larger(end, MinCapacity) >= end
  BY <1>5 DEF Larger
<1> DEFINE m == Larger(end, MinCapacity)
<1> HIDE DEF m
<1>7. resize_target(end, sz) = Larger(m, bit_ceil(x))
  BY DEF resize_target, m, x
<1> QED
  BY <1>3, <1>4, <1>5, <1>6, <1>7 DEF Larger, m

(* The empty slots that are left when the entries still to be moved are in *)
(* the table.                                                              *)
Spare == num_empty - (IF pc = "resize" THEN old_size ELSE 0)

Room ==
  /\ nbuckets \in PowersOfTwo
  /\ Spare >= 1
  /\ pc = "insert" \/ (pc = "resize" /\ pending # None) => Spare >= 2

(* The capacities that a map is resized or cleared to.                     *)
LEMMA AskedSizes ==
  ASSUME Configured, TypeOK, Counted, nbuckets \in PowersOfTwo, pc = "ready"
  PROVE  /\ \A end \in Asked : end \in PowersOfTwo \cup {0}
         /\ \A n \in Cleared : n \in PowersOfTwo
<1>1. /\ capacity \in PowersOfTwo /\ 2 * capacity \in PowersOfTwo
      /\ capacity \in Nat \ {0} /\ capacity <= 2 ^ 23 /\ capacity < 2 ^ 24
      /\ 2 ^ 23 \in Nat /\ 2 ^ 24 \in Nat /\ 2 ^ 23 < 2 ^ 24
      /\ MinCapacity \in PowersOfTwo /\ MinCapacity \in Nat \ {0} /\ MinCapacity <= 2 ^ 24
      /\ InitCapacity \in PowersOfTwo
  <2>1. 2 ^ 23 < 2 ^ 24
    BY PowersAre
  <2> QED  BY <2>1, Sizes DEF Configured
<1>2. ASSUME NEW n \in Requests
      PROVE  /\ Larger(bit_ceil(n), MinCapacity) \in PowersOfTwo
             /\ bit_ceil(Larger(n, MinCapacity)) \in PowersOfTwo
  <2>1. n \in Nat /\ n <= 2 ^ 24
    <3> DEFINE m == MaxBuckets * KernelSize
    <3>1. m \in Nat /\ m <= 2 ^ 23
      BY SwissMapAssumption DEF Configured
    <3>2. n \in 1 .. m
      BY DEF Requests
    <3> HIDE DEF m
    <3> QED  BY <1>1, <3>1, <3>2
  <2>2. Larger(n, MinCapacity) \in Nat /\ Larger(n, MinCapacity) <= 2 ^ 24
    BY <1>1, <2>1 DEF Larger
  <2> QED  BY <1>1, <2>1, <2>2, BitCeil DEF Larger
<1>3. shrink_target \in PowersOfTwo \cup {0}
  <2> DEFINE min_end == Larger(bit_ceil(size), MinCapacity)
             halves == {capacity \div 2 ^ i : i \in 0 .. 24}
             stop == {c \in halves :
                        c <= min_end \/ ~should_shrink(c, num_empty, num_tombstone)}
  <2>1. ASSUME NEW i \in 0 .. 24 PROVE capacity \div 2 ^ i \in PowersOfTwo \cup {0}
    <3>1. 2 ^ i \in PowersOfTwo /\ 2 ^ i \in Nat \ {0}
      BY PowersType DEF PowersOfTwo
    <3> DEFINE d == 2 ^ i
    <3> HIDE DEF d
    <3>2. capacity \div d \in Nat
      BY <1>1, <3>1 DEF d
    <3>3. capacity \div d >= 1 => capacity \div d \in PowersOfTwo
      BY <1>1, <3>1, PowersQuotient DEF d
    <3>4. capacity \div d \in PowersOfTwo \cup {0}
      BY <3>2, <3>3
    <3> QED  BY <3>4 DEF d
  <2>2. halves \subseteq PowersOfTwo \cup {0}
    BY <2>1
  <2>3. \A c \in halves : c \in Nat /\ c <= capacity
    <3> SUFFICES ASSUME NEW i \in 0 .. 24
                 PROVE  capacity \div 2 ^ i \in Nat /\ capacity \div 2 ^ i <= capacity
      OBVIOUS
    <3>1. 2 ^ i \in Nat \ {0}
      BY PowersType DEF PowersOfTwo
    <3> DEFINE d == 2 ^ i
    <3> HIDE DEF d
    <3>2. capacity \div d \in Nat /\ capacity \div d <= capacity
      BY <1>1, <3>1 DEF d
    <3> QED  BY <3>2 DEF d
  <2>4. 0 \in halves
    <3> DEFINE d == 2 ^ 24
    <3>1. d \in Nat /\ capacity < d
      BY <1>1
    <3> HIDE DEF d
    <3>2. capacity \div d = 0 /\ 24 \in 0 .. 24
      BY <1>1, <3>1
    <3> QED  BY <3>2 DEF d
  <2>5. min_end \in Nat
    <3>1. size \in Nat /\ size <= 2 ^ 24
      <4>1. /\ nbuckets \in Nat /\ slots \in Tables(nbuckets)
            /\ Counts(slots, num_empty, num_tombstone)
            /\ num_empty \in Nat /\ num_tombstone \in Nat
        BY CountedNow
      <4>2. /\ Cardinality(HashPos(slots)) \in Nat
            /\ capacity = Cardinality(HashPos(slots)) + num_empty + num_tombstone
        BY <4>1, CountSlots DEF Counts, capacity
      <4> QED  BY <1>1, <4>1, <4>2 DEF size
    <3>2. bit_ceil(size) \in Nat
      BY <3>1, BitCeil, PowersType
    <3> QED  BY <1>1, <3>2 DEF Larger
  <2> HIDE DEF halves, min_end
  <2>6. 0 \in stop
    BY <2>4, <2>5
  <2>7. stop \subseteq halves
    OBVIOUS
  <2> HIDE DEF stop
  <2>8. \E c \in stop : \A d \in stop : d <= c
    <3> DEFINE S == {capacity - d : d \in stop}
    <3>1. S \in SUBSET Nat /\ S # {}
      BY <1>1, <2>3, <2>6, <2>7
    <3>2. PICK m \in S : \A x \in S : m <= x
      BY <3>1, LeastNat
    <3>3. PICK c \in stop : m = capacity - c
      OBVIOUS
    <3>4. ASSUME NEW d \in stop PROVE d <= c
      <4>1. m <= capacity - d
        BY <3>2
      <4>2. c \in Nat /\ d \in Nat /\ capacity \in Nat
        BY <1>1, <2>3, <2>7
      <4> HIDE DEF S
      <4> QED  BY <3>3, <4>1, <4>2
    <3> QED  BY <3>4
  <2>9. shrink_target = CHOOSE c \in stop : \A d \in stop : d <= c
    BY DEF shrink_target, stop, halves, min_end
  <2>10. shrink_target \in stop
    BY <2>8, <2>9
  <2> QED  BY <2>2, <2>7, <2>10
<1>4. \A end \in Asked : end \in PowersOfTwo \cup {0}
  BY <1>1, <1>2, <1>3 DEF Asked
<1>5. \A n \in Cleared : n \in PowersOfTwo
  BY <1>1, <1>2 DEF Cleared
<1> QED
  BY <1>4, <1>5

(* A resize leaves an empty slot, and two if an insertion asked for it.    *)
LEMMA StartRoom ==
  ASSUME Configured, TypeOK, nbuckets \in PowersOfTwo,
         NEW s \in Tables(nbuckets), NEW ne, NEW nt, Counts(s, ne, nt), ne >= 1,
         NEW end \in PowersOfTwo \cup {0}, NEW pend,
         pend # None => end = 2 * capacity,
         StartResize(end, s, ne, nt, pend)
  PROVE  Room'
<1>1. /\ capacity \in Nat \ {0} /\ capacity <= 2 ^ 23 /\ 2 ^ 23 \in Nat
      /\ nbuckets \in Nat /\ KernelSize \in PowersOfTwo /\ KernelSize \in Nat \ {0}
  BY Sizes DEF Configured
<1> DEFINE sz == capacity - (ne + nt)
           target == resize_target(end, sz)
<1>2. sz \in Nat /\ sz < capacity /\ ne \in Nat
  <2>1. /\ Cardinality(HashPos(s)) \in Nat /\ ne \in Nat /\ nt \in Nat
        /\ capacity = Cardinality(HashPos(s)) + ne + nt
    BY <1>1, CountSlots DEF Counts, capacity
  <2> QED  BY <1>1, <2>1
<1>3. \/ /\ target = capacity /\ num_empty' = ne /\ UNCHANGED nbuckets
         /\ pc' = IF pend = None THEN "ready" ELSE "insert"
      \/ /\ Allocate(target \div KernelSize) /\ old_size' = sz
         /\ pc' = "resize" /\ pending' = pend
  BY Zenon DEF StartResize
<1> HIDE DEF sz
<1>4. target \in PowersOfTwo /\ target >= end /\ target > sz
  BY <1>1, <1>2, ResizeTarget
<1>5. target \in Nat
  BY <1>4, PowersType
<1> HIDE DEF target
<1>6. CASE /\ target = capacity /\ num_empty' = ne /\ UNCHANGED nbuckets
           /\ pc' = IF pend = None THEN "ready" ELSE "insert"
  <2>1. pend = None
    BY <1>1, <1>4, <1>6
  <2>2. ne - 0 >= 1
    BY <1>2
  <2> QED  BY <1>6, <2>1, <2>2 DEF Room, Spare
<1>7. CASE /\ Allocate(target \div KernelSize) /\ old_size' = sz
           /\ pc' = "resize" /\ pending' = pend
  <2>1. /\ nbuckets' = target \div KernelSize /\ target \div KernelSize >= 1
        /\ num_empty' = (target \div KernelSize) * KernelSize
    BY <1>7, SwissMapAssumption DEF Allocate
  <2>2. nbuckets' \in PowersOfTwo
    BY <1>1, <1>4, <2>1, PowersQuotient
  <2>3. num_empty' = target
    <3>1. KernelSize <= target
      <4>1. target < KernelSize => target \div KernelSize = 0
        BY <1>1, <1>5
      <4> QED  BY <1>1, <1>5, <2>1, <4>1
    <3>2. target % KernelSize = 0
      BY <1>1, <1>4, <3>1, PowersDivide
    <3>3. target = (target \div KernelSize) * KernelSize
      BY <1>1, <1>5, <3>2
    <3> QED  BY <2>1, <3>3
  <2>4. target - sz >= 1
    BY <1>2, <1>4, <1>5
  <2>5. pend # None => target - sz >= 2
    <3>1. pend # None => target >= 2 * capacity
      BY <1>4
    <3> QED  BY <1>1, <1>2, <1>5, <3>1
  <2>6. Spare' = target - sz
    BY <1>7, <2>3 DEF Spare
  <2> QED  BY <1>7, <2>2, <2>4, <2>5, <2>6 DEF Room
<1> QED
  BY <1>3, <1>6, <1>7

(* What keeps the table, with an empty slot, keeps the room.               *)
LEMMA KeepRoom ==
  ASSUME nbuckets \in PowersOfTwo, nbuckets' = nbuckets, NEW ne \in Int, ne >= 1,
         num_empty' = ne, pc' \in {"ready", "scrub"}
  PROVE  Room'
<1>1. ne - 0 >= 1
  OBVIOUS
<1> QED  BY <1>1 DEF Room, Spare

(* So does a return, and the start of a scrub.                             *)
LEMMA ScrubRoom ==
  ASSUME nbuckets \in PowersOfTwo, NEW s, NEW ne \in Int, NEW nt, ne >= 1,
         Return(s, ne, nt) \/ StartScrub(s, ne, nt)
  PROVE  Room'
<1>1. nbuckets' = nbuckets /\ num_empty' = ne /\ pc' \in {"ready", "scrub"}
  BY DEF Return, StartScrub
<1> QED  BY <1>1, KeepRoom

(* An insertion that finds two empty slots leaves one.                     *)
LEMMA InsertRoom ==
  ASSUME TypeOK, Calling, nbuckets \in PowersOfTwo, MaxProbes = 0, num_empty >= 2,
         NEW k, NEW v, InsertTurn(k, v)
  PROVE  Room'
<1>1. num_empty \in Int
  BY DEF TypeOK
<1>2. \/ \E s, nt : Return(s, num_empty, nt)
      \/ \E s, nt, p : Return(s, num_empty - (1 - Reuses(p)), nt)
  <2>1. ~(MaxProbes > 0)
    OBVIOUS
  <2> QED  BY <2>1, Zenon DEF InsertTurn
<1>3. ASSUME NEW p PROVE Reuses(p) \in {0, 1}
  BY DEF Reuses
<1>4. ASSUME NEW s, NEW nt, NEW p, Return(s, num_empty - (1 - Reuses(p)), nt)
      PROVE  Room'
  <2> DEFINE ne == num_empty - (1 - Reuses(p))
  <2>1. ne \in Int /\ ne >= 1
    BY <1>1, <1>3
  <2>2. Return(s, ne, nt)
    BY <1>4
  <2> HIDE DEF ne
  <2> QED  BY <2>1, <2>2, ScrubRoom
<1>5. ASSUME NEW s, NEW nt, Return(s, num_empty, nt)
      PROVE  Room'
  BY <1>1, <1>5, ScrubRoom
<1> QED
  BY <1>2, <1>4, <1>5

(* Erasing makes no empty slot disappear.                                  *)
LEMMA EraseRoom ==
  ASSUME Configured, TypeOK, Counted, pc = "ready", nbuckets \in PowersOfTwo,
         num_empty >= 1, NEW P \in SUBSET HashPos(slots), EraseSlots(P)
  PROVE  Room'
<1>1. PICK s \in Tables(nbuckets) : \E ne, nt :
        /\ \A p \in Pos(nbuckets) : IF p \in P THEN s[p] \in {Empty, Tombstone}
                                    ELSE s[p] = slots[p]
        /\ Counts(s, ne, nt)
        /\ \E buried : AutoShrinkAndScrub(s, ne, nt, buried)
  BY EraseTable
<1>2. PICK ne, nt : Counts(s, ne, nt) /\ \E buried : AutoShrinkAndScrub(s, ne, nt, buried)
  BY <1>1
<1>3. PICK buried : AutoShrinkAndScrub(s, ne, nt, buried)
  BY <1>2
<1>4. /\ nbuckets \in Nat /\ slots \in Tables(nbuckets)
      /\ num_empty = Count(slots, Empty) /\ num_empty \in Nat
  BY CountedNow DEF Counts
<1>5. ne \in Nat /\ ne >= 1
  <2>1. PICK p \in Pos(nbuckets) : slots[p] = Empty
    <3>1. Count(slots, Empty) = 0 <=> \A p \in Pos(nbuckets) : slots[p] # Empty
      BY <1>4, CountType, Zenon
    <3>2. Count(slots, Empty) # 0
      BY <1>4
    <3> QED  BY <3>1, <3>2, Zenon
  <2>2. p \notin P
    BY <2>1 DEF HashPos, IsHash
  <2>3. s[p] = Empty
    BY <1>1, <2>1, <2>2
  <2>4. Count(s, Empty) \in Nat /\ Count(s, Empty) # 0
    <3>1. Count(s, Empty) = 0 <=> \A r \in Pos(nbuckets) : s[r] # Empty
      BY <1>4, CountType, Zenon
    <3>2. Count(s, Empty) \in Nat
      BY <1>4, CountType, Zenon
    <3> QED  BY <2>3, <3>1, <3>2
  <2> QED  BY <1>2, <2>4 DEF Counts
<1>6. \/ StartResize(capacity \div 2, s, ne, nt, None)
      \/ StartScrub(s, ne, nt) \/ Return(s, ne, nt)
  BY <1>3, Zenon DEF AutoShrinkAndScrub
<1>7. capacity \div 2 \in PowersOfTwo \cup {0}
  <2>1. capacity \in PowersOfTwo
    BY Sizes
  <2>2. CASE capacity = 1
    BY <2>2
  <2>3. ASSUME NEW b \in PowersOfTwo, capacity = 2 * b
        PROVE  capacity \div 2 \in PowersOfTwo
    <3>1. b \in Nat
      BY PowersType
    <3>2. (2 * b) \div 2 = b
      BY <3>1
    <3> QED  BY <2>3, <3>2
  <2> QED  BY <2>1, <2>2, <2>3, PowersHalve
<1>8. CASE StartResize(capacity \div 2, s, ne, nt, None)
  BY <1>2, <1>5, <1>7, <1>8, StartRoom
<1>9. CASE StartScrub(s, ne, nt) \/ Return(s, ne, nt)
  BY <1>5, <1>9, ScrubRoom
<1> QED
  BY <1>6, <1>8, <1>9

(* Every step leaves room.                                                 *)
LEMMA NextRoom ==
  ASSUME Configured, MaxProbes = 0, TypeOK, Placed, CU, Room, [Next]_vars
  PROVE  Room'
<1>1. /\ nbuckets \in PowersOfTwo /\ num_empty \in Int /\ old_size \in Int
      /\ KernelSize \in PowersOfTwo /\ KernelSize \in Nat \ {0} /\ nbuckets \in Nat \ {0}
  BY Sizes DEF Room, TypeOK, Configured
<1>2. ASSUME pc = "ready"
      PROVE  /\ num_empty >= 1 /\ Counted /\ slots \in Tables(nbuckets)
             /\ Counts(slots, num_empty, num_tombstone)
  <2>1. num_empty - 0 >= 1
    BY <1>2 DEF Room, Spare
  <2> QED  BY <1>1, <1>2, <2>1, CountedNow DEF CU
<1>3. CASE UNCHANGED vars
  BY <1>3 DEF vars, table, rehash, Room, Spare
<1>4. CASE pc = "ready" /\ Overwrites
  <2>1. PICK s : Return(s, num_empty, num_tombstone)
    BY <1>4 DEF Overwrites
  <2> QED  BY <1>1, <1>2, <1>4, <2>1, ScrubRoom
<1>5. ASSUME pc = "ready", NEW k \in Keys, NEW v \in Values, Insert(k, v)
      PROVE  Room'
  <2>1. CASE StartResize(2 * capacity, slots, num_empty, num_tombstone, <<k, v>>)
    <3>1. 2 * capacity \in PowersOfTwo
      BY <1>1, Sizes
    <3> QED  BY <1>1, <1>2, <1>5, <2>1, <3>1, StartRoom
  <2>2. CASE ~is_full /\ InsertTurn(k, v)
    <3>1. grow_threshold(capacity) \in Nat \ {0}
      BY <1>1, Sizes, Threshold
    <3>2. num_empty >= 2
      BY <1>1, <2>2, <3>1 DEF is_full
    <3> QED  BY <1>1, <1>5, <2>2, <3>2, InsertRoom DEF Calling
  <2> QED  BY <1>5, <2>1, <2>2, Zenon DEF Insert
<1>6. CASE RetryInsert
  <2>1. pc = "insert" /\ InsertTurn(pending[1], pending[2])
    BY <1>6 DEF RetryInsert
  <2>2. num_empty - 0 >= 2
    BY <2>1 DEF Room, Spare
  <2>3. num_empty >= 2
    BY <1>1, <2>2
  <2> QED  BY <1>1, <2>1, <2>3, InsertRoom DEF Calling
<1>7. CASE pc = "ready" /\ Erases
  BY <1>1, <1>2, <1>7, EraseRoom DEF Erases
<1>8. ASSUME pc = "ready", NEW end \in Asked, UserResize(end)
      PROVE  Room'
  <2>1. end \in PowersOfTwo \cup {0}
    BY <1>1, <1>2, <1>8, AskedSizes
  <2> QED  BY <1>1, <1>2, <1>8, <2>1, StartRoom DEF UserResize
<1>9. CASE pc = "ready" /\ StartScrub(slots, num_empty, num_tombstone)
  BY <1>1, <1>2, <1>9, ScrubRoom
<1>10. CASE pc = "ready" /\ Empties
  <2>1. PICK n \in Cleared : Allocate(n \div KernelSize) /\ UNCHANGED pc
    BY <1>10 DEF Empties
  <2>2. n \in PowersOfTwo
    BY <1>1, <1>2, <1>10, AskedSizes
  <2>3. /\ nbuckets' = n \div KernelSize /\ n \div KernelSize \in Nat \ {0}
        /\ num_empty' = (n \div KernelSize) * KernelSize
    BY <2>1, SwissMapAssumption DEF Allocate
  <2>4. nbuckets' \in PowersOfTwo
    BY <1>1, <2>2, <2>3, PowersQuotient
  <2> DEFINE q == n \div KernelSize
  <2> HIDE DEF q
  <2>5. q \in Nat \ {0} /\ num_empty' = q * KernelSize
    BY <2>3 DEF q
  <2>6. q * KernelSize >= 1
    BY <1>1, <2>5
  <2>7. num_empty' - 0 >= 1
    BY <1>1, <2>5, <2>6
  <2> QED  BY <1>10, <2>1, <2>4, <2>7 DEF Room, Spare
<1>11. CASE RehashEntry
  <2>1. ~(MaxProbes > 0)
    OBVIOUS
  <2>2. /\ pc' = pc /\ nbuckets' = nbuckets /\ num_empty' = num_empty
        /\ pending' = pending /\ old_size' = old_size
    BY <1>11, <2>1 DEF RehashEntry, rehash
  <2> QED  BY <2>2 DEF Room, Spare
<1>12. CASE FinishResize
  <2>1. /\ pc = "resize" /\ nbuckets' = nbuckets /\ num_empty' = num_empty - old_size
        /\ pc' = (IF pending = None THEN "ready" ELSE "insert") /\ pending' = pending
    BY <1>12 DEF FinishResize
  <2>2. num_empty' - 0 = num_empty - old_size
    BY <1>1, <2>1
  <2>3. Spare = num_empty - old_size
    BY <2>1 DEF Spare
  <2>4. Spare' = Spare
    BY <2>1, <2>2, <2>3 DEF Spare
  <2> QED  BY <2>1, <2>4 DEF Room
<1>13. CASE ScrubEntry
  <2>1. /\ pc = "scrub" /\ pc' = pc /\ nbuckets' = nbuckets
        /\ \/ num_empty' = num_empty
           \/ \E x : num_empty' = num_empty + (IF x = Empty THEN 1 ELSE 0)
    BY <1>13, ScrubEntryCases
  <2>2. num_empty' \in Int /\ num_empty' >= num_empty
    BY <1>1, <2>1
  <2>3. num_empty - 0 >= 1
    BY <2>1 DEF Room, Spare
  <2>4. num_empty' >= 1
    BY <1>1, <2>2, <2>3
  <2> QED  BY <1>1, <2>1, <2>2, <2>4, KeepRoom
<1>14. CASE NextPass
  <2>1. /\ pc' = pc /\ nbuckets' = nbuckets /\ num_empty' = num_empty
        /\ pending' = pending /\ old_size' = old_size
    BY <1>14 DEF NextPass, table, rehash
  <2> QED  BY <2>1 DEF Room, Spare
<1>15. CASE FinishScrub
  <2>1. /\ pc = "scrub" /\ pc' = "ready" /\ nbuckets' = nbuckets
        /\ slots' \in Tables(nbuckets)
        /\ \A p \in Pos(nbuckets) : slots[p] = Empty => slots'[p] = Empty
        /\ num_empty' = Count(slots', Empty)
    BY <1>15, FinishScrubTable, SwissMapAssumption
  <2>2. num_empty - 0 >= 1
    BY <2>1 DEF Room, Spare
  <2>3. num_empty = Count(slots, Empty) /\ slots \in Tables(nbuckets)
    BY <2>1, CountedNow DEF CU, Counts
  <2>4. Count(slots, Empty) = 0 <=> \A p \in Pos(nbuckets) : slots[p] # Empty
    BY <1>1, <2>3, CountType, Zenon
  <2>5. PICK p \in Pos(nbuckets) : slots[p] = Empty
    BY <1>1, <2>2, <2>3, <2>4
  <2> DEFINE s == slots'
  <2>6. s \in Tables(nbuckets) /\ s[p] = Empty
    BY <2>1, <2>5
  <2> HIDE DEF s
  <2>7. Count(s, Empty) \in Nat /\ (Count(s, Empty) = 0 <=> \A r \in Pos(nbuckets) : s[r] # Empty)
    BY <1>1, <2>6, CountType, Zenon
  <2>8. Count(s, Empty) \in Nat /\ Count(s, Empty) >= 1
    BY <2>6, <2>7
  <2>9. num_empty' \in Int /\ num_empty' >= 1
    BY <2>1, <2>8 DEF s
  <2> QED  BY <1>1, <2>1, <2>9, KeepRoom
<1> QED
  BY <1>3, <1>4, <1>5, <1>6, <1>7, <1>8, <1>9, <1>10, <1>11, <1>12, <1>13, <1>14,
     <1>15, CallCases

(* An empty map has room.                                                  *)
LEMMA InitRoom ==
  ASSUME Configured, Init
  PROVE  Room
<1>1. /\ nbuckets = InitCapacity \div KernelSize /\ nbuckets \in Nat \ {0}
      /\ num_empty = nbuckets * KernelSize /\ pc = "ready"
      /\ KernelSize \in Nat \ {0}
  BY SwissMapAssumption DEF Init
<1>2. nbuckets \in PowersOfTwo
  BY <1>1, PowersQuotient DEF Configured
<1>3. num_empty - 0 >= 1
  <2>1. nbuckets * KernelSize >= 1
    BY <1>1
  <2> QED  BY <1>1, <2>1
<1> QED
  BY <1>1, <1>2, <1>3 DEF Room, Spare

(* Every look-up and every insertion of a map with unbounded sequences     *)
(* meets an empty slot: no order of insertions, erasures, resizes to any   *)
(* capacity and scrubs fills the last one ("Table is full. Should not      *)
(* happen!").                                                              *)
THEOREM ProbingAlwaysEnds ==
  ASSUME KernelSize > 1, Configured, SequencesMeetAll
  PROVE  Spec => []ProbingEnds
<1>1. CASE MaxProbes # 0
  <2>1. ProbingEnds
    BY <1>1 DEF ProbingEnds
  <2> QED  BY <2>1, PTL
<1>2. CASE MaxProbes = 0
  <2>1. Init => Room
    BY InitRoom
  <2>2. TypeOK /\ Placed /\ CU /\ Room /\ [Next]_vars => Room'
    BY <1>2, NextRoom
  <2>3. TypeOK /\ CU /\ Room => ProbingEnds
    <3> SUFFICES ASSUME TypeOK, CU, Room, pc \in {"ready", "insert"}, NEW k \in Keys
                 PROVE  ~Exhausted(k, nbuckets, WithEmpty(slots))
      BY DEF ProbingEnds
    <3>1. /\ nbuckets \in Nat /\ slots \in Tables(nbuckets)
          /\ num_empty = Count(slots, Empty) /\ nbuckets \in PowersOfTwo
          /\ nbuckets <= MaxBuckets
      BY CountedNow DEF CU, Counts, Room, TypeOK
    <3>2. num_empty - 0 >= 1
      BY DEF Room, Spare
    <3>3. Count(slots, Empty) = 0 <=> \A p \in Pos(nbuckets) : slots[p] # Empty
      BY <3>1, CountType, Zenon
    <3>4. PICK p \in Pos(nbuckets) : slots[p] = Empty
      BY <3>1, <3>2, <3>3
    <3>5. p[1] \in WithEmpty(slots) /\ p[1] \in 0 .. nbuckets - 1
      BY <3>1, <3>4 DEF WithEmpty, BucketsOf, EmptyPos, Tables, Pos
    <3>6. PICK j \in Steps(nbuckets) : Probe(k, nbuckets, j) = p[1]
      BY <3>1, <3>5 DEF SequencesMeetAll
    <3> QED  BY <3>5, <3>6 DEF Exhausted
  <2> QED  BY <2>1, <2>2, <2>3, Inductive, PTL DEF Spec
<1> QED
  BY <1>1, <1>2

(* The powers of two of the model are powers of two.                       *)
LEMMA PowersAgree == PowersOfTwo \subseteq Powers
<1> DEFINE S == PowersOfTwo \ Powers
<1> SUFFICES ASSUME S # {} PROVE FALSE
  OBVIOUS
<1>1. S \in SUBSET Nat
  BY PowersType
<1> HIDE DEF S
<1>2. PICK m \in S : \A x \in S : m <= x
  BY <1>1, LeastNat
<1>3. m \in PowersOfTwo /\ m \notin Powers
  BY <1>2 DEF S
<1>4. PICK b \in PowersOfTwo : m = 2 * b
  BY <1>3, PowersHalve, PowRule
<1>5. b \in Nat /\ b >= 1
  BY PowersType
<1>6. b \in Powers
  <2>1. ~(m <= b)
    BY <1>4, <1>5
  <2>2. b \notin S
    BY <1>2, <2>1
  <2> QED  BY <2>2 DEF S
<1> QED
  BY <1>3, <1>4, <1>6, PowRule

(* The default probe sequence of the map meets an empty slot always: the   *)
(* quadratic one, unaligned or aligned to lines of any power of two of     *)
(* positions, wherever the hashes of the keys make it start.               *)
THEOREM QuadraticProbingEnds ==
  ASSUME KernelSize > 1, Configured, NEW A \in Alignment, NEW home \in [Keys -> Nat],
         \A k \in Keys, n \in 1 .. MaxBuckets : \A j \in Steps(n) :
           Probe(k, n, j) = QuadraticBucket(home[k] * KernelSize, A, KernelSize, n, j)
  PROVE  Spec => []ProbingEnds
<1>1. CASE MaxProbes # 0
  <2>1. ProbingEnds
    BY <1>1 DEF ProbingEnds
  <2> QED  BY <2>1, PTL
<1>2. CASE MaxProbes = 0
  <2>1. SequencesMeetAll
    <3> SUFFICES ASSUME NEW n \in PowersOfTwo, n <= MaxBuckets, NEW k \in Keys,
                        NEW b \in 0 .. n - 1
                 PROVE  \E j \in Steps(n) : Probe(k, n, j) = b
      BY DEF SequencesMeetAll
    <3>1. /\ n \in Powers /\ n \in 1 .. MaxBuckets /\ KernelSize \in Powers
          /\ home[k] \in Nat /\ KernelSize \in Nat
      BY PowersAgree, PowersType, SwissMapAssumption DEF Configured
    <3>2. Steps(n) = 0 .. n - 1
      BY <1>2, SwissMapAssumption DEF Steps
    <3>3. PICK j \in 0 .. n - 1 :
            QuadraticBucket(KernelSize * home[k], A, KernelSize, n, j) = b
      <4> DEFINE h == home[k]
      <4>1. h \in Nat
        BY <3>1
      <4> HIDE DEF h
      <4>2. \E j \in 0 .. n - 1 : QuadraticBucket(KernelSize * h, A, KernelSize, n, j) = b
        BY <3>1, <4>1, QuadraticMeetsAll, Zenon
      <4> QED  BY <4>2 DEF h
    <3>4. KernelSize * home[k] = home[k] * KernelSize
      BY <3>1
    <3> QED  BY <3>1, <3>2, <3>3, <3>4
  <2> QED  BY <2>1, ProbingAlwaysEnds
<1> QED
  BY <1>1, <1>2

(* What VisitsEveryBucketOnce says of them besides.                        *)
SequencesNeverRepeat ==
  \A n \in PowersOfTwo : n <= MaxBuckets =>
    \A k \in Keys : \A i, j \in Steps(n) : Probe(k, n, i) = Probe(k, n, j) => i = j

(* The entry that find_next_ returns lies behind the position it starts    *)
(* from, or in a bucket that the sequence meets later.                     *)
LEMMA NextIsNew ==
  ASSUME TypeOK, NEW k \in Keys,
         NEW j \in Steps(nbuckets), NEW p \in Pos(nbuckets), SearchAt(k, j, p),
         NEW i \in Steps(nbuckets), NEW q \in Pos(nbuckets),
         FindsNext(slots, nbuckets, k, j, p, i, q),
         \A g, h \in Steps(nbuckets) :
           Probe(k, nbuckets, g) = Probe(k, nbuckets, h) => g = h
  PROVE  q \notin Passed(k, j, p)
<1>1. nbuckets \in Nat /\ Steps(nbuckets) \subseteq Nat
  BY StepsNat DEF TypeOK
<1>2. p[1] = Probe(k, nbuckets, j)
  BY DEF SearchAt
<1>3. q[2] \in Nat /\ p[2] \in Nat
  BY SwissMapAssumption DEF Pos, Lanes
<1>4. CASE i = j /\ LowestIn(InBucketAfter(slots, k, p), p[1], q)
  <2>1. q[1] = p[1] /\ q[2] > p[2]
    BY <1>4 DEF LowestIn, InBucketAfter
  <2>2. \A h \in Steps(nbuckets) : h < j => Probe(k, nbuckets, h) # q[1]
    BY <1>1, <1>2, <2>1
  <2> QED  BY <1>3, <2>1, <2>2 DEF Passed
<1>5. CASE i > j /\ LowestIn(KeyPos(slots, k), Probe(k, nbuckets, i), q)
  <2>1. q[1] = Probe(k, nbuckets, i)
    BY <1>5 DEF LowestIn
  <2>2. q[1] # p[1]
    BY <1>1, <1>2, <1>5, <2>1
  <2>3. \A h \in Steps(nbuckets) : h < j => Probe(k, nbuckets, h) # q[1]
    BY <1>1, <1>5, <2>1
  <2> QED  BY <2>2, <2>3 DEF Passed
<1> QED
  BY <1>4, <1>5 DEF FindsNext

(* With sequences that meet no bucket twice, iterating over the entries of *)
(* a key meets every one of them and none again.  Bounded sequences are    *)
(* left out: one that is longer than the table comes round.                *)
THEOREM IterationMeetsAll ==
  ASSUME KernelSize > 1, MaxProbes = 0, Configured, SequencesNeverRepeat
  PROVE  Spec => []IterationComplete
<1>1. Init => Room
  BY InitRoom
<1>2. TypeOK /\ Placed /\ CU /\ Room /\ [Next]_vars => Room'
  BY NextRoom
<1>3. TypeOK /\ Room => NoneTwice
  <2> SUFFICES ASSUME TypeOK, Room,
                      NEW k \in Keys, NEW j \in Steps(nbuckets), NEW p \in Pos(nbuckets),
                      SearchAt(k, j, p),
                      NEW i \in Steps(nbuckets), NEW q \in Pos(nbuckets),
                      FindsNext(slots, nbuckets, k, j, p, i, q)
               PROVE  q \notin Passed(k, j, p)
    BY DEF NoneTwice
  <2>1. \A g, h \in Steps(nbuckets) :
          Probe(k, nbuckets, g) = Probe(k, nbuckets, h) => g = h
    BY DEF SequencesNeverRepeat, Room, TypeOK
  <2> QED  BY <2>1, NextIsNew
<1>4. NoneMissed /\ NoneTwice => IterationComplete
  BY DEF IterationComplete
<1> QED
  BY <1>1, <1>2, <1>3, <1>4, Inductive, TypeCorrect, IterationMissesNone, PTL DEF Spec

(* Iterating is complete with the default probe sequence of the map.       *)
THEOREM QuadraticIterationMeetsAll ==
  ASSUME KernelSize > 1, MaxProbes = 0, Configured,
         NEW A \in Alignment, NEW home \in [Keys -> Nat],
         \A k \in Keys, n \in 1 .. MaxBuckets : \A j \in Steps(n) :
           Probe(k, n, j) = QuadraticBucket(home[k] * KernelSize, A, KernelSize, n, j)
  PROVE  Spec => []IterationComplete
<1>1. SequencesNeverRepeat
  <2> SUFFICES ASSUME NEW n \in PowersOfTwo, n <= MaxBuckets, NEW k \in Keys,
                      NEW i \in Steps(n), NEW j \in Steps(n),
                      Probe(k, n, i) = Probe(k, n, j)
               PROVE  i = j
    BY DEF SequencesNeverRepeat
  <2> DEFINE h == home[k]
  <2>1. /\ n \in Powers /\ n \in 1 .. MaxBuckets /\ KernelSize \in Powers
        /\ h \in Nat /\ KernelSize \in Nat
    BY PowersAgree, PowersType, SwissMapAssumption DEF Configured
  <2>2. i \in 0 .. n - 1 /\ j \in 0 .. n - 1
    BY DEF Steps
  <2>3. KernelSize * h = h * KernelSize
    BY <2>1
  <2>4. QuadraticBucket(KernelSize * h, A, KernelSize, n, i)
          = QuadraticBucket(KernelSize * h, A, KernelSize, n, j)
    BY <2>1, <2>3
  <2> HIDE DEF h
  <2> QED  BY <2>1, <2>2, <2>4, QuadraticNeverRepeats
<1> QED
  BY <1>1, IterationMeetsAll

-----------------------------------------------------------------------------
(* SwissMap implements Dictionary: whatever a step does to the table, the  *)
(* caller's view of the map changes as a dictionary changes.  An entry is  *)
(* counted in the table and, during a resize, in the part of the old table *)
(* that is still to be moved.                                              *)

(* The entries e that a resize has still to move.                          *)
Left(e) == {p \in todo : old[p] = e}

(* A resize has every entry of the old table once, here or there, so that  *)
(* it can start over from the old table.                                   *)
ResizeConserves ==
  pc = "resize" =>
    \A e \in Entry : Count(slots, e) + Cardinality(Left(e)) = Count(old, e)

(* Only an insertion that makes room has a request pending.                *)
NoRequest == pc \in {"ready", "scrub"} => pending = None

Bookkept == ResizeConserves /\ NoRequest

-----------------------------------------------------------------------------
(* The content of a table.                                                 *)

(* An entry is none of the markers.                                        *)
LEMMA EntryIsSlot ==
  ASSUME NEW e \in Entry
  PROVE  e \in Slot /\ e # Empty /\ e # Tombstone /\ e # None
BY SwissMapAssumption DEF Slot

(* The content is a function that counts.                                  *)
LEMMA ContentOf ==
  ASSUME TypeOK, pc # "resize", NEW e \in Entry
  PROVE  content[e] = Count(slots, e) /\ content[e] \in Nat
<1>1. nbuckets \in Nat /\ slots \in Tables(nbuckets)
  BY SwissMapAssumption DEF TypeOK, Tables
<1>2. Count(slots, e) \in Nat
  BY <1>1, CountType
<1> QED
  BY <1>2 DEF content

(* During a resize the content is that of the old table.                   *)
LEMMA ContentOfOld ==
  ASSUME pc = "resize", ResizeConserves, NEW e \in Entry
  PROVE  content[e] = Count(old, e)
BY DEF content, ResizeConserves, Left

(* An operation that ends with the table s leaves its entries.             *)
LEMMA EndsContent ==
  ASSUME NEW n \in Nat, NEW s \in Tables(n), NEW ne, NEW nt, Ends(s, ne, nt)
  PROVE  /\ \A e \in Entry : content'[e] = Count(s, e)
         /\ ResizeConserves'
<1>1. CASE Keeps(s, ne, nt)
  <2>1. \A e \in Entry : Count(s, e) \in Nat
    BY CountType
  <2>2. slots' = s /\ pc' # "resize"
    BY <1>1 DEF Keeps
  <2> QED  BY <2>1, <2>2 DEF content, ResizeConserves
<1>2. CASE Moves(s, ne, nt)
  <2>1. /\ slots' = AllEmpty(nbuckets') /\ nbuckets' \in Nat
        /\ pc' = "resize" /\ todo' = HashPos(s) /\ old' = s
    BY <1>2 DEF Moves
  <2>2. ASSUME NEW e \in Entry
        PROVE  /\ Count(slots', e) = 0
               /\ Cardinality({p \in todo' : old'[p] = e}) = Count(s, e)
               /\ Count(s, e) \in Nat
    <3>1. Count(slots', e) = 0
      BY <2>1, CountFresh, EntryIsSlot
    <3>2. {p \in HashPos(s) : s[p] = e} = {p \in DOMAIN s : s[p] = e}
      BY EntryIsHash DEF HashPos
    <3>3. Count(s, e) \in Nat
      BY CountType
    <3> QED  BY <2>1, <3>1, <3>2, <3>3 DEF Count
  <2>3. \A e \in Entry : content'[e] = Count(s, e)
    BY <2>1, <2>2 DEF content
  <2>4. ResizeConserves'
    BY <2>1, <2>2 DEF ResizeConserves, Left
  <2> QED  BY <2>3, <2>4
<1> QED
  BY <1>1, <1>2 DEF Ends

-----------------------------------------------------------------------------
(* The steps of the dictionary, from what happens to each entry.           *)

(* What the dictionary calls entries.                                      *)
LEMMA SameEntries == D!Entry = Entry
BY DEF D!Entry, Entry

(* Nothing changes.                                                        *)
LEMMA SameContent ==
  ASSUME \A e \in Entry : content'[e] = content[e]
  PROVE  content' = content
BY DEF content

(* An entry is put.                                                        *)
LEMMA PutContent ==
  ASSUME NEW k, NEW v,
         \A e \in Entry : content'[e] =
           IF Duplicates THEN content[e] + (IF e = <<k, v>> THEN 1 ELSE 0)
           ELSE IF e = <<k, v>> THEN 1
           ELSE IF e[1] = k THEN 0 ELSE content[e]
  PROVE  D!Put(k, v)
<1>1. content' = [e \in Entry |-> content'[e]]
  BY DEF content
<1> QED
  BY <1>1, SameEntries DEF D!Put

(* A value is replaced.                                                    *)
LEMMA UpdateContent ==
  ASSUME NEW k, NEW v, NEW w \in Values, content[<<k, w>>] > 0,
         \A e \in Entry : content'[e] =
           content[e] + (IF e = <<k, v>> THEN 1 ELSE 0)
                      - (IF e = <<k, w>> THEN 1 ELSE 0)
  PROVE  D!Update(k, v)
<1>1. content' = [e \in Entry |-> content'[e]]
  BY DEF content
<1> QED
  BY <1>1, SameEntries DEF D!Update

(* Entries are removed.                                                    *)
LEMMA RemoveContent ==
  ASSUME \A e \in Entry : content'[e] \in Nat /\ content'[e] <= content[e]
  PROVE  D!Remove
<1>1. content' = [e \in Entry |-> content'[e]]
  BY DEF content
<1> QED
  BY <1>1, SameEntries DEF D!Remove

-----------------------------------------------------------------------------
(* How operations end, as the dictionary sees it.                          *)

(* An operation without a request ends, or goes on, without one.           *)
LEMMA AutoQuiet ==
  ASSUME NoRequest, pc = "ready", NEW s, NEW ne, NEW nt, NEW buried,
         \/ Return(s, ne, nt) \/ StartScrub(s, ne, nt)
         \/ AutoShrinkAndScrub(s, ne, nt, buried)
  PROVE  pending' = None /\ pending = None
<1>1. pending = None
  BY DEF NoRequest
<1>2. ASSUME Return(s, ne, nt) PROVE pending' = None
  BY <1>2 DEF Return
<1>3. ASSUME StartScrub(s, ne, nt) PROVE pending' = None
  BY <1>1, <1>2, <1>3 DEF StartScrub
<1>4. ASSUME StartResize(capacity \div 2, s, ne, nt, None) PROVE pending' = None
  BY <1>4, Zenon DEF StartResize
<1>5. AutoShrinkAndScrub(s, ne, nt, buried) =>
        \/ StartResize(capacity \div 2, s, ne, nt, None)
        \/ StartScrub(s, ne, nt) \/ Return(s, ne, nt)
  BY DEF AutoShrinkAndScrub
<1> QED
  BY <1>1, <1>2, <1>3, <1>4, <1>5

(* resize_ keeps the request that it is called with.                       *)
LEMMA StartResizeRequest ==
  ASSUME NEW s, NEW ne, NEW nt, NEW end, NEW pend, StartResize(end, s, ne, nt, pend)
  PROVE  /\ pending' = pend /\ pc' \in {"ready", "insert", "resize"}
         /\ pc' = "ready" => pend = None
<1>1. CASE pc' = (IF pend = None THEN "ready" ELSE "insert") /\ pending' = pend
  BY <1>1
<1>2. CASE pc' = "resize" /\ pending' = pend
  BY <1>2
<1> QED
  BY <1>1, <1>2, Zenon DEF StartResize

-----------------------------------------------------------------------------
(* Insertions and updates.                                                 *)

(* What storing an entry of k over an entry, or in a free slot, does.      *)
LEMMA StoreContent ==
  ASSUME NEW n \in Nat, NEW s \in Tables(n), NEW f \in Entry, NEW p \in Pos(n),
         NEW e \in Entry
  PROVE  Count([s EXCEPT ![p] = f], e)
           = Count(s, e) + (IF e = f THEN 1 ELSE 0) - (IF e = s[p] THEN 1 ELSE 0)
<1>1. f \in Slot
  BY EntryIsSlot
<1>2. Count([s EXCEPT ![p] = f], e)
        = Count(s, e) + (IF f = e THEN 1 ELSE 0) - (IF s[p] = e THEN 1 ELSE 0)
  BY <1>1, CountStore
<1> QED
  BY <1>2

(* A key that is stored once has one entry.                                *)
LEMMA UniqueContent ==
  ASSUME NEW n \in Nat, NEW s \in Tables(n), Unique(s), NEW p \in HashPos(s),
         NEW e \in Entry, e[1] = s[p][1]
  PROVE  Count(s, e) = IF e = s[p] THEN 1 ELSE 0
<1>1. \A q \in DOMAIN s : s[q] = e => q = p
  BY EntryIsHash DEF Unique, HashPos
<1>2. p \in DOMAIN s
  BY DEF HashPos
<1>3. CASE e = s[p]
  <2>1. {q \in DOMAIN s : s[q] = e} = {p}
    BY <1>1, <1>2, <1>3
  <2> QED  BY <1>3, <2>1, FS_Singleton DEF Count
<1>4. CASE e # s[p]
  <2>1. {q \in DOMAIN s : s[q] = e} = {}
    BY <1>1, <1>4
  <2> QED  BY <1>4, <2>1, FS_EmptySet DEF Count
<1> QED
  BY <1>3, <1>4

(* A key that is not stored has none.                                      *)
LEMMA AbsentContent ==
  ASSUME NEW n \in Nat, NEW s \in Tables(n), NEW k, KeyPos(s, k) = {},
         NEW e \in Entry, e[1] = k
  PROVE  Count(s, e) = 0
<1>1. \A q \in Pos(n) : s[q] # e
  BY EntryIsHash DEF KeyPos, Tables
<1> QED
  BY <1>1, CountType

(* The turn of insert_ that ends an insertion puts the entry.              *)
LEMMA InsertTurnPuts ==
  ASSUME TypeOK, Placed, CU, Calling, NEW k \in Keys, NEW v \in Values, InsertTurn(k, v)
  PROVE  \/ D!Put(k, v) /\ pc' = "ready" /\ pending' = None /\ ResizeConserves'
         \/ StartResize(2 * capacity, slots, num_empty, num_tombstone, <<k, v>>)
<1> DEFINE f == <<k, v>>
<1>1. /\ nbuckets \in Nat /\ slots \in Tables(nbuckets) /\ f \in Entry /\ f[1] = k
      /\ pc # "resize"
  BY CountedNow DEF Calling, Entry, CU
<1>2. ~Duplicates => Unique(slots)
  BY DEF Unique, CU, Uniqueness, KeysUnique
<1>3. \A e \in Entry : content[e] = Count(slots, e) /\ content[e] \in Nat
  BY <1>1, ContentOf
<1> HIDE DEF f
<1>4. ASSUME NEW j \in Steps(nbuckets), NEW p \in Pos(nbuckets), InsertFinds(k, j, p),
             NEW ne, NEW nt, Return([slots EXCEPT ![p] = f], ne, nt)
      PROVE  D!Put(k, v) /\ pc' = "ready" /\ pending' = None /\ ResizeConserves'
  <2>1. p \in HashPos(slots) /\ slots[p][1] = k /\ ~Duplicates
    BY <1>4 DEF InsertFinds, LowestIn, KeyPos, HashPos
  <2>2. pc' = "ready" /\ pending' = None /\ Ends([slots EXCEPT ![p] = f], ne, nt)
    BY <1>4, AutoEnds DEF Return
  <2>3. [slots EXCEPT ![p] = f] \in Tables(nbuckets)
    BY <1>1, EntryIsSlot DEF Tables
  <2>4. /\ \A e \in Entry : content'[e] = Count([slots EXCEPT ![p] = f], e)
        /\ ResizeConserves'
    BY <1>1, <2>2, <2>3, EndsContent
  <2>5. ASSUME NEW e \in Entry
        PROVE  content'[e] = IF e = f THEN 1 ELSE IF e[1] = k THEN 0 ELSE content[e]
    <3>1. content'[e] = content[e] + (IF e = f THEN 1 ELSE 0)
                                   - (IF e = slots[p] THEN 1 ELSE 0)
      BY <1>1, <1>3, <2>4, StoreContent
    <3>2. e[1] = k => content[e] = IF e = slots[p] THEN 1 ELSE 0
      BY <1>1, <1>2, <1>3, <2>1, UniqueContent
    <3> QED  BY <1>1, <1>3, <2>1, <3>1, <3>2
  <2>6. D!Put(k, v)
    BY <2>1, <2>5, PutContent DEF f
  <2> QED  BY <2>2, <2>4, <2>6
<1>5. ASSUME NEW j \in Steps(nbuckets), NEW p \in Pos(nbuckets), InsertTakes(k, j, p),
             NEW ne, NEW nt, Return([slots EXCEPT ![p] = f], ne, nt)
      PROVE  D!Put(k, v) /\ pc' = "ready" /\ pending' = None /\ ResizeConserves'
  <2>1. p \in FreePos(slots) /\ slots[p] \notin Entry
    BY <1>1, <1>5, InsertTakesReached, SlotKinds, SwissMapAssumption
       DEF FreePos, EmptyPos, TombPos
  <2>2. pc' = "ready" /\ pending' = None /\ Ends([slots EXCEPT ![p] = f], ne, nt)
    BY <1>5, AutoEnds DEF Return
  <2>3. [slots EXCEPT ![p] = f] \in Tables(nbuckets)
    BY <1>1, EntryIsSlot DEF Tables
  <2>4. /\ \A e \in Entry : content'[e] = Count([slots EXCEPT ![p] = f], e)
        /\ ResizeConserves'
    BY <1>1, <2>2, <2>3, EndsContent
  <2>5. ASSUME NEW e \in Entry
        PROVE  /\ content'[e] = content[e] + (IF e = f THEN 1 ELSE 0)
               /\ ~Duplicates /\ e[1] = k => content[e] = 0
    <3>1. content'[e] = content[e] + (IF e = f THEN 1 ELSE 0)
                                   - (IF e = slots[p] THEN 1 ELSE 0)
      BY <1>1, <1>3, <2>4, StoreContent
    <3>2. ~Duplicates => KeyPos(slots, k) = {}
      BY <1>5, InsertMisses DEF CU
    <3>3. ~Duplicates /\ e[1] = k => content[e] = 0
      BY <1>1, <1>3, <3>2, AbsentContent
    <3> QED  BY <1>3, <2>1, <3>1, <3>3
  <2>6. ASSUME NEW e \in Entry
        PROVE  content'[e] = IF Duplicates THEN content[e] + (IF e = f THEN 1 ELSE 0)
                             ELSE IF e = f THEN 1 ELSE IF e[1] = k THEN 0 ELSE content[e]
    BY <1>1, <1>3, <2>5
  <2>7. D!Put(k, v)
    BY <2>6, PutContent DEF f
  <2> QED  BY <2>2, <2>4, <2>7
<1> QED
  BY <1>4, <1>5, Zenon DEF InsertTurn, f

(* A resize on behalf of an insertion leaves the content as it is.         *)
LEMMA RoomContent ==
  ASSUME TypeOK, pc # "resize", NEW end, NEW pend,
         StartResize(end, slots, num_empty, num_tombstone, pend)
  PROVE  content' = content /\ ResizeConserves'
<1>1. nbuckets \in Nat /\ slots \in Tables(nbuckets)
  BY SwissMapAssumption DEF TypeOK, Tables
<1>2. Ends(slots, num_empty, num_tombstone)
  BY StartResizeEnds
<1>3. /\ \A e \in Entry : content'[e] = Count(slots, e)
      /\ ResizeConserves'
  BY <1>1, <1>2, EndsContent
<1> QED
  BY <1>3, ContentOf, SameContent

(* Overwriting an entry is an update.                                      *)
LEMMA OverwriteUpdates ==
  ASSUME TypeOK, pc = "ready", NoRequest, Overwrites
  PROVE  D!Next /\ Bookkept'
<1>1. nbuckets \in Nat /\ slots \in Tables(nbuckets)
  BY SwissMapAssumption DEF TypeOK, Tables
<1>2. PICK k \in Keys, v \in Values, p \in HashPos(slots) :
        /\ slots[p][1] = k
        /\ Return([slots EXCEPT ![p] = <<k, v>>], num_empty, num_tombstone)
  BY DEF Overwrites
<1> DEFINE f == <<k, v>>
           w == slots[p][2]
<1>3. /\ p \in Pos(nbuckets) /\ slots[p] \in Entry
      /\ f \in Entry /\ w \in Values /\ slots[p] = <<k, w>>
  BY <1>1, <1>2, SlotKinds DEF Entry
<1>4. /\ pc' = "ready" /\ pending' = None /\ pending = None
      /\ Ends([slots EXCEPT ![p] = f], num_empty, num_tombstone)
  BY <1>2, AutoEnds, AutoQuiet DEF Return
<1> HIDE DEF f
<1>5. [slots EXCEPT ![p] = f] \in Tables(nbuckets)
  BY <1>1, <1>3, EntryIsSlot DEF Tables
<1>6. /\ \A e \in Entry : content'[e] = Count([slots EXCEPT ![p] = f], e)
      /\ ResizeConserves'
  BY <1>1, <1>4, <1>5, EndsContent
<1> HIDE DEF w
<1>7. ASSUME NEW e \in Entry
      PROVE  content'[e] = content[e] + (IF e = <<k, v>> THEN 1 ELSE 0)
                                      - (IF e = <<k, w>> THEN 1 ELSE 0)
  <2>1. Count([slots EXCEPT ![p] = f], e)
          = Count(slots, e) + (IF e = f THEN 1 ELSE 0) - (IF e = slots[p] THEN 1 ELSE 0)
    BY <1>1, <1>3, StoreContent
  <2> QED  BY <1>3, <1>6, <2>1, ContentOf DEF f
<1>8. content[<<k, w>>] > 0
  <2>1. Count(slots, slots[p]) # 0 /\ Count(slots, slots[p]) \in Nat
    BY <1>1, <1>3, CountType
  <2> QED  BY <1>3, <2>1, ContentOf
<1>9. D!Update(k, v)
  BY <1>3, <1>7, <1>8, UpdateContent
<1>10. D!Act
  BY <1>4, <1>9 DEF D!Act
<1> QED
  BY <1>4, <1>6, <1>10 DEF D!Next, Bookkept, NoRequest

(* Between operations, an insertion puts its entry or begins to make room. *)
LEMMA InsertImplements ==
  ASSUME TypeOK, Placed, CU, Bookkept, pc = "ready",
         NEW k \in Keys, NEW v \in Values, Insert(k, v)
  PROVE  D!Next /\ Bookkept'
<1>1. pending = None /\ Calling /\ <<k, v>> \in Entry /\ <<k, v>> # None
  BY SwissMapAssumption DEF Bookkept, NoRequest, Calling, Entry
<1>2. ASSUME StartResize(2 * capacity, slots, num_empty, num_tombstone, <<k, v>>)
      PROVE  D!Next /\ Bookkept'
  <2>1. pending' = <<k, v>> /\ pc' \in {"insert", "resize"}
    BY <1>1, <1>2, StartResizeRequest
  <2>2. content' = content /\ ResizeConserves'
    BY <1>2, RoomContent
  <2>3. D!Begin
    BY <1>1, <2>1, <2>2, SameEntries DEF D!Begin
  <2> QED  BY <2>1, <2>2, <2>3 DEF D!Next, Bookkept, NoRequest
<1>3. ASSUME D!Put(k, v), pc' = "ready", pending' = None, ResizeConserves'
      PROVE  D!Next /\ Bookkept'
  <2>1. D!Act
    BY <1>1, <1>3 DEF D!Act
  <2> QED  BY <1>3, <2>1 DEF D!Next, Bookkept, NoRequest
<1>4. InsertTurn(k, v)
      \/ StartResize(2 * capacity, slots, num_empty, num_tombstone, <<k, v>>)
  BY DEF Insert
<1> QED
  BY <1>1, <1>2, <1>3, <1>4, InsertTurnPuts

(* The retry of an insertion completes it or makes more room.              *)
LEMMA RetryImplements ==
  ASSUME TypeOK, Placed, CU, Bookkept, RetryInsert
  PROVE  D!Next /\ Bookkept'
<1> DEFINE k == pending[1]
           v == pending[2]
<1>1. /\ pc = "insert" /\ Calling /\ pending \in Entry /\ pending # None
      /\ k \in Keys /\ v \in Values /\ pending = <<k, v>> /\ InsertTurn(k, v)
  BY DEF RetryInsert, TypeOK, Entry, Calling
<1> HIDE DEF k, v
<1>2. ASSUME StartResize(2 * capacity, slots, num_empty, num_tombstone, <<k, v>>)
      PROVE  D!Next /\ Bookkept'
  <2>1. pending' = pending /\ pc' \in {"insert", "resize"}
    BY <1>1, <1>2, StartResizeRequest
  <2>2. content' = content /\ ResizeConserves'
    BY <1>1, <1>2, RoomContent
  <2>3. D!Work
    BY <1>1, <2>1, <2>2 DEF D!Work
  <2> QED  BY <2>1, <2>2, <2>3 DEF D!Next, Bookkept, NoRequest
<1>3. ASSUME D!Put(k, v), pc' = "ready", pending' = None, ResizeConserves'
      PROVE  D!Next /\ Bookkept'
  <2>1. D!Put(pending[1], pending[2])
    BY <1>3 DEF k, v
  <2>2. D!Complete
    BY <1>1, <1>3, <2>1 DEF D!Complete
  <2> QED  BY <1>3, <2>2 DEF D!Next, Bookkept, NoRequest
<1> QED
  BY <1>1, <1>2, <1>3, InsertTurnPuts

-----------------------------------------------------------------------------
(* Erasures, and operations that leave the entries alone.                  *)

(* A table some of whose entries are gone.                                 *)
LEMMA FewerContent ==
  ASSUME NEW n \in Nat, NEW s \in Tables(n), NEW t \in Tables(n),
         \A p \in Pos(n) : t[p] = s[p] \/ t[p] \in {Empty, Tombstone},
         NEW e \in Entry
  PROVE  Count(t, e) <= Count(s, e)
<1> DEFINE S == {p \in DOMAIN s : s[p] = e}
           T == {p \in DOMAIN t : t[p] = e}
<1>1. T \subseteq S
  BY EntryIsSlot DEF Tables
<1>2. IsFiniteSet(S)
  BY CountType
<1> HIDE DEF S, T
<1>3. Cardinality(T) <= Cardinality(S)
  BY <1>1, <1>2, FS_Subset
<1> QED
  BY <1>3 DEF Count, S, T

(* Erasing only removes entries.                                           *)
LEMMA EraseImplements ==
  ASSUME TypeOK, CU, Bookkept, pc = "ready", Erases
  PROVE  D!Next /\ Bookkept'
<1>1. nbuckets \in Nat /\ slots \in Tables(nbuckets) /\ NoRequest
  BY SwissMapAssumption DEF TypeOK, Tables, Bookkept
<1>2. PICK P \in SUBSET HashPos(slots) : EraseSlots(P)
  BY DEF Erases
<1>3. PICK s \in Tables(nbuckets) : \E ne, nt :
        /\ \A p \in Pos(nbuckets) : IF p \in P THEN s[p] \in {Empty, Tombstone}
                                    ELSE s[p] = slots[p]
        /\ Counts(s, ne, nt)
        /\ \E buried : AutoShrinkAndScrub(s, ne, nt, buried)
  BY <1>2, EraseTable DEF CU
<1>4. PICK ne, nt, buried : AutoShrinkAndScrub(s, ne, nt, buried)
  BY <1>3
<1>5. pending' = None /\ pending = None /\ Ends(s, ne, nt)
  BY <1>1, <1>4, AutoQuiet, AutoEnds
<1>6. /\ \A e \in Entry : content'[e] = Count(s, e)
      /\ ResizeConserves'
  BY <1>1, <1>5, EndsContent
<1>7. ASSUME NEW e \in Entry
      PROVE  content'[e] \in Nat /\ content'[e] <= content[e]
  <2>1. \A p \in Pos(nbuckets) : s[p] = slots[p] \/ s[p] \in {Empty, Tombstone}
    BY <1>3
  <2>2. Count(s, e) <= Count(slots, e) /\ Count(s, e) \in Nat
    BY <1>1, <2>1, FewerContent, CountType
  <2> QED  BY <1>6, <2>2, ContentOf
<1>8. D!Remove
  BY <1>7, RemoveContent
<1>9. D!Act
  BY <1>5, <1>8 DEF D!Act
<1> QED
  BY <1>5, <1>6, <1>9 DEF D!Next, Bookkept, NoRequest

(* A call of the caller that leaves the content alone, without a request,  *)
(* or that empties the map, is a removal of the dictionary.                *)
LEMMA QuietRemoves ==
  ASSUME TypeOK, pc = "ready", pending = None, pending' = None,
         \A e \in Entry : content'[e] = content[e] \/ content'[e] = 0
  PROVE  D!Next /\ NoRequest'
<1>1. \A e \in Entry : content'[e] \in Nat /\ content'[e] <= content[e]
  BY ContentOf
<1>2. D!Act
  BY <1>1, RemoveContent DEF D!Act
<1> QED
  BY <1>2 DEF D!Next, NoRequest

(* resize, reserve, grow and shrink.                                       *)
LEMMA UserResizeImplements ==
  ASSUME TypeOK, Bookkept, pc = "ready", NEW end, UserResize(end)
  PROVE  D!Next /\ Bookkept'
<1>1. StartResize(end, slots, num_empty, num_tombstone, None)
  BY DEF UserResize
<1>2. pending' = None /\ pending = None
  BY <1>1, StartResizeRequest DEF Bookkept, NoRequest
<1>3. content' = content /\ ResizeConserves'
  BY <1>1, RoomContent
<1> QED
  BY <1>2, <1>3, QuietRemoves DEF Bookkept

(* scrub.                                                                  *)
LEMMA UserScrubImplements ==
  ASSUME TypeOK, Bookkept, pc = "ready", StartScrub(slots, num_empty, num_tombstone)
  PROVE  D!Next /\ Bookkept'
<1>1. nbuckets \in Nat /\ slots \in Tables(nbuckets) /\ NoRequest
  BY SwissMapAssumption DEF TypeOK, Tables, Bookkept
<1>2. pending' = None /\ pending = None /\ Ends(slots, num_empty, num_tombstone)
  BY <1>1, AutoQuiet, AutoEnds
<1>3. /\ \A e \in Entry : content'[e] = Count(slots, e)
      /\ ResizeConserves'
  BY <1>1, <1>2, EndsContent
<1> QED
  BY <1>2, <1>3, ContentOf, QuietRemoves DEF Bookkept

(* clear.                                                                  *)
LEMMA EmptiesImplements ==
  ASSUME TypeOK, Bookkept, pc = "ready", Empties
  PROVE  D!Next /\ Bookkept'
<1>1. /\ slots' = AllEmpty(nbuckets') /\ nbuckets' \in Nat
      /\ pc' = "ready" /\ pending' = None /\ pending = None
  BY DEF Empties, Allocate, Bookkept, NoRequest
<1>2. \A e \in Entry : content'[e] = 0
  BY <1>1, CountFresh, EntryIsSlot DEF content
<1> QED
  BY <1>1, <1>2, QuietRemoves DEF Bookkept, ResizeConserves

-----------------------------------------------------------------------------
(* The steps of an operation in progress.                                  *)

(* Moving one entry of the old table, or starting over, loses none.        *)
LEMMA RehashConserves ==
  ASSUME TypeOK, CU, ResizeConserves, RehashEntry
  PROVE  ResizeConserves'
<1>1. pc = "resize" /\ pc' = "resize" /\ old' = old
  BY DEF RehashEntry, rehash
<1>2. PICK m \in 0 .. MaxBuckets : old \in Tables(m)
  BY DEF TypeOK, Tables
<1>3. /\ m \in Nat /\ nbuckets \in Nat /\ slots \in Tables(nbuckets)
      /\ todo \subseteq HashPos(old)
  BY <1>1, SwissMapAssumption DEF TypeOK, Tables
<1>4. PICK p \in todo :
       \/ \E j \in Steps(nbuckets), q \in Pos(nbuckets) :
            /\ LowestIn(FreePos(slots), Probe(old[p][1], nbuckets, j), q)
            /\ slots' = [slots EXCEPT ![q] = old[p]]
            /\ todo' = todo \ {p}
       \/ Allocate(RestartedBuckets) /\ todo' = HashPos(old)
  BY Zenon DEF RehashEntry, Restarted
<1>5. old[p] \in Entry
  BY <1>2, <1>3, SlotKinds
<1>6. ASSUME NEW q \in FreePos(slots),
             slots' = [slots EXCEPT ![q] = old[p]], todo' = todo \ {p}
      PROVE  ResizeConserves'
  <2> SUFFICES ASSUME NEW e \in Entry
               PROVE  Count(slots', e) + Cardinality(Left(e)') = Count(old, e)
    BY <1>1 DEF ResizeConserves
  <2>1. q \in Pos(nbuckets) /\ slots[q] # e
    BY <1>3, SlotKinds, EntryIsSlot DEF FreePos, EmptyPos, TombPos
  <2>2. Count(slots', e) = Count(slots, e) + (IF e = old[p] THEN 1 ELSE 0)
    <3> DEFINE f == old[p]
    <3>1. f \in Entry
      BY <1>5
    <3> HIDE DEF f
    <3>2. Count([slots EXCEPT ![q] = f], e)
            = Count(slots, e) + (IF e = f THEN 1 ELSE 0)
                              - (IF e = slots[q] THEN 1 ELSE 0)
      BY <1>3, <2>1, <3>1, StoreContent
    <3>3. Count(slots, e) \in Nat
      BY <1>3, CountType
    <3> QED  BY <1>6, <2>1, <3>2, <3>3 DEF f
  <2>3. IsFiniteSet(Left(e)) /\ Cardinality(Left(e)) \in Nat
    <3>1. Left(e) \in SUBSET Pos(m)
      BY <1>2, <1>3, SlotKinds DEF Left
    <3> QED  BY <1>3, <3>1, PosCardinality
  <2>4. Cardinality(Left(e)') = Cardinality(Left(e)) - (IF e = old[p] THEN 1 ELSE 0)
    <3>1. CASE e = old[p]
      <4>1. Left(e)' = Left(e) \ {p} /\ p \in Left(e)
        BY <1>1, <1>6, <3>1 DEF Left
      <4>2. Cardinality(Left(e) \ {p}) = Cardinality(Left(e)) - 1
        BY <2>3, <4>1, FS_RemoveElement
      <4> QED  BY <3>1, <4>1, <4>2
    <3>2. CASE e # old[p]
      <4>1. Left(e)' = Left(e)
        BY <1>1, <1>6, <3>2 DEF Left
      <4> QED  BY <2>3, <3>2, <4>1
    <3> QED  BY <3>1, <3>2
  <2>5. Count(slots, e) + Cardinality(Left(e)) = Count(old, e)
    BY <1>1 DEF ResizeConserves
  <2>6. Count(slots, e) \in Nat
    BY <1>3, CountType
  <2> QED  BY <2>2, <2>3, <2>4, <2>5, <2>6
<1>7. ASSUME Allocate(RestartedBuckets), todo' = HashPos(old)
      PROVE  ResizeConserves'
  <2> SUFFICES ASSUME NEW e \in Entry
               PROVE  Count(slots', e) + Cardinality(Left(e)') = Count(old, e)
    BY <1>1 DEF ResizeConserves
  <2>1. Count(slots', e) = 0
    BY <1>7, CountFresh, EntryIsSlot DEF Allocate
  <2>2. Cardinality(Left(e)') = Count(old, e)
    <3>1. Left(e)' = {r \in DOMAIN old : old[r] = e}
      BY <1>1, <1>7, EntryIsHash DEF Left, HashPos
    <3> QED  BY <3>1 DEF Count
  <2>3. Count(old, e) \in Nat
    BY <1>2, <1>3, CountType
  <2> QED  BY <2>1, <2>2, <2>3
<1> QED
  BY <1>4, <1>6, <1>7 DEF LowestIn

(* A step of a resize is work in progress.                                 *)
LEMMA RehashImplements ==
  ASSUME TypeOK, CU, Bookkept, RehashEntry
  PROVE  D!Next /\ Bookkept'
<1>1. pc = "resize" /\ pc' = "resize" /\ old' = old /\ pending' = pending
  BY DEF RehashEntry, rehash
<1>2. ResizeConserves /\ ResizeConserves'
  BY RehashConserves DEF Bookkept
<1>3. \A e \in Entry : content'[e] = content[e]
  <2> SUFFICES ASSUME NEW e \in Entry PROVE content'[e] = content[e]
    OBVIOUS
  <2>1. content[e] = Count(old, e)
    BY <1>1, <1>2, ContentOfOld
  <2>2. content'[e] = Count(old, e)
    BY <1>1, <1>2 DEF content, ResizeConserves, Left
  <2> QED  BY <2>1, <2>2
<1>4. D!Work
  BY <1>1, <1>3, SameContent DEF D!Work
<1> QED
  BY <1>1, <1>2, <1>4 DEF D!Next, Bookkept, NoRequest

(* So is its end.                                                          *)
LEMMA FinishResizeImplements ==
  ASSUME TypeOK, Bookkept, FinishResize
  PROVE  D!Next /\ Bookkept'
<1>1. /\ pc = "resize" /\ todo = {} /\ slots' = slots /\ pending' = pending
      /\ pc' = (IF pending = None THEN "ready" ELSE "insert")
  BY DEF FinishResize
<1>2. ASSUME NEW e \in Entry PROVE content'[e] = content[e]
  <2>1. {p \in todo : old[p] = e} = {}
    BY <1>1
  <2>2. content[e] = Count(slots, e) + 0
    BY <1>1, <2>1, FS_EmptySet DEF content
  <2>3. content'[e] = Count(slots, e) + 0
    BY <1>1 DEF content
  <2> QED  BY <2>2, <2>3
<1>3. D!Work
  BY <1>1, <1>2, SameContent DEF D!Work
<1> QED
  BY <1>1, <1>3 DEF D!Next, Bookkept, NoRequest, ResizeConserves

(* A step of a scrub that leaves every entry somewhere.                    *)
LEMMA ScrubImplements ==
  ASSUME TypeOK, Bookkept, pc = "scrub", pc' \in {"scrub", "ready"}, pending' = pending,
         \A e \in Entry : Count(slots', e) = Count(slots, e)
  PROVE  D!Next /\ Bookkept'
<1>1. pending = None
  BY DEF Bookkept, NoRequest
<1>2. \A e \in Entry : content'[e] = content[e]
  BY DEF content
<1>3. D!Work
  BY <1>2, SameContent DEF D!Work
<1> QED
  BY <1>1, <1>3 DEF D!Next, Bookkept, NoRequest, ResizeConserves

(* scrub_ moves entries and loses none.                                    *)
LEMMA ScrubEntryImplements ==
  ASSUME TypeOK, Placed, Bookkept, ScrubEntry
  PROVE  D!Next /\ Bookkept'
<1>1. /\ pc = "scrub" /\ pc' = "scrub" /\ pending' = pending
      /\ nbuckets \in Nat /\ slots \in Tables(nbuckets)
  BY ScrubEntryCases, SwissMapAssumption DEF TypeOK, Tables
<1>2. CASE UNCHANGED <<slots, num_empty, num_tombstone>>
  BY <1>1, <1>2, ScrubImplements
<1>3. ASSUME NEW p \in HashPos(slots), NEW q \in Pos(nbuckets), NEW x \in {Empty, Tombstone},
             q # p, p \in Pos(nbuckets), slots[q] = Tombstone,
             slots' = [slots EXCEPT ![q] = slots[p], ![p] = x]
      PROVE  D!Next /\ Bookkept'
  <2>1. x \in Slot
    BY DEF Slot
  <2>2. /\ slots' \in Tables(nbuckets) /\ slots'[q] = slots[p] /\ slots'[p] = x
        /\ \A r \in Pos(nbuckets) : r # p /\ r # q => slots'[r] = slots[r]
    BY <1>1, <1>3, <2>1 DEF Tables
  <2>3. ASSUME NEW e \in Entry PROVE Count(slots', e) = Count(slots, e)
    <3>1. /\ p # q /\ p \in Pos(nbuckets) /\ q \in Pos(nbuckets)
          /\ slots[q] # e /\ x # e
      BY <1>3, EntryIsSlot
    <3>2. Count(slots', e) = Count(slots, e) + (IF slots'[p] = e THEN 1 ELSE 0)
                                             - (IF slots[q] = e THEN 1 ELSE 0)
      BY <1>1, <2>2, <3>1, MoveCounts
    <3>3. Count(slots, e) \in Nat
      BY <1>1, CountType
    <3> QED  BY <2>2, <3>1, <3>2, <3>3
  <2> QED  BY <1>1, <2>3, ScrubImplements
<1> QED
  BY <1>2, <1>3, ScrubEntryCases, Zenon

(* A new pass leaves the table alone.                                      *)
LEMMA NextPassImplements ==
  ASSUME TypeOK, Bookkept, NextPass
  PROVE  D!Next /\ Bookkept'
<1>1. pc = "scrub" /\ pc' = "scrub" /\ pending' = pending /\ slots' = slots
  BY DEF NextPass, PassDone, table
<1> QED
  BY <1>1, ScrubImplements

(* The end of scrub_ only empties tombstones.                              *)
LEMMA FinishScrubImplements ==
  ASSUME TypeOK, CU, Bookkept, FinishScrub
  PROVE  D!Next /\ Bookkept'
<1>1. /\ pc = "scrub" /\ pc' = "ready" /\ slots' \in Tables(nbuckets)
      /\ slots \in Tables(nbuckets)
      /\ \A p \in Pos(nbuckets) : \/ slots'[p] = slots[p]
                                  \/ slots[p] = Tombstone /\ slots'[p] = Empty
  BY FinishScrubTable DEF TypeOK, Tables
<1>2. pending' = pending
  BY DEF FinishScrub
<1>3. ASSUME NEW e \in Entry PROVE Count(slots', e) = Count(slots, e)
  <2>1. {p \in DOMAIN slots' : slots'[p] = e} = {p \in DOMAIN slots : slots[p] = e}
    BY <1>1, EntryIsSlot DEF Tables
  <2> QED  BY <2>1 DEF Count
<1> QED
  BY <1>1, <1>2, <1>3, ScrubImplements

-----------------------------------------------------------------------------
(* The refinement.                                                         *)

(* The empty map is the empty dictionary.                                  *)
LEMMA InitImplements ==
  ASSUME Init
  PROVE  D!Init /\ Bookkept
<1>1. /\ nbuckets \in Nat /\ slots = AllEmpty(nbuckets)
      /\ pc = "ready" /\ pending = None
  BY SwissMapAssumption DEF Init
<1>2. \A e \in Entry : content[e] = 0
  BY <1>1, CountFresh, EntryIsSlot DEF content
<1>3. content = [e \in Entry |-> content[e]]
  BY DEF content
<1>4. content = D!Nothing
  BY <1>2, <1>3, SameEntries DEF D!Nothing
<1> QED
  BY <1>1, <1>4 DEF D!Init, Bookkept, NoRequest, ResizeConserves

(* Every step of the map is a step of the dictionary, or changes nothing   *)
(* that the dictionary has.                                                *)
LEMMA NextImplements ==
  ASSUME TypeOK, Placed, CU, Bookkept, [Next]_vars
  PROVE  [D!Next]_(D!vars) /\ Bookkept'
<1>1. CASE UNCHANGED vars
  <2>1. /\ slots' = slots /\ pc' = pc /\ pending' = pending
        /\ todo' = todo /\ old' = old
    BY <1>1 DEF vars, table, rehash
  <2>2. \A e \in Entry : content'[e] = content[e]
    BY <2>1 DEF content
  <2>3. UNCHANGED D!vars
    BY <2>1, <2>2, SameContent DEF D!vars
  <2>4. Bookkept'
    BY <2>1 DEF Bookkept, NoRequest, ResizeConserves, Left
  <2> QED  BY <2>3, <2>4
<1>2. CASE ~UNCHANGED vars
  <2>1. D!Next /\ Bookkept'
    BY <1>2, CallCases, OverwriteUpdates, InsertImplements, RetryImplements,
       EraseImplements, UserResizeImplements, UserScrubImplements, EmptiesImplements,
       RehashImplements, FinishResizeImplements, ScrubEntryImplements,
       NextPassImplements, FinishScrubImplements DEF Bookkept
  <2> QED  BY <2>1
<1> QED
  BY <1>1, <1>2

(* The map implements the dictionary: whatever it does inside, to grow in  *)
(* the middle of an insertion, to start a resize over, to scrub or to      *)
(* shrink, the caller sees entries put, updated and removed as asked, and  *)
(* nothing else.                                                           *)
THEOREM MapImplementsDictionary ==
  ASSUME KernelSize > 1
  PROVE  Spec => ImplementsDictionary
<1>1. Init => TypeOK /\ Placed /\ CU /\ Bookkept /\ D!Init
  BY InitType, InitPlaced, InitCU, InitImplements
<1>2. TypeOK /\ Placed /\ CU /\ Bookkept /\ [Next]_vars
        => [D!Next]_(D!vars) /\ (TypeOK /\ Placed /\ CU /\ Bookkept)'
  BY NextType, NextPlaced, NextCU, NextImplements
<1> QED
  BY <1>1, <1>2, PTL DEF Spec, ImplementsDictionary, D!Spec

-----------------------------------------------------------------------------
(* What erasures remove.                                                   *)

(* The content after the slots P were erased.                              *)
LEMMA EraseContent ==
  ASSUME TypeOK, Counted, pc = "ready", NEW P \in SUBSET HashPos(slots), EraseSlots(P)
  PROVE  \E s \in Tables(nbuckets) :
           /\ \A p \in Pos(nbuckets) : IF p \in P THEN s[p] \in {Empty, Tombstone}
                                       ELSE s[p] = slots[p]
           /\ \A e \in Entry : content'[e] = Count(s, e)
<1>1. PICK s \in Tables(nbuckets) : \E ne, nt :
        /\ \A p \in Pos(nbuckets) : IF p \in P THEN s[p] \in {Empty, Tombstone}
                                    ELSE s[p] = slots[p]
        /\ Counts(s, ne, nt)
        /\ \E buried : AutoShrinkAndScrub(s, ne, nt, buried)
  BY EraseTable
<1>2. PICK ne, nt : Ends(s, ne, nt)
  BY <1>1, AutoEnds
<1>3. nbuckets \in Nat
  BY SwissMapAssumption DEF TypeOK
<1> QED
  BY <1>1, <1>2, <1>3, EndsContent

(* Erasing one slot removes one entry.                                     *)
LEMMA EraseOneExact ==
  ASSUME TypeOK, Counted, pc = "ready", NEW k,
         NEW q \in KeyPos(slots, k), EraseSlots({q})
  PROVE  \E v \in Values : content' = [content EXCEPT ![<<k, v>>] = @ - 1]
<1>1. nbuckets \in Nat /\ slots \in Tables(nbuckets)
  BY SwissMapAssumption DEF TypeOK, Tables
<1>2. q \in HashPos(slots) /\ q \in Pos(nbuckets) /\ slots[q] \in Entry /\ slots[q][1] = k
  BY <1>1, SlotKinds DEF KeyPos, HashPos
<1>3. PICK s \in Tables(nbuckets) :
        /\ \A p \in Pos(nbuckets) : IF p \in {q} THEN s[p] \in {Empty, Tombstone}
                                    ELSE s[p] = slots[p]
        /\ \A e \in Entry : content'[e] = Count(s, e)
  BY <1>2, EraseContent
<1> DEFINE v == slots[q][2]
<1>4. v \in Values /\ slots[q] = <<k, v>>
  BY <1>2 DEF Entry
<1> HIDE DEF v
<1>5. ASSUME NEW e \in Entry
      PROVE  content'[e] = IF e = <<k, v>> THEN content[e] - 1 ELSE content[e]
  <2>1. s[q] # e /\ \A p \in Pos(nbuckets) \ {q} : s[p] = slots[p]
    BY <1>2, <1>3, EntryIsSlot
  <2>2. Count(s, e) = Count(slots, e) + (IF s[q] = e THEN 1 ELSE 0)
                                      - (IF slots[q] = e THEN 1 ELSE 0)
    BY <1>1, <1>2, <2>1, CountChange
  <2>3. content[e] = Count(slots, e) /\ content[e] \in Nat
    BY ContentOf
  <2> QED  BY <1>3, <1>4, <2>1, <2>2, <2>3
<1>6. content' = [e \in Entry |-> content'[e]] /\ content = [e \in Entry |-> content[e]]
  BY DEF content
<1>7. content' = [content EXCEPT ![<<k, v>>] = @ - 1]
  BY <1>5, <1>6
<1> QED
  BY <1>4, <1>7

(* erase_all_ reaches every entry of its key and no other.                 *)
LEMMA EraseAllExact ==
  ASSUME TypeOK, EntriesReachable, Counted, NEW k, EraseAll(k)
  PROVE  content' = [e \in Entry |-> IF e[1] = k THEN 0 ELSE content[e]]
<1>1. nbuckets \in Nat /\ slots \in Tables(nbuckets)
  BY SwissMapAssumption DEF TypeOK, Tables
<1>2. pc = "ready" /\ EraseSlots(ReachablePos(k))
  BY DEF EraseAll, Ready
<1>3. ReachablePos(k) = KeyPos(slots, k) /\ KeyPos(slots, k) \in SUBSET HashPos(slots)
  BY DEF ReachablePos, EntriesReachable, ReachableAt, KeyPos, HashPos
<1>4. PICK s \in Tables(nbuckets) :
        /\ \A p \in Pos(nbuckets) : IF p \in KeyPos(slots, k)
                                    THEN s[p] \in {Empty, Tombstone}
                                    ELSE s[p] = slots[p]
        /\ \A e \in Entry : content'[e] = Count(s, e)
  BY <1>2, <1>3, EraseContent
<1>5. ASSUME NEW e \in Entry
      PROVE  content'[e] = IF e[1] = k THEN 0 ELSE content[e]
  <2>1. CASE e[1] = k
    <3>1. \A p \in Pos(nbuckets) : s[p] # e
      BY <1>1, <1>4, <2>1, EntryIsSlot, EntryIsHash DEF KeyPos, Tables
    <3>2. Count(s, e) = 0
      BY <1>1, <3>1, CountType
    <3> QED  BY <1>4, <2>1, <3>2
  <2>2. CASE e[1] # k
    <3>1. {p \in DOMAIN s : s[p] = e} = {p \in DOMAIN slots : slots[p] = e}
      BY <1>1, <1>4, <2>2, EntryIsSlot DEF KeyPos, Tables
    <3>2. Count(s, e) = Count(slots, e)
      BY <3>1 DEF Count
    <3> QED  BY <1>2, <1>4, <2>2, <3>2, ContentOf
  <2> QED  BY <2>1, <2>2
<1>6. content' = [e \in Entry |-> content'[e]]
  BY DEF content
<1> QED
  BY <1>5, <1>6

(* erase removes one entry of its key and nothing else, and erase_all all  *)
(* entries of its key and nothing else, also when the erasure goes on to   *)
(* shrink or scrub the table and wherever tombstones and resizes have left *)
(* the duplicates.                                                         *)
THEOREM ErasuresExact ==
  ASSUME KernelSize > 1
  PROVE  Spec => EraseIsExact
<1> DEFINE Exact ==
      \A k \in Keys :
        /\ EraseFirst(k) \/ EraseNext(k) =>
             \E v \in Values : content' = [content EXCEPT ![<<k, v>>] = @ - 1]
        /\ EraseAll(k) =>
             content' = [e \in Entry |-> IF e[1] = k THEN 0 ELSE content[e]]
<1>1. ASSUME IInv PROVE Exact
  <2>1. TypeOK /\ EntriesReachable /\ Counted
    BY <1>1 DEF IInv, Counted
  <2>2. ASSUME NEW k \in Keys, EraseFirst(k)
        PROVE  \E v \in Values : content' = [content EXCEPT ![<<k, v>>] = @ - 1]
    <3>1. PICK j \in Steps(nbuckets), p \in Pos(nbuckets) :
            FoundAt(slots, nbuckets, k, j, p) /\ EraseSlots({p})
      BY <2>2, Zenon DEF EraseFirst
    <3>2. p \in KeyPos(slots, k) /\ pc = "ready"
      BY <2>2, <3>1 DEF FoundAt, LowestIn, EraseFirst, Ready
    <3> QED  BY <2>1, <3>1, <3>2, EraseOneExact
  <2>3. ASSUME NEW k \in Keys, EraseNext(k)
        PROVE  \E v \in Values : content' = [content EXCEPT ![<<k, v>>] = @ - 1]
    <3>1. PICK j \in Steps(nbuckets), i \in Steps(nbuckets),
               p \in Pos(nbuckets), q \in Pos(nbuckets) :
            FindsNext(slots, nbuckets, k, j, p, i, q) /\ EraseSlots({q})
      BY <2>3, Zenon DEF EraseNext
    <3>2. q \in KeyPos(slots, k) /\ pc = "ready"
      BY <2>3, <3>1 DEF FindsNext, InBucketAfter, LowestIn, EraseNext, Ready
    <3> QED  BY <2>1, <3>1, <3>2, EraseOneExact
  <2>4. ASSUME NEW k \in Keys, EraseAll(k)
        PROVE  content' = [e \in Entry |-> IF e[1] = k THEN 0 ELSE content[e]]
    BY <2>1, <2>4, EraseAllExact
  <2> QED  BY <2>2, <2>3, <2>4
<1>2. IInv /\ [Next]_vars => [Exact]_vars
  BY <1>1
<1>3. EraseIsExact <=> [][Exact]_vars
  BY DEF EraseIsExact
<1> HIDE DEF Exact
<1> QED
  BY <1>2, <1>3, InductiveInvariant, PTL DEF Spec
===============================================================================
