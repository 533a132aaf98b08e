---------------------------- MODULE SwissMapProofs ----------------------------
(***************************************************************************)
(* Proofs about SwissMap, for every table, probe sequence, configuration   *)
(* and set of keys: its types, and that no operation ever hides an entry.  *)
(***************************************************************************)
EXTENDS SwissMap, AlgorithmProofs

-----------------------------------------------------------------------------
(* Sets of positions are finite, and minima exist.                         *)

(* A table of n buckets has n * KernelSize slots.                          *)
LEMMA PosFinite ==
  ASSUME NEW n \in Nat
  PROVE  /\ IsFiniteSet(Pos(n))
         /\ Cardinality(Pos(n)) = n * KernelSize
<1>1. n - 1 \in Int /\ KernelSize \in Nat /\ KernelSize - 1 \in Int /\ KernelSize > 0
  BY SwissMapAssumption
<1>2. /\ IsFiniteSet(0 .. n - 1)
      /\ Cardinality(0 .. n - 1) = n
  BY <1>1, FS_Interval
<1>3. /\ IsFiniteSet(Lanes)
      /\ Cardinality(Lanes) = KernelSize
  BY <1>1, FS_Interval DEF Lanes
<1> QED
  BY <1>2, <1>3, FS_Product DEF Pos

(* Every set of positions of a table has a number of elements.             *)
LEMMA PosCardinality ==
  ASSUME NEW n \in Nat, NEW P \in SUBSET Pos(n)
  PROVE  IsFiniteSet(P) /\ Cardinality(P) \in Nat
BY PosFinite, FS_Subset, FS_CardinalityType

(* If a probe sequence meets a bucket of B, there is a first one it meets. *)
LEMMA FirstExists ==
  ASSUME NEW k, NEW n, NEW B, NEW i \in Steps(n), Probe(k, n, i) \in B,
         n \in Nat
  PROVE  \E j \in Steps(n) : FirstIn(k, n, B, j) /\ j <= i
<1> DEFINE S == {j \in Steps(n) : Probe(k, n, j) \in B}
<1>1. Steps(n) \subseteq Nat
  BY SwissMapAssumption DEF Steps
<1>2. S \in SUBSET Nat /\ S # {}
  BY <1>1
<1> HIDE DEF S
<1>3. PICK m \in S : \A x \in S : m <= x
  BY <1>2, LeastNat
<1> QED
  BY <1>1, <1>3 DEF S, FirstIn

(* If some position of P is in bucket b, one of them has the lowest lane.  *)
LEMMA LowestExists ==
  ASSUME NEW n \in Nat, NEW P \in SUBSET Pos(n), NEW b,
         NEW r \in P, r[1] = b
  PROVE  \E p \in P : LowestIn(P, b, p)
<1> DEFINE S == {q[2] : q \in {q \in P : q[1] = b}}
<1>1. S \in SUBSET Nat /\ S # {}
  BY DEF Pos, Lanes
<1>2. PICK m \in S : \A x \in S : m <= x
  BY <1>1, LeastNat
<1> QED
  BY <1>2 DEF LowestIn

-----------------------------------------------------------------------------
(* Types.  One lemma for each of the steps that operations end with, then  *)
(* one for each family of operations.                                      *)

Tables(n) == [Pos(n) -> Slot]

Calling == pc \in {"ready", "insert"}

(* Returning with a table of the right size keeps the types.               *)
LEMMA ReturnType ==
  ASSUME TypeOK, Calling, NEW s \in Tables(nbuckets), NEW ne \in Int, NEW nt \in Int,
         Return(s, ne, nt)
  PROVE  TypeOK'
BY DEF TypeOK, Calling, Tables, Return, rehash, scrubbing

(* alloc_ gives a table of the size it sets.                               *)
LEMMA AllocateType ==
  ASSUME NEW n, Allocate(n)
  PROVE  /\ nbuckets' = n /\ n \in 1 .. MaxBuckets
         /\ slots' \in Tables(n)
         /\ num_empty' \in Int /\ num_tombstone' \in Int
<1>1. MaxBuckets \in Nat /\ KernelSize \in Nat
  BY SwissMapAssumption
<1> QED
  BY <1>1 DEF Allocate, AllEmpty, Tables, Slot

(* The start of resize_, whoever called it, keeps the types.               *)
LEMMA StartResizeType ==
  ASSUME TypeOK, Calling, NEW s \in Tables(nbuckets), NEW ne \in Int, NEW nt \in Int,
         NEW pend \in Entry \cup {None}, NEW end,
         StartResize(end, s, ne, nt, pend)
  PROVE  TypeOK'
<1> DEFINE sz     == capacity - (ne + nt)
           target == resize_target(end, sz)
<1>1. KernelSize \in Nat /\ MaxBuckets \in Nat
  BY SwissMapAssumption
<1>2. nbuckets \in 1 .. MaxBuckets /\ sz \in Int
  BY <1>1 DEF TypeOK, capacity
<1>3. CASE target = capacity
  <2>1. /\ slots' = s /\ num_empty' = ne /\ num_tombstone' = nt
        /\ pc' = (IF pend = None THEN "ready" ELSE "insert")
        /\ pending' = pend
        /\ UNCHANGED <<nbuckets, todo, rehash, scrubbing>>
    BY <1>3 DEF StartResize
  <2> QED  BY <2>1 DEF TypeOK, Calling, Tables, rehash, scrubbing
<1>4. CASE target # capacity
  <2>1. /\ Allocate(target \div KernelSize)
        /\ old' = s /\ old_size' = sz /\ todo' = HashPos(s)
        /\ pc' = "resize" /\ pending' = pend
        /\ UNCHANGED scrubbing
    BY <1>4 DEF StartResize
  <2> HIDE DEF target, sz
  <2>2. /\ nbuckets' \in 1 .. MaxBuckets
        /\ slots' \in [Pos(nbuckets') -> Slot]
        /\ num_empty' \in Int /\ num_tombstone' \in Int
    BY <2>1, AllocateType DEF Tables
  <2>3. nbuckets \in 0 .. MaxBuckets /\ old' \in [Pos(nbuckets) -> Slot]
    BY <1>1, <1>2, <2>1 DEF Tables
  <2> QED  BY <1>2, <2>1, <2>2, <2>3 DEF TypeOK, scrubbing
<1> QED
  BY <1>3, <1>4

(* The start of scrub_ keeps the types.                                    *)
LEMMA StartScrubType ==
  ASSUME TypeOK, pc = "ready", NEW s \in Tables(nbuckets), NEW ne \in Int, NEW nt \in Int,
         StartScrub(s, ne, nt)
  PROVE  TypeOK'
<1>1. CASE nt = 0 /\ Return(s, ne, nt)
  BY <1>1, ReturnType DEF Calling
<1>2. CASE ~(nt = 0 /\ Return(s, ne, nt))
  <2>1. /\ slots' = s /\ num_empty' = ne /\ num_tombstone' = nt
        /\ pc' = "scrub" /\ todo' = Pos(nbuckets)
        /\ moves' = 0 /\ pass_moves' = 0 /\ psl_zero' = TRUE
        /\ UNCHANGED <<nbuckets, pending, rehash>>
    BY <1>2, Zenon DEF StartScrub
  <2> QED  BY <2>1 DEF TypeOK, Tables, rehash
<1> QED
  BY <1>1, <1>2

(* auto_shrink_and_scub_ keeps the types.                                  *)
LEMMA AutoType ==
  ASSUME TypeOK, pc = "ready", NEW s \in Tables(nbuckets), NEW ne \in Int, NEW nt \in Int,
         NEW buried, AutoShrinkAndScrub(s, ne, nt, buried)
  PROVE  TypeOK'
<1>1. Calling /\ None \in Entry \cup {None}
  BY DEF Calling
<1>2. \/ StartResize(capacity \div 2, s, ne, nt, None)
      \/ StartScrub(s, ne, nt)
      \/ Return(s, ne, nt)
  BY DEF AutoShrinkAndScrub
<1> QED
  BY <1>1, <1>2, StartResizeType, StartScrubType, ReturnType

(* Erasing any set of slots keeps the types.                               *)
LEMMA EraseType ==
  ASSUME TypeOK, pc = "ready", NEW P \in SUBSET Pos(nbuckets), EraseSlots(P)
  PROVE  TypeOK'
<1> DEFINE buried == P \ Emptied(P)
           s == [p \in Pos(nbuckets) |->
                   IF p \in Emptied(P) THEN Empty
                   ELSE IF p \in buried THEN Tombstone ELSE slots[p]]
           ne == num_empty + Cardinality(Emptied(P))
           nt == num_tombstone + Cardinality(buried)
<1>1. MaxBuckets \in Nat /\ nbuckets \in Nat /\ num_empty \in Int /\ num_tombstone \in Int
  BY SwissMapAssumption DEF TypeOK
<1>2. Emptied(P) \in SUBSET Pos(nbuckets) /\ buried \in SUBSET Pos(nbuckets)
  BY DEF Emptied
<1>3. ne \in Int /\ nt \in Int
  BY <1>1, <1>2, PosCardinality
<1>4. s \in Tables(nbuckets)
  BY DEF TypeOK, Tables, Slot
<1>5. AutoShrinkAndScrub(s, ne, nt, Cardinality(buried))
  BY Zenon DEF EraseSlots
<1> HIDE DEF s, ne, nt
<1> QED
  BY <1>3, <1>4, <1>5, AutoType

(* Storing an entry leaves a table of the same size.                       *)
LEMMA StoreType ==
  ASSUME TypeOK, NEW e \in Entry, NEW p \in Pos(nbuckets)
  PROVE  [slots EXCEPT ![p] = e] \in Tables(nbuckets)
BY DEF TypeOK, Tables, Slot

(* A turn of the loop of insert_ keeps the types.                          *)
LEMMA InsertTurnType ==
  ASSUME TypeOK, Calling, NEW k \in Keys, NEW v \in Values, InsertTurn(k, v)
  PROVE  TypeOK'
<1>1. num_empty \in Int /\ num_tombstone \in Int /\ slots \in Tables(nbuckets)
  BY DEF TypeOK, Tables
<1>2. <<k, v>> \in Entry
  BY DEF Entry
<1>3. ASSUME NEW j \in Steps(nbuckets), NEW p \in Pos(nbuckets),
             Return([slots EXCEPT ![p] = <<k, v>>], num_empty, num_tombstone)
      PROVE  TypeOK'
  <2>1. [slots EXCEPT ![p] = <<k, v>>] \in Tables(nbuckets)
    BY <1>2, StoreType
  <2> QED  BY <1>1, <1>3, <2>1, ReturnType
<1>4. ASSUME NEW j \in Steps(nbuckets), NEW p \in Pos(nbuckets),
             Return([slots EXCEPT ![p] = <<k, v>>],
                    num_empty - (1 - Reuses(p)), num_tombstone - Reuses(p))
      PROVE  TypeOK'
  <2>1. [slots EXCEPT ![p] = <<k, v>>] \in Tables(nbuckets)
    BY <1>2, StoreType
  <2>2. num_empty - (1 - Reuses(p)) \in Int /\ num_tombstone - Reuses(p) \in Int
    BY <1>1 DEF Reuses
  <2> QED  BY <1>4, <2>1, <2>2, ReturnType
<1>5. ASSUME StartResize(2 * capacity, slots, num_empty, num_tombstone, <<k, v>>)
      PROVE  TypeOK'
  BY <1>1, <1>2, <1>5, StartResizeType
<1> QED
  BY <1>3, <1>4, <1>5, Zenon DEF InsertTurn

(* Moving an entry, or starting over, in resize_ keeps the types.          *)
LEMMA RehashType ==
  ASSUME TypeOK, RehashEntry
  PROVE  TypeOK'
<1>1. /\ pc = "resize"
      /\ UNCHANGED <<pc, pending, rehash, scrubbing>>
  BY DEF RehashEntry
<1>2. PICK p \in todo :
       \/ \E j \in Steps(nbuckets), q \in Pos(nbuckets) :
            /\ slots' = [slots EXCEPT ![q] = old[p]]
            /\ todo' = todo \ {p}
            /\ UNCHANGED <<nbuckets, num_empty, num_tombstone>>
       \/ /\ Allocate(RestartedBuckets)
          /\ todo' = HashPos(old)
  BY Zenon DEF RehashEntry, Restarted
<1>3. old[p] \in Slot
  BY <1>1 DEF TypeOK, HashPos
<1>4. CASE \E j \in Steps(nbuckets), q \in Pos(nbuckets) :
            /\ slots' = [slots EXCEPT ![q] = old[p]]
            /\ todo' = todo \ {p}
            /\ UNCHANGED <<nbuckets, num_empty, num_tombstone>>
  BY <1>1, <1>3, <1>4 DEF TypeOK, rehash, scrubbing
<1>5. CASE Allocate(RestartedBuckets) /\ todo' = HashPos(old)
  <2>1. /\ nbuckets' \in 1 .. MaxBuckets
        /\ slots' \in [Pos(nbuckets') -> Slot]
        /\ num_empty' \in Int /\ num_tombstone' \in Int
    BY <1>5, AllocateType DEF Tables
  <2> QED  BY <1>1, <1>5, <2>1 DEF TypeOK, rehash, scrubbing
<1> QED
  BY <1>2, <1>4, <1>5

(* The end of resize_ keeps the types.                                     *)
LEMMA FinishResizeType ==
  ASSUME TypeOK, FinishResize
  PROVE  TypeOK'
<1>1. NoTable \in [Pos(0) -> Slot]
  BY DEF NoTable, Pos
<1>2. 0 \in 0 .. MaxBuckets
  BY SwissMapAssumption
<1> QED
  BY <1>1, <1>2 DEF TypeOK, FinishResize, scrubbing

(* Visiting an entry in scrub_ keeps the types.                            *)
LEMMA ScrubEntryType ==
  ASSUME TypeOK, ScrubEntry
  PROVE  TypeOK'
<1>1. /\ pc = "scrub"
      /\ UNCHANGED <<nbuckets, pc, pending, rehash>>
  BY DEF ScrubEntry
<1>2. PICK p \in todo \cap HashPos(slots), j \in Steps(nbuckets) :
        /\ todo' = {q \in todo : Before(p, q)}
        /\ psl_zero' = (psl_zero /\ j = 0)
        /\ \/ ScrubStays(p, j)
           \/ \E q \in Pos(nbuckets) : ScrubMoves(p, j, q)
  BY Zenon DEF ScrubEntry
<1>3. psl_zero' \in BOOLEAN /\ todo' \subseteq Pos(nbuckets)
  BY <1>1, <1>2 DEF TypeOK
<1>4. CASE ScrubStays(p, j)
  BY <1>1, <1>3, <1>4 DEF TypeOK, ScrubStays, rehash
<1>5. ASSUME NEW q \in Pos(nbuckets), ScrubMoves(p, j, q)
      PROVE  TypeOK'
  <2>1. p \in Pos(nbuckets) /\ slots[p] \in Slot
    BY DEF TypeOK, HashPos
  <2>2. /\ slots' \in [Pos(nbuckets) -> Slot]
        /\ num_empty' \in Int /\ num_tombstone' \in Int
        /\ moves' \in Nat /\ pass_moves' \in 0 .. moves'
    BY <1>5, <2>1 DEF ScrubMoves, TypeOK, Slot
  <2> QED  BY <1>1, <1>3, <2>2 DEF TypeOK, rehash
<1> QED
  BY <1>2, <1>4, <1>5

(* The end of scrub_ keeps the types.                                      *)
LEMMA FinishScrubType ==
  ASSUME TypeOK, FinishScrub
  PROVE  TypeOK'
<1>1. MaxBuckets \in Nat /\ nbuckets \in Nat /\ slots \in [Pos(nbuckets) -> Slot]
  BY SwissMapAssumption DEF TypeOK
<1>2. DeadPos \in SUBSET Pos(nbuckets)
  BY <1>1 DEF DeadPos, TombPos
<1>3. NumReclaimed \in Int
  BY <1>1, <1>2, PosCardinality DEF NumReclaimed, TypeOK
<1>4. slots' \in [Pos(nbuckets) -> Slot]
  BY <1>1 DEF FinishScrub, Slot
<1>5. /\ num_empty' = num_empty + NumReclaimed
      /\ num_tombstone' = num_tombstone - NumReclaimed
      /\ pc' = "ready" /\ todo' = {}
      /\ moves' = 0 /\ pass_moves' = 0 /\ psl_zero' = TRUE
      /\ UNCHANGED <<nbuckets, pending, rehash>>
  BY DEF FinishScrub
<1> QED
  BY <1>3, <1>4, <1>5 DEF TypeOK, rehash

-----------------------------------------------------------------------------
(* The steps of the specification, by what they do to the table.           *)

Overwrites ==
  \E k \in Keys, v \in Values, p \in HashPos(slots) :
    /\ slots[p][1] = k
    /\ Return([slots EXCEPT ![p] = <<k, v>>], num_empty, num_tombstone)

Inserts == \E k \in Keys, v \in Values : InsertTurn(k, v)

Erases == \E P \in SUBSET HashPos(slots) : EraseSlots(P)

Resizes ==
  \E end : \E pend \in Entry \cup {None} :
    StartResize(end, slots, num_empty, num_tombstone, pend)

(* The capacities that callers ask for, and those that they clear to.      *)
Asked == {Larger(bit_ceil(n), MinCapacity) : n \in Requests}
         \cup {2 * capacity, shrink_target}

Cleared == {bit_ceil(Larger(n, MinCapacity)) : n \in Requests}
           \cup {InitCapacity, capacity}

Empties ==
  \E n \in Cleared :
    Allocate(n \div KernelSize) /\ UNCHANGED <<pc, pending, todo, rehash, scrubbing>>

(* The operations, by what they do to the table.                           *)
LEMMA CallCases ==
  ASSUME TypeOK, [Next]_vars
  PROVE  \/ UNCHANGED vars
         \/ pc = "ready" /\ Overwrites
         \/ pc = "ready" /\ \E k \in Keys, v \in Values : Insert(k, v)
         \/ RetryInsert
         \/ pc = "ready" /\ Erases
         \/ pc = "ready" /\ \E end \in Asked : UserResize(end)
         \/ pc = "ready" /\ StartScrub(slots, num_empty, num_tombstone)
         \/ pc = "ready" /\ Empties
         \/ RehashEntry \/ FinishResize \/ ScrubEntry \/ NextPass \/ FinishScrub
<1>1. ASSUME NEW k \in Keys, NEW v \in Values, Update(k, v)
      PROVE  pc = "ready" /\ Overwrites
  <2>1. PICK j \in Steps(nbuckets), p \in Pos(nbuckets) :
          /\ FoundAt(slots, nbuckets, k, j, p)
          /\ Return([slots EXCEPT ![p] = <<k, v>>], num_empty, num_tombstone)
    BY <1>1, Zenon DEF Update
  <2>2. p \in HashPos(slots) /\ slots[p][1] = k
    BY <2>1 DEF FoundAt, LowestIn, KeyPos, HashPos
  <2> QED  BY <1>1, <2>1, <2>2 DEF Overwrites, Update, Ready
<1>2. ASSUME NEW k \in Keys, EraseFirst(k)
      PROVE  pc = "ready" /\ Erases
  <2>1. PICK j \in Steps(nbuckets), p \in Pos(nbuckets) :
          FoundAt(slots, nbuckets, k, j, p) /\ EraseSlots({p})
    BY <1>2, Zenon DEF EraseFirst
  <2>2. {p} \in SUBSET HashPos(slots)
    BY <2>1 DEF FoundAt, LowestIn, KeyPos, HashPos
  <2> QED  BY <1>2, <2>1, <2>2 DEF Erases, EraseFirst, Ready
<1>3. ASSUME NEW k \in Keys, EraseNext(k)
      PROVE  pc = "ready" /\ Erases
  <2>1. PICK j \in Steps(nbuckets), i \in Steps(nbuckets),
             p \in Pos(nbuckets), q \in Pos(nbuckets) :
          FindsNext(slots, nbuckets, k, j, p, i, q) /\ EraseSlots({q})
    BY <1>3, Zenon DEF EraseNext
  <2>2. {q} \in SUBSET HashPos(slots)
    BY <2>1 DEF FindsNext, InBucketAfter, LowestIn, KeyPos, HashPos
  <2> QED  BY <1>3, <2>1, <2>2 DEF Erases, EraseNext, Ready
<1>4. ASSUME NEW k \in Keys, EraseAll(k)
      PROVE  pc = "ready" /\ Erases
  <2>1. ReachablePos(k) \in SUBSET HashPos(slots)
    BY DEF ReachablePos, KeyPos, HashPos
  <2> QED  BY <1>4, <2>1 DEF Erases, EraseAll, Ready
<1>5. ASSUME NEW p \in Pos(nbuckets), EraseAt(p)
      PROVE  pc = "ready" /\ Erases
  <2>1. {p} \in SUBSET HashPos(slots) /\ EraseSlots({p})
    BY <1>5 DEF EraseAt
  <2> QED  BY <1>5, <2>1 DEF Erases, EraseAt, Ready
<1>6. ASSUME NEW P \in SUBSET HashPos(slots), EraseIf(P)
      PROVE  pc = "ready" /\ Erases
  BY <1>6 DEF Erases, EraseIf, Ready
<1>7. ASSUME NEW n \in Cleared, ClearTo(n)
      PROVE  pc = "ready" /\ Empties
  BY <1>7 DEF Empties, ClearTo, Ready
<1>8. ASSUME NEW n \in Requests, Resize(n) \/ Reserve(n) \/ ClearCapacity(n)
      PROVE  pc = "ready" /\ ((\E end \in Asked : UserResize(end)) \/ Empties)
  BY <1>7, <1>8 DEF Resize, Reserve, ClearCapacity, Ready, Asked, Cleared
<1>9. ASSUME Grow \/ Shrink \/ Clear
      PROVE  pc = "ready" /\ ((\E end \in Asked : UserResize(end)) \/ Empties)
  BY <1>7, <1>9 DEF Grow, Shrink, Clear, Ready, Asked, Cleared
<1>10. ASSUME Scrub
       PROVE  pc = "ready" /\ StartScrub(slots, num_empty, num_tombstone)
  BY <1>10 DEF Scrub, Ready
<1>11. CASE Next
  <2>1. CASE \E k \in Keys, v \in Values : Insert(k, v) \/ Update(k, v)
    BY <1>1, <2>1 DEF Insert, Ready
  <2>2. CASE \E k \in Keys : EraseFirst(k) \/ EraseNext(k) \/ EraseAll(k)
    BY <1>2, <1>3, <1>4, <2>2
  <2>3. CASE \/ \E p \in Pos(nbuckets) : EraseAt(p)
             \/ \E P \in SUBSET HashPos(slots) : EraseIf(P)
    BY <1>5, <1>6, <2>3
  <2>4. CASE \/ \E n \in Requests : Resize(n) \/ Reserve(n) \/ ClearCapacity(n)
             \/ Grow \/ Shrink \/ Clear
    BY <1>8, <1>9, <2>4
  <2> QED  BY <1>10, <1>11, <2>1, <2>2, <2>3, <2>4, Zenon DEF Next
<1> QED
  BY <1>11

(* Every step is one of these.                                             *)
LEMMA NextCases ==
  ASSUME TypeOK, [Next]_vars
  PROVE  \/ UNCHANGED vars
         \/ pc = "ready" /\ Overwrites
         \/ Calling /\ Inserts
         \/ pc = "ready" /\ Erases
         \/ pc = "ready" /\ Resizes
         \/ pc = "ready" /\ StartScrub(slots, num_empty, num_tombstone)
         \/ pc = "ready" /\ Empties
         \/ RehashEntry \/ FinishResize \/ ScrubEntry \/ NextPass \/ FinishScrub
<1>1. ASSUME NEW k \in Keys, NEW v \in Values, Insert(k, v)
      PROVE  pc = "ready" /\ (Resizes \/ Inserts)
  <2>1. CASE StartResize(2 * capacity, slots, num_empty, num_tombstone, <<k, v>>)
    <3>1. <<k, v>> \in Entry \cup {None}
      BY DEF Entry
    <3> QED  BY <1>1, <2>1, <3>1 DEF Insert, Ready, Resizes
  <2>2. CASE InsertTurn(k, v)
    BY <1>1, <2>2 DEF Insert, Ready, Inserts
  <2> QED  BY <1>1, <2>1, <2>2 DEF Insert
<1>2. ASSUME RetryInsert
      PROVE  Calling /\ Inserts
  <2>1. pending[1] \in Keys /\ pending[2] \in Values
    BY <1>2 DEF RetryInsert, TypeOK, Entry
  <2> QED  BY <1>2, <2>1 DEF RetryInsert, Calling, Inserts
<1>3. ASSUME NEW end, UserResize(end)
      PROVE  Resizes
  BY <1>3 DEF Resizes, UserResize
<1> QED
  BY <1>1, <1>2, <1>3, CallCases DEF Calling

-----------------------------------------------------------------------------
(* The constructor leaves a well-typed map.                                *)
LEMMA InitType ==
  ASSUME Init
  PROVE  TypeOK
<1>1. /\ MaxBuckets \in Nat /\ KernelSize \in Nat
      /\ InitCapacity \div KernelSize \in 1 .. MaxBuckets
  BY SwissMapAssumption
<1>2. NoTable \in [Pos(0) -> Slot] /\ 0 \in 0 .. MaxBuckets
  BY <1>1 DEF NoTable, Pos
<1>3. nbuckets \in 1 .. MaxBuckets /\ slots \in [Pos(nbuckets) -> Slot]
  BY <1>1 DEF Init, AllEmpty, Slot
<1>4. num_empty \in Int
  BY <1>1, <1>3 DEF Init
<1> QED
  BY <1>2, <1>3, <1>4 DEF Init, TypeOK

(* Every step keeps the types.                                             *)
LEMMA NextType ==
  ASSUME TypeOK, [Next]_vars
  PROVE  TypeOK'
<1>1. num_empty \in Int /\ num_tombstone \in Int /\ slots \in Tables(nbuckets)
  BY DEF TypeOK, Tables
<1>2. CASE UNCHANGED vars
  BY <1>2 DEF TypeOK, vars, table, rehash, scrubbing, HashPos, Pos
<1>3. CASE pc = "ready" /\ Overwrites
  <2>1. PICK k \in Keys, v \in Values, p \in HashPos(slots) :
          Return([slots EXCEPT ![p] = <<k, v>>], num_empty, num_tombstone)
    BY <1>3 DEF Overwrites
  <2>2. <<k, v>> \in Entry /\ p \in Pos(nbuckets)
    BY DEF Entry, HashPos, TypeOK
  <2>3. [slots EXCEPT ![p] = <<k, v>>] \in Tables(nbuckets)
    BY <2>2, StoreType
  <2> QED  BY <1>1, <1>3, <2>1, <2>3, ReturnType DEF Calling
<1>4. CASE Calling /\ Inserts
  BY <1>4, InsertTurnType DEF Inserts
<1>5. CASE pc = "ready" /\ Erases
  <2>1. HashPos(slots) \subseteq Pos(nbuckets)
    BY DEF HashPos, TypeOK
  <2> QED  BY <1>5, <2>1, EraseType DEF Erases
<1>6. CASE pc = "ready" /\ Resizes
  BY <1>1, <1>6, StartResizeType DEF Resizes, Calling
<1>7. CASE pc = "ready" /\ StartScrub(slots, num_empty, num_tombstone)
  BY <1>1, <1>7, StartScrubType
<1>8. CASE pc = "ready" /\ Empties
  <2>1. PICK n : Allocate(n) /\ UNCHANGED <<pc, pending, todo, rehash, scrubbing>>
    BY <1>8 DEF Empties
  <2>2. /\ nbuckets' \in 1 .. MaxBuckets /\ slots' \in [Pos(nbuckets') -> Slot]
        /\ num_empty' \in Int /\ num_tombstone' \in Int
    BY <2>1, AllocateType DEF Tables
  <2> QED  BY <1>8, <2>1, <2>2 DEF TypeOK, rehash, scrubbing
<1>9. CASE NextPass
  BY <1>9 DEF NextPass, PassDone, TypeOK, table, rehash
<1> QED
  BY <1>2, <1>3, <1>4, <1>5, <1>6, <1>7, <1>8, <1>9, NextCases, RehashType,
     FinishResizeType, ScrubEntryType, FinishScrubType

(* Every reachable state is well typed: the table always has the size that *)
(* bucket_mask_ says, in the middle of a resize or a scrub as well.        *)
THEOREM TypeCorrect == Spec => []TypeOK
BY InitType, NextType, PTL DEF Spec

-----------------------------------------------------------------------------
(* No operation hides an entry: every entry stays where a look-up, which   *)
(* ends at the first bucket that has an empty slot, gets to.  The          *)
(* argument: the set of the buckets that have an empty slot only shrinks,  *)
(* except at the end of a scrub, where buckets may join it that no entry's *)
(* probe sequence needs to cross.  Which buckets these are is what         *)
(* PassProgress keeps track of; it takes more than one slot per bucket.    *)

(* TombstonesOnlyInFullBuckets and EntriesReachable, of any table.         *)
TombsApart(s) == \A p \in TombPos(s), q \in EmptyPos(s) : p[1] # q[1]

WellPlaced(s, n) == TombsApart(s) /\ \A p \in HashPos(s) : ReachableAt(s, n, p)

(* WellPlaced says what the two invariants say.                            *)
LEMMA WellPlacedMeans ==
  WellPlaced(slots, nbuckets) <=> TombstonesOnlyInFullBuckets /\ EntriesReachable
<1>1. TombsApart(slots) <=> TombstonesOnlyInFullBuckets
  BY DEF TombsApart, TombstonesOnlyInFullBuckets, WithEmpty, BucketsOf
<1> QED
  BY <1>1 DEF WellPlaced, EntriesReachable

(* The three kinds of slots.                                               *)
LEMMA SlotKinds ==
  ASSUME NEW n, NEW s \in Tables(n)
  PROVE  /\ \A p \in Pos(n) : \/ p \in HashPos(s) /\ s[p] \in Entry
                              \/ p \in EmptyPos(s) /\ s[p] = Empty
                              \/ p \in TombPos(s) /\ s[p] = Tombstone
         /\ HashPos(s) \cap FreePos(s) = {} /\ EmptyPos(s) \cap TombPos(s) = {}
         /\ \A p \in HashPos(s) : p \in Pos(n) /\ s[p] \in Entry
         /\ FreePos(s) \subseteq Pos(n) /\ EmptyPos(s) \subseteq Pos(n)
         /\ TombPos(s) \subseteq Pos(n)
BY SwissMapAssumption
   DEF Tables, Slot, HashPos, EmptyPos, TombPos, FreePos, IsHash

(* An entry is neither empty nor a tombstone.                              *)
LEMMA EntryIsHash ==
  ASSUME NEW e \in Entry
  PROVE  IsHash(e)
BY SwissMapAssumption DEF IsHash

(* An entry that keeps its key and its slot stays reachable if no bucket   *)
(* gets its first empty slot.                                              *)
LEMMA StaysReachable ==
  ASSUME NEW s, NEW t, NEW n, NEW p, ReachableAt(s, n, p),
         t[p][1] = s[p][1], WithEmpty(t) \subseteq WithEmpty(s)
  PROVE  ReachableAt(t, n, p)
BY DEF ReachableAt, Reaches

(* Storing an entry in a free slot that its probe sequence reaches.        *)
LEMMA StoreWellPlaced ==
  ASSUME NEW n, NEW s \in Tables(n), WellPlaced(s, n),
         NEW e \in Entry, NEW p \in FreePos(s),
         NEW j \in Steps(n), Probe(e[1], n, j) = p[1], Reaches(s, n, e[1], j)
  PROVE  WellPlaced([s EXCEPT ![p] = e], n)
<1> DEFINE t == [s EXCEPT ![p] = e]
<1>1. p \in Pos(n) /\ DOMAIN s = Pos(n) /\ DOMAIN t = Pos(n)
  BY SlotKinds DEF Tables
<1>2. t[p] = e /\ \A q \in Pos(n) : q # p => t[q] = s[q]
  BY <1>1
<1>3. IsHash(e) /\ e # Empty /\ e # Tombstone
  BY EntryIsHash DEF IsHash
<1> HIDE DEF t
<1>4. EmptyPos(t) \subseteq EmptyPos(s) /\ TombPos(t) \subseteq TombPos(s)
  BY <1>1, <1>2, <1>3 DEF EmptyPos, TombPos
<1>5. WithEmpty(t) \subseteq WithEmpty(s)
  BY <1>4 DEF WithEmpty, BucketsOf
<1>6. ASSUME NEW q \in HashPos(t) PROVE ReachableAt(t, n, q)
  <2>1. CASE q = p
    BY <1>2, <1>5, <2>1 DEF ReachableAt, Reaches
  <2>2. CASE q # p
    <3>1. q \in HashPos(s) /\ t[q] = s[q]
      BY <1>1, <1>2, <2>2 DEF HashPos
    <3> QED  BY <1>5, <3>1, StaysReachable DEF WellPlaced
  <2> QED  BY <2>1, <2>2
<1> QED
  BY <1>4, <1>6 DEF WellPlaced, TombsApart, t

(* Overwriting an entry of the same key.                                   *)
LEMMA OverwriteWellPlaced ==
  ASSUME NEW n, NEW s \in Tables(n), WellPlaced(s, n),
         NEW e \in Entry, NEW p \in HashPos(s), s[p][1] = e[1]
  PROVE  WellPlaced([s EXCEPT ![p] = e], n)
<1> DEFINE t == [s EXCEPT ![p] = e]
<1>1. p \in Pos(n) /\ DOMAIN s = Pos(n) /\ DOMAIN t = Pos(n)
  BY SlotKinds DEF Tables
<1>2. t[p] = e /\ \A q \in Pos(n) : q # p => t[q] = s[q]
  BY <1>1
<1>3. IsHash(e) /\ e # Empty /\ e # Tombstone
  BY EntryIsHash DEF IsHash
<1> HIDE DEF t
<1>4. /\ EmptyPos(t) \subseteq EmptyPos(s) /\ TombPos(t) \subseteq TombPos(s)
      /\ HashPos(t) \subseteq HashPos(s)
  BY <1>1, <1>2, <1>3 DEF EmptyPos, TombPos, HashPos
<1>5. WithEmpty(t) \subseteq WithEmpty(s)
  BY <1>4 DEF WithEmpty, BucketsOf
<1>6. ASSUME NEW q \in HashPos(t) PROVE ReachableAt(t, n, q)
  <2>1. q \in HashPos(s) /\ t[q][1] = s[q][1]
    BY <1>1, <1>2, <1>4 DEF HashPos
  <2> QED  BY <1>5, <2>1, StaysReachable DEF WellPlaced
<1> QED
  BY <1>4, <1>6 DEF WellPlaced, TombsApart, t

(* A fresh table.                                                          *)
LEMMA FreshWellPlaced ==
  ASSUME NEW n
  PROVE  /\ WellPlaced(AllEmpty(n), n) /\ HashPos(AllEmpty(n)) = {}
         /\ TombPos(AllEmpty(n)) = {}
<1>1. HashPos(AllEmpty(n)) = {} /\ TombPos(AllEmpty(n)) = {}
  BY SwissMapAssumption DEF HashPos, TombPos, AllEmpty, IsHash
<1> QED
  BY <1>1 DEF WellPlaced, TombsApart

(* The slot that an insertion takes is free, and its bucket is as far as   *)
(* the search for the key gets.                                            *)
LEMMA InsertTakesReached ==
  ASSUME TypeOK, NEW k \in Keys, NEW j \in Steps(nbuckets),
         NEW p \in Pos(nbuckets), InsertTakes(k, j, p)
  PROVE  /\ p \in FreePos(slots)
         /\ \E i \in Steps(nbuckets) :
              Probe(k, nbuckets, i) = p[1] /\ Reaches(slots, nbuckets, k, i)
<1> DEFINE tombs == BucketsOf(TombPos(slots))
           met   == \E i \in Steps(nbuckets) : i <= j /\ Probe(k, nbuckets, i) \in tombs
<1>0. Steps(nbuckets) \subseteq Int
  BY SwissMapAssumption DEF Steps, TypeOK
<1>1. FirstIn(k, nbuckets, InsertStop(k), j)
  BY DEF InsertTakes
<1>2. WithEmpty(slots) \subseteq InsertStop(k)
  BY DEF InsertStop, WithEmpty, BucketsOf, FreePos
<1>3. Reaches(slots, nbuckets, k, j)
  BY <1>1, <1>2 DEF FirstIn, Reaches
<1>4. CASE num_tombstone > 0 /\ met
  <2>1. PICK i \in Steps(nbuckets) :
          /\ FirstIn(k, nbuckets, tombs, i)
          /\ LowestIn(TombPos(slots), Probe(k, nbuckets, i), p)
    BY <1>4 DEF InsertTakes
  <2>2. i <= j
    BY <1>0, <1>4, <2>1 DEF FirstIn
  <2>3. Reaches(slots, nbuckets, k, i)
    BY <1>0, <1>3, <2>2 DEF Reaches
  <2>4. p \in TombPos(slots) /\ p[1] = Probe(k, nbuckets, i)
    BY <2>1 DEF LowestIn
  <2> QED  BY <2>3, <2>4 DEF FreePos
<1>5. CASE ~(num_tombstone > 0 /\ met)
  <2>1. LowestIn(FreePos(slots), Probe(k, nbuckets, j), p)
    BY <1>5 DEF InsertTakes
  <2> QED  BY <1>3, <2>1 DEF LowestIn
<1> QED
  BY <1>4, <1>5

-----------------------------------------------------------------------------
(* What the steps that operations end with do to the table: it is s, or a  *)
(* fresh one, and a scrub that starts has every entry ahead of it.         *)
HandsOver(s) ==
  /\ \/ nbuckets' = nbuckets /\ slots' = s
     \/ slots' = AllEmpty(nbuckets')
  /\ pc' = "scrub" => nbuckets' = nbuckets /\ slots' = s /\ todo' = Pos(nbuckets)

(* Returning hands the table over.                                         *)
LEMMA ReturnHandsOver ==
  ASSUME NEW s, NEW ne, NEW nt, Return(s, ne, nt)
  PROVE  HandsOver(s)
BY DEF Return, HandsOver

(* resize_ starts with a fresh table, or does nothing.                     *)
LEMMA StartResizeHandsOver ==
  ASSUME NEW s, NEW ne, NEW nt, NEW end, NEW pend, StartResize(end, s, ne, nt, pend)
  PROVE  HandsOver(s)
<1>1. CASE slots' = s /\ nbuckets' = nbuckets
           /\ pc' = (IF pend = None THEN "ready" ELSE "insert")
  BY <1>1 DEF HandsOver
<1>2. CASE /\ pc' = "resize"
           /\ Allocate(resize_target(end, capacity - (ne + nt)) \div KernelSize)
  BY <1>2 DEF HandsOver, Allocate
<1> QED
  BY <1>1, <1>2, Zenon DEF StartResize

(* scrub_ starts with every entry ahead of it.                             *)
LEMMA StartScrubHandsOver ==
  ASSUME NEW s, NEW ne, NEW nt, StartScrub(s, ne, nt)
  PROVE  HandsOver(s)
<1>1. CASE Return(s, ne, nt)
  BY <1>1, ReturnHandsOver
<1>2. CASE slots' = s /\ pc' = "scrub" /\ todo' = Pos(nbuckets) /\ nbuckets' = nbuckets
  BY <1>2 DEF HandsOver
<1> QED
  BY <1>1, <1>2, Zenon DEF StartScrub

(* So does auto_shrink_and_scub_, whichever way it takes.                  *)
LEMMA AutoHandsOver ==
  ASSUME NEW s, NEW ne, NEW nt, NEW buried, AutoShrinkAndScrub(s, ne, nt, buried)
  PROVE  HandsOver(s)
<1>1. \/ StartResize(capacity \div 2, s, ne, nt, None)
      \/ StartScrub(s, ne, nt)
      \/ Return(s, ne, nt)
  BY DEF AutoShrinkAndScrub
<1> QED
  BY <1>1, ReturnHandsOver, StartResizeHandsOver, StartScrubHandsOver

(* The part of the inductive invariant that this module is about.          *)
Placed == WellPlaced(slots, nbuckets) /\ PassProgress

(* A well-placed table that is handed over stays well placed.              *)
LEMMA HandsOverPlaced ==
  ASSUME TypeOK', NEW s, WellPlaced(s, nbuckets), HandsOver(s)
  PROVE  Placed'
<1>1. WellPlaced(slots, nbuckets)'
  <2>1. CASE nbuckets' = nbuckets /\ slots' = s
    BY <2>1 DEF WellPlaced, TombsApart
  <2>2. CASE slots' = AllEmpty(nbuckets')
    BY <2>2, FreshWellPlaced
  <2> QED  BY <2>1, <2>2 DEF HandsOver
<1>2. PassProgress'
  <2> SUFFICES ASSUME pc' = "scrub" PROVE HashPos(slots)' \subseteq todo'
    BY DEF PassProgress
  <2> QED  BY DEF HandsOver, HashPos, TypeOK
<1> QED
  BY <1>1, <1>2 DEF Placed

(* A step that leaves no scrub in progress.                                *)
LEMMA PlacedUnlessScrub ==
  ASSUME WellPlaced(slots, nbuckets)', pc' # "scrub"
  PROVE  Placed'
BY DEF Placed, PassProgress

-----------------------------------------------------------------------------
(* Erasing: a slot becomes empty only where there is an empty one.         *)
LEMMA ErasePlaced ==
  ASSUME TypeOK, TypeOK', Placed, NEW P \in SUBSET HashPos(slots), EraseSlots(P)
  PROVE  Placed'
<1> DEFINE n == nbuckets
           E == Emptied(P)
           s == [p \in Pos(n) |->
                   IF p \in E THEN Empty
                   ELSE IF p \in P \ E THEN Tombstone ELSE slots[p]]
           ne == num_empty + Cardinality(E)
           nt == num_tombstone + Cardinality(P \ E)
<1>1. slots \in Tables(n) /\ DOMAIN slots = Pos(n) /\ P \subseteq Pos(n)
  BY DEF TypeOK, Tables, HashPos
<1>2. AutoShrinkAndScrub(s, ne, nt, Cardinality(P \ E))
  BY Zenon DEF EraseSlots
<1>3. /\ DOMAIN s = Pos(n)
      /\ \A p \in Pos(n) : s[p] = IF p \in E THEN Empty
                                  ELSE IF p \in P THEN Tombstone ELSE slots[p]
  OBVIOUS
<1> HIDE DEF s, ne, nt, E
<1>4. \A p \in E : p \in P /\ \E q \in EmptyPos(slots) : q[1] = p[1]
  BY DEF E, Emptied, WithEmpty, BucketsOf
<1>5. \A p \in P \ E, q \in EmptyPos(slots) : q[1] # p[1]
  BY DEF E, Emptied, WithEmpty, BucketsOf
<1>6. EmptyPos(s) = EmptyPos(slots) \cup E
  <2>1. \A p \in P : p \notin EmptyPos(slots)
    BY <1>1, SlotKinds DEF FreePos
  <2> QED  BY <1>1, <1>3, <1>4, <2>1, SwissMapAssumption DEF EmptyPos
<1>7. TombPos(s) = TombPos(slots) \cup (P \ E)
  <2>1. \A p \in P : p \notin TombPos(slots)
    BY <1>1, SlotKinds DEF FreePos
  <2> QED  BY <1>1, <1>3, <1>4, <2>1, SwissMapAssumption DEF TombPos
<1>8. HashPos(s) \subseteq HashPos(slots) /\ \A p \in HashPos(s) : s[p] = slots[p]
  BY <1>1, <1>3, <1>4 DEF HashPos, IsHash
<1>9. WithEmpty(s) \subseteq WithEmpty(slots)
  BY <1>4, <1>6 DEF WithEmpty, BucketsOf
<1>10. TombsApart(s)
  <2>1. TombsApart(slots)
    BY DEF Placed, WellPlaced
  <2> QED  BY <1>4, <1>5, <1>6, <1>7, <2>1 DEF TombsApart
<1>11. WellPlaced(s, n)
  <2> SUFFICES ASSUME NEW p \in HashPos(s) PROVE ReachableAt(s, n, p)
    BY <1>10 DEF WellPlaced
  <2> QED  BY <1>8, <1>9, StaysReachable DEF Placed, WellPlaced
<1> QED
  BY <1>2, <1>11, AutoHandsOver, HandsOverPlaced

(* insert_ overwrites, stores where its search got to, or resizes.         *)
LEMMA InsertTurnPlaced ==
  ASSUME TypeOK, TypeOK', Placed, NEW k \in Keys, NEW v \in Values, InsertTurn(k, v)
  PROVE  Placed'
<1>1. slots \in Tables(nbuckets) /\ <<k, v>> \in Entry /\ WellPlaced(slots, nbuckets)
  BY DEF TypeOK, Tables, Entry, Placed
<1>2. ASSUME NEW j \in Steps(nbuckets), NEW p \in Pos(nbuckets), InsertFinds(k, j, p),
             Return([slots EXCEPT ![p] = <<k, v>>], num_empty, num_tombstone)
      PROVE  Placed'
  <2>1. p \in HashPos(slots) /\ slots[p][1] = k
    BY <1>2 DEF InsertFinds, LowestIn, KeyPos, HashPos
  <2>2. WellPlaced([slots EXCEPT ![p] = <<k, v>>], nbuckets)
    BY <1>1, <2>1, OverwriteWellPlaced
  <2> QED  BY <1>2, <2>2, ReturnHandsOver, HandsOverPlaced
<1>3. ASSUME NEW j \in Steps(nbuckets), NEW p \in Pos(nbuckets), InsertTakes(k, j, p),
             Return([slots EXCEPT ![p] = <<k, v>>],
                    num_empty - (1 - Reuses(p)), num_tombstone - Reuses(p))
      PROVE  Placed'
  <2>1. WellPlaced([slots EXCEPT ![p] = <<k, v>>], nbuckets)
    BY <1>1, <1>3, InsertTakesReached, StoreWellPlaced
  <2> QED  BY <1>3, <2>1, ReturnHandsOver, HandsOverPlaced
<1>4. ASSUME StartResize(2 * capacity, slots, num_empty, num_tombstone, <<k, v>>)
      PROVE  Placed'
  BY <1>1, <1>4, StartResizeHandsOver, HandsOverPlaced
<1> QED
  BY <1>2, <1>3, <1>4, Zenon DEF InsertTurn

(* resize_ stores every entry where the search for it gets to.             *)
LEMMA RehashPlaced ==
  ASSUME TypeOK, TypeOK', Placed, RehashEntry
  PROVE  Placed'
<1>1. pc' # "scrub"
  BY DEF RehashEntry
<1>2. PICK p \in todo :
       \/ \E j \in Steps(nbuckets), q \in Pos(nbuckets) :
            /\ FirstIn(old[p][1], nbuckets, BucketsOf(FreePos(slots)), j)
            /\ LowestIn(FreePos(slots), Probe(old[p][1], nbuckets, j), q)
            /\ slots' = [slots EXCEPT ![q] = old[p]]
            /\ nbuckets' = nbuckets
       \/ Allocate(RestartedBuckets)
  BY Zenon DEF RehashEntry
<1>3. slots \in Tables(nbuckets) /\ WellPlaced(slots, nbuckets) /\ old[p] \in Entry
  <2>1. p \in HashPos(old)
    BY DEF TypeOK, RehashEntry
  <2> QED  BY <2>1, SlotKinds DEF TypeOK, Tables, Placed
<1>4. ASSUME NEW j \in Steps(nbuckets), NEW q \in Pos(nbuckets),
             FirstIn(old[p][1], nbuckets, BucketsOf(FreePos(slots)), j),
             LowestIn(FreePos(slots), Probe(old[p][1], nbuckets, j), q),
             slots' = [slots EXCEPT ![q] = old[p]], nbuckets' = nbuckets
      PROVE  Placed'
  <2>1. q \in FreePos(slots) /\ Probe(old[p][1], nbuckets, j) = q[1]
    BY <1>4 DEF LowestIn
  <2>2. Reaches(slots, nbuckets, old[p][1], j)
    BY <1>4 DEF FirstIn, Reaches, FreePos, WithEmpty, BucketsOf
  <2>3. WellPlaced([slots EXCEPT ![q] = old[p]], nbuckets)
    BY <1>3, <2>1, <2>2, StoreWellPlaced
  <2>4. WellPlaced(slots, nbuckets)'
    BY <1>4, <2>3
  <2> QED  BY <1>1, <2>4, PlacedUnlessScrub
<1>5. CASE Allocate(RestartedBuckets)
  <2>1. slots' = AllEmpty(nbuckets')
    BY <1>5 DEF Allocate
  <2>2. WellPlaced(slots, nbuckets)'
    BY <2>1, FreshWellPlaced
  <2> QED  BY <1>1, <2>2, PlacedUnlessScrub
<1> QED
  BY <1>2, <1>4, <1>5

-----------------------------------------------------------------------------
(* Scrubbing.                                                              *)

(* Steps of a probe sequence are natural numbers.                          *)
LEMMA StepsNat ==
  ASSUME NEW n \in Nat
  PROVE  Steps(n) \subseteq Nat
BY SwissMapAssumption DEF Steps

(* The buckets that the sequence of an entry's key designates.             *)
LEMMA ProbeInTable ==
  ASSUME TypeOK, NEW p \in HashPos(slots), NEW i \in Steps(nbuckets)
  PROVE  Probe(slots[p][1], nbuckets, i) \in 0 .. nbuckets - 1
<1>1. slots[p][1] \in Keys
  BY SlotKinds DEF TypeOK, Tables, Entry
<1> QED
  BY <1>1, ProbeAssumption DEF TypeOK

(* All slots of a bucket without a free one hold entries.                  *)
LEMMA FullBucket ==
  ASSUME TypeOK, NEW b \in 0 .. nbuckets - 1, b \notin BucketsOf(FreePos(slots)),
         NEW l \in Lanes
  PROVE  <<b, l>> \in HashPos(slots)
<1>1. <<b, l>> \in Pos(nbuckets)
  BY DEF Pos
<1>2. <<b, l>> \notin FreePos(slots)
  BY DEF BucketsOf
<1> QED
  BY <1>1, <1>2, SlotKinds DEF TypeOK, Tables, FreePos

(* The visited entries, after the entry at p has been visited: the ones    *)
(* before, and p itself unless it was moved.                               *)
LEMMA VisitedBefore ==
  ASSUME NEW p \in todo \cap HashPos(slots), NEW r \in HashPos(slots), r # p,
         \A q \in todo \cap HashPos(slots) : q = p \/ Before(p, q),
         todo' = {q \in todo : Before(p, q)},
         r \notin todo'
  PROVE  r \in HashPos(slots) \ todo
OBVIOUS

(* A scrub that leaves an entry where it is has found the buckets upstream *)
(* full.                                                                   *)
LEMMA ScrubStaysPlaced ==
  ASSUME TypeOK, TypeOK', Placed, pc = "scrub", UNCHANGED <<pc, nbuckets>>,
         NEW p \in todo \cap HashPos(slots),
         \A q \in todo \cap HashPos(slots) : q = p \/ Before(p, q),
         todo' = {q \in todo : Before(p, q)},
         NEW j \in Steps(nbuckets),
         FirstIn(slots[p][1], nbuckets, ScrubStop(p), j),
         psl_zero' = (psl_zero /\ j = 0),
         ScrubStays(p, j)
  PROVE  Placed'
<1>1. /\ slots' = slots /\ pass_moves' = pass_moves
      /\ Probe(slots[p][1], nbuckets, j) = p[1]
  BY DEF ScrubStays
<1>2. WellPlaced(slots, nbuckets)'
  BY <1>1 DEF Placed, WellPlaced, TombsApart
<1>3. ASSUME NEW r \in HashPos(slots) \ todo', r # p
      PROVE  r \in HashPos(slots) \ todo
  BY <1>3, VisitedBefore
<1>4. /\ psl_zero' => Probe(slots[p][1], nbuckets, 0) = p[1]
      /\ \A i \in Steps(nbuckets) : i < j =>
           /\ HasEntry(slots, Probe(slots[p][1], nbuckets, i))
           /\ Probe(slots[p][1], nbuckets, i) \notin BucketsOf(FreePos(slots))
  <2>1. ASSUME NEW i \in Steps(nbuckets), i < j
        PROVE  Probe(slots[p][1], nbuckets, i) \notin BucketsOf(FreePos(slots))
    BY <2>1 DEF FirstIn, ScrubStop
  <2>2. 0 \in Lanes
    BY SwissMapAssumption DEF Lanes
  <2>3. ASSUME NEW i \in Steps(nbuckets), i < j
        PROVE  HasEntry(slots, Probe(slots[p][1], nbuckets, i))
    <3>1. <<Probe(slots[p][1], nbuckets, i), 0>> \in HashPos(slots)
      BY <2>1, <2>2, <2>3, ProbeInTable, FullBucket
    <3> QED  BY <2>2, <3>1 DEF HasEntry, HashPos
  <2> QED  BY <1>1, <2>1, <2>3
<1>5. PassProgress'
  <2> SUFFICES
        ASSUME NEW r \in HashPos(slots) \ todo'
        PROVE  /\ psl_zero' => Probe(slots[r][1], nbuckets, 0) = r[1]
               /\ pass_moves <= 1 =>
                    \E h \in Steps(nbuckets) :
                      /\ Probe(slots[r][1], nbuckets, h) = r[1]
                      /\ \A i \in Steps(nbuckets) : i < h =>
                           /\ HasEntry(slots, Probe(slots[r][1], nbuckets, i))
                           /\ pass_moves = 0 =>
                                Probe(slots[r][1], nbuckets, i) \notin
                                  BucketsOf(FreePos(slots))
    BY <1>1 DEF PassProgress, HasEntry
  <2>1. CASE r = p
    BY <1>1, <1>4, <2>1
  <2>2. CASE r # p
    BY <1>3, <2>2 DEF Placed, PassProgress
  <2> QED  BY <2>1, <2>2
<1> QED
  BY <1>2, <1>5 DEF Placed

(* The slot that an entry moves to is a tombstone, strictly upstream.      *)
LEMMA ScrubTarget ==
  ASSUME TypeOK, Placed, NEW p \in HashPos(slots), NEW j \in Steps(nbuckets),
         FirstIn(slots[p][1], nbuckets, ScrubStop(p), j),
         NEW q \in Pos(nbuckets), ScrubMoves(p, j, q)
  PROVE  /\ q \in TombPos(slots) /\ q[1] # p[1]
         /\ Probe(slots[p][1], nbuckets, j) = q[1]
         /\ Reaches(slots, nbuckets, slots[p][1], j)
<1> DEFINE k == slots[p][1]
<1>1. PICK h \in Steps(nbuckets) :
        Probe(k, nbuckets, h) = p[1] /\ Reaches(slots, nbuckets, k, h)
  BY DEF Placed, WellPlaced, ReachableAt
<1>2. Probe(k, nbuckets, j) # p[1]
  BY DEF ScrubMoves
<1>3. Steps(nbuckets) \subseteq Nat
  BY StepsNat DEF TypeOK
<1>4. j < h
  BY <1>1, <1>2, <1>3 DEF FirstIn, ScrubStop
<1>5. q \in FreePos(slots) /\ Probe(k, nbuckets, j) = q[1]
  BY DEF ScrubMoves, LowestIn
<1>6. Reaches(slots, nbuckets, k, j) /\ q[1] \notin WithEmpty(slots)
  BY <1>1, <1>3, <1>4, <1>5 DEF Reaches
<1>7. q \in TombPos(slots)
  BY <1>5, <1>6 DEF FreePos, WithEmpty, BucketsOf
<1> QED
  BY <1>2, <1>5, <1>6, <1>7

(* A scrub that moves an entry leaves no dead bucket behind if that was    *)
(* the first move of the pass; here it takes a second slot in the bucket.  *)
LEMMA ScrubMovesPlaced ==
  ASSUME KernelSize > 1,
         TypeOK, TypeOK', Placed, pc = "scrub", UNCHANGED <<pc, nbuckets>>,
         NEW p \in todo \cap HashPos(slots),
         \A q \in todo \cap HashPos(slots) : q = p \/ Before(p, q),
         todo' = {q \in todo : Before(p, q)},
         NEW j \in Steps(nbuckets),
         FirstIn(slots[p][1], nbuckets, ScrubStop(p), j),
         psl_zero' = (psl_zero /\ j = 0),
         NEW q \in Pos(nbuckets), ScrubMoves(p, j, q)
  PROVE  Placed'
<1> DEFINE k == slots[p][1]
           n == nbuckets
           x == IF p[1] \in WithEmpty(slots) THEN Empty ELSE Tombstone
<1>1. /\ q \in TombPos(slots) /\ q[1] # p[1]
      /\ Probe(k, n, j) = q[1]
      /\ Reaches(slots, n, k, j)
  BY ScrubTarget
<1>2. /\ slots \in Tables(n) /\ DOMAIN slots = Pos(n) /\ p \in Pos(n)
      /\ slots[p] \in Entry /\ IsHash(slots[p]) /\ p # q
  BY <1>1, SlotKinds DEF TypeOK, Tables, HashPos
<1>3. /\ DOMAIN slots' = Pos(n) /\ slots'[q] = slots[p] /\ slots'[p] = x
      /\ \A r \in Pos(n) : r # p /\ r # q => slots'[r] = slots[r]
  <2>1. slots' = [slots EXCEPT ![q] = slots[p], ![p] = x]
    <3>1. CASE p[1] \in WithEmpty(slots)
      BY <3>1 DEF ScrubMoves
    <3>2. CASE p[1] \notin WithEmpty(slots)
      BY <3>2 DEF ScrubMoves
    <3> QED  BY <3>1, <3>2
  <2> HIDE DEF x
  <2> QED  BY <1>2, <2>1
<1>4. pass_moves' = pass_moves + 1 /\ pass_moves \in Nat
  BY DEF ScrubMoves, TypeOK
<1>5. \A r \in EmptyPos(slots') : \/ r \in EmptyPos(slots)
                                  \/ r = p /\ p[1] \in WithEmpty(slots)
  BY <1>2, <1>3, SwissMapAssumption DEF EmptyPos, IsHash
<1>6. \A r \in TombPos(slots') : \/ r \in TombPos(slots)
                                 \/ r = p /\ p[1] \notin WithEmpty(slots)
  BY <1>2, <1>3, SwissMapAssumption DEF TombPos, IsHash
<1>7. \A r \in HashPos(slots') : \/ r = q
                                 \/ r # p /\ r \in HashPos(slots) /\ slots'[r] = slots[r]
  BY <1>2, <1>3, SwissMapAssumption DEF HashPos, IsHash
<1>8. WithEmpty(slots') \subseteq WithEmpty(slots)
  BY <1>5 DEF WithEmpty, BucketsOf
<1>9. TombsApart(slots')
  <2>1. TombsApart(slots)
    BY DEF Placed, WellPlaced
  <2>2. p[1] \in WithEmpty(slots) => \E e \in EmptyPos(slots) : e[1] = p[1]
    BY DEF WithEmpty, BucketsOf
  <2>3. p[1] \notin WithEmpty(slots) => \A e \in EmptyPos(slots) : e[1] # p[1]
    BY DEF WithEmpty, BucketsOf
  <2> QED  BY <1>5, <1>6, <2>1, <2>2, <2>3 DEF TombsApart
<1>10. ASSUME NEW r \in HashPos(slots') PROVE ReachableAt(slots', n, r)
  <2>1. CASE r = q
    BY <1>1, <1>3, <1>8, <2>1 DEF ReachableAt, Reaches
  <2>2. CASE r # q
    BY <1>7, <1>8, <2>2, StaysReachable DEF Placed, WellPlaced
  <2> QED  BY <2>1, <2>2
<1>11. WellPlaced(slots, nbuckets)'
  BY <1>9, <1>10 DEF WellPlaced
<1>12. ASSUME NEW b \in 0 .. n - 1, b \notin BucketsOf(FreePos(slots))
       PROVE  HasEntry(slots', b)
  <2>1. PICK l \in Lanes : l # p[2]
    <3>1. 0 \in Lanes /\ 1 \in Lanes
      BY SwissMapAssumption DEF Lanes
    <3> QED  BY <3>1
  <2>2. <<b, l>> \in HashPos(slots) /\ <<b, l>> # p
    BY <1>12, <2>1, FullBucket
  <2>3. <<b, l>> # q
    BY <1>1, <1>2, <2>2, SlotKinds DEF FreePos
  <2> QED  BY <1>2, <1>3, <2>1, <2>2, <2>3 DEF HasEntry, HashPos
<1>13. ASSUME NEW r \in HashPos(slots') \ todo'
       PROVE  /\ psl_zero' => Probe(slots'[r][1], n, 0) = r[1]
              /\ pass_moves' <= 1 =>
                   \E h \in Steps(n) :
                     /\ Probe(slots'[r][1], n, h) = r[1]
                     /\ \A i \in Steps(n) : i < h =>
                          HasEntry(slots', Probe(slots'[r][1], n, i))
  <2>1. CASE r = q
    <3>1. ASSUME NEW i \in Steps(n), i < j PROVE HasEntry(slots', Probe(k, n, i))
      <4>1. Probe(k, n, i) \notin BucketsOf(FreePos(slots))
        BY <3>1 DEF FirstIn, ScrubStop
      <4>2. Probe(k, n, i) \in 0 .. n - 1
        BY ProbeInTable
      <4> QED  BY <1>12, <4>1, <4>2
    <3> QED  BY <1>1, <1>3, <2>1, <3>1
  <2>2. CASE r # q
    <3>1. r # p /\ r \in HashPos(slots) /\ slots'[r] = slots[r]
      BY <1>7, <2>2
    <3>2. r \in HashPos(slots) \ todo
      BY <3>1, VisitedBefore
    <3>3. psl_zero' => Probe(slots'[r][1], n, 0) = r[1]
      BY <3>1, <3>2 DEF Placed, PassProgress
    <3>4. ASSUME pass_moves' <= 1
          PROVE  \E h \in Steps(n) :
                   /\ Probe(slots'[r][1], n, h) = r[1]
                   /\ \A i \in Steps(n) : i < h =>
                        HasEntry(slots', Probe(slots'[r][1], n, i))
      <4>1. pass_moves = 0
        BY <1>4, <3>4
      <4>2. PICK h \in Steps(n) :
              /\ Probe(slots[r][1], n, h) = r[1]
              /\ \A i \in Steps(n) : i < h =>
                   Probe(slots[r][1], n, i) \notin BucketsOf(FreePos(slots))
        BY <3>2, <4>1 DEF Placed, PassProgress
      <4>3. ASSUME NEW i \in Steps(n), i < h
            PROVE  HasEntry(slots', Probe(slots[r][1], n, i))
        <5>1. Probe(slots[r][1], n, i) \in 0 .. n - 1
          BY <3>1, ProbeInTable
        <5> QED  BY <1>12, <4>2, <4>3, <5>1
      <4> QED  BY <3>1, <4>2, <4>3
    <3> QED  BY <3>3, <3>4
  <2> QED  BY <2>1, <2>2
<1>14. PassProgress'
  BY <1>4, <1>13 DEF PassProgress, HasEntry
<1> QED
  BY <1>11, <1>14 DEF Placed

(* A step of a pass keeps the entries placed and the pass on record.       *)
LEMMA ScrubEntryPlaced ==
  ASSUME KernelSize > 1, TypeOK, TypeOK', Placed, ScrubEntry
  PROVE  Placed'
<1>1. pc = "scrub" /\ UNCHANGED <<pc, nbuckets>>
  BY DEF ScrubEntry
<1>2. PICK p \in todo \cap HashPos(slots) :
        /\ \A q \in todo \cap HashPos(slots) : q = p \/ Before(p, q)
        /\ todo' = {q \in todo : Before(p, q)}
        /\ \E j \in Steps(nbuckets) :
             /\ FirstIn(slots[p][1], nbuckets, ScrubStop(p), j)
             /\ psl_zero' = (psl_zero /\ j = 0)
             /\ \/ ScrubStays(p, j)
                \/ \E q \in Pos(nbuckets) : ScrubMoves(p, j, q)
  BY Zenon DEF ScrubEntry
<1>3. PICK j \in Steps(nbuckets) :
        /\ FirstIn(slots[p][1], nbuckets, ScrubStop(p), j)
        /\ psl_zero' = (psl_zero /\ j = 0)
        /\ \/ ScrubStays(p, j)
           \/ \E q \in Pos(nbuckets) : ScrubMoves(p, j, q)
  BY <1>2
<1>4. CASE ScrubStays(p, j)
  BY <1>1, <1>2, <1>3, <1>4, ScrubStaysPlaced
<1>5. ASSUME NEW q \in Pos(nbuckets), ScrubMoves(p, j, q)
      PROVE  Placed'
  BY <1>1, <1>2, <1>3, <1>5, ScrubMovesPlaced
<1> QED
  BY <1>3, <1>4, <1>5

(* A new pass has every entry ahead of it.                                 *)
LEMMA NextPassPlaced ==
  ASSUME TypeOK, Placed, NextPass
  PROVE  Placed'
<1>1. slots' = slots /\ nbuckets' = nbuckets /\ todo' = Pos(nbuckets)
  BY DEF NextPass, table
<1>2. WellPlaced(slots, nbuckets)'
  BY <1>1 DEF Placed, WellPlaced, TombsApart
<1>3. HashPos(slots') \subseteq todo'
  BY <1>1 DEF TypeOK, HashPos
<1>4. PassProgress'
  BY <1>3 DEF PassProgress
<1> QED
  BY <1>2, <1>4 DEF Placed

(* The end of a scrub.  The buckets that get an empty slot are crossed by  *)
(* no entry: there are none if nothing was moved, any will do if all       *)
(* entries are in their first bucket, and by PassProgress the dead ones    *)
(* will do if the last pass moved at most one entry.                       *)
LEMMA FinishScrubPlaced ==
  ASSUME TypeOK, Placed, FinishScrub
  PROVE  Placed'
<1> DEFINE n == nbuckets
           R == Reclaimed
<1>1. /\ slots \in Tables(n) /\ DOMAIN slots = Pos(n) /\ n \in Nat
      /\ WellPlaced(slots, n) /\ PassProgress /\ TombsApart(slots)
  BY DEF TypeOK, Tables, Placed, WellPlaced
<1>2. /\ pc = "scrub" /\ todo \cap HashPos(slots) = {} /\ pass_moves <= 1
      /\ nbuckets' = n /\ pc' = "ready"
  BY DEF FinishScrub, PassDone, LastPass
<1>3. R \subseteq TombPos(slots)
  BY DEF Reclaimed, DeadPos
<1>4. /\ DOMAIN slots' = Pos(n)
      /\ \A p \in Pos(n) : slots'[p] = IF p \in R THEN Empty ELSE slots[p]
  BY DEF FinishScrub
<1> HIDE DEF R
<1>5. HashPos(slots') = HashPos(slots) /\ \A p \in HashPos(slots) : slots'[p] = slots[p]
  BY <1>1, <1>3, <1>4, SlotKinds DEF HashPos, TombPos, IsHash
<1>6. EmptyPos(slots') = EmptyPos(slots) \cup R /\ TombPos(slots') = TombPos(slots) \ R
  BY <1>1, <1>3, <1>4, SwissMapAssumption DEF EmptyPos, TombPos
<1>7. WithEmpty(slots') = WithEmpty(slots) \cup BucketsOf(R)
  BY <1>6 DEF WithEmpty, BucketsOf
<1>8. \A p \in TombPos(slots) \ R, q \in R : p[1] # q[1]
  <2>1. CASE R = {} \/ R = TombPos(slots)
    BY <2>1
  <2>2. CASE R = DeadPos
    BY <2>2 DEF DeadPos
  <2> QED  BY <2>1, <2>2 DEF R, Reclaimed
<1>9. TombsApart(slots')
  BY <1>1, <1>6, <1>8 DEF TombsApart
<1>10. ASSUME NEW p \in HashPos(slots)
       PROVE  \E h \in Steps(n) :
                /\ Probe(slots[p][1], n, h) = p[1]
                /\ Reaches(slots, n, slots[p][1], h)
                /\ \A i \in Steps(n) : i < h => Probe(slots[p][1], n, i) \notin BucketsOf(R)
  <2> DEFINE k == slots[p][1]
  <2>1. PICK j1 \in Steps(n) : Probe(k, n, j1) = p[1] /\ Reaches(slots, n, k, j1)
    BY <1>1 DEF WellPlaced, ReachableAt
  <2>2. p \in HashPos(slots) \ todo
    BY <1>2
  <2>3. Steps(n) \subseteq Nat
    BY <1>1, StepsNat
  <2>4. CASE R = {}
    BY <2>1, <2>4 DEF BucketsOf
  <2>5. CASE psl_zero
    <3>1. Probe(k, n, 0) = p[1]
      BY <1>1, <1>2, <2>2, <2>5 DEF PassProgress
    <3>2. 0 \in Steps(n)
      BY <2>1, SwissMapAssumption, <1>1 DEF Steps
    <3> QED  BY <2>3, <3>1, <3>2 DEF Reaches
  <2>6. CASE R = DeadPos
    <3>1. PICK j2 \in Steps(n) :
            /\ Probe(k, n, j2) = p[1]
            /\ \A i \in Steps(n) : i < j2 => HasEntry(slots, Probe(k, n, i))
      BY <1>1, <1>2, <2>2 DEF PassProgress
    <3>2. \A b \in BucketsOf(R) : ~HasEntry(slots, b)
      BY <2>6 DEF DeadPos, BucketsOf, HasEntry, IsHash
    <3>3. CASE j1 <= j2
      BY <2>1, <2>3, <3>1, <3>2, <3>3
    <3>4. CASE j2 < j1
      BY <2>1, <2>3, <3>1, <3>2, <3>4 DEF Reaches
    <3> QED  BY <2>3, <3>3, <3>4
  <2> QED  BY <2>4, <2>5, <2>6 DEF R, Reclaimed
<1>11. ASSUME NEW p \in HashPos(slots') PROVE ReachableAt(slots', n, p)
  <2>1. p \in HashPos(slots) /\ slots'[p] = slots[p]
    BY <1>5
  <2>2. PICK h \in Steps(n) :
          /\ Probe(slots[p][1], n, h) = p[1]
          /\ Reaches(slots, n, slots[p][1], h)
          /\ \A i \in Steps(n) : i < h => Probe(slots[p][1], n, i) \notin BucketsOf(R)
    BY <1>10, <2>1
  <2> QED  BY <1>7, <2>1, <2>2 DEF ReachableAt, Reaches
<1>12. WellPlaced(slots, nbuckets)'
  BY <1>2, <1>9, <1>11 DEF WellPlaced
<1> QED
  BY <1>2, <1>12, PlacedUnlessScrub

-----------------------------------------------------------------------------
(* The empty map is well placed.                                           *)
LEMMA InitPlaced ==
  ASSUME Init
  PROVE  Placed
<1>1. WellPlaced(slots, nbuckets)
  BY FreshWellPlaced DEF Init
<1> QED
  BY <1>1 DEF Init, Placed, PassProgress

(* Every step keeps all entries reachable.                                 *)
LEMMA NextPlaced ==
  ASSUME KernelSize > 1, TypeOK, TypeOK', Placed, [Next]_vars
  PROVE  Placed'
<1>1. slots \in Tables(nbuckets) /\ WellPlaced(slots, nbuckets)
  BY DEF TypeOK, Tables, Placed
<1>2. CASE UNCHANGED vars
  BY <1>2 DEF vars, table, scrubbing, Placed, WellPlaced, TombsApart,
              PassProgress, HasEntry
<1>3. CASE pc = "ready" /\ Overwrites
  <2>1. PICK k \in Keys, v \in Values, p \in HashPos(slots) :
          /\ slots[p][1] = k
          /\ Return([slots EXCEPT ![p] = <<k, v>>], num_empty, num_tombstone)
    BY <1>3 DEF Overwrites
  <2>2. <<k, v>> \in Entry
    BY DEF Entry
  <2>3. WellPlaced([slots EXCEPT ![p] = <<k, v>>], nbuckets)
    BY <1>1, <2>1, <2>2, OverwriteWellPlaced
  <2> QED  BY <2>1, <2>3, ReturnHandsOver, HandsOverPlaced
<1>4. CASE Calling /\ Inserts
  BY <1>4, InsertTurnPlaced DEF Inserts
<1>5. CASE pc = "ready" /\ Erases
  BY <1>5, ErasePlaced DEF Erases
<1>6. CASE pc = "ready" /\ Resizes
  <2>1. HandsOver(slots)
    BY <1>6, StartResizeHandsOver DEF Resizes
  <2> QED  BY <1>1, <2>1, HandsOverPlaced
<1>7. CASE pc = "ready" /\ StartScrub(slots, num_empty, num_tombstone)
  BY <1>1, <1>7, StartScrubHandsOver, HandsOverPlaced
<1>8. CASE pc = "ready" /\ Empties
  <2>1. slots' = AllEmpty(nbuckets') /\ pc' # "scrub"
    BY <1>8 DEF Empties, Allocate
  <2>2. WellPlaced(slots, nbuckets)'
    BY <2>1, FreshWellPlaced
  <2> QED  BY <2>1, <2>2, PlacedUnlessScrub
<1>9. CASE FinishResize
  <2>1. slots' = slots /\ nbuckets' = nbuckets /\ pc' # "scrub"
    BY <1>9 DEF FinishResize
  <2>2. WellPlaced(slots, nbuckets)'
    BY <1>1, <2>1 DEF WellPlaced, TombsApart
  <2> QED  BY <2>1, <2>2, PlacedUnlessScrub
<1> QED
  BY <1>2, <1>3, <1>4, <1>5, <1>6, <1>7, <1>8, <1>9, NextCases, RehashPlaced,
     ScrubEntryPlaced, NextPassPlaced, FinishScrubPlaced

(* With more than one slot per bucket, no operation ever hides an entry: a *)
(* tombstone and an empty slot are never in one bucket, and every entry is *)
(* on the probe sequence of its key, not behind a bucket that has an empty *)
(* slot.  This is what every look-up of map.hpp rests on, and it holds at  *)
(* every step of a resize or a scrub.                                      *)
THEOREM Reachability ==
  ASSUME KernelSize > 1
  PROVE  Spec => [](TombstonesOnlyInFullBuckets /\ EntriesReachable)
<1>1. Init => TypeOK /\ Placed
  BY InitType, InitPlaced
<1>2. TypeOK /\ Placed /\ [Next]_vars => (TypeOK /\ Placed)'
  BY NextType, NextPlaced
<1>3. TypeOK /\ Placed => TombstonesOnlyInFullBuckets /\ EntriesReachable
  BY WellPlacedMeans DEF Placed
<1> QED
  BY <1>1, <1>2, <1>3, PTL DEF Spec

(* In a table whose entries are reachable, find_first_ finds a key exactly *)
(* if it is stored.                                                        *)
LEMMA ReachableIsFound ==
  ASSUME TypeOK, EntriesReachable, NEW k
  PROVE  Finds(slots, nbuckets, k) <=> KeyPos(slots, k) # {}
<1> DEFINE n == nbuckets
           B == FindStop(slots, k)
<1>1. n \in Nat /\ DOMAIN slots = Pos(n) /\ Steps(n) \subseteq Nat
  BY StepsNat DEF TypeOK
<1>2. ASSUME NEW j \in Steps(n), NEW p \in Pos(n), FoundAt(slots, n, k, j, p)
      PROVE  KeyPos(slots, k) # {}
  BY <1>2 DEF FoundAt, LowestIn
<1>3. ASSUME NEW p \in KeyPos(slots, k)
      PROVE  Finds(slots, n, k)
  <2>1. p \in HashPos(slots) /\ slots[p][1] = k
    BY DEF KeyPos, HashPos
  <2>2. PICK i \in Steps(n) : Probe(k, n, i) = p[1] /\ Reaches(slots, n, k, i)
    BY <2>1 DEF EntriesReachable, ReachableAt
  <2>3. p[1] \in B /\ p[1] \in BucketsOf(KeyPos(slots, k))
    BY DEF FindStop, BucketsOf
  <2>4. PICK j \in Steps(n) : FirstIn(k, n, B, j) /\ j <= i
    BY <1>1, <2>2, <2>3, FirstExists
  <2>5. Probe(k, n, j) \in BucketsOf(KeyPos(slots, k))
    <3>1. CASE j = i
      BY <2>2, <2>3, <3>1
    <3>2. CASE j # i
      <4>1. Probe(k, n, j) \notin WithEmpty(slots)
        BY <1>1, <2>2, <2>4, <3>2 DEF Reaches
      <4> QED  BY <2>4, <4>1 DEF FirstIn, FindStop
    <3> QED  BY <3>1, <3>2
  <2>6. PICK r \in KeyPos(slots, k) : r[1] = Probe(k, n, j)
    BY <2>5 DEF BucketsOf
  <2>7. KeyPos(slots, k) \in SUBSET Pos(n)
    BY <1>1 DEF KeyPos
  <2>8. PICK q \in KeyPos(slots, k) : LowestIn(KeyPos(slots, k), Probe(k, n, j), q)
    BY <1>1, <2>6, <2>7, LowestExists
  <2> QED  BY <2>4, <2>7, <2>8 DEF Finds, FoundAt
<1> QED
  BY <1>2, <1>3 DEF Finds

(* Between operations, find_first_ finds exactly the keys that are stored, *)
(* whatever sequence of insertions, erasures, resizes and scrubs went on   *)
(* before, for every hash function and every configuration with more than  *)
(* one slot per bucket.                                                    *)
THEOREM LookupCorrect ==
  ASSUME KernelSize > 1
  PROVE  Spec => []LookupFindsStoredKeys
<1>1. TypeOK /\ EntriesReachable => LookupFindsStoredKeys
  BY ReachableIsFound DEF LookupFindsStoredKeys
<1> QED
  BY <1>1, TypeCorrect, Reachability, PTL
===============================================================================
