------------------------------- MODULE SwissMap -------------------------------
(***************************************************************************)
(* nvhm::map (include/nvhashmap/map.hpp): the growable open-addressing     *)
(* table.  A table is an array of buckets of KernelSize slots; a slot is   *)
(* empty, a tombstone, or holds an entry (a key and its value).  A key is  *)
(* looked up along its probe sequence, bucket by bucket, and the look-up   *)
(* ends at the first bucket that has an empty slot.                        *)
(*                                                                         *)
(* The map is a sequential object.  An operation that only touches the     *)
(* slots it finds is one action; resize_ and scrub_, which walk over all   *)
(* entries, take one step per entry, and no other operation is enabled     *)
(* until they end (pc).  What a kernel computes with SIMD instructions on  *)
(* one bucket is a set of lanes here.  The 7-bit fingerprint of a slot is  *)
(* left out: equal keys have equal fingerprints and every match is         *)
(* confirmed by comparing the keys.                                        *)
(***************************************************************************)
EXTENDS Integers, FiniteSets

CONSTANTS
  Keys, Values,
  KernelSize,     \* slots per bucket
  Probe(_, _, _), \* Probe(k, n, j): the bucket that step j of the probe
                  \* sequence of key k designates in a table of n buckets
  MaxProbes,      \* probe steps of a bounded sequence, 0 if it is unbounded
  Duplicates, AutoScrub, AutoShrink,  \* flags_t
  MinCapacity, InitCapacity,          \* conf
  GrowBias, ScrubBias, ShrinkBias,    \* conf
  MaxBuckets,     \* bound of the model: no table grows beyond it
  Empty, Tombstone, None

Entry     == Keys \X Values
Lanes     == 0 .. KernelSize - 1
Pos(n)    == (0 .. n - 1) \X Lanes
Slot      == Entry \cup {Empty, Tombstone}
Steps(n)  == IF MaxProbes > 0 THEN 0 .. MaxProbes - 1 ELSE 0 .. n - 1

ASSUME SwissMapAssumption ==
  /\ KernelSize \in Nat \ {0}
  /\ MaxBuckets \in Nat \ {0}
  /\ MaxProbes \in Nat
  /\ Duplicates \in BOOLEAN /\ AutoScrub \in BOOLEAN /\ AutoShrink \in BOOLEAN
  /\ MinCapacity \in Nat /\ InitCapacity \in Nat
  /\ InitCapacity \div KernelSize \in 1 .. MaxBuckets
  /\ GrowBias \in Nat \ {0} /\ ScrubBias \in Nat /\ ShrinkBias \in Nat
  /\ Empty # Tombstone
  /\ Empty \notin Entry /\ Tombstone \notin Entry /\ None \notin Entry

(* A probe sequence stays inside the table.                                *)
ASSUME ProbeAssumption ==
  \A k \in Keys, n \in 1 .. MaxBuckets :
    \A j \in Steps(n) : Probe(k, n, j) \in 0 .. n - 1

VARIABLES
  nbuckets,       \* bucket_mask_: the table has nbuckets * KernelSize slots
  slots,          \* states_, keys_ and values_
  num_empty,      \* num_empty_
  num_tombstone,  \* num_tombstone_
  pc,             \* "ready" between operations
  pending,        \* the entry an insertion in progress will store, or None
  old,            \* resize_: the table being moved from
  todo,           \* resize_, scrub_: the positions still to be visited
  old_size,       \* resize_: the number of entries of the old table
  moves,          \* scrub_: num_moves
  pass_moves,     \* scrub_: num_moves - num_moves_prev
  psl_zero        \* scrub_: psl_bits == 0

table == <<nbuckets, slots, num_empty, num_tombstone>>
rehash == <<old, old_size>>
scrubbing == <<moves, pass_moves, psl_zero>>
vars == <<table, pc, pending, todo, rehash, scrubbing>>

-----------------------------------------------------------------------------
(* Slots, lanes and buckets: what the kernel functions compute.            *)

IsHash(x) == x \notin {Empty, Tombstone}

HashPos(s)    == {p \in DOMAIN s : IsHash(s[p])}
EmptyPos(s)   == {p \in DOMAIN s : s[p] = Empty}
TombPos(s)    == {p \in DOMAIN s : s[p] = Tombstone}
KeyPos(s, k)  == {p \in DOMAIN s : IsHash(s[p]) /\ s[p][1] = k}
FreePos(s)    == EmptyPos(s) \cup TombPos(s)

(* The number of slots that hold x.                                        *)
Count(s, x) == Cardinality({p \in DOMAIN s : s[p] = x})

(* The buckets in which some position of P lies.                           *)
BucketsOf(P) == {p[1] : p \in P}

WithEmpty(s) == BucketsOf(EmptyPos(s))

(* The order in which the slots of the table are laid out.                 *)
Before(p, q) == p[1] < q[1] \/ (p[1] = q[1] /\ p[2] < q[2])

(* mask_type::next: p is the lowest of the lanes of bucket b that are in P *)
LowestIn(P, b, p) ==
  /\ p \in P /\ p[1] = b
  /\ \A q \in P : q[1] = b => p[2] <= q[2]

(* j is the first step of the probe sequence of k that meets a bucket of B *)
FirstIn(k, n, B, j) ==
  /\ j \in Steps(n)
  /\ Probe(k, n, j) \in B
  /\ \A i \in Steps(n) : i < j => Probe(k, n, i) \notin B

Exhausted(k, n, B) == \A j \in Steps(n) : Probe(k, n, j) \notin B

-----------------------------------------------------------------------------
(* conf.hpp and the arithmetic of capacities.                              *)

Larger(a, b) == IF a >= b THEN a ELSE b

PowersOfTwo == {2 ^ i : i \in 0 .. 24}

bit_ceil(x) == CHOOSE c \in PowersOfTwo :
                 c >= x /\ \A d \in PowersOfTwo : d >= x => c <= d

capacity == nbuckets * KernelSize

grow_threshold(c) == Larger(c, MinCapacity) \div GrowBias

should_scrub(c, nt) == c <= nt * ScrubBias

should_shrink(c, ne, nt) ==
  c > MinCapacity /\ (c - (ne + nt)) * ShrinkBias <= c

(* Wrong: the map grows when no slot is left, not one insertion earlier.   *)
is_full_late == num_empty = 0

is_full == num_empty <= grow_threshold(capacity)

size == capacity - (num_empty + num_tombstone)

(* resize_: the capacity that a request for `end` slots leads to when the  *)
(* table holds sz entries.                                                 *)
resize_target(end, sz) ==
  Larger(Larger(end, MinCapacity),
         bit_ceil(sz + grow_threshold(bit_ceil(sz))))

(* shrink_target_: the capacities met by halving, until one of them is not *)
(* above the minimum or should not shrink any more.  should_shrink gets    *)
(* the counters of the table as it is, whatever the capacity it is asked   *)
(* about.                                                                  *)
shrink_target ==
  LET min_end == Larger(bit_ceil(size), MinCapacity)
      stop == {c \in {capacity \div 2 ^ i : i \in 0 .. 24} :
                 c <= min_end \/ ~should_shrink(c, num_empty, num_tombstone)}
  IN  CHOOSE c \in stop : \A d \in stop : d <= c

-----------------------------------------------------------------------------
(* Steps that several operations end with.                                 *)

NoTable == [p \in {} |-> Empty]

AllEmpty(n) == [p \in Pos(n) |-> Empty]

Ready == pc = "ready"

(* The operation returns and leaves slots s and the counters ne and nt.    *)
Return(s, ne, nt) ==
  /\ slots' = s /\ num_empty' = ne /\ num_tombstone' = nt
  /\ pc' = "ready" /\ pending' = None
  /\ UNCHANGED <<nbuckets, todo, rehash, scrubbing>>

(* Wrong: alloc_ forgets bucket_mask_.                                     *)
AllocateKeepsMask(n) ==
  /\ n \in 1 .. MaxBuckets
  /\ slots' = AllEmpty(n)
  /\ num_empty' = n * KernelSize /\ num_tombstone' = 0
  /\ UNCHANGED nbuckets

(* alloc_ and reset_: a fresh table of n buckets.                          *)
Allocate(n) ==
  /\ n \in 1 .. MaxBuckets
  /\ nbuckets' = n
  /\ slots' = AllEmpty(n)
  /\ num_empty' = n * KernelSize
  /\ num_tombstone' = 0

(* resize_ up to the loop over the old entries.  s, ne and nt are the      *)
(* table at the time of the call, pend the insertion that asked for it.    *)
StartResize(end, s, ne, nt, pend) ==
  LET sz     == capacity - (ne + nt)
      target == resize_target(end, sz)
  IN  \/ /\ target = capacity
         /\ slots' = s /\ num_empty' = ne /\ num_tombstone' = nt
         /\ pc' = IF pend = None THEN "ready" ELSE "insert"
         /\ pending' = pend
         /\ UNCHANGED <<nbuckets, todo, rehash, scrubbing>>
      \/ /\ target # capacity
         /\ Allocate(target \div KernelSize)
         /\ old' = s /\ old_size' = sz /\ todo' = HashPos(s)
         /\ pc' = "resize" /\ pending' = pend
         /\ UNCHANGED scrubbing

(* scrub_ up to its first pass.                                            *)
StartScrub(s, ne, nt) ==
  \/ nt = 0 /\ Return(s, ne, nt)
  \/ /\ nt > 0
     /\ slots' = s /\ num_empty' = ne /\ num_tombstone' = nt
     /\ pc' = "scrub" /\ todo' = Pos(nbuckets)
     /\ moves' = 0 /\ pass_moves' = 0 /\ psl_zero' = TRUE
     /\ UNCHANGED <<nbuckets, pending, rehash>>

(* auto_shrink_and_scub_ after `buried` slots became tombstones.           *)
AutoShrinkAndScrub(s, ne, nt, buried) ==
  LET shrink == AutoShrink /\ should_shrink(capacity, ne, nt)
      scrub  == ~shrink /\ AutoScrub /\ buried > 0 /\ should_scrub(capacity, nt)
  IN  \/ shrink /\ StartResize(capacity \div 2, s, ne, nt, None)
      \/ scrub /\ StartScrub(s, ne, nt)
      \/ ~shrink /\ ~scrub /\ Return(s, ne, nt)

-----------------------------------------------------------------------------
(* find_first_                                                             *)

(* Wrong: a tombstone ends the search as an empty slot does.               *)
FindStopAtTombstone(s, k) == BucketsOf(KeyPos(s, k)) \cup BucketsOf(FreePos(s))

FindStop(s, k) == BucketsOf(KeyPos(s, k)) \cup WithEmpty(s)

(* The look-up of k ends at step j of its probe sequence and returns p.    *)
FoundAt(s, n, k, j, p) ==
  /\ FirstIn(k, n, FindStop(s, k), j)
  /\ LowestIn(KeyPos(s, k), Probe(k, n, j), p)

Finds(s, n, k) == \E j \in Steps(n), p \in Pos(n) : FoundAt(s, n, k, j, p)

(* find_next_: the search for k goes on behind position p of the bucket of *)
(* step j.  Unless p is the last slot of the bucket, the search ends there *)
(* if the bucket has an empty slot.                                        *)
InBucketAfter(s, k, p) == {q \in KeyPos(s, k) : q[1] = p[1] /\ q[2] > p[2]}

(* Wrong: the last slot of a bucket ends the search.                       *)
LeavesBucketUnlessLast(s, k, p) ==
  /\ InBucketAfter(s, k, p) = {}
  /\ p[2] # KernelSize - 1 /\ p[1] \notin WithEmpty(s)

LeavesBucket(s, k, p) ==
  /\ InBucketAfter(s, k, p) = {}
  /\ p[2] = KernelSize - 1 \/ p[1] \notin WithEmpty(s)

FindsNext(s, n, k, j, p, i, q) ==
  \/ i = j /\ LowestIn(InBucketAfter(s, k, p), p[1], q)
  \/ /\ LeavesBucket(s, k, p)
     /\ i \in Steps(n) /\ i > j
     /\ \A h \in Steps(n) : j < h /\ h < i => Probe(k, n, h) \notin FindStop(s, k)
     /\ LowestIn(KeyPos(s, k), Probe(k, n, i), q)

(* Step j of the sequence of k is as far as a search for k can get.        *)
Reaches(s, n, k, j) ==
  \A i \in Steps(n) : i < j => Probe(k, n, i) \notin WithEmpty(s)

(* update: the caller overwrites the value at the position that was found. *)
Update(k, v) ==
  /\ Ready
  /\ \E j \in Steps(nbuckets), p \in Pos(nbuckets) :
       /\ FoundAt(slots, nbuckets, k, j, p)
       /\ Return([slots EXCEPT ![p] = <<k, v>>], num_empty, num_tombstone)

-----------------------------------------------------------------------------
(* insert_                                                                 *)

(* Wrong: the search for the key ends at the first slot that can be taken. *)
InsertStopAtTombstone(k) ==
  (IF Duplicates THEN {} ELSE BucketsOf(KeyPos(slots, k)))
  \cup BucketsOf(FreePos(slots))

InsertStop(k) ==
  (IF Duplicates THEN {} ELSE BucketsOf(KeyPos(slots, k)))
  \cup (IF num_tombstone > 0 THEN WithEmpty(slots)
                             ELSE BucketsOf(FreePos(slots)))

(* The insertion of k, whose probing ends at step j, returns the position  *)
(* p of an entry that was there.                                           *)
InsertFinds(k, j, p) ==
  /\ ~Duplicates
  /\ FirstIn(k, nbuckets, InsertStop(k), j)
  /\ LowestIn(KeyPos(slots, k), Probe(k, nbuckets, j), p)

(* The insertion of k, whose probing ends at step j, takes the slot p: the *)
(* first tombstone it met, if it met one, else the first free slot of the  *)
(* bucket it ended at.                                                     *)
InsertTakes(k, j, p) ==
  LET tombs == BucketsOf(TombPos(slots))
      met   == \E i \in Steps(nbuckets) :
                 i <= j /\ Probe(k, nbuckets, i) \in tombs
  IN  /\ FirstIn(k, nbuckets, InsertStop(k), j)
      /\ Duplicates \/ Probe(k, nbuckets, j) \notin BucketsOf(KeyPos(slots, k))
      /\ \/ /\ num_tombstone > 0 /\ met
            /\ \E i \in Steps(nbuckets) :
                 /\ FirstIn(k, nbuckets, tombs, i)
                 /\ LowestIn(TombPos(slots), Probe(k, nbuckets, i), p)
         \/ /\ ~(num_tombstone > 0 /\ met)
            /\ LowestIn(FreePos(slots), Probe(k, nbuckets, j), p)

(* Wrong: every insertion is counted as one into an empty slot.            *)
NeverReuses(p) == 0

Reuses(p) == IF num_tombstone > 0 /\ slots[p] = Tombstone THEN 1 ELSE 0

(* One turn of the loop of insert_: the entry is found (and the caller     *)
(* overwrites its value), a slot is taken, or the probe sequence is        *)
(* exhausted and the table grows before the next turn.                     *)
InsertTurn(k, v) ==
  \/ \E j \in Steps(nbuckets), p \in Pos(nbuckets) :
       /\ InsertFinds(k, j, p)
       /\ Return([slots EXCEPT ![p] = <<k, v>>], num_empty, num_tombstone)
  \/ \E j \in Steps(nbuckets), p \in Pos(nbuckets) :
       /\ InsertTakes(k, j, p)
       /\ Return([slots EXCEPT ![p] = <<k, v>>],
                 num_empty - (1 - Reuses(p)), num_tombstone - Reuses(p))
  \/ /\ MaxProbes > 0
     /\ Exhausted(k, nbuckets, InsertStop(k))
     /\ StartResize(2 * capacity, slots, num_empty, num_tombstone, <<k, v>>)

Insert(k, v) ==
  /\ Ready
  /\ \/ /\ is_full
        /\ StartResize(2 * capacity, slots, num_empty, num_tombstone, <<k, v>>)
     \/ ~is_full /\ InsertTurn(k, v)

RetryInsert ==
  /\ pc = "insert"
  /\ InsertTurn(pending[1], pending[2])

-----------------------------------------------------------------------------
(* erase_first_, erase_at_, erase_if_ and erase_all_ reset the slots they  *)
(* match.  A slot of a bucket that has an empty slot becomes empty, since  *)
(* no probe sequence runs past that bucket; any other becomes a tombstone. *)

(* Wrong: every erased slot is buried, or every one is emptied.            *)
EmptiedNone(P) == {}
EmptiedAll(P) == P

Emptied(P) == {p \in P : p[1] \in WithEmpty(slots)}

EraseSlots(P) ==
  LET emptied == Emptied(P)
      buried  == P \ emptied
      s == [p \in Pos(nbuckets) |->
              IF p \in emptied THEN Empty
              ELSE IF p \in buried THEN Tombstone ELSE slots[p]]
  IN  AutoShrinkAndScrub(s, num_empty + Cardinality(emptied),
                         num_tombstone + Cardinality(buried),
                         Cardinality(buried))

EraseFirst(k) ==
  /\ Ready
  /\ \E j \in Steps(nbuckets), p \in Pos(nbuckets) :
       FoundAt(slots, nbuckets, k, j, p) /\ EraseSlots({p})

(* erase_next_, from a position that an earlier call returned.             *)
EraseNext(k) ==
  /\ Ready
  /\ Duplicates
  /\ \E j, i \in Steps(nbuckets), p, q \in Pos(nbuckets) :
       /\ p[1] = Probe(k, nbuckets, j) /\ Reaches(slots, nbuckets, k, j)
       /\ FindsNext(slots, nbuckets, k, j, p, i, q)
       /\ EraseSlots({q})

EraseAt(p) ==
  /\ Ready
  /\ p \in HashPos(slots)
  /\ EraseSlots({p})

EraseIf(P) ==
  /\ Ready
  /\ P # {} /\ P \subseteq HashPos(slots)
  /\ EraseSlots(P)

(* Wrong: erase_all_ ends at the first slot that is free.                  *)
ReachablePosToFree(k) ==
  {p \in KeyPos(slots, k) :
     \E j \in Steps(nbuckets) :
       /\ p[1] = Probe(k, nbuckets, j)
       /\ \A i \in Steps(nbuckets) :
            i < j => Probe(k, nbuckets, i) \notin BucketsOf(FreePos(slots))}

(* The entries of k in the buckets of its probe sequence up to the first   *)
(* one that has an empty slot.                                             *)
ReachablePos(k) ==
  {p \in KeyPos(slots, k) :
     \E j \in Steps(nbuckets) :
       p[1] = Probe(k, nbuckets, j) /\ Reaches(slots, nbuckets, k, j)}

EraseAll(k) ==
  /\ Ready
  /\ Duplicates
  /\ ReachablePos(k) # {}
  /\ EraseSlots(ReachablePos(k))

-----------------------------------------------------------------------------
(* resize_: the loop over the entries of the old table, in the order of    *)
(* their positions.  The new table has no tombstone, so an entry goes to   *)
(* the first free slot of its probe sequence.                              *)

(* Wrong: a resize that starts over does not take a larger table.          *)
RestartedSame == nbuckets

(* The size of the table when a resize starts over.                        *)
RestartedBuckets == 2 * nbuckets

(* Wrong: a resize that starts over goes on with the entry that it met.    *)
RestartedHere == todo

(* The entries to visit when a resize starts over.                         *)
Restarted == HashPos(old)

RehashEntry ==
  /\ pc = "resize"
  /\ \E p \in todo :
       /\ \A q \in todo : q = p \/ Before(p, q)
       /\ \/ \E j \in Steps(nbuckets), q \in Pos(nbuckets) :
               /\ FirstIn(old[p][1], nbuckets, BucketsOf(FreePos(slots)), j)
               /\ LowestIn(FreePos(slots), Probe(old[p][1], nbuckets, j), q)
               /\ slots' = [slots EXCEPT ![q] = old[p]]
               /\ todo' = todo \ {p}
               /\ UNCHANGED <<nbuckets, num_empty, num_tombstone>>
          \/ \* A bounded sequence is exhausted: start over, twice as large.
             /\ MaxProbes > 0
             /\ Exhausted(old[p][1], nbuckets, BucketsOf(FreePos(slots)))
             /\ Allocate(RestartedBuckets)
             /\ todo' = Restarted
  /\ UNCHANGED <<pc, pending, rehash, scrubbing>>

FinishResize ==
  /\ pc = "resize"
  /\ todo = {}
  /\ num_empty' = num_empty - old_size
  /\ pc' = IF pending = None THEN "ready" ELSE "insert"
  /\ old' = NoTable /\ old_size' = 0
  /\ UNCHANGED <<nbuckets, slots, num_tombstone, pending, todo, scrubbing>>

-----------------------------------------------------------------------------
(* scrub_.  A pass visits the entries in the order of their positions and  *)
(* moves one to the first tombstone, if there is one, of the buckets that  *)
(* its probe sequence meets before its own.  The counters, which the code  *)
(* keeps in locals and stores after the last pass, are updated in place.   *)

ScrubStop(p) == {p[1]} \cup BucketsOf(FreePos(slots))

(* The entry at p is already in the best bucket that is permissible.       *)
ScrubStays(p, j) ==
  /\ Probe(slots[p][1], nbuckets, j) = p[1]
  /\ UNCHANGED <<slots, num_empty, num_tombstone, moves, pass_moves>>

(* Wrong: the move is not counted.                                         *)
ScrubMovesUncounted(p, j, q) ==
  /\ Probe(slots[p][1], nbuckets, j) # p[1]
  /\ LowestIn(FreePos(slots), Probe(slots[p][1], nbuckets, j), q)
  /\ slots' = [slots EXCEPT ![q] = slots[p],
                 ![p] = IF p[1] \in WithEmpty(slots) THEN Empty ELSE Tombstone]
  /\ UNCHANGED <<num_empty, num_tombstone, moves, pass_moves>>

(* The entry at p moves to q, upstream.                                    *)
ScrubMoves(p, j, q) ==
  LET reclaimed == IF p[1] \in WithEmpty(slots) THEN 1 ELSE 0
  IN  /\ Probe(slots[p][1], nbuckets, j) # p[1]
      /\ LowestIn(FreePos(slots), Probe(slots[p][1], nbuckets, j), q)
      /\ slots' = [slots EXCEPT
                     ![q] = slots[p],
                     ![p] = IF reclaimed = 1 THEN Empty ELSE Tombstone]
      /\ num_empty' = num_empty + reclaimed
      /\ num_tombstone' = num_tombstone - reclaimed
      /\ moves' = moves + 1 /\ pass_moves' = pass_moves + 1

ScrubEntry ==
  /\ pc = "scrub"
  /\ \E p \in todo \cap HashPos(slots) :
       /\ \A q \in todo \cap HashPos(slots) : q = p \/ Before(p, q)
       /\ todo' = {q \in todo : Before(p, q)}
       /\ \E j \in Steps(nbuckets) :
            /\ FirstIn(slots[p][1], nbuckets, ScrubStop(p), j)
            /\ psl_zero' = (psl_zero /\ j = 0)
            /\ \/ ScrubStays(p, j)
               \/ \E q \in Pos(nbuckets) : ScrubMoves(p, j, q)
  /\ UNCHANGED <<nbuckets, pc, pending, rehash>>

PassDone == pc = "scrub" /\ todo \cap HashPos(slots) = {}

(* Wrong: the comparison that ends the passes is turned round.             *)
LastPassIfMany == pass_moves > 1

LastPass == pass_moves <= 1

NextPass ==
  /\ PassDone
  /\ ~LastPass
  /\ todo' = Pos(nbuckets)
  /\ pass_moves' = 0 /\ psl_zero' = TRUE
  /\ UNCHANGED <<table, pc, pending, rehash, moves>>

(* The tombstones that are reclaimed once the passes are over: all of them *)
(* when every entry is in its first bucket, else those of the buckets that *)
(* consist of tombstones only; none when nothing was moved.                *)
DeadPos ==
  {p \in TombPos(slots) : \A i \in Lanes : slots[<<p[1], i>>] = Tombstone}

(* Wrong: all tombstones are reclaimed although some entries had to stay   *)
(* outside their first bucket.                                             *)
ReclaimedAll == IF moves = 0 THEN {} ELSE TombPos(slots)

Reclaimed ==
  IF moves = 0 THEN {} ELSE IF psl_zero THEN TombPos(slots) ELSE DeadPos

NumReclaimed ==
  IF moves = 0 THEN 0
  ELSE IF psl_zero THEN num_tombstone ELSE Cardinality(DeadPos)

FinishScrub ==
  /\ PassDone
  /\ LastPass
  /\ slots' = [p \in Pos(nbuckets) |->
                 IF p \in Reclaimed THEN Empty ELSE slots[p]]
  /\ num_empty' = num_empty + NumReclaimed
  /\ num_tombstone' = num_tombstone - NumReclaimed
  /\ pc' = "ready" /\ todo' = {}
  /\ moves' = 0 /\ pass_moves' = 0 /\ psl_zero' = TRUE
  /\ UNCHANGED <<nbuckets, pending, rehash>>

-----------------------------------------------------------------------------
(* The operations of raw_map_base that change the capacity.                *)

UserResize(end) ==
  StartResize(end, slots, num_empty, num_tombstone, None)

Resize(n)  == Ready /\ UserResize(Larger(bit_ceil(n), MinCapacity))
Reserve(n) == /\ Ready
              /\ n > capacity
              /\ UserResize(Larger(bit_ceil(n), MinCapacity))
Grow       == Ready /\ UserResize(2 * capacity)
Shrink     == /\ Ready
              /\ shrink_target # capacity
              /\ UserResize(shrink_target)
Scrub      == Ready /\ StartScrub(slots, num_empty, num_tombstone)

(* clear(n) and clear(): the latter changes the capacity only if AutoShrink *)
ClearTo(n) ==
  /\ Ready
  /\ Allocate(n \div KernelSize)
  /\ UNCHANGED <<pc, pending, todo, rehash, scrubbing>>

ClearCapacity(n) == ClearTo(bit_ceil(Larger(n, MinCapacity)))
Clear == ClearTo(IF AutoShrink THEN InitCapacity ELSE capacity)

-----------------------------------------------------------------------------
Init ==
  /\ nbuckets = InitCapacity \div KernelSize
  /\ slots = AllEmpty(nbuckets)
  /\ num_empty = nbuckets * KernelSize
  /\ num_tombstone = 0
  /\ pc = "ready" /\ pending = None
  /\ old = NoTable /\ todo = {} /\ old_size = 0
  /\ moves = 0 /\ pass_moves = 0 /\ psl_zero = TRUE

(* The capacities that a caller may ask for.                               *)
Requests == 1 .. MaxBuckets * KernelSize

Next ==
  \/ \E k \in Keys, v \in Values : Insert(k, v) \/ Update(k, v)
  \/ \E k \in Keys : EraseFirst(k) \/ EraseNext(k) \/ EraseAll(k)
  \/ \E p \in Pos(nbuckets) : EraseAt(p)
  \/ \E P \in SUBSET HashPos(slots) : EraseIf(P)
  \/ \E n \in Requests : Resize(n) \/ Reserve(n) \/ ClearCapacity(n)
  \/ Grow \/ Shrink \/ Scrub \/ Clear
  \/ RetryInsert
  \/ RehashEntry \/ FinishResize
  \/ ScrubEntry \/ NextPass \/ FinishScrub

Spec == Init /\ [][Next]_vars

-----------------------------------------------------------------------------
TypeOK ==
  /\ nbuckets \in 1 .. MaxBuckets
  /\ slots \in [Pos(nbuckets) -> Slot]
  /\ num_empty \in Int /\ num_tombstone \in Int
  /\ pc \in {"ready", "insert", "resize", "scrub"}
  /\ pending \in Entry \cup {None}
  /\ pc = "insert" => pending # None
  /\ \E n \in 0 .. MaxBuckets : old \in [Pos(n) -> Slot]
  /\ todo \subseteq IF pc = "resize" THEN HashPos(old)
                    ELSE IF pc = "scrub" THEN Pos(nbuckets) ELSE {}
  /\ old_size \in Int /\ moves \in Nat /\ pass_moves \in 0 .. moves
  /\ psl_zero \in BOOLEAN

(* num_empty_ and num_tombstone_ are the numbers of empty and tombstone    *)
(* slots, what check_integrity_ asserts, whatever the order of insertions, *)
(* erasures, moves and reclamations.  insert_ chooses its search by        *)
(* num_tombstone_ and the decision to grow rests on num_empty_.            *)
CountersExact ==
  pc # "resize" =>
    /\ num_empty = Count(slots, Empty)
    /\ num_tombstone = Count(slots, Tombstone)

(* No bucket has both an empty slot and a tombstone ("Table corrupted!").  *)
(* insert_ goes on past a bucket with a tombstone without looking for an   *)
(* empty slot in it.                                                       *)
TombstonesOnlyInFullBuckets ==
  BucketsOf(TombPos(slots)) \cap WithEmpty(slots) = {}

(* Every entry lies on the probe sequence of its key, and no bucket that   *)
(* the sequence meets before has an empty slot: the look-up, which ends at *)
(* the first empty slot, gets there.                                       *)
ReachableAt(s, n, p) ==
  \E j \in Steps(n) :
    Probe(s[p][1], n, j) = p[1] /\ Reaches(s, n, s[p][1], j)

EntriesReachable == \A p \in HashPos(slots) : ReachableAt(slots, nbuckets, p)

(* Unless the map allows duplicates, no two slots hold the same key, in    *)
(* spite of tombstones, growth in the middle of an insertion, and moves.   *)
KeysUnique ==
  ~Duplicates =>
    \A p, q \in HashPos(slots) : slots[p][1] = slots[q][1] => p = q

(* Between operations, a look-up finds exactly the keys that are stored.   *)
LookupFindsStoredKeys ==
  pc = "ready" =>
    \A k \in Keys : Finds(slots, nbuckets, k) <=> KeyPos(slots, k) # {}

(* An unbounded look-up or insertion always meets an empty slot ("Table is *)
(* full. Should not happen!"), the growth threshold and the lower bound on *)
(* the capacity after a resize see to it.                                  *)
ProbingEnds ==
  pc \in {"ready", "insert"} /\ MaxProbes = 0 =>
    \A k \in Keys : ~Exhausted(k, nbuckets, WithEmpty(slots))

-----------------------------------------------------------------------------
(* What the steps of a resize and of a scrub keep in between, which makes  *)
(* the invariants above inductive.                                         *)

(* Some slot of bucket b holds an entry: the bucket is not dead.           *)
HasEntry(s, b) == \E i \in Lanes : IsHash(s[<<b, i>>])

(* The entries that a pass of scrub_ has visited: if none had psl > 0, all *)
(* are in their first bucket; unless two of them were moved, no bucket on  *)
(* the way to one of them is dead, and if none was moved, no bucket on the *)
(* way has a slot to move to.                                              *)
PassProgress ==
  pc = "scrub" =>
    \A p \in HashPos(slots) \ todo :
      /\ psl_zero => Probe(slots[p][1], nbuckets, 0) = p[1]
      /\ pass_moves <= 1 =>
           \E j \in Steps(nbuckets) :
             /\ Probe(slots[p][1], nbuckets, j) = p[1]
             /\ \A i \in Steps(nbuckets) : i < j =>
                  /\ HasEntry(slots, Probe(slots[p][1], nbuckets, i))
                  /\ pass_moves = 0 =>
                       Probe(slots[p][1], nbuckets, i) \notin
                         BucketsOf(FreePos(slots))

(* resize_ counts the entries it moves once, at its end.                   *)
ResizeCounters ==
  pc = "resize" =>
    /\ num_tombstone = 0 /\ TombPos(slots) = {}
    /\ old_size = Cardinality(HashPos(old))
    /\ num_empty = Count(slots, Empty) + (old_size - Cardinality(todo))

(* resize_ moves every entry once.                                         *)
ResizeUnique ==
  ~Duplicates /\ pc = "resize" =>
    /\ \A p, q \in HashPos(old) : old[p][1] = old[q][1] => p = q
    /\ \A p \in todo, q \in HashPos(slots) : old[p][1] # slots[q][1]

(* The inductive invariant.                                                *)
IInv ==
  /\ TypeOK
  /\ TombstonesOnlyInFullBuckets /\ EntriesReachable /\ PassProgress
  /\ CountersExact /\ ResizeCounters
  /\ KeysUnique /\ ResizeUnique

-----------------------------------------------------------------------------
(* The map as the caller sees it.  While a resize moves entries, those it  *)
(* has not moved yet are still in the old table.                           *)
content ==
  [e \in Entry |-> Count(slots, e)
                   + IF pc = "resize"
                     THEN Cardinality({p \in todo : old[p] = e}) ELSE 0]

D == INSTANCE Dictionary WITH busy <- pc # "ready", request <- pending

(* The map implements the dictionary: no operation loses, duplicates or    *)
(* resurrects an entry, whether it grows, starts a resize over, shrinks or *)
(* scrubs on the way.                                                      *)
ImplementsDictionary == D!Spec

(* erase removes one entry of its key and no other entry; erase_all leaves *)
(* no entry of its key, wherever duplicates have ended up.                 *)
EraseIsExact ==
  [][\A k \in Keys :
       /\ EraseFirst(k) \/ EraseNext(k) =>
            \E v \in Values :
              content' = [content EXCEPT ![<<k, v>>] = @ - 1]
       /\ EraseAll(k) =>
            content' = [e \in Entry |-> IF e[1] = k THEN 0 ELSE content[e]]
    ]_vars

(* The search for k goes on behind position p of the bucket of step j.     *)
SearchAt(k, j, p) ==
  /\ p \in Pos(nbuckets) /\ p[1] = Probe(k, nbuckets, j)
  /\ Reaches(slots, nbuckets, k, j)

(* What the search for k has behind it then.                               *)
Passed(k, j, p) ==
  {q \in Pos(nbuckets) :
     \/ q[1] = p[1] /\ q[2] <= p[2]
     \/ \E i \in Steps(nbuckets) : i < j /\ Probe(k, nbuckets, i) = q[1]}

(* An entry follows, or every entry of the key has been passed.            *)
NoneMissed ==
  pc = "ready" =>
    \A k \in Keys, j \in Steps(nbuckets), p \in Pos(nbuckets) :
      SearchAt(k, j, p) =>
        \/ \E i \in Steps(nbuckets), q \in Pos(nbuckets) :
             FindsNext(slots, nbuckets, k, j, p, i, q)
        \/ KeyPos(slots, k) \subseteq Passed(k, j, p)

(* The entry that follows has not been passed.  The steps are those below  *)
(* the capacity, where find_next_ asserts that it stays.                   *)
NoneTwice ==
  pc = "ready" =>
    \A k \in Keys, j \in Steps(nbuckets), p \in Pos(nbuckets) :
      SearchAt(k, j, p) =>
        \A i \in Steps(nbuckets), q \in Pos(nbuckets) :
          FindsNext(slots, nbuckets, k, j, p, i, q) => q \notin Passed(k, j, p)

(* Iterating over the entries of a key with find_first and find_next meets *)
(* every one of them, and none again, wherever duplicates have ended up.   *)
IterationComplete == NoneMissed /\ NoneTwice

(* find_next_ asserts that its sequence stays below the capacity ("Table   *)
(* is full. Should not happen!").                                          *)
FindNextStaysInTable ==
  pc = "ready" /\ Duplicates /\ MaxProbes = 0 =>
    \A k \in Keys, j \in Steps(nbuckets), p \in Pos(nbuckets) :
      /\ p \in KeyPos(slots, k)
      /\ p[1] = Probe(k, nbuckets, j) /\ Reaches(slots, nbuckets, k, j)
      /\ LeavesBucket(slots, k, p)
      => \E i \in Steps(nbuckets) :
           i > j /\ Probe(k, nbuckets, i) \in FindStop(slots, k)

-----------------------------------------------------------------------------
(* The steps of an operation in progress: once called, it runs on.         *)
Internal ==
  RetryInsert \/ RehashEntry \/ FinishResize \/ ScrubEntry \/ NextPass
  \/ FinishScrub

FairSpec == Spec /\ WF_vars(Internal)

(* Every resize and every scrub ends: the passes of a scrub do not go on   *)
(* moving entries back and forth, and a resize is not started over for     *)
(* ever.                                                                   *)
OperationsEnd == []<>(pc = "ready")
===============================================================================
