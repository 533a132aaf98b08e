--------------------------------- MODULE Cache ---------------------------------
(***************************************************************************)
(* nvhm::cache (include/nvhashmap/cache.hpp): a set-associative cache.  A  *)
(* key has one bucket of KernelSize slots.  Every slot has a count of type *)
(* lru_t, which a hit increments; when the count of the slot that is hit   *)
(* is at its maximum, all counts of the bucket are halved first.  An       *)
(* insertion into a full bucket replaces the entry with the lowest count.  *)
(*                                                                         *)
(* The cache is a sequential object, except that find_first_ is const and  *)
(* writes the counts: readers that share a lock on the cache can do so at  *)
(* the same time.  resize_ takes one step per entry of the old table.      *)
(***************************************************************************)
EXTENDS Integers, FiniteSets

CONSTANTS
  Keys, Values,
  KernelSize,     \* slots per bucket
  Hash,           \* hash_to_pos, in buckets, of each key
  MaxLru,         \* max_lru: 2^w - 1
  Duplicates,     \* flags_t::duplicates
  MinCapacity, InitCapacity,  \* conf
  MaxBuckets,     \* bound of the model: no table grows beyond it
  Empty

Entry   == Keys \X Values
Lanes   == 0 .. KernelSize - 1
Pos(n)  == (0 .. n - 1) \X Lanes
Slot    == Entry \cup {Empty}
Lru     == 0 .. MaxLru

ASSUME CacheAssumption ==
  /\ KernelSize \in Nat \ {0} /\ MaxBuckets \in Nat \ {0}
  /\ Hash \in [Keys -> Nat]
  /\ MaxLru \in Nat \ {0}
  /\ Duplicates \in BOOLEAN
  /\ MinCapacity \in Nat /\ InitCapacity \in Nat
  /\ InitCapacity \div KernelSize \in 1 .. MaxBuckets
  /\ Empty \notin Entry

VARIABLES
  nbuckets,   \* bucket_mask_
  slots,      \* the states of states_and_lrus_, keys_ and values_
  lrus,       \* the counts of states_and_lrus_
  num_empty,  \* num_empty_
  pc,         \* "ready" between operations
  old,        \* resize_: the table being moved from
  old_lrus,   \* resize_: its counts
  todo,       \* resize_: the positions still to be visited
  num_insert  \* resize_: slots taken so far

table == <<nbuckets, slots, lrus, num_empty>>
rehash == <<old, old_lrus, todo, num_insert>>
vars == <<table, pc, rehash>>

-----------------------------------------------------------------------------
IsHash(x) == x # Empty

HashPos(s)   == {p \in DOMAIN s : IsHash(s[p])}
EmptyPos(s)  == {p \in DOMAIN s : s[p] = Empty}
KeyPos(s, k) == {p \in DOMAIN s : IsHash(s[p]) /\ s[p][1] = k}

(* The slots of bucket b that are in P.                                    *)
In(P, b) == {p \in P : p[1] = b}

Before(p, q) == p[1] < q[1] \/ (p[1] = q[1] /\ p[2] < q[2])

(* mask_type::next                                                         *)
LowestIn(P, b, p) == p \in In(P, b) /\ \A q \in In(P, b) : p[2] <= q[2]

(* Wrong: the bucket is chosen by bits that the size of the table shifts.  *)
HomeByHighBits(k, n) == (Hash[k] \div n) % n

(* align_pos(seq.next(), bucket_mask): the bucket of k.                    *)
Home(k, n) == Hash[k] % n

(* kernel_type::min_lru: the lowest slot of bucket b with the lowest count *)
Coldest(l, b, p) ==
  /\ p[1] = b
  /\ \A q \in In(DOMAIN l, b) : l[p] <= l[q]
  /\ \A q \in In(DOMAIN l, b) : l[q] = l[p] => p[2] <= q[2]

default_lru == MaxLru \div 2

(* Wrong: the counts are not halved, and the count wraps around.           *)
update_lru_wraps(l, p) == [l EXCEPT ![p] = (@ + 1) % (MaxLru + 1)]

(* kernel_type::update_lru: the slot p is hit.                             *)
update_lru(l, p) ==
  LET scale == IF l[p] >= MaxLru THEN 2 ELSE 1
  IN  [q \in DOMAIN l |->
         IF q[1] = p[1] THEN (l[q] \div scale) + (IF q = p THEN 1 ELSE 0)
         ELSE l[q]]

-----------------------------------------------------------------------------
capacity == nbuckets * KernelSize

Larger(a, b) == IF a >= b THEN a ELSE b

PowersOfTwo == {2 ^ i : i \in 0 .. 24}

bit_ceil(x) == CHOOSE c \in PowersOfTwo :
                 c >= x /\ \A d \in PowersOfTwo : d >= x => c <= d

Ready == pc = "ready"

NoTable == [p \in {} |-> Empty]

(* alloc_ and reset_                                                       *)
Allocate(n) ==
  /\ n \in 1 .. MaxBuckets
  /\ nbuckets' = n
  /\ slots' = [p \in Pos(n) |-> Empty]
  /\ lrus' = [p \in Pos(n) |-> MaxLru]
  /\ num_empty' = n * KernelSize

(* The operation returns.                                                  *)
Return(s, l, ne) ==
  /\ slots' = s /\ lrus' = l /\ num_empty' = ne
  /\ UNCHANGED <<nbuckets, pc, rehash>>

-----------------------------------------------------------------------------
(* find_first_, find_next_ and find_if_ hit the slot they return.  The     *)
(* for_each_ of a key hits its entries one after the other.                *)

FindFirst(k) ==
  /\ Ready
  /\ \E p \in Pos(nbuckets) :
       /\ LowestIn(KeyPos(slots, k), Home(k, nbuckets), p)
       /\ Return(slots, update_lru(lrus, p), num_empty)

FindNext(k, p) ==
  /\ Ready
  /\ Duplicates
  /\ p \in Pos(nbuckets) /\ p[1] = Home(k, nbuckets)
  /\ \E q \in Pos(nbuckets) :
       /\ LowestIn({r \in KeyPos(slots, k) : r[2] > p[2]}, p[1], q)
       /\ Return(slots, update_lru(lrus, q), num_empty)

FindIf(p) ==
  /\ Ready
  /\ p \in HashPos(slots)
  /\ Return(slots, update_lru(lrus, p), num_empty)

(* update: find_first_, then the caller writes the value.                  *)
Update(k, v) ==
  /\ Ready
  /\ \E p \in Pos(nbuckets) :
       /\ LowestIn(KeyPos(slots, k), Home(k, nbuckets), p)
       /\ Return([slots EXCEPT ![p] = <<k, v>>], update_lru(lrus, p),
                 num_empty)

(* Two readers look up p and q at the same time: both load the counts of   *)
(* the bucket, both store what they make of them, and a count may end up   *)
(* as either of them stored it.                                            *)
OverlappingFinds(p, q) ==
  /\ Ready
  /\ p \in HashPos(slots) /\ q \in HashPos(slots)
  /\ p[1] = q[1] /\ p # q
  /\ \E from_p \in SUBSET In(Pos(nbuckets), p[1]) :
       Return(slots,
              [r \in Pos(nbuckets) |-> IF r \in from_p THEN update_lru(lrus, p)[r]
                                       ELSE update_lru(lrus, q)[r]],
              num_empty)

-----------------------------------------------------------------------------
(* insert_                                                                 *)

(* The key is there: a hit, and the caller overwrites the value.           *)
InsertFinds(k, p) ==
  /\ ~Duplicates
  /\ LowestIn(KeyPos(slots, k), Home(k, nbuckets), p)

(* Wrong: a slot is taken without a search for the key.                    *)
InsertMissesAlways(k) == TRUE

InsertMisses(k) ==
  Duplicates \/ In(KeyPos(slots, k), Home(k, nbuckets)) = {}

InsertTakes(k, p) ==
  /\ InsertMisses(k)
  /\ LowestIn(EmptyPos(slots), Home(k, nbuckets), p)

InsertReplaces(k, p) ==
  /\ InsertMisses(k)
  /\ In(EmptyPos(slots), Home(k, nbuckets)) = {}
  /\ Coldest(lrus, Home(k, nbuckets), p)

Insert(k, v) ==
  /\ Ready
  /\ \E p \in Pos(nbuckets) :
       LET s == [slots EXCEPT ![p] = <<k, v>>]
           l == [lrus EXCEPT ![p] = default_lru]
       IN  \/ InsertFinds(k, p) /\ Return(s, update_lru(lrus, p), num_empty)
           \/ InsertTakes(k, p) /\ Return(s, l, num_empty - 1)
           \/ InsertReplaces(k, p) /\ Return(s, l, num_empty)

-----------------------------------------------------------------------------
(* erase_first_, erase_next_, erase_at_, erase_if_, erase_all_, scrub_: an *)
(* erased slot keeps its count.                                            *)

EraseSlots(P) ==
  /\ slots' = [p \in Pos(nbuckets) |-> IF p \in P THEN Empty ELSE slots[p]]
  /\ num_empty' = num_empty + Cardinality(P)
  /\ UNCHANGED <<nbuckets, lrus, pc, rehash>>

EraseFirst(k) ==
  /\ Ready
  /\ \E p \in Pos(nbuckets) :
       LowestIn(KeyPos(slots, k), Home(k, nbuckets), p) /\ EraseSlots({p})

EraseNext(k, p) ==
  /\ Ready
  /\ Duplicates
  /\ p \in Pos(nbuckets) /\ p[1] = Home(k, nbuckets)
  /\ \E q \in Pos(nbuckets) :
       /\ LowestIn({r \in KeyPos(slots, k) : r[2] > p[2]}, p[1], q)
       /\ EraseSlots({q})

EraseAt(p) == Ready /\ p \in HashPos(slots) /\ EraseSlots({p})

EraseIf(P) == Ready /\ P # {} /\ P \subseteq HashPos(slots) /\ EraseSlots(P)

EraseAll(k) ==
  LET P == In(KeyPos(slots, k), Home(k, nbuckets))
  IN  Ready /\ Duplicates /\ P # {} /\ EraseSlots(P)

(* Wrong: slots that are empty already are counted again.                  *)
BelowOrEmpty(t) == {p \in Pos(nbuckets) : lrus[p] < t}

(* The entries that to_empty_if_lru_below empties.                         *)
Below(t) == {p \in HashPos(slots) : lrus[p] < t}

Scrub(t) == Ready /\ t < MaxLru /\ EraseSlots(Below(t))

-----------------------------------------------------------------------------
(* resize_                                                                 *)

StartResize(end) ==
  \/ end = capacity /\ UNCHANGED vars
  \/ /\ end # capacity
     /\ Allocate(end \div KernelSize)
     /\ old' = slots /\ old_lrus' = lrus
     /\ todo' = HashPos(slots) /\ num_insert' = 0
     /\ pc' = "resize"

(* Wrong: an entry is put aside if some entry of the bucket is hotter.     *)
PutAsideIfAnyHotter(p, q) ==
  \E r \in In(Pos(nbuckets), q[1]) : old_lrus[p] < lrus[r]

(* The bucket is full and its coldest entry, at q, is hotter than p.       *)
PutAside(p, q) == old_lrus[p] < lrus[q]

Rehash(p, q, taken) ==
  /\ slots' = [slots EXCEPT ![q] = old[p]]
  /\ lrus' = [lrus EXCEPT ![q] = old_lrus[p]]
  /\ num_insert' = num_insert + taken

RehashEntry ==
  /\ pc = "resize"
  /\ \E p \in todo, q \in Pos(nbuckets) :
       LET b == Home(old[p][1], nbuckets)
       IN  /\ \A r \in todo : r = p \/ Before(p, r)
           /\ todo' = todo \ {p}
           /\ \/ LowestIn(EmptyPos(slots), b, q) /\ Rehash(p, q, 1)
              \/ /\ In(EmptyPos(slots), b) = {}
                 /\ Coldest(lrus, b, q)
                 /\ \/ PutAside(p, q) /\ UNCHANGED <<slots, lrus, num_insert>>
                    \/ ~PutAside(p, q) /\ Rehash(p, q, 0)
  /\ UNCHANGED <<nbuckets, num_empty, pc, old, old_lrus>>

FinishResize ==
  /\ pc = "resize"
  /\ todo = {}
  /\ num_empty' = num_empty - num_insert
  /\ pc' = "ready"
  /\ old' = NoTable /\ old_lrus' = NoTable /\ num_insert' = 0
  /\ UNCHANGED <<nbuckets, slots, lrus, todo>>

Resize(n)  == Ready /\ StartResize(Larger(bit_ceil(n), MinCapacity))
Reserve(n) == /\ Ready
              /\ n > capacity
              /\ StartResize(Larger(bit_ceil(n), MinCapacity))
Grow       == Ready /\ StartResize(2 * capacity)
Shrink     == Ready /\ StartResize(Larger(capacity \div 2, MinCapacity))

ClearTo(n) == Ready /\ Allocate(n \div KernelSize) /\ UNCHANGED <<pc, rehash>>

ClearCapacity(n) == ClearTo(bit_ceil(Larger(n, MinCapacity)))
Clear == ClearTo(capacity)

-----------------------------------------------------------------------------
Init ==
  /\ nbuckets = InitCapacity \div KernelSize
  /\ slots = [p \in Pos(nbuckets) |-> Empty]
  /\ lrus = [p \in Pos(nbuckets) |-> MaxLru]
  /\ num_empty = nbuckets * KernelSize
  /\ pc = "ready"
  /\ old = NoTable /\ old_lrus = NoTable /\ todo = {} /\ num_insert = 0

Requests == 1 .. MaxBuckets * KernelSize

Next ==
  \/ \E k \in Keys : FindFirst(k) \/ EraseFirst(k) \/ EraseAll(k)
  \/ \E k \in Keys, v \in Values : Insert(k, v) \/ Update(k, v)
  \/ \E k \in Keys, p \in Pos(nbuckets) : FindNext(k, p) \/ EraseNext(k, p)
  \/ \E p \in Pos(nbuckets) : FindIf(p) \/ EraseAt(p)
  \/ \E p, q \in Pos(nbuckets) : OverlappingFinds(p, q)
  \/ \E P \in SUBSET HashPos(slots) : EraseIf(P)
  \/ \E t \in Lru : Scrub(t)
  \/ \E n \in Requests : Resize(n) \/ Reserve(n) \/ ClearCapacity(n)
  \/ Grow \/ Shrink \/ Clear
  \/ RehashEntry \/ FinishResize

Spec == Init /\ [][Next]_vars

-----------------------------------------------------------------------------
TypeOK ==
  /\ nbuckets \in 1 .. MaxBuckets
  /\ slots \in [Pos(nbuckets) -> Slot]
  /\ lrus \in [Pos(nbuckets) -> Lru]
  /\ num_empty \in Int
  /\ pc \in {"ready", "resize"}
  /\ \E n \in 0 .. MaxBuckets :
       old \in [Pos(n) -> Slot] /\ (pc = "resize" => old_lrus \in [Pos(n) -> Lru])
  /\ todo \subseteq IF pc = "resize" THEN HashPos(old) ELSE {}
  /\ num_insert \in Int

(* num_empty_ is the number of empty slots (check_integrity_), although    *)
(* replacements, erasures, scrubs and resizes each count in a way of their *)
(* own.  Stated with the types of the state.                               *)
NumEmptyExact ==
  /\ TypeOK
  /\ num_empty = Cardinality(EmptyPos(slots))
                 + (IF pc = "resize" THEN num_insert ELSE 0)

(* Every entry is in the bucket of its key, the only one that a look-up    *)
(* searches, and unless duplicates are allowed it is the only one of its   *)
(* key, whatever insertions, evictions and resizes came before.            *)
EntriesAtHome ==
  /\ \A p \in HashPos(slots) : p[1] = Home(slots[p][1], nbuckets)
  /\ ~Duplicates =>
       \A p, q \in HashPos(slots) : slots[p][1] = slots[q][1] => p = q

(* What a resize drops is colder than what it keeps: an entry that it has  *)
(* visited is in the new table with its count, or the bucket is full of    *)
(* entries whose counts are at least as high.                              *)
HottestKept ==
  pc = "resize" =>
    \A p \in HashPos(old) \ todo :
      LET bucket == In(Pos(nbuckets), Home(old[p][1], nbuckets))
      IN  \/ \E q \in bucket : slots[q] = old[p] /\ lrus[q] = old_lrus[p]
          \/ \A q \in bucket : IsHash(slots[q]) /\ lrus[q] >= old_lrus[p]

(* A resize to a larger capacity drops nothing: all entries of a bucket of *)
(* the new table come from one bucket of the old one.                      *)
GrowthKeepsEntries ==
  pc = "resize" /\ Cardinality(DOMAIN old) < capacity =>
    \A p \in HashPos(old) \ todo : \E q \in HashPos(slots) : slots[q] = old[p]

(* One look-up: the slot that it hits rises above those that were level    *)
(* with it, and no two others of the bucket change places.                 *)
HitRanks(p) ==
  \A q, r \in In(DOMAIN lrus, p[1]) \ {p} :
    /\ lrus[q] <= lrus[p] => lrus'[q] < lrus'[p]
    /\ lrus[q] <= lrus[r] => lrus'[q] <= lrus'[r]

(* Two look-ups at the same time: either hit may be lost, and counts that  *)
(* only one of the two has halved may stand beside those that it has not.  *)
(* But no count wraps or is halved twice, none rises that was not hit, and *)
(* none falls unless a slot that was hit was at MaxLru.                   *)
RacingHits(p, q) ==
  \A r \in DOMAIN lrus :
    /\ lrus[r] \div 2 <= lrus'[r]
    /\ lrus'[r] <= lrus[r] + (IF r \in {p, q} THEN 1 ELSE 0)
    /\ lrus[p] < MaxLru /\ lrus[q] < MaxLru => lrus[r] <= lrus'[r]

(* A hit counts, also when it makes the counts of the bucket halve, and    *)
(* two look-ups that overwrite each other's counts spoil them no further   *)
(* than RacingHits says.  A step of FindFirst or FindNext is one of FindIf *)
(* for the slot that it returns.                                           *)
HitsRank ==
  [][/\ \A p \in DOMAIN lrus : FindIf(p) => HitRanks(p)
     /\ \A p, q \in DOMAIN lrus :
          OverlappingFinds(p, q) => RacingHits(p, q)]_vars

(* A resize moves every entry once.                                        *)
ResizeUnique ==
  ~Duplicates /\ pc = "resize" =>
    /\ \A p, q \in HashPos(old) : old[p][1] = old[q][1] => p = q
    /\ \A p \in todo, q \in HashPos(slots) : old[p][1] # slots[q][1]

(* The inductive invariant.                                                *)
IInv == TypeOK /\ EntriesAtHome /\ ResizeUnique /\ HottestKept

content ==
  [e \in Entry |-> Cardinality({p \in DOMAIN slots : slots[p] = e})
                   + Cardinality({p \in todo : old[p] = e})]

L == INSTANCE LossyDictionary WITH busy <- pc # "ready"

(* The cache implements the lossy dictionary: an insertion displaces at    *)
(* most one entry, and a resize drops entries but changes none and brings  *)
(* none back.                                                              *)
ImplementsLossyDictionary == L!Spec
===============================================================================
