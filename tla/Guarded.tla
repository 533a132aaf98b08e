-------------------------------- MODULE Guarded --------------------------------
(***************************************************************************)
(* nvhm::guarded (include/nvhashmap/guarded.hpp): maps behind shared       *)
(* mutexes.  A call takes the mutex of its map, shared or exclusively, and *)
(* either releases it when it returns or moves the lock into the positions *)
(* it returns, so that what was found stays found until they are dropped.  *)
(*                                                                         *)
(* The mutex is the abstract one of RWLock (which SpinWaitMutex is shown   *)
(* to implement), with a count per thread: a thread may share it several   *)
(* times.  An inner map is an assignment of keys to positions; operations  *)
(* that write may move every entry, as a resize or a scrub does.  Values   *)
(* go with their keys and are left out.  A thread that has positions drops *)
(* them before it makes a call that would wait for them.                   *)
(***************************************************************************)
EXTENDS Integers, FiniteSets, FiniteSetsExt, Functions, SequencesExt

CONSTANTS
  Threads,
  Maps,
  Keys,
  NumPos,    \* positions of a map
  Contents,  \* what a map may hold when the threads get it
  MaxCalls,  \* bound of the model: calls of a thread that has no positions
  MaxNested, \* bound of the model: further calls of each thread that has
  Empty, None

ASSUME GuardedAssumption ==
  /\ NumPos \in Nat \ {0} /\ MaxCalls \in Nat /\ MaxNested \in [Threads -> Nat]
  /\ Contents \subseteq [1 .. NumPos -> Keys \cup {Empty}]
  /\ Empty \notin Keys /\ None \notin Threads /\ None \notin Keys

Pos  == 1 .. NumPos
npos == 0

(* A position: the map, the place, the key found there, and the lock that  *)
(* it owns.  update_all leaves the lock with its last position.            *)
Position == [map : Maps, at : 0 .. NumPos, key : Keys \cup {None},
             lock : {"shared", "exclusive", "deferred"}]

VARIABLES
  place,   \* inner_: the key at each position
  owner,   \* mutex_: the thread that owns it exclusively
  shares,  \* mutex_: how often each thread shares it
  pc,      \* where each thread is
  call,    \* the call it is in: operation, map, key, the other map
  cursor,  \* how far its walk over the map is
  held,    \* the positions and iterators that its caller has
  calls    \* calls so far

mutex == <<owner, shares>>
vars == <<place, mutex, pc, call, cursor, held, calls>>

ReadOps   == {"find", "find_all", "for_each", "begin"}
WriteOps  == {"update", "update_all", "for_each_write", "begin_write", "insert",
              "erase_first", "change"}
PairOps   == {"assign", "swap", "equal"}  \* of two maps
KeyOps    == {"find", "find_all", "update", "update_all", "insert", "erase_first"}

NoCall == [op |-> None, map |-> None, key |-> None, other |-> None]

-----------------------------------------------------------------------------
(* The inner map.                                                          *)

At(f, k) == {p \in Pos : f[p] = k}
Entries(f) == {p \in Pos : f[p] # Empty}

(* The first of P after p and the last of P before p, or npos.             *)
NextIn(P, p) == LET Q == {q \in P : q > p} IN IF Q = {} THEN npos ELSE Min(Q)
PrevIn(P, p) == LET Q == {q \in P : q < p} IN IF Q = {} THEN npos ELSE Max(Q)

KeyAt(f, p) == IF p = npos THEN None ELSE f[p]

(* The assignments that have the entries of f in any places.               *)
Rearranged(f) ==
  {[p \in Pos |-> f[pi[p]]] : pi \in {g \in [Pos -> Pos] : IsInjective(g)}}

(* f without the entries in P; what an erasure at p can leave, which may   *)
(* shrink or scrub the map.                                                *)
Without(f, P) == [p \in Pos |-> IF p \in P THEN Empty ELSE f[p]]
Erased(f, p) == IF p = npos THEN {f} ELSE Rearranged(Without(f, {p}))

-----------------------------------------------------------------------------
(* The mutex.                                                              *)

(* Wrong: readers give way to a writer that waits.                         *)
CanShareUnlessWanted(m) ==
  /\ owner[m] = None
  /\ \A t \in Threads :
       ~(pc[t] = "lock" /\ call[t].map = m /\ call[t].op \in WriteOps)

(* lock_shared gets in whenever no writer owns the mutex.                  *)
CanShare(m) == owner[m] = None

CanOwn(m) == owner[m] = None /\ \A t \in Threads : shares[m][t] = 0

CanLock(m, mode) == \/ mode = "shared" /\ CanShare(m)
                    \/ mode = "exclusive" /\ CanOwn(m)

(* The mutexes after t has locked or unlocked those that modes maps to a   *)
(* mode.                                                                   *)
Locked(t, modes) ==
  /\ owner' = [m \in Maps |-> IF m \in DOMAIN modes /\ modes[m] = "exclusive"
                              THEN t ELSE owner[m]]
  /\ shares' = [m \in Maps |-> IF m \in DOMAIN modes /\ modes[m] = "shared"
                               THEN [shares[m] EXCEPT ![t] = @ + 1] ELSE shares[m]]

Unlocked(t, modes) ==
  /\ owner' = [m \in Maps |-> IF m \in DOMAIN modes /\ modes[m] = "exclusive"
                              THEN None ELSE owner[m]]
  /\ shares' = [m \in Maps |-> IF m \in DOMAIN modes /\ modes[m] = "shared"
                               THEN [shares[m] EXCEPT ![t] = @ - 1] ELSE shares[m]]

(* Wrong: a downgrade that releases the mutex and locks it again if it is  *)
(* free (the other branch of downgrade in mutex.hpp, when it does not wait)*)
DowngradedByRelock(t, m) ==
  /\ owner' = [owner EXCEPT ![m] = None] /\ UNCHANGED shares

(* spin_wait_mutex::downgrade: nobody gets in between.                     *)
Downgraded(t, m) ==
  /\ owner' = [owner EXCEPT ![m] = None]
  /\ shares' = [shares EXCEPT ![m][t] = @ + 1]

-----------------------------------------------------------------------------
Goto(t, l) == pc' = [pc EXCEPT ![t] = l]
Hold(t, s) == held' = [held EXCEPT ![t] = s]

(* The maps of a call, and the locks it takes: lock_() const, lock_(), and *)
(* for two maps defer_lock_() of either kind.                              *)
MapsOf(c) == IF c.op \in PairOps THEN {c.map, c.other} ELSE {c.map}

Reads(c, m) ==
  c.op \in ReadOps \cup {"equal"} \/ (c.op = "assign" /\ m = c.other)

(* Wrong: an assignment only reads the other map, and so does a swap.      *)
ModesOfAssign(c) ==
  [m \in MapsOf(c) |-> IF Reads(c, m) \/ (c.op = "swap" /\ m = c.other)
                       THEN "shared" ELSE "exclusive"]

Modes(c) == [m \in MapsOf(c) |-> IF Reads(c, m) THEN "shared" ELSE "exclusive"]

Mode(c) == Modes(c)[c.map]

(* The lock of one map.                                                    *)
Only(m, mode) == [n \in {m} |-> mode]

(* A thread with positions may only share the same map once more.          *)
MayCall(t, o, m) ==
  \/ held[t] = <<>> /\ calls[t] < MaxCalls
  \/ /\ held[t] # <<>> /\ calls[t] < MaxCalls + MaxNested[t]
     /\ o \in ReadOps
     /\ \A i \in DOMAIN held[t] : held[t][i].map = m /\ held[t][i].lock = "shared"

(* Comparing, assigning or swapping a map with itself returns at once, so  *)
(* the two maps differ.                                                    *)
Call(t, o, m, k, n) ==
  /\ pc[t] = "idle" /\ MayCall(t, o, m)
  /\ k \in IF o \in KeyOps THEN Keys ELSE {None}
  /\ n \in IF o \in PairOps THEN Maps \ {m} ELSE {None}
  /\ Goto(t, "lock")
  /\ call' = [call EXCEPT ![t] = [op |-> o, map |-> m, key |-> k, other |-> n]]
  /\ calls' = [calls EXCEPT ![t] = @ + 1]
  /\ UNCHANGED <<place, mutex, cursor, held>>

Lock(t) ==
  /\ pc[t] = "lock" /\ call[t].op \notin PairOps
  /\ CanLock(call[t].map, Mode(call[t]))
  /\ Locked(t, Modes(call[t]))
  /\ Goto(t, "inner")
  /\ UNCHANGED <<place, call, cursor, held, calls>>

(* std::lock: one of the two is locked, the other one is tried, and if that*)
(* fails the first is unlocked.  pc tells which one is to be tried.        *)
Trying(t, m) ==
  /\ m \in MapsOf(call[t])
  /\ pc[t] = IF m = call[t].map THEN "try_this" ELSE "try_other"
OtherOf(c, m) == IF m = c.map THEN c.other ELSE c.map
One(c, m) == Only(m, Modes(c)[m])

LockOne(t, m) ==
  /\ pc[t] = "lock" /\ call[t].op \in PairOps /\ m \in DOMAIN Modes(call[t])
  /\ CanLock(m, Modes(call[t])[m])
  /\ Locked(t, One(call[t], m))
  /\ Goto(t, IF m = call[t].map THEN "try_other" ELSE "try_this")
  /\ UNCHANGED <<place, call, cursor, held, calls>>

TryOther(t, m) ==
  /\ Trying(t, m) /\ CanLock(m, Modes(call[t])[m])
  /\ Locked(t, One(call[t], m))
  /\ Goto(t, "inner")
  /\ UNCHANGED <<place, call, cursor, held, calls>>

BackOff(t, m) ==
  /\ Trying(t, m) /\ ~CanLock(m, Modes(call[t])[m])
  /\ Unlocked(t, One(call[t], OtherOf(call[t], m)))
  /\ Goto(t, "lock")
  /\ UNCHANGED <<place, call, cursor, held, calls>>

Return(t) ==
  /\ Goto(t, "idle")
  /\ call' = [call EXCEPT ![t] = NoCall]
  /\ cursor' = [cursor EXCEPT ![t] = npos]
  /\ UNCHANGED calls

PositionAt(t, p, k, mode) ==
  [map |-> call[t].map, at |-> p, key |-> k, lock |-> mode]

(* The call returns a position that the lock is moved into.                *)
ReturnPos(t, p, k) ==
  /\ Return(t)
  /\ Hold(t, Append(held[t], PositionAt(t, p, k, Mode(call[t]))))
  /\ UNCHANGED mutex

(* The call returns and its locks are released.                            *)
ReturnUnlocked(t) ==
  /\ Return(t)
  /\ Unlocked(t, Modes(call[t]))
  /\ UNCHANGED held

Inner(t, o) == pc[t] = "inner" /\ call[t].op = o

(* find, find_first, find_if; update, update_first, update_if.             *)
Find(t) ==
  LET m == call[t].map  p == NextIn(At(place[m], call[t].key), 0)
  IN  /\ Inner(t, "find") \/ Inner(t, "update")
      /\ ReturnPos(t, p, KeyAt(place[m], p))
      /\ UNCHANGED place

(* begin() const and begin(): the iterator is at the first entry or the end*)
Begin(t) ==
  LET m == call[t].map  p == NextIn(Entries(place[m]), 0)
  IN  /\ Inner(t, "begin") \/ Inner(t, "begin_write")
      /\ ReturnPos(t, p, KeyAt(place[m], p))
      /\ UNCHANGED place

(* insert, insert_ex: the entry that is there; or another place, perhaps   *)
(* after a growth; or in a cache that is full the place of another entry.  *)
Insert(t) ==
  LET m == call[t].map  k == call[t].key
  IN  /\ Inner(t, "insert")
      /\ \/ \E p \in At(place[m], k) : ReturnPos(t, p, k) /\ UNCHANGED place
         \/ \E f \in Rearranged(place[m]), p \in Pos :
              /\ f[p] = Empty \/ Entries(f) = Pos
              /\ place' = [place EXCEPT ![m] = [f EXCEPT ![p] = k]]
              /\ ReturnPos(t, p, k)

(* erase_first: the position is that of the place the entry was in.        *)
EraseFirst(t) ==
  LET m == call[t].map  p == NextIn(At(place[m], call[t].key), 0)
  IN  /\ Inner(t, "erase_first")
      /\ \E f \in Erased(place[m], p) : place' = [place EXCEPT ![m] = f]
      /\ ReturnPos(t, p, None)

(* erase, erase_if, erase_all, clear, grow, reserve, resize, scrub, shrink.*)
Change(t) ==
  LET m == call[t].map
  IN  /\ Inner(t, "change")
      /\ \E P \in SUBSET Entries(place[m]) :
           \E f \in Rearranged(Without(place[m], P)) :
             place' = [place EXCEPT ![m] = f]
      /\ ReturnUnlocked(t)

(* The operations of two maps: operator=, swap, operator==.                *)
Pair(t) ==
  LET c == call[t]
  IN  /\ pc[t] = "inner" /\ c.op \in PairOps
      /\ place' = CASE c.op = "assign" -> [place EXCEPT ![c.map] = place[c.other]]
                    [] c.op = "swap" -> [place EXCEPT ![c.map] = place[c.other],
                                                      ![c.other] = place[c.map]]
                    [] c.op = "equal" -> place
      /\ ReturnUnlocked(t)

-----------------------------------------------------------------------------
(* Walks call back to the caller, or take further locks, entry by entry.   *)

WalkOps == {"for_each", "for_each_write", "find_all", "update_all"}

Targets(c) == IF c.key = None THEN Entries(place[c.map]) ELSE At(place[c.map], c.key)

NextOfWalk(t) == NextIn(Targets(call[t]), cursor[t])

Walking(t, o) == pc[t] = "each" /\ call[t].op = o /\ NextOfWalk(t) # npos
WalkDone(t, o) == pc[t] = "each" /\ call[t].op = o /\ NextOfWalk(t) = npos

Visit(t) == cursor' = [cursor EXCEPT ![t] = NextOfWalk(t)]

Collect(t, mode) ==
  Hold(t, Append(held[t], PositionAt(t, NextOfWalk(t), call[t].key, mode)))

StartWalk(t) ==
  /\ pc[t] = "inner" /\ call[t].op \in WalkOps
  /\ Goto(t, "each")
  /\ UNCHANGED <<place, mutex, call, cursor, held, calls>>

(* for_each and its kind, of either lock: func gets a position without one.*)
ForEachVisits(t) ==
  /\ Walking(t, "for_each") \/ Walking(t, "for_each_write")
  /\ Visit(t)
  /\ UNCHANGED <<place, mutex, pc, call, held, calls>>

(* find_all: each position gets a lock of its own, while the call has one. *)
FindAllVisits(t) ==
  /\ Walking(t, "find_all") /\ CanShare(call[t].map)
  /\ Locked(t, Only(call[t].map, "shared"))
  /\ Visit(t) /\ Collect(t, "shared")
  /\ UNCHANGED <<place, pc, call, calls>>

(* update_all: the positions have none.                                    *)
UpdateAllVisits(t) ==
  /\ Walking(t, "update_all")
  /\ Visit(t) /\ Collect(t, "deferred")
  /\ UNCHANGED <<place, mutex, pc, call, calls>>

WalkEnds(t) ==
  /\ \E o \in WalkOps \ {"update_all"} : WalkDone(t, o)
  /\ ReturnUnlocked(t) /\ UNCHANGED place

(* Wrong: the lock is kept even if there is no position to keep it.        *)
UpdateAllKeepsLock(t) == TRUE

KeepsLock(t) == held[t] # <<>>

(* update_all: the lock is moved into the last position, if there is one.  *)
UpdateAllEnds(t) ==
  /\ WalkDone(t, "update_all")
  /\ Return(t) /\ UNCHANGED place
  /\ \/ /\ KeepsLock(t) /\ UNCHANGED mutex
        /\ Hold(t, [i \in DOMAIN held[t] |->
                     IF i = Len(held[t]) THEN [held[t][i] EXCEPT !.lock = "exclusive"]
                                         ELSE held[t][i]])
     \/ /\ ~KeepsLock(t) /\ Unlocked(t, Modes(call[t])) /\ UNCHANGED held

-----------------------------------------------------------------------------
(* What a caller does with the positions it has.                           *)

Has(t, i) == pc[t] = "idle" /\ i \in DOMAIN held[t]
HasAt(t, i, lock) == Has(t, i) /\ held[t][i].lock = lock /\ held[t][i].at # npos

Move(t, i, p) ==
  Hold(t, [held[t] EXCEPT ![i].at = p, ![i].key = KeyAt(place[held[t][i].map], p)])

(* find_next of a read position, update_next of a write position.          *)
FindNext(t, i) ==
  LET x == held[t][i]
  IN  /\ HasAt(t, i, "shared") \/ HasAt(t, i, "exclusive")
      /\ x.key # None
      /\ Move(t, i, NextIn(At(place[x.map], x.key), x.at))
      /\ UNCHANGED <<place, mutex, pc, call, cursor, calls>>

(* to_iterator, and operator++ and operator-- of the iterator.             *)
MoveIterator(t, i) ==
  LET x == held[t][i]  E == Entries(place[x.map])
  IN  /\ HasAt(t, i, "shared") \/ HasAt(t, i, "exclusive")
      /\ Move(t, i, NextIn(E, x.at)) \/ Move(t, i, PrevIn(E, x.at))
      /\ UNCHANGED <<place, mutex, pc, call, cursor, calls>>

(* downgrade of a write position, by itself or on the way to find_next and *)
(* to_iterator.                                                            *)
Downgrade(t, i) ==
  /\ Has(t, i) /\ held[t][i].lock = "exclusive" /\ Len(held[t]) = 1
  /\ Downgraded(t, held[t][i].map)
  /\ Hold(t, [held[t] EXCEPT ![i].lock = "shared"])
  /\ UNCHANGED <<place, pc, call, cursor, calls>>

(* erase_at and erase_next, which invalidate all other positions.          *)
EraseThrough(t, i, k) ==
  LET x == held[t][i]
  IN  /\ HasAt(t, i, "exclusive") /\ Len(held[t]) = 1
      /\ \E p \in {x.at, NextIn(At(place[x.map], k), x.at)} :
           \E f \in Erased(place[x.map], p) :
             /\ place' = [place EXCEPT ![x.map] = f]
             /\ Hold(t, [held[t] EXCEPT ![i].at = p, ![i].key = None])
      /\ UNCHANGED <<mutex, pc, call, cursor, calls>>

(* The destructor of a position or an iterator.                            *)
Drop(t, i) ==
  /\ Has(t, i)
  /\ Unlocked(t, Only(held[t][i].map, held[t][i].lock))
  /\ Hold(t, RemoveAt(held[t], i))
  /\ UNCHANGED <<place, pc, call, cursor, calls>>

-----------------------------------------------------------------------------
(* The maps have been filled before they are shared.                       *)
Init ==
  /\ place \in [Maps -> Contents]
  /\ owner = [m \in Maps |-> None]
  /\ shares = [m \in Maps |-> [t \in Threads |-> 0]]
  /\ pc = [t \in Threads |-> "idle"]
  /\ call = [t \in Threads |-> NoCall]
  /\ cursor = [t \in Threads |-> npos]
  /\ held = [t \in Threads |-> <<>>]
  /\ calls = [t \in Threads |-> 0]

(* What a thread does inside a call once it has its locks.                 *)
Inside(t) ==
  \/ Find(t) \/ Begin(t) \/ Insert(t) \/ EraseFirst(t) \/ Change(t) \/ Pair(t)
  \/ StartWalk(t) \/ ForEachVisits(t) \/ FindAllVisits(t) \/ UpdateAllVisits(t)
  \/ WalkEnds(t) \/ UpdateAllEnds(t)

Locking(t) == Lock(t) \/ \E m \in Maps : LockOne(t, m) \/ BackOff(t, m)

Next ==
  \E t \in Threads :
    \/ \E o \in ReadOps \cup WriteOps \cup PairOps, m \in Maps,
          k \in Keys \cup {None}, n \in Maps \cup {None} : Call(t, o, m, k, n)
    \/ Locking(t)
    \/ \E m \in Maps : TryOther(t, m)
    \/ Inside(t)
    \/ \E i \in DOMAIN held[t] :
         \/ FindNext(t, i) \/ MoveIterator(t, i) \/ Downgrade(t, i) \/ Drop(t, i)
         \/ \E k \in Keys : EraseThrough(t, i, k)

Spec == Init /\ [][Next]_vars

(* Threads inside a call go on; a caller drops its positions in the end; a *)
(* try of std::lock that could succeed again and again does.               *)
FairSpec ==
  /\ Spec
  /\ \A t \in Threads :
       /\ WF_vars(Locking(t)) /\ WF_vars(Inside(t))
       /\ SF_vars(\E m \in Maps : TryOther(t, m))
       /\ WF_vars(\E i \in DOMAIN held[t] : Drop(t, i))

-----------------------------------------------------------------------------
(* The types of the state; above all, nobody releases a lock that he does  *)
(* not have.                                                               *)
TypeOK ==
  /\ place \in [Maps -> [Pos -> Keys \cup {Empty}]]
  /\ owner \in [Maps -> Threads \cup {None}]
  /\ shares \in [Maps -> [Threads -> Nat]]
  /\ pc \in [Threads -> {"idle", "lock", "try_this", "try_other", "inner", "each"}]
  /\ call \in [Threads -> [op : ReadOps \cup WriteOps \cup PairOps \cup {None},
                            map : Maps \cup {None}, key : Keys \cup {None},
                            other : Maps \cup {None}]]
  /\ cursor \in [Threads -> 0 .. NumPos]
  /\ held \in [Threads -> Seq(Position)]
  /\ calls \in [Threads -> Nat]

(* What a position or an iterator was given for is still there when it is  *)
(* used: as long as it has its lock, or its caller has the lock that       *)
(* update_all left with the last one, no call of another thread erases,    *)
(* replaces or moves the entry.                                            *)
PositionsValid ==
  \A t \in Threads : \A i \in DOMAIN held[t] :
    LET x == held[t][i]
    IN  /\ x.lock # "deferred" \/ owner[x.map] = t
        /\ x.key # None
        => place[x.map][x.at] = x.key

(* The locks that the call of t has at this point.                         *)
LocksOfCall(t) ==
  CASE pc[t] \in {"inner", "each"} -> Modes(call[t])
    [] pc[t] = "try_other" -> One(call[t], call[t].map)
    [] pc[t] = "try_this" -> One(call[t], call[t].other)
    [] pc[t] \in {"idle", "lock"} -> <<>>

NumLocks(t, m, mode) ==
  Cardinality({i \in DOMAIN held[t] : held[t][i].map = m /\ held[t][i].lock = mode})
  + (IF m \in DOMAIN LocksOfCall(t) /\ LocksOfCall(t)[m] = mode THEN 1 ELSE 0)

(* Every lock of a mutex belongs to a call that goes on or to a position   *)
(* that a caller has, and to one of them: the moves of locks into          *)
(* positions neither leave a mutex locked for good nor release it twice.   *)
LocksAccountedFor ==
  /\ TypeOK
  /\ \A t \in Threads, m \in Maps :
       /\ shares[m][t] = NumLocks(t, m, "shared")
       /\ NumLocks(t, m, "exclusive") = IF owner[m] = t THEN 1 ELSE 0

(* While a call is inside the map, or walks over it with its callbacks,    *)
(* nobody else changes the map: one that writes does so in the step it     *)
(* returns with, and for_each, find_all and update_all meet what was there *)
(* when they began, each once.                                             *)
CallsUndisturbed ==
  [][\A t \in Threads : \A m \in MapsOf(call[t]) :
       \/ pc[t] = "each"
       \/ pc[t] = "inner" /\ pc'[t] # "idle"
       => place'[m] = place[m]]_vars

(* Every call returns: not even find_all, which shares a mutex again that  *)
(* it shares already, or two threads that lock the same two maps in        *)
(* opposite orders, wait for one another.                                  *)
CallsReturn == \A t \in Threads : pc[t] # "idle" ~> pc[t] = "idle"
===============================================================================
