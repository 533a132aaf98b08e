-------------------------------- MODULE Sharded --------------------------------
(***************************************************************************)
(* nvhm::sharded over nvhm::guarded (include/nvhashmap/sharded.hpp): a     *)
(* table split into shards, each with a mutex of its own.  A key belongs   *)
(* to one shard; what concerns the whole table is done one shard after the *)
(* other, under one lock at a time; an iterator keeps the lock of the      *)
(* shard it is in and takes that of the next one before it lets go.        *)
(*                                                                         *)
(* A call of a shard is one step, for Guarded shows that calls of one map  *)
(* do not disturb one another; only the lock that stays with a position or *)
(* an iterator outlives it.  A shard is an assignment of keys to positions *)
(* that writers may rearrange and resize.  A thread has one position or    *)
(* iterator at a time and drops it before its next call.                   *)
(***************************************************************************)
EXTENDS Integers, FiniteSets, FiniteSetsExt

CONSTANTS
  Threads,
  NumShards,
  Keys,
  ShardIdx,   \* hash_to_shard_idx of the hash of each key
  Contents,   \* what the shards may hold when the threads get the table
  Caps,       \* the capacities that a shard may have
  MaxCalls,   \* bound of the model: calls of each thread
  Ops,        \* bound of the model: the operations each thread calls
  Empty, None

ASSUME ShardedAssumption ==
  /\ NumShards \in Nat \ {0} /\ MaxCalls \in [Threads -> Nat]
  /\ Caps \subseteq Nat \ {0} /\ Caps # {}
  /\ ShardIdx \in [Keys -> Nat]
  /\ Empty \notin Keys /\ None \notin Threads /\ None \notin Keys

Shards == 0 .. NumShards - 1
Last == NumShards - 1

VARIABLES
  place,    \* the inner map of each shard: the key at each of its positions
  writer,   \* the mutex of each shard: the thread that owns it
  readers,  \* and the threads that share it
  pc,       \* where each thread is
  call,     \* the call or the loop it is in: operation, key, next shard, result
  iter,     \* its position or iterator: shard, place, lock
  seen,     \* history: the keys a walk met, met twice, and moved itself
  span,     \* history: the keys that were there all the time, or some time
  calls     \* calls so far

mutexes == <<writer, readers>>
vars == <<place, mutexes, pc, call, iter, seen, span, calls>>

KeyOps   == {"find", "update", "insert", "erase"}
WalkOps  == {"size", "is_empty", "find_if", "for_each", "update_if", "erase_if", "clear",
             "resize"}
LoopOps  == {"read_loop", "write_loop"}  \* from begin() to end()
ReadOps  == {"find", "size", "is_empty", "find_if", "for_each", "read_loop"}

ASSUME NoneAssumption ==
  None \notin {"shared", "exclusive"} \cup KeyOps \cup WalkOps \cup LoopOps

Mode(c) == IF c.op \in ReadOps THEN "shared" ELSE "exclusive"

NoCall == [op |-> None, key |-> None, shard |-> 0, result |-> 0]
NoIter == [shard |-> 0, at |-> 0, key |-> None, lock |-> None]
Unseen == [met |-> {}, twice |-> {}, moved |-> {}]
NoSpan == [due |-> {}, ever |-> {}]

-----------------------------------------------------------------------------
(* The shards.                                                             *)

capacity(f) == Cardinality(DOMAIN f)
Entries(f) == {p \in DOMAIN f : f[p] # Empty}
KeysIn(f) == {f[p] : p \in Entries(f)}
Present == UNION {KeysIn(place[s]) : s \in Shards}

(* begin() of the inner map, and operator++ and operator-- of its iterator:*)
(* the next entry, or the end or further; the one before, or -1.           *)
NextEntry(f, p) ==
  LET Q == {q \in Entries(f) : q > p}
  IN  IF Q = {} THEN Max({capacity(f), p + 1}) ELSE Min(Q)
PrevEntry(f, p) ==
  LET Q == {q \in Entries(f) : q < p}
  IN  IF p > capacity(f) THEN p - 1 ELSE IF Q = {} THEN -1 ELSE Max(Q)

(* Wrong: off by one.                                                      *)
is_right_early(f, p) == p + 1 >= capacity(f)

is_right(f, p) == p >= capacity(f)

(* The maps that hold K, each key once, with c positions.                  *)
Arrangements(K, c) ==
  {f \in [0 .. c - 1 -> K \cup {Empty}] :
     \A k \in K : Cardinality({p \in 0 .. c - 1 : f[p] = k}) = 1}
Rearranged(K) == UNION {Arrangements(K, c) : c \in Caps}

(* What an insertion of a new key leaves: a free position taken, or a      *)
(* growth; and what an erasure leaves: a position freed, or after that a   *)
(* scrub or a shrink.                                                      *)
Inserted(f, k) ==
  {[f EXCEPT ![p] = k] : p \in DOMAIN f \ Entries(f)}
  \cup {g \in Rearranged(KeysIn(f) \cup {k}) : capacity(g) > capacity(f)}
Freed(f, p) == [f EXCEPT ![p] = Empty]

Erased(f, p) == {Freed(f, p)} \cup
  {g \in Rearranged(KeysIn(f) \ {f[p]}) : capacity(g) <= capacity(f)}

(* The shard of a key, also that of its prefetch_hint and of positions     *)
(* that are found for it: align_pos with the mask of the shards.           *)
to_shard_idx(k) == ShardIdx[k] % NumShards

(* The table that the threads get holds each key once, in its shard.       *)
ASSUME ContentsAssumption ==
  Contents \subseteq
    {f \in [Shards -> UNION {[0 .. c - 1 -> Keys \cup {Empty}] : c \in Caps}] :
       \A s \in Shards :
         /\ \A k \in KeysIn(f[s]) : to_shard_idx(k) = s
         /\ \A p \in Entries(f[s]), q \in Entries(f[s]) : f[s][p] = f[s][q] => p = q}

-----------------------------------------------------------------------------
(* The mutex of a shard.                                                   *)

CanLock(s, mode) ==
  writer[s] = None /\ (mode = "exclusive" => readers[s] = {})

Locked(t, s, mode) ==
  /\ writer' = IF mode = "exclusive" THEN [writer EXCEPT ![s] = t] ELSE writer
  /\ readers' = IF mode = "shared" THEN [readers EXCEPT ![s] = @ \cup {t}] ELSE readers

Unlocked(t, s, mode) ==
  /\ writer' = IF mode = "exclusive" THEN [writer EXCEPT ![s] = None] ELSE writer
  /\ readers' = IF mode = "shared" THEN [readers EXCEPT ![s] = @ \ {t}] ELSE readers

-----------------------------------------------------------------------------
Goto(t, l) == pc' = [pc EXCEPT ![t] = l]
SetIter(t, it) == iter' = [iter EXCEPT ![t] = it]
Iterator(s, p, k, mode) == [shard |-> s, at |-> p, key |-> k, lock |-> mode]
At(f, p) == IF p \in Entries(f) THEN f[p] ELSE None
Visit(t, K) ==
  seen' = [seen EXCEPT ![t].met = @ \cup K, ![t].twice = @ \cup (seen[t].met \cap K)]

Call(t, o, k) ==
  /\ pc[t] = "idle" /\ calls[t] < MaxCalls[t] /\ o \in Ops[t]
  /\ o \in KeyOps \cup {"find_if", "update_if"} \/ k = None
  /\ k # None \/ o \notin KeyOps \cup {"find_if", "update_if"}
  /\ Goto(t, IF o \in KeyOps THEN "key" ELSE IF o \in WalkOps THEN "walk" ELSE "begin")
  /\ call' = [call EXCEPT ![t] = [NoCall EXCEPT !.op = o, !.key = k]]
  /\ calls' = [calls EXCEPT ![t] = @ + 1]
  /\ seen' = [seen EXCEPT ![t] = Unseen]
  /\ UNCHANGED <<place, mutexes, iter>>

(* The destructor of the position or iterator, if there is one.            *)
Drop(t) ==
  /\ pc[t] \in {"position", "ended", "drop"}
  /\ Unlocked(t, iter[t].shard, iter[t].lock)
  /\ Goto(t, "idle") /\ SetIter(t, NoIter)
  /\ call' = [call EXCEPT ![t] = NoCall]
  /\ seen' = [seen EXCEPT ![t] = Unseen]
  /\ UNCHANGED <<place, calls>>

-----------------------------------------------------------------------------
(* Calls with a key: to_shard(key), and the call of that shard.            *)

KeyCall(t, o) ==
  /\ pc[t] = "key" /\ call[t].op = o
  /\ CanLock(to_shard_idx(call[t].key), Mode(call[t]))
  /\ call' = [call EXCEPT ![t] = NoCall]
  /\ UNCHANGED <<seen, calls>>

(* find, find_first, find_all; update, update_first, update_all: the lock  *)
(* goes into the position, even if that is npos.                           *)
Find(t, o) ==
  LET k == call[t].key  s == to_shard_idx(k)
  IN  /\ KeyCall(t, o)
      /\ Locked(t, s, Mode(call[t]))
      /\ \/ \E p \in {q \in Entries(place[s]) : place[s][q] = k} :
              SetIter(t, Iterator(s, p, k, Mode(call[t])))
         \/ k \notin KeysIn(place[s]) /\ SetIter(t, Iterator(s, -1, None, Mode(call[t])))
      /\ Goto(t, "position")
      /\ UNCHANGED place

(* insert, insert_ex, operator[].                                          *)
Insert(t) ==
  LET k == call[t].key  s == to_shard_idx(k)
  IN  /\ KeyCall(t, "insert")
      /\ Locked(t, s, "exclusive")
      /\ \E f \in IF k \in KeysIn(place[s]) THEN {place[s]} ELSE Inserted(place[s], k) :
           /\ place' = [place EXCEPT ![s] = f]
           /\ \E p \in DOMAIN f : f[p] = k /\ SetIter(t, Iterator(s, p, k, "exclusive"))
      /\ Goto(t, "position")

(* erase, erase_first, erase_all.                                          *)
Erase(t) ==
  LET k == call[t].key  s == to_shard_idx(k)
  IN  /\ KeyCall(t, "erase")
      /\ \/ /\ k \notin KeysIn(place[s]) /\ UNCHANGED place
         \/ \E p \in Entries(place[s]) :
              place[s][p] = k /\ \E f \in Erased(place[s], p) : place' = [place EXCEPT ![s] = f]
      /\ Goto(t, "ended")
      /\ UNCHANGED <<mutexes, iter>>

(* erase_at, erase_next: the position keeps its lock.                      *)
EraseAt(t) ==
  LET s == iter[t].shard
  IN  /\ pc[t] = "position" /\ iter[t].lock = "exclusive" /\ iter[t].key # None
      /\ \E f \in Erased(place[s], iter[t].at) : place' = [place EXCEPT ![s] = f]
      /\ SetIter(t, [iter[t] EXCEPT !.key = None])
      /\ UNCHANGED <<mutexes, pc, call, seen, calls>>

(* downgrade of a write position.                                          *)
Downgrade(t) ==
  LET s == iter[t].shard
  IN  /\ pc[t] = "position" /\ iter[t].lock = "exclusive"
      /\ writer' = [writer EXCEPT ![s] = None]
      /\ readers' = [readers EXCEPT ![s] = @ \cup {t}]
      /\ SetIter(t, [iter[t] EXCEPT !.lock = "shared"])
      /\ UNCHANGED <<place, pc, call, seen, calls>>

(* to_iterator, to_citerator: the caller goes on from the position.        *)
ToIterator(t) ==
  /\ pc[t] = "position" /\ iter[t].key # None
  /\ Goto(t, "move")
  /\ UNCHANGED <<place, mutexes, call, iter, seen, calls>>

-----------------------------------------------------------------------------
(* Calls over all shards: one shard after the other, each under its lock.  *)

(* Wrong: the loop ends before the last shard.                             *)
NextShardShort(t) ==
  IF call[t].shard + 1 < Last THEN "walk" ELSE "ended"

NextShard(t) == IF call[t].shard < Last THEN "walk" ELSE "ended"

WalkCall(t, o) ==
  /\ pc[t] = "walk" /\ call[t].op = o
  /\ CanLock(call[t].shard, Mode(call[t]))
  /\ UNCHANGED calls

(* The call of this shard has returned, with n for the result.             *)
GoesOn(t, n) ==
  /\ Goto(t, NextShard(t))
  /\ call' = [call EXCEPT ![t].shard = @ + 1, ![t].result = @ + n]
  /\ UNCHANGED <<mutexes, iter>>

(* size; capacity, count_if and the numbers of slots are sums like it.     *)
AddSize(t) ==
  /\ WalkCall(t, "size")
  /\ GoesOn(t, Cardinality(Entries(place[call[t].shard])))
  /\ UNCHANGED <<place, seen>>

(* is_empty, is_full, check_integrity: the first shard that answers no     *)
(* ends the walk.                                                          *)
IsEmpty(t) ==
  /\ WalkCall(t, "is_empty")
  /\ \/ Entries(place[call[t].shard]) = {} /\ GoesOn(t, 0)
     \/ /\ Entries(place[call[t].shard]) # {}
        /\ Goto(t, "ended") /\ call' = [call EXCEPT ![t].result = 1]
        /\ UNCHANGED <<mutexes, iter>>
  /\ UNCHANGED <<place, seen>>

(* find_if, update_if: the position of a match keeps the lock of its shard.*)
FindIf(t, o) ==
  LET s == call[t].shard  k == call[t].key
  IN  /\ WalkCall(t, o)
      /\ \/ k \notin KeysIn(place[s]) /\ GoesOn(t, 0)
         \/ \E p \in Entries(place[s]) :
              /\ place[s][p] = k
              /\ Locked(t, s, Mode(call[t]))
              /\ SetIter(t, Iterator(s, p, k, Mode(call[t])))
              /\ Goto(t, "position")
              /\ call' = [call EXCEPT ![t] = NoCall]
      /\ UNCHANGED <<place, seen>>

(* for_each and its kind.                                                  *)
ForEach(t) ==
  /\ WalkCall(t, "for_each")
  /\ Visit(t, KeysIn(place[call[t].shard]))
  /\ GoesOn(t, 0)
  /\ UNCHANGED place

(* erase_if; clear; grow, reserve, resize, scrub and shrink, for each shard*)
(* with its part of the capacity.                                          *)
Change(t, o) ==
  LET s == call[t].shard  K == KeysIn(place[s])
  IN  /\ WalkCall(t, o)
      /\ \E E \in CASE o = "erase_if" -> SUBSET K [] o = "clear" -> {K} [] o = "resize" -> {{}} :
           \E f \in Rearranged(K \ E) : place' = [place EXCEPT ![s] = f]
      /\ GoesOn(t, 0)
      /\ UNCHANGED seen

-----------------------------------------------------------------------------
(* Iterators, and a loop like those of the tests, which compares with end()*)
(* in every turn.                                                          *)

(* begin(): the first shard that is not empty keeps its lock.  If all are  *)
(* empty, the iterator is the end of the last one, without a lock.         *)
Begin(t) ==
  LET s == call[t].shard  p == NextEntry(place[s], -1)
  IN  /\ pc[t] = "begin" /\ s <= Last /\ CanLock(s, Mode(call[t]))
      /\ \/ /\ is_right(place[s], p)
            /\ call' = [call EXCEPT ![t].shard = @ + 1]
            /\ UNCHANGED <<mutexes, iter, pc>>
         \/ /\ ~is_right(place[s], p)
            /\ Locked(t, s, Mode(call[t]))
            /\ SetIter(t, Iterator(s, p, place[s][p], Mode(call[t])))
            /\ Goto(t, "test")
            /\ UNCHANGED call
      /\ UNCHANGED <<place, seen, calls>>

BeginIsEnd(t) ==
  /\ pc[t] = "begin" /\ call[t].shard > Last
  /\ SetIter(t, Iterator(Last, capacity(place[Last]), None, None))
  /\ Goto(t, "test")
  /\ UNCHANGED <<place, mutexes, call, seen, calls>>

(* it != end(): the capacity of the last shard is read without its lock.   *)
(* An iterator that is not the end is used, which takes a lock.            *)
Test(t) ==
  LET it == iter[t]
  IN  /\ pc[t] = "test"
      /\ \/ /\ it.shard = Last /\ it.at = capacity(place[Last])
            /\ Goto(t, "ended") /\ UNCHANGED seen
         \/ /\ ~(it.shard = Last /\ it.at = capacity(place[Last])) /\ it.key # None
            /\ Visit(t, {it.key})
            /\ Goto(t, "move")
         \/ /\ ~(it.shard = Last /\ it.at = capacity(place[Last])) /\ it.key = None
            /\ Goto(t, "stray") /\ UNCHANGED seen
      /\ UNCHANGED <<place, mutexes, call, iter, calls>>

(* Where operator++ leaves an iterator: at an entry or at the end of the   *)
(* last shard, or on its way to the next shard.                            *)
Landed(t, s, p, mode) ==
  /\ SetIter(t, Iterator(s, p, At(place[s], p), mode))
  /\ Goto(t, IF is_right(place[s], p) /\ s < Last THEN "hop" ELSE "test")

Advance(t) ==
  LET it == iter[t]
  IN  /\ pc[t] = "move"
      /\ Landed(t, it.shard, NextEntry(place[it.shard], it.at), it.lock)
      /\ UNCHANGED <<place, mutexes, call, seen, calls>>

(* Wrong: shards_[shard_idx_++].                                           *)
ShardItself(s) == s

ShardAfter(s) == s + 1

(* begin() of the next shard is evaluated, and then assigned, which        *)
(* releases the lock of the shard before.                                  *)
LockNext(t) ==
  LET s == ShardAfter(iter[t].shard)
  IN  /\ pc[t] = "hop" /\ CanLock(s, iter[t].lock)
      /\ Locked(t, s, iter[t].lock)
      /\ Goto(t, "enter")
      /\ UNCHANGED <<place, call, iter, seen, calls>>

(* Wrong: the lock of the shard that is entered is released.               *)
LeftBehind(t) == ShardAfter(iter[t].shard)

Left(t) == iter[t].shard

Enter(t) ==
  LET s == ShardAfter(iter[t].shard)
  IN  /\ pc[t] = "enter"
      /\ Unlocked(t, Left(t), iter[t].lock)
      /\ Landed(t, s, NextEntry(place[s], -1), iter[t].lock)
      /\ UNCHANGED <<place, call, seen, calls>>

(* operator--: to the entry before in this shard, or to before the first   *)
(* shard; or to the end() of the shard before, which has no lock and must  *)
(* not be moved.  The caller looks at it and drops it.                     *)
Retreat(t) ==
  LET it == iter[t]  p == PrevEntry(place[it.shard], it.at)
  IN  /\ pc[t] = "move"
      /\ \/ /\ p >= 0 \/ it.shard = 0
            /\ SetIter(t, Iterator(it.shard, p, At(place[it.shard], p), it.lock))
            /\ Goto(t, "drop") /\ UNCHANGED mutexes
         \/ /\ p < 0 /\ it.shard > 0
            /\ Unlocked(t, it.shard, it.lock)
            /\ SetIter(t, Iterator(it.shard - 1, capacity(place[it.shard - 1]), None, None))
            /\ Goto(t, "stray")
      /\ UNCHANGED <<place, call, seen, calls>>

(* iterator::erase, before the iterator goes on: the slot is freed, or the *)
(* shard is scrubbed or shrunk under it.                                   *)
EraseIt(t) ==
  LET s == iter[t].shard
  IN  /\ pc[t] = "move" /\ iter[t].lock = "exclusive" /\ iter[t].key # None
      /\ \/ /\ place' = [place EXCEPT ![s] = Freed(@, iter[t].at)] /\ UNCHANGED seen
         \/ \E f \in Erased(place[s], iter[t].at) :
              /\ place' = [place EXCEPT ![s] = f]
              /\ seen' = [seen EXCEPT ![t].moved = @ \cup KeysIn(place[s])]
      /\ SetIter(t, [iter[t] EXCEPT !.key = None])
      /\ UNCHANGED <<mutexes, pc, call, calls>>

-----------------------------------------------------------------------------
Init ==
  /\ place \in Contents
  /\ writer = [s \in Shards |-> None]
  /\ readers = [s \in Shards |-> {}]
  /\ pc = [t \in Threads |-> "idle"]
  /\ call = [t \in Threads |-> NoCall]
  /\ iter = [t \in Threads |-> NoIter]
  /\ seen = [t \in Threads |-> Unseen]
  /\ span = [t \in Threads |-> NoSpan]
  /\ calls = [t \in Threads |-> 0]

(* What a thread does inside a call or a loop.                             *)
Inside(t) ==
  \/ Find(t, "find") \/ Find(t, "update") \/ Insert(t) \/ Erase(t)
  \/ AddSize(t) \/ IsEmpty(t) \/ FindIf(t, "find_if") \/ FindIf(t, "update_if")
  \/ ForEach(t) \/ Change(t, "erase_if") \/ Change(t, "clear") \/ Change(t, "resize")
  \/ Begin(t) \/ BeginIsEnd(t) \/ Test(t) \/ Advance(t) \/ LockNext(t) \/ Enter(t)

(* What its caller may do with a position or an iterator.                  *)
Caller(t) == EraseAt(t) \/ Downgrade(t) \/ ToIterator(t) \/ Retreat(t) \/ EraseIt(t)

(* What was there during the walk of a thread: all the time, some time.    *)
Spans ==
  span' = [t \in Threads |->
    IF call'[t].op \notin WalkOps \cup LoopOps THEN NoSpan
    ELSE IF pc[t] = "idle" THEN [due |-> Present', ever |-> Present']
    ELSE [due |-> span[t].due \cap Present', ever |-> span[t].ever \cup Present']]

(* An iterator that is used without a lock or behind the end fails an      *)
(* assertion, which ends the program.                                      *)
Aborted == \E t \in Threads : pc[t] = "stray"

Next ==
  /\ ~Aborted
  /\ \E t \in Threads :
       \/ \E o \in KeyOps \cup WalkOps \cup LoopOps, k \in Keys \cup {None} : Call(t, o, k)
       \/ Inside(t) \/ Caller(t) \/ Drop(t)
  /\ Spans

Spec == Init /\ [][Next]_vars

(* Threads inside a call go on, and callers drop what they have.           *)
FairSpec ==
  /\ Spec
  /\ \A t \in Threads : WF_vars(Inside(t) /\ Spans) /\ WF_vars(Drop(t) /\ Spans)

-----------------------------------------------------------------------------
(* The types of the state.                                                 *)
TypeOK ==
  /\ place \in [Shards -> UNION {[0 .. c - 1 -> Keys \cup {Empty}] : c \in Caps}]
  /\ writer \in [Shards -> Threads \cup {None}]
  /\ readers \in [Shards -> SUBSET Threads]
  /\ pc \in [Threads -> {"idle", "key", "walk", "begin", "position", "test", "move",
                          "hop", "enter", "drop", "ended", "stray"}]
  /\ call \in [Threads -> [op : KeyOps \cup WalkOps \cup LoopOps \cup {None},
                            key : Keys \cup {None}, shard : 0 .. NumShards, result : Nat]]
  /\ iter \in [Threads -> [shard : Shards, at : Int, key : Keys \cup {None},
                            lock : {"shared", "exclusive", None}]]
  /\ seen \in [Threads -> [met : SUBSET Keys, twice : SUBSET Keys, moved : SUBSET Keys]]
  /\ span \in [Threads -> [due : SUBSET Keys, ever : SUBSET Keys]]
  /\ calls \in [Threads -> Nat]

(* A thread has exactly the locks that it should: that of the shard its    *)
(* position or iterator is in, and between the two halves of a step from   *)
(* one shard to the next, also that of the next one.                       *)
LocksOf(t) ==
  {iter[t].shard} \cup (IF pc[t] = "enter" THEN {ShardAfter(iter[t].shard)} ELSE {})

LocksFollowIterators ==
  /\ TypeOK
  /\ \A t \in Threads, s \in Shards :
       /\ writer[s] = t <=> iter[t].lock = "exclusive" /\ s \in LocksOf(t)
       /\ t \in readers[s] <=> iter[t].lock = "shared" /\ s \in LocksOf(t)

(* What a position or an iterator was given for is still there, in the     *)
(* shard that it names, as long as it is kept.                             *)
PositionsValid ==
  \A t \in Threads : iter[t].key # None =>
    /\ iter[t].at \in Entries(place[iter[t].shard])
    /\ place[iter[t].shard][iter[t].at] = iter[t].key
    /\ to_shard_idx(iter[t].key) = iter[t].shard

(* A loop from begin() to end() meets every key that is in the table all   *)
(* the time, and none twice, whatever the other threads do to the shards   *)
(* that it is not in; but for the keys of a shard that it rearranged       *)
(* itself, by erasing through the iterator.                                *)
LoopsMeetAll ==
  \A t \in Threads : pc[t] = "ended" /\ call[t].op \in LoopOps =>
    /\ span[t].due \subseteq seen[t].met \cup seen[t].moved
    /\ seen[t].met \subseteq span[t].ever
    /\ seen[t].twice \subseteq seen[t].moved

(* Calls over all shards see each shard at a moment of its own.  Still,    *)
(* what they return is bounded by what was there all the time and what was *)
(* there some time: the sum of size, the answer of is_empty, a miss of     *)
(* find_if, the visits of for_each, and clear leaves nothing of the past.  *)
WalksConsistent ==
  \A t \in Threads : pc[t] = "ended" /\ call[t].op \in WalkOps =>
    LET due == span[t].due  ever == span[t].ever  c == call[t]
    IN  /\ c.op = "size" => c.result \in Cardinality(due) .. Cardinality(ever)
        /\ c.op = "is_empty" => IF c.result = 0 THEN due = {} ELSE ever # {}
        /\ c.op \in {"find_if", "update_if"} => c.key \notin due
        /\ c.op = "for_each" => /\ due \subseteq seen[t].met /\ seen[t].met \subseteq ever
                                /\ seen[t].twice = {}
        /\ c.op = "clear" => due = {}

(* Every call and every loop ends: iterators that hold a lock and wait for *)
(* the next all wait in the same direction.                                *)
CallsReturn == \A t \in Threads : pc[t] # "idle" ~> pc[t] = "idle" \/ Aborted

(* Iterators are only used with the lock of their shard, and within it:    *)
(* the assertion of guarded's operator++ and operator--.                   *)
IteratorsOwnLocks == ~Aborted
===============================================================================
