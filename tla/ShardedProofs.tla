----------------------------- MODULE ShardedProofs -----------------------------
(***************************************************************************)
(* Proofs about Sharded, for any number of threads, shards, keys,          *)
(* capacities and calls: locks follow iterators, positions stay valid,     *)
(* loops meet what was there all the time, and what calls over all shards  *)
(* return is bounded by what was there.                                    *)
(***************************************************************************)
EXTENDS Sharded, TLAPS, FiniteSetTheorems

-----------------------------------------------------------------------------
(* The inner maps.                                                         *)

IsMap(f) == \E c \in Caps : f \in [0 .. c - 1 -> Keys \cup {Empty}]

(* A map has its capacity and finitely many keys.                          *)
LEMMA MapType ==
  ASSUME NEW f, IsMap(f)
  PROVE  /\ capacity(f) \in Nat \ {0} /\ capacity(f) \in Caps
         /\ f \in [0 .. capacity(f) - 1 -> Keys \cup {Empty}]
         /\ DOMAIN f = 0 .. capacity(f) - 1
         /\ Entries(f) \subseteq 0 .. capacity(f) - 1 /\ IsFiniteSet(Entries(f))
         /\ KeysIn(f) \subseteq Keys
<1>1. PICK c \in Caps : f \in [0 .. c - 1 -> Keys \cup {Empty}]
  BY DEF IsMap
<1>2. c \in Nat \ {0} /\ DOMAIN f = 0 .. c - 1
  BY <1>1, ShardedAssumption
<1>3. capacity(f) = c
  BY <1>2, FS_Interval DEF capacity
<1>4. IsFiniteSet(0 .. c - 1)
  BY <1>2, FS_Interval
<1>5. Entries(f) \subseteq 0 .. c - 1 /\ IsFiniteSet(Entries(f))
  BY <1>2, <1>4, FS_Subset DEF Entries
<1>6. KeysIn(f) \subseteq Keys
  BY <1>1, <1>2 DEF KeysIn, Entries
<1> QED
  BY <1>1, <1>2, <1>3, <1>5, <1>6

(* A set of positions that is not empty has a first one and a last one.    *)
LEMMA MinMax ==
  ASSUME NEW n \in Nat, NEW Q \in SUBSET (0 .. n - 1), Q # {}
  PROVE  Min(Q) \in Q /\ (\A q \in Q : Min(Q) <= q) /\ Max(Q) \in Q
<1> DEFINE P == 0 .. n - 1
           R == StrictSubsetOrdering(P)
<1>1. IsFiniteSet(P)
  BY FS_Interval
<1>2. IsWellFoundedOn(R, SUBSET P)
  <2>1. FiniteSubsetsOf(P) = SUBSET P
    BY <1>1, FS_FiniteSubsetsOfFinite
  <2> QED  BY <2>1, FS_StrictSubsetOrderingWellFounded
<1>3. \E x \in Q : \A y \in Q : x <= y
  <2> DEFINE T == {0 .. q : q \in Q}
  <2>1. T \subseteq SUBSET P /\ T # {}
    <3>1. \A q \in Q : (0 .. q) \subseteq P
      OBVIOUS
    <3> QED  BY <3>1, Zenon
  <2>2. PICK X \in T : \A Y \in T : ~ (<<Y, X>> \in R)
    BY <1>2, <2>1, WFMin
  <2>3. PICK x \in Q : X = 0 .. x
    OBVIOUS
  <2>4. ASSUME NEW y \in Q, y < x PROVE FALSE
    <3>1. 0 .. y \subseteq 0 .. x /\ x \in 0 .. x /\ x \notin 0 .. y
      BY <2>4
    <3>2. (0 .. y) \in T /\ X \in T
      BY <2>2, Zenon
    <3>3. (0 .. y) \in SUBSET P /\ X \in SUBSET P
      BY <2>1, <3>2
    <3>4. <<0 .. y, X>> \in R
      BY <2>3, <3>1, <3>3 DEF StrictSubsetOrdering
    <3> QED  BY <2>2, <3>2, <3>4
  <2> QED  BY <2>4
<1>4. \E x \in Q : \A y \in Q : x >= y
  <2> DEFINE T == {q .. n : q \in Q}
  <2>1. IsWellFoundedOn(StrictSubsetOrdering(0 .. n), SUBSET (0 .. n))
    <3>1. IsFiniteSet(0 .. n)
      BY FS_Interval
    <3>2. FiniteSubsetsOf(0 .. n) = SUBSET (0 .. n)
      BY <3>1, FS_FiniteSubsetsOfFinite
    <3> QED  BY <3>2, FS_StrictSubsetOrderingWellFounded
  <2>2. T \subseteq SUBSET (0 .. n) /\ T # {}
    <3>1. \A q \in Q : (q .. n) \subseteq 0 .. n
      OBVIOUS
    <3> QED  BY <3>1, Zenon
  <2>3. PICK X \in T : \A Y \in T : ~ (<<Y, X>> \in StrictSubsetOrdering(0 .. n))
    BY <2>1, <2>2, WFMin
  <2>4. PICK x \in Q : X = x .. n
    OBVIOUS
  <2>5. ASSUME NEW y \in Q, y > x PROVE FALSE
    <3>1. y .. n \subseteq x .. n /\ x \in x .. n /\ x \notin y .. n
      BY <2>5
    <3>2. (y .. n) \in T /\ X \in T
      BY <2>3, Zenon
    <3>3. (y .. n) \in SUBSET (0 .. n) /\ X \in SUBSET (0 .. n)
      BY <2>2, <3>2
    <3>4. <<y .. n, X>> \in StrictSubsetOrdering(0 .. n)
      BY <2>4, <3>1, <3>3 DEF StrictSubsetOrdering
    <3> QED  BY <2>3, <3>2, <3>4
  <2> QED  BY <2>5
<1> QED
  BY <1>3, <1>4 DEF Min, Max

(* Where operator++ goes: to the next entry, or behind the map when there  *)
(* is none; and where operator-- goes.                                     *)
LEMMA NextEntryType ==
  ASSUME NEW f, IsMap(f), NEW p \in Int
  PROVE  /\ NextEntry(f, p) \in Int /\ PrevEntry(f, p) \in Int
         /\ \A q \in Entries(f) : q \in Int /\ (q > p <=> q >= NextEntry(f, p))
         /\ ~is_right(f, NextEntry(f, p)) => NextEntry(f, p) \in Entries(f)
         /\ is_right(f, NextEntry(f, p)) => \A q \in Entries(f) : q < NextEntry(f, p)
<1> DEFINE c == capacity(f)
           Q == {q \in Entries(f) : q > p}
           L == {q \in Entries(f) : q < p}
           n == NextEntry(f, p)
<1>1. c \in Nat \ {0} /\ Entries(f) \subseteq 0 .. c - 1
  BY MapType
<1>2. L # {} => Max(L) \in L
  BY <1>1, MinMax
<1>3. PrevEntry(f, p) \in Int
  BY <1>1, <1>2 DEF PrevEntry
<1>4. CASE Q = {}
  <2>1. Max({c, p + 1}) \in {c, p + 1} /\ Max({c, p + 1}) >= c /\ Max({c, p + 1}) >= p + 1
    <3>1. \E x \in {c, p + 1} : \A y \in {c, p + 1} : x >= y
      BY <1>1
    <3> QED  BY <3>1 DEF Max
  <2>2. n = Max({c, p + 1})
    BY <1>4 DEF NextEntry
  <2>3. n \in Int /\ n >= c /\ n >= p + 1
    BY <1>1, <2>1, <2>2
  <2>4. \A q \in Entries(f) : q \in Int /\ ~(q > p) /\ q < n
    BY <1>1, <1>4, <2>3
  <2> HIDE DEF n
  <2>5. is_right(f, n)
    BY <2>3 DEF is_right
  <2> QED  BY <1>3, <2>3, <2>4, <2>5 DEF n
<1>5. CASE Q # {}
  <2>1. Min(Q) \in Q /\ \A q \in Q : Min(Q) <= q
    BY <1>1, <1>5, MinMax
  <2>2. n = Min(Q)
    BY <1>5 DEF NextEntry
  <2>3. n \in Entries(f) /\ n > p /\ n \in 0 .. c - 1
    BY <1>1, <2>1, <2>2
  <2>4. \A q \in Entries(f) : q \in Int /\ (q > p <=> q >= n)
    BY <1>1, <2>1, <2>2, <2>3
  <2> HIDE DEF n
  <2>5. ~is_right(f, n)
    BY <1>1, <2>3 DEF is_right
  <2> QED  BY <1>3, <2>3, <2>4, <2>5 DEF n
<1> QED
  BY <1>4, <1>5


(* No key is at two positions.                                             *)
Once(f) == \A p \in Entries(f), q \in Entries(f) : f[p] = f[q] => p = q

(* A rearrangement is a map with the keys it was made for, each once.      *)
LEMMA RearrangedMap ==
  ASSUME NEW K \in SUBSET Keys, NEW f \in Rearranged(K)
  PROVE  IsMap(f) /\ KeysIn(f) = K /\ Once(f)
<1>1. PICK c \in Caps : f \in Arrangements(K, c)
  BY DEF Rearranged
<1>2. /\ c \in Nat \ {0} /\ f \in [0 .. c - 1 -> K \cup {Empty}] /\ DOMAIN f = 0 .. c - 1
      /\ \A k \in K : Cardinality({p \in 0 .. c - 1 : f[p] = k}) = 1
  BY <1>1, ShardedAssumption DEF Arrangements
<1>3. IsMap(f)
  BY <1>2 DEF IsMap
<1>4. IsFiniteSet(0 .. c - 1)
  BY <1>2, FS_Interval
<1>5. ASSUME NEW k \in K
      PROVE  \E x : {p \in 0 .. c - 1 : f[p] = k} = {x}
  <2> DEFINE S == {p \in 0 .. c - 1 : f[p] = k}
  <2>1. IsFiniteSet(S)
    BY <1>4, FS_Subset
  <2>2. Cardinality(S) = 1
    BY <1>2
  <2> HIDE DEF S
  <2>3. \E x : S = {x}
    BY <2>1, <2>2, FS_Singleton
  <2> QED  BY <2>3 DEF S
<1>6. Entries(f) = {p \in 0 .. c - 1 : f[p] \in K}
  BY <1>2, ShardedAssumption DEF Entries
<1>7. KeysIn(f) = K
  BY <1>5, <1>6 DEF KeysIn
<1>8. ASSUME NEW p \in Entries(f), NEW q \in Entries(f), f[p] = f[q]
      PROVE  p = q
  <2>1. p \in 0 .. c - 1 /\ q \in 0 .. c - 1 /\ f[p] \in K
    BY <1>6
  <2>2. PICK x : {r \in 0 .. c - 1 : f[r] = f[p]} = {x}
    BY <1>5, <2>1
  <2>3. p \in {r \in 0 .. c - 1 : f[r] = f[p]} /\ q \in {r \in 0 .. c - 1 : f[r] = f[p]}
    BY <1>8, <2>1
  <2> QED  BY <2>2, <2>3
<1> QED
  BY <1>3, <1>7, <1>8 DEF Once

(* An insertion adds the new key.                                          *)
LEMMA InsertedMap ==
  ASSUME NEW f, IsMap(f), Once(f), NEW k \in Keys, k \notin KeysIn(f), NEW g \in Inserted(f, k)
  PROVE  IsMap(g) /\ KeysIn(g) = KeysIn(f) \cup {k} /\ Once(g)
<1>0. /\ capacity(f) \in Caps /\ f \in [0 .. capacity(f) - 1 -> Keys \cup {Empty}]
      /\ KeysIn(f) \subseteq Keys
  BY MapType
<1>1. ASSUME NEW p \in DOMAIN f \ Entries(f), g = [f EXCEPT ![p] = k]
      PROVE  IsMap(g) /\ KeysIn(g) = KeysIn(f) \cup {k} /\ Once(g)
  <2>1. IsMap(g)
    BY <1>0, <1>1 DEF IsMap
  <2>2. /\ DOMAIN g = DOMAIN f /\ g[p] = k /\ p \in DOMAIN f /\ f[p] = Empty /\ k # Empty
        /\ \A q \in DOMAIN f : q # p => g[q] = f[q]
    BY <1>0, <1>1, ShardedAssumption DEF Entries
  <2>3. Entries(g) = Entries(f) \cup {p} /\ p \notin Entries(f)
    BY <2>2 DEF Entries
  <2>4. \A q \in Entries(f) : g[q] = f[q] /\ f[q] # k
    BY <2>2, <2>3 DEF Entries, KeysIn
  <2>5. KeysIn(g) = KeysIn(f) \cup {k}
    BY <2>2, <2>3, <2>4 DEF KeysIn
  <2>6. Once(g)
    BY <2>2, <2>3, <2>4 DEF Once
  <2> QED  BY <2>1, <2>5, <2>6
<1>2. CASE g \in Rearranged(KeysIn(f) \cup {k})
  BY <1>0, <1>2, RearrangedMap
<1> QED
  BY <1>1, <1>2 DEF Inserted

(* A position that is freed takes its key with it.                         *)
LEMMA FreedMap ==
  ASSUME NEW f, IsMap(f), Once(f), NEW p \in Entries(f)
  PROVE  /\ IsMap(Freed(f, p)) /\ Once(Freed(f, p))
         /\ KeysIn(Freed(f, p)) = KeysIn(f) \ {f[p]}
         /\ Entries(Freed(f, p)) = Entries(f) \ {p}
         /\ \A q \in Entries(f) \ {p} : Freed(f, p)[q] = f[q]
<1> DEFINE g == Freed(f, p)
<1>0. capacity(f) \in Caps /\ f \in [0 .. capacity(f) - 1 -> Keys \cup {Empty}]
  BY MapType
<1>1. g = [f EXCEPT ![p] = Empty]
  BY DEF Freed
<1>2. IsMap(g)
  BY <1>0, <1>1 DEF IsMap
<1>3. /\ DOMAIN g = DOMAIN f /\ p \in DOMAIN f /\ g[p] = Empty
      /\ \A q \in DOMAIN f : q # p => g[q] = f[q]
  BY <1>0, <1>1 DEF Entries
<1> HIDE DEF g
<1>4. Entries(g) = Entries(f) \ {p}
  BY <1>3 DEF Entries
<1>5. \A q \in Entries(f) \ {p} : g[q] = f[q] /\ f[q] # f[p]
  BY <1>3 DEF Entries, Once
<1>6. KeysIn(g) = KeysIn(f) \ {f[p]}
  BY <1>4, <1>5 DEF KeysIn
<1>7. Once(g)
  BY <1>4, <1>5 DEF Once
<1> QED
  BY <1>2, <1>4, <1>5, <1>6, <1>7 DEF g

(* An erasure takes its key out, whatever happens to the other ones.       *)
LEMMA ErasedMap ==
  ASSUME NEW f, IsMap(f), Once(f), NEW p \in Entries(f), NEW g \in Erased(f, p)
  PROVE  IsMap(g) /\ KeysIn(g) = KeysIn(f) \ {f[p]} /\ Once(g)
<1>1. CASE g = Freed(f, p)
  BY <1>1, FreedMap
<1>2. CASE g \in Rearranged(KeysIn(f) \ {f[p]})
  BY <1>2, MapType, RearrangedMap
<1> QED
  BY <1>1, <1>2 DEF Erased

(* As many entries as keys.                                                *)
LEMMA NumKeys ==
  ASSUME NEW f, IsMap(f), Once(f)
  PROVE  /\ IsFiniteSet(KeysIn(f))
         /\ Cardinality(Entries(f)) = Cardinality(KeysIn(f))
<1> DEFINE g == [p \in Entries(f) |-> f[p]]
<1>1. g \in Surjection(Entries(f), KeysIn(f))
  BY DEF Surjection, KeysIn
<1>2. g \in Injection(Entries(f), KeysIn(f))
  BY DEF Injection, IsInjective, KeysIn, Once
<1> QED
  BY <1>1, <1>2, MapType, FS_Surjection

(* A table has finitely many keys.                                         *)
InTable(P) == UNION {KeysIn(P[s]) : s \in Shards}

LEMMA TableKeys ==
  ASSUME NEW P \in [Shards -> UNION {[0 .. c - 1 -> Keys \cup {Empty}] : c \in Caps}]
  PROVE  InTable(P) \subseteq Keys /\ IsFiniteSet(InTable(P)) /\ \A s \in Shards : IsMap(P[s])
<1>1. \A s \in Shards : IsMap(P[s])
  BY DEF IsMap
<1>2. ASSUME NEW s \in Shards
      PROVE  IsFiniteSet(KeysIn(P[s])) /\ KeysIn(P[s]) \subseteq Keys
  <2> DEFINE g == [p \in Entries(P[s]) |-> P[s][p]]
  <2>1. g \in Surjection(Entries(P[s]), KeysIn(P[s]))
    BY DEF Surjection, KeysIn
  <2> QED  BY <1>1, <2>1, MapType, FS_Surjection
<1>3. IsFiniteSet(Shards)
  BY FS_Interval, ShardedAssumption DEF Shards
<1> DEFINE h == [s \in Shards |-> KeysIn(P[s])]
           T == {KeysIn(P[s]) : s \in Shards}
<1>4. h \in Surjection(Shards, T)
  BY DEF Surjection
<1>5. IsFiniteSet(T)
  BY <1>3, <1>4, FS_Surjection
<1>6. IsFiniteSet(UNION T)
  <2>1. \A U \in T : IsFiniteSet(U)
    BY <1>2
  <2> HIDE DEF T
  <2> QED  BY <1>5, <2>1, FS_UNION
<1> QED
  BY <1>1, <1>2, <1>6 DEF InTable

-----------------------------------------------------------------------------
(* The invariant.                                                          *)

Labels == {"idle", "key", "walk", "begin", "position", "test", "move",
           "hop", "enter", "drop", "ended", "stray"}
CallType == [op : KeyOps \cup WalkOps \cup LoopOps \cup {None},
             key : Keys \cup {None}, shard : 0 .. NumShards, result : Nat]
IterType == [shard : Shards, at : Int, key : Keys \cup {None},
             lock : {"shared", "exclusive", None}]
SeenType == [met : SUBSET Keys, twice : SUBSET Keys, moved : SUBSET Keys]
Tables == [Shards -> UNION {[0 .. c - 1 -> Keys \cup {Empty}] : c \in Caps}]

(* The call that a thread is in, and the position or iterator that it has, *)
(* at each place.                                                          *)
CallOK(l, c) ==
  /\ l = "idle" => c = NoCall
  /\ l = "key" => c.op \in KeyOps /\ c.key \in Keys
  /\ l = "walk" => c.op \in WalkOps /\ c.shard <= Last
  /\ l = "begin" => c.op \in LoopOps
  /\ l = "position" => c.op = None
  /\ l \in {"test", "move", "hop", "enter", "drop"} => c.op \in LoopOps \cup {None}
  /\ c.op \in {"find_if", "update_if"} => c.key \in Keys

IterOK(l, it) ==
  /\ l \in {"idle", "key", "walk", "begin"} => it = NoIter
  /\ l \in {"position", "move", "hop", "enter", "drop"} => it.lock # None
  /\ l \in {"hop", "enter"} => it.shard < Last
  /\ it.key # None => it.lock # None

ShapeOK == \A t \in Threads : CallOK(pc[t], call[t]) /\ IterOK(pc[t], iter[t])

(* The locks of a mutex are those of the positions and iterators.          *)
LocksIn(l, it) == {it.shard} \cup (IF l = "enter" THEN {ShardAfter(it.shard)} ELSE {})

Has(l, it, s, mode) == it.lock = mode /\ s \in LocksIn(l, it)

LockOK ==
  \A s \in Shards :
    /\ writer[s] # None => readers[s] = {}
    /\ \A t \in Threads :
         /\ writer[s] = t <=> Has(pc[t], iter[t], s, "exclusive")
         /\ t \in readers[s] <=> Has(pc[t], iter[t], s, "shared")

(* Each key is in its shard, once.                                         *)
KeysOK(f, s) == (\A k \in KeysIn(f) : to_shard_idx(k) = s) /\ Once(f)

PlaceOK == \A s \in Shards : KeysOK(place[s], s)

ValidAt(P, it) == it.key # None =>
  /\ it.at \in Entries(P[it.shard])
  /\ P[it.shard][it.at] = it.key
  /\ to_shard_idx(it.key) = it.shard

Core == TypeOK /\ ShapeOK /\ LockOK /\ PlaceOK /\ PositionsValid

-----------------------------------------------------------------------------
(* Steps.                                                                  *)

(* The others stay as they are, and t goes to l with this call, iterator   *)
(* and history.                                                            *)
Others(t) ==
  \A u \in Threads \ {t} :
    pc'[u] = pc[u] /\ call'[u] = call[u] /\ iter'[u] = iter[u] /\ seen'[u] = seen[u]

Effect(t, l, c, it, sn) ==
  /\ pc' \in [Threads -> Labels] /\ call' \in [Threads -> CallType]
  /\ iter' \in [Threads -> IterType] /\ seen' \in [Threads -> SeenType]
  /\ calls' \in [Threads -> Nat]
  /\ pc'[t] = l /\ call'[t] = c /\ iter'[t] = it /\ seen'[t] = sn
  /\ Others(t)

MutexOK ==
  /\ writer \in [Shards -> Threads \cup {None}]
  /\ readers \in [Shards -> SUBSET Threads]
  /\ LockOK

(* Shards that change are well formed, and nobody else has their locks.    *)
Written(t) ==
  /\ place' \in Tables
  /\ \A s \in Shards :
       \/ place'[s] = place[s]
       \/ KeysOK(place'[s], s) /\ writer[s] \in {None, t} /\ readers[s] = {}

(* The parts of the type invariant.                                        *)
LEMMA Types ==
  TypeOK <=>
    /\ place \in Tables
    /\ writer \in [Shards -> Threads \cup {None}] /\ readers \in [Shards -> SUBSET Threads]
    /\ pc \in [Threads -> Labels] /\ call \in [Threads -> CallType]
    /\ iter \in [Threads -> IterType] /\ seen \in [Threads -> SeenType]
    /\ span \in [Threads -> [due : SUBSET Keys, ever : SUBSET Keys]]
    /\ calls \in [Threads -> Nat]
BY DEF TypeOK, Tables, Labels, CallType, IterType, SeenType

(* Where a shard is locked, its thread is.                                 *)
LEMMA OtherPlace ==
  ASSUME Core, NEW t \in Threads, Written(t), NEW u \in Threads \ {t}, iter[u].lock # None
  PROVE  place'[iter[u].shard] = place[iter[u].shard]
<1>1. iter[u] \in IterType
  BY Types DEF Core
<1>2. iter[u].shard \in Shards /\ iter[u].lock \in {"shared", "exclusive"}
  BY <1>1 DEF IterType
<1>3. \/ Has(pc[u], iter[u], iter[u].shard, "exclusive")
      \/ Has(pc[u], iter[u], iter[u].shard, "shared")
  BY <1>2 DEF Has, LocksIn
<1>4. writer[iter[u].shard] = u \/ u \in readers[iter[u].shard]
  BY <1>2, <1>3 DEF Core, LockOK
<1>5. u # None
  BY ShardedAssumption
<1> QED
  BY <1>2, <1>4, <1>5 DEF Written

(* What is left to show of a step, but for the history.                    *)
LEMMA CoreStep ==
  ASSUME Core, NEW t \in Threads, Spans, NEW l, NEW c, NEW it, NEW sn,
         Effect(t, l, c, it, sn), CallOK(l, c), IterOK(l, it), MutexOK', Written(t),
         ValidAt(place', it)
  PROVE  Core'
<1>1. TypeOK'
  <2>1. span' \in [Threads -> [due : SUBSET Keys, ever : SUBSET Keys]]
    <3>1. Present' \subseteq Keys
      <4>1. InTable(place') \subseteq Keys
        BY TableKeys DEF Written, Tables
      <4> QED  BY <4>1 DEF Present, InTable
    <3>2. span \in [Threads -> [due : SUBSET Keys, ever : SUBSET Keys]]
      BY Types DEF Core
    <3> QED  BY <3>1, <3>2 DEF Spans, NoSpan
  <2> QED
    BY <2>1 DEF Effect, MutexOK, Written, TypeOK, Tables, Labels, CallType, IterType, SeenType
<1>2. ShapeOK'
  <2>1. ASSUME NEW u \in Threads PROVE CallOK(pc[u], call[u])' /\ IterOK(pc[u], iter[u])'
    <3>1. CASE u = t
      <4>1. pc'[u] = l /\ call'[u] = c /\ iter'[u] = it
        BY <3>1 DEF Effect
      <4> QED  BY <4>1
    <3>2. CASE u # t
      <4>1. pc'[u] = pc[u] /\ call'[u] = call[u] /\ iter'[u] = iter[u]
        BY <3>2 DEF Effect, Others
      <4>2. CallOK(pc[u], call[u]) /\ IterOK(pc[u], iter[u])
        BY DEF Core, ShapeOK
      <4> QED  BY <4>1, <4>2
    <3> QED  BY <3>1, <3>2
  <2> QED  BY <2>1 DEF ShapeOK
<1>3. PlaceOK'
  <2>1. ASSUME NEW s \in Shards PROVE KeysOK(place'[s], s)
    <3>1. KeysOK(place[s], s)
      BY DEF Core, PlaceOK
    <3> QED  BY <3>1 DEF Written
  <2> QED  BY <2>1 DEF PlaceOK
<1>4. PositionsValid'
  <2>1. ASSUME NEW u \in Threads PROVE ValidAt(place', iter'[u])
    <3>1. CASE u = t
      <4>1. iter'[u] = it
        BY <3>1 DEF Effect
      <4> QED  BY <4>1
    <3>2. CASE u # t
      <4>1. iter'[u] = iter[u]
        BY <3>2 DEF Effect, Others
      <4>2. ValidAt(place, iter[u]) /\ IterOK(pc[u], iter[u])
        BY DEF Core, ShapeOK, PositionsValid, ValidAt
      <4>3. iter[u].lock # None => place'[iter[u].shard] = place[iter[u].shard]
        BY <3>2, OtherPlace
      <4> QED  BY <4>1, <4>2, <4>3 DEF ValidAt, IterOK
    <3> QED  BY <3>1, <3>2
  <2> QED  BY <2>1 DEF PositionsValid, ValidAt
<1> QED
  BY <1>1, <1>2, <1>3, <1>4 DEF Core, MutexOK

-----------------------------------------------------------------------------
(* Steps of the mutexes.                                                   *)

(* The locks that t has after a step; the others have what they had.       *)
LEMMA LocksAfter ==
  ASSUME NEW t \in Threads, NEW l, NEW c, NEW it, NEW sn, Effect(t, l, c, it, sn),
         NEW u \in Threads, NEW s, NEW mode
  PROVE  Has(pc'[u], iter'[u], s, mode) <=>
           IF u = t THEN Has(l, it, s, mode) ELSE Has(pc[u], iter[u], s, mode)
BY DEF Effect, Others

(* No lock is taken or released.                                           *)
LEMMA KeepLocks ==
  ASSUME Core, NEW t \in Threads, NEW l, NEW c, NEW it, NEW sn, Effect(t, l, c, it, sn),
         UNCHANGED mutexes,
         \A s \in Shards, mode \in {"shared", "exclusive"} :
           Has(l, it, s, mode) <=> Has(pc[t], iter[t], s, mode)
  PROVE  MutexOK'
<1>1. ASSUME NEW s \in Shards, NEW u \in Threads, NEW mode \in {"shared", "exclusive"}
      PROVE  Has(pc'[u], iter'[u], s, mode) <=> Has(pc[u], iter[u], s, mode)
  BY LocksAfter
<1>2. LockOK'
  BY <1>1 DEF Core, LockOK, mutexes
<1> QED
  BY <1>2, Types DEF Core, MutexOK, mutexes

(* A lock is taken.                                                        *)
LEMMA TakeLock ==
  ASSUME Core, NEW t \in Threads, NEW l, NEW c, NEW it, NEW sn, Effect(t, l, c, it, sn),
         NEW s \in Shards, NEW mode \in {"shared", "exclusive"},
         CanLock(s, mode), Locked(t, s, mode),
         \A r \in Shards, m \in {"shared", "exclusive"} :
           Has(l, it, r, m) <=> Has(pc[t], iter[t], r, m) \/ (r = s /\ m = mode)
  PROVE  MutexOK'
<1>1. /\ writer \in [Shards -> Threads \cup {None}] /\ readers \in [Shards -> SUBSET Threads]
      /\ t # None /\ LockOK
  BY Types, ShardedAssumption DEF Core
<1>2. /\ writer' \in [Shards -> Threads \cup {None}] /\ readers' \in [Shards -> SUBSET Threads]
      /\ \A r \in Shards : r # s => writer'[r] = writer[r] /\ readers'[r] = readers[r]
      /\ writer'[s] = IF mode = "exclusive" THEN t ELSE writer[s]
      /\ readers'[s] = IF mode = "shared" THEN readers[s] \cup {t} ELSE readers[s]
  BY <1>1 DEF Locked
<1>3. writer[s] = None /\ (mode = "exclusive" => readers[s] = {})
  BY DEF CanLock
<1>4. ASSUME NEW r \in Shards, NEW u \in Threads
      PROVE  /\ writer'[r] = u <=> Has(pc'[u], iter'[u], r, "exclusive")
             /\ u \in readers'[r] <=> Has(pc'[u], iter'[u], r, "shared")
  <2>1. /\ writer[r] = u <=> Has(pc[u], iter[u], r, "exclusive")
        /\ u \in readers[r] <=> Has(pc[u], iter[u], r, "shared")
    BY <1>1 DEF LockOK
  <2>2. ASSUME NEW m \in {"shared", "exclusive"}
        PROVE  Has(pc'[u], iter'[u], r, m)
                 <=> Has(pc[u], iter[u], r, m) \/ (u = t /\ r = s /\ m = mode)
    BY LocksAfter
  <2>3. /\ writer'[r] = u <=> writer[r] = u \/ (u = t /\ r = s /\ mode = "exclusive")
        /\ u \in readers'[r] <=> u \in readers[r] \/ (u = t /\ r = s /\ mode = "shared")
    BY <1>1, <1>2, <1>3, ShardedAssumption
  <2> QED  BY <2>1, <2>2, <2>3
<1>5. \A r \in Shards : writer'[r] # None => readers'[r] = {}
  BY <1>1, <1>2, <1>3 DEF LockOK
<1> QED
  BY <1>2, <1>4, <1>5 DEF MutexOK, LockOK

(* A lock is released, if there is one.                                    *)
LEMMA ReleaseLock ==
  ASSUME Core, NEW t \in Threads, NEW l, NEW c, NEW it, NEW sn, Effect(t, l, c, it, sn),
         NEW s \in Shards, NEW mode \in {"shared", "exclusive", None},
         mode # None => Has(pc[t], iter[t], s, mode), Unlocked(t, s, mode),
         \A r \in Shards, m \in {"shared", "exclusive"} :
           Has(l, it, r, m) <=> Has(pc[t], iter[t], r, m) /\ ~(r = s /\ m = mode)
  PROVE  MutexOK'
<1>1. /\ writer \in [Shards -> Threads \cup {None}] /\ readers \in [Shards -> SUBSET Threads]
      /\ t # None /\ LockOK
  BY Types, ShardedAssumption DEF Core
<1>2. /\ writer' \in [Shards -> Threads \cup {None}] /\ readers' \in [Shards -> SUBSET Threads]
      /\ \A r \in Shards : r # s => writer'[r] = writer[r] /\ readers'[r] = readers[r]
      /\ writer'[s] = IF mode = "exclusive" THEN None ELSE writer[s]
      /\ readers'[s] = IF mode = "shared" THEN readers[s] \ {t} ELSE readers[s]
  BY <1>1 DEF Unlocked
<1>3. mode = "exclusive" => writer[s] = t
  BY <1>1, NoneAssumption DEF LockOK
<1>4. ASSUME NEW r \in Shards, NEW u \in Threads
      PROVE  /\ writer'[r] = u <=> Has(pc'[u], iter'[u], r, "exclusive")
             /\ u \in readers'[r] <=> Has(pc'[u], iter'[u], r, "shared")
  <2>1. /\ writer[r] = u <=> Has(pc[u], iter[u], r, "exclusive")
        /\ u \in readers[r] <=> Has(pc[u], iter[u], r, "shared")
    BY <1>1 DEF LockOK
  <2>2. ASSUME NEW m \in {"shared", "exclusive"}
        PROVE  Has(pc'[u], iter'[u], r, m)
                 <=> Has(pc[u], iter[u], r, m) /\ ~(u = t /\ r = s /\ m = mode)
    BY LocksAfter
  <2>3. /\ writer'[r] = u <=> writer[r] = u /\ ~(u = t /\ r = s /\ mode = "exclusive")
        /\ u \in readers'[r] <=> u \in readers[r] /\ ~(u = t /\ r = s /\ mode = "shared")
    BY <1>1, <1>2, <1>3, ShardedAssumption
  <2> QED  BY <2>1, <2>2, <2>3
<1>5. \A r \in Shards : writer'[r] # None => readers'[r] = {}
  BY <1>1, <1>2, <1>3 DEF LockOK
<1> QED
  BY <1>2, <1>4, <1>5 DEF MutexOK, LockOK

-----------------------------------------------------------------------------
(* Steps of the shards.                                                    *)

(* No shard changes.                                                       *)
LEMMA KeepPlaces ==
  ASSUME Core, NEW t \in Threads, UNCHANGED place
  PROVE  Written(t)
BY Types DEF Core, Written

(* One shard changes, under a lock that excludes everybody else.           *)
LEMMA WriteShard ==
  ASSUME Core, NEW t \in Threads, NEW s \in Shards, NEW f, IsMap(f), KeysOK(f, s),
         writer[s] \in {None, t}, readers[s] = {}, place' = [place EXCEPT ![s] = f]
  PROVE  Written(t) /\ place'[s] = f /\ \A r \in Shards \ {s} : place'[r] = place[r]
<1>1. f \in UNION {[0 .. c - 1 -> Keys \cup {Empty}] : c \in Caps}
  BY DEF IsMap
<1>2. place \in Tables
  BY Types DEF Core
<1>3. place' \in Tables /\ place'[s] = f /\ \A r \in Shards \ {s} : place'[r] = place[r]
  BY <1>1, <1>2 DEF Tables
<1> QED
  BY <1>3 DEF Written

(* What is known of a shard.                                               *)
LEMMA ShardOK ==
  ASSUME Core, NEW s \in Shards
  PROVE  /\ IsMap(place[s]) /\ Once(place[s]) /\ KeysIn(place[s]) \subseteq Keys
         /\ \A k \in KeysIn(place[s]) : to_shard_idx(k) = s
<1>1. IsMap(place[s])
  BY Types, TableKeys DEF Core, Tables
<1> QED
  BY <1>1, MapType DEF Core, PlaceOK, KeysOK

(* Each key has a shard.                                                   *)
LEMMA ShardOfKey ==
  ASSUME NEW k \in Keys
  PROVE  to_shard_idx(k) \in Shards
BY ShardedAssumption DEF to_shard_idx, Shards

(* What is known of a thread.                                              *)
LEMMA Known ==
  ASSUME Core, NEW t \in Threads
  PROVE  /\ pc[t] \in Labels /\ call[t] \in CallType /\ iter[t] \in IterType
         /\ seen[t] \in SeenType /\ span[t] \in [due : SUBSET Keys, ever : SUBSET Keys]
         /\ CallOK(pc[t], call[t]) /\ IterOK(pc[t], iter[t]) /\ ValidAt(place, iter[t])
BY Types DEF Core, ShapeOK, PositionsValid, ValidAt

(* The owner of a shard is alone with it.                                  *)
LEMMA Owner ==
  ASSUME Core, NEW t \in Threads, iter[t].lock = "exclusive"
  PROVE  writer[iter[t].shard] = t /\ readers[iter[t].shard] = {}
<1>1. iter[t].shard \in Shards /\ t # None
  BY Known, ShardedAssumption DEF IterType
<1>2. Has(pc[t], iter[t], iter[t].shard, "exclusive")
  BY DEF Has, LocksIn
<1> QED
  BY <1>1, <1>2 DEF Core, LockOK

-----------------------------------------------------------------------------
(* Histories.                                                              *)

(* What must have been met was there a moment ago.                         *)
SpanOK(P, c, sp) ==
  c.op \in WalkOps \cup LoopOps => sp.due \subseteq InTable(P) /\ IsFiniteSet(sp.ever)

(* The entries of its shard that an iterator has come by.                  *)
Behind(l, q, at) == l \in {"hop", "enter"} \/ q < at \/ (q = at /\ l = "move")

(* What a loop has not met is ahead of its iterator; what it has met is    *)
(* behind it, but for what it moved.                                       *)
OnTheWay(l, it, sn, sp, f) ==
  /\ \A k \in sp.due \ (sn.met \cup sn.moved) : to_shard_idx(k) >= it.shard
  /\ \A k \in sn.met \ sn.moved : to_shard_idx(k) <= it.shard
  /\ \A q \in Entries(f) :
       \/ f[q] \in sn.moved
       \/ Behind(l, q, it.at) /\ (f[q] \in sn.met \/ f[q] \notin sp.due)
       \/ ~Behind(l, q, it.at) /\ f[q] \notin sn.met

LoopOK(l, c, it, sn, sp, f) ==
  c.op \in LoopOps =>
    /\ sn.twice \subseteq sn.moved /\ sn.met \subseteq sp.ever
    /\ l = "begin" => sn = Unseen /\ \A k \in sp.due : to_shard_idx(k) >= c.shard
    /\ l \in {"test", "move", "hop", "enter"} =>
         IF it.lock = None THEN sp.due = {} ELSE OnTheWay(l, it, sn, sp, f)
    /\ l = "ended" => sp.due \subseteq sn.met \cup sn.moved

(* The keys of the shards that a walk is done with.                        *)
Before(K, s) == {k \in K : to_shard_idx(k) < s}

(* What a walk has found so far is bounded by what was there all the time  *)
(* and some time in the shards that it is done with.                       *)
WalkOK(l, c, sn, sp) ==
  c.op \in WalkOps =>
    /\ l \in {"walk", "ended"}
    /\ l = "ended" => c.shard = NumShards \/ (c.op = "is_empty" /\ c.result # 0)
    /\ c.op = "size" =>
         c.result \in Cardinality(Before(sp.due, c.shard)) .. Cardinality(Before(sp.ever, c.shard))
    /\ c.op = "is_empty" =>
         IF c.result = 0 THEN Before(sp.due, c.shard) = {} ELSE l = "ended" /\ sp.ever # {}
    /\ c.op \in {"find_if", "update_if"} => c.key \notin Before(sp.due, c.shard)
    /\ c.op = "for_each" =>
         /\ Before(sp.due, c.shard) \subseteq sn.met /\ sn.met \subseteq Before(sp.ever, c.shard)
         /\ sn.twice = {}
    /\ c.op = "clear" => Before(sp.due, c.shard) = {}

HistoryOK ==
  \A t \in Threads :
    /\ SpanOK(place, call[t], span[t])
    /\ LoopOK(pc[t], call[t], iter[t], seen[t], span[t], place[iter[t].shard])
    /\ WalkOK(pc[t], call[t], seen[t], span[t])

IInv == Core /\ HistoryOK

(* The spans of calls and loops that are under way: less was there all the *)
(* time, and more was there some time.                                     *)
LEMMA SpanStep ==
  ASSUME NEW u \in Threads, Spans, call'[u].op \in WalkOps \cup LoopOps, pc[u] # "idle"
  PROVE  /\ span'[u].due = span[u].due \cap InTable(place')
         /\ span'[u].ever = span[u].ever \cup InTable(place')
<1>1. Present' = InTable(place')
  BY DEF Present, InTable
<1> QED
  BY <1>1 DEF Spans

(* They only forget what they must have met, and add to what they may have.*)
LEMMA Narrower ==
  ASSUME NEW l, NEW c, NEW it, NEW sn, NEW f,
         NEW sp \in [due : SUBSET Keys, ever : SUBSET Keys],
         NEW so \in [due : SUBSET Keys, ever : SUBSET Keys],
         so.due \subseteq sp.due, sp.ever \subseteq so.ever, IsFiniteSet(so.ever),
         IsFiniteSet(sp.due), c \in CallType
  PROVE  /\ LoopOK(l, c, it, sn, sp, f) => LoopOK(l, c, it, sn, so, f)
         /\ WalkOK(l, c, sn, sp) => WalkOK(l, c, sn, so)
<1>1. LoopOK(l, c, it, sn, sp, f) => LoopOK(l, c, it, sn, so, f)
  BY DEF LoopOK, OnTheWay
<1> DEFINE D == Before(sp.due, c.shard)
           E == Before(sp.ever, c.shard)
           D2 == Before(so.due, c.shard)
           E2 == Before(so.ever, c.shard)
<1>2. D2 \subseteq D /\ E \subseteq E2
  BY DEF Before
<1>3. /\ Cardinality(D2) \in Nat /\ Cardinality(D) \in Nat
      /\ Cardinality(E2) \in Nat /\ Cardinality(E) \in Nat
      /\ Cardinality(D2) <= Cardinality(D) /\ Cardinality(E) <= Cardinality(E2)
  <2>1. D \subseteq sp.due /\ E2 \subseteq so.ever
    BY DEF Before
  <2> HIDE DEF D, D2, E, E2
  <2>2. IsFiniteSet(D) /\ IsFiniteSet(E2)
    BY <2>1, FS_Subset
  <2>3. /\ IsFiniteSet(D2) /\ IsFiniteSet(E)
        /\ Cardinality(D2) <= Cardinality(D) /\ Cardinality(E) <= Cardinality(E2)
    BY <1>2, <2>2, FS_Subset
  <2> QED  BY <2>2, <2>3, FS_CardinalityType
<1>4. WalkOK(l, c, sn, sp) => WalkOK(l, c, sn, so)
  <2>1. c.result \in Nat
    BY DEF CallType
  <2> DEFINE d == Cardinality(D)  e == Cardinality(E)
             d2 == Cardinality(D2)  e2 == Cardinality(E2)
  <2>2. c.result \in d .. e => c.result \in d2 .. e2
    <3>1. /\ d \in Nat /\ e \in Nat /\ d2 \in Nat /\ e2 \in Nat
          /\ d2 <= d /\ e <= e2
      BY <1>3
    <3> HIDE DEF d, e, d2, e2
    <3> QED  BY <2>1, <3>1
  <2>3. D = {} => D2 = {}
    BY <1>2
  <2> HIDE DEF D, D2, E, E2
  <2>4. c.key \notin D => c.key \notin D2
    BY <1>2
  <2>5. D \subseteq sn.met /\ sn.met \subseteq E => D2 \subseteq sn.met /\ sn.met \subseteq E2
    BY <1>2
  <2>6. sp.ever # {} => so.ever # {}
    OBVIOUS
  <2> QED
    BY <2>2, <2>3, <2>4, <2>5, <2>6 DEF WalkOK, D, D2, E, E2
<1> QED
  BY <1>1, <1>4

(* What is left to show of a step about the history.                       *)
LEMMA HistoryStep ==
  ASSUME IInv, Core', NEW t \in Threads, Spans, NEW l, NEW c, NEW it, NEW sn,
         Effect(t, l, c, it, sn), Written(t), pc[t] = "idle" \/ c.op \in {call[t].op, None},
         LoopOK(l, c, it, sn, span'[t], place'[it.shard]), WalkOK(l, c, sn, span'[t])
  PROVE  HistoryOK'
<1>1. place \in Tables /\ place' \in Tables /\ Core
  BY Types DEF IInv, Core, Written
<1>2. IsFiniteSet(InTable(place)) /\ IsFiniteSet(InTable(place'))
  BY <1>1, TableKeys DEF Tables
<1>3. /\ call' \in [Threads -> CallType]
      /\ span' \in [Threads -> [due : SUBSET Keys, ever : SUBSET Keys]]
  <2>1. TypeOK'
    BY DEF Core
  <2> QED  BY <2>1 DEF TypeOK, CallType
<1>4. ASSUME NEW u \in Threads, call'[u].op \in WalkOps \cup LoopOps, pc[u] # "idle"
      PROVE  call[u].op \in WalkOps \cup LoopOps
  <2>1. CASE u = t
    BY <1>4, <2>1, NoneAssumption DEF Effect
  <2>2. CASE u # t
    BY <1>4, <2>2 DEF Effect, Others
  <2> QED  BY <2>1, <2>2
<1>5. ASSUME NEW u \in Threads PROVE SpanOK(place', call'[u], span'[u])
  <2>1. CASE pc[u] = "idle" /\ call'[u].op \in WalkOps \cup LoopOps
    <3>1. Present' = InTable(place')
      BY DEF Present, InTable
    <3>2. span'[u] = [due |-> Present', ever |-> Present']
      BY <2>1 DEF Spans
    <3> QED  BY <1>2, <3>1, <3>2 DEF SpanOK
  <2>2. CASE pc[u] # "idle" /\ call'[u].op \in WalkOps \cup LoopOps
    <3>1. /\ span'[u].due = span[u].due \cap InTable(place')
          /\ span'[u].ever = span[u].ever \cup InTable(place')
      BY <2>2, SpanStep
    <3>2. SpanOK(place, call[u], span[u])
      BY DEF IInv, HistoryOK
    <3>3. IsFiniteSet(span[u].ever)
      BY <1>4, <2>2, <3>2 DEF SpanOK
    <3>4. IsFiniteSet(span[u].ever \cup InTable(place'))
      BY <1>2, <3>3, FS_Union
    <3> QED  BY <3>1, <3>4 DEF SpanOK
  <2> QED  BY <2>1, <2>2 DEF SpanOK
<1>6. ASSUME NEW u \in Threads \ {t}
      PROVE  /\ LoopOK(pc'[u], call'[u], iter'[u], seen'[u], span'[u], place'[iter'[u].shard])
             /\ WalkOK(pc'[u], call'[u], seen'[u], span'[u])
  <2> DEFINE L(sp, f) == LoopOK(pc[u], call[u], iter[u], seen[u], sp, f)
             W(sp) == WalkOK(pc[u], call[u], seen[u], sp)
  <2>1. pc'[u] = pc[u] /\ call'[u] = call[u] /\ iter'[u] = iter[u] /\ seen'[u] = seen[u]
    BY DEF Effect, Others
  <2>2. /\ L(span[u], place[iter[u].shard]) /\ W(span[u])
        /\ SpanOK(place, call[u], span[u])
    BY DEF IInv, HistoryOK
  <2>3. /\ call[u] \in CallType /\ CallOK(pc[u], call[u])
        /\ span[u] \in [due : SUBSET Keys, ever : SUBSET Keys]
    BY <1>1, Known
  <2>4. CASE call[u].op \notin WalkOps \cup LoopOps
    BY <2>1, <2>4 DEF LoopOK, WalkOK
  <2>5. CASE call[u].op \in WalkOps \cup LoopOps
    <3>1. pc[u] # "idle"
      BY <2>3, <2>5, NoneAssumption DEF CallOK, NoCall
    <3>2. span'[u].due \subseteq span[u].due /\ span[u].ever \subseteq span'[u].ever
      BY <2>1, <2>5, <3>1, SpanStep
    <3>3. IsFiniteSet(span'[u].ever)
      BY <1>5, <2>1, <2>5 DEF SpanOK
    <3>4. IsFiniteSet(span[u].due)
      BY <1>2, <2>2, <2>5, FS_Subset DEF SpanOK
    <3>5. span'[u] \in [due : SUBSET Keys, ever : SUBSET Keys]
      BY <1>3
    <3>6. L(span'[u], place[iter[u].shard]) /\ W(span'[u])
      BY <2>2, <2>3, <3>2, <3>3, <3>4, <3>5, Narrower
    <3>7. iter[u].lock # None => place'[iter[u].shard] = place[iter[u].shard]
      BY <1>1, OtherPlace
    <3>8. L(span'[u], place'[iter[u].shard])
      BY <3>6, <3>7 DEF LoopOK
    <3> QED  BY <2>1, <3>6, <3>8
  <2> QED  BY <2>4, <2>5
<1>7. ASSUME NEW u \in Threads
      PROVE  /\ LoopOK(pc'[u], call'[u], iter'[u], seen'[u], span'[u], place'[iter'[u].shard])
             /\ WalkOK(pc'[u], call'[u], seen'[u], span'[u])
  <2>1. CASE u = t
    <3>1. pc'[t] = l /\ call'[t] = c /\ iter'[t] = it /\ seen'[t] = sn
      BY DEF Effect
    <3> QED  BY <2>1, <3>1
  <2> QED  BY <1>6, <2>1
<1> QED
  BY <1>5, <1>7 DEF HistoryOK

-----------------------------------------------------------------------------
(* Calls with a key, and what callers do with a position.                  *)

(* A step outside calls over all shards and loops has no history.          *)
LEMMA PlainStep ==
  ASSUME IInv, NEW t \in Threads, Spans, NEW l, NEW c, NEW it, NEW sn,
         Effect(t, l, c, it, sn), CallOK(l, c), IterOK(l, it), MutexOK', Written(t),
         ValidAt(place', it), c.op \notin WalkOps \cup LoopOps, c.op \in {call[t].op, None}
  PROVE  IInv'
<1>1. Core'
  BY CoreStep DEF IInv
<1>2. LoopOK(l, c, it, sn, span'[t], place'[it.shard]) /\ WalkOK(l, c, sn, span'[t])
  BY DEF LoopOK, WalkOK
<1>3. HistoryOK'
  BY <1>1, <1>2, HistoryStep
<1> QED
  BY <1>1, <1>3 DEF IInv

(* No call, no iterator.                                                   *)
LEMMA Nothing ==
  /\ NoCall \in CallType /\ NoIter \in IterType /\ Unseen \in SeenType
  /\ NoCall.op = None /\ None \notin WalkOps \cup LoopOps /\ NoIter.key = None
  /\ \A l \in Labels \ {"key", "walk", "begin"} : CallOK(l, NoCall)
  /\ \A l, s : \A mode \in {"shared", "exclusive"} : ~Has(l, NoIter, s, mode)
<1>1. NoCall \in CallType /\ NoIter \in IterType /\ Unseen \in SeenType
  BY ShardedAssumption DEF NoCall, NoIter, Unseen, CallType, IterType, SeenType, Shards
<1>2. NoCall.op = None /\ None \notin WalkOps \cup LoopOps /\ NoIter.key = None
  BY NoneAssumption DEF NoCall, NoIter
<1>3. \A l \in Labels \ {"key", "walk", "begin"} : CallOK(l, NoCall)
  BY NoneAssumption DEF CallOK, NoCall, WalkOps
<1>4. \A l, s : \A mode \in {"shared", "exclusive"} : ~Has(l, NoIter, s, mode)
  BY NoneAssumption DEF Has, NoIter
<1> QED
  BY <1>1, <1>2, <1>3, <1>4

(* But between two shards, there is the lock of one.                       *)
LEMMA OneShard ==
  ASSUME NEW l, l # "enter", NEW it, NEW r, NEW m
  PROVE  Has(l, it, r, m) <=> it.lock = m /\ r = it.shard
BY DEF Has, LocksIn

(* A position or an iterator is dropped.                                   *)
LEMMA DropStep ==
  ASSUME IInv, NEW t \in Threads, Drop(t), Spans
  PROVE  IInv'
<1>0. Core
  BY DEF IInv
<1>1. Effect(t, "idle", NoCall, NoIter, Unseen)
  BY <1>0, Types, Nothing DEF Core, Drop, Goto, SetIter, Effect, Others, Labels
<1>2. MutexOK'
  <2>1. /\ iter[t].shard \in Shards /\ iter[t].lock \in {"shared", "exclusive", None}
        /\ pc[t] # "enter" /\ Unlocked(t, iter[t].shard, iter[t].lock)
    BY <1>0, Known DEF IterType, Drop
  <2>2. \A r, m : Has(pc[t], iter[t], r, m) <=> iter[t].lock = m /\ r = iter[t].shard
    BY <2>1, OneShard
  <2>3. \A r \in Shards, m \in {"shared", "exclusive"} :
          Has("idle", NoIter, r, m) <=>
            Has(pc[t], iter[t], r, m) /\ ~(r = iter[t].shard /\ m = iter[t].lock)
    BY <2>2, Nothing
  <2> QED  BY <1>0, <1>1, <2>1, <2>2, <2>3, ReleaseLock
<1>3. Written(t)
  BY <1>0, KeepPlaces DEF Drop
<1>4. CallOK("idle", NoCall) /\ IterOK("idle", NoIter) /\ ValidAt(place', NoIter)
  BY Nothing DEF IterOK, ValidAt, Labels
<1> QED
  BY <1>1, <1>2, <1>3, <1>4, PlainStep, Nothing

(* A call with a key has nothing yet.                                      *)
LEMMA KeyCalls ==
  ASSUME Core, NEW t \in Threads, NEW o \in KeyOps, KeyCall(t, o)
  PROVE  /\ pc[t] = "key" /\ iter[t] = NoIter /\ call[t].key \in Keys /\ call[t].op = o
         /\ to_shard_idx(call[t].key) \in Shards
         /\ CanLock(to_shard_idx(call[t].key), Mode(call[t]))
         /\ Mode(call[t]) = IF o = "find" THEN "shared" ELSE "exclusive"
<1>1. pc[t] = "key" /\ iter[t] = NoIter /\ call[t].key \in Keys /\ call[t].op = o
  BY Known DEF KeyCall, CallOK, IterOK
<1>2. Mode(call[t]) = IF o = "find" THEN "shared" ELSE "exclusive"
  BY <1>1 DEF Mode, KeyOps, ReadOps
<1> QED
  BY <1>1, <1>2, ShardOfKey DEF KeyCall

(* The step of a call with a key that takes the lock with it.              *)
LEMMA Positioned ==
  ASSUME IInv, NEW t \in Threads, NEW o \in KeyOps, KeyCall(t, o), Spans,
         NEW p \in Int, NEW k \in {None, call[t].key},
         Locked(t, to_shard_idx(call[t].key), Mode(call[t])),
         SetIter(t, Iterator(to_shard_idx(call[t].key), p, k, Mode(call[t]))),
         Goto(t, "position"), Written(t),
         k # None => LET f == place'[to_shard_idx(call[t].key)] IN p \in Entries(f) /\ f[p] = k
  PROVE  IInv'
<1> DEFINE s == to_shard_idx(call[t].key)
           mode == Mode(call[t])
           it == Iterator(s, p, k, mode)
<1>0. /\ Core /\ pc[t] = "key" /\ iter[t] = NoIter /\ call[t].key \in Keys /\ s \in Shards
      /\ CanLock(s, mode) /\ mode \in {"shared", "exclusive"}
  BY KeyCalls DEF IInv
<1>1. it \in IterType
  BY <1>0 DEF Iterator, IterType
<1>2. Effect(t, "position", NoCall, it, seen[t])
  BY <1>0, <1>1, Types, Nothing DEF Core, KeyCall, Goto, SetIter, Effect, Others, Labels
<1>3. MutexOK'
  <2>1. \A r \in Shards, m \in {"shared", "exclusive"} :
          Has("position", it, r, m) <=>
            Has(pc[t], iter[t], r, m) \/ (r = s /\ m = mode)
    <3>1. it.shard = s /\ it.lock = mode
      BY DEF Iterator
    <3> HIDE DEF it, s, mode
    <3>2. \A r, m : Has("position", it, r, m) <=> mode = m /\ r = s
      BY <3>1, OneShard
    <3>3. \A r : \A m \in {"shared", "exclusive"} : ~Has(pc[t], iter[t], r, m)
      BY <1>0, Nothing
    <3> QED  BY <3>2, <3>3
  <2> QED  BY <1>0, <1>2, <2>1, TakeLock
<1>4. IterOK("position", it) /\ ValidAt(place', it)
  <2>1. it.shard = s /\ it.at = p /\ it.key = k /\ it.lock = mode /\ mode # None
    BY <1>0, NoneAssumption DEF Iterator
  <2> HIDE DEF it
  <2>2. IterOK("position", it)
    BY <2>1 DEF IterOK
  <2> QED  BY <2>1, <2>2 DEF ValidAt
<1>5. CallOK("position", NoCall)
  BY Nothing DEF Labels
<1> QED
  BY <1>2, <1>3, <1>4, <1>5, PlainStep, Nothing

(* find and update.                                                        *)
LEMMA FindStep ==
  ASSUME IInv, NEW t \in Threads, NEW o \in {"find", "update"}, Find(t, o), Spans
  PROVE  IInv'
<1> DEFINE k == call[t].key
           s == to_shard_idx(k)
<1>1. KeyCall(t, o) /\ Locked(t, s, Mode(call[t])) /\ Goto(t, "position") /\ place' = place
  BY DEF Find
<1>2. Core /\ s \in Shards /\ IsMap(place[s]) /\ Written(t) /\ k \in Keys /\ o \in KeyOps
  <2>1. Core /\ o \in KeyOps
    BY DEF IInv, KeyOps
  <2> QED  BY <1>1, <2>1, KeyCalls, ShardOK, KeepPlaces
<1>3. ASSUME NEW p \in Entries(place[s]), place[s][p] = k,
             SetIter(t, Iterator(s, p, k, Mode(call[t])))
      PROVE  IInv'
  <2>1. p \in Int
    BY <1>2, MapType
  <2> QED  BY <1>1, <1>2, <1>3, <2>1, Positioned
<1>4. ASSUME SetIter(t, Iterator(s, -1, None, Mode(call[t])))
      PROVE  IInv'
  BY <1>1, <1>2, <1>4, Positioned
<1> QED
  BY <1>3, <1>4 DEF Find

(* A shard that is not locked by anybody else is written.                  *)
LEMMA ExclusiveWrite ==
  ASSUME Core, NEW t \in Threads, NEW s \in Shards, CanLock(s, "exclusive"),
         NEW f, IsMap(f), KeysOK(f, s), place' = [place EXCEPT ![s] = f]
  PROVE  Written(t) /\ place'[s] = f /\ \A r \in Shards \ {s} : place'[r] = place[r]
BY WriteShard DEF CanLock

(* insert.                                                                 *)
LEMMA InsertStep ==
  ASSUME IInv, NEW t \in Threads, Insert(t), Spans
  PROVE  IInv'
<1> DEFINE k == call[t].key
           s == to_shard_idx(k)
           G == IF k \in KeysIn(place[s]) THEN {place[s]} ELSE Inserted(place[s], k)
<1>1. KeyCall(t, "insert") /\ Locked(t, s, "exclusive") /\ Goto(t, "position")
  BY DEF Insert
<1>2. PICK f \in G :
        /\ place' = [place EXCEPT ![s] = f]
        /\ \E p \in DOMAIN f : f[p] = k /\ SetIter(t, Iterator(s, p, k, "exclusive"))
  BY DEF Insert
<1>3. PICK p \in DOMAIN f : f[p] = k /\ SetIter(t, Iterator(s, p, k, "exclusive"))
  BY <1>2
<1>4. /\ Core /\ s \in Shards /\ k \in Keys /\ "insert" \in KeyOps
      /\ Mode(call[t]) = "exclusive" /\ CanLock(s, "exclusive")
  <2>1. Core /\ "insert" \in KeyOps
    BY DEF IInv, KeyOps
  <2> QED  BY <1>1, <2>1, KeyCalls
<1>5. IsMap(f) /\ KeysOK(f, s)
  <2> DEFINE g == place[s]
  <2>1. IsMap(g) /\ Once(g) /\ \A j \in KeysIn(g) : to_shard_idx(j) = s
    BY <1>4, ShardOK
  <2>2. IsMap(f) /\ Once(f) /\ KeysIn(f) \subseteq KeysIn(g) \cup {k}
    <3>1. CASE k \in KeysIn(g)
      BY <1>2, <2>1, <3>1
    <3>2. CASE k \notin KeysIn(g)
      <4>1. f \in Inserted(g, k)
        BY <1>2, <3>2
      <4> QED  BY <1>4, <2>1, <3>2, <4>1, InsertedMap
    <3> QED  BY <3>1, <3>2
  <2> QED  BY <2>1, <2>2 DEF KeysOK
<1>6. Written(t) /\ place'[s] = f
  BY <1>2, <1>4, <1>5, ExclusiveWrite
<1>7. p \in Entries(f) /\ p \in Int
  <2>1. p \in Entries(f)
    BY <1>3, <1>4, ShardedAssumption DEF Entries
  <2> QED  BY <1>5, <2>1, MapType
<1> QED
  BY <1>1, <1>3, <1>4, <1>6, <1>7, Positioned

(* erase.                                                                  *)
LEMMA EraseStep ==
  ASSUME IInv, NEW t \in Threads, Erase(t), Spans
  PROVE  IInv'
<1> DEFINE k == call[t].key
           s == to_shard_idx(k)
<1>1. /\ KeyCall(t, "erase") /\ Goto(t, "ended") /\ UNCHANGED <<mutexes, iter>>
  BY DEF Erase
<1>2. /\ Core /\ s \in Shards /\ k \in Keys /\ pc[t] = "key" /\ iter[t] = NoIter
      /\ CanLock(s, "exclusive")
  <2>1. Core /\ "erase" \in KeyOps
    BY DEF IInv, KeyOps
  <2> QED  BY <1>1, <2>1, KeyCalls
<1>3. Effect(t, "ended", NoCall, NoIter, seen[t])
  BY <1>1, <1>2, Types, Nothing DEF Core, KeyCall, Goto, Effect, Others, Labels
<1>4. MutexOK'
  <2>1. \A r \in Shards, m \in {"shared", "exclusive"} :
          Has("ended", NoIter, r, m) <=> Has(pc[t], iter[t], r, m)
    BY <1>2, Nothing
  <2> QED  BY <1>1, <1>2, <1>3, <2>1, KeepLocks
<1>5. Written(t)
  <2>1. CASE UNCHANGED place
    BY <1>2, <2>1, KeepPlaces
  <2>2. ASSUME NEW p \in Entries(place[s]), NEW f \in Erased(place[s], p),
               place' = [place EXCEPT ![s] = f]
        PROVE  Written(t)
    <3>1. /\ IsMap(place[s]) /\ Once(place[s])
          /\ \A j \in KeysIn(place[s]) : to_shard_idx(j) = s
      BY <1>2, ShardOK
    <3>2. IsMap(f) /\ KeysOK(f, s)
      BY <3>1, ErasedMap DEF KeysOK
    <3> QED  BY <1>2, <2>2, <3>2, ExclusiveWrite
  <2> QED  BY <2>1, <2>2 DEF Erase
<1>6. CallOK("ended", NoCall) /\ IterOK("ended", NoIter) /\ ValidAt(place', NoIter)
  BY Nothing DEF Labels, IterOK, ValidAt
<1> QED
  BY <1>3, <1>4, <1>5, <1>6, PlainStep, Nothing

(* What an erasure through a position or an iterator does to its shard.    *)
LEMMA ErasedThrough ==
  ASSUME Core, NEW t \in Threads, iter[t].lock = "exclusive", iter[t].key # None,
         NEW f \in Erased(place[iter[t].shard], iter[t].at),
         place' = [place EXCEPT ![iter[t].shard] = f]
  PROVE  /\ Written(t) /\ place'[iter[t].shard] = f
         /\ \A r \in Shards \ {iter[t].shard} : place'[r] = place[r]
         /\ KeysIn(f) = KeysIn(place[iter[t].shard]) \ {iter[t].key}
<1> DEFINE s == iter[t].shard
           g == place[s]
<1>1. s \in Shards /\ iter[t].at \in Entries(g) /\ g[iter[t].at] = iter[t].key
  BY Known DEF IterType, ValidAt
<1>2. IsMap(g) /\ Once(g) /\ \A j \in KeysIn(g) : to_shard_idx(j) = s
  BY <1>1, ShardOK
<1>3. IsMap(f) /\ KeysIn(f) = KeysIn(g) \ {iter[t].key} /\ Once(f)
  BY <1>1, <1>2, ErasedMap
<1>4. KeysOK(f, s)
  BY <1>2, <1>3 DEF KeysOK
<1>5. writer[s] \in {None, t} /\ readers[s] = {}
  BY Owner
<1>6. /\ Written(t) /\ place'[s] = f
      /\ \A r \in Shards \ {s} : place'[r] = place[r]
  BY <1>1, <1>3, <1>4, <1>5, WriteShard
<1> QED
  BY <1>3, <1>6

(* An iterator that loses its key keeps its lock.                          *)
LEMMA Keyless ==
  ASSUME Core, NEW t \in Threads
  PROVE  LET it == [iter[t] EXCEPT !.key = None]
         IN  /\ it \in IterType
             /\ IterOK(pc[t], it)
             /\ it.shard = iter[t].shard /\ it.at = iter[t].at /\ it.lock = iter[t].lock
             /\ it.key = None
             /\ \A s, mode : Has(pc[t], it, s, mode) <=> Has(pc[t], iter[t], s, mode)
<1> DEFINE it == [iter[t] EXCEPT !.key = None]
<1>1. /\ it \in IterType /\ it.key = None
      /\ it.shard = iter[t].shard /\ it.at = iter[t].at /\ it.lock = iter[t].lock
  BY Known DEF IterType
<1>2. IterOK(pc[t], it)
  <2>1. iter[t] = NoIter => it = NoIter
    BY DEF NoIter
  <2>2. IterOK(pc[t], iter[t])
    BY Known
  <2> HIDE DEF it
  <2> QED  BY <1>1, <2>1, <2>2 DEF IterOK
<1> HIDE DEF it
<1>3. \A s, mode : Has(pc[t], it, s, mode) <=> Has(pc[t], iter[t], s, mode)
  BY <1>1 DEF Has, LocksIn
<1> QED
  BY <1>1, <1>2, <1>3 DEF it

(* erase_at and erase_next.                                                *)
LEMMA EraseAtStep ==
  ASSUME IInv, NEW t \in Threads, EraseAt(t), Spans
  PROVE  IInv'
<1> DEFINE it == [iter[t] EXCEPT !.key = None]
<1>1. /\ pc[t] = "position" /\ iter[t].lock = "exclusive" /\ iter[t].key # None
      /\ SetIter(t, it) /\ UNCHANGED <<mutexes, pc, call, seen, calls>>
  BY DEF EraseAt
<1>2. /\ Core /\ CallOK("position", call[t]) /\ IterOK("position", iter[t])
  BY <1>1, Known DEF IInv
<1>3. /\ it \in IterType /\ IterOK("position", it) /\ it.key = None
      /\ \A s, mode : Has("position", it, s, mode) <=> Has(pc[t], iter[t], s, mode)
  BY <1>1, <1>2, Keyless
<1>4. Effect(t, "position", call[t], it, seen[t])
  <2> HIDE DEF it
  <2> QED  BY <1>1, <1>2, <1>3, Types DEF Core, SetIter, Effect, Others, Labels
<1>5. MutexOK'
  <2> HIDE DEF it
  <2> QED  BY <1>1, <1>2, <1>3, <1>4, KeepLocks
<1>6. Written(t)
  BY <1>1, <1>2, ErasedThrough DEF EraseAt
<1>7. ValidAt(place', it)
  BY <1>3 DEF ValidAt
<1>8. call[t].op = None
  BY <1>2 DEF CallOK
<1> HIDE DEF it
<1> QED
  BY <1>2, <1>3, <1>4, <1>5, <1>6, <1>7, <1>8, PlainStep, NoneAssumption

(* downgrade.                                                              *)
LEMMA DowngradeStep ==
  ASSUME IInv, NEW t \in Threads, Downgrade(t), Spans
  PROVE  IInv'
<1> DEFINE it == [iter[t] EXCEPT !.lock = "shared"]
           s == iter[t].shard
<1>1. /\ pc[t] = "position" /\ iter[t].lock = "exclusive" /\ SetIter(t, it)
      /\ writer' = [writer EXCEPT ![s] = None]
      /\ readers' = [readers EXCEPT ![s] = @ \cup {t}]
      /\ UNCHANGED <<place, pc, call, seen, calls>>
  BY DEF Downgrade
<1>2. /\ Core /\ CallOK("position", call[t]) /\ IterOK("position", iter[t])
      /\ ValidAt(place, iter[t]) /\ iter[t] \in IterType /\ s \in Shards /\ t # None
  BY <1>1, Known, ShardedAssumption DEF IInv, IterType
<1>3. /\ it \in IterType /\ it.key = iter[t].key /\ it.at = iter[t].at
      /\ it.shard = s /\ it.lock = "shared"
  BY <1>2 DEF IterType
<1> HIDE DEF it
<1>4. IterOK("position", it) /\ ValidAt(place', it)
  <2>1. IterOK("position", it)
    BY <1>3, NoneAssumption DEF IterOK
  <2>2. ValidAt(place, it) => ValidAt(place', it)
    BY <1>1
  <2>3. ValidAt(place, it)
    BY <1>2, <1>3 DEF ValidAt
  <2> QED  BY <2>1, <2>2, <2>3
<1>5. Effect(t, "position", call[t], it, seen[t])
  BY <1>1, <1>2, <1>3, Types DEF Core, SetIter, Effect, Others, Labels
<1>6. MutexOK'
  <2>1. /\ writer \in [Shards -> Threads \cup {None}] /\ readers \in [Shards -> SUBSET Threads]
        /\ LockOK
    BY <1>2, Types DEF Core
  <2>2. /\ writer' \in [Shards -> Threads \cup {None}] /\ readers' \in [Shards -> SUBSET Threads]
        /\ \A r \in Shards : r # s => writer'[r] = writer[r] /\ readers'[r] = readers[r]
        /\ writer'[s] = None /\ readers'[s] = readers[s] \cup {t}
    BY <1>1, <1>2, <2>1
  <2>3. writer[s] = t /\ readers[s] = {}
    BY <1>1, <1>2, Owner
  <2>4. ASSUME NEW r \in Shards, NEW u \in Threads
        PROVE  /\ writer'[r] = u <=> Has(pc'[u], iter'[u], r, "exclusive")
               /\ u \in readers'[r] <=> Has(pc'[u], iter'[u], r, "shared")
    <3>1. /\ writer[r] = u <=> Has(pc[u], iter[u], r, "exclusive")
          /\ u \in readers[r] <=> Has(pc[u], iter[u], r, "shared")
      BY <2>1 DEF LockOK
    <3>2. ASSUME NEW m
          PROVE  Has(pc'[u], iter'[u], r, m) <=>
                   IF u = t THEN m = "shared" /\ r = s ELSE Has(pc[u], iter[u], r, m)
      <4>1. Has("position", it, r, m) <=> m = "shared" /\ r = s
        BY <1>3, OneShard
      <4> QED  BY <1>5, <4>1, LocksAfter
    <3>3. Has(pc[t], iter[t], r, "shared") <=> FALSE
      BY <1>1, OneShard
    <3>4. CASE u = t
      <4>1. Has(pc[t], iter[t], r, "exclusive") <=> r = s
        BY <1>1, OneShard
      <4> QED  BY <1>2, <2>2, <3>1, <3>2, <3>3, <3>4, <4>1
    <3>5. CASE u # t
      <4>1. writer'[r] = u <=> writer[r] = u
        BY <2>2, <2>3, <3>5, ShardedAssumption
      <4>2. u \in readers'[r] <=> u \in readers[r]
        BY <2>2, <3>5
      <4> QED  BY <3>1, <3>2, <3>5, <4>1, <4>2
    <3> QED  BY <3>4, <3>5
  <2>5. \A r \in Shards : writer'[r] # None => readers'[r] = {}
    BY <2>1, <2>2 DEF LockOK
  <2> QED  BY <2>2, <2>4, <2>5 DEF MutexOK, LockOK
<1>7. Written(t)
  BY <1>1, <1>2, KeepPlaces
<1>8. call[t].op = None
  BY <1>2 DEF CallOK
<1> QED
  BY <1>2, <1>4, <1>5, <1>6, <1>7, <1>8, PlainStep, NoneAssumption

(* to_iterator.                                                            *)
LEMMA ToIteratorStep ==
  ASSUME IInv, NEW t \in Threads, ToIterator(t), Spans
  PROVE  IInv'
<1>1. /\ pc[t] = "position" /\ Goto(t, "move")
      /\ UNCHANGED <<place, mutexes, call, iter, seen, calls>>
  BY DEF ToIterator
<1>2. /\ Core /\ CallOK("position", call[t]) /\ IterOK("position", iter[t])
      /\ ValidAt(place, iter[t])
  BY <1>1, Known DEF IInv
<1>3. Effect(t, "move", call[t], iter[t], seen[t])
  BY <1>1, <1>2, Types DEF Core, Goto, Effect, Others, Labels
<1>4. call[t].op = None
  BY <1>2 DEF CallOK
<1>5. CallOK("move", call[t]) /\ IterOK("move", iter[t])
  BY <1>2, <1>4, NoneAssumption DEF CallOK, IterOK, WalkOps
<1>6. MutexOK'
  <2>1. \A r, m : Has("move", iter[t], r, m) <=> Has(pc[t], iter[t], r, m)
    BY <1>1, OneShard
  <2> QED  BY <1>1, <1>2, <1>3, <2>1, KeepLocks
<1>7. Written(t) /\ ValidAt(place', iter[t])
  BY <1>1, <1>2, KeepPlaces
<1> QED
  BY <1>3, <1>4, <1>5, <1>6, <1>7, PlainStep, NoneAssumption

-----------------------------------------------------------------------------
(* Calls and loops that are under way.                                     *)

Spanned(t) ==
  [due |-> span[t].due \cap InTable(place'), ever |-> span[t].ever \cup InTable(place')]

(* A step of a call or a loop: what its history must be.                   *)
LEMMA ActiveStep ==
  ASSUME IInv, NEW t \in Threads, Spans, NEW l, NEW c, NEW it, NEW sn,
         Effect(t, l, c, it, sn), CallOK(l, c), IterOK(l, it), MutexOK', Written(t),
         ValidAt(place', it), pc[t] # "idle", c.op = call[t].op,
         LoopOK(l, c, it, sn, Spanned(t), place'[it.shard]), WalkOK(l, c, sn, Spanned(t))
  PROVE  IInv'
<1>1. Core'
  BY CoreStep DEF IInv
<1>2. LoopOK(l, c, it, sn, span'[t], place'[it.shard]) /\ WalkOK(l, c, sn, span'[t])
  <2>1. CASE c.op \in WalkOps \cup LoopOps
    <3>1. Present' = InTable(place')
      BY DEF Present, InTable
    <3>2. call'[t].op = c.op
      BY DEF Effect
    <3>3. span'[t] = Spanned(t)
      BY <2>1, <3>1, <3>2 DEF Spans, Spanned
    <3> QED  BY <3>3
  <2>2. CASE c.op \notin WalkOps \cup LoopOps
    BY <2>2 DEF LoopOK, WalkOK
  <2> QED  BY <2>1, <2>2
<1>3. HistoryOK'
  BY <1>1, <1>2, HistoryStep
<1> QED
  BY <1>1, <1>3 DEF IInv

(* Before the step, the history also fits what will be there.              *)
LEMMA SpannedOK ==
  ASSUME IInv, NEW t \in Threads, Written(t), call[t].op \in WalkOps \cup LoopOps
  PROVE  /\ LoopOK(pc[t], call[t], iter[t], seen[t], Spanned(t), place[iter[t].shard])
         /\ WalkOK(pc[t], call[t], seen[t], Spanned(t))
         /\ Spanned(t) \in [due : SUBSET Keys, ever : SUBSET Keys]
         /\ IsFiniteSet(Spanned(t).due) /\ IsFiniteSet(Spanned(t).ever)
         /\ Spanned(t).due \subseteq InTable(place) /\ Spanned(t).due \subseteq InTable(place')
         /\ InTable(place') \subseteq Spanned(t).ever
<1>1. Core /\ place \in Tables /\ place' \in Tables
  BY Types DEF IInv, Core, Written
<1>2. /\ IsFiniteSet(InTable(place)) /\ IsFiniteSet(InTable(place'))
      /\ InTable(place') \subseteq Keys
  BY <1>1, TableKeys DEF Tables
<1>3. /\ LoopOK(pc[t], call[t], iter[t], seen[t], span[t], place[iter[t].shard])
      /\ WalkOK(pc[t], call[t], seen[t], span[t])
      /\ span[t].due \subseteq InTable(place) /\ IsFiniteSet(span[t].ever)
  BY DEF IInv, HistoryOK, SpanOK
<1>4. span[t] \in [due : SUBSET Keys, ever : SUBSET Keys] /\ call[t] \in CallType
  BY <1>1, Known
<1>5. /\ Spanned(t).due = span[t].due \cap InTable(place')
      /\ Spanned(t).ever = span[t].ever \cup InTable(place')
      /\ Spanned(t) \in [due : SUBSET Keys, ever : SUBSET Keys]
  BY <1>2, <1>4 DEF Spanned
<1>6. IsFiniteSet(span[t].due) /\ IsFiniteSet(Spanned(t).due) /\ IsFiniteSet(Spanned(t).ever)
  <2>1. IsFiniteSet(span[t].due)
    BY <1>2, <1>3, FS_Subset
  <2>2. IsFiniteSet(Spanned(t).due)
    BY <1>5, <2>1, FS_Subset
  <2>3. IsFiniteSet(Spanned(t).ever)
    <3>1. IsFiniteSet(span[t].ever \cup InTable(place'))
      BY <1>2, <1>3, FS_Union
    <3> QED  BY <1>5, <3>1
  <2> QED  BY <2>1, <2>2, <2>3
<1>7. /\ LoopOK(pc[t], call[t], iter[t], seen[t], Spanned(t), place[iter[t].shard])
      /\ WalkOK(pc[t], call[t], seen[t], Spanned(t))
  BY <1>3, <1>4, <1>5, <1>6, Narrower
<1> QED
  BY <1>3, <1>5, <1>6, <1>7

-----------------------------------------------------------------------------
(* Iterators.                                                              *)

(* A loop is not one of the calls over all shards.                         *)
LEMMA InLoop ==
  ASSUME IInv, NEW t \in Threads, pc[t] \in {"begin", "test", "move", "hop", "enter"}
  PROVE  /\ call[t].op \in LoopOps \cup {None} /\ call[t].op \notin WalkOps /\ Core
         /\ call[t] \in CallType /\ iter[t] \in IterType /\ iter[t].shard \in Shards
         /\ seen[t] \in SeenType
         /\ \A l \in Labels \ {"idle", "key", "walk", "begin", "position"} : CallOK(l, call[t])
<1>1. Core /\ CallOK(pc[t], call[t]) /\ call[t] \in CallType /\ iter[t] \in IterType
  BY Known DEF IInv
<1>2. call[t].op \in LoopOps \cup {None}
  BY <1>1 DEF CallOK
<1>3. call[t].op \notin WalkOps /\ call[t].op \notin {"find_if", "update_if"}
  BY <1>2, NoneAssumption DEF LoopOps, WalkOps
<1>4. \A l \in Labels \ {"idle", "key", "walk", "begin", "position"} : CallOK(l, call[t])
  BY <1>2, <1>3 DEF CallOK
<1> QED
  BY <1>1, <1>2, <1>3, <1>4, Known DEF IterType

(* What is left to show of a step of an iterator.                          *)
LEMMA IterStep ==
  ASSUME IInv, NEW t \in Threads, Spans, NEW l, NEW c, NEW it, NEW sn,
         pc[t] \in {"begin", "test", "move", "hop", "enter"},
         Effect(t, l, c, it, sn), CallOK(l, c), IterOK(l, it), MutexOK', Written(t),
         ValidAt(place', it), c.op = call[t].op,
         call[t].op \in LoopOps => LoopOK(l, c, it, sn, Spanned(t), place'[it.shard])
  PROVE  IInv'
<1>1. call[t].op \notin WalkOps
  BY InLoop
<1>2. LoopOK(l, c, it, sn, Spanned(t), place'[it.shard])
  BY DEF LoopOK
<1>3. WalkOK(l, c, sn, Spanned(t))
  BY <1>1 DEF WalkOK
<1> QED
  BY <1>2, <1>3, ActiveStep

(* Where an iterator that lands is.                                        *)
LEMMA AtEntry ==
  ASSUME Core, NEW s \in Shards, NEW p \in Int
  PROVE  /\ At(place[s], p) \in Keys \cup {None}
         /\ At(place[s], p) # None =>
              /\ p \in Entries(place[s]) /\ place[s][p] = At(place[s], p)
              /\ to_shard_idx(At(place[s], p)) = s
<1>1. \A q \in Entries(place[s]) : place[s][q] \in KeysIn(place[s])
  BY DEF KeysIn
<1> QED
  BY <1>1, ShardOK DEF At

(* An iterator in a shard that stays as it is.                             *)
LEMMA IteratorOK ==
  ASSUME Core, place' = place, NEW s \in Shards, NEW p \in Int,
         NEW mode \in {"shared", "exclusive"},
         NEW it, it = Iterator(s, p, At(place[s], p), mode)
  PROVE  /\ it \in IterType /\ ValidAt(place', it)
         /\ it.shard = s /\ it.at = p /\ it.lock = mode /\ it.key = At(place[s], p)
         /\ \A l \in Labels \ {"idle", "key", "walk", "begin", "hop", "enter"} : IterOK(l, it)
         /\ s < Last => IterOK("hop", it) /\ IterOK("enter", it)
<1>1. it.shard = s /\ it.at = p /\ it.lock = mode /\ it.key = At(place[s], p)
  BY DEF Iterator
<1>2. it \in IterType
  BY AtEntry DEF Iterator, IterType
<1>3. ValidAt(place', it)
  BY <1>1, AtEntry DEF ValidAt
<1>4. /\ \A l \in Labels \ {"idle", "key", "walk", "begin", "hop", "enter"} : IterOK(l, it)
      /\ s < Last => IterOK("hop", it) /\ IterOK("enter", it)
  BY <1>1, NoneAssumption DEF IterOK
<1> QED
  BY <1>1, <1>2, <1>3, <1>4

(* operator--.                                                             *)
LEMMA RetreatStep ==
  ASSUME IInv, NEW t \in Threads, Retreat(t), Spans
  PROVE  IInv'
<1> DEFINE s == iter[t].shard
           p == PrevEntry(place[s], iter[t].at)
           mode == iter[t].lock
<1>1. pc[t] = "move" /\ UNCHANGED <<place, call, seen, calls>>
  BY DEF Retreat
<1>2. /\ Core /\ s \in Shards /\ iter[t] \in IterType /\ mode \in {"shared", "exclusive"}
      /\ CallOK("drop", call[t]) /\ CallOK("stray", call[t])
  BY <1>1, InLoop, Known DEF IterType, IterOK, Labels
<1>3. p \in Int /\ IsMap(place[s]) /\ Written(t)
  <2>1. IsMap(place[s]) /\ iter[t].at \in Int
    BY <1>2, ShardOK DEF IterType
  <2> QED  BY <1>1, <1>2, <2>1, NextEntryType, KeepPlaces
<1>4. ASSUME NEW l \in {"drop", "stray"}, NEW it, call[t].op \in LoopOps
      PROVE  LoopOK(l, call[t], it, seen[t], Spanned(t), place'[it.shard])
  BY <1>3, <1>4, SpannedOK DEF LoopOK
<1>5. ASSUME SetIter(t, Iterator(s, p, At(place[s], p), mode)), Goto(t, "drop"),
             UNCHANGED mutexes
      PROVE  IInv'
  <2> DEFINE it == Iterator(s, p, At(place[s], p), mode)
  <2>1. /\ it \in IterType /\ ValidAt(place', it) /\ it.shard = s /\ it.lock = mode
        /\ IterOK("drop", it)
    BY <1>1, <1>2, <1>3, IteratorOK DEF Labels
  <2> HIDE DEF it
  <2>2. Effect(t, "drop", call[t], it, seen[t])
    BY <1>1, <1>2, <1>5, <2>1, Types DEF Core, Goto, SetIter, Effect, Others, Labels, it
  <2>3. MutexOK'
    <3>1. \A r, m : Has("drop", it, r, m) <=> Has(pc[t], iter[t], r, m)
      BY <1>1, <2>1, OneShard
    <3> QED  BY <1>2, <1>5, <2>2, <3>1, KeepLocks
  <2> QED  BY <1>1, <1>2, <1>3, <1>4, <2>1, <2>2, <2>3, IterStep
<1>6. ASSUME s > 0, Unlocked(t, s, mode), Goto(t, "stray"),
             SetIter(t, Iterator(s - 1, capacity(place[s - 1]), None, None))
      PROVE  IInv'
  <2> DEFINE it == Iterator(s - 1, capacity(place[s - 1]), None, None)
  <2>1. s - 1 \in Shards /\ capacity(place[s - 1]) \in Int
    <3>1. s - 1 \in Shards
      BY <1>2, <1>6, ShardedAssumption DEF Shards
    <3> QED  BY <1>2, <3>1, ShardOK, MapType
  <2>2. it \in IterType /\ it.key = None /\ it.lock = None
    BY <2>1 DEF Iterator, IterType
  <2> HIDE DEF it
  <2>3. Effect(t, "stray", call[t], it, seen[t])
    BY <1>1, <1>2, <1>6, <2>2, Types DEF Core, Goto, SetIter, Effect, Others, Labels, it
  <2>4. MutexOK'
    <3>1. Has(pc[t], iter[t], s, mode)
      BY <1>1, OneShard
    <3>2. \A r \in Shards, m \in {"shared", "exclusive"} :
            Has("stray", it, r, m) <=> Has(pc[t], iter[t], r, m) /\ ~(r = s /\ m = mode)
      BY <1>1, <2>2, OneShard, NoneAssumption
    <3> QED  BY <1>2, <1>6, <2>3, <3>1, <3>2, ReleaseLock
  <2>5. IterOK("stray", it) /\ ValidAt(place', it)
    BY <2>2 DEF IterOK, ValidAt
  <2> QED  BY <1>1, <1>2, <1>3, <1>4, <2>3, <2>4, <2>5, IterStep
<1> QED
  BY <1>5, <1>6, <1>2 DEF Retreat, Shards

(* A key that is there is in its shard.                                    *)
LEMMA KeyOfTable ==
  ASSUME Core, NEW k \in InTable(place)
  PROVE  /\ k \in Keys /\ to_shard_idx(k) \in Shards
         /\ \E p \in Entries(place[to_shard_idx(k)]) : place[to_shard_idx(k)][p] = k
<1>1. PICK s \in Shards : k \in KeysIn(place[s])
  BY DEF InTable
<1>2. to_shard_idx(k) = s /\ k \in Keys
  BY <1>1, ShardOK
<1> QED
  BY <1>1, <1>2 DEF KeysIn

(* What is known of a loop.                                                *)
LEMMA LoopHistory ==
  ASSUME IInv, NEW t \in Threads, UNCHANGED place, call[t].op \in LoopOps
  PROVE  /\ LoopOK(pc[t], call[t], iter[t], seen[t], Spanned(t), place[iter[t].shard])
         /\ Spanned(t).due \subseteq InTable(place) /\ InTable(place) \subseteq Spanned(t).ever
<1>1. Written(t)
  BY KeepPlaces DEF IInv
<1> QED
  BY <1>1, SpannedOK

(* What a walk or a loop has met after it has met K too.                   *)
LEMMA Visited ==
  ASSUME seen \in [Threads -> SeenType], NEW t \in Threads, NEW K \in SUBSET Keys, Visit(t, K)
  PROVE  LET so == [met |-> seen[t].met \cup K,
                    twice |-> seen[t].twice \cup (seen[t].met \cap K), moved |-> seen[t].moved]
         IN  so \in SeenType /\ seen' = [seen EXCEPT ![t] = so]
<1> DEFINE so == [met |-> seen[t].met \cup K,
                  twice |-> seen[t].twice \cup (seen[t].met \cap K), moved |-> seen[t].moved]
           S == [seen EXCEPT ![t].met = @ \cup K,
                             ![t].twice = @ \cup (seen[t].met \cap K)]
           R == [seen[t] EXCEPT !.met = @ \cup K, !.twice = @ \cup (seen[t].met \cap K)]
<1>1. seen[t] \in SeenType
  OBVIOUS
<1>2. so \in SeenType /\ R = so
  <2>1. so \in SeenType
    BY <1>1 DEF SeenType
  <2>2. R \in SeenType
    BY <1>1 DEF SeenType
  <2>3. R.met = so.met /\ R.twice = so.twice /\ R.moved = so.moved
    BY <1>1 DEF SeenType
  <2> HIDE DEF R, so
  <2>4. R = so
    BY <2>1, <2>2, <2>3 DEF SeenType
  <2> QED  BY <2>1, <2>4
<1>3. seen' = S
  BY DEF Visit
<1>4. S = [seen EXCEPT ![t] = R]
  OBVIOUS
<1> QED
  BY <1>2, <1>3, <1>4

(* it != end().                                                            *)
LEMMA TestStep ==
  ASSUME IInv, NEW t \in Threads, Test(t), Spans
  PROVE  IInv'
<1> DEFINE it == iter[t]
           sn == seen[t]
           sp == Spanned(t)
           f == place[it.shard]
           atEnd == it.shard = Last /\ it.at = capacity(place[Last])
<1>1. pc[t] = "test" /\ UNCHANGED <<place, mutexes, call, iter, calls>>
  BY DEF Test
<1>2. /\ Core /\ it.shard \in Shards /\ it \in IterType /\ sn \in SeenType
      /\ CallOK("ended", call[t]) /\ CallOK("move", call[t]) /\ CallOK("stray", call[t])
      /\ IterOK("test", it) /\ ValidAt(place, it) /\ Written(t)
  BY <1>1, InLoop, Known, KeepPlaces DEF Labels
<1>3. /\ IsMap(f) /\ Once(f)
      /\ \A k \in KeysIn(f) : to_shard_idx(k) = it.shard
  BY <1>2, ShardOK
<1>4. ASSUME NEW l \in {"ended", "move", "stray"}, l = "move" => it.lock # None,
             NEW so \in SeenType, Effect(t, l, call[t], it, so),
             call[t].op \in LoopOps => LoopOK(l, call[t], it, so, sp, f)
      PROVE  IInv'
  <2>1. IterOK(l, it)
    BY <1>2, <1>4 DEF IterOK
  <2>2. MutexOK'
    <3>1. \A r, m : Has(l, it, r, m) <=> Has(pc[t], iter[t], r, m)
      BY <1>1, <1>4, OneShard
    <3> QED  BY <1>1, <1>2, <1>4, <3>1, KeepLocks
  <2>3. CallOK(l, call[t])
    BY <1>2
  <2> HIDE DEF sp, f
  <2>4. call[t].op \in LoopOps => LoopOK(l, call[t], it, so, Spanned(t), place'[it.shard])
    BY <1>1, <1>4 DEF sp, f
  <2> HIDE DEF it
  <2>5. ValidAt(place', it)
    BY <1>1, <1>2
  <2> QED  BY <1>1, <1>2, <1>4, <2>1, <2>2, <2>3, <2>4, <2>5, IterStep
<1>5. ASSUME call[t].op \in LoopOps
      PROVE  /\ sn.twice \subseteq sn.moved /\ sn.met \subseteq sp.ever
             /\ IF it.lock = None THEN sp.due = {} ELSE OnTheWay("test", it, sn, sp, f)
             /\ sp.due \subseteq InTable(place) /\ InTable(place) \subseteq sp.ever
  <2>1. LoopOK("test", call[t], it, sn, sp, f)
    BY <1>1, <1>5, LoopHistory
  <2>2. sp.due \subseteq InTable(place) /\ InTable(place) \subseteq sp.ever
    BY <1>1, <1>5, LoopHistory
  <2> HIDE DEF it, sn, sp, f
  <2> QED  BY <1>5, <2>1, <2>2 DEF LoopOK
<1>6. ASSUME atEnd, Goto(t, "ended"), UNCHANGED seen
      PROVE  IInv'
  <2>1. Effect(t, "ended", call[t], it, sn)
    BY <1>1, <1>2, <1>6, Types DEF Core, Goto, Effect, Others, Labels
  <2>2. ASSUME call[t].op \in LoopOps, it.lock # None, NEW k \in sp.due
        PROVE  k \in sn.met \cup sn.moved
    <3>1. OnTheWay("test", it, sn, sp, f) /\ k \in InTable(place)
      BY <1>5, <2>2
    <3>2. /\ to_shard_idx(k) \in Shards
          /\ \E p \in Entries(place[to_shard_idx(k)]) : place[to_shard_idx(k)][p] = k
      BY <1>2, <3>1, KeyOfTable
    <3>3. SUFFICES ASSUME k \notin sn.met \cup sn.moved PROVE FALSE
      OBVIOUS
    <3>4. to_shard_idx(k) >= it.shard
      BY <2>2, <3>1, <3>3 DEF OnTheWay
    <3>5. to_shard_idx(k) = it.shard
      BY <1>6, <3>2, <3>4, ShardedAssumption DEF Shards, Last
    <3>6. PICK p \in Entries(f) : f[p] = k
      BY <3>2, <3>5
    <3>7. p < it.at /\ p \in Int
      <4>1. f = place[Last] /\ capacity(f) \in Nat /\ p \in 0 .. capacity(f) - 1
        BY <1>3, <1>6, <3>6, MapType
      <4> QED  BY <1>6, <4>1
    <3>8. Behind("test", p, it.at)
      BY <3>7 DEF Behind
    <3>9. f[p] \in sn.moved \/ f[p] \in sn.met \/ f[p] \notin sp.due
      BY <3>1, <3>6, <3>8 DEF OnTheWay
    <3> QED  BY <2>2, <3>3, <3>6, <3>9
  <2>3. call[t].op \in LoopOps => LoopOK("ended", call[t], it, sn, sp, f)
    <3> HIDE DEF it, sn, sp, f
    <3> QED  BY <1>5, <2>2 DEF LoopOK
  <2> QED  BY <1>2, <1>4, <2>1, <2>3
<1>7. ASSUME ~atEnd, it.key # None, Visit(t, {it.key}), Goto(t, "move")
      PROVE  IInv'
  <2> DEFINE so == [met |-> sn.met \cup {it.key}, twice |-> sn.twice \cup (sn.met \cap {it.key}),
                    moved |-> sn.moved]
  <2>1. /\ it.lock # None /\ it.at \in Entries(f) /\ f[it.at] = it.key
        /\ to_shard_idx(it.key) = it.shard /\ it.key \in Keys
    BY <1>2, <1>7 DEF IterOK, ValidAt, IterType
  <2>2. so \in SeenType
    BY <1>2, <2>1 DEF SeenType
  <2>3. seen' = [seen EXCEPT ![t] = so]
    <3>1. seen \in [Threads -> SeenType] /\ {it.key} \in SUBSET Keys
      BY <1>2, <2>1, Types DEF Core
    <3> QED  BY <1>7, <3>1, Visited
  <2>4. Effect(t, "move", call[t], it, so)
    <3> HIDE DEF so
    <3> QED  BY <1>1, <1>2, <1>7, <2>2, <2>3, Types DEF Core, Goto, Effect, Others, Labels
  <2>5. ASSUME call[t].op \in LoopOps
        PROVE  LoopOK("move", call[t], it, so, sp, f)
    <3> DEFINE a == it.at
               k == it.key
    <3>1. /\ sn.twice \subseteq sn.moved /\ sn.met \subseteq sp.ever
          /\ OnTheWay("test", it, sn, sp, f) /\ k \in sp.ever
      <4>1. k \in InTable(place)
        BY <1>2, <2>1 DEF InTable, KeysIn
      <4> QED  BY <1>5, <2>1, <2>5, <4>1
    <3>2. k \in sn.met => k \in sn.moved
      <4>1. a \in Int
        BY <1>2 DEF IterType
      <4>2. ~Behind("test", a, a)
        BY <4>1 DEF Behind
      <4> QED  BY <2>1, <3>1, <4>2 DEF OnTheWay
    <3>3. so.twice \subseteq so.moved /\ so.met \subseteq sp.ever
      BY <3>1, <3>2
    <3>4. ASSUME NEW q \in Entries(f)
          PROVE  \/ f[q] \in so.moved
                 \/ Behind("move", q, a) /\ (f[q] \in so.met \/ f[q] \notin sp.due)
                 \/ ~Behind("move", q, a) /\ f[q] \notin so.met
      <4>1. q \in Int /\ a \in Int
        BY <1>2, <1>3, MapType DEF IterType
      <4>2. CASE q = a
        BY <2>1, <4>1, <4>2 DEF Behind
      <4>3. CASE q # a
        <5>1. f[q] # k
          BY <1>3, <2>1, <4>3 DEF Once
        <5>2. Behind("move", q, a) <=> Behind("test", q, a)
          BY <4>1, <4>3 DEF Behind
        <5>3. \/ f[q] \in sn.moved
              \/ Behind("test", q, a) /\ (f[q] \in sn.met \/ f[q] \notin sp.due)
              \/ ~Behind("test", q, a) /\ f[q] \notin sn.met
          BY <3>1 DEF OnTheWay
        <5> QED  BY <5>1, <5>2, <5>3
      <4> QED  BY <4>2, <4>3
    <3>5. /\ \A j \in sp.due \ (so.met \cup so.moved) : to_shard_idx(j) >= it.shard
          /\ \A j \in so.met \ so.moved : to_shard_idx(j) <= it.shard
      <4>1. it.shard <= it.shard
        BY <1>2 DEF Shards
      <4> QED  BY <2>1, <3>1, <4>1 DEF OnTheWay
    <3> HIDE DEF so, sp, f
    <3>6. OnTheWay("move", it, so, sp, f)
      BY <3>4, <3>5 DEF OnTheWay
    <3> HIDE DEF it
    <3> QED  BY <2>1, <3>3, <3>6 DEF LoopOK
  <2> HIDE DEF so
  <2> QED  BY <1>2, <1>4, <2>1, <2>2, <2>4, <2>5
<1>8. ASSUME Goto(t, "stray"), UNCHANGED seen
      PROVE  IInv'
  <2>1. Effect(t, "stray", call[t], it, sn)
    BY <1>1, <1>2, <1>8, Types DEF Core, Goto, Effect, Others, Labels
  <2>2. call[t].op \in LoopOps => LoopOK("stray", call[t], it, sn, sp, f)
    <3> HIDE DEF it, sn, sp, f
    <3> QED  BY <1>5 DEF LoopOK
  <2> QED  BY <1>2, <1>4, <2>1, <2>2
<1> QED
  BY <1>6, <1>7, <1>8 DEF Test

(* An iterator that lands in a shard: what it has come by is met.          *)
LEMMA LandedHistory ==
  ASSUME NEW f, IsMap(f), NEW p \in Int, NEW n, n = NextEntry(f, p), NEW s, NEW it,
         it.shard = s, it.at = n, NEW l, l = (IF is_right(f, n) /\ s < Last THEN "hop" ELSE "test"),
         NEW sn, NEW sp,
         \A k \in sp.due \ (sn.met \cup sn.moved) : to_shard_idx(k) >= s,
         \A k \in sn.met \ sn.moved : to_shard_idx(k) <= s,
         \A q \in Entries(f) :
           \/ f[q] \in sn.moved
           \/ q <= p /\ (f[q] \in sn.met \/ f[q] \notin sp.due)
           \/ q > p /\ f[q] \notin sn.met
  PROVE  OnTheWay(l, it, sn, sp, f)
<1>1. /\ n \in Int
      /\ \A q \in Entries(f) : q \in Int /\ (q > p <=> q >= n)
      /\ is_right(f, n) => \A q \in Entries(f) : q < n
  BY NextEntryType
<1>2. ASSUME NEW q \in Entries(f)
      PROVE  /\ q > p <=> ~Behind(l, q, n)
             /\ q <= p <=> Behind(l, q, n)
  <2>1. q \in Int /\ (q > p <=> q >= n) /\ (is_right(f, n) => q < n)
    BY <1>1
  <2>2. CASE l = "hop"
    <3>1. is_right(f, n)
      BY <2>2
    <3>2. Behind(l, q, n)
      BY <2>2 DEF Behind
    <3> QED  BY <1>1, <2>1, <3>1, <3>2
  <2>3. CASE l = "test"
    <3>1. Behind(l, q, n) <=> q < n
      BY <2>3 DEF Behind
    <3> QED  BY <1>1, <2>1, <3>1
  <2> QED  BY <2>2, <2>3
<1> QED
  BY <1>2 DEF OnTheWay

(* operator++ inside a shard, or to its end.                               *)
LEMMA AdvanceStep ==
  ASSUME IInv, NEW t \in Threads, Advance(t), Spans
  PROVE  IInv'
<1> DEFINE s == iter[t].shard
           a == iter[t].at
           f == place[s]
           n == NextEntry(f, a)
           mode == iter[t].lock
           it == Iterator(s, n, At(f, n), mode)
           l == IF is_right(f, n) /\ s < Last THEN "hop" ELSE "test"
           sn == seen[t]
           sp == Spanned(t)
<1>1. /\ pc[t] = "move" /\ SetIter(t, it) /\ Goto(t, l)
      /\ UNCHANGED <<place, mutexes, call, seen, calls>>
  BY DEF Advance, Landed
<1>2. /\ Core /\ s \in Shards /\ a \in Int /\ mode \in {"shared", "exclusive"}
      /\ CallOK(l, call[t]) /\ Written(t)
  <2>1. Core /\ iter[t] \in IterType /\ IterOK("move", iter[t])
    BY <1>1, InLoop, Known
  <2>2. CallOK(l, call[t])
    BY <1>1, InLoop DEF Labels
  <2> QED  BY <1>1, <2>1, <2>2, KeepPlaces DEF IterType, IterOK
<1>3. IsMap(f) /\ n \in Int
  <2>1. IsMap(f)
    BY <1>2, ShardOK
  <2> QED  BY <1>2, <2>1, NextEntryType
<1>4. /\ it \in IterType /\ ValidAt(place', it) /\ IterOK(l, it)
      /\ it.shard = s /\ it.at = n /\ it.lock = mode /\ l \in {"hop", "test"}
  <2>1. /\ it \in IterType /\ ValidAt(place', it)
        /\ it.shard = s /\ it.at = n /\ it.lock = mode
        /\ IterOK("test", it) /\ (s < Last => IterOK("hop", it))
    <3>1. "test" \in Labels \ {"idle", "key", "walk", "begin", "hop", "enter"}
      BY DEF Labels
    <3> HIDE DEF it, n, s
    <3> QED  BY <1>1, <1>2, <1>3, <3>1, IteratorOK DEF it
  <2> HIDE DEF it
  <2> QED  BY <2>1
<1>5. Effect(t, l, call[t], it, sn)
  <2>1. l \in Labels
    BY DEF Labels
  <2> HIDE DEF it, l
  <2> QED  BY <1>1, <1>2, <1>4, <2>1, Types DEF Core, Goto, SetIter, Effect, Others
<1>6. MutexOK'
  <2> HIDE DEF it, l, s, mode
  <2>1. \A r, m : Has(l, it, r, m) <=> Has(pc[t], iter[t], r, m)
    BY <1>1, <1>4, OneShard DEF s, mode
  <2> QED  BY <1>1, <1>2, <1>5, <2>1, KeepLocks
<1>7. ASSUME call[t].op \in LoopOps
      PROVE  LoopOK(l, call[t], it, sn, Spanned(t), place'[it.shard])
  <2>1. LoopOK("move", call[t], iter[t], sn, sp, f)
    BY <1>1, <1>7, LoopHistory
  <2>2. /\ sn.twice \subseteq sn.moved /\ sn.met \subseteq sp.ever
        /\ OnTheWay("move", iter[t], sn, sp, f)
    <3> HIDE DEF sn, sp, f
    <3> QED  BY <1>2, <1>7, <2>1, NoneAssumption DEF LoopOK
  <2>3. \A q \in Entries(f) :
           \/ f[q] \in sn.moved
           \/ q <= a /\ (f[q] \in sn.met \/ f[q] \notin sp.due)
           \/ q > a /\ f[q] \notin sn.met
    <3>1. \A q \in Entries(f) : q \in Int
      BY <1>2, <1>3, NextEntryType
    <3>2. \A q \in Entries(f) : Behind("move", q, a) <=> q <= a
      BY <1>2, <3>1 DEF Behind
    <3>3. \A q \in Entries(f) : ~Behind("move", q, a) <=> q > a
      BY <1>2, <3>1 DEF Behind
    <3> HIDE DEF sn, sp, f
    <3> QED  BY <2>2, <3>2, <3>3 DEF OnTheWay
  <2>4. OnTheWay(l, it, sn, sp, f)
    <3>1. /\ \A k \in sp.due \ (sn.met \cup sn.moved) : to_shard_idx(k) >= s
          /\ \A k \in sn.met \ sn.moved : to_shard_idx(k) <= s
      BY <2>2 DEF OnTheWay
    <3>2. n = NextEntry(f, a) /\ l = IF is_right(f, n) /\ s < Last THEN "hop" ELSE "test"
      OBVIOUS
    <3> HIDE DEF sn, sp, f, it, s, a, n, l
    <3> QED  BY <1>2, <1>3, <1>4, <2>3, <3>1, <3>2, LandedHistory
  <2>5. place'[it.shard] = f
    BY <1>1, <1>4
  <2>6. LoopOK(l, call[t], it, sn, sp, f)
    <3> HIDE DEF sn, sp, f, it, s, a, n, l, mode
    <3> QED  BY <1>2, <1>4, <2>2, <2>4, NoneAssumption DEF LoopOK
  <2> QED  BY <2>5, <2>6
<1> HIDE DEF it, l, sn, sp, f, n
<1> QED
  BY <1>1, <1>2, <1>4, <1>5, <1>6, <1>7, IterStep

(* The lock of the next shard is taken.                                    *)
LEMMA LockNextStep ==
  ASSUME IInv, NEW t \in Threads, LockNext(t), Spans
  PROVE  IInv'
<1> DEFINE it == iter[t]
           s == it.shard + 1
           mode == it.lock
           sn == seen[t]
           sp == Spanned(t)
           f == place[it.shard]
<1>1. /\ pc[t] = "hop" /\ Goto(t, "enter") /\ CanLock(s, mode) /\ Locked(t, s, mode)
      /\ UNCHANGED <<place, call, iter, seen, calls>>
  BY DEF LockNext, ShardAfter
<1>2. /\ Core /\ it.shard \in Shards /\ s \in Shards /\ mode \in {"shared", "exclusive"}
      /\ CallOK("enter", call[t]) /\ Written(t) /\ IterOK("hop", it) /\ ValidAt(place, it)
  <2>1. Core /\ it \in IterType /\ IterOK("hop", it) /\ ValidAt(place, it)
    BY <1>1, InLoop, Known
  <2>2. CallOK("enter", call[t])
    BY <1>1, InLoop DEF Labels
  <2>3. it.shard \in Shards /\ it.shard < Last /\ mode \in {"shared", "exclusive"}
    BY <2>1 DEF IterType, IterOK
  <2>4. s \in Shards
    BY <2>3, ShardedAssumption DEF Shards, Last
  <2> QED  BY <1>1, <2>1, <2>2, <2>3, <2>4, KeepPlaces
<1>3. Effect(t, "enter", call[t], it, sn)
  BY <1>1, <1>2, Types DEF Core, Goto, Effect, Others, Labels
<1>4. MutexOK'
  <2>1. \A r \in Shards, m \in {"shared", "exclusive"} :
          Has("enter", it, r, m) <=> Has(pc[t], it, r, m) \/ (r = s /\ m = mode)
    <3>1. LocksIn("enter", it) = {it.shard, s} /\ LocksIn(pc[t], it) = {it.shard}
      BY <1>1 DEF LocksIn, ShardAfter
    <3> QED  BY <3>1 DEF Has
  <2> QED  BY <1>1, <1>2, <1>3, <2>1, TakeLock
<1>5. IterOK("enter", it)
  BY <1>2 DEF IterOK
<1>6. ASSUME call[t].op \in LoopOps
      PROVE  LoopOK("enter", call[t], it, sn, Spanned(t), place'[it.shard])
  <2>1. LoopOK("hop", call[t], it, sn, sp, f)
    BY <1>1, <1>6, LoopHistory
  <2>2. OnTheWay("hop", it, sn, sp, f) => OnTheWay("enter", it, sn, sp, f)
    BY DEF OnTheWay, Behind
  <2>3. place'[it.shard] = f
    BY <1>1
  <2> HIDE DEF it, sn, sp, f
  <2>4. LoopOK("enter", call[t], it, sn, sp, f)
    BY <2>1, <2>2 DEF LoopOK
  <2> QED  BY <2>3, <2>4 DEF sp
<1> HIDE DEF s, mode, sn, sp, f
<1> QED
  BY <1>1, <1>2, <1>3, <1>4, <1>5, <1>6, IterStep

(* operator++ from one shard to the next: the lock that is left behind.    *)
LEMMA EnterStep ==
  ASSUME IInv, NEW t \in Threads, Enter(t), Spans
  PROVE  IInv'
<1> DEFINE r == iter[t].shard
           s == r + 1
           f == place[s]
           n == NextEntry(f, -1)
           mode == iter[t].lock
           it == Iterator(s, n, At(f, n), mode)
           l == IF is_right(f, n) /\ s < Last THEN "hop" ELSE "test"
           sn == seen[t]
           sp == Spanned(t)
<1>1. /\ pc[t] = "enter" /\ SetIter(t, it) /\ Goto(t, l) /\ Unlocked(t, r, mode)
      /\ UNCHANGED <<place, call, seen, calls>>
  BY DEF Enter, Landed, Left, ShardAfter
<1>2. /\ Core /\ r \in Shards /\ s \in Shards /\ mode \in {"shared", "exclusive"}
      /\ CallOK(l, call[t]) /\ Written(t)
  <2>1. Core /\ iter[t] \in IterType /\ IterOK("enter", iter[t])
    BY <1>1, InLoop, Known
  <2>2. CallOK(l, call[t])
    BY <1>1, InLoop DEF Labels
  <2>3. r \in Shards /\ r < Last /\ mode \in {"shared", "exclusive"}
    BY <2>1 DEF IterType, IterOK
  <2>4. s \in Shards
    BY <2>3, ShardedAssumption DEF Shards, Last
  <2> QED  BY <1>1, <2>1, <2>2, <2>3, <2>4, KeepPlaces
<1>3. IsMap(f) /\ n \in Int
  <2>1. IsMap(f)
    BY <1>2, ShardOK
  <2> QED  BY <2>1, NextEntryType
<1>4. /\ it \in IterType /\ ValidAt(place', it) /\ IterOK(l, it)
      /\ it.shard = s /\ it.at = n /\ it.lock = mode /\ l \in {"hop", "test"}
  <2>1. /\ it \in IterType /\ ValidAt(place', it)
        /\ it.shard = s /\ it.at = n /\ it.lock = mode
        /\ IterOK("test", it) /\ (s < Last => IterOK("hop", it))
    <3>1. "test" \in Labels \ {"idle", "key", "walk", "begin", "hop", "enter"}
      BY DEF Labels
    <3> HIDE DEF it, n, s
    <3> QED  BY <1>1, <1>2, <1>3, <3>1, IteratorOK DEF it
  <2> HIDE DEF it
  <2> QED  BY <2>1
<1>5. Effect(t, l, call[t], it, sn)
  <2>1. l \in Labels
    BY DEF Labels
  <2> HIDE DEF it, l
  <2> QED  BY <1>1, <1>2, <1>4, <2>1, Types DEF Core, Goto, SetIter, Effect, Others
<1>6. MutexOK'
  <2>1. LocksIn(pc[t], iter[t]) = {r, s} /\ r # s
    BY <1>1, <1>2 DEF LocksIn, ShardAfter, Shards
  <2> HIDE DEF it, l, s, r, mode
  <2>2. \A u, m : Has(l, it, u, m) <=> mode = m /\ u = s
    BY <1>4, OneShard
  <2>3. \A u, m : Has(pc[t], iter[t], u, m) <=> mode = m /\ u \in {r, s}
    BY <2>1 DEF Has, mode
  <2> QED  BY <1>1, <1>2, <1>5, <2>1, <2>2, <2>3, ReleaseLock
<1>7. ASSUME call[t].op \in LoopOps
      PROVE  LoopOK(l, call[t], it, sn, Spanned(t), place'[it.shard])
  <2>1. LoopOK("enter", call[t], iter[t], sn, sp, place[r]) /\ sp.due \subseteq InTable(place)
    BY <1>1, <1>7, LoopHistory
  <2>2. /\ sn.twice \subseteq sn.moved /\ sn.met \subseteq sp.ever
        /\ OnTheWay("enter", iter[t], sn, sp, place[r])
    <3> HIDE DEF sn, sp, r
    <3> QED  BY <1>2, <1>7, <2>1, NoneAssumption DEF LoopOK
  <2>3. ASSUME NEW k \in sp.due \ (sn.met \cup sn.moved)
        PROVE  to_shard_idx(k) >= s
    <3>1. k \in InTable(place)
      BY <2>1
    <3>2. /\ to_shard_idx(k) \in Shards
          /\ \E p \in Entries(place[to_shard_idx(k)]) : place[to_shard_idx(k)][p] = k
      BY <1>2, <3>1, KeyOfTable
    <3>3. to_shard_idx(k) >= r
      BY <2>2 DEF OnTheWay
    <3>4. to_shard_idx(k) # r
      <4>1. SUFFICES ASSUME to_shard_idx(k) = r PROVE FALSE
        OBVIOUS
      <4>2. PICK p \in Entries(place[r]) : place[r][p] = k
        BY <3>2, <4>1
      <4>3. Behind("enter", p, iter[t].at)
        BY DEF Behind
      <4> HIDE DEF r, sn, sp
      <4> QED  BY <2>2, <2>3, <4>2, <4>3 DEF OnTheWay
    <3> QED  BY <1>2, <3>2, <3>3, <3>4 DEF Shards
  <2>4. ASSUME NEW k \in sn.met \ sn.moved
        PROVE  to_shard_idx(k) <= s /\ to_shard_idx(k) # s
    <3>1. to_shard_idx(k) <= r
      BY <2>2 DEF OnTheWay
    <3>2. to_shard_idx(k) \in Shards
      <4>1. k \in Keys
        BY <1>1, InLoop DEF SeenType
      <4> QED  BY <4>1, ShardOfKey
    <3> QED  BY <1>2, <3>1, <3>2 DEF Shards
  <2>5. ASSUME NEW q \in Entries(f)
        PROVE  \/ f[q] \in sn.moved
               \/ q <= -1 /\ (f[q] \in sn.met \/ f[q] \notin sp.due)
               \/ q > -1 /\ f[q] \notin sn.met
    <3>1. q > -1
      BY <1>3, MapType
    <3>2. to_shard_idx(f[q]) = s
      BY <1>2, ShardOK DEF KeysIn
    <3> HIDE DEF sn, sp
    <3> QED  BY <2>4, <3>1, <3>2
  <2>6. OnTheWay(l, it, sn, sp, f)
    <3>2. n = NextEntry(f, -1) /\ l = IF is_right(f, n) /\ s < Last THEN "hop" ELSE "test"
      OBVIOUS
    <3>3. -1 \in Int
      OBVIOUS
    <3> DEFINE a == -1
    <3> HIDE DEF sn, sp, f, it, s, n, l, a
    <3> QED  BY <1>2, <1>3, <1>4, <2>3, <2>4, <2>5, <3>2, <3>3, LandedHistory DEF a
  <2>7. place'[it.shard] = f
    BY <1>1, <1>4
  <2>8. LoopOK(l, call[t], it, sn, sp, f)
    <3> HIDE DEF sn, sp, f, it, s, n, l, mode
    <3> QED  BY <1>2, <1>4, <2>2, <2>6, NoneAssumption DEF LoopOK
  <2> QED  BY <2>7, <2>8
<1> HIDE DEF it, l, sn, sp, f, n
<1> QED
  BY <1>1, <1>2, <1>4, <1>5, <1>6, <1>7, IterStep

(* begin() finds all shards empty.                                         *)
LEMMA BeginIsEndStep ==
  ASSUME IInv, NEW t \in Threads, BeginIsEnd(t), Spans
  PROVE  IInv'
<1> DEFINE it == Iterator(Last, capacity(place[Last]), None, None)
           sn == seen[t]
           sp == Spanned(t)
<1>1. /\ pc[t] = "begin" /\ call[t].shard > Last /\ SetIter(t, it) /\ Goto(t, "test")
      /\ UNCHANGED <<place, mutexes, call, seen, calls>>
  BY DEF BeginIsEnd
<1>2. /\ Core /\ Last \in Shards /\ CallOK("test", call[t]) /\ iter[t] = NoIter /\ Written(t)
      /\ call[t] \in CallType /\ sn \in SeenType
  <2>1. Core /\ IterOK("begin", iter[t]) /\ CallOK("test", call[t])
    BY <1>1, InLoop, Known DEF Labels
  <2>2. Last \in Shards
    BY ShardedAssumption DEF Shards, Last
  <2> QED  BY <1>1, <2>1, <2>2, InLoop, KeepPlaces DEF IterOK
<1>3. it \in IterType /\ it.key = None /\ it.lock = None
  <2>1. capacity(place[Last]) \in Int
    BY <1>2, ShardOK, MapType
  <2> QED  BY <1>2, <2>1 DEF Iterator, IterType
<1> HIDE DEF it
<1>4. Effect(t, "test", call[t], it, sn)
  BY <1>1, <1>2, <1>3, Types DEF Core, Goto, SetIter, Effect, Others, Labels
<1>5. MutexOK'
  <2>1. \A r \in Shards, m \in {"shared", "exclusive"} :
          Has("test", it, r, m) <=> Has(pc[t], iter[t], r, m)
    BY <1>2, <1>3, OneShard, Nothing, NoneAssumption
  <2> QED  BY <1>1, <1>2, <1>4, <2>1, KeepLocks
<1>6. IterOK("test", it) /\ ValidAt(place', it)
  BY <1>3 DEF IterOK, ValidAt
<1>7. ASSUME call[t].op \in LoopOps
      PROVE  LoopOK("test", call[t], it, sn, Spanned(t), place'[it.shard])
  <2>1. /\ LoopOK("begin", call[t], iter[t], sn, sp, place[iter[t].shard])
        /\ sp.due \subseteq InTable(place)
    BY <1>1, <1>7, LoopHistory
  <2>2. /\ sn.twice \subseteq sn.moved /\ sn.met \subseteq sp.ever
        /\ \A k \in sp.due : to_shard_idx(k) >= call[t].shard
    <3> HIDE DEF sn, sp
    <3> QED  BY <1>7, <2>1 DEF LoopOK
  <2>3. sp.due = {}
    <3>1. ASSUME NEW k \in sp.due PROVE FALSE
      <4>1. to_shard_idx(k) \in Shards
        BY <1>2, <2>1, KeyOfTable
      <4>2. call[t].shard \in Nat /\ to_shard_idx(k) >= call[t].shard
        BY <1>2, <2>2, ShardedAssumption DEF CallType
      <4> QED  BY <1>1, <4>1, <4>2, ShardedAssumption DEF Shards, Last
    <3> QED  BY <3>1
  <2> HIDE DEF sn, sp
  <2>4. LoopOK("test", call[t], it, sn, sp, place'[it.shard])
    BY <1>3, <2>2, <2>3 DEF LoopOK
  <2> QED  BY <2>4 DEF sp
<1> HIDE DEF sn, sp
<1> QED
  BY <1>1, <1>2, <1>4, <1>5, <1>6, <1>7, IterStep

(* begin().                                                                *)
LEMMA BeginStep ==
  ASSUME IInv, NEW t \in Threads, Begin(t), Spans
  PROVE  IInv'
<1> DEFINE s == call[t].shard
           f == place[s]
           p == NextEntry(f, -1)
           mode == Mode(call[t])
           sn == seen[t]
           sp == Spanned(t)
<1>1. /\ pc[t] = "begin" /\ s <= Last /\ CanLock(s, mode) /\ UNCHANGED <<place, seen, calls>>
  BY DEF Begin
<1>2. /\ Core /\ s \in Shards /\ CallOK("begin", call[t]) /\ iter[t] = NoIter /\ Written(t)
      /\ call[t] \in CallType /\ sn \in SeenType /\ call[t].op \in LoopOps
      /\ mode \in {"shared", "exclusive"}
  <2>1. Core /\ IterOK("begin", iter[t]) /\ CallOK("begin", call[t]) /\ call[t] \in CallType
    BY <1>1, InLoop, Known
  <2>2. s \in Shards
    BY <1>1, <2>1, ShardedAssumption DEF Shards, Last, CallType
  <2> QED  BY <1>1, <2>1, <2>2, InLoop, KeepPlaces DEF IterOK, CallOK, Mode
<1>3. /\ IsMap(f) /\ p \in Int /\ \A q \in Entries(f) : q \in Int /\ (q > -1 <=> q >= p) /\ q > -1
      /\ ~is_right(f, p) => p \in Entries(f)
      /\ is_right(f, p) => \A q \in Entries(f) : q < p
  <2>1. IsMap(f)
    BY <1>2, ShardOK
  <2>2. \A q \in Entries(f) : q > -1
    BY <2>1, MapType
  <2> QED  BY <2>1, <2>2, NextEntryType
<1>4. /\ sn = Unseen /\ sn.twice \subseteq sn.moved /\ sn.met \subseteq sp.ever
      /\ \A k \in sp.due : to_shard_idx(k) >= s
      /\ sp.due \subseteq InTable(place)
  <2>1. /\ LoopOK("begin", call[t], iter[t], sn, sp, place[iter[t].shard])
        /\ sp.due \subseteq InTable(place)
    BY <1>1, <1>2, LoopHistory
  <2> HIDE DEF sn, sp
  <2> QED  BY <1>2, <2>1 DEF LoopOK
<1>5. ASSUME is_right(f, p), call' = [call EXCEPT ![t].shard = @ + 1],
             UNCHANGED <<mutexes, iter, pc>>
      PROVE  IInv'
  <2> DEFINE c == [call[t] EXCEPT !.shard = @ + 1]
  <2>1. c \in CallType /\ c.op = call[t].op /\ c.key = call[t].key /\ c.shard = s + 1
    <3>1. s + 1 \in 0 .. NumShards
      BY <1>2, ShardedAssumption DEF Shards
    <3> QED  BY <1>2, <3>1 DEF CallType
  <2>2. call' = [call EXCEPT ![t] = c]
    BY <1>5
  <2> HIDE DEF c
  <2>3. Effect(t, "begin", c, NoIter, sn)
    BY <1>1, <1>2, <1>5, <2>1, <2>2, Types, Nothing DEF Core, Effect, Others
  <2>4. CallOK("begin", c) /\ IterOK("begin", NoIter) /\ ValidAt(place', NoIter)
    BY <1>2, <2>1, Nothing DEF CallOK, IterOK, ValidAt
  <2>5. MutexOK'
    BY <1>1, <1>2, <1>5, <2>3, KeepLocks
  <2>6. LoopOK("begin", c, NoIter, sn, Spanned(t), place'[NoIter.shard])
    <3>1. ASSUME NEW k \in sp.due PROVE to_shard_idx(k) >= s + 1
      <4>1. k \in InTable(place)
        BY <1>4
      <4>2. /\ to_shard_idx(k) \in Shards /\ to_shard_idx(k) >= s
            /\ \E q \in Entries(place[to_shard_idx(k)]) : place[to_shard_idx(k)][q] = k
        BY <1>2, <1>4, <4>1, KeyOfTable
      <4>3. to_shard_idx(k) # s
        BY <1>3, <1>5, <4>2
      <4> QED  BY <1>2, <4>2, <4>3 DEF Shards
    <3> HIDE DEF sn, sp
    <3>2. LoopOK("begin", c, NoIter, sn, sp, place'[NoIter.shard])
      BY <1>4, <2>1, <3>1 DEF LoopOK
    <3> QED  BY <3>2 DEF sp
  <2> HIDE DEF sn
  <2> QED  BY <1>1, <1>2, <2>1, <2>3, <2>4, <2>5, <2>6, IterStep
<1>6. ASSUME ~is_right(f, p), Locked(t, s, mode), Goto(t, "test"), UNCHANGED call,
             SetIter(t, Iterator(s, p, f[p], mode))
      PROVE  IInv'
  <2> DEFINE it == Iterator(s, p, At(f, p), mode)
  <2>1. At(f, p) = f[p]
    BY <1>3, <1>6 DEF At
  <2>2. SetIter(t, it)
    BY <1>6, <2>1
  <2>3. /\ it \in IterType /\ ValidAt(place', it) /\ IterOK("test", it)
        /\ it.shard = s /\ it.at = p /\ it.lock = mode
    <3>1. "test" \in Labels \ {"idle", "key", "walk", "begin", "hop", "enter"}
      BY DEF Labels
    <3> HIDE DEF it, p, s, mode
    <3> QED  BY <1>1, <1>2, <1>3, <3>1, IteratorOK DEF it
  <2> HIDE DEF it
  <2>4. CallOK("test", call[t])
    BY <1>1, InLoop DEF Labels
  <2>5. Effect(t, "test", call[t], it, sn)
    BY <1>1, <1>2, <1>6, <2>2, <2>3, Types DEF Core, Goto, SetIter, Effect, Others, Labels
  <2>6. MutexOK'
    <3> HIDE DEF s, mode
    <3>1. \A r \in Shards, m \in {"shared", "exclusive"} :
            Has("test", it, r, m) <=> Has(pc[t], iter[t], r, m) \/ (r = s /\ m = mode)
      BY <1>2, <2>3, OneShard, Nothing
    <3> QED  BY <1>1, <1>2, <1>6, <2>5, <3>1, TakeLock
  <2>7. OnTheWay("test", it, sn, sp, f)
    <3>1. p = NextEntry(f, -1) /\ "test" = IF is_right(f, p) /\ s < Last THEN "hop" ELSE "test"
      BY <1>6
    <3>2. /\ \A k \in sp.due \ (sn.met \cup sn.moved) : to_shard_idx(k) >= s
          /\ \A k \in sn.met \ sn.moved : to_shard_idx(k) <= s
          /\ \A q \in Entries(f) :
               \/ f[q] \in sn.moved
               \/ q <= -1 /\ (f[q] \in sn.met \/ f[q] \notin sp.due)
               \/ q > -1 /\ f[q] \notin sn.met
      <4> HIDE DEF sp, f, p
      <4> QED  BY <1>3, <1>4 DEF Unseen
    <3> DEFINE a == -1  l == "test"
    <3>3. a \in Int
      OBVIOUS
    <3> HIDE DEF sn, sp, f, s, p, a, l
    <3> QED  BY <1>2, <1>3, <2>3, <3>1, <3>2, <3>3, LandedHistory DEF a, l
  <2>8. LoopOK("test", call[t], it, sn, Spanned(t), place'[it.shard])
    <3>1. place'[it.shard] = f
      BY <1>1, <2>3
    <3> HIDE DEF sn, sp, f, mode
    <3>2. LoopOK("test", call[t], it, sn, sp, f)
      BY <1>2, <1>4, <2>3, <2>7, NoneAssumption DEF LoopOK
    <3> QED  BY <3>1, <3>2 DEF sp
  <2> HIDE DEF sn
  <2> QED  BY <1>1, <1>2, <2>3, <2>4, <2>5, <2>6, <2>8, IterStep
<1> QED
  BY <1>5, <1>6 DEF Begin

(* iterator::erase.                                                        *)
LEMMA EraseItStep ==
  ASSUME IInv, NEW t \in Threads, EraseIt(t), Spans
  PROVE  IInv'
<1> DEFINE it == [iter[t] EXCEPT !.key = None]
           s == iter[t].shard
           a == iter[t].at
           k == iter[t].key
           f == place[s]
           sn == seen[t]
           sp == Spanned(t)
<1>1. /\ pc[t] = "move" /\ iter[t].lock = "exclusive" /\ k # None
      /\ SetIter(t, it) /\ UNCHANGED <<mutexes, pc, call, calls>>
  BY DEF EraseIt
<1>2. /\ Core /\ CallOK("move", call[t]) /\ s \in Shards /\ sn \in SeenType
      /\ a \in Entries(f) /\ f[a] = k /\ IsMap(f) /\ Once(f) /\ a \in Int
      /\ KeysIn(f) \subseteq Keys
  <2>1. Core /\ CallOK("move", call[t]) /\ s \in Shards /\ sn \in SeenType
    BY <1>1, InLoop DEF Labels
  <2>2. a \in Entries(f) /\ f[a] = k /\ a \in Int
    BY <1>1, <2>1, Known DEF ValidAt, IterType
  <2> QED  BY <2>1, <2>2, ShardOK
<1>3. /\ it \in IterType /\ IterOK("move", it) /\ it.key = None
      /\ it.shard = s /\ it.at = a /\ it.lock = "exclusive"
      /\ \A r, m : Has("move", it, r, m) <=> Has(pc[t], iter[t], r, m)
  BY <1>1, <1>2, Keyless
<1> HIDE DEF it
<1>4. ValidAt(place', it)
  BY <1>3 DEF ValidAt
<1>5. ASSUME call[t].op \in LoopOps, Written(t)
      PROVE  /\ sn.twice \subseteq sn.moved /\ sn.met \subseteq sp.ever
             /\ OnTheWay("move", iter[t], sn, sp, f)
             /\ sp.due \subseteq InTable(place')
  <2>1. /\ LoopOK("move", call[t], iter[t], sn, sp, f)
        /\ sp.due \subseteq InTable(place')
    BY <1>1, <1>5, SpannedOK
  <2> HIDE DEF sn, sp, f
  <2> QED  BY <1>1, <1>5, <2>1, NoneAssumption DEF LoopOK
<1>6. ASSUME NEW so \in SeenType, seen' = [seen EXCEPT ![t] = so], NEW g \in Erased(f, a),
             place' = [place EXCEPT ![s] = g],
             Written(t) /\ place'[s] = g /\ call[t].op \in LoopOps =>
               /\ so.twice \subseteq so.moved /\ so.met \subseteq sp.ever
               /\ OnTheWay("move", it, so, sp, g)
      PROVE  IInv'
  <2>1. Written(t) /\ place'[s] = g
    BY <1>1, <1>2, <1>6, ErasedThrough
  <2>2. Effect(t, "move", call[t], it, so)
    BY <1>1, <1>2, <1>3, <1>6, Types DEF Core, SetIter, Effect, Others, Labels
  <2>3. MutexOK'
    BY <1>1, <1>2, <1>3, <2>2, KeepLocks
  <2>4. ASSUME call[t].op \in LoopOps
        PROVE  LoopOK("move", call[t], it, so, Spanned(t), place'[it.shard])
    <3> HIDE DEF sp
    <3>1. LoopOK("move", call[t], it, so, sp, g)
      BY <1>3, <1>6, <2>1, <2>4, NoneAssumption DEF LoopOK
    <3> QED  BY <1>3, <2>1, <3>1 DEF sp
  <2> QED  BY <1>1, <1>2, <1>3, <1>4, <2>1, <2>2, <2>3, <2>4, IterStep
<1>7. ASSUME place' = [place EXCEPT ![s] = Freed(@, a)], UNCHANGED seen
      PROVE  IInv'
  <2> DEFINE g == Freed(f, a)
  <2>1. g \in Erased(f, a) /\ place' = [place EXCEPT ![s] = g]
    BY <1>7 DEF Erased
  <2>2. seen' = [seen EXCEPT ![t] = sn]
    BY <1>2, <1>7, Types DEF Core
  <2>3. Entries(g) = Entries(f) \ {a} /\ \A q \in Entries(f) \ {a} : g[q] = f[q]
    BY <1>2, FreedMap
  <2>4. ASSUME Written(t) /\ place'[s] = g /\ call[t].op \in LoopOps
        PROVE  /\ sn.twice \subseteq sn.moved /\ sn.met \subseteq sp.ever
               /\ OnTheWay("move", it, sn, sp, g)
    <3>1. /\ sn.twice \subseteq sn.moved /\ sn.met \subseteq sp.ever
          /\ OnTheWay("move", iter[t], sn, sp, f)
      BY <1>5, <2>4
    <3> HIDE DEF sn, sp, f, g
    <3>2. OnTheWay("move", it, sn, sp, g)
      BY <1>3, <2>3, <3>1 DEF OnTheWay
    <3> QED  BY <3>1, <3>2
  <2> HIDE DEF g, sp, f, sn
  <2> QED  BY <1>2, <1>6, <2>1, <2>2, <2>4
<1>8. ASSUME NEW g \in Erased(f, a), place' = [place EXCEPT ![s] = g],
             seen' = [seen EXCEPT ![t].moved = @ \cup KeysIn(f)]
      PROVE  IInv'
  <2> DEFINE so == [sn EXCEPT !.moved = @ \cup KeysIn(f)]
  <2>1. seen' = [seen EXCEPT ![t] = so]
    BY <1>8
  <2>2. /\ so \in SeenType /\ so.met = sn.met /\ so.twice = sn.twice
        /\ so.moved = sn.moved \cup KeysIn(f)
    BY <1>2 DEF SeenType
  <2> HIDE DEF so
  <2>3. ASSUME Written(t) /\ place'[s] = g /\ call[t].op \in LoopOps
        PROVE  /\ so.twice \subseteq so.moved /\ so.met \subseteq sp.ever
               /\ OnTheWay("move", it, so, sp, g)
    <3>1. /\ sn.twice \subseteq sn.moved /\ sn.met \subseteq sp.ever
          /\ OnTheWay("move", iter[t], sn, sp, f)
      BY <1>5, <2>3
    <3>2. \A q \in Entries(g) : g[q] \in so.moved
      <4>1. KeysIn(g) \subseteq KeysIn(f)
        BY <1>2, ErasedMap
      <4> QED  BY <2>2, <4>1 DEF KeysIn
    <3> HIDE DEF sn, sp, f
    <3>3. OnTheWay("move", it, so, sp, g)
      BY <1>3, <2>2, <3>1, <3>2 DEF OnTheWay
    <3> QED  BY <2>2, <3>1, <3>3
  <2> HIDE DEF sp, f, sn
  <2> QED  BY <1>6, <1>8, <2>1, <2>2, <2>3
<1> QED
  BY <1>7, <1>8 DEF EraseIt

-----------------------------------------------------------------------------
(* Calls over all shards.                                                  *)

InShard(K, s) == {k \in K : to_shard_idx(k) = s}

(* One shard further.                                                      *)
LEMMA BeforeNext ==
  ASSUME NEW K \in SUBSET Keys, IsFiniteSet(K), NEW s \in Shards
  PROVE  /\ Before(K, s + 1) = Before(K, s) \cup InShard(K, s)
         /\ Cardinality(Before(K, s)) \in Nat /\ Cardinality(InShard(K, s)) \in Nat
         /\ Cardinality(Before(K, s + 1)) = Cardinality(Before(K, s)) + Cardinality(InShard(K, s))
<1> DEFINE A == Before(K, s)
           B == InShard(K, s)
<1>1. s \in Int /\ \A k \in K : to_shard_idx(k) \in Int
  BY ShardOfKey DEF Shards
<1>2. Before(K, s + 1) = A \cup B /\ A \cap B = {}
  BY <1>1 DEF Before, InShard
<1>3. IsFiniteSet(A) /\ IsFiniteSet(B)
  <2>1. A \subseteq K /\ B \subseteq K
    BY DEF Before, InShard
  <2> HIDE DEF A, B
  <2> QED  BY <2>1, FS_Subset
<1> HIDE DEF A, B
<1>4. Cardinality(A \cup B) = Cardinality(A) + Cardinality(B) - Cardinality(A \cap B)
  BY <1>3, FS_Union
<1>5. Cardinality(A \cap B) = 0
  BY <1>2, FS_EmptySet
<1>6. Cardinality(A) \in Nat /\ Cardinality(B) \in Nat
  BY <1>3, FS_CardinalityType
<1>7. Cardinality(A \cup B) = Cardinality(A) + Cardinality(B)
  BY <1>4, <1>5, <1>6
<1> QED
  BY <1>2, <1>6, <1>7 DEF A, B

(* A call over all shards, in one of them.                                 *)
LEMMA WalkCalls ==
  ASSUME IInv, NEW t \in Threads, NEW o \in WalkOps, WalkCall(t, o)
  PROVE  /\ Core /\ pc[t] = "walk" /\ call[t].op = o /\ iter[t] = NoIter
         /\ call[t] \in CallType /\ call[t].shard \in Shards /\ call[t].shard <= Last
         /\ call[t].shard + 1 \in 0 .. NumShards /\ call[t].result \in Nat
         /\ CanLock(call[t].shard, Mode(call[t])) /\ Mode(call[t]) \in {"shared", "exclusive"}
         /\ seen[t] \in SeenType /\ calls' = calls
         /\ \A l \in {"walk", "ended"} : IterOK(l, NoIter)
         /\ (o \in {"find_if", "update_if"} => call[t].key \in Keys)
<1>1. /\ Core /\ pc[t] = "walk" /\ call[t].op = o /\ calls' = calls
      /\ CanLock(call[t].shard, Mode(call[t]))
  BY DEF IInv, WalkCall
<1>2. /\ call[t] \in CallType /\ seen[t] \in SeenType
      /\ CallOK("walk", call[t]) /\ IterOK("walk", iter[t])
  BY <1>1, Known
<1>3. call[t].shard <= Last /\ call[t].shard \in 0 .. NumShards /\ call[t].result \in Nat
  BY <1>2 DEF CallOK, CallType
<1>4. call[t].shard \in Shards /\ call[t].shard + 1 \in 0 .. NumShards
  BY <1>3, ShardedAssumption DEF Shards, Last
<1>5. Mode(call[t]) \in {"shared", "exclusive"}
  BY DEF Mode
<1>6. \A l \in {"walk", "ended"} : IterOK(l, NoIter)
  BY DEF IterOK, NoIter
<1> QED
  BY <1>1, <1>2, <1>3, <1>4, <1>5, <1>6 DEF IterOK, CallOK

(* What a call must have found when it is done with one more shard.        *)
Found(t, o, n, sn) ==
  LET D == Before(Spanned(t).due, call[t].shard + 1)
      E == Before(Spanned(t).ever, call[t].shard + 1)
  IN  /\ o = "size" => call[t].result + n \in Cardinality(D) .. Cardinality(E)
      /\ o = "is_empty" => call[t].result + n = 0 /\ D = {}
      /\ o \in {"find_if", "update_if"} => call[t].key \notin D
      /\ o = "for_each" => D \subseteq sn.met /\ sn.met \subseteq E /\ sn.twice = {}
      /\ o = "clear" => D = {}

(* What is left to show when a call is done with a shard.                  *)
LEMMA GoesOnStep ==
  ASSUME IInv, NEW t \in Threads, NEW o \in WalkOps, WalkCall(t, o), Spans,
         NEW n \in Nat, GoesOn(t, n), Written(t),
         NEW sn \in SeenType, seen' = [seen EXCEPT ![t] = sn], Found(t, o, n, sn)
  PROVE  IInv'
<1> DEFINE D == Before(Spanned(t).due, call[t].shard + 1)
           E == Before(Spanned(t).ever, call[t].shard + 1)
           c == [call[t] EXCEPT !.shard = @ + 1, !.result = @ + n]
           l == NextShard(t)
           sp == Spanned(t)
<1>1. /\ Core /\ pc[t] = "walk" /\ call[t].op = o /\ iter[t] = NoIter
      /\ call[t] \in CallType /\ call[t].shard \in Shards /\ call[t].shard <= Last
      /\ call[t].shard + 1 \in 0 .. NumShards /\ call[t].result \in Nat /\ calls' = calls
      /\ \A i \in {"walk", "ended"} : IterOK(i, NoIter)
      /\ (o \in {"find_if", "update_if"} => call[t].key \in Keys)
  BY WalkCalls
<1>2. /\ c \in CallType /\ c.op = o /\ c.key = call[t].key /\ c.shard = call[t].shard + 1
      /\ c.result = call[t].result + n
  <2>1. call[t].result + n \in Nat
    BY <1>1
  <2> QED  BY <1>1, <2>1 DEF CallType
<1>3. Goto(t, l) /\ call' = [call EXCEPT ![t] = c] /\ UNCHANGED <<mutexes, iter>>
  BY DEF GoesOn
<1>4. /\ l \in {"walk", "ended"} /\ l \in Labels
      /\ l = "walk" => c.shard <= Last
      /\ l = "ended" => c.shard = NumShards
  <2>1. Last = NumShards - 1 /\ NumShards \in Nat
    BY ShardedAssumption DEF Last
  <2>2. call[t].shard \in Int
    BY <1>1 DEF Shards
  <2> HIDE DEF c
  <2> QED  BY <1>1, <1>2, <2>1, <2>2 DEF NextShard, Labels
<1> HIDE DEF c, l
<1>5. Effect(t, l, c, NoIter, sn)
  BY <1>1, <1>2, <1>3, <1>4, Types DEF Core, Goto, Effect, Others
<1>6. CallOK(l, c) /\ IterOK(l, NoIter) /\ ValidAt(place', NoIter)
  BY <1>1, <1>2, <1>4, Nothing DEF CallOK, ValidAt
<1>7. MutexOK'
  <2>1. \A r \in Shards, m \in {"shared", "exclusive"} :
          Has(l, NoIter, r, m) <=> Has(pc[t], iter[t], r, m)
    BY <1>1, Nothing
  <2> QED  BY <1>1, <1>3, <1>5, <2>1, KeepLocks
<1>8. WalkOK(l, c, sn, sp)
  <2>1. Before(sp.due, c.shard) = D /\ Before(sp.ever, c.shard) = E
    BY <1>2
  <2>2. /\ o = "size" => call[t].result + n \in Cardinality(D) .. Cardinality(E)
        /\ o = "is_empty" => call[t].result + n = 0 /\ D = {}
        /\ o \in {"find_if", "update_if"} => call[t].key \notin D
        /\ o = "for_each" => D \subseteq sn.met /\ sn.met \subseteq E /\ sn.twice = {}
        /\ o = "clear" => D = {}
    BY DEF Found
  <2> HIDE DEF sp, D, E
  <2> QED  BY <1>2, <1>4, <2>1, <2>2 DEF WalkOK
<1>9. LoopOK(l, c, NoIter, sn, sp, place'[NoIter.shard])
  BY <1>2 DEF LoopOK, LoopOps, WalkOps
<1> QED
  BY <1>1, <1>2, <1>5, <1>6, <1>7, <1>8, <1>9, ActiveStep

(* What a call has found so far, and the shard that it is in.              *)
LEMMA WalkHistory ==
  ASSUME IInv, NEW t \in Threads, NEW o \in WalkOps, WalkCall(t, o), Written(t)
  PROVE  LET s == call[t].shard  sp == Spanned(t)
         IN  /\ WalkOK("walk", call[t], seen[t], sp)
             /\ sp \in [due : SUBSET Keys, ever : SUBSET Keys]
             /\ IsFiniteSet(sp.due) /\ IsFiniteSet(sp.ever)
             /\ Before(sp.due, s + 1) = Before(sp.due, s) \cup InShard(sp.due, s)
             /\ Before(sp.ever, s + 1) = Before(sp.ever, s) \cup InShard(sp.ever, s)
             /\ InShard(sp.due, s) \subseteq KeysIn(place[s])
             /\ place' = place => KeysIn(place[s]) \subseteq InShard(sp.ever, s)
<1> DEFINE s == call[t].shard
           sp == Spanned(t)
<1>1. Core /\ pc[t] = "walk" /\ s \in Shards /\ call[t].op \in WalkOps
  BY WalkCalls
<1>2. /\ WalkOK("walk", call[t], seen[t], sp)
      /\ sp \in [due : SUBSET Keys, ever : SUBSET Keys]
      /\ IsFiniteSet(sp.due) /\ IsFiniteSet(sp.ever)
      /\ sp.due \subseteq InTable(place) /\ InTable(place') \subseteq sp.ever
  BY <1>1, SpannedOK
<1> HIDE DEF sp
<1>3. /\ Before(sp.due, s + 1) = Before(sp.due, s) \cup InShard(sp.due, s)
      /\ Before(sp.ever, s + 1) = Before(sp.ever, s) \cup InShard(sp.ever, s)
  BY <1>1, <1>2, BeforeNext
<1>4. InShard(sp.due, s) \subseteq KeysIn(place[s])
  <2>1. ASSUME NEW k \in InShard(sp.due, s) PROVE k \in KeysIn(place[s])
    <3>1. k \in InTable(place) /\ to_shard_idx(k) = s
      BY <1>2 DEF InShard
    <3> QED  BY <1>1, <3>1, KeyOfTable DEF KeysIn
  <2> QED  BY <2>1
<1>5. place' = place => KeysIn(place[s]) \subseteq InShard(sp.ever, s)
  <2>1. KeysIn(place[s]) \subseteq InTable(place)
    BY <1>1 DEF InTable
  <2>2. \A k \in KeysIn(place[s]) : to_shard_idx(k) = s
    BY <1>1, ShardOK
  <2> QED  BY <1>2, <2>1, <2>2 DEF InShard
<1> QED
  BY <1>2, <1>3, <1>4, <1>5 DEF sp

(* A call that leaves its history as it is.                                *)
LEMMA SeenKept ==
  ASSUME Core, NEW t \in Threads, UNCHANGED seen
  PROVE  seen' = [seen EXCEPT ![t] = seen[t]]
BY Types DEF Core

(* size.                                                                   *)
LEMMA AddSizeStep ==
  ASSUME IInv, NEW t \in Threads, AddSize(t), Spans
  PROVE  IInv'
<1> DEFINE s == call[t].shard
           n == Cardinality(Entries(place[s]))
           sp == Spanned(t)
           D == Before(sp.due, s + 1)
           E == Before(sp.ever, s + 1)
<1>1. WalkCall(t, "size") /\ GoesOn(t, n) /\ UNCHANGED <<place, seen>> /\ "size" \in WalkOps
  BY DEF AddSize, WalkOps
<1>2. /\ Core /\ call[t].op = "size" /\ s \in Shards /\ call[t].result \in Nat
      /\ seen[t] \in SeenType
  BY <1>1, WalkCalls
<1>3. Written(t) /\ seen' = [seen EXCEPT ![t] = seen[t]]
  BY <1>1, <1>2, KeepPlaces, SeenKept
<1>4. /\ WalkOK("walk", call[t], seen[t], sp)
      /\ sp \in [due : SUBSET Keys, ever : SUBSET Keys]
      /\ IsFiniteSet(sp.due) /\ IsFiniteSet(sp.ever)
      /\ InShard(sp.due, s) \subseteq KeysIn(place[s])
      /\ KeysIn(place[s]) \subseteq InShard(sp.ever, s)
  BY <1>1, <1>3, WalkHistory
<1>5. call[t].result \in Cardinality(Before(sp.due, s)) .. Cardinality(Before(sp.ever, s))
  BY <1>2, <1>4 DEF WalkOK, WalkOps
<1>6. n = Cardinality(KeysIn(place[s])) /\ IsFiniteSet(KeysIn(place[s])) /\ n \in Nat
  <2>1. n = Cardinality(KeysIn(place[s])) /\ IsFiniteSet(KeysIn(place[s]))
    BY <1>2, ShardOK, NumKeys
  <2> HIDE DEF n
  <2> QED  BY <2>1, FS_CardinalityType
<1>7. Cardinality(InShard(sp.due, s)) <= n /\ n <= Cardinality(InShard(sp.ever, s))
  <2>1. IsFiniteSet(InShard(sp.ever, s))
    <3>1. InShard(sp.ever, s) \subseteq sp.ever
      BY DEF InShard
    <3> QED  BY <1>4, <3>1, FS_Subset
  <2> HIDE DEF n, sp, s
  <2> QED  BY <1>4, <1>6, <2>1, FS_Subset
<1>8. call[t].result + n \in Cardinality(D) .. Cardinality(E)
  <2> DEFINE a == Cardinality(Before(sp.due, s))  b == Cardinality(InShard(sp.due, s))
             d == Cardinality(Before(sp.ever, s)) e == Cardinality(InShard(sp.ever, s))
  <2>1. /\ a \in Nat /\ b \in Nat /\ d \in Nat /\ e \in Nat
        /\ Cardinality(D) = a + b /\ Cardinality(E) = d + e
    <3>1. sp.due \in SUBSET Keys /\ sp.ever \in SUBSET Keys
      BY <1>4
    <3> HIDE DEF sp, s
    <3> QED  BY <1>2, <1>4, <3>1, BeforeNext
  <2>2. call[t].result \in a .. d /\ b <= n /\ n <= e
    BY <1>5, <1>7
  <2> HIDE DEF a, b, d, e, n, D, E
  <2> QED  BY <1>2, <1>6, <2>1, <2>2
<1>9. Found(t, "size", n, seen[t])
  BY <1>8 DEF Found
<1> HIDE DEF n
<1> QED
  BY <1>1, <1>2, <1>3, <1>6, <1>9, GoesOnStep

(* is_empty.                                                               *)
LEMMA IsEmptyStep ==
  ASSUME IInv, NEW t \in Threads, IsEmpty(t), Spans
  PROVE  IInv'
<1> DEFINE s == call[t].shard
           sp == Spanned(t)
<1>1. WalkCall(t, "is_empty") /\ UNCHANGED <<place, seen>> /\ "is_empty" \in WalkOps
  BY DEF IsEmpty, WalkOps
<1>2. /\ Core /\ pc[t] = "walk" /\ call[t].op = "is_empty" /\ s \in Shards
      /\ call[t] \in CallType /\ seen[t] \in SeenType /\ iter[t] = NoIter
      /\ calls' = calls /\ IterOK("ended", NoIter)
  BY <1>1, WalkCalls
<1>3. Written(t) /\ seen' = [seen EXCEPT ![t] = seen[t]]
  BY <1>1, <1>2, KeepPlaces, SeenKept
<1>4. /\ WalkOK("walk", call[t], seen[t], sp)
      /\ sp \in [due : SUBSET Keys, ever : SUBSET Keys]
      /\ InShard(sp.due, s) \subseteq KeysIn(place[s])
      /\ KeysIn(place[s]) \subseteq InShard(sp.ever, s)
      /\ Before(sp.due, s + 1) = Before(sp.due, s) \cup InShard(sp.due, s)
  BY <1>1, <1>3, WalkHistory
<1>5. call[t].result = 0 /\ Before(sp.due, s) = {}
  <2> HIDE DEF sp
  <2> QED  BY <1>2, <1>4 DEF WalkOK, WalkOps
<1>6. ASSUME Entries(place[s]) = {}, GoesOn(t, 0)
      PROVE  IInv'
  <2>1. KeysIn(place[s]) = {}
    BY <1>6 DEF KeysIn
  <2>2. Before(sp.due, s + 1) = {}
    BY <1>4, <1>5, <2>1
  <2>3. call[t].result + 0 = 0
    BY <1>5
  <2>4. Found(t, "is_empty", 0, seen[t])
    BY <2>2, <2>3 DEF Found
  <2> QED
    BY <1>1, <1>2, <1>3, <1>6, <2>4, GoesOnStep
<1>7. ASSUME Entries(place[s]) # {}, Goto(t, "ended"), call' = [call EXCEPT ![t].result = 1],
             UNCHANGED <<mutexes, iter>>
      PROVE  IInv'
  <2> DEFINE c == [call[t] EXCEPT !.result = 1]
  <2>1. c \in CallType /\ c.op = "is_empty" /\ c.result = 1
    BY <1>2 DEF CallType
  <2>2. call' = [call EXCEPT ![t] = c]
    BY <1>7
  <2> HIDE DEF c
  <2>3. Effect(t, "ended", c, NoIter, seen[t])
    BY <1>1, <1>2, <1>7, <2>1, <2>2, Types DEF Core, Goto, Effect, Others, Labels
  <2>4. CallOK("ended", c) /\ ValidAt(place', NoIter)
    BY <2>1, Nothing DEF CallOK, ValidAt
  <2>5. MutexOK'
    <3>1. \A r \in Shards, m \in {"shared", "exclusive"} :
            Has("ended", NoIter, r, m) <=> Has(pc[t], iter[t], r, m)
      BY <1>2, Nothing
    <3> QED  BY <1>2, <1>7, <2>3, <3>1, KeepLocks
  <2>6. sp.ever # {}
    <3>1. PICK p \in Entries(place[s]) : TRUE
      BY <1>7
    <3>2. place[s][p] \in InShard(sp.ever, s)
      BY <1>4 DEF KeysIn
    <3> QED  BY <3>2 DEF InShard
  <2>7. WalkOK("ended", c, seen[t], sp)
    <3> HIDE DEF sp
    <3> QED  BY <2>1, <2>6 DEF WalkOK
  <2>8. LoopOK("ended", c, NoIter, seen[t], sp, place'[NoIter.shard])
    BY <2>1 DEF LoopOK, LoopOps
  <2> QED
    BY <1>2, <1>3, <2>1, <2>3, <2>4, <2>5, <2>7, <2>8, ActiveStep
<1> QED
  BY <1>6, <1>7 DEF IsEmpty

(* find_if and update_if.                                                  *)
LEMMA FindIfStep ==
  ASSUME IInv, NEW t \in Threads, NEW o \in {"find_if", "update_if"}, FindIf(t, o), Spans
  PROVE  IInv'
<1> DEFINE s == call[t].shard
           k == call[t].key
           mode == Mode(call[t])
           sp == Spanned(t)
<1>1. WalkCall(t, o) /\ UNCHANGED <<place, seen>> /\ o \in WalkOps
  BY DEF FindIf, WalkOps
<1>2. /\ Core /\ pc[t] = "walk" /\ call[t].op = o /\ s \in Shards /\ k \in Keys
      /\ seen[t] \in SeenType /\ iter[t] = NoIter /\ calls' = calls
      /\ CanLock(s, mode) /\ mode \in {"shared", "exclusive"}
  BY <1>1, WalkCalls
<1>3. Written(t) /\ seen' = [seen EXCEPT ![t] = seen[t]]
  BY <1>1, <1>2, KeepPlaces, SeenKept
<1>4. ASSUME k \notin KeysIn(place[s]), GoesOn(t, 0)
      PROVE  IInv'
  <2>1. /\ WalkOK("walk", call[t], seen[t], sp)
        /\ InShard(sp.due, s) \subseteq KeysIn(place[s])
        /\ Before(sp.due, s + 1) = Before(sp.due, s) \cup InShard(sp.due, s)
    BY <1>1, <1>3, WalkHistory
  <2>2. k \notin Before(sp.due, s)
    <3> HIDE DEF sp
    <3> QED  BY <1>1, <1>2, <2>1 DEF WalkOK
  <2>3. k \notin Before(sp.due, s + 1)
    BY <1>4, <2>1, <2>2
  <2>4. Found(t, o, 0, seen[t])
    BY <2>3 DEF Found
  <2> QED  BY <1>1, <1>2, <1>3, <1>4, <2>4, GoesOnStep
<1>5. ASSUME NEW p \in Entries(place[s]), place[s][p] = k, Locked(t, s, mode),
             SetIter(t, Iterator(s, p, k, mode)), Goto(t, "position"),
             call' = [call EXCEPT ![t] = NoCall]
      PROVE  IInv'
  <2> DEFINE it == Iterator(s, p, At(place[s], p), mode)
  <2>1. At(place[s], p) = k /\ p \in Int /\ "position" \in Labels \ {"idle", "key", "walk", "begin", "hop", "enter"}
    <3>1. p \in Int
      BY <1>2, ShardOK, MapType
    <3> QED  BY <1>5, <3>1 DEF At, Labels
  <2>2. SetIter(t, it)
    BY <1>5, <2>1
  <2>3. /\ it \in IterType /\ ValidAt(place', it) /\ IterOK("position", it)
        /\ it.shard = s /\ it.lock = mode
    <3> HIDE DEF it, s, mode
    <3> QED  BY <1>1, <1>2, <2>1, IteratorOK DEF it
  <2> HIDE DEF it
  <2>4. Effect(t, "position", NoCall, it, seen[t])
    BY <1>1, <1>2, <1>5, <2>2, <2>3, Types, Nothing
    DEF Core, Goto, SetIter, Effect, Others, Labels
  <2>5. MutexOK'
    <3> HIDE DEF s, mode
    <3>1. \A r \in Shards, m \in {"shared", "exclusive"} :
            Has("position", it, r, m) <=> Has(pc[t], iter[t], r, m) \/ (r = s /\ m = mode)
      BY <1>2, <2>3, OneShard, Nothing
    <3> QED  BY <1>2, <1>5, <2>4, <3>1, TakeLock
  <2>6. CallOK("position", NoCall)
    BY Nothing DEF Labels
  <2> QED  BY <1>3, <2>3, <2>4, <2>5, <2>6, PlainStep, Nothing
<1> QED
  BY <1>4, <1>5 DEF FindIf

(* for_each.                                                               *)
LEMMA ForEachStep ==
  ASSUME IInv, NEW t \in Threads, ForEach(t), Spans
  PROVE  IInv'
<1> DEFINE s == call[t].shard
           K == KeysIn(place[s])
           sp == Spanned(t)
           sn == seen[t]
           so == [met |-> sn.met \cup K, twice |-> sn.twice \cup (sn.met \cap K),
                  moved |-> sn.moved]
<1>1. /\ WalkCall(t, "for_each") /\ Visit(t, K) /\ GoesOn(t, 0) /\ UNCHANGED place
      /\ "for_each" \in WalkOps
  BY DEF ForEach, WalkOps
<1>2. Core /\ call[t].op = "for_each" /\ s \in Shards /\ K \in SUBSET Keys
  BY <1>1, WalkCalls, ShardOK
<1>3. Written(t) /\ so \in SeenType /\ seen' = [seen EXCEPT ![t] = so]
  <2>1. seen \in [Threads -> SeenType]
    BY <1>2, Types DEF Core
  <2> HIDE DEF K
  <2> QED  BY <1>1, <1>2, <2>1, KeepPlaces, Visited
<1>4. /\ WalkOK("walk", call[t], sn, sp)
      /\ InShard(sp.due, s) \subseteq K /\ K \subseteq InShard(sp.ever, s)
      /\ Before(sp.due, s + 1) = Before(sp.due, s) \cup InShard(sp.due, s)
      /\ Before(sp.ever, s + 1) = Before(sp.ever, s) \cup InShard(sp.ever, s)
  BY <1>1, <1>3, WalkHistory
<1>5. /\ Before(sp.due, s) \subseteq sn.met /\ sn.met \subseteq Before(sp.ever, s)
      /\ sn.twice = {}
  <2> HIDE DEF sp, sn
  <2> QED  BY <1>1, <1>2, <1>4 DEF WalkOK
<1>6. sn.met \cap K = {}
  <2>1. ASSUME NEW k \in sn.met \cap K PROVE FALSE
    <3>1. k \in Before(sp.ever, s) /\ k \in InShard(sp.ever, s)
      BY <1>4, <1>5
    <3> QED  BY <1>2, <3>1 DEF Before, InShard, Shards
  <2> QED  BY <2>1
<1>7. /\ Before(sp.due, s + 1) \subseteq so.met /\ so.met \subseteq Before(sp.ever, s + 1)
      /\ so.twice = {}
  <2> HIDE DEF K, sp, sn
  <2> QED  BY <1>4, <1>5, <1>6
<1>8. Found(t, "for_each", 0, so)
  BY <1>7 DEF Found
<1> HIDE DEF so, K
<1> QED
  BY <1>1, <1>2, <1>3, <1>8, GoesOnStep

(* erase_if, clear and resize.                                             *)
LEMMA ChangeStep ==
  ASSUME IInv, NEW t \in Threads, NEW o \in {"erase_if", "clear", "resize"}, Change(t, o), Spans
  PROVE  IInv'
<1> DEFINE s == call[t].shard
           K == KeysIn(place[s])
           sp == Spanned(t)
<1>1. WalkCall(t, o) /\ GoesOn(t, 0) /\ UNCHANGED seen /\ o \in WalkOps
  BY DEF Change, WalkOps
<1>2. PICK X, f : /\ X \subseteq K /\ (o = "clear" => X = K)
                  /\ f \in Rearranged(K \ X) /\ place' = [place EXCEPT ![s] = f]
  <2>1. CASE o = "erase_if"
    BY <2>1 DEF Change
  <2>2. CASE o = "clear"
    BY <2>2 DEF Change
  <2>3. CASE o = "resize"
    BY <2>3 DEF Change
  <2> QED  BY <2>1, <2>2, <2>3
<1>3. /\ Core /\ call[t].op = o /\ s \in Shards /\ K \subseteq Keys /\ seen[t] \in SeenType
      /\ CanLock(s, "exclusive") /\ \A k \in K : to_shard_idx(k) = s
  <2>1. Core /\ call[t].op = o /\ s \in Shards /\ CanLock(s, Mode(call[t])) /\ seen[t] \in SeenType
    BY <1>1, WalkCalls
  <2>2. Mode(call[t]) = "exclusive"
    BY <2>1 DEF Mode, ReadOps
  <2> QED  BY <2>1, <2>2, ShardOK
<1>4. IsMap(f) /\ KeysIn(f) = K \ X /\ KeysOK(f, s)
  <2>1. K \ X \in SUBSET Keys
    BY <1>3
  <2>2. IsMap(f) /\ KeysIn(f) = K \ X /\ Once(f)
    BY <1>2, <2>1, RearrangedMap
  <2> QED  BY <1>3, <2>2 DEF KeysOK
<1>5. Written(t) /\ place'[s] = f /\ \A r \in Shards \ {s} : place'[r] = place[r]
  BY <1>2, <1>3, <1>4, ExclusiveWrite
<1>6. seen' = [seen EXCEPT ![t] = seen[t]]
  BY <1>1, <1>3, SeenKept
<1>7. ASSUME o = "clear" PROVE Before(sp.due, s + 1) = {}
  <2>1. /\ WalkOK("walk", call[t], seen[t], sp)
        /\ Before(sp.due, s + 1) = Before(sp.due, s) \cup InShard(sp.due, s)
    BY <1>1, <1>5, WalkHistory
  <2>2. Before(sp.due, s) = {}
    <3> HIDE DEF sp
    <3> QED  BY <1>1, <1>3, <1>7, <2>1 DEF WalkOK
  <2>3. ASSUME NEW k \in InShard(sp.due, s) PROVE FALSE
    <3>1. k \in InTable(place') /\ to_shard_idx(k) = s
      BY <1>1, <1>3, <1>5, SpannedOK DEF InShard
    <3>2. PICK r \in Shards : k \in KeysIn(place'[r])
      BY <3>1 DEF InTable
    <3>3. CASE r = s
      BY <1>2, <1>4, <1>5, <1>7, <3>2, <3>3
    <3>4. CASE r # s
      <4>1. k \in KeysIn(place[r])
        BY <1>5, <3>2, <3>4
      <4> QED  BY <1>3, <3>1, <3>4, <4>1, ShardOK
    <3> QED  BY <3>3, <3>4
  <2> QED  BY <2>1, <2>2, <2>3
<1>8. Found(t, o, 0, seen[t])
  BY <1>7 DEF Found
<1> QED
  BY <1>1, <1>3, <1>5, <1>6, <1>8, GoesOnStep

-----------------------------------------------------------------------------
(* The specification.                                                      *)

(* A call begins.                                                          *)
LEMMA CallStep ==
  ASSUME IInv, NEW t \in Threads, NEW o \in KeyOps \cup WalkOps \cup LoopOps,
         NEW k \in Keys \cup {None}, Call(t, o, k), Spans
  PROVE  IInv'
<1> DEFINE c == [NoCall EXCEPT !.op = o, !.key = k]
           l == IF o \in KeyOps THEN "key" ELSE IF o \in WalkOps THEN "walk" ELSE "begin"
<1>1. /\ pc[t] = "idle" /\ Goto(t, l) /\ call' = [call EXCEPT ![t] = c]
      /\ seen' = [seen EXCEPT ![t] = Unseen] /\ calls' = [calls EXCEPT ![t] = @ + 1]
      /\ UNCHANGED <<place, mutexes, iter>>
      /\ k # None \/ o \notin KeyOps \cup {"find_if", "update_if"}
  BY DEF Call
<1>2. Core /\ iter[t] = NoIter /\ Written(t)
  <2>1. Core
    BY DEF IInv
  <2> QED  BY <1>1, <2>1, Known, KeepPlaces DEF IterOK
<1>3. /\ c \in CallType /\ c.op = o /\ c.key = k /\ c.shard = 0 /\ c.result = 0
      /\ l \in Labels /\ l # "enter"
  <2>1. NoCall \in CallType /\ NoCall.shard = 0 /\ NoCall.result = 0
    BY Nothing DEF NoCall
  <2>2. /\ c \in CallType /\ c.op = o /\ c.key = k
        /\ c.shard = NoCall.shard /\ c.result = NoCall.result
    BY <2>1 DEF CallType
  <2> HIDE DEF c
  <2> QED  BY <2>1, <2>2 DEF Labels
<1>4. CallOK(l, c)
  <2>1. 0 <= Last
    BY ShardedAssumption DEF Last
  <2> HIDE DEF c
  <2> QED  BY <1>1, <1>3, <2>1 DEF CallOK
<1>5. /\ o \in WalkOps => l = "walk"
      /\ o \in LoopOps => l = "begin"
  BY DEF KeyOps, WalkOps, LoopOps
<1> HIDE DEF c
<1>6. Effect(t, l, c, NoIter, Unseen)
  <2>1. calls' \in [Threads -> Nat]
    BY <1>1, <1>2, Types DEF Core
  <2> HIDE DEF l
  <2> QED  BY <1>1, <1>2, <1>3, <2>1, Types, Nothing DEF Core, Goto, Effect, Others
<1>7. IterOK(l, NoIter) /\ ValidAt(place', NoIter)
  BY Nothing DEF IterOK, ValidAt
<1>8. MutexOK'
  <2> HIDE DEF l
  <2>1. \A r \in Shards, m \in {"shared", "exclusive"} :
          Has(l, NoIter, r, m) <=> Has(pc[t], iter[t], r, m)
    BY <1>2, Nothing
  <2> QED  BY <1>1, <1>2, <1>6, <2>1, KeepLocks
<1>9. Core'
  <2> HIDE DEF l
  <2> QED  BY <1>2, <1>4, <1>6, <1>7, <1>8, CoreStep
<1>10. WalkOK(l, c, Unseen, span'[t])
  <2>1. CASE o \in WalkOps
    <3>1. \A K \in SUBSET Keys : Before(K, 0) = {}
      BY ShardOfKey DEF Before, Shards
    <3>2. span'[t] \in [due : SUBSET Keys, ever : SUBSET Keys]
      <4>1. TypeOK'
        BY <1>9 DEF Core
      <4> QED  BY <4>1 DEF TypeOK
    <3>3. /\ Before(span'[t].due, c.shard) = {} /\ Before(span'[t].ever, c.shard) = {}
          /\ Cardinality({}) = 0
      BY <1>3, <3>1, <3>2, FS_EmptySet
    <3>4. Unseen.met = {} /\ Unseen.twice = {}
      BY DEF Unseen
    <3> HIDE DEF l
    <3> QED  BY <1>3, <1>5, <2>1, <3>3, <3>4 DEF WalkOK
  <2>2. CASE o \notin WalkOps
    BY <1>3, <2>2 DEF WalkOK
  <2> QED  BY <2>1, <2>2
<1>11. LoopOK(l, c, NoIter, Unseen, span'[t], place'[NoIter.shard])
  <2>1. CASE o \in LoopOps
    <3>1. \A k2 \in Keys : to_shard_idx(k2) >= 0
      BY ShardOfKey DEF Shards
    <3>2. span'[t] \in [due : SUBSET Keys, ever : SUBSET Keys]
      <4>1. TypeOK'
        BY <1>9 DEF Core
      <4> QED  BY <4>1 DEF TypeOK
    <3>3. Unseen.met = {} /\ Unseen.twice = {} /\ l = "begin"
      BY <1>5, <2>1 DEF Unseen
    <3> HIDE DEF l
    <3> QED  BY <1>3, <3>1, <3>2, <3>3 DEF LoopOK
  <2>2. CASE o \notin LoopOps
    BY <1>3, <2>2 DEF LoopOK
  <2> QED  BY <2>1, <2>2
<1>12. HistoryOK'
  <2> HIDE DEF l
  <2> QED  BY <1>1, <1>2, <1>6, <1>9, <1>10, <1>11, HistoryStep
<1> QED
  BY <1>9, <1>12 DEF IInv

(* Nobody has anything at the beginning, and every key is in its shard.    *)
LEMMA InitIInv == Init => IInv
<1> SUFFICES ASSUME Init PROVE IInv
  OBVIOUS
<1>1. /\ place \in Contents
      /\ writer = [s \in Shards |-> None] /\ readers = [s \in Shards |-> {}]
      /\ pc = [t \in Threads |-> "idle"] /\ call = [t \in Threads |-> NoCall]
      /\ iter = [t \in Threads |-> NoIter] /\ seen = [t \in Threads |-> Unseen]
      /\ span = [t \in Threads |-> NoSpan] /\ calls = [t \in Threads |-> 0]
  BY DEF Init
<1>2. /\ place \in Tables
      /\ \A s \in Shards :
           /\ \A k \in KeysIn(place[s]) : to_shard_idx(k) = s
           /\ \A p \in Entries(place[s]), q \in Entries(place[s]) :
                place[s][p] = place[s][q] => p = q
  BY <1>1, ContentsAssumption DEF Tables
<1>3. TypeOK
  <2>1. pc \in [Threads -> Labels]
    BY <1>1 DEF Labels
  <2>2. span \in [Threads -> [due : SUBSET Keys, ever : SUBSET Keys]]
    BY <1>1 DEF NoSpan
  <2> QED  BY <1>1, <1>2, <2>1, <2>2, Types, Nothing
<1>4. PlaceOK
  BY <1>2 DEF PlaceOK, KeysOK, Once
<1>5. ShapeOK
  BY <1>1, Nothing DEF ShapeOK, IterOK, Labels
<1>6. LockOK
  BY <1>1, Nothing, ShardedAssumption DEF LockOK
<1>7. PositionsValid
  BY <1>1, Nothing DEF PositionsValid
<1>8. HistoryOK
  BY <1>1, Nothing DEF HistoryOK, SpanOK, LoopOK, WalkOK
<1> QED
  BY <1>3, <1>4, <1>5, <1>6, <1>7, <1>8 DEF IInv, Core

(* The steps inside calls and loops.                                       *)
LEMMA InsideStep ==
  ASSUME IInv, NEW t \in Threads, Inside(t), Spans
  PROVE  IInv'
<1>1. CASE Find(t, "find") \/ Find(t, "update")
  BY <1>1, FindStep
<1>2. CASE Insert(t) \/ Erase(t)
  BY <1>2, InsertStep, EraseStep
<1>3. CASE AddSize(t) \/ IsEmpty(t) \/ ForEach(t)
  BY <1>3, AddSizeStep, IsEmptyStep, ForEachStep
<1>4. CASE FindIf(t, "find_if") \/ FindIf(t, "update_if")
  BY <1>4, FindIfStep
<1>5. CASE Change(t, "erase_if") \/ Change(t, "clear") \/ Change(t, "resize")
  BY <1>5, ChangeStep
<1>6. CASE Begin(t) \/ BeginIsEnd(t) \/ Test(t)
  BY <1>6, BeginStep, BeginIsEndStep, TestStep
<1>7. CASE Advance(t) \/ LockNext(t) \/ Enter(t)
  BY <1>7, AdvanceStep, LockNextStep, EnterStep
<1> QED
  BY <1>1, <1>2, <1>3, <1>4, <1>5, <1>6, <1>7, Zenon DEF Inside

(* Every step keeps the invariant.                                         *)
LEMMA NextIInv == IInv /\ [Next]_vars => IInv'
<1> SUFFICES ASSUME IInv, [Next]_vars PROVE IInv'
  OBVIOUS
<1>1. CASE UNCHANGED vars
  BY <1>1 DEF vars, mutexes, IInv, Core, TypeOK, ShapeOK, LockOK, PlaceOK, PositionsValid,
              HistoryOK, SpanOK, InTable
<1>2. CASE Next
  <2>1. PICK t \in Threads :
          /\ Spans
          /\ \/ \E o \in KeyOps \cup WalkOps \cup LoopOps, k \in Keys \cup {None} : Call(t, o, k)
             \/ Inside(t) \/ Caller(t) \/ Drop(t)
    BY <1>2, Zenon DEF Next
  <2>2. CASE \E o \in KeyOps \cup WalkOps \cup LoopOps, k \in Keys \cup {None} : Call(t, o, k)
    BY <2>1, <2>2, CallStep
  <2>3. CASE Inside(t)
    BY <2>1, <2>3, InsideStep
  <2>4. CASE Caller(t)
    BY <2>1, <2>4, EraseAtStep, DowngradeStep, ToIteratorStep, RetreatStep, EraseItStep DEF Caller
  <2>5. CASE Drop(t)
    BY <2>1, <2>5, DropStep
  <2> QED  BY <2>1, <2>2, <2>3, <2>4, <2>5
<1> QED
  BY <1>1, <1>2

(* The invariant: types, who holds which lock, where each key is, and what *)
(* calls over all shards and loops have found so far.                      *)
THEOREM InductiveInvariant == Spec => []IInv
<1> QED
  BY InitIInv, NextIInv, PTL DEF Spec

(* The mutex of each shard is held by exactly those whose position or      *)
(* iterator is in it, or enters it: operator++ hands over in time.         *)
THEOREM LocksFollow == Spec => []LocksFollowIterators
<1>1. IInv => LocksFollowIterators
  <2> SUFFICES ASSUME IInv PROVE LocksFollowIterators
    OBVIOUS
  <2>1. TypeOK /\ LockOK
    BY DEF IInv, Core
  <2>2. \A t \in Threads : LocksOf(t) = LocksIn(pc[t], iter[t])
    BY DEF LocksOf, LocksIn
  <2> QED  BY <2>1, <2>2 DEF LocksFollowIterators, LockOK, Has
<1> QED
  BY <1>1, InductiveInvariant, PTL

(* What a position or an iterator was given for stays there while it is    *)
(* kept, whatever the other threads do to the table.                       *)
THEOREM PositionsStayValid == Spec => []PositionsValid
<1>1. IInv => PositionsValid
  BY DEF IInv, Core
<1> QED
  BY <1>1, InductiveInvariant, PTL

(* A loop from begin() to end() meets what is in the table all the time,   *)
(* and none twice, but for the keys of shards that it rearranged itself.   *)
THEOREM LoopsMeetEverything == Spec => []LoopsMeetAll
<1>1. IInv => LoopsMeetAll
  <2> SUFFICES ASSUME IInv, NEW t \in Threads, pc[t] = "ended", call[t].op \in LoopOps
               PROVE  /\ span[t].due \subseteq seen[t].met \cup seen[t].moved
                      /\ seen[t].met \subseteq span[t].ever
                      /\ seen[t].twice \subseteq seen[t].moved
    BY DEF LoopsMeetAll
  <2> QED  BY DEF IInv, HistoryOK, LoopOK
<1> QED
  BY <1>1, InductiveInvariant, PTL

(* What calls over all shards return is bounded by what was in the table   *)
(* all the time and what was there some time.                              *)
THEOREM WalksStayConsistent == Spec => []WalksConsistent
<1>1. IInv => WalksConsistent
  <2> SUFFICES ASSUME IInv, NEW t \in Threads, pc[t] = "ended", call[t].op \in WalkOps
               PROVE  LET due == span[t].due  ever == span[t].ever  c == call[t]
                      IN  /\ c.op = "size" => c.result \in Cardinality(due) .. Cardinality(ever)
                          /\ c.op = "is_empty" => IF c.result = 0 THEN due = {} ELSE ever # {}
                          /\ c.op \in {"find_if", "update_if"} => c.key \notin due
                          /\ c.op = "for_each" =>
                               /\ due \subseteq seen[t].met /\ seen[t].met \subseteq ever
                               /\ seen[t].twice = {}
                          /\ c.op = "clear" => due = {}
    BY DEF WalksConsistent
  <2> DEFINE due == span[t].due  ever == span[t].ever  c == call[t]
  <2>1. WalkOK("ended", c, seen[t], span[t])
    BY DEF IInv, HistoryOK
  <2>2. due \subseteq Keys /\ ever \subseteq Keys
    BY Known DEF IInv
  <2>3. ASSUME NEW K \in SUBSET Keys PROVE Before(K, NumShards) = K
    BY ShardOfKey, ShardedAssumption DEF Before, Shards
  <2>4. Before(due, NumShards) = due /\ Before(ever, NumShards) = ever
    BY <2>2, <2>3
  <2>5. c.shard = NumShards \/ (c.op = "is_empty" /\ c.result # 0)
    BY <2>1 DEF WalkOK
  <2>6. CASE c.shard = NumShards
    <3> HIDE DEF c
    <3> QED  BY <2>1, <2>4, <2>6 DEF WalkOK, c
  <2>7. CASE c.op = "is_empty" /\ c.result # 0
    BY <2>1, <2>7 DEF WalkOK
  <2> QED  BY <2>5, <2>6, <2>7
<1> QED
  BY <1>1, InductiveInvariant, PTL
===============================================================================
