----------------------------- MODULE GuardedProofs -----------------------------
(***************************************************************************)
(* Proofs about Guarded, for any number of threads, maps, keys, positions  *)
(* and calls: every lock belongs to a call or to a position, what a        *)
(* position was given for is still there when it is used, and no walk is   *)
(* disturbed.                                                              *)
(***************************************************************************)
EXTENDS Guarded, TLAPS, FiniteSetTheorems, SequenceTheorems

-----------------------------------------------------------------------------
(* The first and the last of a set of positions.                           *)

(* A set of positions that is not empty has a first one and a last one.    *)
LEMMA MinMax ==
  ASSUME NEW Q \in SUBSET Pos, Q # {}
  PROVE  Min(Q) \in Q /\ Max(Q) \in Q
<1> DEFINE R == StrictSubsetOrdering(Pos)
<1>1. IsFiniteSet(Pos)
  BY FS_Interval, GuardedAssumption DEF Pos
<1>2. IsWellFoundedOn(R, SUBSET Pos)
  <2>1. FiniteSubsetsOf(Pos) = SUBSET Pos
    BY <1>1, FS_FiniteSubsetsOfFinite
  <2> QED  BY <2>1, FS_StrictSubsetOrderingWellFounded
<1>3. \E x \in Q : \A y \in Q : x <= y
  <2> DEFINE T == {1 .. q : q \in Q}
  <2>1. T \subseteq SUBSET Pos /\ T # {}
    <3>1. \A q \in Q : (1 .. q) \subseteq Pos
      BY GuardedAssumption DEF Pos
    <3> QED  BY <3>1, Zenon
  <2>2. PICK X \in T : \A Y \in T : ~ (<<Y, X>> \in R)
    BY <1>2, <2>1, WFMin
  <2>3. PICK x \in Q : X = 1 .. x
    OBVIOUS
  <2>4. ASSUME NEW y \in Q, y < x PROVE FALSE
    <3>1. 1 .. y \subseteq 1 .. x /\ x \in 1 .. x /\ x \notin 1 .. y
      BY <2>4, GuardedAssumption DEF Pos
    <3>2. (1 .. y) \in T /\ X \in T
      BY <2>2, Zenon
    <3>3. (1 .. y) \in SUBSET Pos /\ X \in SUBSET Pos
      BY <2>1, <3>2
    <3>4. <<1 .. y, X>> \in R
      BY <2>3, <3>1, <3>3 DEF StrictSubsetOrdering
    <3> QED  BY <2>2, <3>2, <3>4
  <2> QED  BY <2>4, GuardedAssumption DEF Pos
<1>4. \E x \in Q : \A y \in Q : x >= y
  <2> DEFINE T == {q .. NumPos : q \in Q}
  <2>1. T \subseteq SUBSET Pos /\ T # {}
    <3>1. \A q \in Q : (q .. NumPos) \subseteq Pos
      BY GuardedAssumption DEF Pos
    <3> QED  BY <3>1, Zenon
  <2>2. PICK X \in T : \A Y \in T : ~ (<<Y, X>> \in R)
    BY <1>2, <2>1, WFMin
  <2>3. PICK x \in Q : X = x .. NumPos
    OBVIOUS
  <2>4. ASSUME NEW y \in Q, y > x PROVE FALSE
    <3>1. y .. NumPos \subseteq x .. NumPos /\ x \in x .. NumPos /\ x \notin y .. NumPos
      BY <2>4, GuardedAssumption DEF Pos
    <3>2. (y .. NumPos) \in T /\ X \in T
      BY <2>2, Zenon
    <3>3. (y .. NumPos) \in SUBSET Pos /\ X \in SUBSET Pos
      BY <2>1, <3>2
    <3>4. <<y .. NumPos, X>> \in R
      BY <2>3, <3>1, <3>3 DEF StrictSubsetOrdering
    <3> QED  BY <2>2, <3>2, <3>4
  <2> QED  BY <2>4, GuardedAssumption DEF Pos
<1> QED
  BY <1>3, <1>4 DEF Min, Max

(* A search ends at one of the positions it looks for or nowhere.          *)
LEMMA SearchType ==
  ASSUME NEW P \in SUBSET Pos, NEW p
  PROVE  NextIn(P, p) \in P \cup {npos} /\ PrevIn(P, p) \in P \cup {npos}
<1>1. {q \in P : q > p} # {} => Min({q \in P : q > p}) \in P
  BY MinMax
<1>2. {q \in P : q < p} # {} => Max({q \in P : q < p}) \in P
  BY MinMax
<1> QED
  BY <1>1, <1>2 DEF NextIn, PrevIn

-----------------------------------------------------------------------------
(* Sequences of positions.                                                 *)

(* What is left when a position is dropped.                                *)
LEMMA Removal ==
  ASSUME NEW S, NEW s \in Seq(S), NEW i \in 1 .. Len(s)
  PROVE  /\ RemoveAt(s, i) \in Seq(S) /\ Len(RemoveAt(s, i)) = Len(s) - 1
         /\ \A j \in 1 .. Len(s) - 1 :
              RemoveAt(s, i)[j] = IF j < i THEN s[j] ELSE s[j + 1]
<1> DEFINE a == SubSeq(s, 1, i - 1)
           b == SubSeq(s, i + 1, Len(s))
<1>1. Len(s) \in Nat /\ \A j \in 1 .. Len(s) : s[j] \in S
  OBVIOUS
<1>2. /\ a \in Seq(S) /\ Len(a) = i - 1 /\ \A j \in 1 .. i - 1 : a[j] = s[j]
  <2>1. \A j \in 1 .. i - 1 : s[j] \in S
    BY <1>1
  <2>2. /\ a \in Seq(S) /\ Len(a) = IF 1 <= i - 1 THEN i - 1 - 1 + 1 ELSE 0
        /\ \A j \in 1 .. i - 1 - 1 + 1 : a[j] = s[1 + j - 1]
    BY <1>1, <2>1, SubSeqProperties
  <2> QED  BY <1>1, <2>2
<1>3. /\ b \in Seq(S) /\ Len(b) = Len(s) - i /\ \A j \in 1 .. Len(s) - i : b[j] = s[i + j]
  <2>1. \A j \in i + 1 .. Len(s) : s[j] \in S
    BY <1>1
  <2>2. /\ b \in Seq(S) /\ Len(b) = IF i + 1 <= Len(s) THEN Len(s) - (i + 1) + 1 ELSE 0
        /\ \A j \in 1 .. Len(s) - (i + 1) + 1 : b[j] = s[i + 1 + j - 1]
    BY <1>1, <2>1, SubSeqProperties
  <2> QED  BY <1>1, <2>2
<1> HIDE DEF a, b
<1>4. /\ a \o b \in Seq(S) /\ Len(a \o b) = Len(a) + Len(b)
      /\ \A j \in 1 .. Len(a) + Len(b) :
           (a \o b)[j] = IF j <= Len(a) THEN a[j] ELSE b[j - Len(a)]
  BY <1>2, <1>3, ConcatProperties
<1>5. RemoveAt(s, i) = a \o b
  BY DEF RemoveAt, a, b
<1>6. ASSUME NEW j \in 1 .. Len(s) - 1
      PROVE  (a \o b)[j] = IF j < i THEN s[j] ELSE s[j + 1]
  <2>1. CASE j < i
    BY <1>1, <1>2, <1>3, <1>4, <2>1
  <2>2. CASE j >= i
    <3>1. j - (i - 1) \in 1 .. Len(s) - i /\ ~(j <= Len(a)) /\ j \in 1 .. Len(a) + Len(b)
      BY <1>1, <1>2, <1>3, <2>2
    <3>2. (a \o b)[j] = b[j - (i - 1)]
      BY <1>2, <1>4, <3>1
    <3>3. b[j - (i - 1)] = s[i + (j - (i - 1))] /\ i + (j - (i - 1)) = j + 1
      BY <1>1, <1>3, <3>1
    <3> QED  BY <2>2, <3>2, <3>3
  <2>3. j < i \/ j >= i
    BY <1>1
  <2> QED  BY <2>1, <2>2, <2>3
<1> QED
  BY <1>1, <1>2, <1>3, <1>4, <1>5, <1>6

-----------------------------------------------------------------------------
(* Counting locks.                                                         *)
HeldAt(s, m, mode) == {i \in 1 .. Len(s) : s[i].map = m /\ s[i].lock = mode}

NumHeld(s, m, mode) == Cardinality(HeldAt(s, m, mode))

Is(x, m, mode) == IF x.map = m /\ x.lock = mode THEN 1 ELSE 0

(* How many elements S has, and how many without x.                        *)
CountsOut(S, x) ==
  /\ Cardinality(S) \in Nat /\ Cardinality(S \ {x}) \in Nat
  /\ x \in S => Cardinality(S) = Cardinality(S \ {x}) + 1
  /\ x \notin S => Cardinality(S) = Cardinality(S \ {x})

(* A finite set that loses an element, if it has it.                       *)
LEMMA CardMinus ==
  ASSUME NEW S, IsFiniteSet(S), NEW x
  PROVE  CountsOut(S, x)
<1>1. Cardinality(S) \in Nat
  BY FS_CardinalityType
<1>2. IsFiniteSet(S \ {x})
  BY FS_Subset
<1>3. Cardinality(S \ {x}) \in Nat
  BY <1>2, FS_CardinalityType
<1>4. ASSUME x \in S PROVE Cardinality(S) = Cardinality(S \ {x}) + 1
  <2>1. Cardinality(S \ {x}) = Cardinality(S) - 1
    BY <1>4, FS_RemoveElement
  <2> QED  BY <1>1, <2>1
<1>5. ASSUME x \notin S PROVE Cardinality(S) = Cardinality(S \ {x})
  <2>1. S \ {x} = S
    BY <1>5
  <2> QED  BY <2>1
<1> QED
  BY <1>1, <1>3, <1>4, <1>5 DEF CountsOut

(* The number of locks of a kind is a natural number.                      *)
LEMMA NumHeldType ==
  ASSUME NEW s \in Seq(Position), NEW m, NEW mode
  PROVE  /\ NumHeld(s, m, mode) \in Nat /\ IsFiniteSet(HeldAt(s, m, mode))
         /\ NumHeld(s, m, mode) = 0 <=> HeldAt(s, m, mode) = {}
<1>1. IsFiniteSet(1 .. Len(s))
  BY FS_Interval
<1>2. IsFiniteSet(HeldAt(s, m, mode))
  BY <1>1, FS_Subset DEF HeldAt
<1> QED
  BY <1>2, FS_CardinalityType, FS_EmptySet DEF NumHeld

(* Positions that keep their maps and locks.                               *)
LEMMA NumHeldSame ==
  ASSUME NEW s \in Seq(Position), NEW u \in Seq(Position), Len(u) = Len(s),
         \A i \in 1 .. Len(s) : u[i].map = s[i].map /\ u[i].lock = s[i].lock,
         NEW m, NEW mode
  PROVE  NumHeld(u, m, mode) = NumHeld(s, m, mode)
<1>1. HeldAt(u, m, mode) = HeldAt(s, m, mode)
  BY DEF HeldAt
<1> QED
  BY <1>1 DEF NumHeld

(* One position gets another lock.                                         *)
LEMMA NumHeldChange ==
  ASSUME NEW s \in Seq(Position), NEW u \in Seq(Position), Len(u) = Len(s),
         NEW i \in 1 .. Len(s), \A j \in 1 .. Len(s) : j # i => u[j] = s[j],
         NEW m, NEW mode
  PROVE  NumHeld(u, m, mode) = NumHeld(s, m, mode) + Is(u[i], m, mode) - Is(s[i], m, mode)
<1> DEFINE S == HeldAt(s, m, mode)
           U == HeldAt(u, m, mode)
           a == Is(s[i], m, mode)
           b == Is(u[i], m, mode)
<1>1. IsFiniteSet(S) /\ IsFiniteSet(U)
  BY NumHeldType
<1>2. U \ {i} = S \ {i}
  BY DEF HeldAt
<1>3. /\ i \in S => a = 1
      /\ i \notin S => a = 0
      /\ i \in U => b = 1
      /\ i \notin U => b = 0
  BY DEF HeldAt, Is
<1> HIDE DEF S, U, a, b
<1>4. CountsOut(S, i)
  BY <1>1, CardMinus
<1>5. CountsOut(U, i)
  BY <1>1, CardMinus
<1> DEFINE sc == Cardinality(S)
           uc == Cardinality(U)
           c == Cardinality(S \ {i})
<1>6. sc \in Nat /\ c \in Nat /\ (i \in S => sc = c + 1) /\ (i \notin S => sc = c)
  BY <1>4 DEF CountsOut
<1>7. uc \in Nat /\ (i \in U => uc = c + 1) /\ (i \notin U => uc = c)
  BY <1>2, <1>5 DEF CountsOut
<1> HIDE DEF sc, uc, c
<1>8. a \in Int /\ sc = c + a
  BY <1>3, <1>6
<1>9. b \in Int /\ uc = c + b
  BY <1>3, <1>7
<1>10. uc = sc + b - a
  BY <1>6, <1>8, <1>9
<1> QED
  BY <1>10 DEF sc, uc, a, b, NumHeld, S, U

(* So does one that is replaced.                                           *)
LEMMA NumHeldExcept ==
  ASSUME NEW s \in Seq(Position), NEW i \in 1 .. Len(s), NEW x \in Position,
         NEW m, NEW mode
  PROVE  NumHeld([s EXCEPT ![i] = x], m, mode)
           = NumHeld(s, m, mode) + Is(x, m, mode) - Is(s[i], m, mode)
<1> DEFINE u == [s EXCEPT ![i] = x]
<1>1. /\ u \in Seq(Position) /\ Len(u) = Len(s) /\ u[i] = x
      /\ \A j \in 1 .. Len(s) : j # i => u[j] = s[j]
  BY ExceptSeq
<1> HIDE DEF u
<1>2. NumHeld(u, m, mode) = NumHeld(s, m, mode) + Is(u[i], m, mode) - Is(s[i], m, mode)
  BY <1>1, NumHeldChange
<1> QED
  BY <1>1, <1>2 DEF u

(* A position more.                                                        *)
LEMMA NumHeldAppend ==
  ASSUME NEW s \in Seq(Position), NEW x \in Position, NEW m, NEW mode
  PROVE  /\ Append(s, x) \in Seq(Position)
         /\ NumHeld(Append(s, x), m, mode) = NumHeld(s, m, mode) + Is(x, m, mode)
<1> DEFINE u == Append(s, x)
           S == HeldAt(s, m, mode)
           U == HeldAt(u, m, mode)
           n == Len(s) + 1
<1>1. /\ u \in Seq(Position) /\ Len(u) = n /\ u[n] = x /\ Len(s) \in Nat
      /\ \A i \in 1 .. Len(s) : u[i] = s[i]
  BY AppendProperties
<1>2. Cardinality(S) \in Nat /\ IsFiniteSet(S)
  BY NumHeldType DEF NumHeld
<1> HIDE DEF u
<1>3. ASSUME x.map = m, x.lock = mode
      PROVE  Cardinality(U) = Cardinality(S) + Is(x, m, mode)
  <2>1. U = S \cup {n} /\ n \notin S
    BY <1>1, <1>3 DEF HeldAt
  <2> HIDE DEF S, U, n
  <2>2. Cardinality(U) = Cardinality(S) + 1
    BY <1>2, <2>1, FS_AddElement
  <2>3. Is(x, m, mode) = 1
    BY <1>3 DEF Is
  <2>4. Cardinality(U) = Cardinality(S) + Is(x, m, mode)
    BY <2>2, <2>3
  <2> QED  BY <2>4
<1>4. ASSUME ~(x.map = m /\ x.lock = mode)
      PROVE  Cardinality(U) = Cardinality(S) + Is(x, m, mode)
  <2>1. U = S
    BY <1>1, <1>4 DEF HeldAt
  <2> HIDE DEF S, U
  <2>2. Cardinality(U) = Cardinality(S) + 0
    BY <1>2, <2>1
  <2>3. Is(x, m, mode) = 0
    BY <1>4 DEF Is
  <2>4. Cardinality(U) = Cardinality(S) + Is(x, m, mode)
    BY <2>2, <2>3
  <2> QED  BY <2>4
<1>5. Cardinality(U) = Cardinality(S) + Is(x, m, mode)
  BY <1>3, <1>4
<1> QED
  BY <1>1, <1>5 DEF NumHeld, u

(* A position less.                                                        *)
LEMMA NumHeldRemove ==
  ASSUME NEW s \in Seq(Position), NEW i \in 1 .. Len(s), NEW m, NEW mode
  PROVE  /\ RemoveAt(s, i) \in Seq(Position)
         /\ NumHeld(RemoveAt(s, i), m, mode) = NumHeld(s, m, mode) - Is(s[i], m, mode)
<1> DEFINE u == RemoveAt(s, i)
           S == HeldAt(s, m, mode)
           U == HeldAt(u, m, mode)
           f == [j \in S \ {i} |-> IF j < i THEN j ELSE j - 1]
           c == Is(s[i], m, mode)
<1>1. /\ u \in Seq(Position) /\ Len(u) = Len(s) - 1 /\ Len(s) \in Nat
      /\ \A j \in 1 .. Len(s) - 1 : u[j] = IF j < i THEN s[j] ELSE s[j + 1]
  <2> HIDE DEF S, U, f, c
  <2>1. Len(s) \in Nat
    OBVIOUS
  <2>2. /\ u \in Seq(Position) /\ Len(u) = Len(s) - 1
        /\ \A j \in 1 .. Len(s) - 1 : u[j] = IF j < i THEN s[j] ELSE s[j + 1]
    BY Removal, Zenon
  <2> QED  BY <2>1, <2>2, Zenon
<1>2. IsFiniteSet(S) /\ c = (IF i \in S THEN 1 ELSE 0)
  BY NumHeldType DEF HeldAt, Is
<1>3. /\ Cardinality(S) \in Nat /\ IsFiniteSet(S \ {i}) /\ c \in {0, 1}
      /\ Cardinality(S) = Cardinality(S \ {i}) + c
  <2> HIDE DEF S, c
  <2>1. CountsOut(S, i)
    BY <1>2, CardMinus
  <2>2. IsFiniteSet(S \ {i})
    BY <1>2, FS_Subset
  <2>3. CASE i \in S
    BY <1>2, <2>1, <2>2, <2>3 DEF CountsOut
  <2>4. CASE i \notin S
    BY <1>2, <2>1, <2>2, <2>4 DEF CountsOut
  <2> QED  BY <2>3, <2>4
<1> HIDE DEF u
<1>4. ASSUME NEW j \in S \ {i}
      PROVE  f[j] \in U
  <2>1. j \in 1 .. Len(s) /\ s[j].map = m /\ s[j].lock = mode /\ j # i
    BY DEF HeldAt
  <2>2. CASE j < i
    <3>1. f[j] = j /\ j \in 1 .. Len(s) - 1 /\ u[j] = s[j]
      BY <1>1, <2>1, <2>2
    <3> QED  BY <1>1, <2>1, <3>1 DEF HeldAt
  <2>3. CASE ~(j < i)
    <3>1. f[j] = j - 1 /\ j - 1 \in 1 .. Len(s) - 1 /\ u[j - 1] = s[j]
      BY <1>1, <2>1, <2>3
    <3> QED  BY <1>1, <2>1, <3>1 DEF HeldAt
  <2> QED  BY <2>2, <2>3
<1>5. ASSUME NEW j \in S \ {i}, NEW l \in S \ {i}, f[j] = f[l]
      PROVE  j = l
  <2> DEFINE g(k) == IF k < i THEN k ELSE k - 1
  <2>1. j \in Int /\ l \in Int /\ i \in Int /\ j # i /\ l # i
    BY DEF HeldAt
  <2>2. f[j] = g(j) /\ f[l] = g(l)
    OBVIOUS
  <2> HIDE DEF f
  <2>3. g(j) = g(l)
    BY <1>5, <2>2
  <2> QED  BY <2>1, <2>3
<1>6. ASSUME NEW j \in U
      PROVE  \E l \in S \ {i} : f[l] = j
  <2>1. j \in 1 .. Len(s) - 1 /\ u[j].map = m /\ u[j].lock = mode
    BY <1>1 DEF HeldAt
  <2>2. CASE j < i
    <3>1. j \in S \ {i} /\ f[j] = j
      BY <1>1, <2>1, <2>2 DEF HeldAt
    <3> QED  BY <3>1
  <2>3. CASE ~(j < i)
    <3>1. j + 1 \in S \ {i} /\ f[j + 1] = j
      BY <1>1, <2>1, <2>3 DEF HeldAt
    <3> QED  BY <3>1
  <2> QED  BY <2>2, <2>3
<1> HIDE DEF S, U
<1>7. f \in Bijection(S \ {i}, U)
  <2>1. f \in [S \ {i} -> U]
    BY <1>4
  <2> HIDE DEF f
  <2> QED  BY <1>5, <1>6, <2>1 DEF Bijection, Injection, Surjection, IsInjective
<1>8. Cardinality(U) = Cardinality(S \ {i})
  BY <1>3, <1>7, FS_Bijection DEF ExistsBijection
<1>9. Cardinality(S \ {i}) \in Nat
  BY <1>3, FS_CardinalityType
<1> HIDE DEF c
<1>10. Cardinality(U) = Cardinality(S) - c
  BY <1>3, <1>8, <1>9
<1> QED
  BY <1>1, <1>10 DEF NumHeld, S, U, u, c

-----------------------------------------------------------------------------
(* The invariant.                                                          *)

(* A thread at l that is not idle is in a call c with arguments that fit.  *)
CallOK(l, c) ==
  /\ l # "idle" =>
       /\ c.op \in ReadOps \cup WriteOps \cup PairOps
       /\ c.map \in Maps
       /\ c.op \in KeyOps => c.key \in Keys
       /\ c.op \in PairOps => c.other \in Maps /\ c.other # c.map
  /\ l \in {"try_this", "try_other"} => c.op \in PairOps
  /\ l = "each" => c.op \in WalkOps

(* A call that may write has no positions of its caller to disturb: there  *)
(* are none, or only those without a lock that update_all collects.        *)
HeldOK(l, c, h) ==
  l # "idle" /\ c.op \notin ReadOps =>
    \/ h = <<>>
    \/ /\ l = "each" /\ c.op = "update_all"
       /\ \A i \in 1 .. Len(h) : h[i].map = c.map /\ h[i].lock = "deferred"

CallShape == \A t \in Threads : CallOK(pc[t], call[t]) /\ HeldOK(pc[t], call[t], held[t])

(* A mutex that is owned is not shared.                                    *)
Exclusion ==
  \A m \in Maps, t \in Threads : owner[m] # None => shares[m][t] = 0

(* The locks of a call, and all that a thread has.                         *)
Num(modes, m, mode) == IF m \in DOMAIN modes /\ modes[m] = mode THEN 1 ELSE 0

LocksIn(l, c) ==
  IF l \in {"inner", "each"} THEN Modes(c)
  ELSE IF l = "try_other" THEN One(c, c.map)
  ELSE IF l = "try_this" THEN One(c, c.other) ELSE <<>>

Locks(t, m, mode) ==
  NumHeld(held[t], m, mode) + Num(LocksIn(pc[t], call[t]), m, mode)

Accounted ==
  \A t \in Threads, m \in Maps :
    /\ shares[m][t] = Locks(t, m, "shared")
    /\ Locks(t, m, "exclusive") = IF owner[m] = t THEN 1 ELSE 0

Core == TypeOK /\ CallShape /\ Exclusion /\ Accounted

IInv == Core /\ PositionsValid

(* What was just called Locks is what LocksAccountedFor counts.            *)
LEMMA SameLocks ==
  ASSUME TypeOK, NEW t \in Threads, NEW m, NEW mode
  PROVE  Locks(t, m, mode) = NumLocks(t, m, mode)
<1>1. held[t] \in Seq(Position)
  BY DEF TypeOK
<1>2. {i \in DOMAIN held[t] : held[t][i].map = m /\ held[t][i].lock = mode}
        = HeldAt(held[t], m, mode)
  BY <1>1 DEF HeldAt
<1>3. LocksOfCall(t) = LocksIn(pc[t], call[t])
  <2>1. pc[t] \in {"idle", "lock", "try_this", "try_other", "inner", "each"}
    BY DEF TypeOK
  <2> QED  BY <2>1 DEF LocksOfCall, LocksIn
<1> QED
  BY <1>2, <1>3 DEF Locks, NumLocks, NumHeld, Num

(* The number of locks of a thread is a natural number, at least that of   *)
(* its call.                                                               *)
LEMMA LocksType ==
  ASSUME TypeOK, NEW t \in Threads, NEW m, NEW mode
  PROVE  /\ NumHeld(held[t], m, mode) \in Nat
         /\ Num(LocksIn(pc[t], call[t]), m, mode) \in {0, 1}
         /\ Locks(t, m, mode) \in Nat
         /\ Locks(t, m, mode) >= Num(LocksIn(pc[t], call[t]), m, mode)
         /\ Locks(t, m, mode) >= NumHeld(held[t], m, mode)
<1> DEFINE h == NumHeld(held[t], m, mode)
           c == Num(LocksIn(pc[t], call[t]), m, mode)
<1>1. held[t] \in Seq(Position)
  BY DEF TypeOK
<1>2. h \in Nat
  BY <1>1, NumHeldType
<1>3. c \in {0, 1}
  BY DEF Num
<1>4. Locks(t, m, mode) = h + c
  BY DEF Locks
<1> HIDE DEF h, c
<1>5. h + c \in Nat /\ h + c >= c /\ h + c >= h
  BY <1>2, <1>3
<1> QED
  BY <1>2, <1>3, <1>4, <1>5 DEF h, c

(* Nothing happens to the other threads.                                   *)
Others(t) ==
  \A u \in Threads \ {t} : held'[u] = held[u] /\ pc'[u] = pc[u] /\ call'[u] = call[u]

(* The accounts of the other threads stay as they are.                     *)
LEMMA OtherLocks ==
  ASSUME NEW t \in Threads, Others(t), NEW u \in Threads \ {t}, NEW m, NEW mode
  PROVE  Locks(u, m, mode)' = Locks(u, m, mode)
<1>1. pc'[u] = pc[u] /\ call'[u] = call[u] /\ held'[u] = held[u]
  BY DEF Others
<1> QED
  BY <1>1 DEF Locks

(* The accounts of a step of t that locks.                                 *)
LEMMA LockStep ==
  ASSUME Core, NEW t \in Threads, Others(t), NEW modes, Locked(t, modes),
         \A m \in DOMAIN modes : modes[m] \in {"shared", "exclusive"} /\ CanLock(m, modes[m]),
         \A m \in Maps, mode \in {"shared", "exclusive"} :
           Locks(t, m, mode)' = Locks(t, m, mode) + Num(modes, m, mode)
  PROVE  /\ Accounted' /\ Exclusion'
         /\ owner' \in [Maps -> Threads \cup {None}]
         /\ shares' \in [Maps -> [Threads -> Nat]]
<1>1. /\ owner \in [Maps -> Threads \cup {None}] /\ shares \in [Maps -> [Threads -> Nat]]
      /\ TypeOK /\ Accounted /\ Exclusion
  BY DEF Core, TypeOK
<1>2. /\ owner' \in [Maps -> Threads \cup {None}]
      /\ shares' \in [Maps -> [Threads -> Nat]]
  BY <1>1 DEF Locked
<1>3. ASSUME NEW m \in Maps
      PROVE  /\ owner'[m] = IF Num(modes, m, "exclusive") = 1 THEN t ELSE owner[m]
             /\ shares'[m][t] = shares[m][t] + Num(modes, m, "shared")
             /\ \A u \in Threads \ {t} : shares'[m][u] = shares[m][u]
             /\ Num(modes, m, "exclusive") = 1 =>
                  /\ owner[m] = None /\ Num(modes, m, "shared") = 0
                  /\ \A u \in Threads : shares[m][u] = 0
             /\ Num(modes, m, "shared") = 1 => owner[m] = None
  <2>1. CASE m \in DOMAIN modes /\ modes[m] = "exclusive"
    BY <1>1, <2>1 DEF Locked, Num, CanLock, CanOwn
  <2>2. CASE m \in DOMAIN modes /\ modes[m] = "shared"
    BY <1>1, <2>2 DEF Locked, Num, CanLock, CanShare
  <2>3. CASE m \notin DOMAIN modes
    BY <1>1, <2>3 DEF Locked, Num
  <2> QED  BY <2>1, <2>2, <2>3
<1>4. \A m, mode : Num(modes, m, mode) \in {0, 1}
  BY DEF Num
<1>5. ASSUME NEW u \in Threads, NEW m \in Maps
      PROVE  /\ shares'[m][u] = Locks(u, m, "shared")'
             /\ Locks(u, m, "exclusive")' = IF owner'[m] = u THEN 1 ELSE 0
  <2>1. /\ shares[m][u] = Locks(u, m, "shared")
        /\ Locks(u, m, "exclusive") = IF owner[m] = u THEN 1 ELSE 0
    BY <1>1 DEF Accounted
  <2>2. CASE u = t
    <3>1. /\ Locks(t, m, "shared")' = Locks(t, m, "shared") + Num(modes, m, "shared")
          /\ Locks(t, m, "exclusive")'
               = Locks(t, m, "exclusive") + Num(modes, m, "exclusive")
      OBVIOUS
    <3>2. None # t
      BY GuardedAssumption
    <3> QED  BY <1>3, <1>4, <2>1, <2>2, <3>1, <3>2
  <2>3. CASE u # t
    <3>1. /\ Locks(u, m, "shared")' = Locks(u, m, "shared")
          /\ Locks(u, m, "exclusive")' = Locks(u, m, "exclusive")
      BY <2>3, OtherLocks
    <3>2. owner'[m] = u <=> owner[m] = u
      BY <1>3, <2>3, GuardedAssumption
    <3> QED  BY <1>3, <2>1, <2>3, <3>1, <3>2
  <2> QED  BY <2>2, <2>3
<1>6. Exclusion'
  <2> SUFFICES ASSUME NEW m \in Maps, NEW u \in Threads, owner'[m] # None
               PROVE  shares'[m][u] = 0
    BY DEF Exclusion
  <2>1. CASE Num(modes, m, "exclusive") = 1
    BY <1>3, <2>1
  <2>2. CASE Num(modes, m, "exclusive") # 1
    <3>1. owner[m] # None /\ Num(modes, m, "shared") = 0
      BY <1>3, <1>4, <2>2
    <3>2. shares[m][u] = 0
      BY <1>1, <3>1 DEF Exclusion
    <3> QED  BY <1>3, <3>1, <3>2
  <2> QED  BY <2>1, <2>2
<1> QED
  BY <1>2, <1>5, <1>6 DEF Accounted

(* The accounts of a step of t that unlocks what it has.                   *)
LEMMA UnlockStep ==
  ASSUME Core, NEW t \in Threads, Others(t), NEW modes, Unlocked(t, modes),
         \A m \in Maps, mode \in {"shared", "exclusive"} :
           /\ Locks(t, m, mode) >= Num(modes, m, mode)
           /\ Locks(t, m, mode)' = Locks(t, m, mode) - Num(modes, m, mode)
  PROVE  /\ Accounted' /\ Exclusion'
         /\ owner' \in [Maps -> Threads \cup {None}]
         /\ shares' \in [Maps -> [Threads -> Nat]]
<1>1. /\ owner \in [Maps -> Threads \cup {None}] /\ shares \in [Maps -> [Threads -> Nat]]
      /\ TypeOK /\ Accounted /\ Exclusion
  BY DEF Core, TypeOK
<1>2. \A m, mode : Num(modes, m, mode) \in {0, 1}
  BY DEF Num
<1>3. ASSUME NEW m \in Maps
      PROVE  /\ shares[m][t] >= Num(modes, m, "shared")
             /\ Num(modes, m, "exclusive") = 1 => owner[m] = t
  <2>1. /\ shares[m][t] = Locks(t, m, "shared")
        /\ Locks(t, m, "exclusive") = IF owner[m] = t THEN 1 ELSE 0
    BY <1>1 DEF Accounted
  <2>2. /\ Locks(t, m, "shared") >= Num(modes, m, "shared")
        /\ Locks(t, m, "exclusive") >= Num(modes, m, "exclusive")
    OBVIOUS
  <2> QED  BY <2>1, <2>2
<1>4. ASSUME NEW m \in Maps
      PROVE  /\ owner'[m] = IF Num(modes, m, "exclusive") = 1 THEN None ELSE owner[m]
             /\ shares'[m] \in [Threads -> Nat]
             /\ shares'[m][t] = shares[m][t] - Num(modes, m, "shared")
             /\ \A u \in Threads \ {t} : shares'[m][u] = shares[m][u]
  <2>1. CASE m \in DOMAIN modes /\ modes[m] = "exclusive"
    BY <1>1, <2>1 DEF Unlocked, Num
  <2>2. CASE m \in DOMAIN modes /\ modes[m] = "shared"
    <3>1. shares[m][t] >= 1
      BY <1>3, <2>2 DEF Num
    <3>2. shares'[m] = [shares[m] EXCEPT ![t] = @ - 1]
      BY <2>2 DEF Unlocked
    <3> QED  BY <1>1, <2>2, <3>1, <3>2 DEF Unlocked, Num
  <2>3. CASE ~(m \in DOMAIN modes /\ modes[m] \in {"exclusive", "shared"})
    BY <1>1, <2>3 DEF Unlocked, Num
  <2> QED  BY <2>1, <2>2, <2>3
<1>5. shares' \in [Maps -> [Threads -> Nat]]
  BY <1>4 DEF Unlocked
<1>6. owner' \in [Maps -> Threads \cup {None}]
  BY <1>1 DEF Unlocked
<1>7. ASSUME NEW u \in Threads, NEW m \in Maps
      PROVE  /\ shares'[m][u] = Locks(u, m, "shared")'
             /\ Locks(u, m, "exclusive")' = IF owner'[m] = u THEN 1 ELSE 0
  <2>1. /\ shares[m][u] = Locks(u, m, "shared")
        /\ Locks(u, m, "exclusive") = IF owner[m] = u THEN 1 ELSE 0
    BY <1>1 DEF Accounted
  <2>2. CASE u = t
    <3>1. /\ Locks(t, m, "shared")' = Locks(t, m, "shared") - Num(modes, m, "shared")
          /\ Locks(t, m, "exclusive")'
               = Locks(t, m, "exclusive") - Num(modes, m, "exclusive")
      OBVIOUS
    <3>2. None # t
      BY GuardedAssumption
    <3> QED  BY <1>2, <1>3, <1>4, <2>1, <2>2, <3>1, <3>2
  <2>3. CASE u # t
    <3>1. /\ Locks(u, m, "shared")' = Locks(u, m, "shared")
          /\ Locks(u, m, "exclusive")' = Locks(u, m, "exclusive")
      BY <2>3, OtherLocks
    <3>2. owner'[m] = u <=> owner[m] = u
      BY <1>3, <1>4, <2>3, GuardedAssumption
    <3> QED  BY <1>4, <2>1, <2>3, <3>1, <3>2
  <2> QED  BY <2>2, <2>3
<1>8. Exclusion'
  <2> SUFFICES ASSUME NEW m \in Maps, NEW u \in Threads, owner'[m] # None
               PROVE  shares'[m][u] = 0
    BY DEF Exclusion
  <2>1. owner[m] # None
    BY <1>4
  <2>2. \A w \in Threads : shares[m][w] = 0
    BY <1>1, <2>1 DEF Exclusion
  <2>3. Num(modes, m, "shared") = 0
    BY <1>2, <1>3, <2>2
  <2> QED  BY <1>4, <2>2, <2>3
<1> QED
  BY <1>5, <1>6, <1>7, <1>8 DEF Accounted

(* The accounts of a step of t that moves its locks or leaves them.        *)
LEMMA SameStep ==
  ASSUME Core, NEW t \in Threads, Others(t), UNCHANGED mutex,
         \A m \in Maps, mode \in {"shared", "exclusive"} :
           Locks(t, m, mode)' = Locks(t, m, mode)
  PROVE  /\ Accounted' /\ Exclusion'
         /\ owner' \in [Maps -> Threads \cup {None}]
         /\ shares' \in [Maps -> [Threads -> Nat]]
<1>1. /\ owner' \in [Maps -> Threads \cup {None}] /\ shares' \in [Maps -> [Threads -> Nat]]
      /\ Accounted /\ owner' = owner /\ shares' = shares
  BY DEF Core, TypeOK, mutex
<1>2. Exclusion'
  BY <1>1 DEF Core, Exclusion
<1>3. ASSUME NEW u \in Threads, NEW m \in Maps, NEW mode \in {"shared", "exclusive"}
      PROVE  Locks(u, m, mode)' = Locks(u, m, mode)
  BY OtherLocks
<1> QED
  BY <1>1, <1>2, <1>3 DEF Accounted

-----------------------------------------------------------------------------
(* The parts of a step.                                                    *)

(* The types of the state but for the mutexes.                             *)
Types ==
  /\ place \in [Maps -> [Pos -> Keys \cup {Empty}]]
  /\ pc \in [Threads -> {"idle", "lock", "try_this", "try_other", "inner", "each"}]
  /\ call \in [Threads -> [op : ReadOps \cup WriteOps \cup PairOps \cup {None},
                            map : Maps \cup {None}, key : Keys \cup {None},
                            other : Maps \cup {None}]]
  /\ cursor \in [Threads -> 0 .. NumPos]
  /\ held \in [Threads -> Seq(Position)]
  /\ calls \in [Threads -> Nat]

(* A step of t keeps the invariant if it does for what t has.              *)
LEMMA CoreStep ==
  ASSUME Core, NEW t \in Threads, Others(t), Types', Accounted', Exclusion',
         owner' \in [Maps -> Threads \cup {None}],
         shares' \in [Maps -> [Threads -> Nat]],
         CallOK(pc'[t], call'[t]), HeldOK(pc'[t], call'[t], held'[t])
  PROVE  Core'
<1>1. TypeOK'
  BY DEF TypeOK, Types
<1>2. CallShape'
  <2> SUFFICES ASSUME NEW u \in Threads
               PROVE  CallOK(pc'[u], call'[u]) /\ HeldOK(pc'[u], call'[u], held'[u])
    BY DEF CallShape
  <2>1. CASE u # t
    <3>1. CallOK(pc[u], call[u]) /\ HeldOK(pc[u], call[u], held[u])
      BY DEF Core, CallShape
    <3>2. pc'[u] = pc[u] /\ call'[u] = call[u] /\ held'[u] = held[u]
      BY <2>1 DEF Others
    <3> QED  BY <3>1, <3>2
  <2>2. CASE u = t
    BY <2>2
  <2> QED  BY <2>1, <2>2
<1> QED
  BY <1>1, <1>2 DEF Core

(* A call knows the lock of each of its maps.                              *)
LEMMA ModesType ==
  ASSUME NEW c
  PROVE  /\ DOMAIN Modes(c) = MapsOf(c)
         /\ \A m \in MapsOf(c) : /\ Modes(c)[m] \in {"shared", "exclusive"}
                                 /\ Modes(c)[m] = "shared" <=> Reads(c, m)
BY DEF Modes

(* The locks of a call on one map are one lock, of the mode of the call;   *)
(* those of one on two maps are a lock of each.                            *)
LEMMA NumModes ==
  ASSUME NEW c
  PROVE  /\ c.op \notin PairOps =>
              /\ c.map \in DOMAIN Modes(c) /\ Mode(c) \in {"shared", "exclusive"}
              /\ \A m, mode :
                   Num(Modes(c), m, mode) = IF m = c.map /\ Mode(c) = mode THEN 1 ELSE 0
         /\ c.op \in PairOps /\ c.other # c.map =>
              \A m, mode : Num(Modes(c), m, mode)
                             = Num(One(c, c.map), m, mode) + Num(One(c, c.other), m, mode)
<1>1. ASSUME c.op \notin PairOps
      PROVE  /\ c.map \in DOMAIN Modes(c) /\ Mode(c) \in {"shared", "exclusive"}
             /\ \A m, mode :
                  Num(Modes(c), m, mode) = IF m = c.map /\ Mode(c) = mode THEN 1 ELSE 0
  BY <1>1, ModesType DEF MapsOf, Num, Mode
<1>2. ASSUME c.op \in PairOps, c.other # c.map, NEW m, NEW mode
      PROVE  Num(Modes(c), m, mode)
               = Num(One(c, c.map), m, mode) + Num(One(c, c.other), m, mode)
  <2>1. DOMAIN Modes(c) = {c.map, c.other}
    BY <1>2, ModesType DEF MapsOf
  <2> QED  BY <1>2, <2>1 DEF Num, One, Only
<1> QED
  BY <1>1, <1>2

(* A lock of one map.                                                      *)
LEMMA NumOnly ==
  ASSUME NEW n, NEW md
  PROVE  /\ DOMAIN Only(n, md) = {n} /\ Only(n, md)[n] = md
         /\ \A m, mode : Num(Only(n, md), m, mode) = IF m = n /\ md = mode THEN 1 ELSE 0
BY DEF Only, Num

(* The lock of one of the maps of a call.                                  *)
LEMMA OneLock ==
  ASSUME NEW c, NEW m
  PROVE  \A n \in DOMAIN One(c, m) : n = m /\ One(c, m)[n] = Modes(c)[m]
BY DEF One, Only

(* A thread that is idle or waits for its locks has none for a call.       *)
LEMMA NumNone ==
  ASSUME NEW l \in {"idle", "lock"}, NEW c, NEW m \in Maps, NEW mode
  PROVE  Num(LocksIn(l, c), m, mode) = 0
BY DEF LocksIn, Num

-----------------------------------------------------------------------------
(* The invariant is kept by calls and their locks.                         *)

(* What is known of a thread in a state with the invariant.                *)
LEMMA Known ==
  ASSUME Core, NEW t \in Threads
  PROVE  /\ Types /\ TypeOK /\ CallOK(pc[t], call[t]) /\ HeldOK(pc[t], call[t], held[t])
         /\ held[t] \in Seq(Position) /\ Len(held[t]) \in Nat /\ DOMAIN held[t] = 1 .. Len(held[t])
         /\ \A i \in DOMAIN held[t] : held[t][i] \in Position
<1>1. Types /\ TypeOK /\ CallOK(pc[t], call[t]) /\ HeldOK(pc[t], call[t], held[t])
  BY DEF Core, CallShape, TypeOK, Types
<1>2. held[t] \in Seq(Position)
  BY <1>1 DEF Types
<1> QED
  BY <1>1, <1>2

(* A call begins.                                                          *)
LEMMA CallCore ==
  ASSUME Core, NEW t \in Threads, NEW o \in ReadOps \cup WriteOps \cup PairOps,
         NEW m \in Maps, NEW k \in Keys \cup {None}, NEW n \in Maps \cup {None},
         Call(t, o, m, k, n)
  PROVE  Core'
<1>1. Types /\ TypeOK
  BY Known
<1>2. /\ pc[t] = "idle" /\ pc' = [pc EXCEPT ![t] = "lock"]
      /\ call' = [call EXCEPT ![t] = [op |-> o, map |-> m, key |-> k, other |-> n]]
      /\ held' = held /\ place' = place /\ cursor' = cursor /\ UNCHANGED mutex
      /\ calls' = [calls EXCEPT ![t] = @ + 1]
      /\ k \in IF o \in KeyOps THEN Keys ELSE {None}
      /\ n \in IF o \in PairOps THEN Maps \ {m} ELSE {None}
  BY DEF Call, Goto
<1>3. Others(t) /\ Types'
  BY <1>1, <1>2 DEF Others, Types
<1>4. /\ pc'[t] = "lock" /\ held'[t] = held[t]
      /\ call'[t] = [op |-> o, map |-> m, key |-> k, other |-> n]
  BY <1>1, <1>2 DEF Types
<1>5. CallOK(pc'[t], call'[t])
  BY <1>2, <1>4 DEF CallOK
<1>6. HeldOK(pc'[t], call'[t], held'[t])
  <2>1. held[t] = <<>> \/ o \in ReadOps
    BY DEF Call, MayCall
  <2> QED  BY <1>4, <2>1 DEF HeldOK
<1>7. ASSUME NEW x \in Maps, NEW mode \in {"shared", "exclusive"}
      PROVE  Locks(t, x, mode)' = Locks(t, x, mode)
  <2>1. Num(LocksIn(pc[t], call[t]), x, mode) = 0
    BY <1>2, NumNone
  <2>2. Num(LocksIn(pc'[t], call'[t]), x, mode) = 0
    BY <1>4, NumNone
  <2> QED  BY <1>4, <2>1, <2>2 DEF Locks
<1>8. /\ Accounted' /\ Exclusion'
      /\ owner' \in [Maps -> Threads \cup {None}] /\ shares' \in [Maps -> [Threads -> Nat]]
  BY <1>2, <1>3, <1>7, SameStep
<1> QED
  BY <1>3, <1>5, <1>6, <1>8, CoreStep

(* A step of a call that only locks, or only unlocks, and goes elsewhere.  *)
LEMMA MoveCore ==
  ASSUME Core, NEW t \in Threads,
         NEW l \in {"lock", "try_this", "try_other", "inner"},
         pc[t] \in {"lock", "try_this", "try_other"},
         pc' = [pc EXCEPT ![t] = l], l \in {"try_this", "try_other"} => call[t].op \in PairOps,
         UNCHANGED <<place, call, cursor, held, calls>>, NEW modes,
         \A m \in DOMAIN modes : modes[m] \in {"shared", "exclusive"},
         \/ /\ Locked(t, modes) /\ \A m \in DOMAIN modes : CanLock(m, modes[m])
            /\ \A m \in Maps, mode \in {"shared", "exclusive"} :
                 Num(LocksIn(l, call[t]), m, mode)
                   = Num(LocksIn(pc[t], call[t]), m, mode) + Num(modes, m, mode)
         \/ /\ Unlocked(t, modes)
            /\ \A m \in Maps, mode \in {"shared", "exclusive"} :
                 Num(LocksIn(pc[t], call[t]), m, mode)
                   = Num(LocksIn(l, call[t]), m, mode) + Num(modes, m, mode)
  PROVE  Core'
<1>1. Types /\ TypeOK /\ CallOK(pc[t], call[t]) /\ HeldOK(pc[t], call[t], held[t])
  BY Known
<1>2. pc'[t] = l /\ call'[t] = call[t] /\ held'[t] = held[t]
  BY <1>1 DEF Types
<1>3. Others(t) /\ Types'
  BY <1>1 DEF Others, Types
<1>4. CallOK(pc'[t], call'[t]) /\ HeldOK(pc'[t], call'[t], held'[t])
  BY <1>1, <1>2 DEF CallOK, HeldOK
<1>5. \A m \in Maps, mode \in {"shared", "exclusive"} :
        /\ Locks(t, m, mode) = NumHeld(held[t], m, mode) + Num(LocksIn(pc[t], call[t]), m, mode)
        /\ Locks(t, m, mode)' = NumHeld(held[t], m, mode) + Num(LocksIn(l, call[t]), m, mode)
        /\ NumHeld(held[t], m, mode) \in Nat
        /\ Num(LocksIn(pc[t], call[t]), m, mode) \in {0, 1}
        /\ Num(LocksIn(l, call[t]), m, mode) \in {0, 1}
        /\ Num(modes, m, mode) \in {0, 1}
  <2> TAKE m \in Maps, mode \in {"shared", "exclusive"}
  <2>1. NumHeld(held[t], m, mode) \in Nat
    BY <1>1, LocksType
  <2> QED  BY <1>2, <2>1 DEF Locks, Num
<1> DEFINE Accounts ==
             /\ Accounted' /\ Exclusion'
             /\ owner' \in [Maps -> Threads \cup {None}]
             /\ shares' \in [Maps -> [Threads -> Nat]]
<1>6. Accounts
  <2>1. ASSUME Locked(t, modes), \A m \in DOMAIN modes : CanLock(m, modes[m]),
               \A m \in Maps, mode \in {"shared", "exclusive"} :
                 Num(LocksIn(l, call[t]), m, mode)
                   = Num(LocksIn(pc[t], call[t]), m, mode) + Num(modes, m, mode)
        PROVE  Accounts
    <3>1. ASSUME NEW m \in Maps, NEW mode \in {"shared", "exclusive"}
          PROVE  Locks(t, m, mode)' = Locks(t, m, mode) + Num(modes, m, mode)
      BY <1>5, <2>1
    <3> QED  BY <1>3, <2>1, <3>1, LockStep
  <2>2. ASSUME Unlocked(t, modes),
               \A m \in Maps, mode \in {"shared", "exclusive"} :
                 Num(LocksIn(pc[t], call[t]), m, mode)
                   = Num(LocksIn(l, call[t]), m, mode) + Num(modes, m, mode)
        PROVE  Accounts
    <3>1. ASSUME NEW m \in Maps, NEW mode \in {"shared", "exclusive"}
          PROVE  /\ Locks(t, m, mode) >= Num(modes, m, mode)
                 /\ Locks(t, m, mode)' = Locks(t, m, mode) - Num(modes, m, mode)
      BY <1>5, <2>2
    <3> QED  BY <1>3, <2>2, <3>1, UnlockStep
  <2> QED  BY <2>1, <2>2
<1> QED
  BY <1>3, <1>4, <1>6, CoreStep

(* A call of one map locks it; one of two maps locks either, then tries    *)
(* the other, and unlocks the first if that fails.                         *)
LEMMA LockingCore ==
  ASSUME Core, NEW t \in Threads,
         \/ Lock(t)
         \/ \E m \in Maps : LockOne(t, m) \/ TryOther(t, m) \/ BackOff(t, m)
  PROVE  Core'
<1> DEFINE c == call[t]
<1>1. Types /\ TypeOK /\ CallOK(pc[t], c)
  BY Known
<1>2. ASSUME Lock(t) PROVE Core'
  <2>1. /\ pc[t] = "lock" /\ c.op \notin PairOps /\ CanLock(c.map, Mode(c))
        /\ Locked(t, Modes(c)) /\ pc' = [pc EXCEPT ![t] = "inner"]
        /\ UNCHANGED <<place, call, cursor, held, calls>>
    BY <1>2 DEF Lock, Goto
  <2>2. \A m \in DOMAIN Modes(c) : Modes(c)[m] \in {"shared", "exclusive"} /\ CanLock(m, Modes(c)[m])
    BY <2>1, ModesType DEF MapsOf, Mode
  <2>3. \A m \in Maps, mode \in {"shared", "exclusive"} :
          Num(LocksIn("inner", c), m, mode) = Num(LocksIn(pc[t], c), m, mode) + Num(Modes(c), m, mode)
    <3> TAKE m \in Maps, mode \in {"shared", "exclusive"}
    <3>1. Num(LocksIn(pc[t], c), m, mode) = 0
      BY <2>1, NumNone
    <3>2. LocksIn("inner", c) = Modes(c) /\ Num(Modes(c), m, mode) \in {0, 1}
      BY DEF LocksIn, Num
    <3> QED  BY <3>1, <3>2
  <2> HIDE DEF c
  <2> QED  BY <2>1, <2>2, <2>3, MoveCore DEF c
<1>3. ASSUME NEW m \in Maps, LockOne(t, m) PROVE Core'
  <2> DEFINE l == IF m = c.map THEN "try_other" ELSE "try_this"
  <2>1. /\ pc[t] = "lock" /\ c.op \in PairOps /\ m \in DOMAIN Modes(c)
        /\ CanLock(m, Modes(c)[m]) /\ Locked(t, One(c, m)) /\ pc' = [pc EXCEPT ![t] = l]
        /\ UNCHANGED <<place, call, cursor, held, calls>>
    BY <1>3 DEF LockOne, Goto
  <2>2. /\ m \in {c.map, c.other} /\ c.other # c.map /\ Modes(c)[m] \in {"shared", "exclusive"}
    BY <1>1, <2>1, ModesType DEF MapsOf, CallOK
  <2>3. \A n \in DOMAIN One(c, m) : One(c, m)[n] \in {"shared", "exclusive"} /\ CanLock(n, One(c, m)[n])
    BY <2>1, <2>2, OneLock
  <2>4. LocksIn(l, c) = One(c, m)
    BY <2>2 DEF LocksIn
  <2>5. \A n \in Maps, mode \in {"shared", "exclusive"} :
          Num(LocksIn(l, c), n, mode) = Num(LocksIn(pc[t], c), n, mode) + Num(One(c, m), n, mode)
    <3> TAKE n \in Maps, mode \in {"shared", "exclusive"}
    <3>1. Num(LocksIn(pc[t], c), n, mode) = 0
      BY <2>1, NumNone
    <3>2. Num(One(c, m), n, mode) \in {0, 1}
      BY DEF Num
    <3> QED  BY <2>4, <3>1, <3>2
  <2>6. l \in {"lock", "try_this", "try_other", "inner"}
    OBVIOUS
  <2> HIDE DEF c, l
  <2> QED  BY <2>1, <2>3, <2>5, <2>6, MoveCore DEF c
<1>4. ASSUME NEW m \in Maps, Trying(t, m)
      PROVE  /\ pc[t] \in {"try_this", "try_other"} /\ c.op \in PairOps /\ c.other # c.map
             /\ m \in {c.map, c.other} /\ Modes(c)[m] \in {"shared", "exclusive"}
             /\ OtherOf(c, m) \in {c.map, c.other} \ {m}
             /\ Modes(c)[OtherOf(c, m)] \in {"shared", "exclusive"}
             /\ LocksIn(pc[t], c) = One(c, OtherOf(c, m))
  <2>1. m \in MapsOf(c) /\ pc[t] = IF m = c.map THEN "try_this" ELSE "try_other"
    BY <1>4 DEF Trying
  <2>2. c.op \in PairOps /\ c.other # c.map
    BY <1>1, <2>1 DEF CallOK
  <2>3. MapsOf(c) = {c.map, c.other}
    BY <2>2 DEF MapsOf
  <2> HIDE DEF c
  <2> QED  BY <2>1, <2>2, <2>3, ModesType DEF OtherOf, LocksIn
<1>5. ASSUME NEW m \in Maps, TryOther(t, m) PROVE Core'
  <2>1. /\ Trying(t, m) /\ CanLock(m, Modes(c)[m]) /\ Locked(t, One(c, m))
        /\ pc' = [pc EXCEPT ![t] = "inner"] /\ UNCHANGED <<place, call, cursor, held, calls>>
    BY <1>5 DEF TryOther, Goto
  <2>2. \A n \in DOMAIN One(c, m) : One(c, m)[n] \in {"shared", "exclusive"} /\ CanLock(n, One(c, m)[n])
    BY <1>4, <2>1, OneLock
  <2>3. \A n \in Maps, mode \in {"shared", "exclusive"} :
          Num(LocksIn("inner", c), n, mode) = Num(LocksIn(pc[t], c), n, mode) + Num(One(c, m), n, mode)
    <3> TAKE n \in Maps, mode \in {"shared", "exclusive"}
    <3> HIDE DEF c
    <3>1. LocksIn("inner", c) = Modes(c)
      BY DEF LocksIn
    <3>2. Num(Modes(c), n, mode) = Num(One(c, c.map), n, mode) + Num(One(c, c.other), n, mode)
      BY <1>4, <2>1, NumModes
    <3>3. \A x : Num(One(c, x), n, mode) \in {0, 1}
      BY DEF Num
    <3> QED  BY <1>4, <2>1, <3>1, <3>2, <3>3
  <2>4. pc[t] \in {"lock", "try_this", "try_other"}
    BY <1>4, <2>1
  <2> HIDE DEF c
  <2> QED  BY <2>1, <2>2, <2>3, <2>4, MoveCore DEF c
<1>6. ASSUME NEW m \in Maps, BackOff(t, m) PROVE Core'
  <2> DEFINE o == One(c, OtherOf(c, m))
  <2>1. /\ Trying(t, m) /\ Unlocked(t, o)
        /\ pc' = [pc EXCEPT ![t] = "lock"] /\ UNCHANGED <<place, call, cursor, held, calls>>
    BY <1>6 DEF BackOff, Goto
  <2>2. \A n \in DOMAIN o : o[n] \in {"shared", "exclusive"}
    BY <1>4, <2>1, OneLock
  <2>3. \A n \in Maps, mode \in {"shared", "exclusive"} :
          Num(LocksIn(pc[t], c), n, mode) = Num(LocksIn("lock", c), n, mode) + Num(o, n, mode)
    <3> TAKE n \in Maps, mode \in {"shared", "exclusive"}
    <3>1. Num(LocksIn("lock", c), n, mode) = 0
      BY NumNone
    <3>2. Num(o, n, mode) \in {0, 1}
      BY DEF Num
    <3> QED  BY <1>4, <2>1, <3>1, <3>2
  <2>4. pc[t] \in {"lock", "try_this", "try_other"}
    BY <1>4, <2>1
  <2> HIDE DEF c, o
  <2> QED  BY <2>1, <2>2, <2>3, <2>4, MoveCore DEF c
<1> QED
  BY <1>2, <1>3, <1>5, <1>6

-----------------------------------------------------------------------------
(* The invariant is kept by what calls do with their locks.                *)

(* What a map is left with by an operation.                                *)
LEMMA PlaceTypes ==
  ASSUME NEW f \in [Pos -> Keys \cup {Empty}]
  PROVE  /\ Rearranged(f) \subseteq [Pos -> Keys \cup {Empty}]
         /\ \A P : Without(f, P) \in [Pos -> Keys \cup {Empty}]
         /\ \A p : Erased(f, p) \subseteq [Pos -> Keys \cup {Empty}]
<1>1. ASSUME NEW g \in [Pos -> Keys \cup {Empty}]
      PROVE  Rearranged(g) \subseteq [Pos -> Keys \cup {Empty}]
  BY DEF Rearranged
<1>2. \A P : Without(f, P) \in [Pos -> Keys \cup {Empty}]
  BY DEF Without
<1>3. ASSUME NEW p
      PROVE  Erased(f, p) \subseteq [Pos -> Keys \cup {Empty}]
  <2>1. Without(f, {p}) \in [Pos -> Keys \cup {Empty}]
    BY <1>2
  <2>2. Rearranged(Without(f, {p})) \subseteq [Pos -> Keys \cup {Empty}]
    BY <1>1, <2>1
  <2> QED  BY <2>2 DEF Erased
<1> QED
  BY <1>1, <1>2, <1>3

(* What a search of a map gives.                                           *)
LEMMA FoundTypes ==
  ASSUME NEW f \in [Pos -> Keys \cup {Empty}], NEW k \in Keys, NEW a
  PROVE  /\ NextIn(At(f, k), a) \in 0 .. NumPos
         /\ NextIn(At(f, k), a) # npos => f[NextIn(At(f, k), a)] = k
         /\ KeyAt(f, NextIn(At(f, k), a)) \in {k, None}
         /\ NextIn(Entries(f), a) \in 0 .. NumPos /\ PrevIn(Entries(f), a) \in 0 .. NumPos
         /\ KeyAt(f, NextIn(Entries(f), a)) \in Keys \cup {None}
         /\ KeyAt(f, PrevIn(Entries(f), a)) \in Keys \cup {None}
<1>1. /\ At(f, k) \in SUBSET Pos /\ Entries(f) \in SUBSET Pos /\ Pos \subseteq 0 .. NumPos
      /\ npos \in 0 .. NumPos
  BY GuardedAssumption DEF At, Entries, Pos, npos
<1>2. /\ NextIn(At(f, k), a) \in At(f, k) \cup {npos}
      /\ NextIn(Entries(f), a) \in Entries(f) \cup {npos}
      /\ PrevIn(Entries(f), a) \in Entries(f) \cup {npos}
  BY <1>1, SearchType
<1>3. \A p \in Entries(f) : f[p] \in Keys
  BY DEF Entries
<1>4. \A p \in At(f, k) : f[p] = k
  BY DEF At
<1> QED
  BY <1>1, <1>2, <1>3, <1>4 DEF KeyAt

(* A call that returns has an idle thread behind it.                       *)
LEMMA ReturnTypes ==
  ASSUME Core, NEW t \in Threads, Return(t), held' \in [Threads -> Seq(Position)],
         \A u \in Threads \ {t} : held'[u] = held[u],
         place' \in [Maps -> [Pos -> Keys \cup {Empty}]]
  PROVE  /\ Others(t) /\ Types' /\ pc'[t] = "idle" /\ call'[t] = NoCall
         /\ CallOK(pc'[t], call'[t]) /\ HeldOK(pc'[t], call'[t], held'[t])
<1>1. Types
  BY Known
<1>2. /\ pc' = [pc EXCEPT ![t] = "idle"] /\ call' = [call EXCEPT ![t] = NoCall]
      /\ cursor' = [cursor EXCEPT ![t] = npos] /\ calls' = calls
  BY DEF Return, Goto
<1>3. Others(t) /\ pc'[t] = "idle" /\ call'[t] = NoCall
  BY <1>1, <1>2 DEF Others, Types
<1>4. npos \in 0 .. NumPos
  BY GuardedAssumption DEF npos
<1>5. Types'
  BY <1>1, <1>2, <1>4 DEF Types, NoCall
<1> QED
  BY <1>3, <1>5 DEF CallOK, HeldOK

(* A call that returns and releases its locks.                             *)
LEMMA UnlockedCore ==
  ASSUME Core, NEW t \in Threads, pc[t] \in {"inner", "each"}, ReturnUnlocked(t),
         place' \in [Maps -> [Pos -> Keys \cup {Empty}]]
  PROVE  Core'
<1>1. Types /\ TypeOK
  BY Known
<1>2. Return(t) /\ Unlocked(t, Modes(call[t])) /\ held' = held
  BY DEF ReturnUnlocked
<1>3. /\ Others(t) /\ Types' /\ pc'[t] = "idle"
      /\ CallOK(pc'[t], call'[t]) /\ HeldOK(pc'[t], call'[t], held'[t])
  <2>1. held' \in [Threads -> Seq(Position)] /\ \A u \in Threads \ {t} : held'[u] = held[u]
    BY <1>1, <1>2 DEF Types
  <2> QED  BY <1>2, <2>1, ReturnTypes
<1>4. ASSUME NEW m \in Maps, NEW mode \in {"shared", "exclusive"}
      PROVE  /\ Locks(t, m, mode) >= Num(Modes(call[t]), m, mode)
             /\ Locks(t, m, mode)' = Locks(t, m, mode) - Num(Modes(call[t]), m, mode)
  <2> DEFINE h == NumHeld(held[t], m, mode)
             n == Num(Modes(call[t]), m, mode)
  <2>1. LocksIn(pc[t], call[t]) = Modes(call[t])
    BY DEF LocksIn
  <2>2. Locks(t, m, mode) = h + n
    BY <2>1 DEF Locks
  <2>3. Locks(t, m, mode)' = h + 0
    <3>1. Num(LocksIn(pc'[t], call'[t]), m, mode) = 0
      BY <1>3, NumNone
    <3> QED  BY <1>2, <3>1 DEF Locks
  <2>4. h \in Nat /\ n \in {0, 1}
    BY <1>1, LocksType DEF Num
  <2> HIDE DEF h, n
  <2>5. h + n >= n /\ h + 0 = (h + n) - n
    BY <2>4
  <2>6. Locks(t, m, mode) >= n
    BY <2>2, <2>5
  <2>7. Locks(t, m, mode)' = Locks(t, m, mode) - n
    BY <2>2, <2>3, <2>5
  <2> QED  BY <2>6, <2>7 DEF n
<1>5. /\ Accounted' /\ Exclusion'
      /\ owner' \in [Maps -> Threads \cup {None}] /\ shares' \in [Maps -> [Threads -> Nat]]
  BY <1>2, <1>3, <1>4, UnlockStep
<1> QED
  BY <1>3, <1>5, CoreStep

(* A call that returns a position with its lock.                           *)
LEMMA PosCore ==
  ASSUME Core, NEW t \in Threads, pc[t] = "inner", call[t].op \notin PairOps,
         NEW p \in 0 .. NumPos, NEW k \in Keys \cup {None}, ReturnPos(t, p, k),
         place' \in [Maps -> [Pos -> Keys \cup {Empty}]]
  PROVE  /\ Core' /\ PositionAt(t, p, k, Mode(call[t])) \in Position
         /\ held'[t] = Append(held[t], PositionAt(t, p, k, Mode(call[t])))
<1> DEFINE x == PositionAt(t, p, k, Mode(call[t]))
<1>1. Types /\ TypeOK /\ CallOK(pc[t], call[t]) /\ held[t] \in Seq(Position)
  BY Known
<1>2. /\ call[t].map \in Maps /\ Mode(call[t]) \in {"shared", "exclusive"}
      /\ \A m, mode : Num(Modes(call[t]), m, mode)
                        = IF m = call[t].map /\ Mode(call[t]) = mode THEN 1 ELSE 0
  BY <1>1, NumModes DEF CallOK
<1>3. x \in Position /\ x.map = call[t].map /\ x.lock = Mode(call[t])
  BY <1>2 DEF PositionAt, Position
<1>4. Return(t) /\ held' = [held EXCEPT ![t] = Append(held[t], x)] /\ UNCHANGED mutex
  BY DEF ReturnPos, Hold
<1> HIDE DEF x
<1>5. /\ held' \in [Threads -> Seq(Position)] /\ \A u \in Threads \ {t} : held'[u] = held[u]
      /\ held'[t] = Append(held[t], x)
  <2>1. Append(held[t], x) \in Seq(Position)
    BY <1>1, <1>3, AppendProperties
  <2> QED  BY <1>1, <1>4, <2>1 DEF Types
<1>6. /\ Others(t) /\ Types' /\ pc'[t] = "idle"
      /\ CallOK(pc'[t], call'[t]) /\ HeldOK(pc'[t], call'[t], held'[t])
  BY <1>4, <1>5, ReturnTypes
<1>7. ASSUME NEW m \in Maps, NEW mode \in {"shared", "exclusive"}
      PROVE  Locks(t, m, mode)' = Locks(t, m, mode)
  <2> DEFINE h == NumHeld(held[t], m, mode)
             n == Is(x, m, mode)
  <2>1. LocksIn(pc[t], call[t]) = Modes(call[t])
    BY DEF LocksIn
  <2>2. Num(Modes(call[t]), m, mode) = n
    BY <1>2, <1>3 DEF Is
  <2>3. Locks(t, m, mode) = h + n
    BY <2>1, <2>2 DEF Locks
  <2>4. Locks(t, m, mode)' = (h + n) + 0
    <3>1. Num(LocksIn(pc'[t], call'[t]), m, mode) = 0
      BY <1>6, NumNone
    <3>2. NumHeld(held'[t], m, mode) = h + n
      BY <1>1, <1>3, <1>5, NumHeldAppend
    <3> QED  BY <3>1, <3>2 DEF Locks
  <2>5. h \in Nat /\ n \in {0, 1}
    BY <1>1, LocksType DEF Is
  <2> HIDE DEF h, n
  <2> QED  BY <2>3, <2>4, <2>5
<1>8. /\ Accounted' /\ Exclusion'
      /\ owner' \in [Maps -> Threads \cup {None}] /\ shares' \in [Maps -> [Threads -> Nat]]
  BY <1>4, <1>6, <1>7, SameStep
<1>9. Core'
  BY <1>6, <1>8, CoreStep
<1> QED
  BY <1>3, <1>5, <1>9 DEF x

-----------------------------------------------------------------------------
(* What a step of a thread does to the positions of the others and its own.*)

(* The positions of t are valid.                                           *)
Valid(t) ==
  \A i \in DOMAIN held[t] :
    LET x == held[t][i]
    IN  /\ x.lock # "deferred" \/ owner[x.map] = t
        /\ x.key # None
        => place[x.map][x.at] = x.key

(* Only the owner of a map changes it, not while he walks over it, and     *)
(* inside of a call only when he returns.                                  *)
Writes(t) ==
  \A m \in Maps : place'[m] # place[m] =>
    owner[m] = t /\ pc[t] # "each" /\ (pc[t] = "inner" => pc'[t] = "idle")

Good(t) == Core' /\ Valid(t)' /\ Writes(t) /\ Others(t)

(* A call owns what it locked exclusively, and shares what it only reads.  *)
LEMMA CallLocks ==
  ASSUME Core, NEW t \in Threads, pc[t] \in {"inner", "each"},
         NEW m \in Maps, m \in MapsOf(call[t])
  PROVE  /\ Modes(call[t])[m] = "exclusive" => owner[m] = t
         /\ Modes(call[t])[m] = "shared" => shares[m][t] >= 1
<1>1. LocksIn(pc[t], call[t]) = Modes(call[t]) /\ TypeOK
  BY Known DEF LocksIn
<1>2. m \in DOMAIN Modes(call[t])
  BY ModesType
<1>3. /\ Locks(t, m, "exclusive") >= Num(Modes(call[t]), m, "exclusive")
      /\ Locks(t, m, "shared") >= Num(Modes(call[t]), m, "shared")
  BY <1>1, LocksType
<1>4. /\ shares[m][t] = Locks(t, m, "shared")
      /\ Locks(t, m, "exclusive") = IF owner[m] = t THEN 1 ELSE 0
  BY DEF Core, Accounted
<1> QED
  BY <1>2, <1>3, <1>4 DEF Num

(* A position has its lock on its map.                                     *)
LEMMA HeldLocks ==
  ASSUME Core, NEW t \in Threads, NEW i \in DOMAIN held[t]
  PROVE  /\ held[t][i] \in Position
         /\ held[t][i].lock = "exclusive" => owner[held[t][i].map] = t
         /\ held[t][i].lock = "shared" => shares[held[t][i].map][t] >= 1
<1> DEFINE x == held[t][i]
<1>1. /\ TypeOK /\ held[t] \in Seq(Position) /\ x \in Position /\ i \in 1 .. Len(held[t])
  BY Known
<1>2. x.map \in Maps
  BY <1>1 DEF Position
<1>3. NumHeld(held[t], x.map, x.lock) >= 1
  <2>1. i \in HeldAt(held[t], x.map, x.lock)
    BY <1>1 DEF HeldAt
  <2>2. /\ NumHeld(held[t], x.map, x.lock) \in Nat
        /\ NumHeld(held[t], x.map, x.lock) = 0 <=> HeldAt(held[t], x.map, x.lock) = {}
    BY <1>1, NumHeldType
  <2> QED  BY <2>1, <2>2
<1>4. /\ Locks(t, x.map, x.lock) >= NumHeld(held[t], x.map, x.lock)
      /\ Locks(t, x.map, x.lock) \in Nat /\ NumHeld(held[t], x.map, x.lock) \in Nat
  BY <1>1, LocksType
<1>5. /\ shares[x.map][t] = Locks(t, x.map, "shared")
      /\ Locks(t, x.map, "exclusive") = IF owner[x.map] = t THEN 1 ELSE 0
  BY <1>2 DEF Core, Accounted
<1>6. Locks(t, x.map, x.lock) >= 1
  BY <1>3, <1>4
<1> HIDE DEF x
<1> QED
  BY <1>1, <1>5, <1>6 DEF x

(* A step of t neither gives a map to another thread nor takes it.         *)
LEMMA SameOwner ==
  ASSUME Core, Core', NEW t \in Threads, Others(t), NEW u \in Threads \ {t}, NEW m \in Maps
  PROVE  owner'[m] = u <=> owner[m] = u
<1>1. Locks(u, m, "exclusive")' = Locks(u, m, "exclusive")
  BY OtherLocks
<1>2. Locks(u, m, "exclusive") = IF owner[m] = u THEN 1 ELSE 0
  BY DEF Core, Accounted
<1>3. Locks(u, m, "exclusive")' = IF owner'[m] = u THEN 1 ELSE 0
  BY DEF Core, Accounted
<1> QED
  BY <1>1, <1>2, <1>3

(* The other threads keep their positions valid, as they have locks on     *)
(* what only an owner changes.                                             *)
LEMMA OthersValid ==
  ASSUME IInv, NEW t \in Threads, Good(t)
  PROVE  IInv'
<1>1. Core /\ Core' /\ Others(t) /\ Writes(t) /\ Valid(t)'
  BY DEF IInv, Good
<1>2. ASSUME NEW u \in Threads \ {t}
      PROVE  Valid(u)'
  <2>1. held'[u] = held[u]
    BY <1>1 DEF Others
  <2>2. Valid(u)
    BY DEF IInv, PositionsValid, Valid
  <2>3. ASSUME NEW i \in DOMAIN held[u],
               held[u][i].lock # "deferred" \/ owner'[held[u][i].map] = u,
               held[u][i].key # None
        PROVE  place'[held[u][i].map][held[u][i].at] = held[u][i].key
    <3> DEFINE x == held[u][i]
    <3>1. /\ x.map \in Maps /\ x.lock \in {"shared", "exclusive", "deferred"}
          /\ x.lock = "exclusive" => owner[x.map] = u
          /\ x.lock = "shared" => shares[x.map][u] >= 1
      BY <1>1, HeldLocks DEF Position
    <3>2. owner'[x.map] = u <=> owner[x.map] = u
      BY <1>1, <3>1, SameOwner
    <3>3. owner[x.map] # t
      <4>1. CASE x.lock = "shared"
        <5>1. owner[x.map] # None => shares[x.map][u] = 0
          BY <1>1, <3>1 DEF Core, Exclusion
        <5> QED  BY <3>1, <4>1, <5>1, GuardedAssumption
      <4>2. CASE x.lock # "shared"
        BY <2>3, <3>1, <3>2, <4>2
      <4> QED  BY <4>1, <4>2
    <3>4. place'[x.map] = place[x.map]
      BY <1>1, <3>1, <3>3 DEF Writes
    <3>5. place[x.map][x.at] = x.key
      BY <2>2, <2>3, <3>2 DEF Valid
    <3> QED  BY <3>4, <3>5
  <2> QED  BY <2>1, <2>3 DEF Valid
<1>3. PositionsValid'
  BY <1>1, <1>2 DEF PositionsValid, Valid
<1> QED
  BY <1>1, <1>3 DEF IInv

(* The positions that t keeps stay valid in a map that stays as it is.     *)
LEMMA KeptValid ==
  ASSUME IInv, NEW t \in Threads, NEW i \in DOMAIN held[t],
         place'[held[t][i].map] = place[held[t][i].map],
         \/ held[t][i].lock # "deferred"
         \/ owner'[held[t][i].map] = t => owner[held[t][i].map] = t
  PROVE  /\ held[t][i].lock # "deferred" \/ owner'[held[t][i].map] = t
         /\ held[t][i].key # None
         => place'[held[t][i].map][held[t][i].at] = held[t][i].key
<1>1. Valid(t)
  BY DEF IInv, PositionsValid, Valid
<1> QED
  BY <1>1 DEF Valid

(* A position is added.                                                    *)
LEMMA AddedValid ==
  ASSUME IInv, NEW t \in Threads, NEW y \in Position,
         held'[t] = Append(held[t], y),
         y.key # None => place'[y.map][y.at] = y.key,
         held[t] = <<>> \/ (UNCHANGED place /\ \A m \in Maps : owner'[m] = t => owner[m] = t)
  PROVE  Valid(t)'
<1> DEFINE n == Len(held[t])
<1>1. /\ held[t] \in Seq(Position) /\ DOMAIN held[t] = 1 .. n /\ n \in Nat
      /\ \A i \in DOMAIN held[t] : held[t][i] \in Position
  BY Known DEF IInv
<1>2. /\ DOMAIN held'[t] = 1 .. n + 1 /\ held'[t][n + 1] = y
      /\ \A i \in 1 .. n : held'[t][i] = held[t][i]
  BY <1>1, AppendProperties
<1>3. ASSUME NEW i \in 1 .. n
      PROVE  /\ held[t][i].lock # "deferred" \/ owner'[held[t][i].map] = t
             /\ held[t][i].key # None
             => place'[held[t][i].map][held[t][i].at] = held[t][i].key
  <2>1. held[t] # <<>>
    BY <1>1
  <2>2. held[t][i].map \in Maps
    BY <1>1 DEF Position
  <2> QED  BY <1>1, <2>1, <2>2, KeptValid
<1>4. ASSUME NEW i \in DOMAIN held'[t],
             held'[t][i].lock # "deferred" \/ owner'[held'[t][i].map] = t,
             held'[t][i].key # None
      PROVE  place'[held'[t][i].map][held'[t][i].at] = held'[t][i].key
  <2>1. CASE i = n + 1
    BY <1>2, <1>4, <2>1
  <2>2. CASE i # n + 1
    <3>1. i \in 1 .. n
      BY <1>1, <1>2, <2>2
    <3> QED  BY <1>2, <1>3, <1>4, <3>1
  <2> QED  BY <2>1, <2>2
<1> QED
  BY <1>4 DEF Valid

(* The positions stay as they are, and so do the maps.                     *)
LEMMA SameValid ==
  ASSUME IInv, NEW t \in Threads, held'[t] = held[t],
         held[t] = <<>> \/ (UNCHANGED place /\ \A m \in Maps : owner'[m] = t => owner[m] = t)
  PROVE  Valid(t)'
<1>1. /\ held[t] \in Seq(Position) /\ \A i \in DOMAIN held[t] : held[t][i] \in Position
  BY Known DEF IInv
<1>2. ASSUME NEW i \in DOMAIN held[t]
      PROVE  /\ held[t][i].lock # "deferred" \/ owner'[held[t][i].map] = t
             /\ held[t][i].key # None
             => place'[held[t][i].map][held[t][i].at] = held[t][i].key
  <2>1. held[t] # <<>>
    BY <1>1
  <2>2. held[t][i].map \in Maps
    BY <1>1 DEF Position
  <2> QED  BY <2>1, <2>2, KeptValid
<1> QED
  BY <1>2 DEF Valid

-----------------------------------------------------------------------------
(* Each action keeps the positions valid.                                  *)

(* A call begins.                                                          *)
LEMMA CallGood ==
  ASSUME IInv, NEW t \in Threads, NEW o \in ReadOps \cup WriteOps \cup PairOps,
         NEW m \in Maps, NEW k \in Keys \cup {None}, NEW n \in Maps \cup {None},
         Call(t, o, m, k, n)
  PROVE  Good(t)
<1>1. Core /\ Types
  BY Known DEF IInv
<1>2. Core'
  BY <1>1, CallCore
<1>3. /\ UNCHANGED <<place, mutex, held>>
      /\ pc' = [pc EXCEPT ![t] = "lock"]
      /\ call' = [call EXCEPT ![t] = [op |-> o, map |-> m, key |-> k, other |-> n]]
  BY DEF Call, Goto
<1>4. Others(t) /\ Writes(t)
  BY <1>1, <1>3 DEF Others, Writes, Types
<1>5. Valid(t)'
  BY <1>3, SameValid DEF mutex
<1> QED
  BY <1>2, <1>4, <1>5 DEF Good

(* A call locks, tries to or backs off.                                    *)
LEMMA LockingGood ==
  ASSUME IInv, NEW t \in Threads,
         \/ Lock(t)
         \/ \E m \in Maps : LockOne(t, m) \/ TryOther(t, m) \/ BackOff(t, m)
  PROVE  Good(t)
<1> DEFINE c == call[t]
<1>1. Core /\ Types /\ CallOK(pc[t], c) /\ HeldOK(pc[t], c, held[t])
  BY Known DEF IInv
<1>2. Core'
  BY <1>1, LockingCore
<1>3. UNCHANGED <<place, call, held>> /\ \E l : pc' = [pc EXCEPT ![t] = l]
  <2>1. ASSUME Lock(t) PROVE <1>3
    BY <2>1 DEF Lock, Goto
  <2>2. ASSUME NEW m \in Maps, LockOne(t, m) PROVE <1>3
    BY <2>2 DEF LockOne, Goto
  <2>3. ASSUME NEW m \in Maps, TryOther(t, m) PROVE <1>3
    BY <2>3 DEF TryOther, Goto
  <2>4. ASSUME NEW m \in Maps, BackOff(t, m) PROVE <1>3
    BY <2>4 DEF BackOff, Goto
  <2> QED  BY <2>1, <2>2, <2>3, <2>4
<1>4. Others(t) /\ Writes(t)
  BY <1>1, <1>3 DEF Others, Writes, Types
<1>5. ASSUME held[t] # <<>>, NEW m \in Maps, owner'[m] = t
      PROVE  owner[m] = t
  <2>1. pc[t] \in {"lock", "try_this", "try_other"}
    BY DEF Lock, LockOne, TryOther, BackOff, Trying
  <2>2. c.op \in ReadOps
    BY <1>1, <1>5, <2>1 DEF HeldOK
  <2>3. c.op \notin PairOps
    BY <2>2 DEF ReadOps, PairOps
  <2>4. Lock(t)
    <3>1. ASSUME NEW n \in Maps, LockOne(t, n) PROVE FALSE
      BY <2>3, <3>1 DEF LockOne
    <3>2. ASSUME NEW n \in Maps, Trying(t, n) PROVE FALSE
      BY <1>1, <2>3, <3>2 DEF Trying, CallOK
    <3> QED  BY <3>1, <3>2 DEF TryOther, BackOff
  <2>5. Locked(t, Modes(c)) /\ \A n \in DOMAIN Modes(c) : Modes(c)[n] = "shared"
    <3>1. \A n : Reads(c, n)
      BY <2>2 DEF Reads
    <3> QED  BY <2>4, <3>1 DEF Lock, Modes
  <2> HIDE DEF c
  <2> QED  BY <1>5, <2>5 DEF Locked
<1>6. Valid(t)'
  BY <1>3, <1>5, SameValid
<1> QED
  BY <1>2, <1>4, <1>6 DEF Good

(* A call that only returns and releases its locks, once it has changed a  *)
(* map that it owns.                                                       *)
LEMMA UnlockedGood ==
  ASSUME IInv, NEW t \in Threads, pc[t] \in {"inner", "each"}, ReturnUnlocked(t),
         place' \in [Maps -> [Pos -> Keys \cup {Empty}]],
         \/ UNCHANGED place
         \/ /\ pc[t] = "inner" /\ call[t].op \notin ReadOps
            /\ \A m \in Maps : place'[m] # place[m] =>
                 m \in MapsOf(call[t]) /\ Modes(call[t])[m] = "exclusive"
  PROVE  Good(t)
<1>1. Core /\ Types /\ HeldOK(pc[t], call[t], held[t])
  BY Known DEF IInv
<1>2. Core'
  BY <1>1, UnlockedCore
<1>3. /\ held' = held /\ Unlocked(t, Modes(call[t])) /\ pc' = [pc EXCEPT ![t] = "idle"]
      /\ call' = [call EXCEPT ![t] = NoCall]
  BY DEF ReturnUnlocked, Return, Goto
<1>4. Others(t)
  BY <1>1, <1>3 DEF Others, Types
<1>5. Writes(t)
  <2>1. pc'[t] = "idle"
    BY <1>1, <1>3 DEF Types
  <2> QED  BY <1>1, <2>1, CallLocks DEF Writes
<1>6. \A m \in Maps : owner'[m] = t => owner[m] = t
  BY <1>3, GuardedAssumption DEF Unlocked
<1>7. Valid(t)'
  <2>1. CASE UNCHANGED place
    BY <1>3, <1>6, <2>1, SameValid
  <2>2. CASE pc[t] = "inner" /\ call[t].op \notin ReadOps
    <3>1. held[t] = <<>>
      BY <1>1, <2>2 DEF HeldOK
    <3> QED  BY <1>3, <3>1, SameValid
  <2> QED  BY <2>1, <2>2
<1> QED
  BY <1>2, <1>4, <1>5, <1>7 DEF Good

(* A call that returns a position, once it has changed the map it owns.    *)
LEMMA PosGood ==
  ASSUME IInv, NEW t \in Threads, pc[t] = "inner", call[t].op \notin PairOps,
         NEW p \in 0 .. NumPos, NEW k \in Keys \cup {None}, ReturnPos(t, p, k),
         place' \in [Maps -> [Pos -> Keys \cup {Empty}]],
         k # None => place'[call[t].map][p] = k,
         \/ UNCHANGED place
         \/ /\ call[t].op \in WriteOps
            /\ \A m \in Maps : place'[m] # place[m] => m = call[t].map
  PROVE  Good(t)
<1> DEFINE y == PositionAt(t, p, k, Mode(call[t]))
<1>1. Core /\ Types /\ HeldOK(pc[t], call[t], held[t]) /\ CallOK(pc[t], call[t])
  BY Known DEF IInv
<1>2. Core' /\ y \in Position /\ held'[t] = Append(held[t], y)
  BY <1>1, PosCore
<1>3. y.map = call[t].map /\ y.at = p /\ y.key = k
  BY DEF PositionAt
<1> HIDE DEF y
<1>4. /\ UNCHANGED mutex /\ pc' = [pc EXCEPT ![t] = "idle"]
      /\ call' = [call EXCEPT ![t] = NoCall] /\ \E s : held' = [held EXCEPT ![t] = s]
  BY DEF ReturnPos, Return, Goto, Hold
<1>5. Others(t)
  BY <1>1, <1>4 DEF Others, Types
<1>6. ASSUME call[t].op \in WriteOps
      PROVE  held[t] = <<>> /\ call[t].map \in Maps /\ owner[call[t].map] = t
  <2>1. call[t].op \notin ReadOps /\ call[t].map \in Maps
    BY <1>1, <1>6 DEF ReadOps, WriteOps, CallOK
  <2>2. call[t].map \in MapsOf(call[t]) /\ ~Reads(call[t], call[t].map)
    BY <1>6, <2>1 DEF MapsOf, Reads, WriteOps
  <2>3. Modes(call[t])[call[t].map] = "exclusive"
    BY <2>2, ModesType
  <2> QED  BY <1>1, <2>1, <2>2, <2>3, CallLocks DEF HeldOK
<1>7. Writes(t)
  <2>1. pc'[t] = "idle"
    BY <1>1, <1>4 DEF Types
  <2> QED  BY <1>6, <2>1 DEF Writes
<1>8. Valid(t)'
  <2>1. held[t] = <<>> \/ (UNCHANGED place /\ \A m \in Maps : owner'[m] = t => owner[m] = t)
    BY <1>4, <1>6 DEF mutex
  <2>2. y.key # None => place'[y.map][y.at] = y.key
    BY <1>3
  <2> QED  BY <1>2, <2>1, <2>2, AddedValid
<1> QED
  BY <1>2, <1>5, <1>7, <1>8 DEF Good

(* find and update, begin, insert, erase_first: calls that return a        *)
(* position.                                                               *)
LEMMA PosActionsGood ==
  ASSUME IInv, NEW t \in Threads, Find(t) \/ Begin(t) \/ Insert(t) \/ EraseFirst(t)
  PROVE  Good(t)
<1> DEFINE m == call[t].map
           k == call[t].key
<1>1. Types /\ CallOK(pc[t], call[t])
  BY Known DEF IInv
<1>2. ASSUME NEW o, Inner(t, o)
      PROVE  /\ pc[t] = "inner" /\ call[t].op = o /\ m \in Maps
             /\ place[m] \in [Pos -> Keys \cup {Empty}]
             /\ o \in KeyOps => k \in Keys
  BY <1>1, <1>2 DEF Inner, CallOK, Types
<1>3. ASSUME Find(t) PROVE Good(t)
  <2> DEFINE p == NextIn(At(place[m], k), 0)
  <2>1. /\ Inner(t, "find") \/ Inner(t, "update")
        /\ ReturnPos(t, p, KeyAt(place[m], p)) /\ UNCHANGED place
    BY <1>3 DEF Find
  <2>2. /\ pc[t] = "inner" /\ call[t].op \notin PairOps /\ k \in Keys
        /\ place[m] \in [Pos -> Keys \cup {Empty}]
    BY <1>2, <2>1 DEF KeyOps, PairOps
  <2>3. p \in 0 .. NumPos /\ KeyAt(place[m], p) \in Keys \cup {None}
    BY <2>2, FoundTypes
  <2>4. KeyAt(place[m], p) # None => place[m][p] = KeyAt(place[m], p)
    BY DEF KeyAt
  <2>5. place' \in [Maps -> [Pos -> Keys \cup {Empty}]] /\ place'[m] = place[m]
    BY <1>1, <2>1 DEF Types
  <2> HIDE DEF p
  <2> QED  BY <2>1, <2>2, <2>3, <2>4, <2>5, PosGood
<1>4. ASSUME Begin(t) PROVE Good(t)
  <2> DEFINE p == NextIn(Entries(place[m]), 0)
  <2>1. /\ Inner(t, "begin") \/ Inner(t, "begin_write")
        /\ ReturnPos(t, p, KeyAt(place[m], p)) /\ UNCHANGED place
    BY <1>4 DEF Begin
  <2>2. /\ pc[t] = "inner" /\ call[t].op \notin PairOps
        /\ place[m] \in [Pos -> Keys \cup {Empty}]
    BY <1>2, <2>1 DEF PairOps
  <2>3. p \in 0 .. NumPos /\ KeyAt(place[m], p) \in Keys \cup {None}
    <3>1. /\ Entries(place[m]) \in SUBSET Pos /\ Pos \subseteq 0 .. NumPos
          /\ npos \in 0 .. NumPos
      BY GuardedAssumption DEF Entries, Pos, npos
    <3>2. p \in Entries(place[m]) \cup {npos}
      BY <3>1, SearchType
    <3> HIDE DEF p
    <3> QED  BY <2>2, <3>1, <3>2 DEF KeyAt, Entries
  <2>4. KeyAt(place[m], p) # None => place[m][p] = KeyAt(place[m], p)
    BY DEF KeyAt
  <2>5. place' \in [Maps -> [Pos -> Keys \cup {Empty}]] /\ place'[m] = place[m]
    BY <1>1, <2>1 DEF Types
  <2> HIDE DEF p
  <2> QED  BY <2>1, <2>2, <2>3, <2>4, <2>5, PosGood
<1>5. ASSUME Insert(t) PROVE Good(t)
  <2>1. Inner(t, "insert")
    BY <1>5 DEF Insert
  <2>2. /\ pc[t] = "inner" /\ call[t].op \notin PairOps /\ k \in Keys
        /\ call[t].op \in WriteOps /\ m \in Maps /\ place[m] \in [Pos -> Keys \cup {Empty}]
    BY <1>2, <2>1 DEF KeyOps, PairOps, WriteOps
  <2>3. Pos \subseteq 0 .. NumPos /\ k # None
    BY <2>2, GuardedAssumption DEF Pos
  <2>4. ASSUME NEW p \in At(place[m], k), ReturnPos(t, p, k), UNCHANGED place
        PROVE  Good(t)
    <3>1. p \in 0 .. NumPos /\ place[m][p] = k
      BY <2>3 DEF At
    <3>2. place' \in [Maps -> [Pos -> Keys \cup {Empty}]] /\ place'[m] = place[m]
      BY <1>1, <2>4 DEF Types
    <3> QED  BY <2>2, <2>4, <3>1, <3>2, PosGood
  <2>5. ASSUME NEW f \in Rearranged(place[m]), NEW p \in Pos,
               place' = [place EXCEPT ![m] = [f EXCEPT ![p] = k]], ReturnPos(t, p, k)
        PROVE  Good(t)
    <3>1. f \in [Pos -> Keys \cup {Empty}]
      BY <2>2, PlaceTypes
    <3>2. place' \in [Maps -> [Pos -> Keys \cup {Empty}]] /\ place'[m][p] = k
      BY <1>1, <2>2, <2>5, <3>1 DEF Types
    <3>3. \A n \in Maps : place'[n] # place[n] => n = m
      BY <1>1, <2>5 DEF Types
    <3>4. p \in 0 .. NumPos
      BY <2>3
    <3> QED  BY <2>2, <2>5, <3>2, <3>3, <3>4, PosGood
  <2> QED  BY <1>5, <2>4, <2>5 DEF Insert
<1>6. ASSUME EraseFirst(t) PROVE Good(t)
  <2> DEFINE p == NextIn(At(place[m], k), 0)
  <2>1. Inner(t, "erase_first") /\ ReturnPos(t, p, None)
    BY <1>6 DEF EraseFirst
  <2>2. /\ pc[t] = "inner" /\ call[t].op \notin PairOps /\ k \in Keys
        /\ call[t].op \in WriteOps /\ m \in Maps /\ place[m] \in [Pos -> Keys \cup {Empty}]
    BY <1>2, <2>1 DEF KeyOps, PairOps, WriteOps
  <2>3. PICK f \in Erased(place[m], p) : place' = [place EXCEPT ![m] = f]
    BY <1>6 DEF EraseFirst
  <2>4. f \in [Pos -> Keys \cup {Empty}] /\ p \in 0 .. NumPos
    BY <2>2, PlaceTypes, FoundTypes
  <2>5. /\ place' \in [Maps -> [Pos -> Keys \cup {Empty}]]
        /\ \A n \in Maps : place'[n] # place[n] => n = m
    BY <1>1, <2>2, <2>3, <2>4 DEF Types
  <2> HIDE DEF p
  <2> QED  BY <2>1, <2>2, <2>4, <2>5, PosGood
<1> QED
  BY <1>3, <1>4, <1>5, <1>6

(* Calls that return without a position.                                   *)
LEMMA UnlockedActionsGood ==
  ASSUME IInv, NEW t \in Threads, Change(t) \/ Pair(t) \/ WalkEnds(t)
  PROVE  Good(t)
<1> DEFINE c == call[t]
<1>1. Types /\ CallOK(pc[t], c)
  BY Known DEF IInv
<1>2. ASSUME Change(t) PROVE Good(t)
  <2>1. pc[t] = "inner" /\ c.op = "change" /\ ReturnUnlocked(t)
    BY <1>2 DEF Change, Inner
  <2>2. c.map \in Maps /\ place[c.map] \in [Pos -> Keys \cup {Empty}]
    BY <1>1, <2>1 DEF CallOK, Types
  <2>3. PICK P \in SUBSET Entries(place[c.map]) :
          \E f \in Rearranged(Without(place[c.map], P)) : place' = [place EXCEPT ![c.map] = f]
    BY <1>2 DEF Change
  <2> PICK f \in Rearranged(Without(place[c.map], P)) : place' = [place EXCEPT ![c.map] = f]
    BY <2>3
  <2>4. f \in [Pos -> Keys \cup {Empty}]
    <3>1. Without(place[c.map], P) \in [Pos -> Keys \cup {Empty}]
      BY <2>2, PlaceTypes
    <3> QED  BY <3>1, PlaceTypes
  <2>5. /\ place' \in [Maps -> [Pos -> Keys \cup {Empty}]]
        /\ \A m \in Maps : place'[m] # place[m] => m = c.map
    BY <1>1, <2>2, <2>3, <2>4 DEF Types
  <2>6. c.op \notin ReadOps /\ c.map \in MapsOf(c) /\ Modes(c)[c.map] = "exclusive"
    <3>1. c.op \notin ReadOps /\ c.map \in MapsOf(c) /\ ~Reads(c, c.map)
      BY <2>1 DEF MapsOf, Reads, ReadOps
    <3> QED  BY <3>1, ModesType
  <2> QED  BY <2>1, <2>5, <2>6, UnlockedGood
<1>3. ASSUME Pair(t) PROVE Good(t)
  <2>1. /\ pc[t] = "inner" /\ c.op \in PairOps /\ ReturnUnlocked(t)
        /\ c.op = "assign" => place' = [place EXCEPT ![c.map] = place[c.other]]
        /\ c.op = "swap" => place' = [place EXCEPT ![c.map] = place[c.other],
                                                   ![c.other] = place[c.map]]
        /\ c.op = "equal" => place' = place
    BY <1>3 DEF Pair, PairOps
  <2>2. c.map \in Maps /\ c.other \in Maps /\ c.other # c.map /\ c.op \notin ReadOps
    BY <1>1, <2>1 DEF CallOK, PairOps, ReadOps
  <2>3. place' \in [Maps -> [Pos -> Keys \cup {Empty}]]
    BY <1>1, <2>1, <2>2 DEF Types, PairOps
  <2>4. ASSUME NEW m \in Maps, place'[m] # place[m]
        PROVE  m \in MapsOf(c) /\ Modes(c)[m] = "exclusive"
    <3>1. m \in MapsOf(c) /\ ~Reads(c, m)
      BY <1>1, <2>1, <2>2, <2>4 DEF Types, MapsOf, Reads, PairOps
    <3> QED  BY <3>1, ModesType
  <2> QED  BY <2>1, <2>2, <2>3, <2>4, UnlockedGood
<1>4. ASSUME WalkEnds(t) PROVE Good(t)
  <2>1. pc[t] = "each" /\ ReturnUnlocked(t) /\ UNCHANGED place
    BY <1>4 DEF WalkEnds, WalkDone
  <2>2. place' \in [Maps -> [Pos -> Keys \cup {Empty}]]
    BY <1>1, <2>1 DEF Types
  <2> QED  BY <2>1, <2>2, UnlockedGood
<1> QED
  BY <1>2, <1>3, <1>4

(* The next position of a walk.                                            *)
LEMMA WalkTypes ==
  ASSUME Core, NEW t \in Threads, pc[t] = "each", NextOfWalk(t) # npos
  PROVE  /\ NextOfWalk(t) \in Pos /\ NextOfWalk(t) \in 0 .. NumPos
         /\ call[t].key # None => place[call[t].map][NextOfWalk(t)] = call[t].key
<1> DEFINE T == Targets(call[t])
<1>1. T \in SUBSET Pos
  BY DEF Targets, Entries, At
<1>2. NextOfWalk(t) \in T
  BY <1>1, SearchType DEF NextOfWalk
<1>3. Pos \subseteq 0 .. NumPos
  BY GuardedAssumption DEF Pos
<1> HIDE DEF T
<1>4. NextOfWalk(t) \in Pos /\ NextOfWalk(t) \in 0 .. NumPos
  BY <1>1, <1>2, <1>3
<1>5. call[t].key # None => place[call[t].map][NextOfWalk(t)] = call[t].key
  BY <1>2 DEF T, Targets, At
<1> QED
  BY <1>4, <1>5

(* A walk begins, and for_each goes on.                                    *)
LEMMA WalkOnGood ==
  ASSUME IInv, NEW t \in Threads, StartWalk(t) \/ ForEachVisits(t)
  PROVE  Good(t)
<1>1. Core /\ Types /\ CallOK(pc[t], call[t]) /\ HeldOK(pc[t], call[t], held[t])
  BY Known DEF IInv
<1>2. /\ UNCHANGED <<place, mutex, call, held, calls>> /\ pc' = [pc EXCEPT ![t] = "each"]
      /\ pc[t] \in {"inner", "each"} /\ call[t].op \in WalkOps
      /\ cursor' \in [Threads -> 0 .. NumPos]
  <2>1. ASSUME StartWalk(t) PROVE <1>2
    BY <1>1, <2>1 DEF StartWalk, Goto, Types
  <2>2. ASSUME ForEachVisits(t) PROVE <1>2
    <3>1. /\ UNCHANGED <<place, mutex, pc, call, held, calls>> /\ Visit(t)
          /\ pc[t] = "each" /\ NextOfWalk(t) # npos /\ call[t].op \in WalkOps
      BY <2>2 DEF ForEachVisits, Walking, WalkOps
    <3>2. NextOfWalk(t) \in 0 .. NumPos
      BY <1>1, <3>1, WalkTypes
    <3> QED  BY <1>1, <3>1, <3>2 DEF Visit, Types
  <2> QED  BY <2>1, <2>2
<1>3. pc'[t] = "each" /\ call'[t] = call[t] /\ held'[t] = held[t] /\ Others(t) /\ Types'
  BY <1>1, <1>2 DEF Types, Others
<1>4. CallOK(pc'[t], call'[t])
  BY <1>1, <1>2, <1>3 DEF CallOK
<1>5. HeldOK(pc'[t], call'[t], held'[t])
  BY <1>1, <1>2, <1>3 DEF HeldOK
<1>6. ASSUME NEW m \in Maps, NEW mode \in {"shared", "exclusive"}
      PROVE  Locks(t, m, mode)' = Locks(t, m, mode)
  BY <1>2, <1>3 DEF Locks, LocksIn
<1>7. Core'
  <2>1. /\ Accounted' /\ Exclusion'
        /\ owner' \in [Maps -> Threads \cup {None}] /\ shares' \in [Maps -> [Threads -> Nat]]
    BY <1>1, <1>2, <1>3, <1>6, SameStep
  <2> QED  BY <1>1, <1>3, <1>4, <1>5, <2>1, CoreStep
<1>8. Valid(t)'
  BY <1>2, SameValid DEF mutex
<1>9. Writes(t)
  BY <1>2 DEF Writes
<1> QED
  BY <1>3, <1>7, <1>8, <1>9 DEF Good

(* A walk of find_all or update_all takes a position.                      *)
LEMMA CollectGood ==
  ASSUME IInv, NEW t \in Threads, FindAllVisits(t) \/ UpdateAllVisits(t)
  PROVE  Good(t)
<1> DEFINE mode == IF call[t].op = "find_all" THEN "shared" ELSE "deferred"
           y == PositionAt(t, NextOfWalk(t), call[t].key, mode)
           n == call[t].map
<1>1. /\ Core /\ Types /\ CallOK(pc[t], call[t]) /\ HeldOK(pc[t], call[t], held[t])
      /\ held[t] \in Seq(Position)
  BY Known DEF IInv
<1>2. /\ pc[t] = "each" /\ NextOfWalk(t) # npos /\ UNCHANGED <<place, pc, call, calls>>
      /\ call[t].op \in {"find_all", "update_all"}
      /\ Visit(t) /\ held' = [held EXCEPT ![t] = Append(held[t], y)]
      /\ \/ call[t].op = "find_all" /\ CanShare(n) /\ Locked(t, Only(n, "shared"))
         \/ call[t].op = "update_all" /\ UNCHANGED mutex
  <2>1. ASSUME FindAllVisits(t) PROVE <1>2
    BY <2>1 DEF FindAllVisits, Walking, Collect, Hold
  <2>2. ASSUME UpdateAllVisits(t) PROVE <1>2
    BY <2>2 DEF UpdateAllVisits, Walking, Collect, Hold
  <2> QED  BY <2>1, <2>2
<1>3. /\ NextOfWalk(t) \in 0 .. NumPos /\ n \in Maps /\ call[t].key \in Keys
      /\ call[t].key # None /\ place[n][NextOfWalk(t)] = call[t].key
  <2>1. n \in Maps /\ call[t].key \in Keys /\ call[t].key # None
    BY <1>1, <1>2, GuardedAssumption DEF CallOK, KeyOps
  <2> QED  BY <1>1, <1>2, <2>1, WalkTypes
<1>4. /\ y \in Position /\ y.map = n /\ y.at = NextOfWalk(t) /\ y.key = call[t].key
      /\ y.lock = mode
  BY <1>3 DEF PositionAt, Position
<1> HIDE DEF y
<1>5. Append(held[t], y) \in Seq(Position)
  BY <1>1, <1>4, AppendProperties
<1>6. /\ pc'[t] = pc[t] /\ call'[t] = call[t] /\ held'[t] = Append(held[t], y)
      /\ Others(t) /\ Types'
  BY <1>1, <1>2, <1>3, <1>5 DEF Types, Others, Visit
<1>7. CallOK(pc'[t], call'[t])
  BY <1>1, <1>2, <1>6 DEF CallOK
<1>8. HeldOK(pc'[t], call'[t], held'[t])
  <2>1. ASSUME call[t].op = "update_all", NEW i \in 1 .. Len(Append(held[t], y))
        PROVE  /\ Append(held[t], y)[i].map = n
               /\ Append(held[t], y)[i].lock = "deferred"
    <3>1. \A j \in 1 .. Len(held[t]) : held[t][j].map = n /\ held[t][j].lock = "deferred"
      <4>1. call[t].op \notin ReadOps
        BY <2>1 DEF ReadOps
      <4> QED  BY <1>1, <1>2, <4>1 DEF HeldOK
    <3>2. y.map = n /\ y.lock = "deferred"
      BY <1>4, <2>1
    <3>3. /\ Len(held[t]) \in Nat /\ Len(Append(held[t], y)) = Len(held[t]) + 1
          /\ Append(held[t], y)[Len(held[t]) + 1] = y
          /\ \A j \in 1 .. Len(held[t]) : Append(held[t], y)[j] = held[t][j]
      BY <1>1, <1>4, AppendProperties
    <3>4. i = Len(held[t]) + 1 \/ i \in 1 .. Len(held[t])
      BY <3>3
    <3> QED  BY <3>1, <3>2, <3>3, <3>4
  <2>2. "find_all" \in ReadOps
    BY DEF ReadOps
  <2> QED  BY <1>2, <1>6, <2>1, <2>2 DEF HeldOK
<1>9. ASSUME NEW m \in Maps, NEW md \in {"shared", "exclusive"}
      PROVE  Locks(t, m, md)' = Locks(t, m, md) + Is(y, m, md)
  <2> DEFINE h == NumHeld(held[t], m, md)
             c == Num(LocksIn(pc[t], call[t]), m, md)
             a == Is(y, m, md)
  <2>1. NumHeld(held'[t], m, md) = h + a
    BY <1>1, <1>4, <1>6, NumHeldAppend
  <2>2. Locks(t, m, md) = h + c /\ Locks(t, m, md)' = (h + a) + c
    BY <1>6, <2>1 DEF Locks
  <2>3. h \in Nat /\ c \in {0, 1} /\ a \in {0, 1}
    BY <1>1, LocksType DEF Is, Core
  <2> HIDE DEF h, c, a
  <2>4. (h + a) + c = (h + c) + a
    BY <2>3
  <2>5. Locks(t, m, md)' = Locks(t, m, md) + a
    BY <2>2, <2>4
  <2> QED  BY <2>5 DEF a
<1> DEFINE Accounts ==
             /\ Accounted' /\ Exclusion'
             /\ owner' \in [Maps -> Threads \cup {None}]
             /\ shares' \in [Maps -> [Threads -> Nat]]
<1>10. Accounts
  <2>1. ASSUME call[t].op = "find_all", CanShare(n), Locked(t, Only(n, "shared"))
        PROVE  Accounts
    <3>1. \A m \in DOMAIN Only(n, "shared") :
            /\ Only(n, "shared")[m] \in {"shared", "exclusive"}
            /\ CanLock(m, Only(n, "shared")[m])
      BY <2>1 DEF Only, CanLock
    <3>2. ASSUME NEW m \in Maps, NEW md \in {"shared", "exclusive"}
          PROVE  Locks(t, m, md)' = Locks(t, m, md) + Num(Only(n, "shared"), m, md)
      <4>1. y.map = n /\ y.lock = "shared"
        BY <1>4, <2>1
      <4>2. Num(Only(n, "shared"), m, md) = IF m = n /\ "shared" = md THEN 1 ELSE 0
        BY DEF Num, Only
      <4>3. Is(y, m, md) = Num(Only(n, "shared"), m, md)
        BY <4>1, <4>2 DEF Is
      <4> QED  BY <1>9, <4>3
    <3> QED  BY <1>1, <1>6, <2>1, <3>1, <3>2, LockStep
  <2>2. ASSUME call[t].op = "update_all", UNCHANGED mutex
        PROVE  Accounts
    <3>1. ASSUME NEW m \in Maps, NEW md \in {"shared", "exclusive"}
          PROVE  Locks(t, m, md)' = Locks(t, m, md)
      <4>1. Is(y, m, md) = 0
        BY <1>4, <2>2 DEF Is
      <4>2. Locks(t, m, md) \in Nat
        BY <1>1, LocksType DEF Core
      <4> QED  BY <1>9, <4>1, <4>2
    <3> QED  BY <1>1, <1>6, <2>2, <3>1, SameStep
  <2> QED  BY <1>2, <2>1, <2>2
<1>11. \A m \in Maps : owner'[m] = owner[m]
  <2>1. ASSUME Locked(t, Only(n, "shared")), NEW m \in Maps
        PROVE  owner'[m] = owner[m]
    <3>1. ~(m \in DOMAIN Only(n, "shared") /\ Only(n, "shared")[m] = "exclusive")
      BY DEF Only
    <3> QED  BY <2>1, <3>1 DEF Locked
  <2> QED  BY <1>2, <2>1 DEF mutex
<1>12. Core'
  BY <1>1, <1>6, <1>7, <1>8, <1>10, CoreStep
<1>13. Valid(t)'
  BY <1>2, <1>3, <1>4, <1>6, <1>11, AddedValid
<1>14. Writes(t)
  BY <1>2 DEF Writes
<1> QED
  BY <1>6, <1>12, <1>13, <1>14 DEF Good

(* A position is replaced.                                                 *)
LEMMA Replaced ==
  ASSUME Core, NEW t \in Threads, NEW i \in DOMAIN held[t], NEW y \in Position,
         held' = [held EXCEPT ![t] = [held[t] EXCEPT ![i] = y]]
  PROVE  /\ held'[t] \in Seq(Position) /\ held' \in [Threads -> Seq(Position)]
         /\ Len(held'[t]) = Len(held[t]) /\ DOMAIN held'[t] = DOMAIN held[t]
         /\ held'[t][i] = y /\ held'[t] = [held[t] EXCEPT ![i] = y]
         /\ \A j \in DOMAIN held[t] : j # i => held'[t][j] = held[t][j]
         /\ \A u \in Threads \ {t} : held'[u] = held[u]
<1> DEFINE s == held[t]
           u == [s EXCEPT ![i] = y]
<1>1. /\ Types /\ s \in Seq(Position) /\ DOMAIN s = 1 .. Len(s) /\ Len(s) \in Nat
  BY Known
<1>2. held'[t] = u /\ \A v \in Threads \ {t} : held'[v] = held[v]
  BY <1>1 DEF Types
<1>3. /\ u \in Seq(Position) /\ Len(u) = Len(s) /\ u[i] = y
      /\ \A j \in 1 .. Len(s) : j # i => u[j] = s[j]
  BY <1>1, ExceptSeq
<1>4. held' \in [Threads -> Seq(Position)]
  BY <1>1, <1>3 DEF Types
<1>5. DOMAIN u = DOMAIN s
  BY <1>1, <1>3
<1> QED
  BY <1>1, <1>2, <1>3, <1>4, <1>5 DEF s, u

(* update_all ends: the lock goes with the last position, if there is one. *)
LEMMA UpdateAllEndsGood ==
  ASSUME IInv, NEW t \in Threads, UpdateAllEnds(t)
  PROVE  Good(t)
<1> DEFINE n == call[t].map
           s == held[t]
           i == Len(s)
           y == [s[i] EXCEPT !.lock = "exclusive"]
<1>1. /\ Core /\ Types /\ CallOK(pc[t], call[t]) /\ HeldOK(pc[t], call[t], s)
      /\ s \in Seq(Position) /\ DOMAIN s = 1 .. Len(s) /\ Len(s) \in Nat
  BY Known DEF IInv
<1>2. pc[t] = "each" /\ call[t].op = "update_all" /\ Return(t) /\ UNCHANGED place
  BY DEF UpdateAllEnds, WalkDone
<1>3. place' \in [Maps -> [Pos -> Keys \cup {Empty}]]
  BY <1>1, <1>2 DEF Types
<1>4. ASSUME ~KeepsLock(t) PROVE Good(t)
  <2>1. ReturnUnlocked(t)
    BY <1>2, <1>4 DEF UpdateAllEnds, ReturnUnlocked
  <2> QED  BY <1>2, <1>3, <2>1, UnlockedGood
<1>5. ASSUME KeepsLock(t) PROVE Good(t)
  <2>1. /\ UNCHANGED mutex
        /\ held' = [held EXCEPT ![t] = [j \in DOMAIN s |->
                     IF j = i THEN [s[j] EXCEPT !.lock = "exclusive"] ELSE s[j]]]
    BY <1>5 DEF UpdateAllEnds, Hold
  <2>2. i \in DOMAIN s /\ s[i] \in Position
    BY <1>1, <1>5 DEF KeepsLock
  <2>3. y \in Position /\ y.map = s[i].map /\ y.at = s[i].at /\ y.key = s[i].key
        /\ y.lock = "exclusive"
    BY <2>2 DEF Position
  <2>4. held' = [held EXCEPT ![t] = [held[t] EXCEPT ![i] = y]]
    <3>1. [j \in DOMAIN s |-> IF j = i THEN [s[j] EXCEPT !.lock = "exclusive"] ELSE s[j]]
            = [s EXCEPT ![i] = y]
      BY <1>1, <2>2
    <3> QED  BY <2>1, <3>1
  <2>5. s[i].map = n /\ s[i].lock = "deferred" /\ n \in Maps
    <3>1. call[t].op \notin ReadOps /\ held[t] # <<>>
      BY <1>2, <1>5 DEF ReadOps, KeepsLock
    <3> QED  BY <1>1, <1>2, <2>2, <3>1 DEF HeldOK, CallOK
  <2> HIDE DEF s, i, y
  <2>6. /\ held' \in [Threads -> Seq(Position)] /\ DOMAIN held'[t] = DOMAIN s
        /\ held'[t][i] = y /\ \A j \in DOMAIN s : j # i => held'[t][j] = s[j]
        /\ \A u \in Threads \ {t} : held'[u] = held[u]
        /\ held'[t] = [s EXCEPT ![i] = y]
    BY <1>1, <2>2, <2>3, <2>4, Replaced DEF s
  <2>7. /\ Others(t) /\ Types' /\ pc'[t] = "idle" /\ call'[t] = NoCall
        /\ CallOK(pc'[t], call'[t]) /\ HeldOK(pc'[t], call'[t], held'[t])
    BY <1>1, <1>2, <1>3, <2>6, ReturnTypes
  <2>8. ASSUME NEW m \in Maps, NEW mode \in {"shared", "exclusive"}
        PROVE  Locks(t, m, mode)' = Locks(t, m, mode)
    <3> DEFINE h == NumHeld(s, m, mode)
               a == Is(y, m, mode)
    <3>1. Is(s[i], m, mode) = 0
      BY <2>5 DEF Is
    <3>2. Num(LocksIn(pc'[t], call'[t]), m, mode) = 0
      BY <2>7, NumNone
    <3>3. Num(LocksIn(pc[t], call[t]), m, mode) = a
      <4>1. LocksIn(pc[t], call[t]) = Modes(call[t])
        BY <1>2 DEF LocksIn
      <4>2. call[t].op \notin PairOps /\ ~Reads(call[t], n) /\ n \in MapsOf(call[t])
        BY <1>2 DEF PairOps, Reads, MapsOf, ReadOps
      <4>3. Mode(call[t]) = "exclusive"
        BY <4>2, ModesType DEF Mode
      <4>4. Num(Modes(call[t]), m, mode) = IF m = n /\ Mode(call[t]) = mode THEN 1 ELSE 0
        BY <4>2, NumModes
      <4> QED  BY <2>3, <2>5, <4>1, <4>3, <4>4 DEF Is
    <3>4. h \in Nat /\ a \in {0, 1}
      BY <1>1, LocksType DEF Is, s, Core
    <3>5. NumHeld(held'[t], m, mode) = h + a - 0
      <4>1. NumHeld([s EXCEPT ![i] = y], m, mode) = h + a - Is(s[i], m, mode)
        BY <1>1, <2>2, <2>3, NumHeldExcept DEF s
      <4> QED  BY <2>6, <3>1, <4>1
    <3>6. Locks(t, m, mode)' = (h + a - 0) + 0 /\ Locks(t, m, mode) = h + a
      BY <3>2, <3>3, <3>5 DEF Locks, s
    <3> HIDE DEF h, a
    <3>7. (h + a - 0) + 0 = h + a
      BY <3>4
    <3> QED  BY <3>6, <3>7
  <2>9. Core'
    <3>1. /\ Accounted' /\ Exclusion'
          /\ owner' \in [Maps -> Threads \cup {None}] /\ shares' \in [Maps -> [Threads -> Nat]]
      BY <1>1, <2>1, <2>7, <2>8, SameStep
    <3> QED  BY <1>1, <2>7, <3>1, CoreStep
  <2>10. owner' = owner /\ place' = place
    BY <1>2, <2>1 DEF mutex
  <2>11. owner[n] = t
    <3>1. n \in MapsOf(call[t]) /\ ~Reads(call[t], n)
      BY <1>2 DEF PairOps, Reads, MapsOf, ReadOps
    <3> QED  BY <1>1, <1>2, <2>5, <3>1, ModesType, CallLocks
  <2>12. ASSUME NEW j \in DOMAIN s,
                held'[t][j].lock # "deferred" \/ owner'[held'[t][j].map] = t,
                held'[t][j].key # None
         PROVE  place'[held'[t][j].map][held'[t][j].at] = held'[t][j].key
    <3>1. /\ held'[t][j].map = s[j].map /\ held'[t][j].at = s[j].at /\ held'[t][j].key = s[j].key
          /\ s[j].lock # "deferred" \/ owner[s[j].map] = t
      BY <2>3, <2>5, <2>6, <2>10, <2>11, <2>12
    <3>2. Valid(t)
      BY DEF IInv, PositionsValid, Valid
    <3>3. place[s[j].map][s[j].at] = s[j].key
      BY <2>12, <3>1, <3>2 DEF Valid, s
    <3> QED  BY <2>10, <3>1, <3>3
  <2>13. Valid(t)'
    BY <2>6, <2>12 DEF Valid
  <2>14. Writes(t)
    BY <1>2 DEF Writes
  <2> QED  BY <2>7, <2>9, <2>13, <2>14 DEF Good
<1> QED
  BY <1>4, <1>5

(* A thread that is idle replaces one of its positions: what its step      *)
(* leaves to show.                                                         *)
LEMMA IdleStep ==
  ASSUME Core, NEW t \in Threads, pc[t] = "idle", UNCHANGED <<pc, call, cursor, calls>>,
         place' \in [Maps -> [Pos -> Keys \cup {Empty}]],
         held' \in [Threads -> Seq(Position)], \A u \in Threads \ {t} : held'[u] = held[u]
  PROVE  /\ Others(t) /\ Types' /\ CallOK(pc'[t], call'[t])
         /\ HeldOK(pc'[t], call'[t], held'[t])
         /\ \A m \in Maps, mode \in {"shared", "exclusive"} :
              /\ Locks(t, m, mode) = NumHeld(held[t], m, mode)
              /\ Locks(t, m, mode)' = NumHeld(held'[t], m, mode)
<1>1. Types /\ TypeOK /\ held[t] \in Seq(Position) /\ held'[t] \in Seq(Position)
  BY Known
<1>2. Others(t) /\ Types' /\ pc'[t] = "idle"
  BY <1>1 DEF Others, Types
<1>3. ASSUME NEW m \in Maps, NEW mode \in {"shared", "exclusive"}
      PROVE  /\ Locks(t, m, mode) = NumHeld(held[t], m, mode)
             /\ Locks(t, m, mode)' = NumHeld(held'[t], m, mode)
  <2>1. Num(LocksIn(pc[t], call[t]), m, mode) = 0 /\ Num(LocksIn(pc'[t], call'[t]), m, mode) = 0
    BY <1>2, NumNone
  <2>2. NumHeld(held[t], m, mode) \in Nat /\ NumHeld(held'[t], m, mode) \in Nat
    BY <1>1, NumHeldType
  <2> QED  BY <2>1, <2>2 DEF Locks
<1> QED
  BY <1>2, <1>3 DEF CallOK, HeldOK

(* A position or an iterator moves to another place of its map.            *)
LEMMA MovedGood ==
  ASSUME IInv, NEW t \in Threads, NEW i \in DOMAIN held[t], pc[t] = "idle",
         NEW p \in 0 .. NumPos, KeyAt(place[held[t][i].map], p) \in Keys \cup {None},
         Move(t, i, p), UNCHANGED <<place, mutex, pc, call, cursor, calls>>
  PROVE  Good(t)
<1> DEFINE s == held[t]
           k == KeyAt(place[s[i].map], p)
           y == [s[i] EXCEPT !.at = p, !.key = k]
<1>1. Core /\ Types /\ s[i] \in Position /\ s \in Seq(Position) /\ DOMAIN s = 1 .. Len(s)
  BY Known DEF IInv
<1>2. y \in Position /\ y.map = s[i].map /\ y.at = p /\ y.key = k /\ y.lock = s[i].lock
  BY <1>1 DEF Position
<1>3. held' = [held EXCEPT ![t] = [held[t] EXCEPT ![i] = y]]
  <2>1. [s EXCEPT ![i].at = p, ![i].key = k] = [s EXCEPT ![i] = y]
    BY <1>1 DEF Position
  <2> QED  BY <2>1 DEF Move, Hold
<1> HIDE DEF y
<1>4. /\ held' \in [Threads -> Seq(Position)] /\ DOMAIN held'[t] = DOMAIN s
      /\ held'[t][i] = y /\ \A j \in DOMAIN s : j # i => held'[t][j] = s[j]
      /\ \A u \in Threads \ {t} : held'[u] = held[u]
      /\ held'[t] = [s EXCEPT ![i] = y]
  BY <1>1, <1>2, <1>3, Replaced
<1>5. /\ Others(t) /\ Types' /\ CallOK(pc'[t], call'[t])
      /\ HeldOK(pc'[t], call'[t], held'[t])
      /\ \A m \in Maps, mode \in {"shared", "exclusive"} :
           /\ Locks(t, m, mode) = NumHeld(held[t], m, mode)
           /\ Locks(t, m, mode)' = NumHeld(held'[t], m, mode)
  <2>1. place' \in [Maps -> [Pos -> Keys \cup {Empty}]]
    BY <1>1 DEF Types
  <2> QED  BY <1>1, <1>4, <2>1, IdleStep
<1>6. ASSUME NEW m \in Maps, NEW mode \in {"shared", "exclusive"}
      PROVE  Locks(t, m, mode)' = Locks(t, m, mode)
  <2> DEFINE h == NumHeld(s, m, mode)
             a == Is(y, m, mode)
  <2>1. Is(s[i], m, mode) = a
    BY <1>2 DEF Is
  <2>2. h \in Nat /\ a \in {0, 1}
    BY <1>1, NumHeldType DEF Is
  <2>3. NumHeld(held'[t], m, mode) = h + a - a
    <3>1. NumHeld([s EXCEPT ![i] = y], m, mode) = h + a - Is(s[i], m, mode)
      BY <1>1, <1>2, NumHeldExcept
    <3> QED  BY <1>4, <2>1, <3>1
  <2>4. Locks(t, m, mode) = h /\ Locks(t, m, mode)' = h + a - a
    BY <1>5, <2>3
  <2> HIDE DEF h, a
  <2>5. h + a - a = h
    BY <2>2
  <2> QED  BY <2>4, <2>5
<1>7. Core'
  <2>1. /\ Accounted' /\ Exclusion'
        /\ owner' \in [Maps -> Threads \cup {None}] /\ shares' \in [Maps -> [Threads -> Nat]]
    BY <1>1, <1>5, <1>6, SameStep
  <2> QED  BY <1>1, <1>5, <2>1, CoreStep
<1>8. ASSUME NEW j \in DOMAIN s,
             held'[t][j].lock # "deferred" \/ owner'[held'[t][j].map] = t,
             held'[t][j].key # None
      PROVE  place'[held'[t][j].map][held'[t][j].at] = held'[t][j].key
  <2>1. CASE j = i
    BY <1>2, <1>4, <1>8, <2>1 DEF KeyAt
  <2>2. CASE j # i
    <3>1. Valid(t) /\ held'[t][j] = s[j] /\ owner' = owner /\ place' = place
      BY <1>4, <2>2 DEF IInv, PositionsValid, Valid, mutex
    <3> QED  BY <1>8, <3>1 DEF Valid
  <2> QED  BY <2>1, <2>2
<1>9. Valid(t)'
  BY <1>4, <1>8 DEF Valid
<1>10. Writes(t)
  BY DEF Writes
<1> QED
  BY <1>5, <1>7, <1>9, <1>10 DEF Good

(* find_next and update_next, and the steps of an iterator.                *)
LEMMA MovesGood ==
  ASSUME IInv, NEW t \in Threads, NEW i \in DOMAIN held[t], FindNext(t, i) \/ MoveIterator(t, i)
  PROVE  Good(t)
<1> DEFINE x == held[t][i]
           f == place[x.map]
<1>1. Types /\ x \in Position /\ x.map \in Maps /\ f \in [Pos -> Keys \cup {Empty}]
  <2>1. Types /\ x \in Position
    BY Known DEF IInv
  <2> QED  BY <2>1 DEF Types, Position
<1>2. pc[t] = "idle" /\ UNCHANGED <<place, mutex, pc, call, cursor, calls>>
  BY DEF FindNext, MoveIterator, HasAt, Has
<1>3. ASSUME FindNext(t, i) PROVE Good(t)
  <2> DEFINE p == NextIn(At(f, x.key), x.at)
  <2>1. x.key # None /\ Move(t, i, p)
    BY <1>3 DEF FindNext
  <2>2. x.key \in Keys
    BY <1>1, <2>1 DEF Position
  <2>3. p \in 0 .. NumPos /\ KeyAt(f, p) \in Keys \cup {None}
    <3>1. p \in 0 .. NumPos /\ KeyAt(f, p) \in {x.key, None}
      BY <1>1, <2>2, FoundTypes
    <3> QED  BY <2>2, <3>1
  <2> HIDE DEF p
  <2> QED  BY <1>2, <2>1, <2>3, MovedGood
<1>4. ASSUME MoveIterator(t, i) PROVE Good(t)
  <2>1. PICK p \in {NextIn(Entries(f), x.at), PrevIn(Entries(f), x.at)} : Move(t, i, p)
    BY <1>4 DEF MoveIterator
  <2>2. p \in 0 .. NumPos /\ KeyAt(f, p) \in Keys \cup {None}
    <3>1. Entries(f) \in SUBSET Pos /\ Pos \subseteq 0 .. NumPos /\ npos \in 0 .. NumPos
      BY GuardedAssumption DEF Entries, Pos, npos
    <3>2. p \in Entries(f) \cup {npos}
      BY <2>1, <3>1, SearchType
    <3> QED  BY <1>1, <3>1, <3>2 DEF KeyAt, Entries
  <2> QED  BY <1>2, <2>1, <2>2, MovedGood
<1> QED
  BY <1>3, <1>4

(* A write position becomes a read position.                               *)
LEMMA DowngradeGood ==
  ASSUME IInv, NEW t \in Threads, NEW i \in DOMAIN held[t], Downgrade(t, i)
  PROVE  Good(t)
<1> DEFINE s == held[t]
           n == s[i].map
           y == [s[i] EXCEPT !.lock = "shared"]
<1>1. /\ Core /\ Types /\ TypeOK /\ s[i] \in Position /\ s \in Seq(Position)
      /\ DOMAIN s = 1 .. Len(s) /\ n \in Maps
  <2>1. /\ Core /\ Types /\ TypeOK /\ s[i] \in Position /\ s \in Seq(Position)
        /\ DOMAIN s = 1 .. Len(s)
    BY Known DEF IInv
  <2> QED  BY <2>1 DEF Position
<1>2. /\ pc[t] = "idle" /\ UNCHANGED <<place, pc, call, cursor, calls>>
      /\ s[i].lock = "exclusive" /\ owner' = [owner EXCEPT ![n] = None]
      /\ shares' = [shares EXCEPT ![n][t] = @ + 1]
      /\ held' = [held EXCEPT ![t] = [held[t] EXCEPT ![i].lock = "shared"]]
  BY DEF Downgrade, Has, Hold, Downgraded
<1>3. y \in Position /\ y.map = n /\ y.at = s[i].at /\ y.key = s[i].key /\ y.lock = "shared"
  BY <1>1 DEF Position
<1>4. held' = [held EXCEPT ![t] = [held[t] EXCEPT ![i] = y]]
  BY <1>2
<1> HIDE DEF y
<1>5. /\ held' \in [Threads -> Seq(Position)] /\ DOMAIN held'[t] = DOMAIN s
      /\ held'[t][i] = y /\ \A j \in DOMAIN s : j # i => held'[t][j] = s[j]
      /\ \A u \in Threads \ {t} : held'[u] = held[u]
      /\ held'[t] = [s EXCEPT ![i] = y]
  BY <1>1, <1>3, <1>4, Replaced
<1>6. /\ Others(t) /\ Types' /\ CallOK(pc'[t], call'[t])
      /\ HeldOK(pc'[t], call'[t], held'[t])
      /\ \A m \in Maps, mode \in {"shared", "exclusive"} :
           /\ Locks(t, m, mode) = NumHeld(held[t], m, mode)
           /\ Locks(t, m, mode)' = NumHeld(held'[t], m, mode)
  <2>1. place' \in [Maps -> [Pos -> Keys \cup {Empty}]]
    BY <1>1, <1>2 DEF Types
  <2> QED  BY <1>1, <1>2, <1>5, <2>1, IdleStep
<1>7. owner[n] = t /\ \A u \in Threads : shares[n][u] = 0
  <2>1. owner[n] = t
    BY <1>1, <1>2, HeldLocks
  <2> QED  BY <1>1, <2>1, GuardedAssumption DEF Core, Exclusion
<1>8. ASSUME NEW m \in Maps
      PROVE  /\ Locks(t, m, "shared")' = Locks(t, m, "shared") + (IF m = n THEN 1 ELSE 0)
             /\ Locks(t, m, "exclusive")' = Locks(t, m, "exclusive") - (IF m = n THEN 1 ELSE 0)
  <2>1. ASSUME NEW mode \in {"shared", "exclusive"}
        PROVE  NumHeld(held'[t], m, mode)
                 = NumHeld(s, m, mode) + Is(y, m, mode) - Is(s[i], m, mode)
    <3>1. NumHeld([s EXCEPT ![i] = y], m, mode)
            = NumHeld(s, m, mode) + Is(y, m, mode) - Is(s[i], m, mode)
      BY <1>1, <1>3, NumHeldExcept
    <3> QED  BY <1>5, <3>1
  <2>2. /\ Is(y, m, "shared") = (IF m = n THEN 1 ELSE 0) /\ Is(s[i], m, "shared") = 0
        /\ Is(s[i], m, "exclusive") = (IF m = n THEN 1 ELSE 0) /\ Is(y, m, "exclusive") = 0
    BY <1>2, <1>3 DEF Is
  <2>3. NumHeld(s, m, "shared") \in Nat /\ NumHeld(s, m, "exclusive") \in Nat
    BY <1>1, NumHeldType
  <2>4. Locks(t, m, "shared")' = NumHeld(s, m, "shared") + (IF m = n THEN 1 ELSE 0) - 0
    BY <1>6, <2>1, <2>2
  <2>5. Locks(t, m, "exclusive")' = NumHeld(s, m, "exclusive") + 0 - (IF m = n THEN 1 ELSE 0)
    BY <1>6, <2>1, <2>2
  <2> QED  BY <1>6, <2>3, <2>4, <2>5
<1>9. /\ owner' \in [Maps -> Threads \cup {None}] /\ shares' \in [Maps -> [Threads -> Nat]]
      /\ \A m \in Maps : owner'[m] = IF m = n THEN None ELSE owner[m]
      /\ \A m \in Maps, u \in Threads :
           shares'[m][u] = shares[m][u] + IF m = n /\ u = t THEN 1 ELSE 0
  BY <1>1, <1>2 DEF TypeOK
<1>10. Accounted'
  <2>1. ASSUME NEW u \in Threads, NEW m \in Maps
        PROVE  /\ shares'[m][u] = Locks(u, m, "shared")'
               /\ Locks(u, m, "exclusive")' = IF owner'[m] = u THEN 1 ELSE 0
    <3>1. /\ shares[m][u] = Locks(u, m, "shared") /\ shares[m][u] \in Nat
          /\ Locks(u, m, "exclusive") = IF owner[m] = u THEN 1 ELSE 0
      BY <1>1 DEF Core, Accounted, TypeOK
    <3>2. CASE u = t
      <4>1. t # None
        BY GuardedAssumption
      <4> QED  BY <1>7, <1>8, <1>9, <3>1, <3>2, <4>1
    <3>3. CASE u # t
      <4>1. /\ Locks(u, m, "shared")' = Locks(u, m, "shared")
            /\ Locks(u, m, "exclusive")' = Locks(u, m, "exclusive")
        BY <1>6, <3>3, OtherLocks
      <4>2. owner'[m] = u <=> owner[m] = u
        BY <1>7, <1>9, <3>3, GuardedAssumption
      <4> QED  BY <1>9, <3>1, <3>3, <4>1, <4>2
    <3> QED  BY <3>2, <3>3
  <2> QED  BY <2>1 DEF Accounted
<1>11. Exclusion'
  <2> SUFFICES ASSUME NEW m \in Maps, NEW u \in Threads, owner'[m] # None
               PROVE  shares'[m][u] = 0
    BY DEF Exclusion
  <2>1. m # n /\ owner[m] # None
    BY <1>9
  <2>2. shares[m][u] = 0
    BY <1>1, <2>1 DEF Core, Exclusion
  <2> QED  BY <1>9, <2>1, <2>2
<1>12. Core'
  BY <1>1, <1>6, <1>9, <1>10, <1>11, CoreStep
<1>13. ASSUME NEW j \in DOMAIN s,
              held'[t][j].lock # "deferred" \/ owner'[held'[t][j].map] = t,
              held'[t][j].key # None
       PROVE  place'[held'[t][j].map][held'[t][j].at] = held'[t][j].key
  <2>1. j = i
    BY <1>1 DEF Downgrade
  <2>2. Valid(t) /\ place' = place
    BY <1>2 DEF IInv, PositionsValid, Valid
  <2> QED  BY <1>2, <1>3, <1>5, <1>13, <2>1, <2>2 DEF Valid
<1>14. Valid(t)'
  BY <1>5, <1>13 DEF Valid
<1>15. Writes(t)
  BY <1>2 DEF Writes
<1> QED
  BY <1>6, <1>12, <1>14, <1>15 DEF Good

(* An entry is erased through a position.                                  *)
LEMMA EraseThroughGood ==
  ASSUME IInv, NEW t \in Threads, NEW i \in DOMAIN held[t], NEW k \in Keys,
         EraseThrough(t, i, k)
  PROVE  Good(t)
<1> DEFINE s == held[t]
           n == s[i].map
<1>1. /\ Core /\ Types /\ s[i] \in Position /\ s \in Seq(Position)
      /\ DOMAIN s = 1 .. Len(s) /\ n \in Maps /\ place[n] \in [Pos -> Keys \cup {Empty}]
  <2>1. /\ Core /\ Types /\ s[i] \in Position /\ s \in Seq(Position) /\ DOMAIN s = 1 .. Len(s)
    BY Known DEF IInv
  <2> QED  BY <2>1 DEF Position, Types
<1>2. PICK p \in {s[i].at, NextIn(At(place[n], k), s[i].at)} :
        \E f \in Erased(place[n], p) :
          /\ place' = [place EXCEPT ![n] = f]
          /\ held' = [held EXCEPT ![t] = [held[t] EXCEPT ![i].at = p, ![i].key = None]]
  BY DEF EraseThrough, Hold
<1>3. PICK f \in Erased(place[n], p) :
        /\ place' = [place EXCEPT ![n] = f]
        /\ held' = [held EXCEPT ![t] = [held[t] EXCEPT ![i].at = p, ![i].key = None]]
  BY <1>2
<1> DEFINE y == [s[i] EXCEPT !.at = p, !.key = None]
<1>4. /\ pc[t] = "idle" /\ UNCHANGED <<mutex, pc, call, cursor, calls>>
      /\ s[i].lock = "exclusive" /\ Len(s) = 1
  BY DEF EraseThrough, HasAt, Has
<1>5. p \in 0 .. NumPos /\ f \in [Pos -> Keys \cup {Empty}]
  <2>1. NextIn(At(place[n], k), s[i].at) \in 0 .. NumPos
    BY <1>1, FoundTypes
  <2>2. s[i].at \in 0 .. NumPos
    BY <1>1 DEF Position
  <2> QED  BY <1>1, <1>2, <2>1, <2>2, PlaceTypes
<1>6. y \in Position /\ y.map = n /\ y.key = None /\ y.lock = "exclusive"
  BY <1>1, <1>4, <1>5 DEF Position
<1>7. held' = [held EXCEPT ![t] = [held[t] EXCEPT ![i] = y]]
  <2>1. [s EXCEPT ![i].at = p, ![i].key = None] = [s EXCEPT ![i] = y]
    BY <1>1 DEF Position
  <2> QED  BY <1>3, <2>1
<1> HIDE DEF y
<1>8. /\ held' \in [Threads -> Seq(Position)] /\ DOMAIN held'[t] = DOMAIN s
      /\ held'[t][i] = y /\ \A u \in Threads \ {t} : held'[u] = held[u]
      /\ held'[t] = [s EXCEPT ![i] = y]
  BY <1>1, <1>6, <1>7, Replaced
<1>9. /\ place' \in [Maps -> [Pos -> Keys \cup {Empty}]]
      /\ \A m \in Maps : place'[m] # place[m] => m = n
  BY <1>1, <1>3, <1>5 DEF Types
<1>10. /\ Others(t) /\ Types' /\ CallOK(pc'[t], call'[t])
       /\ HeldOK(pc'[t], call'[t], held'[t])
       /\ \A m \in Maps, mode \in {"shared", "exclusive"} :
            /\ Locks(t, m, mode) = NumHeld(held[t], m, mode)
            /\ Locks(t, m, mode)' = NumHeld(held'[t], m, mode)
  BY <1>1, <1>4, <1>8, <1>9, IdleStep
<1>11. ASSUME NEW m \in Maps, NEW mode \in {"shared", "exclusive"}
       PROVE  Locks(t, m, mode)' = Locks(t, m, mode)
  <2> DEFINE h == NumHeld(s, m, mode)
             a == Is(y, m, mode)
  <2>1. Is(s[i], m, mode) = a
    BY <1>4, <1>6 DEF Is
  <2>2. h \in Nat /\ a \in {0, 1}
    BY <1>1, NumHeldType DEF Is
  <2>3. NumHeld(held'[t], m, mode) = h + a - a
    <3>1. NumHeld([s EXCEPT ![i] = y], m, mode) = h + a - Is(s[i], m, mode)
      BY <1>1, <1>6, NumHeldExcept
    <3> QED  BY <1>8, <2>1, <3>1
  <2>4. Locks(t, m, mode) = h /\ Locks(t, m, mode)' = h + a - a
    BY <1>10, <2>3
  <2> HIDE DEF h, a
  <2>5. h + a - a = h
    BY <2>2
  <2> QED  BY <2>4, <2>5
<1>12. Core'
  <2>1. /\ Accounted' /\ Exclusion'
        /\ owner' \in [Maps -> Threads \cup {None}] /\ shares' \in [Maps -> [Threads -> Nat]]
    BY <1>1, <1>4, <1>10, <1>11, SameStep
  <2> QED  BY <1>1, <1>10, <2>1, CoreStep
<1>13. Valid(t)'
  <2>1. \A j \in DOMAIN held'[t] : held'[t][j].key = None
    BY <1>1, <1>4, <1>6, <1>8
  <2> QED  BY <2>1 DEF Valid
<1>14. Writes(t)
  BY <1>1, <1>4, <1>9, HeldLocks DEF Writes
<1> QED
  BY <1>10, <1>12, <1>13, <1>14 DEF Good

(* A position is dropped.                                                  *)
LEMMA DropGood ==
  ASSUME IInv, NEW t \in Threads, NEW i \in DOMAIN held[t], Drop(t, i)
  PROVE  Good(t)
<1> DEFINE s == held[t]
           n == s[i].map
           modes == Only(n, s[i].lock)
<1>1. /\ Core /\ Types /\ TypeOK /\ s \in Seq(Position) /\ DOMAIN s = 1 .. Len(s)
      /\ \A j \in DOMAIN s : s[j] \in Position
  BY Known DEF IInv
<1>2. /\ pc[t] = "idle" /\ UNCHANGED <<place, pc, call, cursor, calls>>
      /\ Unlocked(t, modes) /\ held' = [held EXCEPT ![t] = RemoveAt(s, i)]
  BY DEF Drop, Has, Hold
<1>3. /\ RemoveAt(s, i) \in Seq(Position) /\ Len(RemoveAt(s, i)) = Len(s) - 1
      /\ \A j \in 1 .. Len(s) - 1 :
           RemoveAt(s, i)[j] = IF j < i THEN s[j] ELSE s[j + 1]
  BY <1>1, Removal
<1>4. /\ held' \in [Threads -> Seq(Position)] /\ \A u \in Threads \ {t} : held'[u] = held[u]
      /\ held'[t] = RemoveAt(s, i)
  BY <1>1, <1>2, <1>3 DEF Types
<1>5. /\ Others(t) /\ Types' /\ CallOK(pc'[t], call'[t])
      /\ HeldOK(pc'[t], call'[t], held'[t])
      /\ \A m \in Maps, mode \in {"shared", "exclusive"} :
           /\ Locks(t, m, mode) = NumHeld(held[t], m, mode)
           /\ Locks(t, m, mode)' = NumHeld(held'[t], m, mode)
  <2>1. place' \in [Maps -> [Pos -> Keys \cup {Empty}]]
    BY <1>1, <1>2 DEF Types
  <2> QED  BY <1>1, <1>2, <1>4, <2>1, IdleStep
<1>6. ASSUME NEW m \in Maps, NEW mode \in {"shared", "exclusive"}
      PROVE  /\ Locks(t, m, mode) >= Num(modes, m, mode)
             /\ Locks(t, m, mode)' = Locks(t, m, mode) - Num(modes, m, mode)
  <2> DEFINE h == NumHeld(s, m, mode)
             r == NumHeld(RemoveAt(s, i), m, mode)
             a == Is(s[i], m, mode)
  <2>1. Num(modes, m, mode) = a
    BY DEF Num, Only, Is
  <2>2. r = h - a
    BY <1>1, NumHeldRemove
  <2>3. h \in Nat /\ r \in Nat /\ a \in {0, 1}
    BY <1>1, <1>3, NumHeldType DEF Is
  <2>4. Locks(t, m, mode) = h /\ Locks(t, m, mode)' = r
    BY <1>4, <1>5
  <2> HIDE DEF h, r, a, modes
  <2>5. h >= a
    BY <2>2, <2>3
  <2> QED  BY <2>1, <2>2, <2>4, <2>5
<1>7. Core'
  <2>1. /\ Accounted' /\ Exclusion'
        /\ owner' \in [Maps -> Threads \cup {None}] /\ shares' \in [Maps -> [Threads -> Nat]]
    BY <1>1, <1>2, <1>5, <1>6, UnlockStep
  <2> QED  BY <1>1, <1>5, <2>1, CoreStep
<1>8. \A m \in Maps : owner'[m] = t => owner[m] = t
  BY <1>2, GuardedAssumption DEF Unlocked
<1>9. ASSUME NEW j \in DOMAIN held'[t],
             held'[t][j].lock # "deferred" \/ owner'[held'[t][j].map] = t,
             held'[t][j].key # None
      PROVE  place'[held'[t][j].map][held'[t][j].at] = held'[t][j].key
  <2>1. j \in 1 .. Len(s) - 1
    BY <1>1, <1>3, <1>4
  <2>2. PICK l \in 1 .. Len(s) : held'[t][j] = s[l]
    <3>1. held'[t][j] = s[j] \/ held'[t][j] = s[j + 1]
      BY <1>3, <1>4, <2>1
    <3>2. j \in 1 .. Len(s) /\ j + 1 \in 1 .. Len(s)
      BY <1>1, <2>1
    <3> QED  BY <3>1, <3>2
  <2>3. s[l].map \in Maps
    BY <1>1 DEF Position
  <2>4. Valid(t) /\ place' = place
    BY <1>2 DEF IInv, PositionsValid, Valid
  <2>5. s[l].lock # "deferred" \/ owner[s[l].map] = t
    BY <1>8, <1>9, <2>2, <2>3
  <2> QED  BY <1>1, <1>9, <2>2, <2>4, <2>5 DEF Valid
<1>10. Valid(t)'
  BY <1>9 DEF Valid
<1>11. Writes(t)
  BY <1>2 DEF Writes
<1> QED
  BY <1>5, <1>7, <1>10, <1>11 DEF Good

-----------------------------------------------------------------------------
(* The theorems.                                                           *)

(* The invariant holds in the beginning.                                   *)
LEMMA InitIInv == Init => IInv
<1> SUFFICES ASSUME Init PROVE IInv
  OBVIOUS
<1> USE DEF Init
<1>1. TypeOK
  <2>1. npos \in 0 .. NumPos /\ <<>> \in Seq(Position)
    BY GuardedAssumption DEF npos
  <2> QED  BY <2>1, GuardedAssumption DEF TypeOK, NoCall, Pos
<1>2. CallShape /\ Exclusion
  BY DEF CallShape, CallOK, HeldOK, Exclusion
<1>3. ASSUME NEW t \in Threads, NEW m \in Maps, NEW mode
      PROVE  Locks(t, m, mode) = 0
  <2>1. Num(LocksIn(pc[t], call[t]), m, mode) = 0
    BY NumNone
  <2>2. held[t] = <<>> /\ <<>> \in Seq(Position) /\ HeldAt(<<>>, m, mode) = {}
    BY DEF HeldAt
  <2>3. NumHeld(held[t], m, mode) = 0
    BY <2>2, NumHeldType
  <2> QED  BY <2>1, <2>3 DEF Locks
<1>4. Accounted
  BY <1>3, GuardedAssumption DEF Accounted
<1>5. PositionsValid
  BY DEF PositionsValid
<1> QED
  BY <1>1, <1>2, <1>4, <1>5 DEF IInv, Core

(* Every step is one of a thread that keeps the positions valid.           *)
LEMMA NextGood ==
  ASSUME IInv, Next
  PROVE  \E t \in Threads : Good(t)
<1>1. PICK t \in Threads :
        \/ \E o \in ReadOps \cup WriteOps \cup PairOps, m \in Maps,
              k \in Keys \cup {None}, n \in Maps \cup {None} : Call(t, o, m, k, n)
        \/ Locking(t)
        \/ \E m \in Maps : TryOther(t, m)
        \/ Inside(t)
        \/ \E i \in DOMAIN held[t] :
             \/ FindNext(t, i) \/ MoveIterator(t, i) \/ Downgrade(t, i) \/ Drop(t, i)
             \/ \E k \in Keys : EraseThrough(t, i, k)
  BY DEF Next
<1>2. ASSUME NEW o \in ReadOps \cup WriteOps \cup PairOps, NEW m \in Maps,
             NEW k \in Keys \cup {None}, NEW n \in Maps \cup {None}, Call(t, o, m, k, n)
      PROVE  Good(t)
  BY <1>2, CallGood
<1>3. ASSUME Locking(t) \/ \E m \in Maps : TryOther(t, m)
      PROVE  Good(t)
  BY <1>3, LockingGood DEF Locking
<1>4. ASSUME Inside(t)
      PROVE  Good(t)
  BY <1>4, PosActionsGood, UnlockedActionsGood, WalkOnGood, CollectGood, UpdateAllEndsGood
     DEF Inside
<1>5. ASSUME NEW i \in DOMAIN held[t],
             \/ FindNext(t, i) \/ MoveIterator(t, i) \/ Downgrade(t, i) \/ Drop(t, i)
             \/ \E k \in Keys : EraseThrough(t, i, k)
      PROVE  Good(t)
  BY <1>5, MovesGood, DowngradeGood, DropGood, EraseThroughGood
<1> QED
  BY <1>1, <1>2, <1>3, <1>4, <1>5

(* The invariant is kept.                                                  *)
LEMMA NextIInv == IInv /\ [Next]_vars => IInv'
<1> SUFFICES ASSUME IInv, [Next]_vars PROVE IInv'
  OBVIOUS
<1>1. CASE Next
  BY <1>1, NextGood, OthersValid
<1>2. CASE UNCHANGED vars
  <2> USE <1>2 DEF vars, mutex
  <2>1. TypeOK' /\ CallShape' /\ Exclusion' /\ PositionsValid'
    BY DEF IInv, Core, TypeOK, CallShape, Exclusion, PositionsValid
  <2>2. ASSUME NEW t \in Threads, NEW m \in Maps, NEW mode
        PROVE  Locks(t, m, mode)' = Locks(t, m, mode)
    BY DEF Locks
  <2>3. Accounted'
    BY <2>2 DEF IInv, Core, Accounted
  <2> QED  BY <2>1, <2>3 DEF IInv, Core
<1> QED
  BY <1>1, <1>2

(* The invariant: the state has its types, a thread in a call has the      *)
(* arguments that the call needs and no positions that a writing call could*)
(* disturb, a mutex that is owned is not shared, every lock belongs to one *)
(* call or position, and the positions are valid.                          *)
THEOREM InductiveInvariant == Spec => []IInv
BY InitIInv, NextIInv, PTL DEF Spec

(* Every lock of a mutex belongs to a call that goes on or to a position   *)
(* that a caller has, and to one of them: lock_ and the moves of locks into*)
(* positions neither leave a mutex locked for good nor release it twice.   *)
THEOREM LocksAccounted == Spec => []LocksAccountedFor
<1>1. IInv => LocksAccountedFor
  <2> SUFFICES ASSUME IInv PROVE LocksAccountedFor
    OBVIOUS
  <2>1. TypeOK /\ Accounted
    BY DEF IInv, Core
  <2>2. ASSUME NEW t \in Threads, NEW m \in Maps
        PROVE  /\ shares[m][t] = NumLocks(t, m, "shared")
               /\ NumLocks(t, m, "exclusive") = IF owner[m] = t THEN 1 ELSE 0
    BY <2>1, SameLocks DEF Accounted
  <2> QED  BY <2>1, <2>2 DEF LocksAccountedFor
<1> QED
  BY <1>1, InductiveInvariant, PTL

(* What find, update, insert, begin, find_all or update_all returned is    *)
(* still there when it is used: no call of another thread moves or erases  *)
(* it while its lock is held.                                              *)
THEOREM PositionsStayValid == Spec => []PositionsValid
<1>1. IInv => PositionsValid
  BY DEF IInv
<1> QED
  BY <1>1, InductiveInvariant, PTL

(* A call that is inside a map, of whatever kind and of one map or of two, *)
(* or walks over it, with the callbacks of for_each, has it to itself:     *)
(* nobody else changes the map.                                            *)
THEOREM NobodyDisturbsCalls == Spec => CallsUndisturbed
<1> DEFINE Stays(t) == \/ pc[t] = "each"
                       \/ pc[t] = "inner" /\ pc'[t] # "idle"
<1>1. ASSUME IInv, [Next]_vars, NEW t \in Threads, NEW m \in MapsOf(call[t]), Stays(t)
      PROVE  place'[m] = place[m]
  <2>1. Core /\ CallOK(pc[t], call[t])
    BY <1>1, Known DEF IInv
  <2>2. m \in Maps
    BY <1>1, <2>1 DEF CallOK, WalkOps, PairOps, MapsOf
  <2>3. ASSUME NEW u \in Threads, Good(u) PROVE place'[m] = place[m]
    <3> SUFFICES ASSUME place'[m] # place[m] PROVE FALSE
      OBVIOUS
    <3>1. /\ owner[m] = u /\ pc[u] # "each"
          /\ pc[u] = "inner" => pc'[u] = "idle"
      BY <2>2, <2>3 DEF Good, Writes
    <3>2. u # t
      BY <1>1, <3>1
    <3>3. shares[m][t] = 0
      BY <2>1, <2>2, <3>1, <3>2, GuardedAssumption DEF Core, Exclusion
    <3>4. Modes(call[t])[m] \in {"shared", "exclusive"}
      BY <1>1, ModesType
    <3>5. /\ Modes(call[t])[m] = "exclusive" => owner[m] = t
          /\ Modes(call[t])[m] = "shared" => shares[m][t] >= 1
      BY <1>1, <2>1, <2>2, CallLocks
    <3> QED  BY <3>1, <3>2, <3>3, <3>4, <3>5
  <2>4. CASE Next
    BY <1>1, <2>3, <2>4, NextGood
  <2>5. CASE UNCHANGED vars
    BY <2>5 DEF vars
  <2> QED  BY <1>1, <2>4, <2>5
<1>2. IInv /\ [Next]_vars =>
        [\A t \in Threads : \A m \in MapsOf(call[t]) :
           Stays(t) => place'[m] = place[m]]_vars
  BY <1>1
<1> QED
  BY <1>2, InductiveInvariant, PTL DEF Spec, CallsUndisturbed
===============================================================================
