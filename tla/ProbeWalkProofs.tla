---------------------------- MODULE ProbeWalkProofs ----------------------------
(***************************************************************************)
(* The walk of a probe sequence through a table, for every start, every    *)
(* alignment, every size of the kernel and of the table: after j steps the *)
(* object is the one that SeqAfter names, and the j buckets visited are    *)
(* different ones.                                                         *)
(***************************************************************************)
EXTENDS MCAlgorithms, AlgorithmProofs

(* Capacities, kernels and alignments are powers of two (0: unaligned).    *)
WalkAssumption ==
  Alignments \subseteq Alignment /\ Kernels \subseteq Powers /\ Tables \subseteq Powers

(* The walk after j of its n steps.                                        *)
WalkedTo(h, j) ==
  /\ start = K * h
  /\ seq = SeqAfter(kind, h, A, K, j)
  /\ visited = {BucketAt(kind, h, Line(A, K), i) % n : i \in 0 .. j - 1}

Walked ==
  /\ A \in Alignment /\ K \in Powers /\ n \in Powers
  /\ \E h \in Nat : \E j \in 0 .. n : WalkedTo(h, j)

WalkInv == NoWalk \/ Walked

(* A walk starts at a multiple of the size of the kernel.                  *)
LEMMA WalkStarts ==
  ASSUME WalkAssumption, WalkInit
  PROVE  Walked
<1>1. A \in Alignment /\ K \in Powers /\ n \in Powers
  BY DEF WalkAssumption, WalkInit
<1>2. PICK h \in 0 .. 2 * n : start = K * h
  BY DEF WalkInit
<1>3. h \in Nat /\ 0 \in 0 .. n /\ n \in Nat /\ K \in Nat
  BY <1>1, <1>2, PowPositive
<1>4. seq = SeqAfter(kind, h, A, K, 0)
  BY <1>1, <1>2, <1>3, SeqStarts DEF WalkInit
<1>5. {BucketAt(kind, h, Line(A, K), i) % n : i \in 0 .. 0 - 1} = {}
  OBVIOUS
<1>6. WalkedTo(h, 0)
  BY <1>2, <1>4, <1>5, Zenon DEF WalkedTo, WalkInit
<1> QED
  BY <1>1, <1>3, <1>6 DEF Walked

(* Where the walk is, in numbers.                                          *)
LEMMA WalkFacts ==
  ASSUME A \in Alignment, K \in Powers, n \in Powers,
         NEW h \in Nat, NEW j \in 0 .. n, WalkedTo(h, j)
  PROVE  /\ K \in Nat /\ K >= 1 /\ n \in Nat /\ n >= 1 /\ j \in Nat
         /\ Line(A, K) \in Powers /\ Line(A, K) \in Nat /\ Line(A, K) >= 1
         /\ seq.psl = K * j
<1>1. /\ K \in Nat /\ K >= 1 /\ n \in Nat /\ n >= 1
      /\ Line(A, K) \in Powers /\ Line(A, K) \in Nat /\ Line(A, K) >= 1
  BY LineFacts, PowPositive
<1>2. j \in Nat
  BY <1>1
<1>3. seq.psl = K * j
  BY DEF WalkedTo, SeqAfter
<1> QED
  BY <1>1, <1>2, <1>3

(* One more step.                                                          *)
LEMMA WalkGoesOn ==
  ASSUME Walked, Probe
  PROVE  Walked'
<1>1. A \in Alignment /\ K \in Powers /\ n \in Powers
  BY DEF Walked
<1>2. PICK h \in Nat : \E j \in 0 .. n : WalkedTo(h, j)
  BY DEF Walked
<1>3. PICK j \in 0 .. n : WalkedTo(h, j)
  BY <1>2
<1>4. /\ K \in Nat /\ K >= 1 /\ n \in Nat /\ n >= 1 /\ j \in Nat
      /\ seq.psl = K * j
  BY <1>1, <1>3, WalkFacts
<1>5. kind' = kind /\ A' = A /\ K' = K /\ n' = n /\ start' = start
  BY DEF Probe, walk
<1>6. j + 1 \in 0 .. n
  <2>1. K * j < n * K
    BY <1>4 DEF Probe
  <2>2. CASE j >= n
    <3>1. K * j >= K * n /\ K * n = n * K
      BY <1>4, <2>2
    <3> QED  BY <1>4, <2>1, <3>1
  <2> QED  BY <1>4, <2>2
<1>7. seq' = SeqAfter(kind, h, A, K, j + 1)
  <2>1. seq = SeqAfter(kind, h, A, K, j)
    BY <1>3 DEF WalkedTo
  <2>2. CASE kind = "linear"
    <3>1. seq' = LinearAdvance(SeqAfter("linear", h, A, K, j), A, K)
      BY <2>1, <2>2 DEF Probe
    <3> QED  BY <1>1, <1>4, <2>2, <3>1, LinearSteps
  <2>3. CASE kind # "linear"
    <3>1. seq' = QuadraticAdvance(SeqAfter(kind, h, A, K, j), A, K)
      BY <2>1, <2>3 DEF Probe
    <3> QED  BY <1>1, <1>4, <2>3, <3>1, QuadraticSteps
  <2> QED  BY <2>2, <2>3
<1>8. Bucket = BucketAt(kind, h, Line(A, K), j) % n
  <2>1. Bucket = ToBucket(IF kind = "linear" THEN LinearNext(SeqAfter(kind, h, A, K, j), A)
                          ELSE QuadraticNext(SeqAfter(kind, h, A, K, j), A), K, n)
    BY <1>3, Zenon DEF Bucket, WalkedTo
  <2> QED  BY <1>1, <1>4, <2>1, SeqBucket
<1>9. visited' = {BucketAt(kind, h, Line(A, K), i) % n : i \in 0 .. (j + 1) - 1}
  <2> DEFINE f == [i \in Nat |-> BucketAt(kind, h, Line(A, K), i) % n]
  <2>1. visited = {f[i] : i \in 0 .. j - 1}
    BY <1>3 DEF WalkedTo
  <2>2. Bucket = f[j]
    BY <1>4, <1>8
  <2>3. visited' = visited \cup {Bucket}
    BY DEF Probe
  <2>4. {BucketAt(kind, h, Line(A, K), i) % n : i \in 0 .. (j + 1) - 1}
          = {f[i] : i \in 0 .. j}
    BY <1>4
  <2>5. 0 .. j = (0 .. j - 1) \cup {j}
    BY <1>4
  <2> HIDE DEF f
  <2>6. {f[i] : i \in 0 .. j} = {f[i] : i \in 0 .. j - 1} \cup {f[j]}
    BY <2>5
  <2> QED  BY <2>1, <2>2, <2>3, <2>4, <2>6
<1>10. start' = K * h
  BY <1>3, <1>5 DEF WalkedTo
<1>11. WalkedTo(h, j + 1)'
  BY <1>5, <1>7, <1>9, <1>10, Zenon DEF WalkedTo
<1> QED
  BY <1>1, <1>5, <1>6, <1>11 DEF Walked

(* A walk visits as many buckets as it makes steps.                        *)
LEMMA VisitedCount ==
  ASSUME A \in Alignment, K \in Powers, n \in Powers,
         NEW h \in Nat, NEW j \in 0 .. n, WalkedTo(h, j)
  PROVE  Cardinality(visited) * K = seq.psl
<1> DEFINE S == 0 .. j - 1
           f == [i \in S |-> BucketAt(kind, h, Line(A, K), i) % n]
<1>1. /\ K \in Nat /\ n \in Nat /\ n >= 1 /\ j \in Nat
      /\ Line(A, K) \in Powers /\ seq.psl = K * j
  BY WalkFacts
<1>2. S \subseteq 0 .. n - 1
  BY <1>1
<1>3. \A i, o \in S : f[i] = f[o] => i = o
  <2> SUFFICES ASSUME NEW i \in S, NEW o \in S, f[i] = f[o] PROVE i = o
    OBVIOUS
  <2>1. BucketAt(kind, h, Line(A, K), i) % n = BucketAt(kind, h, Line(A, K), o) % n
    OBVIOUS
  <2>2. i \in 0 .. n - 1 /\ o \in 0 .. n - 1
    BY <1>2
  <2> QED  BY <1>1, <2>1, <2>2, BucketsApart, Zenon
<1>4. visited = {f[i] : i \in S}
  BY DEF WalkedTo
<1>5. f \in Bijection(S, visited)
  <2>1. f = [i \in S |-> f[i]] /\ DOMAIN f = S
    OBVIOUS
  <2> HIDE DEF f, S
  <2>2. f \in [S -> visited] /\ \A t \in visited : \E s \in S : f[s] = t
    BY <1>4, <2>1
  <2> QED  BY <1>3, <2>1, <2>2 DEF Bijection, Injection, Surjection, IsInjective
<1>6. IsFiniteSet(S) /\ Cardinality(S) = j
  <2>1. 0 \in Int /\ j - 1 \in Int /\ (IF 0 > j - 1 THEN 0 ELSE (j - 1) - 0 + 1) = j
    BY <1>1
  <2> QED  BY <2>1, FS_Interval
<1> HIDE DEF S, f
<1>7. ExistsBijection(S, visited)
  BY <1>5 DEF ExistsBijection
<1>8. Cardinality(visited) = j
  BY <1>6, <1>7, FS_Bijection
<1> QED
  BY <1>1, <1>8

(* A walk probes the line it starts in first.                              *)
LEMMA VisitedLine ==
  ASSUME A \in Alignment, K \in Powers, n \in Powers,
         NEW h \in Nat, NEW j \in 0 .. n, WalkedTo(h, j)
  PROVE  LineFirst
<1> DEFINE a == Line(A, K)  r == h % a  first == start - (start % A)
           B(i) == BucketAt(kind, h, a, i)
<1> SUFFICES ASSUME A > K, seq.psl <= A, NEW v \in visited
             PROVE  \E p \in 0 .. A - 1 : v = ToBucket(first + p, K, n)
  BY DEF LineFirst
<1>1. /\ K \in Nat /\ K >= 1 /\ n \in Nat /\ n >= 1 /\ j \in Nat
      /\ a \in Nat /\ a >= 1 /\ seq.psl = K * j
  BY WalkFacts
<1>2. A \in Nat /\ A = K * a /\ A # 0 /\ (K * h) % A = K * r
  <2>1. A \in Nat /\ A = K * a /\ A # 0
    BY <1>1, LineFacts
  <2>2. A # 0 => \A x \in Nat : (K * x) % A = K * (x % a)
    BY LineFacts
  <2> QED  BY <2>1, <2>2
<1>3. PICK i \in 0 .. j - 1 : v = B(i) % n
  BY DEF WalkedTo
<1>4. i \in Nat /\ i < a
  <2>1. i \in Nat /\ i < j
    BY <1>1, <1>3
  <2>2. CASE j > a
    <3>1. K * j >= K * (a + 1) /\ K * (a + 1) = K * a + K
      BY <1>1, <2>2
    <3> HIDE DEF a
    <3> QED  BY <1>1, <1>2, <3>1
  <2> QED  BY <1>1, <2>1, <2>2
<1> DEFINE u == (i + r) % a
<1>5. u \in 0 .. a - 1 /\ r \in 0 .. a - 1 /\ h - r \in Nat
  BY <1>1, <1>4, BucketAtParts
<1>6. B(i) = (h - r) + u
  <2>1. i \div a = 0
    <3>1. i \in Int /\ 0 \in Int /\ i \in 0 .. a - 1 /\ i = a * 0 + i
      BY <1>1, <1>4
    <3> HIDE DEF a
    <3> QED  BY <1>1, <3>1, DivisionUnique
  <2>2. LinesMoved(kind, i \div a) = 0
    BY <2>1, MovedSteps
  <2>3. B(i) = ((h - r) + a * LinesMoved(kind, i \div a)) + u
    BY DEF BucketAt
  <2> HIDE DEF a, r, u, B
  <2> QED  BY <1>1, <1>5, <2>2, <2>3
<1>7. first + K * u = K * B(i)
  <2>1. start = K * h /\ start % A = K * r
    BY <1>2 DEF WalkedTo
  <2> HIDE DEF a, r, u, B
  <2>2. K \in Int /\ h \in Int /\ r \in Int /\ u \in Int
    BY <1>1, <1>5
  <2>3. K * ((h - r) + u) = (K * h - K * r) + K * u
    BY <2>2, ScaledSum
  <2> QED  BY <1>6, <2>1, <2>3
<1>8. K * u \in 0 .. A - 1
  <2> HIDE DEF a, r, u, B
  <2>1. K * u \in 0 .. K * a - 1
    BY <1>1, <1>5, ScaledRange, Zenon
  <2> QED  BY <1>2, <2>1
<1>9. ToBucket(K * B(i), K, n) = v
  <2>1. B(i) \in Int
    BY <1>5, <1>6
  <2> HIDE DEF B
  <2> QED  BY <1>1, <1>3, <2>1, BucketOfPosition
<1> HIDE DEF first, u, B
<1> QED
  BY <1>7, <1>8, <1>9

(* Every run of the loops of the map over a probe sequence of a table of n *)
(* buckets, linear or quadratic: the steps up to psl() = capacity visit    *)
(* every bucket once, and those of the line they start in before the rest. *)
THEOREM EveryBucketOnce ==
  ASSUME WalkAssumption
  PROVE  Spec => []VisitsEveryBucketOnce
<1>1. Init => WalkInv
  BY WalkStarts DEF Init, WalkInv
<1>2. ASSUME WalkInv, [Next]_<<walking, bucket>> PROVE WalkInv'
  <2>1. CASE UNCHANGED walking
    <3>1. NoWalk => NoWalk'
      BY <2>1 DEF NoWalk, walking, walk
    <3>2. Walked => Walked'
      <4>1. /\ kind' = kind /\ A' = A /\ K' = K /\ n' = n /\ start' = start
            /\ seq' = seq /\ visited' = visited
        BY <2>1 DEF walking, walk
      <4>2. \A h, j : WalkedTo(h, j) => WalkedTo(h, j)'
        BY <4>1, Zenon DEF WalkedTo
      <4> QED  BY <4>1, <4>2, Zenon DEF Walked
    <3> QED  BY <1>2, <3>1, <3>2 DEF WalkInv
  <2>2. CASE Probe
    <3>1. CASE NoWalk
      <4>1. seq.psl = 0 /\ n = 0 /\ K = 1
        BY <3>1 DEF NoWalk, SeqAt
      <4> QED  BY <2>2, <4>1 DEF Probe
    <3>2. CASE Walked
      BY <2>2, <3>2, WalkGoesOn DEF WalkInv
    <3> QED  BY <1>2, <3>1, <3>2 DEF WalkInv
  <2> QED  BY <1>2, <2>1, <2>2 DEF Next, walking
<1>3. ASSUME WalkInv PROVE VisitsEveryBucketOnce
  <2>1. CASE NoWalk
    <3>1. visited = {} /\ seq.psl = 0 /\ K = 1 /\ A = 0
      BY <2>1 DEF NoWalk, SeqAt
    <3>2. Cardinality(visited) = 0
      BY <3>1, FS_EmptySet
    <3> QED  BY <3>1, <3>2 DEF VisitsEveryBucketOnce, LineFirst
  <2>2. CASE Walked
    <3>1. A \in Alignment /\ K \in Powers /\ n \in Powers
      BY <2>2 DEF Walked
    <3>2. PICK h \in Nat : \E j \in 0 .. n : WalkedTo(h, j)
      BY <2>2 DEF Walked
    <3>3. PICK j \in 0 .. n : WalkedTo(h, j)
      BY <3>2
    <3> QED  BY <3>1, <3>3, VisitedCount, VisitedLine DEF VisitsEveryBucketOnce
  <2> QED  BY <1>3, <2>1, <2>2 DEF WalkInv
<1> QED
  BY <1>1, <1>2, <1>3, PTL DEF Spec
===============================================================================
