---------------------------- MODULE AlgorithmProofs ----------------------------
(***************************************************************************)
(* The pure algorithms under the map and the cache, for every size.        *)
(*                                                                         *)
(* A probe sequence meets every bucket of the table, whatever the start,   *)
(* the alignment, the size of the kernel and the size of the table.  The   *)
(* argument is arithmetic: in units of a bucket, a sequence that starts at *)
(* bucket h of a line of a buckets is, after j steps, at                   *)
(*   h - (h % a)  +  a * moved(j \div a)  +  (j + (h % a)) % a             *)
(* where moved(l) is l for the linear and 1 + 2 + ... + l for the          *)
(* quadratic kind.  Modulo a power of two no two of the first n steps      *)
(* agree: of the two factors of l * (l + 1) - m * (m + 1) =                *)
(* (l - m) * (l + m + 1) one is odd.                                       *)
(*                                                                         *)
(* The kernels that work in an integer compute on all bytes of a word at   *)
(* once.  In the exact comparison no carry leaves a byte; in the fast one  *)
(* a borrow enters a byte only above the lowest match.  What a byte gets   *)
(* is then a matter of its own eight bits, whatever the number of slots.   *)
(***************************************************************************)
EXTENDS ProbeSeq, TLAPS, FiniteSetTheorems

-----------------------------------------------------------------------------
(* A set of naturals that is not empty has a least element.                *)
LEMMA LeastNat ==
  ASSUME NEW S \in SUBSET Nat, S # {}
  PROVE  \E m \in S : \A x \in S : m <= x
<1> DEFINE I == {0 .. x : x \in S}
<1>1. I \subseteq FiniteSubsetsOf(Nat)
  <2> SUFFICES ASSUME NEW x \in S PROVE 0 .. x \in FiniteSubsetsOf(Nat)
    OBVIOUS
  <2>1. IsFiniteSet(0 .. x)
    BY FS_Interval
  <2> QED  BY <2>1 DEF FiniteSubsetsOf
<1>2. I # {}
  OBVIOUS
<1>3. PICK i \in I : \A y \in I : ~(<<y, i>> \in StrictSubsetOrdering(Nat))
  <2> HIDE DEF I
  <2> QED  BY <1>1, <1>2, FS_StrictSubsetOrderingWellFounded, WFMin
<1>4. PICK m \in S : i = 0 .. m
  OBVIOUS
<1>5. ASSUME NEW x \in S, x < m PROVE FALSE
  <2>1. 0 .. x \in I
    OBVIOUS
  <2>2. 0 .. x \subseteq 0 .. m /\ 0 .. x # 0 .. m
    <3>1. m \in 0 .. m /\ m \notin 0 .. x
      BY <1>5
    <3> QED  BY <1>5, <3>1
  <2>3. <<0 .. x, i>> \in StrictSubsetOrdering(Nat)
    BY <1>4, <2>2 DEF StrictSubsetOrdering
  <2> QED  BY <1>3, <2>1, <2>3
<1> QED
  BY <1>5

-----------------------------------------------------------------------------
(* The powers of two.                                                      *)

(* The least set that has 1 and the double of each of its members.         *)
Powers == {x \in Nat : \A S \in SUBSET Nat :
                         1 \in S /\ (\A y \in S : 2 * y \in S) => x \in S}

(* Induction over the powers of two.                                       *)
LEMMA PowInduction ==
  ASSUME NEW S \in SUBSET Nat, 1 \in S, \A y \in S : 2 * y \in S
  PROVE  Powers \subseteq S
BY DEF Powers

(* 1 is a power of two, and so is the double of one.                       *)
LEMMA PowRule == 1 \in Powers /\ \A y \in Powers : 2 * y \in Powers
BY DEF Powers

(* Powers of two are positive.                                             *)
LEMMA PowPositive == \A x \in Powers : x \in Nat /\ x >= 1
<1> DEFINE S == {x \in Nat : x >= 1}
<1>1. S \in SUBSET Nat /\ 1 \in S /\ \A y \in S : 2 * y \in S
  OBVIOUS
<1> HIDE DEF S
<1>2. Powers \subseteq S
  BY <1>1, PowInduction
<1> QED
  BY <1>2 DEF S

(* Every other one than 1 is the double of one.                            *)
LEMMA PowHalf == \A x \in Powers : x = 1 \/ \E y \in Powers : x = 2 * y
<1> DEFINE S == {x \in Nat : x = 1 \/ \E y \in Powers : x = 2 * y}
<1>1. S \in SUBSET Nat /\ 1 \in S
  OBVIOUS
<1>2. ASSUME NEW y \in S PROVE 2 * y \in S
  <2>1. y \in Powers
    BY PowRule
  <2> QED  BY <2>1
<1> HIDE DEF S
<1>3. Powers \subseteq S
  BY <1>1, <1>2, PowInduction
<1> QED
  BY <1>3 DEF S

(* Of two powers of two one divides the other.                             *)
LEMMA PowDivides ==
  \A x, y \in Powers : \/ \E z \in Powers : y = x * z
                       \/ \E z \in Powers : x = y * z
<1> DEFINE One(x, y) == \E z \in Powers : y = x * z
           S == {x \in Nat : \A y \in Powers : One(x, y) \/ One(y, x)}
<1>1. S \in SUBSET Nat
  OBVIOUS
<1>2. 1 \in S
  <2>1. \A y \in Powers : y = 1 * y
    BY PowPositive
  <2> QED  BY <2>1
<1>3. ASSUME NEW x \in S PROVE 2 * x \in S
  <2>1. SUFFICES ASSUME NEW y \in Powers PROVE One(2 * x, y) \/ One(y, 2 * x)
    BY <1>3
  <2>2. x \in Nat /\ y \in Nat
    BY PowPositive
  <2>3. CASE One(x, y)
    <3>1. PICK z \in Powers : y = x * z
      BY <2>3
    <3>2. CASE z = 1
      <4>1. 2 * x = y * 2 /\ 2 \in Powers
        <5>1. 2 = 2 * 1
          OBVIOUS
        <5> QED  BY <2>2, <3>1, <3>2, <5>1, PowRule
      <4> QED  BY <4>1
    <3>3. CASE z # 1
      <4>1. PICK w \in Powers : z = 2 * w
        BY <3>3, PowHalf
      <4>2. w \in Nat
        BY PowPositive
      <4>3. y = (2 * x) * w
        BY <2>2, <3>1, <4>1, <4>2
      <4> QED  BY <4>3
    <3> QED  BY <3>2, <3>3
  <2>4. CASE One(y, x)
    <3>1. PICK z \in Powers : x = y * z
      BY <2>4
    <3>2. 2 * x = y * (2 * z) /\ 2 * z \in Powers
      BY <2>2, <3>1, PowRule, PowPositive
    <3> QED  BY <3>2
  <2> QED  BY <1>3, <2>3, <2>4
<1> HIDE DEF S
<1>4. Powers \subseteq S
  BY <1>1, <1>2, <1>3, PowInduction
<1> QED
  BY <1>4 DEF S

(* An odd factor takes no part in being a multiple of a power of two.      *)
Multiple(x, m) == \E k \in Int : x = m * k

LEMMA OddFactor ==
  \A m \in Powers : \A u, v \in Int :
    u % 2 = 1 /\ Multiple(u * v, m) => Multiple(v, m)
<1> DEFINE S == {m \in Nat : \A u, v \in Int :
                               u % 2 = 1 /\ Multiple(u * v, m) => Multiple(v, m)}
<1>1. S \in SUBSET Nat
  OBVIOUS
<1>2. 1 \in S
  <2>1. \A v \in Int : v = 1 * v
    OBVIOUS
  <2> QED  BY <2>1 DEF Multiple
<1>3. ASSUME NEW m \in S PROVE 2 * m \in S
  <2>1. SUFFICES ASSUME NEW u \in Int, NEW v \in Int, u % 2 = 1,
                        Multiple(u * v, 2 * m)
                 PROVE  Multiple(v, 2 * m)
    BY <1>3
  <2>2. PICK k \in Int : u * v = (2 * m) * k
    BY <2>1 DEF Multiple
  <2>3. PICK p \in Int : u = 2 * p + 1
    <3>1. u = 2 * (u \div 2) + 1 /\ u \div 2 \in Int
      BY <2>1
    <3> QED  BY <3>1
  <2>4. m \in Nat
    BY <1>3
  <2>5. v = 2 * (m * k - p * v)
    <3>1. u * v = 2 * (p * v) + v
      BY <2>3
    <3>2. (2 * m) * k = 2 * (m * k)
      BY <2>4
    <3> DEFINE q == p * v  r == m * k
    <3>3. q \in Int /\ r \in Int
      BY <2>4
    <3>4. 2 * q + v = 2 * r
      BY <2>2, <3>1, <3>2
    <3> HIDE DEF q, r
    <3>5. v = 2 * (r - q)
      BY <3>3, <3>4
    <3> QED  BY <3>5 DEF q, r
  <2>6. PICK w \in Int : v = 2 * w
    <3>1. m * k - p * v \in Int
      BY <2>4
    <3> QED  BY <2>5, <3>1
  <2>7. u * w = m * k
    <3>1. u * v = 2 * (u * w)
      BY <2>6
    <3>2. (2 * m) * k = 2 * (m * k)
      BY <2>4
    <3> DEFINE q == u * w  r == m * k
    <3>3. q \in Int /\ r \in Int
      BY <2>4
    <3>4. 2 * q = 2 * r
      BY <2>2, <3>1, <3>2
    <3> HIDE DEF q, r
    <3>5. q = r
      BY <3>3, <3>4
    <3> QED  BY <3>5 DEF q, r
  <2>8. PICK l \in Int : w = m * l
    <3>1. Multiple(u * w, m)
      BY <2>7 DEF Multiple
    <3>2. Multiple(w, m)
      BY <1>3, <2>1, <3>1
    <3> QED  BY <3>2 DEF Multiple
  <2>9. v = (2 * m) * l
    BY <2>4, <2>6, <2>8
  <2> QED  BY <2>9 DEF Multiple
<1> HIDE DEF S
<1>4. Powers \subseteq S
  BY <1>1, <1>2, <1>3, PowInduction
<1> QED
  BY <1>4 DEF S

-----------------------------------------------------------------------------
(* Remainders.                                                             *)

(* Division with remainder.                                                *)
LEMMA Division ==
  ASSUME NEW n \in Nat, n >= 1, NEW x \in Int
  PROVE  /\ x \div n \in Int /\ x % n \in 0 .. n - 1
         /\ x = n * (x \div n) + (x % n)
<1>1. x \div n \in Int
  OBVIOUS
<1>2. x % n \in 0 .. n - 1
  OBVIOUS
<1>3. x = n * (x \div n) + (x % n)
  OBVIOUS
<1> QED
  BY <1>1, <1>2, <1>3

(* A product of integers that lies strictly between -n and n and has n as  *)
(* a factor is zero.                                                       *)
LEMMA SmallMultiple ==
  ASSUME NEW n \in Nat, n >= 1, NEW q \in Int, n * q < n, -n < n * q
  PROVE  q = 0
<1>1. CASE q >= 1
  <2>1. n * q >= n * 1
    BY <1>1
  <2> QED  BY <2>1
<1>2. CASE q <= -1
  <2>1. n * q <= n * (-1)
    BY <1>2
  <2> QED  BY <2>1
<1> QED
  BY <1>1, <1>2

(* Quotient and remainder are unique.                                      *)
LEMMA DivisionUnique ==
  ASSUME NEW n \in Nat, n >= 1, NEW x \in Int, NEW q \in Int, NEW r \in 0 .. n - 1,
         x = n * q + r
  PROVE  x \div n = q /\ x % n = r
<1> DEFINE p == x \div n  s == x % n
<1>1. p \in Int /\ s \in 0 .. n - 1 /\ x = n * p + s
  BY Division
<1> HIDE DEF p, s
<1>2. n * (p - q) = n * p - n * q
  BY <1>1
<1>3. n * (p - q) = r - s
  BY <1>1, <1>2
<1>4. p - q = 0
  <2>1. n * (p - q) < n /\ -n < n * (p - q)
    BY <1>1, <1>3
  <2> QED  BY <1>1, <2>1, SmallMultiple
<1>5. p = q
  BY <1>1, <1>4
<1> QED
  BY <1>1, <1>5 DEF p, s

(* Two integers have the same remainder when they differ by a multiple.    *)
LEMMA Congruent ==
  ASSUME NEW n \in Nat, n >= 1, NEW x \in Int, NEW y \in Int
  PROVE  x % n = y % n <=> Multiple(x - y, n)
<1> DEFINE p == x \div n  q == y \div n  r == x % n  s == y % n
<1>1. p \in Int /\ r \in 0 .. n - 1 /\ x = n * p + r
  BY Division
<1>2. q \in Int /\ s \in 0 .. n - 1 /\ y = n * q + s
  BY Division
<1> HIDE DEF p, q, r, s
<1>3. ASSUME r = s PROVE Multiple(x - y, n)
  <2>1. n * (p - q) = n * p - n * q /\ p - q \in Int
    BY <1>1, <1>2
  <2>2. x - y = n * (p - q)
    BY <1>1, <1>2, <1>3, <2>1
  <2> QED  BY <2>1, <2>2 DEF Multiple
<1>4. ASSUME Multiple(x - y, n) PROVE r = s
  <2>1. PICK k \in Int : x - y = n * k
    BY <1>4 DEF Multiple
  <2>2. n * (q + k) = n * q + n * k /\ q + k \in Int
    BY <1>2
  <2>3. x = n * (q + k) + s
    BY <1>2, <2>1, <2>2
  <2>4. x % n = s
    BY <1>2, <2>2, <2>3, DivisionUnique
  <2> QED  BY <2>4 DEF r
<1> QED
  BY <1>3, <1>4 DEF r, s

(* Both sides of a remainder times the size of the kernel.                 *)
LEMMA ScaledRemainder ==
  ASSUME NEW K \in Nat, K >= 1, NEW n \in Nat, n >= 1, NEW x \in Int
  PROVE  (K * x) % (K * n) = K * (x % n)
<1> DEFINE q == x \div n  r == x % n
<1>1. q \in Int /\ r \in 0 .. n - 1 /\ x = n * q + r
  BY Division
<1> HIDE DEF q, r
<1>2. K * x = (K * n) * q + K * r
  BY <1>1
<1>3. K * n \in Nat /\ K * n >= 1 /\ K * x \in Int
  OBVIOUS
<1>4. K * r \in 0 .. K * n - 1
  <2>1. r \in Int /\ r >= 0 /\ r + 1 <= n
    BY <1>1
  <2>2. K * (r + 1) <= K * n
    BY <2>1
  <2>3. K * (r + 1) = K * r + K /\ K * r \in Int /\ K * r >= 0
    BY <2>1
  <2> QED  BY <1>3, <2>2, <2>3
<1>5. (K * x) % (K * n) = K * r
  BY <1>1, <1>2, <1>3, <1>4, DivisionUnique
<1> QED
  BY <1>5 DEF r

(* Positions within a line, in buckets and in positions.                   *)
LEMMA ScaledRange ==
  ASSUME NEW K \in Nat, K >= 1, NEW a \in Nat, NEW u \in 0 .. a - 1
  PROVE  K * u \in 0 .. K * a - 1
<1>1. u \in Int /\ u >= 0 /\ u + 1 <= a
  OBVIOUS
<1>2. K * (u + 1) <= K * a
  BY <1>1
<1>3. K * (u + 1) = K * u + K /\ K * u \in Int /\ K * u >= 0 /\ K * a \in Int
  BY <1>1
<1> QED
  BY <1>2, <1>3

(* Distribution over the parts of a bucket's number.                       *)
LEMMA ScaledSum ==
  ASSUME NEW K \in Int, NEW h \in Int, NEW r \in Int, NEW u \in Int
  PROVE  K * ((h - r) + u) = (K * h - K * r) + K * u
OBVIOUS

(* The bucket of a position that is a multiple of the size of the kernel.  *)
LEMMA BucketOfPosition ==
  ASSUME NEW K \in Nat, K >= 1, NEW n \in Nat, n >= 1, NEW x \in Int
  PROVE  ToBucket(K * x, K, n) = x % n
<1>1. x % n \in Nat
  BY Division
<1>2. n * K = K * n
  OBVIOUS
<1>3. (K * x) % (n * K) = K * (x % n)
  BY <1>2, ScaledRemainder
<1>4. (K * (x % n)) \div K = x % n
  <2> DEFINE r == x % n
  <2>1. r \in Int /\ 0 \in 0 .. K - 1 /\ K * r \in Int /\ K * r = K * r + 0
    BY <1>1
  <2> HIDE DEF r
  <2>2. (K * r) \div K = r
    BY <2>1, DivisionUnique
  <2> QED  BY <2>2 DEF r
<1> QED
  BY <1>3, <1>4 DEF ToBucket

-----------------------------------------------------------------------------
(* Where a sequence is after j steps, in buckets.                          *)

(* 1 + 2 + ... + l.                                                        *)
Triangle(l) == (l * (l + 1)) \div 2

(* How many lines the sequence has moved on after l whole lines.           *)
LinesMoved(kind, l) == IF kind = "linear" THEN l ELSE Triangle(l)

(* Of a sequence that starts at bucket h, in lines of a buckets.           *)
BucketAt(kind, h, a, j) ==
  ((h - (h % a)) + a * LinesMoved(kind, j \div a)) + ((j + (h % a)) % a)

(* What Triangle sums.                                                     *)
LEMMA TriangleSum ==
  \A l \in Nat : /\ Triangle(l) \in Nat /\ 2 * Triangle(l) = l * (l + 1)
                 /\ Triangle(l + 1) = Triangle(l) + (l + 1)
<1> DEFINE Even(l) == \E t \in Nat : l * (l + 1) = 2 * t
<1>1. ASSUME NEW l \in Nat PROVE Even(l)
  <2>1. CASE l % 2 = 0
    <3>1. PICK p \in Nat : l = 2 * p
      <4>1. l = 2 * (l \div 2) /\ l \div 2 \in Nat
        BY <2>1
      <4> QED  BY <4>1
    <3>2. l * (l + 1) = 2 * (p * (l + 1)) /\ p * (l + 1) \in Nat
      BY <3>1
    <3> QED  BY <3>2
  <2>2. CASE l % 2 = 1
    <3>1. PICK p \in Nat : l + 1 = 2 * p
      <4>1. l + 1 = 2 * (l \div 2 + 1) /\ l \div 2 + 1 \in Nat
        BY <2>2
      <4> QED  BY <4>1
    <3>2. l * (l + 1) = 2 * (l * p) /\ l * p \in Nat
      BY <3>1
    <3> QED  BY <3>2
  <2> QED  BY <2>1, <2>2
<1>2. ASSUME NEW l \in Nat PROVE Triangle(l) \in Nat /\ 2 * Triangle(l) = l * (l + 1)
  <2>1. PICK t \in Nat : l * (l + 1) = 2 * t
    BY <1>1
  <2>2. (2 * t) \div 2 = t
    OBVIOUS
  <2> QED  BY <2>1, <2>2 DEF Triangle
<1>3. ASSUME NEW l \in Nat PROVE Triangle(l + 1) = Triangle(l) + (l + 1)
  <2>1. 2 * Triangle(l + 1) = (l + 1) * ((l + 1) + 1) /\ Triangle(l + 1) \in Nat
    BY <1>2
  <2>2. (l + 1) * ((l + 1) + 1) = l * (l + 1) + 2 * (l + 1)
    OBVIOUS
  <2>3. 2 * Triangle(l) = l * (l + 1) /\ Triangle(l) \in Nat
    BY <1>2
  <2> DEFINE q == l * (l + 1)
  <2>4. q \in Int /\ 2 * Triangle(l + 1) = q + 2 * (l + 1) /\ 2 * Triangle(l) = q
    BY <2>1, <2>2, <2>3
  <2> HIDE DEF q
  <2> QED  BY <2>1, <2>3, <2>4
<1> QED
  BY <1>2, <1>3

(* No lines moved before the first line is whole; a next line each time    *)
(* (linear), or the number of the line (quadratic).                        *)
LEMMA MovedSteps ==
  ASSUME NEW kind, NEW l \in Nat
  PROVE  /\ LinesMoved(kind, 0) = 0 /\ LinesMoved(kind, l) \in Nat
         /\ LinesMoved(kind, l + 1) = LinesMoved(kind, l) + (IF kind = "linear" THEN 1 ELSE l + 1)
<1>1. Triangle(0) = 0
  <2>1. 2 * Triangle(0) = 0 * (0 + 1) /\ Triangle(0) \in Nat
    BY TriangleSum
  <2> QED  BY <2>1
<1> QED
  BY <1>1, TriangleSum DEF LinesMoved

(* Two different lines before the m-th: their moves differ modulo m.       *)
LEMMA MovedApart ==
  ASSUME NEW kind, NEW m \in Powers, NEW i \in Nat, NEW j \in Nat, i < j, j < m,
         Multiple(LinesMoved(kind, j) - LinesMoved(kind, i), m)
  PROVE  FALSE
<1>1. m \in Nat /\ m >= 1
  BY PowPositive
<1>2. PICK k \in Int : LinesMoved(kind, j) - LinesMoved(kind, i) = m * k
  BY DEF Multiple
<1>3. CASE kind = "linear"
  <2>1. j - i = m * k
    BY <1>2, <1>3 DEF LinesMoved
  <2>2. m * k < m /\ -m < m * k
    BY <1>1, <2>1
  <2>3. k = 0
    BY <1>1, <2>2, SmallMultiple
  <2> QED  BY <1>1, <2>1, <2>3
<1>4. CASE kind # "linear"
  <2> DEFINE s == Triangle(i)  t == Triangle(j)  n == 2 * m  d == j - i  e == j + i + 1
  <2>1. s \in Nat /\ 2 * s = i * (i + 1) /\ t \in Nat /\ 2 * t = j * (j + 1)
    BY TriangleSum
  <2>2. t - s = m * k
    BY <1>2, <1>4 DEF LinesMoved
  <2>3. d * e = j * (j + 1) - i * (i + 1)
    OBVIOUS
  <2>4. n * k = 2 * (m * k)
    BY <1>1
  <2>5. n \in Powers /\ n \in Nat /\ n >= 1
    BY <1>1, PowRule
  <2>6. /\ d \in Int /\ e \in Int /\ d >= 1 /\ d < n /\ e >= 1 /\ e < n
        /\ (d % 2 = 1 \/ e % 2 = 1)
    <3>1. e = d + 2 * i + 1
      OBVIOUS
    <3> QED  BY <1>1, <3>1
  <2> HIDE DEF s, t, n, d, e
  <2> DEFINE p == m * k  q == d * e
  <2>7. p \in Int /\ q \in Int
    BY <1>1, <2>6
  <2>8. q = n * k
    BY <2>1, <2>2, <2>3, <2>4
  <2>9. Multiple(d * e, n) /\ Multiple(e * d, n)
    <3>1. d * e = e * d
      BY <2>6
    <3> QED  BY <2>8, <3>1 DEF Multiple
  <2>10. Multiple(d, n) \/ Multiple(e, n)
    <3>1. CASE d % 2 = 1
      BY <2>5, <2>6, <2>9, <3>1, OddFactor
    <3>2. CASE e % 2 = 1
      BY <2>5, <2>6, <2>9, <3>2, OddFactor
    <3> QED  BY <2>6, <3>1, <3>2
  <2>11. ASSUME NEW x \in Int, x >= 1, x < n, Multiple(x, n) PROVE FALSE
    <3>1. PICK y \in Int : x = n * y
      BY <2>11 DEF Multiple
    <3>2. n * y < n /\ -n < n * y
      BY <2>5, <2>11, <3>1
    <3>3. y = 0
      BY <2>5, <3>2, SmallMultiple
    <3> QED  BY <2>5, <2>11, <3>1, <3>3
  <2> QED  BY <2>6, <2>10, <2>11
<1> QED
  BY <1>3, <1>4

(* A sequence's bucket is made of a line and a place in it.                *)
LEMMA BucketAtParts ==
  ASSUME NEW kind, NEW h \in Nat, NEW a \in Nat, a >= 1, NEW l \in Nat
  PROVE  /\ l \div a \in Nat /\ l % a \in 0 .. a - 1 /\ l = a * (l \div a) + (l % a)
         /\ h % a \in 0 .. a - 1 /\ h - (h % a) \in Nat
         /\ LinesMoved(kind, l \div a) \in Nat
         /\ (l + (h % a)) % a \in 0 .. a - 1
         /\ Multiple((l + (h % a)) - ((l + (h % a)) % a), a)
         /\ BucketAt(kind, h, a, l) \in Nat
<1>1. l \div a \in Nat /\ l % a \in 0 .. a - 1 /\ l = a * (l \div a) + (l % a)
  OBVIOUS
<1>2. h % a \in 0 .. a - 1 /\ h - (h % a) \in Nat
  <2> DEFINE x == h % a  q == h \div a
  <2>1. x \in 0 .. a - 1 /\ q \in Nat /\ h = a * q + x
    OBVIOUS
  <2> HIDE DEF x, q
  <2>2. a * q \in Nat
    BY <2>1
  <2>3. x \in 0 .. a - 1 /\ h - x \in Nat
    BY <2>1, <2>2
  <2> QED  BY <2>3 DEF x
<1>3. LinesMoved(kind, l \div a) \in Nat
  BY <1>1, MovedSteps
<1> DEFINE y == l + (h % a)
<1>4. y \in Nat
  BY <1>2
<1> HIDE DEF y
<1>5. y % a \in 0 .. a - 1 /\ y \div a \in Int /\ y = a * (y \div a) + (y % a)
  BY <1>4, Division
<1>6. Multiple(y - (y % a), a)
  <2> DEFINE q == y \div a  r == y % a
  <2>1. q \in Int /\ r \in 0 .. a - 1 /\ y = a * q + r
    BY <1>5
  <2> HIDE DEF q, r
  <2>2. y - r = a * q
    BY <2>1
  <2> QED  BY <2>1, <2>2 DEF Multiple, r
<1>7. BucketAt(kind, h, a, l) \in Nat
  <2> DEFINE M == LinesMoved(kind, l \div a)  r == y % a  c == h - (h % a)
  <2>1. c \in Nat /\ M \in Nat /\ r \in Nat
    BY <1>2, <1>3, <1>5
  <2>2. BucketAt(kind, h, a, l) = (c + a * M) + r
    BY DEF BucketAt, y
  <2> HIDE DEF M, r, c
  <2> QED  BY <2>1, <2>2
<1> QED
  BY <1>1, <1>2, <1>3, <1>5, <1>6, <1>7 DEF y

(* Two of the first n steps are at different buckets, modulo n.            *)
LEMMA BucketsApart ==
  ASSUME NEW kind, NEW h \in Nat, NEW a \in Powers, NEW n \in Powers,
         NEW i \in 0 .. n - 1, NEW j \in 0 .. n - 1,
         BucketAt(kind, h, a, i) % n = BucketAt(kind, h, a, j) % n
  PROVE  i = j
<1> DEFINE x == h % a
           c == h - (h % a)
           Mi == LinesMoved(kind, i \div a)  Mj == LinesMoved(kind, j \div a)
           Ri == (i + (h % a)) % a      Rj == (j + (h % a)) % a
           Bi == BucketAt(kind, h, a, i)  Bj == BucketAt(kind, h, a, j)
           li == i \div a  lj == j \div a  ri == i % a  rj == j % a
<1>1. a \in Nat /\ a >= 1 /\ n \in Nat /\ n >= 1
  BY PowPositive
<1>2. i \in Nat /\ j \in Nat
  BY <1>1
<1>3. /\ li \in Nat /\ ri \in 0 .. a - 1 /\ i = a * li + ri
      /\ Mi \in Nat /\ Ri \in 0 .. a - 1 /\ Multiple((i + x) - Ri, a) /\ Bi \in Nat
      /\ Bi = (c + a * Mi) + Ri
  BY <1>1, <1>2, BucketAtParts DEF BucketAt
<1>4. /\ lj \in Nat /\ rj \in 0 .. a - 1 /\ j = a * lj + rj
      /\ Mj \in Nat /\ Rj \in 0 .. a - 1 /\ Multiple((j + x) - Rj, a) /\ Bj \in Nat
      /\ Bj = (c + a * Mj) + Rj
      /\ x \in 0 .. a - 1 /\ c \in Nat
  BY <1>1, <1>2, BucketAtParts DEF BucketAt
<1>5. PICK k \in Int : Bi - Bj = n * k
  <2>1. Bi \in Int /\ Bj \in Int /\ Bi % n = Bj % n
    BY <1>3, <1>4
  <2> HIDE DEF Bi, Bj
  <2>2. Multiple(Bi - Bj, n)
    BY <1>1, <2>1, Congruent
  <2> QED  BY <2>2 DEF Multiple
<1>6. CASE \E m \in Powers : n = a * m
  <2>1. PICK m \in Powers : n = a * m
    BY <1>6
  <2>2. m \in Nat /\ m >= 1
    BY PowPositive
  <2>3. Ri = Rj /\ Mi - Mj = m * k
    <3> HIDE DEF x, c, Mi, Mj, Ri, Rj, Bi, Bj
    <3> DEFINE d == Mi - Mj  e == m * k
    <3>1. d \in Int /\ e \in Int
      BY <1>3, <1>4, <2>2
    <3>2. a * d = a * Mi - a * Mj
      BY <1>1, <1>3, <1>4
    <3>3. n * k = a * e
      BY <1>1, <2>1, <2>2
    <3>4. Bi - Bj = a * d + (Ri - Rj)
      BY <1>1, <1>3, <1>4, <3>2
    <3> HIDE DEF d, e
    <3>5. a * (e - d) = a * e - a * d
      BY <1>1, <3>1
    <3>6. a * (e - d) = Ri - Rj
      BY <1>1, <1>3, <1>4, <1>5, <3>1, <3>3, <3>4, <3>5
    <3>7. e - d = 0
      <4>1. a * (e - d) < a /\ -a < a * (e - d)
        BY <1>1, <1>3, <1>4, <3>6
      <4> QED  BY <1>1, <3>1, <4>1, SmallMultiple
    <3>8. Ri = Rj
      BY <1>1, <1>3, <1>4, <3>6, <3>7
    <3>9. d = e
      BY <3>1, <3>7
    <3> QED  BY <3>8, <3>9 DEF d, e
  <2>4. ri = rj
    <3>1. (i + x) % a = (j + x) % a /\ i + x \in Int /\ j + x \in Int
      BY <1>1, <1>2, <1>4, <2>3
    <3>2. Multiple((i + x) - (j + x), a)
      BY <1>1, <3>1, Congruent
    <3>3. (i + x) - (j + x) = i - j
      BY <1>2, <1>4
    <3>4. Multiple(i - j, a)
      BY <3>2, <3>3
    <3> QED  BY <1>1, <1>2, <3>4, Congruent
  <2>5. ASSUME NEW l \in Nat, a * l < n PROVE l < m
    <3>1. CASE l >= m
      <4>1. a * l >= a * m
        BY <1>1, <2>2, <3>1
      <4> QED  BY <1>1, <2>1, <2>2, <2>5, <4>1
    <3> QED  BY <2>2, <3>1
  <2>6. li < m /\ lj < m
    <3> HIDE DEF li, lj, ri, rj
    <3>1. a * li <= i /\ a * lj <= j /\ a * li \in Nat /\ a * lj \in Nat
      BY <1>1, <1>2, <1>3, <1>4
    <3>2. a * li < n /\ a * lj < n
      BY <1>1, <3>1
    <3> QED  BY <1>3, <1>4, <2>5, <3>2
  <2>7. ~(li < lj)
    <3>1. Mj - Mi = m * (-k) /\ -k \in Int
      <4> HIDE DEF Mi, Mj
      <4>1. m * (-k) = -(m * k)
        BY <2>2
      <4> QED  BY <1>3, <1>4, <2>2, <2>3, <4>1
    <3>2. Multiple(Mj - Mi, m)
      BY <3>1 DEF Multiple
    <3> QED  BY <1>3, <1>4, <2>6, <3>2, MovedApart
  <2>8. ~(lj < li)
    <3>1. Multiple(Mi - Mj, m)
      BY <2>3 DEF Multiple
    <3> QED  BY <1>3, <1>4, <2>6, <3>1, MovedApart
  <2> HIDE DEF li, lj, ri, rj
  <2>9. li = lj
    BY <1>3, <1>4, <2>7, <2>8
  <2> QED  BY <1>3, <1>4, <2>4, <2>9
<1>7. CASE \E m \in Powers : a = n * m
  <2>1. PICK m \in Powers : a = n * m
    BY <1>7
  <2>2. m \in Nat /\ m >= 1
    BY PowPositive
  <2>3. n <= a
    <3>1. n * 1 <= n * m
      BY <1>1, <2>2
    <3> QED  BY <1>1, <2>1, <3>1
  <2>4. ASSUME NEW l \in 0 .. n - 1 PROVE l \div a = 0
    <3>1. l \in Int /\ l \in 0 .. a - 1 /\ l = a * 0 + l /\ 0 \in Int
      BY <1>1, <2>3
    <3> HIDE DEF x, c, Mi, Mj, Ri, Rj, Bi, Bj, li, lj, ri, rj
    <3> QED  BY <1>1, <3>1, DivisionUnique
  <2>5. Mi = 0 /\ Mj = 0
    BY <2>4, MovedSteps
  <2>6. PICK u \in Int : (i + x) - Ri = a * u
    BY <1>3 DEF Multiple
  <2>7. PICK v \in Int : (j + x) - Rj = a * v
    BY <1>4 DEF Multiple
  <2> HIDE DEF x, c, Mi, Mj, Ri, Rj, Bi, Bj
  <2>8. Ri - Rj = n * k
    <3>1. a * Mi = 0 /\ a * Mj = 0
      BY <1>1, <2>5
    <3> QED  BY <1>1, <1>3, <1>4, <1>5, <3>1
  <2>9. a * u - a * v = n * (m * (u - v))
    BY <1>1, <2>1, <2>2
  <2>10. n * (k + m * (u - v)) = n * k + n * (m * (u - v))
    BY <1>1, <2>2
  <2>11. i - j = n * (k + m * (u - v))
    <3> DEFINE au == a * u  av == a * v  nk == n * k  z == n * (m * (u - v))
               w == n * (k + m * (u - v))
    <3>1. au \in Int /\ av \in Int /\ nk \in Int /\ z \in Int
      BY <1>1, <2>2
    <3>2. (i + x) - Ri = au /\ (j + x) - Rj = av /\ Ri - Rj = nk /\ au - av = z /\ w = nk + z
      BY <2>6, <2>7, <2>8, <2>9, <2>10
    <3> HIDE DEF au, av, nk, z, w
    <3>3. i - j = w
      BY <1>1, <1>2, <1>3, <1>4, <3>1, <3>2
    <3> QED  BY <3>3 DEF w
  <2> DEFINE y == k + m * (u - v)
  <2>12. y \in Int
    BY <2>2
  <2>13. i - j = n * y
    BY <2>11
  <2> HIDE DEF y
  <2>14. y = 0
    <3>1. n * y < n /\ -n < n * y
      BY <1>1, <2>13
    <3> QED  BY <1>1, <2>12, <3>1, SmallMultiple
  <2> QED  BY <1>1, <1>2, <2>13, <2>14
<1> QED
  BY <1>6, <1>7, PowDivides

(* The buckets that the first n steps meet in a table of n buckets.        *)
MetBuckets(kind, h, a, n) == {BucketAt(kind, h, a, j) % n : j \in 0 .. n - 1}

(* They are all n of them.                                                 *)
LEMMA BucketsMet ==
  ASSUME NEW kind, NEW h \in Nat, NEW a \in Powers, NEW n \in Powers
  PROVE  MetBuckets(kind, h, a, n) = 0 .. n - 1
<1> DEFINE S == 0 .. n - 1
           f == [j \in S |-> BucketAt(kind, h, a, j) % n]
<1>1. a \in Nat /\ a >= 1 /\ n \in Nat /\ n >= 1
  BY PowPositive
<1>2. \A j \in S : BucketAt(kind, h, a, j) % n \in S
  <2>1. ASSUME NEW j \in Nat PROVE BucketAt(kind, h, a, j) % n \in S
    <3>1. BucketAt(kind, h, a, j) \in Nat
      BY <1>1, BucketAtParts
    <3> QED  BY <1>1, <3>1, Division
  <2> QED  BY <1>1, <2>1
<1>3. f \in Injection(S, S)
  <2>1. \A i, j \in S : BucketAt(kind, h, a, i) % n = BucketAt(kind, h, a, j) % n => i = j
    BY BucketsApart
  <2> QED  BY <1>2, <2>1 DEF Injection, IsInjective
<1>4. IsFiniteSet(S)
  BY <1>1, FS_Interval
<1> HIDE DEF f
<1>5. f \in Surjection(S, S)
  BY <1>3, <1>4, FS_Injection
<1>6. {f[j] : j \in S} = S
  <2>1. f \in [S -> S] /\ \A b \in S : \E j \in S : f[j] = b
    BY <1>5 DEF Surjection
  <2> QED  BY <2>1
<1>7. MetBuckets(kind, h, a, n) = {f[j] : j \in S}
  BY DEF MetBuckets, f
<1> QED
  BY <1>6, <1>7

-----------------------------------------------------------------------------
(* The sequence objects.                                                   *)

(* The alignments of the sequences: 0 stands for none.                     *)
Alignment == Powers \cup {0}

(* The buckets of a line: one if lines are no longer than buckets.         *)
Line(A, K) == IF A > K THEN A \div K ELSE 1

(* The object after j steps from bucket h.                                 *)
SeqAfter(kind, h, A, K, j) ==
  LET a == Line(A, K)
  IN  [base  |-> K * ((h - (h % a)) + (IF kind = "linear" THEN 0 ELSE a * Triangle(j \div a))),
       shift |-> K * (h % a),
       psl   |-> K * j]

(* An alignment takes whole buckets, or is within a bucket.                *)
LEMMA LineFacts ==
  ASSUME NEW A \in Alignment, NEW K \in Powers
  PROVE  /\ A \in Nat /\ K \in Nat /\ K >= 1
         /\ Line(A, K) \in Powers /\ Line(A, K) \in Nat /\ Line(A, K) >= 1
         /\ A > K => A = K * Line(A, K)
         /\ A <= K => Line(A, K) = 1
         /\ A # 0 => \A x \in Nat : (K * x) % A = K * (x % Line(A, K))
<1>1. A \in Nat /\ K \in Nat /\ K >= 1
  BY PowPositive DEF Alignment
<1>2. CASE A > K
  <2>1. A \in Powers
    BY <1>1, <1>2 DEF Alignment
  <2>2. PICK z \in Powers : A = K * z
    <3>1. ASSUME NEW z \in Powers, K = A * z PROVE FALSE
      <4>1. z \in Nat /\ z >= 1
        BY PowPositive
      <4>2. A * z >= A * 1
        BY <1>1, <4>1
      <4> QED  BY <1>1, <1>2, <3>1, <4>2
    <3> QED  BY <2>1, <3>1, PowDivides
  <2>3. z \in Nat /\ z >= 1
    BY PowPositive
  <2>4. A \div K = z
    <3>1. A \in Int /\ z \in Int /\ 0 \in 0 .. K - 1 /\ A = K * z + 0
      BY <1>1, <2>2, <2>3
    <3> QED  BY <1>1, <3>1, DivisionUnique
  <2>5. Line(A, K) = z
    BY <1>2, <2>4 DEF Line
  <2>6. ASSUME NEW x \in Nat PROVE (K * x) % A = K * (x % z)
    <3>0. x \in Int
      OBVIOUS
    <3>1. (K * x) % (K * z) = K * (x % z)
      BY <1>1, <2>3, <3>0, ScaledRemainder, Zenon
    <3> QED  BY <2>2, <3>1
  <2>7. \A x \in Nat : (K * x) % A = K * (x % Line(A, K))
    BY <2>5, <2>6
  <2>8. A = K * Line(A, K) /\ Line(A, K) \in Powers /\ Line(A, K) \in Nat
        /\ Line(A, K) >= 1
    BY <2>2, <2>3, <2>5
  <2> QED  BY <1>1, <1>2, <2>7, <2>8
<1>3. CASE ~(A > K)
  <2>1. Line(A, K) = 1
    BY <1>3 DEF Line
  <2>2. ASSUME A # 0, NEW x \in Nat PROVE (K * x) % A = K * (x % 1)
    <3>1. A \in Powers
      BY <2>2 DEF Alignment
    <3>2. PICK z \in Nat : K = A * z
      <4>1. ASSUME NEW z \in Powers, A = K * z PROVE K = A * 1
        <5>1. z \in Nat /\ z >= 1
          BY PowPositive
        <5>2. CASE z = 1
          BY <1>1, <4>1, <5>2
        <5>3. CASE z >= 2
          <6>1. K * z >= K * 2
            BY <1>1, <5>3
          <6> QED  BY <1>1, <1>3, <4>1, <6>1
        <5> QED  BY <5>1, <5>2, <5>3
      <4> QED  BY <3>1, <4>1, PowDivides, PowPositive
    <3>3. K * x = A * (z * x) + 0 /\ z * x \in Int
      BY <1>1, <3>2
    <3>4. (K * x) % A = 0
      <4>1. A >= 1 /\ 0 \in 0 .. A - 1 /\ K * x \in Int
        BY <1>1, <2>2
      <4> DEFINE y == K * x  q == z * x
      <4>2. y \in Int /\ q \in Int /\ y = A * q + 0
        BY <3>3, <4>1
      <4> HIDE DEF y, q
      <4>3. y % A = 0
        BY <1>1, <4>1, <4>2, DivisionUnique
      <4> QED  BY <4>3 DEF y
    <3>5. x % 1 = 0
      OBVIOUS
    <3> QED  BY <1>1, <3>4, <3>5
  <2> QED  BY <1>1, <1>3, <2>1, <2>2, PowRule
<1> QED
  BY <1>2, <1>3

(* The object that the constructor makes.                                  *)
LEMMA SeqStarts ==
  ASSUME NEW kind, NEW h \in Nat, NEW A \in Alignment, NEW K \in Powers
  PROVE  SeqAt(K * h, A) = SeqAfter(kind, h, A, K, 0)
<1> DEFINE a == Line(A, K)  r == h % a  t == Triangle(0 \div a)
<1>1. /\ A \in Nat /\ K \in Nat /\ K >= 1 /\ a \in Nat /\ a >= 1
      /\ A = 0 => a = 1
      /\ A # 0 => (K * h) % A = K * r
  BY LineFacts
<1>2. r \in 0 .. a - 1
  BY <1>1
<1>3. a * t = 0
  <2>1. 0 \div a = 0
    <3>1. 0 \in 0 .. a - 1 /\ 0 = a * 0 + 0 /\ 0 \in Int
      BY <1>1
    <3> HIDE DEF a
    <3> QED  BY <1>1, <3>1, DivisionUnique
  <2>2. Triangle(0) = 0
    <3>1. 2 * Triangle(0) = 0 * (0 + 1) /\ Triangle(0) \in Nat
      BY TriangleSum
    <3> QED  BY <3>1
  <2> HIDE DEF a
  <2> QED  BY <1>1, <2>1, <2>2
<1>4. A = 0 => r = 0
  BY <1>1
<1>5. SeqAfter(kind, h, A, K, 0) =
        [base  |-> K * ((h - r) + (IF kind = "linear" THEN 0 ELSE a * t)),
         shift |-> K * r, psl |-> K * 0]
  BY DEF SeqAfter
<1>6. SeqAt(K * h, A) =
        [base |-> K * h - K * r, shift |-> K * r, psl |-> 0]
  <2> HIDE DEF a, r
  <2>1. CASE A = 0
    <3>1. K * r = 0 /\ K * h - K * r = K * h
      BY <1>1, <1>4, <2>1
    <3> QED  BY <2>1, <3>1 DEF SeqAt
  <2>2. CASE A # 0
    BY <1>1, <2>2 DEF SeqAt
  <2> QED  BY <2>1, <2>2
<1> HIDE DEF a, r, t
<1>7. K * ((h - r) + 0) = K * h - K * r /\ K * 0 = 0
  BY <1>1, <1>2
<1> QED
  BY <1>3, <1>5, <1>6, <1>7

(* The line of the next step.                                              *)
LEMMA NextLine ==
  ASSUME NEW a \in Nat, a >= 1, NEW j \in Nat
  PROVE  IF (j + 1) % a = 0 THEN /\ (j + 1) \div a = (j \div a) + 1
                                 /\ j + 1 = a * ((j \div a) + 1)
                            ELSE (j + 1) \div a = j \div a
<1> DEFINE q == j \div a  r == j % a
<1>1. q \in Nat /\ r \in 0 .. a - 1 /\ j = a * q + r
  OBVIOUS
<1> HIDE DEF q, r
<1>2. CASE r + 1 = a
  <2>1. a * (q + 1) = a * q + a
    BY <1>1
  <2>2. /\ j + 1 \in Int /\ q + 1 \in Int /\ 0 \in 0 .. a - 1
        /\ j + 1 = a * (q + 1) + 0 /\ j + 1 = a * (q + 1)
    BY <1>1, <1>2, <2>1
  <2>3. (j + 1) \div a = q + 1 /\ (j + 1) % a = 0
    BY <2>2, DivisionUnique
  <2> QED  BY <2>2, <2>3 DEF q
<1>3. CASE r + 1 < a
  <2>1. j + 1 \in Int /\ q \in Int /\ r + 1 \in 0 .. a - 1 /\ j + 1 = a * q + (r + 1)
    BY <1>1, <1>3
  <2>2. (j + 1) \div a = q /\ (j + 1) % a = r + 1
    BY <2>1, DivisionUnique
  <2> QED  BY <1>1, <2>2 DEF q
<1> QED
  BY <1>1, <1>2, <1>3

(* A step of the linear kind.                                              *)
LEMMA LinearSteps ==
  ASSUME NEW h \in Nat, NEW A \in Alignment, NEW K \in Powers, NEW j \in Nat
  PROVE  LinearAdvance(SeqAfter("linear", h, A, K, j), A, K)
           = SeqAfter("linear", h, A, K, j + 1)
<1>1. K * j + K = K * (j + 1)
  <2>1. K \in Nat
    BY LineFacts
  <2> QED  BY <2>1
<1> QED
  BY <1>1 DEF LinearAdvance, SeqAfter

(* QuadraticAdvance, by fields.                                            *)
LEMMA QuadraticFields ==
  ASSUME NEW b, NEW g, NEW p, NEW q, NEW A, NEW K, p + K = q
  PROVE  QuadraticAdvance([base |-> b, shift |-> g, psl |-> p], A, K) =
           [base |-> b + (IF A = 0 \/ q % A = 0 THEN q ELSE 0), shift |-> g, psl |-> q]
<1> DEFINE s == [base |-> b, shift |-> g, psl |-> p]
<1>1. s.base = b /\ s.psl = p
  OBVIOUS
<1>2. QuadraticAdvance(s, A, K) =
        [s EXCEPT !.psl = q, !.base = b + (IF A = 0 \/ q % A = 0 THEN q ELSE 0)]
  <2> HIDE DEF s
  <2> QED  BY <1>1 DEF QuadraticAdvance
<1> DEFINE w == b + (IF A = 0 \/ q % A = 0 THEN q ELSE 0)
<1>3. QuadraticAdvance(s, A, K) = [s EXCEPT !.psl = q, !.base = w]
  BY <1>2
<1> HIDE DEF w
<1>4. ASSUME NEW u, NEW t, u = [base |-> b, shift |-> g, psl |-> p],
             t = [u EXCEPT !.psl = q, !.base = w]
      PROVE  t = [base |-> w, shift |-> g, psl |-> q]
  BY <1>4
<1> QED
  BY <1>3, <1>4 DEF w

(* A step of the quadratic kind.                                           *)
LEMMA QuadraticSteps ==
  ASSUME NEW kind, kind # "linear",
         NEW h \in Nat, NEW A \in Alignment, NEW K \in Powers, NEW j \in Nat
  PROVE  QuadraticAdvance(SeqAfter(kind, h, A, K, j), A, K)
           = SeqAfter(kind, h, A, K, j + 1)
<1> DEFINE a == Line(A, K)  r == h % a  l == j \div a  m == (j + 1) \div a
           c == h - r
           ends == A = 0 \/ (K * (j + 1)) % A = 0
<1>1. /\ A \in Nat /\ K \in Nat /\ K >= 1 /\ a \in Nat /\ a >= 1
      /\ A = 0 => a = 1
      /\ A # 0 => (K * (j + 1)) % A = K * ((j + 1) % a)
  BY LineFacts
<1>2. /\ c \in Nat /\ l \in Nat /\ m \in Nat /\ (j + 1) % a \in Nat
      /\ Triangle(l) \in Nat /\ Triangle(m) \in Nat
      /\ Triangle(l + 1) = Triangle(l) + (l + 1)
  <2>1. c \in Nat /\ l \in Nat
    BY <1>1, BucketAtParts
  <2>2. m \in Nat /\ (j + 1) % a \in Nat
    BY <1>1
  <2> HIDE DEF l, m
  <2> QED  BY <2>1, <2>2, TriangleSum
<1>3. ends <=> (j + 1) % a = 0
  <2>1. CASE A = 0
    BY <1>1, <2>1
  <2>2. CASE A # 0
    <3> DEFINE y == (j + 1) % a
    <3>1. y \in Nat /\ ((K * (j + 1)) % A = K * y)
      BY <1>1, <1>2, <2>2
    <3> HIDE DEF y
    <3>2. K * y = 0 <=> y = 0
      <4>1. CASE y = 0
        BY <1>1, <4>1
      <4>2. CASE y >= 1
        <5>1. K * y >= K * 1
          BY <1>1, <3>1, <4>2
        <5> QED  BY <1>1, <4>2, <5>1
      <4> QED  BY <3>1, <4>1, <4>2
    <3> QED  BY <2>2, <3>1, <3>2 DEF y
  <2> QED  BY <2>1, <2>2
<1>4. IF ends THEN m = l + 1 /\ j + 1 = a * (l + 1) ELSE m = l
  BY <1>1, <1>3, NextLine
<1> DEFINE b == K * (c + a * Triangle(l))
<1>5. SeqAfter(kind, h, A, K, j) = [base |-> b, shift |-> K * r, psl |-> K * j]
  BY DEF SeqAfter
<1>6. SeqAfter(kind, h, A, K, j + 1) =
        [base |-> K * (c + a * Triangle(m)), shift |-> K * r, psl |-> K * (j + 1)]
  BY DEF SeqAfter
<1>7. K * j + K = K * (j + 1)
  BY <1>1
<1>8. QuadraticAdvance([base |-> b, shift |-> K * r, psl |-> K * j], A, K) =
        [base |-> b + (IF ends THEN K * (j + 1) ELSE 0), shift |-> K * r,
         psl |-> K * (j + 1)]
  <2> DEFINE p == K * j  q == K * (j + 1)  g == K * r
  <2>1. p + K = q /\ (ends <=> A = 0 \/ q % A = 0)
    BY <1>7
  <2> HIDE DEF b, p, q, g, ends
  <2>2. QuadraticAdvance([base |-> b, shift |-> g, psl |-> p], A, K) =
          [base |-> b + (IF ends THEN q ELSE 0), shift |-> g, psl |-> q]
    BY <2>1, QuadraticFields
  <2> QED  BY <2>2 DEF p, q, g
<1>9. b + (IF ends THEN K * (j + 1) ELSE 0) = K * (c + a * Triangle(m))
  <2> HIDE DEF r, a, l, m, c, ends
  <2>1. CASE ends
    <3>1. a * Triangle(m) = a * Triangle(l) + a * (l + 1)
      BY <1>1, <1>2, <1>4, <2>1
    <3> DEFINE s == a * Triangle(m)  t == a * Triangle(l)
    <3>2. s \in Nat /\ t \in Nat /\ s = t + (j + 1)
      BY <1>1, <1>2, <1>4, <2>1, <3>1
    <3> HIDE DEF s, t
    <3>3. K * (c + s) = K * (c + t) + K * (j + 1)
      BY <1>1, <1>2, <3>2
    <3> QED  BY <2>1, <3>3 DEF s, t
  <2>2. CASE ~ends
    <3>1. b \in Int
      BY <1>1, <1>2
    <3>2. b = K * (c + a * Triangle(m))
      BY <1>4, <2>2
    <3> HIDE DEF b
    <3>3. b + 0 = b
      BY <3>1
    <3> QED  BY <2>2, <3>2, <3>3
  <2> QED  BY <2>1, <2>2
<1> HIDE DEF a, r, l, m, c, ends, b
<1> QED
  BY <1>5, <1>6, <1>8, <1>9

(* The bucket that the object names.                                       *)
LEMMA SeqBucket ==
  ASSUME NEW kind, NEW h \in Nat, NEW A \in Alignment, NEW K \in Powers, NEW j \in Nat,
         NEW n \in Nat, n >= 1
  PROVE  ToBucket(IF kind = "linear" THEN LinearNext(SeqAfter(kind, h, A, K, j), A)
                                     ELSE QuadraticNext(SeqAfter(kind, h, A, K, j), A), K, n)
           = BucketAt(kind, h, Line(A, K), j) % n
<1> DEFINE a == Line(A, K)  r == h % a  l == j \div a  c == h - r  u == (j + r) % a
           o == j % a
<1>1. /\ A \in Nat /\ K \in Nat /\ K >= 1 /\ a \in Nat /\ a >= 1
      /\ A = 0 => a = 1
      /\ A # 0 => \A x \in Nat : (K * x) % A = K * (x % a)
  BY LineFacts
<1>2. /\ c \in Nat /\ l \in Nat /\ Triangle(l) \in Nat /\ r \in Nat /\ u \in Nat
      /\ o \in Nat /\ j = a * l + o
      /\ BucketAt(kind, h, a, j) \in Nat
  <2>1. /\ c \in Nat /\ l \in Nat /\ r \in Nat /\ u \in Nat /\ o \in Nat
        /\ j = a * l + o /\ BucketAt(kind, h, a, j) \in Nat
    <3> HIDE DEF a
    <3>1. l \in Nat /\ o \in 0 .. a - 1 /\ j = a * l + o
      BY <1>1, BucketAtParts
    <3>2. r \in 0 .. a - 1 /\ c \in Nat
      BY <1>1, BucketAtParts
    <3>3. u \in 0 .. a - 1 /\ BucketAt(kind, h, a, j) \in Nat
      BY <1>1, BucketAtParts
    <3> QED  BY <1>1, <3>1, <3>2, <3>3
  <2> HIDE DEF l
  <2> QED  BY <2>1, TriangleSum
<1> DEFINE s == SeqAfter(kind, h, A, K, j)
<1>3. /\ s.base = K * (c + (IF kind = "linear" THEN 0 ELSE a * Triangle(l)))
      /\ s.shift = K * r /\ s.psl = K * j
  BY DEF SeqAfter
<1>4. s.psl + s.shift = K * (j + r)
  <2> HIDE DEF r, s
  <2> QED  BY <1>1, <1>2, <1>3
<1>5. A # 0 => (s.psl + s.shift) % A = K * u /\ s.psl % A = K * o
  <2>1. j + r \in Nat
    BY <1>2
  <2> HIDE DEF s, r, a
  <2> QED  BY <1>1, <1>3, <1>4, <2>1
<1>6. A = 0 => u = 0 /\ o = 0 /\ r = 0
  BY <1>1, <1>2
<1>7. kind = "linear" => LinearNext(s, A) = K * BucketAt(kind, h, a, j)
  <2> SUFFICES ASSUME kind = "linear" PROVE LinearNext(s, A) = K * BucketAt(kind, h, a, j)
    OBVIOUS
  <2>1. BucketAt(kind, h, a, j) = (c + a * l) + u
    BY DEF BucketAt, LinesMoved
  <2>2. a * l = j - o
    <3> HIDE DEF l, o, a
    <3> QED  BY <1>1, <1>2
  <2>3. s.base = K * c
    <3> HIDE DEF c, s
    <3>1. c + 0 = c
      BY <1>2
    <3> QED  BY <1>3, <3>1
  <2> HIDE DEF s, r, c, l, u, o, a
  <2>4. K * ((c + (j - o)) + u) = ((K * c) + (K * j - K * o)) + K * u
    BY <1>1, <1>2
  <2>5. CASE A = 0
    <3>1. LinearNext(s, A) = K * c + K * j
      BY <1>3, <2>3, <2>5 DEF LinearNext
    <3>2. K * ((c + (j - o)) + u) = K * c + K * j
      BY <1>1, <1>2, <1>6, <2>5
    <3> QED  BY <2>1, <2>2, <3>1, <3>2
  <2>6. CASE A # 0
    <3>1. LinearNext(s, A) = ((K * c) + (K * j - K * o)) + K * u
      BY <1>3, <1>5, <2>3, <2>6 DEF LinearNext
    <3> QED  BY <2>1, <2>2, <2>4, <3>1
  <2> QED  BY <2>5, <2>6
<1>8. kind # "linear" => QuadraticNext(s, A) = K * BucketAt(kind, h, a, j)
  <2> SUFFICES ASSUME kind # "linear"
               PROVE  QuadraticNext(s, A) = K * BucketAt(kind, h, a, j)
    OBVIOUS
  <2>1. BucketAt(kind, h, a, j) = (c + a * Triangle(l)) + u
    BY DEF BucketAt, LinesMoved
  <2>2. s.base = K * (c + a * Triangle(l))
    BY <1>3
  <2> HIDE DEF s, r, c, l, u, o, a
  <2> DEFINE t == a * Triangle(l)
  <2>3. t \in Nat
    <3> DEFINE y == Triangle(l)
    <3>1. a \in Nat /\ y \in Nat
      BY <1>1, <1>2
    <3> HIDE DEF y
    <3>2. a * y \in Nat
      BY <3>1
    <3> QED  BY <3>2 DEF y
  <2> HIDE DEF t
  <2>4. K * ((c + t) + u) = K * (c + t) + K * u
    BY <1>1, <1>2, <2>3
  <2>5. QuadraticNext(s, A) = K * (c + t) + K * u
    <3>1. CASE A = 0
      <4>1. K * u = 0
        BY <1>1, <1>6, <3>1
      <4> QED  BY <2>2, <3>1, <4>1 DEF QuadraticNext, t
    <3>2. CASE A # 0
      BY <1>5, <2>2, <3>2 DEF QuadraticNext, t
    <3> QED  BY <3>1, <3>2
  <2> QED  BY <2>1, <2>4, <2>5 DEF t
<1> DEFINE B == BucketAt(kind, h, a, j)
<1>9. ToBucket(K * B, K, n) = B % n
  <2>1. B \in Int
    BY <1>2
  <2> HIDE DEF B
  <2> QED  BY <1>1, <2>1, BucketOfPosition
<1> HIDE DEF s, a
<1> QED
  BY <1>7, <1>8, <1>9 DEF s, a

(* The recursion of QuadraticAfter: its value is the object after j steps. *)
LEMMA QuadraticAfterIs ==
  ASSUME NEW h \in Nat, NEW A \in Alignment, NEW K \in Powers, NEW j \in Nat
  PROVE  QuadraticAfter(K * h, A, K, j) = SeqAfter("quadratic", h, A, K, j)
<1> DEFINE Rec(f) == f = [i \in 0 .. j |->
                            IF i = 0 THEN SeqAt(K * h, A)
                                     ELSE QuadraticAdvance(f[i - 1], A, K)]
           g == [i \in 0 .. j |-> SeqAfter("quadratic", h, A, K, i)]
<1>1. QuadraticAfter(K * h, A, K, j) = (CHOOSE f : Rec(f))[j]
  BY DEF QuadraticAfter
<1>2. SeqAt(K * h, A) = SeqAfter("quadratic", h, A, K, 0)
  BY SeqStarts
<1>3. ASSUME NEW i \in 0 .. j, i # 0
      PROVE  /\ i - 1 \in 0 .. j
             /\ QuadraticAdvance(SeqAfter("quadratic", h, A, K, i - 1), A, K)
                  = SeqAfter("quadratic", h, A, K, i)
  <2>1. i - 1 \in Nat /\ i - 1 \in 0 .. j /\ (i - 1) + 1 = i
    BY <1>3
  <2>2. QuadraticAdvance(SeqAfter("quadratic", h, A, K, i - 1), A, K)
          = SeqAfter("quadratic", h, A, K, (i - 1) + 1)
    BY <2>1, QuadraticSteps
  <2> QED  BY <2>1, <2>2
<1>4. Rec(g)
  <2> DEFINE e == [i \in 0 .. j |-> IF i = 0 THEN SeqAt(K * h, A)
                                     ELSE QuadraticAdvance(g[i - 1], A, K)]
  <2>1. ASSUME NEW i \in 0 .. j PROVE g[i] = e[i]
    <3>1. CASE i = 0
      BY <1>2, <3>1
    <3>2. CASE i # 0
      <4>1. g[i - 1] = SeqAfter("quadratic", h, A, K, i - 1)
        BY <1>3, <3>2
      <4> QED  BY <1>3, <3>2, <4>1
    <3> QED  BY <3>1, <3>2
  <2>2. DOMAIN g = 0 .. j /\ DOMAIN e = 0 .. j /\ g = [i \in 0 .. j |-> g[i]]
        /\ e = [i \in 0 .. j |-> e[i]]
    OBVIOUS
  <2> HIDE DEF g, e
  <2>3. g = e
    BY <2>1, <2>2
  <2> QED  BY <2>3 DEF e
<1> DEFINE f == CHOOSE f : Rec(f)
<1>5. Rec(f)
  <2>1. \E u : Rec(u)
    BY <1>4
  <2> HIDE DEF Rec
  <2> QED  BY <2>1
<1>6. /\ f[0] = SeqAt(K * h, A)
      /\ \A i \in 0 .. j : i # 0 => f[i] = QuadraticAdvance(f[i - 1], A, K)
  <2> HIDE DEF f
  <2>1. \A i \in 0 .. j : f[i] = IF i = 0 THEN SeqAt(K * h, A)
                                 ELSE QuadraticAdvance(f[i - 1], A, K)
    BY <1>5
  <2> QED  BY <2>1
<1> DEFINE S == {i \in Nat : i <= j /\ f[i] # SeqAfter("quadratic", h, A, K, i)}
<1>7. S = {}
  <2> SUFFICES ASSUME S # {} PROVE FALSE
    OBVIOUS
  <2>1. S \in SUBSET Nat
    <3> HIDE DEF f
    <3> QED  OBVIOUS
  <2> HIDE DEF S
  <2>2. PICK m \in S : \A x \in S : m <= x
    BY <2>1, LeastNat
  <2> USE DEF S
  <2> HIDE DEF f
  <2>3. m \in Nat /\ m \in 0 .. j /\ f[m] # SeqAfter("quadratic", h, A, K, m)
    BY <2>2
  <2>4. m # 0
    BY <1>2, <1>6, <2>3
  <2>5. m - 1 \notin S /\ m - 1 \in 0 .. j
    BY <2>2, <2>3, <2>4
  <2>6. f[m - 1] = SeqAfter("quadratic", h, A, K, m - 1)
    BY <2>5
  <2> QED  BY <1>3, <1>6, <2>3, <2>4, <2>6
<1>8. j \in 0 .. j
  OBVIOUS
<1> HIDE DEF f
<1>9. f[j] = SeqAfter("quadratic", h, A, K, j)
  BY <1>7, <1>8
<1> QED
  BY <1>1, <1>9 DEF f

(* The bucket that a step of the quadratic sequence designates.            *)
LEMMA QuadraticBucketIs ==
  ASSUME NEW h \in Nat, NEW A \in Alignment, NEW K \in Powers, NEW n \in Powers,
         NEW j \in Nat
  PROVE  QuadraticBucket(K * h, A, K, n, j)
           = BucketAt("quadratic", h, Line(A, K), j) % n
<1>1. n \in Nat /\ n >= 1 /\ Line(A, K) \in Powers
  BY LineFacts, PowPositive
<1>2. QuadraticBucket(K * h, A, K, n, j)
        = ToBucket(QuadraticNext(SeqAfter("quadratic", h, A, K, j), A), K, n)
  BY QuadraticAfterIs DEF QuadraticBucket
<1>3. ToBucket(QuadraticNext(SeqAfter("quadratic", h, A, K, j), A), K, n)
        = BucketAt("quadratic", h, Line(A, K), j) % n
  <2> DEFINE kind == "quadratic"
  <2>1. kind # "linear"
    OBVIOUS
  <2> HIDE DEF kind
  <2>2. ToBucket(IF kind = "linear" THEN LinearNext(SeqAfter(kind, h, A, K, j), A)
                                   ELSE QuadraticNext(SeqAfter(kind, h, A, K, j), A), K, n)
          = BucketAt(kind, h, Line(A, K), j) % n
    BY <1>1, SeqBucket
  <2>3. ToBucket(QuadraticNext(SeqAfter(kind, h, A, K, j), A), K, n)
          = BucketAt(kind, h, Line(A, K), j) % n
    BY <2>1, <2>2
  <2> QED  BY <2>3 DEF kind
<1> QED
  BY <1>2, <1>3

(* quadratic_seq meets every bucket of a table of n buckets in its first n *)
(* steps, whatever the bucket it starts at and the alignment (0 for the    *)
(* unaligned one): the reason why the loops of the map need no bound.      *)
THEOREM QuadraticMeetsAll ==
  ASSUME NEW h \in Nat, NEW A \in Alignment, NEW K \in Powers, NEW n \in Powers,
         NEW b \in 0 .. n - 1
  PROVE  \E j \in 0 .. n - 1 : QuadraticBucket(K * h, A, K, n, j) = b
<1>1. n \in Nat /\ n >= 1 /\ Line(A, K) \in Powers
  BY LineFacts, PowPositive
<1>2. PICK j \in 0 .. n - 1 : BucketAt("quadratic", h, Line(A, K), j) % n = b
  <2> DEFINE a == Line(A, K)
  <2>1. a \in Powers
    BY <1>1
  <2> HIDE DEF a
  <2>2. MetBuckets("quadratic", h, a, n) = 0 .. n - 1
    BY <2>1, BucketsMet
  <2> QED  BY <2>2 DEF MetBuckets, a
<1>3. j \in Nat
  BY <1>1
<1> QED
  BY <1>2, <1>3, QuadraticBucketIs

(* ... and it meets no bucket again in these steps.                        *)
LEMMA QuadraticNeverRepeats ==
  ASSUME NEW h \in Nat, NEW A \in Alignment, NEW K \in Powers, NEW n \in Powers,
         NEW i \in 0 .. n - 1, NEW j \in 0 .. n - 1,
         QuadraticBucket(K * h, A, K, n, i) = QuadraticBucket(K * h, A, K, n, j)
  PROVE  i = j
<1> DEFINE a == Line(A, K)
<1>1. n \in Nat /\ a \in Powers /\ i \in Nat /\ j \in Nat
  BY LineFacts, PowPositive
<1>2. BucketAt("quadratic", h, a, i) % n = BucketAt("quadratic", h, a, j) % n
  BY <1>1, QuadraticBucketIs
<1> HIDE DEF a
<1> QED
  BY <1>1, <1>2, BucketsApart

-----------------------------------------------------------------------------
(* The kernels that work in an unsigned integer, of N slots, with masks of *)
(* B bits; fast ones and exact ones.                                       *)
Swar(Size, MaskBits, fast) ==
  INSTANCE UintKernel WITH produces_false_positives <- fast

(* The sizes that occur, and every other one for which a mask has a bit    *)
(* for each bit of the bucket.                                             *)
Fits(N, B) == N \in Nat /\ N >= 1 /\ B \in Nat /\ 8 * N <= B

(* Byte i of m is zero.                                                    *)
Zero(m, i) == \A b \in 8 * i .. 8 * i + 7 : b \notin m

(* Byte i of m is one at most: all its bits but the lowest are zero.       *)
Low(m, i) == \A b \in 8 * i + 1 .. 8 * i + 7 : b \notin m

(* The marks of the slots of S.                                            *)
Marked(S) == {8 * i + 7 : i \in S}

(* The lowest and the highest bits of the bytes.                           *)
LEMMA EndBits ==
  ASSUME NEW N, NEW B, Fits(N, B), NEW fast
  PROVE  /\ \A g : g \in Swar(N, B, fast)!lsbs <=> \E i \in 0 .. N - 1 : g = 8 * i
         /\ \A p : p \in Swar(N, B, fast)!msbs <=> \E i \in 0 .. N - 1 : p = 8 * i + 7
         /\ Swar(N, B, fast)!Bits = 0 .. B - 1
         /\ \A p \in Swar(N, B, fast)!msbs : p \notin Swar(N, B, fast)!lsbs
<1>1. \A g : g \in Swar(N, B, fast)!lsbs <=> \E i \in 0 .. N - 1 : g = 8 * i
  BY DEF Swar!lsbs
<1>2. \A p : p \in Swar(N, B, fast)!msbs <=> \E i \in 0 .. N - 1 : p = 8 * i + 7
  BY DEF Swar!msbs
<1>3. Swar(N, B, fast)!Bits = 0 .. B - 1
  BY DEF Swar!Bits
<1>4. ASSUME NEW p \in Swar(N, B, fast)!msbs, p \in Swar(N, B, fast)!lsbs PROVE FALSE
  <2>1. PICK i \in 0 .. N - 1 : p = 8 * i + 7
    BY <1>2
  <2>2. PICK j \in 0 .. N - 1 : p = 8 * j
    BY <1>1, <1>4
  <2> QED  BY <2>1, <2>2 DEF Fits
<1> QED
  BY <1>1, <1>2, <1>3, <1>4

(* Where the highest bits of bytes are, and that a bit below the highest   *)
(* one of byte i and above the lowest is neither.                          *)
LEMMA EndBitsPlace ==
  ASSUME NEW N, NEW B, Fits(N, B), NEW fast, NEW i \in 0 .. N - 1
  PROVE  /\ 8 * i + 7 \in Swar(N, B, fast)!Bits /\ 8 * i \in Swar(N, B, fast)!Bits
         /\ 8 * i + 7 \in Swar(N, B, fast)!msbs /\ 8 * i \in Swar(N, B, fast)!lsbs
         /\ 8 * i + 7 \notin Swar(N, B, fast)!lsbs
         /\ \A b \in 8 * i + 1 .. 8 * i + 6 :
              /\ b \notin Swar(N, B, fast)!lsbs /\ b \notin Swar(N, B, fast)!msbs
              /\ b \in Swar(N, B, fast)!Bits
<1>1. i \in Int /\ i >= 0 /\ i <= N - 1 /\ N \in Nat /\ B \in Nat /\ 8 * N <= B
  BY DEF Fits
<1>2. 8 * i + 7 \in 0 .. B - 1 /\ 8 * i \in 0 .. B - 1
  BY <1>1
<1>3. 8 * i + 7 \in Swar(N, B, fast)!msbs /\ 8 * i \in Swar(N, B, fast)!lsbs
  BY EndBits
<1>4. ASSUME NEW b \in 8 * i + 1 .. 8 * i + 6
      PROVE  /\ b \notin Swar(N, B, fast)!lsbs /\ b \notin Swar(N, B, fast)!msbs
             /\ b \in 0 .. B - 1
  <2>1. b \in 0 .. B - 1
    BY <1>1
  <2>2. \A j \in 0 .. N - 1 : b # 8 * j /\ b # 8 * j + 7
    BY <1>1
  <2> QED  BY <2>1, <2>2, EndBits
<1>5. Swar(N, B, fast)!Bits = 0 .. B - 1 /\ 8 * i + 7 \notin Swar(N, B, fast)!lsbs
  BY <1>3, EndBits
<1> QED
  BY <1>2, <1>3, <1>4, <1>5

(* The exact search marks the bytes that are zero, and no others.          *)
LEMMA ExactMarks ==
  ASSUME NEW N, NEW B, Fits(N, B), NEW fast, NEW m
  PROVE  Swar(N, B, fast)!MatchesExactly(m) = Marked({i \in 0 .. N - 1 : Zero(m, i)})
<1> DEFINE lsb == Swar(N, B, fast)!lsbs
           msb == Swar(N, B, fast)!msbs
           bits == Swar(N, B, fast)!Bits
           y == (bits \ m) \cap (bits \ msb)
           carry == {p \in bits : \E g \in y \cap lsb :
                                    g < p /\ \A b \in g + 1 .. p - 1 : b \in y \cup lsb}
           sum == (((y \ lsb) \cup (lsb \ y)) \ carry)
                    \cup (carry \ ((y \ lsb) \cup (lsb \ y)))
<1>1. Swar(N, B, fast)!MatchesExactly(m) = sum \cap ((bits \ m) \cap msb)
  BY DEF Swar!MatchesExactly, Swar!Add, Swar!Not, Swar!Xor
<1>2. ASSUME NEW i \in 0 .. N - 1
      PROVE  8 * i + 7 \in sum \cap ((bits \ m) \cap msb) <=> Zero(m, i)
  <2> DEFINE p == 8 * i + 7
  <2>1. /\ p \in bits /\ p \in msb /\ p \notin lsb /\ 8 * i \in lsb /\ 8 * i \in bits
        /\ \A b \in 8 * i + 1 .. 8 * i + 6 : b \notin lsb /\ b \notin msb /\ b \in bits
    BY EndBitsPlace
  <2>2. p \in sum <=> p \in carry
    BY <2>1
  <2>3. i \in Int /\ bits = 0 .. B - 1 /\ 8 * i \notin msb /\ B \in Nat
    <3>1. i \in Int /\ B \in Nat
      BY DEF Fits
    <3>2. bits = 0 .. B - 1 /\ \A q \in msb : q \notin lsb
      BY EndBits
    <3> QED  BY <2>1, <3>1, <3>2
  <2>4. ASSUME p \in carry, p \notin m PROVE Zero(m, i)
    <3>1. PICK g \in y \cap lsb : g < p /\ \A b \in g + 1 .. p - 1 : b \in y \cup lsb
      BY <2>4
    <3>2. PICK j \in 0 .. N - 1 : g = 8 * j
      BY <3>1, EndBits
    <3>3. j = i
      <4>1. CASE j < i
        <5>1. 8 * j + 7 \in msb /\ 8 * j + 7 \notin lsb
          BY EndBitsPlace
        <5>2. 8 * j + 7 \in g + 1 .. p - 1
          BY <2>3, <3>2, <4>1
        <5> QED  BY <3>1, <5>1, <5>2
      <4> QED  BY <2>3, <3>1, <3>2, <4>1
    <3>4. 8 * i \notin m
      BY <3>1, <3>2, <3>3
    <3>5. \A b \in 8 * i + 1 .. 8 * i + 6 : b \notin m
      <4> TAKE b \in 8 * i + 1 .. 8 * i + 6
      <4>1. b \in g + 1 .. p - 1
        BY <2>3, <3>2, <3>3
      <4> QED  BY <2>1, <3>1, <4>1
    <3> QED  BY <2>3, <2>4, <3>4, <3>5 DEF Zero
  <2>5. ASSUME Zero(m, i) PROVE p \in carry /\ p \notin m
    <3>1. 8 * i \notin m /\ p \notin m /\ \A b \in 8 * i + 1 .. 8 * i + 6 : b \notin m
      BY <2>3, <2>5 DEF Zero
    <3>2. 8 * i \in y \cap lsb
      BY <2>1, <2>3, <3>1
    <3>3. \A b \in 8 * i + 1 .. p - 1 : b \in y
      BY <2>1, <2>3, <3>1
    <3> QED  BY <2>1, <2>3, <3>1, <3>2, <3>3
  <2> HIDE DEF sum, carry
  <2> QED  BY <2>1, <2>2, <2>4, <2>5
<1>3. \A p \in sum \cap ((bits \ m) \cap msb) : \E i \in 0 .. N - 1 : p = 8 * i + 7
  BY EndBits
<1> HIDE DEF sum, bits, msb
<1> QED
  BY <1>1, <1>2, <1>3 DEF Marked

(* The fast search marks every byte that is zero, and otherwise only bytes *)
(* that are one, above a byte that is zero.                                *)
LEMMA FastMarks ==
  ASSUME NEW N, NEW B, Fits(N, B), NEW fast, NEW m
  PROVE  \E S \in SUBSET (0 .. N - 1) :
           /\ Swar(N, B, fast)!MatchesFast(m) = Marked(S)
           /\ \A i \in 0 .. N - 1 : Zero(m, i) => i \in S
           /\ \A i \in S : Low(m, i) /\ \E j \in S : j <= i /\ Zero(m, j)
<1> DEFINE lsb == Swar(N, B, fast)!lsbs
           msb == Swar(N, B, fast)!msbs
           bits == Swar(N, B, fast)!Bits
           borrow == {p \in bits : \E g \in lsb \ m :
                                    g < p /\ \A b \in g + 1 .. p - 1 : b \notin m \ lsb}
           diff == (((m \ lsb) \cup (lsb \ m)) \ borrow)
                    \cup (borrow \ ((m \ lsb) \cup (lsb \ m)))
           S == {i \in 0 .. N - 1 : 8 * i + 7 \in diff /\ 8 * i + 7 \notin m}
<1>1. Swar(N, B, fast)!MatchesFast(m) = diff \cap ((bits \ m) \cap msb)
  BY DEF Swar!MatchesFast, Swar!Sub, Swar!Not, Swar!Xor
<1>2. Swar(N, B, fast)!MatchesFast(m) = Marked(S)
  <2>1. \A p \in diff \cap ((bits \ m) \cap msb) : \E i \in 0 .. N - 1 : p = 8 * i + 7
    BY EndBits
  <2>2. \A i \in 0 .. N - 1 : 8 * i + 7 \in bits /\ 8 * i + 7 \in msb
    BY EndBitsPlace
  <2> HIDE DEF diff, bits, msb
  <2> QED  BY <1>1, <2>1, <2>2 DEF Marked
<1>3. ASSUME NEW i \in 0 .. N - 1
      PROVE  /\ i \in Int /\ bits = 0 .. B - 1 /\ B \in Nat
             /\ 8 * i + 7 \in bits /\ 8 * i + 7 \notin lsb /\ 8 * i \in lsb
             /\ \A b \in 8 * i + 1 .. 8 * i + 6 : b \notin lsb
  <2>1. i \in Int /\ B \in Nat
    BY DEF Fits
  <2>2. bits = 0 .. B - 1
    BY EndBits
  <2> QED  BY <2>1, <2>2, EndBitsPlace
<1>4. ASSUME NEW i \in 0 .. N - 1, 8 * i + 7 \notin m
      PROVE  i \in S <=> 8 * i + 7 \in borrow
  BY <1>3, <1>4
<1>5. ASSUME NEW i \in 0 .. N - 1, Zero(m, i)
      PROVE  i \in S
  <2>1. 8 * i \notin m /\ 8 * i + 7 \notin m /\ \A b \in 8 * i + 1 .. 8 * i + 6 : b \notin m
    BY <1>3, <1>5 DEF Zero
  <2>2. 8 * i + 7 \in borrow
    BY <1>3, <2>1
  <2> QED  BY <1>4, <2>1, <2>2
<1>6. ASSUME NEW i \in S
      PROVE  Low(m, i) /\ \E j \in S : j <= i /\ Zero(m, j)
  <2>1. i \in 0 .. N - 1 /\ 8 * i + 7 \notin m /\ 8 * i + 7 \in borrow
    BY <1>4
  <2>2. PICK g \in lsb \ m : g < 8 * i + 7 /\ \A b \in g + 1 .. 8 * i + 6 : b \notin m \ lsb
    <3>1. PICK g \in lsb \ m : g < 8 * i + 7 /\ \A b \in g + 1 .. (8 * i + 7) - 1 : b \notin m \ lsb
      BY <2>1
    <3>2. (8 * i + 7) - 1 = 8 * i + 6
      BY <1>3, <2>1
    <3> QED  BY <3>1, <3>2
  <2>3. PICK j \in 0 .. N - 1 : g = 8 * j
    BY <2>2, EndBits
  <2>4. j <= i
    BY <1>3, <2>1, <2>2, <2>3
  <2>5. \A b \in 8 * i + 1 .. 8 * i + 6 : b \notin m
    BY <1>3, <2>1, <2>2, <2>3, <2>4
  <2>6. \A b \in 8 * j + 1 .. 8 * j + 6 : b \notin m
    BY <1>3, <2>1, <2>2, <2>3, <2>4
  <2>7. 8 * j + 7 \notin m
    <3>1. CASE j = i
      BY <2>1, <3>1
    <3>2. CASE j < i
      <4>1. 8 * j + 7 \in g + 1 .. 8 * i + 6
        BY <1>3, <2>1, <2>3, <3>2
      <4> QED  BY <1>3, <2>2, <4>1
    <3> QED  BY <1>3, <2>1, <2>4, <3>1, <3>2
  <2>8. Zero(m, j)
    BY <1>3, <2>2, <2>3, <2>6, <2>7 DEF Zero
  <2>9. Low(m, i)
    BY <1>3, <2>1, <2>5 DEF Low
  <2> QED  BY <1>5, <2>4, <2>8, <2>9
<1> HIDE DEF S
<1>7. S \in SUBSET (0 .. N - 1)
  BY DEF S
<1> QED
  BY <1>2, <1>5, <1>6, <1>7

(* The masks have a slot for every byte.                                   *)
LEMMA MaskSlots ==
  ASSUME NEW N, NEW B, Fits(N, B), NEW fast
  PROVE  Swar(N, B, fast)!M!max_count = N
<1>1. N \in Nat
  BY DEF Fits
<1>2. (8 * N) \div 8 = N
  BY <1>1
<1> QED
  BY <1>2 DEF Swar!M!max_count

(* The mask of one slot has its highest bit.                               *)
LEMMA SingleMark ==
  ASSUME NEW N, NEW B, Fits(N, B), NEW fast, NEW i \in 0 .. N - 1
  PROVE  Swar(N, B, fast)!M!single(i) = {8 * i + 7}
<1>1. N \in Nat /\ B \in Nat /\ i \in Int /\ 0 <= i /\ i <= N - 1 /\ 8 * N <= B
  BY DEF Fits
<1>2. Swar(N, B, fast)!M!SingleIf(i, TRUE)
        = {b + (8 - 1) : b \in {b + i * 8 : b \in {0}} \cap (0 .. B - 1)} \cap (0 .. B - 1)
  BY DEF Swar!M!SingleIf, Swar!M!Align, Swar!M!Shl, Swar!M!Bits
<1>3. {b + i * 8 : b \in {0}} \cap (0 .. B - 1) = {8 * i}
  BY <1>1
<1>4. {b + (8 - 1) : b \in {8 * i}} \cap (0 .. B - 1) = {8 * i + 7}
  BY <1>1
<1> QED
  BY <1>2, <1>3, <1>4 DEF Swar!M!single

(* What is seen through a mask of the slots S is S.                        *)
LEMMA MarkedSlots ==
  ASSUME NEW N, NEW B, Fits(N, B), NEW fast, NEW S \in SUBSET (0 .. N - 1)
  PROVE  Swar(N, B, fast)!M!Contract!slots(Marked(S)) = S
<1>1. Swar(N, B, fast)!M!Contract!slots(Marked(S))
        = {i \in 0 .. N - 1 : Marked(S) \cap Swar(N, B, fast)!M!single(i) # {}}
  BY MaskSlots DEF Swar!M!Contract!slots, Swar!M!Contract!Ref!full, Swar!M!at
<1>2. ASSUME NEW i \in 0 .. N - 1
      PROVE  Marked(S) \cap Swar(N, B, fast)!M!single(i) # {} <=> i \in S
  <2>1. Swar(N, B, fast)!M!single(i) = {8 * i + 7}
    BY SingleMark
  <2>2. 8 * i + 7 \in Marked(S) <=> i \in S
    <3>1. N \in Nat /\ i \in Int /\ \A j \in S : j \in Int
      BY DEF Fits
    <3> QED  BY <3>1 DEF Marked
  <2> QED  BY <2>1, <2>2
<1> QED
  BY <1>1, <1>2

(* A nonempty set of naturals has one least element.                       *)
LEMMA LeastIs ==
  ASSUME NEW S \in SUBSET Nat, S # {}
  PROVE  \E low \in S : /\ \A j \in S : low <= j
                        /\ (CHOOSE x \in S : \A y \in S : x =< y) = low
<1>1. PICK low \in S : \A j \in S : low <= j
  BY LeastNat
<1> DEFINE c == CHOOSE x \in S : \A y \in S : x =< y
<1>2. c \in S /\ \A y \in S : c =< y
  BY <1>1
<1>3. c = low
  <2> HIDE DEF c
  <2>1. c \in Nat /\ low \in Nat
    BY <1>1, <1>2
  <2> QED  BY <1>1, <1>2, <2>1
<1> QED
  BY <1>1, <1>3

(* As many marks as slots.                                                 *)
LEMMA MarkedCount ==
  ASSUME NEW N \in Nat, NEW S \in SUBSET (0 .. N - 1)
  PROVE  /\ IsFiniteSet(S) /\ Cardinality(S) \in Nat
         /\ Cardinality(Marked(S)) = Cardinality(S)
<1>1. IsFiniteSet(S)
  <2>1. IsFiniteSet(0 .. N - 1)
    BY FS_Interval
  <2> QED  BY <2>1, FS_Subset
<1> DEFINE f == [i \in S |-> 8 * i + 7]
<1>2. f \in Bijection(S, Marked(S))
  <2>1. \A i, j \in S : f[i] = f[j] => i = j
    OBVIOUS
  <2>2. f \in [S -> Marked(S)] /\ \A p \in Marked(S) : \E i \in S : f[i] = p
    BY DEF Marked
  <2> HIDE DEF f
  <2> QED  BY <2>1, <2>2 DEF Bijection, Injection, Surjection, IsInjective
<1>3. Cardinality(S) = Cardinality(Marked(S))
  BY <1>1, <1>2, FS_Bijection DEF ExistsBijection
<1> QED
  BY <1>1, <1>3, FS_CardinalityType

(* A step drops the lowest mark.                                           *)
LEMMA MarkedStep ==
  ASSUME NEW N, NEW B, Fits(N, B), NEW fast, NEW S \in SUBSET (0 .. N - 1),
         NEW low \in S, \A j \in S : low <= j
  PROVE  Swar(N, B, fast)!M!step(Marked(S)) = Marked(S \ {low})
<1> DEFINE m == Marked(S)
           bits == 0 .. B - 1
           borrow == {p \in bits : \E g \in {0} \ m :
                                    g < p /\ \A b \in g + 1 .. p - 1 : b \notin m \ {0}}
           diff == (((m \ {0}) \cup ({0} \ m)) \ borrow)
                    \cup (borrow \ ((m \ {0}) \cup ({0} \ m)))
<1>1. Swar(N, B, fast)!M!step(m) = m \cap diff
  BY DEF Swar!M!step, Swar!M!Sub, Swar!M!Xor, Swar!M!Bits
<1>2. N \in Nat /\ B \in Nat /\ 8 * N <= B /\ \A i \in S : i \in Int /\ 0 <= i /\ i <= N - 1
  BY DEF Fits
<1>3. 0 \notin m /\ \A p : p \in m <=> \E i \in S : p = 8 * i + 7
  BY <1>2 DEF Marked
<1>4. ASSUME NEW i \in S
      PROVE  8 * i + 7 \in diff <=> i # low
  <2>1. 8 * i + 7 \in m /\ 8 * i + 7 # 0 /\ 8 * i + 7 \in bits
    BY <1>2, <1>3
  <2>2. 8 * i + 7 \in diff <=> 8 * i + 7 \notin borrow
    BY <2>1
  <2>3. CASE i = low
    <3>1. \A b \in 0 + 1 .. (8 * i + 7) - 1 : b \notin m
      BY <1>2, <1>3, <2>3
    <3> HIDE DEF m
    <3>2. 8 * i + 7 \in borrow
      BY <1>2, <1>3, <2>1, <3>1
    <3> QED  BY <2>2, <2>3, <3>2
  <2>4. CASE i # low
    <3>1. 8 * low + 7 \in m /\ 8 * low + 7 \in 0 + 1 .. (8 * i + 7) - 1
      BY <1>2, <1>3, <2>4
    <3> HIDE DEF m
    <3>2. 8 * i + 7 \notin borrow
      BY <1>2, <1>3, <3>1
    <3> QED  BY <2>2, <2>4, <3>2
  <2> QED  BY <2>3, <2>4
<1> HIDE DEF diff, m
<1>5. \A p : p \in Marked(S \ {low}) <=> \E i \in S : i # low /\ p = 8 * i + 7
  BY DEF Marked
<1>6. m \cap diff = Marked(S \ {low})
  BY <1>3, <1>4, <1>5
<1> QED
  BY <1>1, <1>6 DEF m

(* Both the kernel and its masks count as FiniteSets does.                 *)
LEMMA SameCount ==
  ASSUME NEW N, NEW B, NEW fast, NEW S
  PROVE  /\ Swar(N, B, fast)!M!Cardinality(S) = Cardinality(S)
         /\ Swar(N, B, fast)!M!Contract!Cardinality(S) = Cardinality(S)
  BY DEF Swar!M!Cardinality, Swar!M!Contract!Cardinality, Cardinality

(* A mask of slots is walked as the mask of the array kernel is.           *)
LEMMA MarkedWalks ==
  ASSUME NEW N, NEW B, Fits(N, B), NEW fast, NEW S \in SUBSET (0 .. N - 1)
  PROVE  Swar(N, B, fast)!M!Contract!Walks(Marked(S))
<1> DEFINE m == Marked(S)
<1>1. N \in Nat /\ S \in SUBSET Nat /\ \A i \in S : i \in Nat /\ 8 * i + 7 \in Nat
  BY DEF Fits
<1>2. Swar(N, B, fast)!M!Contract!slots(m) = S
  BY MarkedSlots
<1>3. m # {} <=> S # {}
  BY DEF Marked
<1>4. Cardinality(m) = Cardinality(S) /\ IsFiniteSet(S) /\ Cardinality(S) \in Nat
  BY <1>1, MarkedCount
<1>5. ASSUME S # {}
      PROVE  /\ Swar(N, B, fast)!M!next(m) = Swar(N, B, fast)!M!Contract!Ref!next(S)
             /\ Swar(N, B, fast)!M!Contract!slots(Swar(N, B, fast)!M!step(m))
                  = Swar(N, B, fast)!M!Contract!Ref!step(S)
             /\ Cardinality(Swar(N, B, fast)!M!step(m)) = Cardinality(m) - 1
             /\ Swar(N, B, fast)!M!Contract!slots(Swar(N, B, fast)!M!truncate(m))
                  = Swar(N, B, fast)!M!Contract!Ref!truncate(S)
  <2>1. PICK low \in S : /\ \A j \in S : low <= j
                         /\ (CHOOSE x \in S : \A y \in S : x =< y) = low
    BY <1>1, <1>5, LeastIs
  <2>2. Swar(N, B, fast)!M!Contract!Ref!next(S) = low
    BY <2>1 DEF Swar!M!Contract!Ref!next, Swar!M!Contract!Ref!Min
  <2>3. Swar(N, B, fast)!M!next(m) = low
    <3>1. m \in SUBSET Nat /\ m # {}
      BY <1>1, <1>5 DEF Marked
    <3>2. PICK p \in m : /\ \A q \in m : p <= q
                         /\ (CHOOSE x \in m : \A y \in m : x =< y) = p
      BY <3>1, LeastIs
    <3>3. p = 8 * low + 7
      <4>1. PICK i \in S : p = 8 * i + 7
        BY DEF Marked
      <4>2. 8 * low + 7 \in m
        BY DEF Marked
      <4> HIDE DEF m
      <4> QED  BY <1>1, <2>1, <3>2, <4>1, <4>2
    <3>4. p \div 8 = low
      BY <1>1, <3>3
    <3> QED  BY <3>2, <3>4 DEF Swar!M!next, Swar!M!Min
  <2>4. Swar(N, B, fast)!M!step(m) = Marked(S \ {low})
    BY <2>1, MarkedStep
  <2>5. Swar(N, B, fast)!M!Contract!slots(Marked(S \ {low})) = S \ {low}
    <3>1. S \ {low} \in SUBSET (0 .. N - 1)
      OBVIOUS
    <3> QED  BY <3>1, MarkedSlots
  <2>6. Cardinality(Marked(S \ {low})) = Cardinality(m) - 1
    <3>1. S \ {low} \in SUBSET (0 .. N - 1)
      OBVIOUS
    <3>2. Cardinality(S \ {low}) = Cardinality(S) - 1
      BY <1>4, FS_RemoveElement
    <3> QED  BY <1>1, <1>4, <3>1, <3>2, MarkedCount
  <2>7. Swar(N, B, fast)!M!truncate(m) = Marked({low})
    <3>1. Swar(N, B, fast)!M!truncate(m)
            = (m \ Marked(S \ {low})) \cup (Marked(S \ {low}) \ m)
      BY <2>4 DEF Swar!M!truncate, Swar!M!Xor
    <3>2. (Marked(S) \ Marked(S \ {low})) \cup (Marked(S \ {low}) \ Marked(S)) = Marked({low})
      <4>1. \A T \in SUBSET S : \A p : p \in Marked(T) <=> \E i \in T : p = 8 * i + 7
        BY DEF Marked
      <4>2. \A i \in S : \A p : p = 8 * i + 7 => (p \in Marked(S \ {low}) <=> i # low)
        BY <1>1, <4>1
      <4> QED  BY <4>1, <4>2
    <3> QED  BY <3>1, <3>2
  <2>8. Swar(N, B, fast)!M!Contract!slots(Marked({low})) = {low}
    <3>1. {low} \in SUBSET (0 .. N - 1)
      OBVIOUS
    <3> QED  BY <3>1, MarkedSlots
  <2>9. /\ Swar(N, B, fast)!M!Contract!Ref!step(S) = S \ {low}
        /\ Swar(N, B, fast)!M!Contract!Ref!truncate(S) = {low}
    BY <1>5, <2>2 DEF Swar!M!Contract!Ref!step, Swar!M!Contract!Ref!truncate
  <2> HIDE DEF m
  <2> QED  BY <2>2, <2>3, <2>4, <2>5, <2>6, <2>7, <2>8, <2>9
<1> HIDE DEF m
<1>6. Swar(N, B, fast)!M!Contract!Walks(m)
  BY <1>2, <1>3, <1>4, <1>5, SameCount
  DEF Swar!M!Contract!Walks, Swar!M!has_next, Swar!M!count
<1> QED
  BY <1>6 DEF m

(* S is the set of the bits of the byte x.                                 *)
BitsAre(S, x) ==
  /\ S \in SUBSET (0 .. 7)
  /\ 0 \in S <=> x % 2 = 1
  /\ 1 \in S <=> (x \div 2) % 2 = 1
  /\ 2 \in S <=> (x \div 4) % 2 = 1
  /\ 3 \in S <=> (x \div 8) % 2 = 1
  /\ 4 \in S <=> (x \div 16) % 2 = 1
  /\ 5 \in S <=> (x \div 32) % 2 = 1
  /\ 6 \in S <=> (x \div 64) % 2 = 1
  /\ 7 \in S <=> (x \div 128) % 2 = 1

(* ByteBits is.                                                            *)
LEMMA BitsOfByte ==
  ASSUME NEW N, NEW B, NEW fast, NEW x \in 0 .. 255
  PROVE  BitsAre(Swar(N, B, fast)!ByteBits(x), x)
<1>1. /\ 2^0 = 1 /\ 2^1 = 2 /\ 2^2 = 4 /\ 2^3 = 8
      /\ 2^4 = 16 /\ 2^5 = 32 /\ 2^6 = 64 /\ 2^7 = 128
  OBVIOUS
<1>2. x \div 1 = x
  OBVIOUS
<1>3. \A b \in 0 .. 7 : b \in Swar(N, B, fast)!ByteBits(x) <=> (x \div 2^b) % 2 = 1
  BY DEF Swar!ByteBits
<1>4. Swar(N, B, fast)!ByteBits(x) \in SUBSET (0 .. 7)
  BY DEF Swar!ByteBits
<1> DEFINE S == Swar(N, B, fast)!ByteBits(x)
<1> HIDE DEF S
<1>5. /\ 0 \in S <=> x % 2 = 1
      /\ 1 \in S <=> (x \div 2) % 2 = 1
      /\ 2 \in S <=> (x \div 4) % 2 = 1
      /\ 3 \in S <=> (x \div 8) % 2 = 1
  BY <1>1, <1>2, <1>3 DEF S
<1>6. /\ 4 \in S <=> (x \div 16) % 2 = 1
      /\ 5 \in S <=> (x \div 32) % 2 = 1
      /\ 6 \in S <=> (x \div 64) % 2 = 1
      /\ 7 \in S <=> (x \div 128) % 2 = 1
  BY <1>1, <1>3 DEF S
<1> QED
  BY <1>4, <1>5, <1>6 DEF S, BitsAre

(* A byte is the sum of its bits.                                          *)
LEMMA SumOfByte ==
  ASSUME NEW x \in 0 .. 255
  PROVE  x = (x % 2) + 2 * ((x \div 2) % 2) + 4 * ((x \div 4) % 2) + 8 * ((x \div 8) % 2)
               + 16 * ((x \div 16) % 2) + 32 * ((x \div 32) % 2)
               + 64 * ((x \div 64) % 2) + 128 * ((x \div 128) % 2)
<1> DEFINE a == x \div 2
           b == x \div 4
           c == x \div 8
           d == x \div 16
           e == x \div 32
           f == x \div 64
           g == x \div 128
<1>1. x = 2 * a + (x % 2) /\ a = 2 * b + (a % 2)
  OBVIOUS
<1>2. b = 2 * c + (b % 2) /\ c = 2 * d + (c % 2)
  OBVIOUS
<1>3. d = 2 * e + (d % 2) /\ e = 2 * f + (e % 2)
  OBVIOUS
<1>4. f = 2 * g + (f % 2) /\ g = g % 2
  OBVIOUS
<1>5. /\ a \in Int /\ b \in Int /\ c \in Int /\ d \in Int
      /\ e \in Int /\ f \in Int /\ g \in Int
  OBVIOUS
<1> HIDE DEF a, b, c, d, e, f, g
<1>6. x = (x % 2) + 2 * (a % 2) + 4 * (b % 2) + 8 * (c % 2)
            + 16 * (d % 2) + 32 * (e % 2) + 64 * (f % 2) + 128 * (g % 2)
  BY <1>1, <1>2, <1>3, <1>4, <1>5
<1> QED
  BY <1>6 DEF a, b, c, d, e, f, g

(* A byte is determined by its bits, and the bits but the lowest say       *)
(* whether it is a hash.                                                   *)
LEMMA SameBits ==
  ASSUME NEW N, NEW B, NEW fast, NEW x \in 0 .. 255, NEW y \in 0 .. 255,
         \A b \in 1 .. 7 : b \in Swar(N, B, fast)!ByteBits(x)
                             <=> b \in Swar(N, B, fast)!ByteBits(y)
  PROVE  /\ x < 128 <=> y < 128
         /\ (0 \in Swar(N, B, fast)!ByteBits(x) <=> 0 \in Swar(N, B, fast)!ByteBits(y))
              => x = y
<1> DEFINE bit(v, b) == b \in Swar(N, B, fast)!ByteBits(v)
           half(v, c) == (v \div c) % 2
<1>0. ASSUME NEW v \in 0 .. 255
      PROVE  /\ v % 2 \in {0, 1} /\ half(v, 2) \in {0, 1} /\ half(v, 4) \in {0, 1}
             /\ half(v, 8) \in {0, 1} /\ half(v, 16) \in {0, 1} /\ half(v, 32) \in {0, 1}
             /\ half(v, 64) \in {0, 1} /\ half(v, 128) \in {0, 1}
  OBVIOUS
<1>1. ASSUME NEW v \in 0 .. 255
      PROVE  /\ v = (v % 2) + 2 * half(v, 2) + 4 * half(v, 4) + 8 * half(v, 8)
                      + 16 * half(v, 16) + 32 * half(v, 32) + 64 * half(v, 64)
                      + 128 * half(v, 128)
             /\ v < 128 <=> half(v, 128) = 0
  <2>1. v < 128 <=> half(v, 128) = 0
    OBVIOUS
  <2> QED  BY <2>1, SumOfByte
<1>2. ASSUME NEW v \in 0 .. 255
      PROVE  /\ bit(v, 0) <=> v % 2 = 1
             /\ bit(v, 1) <=> half(v, 2) = 1
             /\ bit(v, 2) <=> half(v, 4) = 1
             /\ bit(v, 3) <=> half(v, 8) = 1
             /\ bit(v, 4) <=> half(v, 16) = 1
             /\ bit(v, 5) <=> half(v, 32) = 1
             /\ bit(v, 6) <=> half(v, 64) = 1
             /\ bit(v, 7) <=> half(v, 128) = 1
  <2> DEFINE S == Swar(N, B, fast)!ByteBits(v)
  <2>1. BitsAre(S, v)
    BY BitsOfByte
  <2> HIDE DEF S
  <2>2. /\ 0 \in S <=> v % 2 = 1
        /\ 1 \in S <=> half(v, 2) = 1
        /\ 2 \in S <=> half(v, 4) = 1
        /\ 3 \in S <=> half(v, 8) = 1
        /\ 4 \in S <=> half(v, 16) = 1
        /\ 5 \in S <=> half(v, 32) = 1
        /\ 6 \in S <=> half(v, 64) = 1
        /\ 7 \in S <=> half(v, 128) = 1
    BY <2>1 DEF BitsAre
  <2> QED  BY <2>2 DEF S
<1>3. \A b \in 1 .. 7 : bit(x, b) <=> bit(y, b)
  OBVIOUS
<1> HIDE DEF half, bit
<1>4. /\ half(x, 128) = half(y, 128) /\ half(x, 64) = half(y, 64)
      /\ half(x, 32) = half(y, 32) /\ half(x, 16) = half(y, 16)
      /\ half(x, 8) = half(y, 8) /\ half(x, 4) = half(y, 4) /\ half(x, 2) = half(y, 2)
  <2>1. \A b \in {1, 2, 3, 4, 5, 6, 7} : bit(x, b) <=> bit(y, b)
    BY <1>3
  <2>2. /\ half(x, 128) = 1 <=> half(y, 128) = 1
        /\ half(x, 64) = 1 <=> half(y, 64) = 1
        /\ half(x, 32) = 1 <=> half(y, 32) = 1
        /\ half(x, 16) = 1 <=> half(y, 16) = 1
        /\ half(x, 8) = 1 <=> half(y, 8) = 1
        /\ half(x, 4) = 1 <=> half(y, 4) = 1
        /\ half(x, 2) = 1 <=> half(y, 2) = 1
    <3>1. half(x, 128) = 1 <=> half(y, 128) = 1
      <4>1. bit(x, 7) <=> bit(y, 7)
        BY <2>1
      <4>2. bit(x, 7) <=> half(x, 128) = 1
        BY <1>2
      <4>3. bit(y, 7) <=> half(y, 128) = 1
        BY <1>2
      <4> QED  BY <4>1, <4>2, <4>3
    <3>2. half(x, 64) = 1 <=> half(y, 64) = 1
      BY <1>2, <2>1
    <3>3. half(x, 32) = 1 <=> half(y, 32) = 1
      BY <1>2, <2>1
    <3>4. half(x, 16) = 1 <=> half(y, 16) = 1
      BY <1>2, <2>1
    <3>5. half(x, 8) = 1 <=> half(y, 8) = 1
      BY <1>2, <2>1
    <3>6. half(x, 4) = 1 <=> half(y, 4) = 1
      BY <1>2, <2>1
    <3>7. half(x, 2) = 1 <=> half(y, 2) = 1
      BY <1>2, <2>1
    <3> QED  BY <3>1, <3>2, <3>3, <3>4, <3>5, <3>6, <3>7
  <2>3. \A p, q \in {0, 1} : (p = 1 <=> q = 1) => p = q
    OBVIOUS
  <2>4. \A c \in {2, 4, 8, 16, 32, 64, 128} : half(x, c) \in {0, 1} /\ half(y, c) \in {0, 1}
    BY <1>0
  <2> QED  BY <2>2, <2>3, <2>4
<1>5. x < 128 <=> y < 128
  BY <1>1, <1>4
<1>6. (bit(x, 0) <=> bit(y, 0)) => x = y
  <2>1. (bit(x, 0) <=> bit(y, 0)) => x % 2 = y % 2
    BY <1>0, <1>2
  <2>2. /\ x = (x % 2) + 2 * half(x, 2) + 4 * half(x, 4) + 8 * half(x, 8)
                  + 16 * half(x, 16) + 32 * half(x, 32) + 64 * half(x, 64)
                  + 128 * half(x, 128)
        /\ y = (y % 2) + 2 * half(y, 2) + 4 * half(y, 4) + 8 * half(y, 8)
                  + 16 * half(y, 16) + 32 * half(y, 32) + 64 * half(y, 64)
                  + 128 * half(y, 128)
    BY <1>1
  <2> QED  BY <1>4, <2>1, <2>2
<1> QED
  BY <1>5, <1>6 DEF bit

(* The element that a fold takes from a set.                               *)
Any(T) == CHOOSE x \in T : TRUE

(* f and g are equal on a set of S if they are without that element.       *)
EqualIfBefore(f, g, S) ==
  \A T \in SUBSET S : \A c \in T : c = Any(T) /\ f[T \ {c}] = g[T \ {c}] => f[T] = g[T]

Same(f, g, S) == \A T \in SUBSET S : f[T] = g[T]

(* Two functions on the subsets of a finite set are equal if they are      *)
(* equal on a set whenever they are on the set without the element that    *)
(* CHOOSE takes from it: what a fold needs.                                *)
LEMMA FoldsEqual ==
  ASSUME NEW S, IsFiniteSet(S), NEW f, NEW g, f[{}] = g[{}], EqualIfBefore(f, g, S)
  PROVE  Same(f, g, S)
<1>1. \A T \in SUBSET S : IsFiniteSet(T) /\ Cardinality(T) \in Nat
  BY FS_Subset, FS_CardinalityType
<1> DEFINE Bad == {q \in Nat : \E T \in SUBSET S : Cardinality(T) = q /\ f[T] # g[T]}
<1>2. Bad = {}
  <2> SUFFICES ASSUME Bad # {} PROVE FALSE
    OBVIOUS
  <2>1. Bad \in SUBSET Nat
    OBVIOUS
  <2> HIDE DEF Bad
  <2>2. PICK q \in Bad : \A x \in Bad : q <= x
    BY <2>1, LeastNat
  <2>3. PICK T \in SUBSET S : Cardinality(T) = q /\ f[T] # g[T]
    BY <2>2 DEF Bad
  <2>4. T # {}
    BY <2>3
  <2>5. PICK c \in T : c = Any(T)
    BY <2>4 DEF Any
  <2>6. Cardinality(T \ {c}) = q - 1 /\ q - 1 \in Nat /\ ~ (q <= q - 1)
    <3>1. Cardinality(T \ {c}) = Cardinality(T) - 1 /\ Cardinality(T) \in Nat
      BY <1>1, FS_RemoveElement
    <3>2. Cardinality(T \ {c}) \in Nat
      BY <1>1
    <3> QED  BY <2>3, <3>1, <3>2
  <2>7. q - 1 \notin Bad
    BY <2>2, <2>6
  <2>8. f[T \ {c}] = g[T \ {c}]
    <3>1. T \ {c} \in SUBSET S
      OBVIOUS
    <3> QED  BY <2>6, <2>7, <3>1 DEF Bad
  <2> QED  BY <2>3, <2>5, <2>8 DEF EqualIfBefore
<1> QED
  BY <1>1, <1>2 DEF Same

(* The bytes at the slots S with the bits T, and their lowest bits.        *)
Repeated(S, T) == {8 * i + b : i \in S, b \in T}
Starts(S)      == {8 * i : i \in S}

(* The lowest bits of all bytes.                                           *)
LEMMA AllStarts ==
  ASSUME NEW N, NEW B, NEW fast
  PROVE  Swar(N, B, fast)!lsbs = Starts(0 .. N - 1)
  BY DEF Swar!lsbs, Starts

(* The product of lowest bits with a byte has the byte in their slots.     *)
LEMMA Broadcast ==
  ASSUME NEW N, NEW B, Fits(N, B), NEW fast,
         NEW R \in SUBSET (0 .. N - 1), NEW S \in SUBSET (0 .. 7)
  PROVE  Swar(N, B, fast)!Mul(Starts(R), S) = Repeated(R, S)
<1>1. IsFiniteSet(S)
  <2>1. 0 \in Int /\ 7 \in Int
    OBVIOUS
  <2>2. IsFiniteSet(0 .. 7)
    BY <2>1, FS_Interval
  <2> QED  BY <2>2, FS_Subset
<1>2. /\ N \in Nat /\ B \in Nat /\ 8 * N <= B
      /\ \A i \in R : i \in Nat /\ i <= N - 1
  BY DEF Fits
<1> DEFINE op(b, sum) == Swar(N, B, fast)!Add(sum, Swar(N, B, fast)!Shl(Starts(R), b))
           Rec(f) == f = [T \in SUBSET S |->
                            IF T = {} THEN {}
                            ELSE op(Any(T), f[T \ {Any(T)}])]
           g == [T \in SUBSET S |-> Repeated(R, T)]
           f == CHOOSE f : Rec(f)
<1>3. Swar(N, B, fast)!Mul(Starts(R), S) = f[S]
  BY DEF Swar!Mul, Swar!FoldSet, Swar!MapThenFoldSet, Any
<1>4. ASSUME NEW T \in SUBSET (0 .. 7), NEW x \in 0 .. 7, x \notin T
      PROVE  op(x, Repeated(R, T)) = Repeated(R, T \cup {x})
  <2> DEFINE u == Repeated(R, T)
             w == {8 * i + x : i \in R}
  <2>1. Swar(N, B, fast)!Shl(Starts(R), x) = w
    <3>1. Swar(N, B, fast)!Shl(Starts(R), x) = {b + x : b \in Starts(R)} \cap (0 .. B - 1)
      BY DEF Swar!Shl, Swar!Bits
    <3>2. \A p : p \in {b + x : b \in Starts(R)} <=> p \in w
      <4> DEFINE low == Starts(R)
      <4>1. \A b : b \in low <=> \E i \in R : b = 8 * i
        BY DEF Starts
      <4> HIDE DEF low
      <4>2. \A p : p \in {b + x : b \in low} <=> p \in w
        BY <4>1
      <4> QED  BY <4>2 DEF low
    <3>3. \A p \in w : p \in 0 .. B - 1
      BY <1>2
    <3> QED  BY <3>1, <3>2, <3>3
  <2>2. u \cap w = {}
    <3> SUFFICES ASSUME NEW p \in u, p \in w PROVE FALSE
      OBVIOUS
    <3>1. PICK i \in R, b \in T : p = 8 * i + b
      BY DEF Repeated
    <3>2. PICK j \in R : p = 8 * j + x
      OBVIOUS
    <3>3. i \in Int /\ j \in Int /\ b \in 0 .. 7 /\ b # x
      BY <1>2, <1>4
    <3> HIDE DEF u, w
    <3> QED  BY <3>1, <3>2, <3>3
  <2>3. Repeated(R, T \cup {x}) = u \cup w
    <3>1. \A p : p \in Repeated(R, T \cup {x})
                  <=> \E i \in R : \E b \in T \cup {x} : p = 8 * i + b
      BY DEF Repeated
    <3>2. \A p : p \in u <=> \E i \in R : \E b \in T : p = 8 * i + b
      BY DEF Repeated
    <3>3. \A p : p \in w <=> \E i \in R : p = 8 * i + x
      BY Zenon
    <3> HIDE DEF u, w
    <3> QED  BY <3>1, <3>2, <3>3
  <2> HIDE DEF u, w
  <2>4. Swar(N, B, fast)!Add(u, w) = u \cup w
    <3>1. {i \in Swar(N, B, fast)!Bits : \E h \in u \cap w :
              h < i /\ \A b \in h + 1 .. i - 1 : b \in u \cup w} = {}
      BY <2>2
    <3> QED  BY <2>2, <3>1 DEF Swar!Add, Swar!Xor
  <2> QED
    BY <2>1, <2>3, <2>4 DEF u
<1> HIDE DEF op
<1>5. ASSUME NEW T \in SUBSET S, NEW c \in T
      PROVE  op(c, Repeated(R, T \ {c})) = Repeated(R, T)
  <2> DEFINE V == T \ {c}
  <2>1. V \in SUBSET (0 .. 7) /\ c \in 0 .. 7 /\ c \notin V /\ V \cup {c} = T
    OBVIOUS
  <2> HIDE DEF V
  <2>2. op(c, Repeated(R, V)) = Repeated(R, V \cup {c})
    BY <1>4, <2>1
  <2> QED  BY <2>1, <2>2 DEF V
<1>6. Repeated(R, {}) = {}
  BY DEF Repeated
<1>7. Rec(g)
  <2> DEFINE e == [T \in SUBSET S |->
                     IF T = {} THEN {}
                     ELSE op(Any(T), g[T \ {Any(T)}])]
  <2>1. ASSUME NEW T \in SUBSET S PROVE g[T] = e[T]
    <3>1. CASE T = {}
      BY <1>6, <3>1
    <3>2. CASE T # {}
      <4>1. PICK c \in T : c = Any(T)
        BY <3>2 DEF Any
      <4>2. T \ {c} \in SUBSET S
        OBVIOUS
      <4>3. g[T \ {c}] = Repeated(R, T \ {c})
        BY <4>2
      <4>4. e[T] = op(c, g[T \ {c}])
        <5> HIDE DEF g
        <5> QED  BY <3>2, <4>1
      <4> QED  BY <1>5, <4>3, <4>4
    <3> QED  BY <3>1, <3>2
  <2>2. g = [T \in SUBSET S |-> g[T]] /\ e = [T \in SUBSET S |-> e[T]]
    OBVIOUS
  <2> HIDE DEF g, e
  <2>3. g = e
    BY <2>1, <2>2
  <2> QED  BY <2>3 DEF e
<1>8. Rec(f)
  <2>1. \E u : Rec(u)
    BY <1>7
  <2> HIDE DEF Rec
  <2> QED  BY <2>1
<1>9. Same(f, g, S)
  <2> HIDE DEF f
  <2>1. f[{}] = g[{}]
    BY <1>6, <1>8
  <2>2. \A T \in SUBSET S : \A c \in T : c = Any(T) =>
          f[T] = op(c, f[T \ {c}]) /\ g[T] = op(c, g[T \ {c}])
    <3>1. \A T \in SUBSET S : \A c \in T : c = Any(T) =>
            f[T] = op(c, f[T \ {c}])
      BY <1>8
    <3>2. \A T \in SUBSET S : \A c \in T : c = Any(T) =>
            g[T] = op(c, g[T \ {c}])
      <4> HIDE DEF g
      <4> QED  BY <1>7
    <3> QED  BY <3>1, <3>2
  <2> HIDE DEF g
  <2>3. EqualIfBefore(f, g, S)
    BY <2>2 DEF EqualIfBefore
  <2> HIDE DEF Rec
  <2> QED  BY <1>1, <2>1, <2>3, FoldsEqual
<1>10. f[S] = Repeated(R, S)
  <2>1. S \in SUBSET S /\ g[S] = Repeated(R, S)
    OBVIOUS
  <2> HIDE DEF f, g
  <2> QED  BY <1>9, <2>1 DEF Same
<1> QED
  BY <1>3, <1>10

(* The bits of the word that holds the bucket arr.                         *)
LEMMA LoadedBits ==
  ASSUME NEW N, NEW B, Fits(N, B), NEW fast,
         NEW arr \in [0 .. N - 1 -> 0 .. 255], NEW i \in 0 .. N - 1, NEW b \in 0 .. 7
  PROVE  8 * i + b \in Swar(N, B, fast)!load(arr)
           <=> b \in Swar(N, B, fast)!ByteBits(arr[i])
<1> DEFINE p == 8 * i + b
<1>1. N \in Nat /\ i \in Nat /\ b \in Nat /\ p \in 0 .. 8 * N - 1
  BY DEF Fits
<1>2. p % 8 = b /\ p \div 8 = i
  BY <1>1
<1>3. p \in Swar(N, B, fast)!load(arr) <=> p % 8 \in Swar(N, B, fast)!ByteBits(arr[p \div 8])
  <2> HIDE DEF p
  <2> QED  BY <1>1 DEF Swar!load, Swar!all_bits
<1> QED
  BY <1>2, <1>3

(* The bits of a byte that is repeated.                                    *)
LEMMA RepeatedBits ==
  ASSUME NEW N, NEW B, Fits(N, B), NEW S \in SUBSET (0 .. N - 1), NEW T \in SUBSET (0 .. 7),
         NEW i \in 0 .. N - 1, NEW b \in 0 .. 7
  PROVE  8 * i + b \in Repeated(S, T) <=> i \in S /\ b \in T
<1>1. N \in Nat /\ i \in Nat /\ b \in Nat /\ \A j \in S : j \in Nat
  BY DEF Fits
<1>2. ASSUME 8 * i + b \in Repeated(S, T) PROVE i \in S /\ b \in T
  <2>1. PICK j \in S, c \in T : 8 * i + b = 8 * j + c
    BY <1>2 DEF Repeated
  <2>2. c \in 0 .. 7 /\ j \in Nat
    BY <1>1
  <2>3. c = b /\ j = i
    BY <1>1, <2>1, <2>2
  <2> QED  BY <2>3
<1>3. ASSUME i \in S, b \in T PROVE 8 * i + b \in Repeated(S, T)
  BY <1>3 DEF Repeated
<1> QED
  BY <1>2, <1>3

(* Byte i of a word is zero, or one at most, by its bits.                  *)
LEMMA ByteByBits ==
  ASSUME NEW i \in Nat, NEW m
  PROVE  /\ Zero(m, i) <=> \A b \in 0 .. 7 : 8 * i + b \notin m
         /\ Low(m, i) <=> \A b \in 1 .. 7 : 8 * i + b \notin m
<1>1. \A c \in 8 * i .. 8 * i + 7 : c - 8 * i \in 0 .. 7 /\ c = 8 * i + (c - 8 * i)
  OBVIOUS
<1>2. \A c \in 8 * i + 1 .. 8 * i + 7 : c - 8 * i \in 1 .. 7 /\ c = 8 * i + (c - 8 * i)
  OBVIOUS
<1>3. \A b \in 0 .. 7 : 8 * i + b \in 8 * i .. 8 * i + 7
  OBVIOUS
<1>4. \A b \in 1 .. 7 : 8 * i + b \in 8 * i + 1 .. 8 * i + 7
  OBVIOUS
<1>5. Zero(m, i) <=> \A b \in 0 .. 7 : 8 * i + b \notin m
  BY <1>1, <1>3, Zenon DEF Zero
<1>6. Low(m, i) <=> \A b \in 1 .. 7 : 8 * i + b \notin m
  BY <1>2, <1>4, Zenon DEF Low
<1> QED
  BY <1>5, <1>6

(* The bucket arr compared with s in every slot.                           *)
Compared(N, B, fast, arr, s) ==
  Swar(N, B, fast)!Xor(
    Swar(N, B, fast)!load(arr),
    Swar(N, B, fast)!Mul(Swar(N, B, fast)!lsbs, Swar(N, B, fast)!ByteBits(s)))

(* A bit of the comparison is one where the bytes differ.                  *)
LEMMA ComparedBits ==
  ASSUME NEW N, NEW B, Fits(N, B), NEW fast,
         NEW arr \in [0 .. N - 1 -> 0 .. 255], NEW s \in 0 .. 255,
         NEW i \in 0 .. N - 1, NEW b \in 0 .. 7
  PROVE  8 * i + b \in Compared(N, B, fast, arr, s)
           <=> ~ (b \in Swar(N, B, fast)!ByteBits(arr[i])
                    <=> b \in Swar(N, B, fast)!ByteBits(s))
<1> DEFINE T == Swar(N, B, fast)!ByteBits(s)
           u == Swar(N, B, fast)!load(arr)
           all == 0 .. N - 1
           p == 8 * i + b
<1>1. T \in SUBSET (0 .. 7)
  BY BitsOfByte DEF BitsAre
<1>2. all \in SUBSET (0 .. N - 1) /\ i \in all
  OBVIOUS
<1>3. Swar(N, B, fast)!lsbs = Starts(all)
  BY AllStarts
<1>4. p \in u <=> b \in Swar(N, B, fast)!ByteBits(arr[i])
  BY LoadedBits
<1> HIDE DEF T, all
<1>5. Swar(N, B, fast)!Mul(Starts(all), T) = Repeated(all, T)
  BY <1>1, <1>2, Broadcast
<1>6. p \in Repeated(all, T) <=> b \in T
  BY <1>1, <1>2, RepeatedBits
<1>7. p \in Swar(N, B, fast)!Xor(u, Repeated(all, T)) <=> ~ (p \in u <=> p \in Repeated(all, T))
  <2> HIDE DEF p, u
  <2> QED  BY DEF Swar!Xor
<1> QED
  BY <1>3, <1>4, <1>5, <1>6, <1>7 DEF Compared, T

(* A byte of the comparison is zero where the bucket has s, and one at     *)
(* most only where it has a hash, if s is one.                             *)
LEMMA ComparedBytes ==
  ASSUME NEW N, NEW B, Fits(N, B), NEW fast,
         NEW arr \in [0 .. N - 1 -> 0 .. 255], NEW s \in 0 .. 255,
         NEW i \in 0 .. N - 1
  PROVE  /\ Zero(Compared(N, B, fast, arr, s), i) <=> arr[i] = s
         /\ Low(Compared(N, B, fast, arr, s), i) => (arr[i] < 128 <=> s < 128)
<1> DEFINE m == Compared(N, B, fast, arr, s)
           bits(x) == Swar(N, B, fast)!ByteBits(x)
           x == arr[i]
<1>1. i \in Nat /\ arr[i] \in 0 .. 255
  BY DEF Fits
<1>2. \A b \in 0 .. 7 : 8 * i + b \in m <=> ~ (b \in bits(arr[i]) <=> b \in bits(s))
  BY ComparedBits
<1>3. /\ (\A b \in 1 .. 7 : b \in bits(x) <=> b \in bits(s)) => (x < 128 <=> s < 128)
      /\ (\A b \in 0 .. 7 : b \in bits(x) <=> b \in bits(s)) => x = s
  <2>1. ASSUME NEW y \in 0 .. 255, \A b \in 1 .. 7 : b \in bits(y) <=> b \in bits(s)
        PROVE  /\ y < 128 <=> s < 128
               /\ (0 \in bits(y) <=> 0 \in bits(s)) => y = s
    BY <2>1, SameBits
  <2> HIDE DEF bits, x
  <2>2. x \in 0 .. 255
    BY <1>1 DEF x
  <2>3. ASSUME \A b \in 1 .. 7 : b \in bits(x) <=> b \in bits(s)
        PROVE  /\ x < 128 <=> s < 128
               /\ (0 \in bits(x) <=> 0 \in bits(s)) => x = s
    BY <2>1, <2>2, <2>3
  <2> QED  BY <2>3
<1> HIDE DEF bits, x, m
<1>4. \A b \in 0 .. 7 : 8 * i + b \in m <=> ~ (b \in bits(x) <=> b \in bits(s))
  BY <1>2 DEF x
<1>5. /\ Zero(m, i) <=> \A b \in 0 .. 7 : 8 * i + b \notin m
      /\ Low(m, i) <=> \A b \in 1 .. 7 : 8 * i + b \notin m
  BY <1>1, ByteByBits
<1>6. x = s => Zero(m, i)
  BY <1>4, <1>5
<1>7. Zero(m, i) => x = s
  BY <1>3, <1>4, <1>5
<1>8. Low(m, i) => (x < 128 <=> s < 128)
  BY <1>3, <1>4, <1>5
<1> QED
  BY <1>6, <1>7, <1>8 DEF x, m

(* The other slots are marked by the complement within the highest bits.   *)
LEMMA MarkedRest ==
  ASSUME NEW N, NEW B, Fits(N, B), NEW fast, NEW S \in SUBSET (0 .. N - 1)
  PROVE  Swar(N, B, fast)!Xor(Marked(S), Swar(N, B, fast)!msbs) = Marked((0 .. N - 1) \ S)
<1>1. \A i \in 0 .. N - 1 : i \in Int
  BY DEF Fits
<1>2. \A T \in SUBSET (0 .. N - 1) : \A p : p \in Marked(T) <=> \E i \in T : p = 8 * i + 7
  BY DEF Marked
<1>3. \A i \in 0 .. N - 1 : \A T \in SUBSET (0 .. N - 1) : 8 * i + 7 \in Marked(T) <=> i \in T
  BY <1>1, <1>2
<1>4. Swar(N, B, fast)!msbs = Marked(0 .. N - 1)
  BY DEF Swar!msbs, Marked
<1>5. (Marked(S) \ Marked(0 .. N - 1)) \cup (Marked(0 .. N - 1) \ Marked(S))
        = Marked((0 .. N - 1) \ S)
  <2> DEFINE all == 0 .. N - 1
             rest == all \ S
  <2>1. rest \in SUBSET all /\ all \in SUBSET all /\ S \in SUBSET all
        /\ \A i \in all : i \in rest <=> i \notin S
    OBVIOUS
  <2> HIDE DEF rest, all
  <2>2. \A T \in SUBSET all : \A p : p \in Marked(T) <=> \E i \in T : p = 8 * i + 7
    BY <1>2 DEF all
  <2>3. \A i \in all : \A T \in SUBSET all : 8 * i + 7 \in Marked(T) <=> i \in T
    BY <1>3 DEF all
  <2>4. (Marked(S) \ Marked(all)) \cup (Marked(all) \ Marked(S)) = Marked(rest)
    BY <2>1, <2>2, <2>3
  <2> QED  BY <2>4 DEF rest, all
<1> QED
  BY <1>4, <1>5 DEF Swar!Xor

(* What the search for s in the bucket arr marks, the slots S: those that    *)
(* hold s and, with a fast kernel, hashes behind them.                     *)
MarksFor(N, B, fast, arr, s, S) ==
  /\ Swar(N, B, fast)!mask(Swar(N, B, fast)!load(arr), s) = Marked(S)
  /\ {i \in 0 .. N - 1 : arr[i] = s} \subseteq S
  /\ ~ fast => S = {i \in 0 .. N - 1 : arr[i] = s}
  /\ fast => \A i \in S : /\ arr[i] < 128 <=> s < 128
                          /\ \E j \in S : j <= i /\ arr[j] = s

(* A search marks such slots.                                              *)
LEMMA SearchMarks ==
  ASSUME NEW N, NEW B, Fits(N, B), NEW fast,
         NEW arr \in [0 .. N - 1 -> 0 .. 255], NEW s \in 0 .. 255
  PROVE  \E S \in SUBSET (0 .. N - 1) : MarksFor(N, B, fast, arr, s, S)
<1> DEFINE m == Compared(N, B, fast, arr, s)
<1>1. Swar(N, B, fast)!mask(Swar(N, B, fast)!load(arr), s)
        = IF fast THEN Swar(N, B, fast)!MatchesFast(m) ELSE Swar(N, B, fast)!MatchesExactly(m)
  BY DEF Swar!mask, Compared
<1>2. \A i \in 0 .. N - 1 : /\ Zero(m, i) <=> arr[i] = s
                            /\ Low(m, i) => (arr[i] < 128 <=> s < 128)
  BY ComparedBytes
<1> HIDE DEF m
<1>3. CASE fast
  <2>1. PICK S \in SUBSET (0 .. N - 1) :
           /\ Swar(N, B, fast)!MatchesFast(m) = Marked(S)
           /\ \A i \in 0 .. N - 1 : Zero(m, i) => i \in S
           /\ \A i \in S : Low(m, i) /\ \E j \in S : j <= i /\ Zero(m, j)
    BY FastMarks
  <2>2. Swar(N, B, fast)!mask(Swar(N, B, fast)!load(arr), s) = Marked(S)
    BY <1>1, <1>3, <2>1
  <2>3. {i \in 0 .. N - 1 : arr[i] = s} \subseteq S
    BY <1>2, <2>1
  <2>4. \A i \in S : /\ arr[i] < 128 <=> s < 128
                     /\ \E j \in S : j <= i /\ arr[j] = s
    BY <1>2, <2>1
  <2> QED  BY <1>3, <2>2, <2>3, <2>4 DEF MarksFor
<1>4. CASE ~ fast
  <2> DEFINE S == {i \in 0 .. N - 1 : arr[i] = s}
  <2>1. S = {i \in 0 .. N - 1 : Zero(m, i)} /\ S \in SUBSET (0 .. N - 1)
    BY <1>2
  <2>2. Swar(N, B, fast)!mask(Swar(N, B, fast)!load(arr), s) = Marked(S)
    BY <1>1, <1>4, <2>1, ExactMarks
  <2> QED  BY <1>4, <2>1, <2>2 DEF MarksFor
<1> QED
  BY <1>3, <1>4

(* What the map relies on in a search.                                      *)
THEOREM SwarSearches ==
  ASSUME NEW N, NEW B, Fits(N, B), NEW fast,
         NEW arr \in [0 .. N - 1 -> 0 .. 255], NEW s \in 0 .. 255, fast => s < 128
  PROVE  Swar(N, B, fast)!Contract!Searches(arr, s)
<1> DEFINE m == Swar(N, B, fast)!mask(Swar(N, B, fast)!load(arr), s)
           all == 0 .. N - 1
<1>0. PICK S \in SUBSET (0 .. N - 1) : MarksFor(N, B, fast, arr, s, S)
  BY SearchMarks
<1>1. /\ m = Marked(S)
      /\ {i \in all : arr[i] = s} \subseteq S
      /\ ~ fast => S = {i \in all : arr[i] = s}
      /\ fast => \A i \in S : /\ arr[i] < 128 <=> s < 128
                              /\ \E j \in S : j <= i /\ arr[j] = s
  BY <1>0 DEF MarksFor
<1>2. Swar(N, B, fast)!slots(m) = S /\ Swar(N, B, fast)!walks(m)
  BY <1>1, MarkedSlots, MarkedWalks DEF Swar!slots, Swar!walks
<1>3. Swar(N, B, fast)!mask_not(Swar(N, B, fast)!load(arr), s) = Marked(all \ S)
  BY <1>1, MarkedRest DEF Swar!mask_not
<1>4. /\ Swar(N, B, fast)!slots(Marked(all \ S)) = all \ S
      /\ Swar(N, B, fast)!walks(Marked(all \ S))
  <2>1. all \ S \in SUBSET all
    OBVIOUS
  <2> QED  BY <2>1, MarkedSlots, MarkedWalks DEF Swar!slots, Swar!walks
<1>5. /\ Swar(N, B, fast)!Contract!Ref!Slots = all
      /\ Swar(N, B, fast)!Contract!Ref!mask(arr, s) = {i \in all : arr[i] = s}
  BY DEF Swar!Contract!Ref!Slots, Swar!Contract!Ref!mask
<1>6. ASSUME fast
      PROVE  /\ {i \in all : arr[i] = s} \subseteq S
             /\ S \subseteq Swar(N, B, fast)!Contract!Ref!mask_hash(arr)
             /\ S # {} => Swar(N, B, fast)!Contract!Min(S) \in {i \in all : arr[i] = s}
  <2>1. S \subseteq Swar(N, B, fast)!Contract!Ref!mask_hash(arr)
    <3>1. ASSUME NEW i \in S PROVE Swar(N, B, fast)!Contract!Ref!is_hash(arr[i])
      <4>1. arr[i] \in 0 .. 255 /\ arr[i] < 128
        BY <1>1, <1>6
      <4>2. \A x \in 0 .. 255 : x < 128 => Swar(N, B, fast)!Contract!Ref!is_hash(x)
        BY DEF Swar!Contract!Ref!is_hash, Swar!Contract!Ref!S8
      <4> QED  BY <4>1, <4>2
    <3> QED  BY <1>5, <3>1 DEF Swar!Contract!Ref!mask_hash
  <2>2. ASSUME S # {} PROVE Swar(N, B, fast)!Contract!Min(S) \in {i \in all : arr[i] = s}
    <3>1. S \in SUBSET Nat
      BY DEF Fits
    <3>2. PICK low \in S : /\ \A j \in S : low <= j
                           /\ (CHOOSE x \in S : \A y \in S : x =< y) = low
      BY <2>2, <3>1, LeastIs
    <3>3. arr[low] = s
      <4>1. PICK j \in S : j <= low /\ arr[j] = s
        BY <1>1, <1>6
      <4>2. j = low
        BY <3>1, <3>2, <4>1
      <4> QED  BY <4>1, <4>2
    <3> QED  BY <3>2, <3>3 DEF Swar!Contract!Min
  <2> QED  BY <1>1, <2>1, <2>2
<1>7. ~ fast => S = {i \in all : arr[i] = s}
  BY <1>1
<1> HIDE DEF m, all
<1> QED
  BY <1>2, <1>3, <1>4, <1>5, <1>6, <1>7
  DEF Swar!Contract!Searches, Swar!Contract!Marks, m

(* What is left of a word by the highest bits marks slots.                 *)
LEMMA HighestBits ==
  ASSUME NEW N, NEW B, Fits(N, B), NEW fast, NEW u,
         NEW S \in SUBSET (0 .. N - 1), \A i \in 0 .. N - 1 : 8 * i + 7 \in u <=> i \in S
  PROVE  u \cap Swar(N, B, fast)!msbs = Marked(S)
<1>1. \A p : p \in Swar(N, B, fast)!msbs <=> \E i \in 0 .. N - 1 : p = 8 * i + 7
  BY EndBits
<1>2. \A p : p \in Marked(S) <=> \E i \in S : p = 8 * i + 7
  BY DEF Marked
<1> QED
  BY <1>1, <1>2

(* The highest and the lowest bit of a byte.                               *)
LEMMA ByteEnds ==
  ASSUME NEW N, NEW B, NEW fast, NEW x \in 0 .. 255
  PROVE  /\ 7 \in Swar(N, B, fast)!ByteBits(x) <=> x >= 128
         /\ 0 \in Swar(N, B, fast)!ByteBits(x) <=> x % 2 = 1
<1>1. (x \div 128) % 2 = 1 <=> x >= 128
  OBVIOUS
<1>2. /\ 0 \in Swar(N, B, fast)!ByteBits(x) <=> x % 2 = 1
      /\ 7 \in Swar(N, B, fast)!ByteBits(x) <=> (x \div 128) % 2 = 1
  <2> DEFINE S == Swar(N, B, fast)!ByteBits(x)
  <2>1. BitsAre(S, x)
    BY BitsOfByte
  <2> HIDE DEF S
  <2>2. (0 \in S <=> x % 2 = 1) /\ (7 \in S <=> (x \div 128) % 2 = 1)
    BY <2>1 DEF BitsAre
  <2> QED  BY <2>2 DEF S
<1> QED
  BY <1>1, <1>2

(* The ends of the slot i of a word u, of its complement, and of both moved *)
(* up by seven bits, when the slot is the byte x.                          *)
SlotEnds(N, B, fast, u, i, x) ==
  /\ 8 * i + 7 \in u <=> x >= 128
  /\ 8 * i \in u <=> x % 2 = 1
  /\ 8 * i + 7 \in Swar(N, B, fast)!Not(u) <=> x < 128
  /\ 8 * i + 7 \in Swar(N, B, fast)!Shl(u, 7) <=> x % 2 = 1
  /\ 8 * i + 7 \in Swar(N, B, fast)!Shl(Swar(N, B, fast)!Not(u), 7) <=> x % 2 = 0

(* The ends of the slots of a bucket.                                      *)
LEMMA LoadedEnds ==
  ASSUME NEW N, NEW B, Fits(N, B), NEW fast,
         NEW arr \in [0 .. N - 1 -> 0 .. 255], NEW i \in 0 .. N - 1
  PROVE  SlotEnds(N, B, fast, Swar(N, B, fast)!load(arr), i, arr[i])
<1> DEFINE u == Swar(N, B, fast)!load(arr)
           v == Swar(N, B, fast)!Not(u)
           x == arr[i]
<1>1. x \in 0 .. 255 /\ i \in Nat /\ 0 \in 0 .. 7 /\ 7 \in 0 .. 7 /\ 8 * i + 0 = 8 * i
  BY DEF Fits
<1>2. /\ 8 * i + 7 \in u <=> 7 \in Swar(N, B, fast)!ByteBits(x)
      /\ 8 * i + 0 \in u <=> 0 \in Swar(N, B, fast)!ByteBits(x)
  BY <1>1, LoadedBits
<1>3. /\ 7 \in Swar(N, B, fast)!ByteBits(x) <=> x >= 128
      /\ 0 \in Swar(N, B, fast)!ByteBits(x) <=> x % 2 = 1
  <2> HIDE DEF x
  <2> QED  BY <1>1, ByteEnds
<1>4. 8 * i + 7 \in u <=> x >= 128
  BY <1>2, <1>3
<1>5. 8 * i \in u <=> x % 2 = 1
  BY <1>1, <1>2, <1>3
<1>6. 8 * i + 7 \in 0 .. B - 1 /\ 8 * i \in 0 .. B - 1
  BY <1>1 DEF Fits
<1>7. v = (0 .. B - 1) \ u
  BY DEF Swar!Not, Swar!Bits
<1>8. \A w : 8 * i + 7 \in Swar(N, B, fast)!Shl(w, 7) <=> \E b \in w : b + 7 = 8 * i + 7
  <2> TAKE w
  <2>1. Swar(N, B, fast)!Shl(w, 7) = {b + 7 : b \in w} \cap (0 .. B - 1)
    BY DEF Swar!Shl, Swar!Bits
  <2>2. 8 * i + 7 \in {b + 7 : b \in w} <=> \E b \in w : b + 7 = 8 * i + 7
    OBVIOUS
  <2> QED  BY <1>6, <2>1, <2>2
<1>9. \A b \in u : b \in Int
  BY DEF Swar!load, Swar!all_bits
<1> HIDE DEF u, x
<1>10. \A b \in v : b \in Int
  BY <1>7
<1>11. (x % 2 = 0) <=> ~ (x % 2 = 1)
  BY <1>1
<1> HIDE DEF v
<1>12. 8 * i + 7 \in v <=> x < 128
  BY <1>1, <1>4, <1>6, <1>7
<1>13. 8 * i \in v <=> x % 2 = 0
  BY <1>5, <1>6, <1>7, <1>11
<1>14. \A w : (\A b \in w : b \in Int) => ((\E b \in w : b + 7 = 8 * i + 7) <=> 8 * i \in w)
  BY <1>1
<1>15. 8 * i + 7 \in Swar(N, B, fast)!Shl(u, 7) <=> x % 2 = 1
  BY <1>5, <1>8, <1>9, <1>14
<1>16. 8 * i + 7 \in Swar(N, B, fast)!Shl(v, 7) <=> x % 2 = 0
  BY <1>8, <1>10, <1>13, <1>14
<1> QED
  BY <1>4, <1>5, <1>12, <1>15, <1>16 DEF u, v, x, SlotEnds

(* The fold of the bits of a byte into its value.                          *)
LEMMA ByteValue ==
  ASSUME NEW N, NEW B, NEW fast, NEW x \in 0 .. 255
  PROVE  Swar(N, B, fast)!ByteOf(Swar(N, B, fast)!ByteBits(x)) = x
<1> DEFINE S == Swar(N, B, fast)!ByteBits(x)
           part(T, b, c) == IF b \in T THEN c ELSE 0
           value(T) == part(T, 0, 1) + part(T, 1, 2) + part(T, 2, 4) + part(T, 3, 8)
                         + part(T, 4, 16) + part(T, 5, 32) + part(T, 6, 64) + part(T, 7, 128)
           Rec(f) == f = [T \in SUBSET S |->
                            IF T = {} THEN 0 ELSE 2^Any(T) + f[T \ {Any(T)}]]
           g == [T \in SUBSET S |-> value(T)]
           f == CHOOSE f : Rec(f)
<1>1. S \in SUBSET (0 .. 7)
  BY BitsOfByte DEF BitsAre
<1>2. IsFiniteSet(S)
  <2>1. 0 \in Int /\ 7 \in Int
    OBVIOUS
  <2>2. IsFiniteSet(0 .. 7)
    BY <2>1, FS_Interval
  <2> QED  BY <1>1, <2>2, FS_Subset
<1>3. Swar(N, B, fast)!ByteOf(S) = f[S]
  BY DEF Swar!ByteOf, Swar!MapThenSumSet, Swar!MapThenFoldSet, Any
<1>4. value(S) = x
  <2>0. BitsAre(S, x)
    BY BitsOfByte
  <2> HIDE DEF S
  <2>1. /\ 0 \in S <=> x % 2 = 1
        /\ 1 \in S <=> (x \div 2) % 2 = 1
        /\ 2 \in S <=> (x \div 4) % 2 = 1
        /\ 3 \in S <=> (x \div 8) % 2 = 1
        /\ 4 \in S <=> (x \div 16) % 2 = 1
        /\ 5 \in S <=> (x \div 32) % 2 = 1
        /\ 6 \in S <=> (x \div 64) % 2 = 1
        /\ 7 \in S <=> (x \div 128) % 2 = 1
    BY <2>0 DEF BitsAre
  <2>2. /\ part(S, 0, 1) = x % 2
        /\ part(S, 1, 2) = 2 * ((x \div 2) % 2)
        /\ part(S, 2, 4) = 4 * ((x \div 4) % 2)
        /\ part(S, 3, 8) = 8 * ((x \div 8) % 2)
    BY <2>1
  <2>3. /\ part(S, 4, 16) = 16 * ((x \div 16) % 2)
        /\ part(S, 5, 32) = 32 * ((x \div 32) % 2)
        /\ part(S, 6, 64) = 64 * ((x \div 64) % 2)
        /\ part(S, 7, 128) = 128 * ((x \div 128) % 2)
    BY <2>1
  <2> HIDE DEF part
  <2> QED  BY <2>2, <2>3, SumOfByte
<1>5. value({}) = 0
  OBVIOUS
<1>6. ASSUME NEW T \in SUBSET (0 .. 7), NEW c \in T
      PROVE  2^c + value(T \ {c}) = value(T) /\ value(T) \in Int
  <2> DEFINE U == T \ {c}
             is(b, y) == IF c = b THEN y ELSE 0
  <2>1. /\ 2^0 = 1 /\ 2^1 = 2 /\ 2^2 = 4 /\ 2^3 = 8
        /\ 2^4 = 16 /\ 2^5 = 32 /\ 2^6 = 64 /\ 2^7 = 128
    OBVIOUS
  <2>2. c \in {0, 1, 2, 3, 4, 5, 6, 7}
    OBVIOUS
  <2>3. \A b \in 0 .. 7 : b \in T <=> b \in U \/ b = c
    OBVIOUS
  <2>4. c \notin U
    OBVIOUS
  <2> HIDE DEF U
  <2>5. part(T, 0, 1) = is(0, 1) + part(U, 0, 1) /\ part(U, 0, 1) \in Int /\ is(0, 1) \in Int
    BY <2>1, <2>3, <2>4
  <2>6. part(T, 1, 2) = is(1, 2) + part(U, 1, 2) /\ part(U, 1, 2) \in Int /\ is(1, 2) \in Int
    BY <2>1, <2>3, <2>4
  <2>7. part(T, 2, 4) = is(2, 4) + part(U, 2, 4) /\ part(U, 2, 4) \in Int /\ is(2, 4) \in Int
    BY <2>1, <2>3, <2>4
  <2>8. part(T, 3, 8) = is(3, 8) + part(U, 3, 8) /\ part(U, 3, 8) \in Int /\ is(3, 8) \in Int
    BY <2>1, <2>3, <2>4
  <2>9. part(T, 4, 16) = is(4, 16) + part(U, 4, 16) /\ part(U, 4, 16) \in Int /\ is(4, 16) \in Int
    BY <2>1, <2>3, <2>4
  <2>10. part(T, 5, 32) = is(5, 32) + part(U, 5, 32) /\ part(U, 5, 32) \in Int /\ is(5, 32) \in Int
    BY <2>1, <2>3, <2>4
  <2>11. part(T, 6, 64) = is(6, 64) + part(U, 6, 64) /\ part(U, 6, 64) \in Int /\ is(6, 64) \in Int
    BY <2>1, <2>3, <2>4
  <2>12. /\ part(T, 7, 128) = is(7, 128) + part(U, 7, 128)
         /\ part(U, 7, 128) \in Int /\ is(7, 128) \in Int
    BY <2>1, <2>3, <2>4
  <2>13. /\ 2^c = is(0, 1) + is(1, 2) + is(2, 4) + is(3, 8)
                  + is(4, 16) + is(5, 32) + is(6, 64) + is(7, 128)
         /\ 2^c \in Int
    <3>1. \/ (c = 0 /\ 2^c = 1)
          \/ (c = 1 /\ 2^c = 2)
          \/ (c = 2 /\ 2^c = 4)
          \/ (c = 3 /\ 2^c = 8)
          \/ (c = 4 /\ 2^c = 16)
          \/ (c = 5 /\ 2^c = 32)
          \/ (c = 6 /\ 2^c = 64)
          \/ (c = 7 /\ 2^c = 128)
      <4>1. CASE c = 0
        BY <2>1, <4>1, Zenon
      <4>2. CASE c = 1
        BY <2>1, <4>2, Zenon
      <4>3. CASE c = 2
        BY <2>1, <4>3, Zenon
      <4>4. CASE c = 3
        BY <2>1, <4>4, Zenon
      <4>5. CASE c = 4
        BY <2>1, <4>5, Zenon
      <4>6. CASE c = 5
        BY <2>1, <4>6, Zenon
      <4>7. CASE c = 6
        BY <2>1, <4>7, Zenon
      <4>8. CASE c = 7
        BY <2>1, <4>8, Zenon
      <4> QED  BY <2>2, <4>1, <4>2, <4>3, <4>4, <4>5, <4>6, <4>7, <4>8
    <3> DEFINE power == 2^c
    <3>2. \/ (c = 0 /\ power = 1)
          \/ (c = 1 /\ power = 2)
          \/ (c = 2 /\ power = 4)
          \/ (c = 3 /\ power = 8)
          \/ (c = 4 /\ power = 16)
          \/ (c = 5 /\ power = 32)
          \/ (c = 6 /\ power = 64)
          \/ (c = 7 /\ power = 128)
      BY <3>1
    <3> HIDE DEF power
    <3>3. /\ power = is(0, 1) + is(1, 2) + is(2, 4) + is(3, 8)
                  + is(4, 16) + is(5, 32) + is(6, 64) + is(7, 128)
          /\ power \in Int
      BY <3>2
    <3> QED  BY <3>3 DEF power
  <2> HIDE DEF part, is
  <2> QED  BY <2>5, <2>6, <2>7, <2>8, <2>9, <2>10, <2>11, <2>12, <2>13 DEF U
<1> HIDE DEF value
<1>7. Rec(g)
  <2> DEFINE e == [T \in SUBSET S |-> IF T = {} THEN 0 ELSE 2^Any(T) + g[T \ {Any(T)}]]
  <2>1. ASSUME NEW T \in SUBSET S PROVE g[T] = e[T]
    <3>1. CASE T = {}
      BY <1>5, <3>1
    <3>2. CASE T # {}
      <4>1. PICK c \in T : c = Any(T)
        BY <3>2 DEF Any
      <4>2. T \ {c} \in SUBSET S /\ T \in SUBSET (0 .. 7)
        BY <1>1
      <4>3. g[T \ {c}] = value(T \ {c})
        BY <4>2
      <4>4. e[T] = 2^c + g[T \ {c}]
        <5> HIDE DEF g
        <5> QED  BY <3>2, <4>1
      <4> QED  BY <1>6, <4>2, <4>3, <4>4
    <3> QED  BY <3>1, <3>2
  <2>2. g = [T \in SUBSET S |-> g[T]] /\ e = [T \in SUBSET S |-> e[T]]
    OBVIOUS
  <2> HIDE DEF g, e
  <2>3. g = e
    BY <2>1, <2>2
  <2> QED  BY <2>3 DEF e
<1>8. Rec(f)
  <2>1. \E u : Rec(u)
    BY <1>7
  <2> HIDE DEF Rec
  <2> QED  BY <2>1
<1>9. Same(f, g, S)
  <2> HIDE DEF f, S
  <2>1. f[{}] = g[{}]
    BY <1>5, <1>8
  <2>2. \A T \in SUBSET S : \A c \in T : c = Any(T) =>
          f[T] = 2^c + f[T \ {c}] /\ g[T] = 2^c + g[T \ {c}]
    <3>1. \A T \in SUBSET S : \A c \in T : c = Any(T) => f[T] = 2^c + f[T \ {c}]
      BY <1>8
    <3>2. \A T \in SUBSET S : \A c \in T : c = Any(T) => g[T] = 2^c + g[T \ {c}]
      <4> HIDE DEF g
      <4> QED  BY <1>7
    <3> QED  BY <3>1, <3>2
  <2> HIDE DEF g
  <2>3. EqualIfBefore(f, g, S)
    BY <2>2 DEF EqualIfBefore
  <2> HIDE DEF Rec
  <2> QED  BY <1>2, <2>1, <2>3, FoldsEqual
<1>10. f[S] = value(S)
  <2>1. S \in SUBSET S /\ g[S] = value(S)
    OBVIOUS
  <2> HIDE DEF f, g, S
  <2> QED  BY <1>9, <2>1 DEF Same
<1> QED
  BY <1>3, <1>4, <1>10

(* The slot i of the word u is the byte x.                                 *)
Holds(N, B, fast, u, i, x) ==
  /\ i \in Int /\ x \in 0 .. 255
  /\ \A b \in 0 .. 7 : 8 * i + b \in u <=> b \in Swar(N, B, fast)!ByteBits(x)

(* Such a slot is read as that byte.                                       *)
LEMMA SlotValue ==
  ASSUME NEW N, NEW B, NEW fast, NEW i, NEW x, NEW u, Holds(N, B, fast, u, i, x)
  PROVE  Swar(N, B, fast)!at(u, i) = x
<1> DEFINE S == Swar(N, B, fast)!ByteBits(x)
           T == {b \in 0 .. 7 : b + 8 * i \in u}
<1>0. i \in Int /\ x \in 0 .. 255
  BY DEF Holds
<1>1. S \in SUBSET (0 .. 7)
  BY <1>0, BitsOfByte DEF BitsAre
<1>2. T = S
  <2> HIDE DEF S
  <2>1. \A b \in 0 .. 7 : b + 8 * i = 8 * i + b
    BY <1>0
  <2>2. \A b \in 0 .. 7 : b \in T <=> b \in S
    BY <2>1 DEF S, Holds
  <2> QED  BY <1>1, <2>2
<1>3. Swar(N, B, fast)!at(u, i) = Swar(N, B, fast)!ByteOf(T)
  BY DEF Swar!at
<1>4. Swar(N, B, fast)!ByteOf(S) = x
  BY <1>0, ByteValue
<1> HIDE DEF S, T
<1> QED
  BY <1>2, <1>3, <1>4

(* The slots of a bucket are read as they were written.                    *)
LEMMA LoadedSlot ==
  ASSUME NEW N, NEW B, Fits(N, B), NEW fast,
         NEW arr \in [0 .. N - 1 -> 0 .. 255], NEW i \in 0 .. N - 1
  PROVE  Swar(N, B, fast)!at(Swar(N, B, fast)!load(arr), i) = arr[i]
<1> DEFINE u == Swar(N, B, fast)!load(arr)
           x == arr[i]
<1>1. x \in 0 .. 255 /\ i \in Int
  BY DEF Fits
<1>2. Holds(N, B, fast, u, i, x)
  BY <1>1, LoadedBits DEF Holds
<1> HIDE DEF u, x
<1>3. Swar(N, B, fast)!at(u, i) = x
  BY <1>2, SlotValue
<1> QED
  BY <1>3 DEF u, x

(* The highest bits of slots are a mask of these slots.                    *)
MarksOf(N, B, fast, u, S) ==
  Swar(N, B, fast)!Contract!Marks(u, S) /\ (u # {} <=> S # {})

LEMMA MarkedMarks ==
  ASSUME NEW N, NEW B, Fits(N, B), NEW fast, NEW S \in SUBSET (0 .. N - 1)
  PROVE  MarksOf(N, B, fast, Marked(S), S)
<1>1. Swar(N, B, fast)!slots(Marked(S)) = S /\ Swar(N, B, fast)!walks(Marked(S))
  BY MarkedSlots, MarkedWalks DEF Swar!slots, Swar!walks
<1>2. Marked(S) # {} <=> S # {}
  BY DEF Marked
<1> QED
  BY <1>1, <1>2 DEF MarksOf, Swar!Contract!Marks

(* The states that the slots of a bucket have: hashes, empty and tombstone. *)
State == 0 .. 129

(* The slots with a hash, and those with the state s.                      *)
Hashed(N, arr) == {i \in 0 .. N - 1 : arr[i] < 128}
Equal(N, arr, s) == {i \in 0 .. N - 1 : arr[i] = s}

(* The masks of the states.                                                *)
MasksOfStates(N, B, fast, arr, u) ==
  /\ Swar(N, B, fast)!mask_hash(u) = Marked(Hashed(N, arr))
  /\ Swar(N, B, fast)!mask_not_hash(u) = Marked((0 .. N - 1) \ Hashed(N, arr))
  /\ Swar(N, B, fast)!mask_empty(u) = Marked(Equal(N, arr, 128))
  /\ Swar(N, B, fast)!mask_not_empty(u) = Marked((0 .. N - 1) \ Equal(N, arr, 128))
  /\ Swar(N, B, fast)!mask_tombstone(u) = Marked(Equal(N, arr, 129))
  /\ Swar(N, B, fast)!mask_not_tombstone(u) = Marked((0 .. N - 1) \ Equal(N, arr, 129))

(* States are bytes.                                                       *)
LEMMA StateBytes ==
  ASSUME NEW N, NEW arr \in [0 .. N - 1 -> State]
  PROVE  arr \in [0 .. N - 1 -> 0 .. 255] /\ \A i \in 0 .. N - 1 : arr[i] \in 0 .. 129
<1> DEFINE slots == 0 .. N - 1
           small == 0 .. 129
           byte == 0 .. 255
<1>1. arr \in [slots -> small]
  BY DEF State
<1>2. small \subseteq byte
  OBVIOUS
<1> HIDE DEF slots, small, byte
<1>3. /\ \A i \in slots : arr[i] \in small
      /\ arr \in [slots -> byte]
  BY <1>1, <1>2
<1> QED
  BY <1>3 DEF slots, small, byte

(* They mark the slots that are in the state.                              *)
LEMMA StateMasks ==
  ASSUME NEW N, NEW B, Fits(N, B), NEW fast, NEW arr \in [0 .. N - 1 -> State]
  PROVE  MasksOfStates(N, B, fast, arr, Swar(N, B, fast)!load(arr))
<1> DEFINE u == Swar(N, B, fast)!load(arr)
           v == Swar(N, B, fast)!Not(u)
           w == Swar(N, B, fast)!Shl(v, 7)
           t == Swar(N, B, fast)!Shl(u, 7)
           all == 0 .. N - 1
           rest == all \ Hashed(N, arr)
           msb == Swar(N, B, fast)!msbs
<1>1. arr \in [0 .. N - 1 -> 0 .. 255] /\ \A i \in all : arr[i] \in 0 .. 129
  BY StateBytes
<1>2. \A i \in all : /\ 8 * i + 7 \in u <=> arr[i] >= 128
                     /\ 8 * i + 7 \in v <=> arr[i] < 128
                     /\ 8 * i + 7 \in w <=> arr[i] % 2 = 0
                     /\ 8 * i + 7 \in t <=> arr[i] % 2 = 1
  <2> TAKE i \in all
  <2>1. SlotEnds(N, B, fast, u, i, arr[i])
    BY <1>1, LoadedEnds
  <2> HIDE DEF u
  <2> QED  BY <2>1 DEF SlotEnds
<1>3. \A x \in 0 .. 129 : /\ x = 128 <=> x >= 128 /\ x % 2 = 0
                          /\ x = 129 <=> x >= 128 /\ x % 2 = 1
  OBVIOUS
<1>4. /\ Hashed(N, arr) \in SUBSET all /\ rest \in SUBSET all
      /\ Equal(N, arr, 128) \in SUBSET all /\ Equal(N, arr, 129) \in SUBSET all
  BY DEF Hashed, Equal
<1>5. \A i \in all : /\ i \in Hashed(N, arr) <=> 8 * i + 7 \in v
                     /\ i \in rest <=> 8 * i + 7 \in u
                     /\ i \in Equal(N, arr, 128) <=> 8 * i + 7 \in u \cap w
                     /\ i \in Equal(N, arr, 129) <=> 8 * i + 7 \in u \cap t
  <2> TAKE i \in all
  <2> DEFINE x == arr[i]
  <2>1. /\ x \in 0 .. 129
        /\ 8 * i + 7 \in u <=> x >= 128
        /\ 8 * i + 7 \in v <=> x < 128
        /\ 8 * i + 7 \in w <=> x % 2 = 0
        /\ 8 * i + 7 \in t <=> x % 2 = 1
    <3> HIDE DEF u, v, w, t
    <3> QED  BY <1>1, <1>2
  <2>2. /\ i \in Hashed(N, arr) <=> x < 128
        /\ i \in rest <=> ~ (x < 128)
        /\ i \in Equal(N, arr, 128) <=> x = 128
        /\ i \in Equal(N, arr, 129) <=> x = 129
    BY DEF Hashed, Equal
  <2> HIDE DEF u, v, w, t, x, rest, all
  <2>3. x >= 128 <=> ~ (x < 128)
    BY <2>1
  <2> QED  BY <1>3, <2>1, <2>2, <2>3
<1>6. /\ Swar(N, B, fast)!mask_hash(u) = v \cap msb
      /\ Swar(N, B, fast)!mask_not_hash(u) = u \cap msb
      /\ Swar(N, B, fast)!mask_empty(u) = (u \cap w) \cap msb
      /\ Swar(N, B, fast)!mask_tombstone(u) = (u \cap t) \cap msb
      /\ Swar(N, B, fast)!mask_not_empty(u)
           = Swar(N, B, fast)!Xor(Swar(N, B, fast)!mask_empty(u), msb)
      /\ Swar(N, B, fast)!mask_not_tombstone(u)
           = Swar(N, B, fast)!Xor(Swar(N, B, fast)!mask_tombstone(u), msb)
  BY DEF Swar!mask_hash, Swar!mask_not_hash, Swar!mask_empty, Swar!mask_tombstone,
         Swar!mask_not_empty, Swar!mask_not_tombstone
<1>7. \A x : \A S \in SUBSET all : (\A i \in all : 8 * i + 7 \in x <=> i \in S)
                                   => x \cap msb = Marked(S)
  BY HighestBits
<1> DEFINE H == Hashed(N, arr)
           E == Equal(N, arr, 128)
           T == Equal(N, arr, 129)
           e == u \cap w
           f == u \cap t
<1> HIDE DEF u, v, w, t, all, rest, H, E, T, msb, e, f
<1>8. /\ v \cap msb = Marked(H) /\ u \cap msb = Marked(rest)
      /\ e \cap msb = Marked(E) /\ f \cap msb = Marked(T)
  <2>1. v \cap msb = Marked(H)
    BY <1>4, <1>5, <1>7 DEF H
  <2>2. u \cap msb = Marked(rest)
    BY <1>4, <1>5, <1>7
  <2>3. \A i \in all : 8 * i + 7 \in e <=> i \in E
    BY <1>5 DEF E, e
  <2>4. \A i \in all : 8 * i + 7 \in f <=> i \in T
    BY <1>5 DEF T, f
  <2>5. E \in SUBSET all /\ T \in SUBSET all
    BY <1>4 DEF E, T
  <2>6. e \cap msb = Marked(E)
    BY <1>7, <2>3, <2>5
  <2>7. f \cap msb = Marked(T)
    BY <1>7, <2>4, <2>5
  <2> QED  BY <2>1, <2>2, <2>6, <2>7
<1>9. /\ Swar(N, B, fast)!Xor(Marked(E), msb) = Marked(all \ E)
      /\ Swar(N, B, fast)!Xor(Marked(T), msb) = Marked(all \ T)
  <2>1. E \in SUBSET (0 .. N - 1) /\ T \in SUBSET (0 .. N - 1)
    BY <1>4 DEF E, T, all
  <2>2. Swar(N, B, fast)!Xor(Marked(E), msb) = Marked(all \ E)
    BY <2>1, MarkedRest DEF all, msb
  <2>3. Swar(N, B, fast)!Xor(Marked(T), msb) = Marked(all \ T)
    BY <2>1, MarkedRest DEF all, msb
  <2> QED  BY <2>2, <2>3
<1>10. /\ Swar(N, B, fast)!mask_hash(u) = Marked(H)
       /\ Swar(N, B, fast)!mask_not_hash(u) = Marked(rest)
       /\ Swar(N, B, fast)!mask_empty(u) = Marked(E)
       /\ Swar(N, B, fast)!mask_tombstone(u) = Marked(T)
  BY <1>6, <1>8 DEF e, f
<1>11. /\ Swar(N, B, fast)!mask_not_empty(u) = Marked(all \ E)
       /\ Swar(N, B, fast)!mask_not_tombstone(u) = Marked(all \ T)
  BY <1>6, <1>9, <1>10
<1> QED
  BY <1>10, <1>11 DEF u, rest, all, H, E, T, MasksOfStates

(* What array_kernel finds in a bucket.                                    *)
LEMMA StatesOfSlots ==
  ASSUME NEW N, NEW B, Fits(N, B), NEW fast, NEW arr \in [0 .. N - 1 -> State]
  PROVE  /\ Swar(N, B, fast)!Contract!Ref!Slots = 0 .. N - 1
         /\ Swar(N, B, fast)!Contract!Ref!mask_hash(arr) = Hashed(N, arr)
         /\ Swar(N, B, fast)!Contract!Ref!mask_not_hash(arr) = (0 .. N - 1) \ Hashed(N, arr)
         /\ Swar(N, B, fast)!Contract!Ref!mask_empty(arr) = Equal(N, arr, 128)
         /\ Swar(N, B, fast)!Contract!Ref!mask_not_empty(arr)
              = (0 .. N - 1) \ Equal(N, arr, 128)
         /\ Swar(N, B, fast)!Contract!Ref!mask_tombstone(arr) = Equal(N, arr, 129)
         /\ Swar(N, B, fast)!Contract!Ref!mask_not_tombstone(arr)
              = (0 .. N - 1) \ Equal(N, arr, 129)
<1> DEFINE all == 0 .. N - 1
<1>1. Swar(N, B, fast)!Contract!Ref!Slots = all
  BY DEF Swar!Contract!Ref!Slots
<1>2. \A i \in all : /\ Swar(N, B, fast)!Contract!Ref!is_hash(arr[i]) <=> arr[i] < 128
                     /\ Swar(N, B, fast)!Contract!Ref!is_not_hash(arr[i]) <=> ~ (arr[i] < 128)
  <2>1. \A x \in 0 .. 129 : /\ Swar(N, B, fast)!Contract!Ref!is_hash(x) <=> x < 128
                            /\ Swar(N, B, fast)!Contract!Ref!is_not_hash(x) <=> ~ (x < 128)
    BY DEF Swar!Contract!Ref!is_hash, Swar!Contract!Ref!is_not_hash, Swar!Contract!Ref!S8
  <2>2. \A i \in all : arr[i] \in 0 .. 129
    BY DEF State
  <2> QED  BY <2>1, <2>2
<1>3. Swar(N, B, fast)!Contract!Ref!mask_hash(arr) = Hashed(N, arr)
  BY <1>1, <1>2 DEF Swar!Contract!Ref!mask_hash, Hashed
<1>4. Swar(N, B, fast)!Contract!Ref!mask_not_hash(arr) = all \ Hashed(N, arr)
  BY <1>1, <1>2 DEF Swar!Contract!Ref!mask_not_hash, Hashed
<1>5. /\ Swar(N, B, fast)!Contract!Ref!mask_empty(arr) = Equal(N, arr, 128)
      /\ Swar(N, B, fast)!Contract!Ref!mask_tombstone(arr) = Equal(N, arr, 129)
  BY <1>1 DEF Swar!Contract!Ref!mask_empty, Swar!Contract!Ref!mask_tombstone,
              Swar!Contract!Ref!mask, Swar!empty, Swar!tombstone, Equal
<1>6. /\ Swar(N, B, fast)!Contract!Ref!mask_not_empty(arr) = all \ Equal(N, arr, 128)
      /\ Swar(N, B, fast)!Contract!Ref!mask_not_tombstone(arr) = all \ Equal(N, arr, 129)
  BY <1>1 DEF Swar!Contract!Ref!mask_not_empty, Swar!Contract!Ref!mask_not_tombstone,
              Swar!Contract!Ref!mask_not, Swar!empty, Swar!tombstone, Equal
<1> QED
  BY <1>1, <1>3, <1>4, <1>5, <1>6

(* The tests of array_kernel are those of its masks.                       *)
LEMMA TestsOfSlots ==
  ASSUME NEW N, NEW B, NEW fast, NEW arr
  PROVE  /\ Swar(N, B, fast)!Contract!Ref!has_hash(arr)
              <=> Swar(N, B, fast)!Contract!Ref!mask_hash(arr) # {}
         /\ Swar(N, B, fast)!Contract!Ref!has_not_hash(arr)
              <=> Swar(N, B, fast)!Contract!Ref!mask_not_hash(arr) # {}
         /\ Swar(N, B, fast)!Contract!Ref!has_empty(arr)
              <=> Swar(N, B, fast)!Contract!Ref!mask_empty(arr) # {}
         /\ Swar(N, B, fast)!Contract!Ref!has_not_empty(arr)
              <=> Swar(N, B, fast)!Contract!Ref!mask_not_empty(arr) # {}
         /\ Swar(N, B, fast)!Contract!Ref!has_tombstone(arr)
              <=> Swar(N, B, fast)!Contract!Ref!mask_tombstone(arr) # {}
         /\ Swar(N, B, fast)!Contract!Ref!has_not_tombstone(arr)
              <=> Swar(N, B, fast)!Contract!Ref!mask_not_tombstone(arr) # {}
  BY DEF Swar!Contract!Ref!has_hash, Swar!Contract!Ref!has_not_hash,
         Swar!Contract!Ref!has_empty, Swar!Contract!Ref!has_not_empty,
         Swar!Contract!Ref!has_tombstone, Swar!Contract!Ref!has_not_tombstone,
         Swar!Contract!Ref!has, Swar!Contract!Ref!has_not,
         Swar!Contract!Ref!mask_hash, Swar!Contract!Ref!mask_not_hash,
         Swar!Contract!Ref!mask_empty, Swar!Contract!Ref!mask_not_empty,
         Swar!Contract!Ref!mask_tombstone, Swar!Contract!Ref!mask_not_tombstone,
         Swar!Contract!Ref!mask, Swar!Contract!Ref!mask_not

(* The states of a bucket: its masks and tests are those of array_kernel,  *)
(* and its slots are read as they were written (kernel.hpp, uint_kernel).  *)
THEOREM SwarStates ==
  ASSUME NEW N, NEW B, Fits(N, B), NEW fast, NEW arr \in [0 .. N - 1 -> State]
  PROVE  Swar(N, B, fast)!Contract!StatesExact(arr)
<1> DEFINE u == Swar(N, B, fast)!load(arr)
           all == 0 .. N - 1
           H == Hashed(N, arr)
           E == Equal(N, arr, 128)
           T == Equal(N, arr, 129)
<1>1. /\ H \in SUBSET all /\ E \in SUBSET all /\ T \in SUBSET all
      /\ all \ H \in SUBSET all /\ all \ E \in SUBSET all /\ all \ T \in SUBSET all
  BY DEF Hashed, Equal
<1>2. /\ MarksOf(N, B, fast, Marked(H), H) /\ MarksOf(N, B, fast, Marked(all \ H), all \ H)
      /\ MarksOf(N, B, fast, Marked(E), E) /\ MarksOf(N, B, fast, Marked(all \ E), all \ E)
      /\ MarksOf(N, B, fast, Marked(T), T) /\ MarksOf(N, B, fast, Marked(all \ T), all \ T)
  <2> HIDE DEF H, E, T
  <2> QED  BY <1>1, MarkedMarks
<1>3. \A i \in all : Swar(N, B, fast)!at(u, i) = arr[i]
  <2>1. arr \in [0 .. N - 1 -> 0 .. 255]
    BY StateBytes
  <2> QED  BY <2>1, LoadedSlot
<1>4. /\ Swar(N, B, fast)!mask_hash(u) = Marked(H)
      /\ Swar(N, B, fast)!mask_not_hash(u) = Marked(all \ H)
      /\ Swar(N, B, fast)!mask_empty(u) = Marked(E)
      /\ Swar(N, B, fast)!mask_not_empty(u) = Marked(all \ E)
      /\ Swar(N, B, fast)!mask_tombstone(u) = Marked(T)
      /\ Swar(N, B, fast)!mask_not_tombstone(u) = Marked(all \ T)
  <2>1. MasksOfStates(N, B, fast, arr, u)
    BY StateMasks
  <2> HIDE DEF u
  <2> QED  BY <2>1 DEF MasksOfStates
<1>5. /\ Swar(N, B, fast)!has_hash(u) <=> H # {}
      /\ Swar(N, B, fast)!has_not_hash(u) <=> all \ H # {}
      /\ Swar(N, B, fast)!has_empty(u) <=> E # {}
      /\ Swar(N, B, fast)!has_not_empty(u) <=> all \ E # {}
      /\ Swar(N, B, fast)!has_tombstone(u) <=> T # {}
      /\ Swar(N, B, fast)!has_not_tombstone(u) <=> all \ T # {}
  <2> HIDE DEF u, H, E, T, all
  <2> QED
    BY <1>2, <1>4
    DEF MarksOf, Swar!has_hash, Swar!has_not_hash, Swar!has_empty, Swar!has_not_empty,
        Swar!has_tombstone, Swar!has_not_tombstone
<1>6. /\ Swar(N, B, fast)!Contract!Ref!Slots = all
      /\ Swar(N, B, fast)!Contract!Ref!mask_hash(arr) = H
      /\ Swar(N, B, fast)!Contract!Ref!mask_not_hash(arr) = all \ H
      /\ Swar(N, B, fast)!Contract!Ref!mask_empty(arr) = E
      /\ Swar(N, B, fast)!Contract!Ref!mask_not_empty(arr) = all \ E
      /\ Swar(N, B, fast)!Contract!Ref!mask_tombstone(arr) = T
      /\ Swar(N, B, fast)!Contract!Ref!mask_not_tombstone(arr) = all \ T
  BY StatesOfSlots
<1> HIDE DEF u, H, E, T, all
<1> QED
  BY <1>2, <1>3, <1>4, <1>5, <1>6, TestsOfSlots
  DEF Swar!Contract!StatesExact, MarksOf, u

(* The bits in which two buckets differ.                                   *)
Differences(N, B, fast, arr, other) ==
  Swar(N, B, fast)!Xor(Swar(N, B, fast)!load(arr), Swar(N, B, fast)!load(other))

(* There are none in the slots that are equal.                             *)
LEMMA DifferentBits ==
  ASSUME NEW N, NEW B, Fits(N, B), NEW fast,
         NEW arr \in [0 .. N - 1 -> 0 .. 255], NEW other \in [0 .. N - 1 -> 0 .. 255],
         NEW i \in 0 .. N - 1
  PROVE  Zero(Differences(N, B, fast, arr, other), i) <=> arr[i] = other[i]
<1> DEFINE bits(c) == Swar(N, B, fast)!ByteBits(c)
           u == Swar(N, B, fast)!load(arr)
           v == Swar(N, B, fast)!load(other)
           m == Differences(N, B, fast, arr, other)
           x == arr[i]
           y == other[i]
<1>1. x \in 0 .. 255 /\ y \in 0 .. 255 /\ i \in Nat
  BY DEF Fits
<1>2. \A b \in 0 .. 7 : /\ 8 * i + b \in u <=> b \in bits(x)
                        /\ 8 * i + b \in v <=> b \in bits(y)
  BY LoadedBits
<1>3. \A p : p \in m <=> ~ (p \in u <=> p \in v)
  BY DEF Differences, Swar!Xor
<1> HIDE DEF m, u, v
<1>4. Zero(m, i) <=> \A b \in 0 .. 7 : 8 * i + b \notin m
  BY <1>1, ByteByBits
<1>5. Zero(m, i) <=> \A b \in 0 .. 7 : b \in bits(x) <=> b \in bits(y)
  <2> HIDE DEF bits
  <2> QED  BY <1>2, <1>3, <1>4
<1> HIDE DEF x, y
<1>6. (\A b \in 0 .. 7 : b \in bits(x) <=> b \in bits(y)) => x = y
  <2> SUFFICES ASSUME \A b \in 0 .. 7 : b \in bits(x) <=> b \in bits(y)
               PROVE  x = y
    OBVIOUS
  <2>1. \A b \in 1 .. 7 : b \in bits(x) <=> b \in bits(y)
    OBVIOUS
  <2>2. 0 \in bits(x) <=> 0 \in bits(y)
    OBVIOUS
  <2>3. x \in 0 .. 255 /\ y \in 0 .. 255
    BY <1>1
  <2>4. \A b \in 1 .. 7 : b \in Swar(N, B, fast)!ByteBits(x)
                            <=> b \in Swar(N, B, fast)!ByteBits(y)
    BY <2>1
  <2>5. 0 \in Swar(N, B, fast)!ByteBits(x) <=> 0 \in Swar(N, B, fast)!ByteBits(y)
    BY <2>2
  <2> HIDE DEF bits
  <2>6. (0 \in Swar(N, B, fast)!ByteBits(x) <=> 0 \in Swar(N, B, fast)!ByteBits(y)) => x = y
    BY <2>3, <2>4, SameBits, Zenon
  <2> QED  BY <2>5, <2>6
<1>7. x = y => \A b \in 0 .. 7 : b \in bits(x) <=> b \in bits(y)
  OBVIOUS
<1> QED
  BY <1>5, <1>6, <1>7 DEF m, x, y

(* The number of slots of a mask, in either kernel.                        *)
LEMMA MaskCount ==
  ASSUME NEW N, NEW B, Fits(N, B), NEW fast, NEW S \in SUBSET (0 .. N - 1)
  PROVE  Swar(N, B, fast)!M!count(Marked(S)) = Swar(N, B, fast)!Contract!Ref!Cardinality(S)
<1>1. Cardinality(Marked(S)) = Cardinality(S)
  BY MarkedCount DEF Fits
<1>2. Swar(N, B, fast)!Contract!Ref!Cardinality(S) = Cardinality(S)
  BY DEF Swar!Contract!Ref!Cardinality, Cardinality
<1> DEFINE m == Marked(S)
<1> HIDE DEF m
<1>3. Swar(N, B, fast)!M!count(m) = Cardinality(m)
  BY SameCount DEF Swar!M!count
<1> QED
  BY <1>1, <1>2, <1>3 DEF m

(* Two buckets compared: the masks and counts of the slots that are equal  *)
(* and of those that are not (kernel.hpp, uint_kernel).                    *)
THEOREM SwarCompares ==
  ASSUME NEW N, NEW B, Fits(N, B), NEW fast,
         NEW arr \in [0 .. N - 1 -> 0 .. 255], NEW other \in [0 .. N - 1 -> 0 .. 255]
  PROVE  Swar(N, B, fast)!Contract!Compares(arr, other)
<1> DEFINE u == Swar(N, B, fast)!load(arr)
           v == Swar(N, B, fast)!load(other)
           all == 0 .. N - 1
           S == {i \in all : arr[i] = other[i]}
           R == all \ S
           m == Differences(N, B, fast, arr, other)
<1>1. S \in SUBSET all /\ R \in SUBSET all
  OBVIOUS
<1>2. Swar(N, B, fast)!mask_equal(u, v) = Marked(S)
  <2>1. S = {i \in all : Zero(m, i)}
    <3>1. \A i \in all : Zero(m, i) <=> arr[i] = other[i]
      BY DifferentBits
    <3> HIDE DEF m
    <3> QED  BY <3>1
  <2>2. Swar(N, B, fast)!mask_equal(u, v) = Swar(N, B, fast)!MatchesExactly(m)
    BY DEF Swar!mask_equal, Differences
  <2> HIDE DEF m
  <2>3. Swar(N, B, fast)!MatchesExactly(m) = Marked({i \in all : Zero(m, i)})
    BY ExactMarks
  <2> HIDE DEF u, v, S
  <2> QED  BY <2>1, <2>2, <2>3
<1>3. Swar(N, B, fast)!mask_not_equal(u, v) = Marked(R)
  <2>1. Swar(N, B, fast)!Xor(Marked(S), Swar(N, B, fast)!msbs) = Marked(R)
    <3> HIDE DEF S
    <3> QED  BY <1>1, MarkedRest
  <2>2. Swar(N, B, fast)!mask_not_equal(u, v)
          = Swar(N, B, fast)!Xor(Swar(N, B, fast)!mask_equal(u, v), Swar(N, B, fast)!msbs)
    BY DEF Swar!mask_not_equal
  <2> HIDE DEF u, v, S, R
  <2> QED  BY <1>2, <2>1, <2>2
<1>4. /\ Swar(N, B, fast)!Contract!Ref!Slots = all
      /\ Swar(N, B, fast)!Contract!Ref!mask_equal(arr, other) = S
      /\ Swar(N, B, fast)!Contract!Ref!mask_not_equal(arr, other) = R
      /\ Swar(N, B, fast)!Contract!Ref!count_equal(arr, other)
           = Swar(N, B, fast)!Contract!Ref!Cardinality(S)
      /\ Swar(N, B, fast)!Contract!Ref!count_not_equal(arr, other)
           = Swar(N, B, fast)!Contract!Ref!Cardinality(R)
  <2>1. Swar(N, B, fast)!Contract!Ref!Slots = all
    BY DEF Swar!Contract!Ref!Slots
  <2>2. R = {i \in all : arr[i] # other[i]}
    OBVIOUS
  <2> HIDE DEF R
  <2> QED
    BY <2>1, <2>2
    DEF Swar!Contract!Ref!mask_equal, Swar!Contract!Ref!mask_not_equal,
        Swar!Contract!Ref!count_equal, Swar!Contract!Ref!count_not_equal
<1> HIDE DEF S, R, u, v, all
<1>5. MarksOf(N, B, fast, Marked(S), S) /\ MarksOf(N, B, fast, Marked(R), R)
  BY <1>1, MarkedMarks DEF all
<1>6. /\ Swar(N, B, fast)!count_equal(u, v) = Swar(N, B, fast)!Contract!Ref!Cardinality(S)
      /\ Swar(N, B, fast)!count_not_equal(u, v)
           = Swar(N, B, fast)!Contract!Ref!Cardinality(R)
  <2>1. /\ Swar(N, B, fast)!M!count(Marked(S)) = Swar(N, B, fast)!Contract!Ref!Cardinality(S)
        /\ Swar(N, B, fast)!M!count(Marked(R)) = Swar(N, B, fast)!Contract!Ref!Cardinality(R)
    BY <1>1, MaskCount DEF all
  <2> QED  BY <1>2, <1>3, <2>1 DEF Swar!count_equal, Swar!count_not_equal
<1> QED
  BY <1>2, <1>3, <1>4, <1>5, <1>6 DEF Swar!Contract!Compares, MarksOf, u, v

(* A mask is encoded slot by slot.                                         *)
LEMMA EncodedMask ==
  ASSUME NEW N, NEW B, Fits(N, B), NEW fast, NEW S \in SUBSET (0 .. N - 1)
  PROVE  Swar(N, B, fast)!encode(S) = Marked(S)
<1>1. IsFiniteSet(S)
  BY MarkedCount DEF Fits
<1> DEFINE op(c, m) == Swar(N, B, fast)!M!join(m, Swar(N, B, fast)!M!single(c))
           Rec(f) == f = [T \in SUBSET S |->
                            IF T = {} THEN {} ELSE op(Any(T), f[T \ {Any(T)}])]
           g == [T \in SUBSET S |-> Marked(T)]
           f == CHOOSE f : Rec(f)
<1>2. Swar(N, B, fast)!encode(S) = f[S]
  BY DEF Swar!encode, Swar!M!Contract!Encode, Swar!M!Contract!FoldSet,
         Swar!M!Contract!MapThenFoldSet, Swar!M!none, Any
<1>3. ASSUME NEW T \in SUBSET S, NEW c \in T
      PROVE  op(c, Marked(T \ {c})) = Marked(T)
  <2>1. Swar(N, B, fast)!M!single(c) = {8 * c + 7}
    BY SingleMark
  <2>2. Marked(T) = Marked(T \ {c}) \cup {8 * c + 7}
    BY DEF Marked
  <2> QED  BY <2>1, <2>2 DEF Swar!M!join
<1> HIDE DEF op
<1>4. Marked({}) = {}
  BY DEF Marked
<1>5. Rec(g)
  <2> DEFINE e == [T \in SUBSET S |-> IF T = {} THEN {} ELSE op(Any(T), g[T \ {Any(T)}])]
  <2>1. ASSUME NEW T \in SUBSET S PROVE g[T] = e[T]
    <3>1. CASE T = {}
      BY <1>4, <3>1
    <3>2. CASE T # {}
      <4>1. PICK c \in T : c = Any(T)
        BY <3>2 DEF Any
      <4>2. T \ {c} \in SUBSET S
        OBVIOUS
      <4>3. g[T \ {c}] = Marked(T \ {c})
        BY <4>2
      <4>4. e[T] = op(c, g[T \ {c}])
        <5> HIDE DEF g
        <5> QED  BY <3>2, <4>1
      <4> QED  BY <1>3, <4>3, <4>4
    <3> QED  BY <3>1, <3>2
  <2>2. g = [T \in SUBSET S |-> g[T]] /\ e = [T \in SUBSET S |-> e[T]]
    OBVIOUS
  <2> HIDE DEF g, e
  <2>3. g = e
    BY <2>1, <2>2
  <2> QED  BY <2>3 DEF e
<1>6. Rec(f)
  <2>1. \E u : Rec(u)
    BY <1>5
  <2> HIDE DEF Rec
  <2> QED  BY <2>1
<1>7. Same(f, g, S)
  <2> HIDE DEF f
  <2>1. f[{}] = g[{}]
    BY <1>4, <1>6
  <2>2. \A T \in SUBSET S : \A c \in T : c = Any(T) =>
          f[T] = op(c, f[T \ {c}]) /\ g[T] = op(c, g[T \ {c}])
    <3>1. \A T \in SUBSET S : \A c \in T : c = Any(T) => f[T] = op(c, f[T \ {c}])
      BY <1>6
    <3>2. \A T \in SUBSET S : \A c \in T : c = Any(T) => g[T] = op(c, g[T \ {c}])
      <4> HIDE DEF g
      <4> QED  BY <1>5
    <3> QED  BY <3>1, <3>2
  <2> HIDE DEF g
  <2>3. EqualIfBefore(f, g, S)
    BY <2>2 DEF EqualIfBefore
  <2> HIDE DEF Rec
  <2> QED  BY <1>1, <2>1, <2>3, FoldsEqual
<1>8. f[S] = Marked(S)
  <2>1. S \in SUBSET S /\ g[S] = Marked(S)
    OBVIOUS
  <2> HIDE DEF f, g
  <2> QED  BY <1>7, <2>1 DEF Same
<1> QED
  BY <1>2, <1>8

(* The word u holds the bytes of g.                                        *)
HoldsAll(N, B, fast, u, g) == \A i \in 0 .. N - 1 : Holds(N, B, fast, u, i, g[i])

(* It is stored as these.                                                  *)
LEMMA StoredSlots ==
  ASSUME NEW N, NEW B, NEW fast, NEW u, NEW g, HoldsAll(N, B, fast, u, g)
  PROVE  Swar(N, B, fast)!store(u) = [i \in 0 .. N - 1 |-> g[i]]
<1>1. \A i \in 0 .. N - 1 : Swar(N, B, fast)!at(u, i) = g[i]
  <2> TAKE i \in 0 .. N - 1
  <2> DEFINE x == g[i]
  <2>1. Holds(N, B, fast, u, i, x)
    BY DEF HoldsAll
  <2> HIDE DEF x
  <2>2. Swar(N, B, fast)!at(u, i) = x
    BY <2>1, SlotValue
  <2> QED  BY <2>2 DEF x
<1> QED
  BY <1>1 DEF Swar!store

(* Where a bit of a slot is in the constants of a kernel.                  *)
LEMMA PlaceOfBits ==
  ASSUME NEW N, NEW B, Fits(N, B), NEW fast, NEW i \in 0 .. N - 1, NEW b \in 0 .. 7
  PROVE  /\ 8 * i + b \in Swar(N, B, fast)!msbs <=> b = 7
         /\ 8 * i + b \in Swar(N, B, fast)!lsbs <=> b = 0
         /\ 8 * i + b \in 0 .. 8 * N - 1
         /\ 8 * i + b \in 0 .. B - 1
         /\ Swar(N, B, fast)!Bits = 0 .. B - 1
<1>1. /\ N \in Nat /\ B \in Nat /\ 8 * N <= B /\ i \in Nat /\ b \in Nat
      /\ \A j \in 0 .. N - 1 : j \in Nat
  BY DEF Fits
<1>2. 8 * i + b \in Swar(N, B, fast)!msbs <=> \E j \in 0 .. N - 1 : 8 * i + b = 8 * j + 7
  BY EndBits
<1>3. 8 * i + b \in Swar(N, B, fast)!lsbs <=> \E j \in 0 .. N - 1 : 8 * i + b = 8 * j
  BY EndBits
<1>4. (\E j \in 0 .. N - 1 : 8 * i + b = 8 * j + 7) <=> b = 7
  BY <1>1
<1>5. (\E j \in 0 .. N - 1 : 8 * i + b = 8 * j) <=> b = 0
  BY <1>1
<1>6. 8 * i + b \in 0 .. 8 * N - 1 /\ 8 * i + b \in 0 .. B - 1
  BY <1>1
<1>7. Swar(N, B, fast)!Bits = 0 .. B - 1
  BY DEF Swar!Bits
<1> QED
  BY <1>2, <1>3, <1>4, <1>5, <1>6, <1>7

(* The bits of the states empty and tombstone.                             *)
LEMMA StateBits ==
  ASSUME NEW N, NEW B, NEW fast, NEW b \in 0 .. 7
  PROVE  /\ b \in Swar(N, B, fast)!ByteBits(128) <=> b = 7
         /\ b \in Swar(N, B, fast)!ByteBits(129) <=> b = 7 \/ b = 0
<1> DEFINE S == Swar(N, B, fast)!ByteBits(128)
           T == Swar(N, B, fast)!ByteBits(129)
<1>0. BitsAre(S, 128) /\ BitsAre(T, 129)
  BY BitsOfByte
<1> HIDE DEF S, T
<1>1. /\ 0 \notin S /\ 1 \notin S /\ 2 \notin S /\ 3 \notin S /\ 4 \notin S /\ 5 \notin S
      /\ 6 \notin S /\ 7 \in S
  BY <1>0 DEF BitsAre
<1>2. /\ 0 \in T /\ 1 \notin T /\ 2 \notin T /\ 3 \notin T /\ 4 \notin T /\ 5 \notin T
      /\ 6 \notin T /\ 7 \in T
  BY <1>0 DEF BitsAre
<1>3. b \in {0, 1, 2, 3, 4, 5, 6, 7}
  OBVIOUS
<1>4. /\ b \in S <=> b = 7
      /\ b \in T <=> b = 7 \/ b = 0
  BY <1>1, <1>2, <1>3
<1> QED
  BY <1>4 DEF S, T

(* The bits of a state that buries a hash.                                 *)
BuriedBit(b, x) == b = 7 \/ (b = 0 /\ x # 128)

(* The bits of a bucket whose hashes are buried, and of one whose          *)
(* tombstones are reclaimed.                                               *)
LEMMA RewrittenBits ==
  ASSUME NEW N, NEW B, Fits(N, B), NEW fast, NEW arr \in [0 .. N - 1 -> State],
         NEW i \in 0 .. N - 1, NEW b \in 0 .. 7
  PROVE  /\ 8 * i + b \in Swar(N, B, fast)!hash_to_tombstone(Swar(N, B, fast)!load(arr))
              <=> BuriedBit(b, arr[i])
         /\ 8 * i + b \in Swar(N, B, fast)!not_hash_to_empty(Swar(N, B, fast)!load(arr))
              <=> b \in Swar(N, B, fast)!ByteBits(arr[i]) /\ (b # 0 \/ arr[i] < 128)
<1> DEFINE u == Swar(N, B, fast)!load(arr)
           v == Swar(N, B, fast)!Not(u)
           r == Swar(N, B, fast)!Shr(v, 7)
           lsb == Swar(N, B, fast)!lsbs
           msb == Swar(N, B, fast)!msbs
           x == arr[i]
           p == 8 * i + b
<1>1. /\ p \in msb <=> b = 7
      /\ p \in lsb <=> b = 0
      /\ p \in 0 .. 8 * N - 1
      /\ p \in 0 .. B - 1
      /\ Swar(N, B, fast)!Bits = 0 .. B - 1
  BY PlaceOfBits
<1>2. x \in 0 .. 129 /\ arr \in [0 .. N - 1 -> 0 .. 255]
  BY StateBytes
<1>3. SlotEnds(N, B, fast, u, i, x)
  BY <1>2, LoadedEnds
<1>4. p \in u <=> b \in Swar(N, B, fast)!ByteBits(x)
  BY <1>2, LoadedBits
<1>5. i \in Int /\ b \in Int
  BY DEF Fits
<1>6. r = {q - 7 : q \in v} \cap (0 .. B - 1)
  BY <1>1 DEF Swar!Shr
<1>7. \A q \in v : q \in Int
  BY <1>1 DEF Swar!Not
<1>8. /\ Swar(N, B, fast)!hash_to_tombstone(u)
           = (msb \cup ((r \cup u) \cap lsb)) \cap (0 .. 8 * N - 1)
      /\ Swar(N, B, fast)!not_hash_to_empty(u)
           = (u \cap (((0 .. B - 1) \ lsb) \cup r)) \cap (0 .. 8 * N - 1)
  BY <1>1 DEF Swar!hash_to_tombstone, Swar!not_hash_to_empty, Swar!Repr, Swar!Not
<1> HIDE DEF u, x, lsb, msb
<1>9. 8 * i + 7 \in v <=> x < 128
  BY <1>3 DEF SlotEnds
<1>10. 8 * i \in u <=> x % 2 = 1
  BY <1>3 DEF SlotEnds
<1> HIDE DEF v, r
<1>11. b = 0 => (p \in r <=> x < 128)
  <2> SUFFICES ASSUME b = 0 PROVE p \in r <=> x < 128
    OBVIOUS
  <2>1. p = 8 * i
    BY <1>5
  <2>2. p \in r <=> \E q \in v : q - 7 = 8 * i
    <3>1. p \in r <=> p \in {q - 7 : q \in v}
      BY <1>1, <1>6
    <3>2. p \in {q - 7 : q \in v} <=> \E q \in v : p = q - 7
      BY Zenon
    <3> HIDE DEF p
    <3> QED  BY <2>1, <3>1, <3>2
  <2>3. (\E q \in v : q - 7 = 8 * i) <=> 8 * i + 7 \in v
    BY <1>5, <1>7
  <2> QED  BY <1>9, <2>2, <2>3
<1>12. b = 0 => (p \in u <=> x % 2 = 1)
  BY <1>5, <1>10
<1>13. x # 128 <=> x < 128 \/ x % 2 = 1
  BY <1>2
<1> HIDE DEF p
<1>14. p \in (msb \cup ((r \cup u) \cap lsb)) \cap (0 .. 8 * N - 1) <=> b = 7 \/ (b = 0 /\ x # 128)
  BY <1>1, <1>11, <1>12, <1>13
<1>15. p \in (u \cap (((0 .. B - 1) \ lsb) \cup r)) \cap (0 .. 8 * N - 1)
         <=> b \in Swar(N, B, fast)!ByteBits(x) /\ (b # 0 \/ x < 128)
  BY <1>1, <1>4, <1>11
<1> QED
  BY <1>8, <1>14, <1>15 DEF u, p, x, BuriedBit

(* The bits of a bucket after slots are emptied.                           *)
LEMMA EmptiedBits ==
  ASSUME NEW N, NEW B, Fits(N, B), NEW fast, NEW arr \in [0 .. N - 1 -> State],
         NEW S \in SUBSET (0 .. N - 1), NEW i \in 0 .. N - 1, NEW b \in 0 .. 7
  PROVE  8 * i + b \in Swar(N, B, fast)!to_empty(Swar(N, B, fast)!load(arr), Marked(S))
           <=> IF i \in S THEN b = 7 ELSE b \in Swar(N, B, fast)!ByteBits(arr[i])
<1> DEFINE u == Swar(N, B, fast)!load(arr)
           msb == Swar(N, B, fast)!msbs
           marked == Marked(S)
           low == Swar(N, B, fast)!Shr(marked, 7)
           bytes == Swar(N, B, fast)!Mul(low, 0 .. 7)
           x == arr[i]
           p == 8 * i + b
<1>1. /\ p \in msb <=> b = 7
      /\ p \in Swar(N, B, fast)!lsbs <=> b = 0
      /\ p \in 0 .. 8 * N - 1
      /\ p \in 0 .. B - 1
      /\ Swar(N, B, fast)!Bits = 0 .. B - 1
  BY PlaceOfBits
<1>2. arr \in [0 .. N - 1 -> 0 .. 255]
  BY StateBytes
<1>3. p \in u <=> b \in Swar(N, B, fast)!ByteBits(x)
  BY <1>2, LoadedBits
<1>4. low = Starts(S)
  <2>1. low = {q - 7 : q \in marked} \cap (0 .. B - 1)
    BY <1>1 DEF Swar!Shr
  <2>2. N \in Nat /\ B \in Nat /\ 8 * N <= B /\ \A j \in S : j \in Nat /\ j <= N - 1
    BY DEF Fits
  <2>3. \A q : q \in marked <=> \E j \in S : q = 8 * j + 7
    BY DEF Marked
  <2>4. \A q : q \in Starts(S) <=> \E j \in S : q = 8 * j
    BY DEF Starts
  <2> HIDE DEF marked
  <2>5. \A q : q \in {c - 7 : c \in marked} <=> \E j \in S : q = 8 * j
    <3> DEFINE down == {c - 7 : c \in marked}
    <3> SUFFICES \A q : q \in down <=> \E j \in S : q = 8 * j
      OBVIOUS
    <3>1. \A q : q \in down <=> \E c \in marked : q = c - 7
      BY Zenon
    <3> HIDE DEF down
    <3>2. \A j \in S : (8 * j + 7) - 7 = 8 * j
      BY <2>2
    <3>3. \A j \in S : 8 * j + 7 \in marked
      BY <2>3
    <3>4. ASSUME NEW q \in down PROVE \E j \in S : q = 8 * j
      <4>1. PICK c \in marked : q = c - 7
        BY <3>1
      <4>2. PICK j \in S : c = 8 * j + 7
        BY <2>3
      <4> QED  BY <3>2, <4>1, <4>2
    <3>5. ASSUME NEW j \in S PROVE 8 * j \in down
      BY <3>1, <3>2, <3>3
    <3> QED  BY <3>4, <3>5
  <2>6. \A j \in S : 8 * j \in 0 .. B - 1
    BY <2>2
  <2> HIDE DEF low
  <2> QED  BY <2>1, <2>4, <2>5, <2>6
<1>5. bytes = Repeated(S, 0 .. 7)
  <2>1. 0 .. 7 \in SUBSET (0 .. 7)
    OBVIOUS
  <2>2. Swar(N, B, fast)!Mul(Starts(S), 0 .. 7) = Repeated(S, 0 .. 7)
    BY <2>1, Broadcast
  <2> HIDE DEF low
  <2> QED  BY <1>4, <2>2
<1>6. p \in bytes <=> i \in S
  <2> DEFINE T == 0 .. 7
  <2>1. T \in SUBSET (0 .. 7) /\ b \in T
    OBVIOUS
  <2>2. bytes = Repeated(S, T)
    BY <1>5
  <2> HIDE DEF T, bytes
  <2>3. p \in Repeated(S, T) <=> i \in S /\ b \in T
    BY <2>1, RepeatedBits
  <2> QED  BY <2>1, <2>2, <2>3
<1>7. Swar(N, B, fast)!to_empty(u, marked)
        = Swar(N, B, fast)!Xor(u, Swar(N, B, fast)!Xor(u, msb) \cap bytes) \cap (0 .. 8 * N - 1)
  BY DEF Swar!to_empty, Swar!Repr
<1> HIDE DEF p, u, msb, bytes, marked, x
<1>8. p \in Swar(N, B, fast)!Xor(u, Swar(N, B, fast)!Xor(u, msb) \cap bytes)
        <=> IF p \in bytes THEN p \in msb ELSE p \in u
  BY DEF Swar!Xor
<1>9. p \in Swar(N, B, fast)!to_empty(u, marked)
        <=> IF i \in S THEN b = 7 ELSE b \in Swar(N, B, fast)!ByteBits(x)
  BY <1>1, <1>3, <1>6, <1>7, <1>8
<1> QED
  BY <1>9 DEF p, u, marked, x

(* The states of a bucket after it is rewritten: the hashes are buried,    *)
(* the tombstones reclaimed, the slots S emptied.                          *)
BucketBuried(N, arr)     == [i \in 0 .. N - 1 |-> IF arr[i] = 128 THEN 128 ELSE 129]
BucketReclaimed(N, arr)  == [i \in 0 .. N - 1 |-> IF arr[i] < 128 THEN arr[i] ELSE 128]
BucketEmptied(N, arr, S) == [i \in 0 .. N - 1 |-> IF i \in S THEN 128 ELSE arr[i]]

(* The words that hold them.                                               *)
LEMMA RewrittenWords ==
  ASSUME NEW N, NEW B, Fits(N, B), NEW fast, NEW arr \in [0 .. N - 1 -> State],
         NEW S \in SUBSET (0 .. N - 1)
  PROVE  /\ HoldsAll(N, B, fast, Swar(N, B, fast)!hash_to_tombstone(Swar(N, B, fast)!load(arr)),
                     BucketBuried(N, arr))
         /\ HoldsAll(N, B, fast, Swar(N, B, fast)!not_hash_to_empty(Swar(N, B, fast)!load(arr)),
                     BucketReclaimed(N, arr))
         /\ HoldsAll(N, B, fast,
                     Swar(N, B, fast)!to_empty(Swar(N, B, fast)!load(arr), Marked(S)),
                     BucketEmptied(N, arr, S))
<1> DEFINE w1 == Swar(N, B, fast)!hash_to_tombstone(Swar(N, B, fast)!load(arr))
           w2 == Swar(N, B, fast)!not_hash_to_empty(Swar(N, B, fast)!load(arr))
           w3 == Swar(N, B, fast)!to_empty(Swar(N, B, fast)!load(arr), Marked(S))
<1>1. SUFFICES ASSUME NEW i \in 0 .. N - 1
               PROVE  /\ Holds(N, B, fast, w1, i, BucketBuried(N, arr)[i])
                      /\ Holds(N, B, fast, w2, i, BucketReclaimed(N, arr)[i])
                      /\ Holds(N, B, fast, w3, i, BucketEmptied(N, arr, S)[i])
  <2> HIDE DEF w1, w2, w3
  <2>1. (\A i \in 0 .. N - 1 : /\ Holds(N, B, fast, w1, i, BucketBuried(N, arr)[i])
                               /\ Holds(N, B, fast, w2, i, BucketReclaimed(N, arr)[i])
                               /\ Holds(N, B, fast, w3, i, BucketEmptied(N, arr, S)[i]))
           => /\ HoldsAll(N, B, fast, w1, BucketBuried(N, arr))
              /\ HoldsAll(N, B, fast, w2, BucketReclaimed(N, arr))
              /\ HoldsAll(N, B, fast, w3, BucketEmptied(N, arr, S))
    BY DEF HoldsAll
  <2> QED  BY <2>1 DEF w1, w2, w3
<1> DEFINE x == arr[i]
           bits(c) == Swar(N, B, fast)!ByteBits(c)
<1>2. i \in Int /\ x \in 0 .. 129
  <2>1. i \in Int
    BY DEF Fits
  <2>2. x \in 0 .. 129
    BY StateBytes
  <2> QED  BY <2>1, <2>2
<1>3. \A b \in 0 .. 7 : 8 * i + b \in w1 <=> b = 7 \/ (b = 0 /\ x # 128)
  <2>1. \A b \in 0 .. 7 : 8 * i + b \in w1 <=> BuriedBit(b, x)
    BY RewrittenBits
  <2> HIDE DEF w1, x
  <2> QED  BY <2>1 DEF BuriedBit
<1>4. \A b \in 0 .. 7 : 8 * i + b \in w2 <=> b \in bits(x) /\ (b # 0 \/ x < 128)
  BY RewrittenBits
<1>5. \A b \in 0 .. 7 : 8 * i + b \in w3 <=> IF i \in S THEN b = 7 ELSE b \in bits(x)
  BY EmptiedBits
<1>6. \A b \in 0 .. 7 : /\ b \in bits(128) <=> b = 7
                        /\ b \in bits(129) <=> b = 7 \/ b = 0
  BY StateBits
<1>7. /\ BucketBuried(N, arr)[i] = IF x = 128 THEN 128 ELSE 129
      /\ BucketReclaimed(N, arr)[i] = IF x < 128 THEN x ELSE 128
      /\ BucketEmptied(N, arr, S)[i] = IF i \in S THEN 128 ELSE x
  BY DEF BucketBuried, BucketReclaimed, BucketEmptied
<1> HIDE DEF w1, w2, w3, x
<1>8. /\ \A y \in 0 .. 129 : y \in 0 .. 255
      /\ 128 \in 0 .. 255 /\ 129 \in 0 .. 255
  OBVIOUS
<1>9. Holds(N, B, fast, w1, i, BucketBuried(N, arr)[i])
  <2>1. CASE x = 128
    <3>1. \A b \in 0 .. 7 : 8 * i + b \in w1 <=> b \in bits(128)
      <4> TAKE b \in 0 .. 7
      <4>1. 8 * i + b \in w1 <=> b = 7
        BY <1>3, <2>1
      <4>2. b \in bits(128) <=> b = 7
        BY <1>6
      <4> HIDE DEF bits
      <4> QED  BY <4>1, <4>2
    <3>2. Holds(N, B, fast, w1, i, 128)
      BY <1>2, <1>8, <3>1 DEF Holds
    <3> QED  BY <1>7, <2>1, <3>2
  <2>2. CASE x # 128
    <3>1. \A b \in 0 .. 7 : 8 * i + b \in w1 <=> b \in bits(129)
      <4> TAKE b \in 0 .. 7
      <4>1. 8 * i + b \in w1 <=> b = 7 \/ b = 0
        BY <1>3, <2>2
      <4>2. b \in bits(129) <=> b = 7 \/ b = 0
        BY <1>6
      <4> HIDE DEF bits
      <4> QED  BY <4>1, <4>2
    <3>2. Holds(N, B, fast, w1, i, 129)
      BY <1>2, <1>8, <3>1 DEF Holds
    <3> QED  BY <1>7, <2>2, <3>2
  <2> QED  BY <2>1, <2>2
<1>10. Holds(N, B, fast, w2, i, BucketReclaimed(N, arr)[i])
  <2>1. CASE x < 128
    <3>1. \A b \in 0 .. 7 : 8 * i + b \in w2 <=> b \in bits(x)
      <4> TAKE b \in 0 .. 7
      <4> HIDE DEF bits
      <4> QED  BY <1>4, <2>1
    <3>2. Holds(N, B, fast, w2, i, x)
      BY <1>2, <1>8, <3>1 DEF Holds
    <3> QED  BY <1>7, <2>1, <3>2
  <2>2. CASE ~ (x < 128)
    <3>1. x = 128 \/ x = 129
      BY <1>2, <2>2
    <3>2. \A b \in 0 .. 7 : b \in bits(x) /\ b # 0 <=> b = 7
      <4> TAKE b \in 0 .. 7
      <4>1. CASE x = 128
        <5>1. b \in bits(128) <=> b = 7
          BY <1>6
        <5>2. 7 # 0
          OBVIOUS
        <5> HIDE DEF bits
        <5> QED  BY <4>1, <5>1, <5>2
      <4>2. CASE x = 129
        <5>1. b \in bits(129) <=> b = 7 \/ b = 0
          BY <1>6
        <5>2. 7 # 0
          OBVIOUS
        <5> HIDE DEF bits
        <5> QED  BY <4>2, <5>1, <5>2
      <4> QED  BY <3>1, <4>1, <4>2
    <3>3. \A b \in 0 .. 7 : 8 * i + b \in w2 <=> b \in bits(128)
      <4> TAKE b \in 0 .. 7
      <4>1. b \in bits(128) <=> b = 7
        BY <1>6
      <4> HIDE DEF bits
      <4>2. 8 * i + b \in w2 <=> b \in bits(x) /\ b # 0
        BY <1>4, <2>2
      <4> QED  BY <3>2, <4>1, <4>2
    <3>4. Holds(N, B, fast, w2, i, 128)
      BY <1>2, <1>8, <3>3 DEF Holds
    <3> QED  BY <1>7, <2>2, <3>4
  <2> QED  BY <2>1, <2>2
<1>11. Holds(N, B, fast, w3, i, BucketEmptied(N, arr, S)[i])
  <2>1. CASE i \in S
    <3>1. \A b \in 0 .. 7 : 8 * i + b \in w3 <=> b \in bits(128)
      <4> TAKE b \in 0 .. 7
      <4>1. b \in bits(128) <=> b = 7
        BY <1>6
      <4> HIDE DEF bits
      <4> QED  BY <1>5, <2>1, <4>1
    <3>2. Holds(N, B, fast, w3, i, 128)
      BY <1>2, <1>8, <3>1 DEF Holds
    <3> QED  BY <1>7, <2>1, <3>2
  <2>2. CASE i \notin S
    <3>1. \A b \in 0 .. 7 : 8 * i + b \in w3 <=> b \in bits(x)
      <4> TAKE b \in 0 .. 7
      <4> HIDE DEF bits
      <4> QED  BY <1>5, <2>2
    <3>2. Holds(N, B, fast, w3, i, x)
      BY <1>2, <1>8, <3>1 DEF Holds
    <3> QED  BY <1>7, <2>2, <3>2
  <2> QED  BY <2>1, <2>2
<1> QED
  BY <1>9, <1>10, <1>11

(* A bucket is rewritten slot by slot, and no slot disturbs its neighbour  *)
(* (kernel.hpp, uint_kernel: hash_to_tombstone, not_hash_to_empty,         *)
(* to_empty).                                                              *)
THEOREM SwarRewrites ==
  ASSUME NEW N, NEW B, Fits(N, B), NEW fast, NEW arr \in [0 .. N - 1 -> State],
         NEW S \in SUBSET (0 .. N - 1)
  PROVE  Swar(N, B, fast)!Contract!Rewrites(arr, S)
<1> DEFINE u == Swar(N, B, fast)!load(arr)
           w1 == Swar(N, B, fast)!hash_to_tombstone(u)
           w2 == Swar(N, B, fast)!not_hash_to_empty(u)
           w3 == Swar(N, B, fast)!to_empty(u, Marked(S))
           b1 == BucketBuried(N, arr)
           b2 == BucketReclaimed(N, arr)
           b3 == BucketEmptied(N, arr, S)
<1>1. /\ HoldsAll(N, B, fast, w1, b1)
      /\ HoldsAll(N, B, fast, w2, b2)
      /\ HoldsAll(N, B, fast, w3, b3)
  BY RewrittenWords
<1>2. /\ b1 = [i \in 0 .. N - 1 |-> b1[i]]
      /\ b2 = [i \in 0 .. N - 1 |-> b2[i]]
      /\ b3 = [i \in 0 .. N - 1 |-> b3[i]]
  BY DEF BucketBuried, BucketReclaimed, BucketEmptied
<1>3. Swar(N, B, fast)!encode(S) = Marked(S)
  BY EncodedMask
<1>4. /\ Swar(N, B, fast)!Contract!Ref!hash_to_tombstone(arr) = b1
      /\ Swar(N, B, fast)!Contract!Ref!not_hash_to_empty(arr) = b2
      /\ Swar(N, B, fast)!Contract!Ref!to_empty(arr, S) = b3
  <2>1. \A i \in 0 .. N - 1 : arr[i] \in 0 .. 129
    BY StateBytes
  <2>2. \A x \in 0 .. 129 :
          /\ Swar(N, B, fast)!Contract!Ref!MinS8(x, 129) = IF x = 128 THEN 128 ELSE 129
          /\ Swar(N, B, fast)!Contract!Ref!MinU8(x, 128) = IF x < 128 THEN x ELSE 128
    BY DEF Swar!Contract!Ref!MinS8, Swar!Contract!Ref!MinU8, Swar!Contract!Ref!S8
  <2>3. Swar(N, B, fast)!Contract!Ref!Slots = 0 .. N - 1
    BY DEF Swar!Contract!Ref!Slots
  <2>4. Swar(N, B, fast)!Contract!Ref!hash_to_tombstone(arr)
          = [i \in 0 .. N - 1 |-> Swar(N, B, fast)!Contract!Ref!MinS8(arr[i], 129)]
    BY <2>3 DEF Swar!Contract!Ref!hash_to_tombstone, Swar!tombstone
  <2>5. Swar(N, B, fast)!Contract!Ref!not_hash_to_empty(arr)
          = [i \in 0 .. N - 1 |-> Swar(N, B, fast)!Contract!Ref!MinU8(arr[i], 128)]
    BY <2>3 DEF Swar!Contract!Ref!not_hash_to_empty, Swar!empty
  <2>6. Swar(N, B, fast)!Contract!Ref!to_empty(arr, S) = b3
    BY <2>3 DEF Swar!Contract!Ref!to_empty, Swar!empty, BucketEmptied
  <2>7. \A i \in 0 .. N - 1 :
          /\ Swar(N, B, fast)!Contract!Ref!MinS8(arr[i], 129)
               = IF arr[i] = 128 THEN 128 ELSE 129
          /\ Swar(N, B, fast)!Contract!Ref!MinU8(arr[i], 128)
               = IF arr[i] < 128 THEN arr[i] ELSE 128
    <3> TAKE i \in 0 .. N - 1
    <3>1. arr[i] \in 0 .. 129
      BY <2>1
    <3> QED  BY <2>2, <3>1
  <2>8. Swar(N, B, fast)!Contract!Ref!hash_to_tombstone(arr) = b1
    BY <2>4, <2>7 DEF BucketBuried
  <2>9. Swar(N, B, fast)!Contract!Ref!not_hash_to_empty(arr) = b2
    BY <2>5, <2>7 DEF BucketReclaimed
  <2> HIDE DEF b1, b2, b3
  <2> QED  BY <2>6, <2>8, <2>9
<1> HIDE DEF u, w1, w2, w3, b1, b2, b3
<1>5. /\ Swar(N, B, fast)!store(w1) = b1
      /\ Swar(N, B, fast)!store(w2) = b2
      /\ Swar(N, B, fast)!store(w3) = b3
  <2>1. /\ Swar(N, B, fast)!store(w1) = [i \in 0 .. N - 1 |-> b1[i]]
        /\ Swar(N, B, fast)!store(w2) = [i \in 0 .. N - 1 |-> b2[i]]
        /\ Swar(N, B, fast)!store(w3) = [i \in 0 .. N - 1 |-> b3[i]]
    BY <1>1, StoredSlots
  <2> QED  BY <1>2, <2>1
<1> QED
  BY <1>3, <1>4, <1>5 DEF Swar!Contract!Rewrites, u, w1, w2, w3

(* What the runs check of these kernels when a bucket is searched and when *)
(* it is rewritten, for every bucket: the aspects of KernelContract that   *)
(* SearchesAgree and RewritesAgree ask for.                                *)
THEOREM SwarAgrees ==
  ASSUME NEW N, NEW B, Fits(N, B), NEW fast, NEW arr \in [0 .. N - 1 -> State],
         NEW lru, NEW other, NEW H \in SUBSET (0 .. 127), NEW T
  PROVE  /\ Swar(N, B, fast)!Contract!Agrees("searches", arr, lru, other, H, T)
         /\ Swar(N, B, fast)!Contract!Agrees("rewrites", arr, lru, other, H, T)
<1>1. arr \in [0 .. N - 1 -> 0 .. 255]
  BY StateBytes
<1>2. \A s \in H : Swar(N, B, fast)!Contract!Searches(arr, s)
  <2> TAKE s \in H
  <2>1. s \in 0 .. 255 /\ s < 128
    OBVIOUS
  <2> QED  BY <1>1, <2>1, SwarSearches
<1>3. \A S \in {Swar(N, B, fast)!Contract!Ref!mask_hash(arr),
                Swar(N, B, fast)!Contract!Ref!mask_not_hash(arr)} :
        Swar(N, B, fast)!Contract!Rewrites(arr, S)
  <2>1. /\ Swar(N, B, fast)!Contract!Ref!mask_hash(arr) \in SUBSET (0 .. N - 1)
        /\ Swar(N, B, fast)!Contract!Ref!mask_not_hash(arr) \in SUBSET (0 .. N - 1)
    BY StatesOfSlots DEF Hashed
  <2>2. \A S \in SUBSET (0 .. N - 1) : Swar(N, B, fast)!Contract!Rewrites(arr, S)
    BY SwarRewrites
  <2> QED  BY <2>1, <2>2
<1> QED
  BY <1>2, <1>3 DEF Swar!Contract!Agrees
================================================================================
