------------------------------ MODULE MCSwissMap ------------------------------
(***************************************************************************)
(* Instances of SwissMap for TLC: the default probe sequence (quadratic,   *)
(* aligned to lines of Line positions) over a given hash function.         *)
(***************************************************************************)
EXTENDS SwissMap, TLC

CONSTANTS
  Line,  \* alignment of the probe sequence, in positions
  Homes  \* the bucket in which the sequence of the i-th key starts

(* Several keys per home bucket, for chains that run into one another.     *)
Crowded  == <<0, 0, 1, 1, 2, 0>>
TwoHomes == <<0, 1>>
Chained  == <<1, 1, 3, 2>>
Folding  == <<0, 4, 8, 1>>

PS == INSTANCE ProbeSeq

KeyIndex == CHOOSE f \in [Keys -> 1 .. Cardinality(Keys)] :
              \A k, l \in Keys : f[k] = f[l] => k = l

(* The sequence of every key in every table, computed once.                *)
ProbeTable ==
  [k \in Keys |-> [n \in 1 .. MaxBuckets |->
    [j \in Steps(n) |->
       PS!QuadraticBucket(Homes[KeyIndex[k]] * KernelSize, Line,
                          KernelSize, n, j)]]]

MCProbe(k, n, j) == ProbeTable[k][n][j]
===============================================================================
