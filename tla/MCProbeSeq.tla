------------------------------ MODULE MCProbeSeq ------------------------------
(***************************************************************************)
(* A probe sequence walked through a table, for every kind, alignment,     *)
(* kernel size, table size and start position up to the bounds.            *)
(***************************************************************************)
EXTENDS ProbeSeq, FiniteSets

CONSTANTS
  Kinds,       \* "linear", "quadratic"
  Alignments,  \* 0 or a power of two
  Kernels,     \* kernel sizes
  Tables       \* numbers of buckets

VARIABLES kind, A, K, n, start, seq, visited

walk == <<kind, A, K, n, start>>
walking == <<walk, seq, visited>>

Bucket == ToBucket(IF kind = "linear" THEN LinearNext(seq, A)
                                      ELSE QuadraticNext(seq, A), K, n)

(* hash_to_pos shifts the hash left by the bits of the kernel size: a      *)
(* sequence starts at a multiple of it.                                    *)
WalkInit ==
  /\ kind \in Kinds /\ A \in Alignments /\ K \in Kernels /\ n \in Tables
  /\ start \in {K * h : h \in 0 .. 2 * n}
  /\ seq = SeqAt(start, A)
  /\ visited = {}

Probe ==
  /\ seq.psl < n * K
  /\ visited' = visited \cup {Bucket}
  /\ seq' = IF kind = "linear" THEN LinearAdvance(seq, A, K)
                               ELSE QuadraticAdvance(seq, A, K)
  /\ UNCHANGED walk

(* No walk: a table of no buckets.                                         *)
NoWalk ==
  /\ kind = "linear" /\ A = 0 /\ K = 1 /\ n = 0 /\ start = 0
  /\ seq = SeqAt(0, 0)
  /\ visited = {}

(* A sequence probes the line it starts in before it leaves it, as far as  *)
(* the table has that many positions.                                      *)
LineFirst ==
  A > K /\ n * K >= A /\ seq.psl <= A =>
    visited \subseteq {ToBucket((start - (start % A)) + i, K, n) : i \in 0 .. A - 1}

(* The map's loops rely on this: in a table of n buckets the first n steps *)
(* visit every bucket, hence none twice, whatever the start, the alignment *)
(* and the kernel size (NVHM_ASSERT_(seq.psl() < end) in every loop), and  *)
(* those of the line they start in before the others.                      *)
VisitsEveryBucketOnce == Cardinality(visited) * K = seq.psl /\ LineFirst
===============================================================================
