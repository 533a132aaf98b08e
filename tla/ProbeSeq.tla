------------------------------- MODULE ProbeSeq -------------------------------
(***************************************************************************)
(* The probe sequences of include/nvhashmap/probe_seq.hpp.  A sequence     *)
(* object holds the spliced start position (base_, shift_) and the length  *)
(* psl_ probed so far; operator+= advances it by the kernel size K, and    *)
(* next() is the position to probe.  A is the alignment, 0 for the         *)
(* unaligned specialisations.  Alignments, kernel sizes and capacities are *)
(* powers of two, so that masks are remainders.                            *)
(***************************************************************************)
EXTENDS Integers

(* The constructors: splice_pos<Alignment>.                                *)
SeqAt(pos, A) ==
  IF A = 0 THEN [base |-> pos, shift |-> 0, psl |-> 0]
           ELSE [base |-> pos - (pos % A), shift |-> pos % A, psl |-> 0]

(* linear_seq                                                              *)
LinearNext(seq, A) ==
  IF A = 0 THEN seq.base + seq.psl
  ELSE seq.base + (seq.psl - (seq.psl % A)) + ((seq.psl + seq.shift) % A)

LinearAdvance(seq, A, K) == [seq EXCEPT !.psl = @ + K]

(* quadratic_seq: the base moves on when a whole line has been probed.     *)
QuadraticNext(seq, A) ==
  seq.base + (IF A = 0 THEN 0 ELSE (seq.psl + seq.shift) % A)

(* Wrong: the base moves on at every step.                                 *)
QuadraticAdvanceAlways(seq, A, K) ==
  [seq EXCEPT !.psl = @ + K, !.base = @ + seq.psl + K]

QuadraticAdvance(seq, A, K) ==
  LET psl == seq.psl + K
  IN  [seq EXCEPT !.psl = psl,
                  !.base = @ + (IF A = 0 \/ psl % A = 0 THEN psl ELSE 0)]

(* align_pos(next(), bucket_mask), as the number of a bucket in a table of *)
(* n buckets.                                                              *)
ToBucket(pos, K, n) == (pos % (n * K)) \div K

(* A quadratic sequence from pos, after j steps.                           *)
QuadraticAfter(pos, A, K, j) ==
  LET seq[i \in 0 .. j] ==
        IF i = 0 THEN SeqAt(pos, A) ELSE QuadraticAdvance(seq[i - 1], A, K)
  IN  seq[j]

QuadraticBucket(pos, A, K, n, j) ==
  ToBucket(QuadraticNext(QuadraticAfter(pos, A, K, j), A), K, n)
===============================================================================
