------------------------------ MODULE MCKernels -------------------------------
(***************************************************************************)
(* One bucket as the map and the cache use it: entries come and go, are    *)
(* hit, scrubbed and expired, in a bucket of every kernel.  The bucket     *)
(* itself follows array_kernel.  It may be discarded in every state that   *)
(* it reaches, and all that the kernel computes on it is then compared     *)
(* with array_kernel: once for each state of each bucket.                  *)
(***************************************************************************)
EXTENDS Bytes, FiniteSets

CONSTANTS
  KernelTypes, \* the kernels to check
  Hashes,      \* fingerprints
  Thresholds,  \* LRU thresholds
  InitLru,     \* the counts that the first slot of a bucket starts with
  MaxSteps     \* bound on the length of a bucket's history, one less if it
               \* has more than eight slots

VARIABLES kern, k, l, steps

bucket == <<kern, k, l, steps>>

U1 == INSTANCE UintKernel WITH Size <- 1, MaskBits <- 32, produces_false_positives <- FALSE
U4 == INSTANCE UintKernel WITH Size <- 4, MaskBits <- 32, produces_false_positives <- FALSE
F2 == INSTANCE UintKernel WITH Size <- 2, MaskBits <- 32, produces_false_positives <- TRUE
F8 == INSTANCE UintKernel WITH Size <- 8, MaskBits <- 64, produces_false_positives <- TRUE
S2 == INSTANCE SseKernel WITH SSE <- 2, BWVL <- FALSE
S3 == INSTANCE SseKernel WITH SSE <- 3, BWVL <- FALSE
S4 == INSTANCE SseKernel WITH SSE <- 4, BWVL <- FALSE
SB == INSTANCE SseKernel WITH SSE <- 4, BWVL <- TRUE
A2 == INSTANCE AvxKernel WITH BWVL <- FALSE
AB == INSTANCE AvxKernel WITH BWVL <- TRUE
A5 == INSTANCE Avx512Kernel
N8 == INSTANCE Neon8Kernel
N16 == INSTANCE Neon16Kernel
N32 == INSTANCE Neon32Kernel
N64 == INSTANCE Neon64Kernel
V4 == INSTANCE SveKernel WITH Size <- 4, VL <- 4
V8 == INSTANCE SveKernel WITH Size <- 8, VL <- 16

SizeOf ==
  [uint1 |-> 1, uint4 |-> 4, fast2 |-> 2, fast8 |-> 8, sse2 |-> 16, ssse3 |-> 16,
   sse4 |-> 16, sse_bwvl |-> 16, avx2 |-> 32, avx_bwvl |-> 32, avx512 |-> 64,
   neon8 |-> 8, neon16 |-> 16, neon32 |-> 32, neon64 |-> 64, sve4 |-> 4, sve8 |-> 8,
   none |-> 0]

size  == SizeOf[kern]
isSve == kern \in {"sve4", "sve8"}

Ref == INSTANCE ArrayKernel WITH Size <- size, empty <- IF isSve THEN 240 ELSE 128,
                                 tombstone <- IF isSve THEN 241 ELSE 129
EmptyOf(kn)     == IF kn \in {"sve4", "sve8"} THEN 240 ELSE 128
TombstoneOf(kn) == EmptyOf(kn) + 1

(* No bucket.                                                              *)
NoBucket == kern = "none" /\ k = <<>> /\ l = <<>> /\ steps = 0

(* Slots at both ends and on both sides of a register's middle.            *)
Lanes == {0, 1, size \div 2, size - 1} \cap (0 .. size - 1)

(* What an earlier history has left: nothing, entries with empty slots or  *)
(* with tombstones between them, neighbours that differ in one bit.        *)
Fingerprint(i) == IF i % 2 = 0 THEN 127 ELSE (i \div 2) % 2

Contents(kn) ==
  {[i \in 0 .. SizeOf[kn] - 1 |-> EmptyOf(kn)]}
  \cup {[i \in 0 .. SizeOf[kn] - 1 |-> IF i % 3 = 1 THEN s ELSE Fingerprint(i)] :
         s \in {EmptyOf(kn), TombstoneOf(kn)}}

BucketInit ==
  /\ kern \in KernelTypes
  /\ k \in Contents(kern)
  /\ \E x \in InitLru : l = [i \in 0 .. size - 1 |-> U8(x + i)]
  /\ steps = 0

Count == steps < (IF size <= 8 THEN MaxSteps ELSE MaxSteps - 1) /\ steps' = steps + 1 /\ UNCHANGED kern

Insert(i, s) ==
  /\ Count /\ is_not_hash(k[i])
  /\ k' = [k EXCEPT ![i] = s]
  /\ UNCHANGED l

Erase(i) ==
  /\ Count /\ is_hash(k[i])
  /\ \E s \in {EmptyOf(kern), TombstoneOf(kern)} : k' = [k EXCEPT ![i] = s]
  /\ UNCHANGED l

Hit(i) ==
  /\ Count /\ is_hash(k[i])
  /\ l' = Ref!update_lru(l, {j \in Ref!mask_hash(k) : j >= i})
  /\ UNCHANGED k

Bury ==
  /\ Count /\ Ref!has_hash(k)
  /\ k' = Ref!hash_to_tombstone(k)
  /\ UNCHANGED l

Reclaim ==
  /\ Count /\ Ref!has_tombstone(k)
  /\ k' = Ref!not_hash_to_empty(k)
  /\ UNCHANGED l

Expire(t) ==
  /\ Count /\ Ref!has_hash(k)
  /\ k' = Ref!to_empty_if_lru_below(k, l, t)
  /\ UNCHANGED l

(* The table is freed.                                                     *)
Discard ==
  /\ kern # "none"
  /\ kern' = "none" /\ k' = <<>> /\ l' = <<>> /\ steps' = 0

BucketNext ==
  \/ Discard
  \/ \E i \in Lanes, s \in Hashes : Insert(i, s)
  \/ \E i \in Lanes : Erase(i)
  \/ \E i \in Lanes : Hit(i)
  \/ Bury
  \/ Reclaim
  \/ \E t \in Thresholds : Expire(t)

(* The bucket with every state moved down by one slot, a second one to     *)
(* compare with.                                                           *)
Moved == [i \in DOMAIN k |-> k[(i + 1) % size]]

(* The contract of the kernel at hand.                                     *)
KernelAgrees(aspect) ==
  CASE kern = "uint1"    -> U1!Contract!Agrees(aspect, k, l, Moved, Hashes, Thresholds)
    [] kern = "uint4"    -> U4!Contract!Agrees(aspect, k, l, Moved, Hashes, Thresholds)
    [] kern = "fast2"    -> F2!Contract!Agrees(aspect, k, l, Moved, Hashes, Thresholds)
    [] kern = "fast8"    -> F8!Contract!Agrees(aspect, k, l, Moved, Hashes, Thresholds)
    [] kern = "sse2"     -> S2!Contract!Agrees(aspect, k, l, Moved, Hashes, Thresholds)
    [] kern = "ssse3"    -> S3!Contract!Agrees(aspect, k, l, Moved, Hashes, Thresholds)
    [] kern = "sse4"     -> S4!Contract!Agrees(aspect, k, l, Moved, Hashes, Thresholds)
    [] kern = "sse_bwvl" -> SB!Contract!Agrees(aspect, k, l, Moved, Hashes, Thresholds)
    [] kern = "avx2"     -> A2!Contract!Agrees(aspect, k, l, Moved, Hashes, Thresholds)
    [] kern = "avx_bwvl" -> AB!Contract!Agrees(aspect, k, l, Moved, Hashes, Thresholds)
    [] kern = "avx512"   -> A5!Contract!Agrees(aspect, k, l, Moved, Hashes, Thresholds)
    [] kern = "neon8"    -> N8!Contract!Agrees(aspect, k, l, Moved, Hashes, Thresholds)
    [] kern = "neon16"   -> N16!Contract!Agrees(aspect, k, l, Moved, Hashes, Thresholds)
    [] kern = "neon32"   -> N32!Contract!Agrees(aspect, k, l, Moved, Hashes, Thresholds)
    [] kern = "neon64"   -> N64!Contract!Agrees(aspect, k, l, Moved, Hashes, Thresholds)
    [] kern = "sve4"     -> V4!Contract!Agrees(aspect, k, l, Moved, Hashes, Thresholds)
    [] kern = "sve8"     -> V8!Contract!Agrees(aspect, k, l, Moved, Hashes, Thresholds)
    [] kern = "none"     -> TRUE

W32  == INSTANCE BitOps WITH Width <- 32
W64  == INSTANCE BitOps WITH Width <- 64
W128 == INSTANCE BitOps WITH Width <- 128

(* The bytes of a bucket as one word.                                      *)
WordOf(v) == UNION {{8 * i + b : b \in ByteBits(v[i])} : i \in DOMAIN v}

(* The bit operations on the words of the bucket at hand.                  *)
WordsAgree ==
  LET w == WordOf(k) IN
  CASE size = 4  -> \A x \in {{}, {Max(w)}, w, WordOf(l)} : W32!BitOpsMatch(x)
    [] size = 8  -> \A x \in {{}, {Max(w)}, w, WordOf(l)} : W64!BitOpsMatch(x)
    [] size = 16 -> \A x \in {{}, {Max(w)}, w} : W128!BitOpsMatch(x)
    [] OTHER     -> TRUE

(***************************************************************************)
(* Properties of a bucket when it is discarded, which it may be at once    *)
(* and after each operation on it: of every state of a bucket.             *)
(***************************************************************************)
(* mask_hash, mask_empty, ..., has_*, count_* and at of every kernel give  *)
(* what array_kernel gives, on every bucket: the map finds room, and ends  *)
(* its searches, by them.  (kernel.hpp, all kernels)                       *)
MasksAgree == [][Discard => KernelAgrees("masks")]_bucket

(* mask(k, s) marks every slot that has the fingerprint s; the fast        *)
(* kernels mark others too, because a borrow runs through them, but never  *)
(* an empty slot or a tombstone, whose key must not be read, and never as  *)
(* the first.  (kernel.hpp, mask and mask_not)                             *)
SearchesAgree == [][Discard => KernelAgrees("searches")]_bucket

(* hash_to_tombstone, not_hash_to_empty and to_empty change each slot as   *)
(* array_kernel does and disturb no neighbour, whatever way the mask is    *)
(* spread over the register.  (kernel.hpp)                                 *)
RewritesAgree == [][Discard => KernelAgrees("rewrites")]_bucket

(* min_lru, mask_min_lru, mask_lru_below, update_lru and                   *)
(* to_empty_if_lru_below agree with array_kernel over the whole life of a  *)
(* bucket: no count carries into its neighbour, and all are halved when,   *)
(* and only when, the one that is hit is at its maximum.  (kernel.hpp)     *)
CountsAgree == [][Discard => KernelAgrees("counts")]_bucket

(* Every mask type walks exactly the slots of a mask, in ascending order,  *)
(* and cuts masks at a slot, from before the first to the last.            *)
(* (mask.hpp)                                                              *)
MasksWalk == [][Discard => KernelAgrees("walks")]_bucket

(* The bit operations of stdlib_ext.hpp give what the standard's give, for *)
(* words of 32, 64 and 128 bits: those of the buckets, what a walk over    *)
(* their bits leaves at its end, and the empty word.                       *)
BitOpsAgree == [][Discard => WordsAgree]_bucket
===============================================================================
