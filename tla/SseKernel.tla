------------------------------ MODULE SseKernel -------------------------------
(***************************************************************************)
(* sse_kernel (kernel.hpp): a bucket of 16 slots in a 128-bit register, in *)
(* the variants the preprocessor makes for SSE2, SSSE3, SSE4 and, with     *)
(* AVX-512 BW and VL, for compares into mask registers.                    *)
(***************************************************************************)
EXTENDS Bytes, FiniteSets

CONSTANTS
  SSE,    \* NVHM_WITH_SSE: 2, 3 or 4
  BWVL    \* NVHM_WITH_AVX_BWVL

Size      == 16
empty     == 128
tombstone == 129
produces_false_positives == FALSE

LOCAL INSTANCE X86 WITH N <- 16
M == INSTANCE UintMask WITH num_bits_max <- 32, num_bits_used <- 16,
                            bits_per_slot <- 1, left <- FALSE
LOCAL INSTANCE Words WITH Width <- 32

slots(m)  == M!Contract!slots(m)
walks(m)  == M!Contract!Walks(m)
encode(S) == M!Contract!Encode(S)
matches(S, T) == M!Contract!Matches(S, T)

full_mask == M!full

load(k)      == k
store(k)     == k
load_lru(l)  == l
store_lru(l) == l

mask_not_hash(k) == movemask_epi8(k)
mask_hash(k)     == Xor(mask_not_hash(k), full_mask)

mask_equal(k0, k1) ==
  IF BWVL THEN cmpeq_epi8_mask(k0, k1) ELSE mask_not_hash(cmpeq_epi8(k0, k1))
mask_not_equal(k0, k1) ==
  IF BWVL THEN cmpne_epi8_mask(k0, k1) ELSE mask_hash(cmpeq_epi8(k0, k1))

mask(k, s)     == mask_equal(k, set1_epi8(s))
mask_not(k, s) == mask_not_equal(k, set1_epi8(s))

(* Negated by its own sign, only empty keeps the sign bit: 0x80 is its own *)
(* negative.                                                               *)
EmptySigns(k) == IF SSE >= 3 THEN sign_epi8(k, k) ELSE cmpeq_epi8(k, set1_epi8(empty))

mask_empty(k)         == IF BWVL THEN mask(k, empty) ELSE mask_not_hash(EmptySigns(k))
mask_not_empty(k)     == IF BWVL THEN mask_not(k, empty) ELSE mask_hash(EmptySigns(k))
mask_tombstone(k)     == mask(k, tombstone)
mask_not_tombstone(k) == mask_not(k, tombstone)

has_hash(k)          == mask_hash(k) # {}
has_not_hash(k)      == mask_not_hash(k) # {}
has_empty(k)         == mask_empty(k) # {}
has_not_empty(k)     == mask_not_empty(k) # {}
has_tombstone(k)     == mask_tombstone(k) # {}
has_not_tombstone(k) == mask_not_tombstone(k) # {}

count_equal(k0, k1)     == M!count(mask_equal(k0, k1))
count_not_equal(k0, k1) == M!count(mask_not_equal(k0, k1))

hash_to_tombstone(k) ==
  LET t == set1_epi8(tombstone)
  IN  IF SSE >= 4 THEN min_epi8(k, t) ELSE add_epi8(cmpgt_epi8(t, k), t)

not_hash_to_empty(k) == min_epu8(k, set1_epi8(empty))

blendv_epi8(a, b, m) == IF SSE >= 4 THEN blend_epi8(a, b, m) ELSE and_or(a, b, m)

(* Byte i / 8 of the mask reaches lane i, where bit i % 8 is tested.       *)
to_empty(k, m) ==
  LET spread == unpacklo_epi8(unpacklo_epi8(unpacklo_epi8(set1_epi32(m))))
  IN  IF BWVL THEN mask_set1_epi8(k, m, empty)
      ELSE blendv_epi8(set1_epi8(empty), k, is_zero(and_one_bit(spread)))

(* SSE2 shifts one of the two halves of the register.                      *)
at(k, i) == IF SSE >= 3 THEN k[i % 16] ELSE k[(IF i < 8 THEN 0 ELSE 8) + (i % 8)]
lru_at(l, i) == at(l, i)

min_reduce_epu8(l) ==
  LET s1 == min_si128(l, srli_si128(l, 1))
      s2 == min_si128(s1, srli_si128(s1, 2))
      s4 == min_si128(s2, srli_si128(s2, 4))
  IN  IF SSE >= 4 THEN minpos_epu16(and_00ff(s1))
      ELSE min_si128(s4, srli_si128(s4, 8))

mask_min_lru(l) == mask_equal(l, set1_epi8(min_reduce_epu8(l)[0]))
min_lru(l) ==
  LET lru == min_reduce_epu8(l)[0] IN <<lru, M!next(mask_equal(l, set1_epi8(lru)))>>

(* Mutant: counts compared as signed bytes.                                *)
cmplt_epi8(a, b) == cmpgt_epi8(b, a)

(* Unsigned order by signed comparison of the biased bytes.                *)
cmplt_epu8(a, b) == cmpgt_epi8(xor80(b), xor80(a))

mask_lru_below(l, t) ==
  IF BWVL THEN cmplt_epu8_mask(l, set1_epi8(t))
  ELSE mask_not_hash(cmplt_epu8(l, set1_epi8(t)))

(* A one in the half and at the byte of the slot.                          *)
Increment(i) == [j \in 0 .. 15 |-> IF (j < 8) = (i < 8) /\ j % 8 = i % 8 THEN 1 ELSE 0]

update_lru(l, mask_of_hit) ==
  LET n      == M!truncate(mask_of_hit)
      scaled == IF M!has_next(mask(l, max_lru) \cap n) THEN and7f(srli_by_one(l, 8)) ELSE l
  IN  IF BWVL THEN mask_add_epi8(scaled, n, scaled, set1_epi8(1))
      ELSE add_epi8(scaled, Increment(M!next(n)))

to_empty_if_lru_below(k, l, t) ==
  blendv_epi8(k, set1_epi8(empty), cmplt_epu8(l, set1_epi8(t)))

Contract == INSTANCE KernelContract
===============================================================================
