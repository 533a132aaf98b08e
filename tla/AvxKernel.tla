------------------------------ MODULE AvxKernel -------------------------------
(***************************************************************************)
(* avx_kernel (kernel.hpp): a bucket of 32 slots in a 256-bit register.    *)
(***************************************************************************)
EXTENDS Bytes, FiniteSets

CONSTANT BWVL   \* NVHM_WITH_AVX_BWVL

Size      == 32
empty     == 128
tombstone == 129
produces_false_positives == FALSE

LOCAL INSTANCE X86 WITH N <- 32
M == INSTANCE UintMask WITH num_bits_max <- 32, num_bits_used <- 32,
                            bits_per_slot <- 1, left <- FALSE
LOCAL INSTANCE Words WITH Width <- 32

slots(m)  == M!Contract!slots(m)
walks(m)  == M!Contract!Walks(m)
encode(S) == M!Contract!Encode(S)
matches(S, T) == M!Contract!Matches(S, T)

load(k)      == k
store(k)     == k
load_lru(l)  == l
store_lru(l) == l

mask_not_hash(k) == movemask_epi8(k)
mask_hash(k)     == Not(mask_not_hash(k))

mask_equal(k0, k1) ==
  IF BWVL THEN cmpeq_epi8_mask(k0, k1) ELSE mask_not_hash(cmpeq_epi8(k0, k1))
mask_not_equal(k0, k1) ==
  IF BWVL THEN cmpne_epi8_mask(k0, k1) ELSE mask_hash(cmpeq_epi8(k0, k1))

mask(k, s)            == mask_equal(k, set1_epi8(s))
mask_not(k, s)        == mask_not_equal(k, set1_epi8(s))
mask_empty(k)         == mask_not_hash(sign_epi8(k, k))
mask_not_empty(k)     == mask_hash(sign_epi8(k, k))
mask_tombstone(k)     == mask(k, tombstone)
mask_not_tombstone(k) == mask_not(k, tombstone)

has_hash(k)          == mask_hash(k) # {}
has_not_hash(k)      == mask_not_hash(k) # {}
has_empty(k)         == mask_empty(k) # {}
has_not_empty(k)     == mask_not_empty(k) # {}
has_tombstone(k)     == mask_tombstone(k) # {}
has_not_tombstone(k) == mask_not_tombstone(k) # {}

count_equal(k0, k1)     == M!count(mask_equal(k0, k1))
count_not_equal(k0, k1) == M!count(mask_not_equal(k0, k1))

hash_to_tombstone(k) == min_epi8(k, set1_epi8(tombstone))
not_hash_to_empty(k) == min_epu8(k, set1_epi8(empty))

(* Mutant: the halves are not given their bytes of the mask.               *)
to_empty_in_lane(k, m) ==
  LET mx == unpacklo_epi8(unpacklo_epi8(unpacklo_epi8(set1_epi32(m))))
  IN  blend_epi8(set1_epi8(empty), k, is_zero(and_one_bit(mx)))

(* unpacklo works in each half of the register: the halves are given their *)
(* bytes of the mask by the permutation in between.                        *)
to_empty(k, m) ==
  LET m2 == unpacklo_epi8(unpacklo_epi8(set1_epi32(m)))
      mx == unpacklo_epi8(permute4x64_0011(m2))
  IN  IF BWVL THEN mask_set1_epi8(k, m, empty)
      ELSE blend_epi8(set1_epi8(empty), k, is_zero(and_one_bit(mx)))

(* The 32-bit word of the slot, shifted down to its byte.                  *)
at(k, i)     == k[4 * (i \div 4) + (i % 4)]
lru_at(l, i) == at(l, i)

min_reduce_epu8(l) ==
  LET s == min_si128([i \in 0 .. 15 |-> l[i]], [i \in 0 .. 15 |-> l[16 + i]])
  IN  minpos_epu16(and_00ff(min_si128(s, srli_si128(s, 1))))

min_lru(l) ==
  LET s == min_reduce_epu8(l) IN <<s[0], M!next(mask_equal(l, set1_epi8(s[0])))>>
mask_min_lru(l) == mask_equal(l, set1_epi8(min_reduce_epu8(l)[0]))

cmplt_epu8(a, b) == cmpgt_epi8(xor80(b), xor80(a))

mask_lru_below(l, t) ==
  IF BWVL THEN cmplt_epu8_mask(l, set1_epi8(t))
  ELSE movemask_epi8(cmplt_epu8(l, set1_epi8(t)))

(* A byte 0xff for the 64-bit word of the slot, sign-extended over it, and *)
(* a one at the slot's byte in every word.                                 *)
Increment(i) ==
  LET maj == [q \in 0 .. 3 |-> IF q = i \div 8 THEN 255 ELSE 0]
      low == [j \in 0 .. 31 |-> IF j % 8 = i % 8 THEN 1 ELSE 0]
  IN  [j \in 0 .. 31 |-> IF S8(maj[j \div 8]) < 0 THEN low[j] ELSE 0]

update_lru(l, mask_of_hit) ==
  LET n      == M!truncate(mask_of_hit)
      scaled == IF M!has_next(mask(l, max_lru) \cap n) THEN and7f(srli_by_one(l, 4)) ELSE l
  IN  IF BWVL THEN mask_add_epi8(scaled, n, scaled, set1_epi8(1))
      ELSE add_epi8(scaled, Increment(M!next(n)))

to_empty_if_lru_below(k, l, t) ==
  blend_epi8(k, set1_epi8(empty), cmplt_epu8(l, set1_epi8(t)))

Contract == INSTANCE KernelContract
===============================================================================
