----------------------------- MODULE Avx512Kernel -----------------------------
(***************************************************************************)
(* avx512_kernel (kernel.hpp): a bucket of 64 slots in a 512-bit register, *)
(* with compares into mask registers.                                      *)
(***************************************************************************)
EXTENDS Bytes, FiniteSets

Size      == 64
empty     == 128
tombstone == 129
produces_false_positives == FALSE

LOCAL INSTANCE X86 WITH N <- 64
M == INSTANCE UintMask WITH num_bits_max <- 64, num_bits_used <- 64,
                            bits_per_slot <- 1, left <- FALSE
LOCAL INSTANCE Words WITH Width <- 64

slots(m)  == M!Contract!slots(m)
walks(m)  == M!Contract!Walks(m)
encode(S) == M!Contract!Encode(S)
matches(S, T) == M!Contract!Matches(S, T)

load(k)      == k
store(k)     == k
load_lru(l)  == l
store_lru(l) == l

mask_equal(k0, k1)     == cmpeq_epi8_mask(k0, k1)
mask_not_equal(k0, k1) == cmpne_epi8_mask(k0, k1)

mask(k, s)            == mask_equal(k, set1_epi8(s))
mask_not(k, s)        == mask_not_equal(k, set1_epi8(s))
mask_not_hash(k)      == movemask_epi8(k)
mask_hash(k)          == Not(mask_not_hash(k))
mask_empty(k)         == mask(k, empty)
mask_not_empty(k)     == mask_not(k, empty)
mask_tombstone(k)     == mask(k, tombstone)
mask_not_tombstone(k) == mask_not(k, tombstone)

has_hash(k)          == mask_hash(k) # {}
has_not_hash(k)      == mask_not_hash(k) # {}
has_empty(k)         == mask_empty(k) # {}
has_not_empty(k)     == mask_not_empty(k) # {}
has_tombstone(k)     == mask_tombstone(k) # {}
has_not_tombstone(k) == mask_not_tombstone(k) # {}

count_equal(k0, k1)     == M!count(mask_equal(k0, k1))
count_not_equal(k0, k1) == M!count(mask_not_equal(k0, k1))

hash_to_tombstone(k) == min_epi8(k, set1_epi8(tombstone))
not_hash_to_empty(k) == min_epu8(k, set1_epi8(empty))
to_empty(k, m)       == mask_set1_epi8(k, m, empty)

at(k, i)     == k[4 * (i \div 4) + (i % 4)]
lru_at(l, i) == at(l, i)

min_reduce_epu8(l) ==
  LET Low(a, n)  == [i \in 0 .. n - 1 |-> a[i]]
      High(a, n) == [i \in 0 .. n - 1 |-> a[n + i]]
      ss == [i \in 0 .. 31 |-> MinU8(Low(l, 32)[i], High(l, 32)[i])]
      s  == min_si128(Low(ss, 16), High(ss, 16))
  IN  minpos_epu16(and_00ff(min_si128(s, srli_si128(s, 1))))

min_lru(l) ==
  LET s == min_reduce_epu8(l) IN <<s[0], M!next(mask_equal(l, set1_epi8(s[0])))>>
mask_min_lru(l)      == mask_equal(l, set1_epi8(min_reduce_epu8(l)[0]))
mask_lru_below(l, t) == cmplt_epu8_mask(l, set1_epi8(t))

update_lru(l, mask_of_hit) ==
  LET n      == M!truncate(mask_of_hit)
      scaled == IF M!has_next(mask(l, max_lru) \cap n) THEN and7f(srli_by_one(l, 4)) ELSE l
  IN  mask_add_epi8(scaled, n, scaled, set1_epi8(1))

to_empty_if_lru_below(k, l, t) == to_empty(k, mask_lru_below(l, t))

Contract == INSTANCE KernelContract
===============================================================================
