----------------------------- MODULE Neon16Kernel -----------------------------
(***************************************************************************)
(* neon_kernel<16> (kernel.hpp): a bucket of 16 slots in a 128-bit register. *)
(* The mask has four bits per slot, of which the lowest is kept.           *)
(***************************************************************************)
EXTENDS Bytes, FiniteSets

Size      == 16
empty     == 128
tombstone == 129
produces_false_positives == FALSE

LOCAL INSTANCE Neon WITH N <- 16
M == INSTANCE UintMask WITH num_bits_max <- 64, num_bits_used <- 64,
                            bits_per_slot <- 4, left <- FALSE
LOCAL INSTANCE Words WITH Width <- 64

slots(m)  == M!Contract!slots(m)
walks(m)  == M!Contract!Walks(m)
encode(S) == M!Contract!Encode(S)
matches(S, T) == M!Contract!Matches(S, T)

full_mask == M!full

load(k)      == k
store(k)     == k
load_lru(l)  == l
store_lru(l) == l

(* Four bits per slot: every 16-bit word is shifted right by four and cut  *)
(* to a byte, and back.                                                    *)
collapse_(m8) ==
  ToWord([j \in 0 .. 7 |-> ((m8[2 * j] + 256 * m8[2 * j + 1]) \div 16) % 256], 8)
expand_(m) ==
  LET Word(j) == ByteAt(m, j) * 16
      mx == [i \in Lanes |-> IF i % 2 = 0 THEN Word(i \div 2) % 256
                                          ELSE Word(i \div 2) \div 256]
  IN  vtst(mx, mx, 1)

(* Mutant: the four bits of a slot are all kept.                           *)
mask_equal_wide(k0, k1) == collapse_(vceq(k0, k1))

mask_equal(k0, k1)     == full_mask \cap collapse_(vceq(k0, k1))
mask_not_equal(k0, k1) == Xor(mask_equal(k0, k1), full_mask)
mask(k, s)             == mask_equal(k, vdup_n(s))
mask_not(k, s)         == mask_not_equal(k, vdup_n(s))
mask_hash(k)           == full_mask \cap collapse_(vcgez_s8(k))
mask_not_hash(k)       == full_mask \cap collapse_(vcltz_s8(k))
mask_empty(k)         == mask(k, empty)
mask_not_empty(k)     == mask_not(k, empty)
mask_tombstone(k)     == mask(k, tombstone)
mask_not_tombstone(k) == mask_not(k, tombstone)

min(k) == vminv_s8(k)
max(k) == vmaxv_s8(k)

has(k, s)     == vmaxv_u8(vceq(k, vdup_n(s))) # 0
has_not(k, s) == vminv_u8(vceq(k, vdup_n(s))) = 0

has_hash(k)          == is_hash(max(k))
has_not_hash(k)      == is_not_hash(min(k))
has_empty(k)         == min(k) = empty
has_not_empty(k)     == max(k) # empty
has_tombstone(k)     == has(k, tombstone)
has_not_tombstone(k) == has_not(k, tombstone)

count_equal(k0, k1)     == -vaddv_s8(vceq(k0, k1))
count_not_equal(k0, k1) == Size + vaddv_s8(vceq(k0, k1))

hash_to_tombstone(k) == vmin_s8(k, vdup_n(tombstone))
not_hash_to_empty(k) == vmin_u8(k, vdup_n(empty))
to_empty(k, m)       == vbsl(expand_(m), vdup_n(empty), k)

at(k, i)     == k[i]
lru_at(l, i) == l[i]

mask_lru(l, lru)     == full_mask \cap collapse_(vceq(l, vdup_n(lru)))
mask_min_lru(l)      == full_mask \cap collapse_(vceq(l, vdup_n(vminv_u8(l))))
mask_lru_below(l, t) == full_mask \cap collapse_(vclt_u8(l, vdup_n(t)))
min_lru(l) ==
  LET lru == vminv_u8(l) IN <<lru, M!next(mask_lru(l, lru))>>

(* The test is per 32-bit word; its maximum over the words is spread over  *)
(* all of them.                                                            *)
update_lru(l, mask_of_hit) ==
  LET nx == expand_(M!truncate(mask_of_hit))
      r  == vdup_n(vmaxv_u8(vtst(vceq(l, vdup_n(max_lru)), nx, 4)))
  IN  vsub_u8(vshl_u8(l, r), nx)

to_empty_if_lru_below(k, l, t) == vbsl(vclt_u8(l, vdup_n(t)), vdup_n(empty), k)

Contract == INSTANCE KernelContract
===============================================================================
