----------------------------- MODULE Neon32Kernel -----------------------------
(***************************************************************************)
(* neon_kernel<32> (kernel.hpp): a bucket of 32 slots in two registers.    *)
(* The mask has two bits per slot, of which the lower one is used.         *)
(***************************************************************************)
EXTENDS Bytes, FiniteSets

Size      == 32
empty     == 128
tombstone == 129
produces_false_positives == FALSE

LOCAL INSTANCE Neon WITH N <- 32
M == INSTANCE UintMask WITH num_bits_max <- 64, num_bits_used <- 64,
                            bits_per_slot <- 2, left <- FALSE
LOCAL INSTANCE Words WITH Width <- 64

slots(m)  == M!Contract!slots(m)
walks(m)  == M!Contract!Walks(m)
encode(S) == M!Contract!Encode(S)
matches(S, T) == M!Contract!Matches(S, T)

full_mask == M!full

load(k)      == k
store(k)     == k
load_lru(l)  == l
store_lru(l) == l

(* One bit of every byte is isolated and four bytes are summed up into one *)
(* byte of the mask; back, a byte of the mask is repeated four times and   *)
(* one bit of each is tested.                                              *)
isolate == [i \in 0 .. 15 |-> 4^(i % 4)]   \* 0x40100401

collapse_(m8) ==
  LET pairs == vpaddq(vandq(Val(m8, 0), isolate), vandq(Val(m8, 1), isolate))
  IN  ToWord(vpaddq(pairs, pairs), 8)

expand_(m) ==
  LET m2 == [i \in 0 .. 15 |-> ByteAt(m, i % 8)]
      m4 == vzip1q(m2, 1)
      m8 == [i \in Lanes |-> IF i < 16 THEN vzip1q(m4, 2)[i] ELSE vzip2q(m4, 2)[i - 16]]
  IN  vtst(m8, [i \in Lanes |-> isolate[i % 16]], 1)

mask(k, s)             == collapse_(vceq(k, vdup_n(s)))
mask_not(k, s)         == Xor(mask(k, s), full_mask)
mask_hash(k)           == collapse_(vcgez_s8(k))
mask_not_hash(k)       == collapse_(vcltz_s8(k))
mask_equal(k0, k1)     == collapse_(vceq(k0, k1))
mask_not_equal(k0, k1) == Xor(mask_equal(k0, k1), full_mask)
mask_empty(k)         == mask(k, empty)
mask_not_empty(k)     == mask_not(k, empty)
mask_tombstone(k)     == mask(k, tombstone)
mask_not_tombstone(k) == mask_not(k, tombstone)

min(k) == vminv_s8(k)
max(k) == vmaxv_s8(k)

has(k, s)     == vmaxv_u8(vceq(k, vdup_n(s))) # 0
has_not(k, s) == vminv_u8(vceq(k, vdup_n(s))) = 0

has_hash(k)          == is_hash(max(k))
has_not_hash(k)      == is_not_hash(min(k))
has_empty(k)         == min(k) = empty
has_not_empty(k)     == max(k) # empty
has_tombstone(k)     == has(k, tombstone)
has_not_tombstone(k) == has_not(k, tombstone)

count_equal(k0, k1)     == -vaddv_s8(vceq(k0, k1))
count_not_equal(k0, k1) == Size + vaddv_s8(vceq(k0, k1))

hash_to_tombstone(k) == vmin_s8(k, vdup_n(tombstone))
not_hash_to_empty(k) == vmin_u8(k, vdup_n(empty))
to_empty(k, m)       == vbsl(expand_(m), vdup_n(empty), k)

at(k, i)     == k[i]
lru_at(l, i) == l[i]

mask_lru(l, lru)     == collapse_(vceq(l, vdup_n(lru)))
min_lru_(l)          == vminv_u8(l)
mask_min_lru(l)      == mask_lru(l, min_lru_(l))
mask_lru_below(l, t) == collapse_(vclt_u8(l, vdup_n(t)))
min_lru(l) ==
  LET lru == min_lru_(l) IN <<lru, M!next(mask_lru(l, lru))>>

(* The tests of the registers are joined before the maximum is spread.     *)
update_lru(l, mask_of_hit) ==
  LET nx == expand_(M!truncate(mask_of_hit))
      r  == vdup_n(vmaxv_u8(vtst(vceq(l, vdup_n(max_lru)), nx, 4)))
  IN  vsub_u8(vshl_u8(l, r), nx)

to_empty_if_lru_below(k, l, t) == vbsl(vclt_u8(l, vdup_n(t)), vdup_n(empty), k)

Contract == INSTANCE KernelContract
===============================================================================
