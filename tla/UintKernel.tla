------------------------------ MODULE UintKernel ------------------------------
(***************************************************************************)
(* uint_kernel (kernel.hpp): a bucket in an unsigned integer, a byte per   *)
(* slot, worked on with the arithmetic of the integer.  The fast kernels   *)
(* (produces_false_positives) save an instruction in mask, whose borrow    *)
(* runs from a slot into the next one.                                     *)
(***************************************************************************)
EXTENDS Bytes, FiniteSets

CONSTANTS
  Size,      \* bytes of the representation
  MaskBits,  \* bits of the mask, which is at least 32 bits wide
  produces_false_positives

empty     == 128   \* 0x80 == msb
tombstone == 129   \* 0x81 == msb | lsb

INSTANCE Words WITH Width <- MaskBits
M == INSTANCE UintMask WITH num_bits_max <- MaskBits, num_bits_used <- 8 * Size,
                            bits_per_slot <- 8, left <- TRUE

slots(m)  == M!Contract!slots(m)
walks(m)  == M!Contract!Walks(m)
encode(S) == M!Contract!Encode(S)
matches(S, T) == M!Contract!Matches(S, T)

Repr(x) == x \cap (0 .. 8 * Size - 1)   \* static_cast<repr_type>

lsbs     == {8 * i : i \in 0 .. Size - 1}
msbs     == {8 * i + 7 : i \in 0 .. Size - 1}
all_bits == 0 .. 8 * Size - 1

load(k)  == {b \in all_bits : b % 8 \in ByteBits(k[b \div 8])}
at(k, i) == ByteOf({b \in 0 .. 7 : b + 8 * i \in k})
store(k) == [i \in 0 .. Size - 1 |-> at(k, i)]

MatchesFast(m)    == Sub(m, lsbs) \cap (Not(m) \cap msbs)
MatchesExactly(m) == Add(Not(m) \cap Not(msbs), lsbs) \cap (Not(m) \cap msbs)

mask(k, s) ==
  LET m == Xor(k, Mul(lsbs, ByteBits(s)))
  IN  IF produces_false_positives THEN MatchesFast(m) ELSE MatchesExactly(m)

mask_not(k, s)        == Xor(mask(k, s), msbs)
mask_hash(k)          == Not(k) \cap msbs
mask_not_hash(k)      == k \cap msbs
mask_empty(k)         == k \cap Shl(Not(k), 7) \cap msbs
mask_not_empty(k)     == Xor(mask_empty(k), msbs)
mask_tombstone(k)     == k \cap Shl(k, 7) \cap msbs
mask_not_tombstone(k) == Xor(mask_tombstone(k), msbs)

mask_equal(k0, k1)     == MatchesExactly(Xor(k0, k1))
mask_not_equal(k0, k1) == Xor(mask_equal(k0, k1), msbs)

has_hash(k)          == mask_hash(k) # {}
has_not_hash(k)      == mask_not_hash(k) # {}
has_empty(k)         == mask_empty(k) # {}
has_not_empty(k)     == mask_not_empty(k) # {}
has_tombstone(k)     == mask_tombstone(k) # {}
has_not_tombstone(k) == mask_not_tombstone(k) # {}

count_equal(k0, k1)     == M!count(mask_equal(k0, k1))
count_not_equal(k0, k1) == M!count(mask_not_equal(k0, k1))

hash_to_tombstone(k) == Repr(msbs \cup ((Shr(Not(k), 7) \cup k) \cap lsbs))
not_hash_to_empty(k) == Repr(k \cap (Not(lsbs) \cup Shr(Not(k), 7)))

to_empty(k, m) ==
  LET bytes == Mul(Shr(m, 7), 0 .. 7) IN Repr(Xor(k, Xor(k, msbs) \cap bytes))

load_lru(l)  == load(l)
store_lru(l) == store(l)
lru_at(l, i) == at(l, i)

min_lru(l) ==
  LET Lowest[i \in 0 .. Size - 1] ==
        IF i = 0 THEN <<lru_at(l, 0), 0>>
        ELSE IF lru_at(l, i) < Lowest[i - 1][1] THEN <<lru_at(l, i), i>>
        ELSE Lowest[i - 1]
  IN  Lowest[Size - 1]

mask_min_lru(l)      == M!single(min_lru(l)[2])
mask_lru_below(l, t) == Shl({8 * i : i \in {j \in 0 .. Size - 1 : lru_at(l, j) < t}}, 7)

update_lru(l, n) ==
  LET i     == M!next(n)
      shift == IF lru_at(l, i) >= max_lru THEN 1 ELSE 0
      kept  == Shr(l, shift) \cap (IF shift = 1 THEN Not(msbs) ELSE all_bits)
  IN  Repr(Add(kept, Shl({0}, i * 8)))

to_empty_if_lru_below(k, l, t) == to_empty(k, mask_lru_below(l, t))

Contract == INSTANCE KernelContract
===============================================================================
