--------------------------------- MODULE X86 ----------------------------------
(***************************************************************************)
(* The SSE, AVX and AVX-512 intrinsics that the kernels use, on vectors of *)
(* N bytes (16, 32 or 64).  The names are those of the intrinsics without  *)
(* the prefix that gives the width of the register.                        *)
(***************************************************************************)
EXTENDS Bytes

CONSTANT N

Lanes == 0 .. N - 1

set1_epi8(x)     == [i \in Lanes |-> U8(x)]
setzero          == set1_epi8(0)
cmpeq_epi8(a, b) == [i \in Lanes |-> IF a[i] = b[i] THEN 255 ELSE 0]
cmpgt_epi8(a, b) == [i \in Lanes |-> IF S8(a[i]) > S8(b[i]) THEN 255 ELSE 0]
min_epi8(a, b)   == [i \in Lanes |-> MinS8(a[i], b[i])]
min_epu8(a, b)   == [i \in Lanes |-> MinU8(a[i], b[i])]
add_epi8(a, b)   == [i \in Lanes |-> U8(a[i] + b[i])]
xor80(a)         == [i \in Lanes |-> U8(a[i] + 128)]      \* xor with 0x80
and7f(a)         == [i \in Lanes |-> a[i] % 128]          \* and with 0x7f
sign_epi8(a, b)  == [i \in Lanes |-> IF S8(b[i]) < 0 THEN U8(-S8(a[i]))
                                     ELSE IF b[i] = 0 THEN 0 ELSE a[i]]

(* The mask of the sign bits of the bytes, and the compares into a mask.   *)
movemask_epi8(a)      == {i \in Lanes : S8(a[i]) < 0}
cmpeq_epi8_mask(a, b) == {i \in Lanes : a[i] = b[i]}
cmpne_epi8_mask(a, b) == {i \in Lanes : a[i] # b[i]}
cmplt_epu8_mask(a, b) == {i \in Lanes : a[i] < b[i]}

mask_set1_epi8(a, m, x)   == [i \in Lanes |-> IF i \in m THEN U8(x) ELSE a[i]]
mask_add_epi8(a, m, b, c) == [i \in Lanes |-> IF i \in m THEN U8(b[i] + c[i]) ELSE a[i]]

(* Takes b where the sign bit of m is set.                                 *)
blend_epi8(a, b, m) == [i \in Lanes |-> IF S8(m[i]) < 0 THEN b[i] ELSE a[i]]

(* The same by andnot, and, or: bit by bit.                                *)
and_or(a, b, m) ==
  [i \in Lanes |-> ByteOf((ByteBits(a[i]) \ ByteBits(m[i])) \cup
                           (ByteBits(b[i]) \cap ByteBits(m[i])))]

(* Shifts every group of g bytes right by one bit, as one integer.         *)
srli_by_one(a, g) ==
  [i \in Lanes |-> a[i] \div 2 + (IF i % g < g - 1 THEN 128 * (a[i + 1] % 2) ELSE 0)]

(* Within a register of 16 bytes: bytes shifted down with zeros behind     *)
(* them, the low bytes of every 16-bit word, and the lowest such word.     *)
srli_si128(a, n)   == [i \in 0 .. 15 |-> IF i + n < 16 THEN a[i + n] ELSE 0]
and_00ff(a)        == [i \in 0 .. 15 |-> IF i % 2 = 0 THEN a[i] ELSE 0]
minpos_epu16(a) ==
  LET Word(j) == a[2 * j] + 256 * a[2 * j + 1]
      low     == Min({Word(j) : j \in 0 .. 7})
  IN  [i \in 0 .. 15 |-> IF i = 0 THEN low % 256 ELSE IF i = 1 THEN low \div 256 ELSE 0]
min_si128(a, b)    == [i \in 0 .. 15 |-> MinU8(a[i], b[i])]

(* The 64-bit words 0, 0, 1 and 1 of a 256-bit register.                   *)
permute4x64_0011(a) == [i \in Lanes |-> a[8 * (i \div 16) + (i % 8)]]

(* The 32 bits of a mask in every group of four bytes, a byte being the    *)
(* set of its bits; the bytes of the lower half of every 16, each of them  *)
(* twice; one bit of every byte, and the test for zero.                    *)
set1_epi32(m)   == [i \in Lanes |-> {b \in 0 .. 7 : 8 * (i % 4) + b \in m}]
unpacklo_epi8(a) == [i \in Lanes |-> a[i - (i % 16) + (i % 16) \div 2]]
and_one_bit(a)  == [i \in Lanes |-> a[i] \cap {i % 8}]
is_zero(a)      == [i \in Lanes |-> IF a[i] = {} THEN 255 ELSE 0]
===============================================================================
