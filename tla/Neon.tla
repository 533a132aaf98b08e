--------------------------------- MODULE Neon ---------------------------------
(***************************************************************************)
(* The NEON intrinsics that the kernels use, on N bytes.  A kernel of more *)
(* than 16 slots has a vector of registers and applies an intrinsic to     *)
(* each of them; here that is one operation on all of its lanes, which for *)
(* the reductions (minimum, maximum, sum modulo 256) makes no difference.  *)
(***************************************************************************)
EXTENDS Bytes

CONSTANT N

Lanes == 0 .. N - 1

vdup_n(x)     == [i \in Lanes |-> U8(x)]
vceq(a, b)    == [i \in Lanes |-> IF a[i] = b[i] THEN 255 ELSE 0]
vclt_u8(a, b) == [i \in Lanes |-> IF a[i] < b[i] THEN 255 ELSE 0]
vcgez_s8(a)   == [i \in Lanes |-> IF S8(a[i]) >= 0 THEN 255 ELSE 0]
vcltz_s8(a)   == [i \in Lanes |-> IF S8(a[i]) < 0 THEN 255 ELSE 0]
vmin_s8(a, b) == [i \in Lanes |-> MinS8(a[i], b[i])]
vmin_u8(a, b) == [i \in Lanes |-> MinU8(a[i], b[i])]
vsub_u8(a, b) == [i \in Lanes |-> U8(a[i] - b[i])]
vbsl(m, a, b) ==
  [i \in Lanes |-> ByteOf((ByteBits(a[i]) \cap ByteBits(m[i])) \cup
                          (ByteBits(b[i]) \ ByteBits(m[i])))]

(* Shifts left by a signed count: right for a negative one.                *)
vshl_u8(a, r) ==
  [i \in Lanes |-> IF S8(r[i]) >= 0 THEN U8(a[i] * 2^S8(r[i])) ELSE a[i] \div 2^(-S8(r[i]))]

vminv_s8(a) == U8(Min({S8(a[i]) : i \in Lanes}))
vmaxv_s8(a) == U8(Max({S8(a[i]) : i \in Lanes}))
vminv_u8(a) == Min({a[i] : i \in Lanes})
vmaxv_u8(a) == Max({a[i] : i \in Lanes})
vaddv_s8(a) == S8(U8(MapThenSumSet(LAMBDA i : S8(a[i]), Lanes)))

(* All ones in every group of g bytes in which a and b share a bit.        *)
vtst(a, b, g) ==
  LET Shared == {i \div g : i \in {j \in Lanes : ByteBits(a[j]) \cap ByteBits(b[j]) # {}}}
  IN  [i \in Lanes |-> IF i \div g \in Shared THEN 255 ELSE 0]

(* Within a register of 16 bytes: the lower and the upper half of the      *)
(* elements of g bytes, each of them twice, and the sums of the pairs of   *)
(* neighbours of two registers.                                            *)
vzip1q(a, g)   == [i \in 0 .. 15 |-> a[g * ((i \div g) \div 2) + (i % g)]]
vzip2q(a, g)   == [i \in 0 .. 15 |-> a[8 + g * ((i \div g) \div 2) + (i % g)]]
vandq(a, b)    == [i \in 0 .. 15 |-> ByteOf(ByteBits(a[i]) \cap ByteBits(b[i]))]
vpaddq(a, b)   ==
  [i \in 0 .. 15 |-> IF i < 8 THEN U8(a[2 * i] + a[2 * i + 1])
                     ELSE U8(b[2 * (i - 8)] + b[2 * (i - 8) + 1])]

(* Register q of a vector of registers.                                    *)
Val(a, q) == [i \in 0 .. 15 |-> a[16 * q + i]]

(* The first n bytes as an integer, and back.                              *)
ToWord(a, n)   == UNION {{8 * i + b : b \in ByteBits(a[i])} : i \in 0 .. n - 1}
ByteAt(m, i)   == ByteOf({b \in 0 .. 7 : 8 * i + b \in m})
===============================================================================
