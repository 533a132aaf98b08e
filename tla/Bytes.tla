-------------------------------- MODULE Bytes ---------------------------------
(***************************************************************************)
(* Bytes as the integers 0 .. 255.  state_t is the signed byte, lru_t the  *)
(* unsigned one (common.hpp); vectors of both are functions from lanes to  *)
(* bytes, and an operation says how it reads them.                         *)
(***************************************************************************)
EXTENDS Integers, FiniteSetsExt

Byte == 0 .. 255

U8(x) == x % 256                              \* conversion to uint8_t
S8(x) == IF x < 128 THEN x ELSE x - 256       \* the byte read as int8_t

ByteBits(x)  == {b \in 0 .. 7 : (x \div 2^b) % 2 = 1}
ByteOf(bits) == MapThenSumSet(LAMBDA b : 2^b, bits)

MinS8(x, y) == IF S8(x) <= S8(y) THEN x ELSE y
MinU8(x, y) == IF x <= y THEN x ELSE y
MaxS8(x, y) == IF S8(x) >= S8(y) THEN x ELSE y

max_lru == 255

is_hash(s)     == S8(s) >= 0
is_not_hash(s) == S8(s) < 0
===============================================================================
