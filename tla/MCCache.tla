-------------------------------- MODULE MCCache --------------------------------
(***************************************************************************)
(* Instances of Cache for TLC.                                             *)
(***************************************************************************)
EXTENDS Cache, TLC

CONSTANT Hashes  \* the hash of the i-th key

(* In two buckets, three keys share the first and two the second.          *)
Spread == <<0, 2, 1, 3, 0>>
(* One bucket until the table has four.                                    *)
Splitting == <<0, 2, 1>>

KeyIndex == CHOOSE f \in [Keys -> 1 .. Cardinality(Keys)] :
              \A k, l \in Keys : f[k] = f[l] => k = l

MCHash == [k \in Keys |-> Hashes[KeyIndex[k]]]
===============================================================================
