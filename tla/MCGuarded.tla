------------------------------- MODULE MCGuarded -------------------------------
(* The instance of Guarded for TLC: a map is empty or full of duplicates   *)
(* in the beginning, and one thread makes calls while it has positions.    *)
EXTENDS Guarded, TLC

CONSTANTS t1, t2

MCNested == t1 :> 1 @@ t2 :> 0

MCContents == {[p \in Pos |-> x] : x \in Keys \cup {Empty}}
===============================================================================
