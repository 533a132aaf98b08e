------------------------------- MODULE MCSharded -------------------------------
(* The instance of Sharded for TLC: one thread walks over the table while  *)
(* the other one makes two calls.                                          *)
EXTENDS Sharded, TLC

CONSTANTS k1, k2, t1, t2

MCShardIdx == k1 :> 2 @@ k2 :> 3

MCContents ==
  {0 :> f @@ 1 :> g : f \in {0 :> Empty, 0 :> k1}, g \in {0 :> k2, 0 :> Empty @@ 1 :> k2}}

MCCalls == t1 :> 1 @@ t2 :> 2
MCOps == t1 :> WalkOps \cup LoopOps @@ t2 :> KeyOps \cup {"erase_if", "write_loop"}
===============================================================================
