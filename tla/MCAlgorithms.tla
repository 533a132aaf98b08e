----------------------------- MODULE MCAlgorithms -----------------------------
(***************************************************************************)
(* The pure algorithms under the map and the cache: a behaviour is either  *)
(* the walk of a probe sequence through a table, or the life of a bucket   *)
(* in one of the kernels.                                                  *)
(***************************************************************************)
EXTENDS MCProbeSeq, MCKernels

Init == (WalkInit /\ NoBucket) \/ (BucketInit /\ NoWalk)

Next ==
  \/ Probe /\ UNCHANGED bucket
  \/ BucketNext /\ UNCHANGED walking

Spec == Init /\ [][Next]_<<walking, bucket>>
===============================================================================
