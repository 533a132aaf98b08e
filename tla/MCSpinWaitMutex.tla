--------------------------- MODULE MCSpinWaitMutex ---------------------------
(***************************************************************************)
(* Instances of SpinWaitMutex for TLC.                                     *)
(***************************************************************************)
EXTENDS SpinWaitMutex, TLC
===============================================================================
