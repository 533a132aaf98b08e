-------------------------------- MODULE RWLock --------------------------------
(***************************************************************************)
(* What a shared mutex promises: one thread holds it exclusively, or any   *)
(* number of threads share it.  A thread that holds it exclusively can     *)
(* turn its hold into a shared one, and the only thread that shares it can *)
(* turn its hold into an exclusive one, without anyone getting in between. *)
(***************************************************************************)
CONSTANT Threads

VARIABLES
  writers,  \* the threads that hold the lock exclusively
  readers   \* the threads that share it

vars == <<writers, readers>>

Init == writers = {} /\ readers = {}

Acquire(t) ==
  /\ writers = {} /\ readers = {}
  /\ writers' = {t} /\ UNCHANGED readers

Share(t) ==
  /\ writers = {} /\ t \notin readers
  /\ readers' = readers \cup {t} /\ UNCHANGED writers

Release(t) ==
  /\ t \in writers
  /\ writers' = {} /\ UNCHANGED readers

Unshare(t) ==
  /\ t \in readers
  /\ readers' = readers \ {t} /\ UNCHANGED writers

Downgrade(t) ==
  /\ t \in writers
  /\ writers' = {} /\ readers' = {t}

Upgrade(t) ==
  /\ readers = {t}
  /\ readers' = {} /\ writers' = {t}

Next == \E t \in Threads : \/ Acquire(t) \/ Share(t) \/ Release(t)
                           \/ Unshare(t) \/ Downgrade(t) \/ Upgrade(t)

Spec == Init /\ [][Next]_vars
===============================================================================
