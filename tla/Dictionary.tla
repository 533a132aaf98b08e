------------------------------ MODULE Dictionary ------------------------------
(***************************************************************************)
(* What nvhm::map promises a caller: a multiset of entries, with at most   *)
(* one entry per key unless duplicates are allowed.  Nothing is said of    *)
(* slots, tombstones or capacities.  An operation may take time (busy) and *)
(* nothing changes meanwhile, except that an insertion which had to make   *)
(* room (request) takes effect at its end.                                 *)
(***************************************************************************)
EXTENDS Integers

CONSTANTS Keys, Values, Duplicates, None

VARIABLES
  content,  \* how many times each entry is stored
  busy,     \* an operation is in progress
  request   \* the entry that an insertion in progress will put, or None

vars == <<content, busy, request>>

Entry == Keys \X Values

Nothing == [e \in Entry |-> 0]

(* operator[] and insert: the entry of k is replaced if there is one.      *)
Put(k, v) ==
  content' = [e \in Entry |->
                IF Duplicates THEN content[e] + (IF e = <<k, v>> THEN 1 ELSE 0)
                ELSE IF e = <<k, v>> THEN 1
                ELSE IF e[1] = k THEN 0 ELSE content[e]]

(* update: one entry of k gets the value v.                                *)
Update(k, v) ==
  \E w \in Values :
    /\ content[<<k, w>>] > 0
    /\ content' = [e \in Entry |->
                     content[e] + (IF e = <<k, v>> THEN 1 ELSE 0)
                                - (IF e = <<k, w>> THEN 1 ELSE 0)]

(* erase, erase_at, erase_if, erase_all, clear: entries are only removed.  *)
Remove ==
  /\ content' \in [Entry -> Nat]
  /\ \A e \in Entry : content'[e] <= content[e]

(* An operation that takes effect when it is called; an erasure may go on  *)
(* to shrink or scrub the table.                                           *)
Act ==
  /\ ~busy
  /\ \/ (\E k \in Keys, v \in Values : Put(k, v) \/ Update(k, v)) /\ busy' = FALSE
     \/ Remove /\ busy' \in BOOLEAN
  /\ UNCHANGED request

(* An insertion that has to make room first.                               *)
Begin ==
  /\ ~busy
  /\ busy' = TRUE /\ request' \in Entry
  /\ UNCHANGED content

Work == busy /\ busy' \in BOOLEAN /\ UNCHANGED <<content, request>>

Complete ==
  /\ busy
  /\ request # None
  /\ Put(request[1], request[2])
  /\ busy' = FALSE /\ request' = None

Init == content = Nothing /\ busy = FALSE /\ request = None

Next == Act \/ Begin \/ Work \/ Complete

Spec == Init /\ [][Next]_vars
===============================================================================
