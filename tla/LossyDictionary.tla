---------------------------- MODULE LossyDictionary ----------------------------
(***************************************************************************)
(* What nvhm::cache promises a caller: a dictionary that may forget.  An   *)
(* insertion may displace one other entry, a change of the capacity may    *)
(* drop entries one after the other, and nothing else changes an entry or  *)
(* brings one back.                                                        *)
(***************************************************************************)
EXTENDS Integers

CONSTANTS Keys, Values, Duplicates

VARIABLES
  content,  \* how many times each entry is stored
  busy      \* a change of the capacity is in progress

vars == <<content, busy>>

Entry == Keys \X Values

With(c, e) == [c EXCEPT ![e] = @ + 1]
Without(c, e) == [c EXCEPT ![e] = @ - 1]

(* The key has no entry yet, or may have several.                          *)
Store(e) == Duplicates \/ \A v \in Values : content[<<e[1], v>>] = 0

Put(e) ==
  /\ Store(e)
  /\ \/ content' = With(content, e)
     \/ \E d \in Entry :
          content[d] > 0 /\ content' = With(Without(content, d), e)

(* operator[] and update: an entry of the key gets another value.          *)
Overwrite(e) ==
  \E v \in Values :
    /\ content[<<e[1], v>>] > 0
    /\ content' = With(Without(content, <<e[1], v>>), e)

Remove ==
  /\ content' \in [Entry -> Nat]
  /\ \A e \in Entry : content'[e] <= content[e]

Act ==
  /\ ~busy
  /\ (\E e \in Entry : Put(e) \/ Overwrite(e)) \/ Remove
  /\ UNCHANGED busy

Begin == ~busy /\ busy' = TRUE /\ UNCHANGED content

Forget(e) == content[e] > 0 /\ content' = Without(content, e)

Work ==
  /\ busy
  /\ (\E e \in Entry : Forget(e)) \/ UNCHANGED content
  /\ busy' \in BOOLEAN

Init == content = [e \in Entry |-> 0] /\ busy = FALSE

Next == Act \/ Begin \/ Work

Spec == Init /\ [][Next]_vars
===============================================================================
