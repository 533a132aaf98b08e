---------------------------- MODULE SpinWaitMutex ----------------------------
(***************************************************************************)
(* nvhm::spin_wait_mutex (include/nvhashmap/mutex.hpp): a shared mutex in  *)
(* one signed integer, -1 when a thread holds it exclusively, else the     *)
(* number of threads that share it.  A thread that cannot get it spins,    *)
(* then sleeps in std::atomic::wait until whoever changes the integer      *)
(* notifies.                                                               *)
(*                                                                         *)
(* Every access to state_ is a step of its own, so that other threads come *)
(* in between a load, the compare-and-exchange or the wait that uses its   *)
(* result, and between a release and its notification.  There is only one  *)
(* atomic, whose modifications are totally ordered, so memory orders play  *)
(* no part in what is said here.                                           *)
(***************************************************************************)
EXTENDS Integers, FiniteSets

CONSTANTS
  Threads,
  MaxReaders,      \* max_num_readers, the largest state_type
  SpinIterations,  \* spin_iterations
  UseWait,         \* use_wait
  MaxCalls         \* bound of the model: acquisitions a thread attempts

ASSUME MutexAssumption ==
  /\ IsFiniteSet(Threads)
  /\ MaxReaders \in Nat /\ SpinIterations \in Nat /\ MaxCalls \in Nat
  /\ UseWait \in BOOLEAN
  /\ SpinIterations > 0 \/ UseWait

(* No more threads than state_type can count ("Mutex reader overflow!").   *)
ASSUME ReadersAssumption == Cardinality(Threads) <= MaxReaders

VARIABLES
  state,   \* state_
  pc,      \* where each thread is, see Places
  call,    \* the function it is in, see Calls
  seen,    \* its local s; 0 when its value is not used any more
  iter,    \* its local i, up to SpinIterations
  calls    \* how many acquisitions it has attempted

vars == <<state, pc, call, seen, iter, calls>>

(* idle: not in a function of the mutex and without a lock.  load, cas,    *)
(* wait: about to do that.  asleep, woken: inside std::atomic::wait.       *)
(* write, read: holding the lock.  The others have changed state_ and have *)
(* yet to notify; "downgraded" already shares the lock.  relock and        *)
(* relocking: inside upgrade_or_relock, about to give up the shared lock   *)
(* and about to notify, before it calls lock().                            *)
Places == {"idle", "load", "cas", "wait", "asleep", "woken", "write", "read",
           "unlocked", "downgraded", "unshared", "relock", "relocking"}

Calls == {"lock", "lock_shared", "try_lock_shared"}

Asleep == {t \in Threads : pc[t] = "asleep"}

Goto(t, place) == pc' = [pc EXCEPT ![t] = place]

See(t, s) == seen' = [seen EXCEPT ![t] = s]

(* The function returns and t is at a place outside it.                    *)
Leave(t, place) ==
  /\ Goto(t, place)
  /\ call' = [call EXCEPT ![t] = "none"]
  /\ See(t, 0)
  /\ iter' = [iter EXCEPT ![t] = 0]

-----------------------------------------------------------------------------
(* Taking the lock.                                                        *)

Spinning(t) == iter[t] < SpinIterations \/ ~UseWait

(* The value of state_ lets the function that t is in proceed.             *)
Claimable(t, s) == IF call[t] = "lock" THEN s = 0 ELSE s >= 0

(* What a successful claim makes of state_; s + 1 wraps around.            *)
Claimed(t, s) == IF call[t] = "lock" THEN -1
                 ELSE IF s = MaxReaders THEN -MaxReaders - 1 ELSE s + 1

Held(t) == IF call[t] = "lock" THEN "write" ELSE "read"

(* i = 0, then ++i; the counter stops at SpinIterations.                   *)
Capped(i)  == IF i < SpinIterations THEN i ELSE SpinIterations
Again(t)   == iter' = [iter EXCEPT ![t] = Capped(@ + 1)]
Restart(t) == iter' = [iter EXCEPT ![t] = Capped(1)]

Call(t, f) ==
  /\ pc[t] = "idle"
  /\ calls[t] < MaxCalls
  /\ Goto(t, "load")
  /\ call' = [call EXCEPT ![t] = f]
  /\ calls' = [calls EXCEPT ![t] = @ + 1]
  /\ UNCHANGED <<state, seen, iter>>

Load(t) ==
  /\ pc[t] = "load"
  /\ \/ /\ Claimable(t, state)
        /\ Goto(t, "cas") /\ See(t, state) /\ UNCHANGED <<call, iter>>
     \/ /\ ~Claimable(t, state) /\ call[t] = "try_lock_shared"
        /\ Leave(t, "idle")
     \/ /\ ~Claimable(t, state) /\ call[t] # "try_lock_shared" /\ Spinning(t)
        /\ Again(t) /\ UNCHANGED <<pc, call, seen>>
     \/ /\ ~Claimable(t, state) /\ call[t] # "try_lock_shared" /\ ~Spinning(t)
        /\ Goto(t, "wait") /\ See(t, state) /\ UNCHANGED <<call, iter>>
  /\ UNCHANGED <<state, calls>>

(* Wrong: the claim is stored without a comparison.                        *)
ExchangesAlways(t) == TRUE

(* compare_exchange stores the new value only if s is still the value.     *)
Exchanges(t) == state = seen[t]

Claim(t) ==
  /\ pc[t] = "cas"
  /\ Exchanges(t)
  /\ state' = Claimed(t, seen[t])
  /\ Leave(t, Held(t))
  /\ UNCHANGED calls

(* compare_exchange_weak may fail although nothing has changed.            *)
WeakCas(t) == call[t] # "lock" \/ Spinning(t)

(* A failed exchange stores the value that it found in s.                  *)
ClaimFails(t) ==
  /\ pc[t] = "cas"
  /\ state # seen[t] \/ WeakCas(t)
  /\ \/ \* try_lock_shared repeats the exchange until a writer is there
        /\ call[t] = "try_lock_shared"
        /\ \/ state >= 0 /\ See(t, state) /\ UNCHANGED <<pc, call, iter>>
           \/ state < 0 /\ Leave(t, "idle")
     \/ \* back off and spin on
        /\ call[t] # "try_lock_shared" /\ Spinning(t)
        /\ Goto(t, "load") /\ Again(t) /\ See(t, 0) /\ UNCHANGED call
     \/ \* await notification from whoever won the race
        /\ call[t] = "lock" /\ ~Spinning(t)
        /\ Goto(t, "wait") /\ See(t, state) /\ UNCHANGED <<call, iter>>
     \/ /\ call[t] = "lock_shared" /\ ~Spinning(t)
        /\ Goto(t, "load") /\ Restart(t) /\ See(t, 0) /\ UNCHANGED call
  /\ UNCHANGED <<state, calls>>

(* std::atomic::wait(s): returns at once unless the value is s, else sleeps *)
(* until a notification finds another value.                               *)
Wait(t) ==
  /\ pc[t] \in {"wait", "woken"}
  /\ \/ state = seen[t] /\ Goto(t, "asleep") /\ UNCHANGED <<iter, seen>>
     \/ state # seen[t] /\ Goto(t, "load") /\ Restart(t) /\ See(t, 0)
  /\ UNCHANGED <<state, call, calls>>

TryLock(t) ==
  /\ pc[t] = "idle" /\ calls[t] < MaxCalls
  /\ calls' = [calls EXCEPT ![t] = @ + 1]
  /\ \/ state = 0 /\ state' = -1 /\ Goto(t, "write")
     \/ state # 0 /\ UNCHANGED <<state, pc>>
  /\ UNCHANGED <<call, seen, iter>>

-----------------------------------------------------------------------------
(* Giving it up.                                                           *)

Unlock(t) ==
  /\ pc[t] = "write"
  /\ state' = 0
  /\ Goto(t, IF UseWait THEN "unlocked" ELSE "idle")
  /\ UNCHANGED <<call, seen, iter, calls>>

Downgrade(t) ==
  /\ pc[t] = "write"
  /\ state' = 1
  /\ Goto(t, IF UseWait THEN "downgraded" ELSE "read")
  /\ UNCHANGED <<call, seen, iter, calls>>

(* Wrong: the reader that leaves notifies only while others stay.          *)
NotifiesUnlessLast(s) == s > 1

(* The last reader to leave wakes one sleeper.                             *)
Notifies(s) == s = 1

UnlockShared(t) ==
  /\ pc[t] = "read"
  /\ state' = state - 1
  /\ Goto(t, IF UseWait /\ Notifies(state) THEN "unshared" ELSE "idle")
  /\ UNCHANGED <<call, seen, iter, calls>>

(* Wrong: a reader upgrades whoever else is reading.                       *)
UpgradableAlways == state >= 1

Upgradable == state = 1

TryUpgrade(t) ==
  /\ pc[t] = "read"
  /\ Upgradable
  /\ state' = -1 /\ Goto(t, "write")
  /\ UNCHANGED <<call, seen, iter, calls>>

(* upgrade_or_relock: when the upgrade fails because others are reading,   *)
(* unlock_shared() and then lock().                                        *)
UpgradeFails(t) ==
  /\ pc[t] = "read"
  /\ ~Upgradable
  /\ Goto(t, "relock")
  /\ UNCHANGED <<state, call, seen, iter, calls>>

Relock(t) ==
  /\ pc[t] = "relock"
  /\ state' = state - 1
  /\ call' = [call EXCEPT ![t] = "lock"]
  /\ Goto(t, IF UseWait /\ Notifies(state) THEN "relocking" ELSE "load")
  /\ UNCHANGED <<seen, iter, calls>>

(* notify_all and notify_one                                               *)
NotifyAll(t) ==
  /\ pc[t] \in {"unlocked", "downgraded"}
  /\ pc' = [u \in Threads |->
              IF u = t THEN (IF pc[t] = "unlocked" THEN "idle" ELSE "read")
              ELSE IF u \in Asleep THEN "woken" ELSE pc[u]]
  /\ UNCHANGED <<state, call, seen, iter, calls>>

AfterNotifyOne(t) == IF pc[t] = "unshared" THEN "idle" ELSE "load"

NotifyOne(t) ==
  /\ pc[t] \in {"unshared", "relocking"}
  /\ \/ Asleep = {} /\ Goto(t, AfterNotifyOne(t))
     \/ \E u \in Asleep :
          pc' = [pc EXCEPT ![t] = AfterNotifyOne(t), ![u] = "woken"]
  /\ UNCHANGED <<state, call, seen, iter, calls>>

-----------------------------------------------------------------------------
Init ==
  /\ state = 0
  /\ pc = [t \in Threads |-> "idle"]
  /\ call = [t \in Threads |-> "none"]
  /\ seen = [t \in Threads |-> 0]
  /\ iter = [t \in Threads |-> 0]
  /\ calls = [t \in Threads |-> 0]

(* The steps of a thread that is inside a function of the mutex.           *)
Step(t) ==
  \/ Load(t) \/ Claim(t) \/ ClaimFails(t) \/ Wait(t)
  \/ NotifyAll(t) \/ NotifyOne(t) \/ Relock(t)

Next ==
  \E t \in Threads :
    \/ \E f \in Calls : Call(t, f)
    \/ TryLock(t) \/ Unlock(t) \/ Downgrade(t) \/ UnlockShared(t)
    \/ TryUpgrade(t) \/ UpgradeFails(t) \/ Step(t)

Spec == Init /\ [][Next]_vars

(* A thread is not suspended for ever, the owner of a lock gives it up,    *)
(* and compare_exchange_weak does not fail every time.                     *)
FairSpec ==
  /\ Spec
  /\ \A t \in Threads :
       /\ WF_vars(Step(t)) /\ SF_vars(Claim(t))
       /\ SF_vars(Unlock(t) \/ UnlockShared(t))

-----------------------------------------------------------------------------
Writers == {t \in Threads : pc[t] = "write"}
Readers == {t \in Threads : pc[t] \in {"read", "downgraded", "relock"}}

TypeOK ==
  /\ state \in Int
  /\ pc \in [Threads -> Places]
  /\ call \in [Threads -> Calls \cup {"none"}]
  /\ seen \in [Threads -> Int]
  /\ iter \in [Threads -> 0 .. SpinIterations]
  /\ calls \in [Threads -> 0 .. MaxCalls]

(* state_ says who holds the mutex, and nobody else does: what the asserts *)
(* "Mutex was not write-locked!", "Mutex was not read-locked!" and "Mutex  *)
(* reader overflow!" check, and what num_shared_locks returns.             *)
StateCountsHolders ==
  \/ \E t \in Threads : Writers = {t} /\ Readers = {} /\ state = -1
  \/ Writers = {} /\ state = Cardinality(Readers)

(* No lost wake-up: while a thread sleeps, some thread is awake that holds *)
(* the mutex, is about to notify, or is after the mutex itself, so that it *)
(* will notify when it gives it up.                                        *)
Busy == {t \in Threads : pc[t] \notin {"idle", "asleep"}}

NoLostWakeUp == Asleep # {} => Busy # {}

(* A thread about to sleep saw a value at which the mutex was taken.       *)
SleepersSawOwner ==
  \A t \in Threads :
    /\ pc[t] \in {"wait", "asleep", "woken"} =>
         UseWait /\ ~Claimable(t, seen[t]) /\ call[t] # "try_lock_shared"
    /\ pc[t] = "cas" => Claimable(t, seen[t])

(* The inductive invariant.                                                *)
IInv == TypeOK /\ StateCountsHolders /\ NoLostWakeUp /\ SleepersSawOwner

R == INSTANCE RWLock WITH writers <- Writers, readers <- Readers

(* The mutex is a shared lock: exclusive owners exclude everybody else,    *)
(* and nobody gets in between when an exclusive hold becomes a shared one  *)
(* or the only shared hold an exclusive one.                               *)
ImplementsRWLock == R!Spec

(* If the demand is finite, every call returns: nobody sleeps on, and      *)
(* readers that call upgrade_or_relock at the same time do not wait for    *)
(* one another ("which would cause a deadlock").                           *)
CallsReturn ==
  \A t \in Threads :
    pc[t] \in {"load", "relock"} ~> pc[t] \in {"write", "read", "idle"}
===============================================================================
