------------------------- MODULE SpinWaitMutexProofs -------------------------
(***************************************************************************)
(* spin_wait_mutex is a shared lock and loses no wake-up, for any number   *)
(* of threads that state_type can count, any number of spin iterations,    *)
(* and with or without std::atomic::wait.                                  *)
(***************************************************************************)
EXTENDS SpinWaitMutex, TLAPS, FiniteSetTheorems

-----------------------------------------------------------------------------
(* Types.                                                                  *)

(* Initially the variables are well typed.                                 *)
LEMMA InitType ==
  ASSUME Init
  PROVE  TypeOK
BY MutexAssumption DEF Init, TypeOK, Places

(* The counter of spin iterations stays within its bound.                  *)
LEMMA CappedType ==
  ASSUME NEW i \in Nat
  PROVE  Capped(i) \in 0 .. SpinIterations
BY MutexAssumption DEF Capped

(* Leaving a function of the mutex keeps the locals of the thread typed.   *)
LEMMA LeaveType ==
  ASSUME TypeOK, NEW t \in Threads, NEW place \in Places, Leave(t, place)
  PROVE  /\ pc' \in [Threads -> Places]
         /\ call' \in [Threads -> Calls \cup {"none"}]
         /\ seen' \in [Threads -> Int]
         /\ iter' \in [Threads -> 0 .. SpinIterations]
BY MutexAssumption DEF Leave, Goto, See, TypeOK

(* Every step keeps the variables well typed.                              *)
LEMMA NextType ==
  ASSUME TypeOK, [Next]_vars
  PROVE  TypeOK'
<1>1. CASE UNCHANGED vars
  BY <1>1 DEF TypeOK, vars
<1>2. ASSUME NEW t \in Threads, NEW f \in Calls, Call(t, f)
      PROVE  TypeOK'
  BY <1>2, MutexAssumption DEF TypeOK, Call, Goto, Places
<1>3. ASSUME NEW t \in Threads, TryLock(t)
      PROVE  TypeOK'
  BY <1>3, MutexAssumption DEF TypeOK, TryLock, Goto, Places
<1>4. ASSUME NEW t \in Threads,
             \/ Unlock(t) \/ Downgrade(t) \/ UnlockShared(t) \/ TryUpgrade(t)
             \/ UpgradeFails(t) \/ Relock(t)
      PROVE  TypeOK'
  BY <1>4 DEF TypeOK, Unlock, Downgrade, UnlockShared, TryUpgrade, UpgradeFails,
              Relock, Goto, Places, Calls
<1>5. ASSUME NEW t \in Threads, Load(t)
      PROVE  TypeOK'
  <2>1. CASE Leave(t, "idle")
    BY <1>5, <2>1, LeaveType DEF Load, TypeOK, Places
  <2>2. CASE /\ Goto(t, "cas") \/ Goto(t, "wait")
             /\ See(t, state) /\ UNCHANGED <<call, iter>>
    BY <1>5, <2>2 DEF Load, TypeOK, Places, Goto, See
  <2>3. CASE Again(t) /\ UNCHANGED <<pc, call, seen>>
    <3>1. Capped(iter[t] + 1) \in 0 .. SpinIterations
      BY CappedType, MutexAssumption DEF TypeOK
    <3> QED  BY <1>5, <2>3, <3>1 DEF Load, TypeOK, Again
  <2> QED  BY <1>5, <2>1, <2>2, <2>3 DEF Load
<1>6. ASSUME NEW t \in Threads, Claim(t)
      PROVE  TypeOK'
  <2>1. Held(t) \in Places
    BY DEF Held, Places
  <2>2. Claimed(t, seen[t]) \in Int
    BY MutexAssumption DEF Claimed, TypeOK
  <2> QED  BY <1>6, <2>1, <2>2, LeaveType DEF Claim, TypeOK
<1>7. ASSUME NEW t \in Threads, ClaimFails(t)
      PROVE  TypeOK'
  <2>1. Capped(iter[t] + 1) \in 0 .. SpinIterations /\ Capped(1) \in 0 .. SpinIterations
    BY CappedType, MutexAssumption DEF TypeOK
  <2>2. CASE See(t, state) /\ UNCHANGED <<pc, call, iter>>
    BY <1>7, <2>2 DEF ClaimFails, TypeOK, See
  <2>3. CASE Leave(t, "idle")
    BY <1>7, <2>3, LeaveType DEF ClaimFails, TypeOK, Places
  <2>4. CASE Goto(t, "load") /\ (Again(t) \/ Restart(t)) /\ See(t, 0) /\ UNCHANGED call
    BY <1>7, <2>1, <2>4 DEF ClaimFails, TypeOK, Places, Goto, Again, Restart, See
  <2>5. CASE Goto(t, "wait") /\ See(t, state) /\ UNCHANGED <<call, iter>>
    BY <1>7, <2>5 DEF ClaimFails, TypeOK, Places, Goto, See
  <2> QED  BY <1>7, <2>2, <2>3, <2>4, <2>5 DEF ClaimFails
<1>8. ASSUME NEW t \in Threads, Wait(t)
      PROVE  TypeOK'
  <2>1. Capped(1) \in 0 .. SpinIterations
    BY CappedType
  <2> QED  BY <1>8, <2>1 DEF Wait, TypeOK, Places, Goto, Restart, See
<1>9. ASSUME NEW t \in Threads, NotifyAll(t) \/ NotifyOne(t)
      PROVE  TypeOK'
  BY <1>9 DEF NotifyAll, NotifyOne, AfterNotifyOne, TypeOK, Places, Goto, Asleep
<1> QED
  BY <1>1, <1>2, <1>3, <1>4, <1>5, <1>6, <1>7, <1>8, <1>9 DEF Next, Step

-----------------------------------------------------------------------------
(* What the steps do to the holders and to state_.                         *)

(* Sets of threads are finite.                                             *)
LEMMA ThreadsFinite ==
  ASSUME NEW S \in SUBSET Threads
  PROVE  /\ IsFiniteSet(S) /\ Cardinality(S) \in Nat
         /\ Cardinality(S) <= Cardinality(Threads)
BY MutexAssumption, FS_Subset, FS_CardinalityType

(* The holders when one thread moves to another place.                     *)
LEMMA HoldersMove ==
  ASSUME TypeOK, NEW t \in Threads, NEW place, Goto(t, place)
  PROVE  /\ place = "write" => Writers' = Writers \cup {t}
         /\ place # "write" => Writers' = Writers \ {t}
         /\ place \in {"read", "downgraded", "relock"} => Readers' = Readers \cup {t}
         /\ place \notin {"read", "downgraded", "relock"} => Readers' = Readers \ {t}
BY DEF Goto, Writers, Readers, TypeOK

(* The holders and state_ stay as they are.                                *)
Quiet == UNCHANGED <<state, Writers, Readers>>

Enters(t) ==
  /\ state = 0 /\ state' = -1
  /\ Writers' = Writers \cup {t} /\ Readers' = Readers

Joins(t) ==
  /\ state >= 0
  /\ state' = IF state = MaxReaders THEN -MaxReaders - 1 ELSE state + 1
  /\ t \notin Readers /\ Readers' = Readers \cup {t} /\ Writers' = Writers

Exits(t) ==
  /\ t \in Writers
  /\ state' = 0 /\ Writers' = Writers \ {t} /\ Readers' = Readers

Parts(t) ==
  /\ t \in Readers
  /\ state' = state - 1 /\ Readers' = Readers \ {t} /\ Writers' = Writers

Demotes(t) ==
  /\ t \in Writers
  /\ state' = 1 /\ Writers' = Writers \ {t} /\ Readers' = Readers \cup {t}

Promotes(t) ==
  /\ t \in Readers
  /\ state = 1 /\ state' = -1
  /\ Readers' = Readers \ {t} /\ Writers' = Writers \cup {t}

(* Every step does one of these.                                           *)
LEMMA HolderCases ==
  ASSUME TypeOK, SleepersSawOwner, [Next]_vars
  PROVE  \/ Quiet
         \/ \E t \in Threads : \/ Enters(t) \/ Joins(t) \/ Exits(t) \/ Parts(t)
                               \/ Demotes(t) \/ Promotes(t)
<1>1. CASE UNCHANGED vars
  BY <1>1 DEF vars, Quiet, Writers, Readers
<1>2. ASSUME NEW t \in Threads, NEW place, Goto(t, place),
             pc[t] \notin {"write", "read", "downgraded", "relock"},
             place \notin {"write", "read", "downgraded", "relock"}, state' = state
      PROVE  Quiet
  <2>1. t \notin Writers /\ t \notin Readers
    BY <1>2 DEF Writers, Readers
  <2> QED  BY <1>2, <2>1, HoldersMove DEF Quiet
<1>3. ASSUME NEW t \in Threads, NEW f \in Calls, Call(t, f)
      PROVE  Quiet
  BY <1>2, <1>3 DEF Call
<1>4. ASSUME NEW t \in Threads, TryLock(t)
      PROVE  Quiet \/ Enters(t)
  <2>1. CASE state = 0 /\ state' = -1 /\ Goto(t, "write")
    <3>1. t \notin Writers /\ t \notin Readers
      BY <1>4 DEF TryLock, Writers, Readers
    <3> QED  BY <2>1, <3>1, HoldersMove DEF Enters
  <2>2. CASE UNCHANGED <<state, pc>>
    BY <2>2 DEF Quiet, Writers, Readers
  <2> QED  BY <1>4, <2>1, <2>2 DEF TryLock
<1>5. ASSUME NEW t \in Threads, Unlock(t)
      PROVE  Exits(t)
  <2>1. t \in Writers /\ t \notin Readers
    BY <1>5 DEF Unlock, Writers, Readers
  <2> QED  BY <1>5, <2>1, HoldersMove DEF Unlock, Exits
<1>6. ASSUME NEW t \in Threads, Downgrade(t)
      PROVE  Demotes(t)
  <2>1. t \in Writers /\ t \notin Readers
    BY <1>6 DEF Downgrade, Writers, Readers
  <2> QED  BY <1>6, <2>1, HoldersMove DEF Downgrade, Demotes
<1>7. ASSUME NEW t \in Threads, UnlockShared(t)
      PROVE  Parts(t)
  <2>1. t \notin Writers /\ t \in Readers
    BY <1>7 DEF UnlockShared, Writers, Readers
  <2> QED  BY <1>7, <2>1, HoldersMove DEF UnlockShared, Parts
<1>8. ASSUME NEW t \in Threads, TryUpgrade(t)
      PROVE  Promotes(t)
  <2>1. t \notin Writers /\ t \in Readers
    BY <1>8 DEF TryUpgrade, Writers, Readers
  <2> QED  BY <1>8, <2>1, HoldersMove DEF TryUpgrade, Upgradable, Promotes
<1>9. ASSUME NEW t \in Threads, Claim(t)
      PROVE  Enters(t) \/ Joins(t)
  <2>1. t \notin Writers /\ t \notin Readers
    BY <1>9 DEF Claim, Writers, Readers
  <2>2. Claimable(t, state) /\ state' = Claimed(t, state)
    BY <1>9 DEF Claim, Exchanges, SleepersSawOwner
  <2>3. CASE call[t] = "lock"
    BY <1>9, <2>1, <2>2, <2>3, HoldersMove
       DEF Claim, Leave, Held, Claimable, Claimed, Enters
  <2>4. CASE call[t] # "lock"
    <3>1. Goto(t, "read")
      BY <1>9, <2>4 DEF Claim, Leave, Held
    <3>2. Readers' = Readers \cup {t} /\ Writers' = Writers
      BY <2>1, <3>1, HoldersMove
    <3> QED  BY <2>1, <2>2, <2>4, <3>2 DEF Claimable, Claimed, Joins
  <2> QED  BY <2>3, <2>4
<1>10. ASSUME NEW t \in Threads, Load(t) \/ ClaimFails(t) \/ Wait(t)
       PROVE  Quiet
  <2>1. /\ state' = state
        /\ pc[t] \in {"load", "cas", "wait", "woken"}
        /\ \/ pc' = pc
           \/ \E place \in {"idle", "load", "cas", "wait", "asleep"} :
                Goto(t, place)
    BY <1>10 DEF Load, ClaimFails, Wait, Leave
  <2>2. CASE pc' = pc
    BY <2>1, <2>2 DEF Quiet, Writers, Readers
  <2>3. CASE \E place \in {"idle", "load", "cas", "wait", "asleep"} :
               Goto(t, place)
    BY <1>2, <2>1, <2>3
  <2> QED  BY <2>1, <2>2, <2>3
<1>11. ASSUME NEW t \in Threads, NotifyAll(t) \/ NotifyOne(t)
       PROVE  Quiet
  BY <1>11 DEF NotifyAll, NotifyOne, AfterNotifyOne, Goto, Asleep, Quiet, Writers, Readers, TypeOK
<1>12. ASSUME NEW t \in Threads, UpgradeFails(t)
       PROVE  Quiet
  <2>1. t \notin Writers /\ t \in Readers
    BY <1>12 DEF UpgradeFails, Writers, Readers
  <2> QED  BY <1>12, <2>1, HoldersMove DEF UpgradeFails, Quiet
<1>13. ASSUME NEW t \in Threads, Relock(t)
       PROVE  Parts(t)
  <2>1. t \notin Writers /\ t \in Readers
    BY <1>13 DEF Relock, Writers, Readers
  <2> QED  BY <1>13, <2>1, HoldersMove DEF Relock, Parts
<1> QED
  BY <1>1, <1>3, <1>4, <1>5, <1>6, <1>7, <1>8, <1>9, <1>10, <1>11, <1>12, <1>13
     DEF Next, Step

(* state_ keeps saying who holds the mutex.                                *)
LEMMA HoldersCounted ==
  ASSUME TypeOK, SleepersSawOwner, StateCountsHolders, [Next]_vars
  PROVE  StateCountsHolders'
<1>1. /\ Readers \in SUBSET Threads /\ IsFiniteSet(Readers)
      /\ Cardinality(Readers) \in Nat
      /\ Cardinality({}) = 0
  BY ThreadsFinite, FS_EmptySet DEF Readers
<1>2. CASE Quiet
  BY <1>2 DEF Quiet, StateCountsHolders
<1>3. ASSUME NEW t \in Threads, Enters(t)
      PROVE  StateCountsHolders'
  <2>1. Writers = {} /\ Cardinality(Readers) = 0
    BY <1>3 DEF Enters, StateCountsHolders
  <2>2. Readers = {}
    BY <1>1, <2>1, FS_EmptySet
  <2> QED  BY <1>3, <2>1, <2>2 DEF Enters, StateCountsHolders
<1>4. ASSUME NEW t \in Threads, Joins(t)
      PROVE  StateCountsHolders'
  <2>1. Writers = {} /\ state = Cardinality(Readers)
    BY <1>4 DEF Joins, StateCountsHolders
  <2>2. Cardinality(Readers \cup {t}) = Cardinality(Readers) + 1
    BY <1>1, <1>4, FS_AddElement DEF Joins
  <2>3. Cardinality(Readers \cup {t}) <= Cardinality(Threads)
    BY <1>1, ThreadsFinite
  <2>4. state # MaxReaders
    BY <1>1, <2>1, <2>2, <2>3, ReadersAssumption, ThreadsFinite, MutexAssumption
  <2> QED  BY <1>4, <2>1, <2>2, <2>4 DEF Joins, StateCountsHolders
<1>5. ASSUME NEW t \in Threads, Exits(t)
      PROVE  StateCountsHolders'
  <2>1. Writers = {t} /\ Readers = {}
    BY <1>5 DEF Exits, StateCountsHolders
  <2> QED  BY <1>1, <1>5, <2>1 DEF Exits, StateCountsHolders
<1>6. ASSUME NEW t \in Threads, Parts(t)
      PROVE  StateCountsHolders'
  <2>1. Writers = {} /\ state = Cardinality(Readers)
    BY <1>6 DEF Parts, StateCountsHolders
  <2>2. Cardinality(Readers \ {t}) = Cardinality(Readers) - 1
    BY <1>1, <1>6, FS_RemoveElement DEF Parts
  <2> QED  BY <1>6, <2>1, <2>2 DEF Parts, StateCountsHolders
<1>7. ASSUME NEW t \in Threads, Demotes(t)
      PROVE  StateCountsHolders'
  <2>1. Writers = {t} /\ Readers = {}
    BY <1>7 DEF Demotes, StateCountsHolders
  <2>2. Cardinality({t}) = 1
    BY FS_Singleton
  <2>3. Writers' = {} /\ Readers' = {t} /\ state' = 1
    BY <1>7, <2>1 DEF Demotes
  <2> QED  BY <2>2, <2>3 DEF StateCountsHolders
<1>8. ASSUME NEW t \in Threads, Promotes(t)
      PROVE  StateCountsHolders'
  <2>1. Writers = {} /\ Cardinality(Readers) = 1
    BY <1>8 DEF Promotes, StateCountsHolders
  <2>2. Readers = {t}
    BY <1>1, <1>8, <2>1, FS_Singleton DEF Promotes
  <2> QED  BY <1>8, <2>1, <2>2 DEF Promotes, StateCountsHolders
<1> QED
  BY <1>2, <1>3, <1>4, <1>5, <1>6, <1>7, <1>8, HolderCases

-----------------------------------------------------------------------------
(* What the local of a thread that may sleep says.                         *)
SawOwner(t) ==
  /\ pc[t] \in {"wait", "asleep", "woken"} =>
       UseWait /\ ~Claimable(t, seen[t]) /\ call[t] # "try_lock_shared"
  /\ pc[t] = "cas" => Claimable(t, seen[t])

(* A thread goes to sleep only after it saw the mutex taken.               *)
LEMMA SleepersSaw ==
  ASSUME TypeOK, SleepersSawOwner, [Next]_vars
  PROVE  SleepersSawOwner'
<1> SUFFICES ASSUME NEW u \in Threads PROVE SawOwner(u)'
  BY DEF SleepersSawOwner, SawOwner
<1>1. SawOwner(u)
  BY DEF SleepersSawOwner, SawOwner
<1>2. CASE UNCHANGED vars
  BY <1>1, <1>2 DEF vars, SawOwner, Claimable
<1>3. ASSUME NEW t \in Threads,
             Load(t) \/ Claim(t) \/ ClaimFails(t) \/ Wait(t) \/ TryLock(t)
             \/ Unlock(t) \/ Downgrade(t) \/ UnlockShared(t) \/ TryUpgrade(t)
             \/ UpgradeFails(t) \/ Relock(t) \/ (\E f \in Calls : Call(t, f)),
             t # u
      PROVE  SawOwner(u)'
  <2>1. seen'[u] = seen[u] /\ call'[u] = call[u] /\ pc'[u] = pc[u]
    BY <1>3 DEF Load, Claim, ClaimFails, Wait, TryLock, Unlock, Downgrade,
                UnlockShared, TryUpgrade, UpgradeFails, Relock, Call, Leave, Goto,
                See, TypeOK
  <2> QED  BY <1>1, <2>1 DEF SawOwner, Claimable
<1>4. ASSUME NEW t \in Threads, NotifyAll(t) \/ NotifyOne(t)
      PROVE  SawOwner(u)'
  <2>1. /\ seen'[u] = seen[u] /\ call'[u] = call[u]
        /\ \/ pc'[u] = pc[u] \/ (pc[u] = "asleep" /\ pc'[u] = "woken")
           \/ pc'[u] \in {"idle", "read", "load"}
    <3>1. CASE NotifyAll(t)
      BY <3>1 DEF NotifyAll, Asleep, TypeOK
    <3>2. CASE NotifyOne(t) /\ Goto(t, AfterNotifyOne(t))
      BY <3>2 DEF NotifyOne, AfterNotifyOne, Goto, TypeOK
    <3>3. ASSUME NotifyOne(t), NEW w \in Asleep,
                 pc' = [pc EXCEPT ![t] = AfterNotifyOne(t), ![w] = "woken"]
          PROVE  \/ pc'[u] = pc[u] \/ (pc[u] = "asleep" /\ pc'[u] = "woken")
                 \/ pc'[u] \in {"idle", "read", "load"}
      <4>1. CASE u = w
        BY <3>3, <4>1 DEF Asleep, TypeOK
      <4>2. CASE u # w
        BY <3>3, <4>2 DEF Asleep, AfterNotifyOne, TypeOK
      <4> QED  BY <4>1, <4>2
    <3>4. UNCHANGED <<seen, call>>
      BY <1>4 DEF NotifyAll, NotifyOne
    <3> QED  BY <1>4, <3>1, <3>2, <3>3, <3>4 DEF NotifyOne
  <2>2. CASE pc'[u] \in {"idle", "read", "load"}
    BY <2>2 DEF SawOwner
  <2> QED  BY <1>1, <2>1, <2>2 DEF SawOwner, Claimable
<1>5. CASE \/ Claim(u) \/ TryLock(u) \/ Unlock(u) \/ Downgrade(u) \/ UnlockShared(u)
           \/ TryUpgrade(u) \/ UpgradeFails(u) \/ Relock(u)
           \/ \E f \in Calls : Call(u, f)
  <2>1. pc'[u] \in {"load", "write", "read", "idle", "unlocked", "downgraded", "unshared",
                    "relock", "relocking"}
    BY <1>5 DEF Claim, TryLock, Unlock, Downgrade, UnlockShared, TryUpgrade,
                UpgradeFails, Relock, Call, Leave, Goto, Held, TypeOK
  <2> QED  BY <2>1 DEF SawOwner
<1>6. CASE Load(u)
  <2>1. CASE Claimable(u, state)
    BY <1>6, <2>1 DEF Load, Goto, See, SawOwner, Claimable, TypeOK
  <2>2. CASE ~Claimable(u, state) /\ pc'[u] \in {"idle", "load"}
    BY <2>2 DEF SawOwner
  <2>3. CASE /\ ~Claimable(u, state) /\ call[u] # "try_lock_shared" /\ ~Spinning(u)
             /\ Goto(u, "wait") /\ See(u, state) /\ UNCHANGED <<call, iter>>
    BY <2>3 DEF Goto, See, SawOwner, Claimable, Spinning, TypeOK
  <2> QED  BY <1>6, <2>1, <2>2, <2>3 DEF Load, Leave, Goto, TypeOK
<1>7. CASE ClaimFails(u)
  <2>1. CASE /\ call[u] = "try_lock_shared" /\ state >= 0 /\ See(u, state)
             /\ UNCHANGED <<pc, call, iter>>
    BY <1>7, <2>1 DEF ClaimFails, See, SawOwner, Claimable, TypeOK
  <2>2. CASE pc'[u] \in {"idle", "load"}
    BY <2>2 DEF SawOwner
  <2>3. CASE /\ call[u] = "lock" /\ ~Spinning(u)
             /\ Goto(u, "wait") /\ See(u, state) /\ UNCHANGED <<call, iter>>
    <3>1. state # seen[u]
      BY <1>7, <2>3 DEF ClaimFails, WeakCas
    <3>2. seen[u] = 0
      BY <1>1, <1>7, <2>3 DEF ClaimFails, SawOwner, Claimable
    <3> QED  BY <2>3, <3>1, <3>2 DEF Goto, See, SawOwner, Claimable, Spinning, TypeOK
  <2> QED  BY <1>7, <2>1, <2>2, <2>3 DEF ClaimFails, Leave, Goto, TypeOK
<1>8. CASE Wait(u)
  <2>1. CASE pc'[u] = "asleep" /\ UNCHANGED <<seen, call>>
    BY <1>1, <1>8, <2>1 DEF Wait, SawOwner, Claimable
  <2>2. CASE pc'[u] = "load"
    BY <2>2 DEF SawOwner
  <2> QED  BY <1>8, <2>1, <2>2 DEF Wait, Goto, TypeOK
<1> QED
  BY <1>2, <1>3, <1>4, <1>5, <1>6, <1>7, <1>8 DEF Next, Step

(* No step strands a sleeper.                                              *)
LEMMA NobodyStranded ==
  ASSUME TypeOK, SleepersSawOwner, StateCountsHolders, NoLostWakeUp, [Next]_vars,
         StateCountsHolders'
  PROVE  NoLostWakeUp'
<1> SUFFICES ASSUME Asleep' # {}, state' = 0 PROVE Busy' # {}
  <2>1. state' # 0 => Writers' # {} \/ Readers' # {}
    BY FS_EmptySet DEF StateCountsHolders
  <2>2. Writers' \subseteq Busy' /\ Readers' \subseteq Busy'
    BY DEF Writers, Readers, Busy
  <2> QED  BY <2>1, <2>2 DEF NoLostWakeUp
<1>1. CASE UNCHANGED vars
  BY <1>1 DEF vars, NoLostWakeUp, Asleep, Busy
<1>2. ASSUME NEW t \in Threads, pc'[t] \in Places \ {"idle", "asleep"}
      PROVE  Busy' # {}
  BY <1>2 DEF Busy
<1>3. ASSUME NEW t \in Threads, NEW f \in Calls, Call(t, f)
      PROVE  Busy' # {}
  BY <1>2, <1>3 DEF Call, Goto, TypeOK, Places
<1>4. ASSUME NEW t \in Threads, TryLock(t)
      PROVE  Busy' # {}
  BY <1>4 DEF TryLock
<1>5. ASSUME NEW t \in Threads, Unlock(t)
      PROVE  Busy' # {}
  <2>1. CASE UseWait
    BY <1>2, <1>5, <2>1 DEF Unlock, Goto, TypeOK, Places
  <2>2. CASE ~UseWait
    BY <1>5, <2>2 DEF Unlock, Goto, TypeOK, Asleep, SleepersSawOwner
  <2> QED  BY <2>1, <2>2
<1>6. ASSUME NEW t \in Threads, UnlockShared(t)
      PROVE  Busy' # {}
  <2>1. CASE UseWait /\ state = 1
    BY <1>2, <1>6, <2>1 DEF UnlockShared, Notifies, Goto, TypeOK, Places
  <2>2. CASE ~UseWait
    BY <1>6, <2>2 DEF UnlockShared, Goto, TypeOK, Asleep, SleepersSawOwner
  <2>3. CASE state # 1
    BY <1>6, <2>3 DEF UnlockShared, TypeOK
  <2> QED  BY <2>1, <2>2, <2>3
<1>7. ASSUME NEW t \in Threads, Downgrade(t) \/ TryUpgrade(t)
      PROVE  Busy' # {}
  BY <1>7 DEF Downgrade, TryUpgrade
<1>8. ASSUME NEW t \in Threads, Load(t)
      PROVE  Busy' # {}
  <2>1. state = 0
    BY <1>8 DEF Load
  <2>2. Claimable(t, state)
    BY <2>1 DEF Claimable
  <2> QED  BY <1>2, <1>8, <2>2 DEF Load, Goto, TypeOK, Places
<1>9. ASSUME NEW t \in Threads, Claim(t)
      PROVE  Busy' # {}
  BY <1>2, <1>9 DEF Claim, Leave, Goto, Held, TypeOK, Places
<1>10. ASSUME NEW t \in Threads, ClaimFails(t)
       PROVE  Busy' # {}
  <2>1. state = 0
    BY <1>10 DEF ClaimFails
  <2> QED  BY <1>2, <1>10, <2>1 DEF ClaimFails, Goto, TypeOK, Places
<1>11. ASSUME NEW t \in Threads, Wait(t)
       PROVE  Busy' # {}
  <2>1. state = 0
    BY <1>11 DEF Wait
  <2>2. state # seen[t]
    BY <1>11, <2>1 DEF Wait, SleepersSawOwner, Claimable
  <2> QED  BY <1>2, <1>11, <2>2 DEF Wait, Goto, TypeOK, Places
<1>12. ASSUME NEW t \in Threads, NotifyAll(t)
       PROVE  Busy' # {}
  BY <1>12 DEF NotifyAll, Asleep, TypeOK
<1>13. ASSUME NEW t \in Threads, NotifyOne(t)
       PROVE  Busy' # {}
  <2>1. CASE Asleep = {} /\ Goto(t, AfterNotifyOne(t))
    BY <2>1 DEF Goto, Asleep, AfterNotifyOne, TypeOK
  <2>2. ASSUME NEW u \in Asleep,
               pc' = [pc EXCEPT ![t] = AfterNotifyOne(t), ![u] = "woken"]
        PROVE  Busy' # {}
    BY <1>2, <2>2 DEF Asleep, TypeOK, Places
  <2> QED  BY <1>13, <2>1, <2>2 DEF NotifyOne
<1>14. ASSUME NEW t \in Threads, UpgradeFails(t) \/ Relock(t)
       PROVE  Busy' # {}
  BY <1>2, <1>14 DEF UpgradeFails, Relock, Goto, TypeOK, Places
<1> QED
  BY <1>1, <1>3, <1>4, <1>5, <1>6, <1>7, <1>8, <1>9, <1>10, <1>11, <1>12, <1>13,
     <1>14 DEF Next, Step

(* The invariant holds initially.                                          *)
LEMMA InitInv ==
  ASSUME Init
  PROVE  IInv
<1>1. Writers = {} /\ Readers = {} /\ state = 0 /\ Asleep = {}
  BY DEF Init, Writers, Readers, Asleep
<1>2. StateCountsHolders /\ NoLostWakeUp
  BY <1>1, FS_EmptySet DEF StateCountsHolders, NoLostWakeUp
<1>3. SleepersSawOwner
  BY DEF Init, SleepersSawOwner
<1> QED
  BY <1>2, <1>3, InitType DEF IInv

(* And every step keeps it.                                                *)
LEMMA NextInv ==
  ASSUME IInv, [Next]_vars
  PROVE  IInv'
<1>1. StateCountsHolders'
  BY HoldersCounted DEF IInv
<1>2. NoLostWakeUp'
  BY <1>1, NobodyStranded DEF IInv
<1> QED
  BY <1>1, <1>2, NextType, SleepersSaw DEF IInv

(* state_ always says who holds the mutex: lock, unlock, downgrade, their  *)
(* shared counterparts and try_upgrade never disturb one another.          *)
THEOREM HoldersExact == Spec => []StateCountsHolders
<1>1. IInv => StateCountsHolders
  BY DEF IInv
<1> QED
  BY <1>1, InitInv, NextInv, PTL DEF Spec

(* No interleaving of loads, exchanges, waits and notifications lets every *)
(* thread that is left sleep, although unlock_shared wakes only one.       *)
THEOREM WakeUpsReach == Spec => []NoLostWakeUp
<1>1. IInv => NoLostWakeUp
  BY DEF IInv
<1> QED
  BY <1>1, InitInv, NextInv, PTL DEF Spec

-----------------------------------------------------------------------------
(* Every step is a step of the abstract lock, or none.                     *)
LEMMA StepRefines ==
  ASSUME IInv, [Next]_vars
  PROVE  [R!Next]_(R!vars)
<1>1. IsFiniteSet(Readers) /\ TypeOK /\ SleepersSawOwner /\ StateCountsHolders
  BY ThreadsFinite DEF IInv, Readers
<1>2. CASE Quiet
  BY <1>2 DEF Quiet, R!vars
<1>3. ASSUME NEW t \in Threads, Enters(t)
      PROVE  R!Acquire(t)
  <2>1. Writers = {} /\ Readers = {}
    BY <1>1, <1>3, FS_EmptySet DEF Enters, StateCountsHolders
  <2> QED  BY <1>3, <2>1 DEF Enters, R!Acquire
<1>4. ASSUME NEW t \in Threads, Joins(t)
      PROVE  R!Share(t)
  BY <1>1, <1>4 DEF Joins, StateCountsHolders, R!Share
<1>5. ASSUME NEW t \in Threads, Exits(t)
      PROVE  R!Release(t)
  BY <1>1, <1>5 DEF Exits, StateCountsHolders, R!Release
<1>6. ASSUME NEW t \in Threads, Parts(t)
      PROVE  R!Unshare(t)
  BY <1>6 DEF Parts, R!Unshare
<1>7. ASSUME NEW t \in Threads, Demotes(t)
      PROVE  R!Downgrade(t)
  <2>1. Writers = {t} /\ Readers = {}
    BY <1>1, <1>7 DEF Demotes, StateCountsHolders
  <2> QED  BY <1>7, <2>1 DEF Demotes, R!Downgrade
<1>8. ASSUME NEW t \in Threads, Promotes(t)
      PROVE  R!Upgrade(t)
  <2>1. Writers = {} /\ Cardinality(Readers) = 1
    BY <1>1, <1>8 DEF Promotes, StateCountsHolders
  <2>2. Readers = {t}
    BY <1>1, <1>8, <2>1, FS_Singleton DEF Promotes
  <2> QED  BY <1>8, <2>1, <2>2 DEF Promotes, R!Upgrade
<1> QED
  BY <1>1, <1>2, <1>3, <1>4, <1>5, <1>6, <1>7, <1>8, HolderCases DEF R!Next

(* spin_wait_mutex implements the abstract shared lock.                    *)
THEOREM MutexRefinesLock == Spec => ImplementsRWLock
<1>1. Init => R!Init
  BY DEF Init, R!Init, Writers, Readers
<1> QED
  BY <1>1, InitInv, NextInv, StepRefines, PTL DEF Spec, ImplementsRWLock, R!Spec
===============================================================================
