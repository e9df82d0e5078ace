---------------------------- MODULE ClusterMutex ----------------------------
(***************************************************************************)
(* The cluster mutex of the plugin API (pluginapi/cluster/mutex.go): a key *)
(* in the plugins' key-value store that expires unless its holder writes   *)
(* it again. Its value is always the same, so it does not say who holds    *)
(* the mutex. A locker is a plugin instance with its Mutex object.         *)
(*                                                                         *)
(* Time goes in ticks. MaxDelay is how long a call to the store may take,  *)
(* with what goes on around it. Every call computes the key's ExpireAt     *)
(* when it begins, so that the key has lost some of its life when the      *)
(* store writes it.                                                        *)
(***************************************************************************)
EXTENDS Integers, FiniteSets

CONSTANTS
  Lockers,
  NoLocker,
  ttl,              \* the key expires after so many ticks (15 s in the code)
  refreshInterval,  \* the period of the refresh task (ttl / 2)
  MaxDelay,
  MaxFaults,        \* bound: errors and crashes
  FaultKinds        \* "lock", "refresh", "unlock": calls that fail; "crash"

ASSUME NoLockerAssumption == NoLocker \notin Lockers
ASSUME MaxDelayAssumption == MaxDelay \in Nat
ASSUME RefreshIntervalAssumption ==
  refreshInterval \in Nat /\ refreshInterval > MaxDelay
ASSUME TtlAssumption ==
  ttl \in Nat /\ ttl > refreshInterval + 3 * MaxDelay
ASSUME MaxFaultsAssumption == MaxFaults \in Nat

VARIABLES
  expiry,     \* ticks until the key expires; 0 when there is no key
  pc,         \* where each locker is
  refresher,  \* its refresh task: not running, waiting for the ticker, or due
  ticker,     \* ticks until its ticker fires
  late,       \* ticks since the step it is about to do could be done
  unrefreshed, \* history: a refresh has failed while its locker held the mutex
  faults

vars == <<expiry, pc, refresher, ticker, late, unrefreshed, faults>>

\* "acquired": the store has the key, and the call has not come back yet.
PCs == {"idle", "waiting", "acquired", "locked", "unlocking"}

TypeOK ==
  /\ expiry \in 0 .. ttl
  /\ pc \in [Lockers -> PCs]
  /\ refresher \in [Lockers -> {"off", "on", "due"}]
  /\ ticker \in [Lockers -> 1 .. refreshInterval]
  /\ late \in [Lockers -> 0 .. MaxDelay]
  /\ unrefreshed \in BOOLEAN
  /\ faults \in 0 .. MaxFaults

Init ==
  /\ expiry = 0
  /\ pc = [p \in Lockers |-> "idle"]
  /\ refresher = [p \in Lockers |-> "off"]
  /\ ticker = [p \in Lockers |-> refreshInterval]
  /\ late = [p \in Lockers |-> 0]
  /\ unrefreshed = FALSE
  /\ faults = 0

Fault(kind) ==
  /\ kind \in FaultKinds
  /\ faults < MaxFaults
  /\ faults' = faults + 1

----------------------------------------------------------------------------
(* LockWithContext. *)

Lock(p) ==
  /\ pc[p] = "idle"
  /\ pc' = [pc EXCEPT ![p] = "waiting"]
  /\ UNCHANGED <<expiry, refresher, ticker, late, unrefreshed, faults>>

\* The context is done.
GiveUp(p) ==
  /\ pc[p] = "waiting"
  /\ pc' = [pc EXCEPT ![p] = "idle"]
  /\ UNCHANGED <<expiry, refresher, ticker, late, unrefreshed, faults>>

\* A slip: the key is overwritten, whoever holds the mutex.
TryLockNotAtomic(p) ==
  /\ pc[p] = "waiting"
  /\ \E d \in 0 .. MaxDelay : expiry' = ttl - d /\ late' = [late EXCEPT ![p] = d]
  /\ pc' = [pc EXCEPT ![p] = "acquired"]
  /\ UNCHANGED <<refresher, ticker, unrefreshed, faults>>

\* tryLock: the key is inserted if there is none. (If there is, or the store is
\* out of reach, nothing changes and the locker tries again after a while.)
TryLock(p) ==
  /\ pc[p] = "waiting"
  /\ expiry = 0
  /\ \E d \in 0 .. MaxDelay : expiry' = ttl - d /\ late' = [late EXCEPT ![p] = d]
  /\ pc' = [pc EXCEPT ![p] = "acquired"]
  /\ UNCHANGED <<refresher, ticker, unrefreshed, faults>>

\* The store inserts the key, but the caller gets an error: nobody holds the
\* mutex until the key expires.
TryLockError(p) ==
  /\ pc[p] = "waiting"
  /\ expiry = 0
  /\ Fault("lock")
  /\ \E d \in 0 .. MaxDelay : expiry' = ttl - d
  /\ UNCHANGED <<pc, refresher, ticker, late, unrefreshed>>

\* The call returns and the refresh task is started.
Locked(p) ==
  /\ pc[p] = "acquired"
  /\ pc' = [pc EXCEPT ![p] = "locked"]
  /\ refresher' = [refresher EXCEPT ![p] = "on"]
  /\ ticker' = [ticker EXCEPT ![p] = refreshInterval]
  /\ late' = [late EXCEPT ![p] = 0]
  /\ UNCHANGED <<expiry, unrefreshed, faults>>

----------------------------------------------------------------------------
(* The refresh task. *)

\* A slip: the key is written with what was left of its life.
RefreshKept(p) ==
  /\ refresher[p] = "due"
  /\ expiry # 0
  /\ refresher' = [refresher EXCEPT ![p] = "on"]
  /\ late' = [late EXCEPT ![p] = 0]
  /\ UNCHANGED <<expiry, pc, ticker, unrefreshed, faults>>

\* refreshLock: the key is there, and its time starts again.
Refresh(p) ==
  /\ refresher[p] = "due"
  /\ expiry # 0
  /\ \E d \in 0 .. late[p] : expiry' = ttl - d
  /\ refresher' = [refresher EXCEPT ![p] = "on"]
  /\ late' = [late EXCEPT ![p] = 0]
  /\ UNCHANGED <<pc, ticker, unrefreshed, faults>>

\* The key is gone: the task logs it and ends. The holder does not hear of it.
RefreshGone(p) ==
  /\ refresher[p] = "due"
  /\ expiry = 0
  /\ refresher' = [refresher EXCEPT ![p] = "off"]
  /\ UNCHANGED <<expiry, pc, ticker, late, unrefreshed, faults>>

\* The call fails, and the task ends in the same way.
RefreshError(p) ==
  /\ refresher[p] = "due"
  /\ Fault("refresh")
  /\ refresher' = [refresher EXCEPT ![p] = "off"]
  /\ unrefreshed' = TRUE
  /\ UNCHANGED <<expiry, pc, ticker, late>>

----------------------------------------------------------------------------
(* Unlock. *)

\* The refresh task is stopped, and waited for.
StopRefresh(p) ==
  /\ pc[p] = "locked"
  /\ pc' = [pc EXCEPT ![p] = "unlocking"]
  /\ refresher' = [refresher EXCEPT ![p] = "off"]
  /\ late' = [late EXCEPT ![p] = 0]
  /\ UNCHANGED <<expiry, ticker, unrefreshed, faults>>

\* The key is deleted, whoever wrote it.
Unlock(p) ==
  /\ pc[p] = "unlocking"
  /\ expiry' = 0
  /\ pc' = [pc EXCEPT ![p] = "idle"]
  /\ UNCHANGED <<refresher, ticker, late, unrefreshed, faults>>

\* The deletion fails, and the error is not looked at.
UnlockError(p) ==
  /\ pc[p] = "unlocking"
  /\ Fault("unlock")
  /\ pc' = [pc EXCEPT ![p] = "idle"]
  /\ UNCHANGED <<expiry, refresher, ticker, late, unrefreshed>>

----------------------------------------------------------------------------

\* The plugin instance dies, with its refresh task, and is started again.
Crash(p) ==
  /\ pc[p] # "idle"
  /\ Fault("crash")
  /\ pc' = [pc EXCEPT ![p] = "idle"]
  /\ refresher' = [refresher EXCEPT ![p] = "off"]
  /\ UNCHANGED <<expiry, ticker, late, unrefreshed>>

\* p has something to do, which takes MaxDelay at most.
Pending(p) == pc[p] \in {"acquired", "unlocking"} \/ refresher[p] = "due"

\* A slip: expiry is not checked for.
AgedBelow(e) == e - 1

\* A slip: the key is written without an expiry.
AgedForever(e) == e

\* What is left of the life of a key after one more tick.
Aged(e) == IF e = 0 THEN 0 ELSE e - 1

Tick ==
  /\ \A p \in Lockers : Pending(p) => late[p] < MaxDelay
  /\ expiry' = Aged(expiry)
  /\ refresher' = [p \in Lockers |->
                     IF refresher[p] = "on" /\ ticker[p] = 1 THEN "due"
                                                            ELSE refresher[p]]
  /\ ticker' = [p \in Lockers |->
                  IF refresher[p] = "off" THEN ticker[p]
                  ELSE IF ticker[p] = 1 THEN refreshInterval ELSE ticker[p] - 1]
  /\ late' = [p \in Lockers |-> IF Pending(p) THEN late[p] + 1 ELSE 0]
  /\ UNCHANGED <<pc, unrefreshed, faults>>

Step(p) == \/ TryLock(p) \/ Locked(p) \/ Refresh(p) \/ RefreshGone(p)
           \/ StopRefresh(p) \/ Unlock(p)

Next ==
  \/ Tick
  \/ \E p \in Lockers : \/ Lock(p) \/ GiveUp(p) \/ Step(p)
                        \/ TryLockError(p) \/ RefreshError(p)
                        \/ UnlockError(p) \/ Crash(p)

Spec == Init /\ [][Next]_vars

\* Time passes and lockers are scheduled; they unlock sooner or later.
FairSpec == /\ Spec
            /\ WF_vars(Tick)
            /\ \A p \in Lockers : WF_vars(Step(p))

----------------------------------------------------------------------------
(* Properties. *)

Holds(p) == pc[p] \in {"acquired", "locked", "unlocking"}

\* "guaranteeing only one instance is executing concurrently" (job.go:175): as
\* long as no refresh has failed, and whatever dies or fails otherwise, the mutex
\* has one holder, because nobody's key expires while he holds it. One refresh
\* that fails ends it for good: the holder is not told, and his next unlock
\* deletes the key of another, and so on.
Alone == \A p, q \in Lockers : Holds(p) /\ Holds(q) => p = q
OneHolder == unrefreshed \/ Alone

\* The mutex is a lock: it goes from one holder to the next through being free.
\* With the first refresh that fails the promise ends, and the lock is let go.
Held == ~ unrefreshed /\ \E p \in Lockers : Holds(p)
Owner == IF Held THEN CHOOSE p \in Lockers : Holds(p) ELSE NoLocker
Abstract == INSTANCE ClusterLock WITH owner <- Owner
ImplementsLock == Abstract!Spec

\* A holder that died, or could not delete the key, does not keep the others out
\* for ever: who goes on waiting sees somebody get the mutex.
NobodyBarred ==
  \A p \in Lockers :
    pc[p] = "waiting" ~> pc[p] # "waiting" \/ \E q \in Lockers : Holds(q)
=============================================================================
