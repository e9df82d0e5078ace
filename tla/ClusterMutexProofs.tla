------------------------- MODULE ClusterMutexProofs -------------------------
(***************************************************************************)
(* Theorems about ClusterMutex: for any number of plugin instances and any *)
(* times that meet the assumptions, the mutex is a lock until a refresh     *)
(* fails.                                                                  *)
(***************************************************************************)
EXTENDS ClusterMutex, TLAPS

\* How much life the key of a holder has left, at least, at each place: what
\* went by since it was last written, and a delay for the calls under way.
Margin(p) ==
  /\ pc[p] = "locked" <=> refresher[p] # "off"
  /\ pc[p] = "acquired" => expiry >= ttl - late[p]
  /\ refresher[p] = "on" =>
       expiry >= ttl - MaxDelay - (refreshInterval - ticker[p])
  /\ refresher[p] = "due" =>
       /\ late[p] = refreshInterval - ticker[p]
       /\ expiry >= ttl - MaxDelay - refreshInterval - late[p]
  /\ pc[p] = "unlocking" =>
       expiry >= ttl - 2 * MaxDelay - refreshInterval - late[p]

Safe == TypeOK /\ Alone /\ \A p \in Lockers : Margin(p)

\* Nothing but the types is left once a refresh has failed.
IInv == TypeOK /\ (unrefreshed \/ Safe)

USE MaxDelayAssumption, RefreshIntervalAssumption, TtlAssumption, MaxFaultsAssumption

\* The key of a holder is there.
LEMMA HolderHasKey ==
  ASSUME Safe, NEW p \in Lockers, Holds(p)
  PROVE  expiry \in Nat /\ expiry > 0
<1>1. /\ expiry \in 0 .. ttl /\ pc[p] \in PCs /\ late[p] \in 0 .. MaxDelay
      /\ ticker[p] \in 1 .. refreshInterval
      /\ refresher[p] \in {"off", "on", "due"}
  BY DEF Safe, TypeOK
<1>2. Margin(p)
  BY DEF Safe
<1>3. CASE pc[p] = "acquired"
  BY <1>1, <1>2, <1>3 DEF Margin
<1>4. CASE pc[p] = "locked"
  <2>1. CASE refresher[p] = "on"
    BY <1>1, <1>2, <2>1 DEF Margin
  <2>2. CASE refresher[p] = "due"
    BY <1>1, <1>2, <2>2 DEF Margin
  <2> QED BY <1>1, <1>2, <1>4, <2>1, <2>2 DEF Margin
<1>5. CASE pc[p] = "unlocking"
  BY <1>1, <1>2, <1>5 DEF Margin
<1> QED BY <1>3, <1>4, <1>5 DEF Holds

LEMMA InitTypeOK == Init => TypeOK
<1>1. Init => unrefreshed \in BOOLEAN
  BY Zenon DEF Init
<1> QED BY <1>1 DEF Init, TypeOK, PCs

LEMMA InitIInv == Init => IInv
<1>1. Init => Alone /\ \A p \in Lockers : Margin(p)
  BY DEF Init, Alone, Margin, Holds, PCs
<1> QED BY <1>1, InitTypeOK DEF IInv, Safe

\* Every step keeps the types.
LEMMA NextTypeOK == TypeOK /\ [Next]_vars => TypeOK'
<1> SUFFICES ASSUME TypeOK, [Next]_vars PROVE TypeOK'
  OBVIOUS
<1> USE DEF TypeOK, PCs
<1>1. CASE Tick
  <2>1. expiry' \in 0 .. ttl
    BY <1>1 DEF Tick, Aged
  <2>2. refresher' \in [Lockers -> {"off", "on", "due"}]
    BY <1>1 DEF Tick
  <2>3. ticker' \in [Lockers -> 1 .. refreshInterval]
    BY <1>1 DEF Tick
  <2>4. late' \in [Lockers -> 0 .. MaxDelay]
    BY <1>1 DEF Tick
  <2> QED BY <1>1, <2>1, <2>2, <2>3, <2>4 DEF Tick
<1>2. ASSUME NEW p \in Lockers, Lock(p) \/ GiveUp(p) PROVE TypeOK'
  BY <1>2 DEF Lock, GiveUp
<1>3. ASSUME NEW p \in Lockers, Step(p) PROVE TypeOK'
  <2>1. CASE TryLock(p)
    BY <2>1 DEF TryLock
  <2>2. CASE Locked(p)
    BY <2>2 DEF Locked
  <2>3. CASE Refresh(p)
    BY <2>3 DEF Refresh
  <2>4. CASE RefreshGone(p)
    BY <2>4 DEF RefreshGone
  <2>5. CASE StopRefresh(p)
    BY <2>5 DEF StopRefresh
  <2>6. CASE Unlock(p)
    BY <2>6 DEF Unlock
  <2> QED BY <1>3, <2>1, <2>2, <2>3, <2>4, <2>5, <2>6 DEF Step
<1>4. ASSUME NEW p \in Lockers,
             TryLockError(p) \/ RefreshError(p) \/ UnlockError(p) \/ Crash(p)
      PROVE  TypeOK'
  <2>1. CASE TryLockError(p)
    BY <2>1 DEF TryLockError, Fault
  <2>2. CASE RefreshError(p)
    BY <2>2 DEF RefreshError, Fault
  <2>3. CASE UnlockError(p)
    BY <2>3 DEF UnlockError, Fault
  <2>4. CASE Crash(p)
    BY <2>4 DEF Crash, Fault
  <2> QED BY <1>4, <2>1, <2>2, <2>3, <2>4
<1>5. CASE UNCHANGED vars
  BY <1>5 DEF vars
<1> QED BY <1>1, <1>2, <1>3, <1>4, <1>5 DEF Next

\* The invariant is inductive but for a refresh that fails.
LEMMA NextSafe ==
  ASSUME Safe, [Next]_vars, ~ unrefreshed'
  PROVE  Safe'
<1> USE DEF Holds, PCs
<1>1. TypeOK /\ TypeOK'
  BY NextTypeOK DEF Safe
<1>2. \A p \in Lockers : Margin(p)
  BY DEF Safe
<1>3. CASE Tick
  <2>1. Alone'
    BY <1>3 DEF Tick, Safe, Alone
  <2> SUFFICES ASSUME NEW p \in Lockers PROVE Margin(p)'
    BY <1>1, <2>1 DEF Safe
  <2>2. /\ Pending(p) => late[p] < MaxDelay
        /\ pc'[p] = pc[p]
        /\ refresher'[p] = IF refresher[p] = "on" /\ ticker[p] = 1 THEN "due"
                                                                  ELSE refresher[p]
        /\ ticker'[p] = IF refresher[p] = "off" THEN ticker[p]
                         ELSE IF ticker[p] = 1 THEN refreshInterval ELSE ticker[p] - 1
        /\ late'[p] = IF Pending(p) THEN late[p] + 1 ELSE 0
    BY <1>3 DEF Tick
  <2>3. /\ expiry \in 0 .. ttl /\ late[p] \in 0 .. MaxDelay
        /\ ticker[p] \in 1 .. refreshInterval /\ pc[p] \in PCs
        /\ refresher[p] \in {"off", "on", "due"}
    BY <1>1 DEF TypeOK
  <2>4. expiry' \in Nat /\ expiry' >= expiry - 1
    BY <1>3, <2>3 DEF Tick, Aged
  <2>5. (pc[p] = "locked" <=> refresher[p] # "off")'
    BY <1>2, <2>2 DEF Margin
  <2>6. (pc[p] = "acquired" => expiry >= ttl - late[p])'
    <3> SUFFICES ASSUME pc[p] = "acquired" PROVE expiry' >= ttl - late'[p]
      BY <2>2
    <3>1. expiry >= ttl - late[p] /\ late'[p] = late[p] + 1
      BY <1>2, <2>2 DEF Margin, Pending
    <3> QED BY <2>3, <2>4, <3>1
  <2>7. (refresher[p] = "on" =>
           expiry >= ttl - MaxDelay - (refreshInterval - ticker[p]))'
    BY <1>2, <2>2, <2>3, <2>4 DEF Margin
  <2>8. (refresher[p] = "due" =>
           /\ late[p] = refreshInterval - ticker[p]
           /\ expiry >= ttl - MaxDelay - refreshInterval - late[p])'
    <3>1. CASE refresher[p] = "on" /\ ticker[p] = 1
      BY <1>2, <2>2, <2>3, <2>4, <2>5, <3>1 DEF Margin, Pending
    <3>2. CASE refresher[p] = "due"
      BY <1>2, <2>2, <2>3, <2>4, <3>2 DEF Margin, Pending
    <3> QED BY <2>2, <3>1, <3>2
  <2>9. (pc[p] = "unlocking" =>
           expiry >= ttl - 2 * MaxDelay - refreshInterval - late[p])'
    <3> SUFFICES ASSUME pc[p] = "unlocking"
                 PROVE  expiry' >= ttl - 2 * MaxDelay - refreshInterval - late'[p]
      BY <2>2
    <3>1. /\ expiry >= ttl - 2 * MaxDelay - refreshInterval - late[p]
          /\ late'[p] = late[p] + 1
      BY <1>2, <2>2 DEF Margin, Pending
    <3> QED BY <2>3, <2>4, <3>1
  <2> QED BY <2>5, <2>6, <2>7, <2>8, <2>9 DEF Margin
<1>4. ASSUME NEW p \in Lockers, Lock(p) \/ GiveUp(p) PROVE Safe'
  <2>1. /\ pc[p] \in {"idle", "waiting"} /\ pc' = [pc EXCEPT ![p] = pc'[p]]
        /\ pc'[p] \in {"idle", "waiting"}
        /\ UNCHANGED <<expiry, refresher, ticker, late>>
    BY <1>1, <1>4 DEF Lock, GiveUp, TypeOK
  <2>2. Alone'
    BY <1>1, <2>1 DEF Safe, Alone, TypeOK
  <2>3. \A q \in Lockers : Margin(q)'
    BY <1>1, <1>2, <2>1 DEF Margin, TypeOK
  <2> QED BY <1>1, <2>2, <2>3 DEF Safe
<1>5. ASSUME NEW p \in Lockers, TryLock(p) PROVE Safe'
  <2>1. \A q \in Lockers : ~ Holds(q)
    BY <1>5, HolderHasKey DEF TryLock
  <2>2. Alone'
    BY <1>1, <1>5, <2>1 DEF TryLock, Alone, TypeOK
  <2>3. PICK d \in 0 .. MaxDelay :
          expiry' = ttl - d /\ late' = [late EXCEPT ![p] = d]
    BY <1>5 DEF TryLock
  <2>4. \A q \in Lockers : Margin(q)'
    BY <1>1, <1>2, <1>5, <2>1, <2>3 DEF TryLock, Margin, TypeOK
  <2> QED BY <1>1, <2>2, <2>4 DEF Safe
<1>6. ASSUME NEW p \in Lockers, Locked(p) PROVE Safe'
  <2>1. Alone'
    BY <1>1, <1>6 DEF Locked, Safe, Alone, TypeOK
  <2>2. \A q \in Lockers : Margin(q)'
    BY <1>1, <1>2, <1>6 DEF Locked, Margin, TypeOK
  <2> QED BY <1>1, <2>1, <2>2 DEF Safe
<1>7. ASSUME NEW p \in Lockers, Refresh(p) PROVE Safe'
  <2>1. Alone'
    BY <1>1, <1>7 DEF Refresh, Safe, Alone, TypeOK
  <2>2. PICK d \in 0 .. late[p] : expiry' = ttl - d
    BY <1>7 DEF Refresh
  <2>3. ASSUME NEW q \in Lockers, q # p PROVE ~ Holds(q) /\ refresher[q] = "off"
    BY <1>2, <1>7, <2>3 DEF Refresh, Margin, Safe, Alone
  <2>4. ASSUME NEW q \in Lockers, q # p PROVE Margin(q)'
    BY <1>2, <1>7, <2>3, <2>4 DEF Refresh, Margin, TypeOK
  <2>5. Margin(p)'
    <3>1. /\ refresher'[p] = "on" /\ ticker'[p] = ticker[p] /\ pc'[p] = pc[p]
          /\ late[p] = refreshInterval - ticker[p] /\ pc[p] = "locked"
      BY <1>1, <1>2, <1>7 DEF Refresh, Margin, TypeOK
    <3> QED BY <1>1, <2>2, <3>1 DEF Margin, TypeOK
  <2> QED BY <1>1, <2>1, <2>4, <2>5 DEF Safe
<1>8. ASSUME NEW p \in Lockers, RefreshGone(p) PROVE FALSE
  BY <1>2, <1>8, HolderHasKey DEF RefreshGone, Margin
<1>9. ASSUME NEW p \in Lockers, StopRefresh(p) PROVE Safe'
  <2>1. Alone'
    BY <1>1, <1>9 DEF StopRefresh, Safe, Alone, TypeOK
  <2>2. ASSUME NEW q \in Lockers, q # p PROVE Margin(q)'
    BY <1>1, <1>2, <1>9, <2>2 DEF StopRefresh, Margin, TypeOK
  <2>3. Margin(p)'
    <3>1. /\ expiry \in 0 .. ttl /\ late[p] \in 0 .. MaxDelay
          /\ ticker[p] \in 1 .. refreshInterval
          /\ refresher[p] \in {"on", "due"}
      BY <1>1, <1>2, <1>9 DEF StopRefresh, Margin, TypeOK
    <3>2. expiry >= ttl - 2 * MaxDelay - refreshInterval
      BY <1>2, <3>1 DEF Margin
    <3>3. /\ pc'[p] = "unlocking" /\ refresher'[p] = "off" /\ late'[p] = 0
          /\ expiry' = expiry
      BY <1>1, <1>9 DEF StopRefresh, TypeOK
    <3> QED BY <3>1, <3>2, <3>3 DEF Margin
  <2> QED BY <1>1, <2>1, <2>2, <2>3 DEF Safe
<1>10. ASSUME NEW p \in Lockers, Unlock(p) PROVE Safe'
  <2>1. \A q \in Lockers : ~ Holds(q)'
    BY <1>1, <1>10 DEF Unlock, Safe, Alone, TypeOK
  <2>2. \A q \in Lockers : refresher'[q] = "off"
    BY <1>1, <1>2, <1>10, <2>1 DEF Unlock, Margin, TypeOK
  <2> QED BY <1>1, <2>1, <2>2 DEF Safe, Alone, Margin
<1>11. ASSUME NEW p \in Lockers, TryLockError(p) PROVE Safe'
  <2>1. \A q \in Lockers : ~ Holds(q)
    BY <1>11, HolderHasKey DEF TryLockError
  <2>2. \A q \in Lockers : ~ Holds(q)' /\ refresher'[q] = "off"
    BY <1>2, <1>11, <2>1 DEF TryLockError, Margin
  <2> QED BY <1>1, <2>2 DEF Safe, Alone, Margin
<1>12. ASSUME NEW p \in Lockers, RefreshError(p) PROVE FALSE
  BY <1>12 DEF RefreshError
<1>13. ASSUME NEW p \in Lockers, UnlockError(p) \/ Crash(p) PROVE Safe'
  <2>1. /\ pc' = [pc EXCEPT ![p] = "idle"] /\ UNCHANGED <<expiry, ticker, late>>
        /\ refresher'[p] = "off"
        /\ \A q \in Lockers : q # p => refresher'[q] = refresher[q]
    BY <1>1, <1>2, <1>13 DEF UnlockError, Crash, Margin, TypeOK
  <2>2. Alone'
    BY <1>1, <2>1 DEF Safe, Alone, TypeOK
  <2>3. \A q \in Lockers : Margin(q)'
    BY <1>1, <1>2, <2>1 DEF Margin, TypeOK
  <2> QED BY <1>1, <2>2, <2>3 DEF Safe
<1>14. CASE UNCHANGED vars
  BY <1>1, <1>14 DEF vars, Safe, Alone, Margin
<1> QED
  BY <1>3, <1>4, <1>5, <1>6, <1>7, <1>8, <1>9, <1>10, <1>11, <1>12, <1>13, <1>14
  DEF Next, Step

LEMMA NextIInv == IInv /\ [Next]_vars => IInv'
<1> SUFFICES ASSUME IInv, [Next]_vars PROVE IInv'
  OBVIOUS
<1>1. TypeOK'
  BY NextTypeOK DEF IInv
<1>2. CASE unrefreshed'
  BY <1>1, <1>2 DEF IInv
<1>3. CASE ~ unrefreshed'
  <2>1. ~ unrefreshed
    <3>1. unrefreshed' = unrefreshed \/ unrefreshed' = TRUE
      BY DEF Next, Step, vars, Tick, Lock, GiveUp, TryLock, Locked, Refresh, RefreshGone,
         StopRefresh, Unlock, TryLockError, RefreshError, UnlockError, Crash
    <3> QED BY <1>3, <3>1
  <2> QED BY <1>1, <1>3, <2>1, NextSafe DEF IInv
<1> QED BY <1>2, <1>3

\* Type correctness of the mutex, its clocks and its refresh tasks, whatever
\* fails.
THEOREM TypeTheorem == Spec => []TypeOK
  BY InitTypeOK, NextTypeOK, PTL DEF Spec

LEMMA InvariantHolds == Spec => []IInv
  BY InitIInv, NextIInv, PTL DEF Spec

\* Until a refresh fails, the cluster mutex has one holder at a time, with any
\* delays of the store that meet TtlAssumption, crashes of holders and errors of
\* the other calls: nobody's key expires while he holds the mutex.
THEOREM OneHolderTheorem == Spec => []OneHolder
<1>1. IInv => OneHolder
  BY DEF IInv, Safe, OneHolder
<1> QED BY <1>1, InvariantHolds, PTL

LEMMA OwnerIs ==
  ASSUME Alone, ~ unrefreshed, NEW p \in Lockers, Holds(p)
  PROVE  Owner = p
  BY DEF Alone, Owner, Held

LEMMA OwnerIsPrime ==
  ASSUME Alone', ~ unrefreshed', NEW p \in Lockers, Holds(p)'
  PROVE  Owner' = p
  BY DEF Alone, Owner, Held

\* A step without a failed refresh is a step of the lock, or changes nothing there.
LEMMA SafeStepRefines ==
  ASSUME Safe, Safe', ~ unrefreshed, ~ unrefreshed', [Next]_vars
  PROVE  [Abstract!Next]_Owner
<1>1. Alone /\ Alone' /\ TypeOK /\ TypeOK'
  BY DEF Safe
<1>2. (\A p \in Lockers : Holds(p)' <=> Holds(p)) => Owner' = Owner
  <2> SUFFICES ASSUME \A p \in Lockers : Holds(p)' <=> Holds(p)
               PROVE  Owner' = Owner
    OBVIOUS
  <2>1. CASE \E p \in Lockers : Holds(p)
    <3>1. PICK p \in Lockers : Holds(p)
      BY <2>1
    <3> QED BY <1>1, <3>1, OwnerIs, OwnerIsPrime
  <2>2. CASE ~ \E p \in Lockers : Holds(p)
    BY <2>2 DEF Owner, Held
  <2> QED BY <2>1, <2>2
<1>3. ASSUME NEW p \in Lockers, Holds(p)', \A q \in Lockers : ~ Holds(q)
      PROVE  Abstract!Next
  <2>1. Owner = NoLocker /\ Owner' = p
    BY <1>1, <1>3, OwnerIsPrime DEF Owner, Held
  <2> QED BY <2>1 DEF Abstract!Next, Abstract!Acquire
<1>4. ASSUME NEW p \in Lockers, Holds(p), \A q \in Lockers : ~ Holds(q)'
      PROVE  Abstract!Next
  <2>1. Owner = p /\ Owner' = NoLocker
    BY <1>1, <1>4, OwnerIs DEF Owner, Held
  <2> QED BY <2>1 DEF Abstract!Next, Abstract!Release
<1>5. CASE Tick \/ UNCHANGED vars
  BY <1>2, <1>5 DEF Tick, vars, Holds
<1>6. ASSUME NEW p \in Lockers, TryLock(p) PROVE Abstract!Next
  <2>1. Holds(p)'
    BY <1>1, <1>6 DEF TryLock, TypeOK, Holds
  <2>2. \A q \in Lockers : ~ Holds(q)
    BY <1>6, HolderHasKey DEF TryLock
  <2> QED BY <1>3, <2>1, <2>2
<1>7. ASSUME NEW p \in Lockers,
             \/ Lock(p) \/ GiveUp(p) \/ Locked(p) \/ Refresh(p) \/ RefreshGone(p)
             \/ StopRefresh(p) \/ TryLockError(p) \/ RefreshError(p)
      PROVE  Owner' = Owner
  <2>1. \A q \in Lockers : Holds(q)' <=> Holds(q)
    BY <1>1, <1>7 DEF Lock, GiveUp, Locked, Refresh, RefreshGone, StopRefresh,
       TryLockError, RefreshError, TypeOK, Holds
  <2> QED BY <1>2, <2>1
<1>8. ASSUME NEW p \in Lockers, Unlock(p) \/ UnlockError(p) \/ Crash(p)
      PROVE  [Abstract!Next]_Owner
  <2>1. /\ ~ Holds(p)'
        /\ \A q \in Lockers : q # p => (Holds(q)' <=> Holds(q))
    BY <1>1, <1>8 DEF Unlock, UnlockError, Crash, TypeOK, Holds
  <2>2. CASE Holds(p)
    <3>1. \A q \in Lockers : ~ Holds(q)'
      BY <1>1, <2>1, <2>2 DEF Alone
    <3> QED BY <1>4, <2>2, <3>1
  <2>3. CASE ~ Holds(p)
    BY <1>2, <2>1, <2>3
  <2> QED BY <2>2, <2>3
<1> QED BY <1>5, <1>6, <1>7, <1>8 DEF Next, Step

\* The lock of a failed refresh is let go, and stays free.
LEMMA StepRefines ==
  ASSUME IInv, IInv', [Next]_vars
  PROVE  [Abstract!Next]_Owner
<1>1. CASE ~ unrefreshed'
  <2>1. ~ unrefreshed
    BY <1>1 DEF Next, Step, vars, Tick, Lock, GiveUp, TryLock, Locked, Refresh, RefreshGone,
       StopRefresh, Unlock, TryLockError, RefreshError, UnlockError, Crash
  <2> QED BY <1>1, <2>1, SafeStepRefines DEF IInv
<1>2. CASE unrefreshed'
  <2>1. Owner' = NoLocker
    BY <1>2 DEF Owner, Held
  <2>2. CASE unrefreshed
    BY <2>1, <2>2 DEF Owner, Held
  <2>3. CASE ~ unrefreshed /\ \E p \in Lockers : Holds(p)
    <3>1. PICK p \in Lockers : Holds(p)
      BY <2>3
    <3>2. Owner = p
      BY <2>3, <3>1, OwnerIs DEF IInv, Safe
    <3> QED BY <2>1, <3>2 DEF Abstract!Next, Abstract!Release
  <2>4. CASE ~ \E p \in Lockers : Holds(p)
    BY <2>1, <2>4 DEF Owner, Held
  <2> QED BY <2>2, <2>3, <2>4
<1> QED BY <1>1, <1>2

\* Until a refresh fails, the cluster mutex implements the abstract lock: every
\* behaviour of it is, seen from its holder, one of ClusterLock.
THEOREM RefinementTheorem == Spec => ImplementsLock
<1>1. Init => Abstract!Init
  BY DEF Init, Abstract!Init, Owner, Held, Holds
<1>2. IInv /\ IInv' /\ [Next]_vars => [Abstract!Next]_Owner
  BY StepRefines
<1> QED
  BY <1>1, <1>2, InvariantHolds, PTL DEF Spec, ImplementsLock, Abstract!Spec
=============================================================================
