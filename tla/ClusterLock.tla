---------------------------- MODULE ClusterLock ----------------------------
(***************************************************************************)
(* What the cluster mutex promises: a lock, held by one locker at a time,  *)
(* given up before another gets it.                                        *)
(***************************************************************************)
CONSTANTS Lockers, NoLocker

VARIABLE owner

Init == owner = NoLocker

Acquire(p) == owner = NoLocker /\ owner' = p

Release(p) == owner = p /\ owner' = NoLocker

Next == \E p \in Lockers : Acquire(p) \/ Release(p)

Spec == Init /\ [][Next]_owner
=============================================================================
