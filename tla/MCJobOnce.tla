----------------------------- MODULE MCJobOnce -----------------------------
(* Two plugin instances; the bounds are in the .cfg files. *)
EXTENDS JobOnce, TLC

\* (Not Jobs: NextJob chooses one.)
Symmetry == Permutations(Nodes) \cup Permutations(Callers)

\* What is rescheduled has another time.
OtherTime == [s \in Schedules |-> s]
=============================================================================
