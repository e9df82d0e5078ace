---------------------------- MODULE MCDeadQueue ----------------------------
(* A queue of four slots, for three rounds and a half. *)
EXTENDS DeadQueueSpec
=============================================================================
