--------------------------- MODULE MCClusterMutex ---------------------------
(* Three plugin instances; the bounds are in the .cfg file. *)
EXTENDS ClusterMutex
=============================================================================
