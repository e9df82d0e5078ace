----------------------------- MODULE MCJobServer -----------------------------
(* Two nodes and two jobs of one type; the bounds are in the .cfg file. *)
EXTENDS JobServer
=============================================================================
