------------------------ MODULE MCReliableWebSocket ------------------------
(* The instances TLC checks; their bounds are in the .cfg files. *)
EXTENDS ReliableWebSocket

AllFaults == {"break", "panic", "restart", "encode", "register"}
=============================================================================
