------------------------------ MODULE ServerMC ------------------------------
(***************************************************************************)
(* Server for TLC: three clients and a process that may have as many       *)
(* descriptors open, one of them for the listening socket.                 *)
(***************************************************************************)
EXTENDS Server

CONSTANTS p1, p2, p3
Numbers == 1 .. 3
=============================================================================
