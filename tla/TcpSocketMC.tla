---------------------------- MODULE TcpSocketMC ----------------------------
(***************************************************************************)
(* TcpSocket for TLC: every way the peer's stream may end.                 *)
(***************************************************************************)
EXTENDS TcpSocket

AllEnds == {"eof", "reset", "failed"}
=============================================================================
