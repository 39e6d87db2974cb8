----------------------------- MODULE MCTcpServer -----------------------------
(* TcpServer.tla for TLC: two connections that may overlap or follow each   *)
(* other, with room for a duplicated close event.                           *)
EXTENDS TcpServer
==============================================================================
