----------------------- MODULE MCTcpConnectionHandler -----------------------
(***************************************************************************)
(* TcpConnectionHandler with two connections, so that what is left of one  *)
(* can meet the next, and a queue of up to four tasks.                     *)
(***************************************************************************)
EXTENDS TcpConnectionHandler
=============================================================================
