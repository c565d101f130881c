--------------------------- MODULE MCTcpAcceptor ---------------------------
(* Finite values of TcpAcceptor's constants for TLC.                       *)
EXTENDS TcpAcceptor

TwoPorts == {1, 2}
=============================================================================
