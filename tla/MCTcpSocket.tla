---------------------------- MODULE MCTcpSocket ----------------------------
(* Finite values of TcpSocket's constants for TLC.                         *)
EXTENDS TcpSocket

AllOrigins == OriginNames
Accepted == {"accepted"}
Lists == {<<"v6">>, <<"v6", "v4">>, <<"v6", "v4", "v6">>}
=============================================================================
