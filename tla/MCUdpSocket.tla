---------------------------- MODULE MCUdpSocket ----------------------------
(* Finite values of UdpSocket's constants for TLC.                         *)
EXTENDS UdpSocket

MixedList == {<<"v6", "v4">>}
=============================================================================
