---------------------------- MODULE MCSendBuffer ---------------------------
(* SendBuffer for TLC: its constants are numbers and sets of numbers.      *)
EXTENDS SendBuffer
=============================================================================
