----------------------------- MODULE MCLibrary -----------------------------
(* Library, and the HandleMap in it, for TLC, with handles of a few values.*)
EXTENDS Library
=============================================================================
