-------------------------- MODULE V4FirstIterator --------------------------
(***************************************************************************)
(* The order in which TcpConnecting tries the endpoints a host name        *)
(* resolves to: faucet/V4FirstIterator.hpp walks the resolver's list with  *)
(* two cursors, one that stops at IPv4 endpoints only and one that stops   *)
(* at IPv6 endpoints only, and exhausts the first before the second.       *)
(*                                                                         *)
(* An endpoint is abstracted to its family; a list is a sequence of them.  *)
(* A cursor is a position in the list; Len(list) + 1 is the end iterator.  *)
(***************************************************************************)
EXTENDS Naturals, Sequences

Families == {"v4", "v6"}

(* The first position from k on that holds family f: the loops that skip   *)
(* the other family.                                                       *)
Skip(list, k, f) ==
  LET hits == {i \in k..Len(list) : list[i] = f}
  IN  IF hits = {} THEN Len(list) + 1
      ELSE CHOOSE i \in hits : \A j \in hits : i <= j

AtEnd(it, cursor) == cursor = Len(it.list) + 1

(* The constructor.                                                        *)
IteratorOver(list) ==
  [list |-> list, v4 |-> Skip(list, 1, "v4"), v6 |-> Skip(list, 1, "v6")]

HasNext(it) == ~AtEnd(it, it.v4) \/ ~AtEnd(it, it.v6)

(* The position of the endpoint next() returns, 0 for the default endpoint *)
(* it returns when both cursors are at the end.                            *)
NextPosition(it) ==
  CASE ~AtEnd(it, it.v4) -> it.v4
    [] AtEnd(it, it.v4) /\ ~AtEnd(it, it.v6) -> it.v6
    [] OTHER -> 0

(* next() moves the cursor it returned from behind that endpoint.          *)
Advance(it) ==
  CASE ~AtEnd(it, it.v4) -> [it EXCEPT !.v4 = Skip(it.list, it.v4 + 1, "v4")]
    [] AtEnd(it, it.v4) /\ ~AtEnd(it, it.v6) ->
         [it EXCEPT !.v6 = Skip(it.list, it.v6 + 1, "v6")]
    [] OTHER -> it
=============================================================================
