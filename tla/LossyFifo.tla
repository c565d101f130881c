----------------------------- MODULE LossyFifo -----------------------------
(***************************************************************************)
(* What sending datagrams through a UdpSocket promises, whatever happens   *)
(* to resolving, to the queue's memory limit, to the OS and to the socket: *)
(* datagrams may be lost at any time before they are transmitted, but they *)
(* leave in the order they were offered, and each of them at most once.    *)
(***************************************************************************)
EXTENDS Naturals, Sequences

VARIABLES
  offered,     \* datagrams are numbered as they are offered
  pending,     \* the numbers of those neither transmitted nor lost
  sent         \* the numbers of those transmitted, in that order

vars == <<offered, pending, sent>>

Init == offered = 0 /\ pending = {} /\ sent = <<>>

Offer ==
  /\ offered' \in Nat /\ offered' > offered
  /\ pending' \subseteq pending \cup (offered + 1)..offered'
  /\ UNCHANGED sent

Transmit ==
  /\ \E d \in pending :
       /\ \A e \in pending : d <= e
       /\ sent' = Append(sent, d)
       /\ pending' = pending \ {d}
  /\ UNCHANGED offered

Lose ==
  /\ pending' \subseteq pending
  /\ UNCHANGED <<offered, sent>>

Next == Offer \/ Transmit \/ Lose

Spec == Init /\ [][Next]_vars
----------------------------------------------------------------------------
(* Datagrams leave in order, each once.                                    *)
InOrder == \A i, j \in 1..Len(sent) : i < j => sent[i] < sent[j]
=============================================================================
