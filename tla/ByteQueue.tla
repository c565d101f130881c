----------------------------- MODULE ByteQueue -----------------------------
(***************************************************************************)
(* What a SendBuffer promises a TcpSocket: bytes come out in the order     *)
(* they were pushed, each once, and only after they have been committed.   *)
(***************************************************************************)
EXTENDS Naturals, Sequences

CONSTANT PushSizes

VARIABLES
  queue,       \* the bytes in the buffer
  committed,   \* how many of them, from the front, are committed
  pushed,      \* history: bytes ever pushed, numbered from 1
  taken        \* history: the bytes taken by the OS, in that order

vars == <<queue, committed, pushed, taken>>

Init == queue = <<>> /\ committed = 0 /\ pushed = 0 /\ taken = <<>>

Push(n) ==
  /\ queue' = queue \o [i \in 1..n |-> pushed + i]
  /\ pushed' = pushed + n
  /\ UNCHANGED <<committed, taken>>

Commit ==
  /\ committed' = Len(queue)
  /\ UNCHANGED <<queue, pushed, taken>>

(* The OS takes some of the committed bytes, which then leave the queue.   *)
Take ==
  /\ \E n \in 0..committed :
       /\ taken' = taken \o SubSeq(queue, 1, n)
       /\ queue' = SubSeq(queue, n + 1, Len(queue))
       /\ committed' = committed - n
  /\ UNCHANGED pushed

Next == Commit \/ Take \/ \E n \in PushSizes : Push(n)

Spec == Init /\ [][Next]_vars
=============================================================================
