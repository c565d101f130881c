--------------------------- MODULE DatagramQueue ---------------------------
(***************************************************************************)
(* faucet/udp/DatagramQueue.hpp: the queue of datagrams a UdpSocket keeps  *)
(* for each direction, with a limit on the memory it takes.                *)
(*                                                                         *)
(* A queue is a record of its items, memSize_ and memSizeLimit_.  An item  *)
(* has a memSize; what else it carries is up to the module that pushes it. *)
(* memSize_ is a size_t: it wraps, at SizeWrap here.                       *)
(***************************************************************************)
EXTENDS Integers, Sequences

CONSTANT SizeWrap          \* 2^w for the w bits of a size_t

ASSUME SizeWrapAssumption == SizeWrap \in Nat \ {0}

EmptyQueue(limit) == [items |-> <<>>, mem |-> 0, limit |-> limit]

MemUpTo(items) ==
  LET sum[n \in 0..Len(items)] == IF n = 0 THEN 0 ELSE sum[n - 1] + items[n].mem
  IN  sum
MemSum(items) == MemUpTo(items)[Len(items)]

(* The queue after n calls of pop().                                       *)
NotPopped(q, n) == q
PoppedTwice(q, n) ==
  [q EXCEPT !.items = SubSeq(@, n + 1, Len(@)),
            !.mem = @ - 2 * MemSum(SubSeq(q.items, 1, n))]
Popped(q, n) ==
  [q EXCEPT !.items = SubSeq(@, n + 1, Len(@)),
            !.mem = (@ - MemSum(SubSeq(q.items, 1, n))) % SizeWrap]

Cleared(q) == [q EXCEPT !.items = <<>>, !.mem = 0]

(* The condition of push()'s loop, which avoids the overflow of a sum.     *)
CrowdedIfOver(q, size) == q.mem > q.limit
Crowded(q, size) == q.mem > q.limit \/ q.limit - q.mem < size

TooLarge(q, item) == q.limit < item.mem

(* push(): the new queue, the return value, and whether the loop runs for  *)
(* ever because pop() does nothing on an empty queue.                      *)
Push(q, item) ==
  LET enough == {n \in 0..Len(q.items) : ~Crowded(Popped(q, n), item.mem)}
      n == CHOOSE n \in enough : \A m \in enough : n <= m
      room == Popped(q, n)
  IN  CASE TooLarge(q, item) ->
             [queue |-> q, discarded |-> TRUE, hangs |-> FALSE]
        [] ~TooLarge(q, item) /\ enough = {} ->
             [queue |-> q, discarded |-> TRUE, hangs |-> TRUE]
        [] OTHER ->
             [queue |-> [room EXCEPT !.items = Append(@, item),
                                     !.mem = (@ + item.mem) % SizeWrap],
              discarded |-> n > 0, hangs |-> FALSE]

(* What the comment in push() promises: the longest end of the queue that  *)
(* leaves room for the new item is kept, and a new item that can never fit *)
(* changes nothing.                                                        *)
KeepsNewestThatFit(q, item, after) ==
  IF TooLarge(q, item) THEN after = q.items
  ELSE \E n \in 0..Len(q.items) :
         /\ after = Append(SubSeq(q.items, n + 1, Len(q.items)), item)
         /\ MemSum(after) <= q.limit
         /\ n > 0 => MemSum(SubSeq(q.items, n, Len(q.items))) + item.mem > q.limit

(* The accounting: memSize_ is the memory of the items and within limits.  *)
Accounted(q) == q.mem = MemSum(q.items) /\ q.mem <= q.limit
=============================================================================
