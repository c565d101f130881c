----------------------------- MODULE UdpSocket -----------------------------
(***************************************************************************)
(* One UdpSocket object (faucet/udp/UdpSocket.cpp), from bind to the death *)
(* of the object: two OS sockets, one per IP family, with a queue of       *)
(* datagrams to send and a queue of received datagrams between the client  *)
(* thread and the io_service ("butler") thread.                            *)
(*                                                                         *)
(* Every method and handler that touches shared state runs under           *)
(* commonMutex_ and is one atomic action, except setSendbufferLimit, which *)
(* takes no lock: its loop is modelled load by load and store by store,    *)
(* with the butler's handlers running in between.                          *)
(*                                                                         *)
(* Datagrams to send are numbered in the order they are offered, received  *)
(* ones in the order the OS completes their reception.                     *)
(***************************************************************************)
EXTENDS DatagramQueue, V4FirstIterator, FiniteSets

CONSTANTS
  Hosts,          \* kinds of destination: literal addresses "v4" and "v6", "name"
  ResolveResults, \* what a host name may resolve to: lists of families
  Overhead,       \* sizeof(QueueItem)
  WriteSizes,     \* sizes of write() calls
  MaxPayload,     \* bound: bytes in the send buffer
  AddressCounts,  \* how many broadcast addresses may be found
  ArrivalSizes,   \* payloads of arriving datagrams
  DefaultLimit,   \* DEFAULT_MEM_LIMIT
  SendLimits,     \* arguments of setSendbufferLimit
  MaxOffered,     \* bound: datagrams offered for sending
  MaxArrivals,    \* bound: datagrams that arrive
  MaxReadErrors   \* bound: receptions that fail

ASSUME HostsAssumption == Hosts \subseteq Families \cup {"name"}
ASSUME UdpResolveAssumption == ResolveResults \subseteq Seq(Families) \ {<<>>}
ASSUME UdpSizesAssumption ==
  /\ Overhead \in Nat \ {0} /\ MaxPayload \in Nat
  /\ WriteSizes \subseteq Nat /\ AddressCounts \subseteq Nat
  /\ ArrivalSizes \subseteq Nat
  /\ SendLimits \subseteq 0..(SizeWrap - 1) /\ DefaultLimit \in 0..(SizeWrap - 1)
  /\ MaxOffered \in Nat /\ MaxArrivals \in Nat /\ MaxReadErrors \in Nat

VARIABLES
  handle,              \* the client's reference, through the handle map
  open,                \* which of ipv4socket_ and ipv6socket_ is open
  wreck,               \* "hung" or "crashed" once a loop or a deque has gone wrong
  \* sending
  sendqueue, sendBuffer, asyncSendInProgress, sendOp, current, endpoints,
  limiter,             \* where the client is in setSendbufferLimit
  \* receiving
  receivequeue, recvOp, recvIn, receiveBuffer,
  \* history
  offered, sent, tried, lastDiscarded, discardReported,
  arrivals, readErrors, delivered,
  raced                \* the butler has used the queue within setSendbufferLimit

opVars      == <<asyncSendInProgress, sendOp, current, endpoints, tried>>
sendVars    == <<sendqueue, sendBuffer, offered, lastDiscarded, discardReported>>
receiveVars == <<receivequeue, recvOp, recvIn, receiveBuffer, arrivals,
                 readErrors, delivered>>
limitVars   == <<limiter, raced>>
vars == <<handle, open, wreck, limitVars, opVars, sendVars, sent, receiveVars>>

Idle == [pc |-> "idle", mem |-> 0, size |-> 0]
NoFamilies == [f \in Families |-> FALSE]

Alive(h, op) == h \in {"held", "releasing"} \/ op # "idle"

(* The destructor closes both OS sockets with the last reference: the      *)
(* client's or that of the one send in progress (receptions hold weak      *)
(* pointers).  The last conjunct of every action that drops a reference.   *)
OpenAnyway == UNCHANGED open
OpenWhileAlive ==
  open' = IF Alive(handle', sendOp') THEN open ELSE NoFamilies

Running == wreck = "no"
ClientMay == Running /\ handle = "held" /\ limiter = Idle
----------------------------------------------------------------------------
(* Sending.                                                                *)

(* A literal address resolves at once, inside asyncSend; a datagram for a  *)
(* family whose socket is not open is then dropped at once, and the next   *)
(* one taken, by recursion through handleResolve and handleSend.           *)
Undeliverable(item) == item.host \in Families /\ ~open[item.host]

LeadingUndeliverable(items) ==
  CHOOSE n \in 0..Len(items) :
    /\ \A i \in 1..n : Undeliverable(items[i])
    /\ n < Len(items) => ~Undeliverable(items[n + 1])

NoSend ==
  /\ asyncSendInProgress' = FALSE /\ sendOp' = "idle"
  /\ current' = 0 /\ endpoints' = IteratorOver(<<>>) /\ tried' = <<>>

(* asyncSend on queue q, with all that runs inside it.                     *)
AsyncSend(q) ==
  LET n == LeadingUndeliverable(q.items)
  IN  \/ /\ n = Len(q.items)
         /\ sendqueue' = Popped(q, n)
         /\ NoSend
      \/ /\ n < Len(q.items)
         /\ sendqueue' = Popped(q, n + 1)
         /\ asyncSendInProgress' = TRUE
         /\ LET item == q.items[n + 1]
                it == IF item.host = "name" THEN IteratorOver(<<>>)
                      ELSE Advance(IteratorOver(<<item.host>>))
            IN /\ current' = item.id
               /\ sendOp' = IF item.host = "name" THEN "resolving" ELSE "sending"
               /\ endpoints' = it
               /\ tried' = IF item.host = "name" THEN <<>> ELSE <<1>>

AsyncSendUnlessInProgress(q) ==
  IF asyncSendInProgress THEN sendqueue' = q /\ UNCHANGED opVars
  ELSE AsyncSend(q)

Write(n) ==
  /\ ClientMay /\ sendBuffer + n <= MaxPayload
  /\ sendBuffer' = sendBuffer + n
  /\ UNCHANGED <<handle, open, wreck, limitVars, sendqueue, opVars, sent, offered,
                 lastDiscarded, discardReported, receiveVars>>

(* The items of one send() or broadcast(), which share the send buffer.    *)
Items(count, host) ==
  [i \in 1..count |-> [id |-> offered + i, mem |-> Overhead + sendBuffer, host |-> host]]

(* Pushing them one after the other; broadcast or-s the results together.  *)
NothingPushed == [queue |-> sendqueue, discarded |-> FALSE, hangs |-> FALSE]
AndThenReportingLast(r, item) == Push(r.queue, item)
AndThen(r, item) ==
  LET p == Push(r.queue, item)
  IN  [queue |-> p.queue, discarded |-> r.discarded \/ p.discarded,
       hangs |-> r.hangs \/ p.hangs]
PushedUpTo(items) ==
  LET pushed[n \in 0..Len(items)] ==
        IF n = 0 THEN NothingPushed ELSE AndThen(pushed[n - 1], items[n])
  IN  pushed
PushAll(items) == PushedUpTo(items)[Len(items)]

Ids(items) == {items[i].id : i \in DOMAIN items}

(* What send() and broadcast() have in common.                             *)
Offer(items) ==
  /\ ClientMay /\ offered + Len(items) <= MaxOffered
  /\ offered' = offered + Len(items)
  /\ UNCHANGED <<handle, open, limitVars, sent, receiveVars>>
  /\ LET r == PushAll(items)
     IN \/ /\ r.hangs
           /\ wreck' = "hung"
           /\ UNCHANGED <<sendqueue, sendBuffer, opVars, lastDiscarded, discardReported>>
        \/ /\ ~r.hangs
           /\ UNCHANGED wreck
           /\ lastDiscarded' = (Ids(sendqueue.items) \cup Ids(items)) \ Ids(r.queue.items)
           /\ discardReported' = r.discarded
           /\ AsyncSendUnlessInProgress(r.queue)
           /\ sendBuffer' = 0

Send(host) == Offer(Items(1, host))
Broadcast(count) == Offer(Items(count, "v4"))

(* The lookup of a host name, and async_send_to, come to their ends.       *)
OsResolve ==
  /\ Running /\ sendOp = "resolving"
  /\ \/ sendOp' = "resolved" /\ \E list \in ResolveResults : endpoints' = IteratorOver(list)
     \/ sendOp' = "unresolved" /\ UNCHANGED endpoints
  /\ UNCHANGED <<handle, open, wreck, limitVars, asyncSendInProgress, current, tried,
                 sent, sendVars, receiveVars>>

OsSend ==
  /\ Running /\ sendOp = "sending"
  /\ \/ sendOp' = "sent" /\ sent' = Append(sent, current)
     \/ sendOp' = "failed" /\ UNCHANGED sent
  /\ UNCHANGED <<handle, open, wreck, limitVars, asyncSendInProgress, current,
                 endpoints, tried, sendVars, receiveVars>>

(* handleSend's loop takes endpoints until one is of an open family.       *)
WithoutAllAtFirstClosed(it) ==
  IF HasNext(it) /\ ~open[it.list[NextPosition(it)]]
  THEN [it EXCEPT !.v4 = Len(it.list) + 1, !.v6 = Len(it.list) + 1]
  ELSE it
WithoutClosed(it) ==
  [it EXCEPT !.v4 = IF open["v4"] THEN @ ELSE Len(it.list) + 1,
             !.v6 = IF open["v6"] THEN @ ELSE Len(it.list) + 1]

(* It gives up on the datagram when there is none, and takes the next one. *)
MoreEndpoints(it) == HasNext(it)

NextDatagramNever == NoSend /\ UNCHANGED sendqueue
NextDatagram == AsyncSend(sendqueue)

(* handleResolve passes its result on to handleSend.                       *)
HandleSend ==
  /\ Running /\ sendOp \in {"resolved", "unresolved", "sent", "failed"}
  /\ UNCHANGED <<handle, wreck, limiter, sendBuffer, sent, offered, lastDiscarded,
                 discardReported, receiveVars>>
  /\ raced' = (raced \/ limiter # Idle)
  /\ LET left == WithoutClosed(endpoints)
     IN \/ /\ sendOp \in {"resolved", "failed"} /\ MoreEndpoints(left)
           /\ sendOp' = "sending"
           /\ endpoints' = Advance(left)
           /\ tried' = Append(tried, NextPosition(left))
           /\ UNCHANGED <<asyncSendInProgress, current, sendqueue, open>>
        \/ /\ sendOp \in {"sent", "unresolved"} \/ ~MoreEndpoints(left)
           /\ NextDatagram
           /\ OpenWhileAlive

(* setSendbufferLimit, which takes no lock.                                *)
LimitBegin(limit) ==
  /\ ClientMay
  /\ sendqueue' = [sendqueue EXCEPT !.limit = limit]
  /\ limiter' = [Idle EXCEPT !.pc = "loop"]
  /\ UNCHANGED <<handle, raced, open, wreck, sendBuffer, opVars, sent, offered,
                 lastDiscarded, discardReported, receiveVars>>

(* The loop's condition and pop()'s see memory the butler may be about to  *)
(* change; pop() then stores memSize_, and then calls pop_front().  On an  *)
(* empty queue pop() does nothing, so the loop never ends unless memSize_  *)
(* is within the limit.  What a pop_front of the butler's at the very same *)
(* time does to the deque is left out.                                     *)
LimitTest ==
  /\ Running /\ limiter.pc = "loop"
  /\ \/ /\ sendqueue.mem <= sendqueue.limit
        /\ limiter' = Idle
     \/ /\ sendqueue.mem > sendqueue.limit /\ sendqueue.items # <<>>
        /\ limiter' = [pc |-> "pop", mem |-> sendqueue.mem,
                       size |-> Head(sendqueue.items).mem]
  /\ UNCHANGED <<handle, raced, open, wreck, opVars, sent, sendVars, receiveVars>>

LimitStore ==
  /\ Running /\ limiter.pc = "pop"
  /\ limiter' = [Idle EXCEPT !.pc = "front"]
  /\ sendqueue' = [sendqueue EXCEPT !.mem = (limiter.mem - limiter.size) % SizeWrap]
  /\ UNCHANGED <<handle, raced, open, wreck, sendBuffer, opVars, sent, offered,
                 lastDiscarded, discardReported, receiveVars>>

LimitPop ==
  /\ Running /\ limiter.pc = "front"
  /\ limiter' = [Idle EXCEPT !.pc = "loop"]
  /\ \/ /\ sendqueue.items # <<>>
        /\ sendqueue' = [sendqueue EXCEPT !.items = Tail(@)]
        /\ UNCHANGED wreck
     \/ /\ sendqueue.items = <<>>      \* pop_front of an empty deque
        /\ wreck' = "crashed"
        /\ UNCHANGED sendqueue
  /\ UNCHANGED <<handle, raced, open, sendBuffer, opVars, sent, offered,
                 lastDiscarded, discardReported, receiveVars>>
----------------------------------------------------------------------------
(* Receiving.                                                              *)

KeepSending == UNCHANGED <<limitVars, opVars, sendVars, sent>>

(* A datagram of n bytes arrives for family f, or the reception fails.     *)
OsReceive(f, n) ==
  /\ Running /\ recvOp[f] = "pending" /\ open[f] /\ arrivals < MaxArrivals
  /\ arrivals' = arrivals + 1
  /\ recvOp' = [recvOp EXCEPT ![f] = "done"]
  /\ recvIn' = [recvIn EXCEPT ![f] = [id |-> arrivals + 1, mem |-> Overhead + n, host |-> f]]
  /\ UNCHANGED <<handle, open, wreck, receivequeue, receiveBuffer, delivered, readErrors>>
  /\ KeepSending

OsReceiveError(f) ==
  /\ Running /\ recvOp[f] = "pending"
  /\ \/ open[f] /\ readErrors < MaxReadErrors /\ readErrors' = readErrors + 1
     \/ ~open[f] /\ UNCHANGED readErrors                   \* closed: aborted
  /\ recvOp' = [recvOp EXCEPT ![f] = "failed"]
  /\ UNCHANGED <<handle, open, wreck, arrivals, recvIn, receivequeue, receiveBuffer, delivered>>
  /\ KeepSending

(* asyncReceive again, whether the reception succeeded or failed, as long  *)
(* as the object and its OS socket live.                                   *)
ListenAgainUnlessFailed(f) ==
  IF open[f] /\ recvOp[f] = "done" THEN "pending" ELSE "idle"
ListenAgain(f) == IF open[f] THEN "pending" ELSE "idle"

(* The datagram is copied out of the shared buffer before that.            *)
HandleReceive(f) ==
  /\ Running /\ recvOp[f] \in {"done", "failed"}
  /\ UNCHANGED <<handle, open, recvIn, receiveBuffer, delivered, arrivals, readErrors>>
  /\ KeepSending
  /\ recvOp' = [recvOp EXCEPT ![f] = ListenAgain(f)]
  /\ \/ /\ Alive(handle, sendOp) /\ recvOp[f] = "done"
        /\ LET r == Push(receivequeue, recvIn[f])
           IN  receivequeue' = r.queue /\ wreck' = IF r.hangs THEN "hung" ELSE wreck
     \/ /\ ~Alive(handle, sendOp) \/ recvOp[f] = "failed"
        /\ UNCHANGED <<receivequeue, wreck>>

(* receive(): the oldest datagram, or an empty receive buffer.             *)
Receive ==
  /\ ClientMay
  /\ \/ /\ receivequeue.items = <<>>
        /\ receiveBuffer' = 0
        /\ UNCHANGED <<receivequeue, delivered>>
     \/ /\ receivequeue.items # <<>>
        /\ LET item == Head(receivequeue.items)
           IN receiveBuffer' = item.id /\ delivered' = Append(delivered, item)
        /\ receivequeue' = Popped(receivequeue, 1)
  /\ UNCHANGED <<handle, open, wreck, recvOp, recvIn, arrivals, readErrors>>
  /\ KeepSending
----------------------------------------------------------------------------
(* bind: either socket may fail to open or to bind; with both failed the   *)
(* object exists, as after UdpSocket::error, and has no open socket.       *)
Bind ==
  /\ handle = "none"
  /\ handle' = "held"
  /\ open' \in [Families -> BOOLEAN]
  /\ recvOp' = [f \in Families |-> IF open'[f] THEN "pending" ELSE "idle"]
  /\ UNCHANGED <<wreck, receivequeue, recvIn, receiveBuffer, arrivals, readErrors, delivered>>
  /\ KeepSending

(* socket_destroy: only the client's reference goes.                       *)
Release ==
  /\ Running /\ limiter = Idle /\ handle \in {"held", "releasing"}
  /\ handle' = "released"
  /\ UNCHANGED <<wreck, receiveVars>>
  /\ KeepSending
  /\ OpenWhileAlive

(* socket_destroy_abortive: close() first, under commonMutex_, which       *)
(* clears queues and buffers but closes nothing.                           *)
Close ==
  /\ ClientMay
  /\ handle' = "releasing"
  /\ sendqueue' = Cleared(sendqueue) /\ sendBuffer' = 0
  /\ receivequeue' = Cleared(receivequeue) /\ receiveBuffer' = 0
  /\ UNCHANGED <<open, wreck, limitVars, opVars, sent, offered, lastDiscarded,
                 discardReported, recvOp, recvIn, arrivals, readErrors, delivered>>
----------------------------------------------------------------------------
Init ==
  /\ handle = "none" /\ open = NoFamilies /\ wreck = "no" /\ limiter = Idle /\ raced = FALSE
  /\ sendqueue = EmptyQueue(DefaultLimit) /\ receivequeue = EmptyQueue(DefaultLimit)
  /\ sendBuffer = 0 /\ asyncSendInProgress = FALSE /\ sendOp = "idle"
  /\ current = 0 /\ endpoints = IteratorOver(<<>>) /\ tried = <<>>
  /\ offered = 0 /\ sent = <<>> /\ lastDiscarded = {} /\ discardReported = FALSE
  /\ recvOp = [f \in Families |-> "idle"]
  /\ recvIn = [f \in Families |-> [id |-> 0, mem |-> 0, host |-> f]]
  /\ receiveBuffer = 0 /\ arrivals = 0 /\ readErrors = 0 /\ delivered = <<>>

Client ==
  \/ Bind \/ Receive \/ Close \/ Release \/ LimitTest \/ LimitStore \/ LimitPop
  \/ \E n \in WriteSizes : Write(n)
  \/ \E host \in Hosts : Send(host)
  \/ \E count \in AddressCounts : Broadcast(count)
  \/ \E limit \in SendLimits : LimitBegin(limit)

Butler == HandleSend \/ \E f \in Families : HandleReceive(f)

System ==
  \/ OsResolve \/ OsSend
  \/ \E f \in Families : OsReceiveError(f) \/ \E n \in ArrivalSizes : OsReceive(f, n)

Next == Client \/ Butler \/ System

(* The butler runs every handler that is ready, the OS ends every lookup   *)
(* and every send, and reports receptions on closed sockets as aborted;    *)
(* the client ends the calls it has begun.                                 *)
Fairness ==
  /\ WF_vars(HandleSend) /\ WF_vars(OsResolve) /\ WF_vars(OsSend)
  /\ \A f \in Families : WF_vars(HandleReceive(f)) /\ WF_vars(OsReceiveError(f) /\ ~open[f])
  /\ WF_vars(LimitTest) /\ WF_vars(LimitStore) /\ WF_vars(LimitPop)
  /\ WF_vars(handle = "releasing" /\ Release)

Spec == Init /\ [][Next]_vars
FairSpec == Spec /\ Fairness
----------------------------------------------------------------------------
ItemType == [id : Nat, mem : Nat, host : Families \cup {"name"}]

TypeOK ==
  /\ handle \in {"none", "held", "releasing", "released"}
  /\ open \in [Families -> BOOLEAN]
  /\ wreck \in {"no", "hung", "crashed"} /\ raced \in BOOLEAN
  /\ limiter \in [pc : {"idle", "loop", "pop", "front"}, mem : Nat, size : Nat]
  /\ {sendqueue, receivequeue} \subseteq
       [items : Seq(ItemType), mem : 0..(SizeWrap - 1), limit : 0..(SizeWrap - 1)]
  /\ sendBuffer \in Nat /\ asyncSendInProgress \in BOOLEAN
  /\ sendOp \in {"idle", "resolving", "resolved", "unresolved", "sending", "sent", "failed"}
  /\ current \in Nat /\ offered \in Nat /\ sent \in Seq(Nat) /\ tried \in Seq(Nat)
  /\ endpoints \in [list : Seq(Families), v4 : Nat, v6 : Nat]
  /\ lastDiscarded \subseteq Nat /\ discardReported \in BOOLEAN
  /\ recvOp \in [Families -> {"idle", "pending", "done", "failed"}]
  /\ recvIn \in [Families -> ItemType]
  /\ receiveBuffer \in Nat /\ arrivals \in Nat /\ readErrors \in Nat
  /\ delivered \in Seq(ItemType)

(* A queue counts the memory of exactly the items it holds, and keeps      *)
(* within its limit, through discards, pops by either thread, clears and   *)
(* new limits, as long as the butler has not run handleSend while the      *)
(* client was within setSendbufferLimit.                                   *)
QueuesAccounted ==
  /\ limiter = Idle /\ ~raced => Accounted(sendqueue)
  /\ Accounted(receivequeue)

(* A datagram in the queue never waits for a send() that does not come:    *)
(* there is a send in progress whose handler will take the next one.       *)
NoStalledDatagram ==
  /\ asyncSendInProgress <=> sendOp # "idle"
  /\ sendqueue.items # <<>> => asyncSendInProgress

(* send() and broadcast() return true exactly when they lost a datagram to *)
(* the memory limit, their own or an older one.                            *)
DiscardReported == discardReported <=> lastDiscarded # {}

(* A datagram whose host was found is given up, at once or after failures, *)
(* only when every endpoint found that an open socket can reach has been   *)
(* tried, past those of a family that is not bound, and none twice.        *)
GivesUpOnlyAfterAll ==
  [][current' # current /\ sendOp \in {"resolved", "failed"} =>
       LET reachable == {p \in DOMAIN endpoints.list : open[endpoints.list[p]]}
       IN  reachable = {tried[i] : i \in DOMAIN tried}
           /\ Cardinality(reachable) = Len(tried)]_vars

(* What sending promises, as the abstract specification LossyFifo.         *)
InFlight == IF sendOp \in {"idle", "sent"} THEN {} ELSE {current}
Service == INSTANCE LossyFifo WITH pending <- Ids(sendqueue.items) \cup InFlight
SendsInOrder == Service!Spec

(* While the object lives, each of its open sockets is being received on   *)
(* or has a reception for the butler to handle: no error ends reception.   *)
AlwaysListening ==
  Alive(handle, sendOp) => \A f \in Families : open[f] => recvOp[f] # "idle"

(* Datagrams of one family are delivered in the order they arrived, each   *)
(* at most once.                                                           *)
DeliveredInOrder ==
  \A i, j \in DOMAIN delivered :
    i < j /\ delivered[i].host = delivered[j].host => delivered[i].id < delivered[j].id

(* A datagram that arrives pushes out as few of the oldest as it can.      *)
NewestKept ==
  [][\A f \in Families :
       HandleReceive(f) /\ Alive(handle, sendOp) /\ recvOp[f] = "done" =>
         KeepsNewestThatFit(receivequeue, recvIn[f], receivequeue'.items)]_vars

(* A released socket dies and closes: it has no handler left that keeps    *)
(* it, and its receptions end with it.                                     *)
ReleasedDies ==
  handle = "released" ~> (open = NoFamilies /\ \A f \in Families : recvOp[f] = "idle")

(* help.pdf, socket_sendbuffer_limit: "UDP sockets will continue working   *)
(* when the limit is reached": setting a limit always returns.             *)
LimitReturns == limiter # Idle ~> (limiter = Idle \/ wreck = "crashed")
=============================================================================
