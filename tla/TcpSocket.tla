----------------------------- MODULE TcpSocket -----------------------------
(***************************************************************************)
(* One TcpSocket object (faucet/tcp/TcpSocket.cpp) and the three state     *)
(* objects it delegates to (faucet/tcp/connectionStates), from             *)
(* construction to destruction.                                            *)
(*                                                                         *)
(* Four actors act on it.  The client (game) thread calls the API; the     *)
(* io_service ("butler") thread runs completion handlers; the operating    *)
(* system completes asynchronous operations; the peer sends, closes and    *)
(* resets.  Every method and every handler runs under commonMutex_, so     *)
(* each is one atomic action.  The completion of an operation and the run  *)
(* of its handler are two separate steps: between them the client may call *)
(* anything, which is where this class is hard to test.                    *)
(*                                                                         *)
(* Outbound bytes are counted (their order is the business of module       *)
(* SendBuffer); inbound bytes are numbered 1, 2, ... in the order the peer *)
(* sent them, and 0 is a placeholder inserted before a read fills it.      *)
(***************************************************************************)
EXTENDS V4FirstIterator, Integers

CONSTANTS
  Origins,        \* the constructors a behaviour may start with
  ResolveResults, \* what a host name may resolve to: lists of families
  WriteSizes,     \* sizes of write() calls
  RequestSizes,   \* sizes of receive(ammount) calls
  SendLimits,     \* arguments of setSendbufferLimit
  NoLimit,        \* std::numeric_limits<size_t>::max()
  MaxPushed,      \* bound: bytes written in a behaviour
  MaxPeerBytes    \* bound: bytes the peer sends in a behaviour

OriginNames == {"error", "literal", "hostname", "accepted"}

ASSUME OriginsAssumption == Origins \subseteq OriginNames
ASSUME ResolveAssumption == ResolveResults \subseteq Seq(Families) \ {<<>>}
ASSUME SizesAssumption ==
  /\ WriteSizes \subseteq Nat /\ RequestSizes \subseteq Nat
  /\ SendLimits \subseteq Nat /\ NoLimit \in Nat
  /\ MaxPushed \in Nat /\ MaxPeerBytes \in Nat

VARIABLES
  state,               \* state_: which state object is current
  errorMessage,        \* tcpClosed_'s message; "none" while hasError is false
  handle,              \* the client's reference, through the handle map
  isOpen,              \* socket_->is_open()
  sockNoDelay,         \* TCP_NODELAY as set on the OS socket
  peer,                \* what the peer has done to the connection
  \* TcpConnecting
  resolveOp, resolved, connectOp, endpoints, connectingAbort, noDelay,
  \* TcpConnected and the send buffer
  connectedAbort, asyncSendInProgress, sendOp, inFlight, transferred,
  sendTotal, sendCommitted, sendLimit,
  \* receiving
  asyncReceiveInProgress, recvOp, recvAt, partial, receiveBuffer,
  arrived, kernelRead,
  \* history
  tried, grantedNoDelay, pushed, osTaken, delivered, eofReported

connectVars  == <<resolveOp, resolved, connectOp, endpoints, noDelay, tried>>
abortVars    == <<connectingAbort, connectedAbort>>
sendOpVars   == <<asyncSendInProgress, sendOp, inFlight, transferred>>
sendDataVars == <<sendTotal, sendCommitted, sendLimit, pushed, osTaken>>
recvOpVars   == <<asyncReceiveInProgress, recvOp, recvAt, partial>>
recvDataVars == <<receiveBuffer, kernelRead, delivered>>
noDelayVars  == <<sockNoDelay, grantedNoDelay>>
vars == <<state, errorMessage, handle, peer, arrived, eofReported, isOpen,
          noDelayVars, connectVars, abortVars, sendOpVars, sendDataVars,
          recvOpVars, recvDataVars>>

Errors == {"none", "invalid", "resolve", "close", "connect", "enter",
           "limit", "send", "receive", "peek", "eof", "aborted"}

Smaller(m, n) == IF m <= n THEN m ELSE n
Bytes(k, n) == [i \in 1..n |-> k + i]      \* n bytes of the peer's, after the first k
Placeholders(n) == [i \in 1..n |-> 0]
Take(s, n) == SubSeq(s, 1, n)
Drop(s, n) == SubSeq(s, n + 1, Len(s))

hasError == errorMessage # "none"
Readable == arrived - kernelRead           \* socket::available()
Established == isOpen /\ (connectOp = "ok" \/ state = "connected")
----------------------------------------------------------------------------
(* Object lifetime.  Every pending or undelivered completion handler holds *)
(* a shared_ptr to the socket, and so does the client's handle.            *)
Referenced ==
  \/ handle \in {"held", "releasing"}
  \/ \E op \in {resolveOp, connectOp, sendOp, recvOp} : op # "idle"

(* What a step leaves of the OS socket: "open" is what its code leaves,    *)
(* and the destructor closes it with the last reference.  The last         *)
(* conjunct of every action that closes the socket or drops a reference.   *)
SocketAfterLeavingOpen(open) == isOpen' = (isOpen \/ open)
SocketAfter(open) == isOpen' = (open /\ Referenced')

(* state_->abort(), then state_ = &tcpClosed_; s is the state left.        *)
EnterClosed(s) ==
  /\ state' = "closed"
  /\ connectingAbort' = (connectingAbort \/ s = "connecting")
  /\ connectedAbort' = (connectedAbort \/ s = "connected")

(* TcpClosed::enterError: the first message wins.                          *)
MessageOverwritten(msg) == msg
MessageAfter(msg) == IF hasError THEN errorMessage ELSE msg

EnterErrorFrom(s, msg) ==
  /\ EnterClosed(s)
  /\ errorMessage' = MessageAfter(msg)
EnterError(msg) == EnterErrorFrom(state, msg)

StaysOpen == UNCHANGED <<state, errorMessage, abortVars>>
----------------------------------------------------------------------------
(* Sending.                                                                *)

(* async_send over the committed bytes; an empty region is sent as well.   *)
BeginSend(committed) ==
  /\ asyncSendInProgress' = TRUE
  /\ sendOp' = "pending"
  /\ inFlight' = committed
  /\ transferred' = 0

NoSend ==
  /\ asyncSendInProgress' = FALSE
  /\ sendOp' = "idle" /\ inFlight' = 0 /\ transferred' = 0

StartAsyncSendUnguarded(committed) == BeginSend(committed)
StartAsyncSend(committed) ==
  IF asyncSendInProgress THEN UNCHANGED sendOpVars ELSE BeginSend(committed)

DefaultOption == TRUE                      \* DEFAULT_TCP_NODELAY

(* TcpConnected::enter.  Its calls on the OS socket throw when the peer    *)
(* has reset the connection.                                               *)
Enter(option) ==
  \/ /\ state' = "connected"
     /\ sockNoDelay' = option
     /\ StartAsyncSend(sendCommitted)
     /\ UNCHANGED <<errorMessage, abortVars>>
     /\ SocketAfter(TRUE)
  \/ /\ peer' = "reset"
     /\ EnterErrorFrom("connected", "enter")
     /\ UNCHANGED <<sockNoDelay, sendOpVars>>
     /\ SocketAfter(FALSE)

ExceedsLimit(n) == sendTotal + n > sendLimit
AllowWrite == state \in {"connecting", "connected"}

ClientMay == handle = "held"

(* write(): one call of the write_* family, n bytes.                       *)
Write(n) ==
  /\ ClientMay /\ AllowWrite
  /\ UNCHANGED <<peer, arrived, eofReported, noDelayVars, recvDataVars>>
  /\ \/ /\ ExceedsLimit(n)
        /\ EnterError("limit")
        /\ UNCHANGED <<handle, connectVars, sendOpVars, sendDataVars, recvOpVars>>
        /\ SocketAfter(FALSE)
     \/ /\ ~ExceedsLimit(n)
        /\ pushed + n <= MaxPushed
        /\ sendTotal' = sendTotal + n
        /\ pushed' = pushed + n
        /\ UNCHANGED <<sendCommitted, sendLimit, osTaken, handle, isOpen,
                       connectVars, sendOpVars, recvOpVars>>
        /\ StaysOpen

CommitOnly ==
  /\ sendCommitted' = sendTotal
  /\ UNCHANGED sendOpVars
(* send(): commit, then let the state object start sending.                *)
CommitAndStart ==
  /\ sendCommitted' = sendTotal
  /\ IF state = "connected" THEN StartAsyncSend(sendTotal)
     ELSE UNCHANGED sendOpVars

Send ==
  /\ ClientMay
  /\ CommitAndStart
  /\ UNCHANGED <<sendTotal, sendLimit, pushed, osTaken, handle, isOpen,
                 connectVars, recvOpVars, recvDataVars, noDelayVars,
                 peer, arrived, eofReported>>
  /\ StaysOpen

SetSendbufferLimit(limit) ==
  /\ ClientMay
  /\ sendLimit' = limit
  /\ UNCHANGED <<sendTotal, sendCommitted, pushed, osTaken, handle, isOpen,
                 connectVars, sendOpVars, recvOpVars, recvDataVars, noDelayVars,
                 peer, arrived, eofReported>>
  /\ StaysOpen

(* The OS accepts a part of the region, or reports why it cannot.          *)
OsSend ==
  /\ sendOp = "pending"
  /\ \/ /\ inFlight = 0
        /\ sendOp' = "done" /\ UNCHANGED <<transferred, osTaken>>
     \/ /\ isOpen /\ peer # "reset"
        /\ \E k \in 1..inFlight :
             transferred' = k /\ osTaken' = osTaken + k
        /\ sendOp' = "done"
     \/ /\ inFlight > 0 /\ isOpen /\ peer = "reset"
        /\ sendOp' = "failed" /\ UNCHANGED <<transferred, osTaken>>
     \/ /\ inFlight > 0 /\ ~isOpen
        /\ sendOp' = "failed" /\ UNCHANGED <<transferred, osTaken>>
  /\ UNCHANGED <<sendTotal, sendCommitted, sendLimit, pushed, inFlight,
                 asyncSendInProgress, handle, isOpen, connectVars,
                 recvOpVars, recvDataVars, noDelayVars, peer, arrived, eofReported>>
  /\ StaysOpen

(* handleSend, first half of its success path: pop the transferred bytes.  *)
PopTransferredTwice(n) ==
  /\ sendTotal' = sendTotal - n /\ sendCommitted' = sendCommitted
PopTransferred(n) ==
  /\ sendTotal' = sendTotal - n /\ sendCommitted' = sendCommitted - n

(* ... and second half: send what has been committed in the meantime.      *)
SendNothingMore(committed) == NoSend
SendRest(committed) == IF committed > 0 THEN BeginSend(committed) ELSE NoSend

HandleSend ==
  /\ sendOp \in {"done", "failed"}
  /\ UNCHANGED <<sendLimit, pushed, osTaken, handle, connectVars, recvOpVars,
                 recvDataVars, noDelayVars, peer, arrived, eofReported>>
  /\ \/ /\ connectedAbort
        /\ NoSend
        /\ UNCHANGED <<sendTotal, sendCommitted>> /\ StaysOpen
        /\ SocketAfter(isOpen)
     \/ /\ ~connectedAbort /\ sendOp = "done"
        /\ PopTransferred(transferred)
        /\ SendRest(sendCommitted - transferred)
        /\ StaysOpen
        /\ SocketAfter(isOpen)
     \/ /\ ~connectedAbort /\ sendOp = "failed"
        /\ NoSend
        /\ UNCHANGED <<sendTotal, sendCommitted>>
        /\ EnterError("send")
        /\ SocketAfter(FALSE)
----------------------------------------------------------------------------
(* Connecting.                                                             *)

KeepSendAndReceive ==
  UNCHANGED <<sendDataVars, recvOpVars, recvDataVars, arrived, eofReported>>

(* TcpConnecting::startConnectionAttempt.  Closing the socket of the last  *)
(* attempt resets its options; async_connect opens a new one, or fails to  *)
(* and reports it like a failed connect.                                   *)
StartConnectionAttempt(it) ==
  \/ /\ endpoints' = Advance(it)
     /\ tried' = Append(tried, NextPosition(it))
     /\ sockNoDelay' = FALSE
     /\ UNCHANGED <<errorMessage, abortVars>>
     /\ state' = "connecting"
     /\ \/ connectOp' = "pending" /\ SocketAfter(TRUE)
        \/ connectOp' = "failed"  /\ SocketAfter(FALSE)
  \/ /\ isOpen
     /\ EnterErrorFrom("connecting", "close")
     /\ connectOp' = "idle"
     /\ UNCHANGED <<tried, sockNoDelay>> /\ endpoints' = it
     /\ SocketAfter(FALSE)

ConstructWith(list) ==
  /\ handle = "none"
  /\ handle' = "held"
  /\ resolved' = list
  /\ KeepSendAndReceive

(* connectTo with a literal address: fct_async_resolve calls handleResolve *)
(* at once, within the constructor function.                               *)
ConnectToLiteral(f) ==
  /\ "literal" \in Origins
  /\ ConstructWith(<<f>>)
  /\ resolveOp' = "idle"
  /\ UNCHANGED <<peer, noDelay, grantedNoDelay, sendOpVars>>
  /\ StartConnectionAttempt(IteratorOver(<<f>>))

ConnectToName ==
  /\ "hostname" \in Origins
  /\ ConstructWith(<<>>)
  /\ state' = "connecting"
  /\ resolveOp' = "pending"
  /\ UNCHANGED <<errorMessage, abortVars, isOpen, connectOp, endpoints, tried,
                 noDelay, peer, noDelayVars, sendOpVars>>

(* fromConnectedSocket: an accepted connection, which the peer may have    *)
(* reset already.                                                          *)
FromConnectedSocket ==
  /\ "accepted" \in Origins
  /\ ConstructWith(<<>>)
  /\ peer' \in {"up", "reset"}
  /\ UNCHANGED <<grantedNoDelay, resolveOp, connectOp, endpoints, tried, noDelay>>
  /\ Enter(DefaultOption)

ErrorSocket ==
  /\ "error" \in Origins
  /\ ConstructWith(<<>>)
  /\ state' = "closed"
  /\ errorMessage' = "invalid"
  /\ UNCHANGED <<abortVars, isOpen, resolveOp, connectOp, endpoints, tried,
                 noDelay, peer, noDelayVars, sendOpVars>>

OsResolve ==
  /\ resolveOp = "pending"
  /\ \/ /\ resolveOp' = "done"
        /\ resolved' \in ResolveResults
     \/ /\ resolveOp' = "failed"
        /\ UNCHANGED resolved
  /\ UNCHANGED <<connectOp, endpoints, noDelay, tried, handle, peer, isOpen,
                 noDelayVars, sendOpVars>>
  /\ StaysOpen
  /\ KeepSendAndReceive

(* abortRequested, as handleResolve and handleConnect look at it.          *)
AbortSeen == connectingAbort

LookupFailedSilently == StaysOpen /\ SocketAfter(isOpen)
LookupFailed == EnterError("resolve") /\ SocketAfter(FALSE)

HandleResolve ==
  /\ resolveOp \in {"done", "failed"}
  /\ resolveOp' = "idle"
  /\ UNCHANGED <<resolved, noDelay, grantedNoDelay, handle, peer, sendOpVars>>
  /\ KeepSendAndReceive
  /\ \/ /\ AbortSeen
        /\ UNCHANGED <<connectOp, endpoints, tried, sockNoDelay>> /\ StaysOpen
        /\ SocketAfter(isOpen)
     \/ /\ ~AbortSeen /\ resolveOp = "failed"
        /\ UNCHANGED <<connectOp, endpoints, tried, sockNoDelay>>
        /\ LookupFailed
     \/ /\ ~AbortSeen /\ resolveOp = "done"
        /\ StartConnectionAttempt(IteratorOver(resolved))

OsConnect ==
  /\ connectOp = "pending"
  /\ \/ isOpen /\ connectOp' = "ok" /\ peer' = "up"
     \/ connectOp' = "failed" /\ UNCHANGED peer
  /\ UNCHANGED <<resolveOp, resolved, endpoints, noDelay, tried, handle,
                 isOpen, noDelayVars, sendOpVars>>
  /\ StaysOpen
  /\ KeepSendAndReceive

(* handleConnect's condition for trying the next endpoint.                 *)
MoreEndpointsV4Only(it) == ~AtEnd(it, it.v4)
MoreEndpoints(it) == HasNext(it)

WantedOptionDefault == DefaultOption
WantedOption == noDelay

HandleConnect ==
  /\ connectOp \in {"ok", "failed"}
  /\ UNCHANGED <<resolveOp, resolved, noDelay, handle, peer>>
  /\ KeepSendAndReceive
  /\ \/ /\ AbortSeen
        /\ connectOp' = "idle"
        /\ UNCHANGED <<endpoints, tried, noDelayVars, sendOpVars>> /\ StaysOpen
        /\ SocketAfter(isOpen)
     \/ /\ ~AbortSeen /\ connectOp = "ok"
        /\ connectOp' = "idle"
        /\ UNCHANGED <<endpoints, tried, grantedNoDelay>>
        /\ Enter(WantedOption)
     \/ /\ ~AbortSeen /\ connectOp = "failed" /\ MoreEndpoints(endpoints)
        /\ UNCHANGED <<grantedNoDelay, sendOpVars>>
        /\ StartConnectionAttempt(endpoints)
     \/ /\ ~AbortSeen /\ connectOp = "failed" /\ ~MoreEndpoints(endpoints)
        /\ connectOp' = "idle"
        /\ EnterError("connect")
        /\ UNCHANGED <<endpoints, tried, noDelayVars, sendOpVars>>
        /\ SocketAfter(FALSE)

(* setNoDelay: remembered while connecting; applied at once when connected,*)
(* where the OS may refuse; in any other state it returns false.           *)
RememberNoDelay(b) ==
  /\ state = "connecting" /\ noDelay' = b /\ grantedNoDelay' = b
  /\ UNCHANGED sockNoDelay
ApplyNoDelay(b) ==
  /\ state = "connected" /\ UNCHANGED noDelay
  /\ \/ sockNoDelay' = b /\ grantedNoDelay' = b       \* returns true
     \/ UNCHANGED noDelayVars                         \* returns false

SetNoDelay(b) ==
  /\ ClientMay
  /\ \/ RememberNoDelay(b) \/ ApplyNoDelay(b)
     \/ state = "closed" /\ UNCHANGED <<noDelay, noDelayVars>>
  /\ UNCHANGED <<resolveOp, resolved, connectOp, endpoints, tried, handle, peer,
                 isOpen, sendOpVars>>
  /\ StaysOpen
  /\ KeepSendAndReceive
----------------------------------------------------------------------------
(* Receiving.                                                              *)

KeepSend == UNCHANGED <<sendOpVars, sendDataVars>>
KeepConnection == UNCHANGED <<handle, peer, arrived, connectVars, noDelayVars>>

(* nonblockReceive(maxData): how many bytes it moves out of the kernel.    *)
NonblockAmmount(maxData) == Smaller(maxData, Readable)

(* How many bytes receive(ammount) asks nonblockReceive for.               *)
Missing(ammount) ==
  IF Len(partial) < ammount THEN ammount - Len(partial) ELSE 0

(* The bytes taken from the front go to the client's receive buffer.       *)
DeliverKeepingPartial(got, n) ==
  /\ receiveBuffer' = Take(got, n)
  /\ delivered' = delivered \o Take(got, n)
  /\ partial' = got
Deliver(got, n) ==
  /\ receiveBuffer' = Take(got, n)
  /\ delivered' = delivered \o Take(got, n)
  /\ partial' = Drop(got, n)

(* startAsyncReceive: room for the bytes still missing is inserted at the  *)
(* end of the vector, and async_read fills it from there.                  *)
StartAsyncReceive(got, missing) ==
  /\ asyncReceiveInProgress' = TRUE
  /\ recvOp' = "pending"
  /\ recvAt' = Len(got)
  /\ partial' = got \o Placeholders(missing)

(* nonblockReceive throws in the middle of a read: the placeholders stay.  *)
ReadFails(n) ==
  /\ peer = "reset"
  /\ partial' = partial \o Placeholders(n)
  /\ EnterError("receive")
  /\ receiveBuffer' = <<>>
  /\ UNCHANGED <<kernelRead, delivered, asyncReceiveInProgress, recvOp, recvAt>>
  /\ SocketAfter(FALSE)

(* receive clears the receive buffer and does no more while a read runs in *)
(* the background or in any state but connected.                           *)
MayReceiveInAnyCase == state = "connected"
MayReceive == state = "connected" /\ ~asyncReceiveInProgress

ClearOnly ==
  /\ receiveBuffer' = <<>>
  /\ UNCHANGED <<kernelRead, delivered, recvOpVars, isOpen>>
  /\ StaysOpen

Receive(ammount) ==
  /\ ClientMay
  /\ UNCHANGED eofReported /\ KeepSend /\ KeepConnection
  /\ \/ ~MayReceive /\ ClearOnly
     \/ /\ MayReceive
        /\ LET read == NonblockAmmount(Missing(ammount))
               got  == partial \o Bytes(kernelRead, read)
           IN \/ /\ Len(got) >= ammount
                 /\ Deliver(got, ammount)
                 /\ kernelRead' = kernelRead + read
                 /\ UNCHANGED <<asyncReceiveInProgress, recvOp, recvAt, isOpen>>
                 /\ StaysOpen
              \/ /\ Len(got) < ammount
                 /\ StartAsyncReceive(got, ammount - Len(got))
                 /\ kernelRead' = kernelRead + read
                 /\ receiveBuffer' = <<>>
                 /\ UNCHANGED <<delivered, isOpen>>
                 /\ StaysOpen
              \/ /\ Len(partial) < ammount
                 /\ ReadFails(read)

ReceiveAvailable ==
  /\ ClientMay
  /\ UNCHANGED eofReported /\ KeepSend /\ KeepConnection
  /\ \/ ~MayReceive /\ ClearOnly
     \/ /\ MayReceive
        /\ LET got == partial \o Bytes(kernelRead, Readable)
           IN \/ /\ Deliver(got, Len(got))
                 /\ kernelRead' = arrived
                 /\ UNCHANGED <<asyncReceiveInProgress, recvOp, recvAt, isOpen>>
                 /\ StaysOpen
              \/ ReadFails(Readable)

(* async_read moves bytes into the vector as they arrive, one at a time    *)
(* here, until it is full or the connection ends.                          *)
OsReceive ==
  /\ recvOp = "pending"
  /\ \/ /\ isOpen /\ Readable > 0
        /\ partial' = [partial EXCEPT ![recvAt + 1] = kernelRead + 1]
        /\ recvAt' = recvAt + 1
        /\ kernelRead' = kernelRead + 1
        /\ recvOp' = IF recvAt + 1 = Len(partial) THEN "done" ELSE "pending"
     \/ /\ isOpen /\ Readable = 0 /\ peer = "fin"
        /\ recvOp' = "eof"
        /\ UNCHANGED <<partial, recvAt, kernelRead>>
     \/ /\ isOpen /\ peer = "reset"
        /\ recvOp' = "failed"
        /\ UNCHANGED <<partial, recvAt, kernelRead>>
     \/ /\ ~isOpen
        /\ recvOp' = "aborted"
        /\ UNCHANGED <<partial, recvAt, kernelRead>>
  /\ UNCHANGED <<asyncReceiveInProgress, receiveBuffer, delivered, eofReported,
                 isOpen>>
  /\ StaysOpen /\ KeepSend /\ KeepConnection

EndRead ==
  asyncReceiveInProgress' = FALSE /\ recvOp' = "idle" /\ recvAt' = 0

(* handleReceive.  Unlike handleSend it does not look at abortRequested.   *)
HandleReceive ==
  /\ recvOp \in {"done", "eof", "failed", "aborted"}
  /\ EndRead
  /\ UNCHANGED <<partial, recvDataVars, eofReported>>
  /\ KeepSend /\ KeepConnection
  /\ \/ recvOp = "done" /\ StaysOpen /\ SocketAfter(isOpen)
     \/ /\ recvOp # "done"
        /\ EnterError(IF recvOp = "failed" THEN "receive" ELSE recvOp)
        /\ SocketAfter(FALSE)

(* isEof: nothing buffered, no read running, and the peek finds the end.   *)
NothingInKernel == ~asyncReceiveInProgress
NothingBuffered == partial = <<>> /\ ~asyncReceiveInProgress

IsEof ==
  /\ ClientMay
  /\ UNCHANGED <<recvOpVars, recvDataVars>> /\ KeepSend /\ KeepConnection
  /\ \/ /\ state = "closed"
        /\ eofReported' = TRUE
        /\ UNCHANGED isOpen /\ StaysOpen
     \/ /\ state = "connected" /\ NothingBuffered
        /\ Readable = 0 /\ peer = "fin"
        /\ eofReported' = TRUE
        /\ UNCHANGED isOpen /\ StaysOpen
     \/ /\ state = "connected" /\ NothingBuffered /\ peer = "reset"
        /\ eofReported' = TRUE
        /\ EnterError("peek")
        /\ SocketAfter(FALSE)
----------------------------------------------------------------------------
(* Destroying the socket (socketApi.cpp, destroySocket): first the         *)
(* disconnect call, under commonMutex_, then the release of the handle.    *)

DestroyGraceful ==
  /\ ClientMay
  /\ handle' = "releasing"
  /\ CommitAndStart
  /\ UNCHANGED <<sendTotal, sendLimit, pushed, osTaken, isOpen, connectVars,
                 recvOpVars, recvDataVars, noDelayVars, peer, arrived, eofReported>>
  /\ StaysOpen

DestroyAbortive ==
  /\ ClientMay
  /\ handle' = "releasing"
  /\ EnterClosed(state)
  /\ UNCHANGED <<errorMessage, connectVars, recvOpVars, recvDataVars, noDelayVars,
                 peer, arrived, eofReported>>
  /\ KeepSend
  /\ SocketAfter(FALSE)

ReleaseHandle ==
  /\ handle = "releasing"
  /\ handle' = "released"
  /\ UNCHANGED <<connectVars, recvOpVars, recvDataVars, noDelayVars,
                 peer, arrived, eofReported>>
  /\ KeepSend
  /\ StaysOpen
  /\ SocketAfter(isOpen)
----------------------------------------------------------------------------
(* The peer, on an established connection.                                 *)
PeerActs ==
  UNCHANGED <<handle, isOpen, connectVars, noDelayVars, sendOpVars,
              sendDataVars, recvOpVars, recvDataVars, eofReported>> /\ StaysOpen

PeerSends ==
  /\ Established /\ peer = "up" /\ arrived < MaxPeerBytes
  /\ arrived' = arrived + 1
  /\ UNCHANGED peer /\ PeerActs

PeerCloses ==
  /\ Established /\ peer = "up"
  /\ peer' = "fin"
  /\ UNCHANGED arrived /\ PeerActs

PeerResets ==
  /\ Established /\ peer \in {"up", "fin"}
  /\ peer' = "reset"
  /\ UNCHANGED arrived /\ PeerActs
----------------------------------------------------------------------------
Init ==
  /\ state = "none" /\ errorMessage = "none" /\ handle = "none"
  /\ isOpen = FALSE /\ sockNoDelay = FALSE /\ peer = "none"
  /\ resolveOp = "idle" /\ resolved = <<>> /\ connectOp = "idle"
  /\ endpoints = IteratorOver(<<>>)
  /\ connectingAbort = FALSE /\ connectedAbort = FALSE
  /\ noDelay = TRUE /\ grantedNoDelay = TRUE
  /\ asyncSendInProgress = FALSE /\ sendOp = "idle"
  /\ inFlight = 0 /\ transferred = 0
  /\ sendTotal = 0 /\ sendCommitted = 0 /\ sendLimit = NoLimit
  /\ asyncReceiveInProgress = FALSE /\ recvOp = "idle" /\ recvAt = 0
  /\ partial = <<>> /\ receiveBuffer = <<>> /\ arrived = 0 /\ kernelRead = 0
  /\ tried = <<>> /\ pushed = 0 /\ osTaken = 0
  /\ delivered = <<>> /\ eofReported = FALSE

Construct ==
  \/ \E f \in Families : ConnectToLiteral(f)
  \/ ConnectToName \/ FromConnectedSocket \/ ErrorSocket

Client ==
  \/ \E n \in WriteSizes : Write(n)
  \/ \E n \in RequestSizes : Receive(n)
  \/ \E b \in BOOLEAN : SetNoDelay(b)
  \/ \E l \in SendLimits : SetSendbufferLimit(l)
  \/ Send \/ ReceiveAvailable \/ IsEof
  \/ DestroyGraceful \/ DestroyAbortive \/ ReleaseHandle

Butler == HandleResolve \/ HandleConnect \/ HandleSend \/ HandleReceive
System == OsResolve \/ OsConnect \/ OsSend \/ OsReceive
Peer == PeerSends \/ PeerCloses \/ PeerResets

Next == Construct \/ Client \/ Butler \/ System \/ Peer

(* The io_service thread runs every handler that is ready, the OS ends     *)
(* every lookup and connection attempt and moves the bytes it can move,    *)
(* and destroySocket runs to its end.  Nothing makes the client call, or   *)
(* the peer send or close.                                                 *)
Fairness ==
  /\ WF_vars(HandleResolve) /\ WF_vars(HandleConnect)
  /\ WF_vars(HandleSend) /\ WF_vars(HandleReceive)
  /\ WF_vars(OsResolve) /\ WF_vars(OsConnect)
  /\ WF_vars(OsSend) /\ WF_vars(OsReceive)
  /\ WF_vars(ReleaseHandle)

Spec == Init /\ [][Next]_vars
FairSpec == Spec /\ Fairness
----------------------------------------------------------------------------
ControlTypes ==
  /\ state \in {"none", "connecting", "connected", "closed"}
  /\ handle \in {"none", "held", "releasing", "released"}
  /\ errorMessage \in Errors
  /\ isOpen \in BOOLEAN
  /\ connectingAbort \in BOOLEAN /\ connectedAbort \in BOOLEAN
  /\ peer \in {"none", "up", "fin", "reset"}
  /\ arrived \in Nat
  /\ eofReported \in BOOLEAN

ConnectTypes ==
  /\ resolveOp \in {"idle", "pending", "done", "failed"}
  /\ connectOp \in {"idle", "pending", "ok", "failed"}
  /\ resolved \in Seq(Families)
  /\ endpoints \in [list : Seq(Families), v4 : Nat, v6 : Nat]
  /\ tried \in Seq(Nat)
  /\ noDelay \in BOOLEAN /\ sockNoDelay \in BOOLEAN /\ grantedNoDelay \in BOOLEAN

SendTypes ==
  /\ sendOp \in {"idle", "pending", "done", "failed"}
  /\ asyncSendInProgress \in BOOLEAN
  /\ inFlight \in Nat /\ transferred \in Nat
  /\ sendTotal \in Nat /\ sendCommitted \in Nat /\ sendLimit \in Nat
  /\ pushed \in Nat /\ osTaken \in Nat

ReceiveTypes ==
  /\ recvOp \in {"idle", "pending", "done", "eof", "failed", "aborted"}
  /\ asyncReceiveInProgress \in BOOLEAN
  /\ recvAt \in Nat /\ kernelRead \in Nat
  /\ partial \in Seq(Nat) /\ receiveBuffer \in Seq(Nat) /\ delivered \in Seq(Nat)

TypeOK == ControlTypes /\ ConnectTypes /\ SendTypes /\ ReceiveTypes
----------------------------------------------------------------------------
(* What makes the class correct.                                           *)

(* The client gets the peer's bytes in order, each once, and never a       *)
(* placeholder; while no read runs in the background, the bytes taken from *)
(* the kernel and not yet delivered are exactly those in                   *)
(* partialReceiveBuffer (receive, nonblockReceive, startAsyncReceive).     *)
ReceiveStream ==
  /\ delivered = Bytes(0, Len(delivered))
  /\ state = "connected" /\ ~asyncReceiveInProgress =>
       delivered \o partial = Bytes(0, kernelRead)

(* Every byte written is in the send buffer until the OS has taken it, is  *)
(* taken once, and only committed bytes are in flight, so handleSend never *)
(* pops more than was committed (SendBuffer::pop would throw).             *)
SendStream ==
  /\ sendCommitted <= sendTotal
  /\ ~connectedAbort => transferred <= inFlight /\ inFlight <= sendCommitted
  /\ state # "closed" => osTaken + sendTotal = pushed + transferred
  /\ osTaken <= pushed

(* Committed bytes never wait for a send() that does not come: while they  *)
(* are there, an async_send is in progress whose handler will look again   *)
(* (commit while connecting, commit while a send runs, enter).             *)
NoStalledSend ==
  state = "connected" /\ sendCommitted > 0 => asyncSendInProgress

(* However the closed state is reached, and from whichever thread, the     *)
(* OS socket is closed with it and no attempt in flight reopens it.        *)
ClosedIsClosed == state = "closed" => ~isOpen

(* The closed state is final, it moves no more data, and the first error   *)
(* message is the one that stays.                                          *)
ClosedIsFinal ==
  [][state = "closed" =>
       /\ state' = "closed"
       /\ hasError => errorMessage' = errorMessage
       /\ UNCHANGED <<osTaken, delivered>>]_vars

(* Once isEof has said there is no more to receive, no byte is delivered.  *)
EofFinal == [][eofReported => delivered' = delivered]_vars

(* The vector a background read writes into is not resized (reallocated)   *)
(* before that read ends, whatever the client calls.                       *)
ReadTargetStable == [][recvOp = "pending" => Len(partial') = Len(partial)]_vars

(* Endpoints are tried once each, IPv4 before IPv6 and otherwise in the    *)
(* resolver's order, and connecting fails for good only when all failed.   *)
FallbackOrder ==
  /\ \A i, j \in DOMAIN tried : i < j =>
       LET p == tried[i]  q == tried[j]  list == endpoints.list
       IN  \/ list[p] = list[q] /\ p < q
           \/ list[p] = "v4" /\ list[q] = "v6"
  /\ errorMessage = "connect" => Len(tried) = Len(endpoints.list)

(* The option in force on a connected socket is the one that setNoDelay    *)
(* last returned true for, and the default before: one granted while       *)
(* connecting is not lost to the fresh OS socket of each attempt, and one  *)
(* that the OS refuses later leaves that in force.                         *)
NoDelayKept == state = "connected" => sockNoDelay = grantedNoDelay

(* A connection attempt is decided one way or the other.                   *)
ConnectSettles == state = "connecting" ~> state # "connecting"

(* Destroying the socket gracefully loses nothing that was written, while  *)
(* connecting or connected with no read in the background: all of it gets  *)
(* to the OS without another call, unless the connection fails or is reset.*)
GracefulDrain ==
  /\ (handle = "releasing" /\ state = "connected" /\ ~asyncReceiveInProgress)
       ~> (osTaken = pushed \/ peer = "reset")
  /\ (handle = "releasing" /\ state = "connecting")
       ~> (osTaken = pushed \/ peer = "reset" \/ hasError)

(* A released socket is closed and freed, unless a read runs in the        *)
(* background: the handlers in flight let go of it one after the other.    *)
CloseAfterRelease ==
  (handle = "released" /\ ~asyncReceiveInProgress) ~> (~isOpen /\ ~Referenced)

(* A background read ends once the connection does, for whatever reason.   *)
ReadSettles ==
  (asyncReceiveInProgress /\ (state = "closed" \/ peer # "up"))
     ~> ~asyncReceiveInProgress

(* Whatever the object waits for comes to an end.                          *)
OperationsSettle == ConnectSettles /\ ReadSettles
----------------------------------------------------------------------------
(* The inductive invariant behind SendStream, NoStalledSend and            *)
(* ClosedIsClosed.                                                         *)

(* Each in-progress flag stands for one operation whose handler has not    *)
(* run; only a completed send has moved bytes.                             *)
FlagInv ==
  /\ asyncSendInProgress <=> sendOp # "idle"
  /\ asyncReceiveInProgress <=> recvOp # "idle"
  /\ transferred > 0 => sendOp = "done"

(* Who may still change state_: a handler that finds its state object not  *)
(* aborted finds that object current.                                      *)
PhaseInv ==
  /\ state = "none" <=> handle = "none"
  /\ connectingAbort \/ connectedAbort => state = "closed"
  /\ (resolveOp # "idle" \/ connectOp # "idle") /\ ~connectingAbort
       => state = "connecting"
  /\ resolveOp = "idle" \/ connectOp = "idle"
  /\ state = "connected" => resolveOp = "idle" /\ connectOp = "idle"
  /\ sendOp # "idle" /\ ~connectedAbort => state = "connected"
  /\ recvOp # "idle" => state \in {"connected", "closed"}
  /\ state = "none" => ~isOpen

(* Nothing is read before it has arrived.                                  *)
KernelInv == kernelRead <= arrived

SendInv == SendStream /\ NoStalledSend

IInv == TypeOK /\ FlagInv /\ PhaseInv /\ KernelInv /\ ClosedIsClosed /\ SendInv
----------------------------------------------------------------------------
(* What is inductive about receiving, the option and the fallback.         *)

(* The part of partialReceiveBuffer that holds bytes: a background read    *)
(* has filled it up to recvAt.                                             *)
Filled == IF asyncReceiveInProgress THEN Take(partial, recvAt) ELSE partial

(* Every byte taken from the kernel has been delivered or waits, in order, *)
(* in the filled part, until the socket is closed with what it had.        *)
StreamInv ==
  /\ delivered = Bytes(0, Len(delivered))
  /\ state # "closed" =>
       /\ delivered \o Filled = Bytes(0, kernelRead)
       /\ asyncReceiveInProgress => recvAt <= Len(partial)
       /\ recvOp = "pending" => recvAt < Len(partial)
       /\ recvOp = "done" => recvAt = Len(partial)

(* After isEof has said so there is nothing left to deliver: the socket is *)
(* closed, or the peer has finished and all it sent is delivered.          *)
EofInv ==
  eofReported /\ state # "closed" =>
    /\ state = "connected" /\ peer \in {"fin", "reset"}
    /\ Readable = 0 /\ recvOp # "done"
    /\ ~asyncReceiveInProgress => partial = <<>>

(* The option waits in TcpConnecting until the connected socket has it.    *)
OptionInv ==
  /\ state = "none" => noDelay /\ grantedNoDelay
  /\ state = "connecting" => noDelay = grantedNoDelay
  /\ NoDelayKept

(* What has been tried is what the two cursors have left behind, the IPv6  *)
(* endpoints only once the IPv4 cursor is at the end.                      *)
Before(it, p) == IF it.list[p] = "v4" THEN p < it.v4 ELSE p < it.v6
Walked(it, walk) ==
  /\ it.v4 \in 1..(Len(it.list) + 1) /\ it.v6 \in 1..(Len(it.list) + 1)
  /\ it.v4 \in DOMAIN it.list => it.list[it.v4] = "v4"
  /\ it.v6 \in DOMAIN it.list => it.list[it.v6] = "v6"
  /\ \A i \in DOMAIN walk :
       /\ walk[i] \in DOMAIN it.list /\ Before(it, walk[i])
       /\ it.list[walk[i]] = "v6" => AtEnd(it, it.v4)
  /\ \A p \in DOMAIN it.list : Before(it, p) => \E i \in DOMAIN walk : walk[i] = p

TriedInv ==
  /\ errorMessage # "none" => state = "closed"
  /\ resolveOp = "done" => resolved # <<>>
  /\ state = "none" \/ (resolveOp # "idle" /\ ~connectingAbort) => tried = <<>>
  /\ Walked(endpoints, tried)
  /\ FallbackOrder
  /\ errorMessage = "connect" => ~HasNext(endpoints)
----------------------------------------------------------------------------
(* What a comment in the code promises and the code does not do.           *)

(* socketApi.cpp:196: "we want to make sure that everything left in the    *)
(* send buffer is committed": destroying a connected socket gracefully     *)
(* gets all of it sent, unless the peer resets the connection.             *)
DestroySends ==
  (handle = "releasing" /\ state = "connected")
    ~> (osTaken = pushed \/ peer = "reset")
=============================================================================
