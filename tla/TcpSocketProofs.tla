-------------------------- MODULE TcpSocketProofs --------------------------
(***************************************************************************)
(* Machine-checked proofs about TcpSocket, for every list of endpoints,    *)
(* every set of sizes and every bound.                                     *)
(***************************************************************************)
EXTENDS TcpSocket, Lemmas, SequenceTheorems, FiniteSetTheorems, TLAPS

(* Skipping the other family leaves the cursor on a position of the list   *)
(* or at its end.                                                          *)
LEMMA SkipType ==
  ASSUME NEW list \in Seq(Families), NEW k \in Nat, NEW f
  PROVE  Skip(list, k, f) \in Nat
PROOF
  <1> DEFINE hits == {i \in k..Len(list) : list[i] = f}
  <1>1. CASE hits = {}
    BY <1>1 DEF Skip
  <1>2. CASE hits # {}
    <2>1. hits \in SUBSET Nat
      OBVIOUS
    <2>2. \E i \in hits : \A j \in hits : i <= j
      BY <1>2, <2>1, LeastNumber
    <2> QED BY <1>2, <2>1, <2>2 DEF Skip
  <1> QED BY <1>1, <1>2

Iterators == [list : Seq(Families), v4 : Nat, v6 : Nat]

(* V4FirstIterator's constructor and next() yield iterators.               *)
LEMMA IteratorTypes ==
  /\ \A list \in Seq(Families) : IteratorOver(list) \in Iterators
  /\ \A it \in Iterators : /\ Advance(it) \in Iterators
                           /\ NextPosition(it) \in Nat
PROOF
  <1>1. ASSUME NEW list \in Seq(Families)
        PROVE  IteratorOver(list) \in Iterators
    BY SkipType DEF IteratorOver, Iterators
  <1>2. ASSUME NEW it \in Iterators
        PROVE  Advance(it) \in Iterators /\ NextPosition(it) \in Nat
    <2>1. it.list \in Seq(Families) /\ it.v4 \in Nat /\ it.v6 \in Nat
      BY DEF Iterators
    <2>2. /\ Skip(it.list, it.v4 + 1, "v4") \in Nat
          /\ Skip(it.list, it.v6 + 1, "v6") \in Nat
      BY <2>1, SkipType
    <2>3. NextPosition(it) \in Nat
      BY <2>1 DEF NextPosition
    <2>4. Advance(it) \in Iterators
      <3>1. \A n \in Nat : /\ [it EXCEPT !.v4 = n] \in Iterators
                           /\ [it EXCEPT !.v6 = n] \in Iterators
        BY DEF Iterators
      <3> QED BY <2>2, <3>1 DEF Advance
    <2> QED BY <2>3, <2>4
  <1> QED BY <1>1, <1>2
----------------------------------------------------------------------------
(* What most steps do to the control state: leave it alone, except that    *)
(* the socket may be closed with its last reference ...                    *)
Keeps ==
  /\ UNCHANGED <<state, handle, resolveOp, connectOp, abortVars>>
  /\ isOpen' \in BOOLEAN /\ (isOpen' => isOpen)
  /\ sendOp' # "idle" => sendOp # "idle" \/ state = "connected"
  /\ recvOp' # "idle" => recvOp # "idle" \/ state = "connected"

(* ... or close the socket, on an error or abortively.                     *)
Closes ==
  /\ state # "none"
  /\ handle # "none" /\ handle' # "none"
  /\ EnterClosed(state)
  /\ UNCHANGED <<resolveOp, connectOp, sendOp>>
  /\ isOpen' = FALSE

LEMMA KeepOrClose ==
  ASSUME ControlTypes, PhaseInv, ClosedIsClosed, Keeps \/ Closes
  PROVE  PhaseInv' /\ ClosedIsClosed'
PROOF
  <1>1. CASE Keeps
    BY <1>1 DEF Keeps, abortVars, ControlTypes, PhaseInv, ClosedIsClosed
  <1>2. CASE Closes
    BY <1>2 DEF Closes, EnterClosed, ControlTypes, PhaseInv, ClosedIsClosed
  <1> QED BY <1>1, <1>2

(* The control invariants survive every action of the client ...           *)
LEMMA ClientControl ==
  ASSUME TypeOK, FlagInv, PhaseInv, ClosedIsClosed, Client
  PROVE  PhaseInv' /\ ClosedIsClosed'
PROOF
  <1> USE DEF TypeOK, ControlTypes, StaysOpen, KeepSend, KeepConnection,
        KeepSendAndReceive, connectVars, abortVars, sendOpVars, recvOpVars,
        recvDataVars
  <1>1. ASSUME NEW n \in WriteSizes, Write(n)  PROVE Keeps \/ Closes
    <2>1. CASE ExceedsLimit(n)
      BY <1>1, <2>1 DEF Closes, Write, ClientMay, PhaseInv, SocketAfter,
           EnterError, EnterErrorFrom
    <2>2. CASE ~ExceedsLimit(n)
      BY <1>1, <2>2 DEF Keeps, Write
    <2> QED BY <2>1, <2>2
  <1>2. ASSUME NEW n \in RequestSizes, Receive(n)  PROVE Keeps \/ Closes
    BY <1>2 DEF Keeps, Closes, Receive, ClearOnly, MayReceive, ReadFails,
         ClientMay, PhaseInv, SocketAfter, EnterError, EnterErrorFrom
  <1>3. ASSUME NEW b \in BOOLEAN, SetNoDelay(b)  PROVE Keeps
    BY <1>3 DEF Keeps, SetNoDelay, RememberNoDelay, ApplyNoDelay
  <1>4. ASSUME NEW l \in SendLimits, SetSendbufferLimit(l)  PROVE Keeps
    BY <1>4 DEF Keeps, SetSendbufferLimit
  <1>5. ASSUME Send  PROVE Keeps
    BY <1>5 DEF Keeps, Send, CommitAndStart
  <1>6. ASSUME ReceiveAvailable  PROVE Keeps \/ Closes
    BY <1>6 DEF Keeps, Closes, ReceiveAvailable, ClearOnly, ReadFails,
         ClientMay, PhaseInv, SocketAfter, EnterError, EnterErrorFrom
  <1>7. ASSUME IsEof  PROVE Keeps \/ Closes
    BY <1>7 DEF Keeps, Closes, IsEof, ClientMay, PhaseInv, SocketAfter,
         EnterError, EnterErrorFrom
  <1>8. CASE DestroyGraceful
    BY <1>8 DEF DestroyGraceful, ClientMay, CommitAndStart, PhaseInv, ClosedIsClosed
  <1>9. ASSUME DestroyAbortive  PROVE Closes
    BY <1>9 DEF Closes, DestroyAbortive, ClientMay, PhaseInv, SocketAfter
  <1>10. CASE ReleaseHandle
    BY <1>10 DEF ReleaseHandle, SocketAfter, PhaseInv, ClosedIsClosed
  <1> HIDE DEF TypeOK
  <1> QED BY <1>1, <1>2, <1>3, <1>4, <1>5, <1>6, <1>7, <1>8, <1>9, <1>10,
             KeepOrClose DEF Client, TypeOK

(* A connection attempt leaves the socket connecting, or closes it when    *)
(* the socket of the last attempt does not close.                          *)
LEMMA AttemptEffect ==
  ASSUME NEW it, StartConnectionAttempt(it), ~connectingAbort, ~connectedAbort
  PROVE  \/ /\ state' = "connecting" /\ connectOp' # "idle"
            /\ ~connectingAbort' /\ ~connectedAbort'
         \/ /\ state' = "closed" /\ connectOp' = "idle" /\ ~isOpen'
            /\ connectingAbort' /\ ~connectedAbort'
PROOF
  BY DEF StartConnectionAttempt, SocketAfter, EnterErrorFrom, EnterClosed, abortVars

(* TcpConnected::enter leaves the socket connected and sending, or closed. *)
LEMMA EnterEffect ==
  ASSUME NEW option, Enter(option), ~connectingAbort, ~connectedAbort
  PROVE  \/ /\ state' = "connected"
            /\ ~connectingAbort' /\ ~connectedAbort'
         \/ /\ state' = "closed" /\ ~isOpen' /\ UNCHANGED sendOpVars
            /\ ~connectingAbort' /\ connectedAbort'
PROOF
  BY DEF Enter, SocketAfter, EnterErrorFrom, EnterClosed, abortVars

(* ... of the completion handlers, which is where the abort flags count    *)
LEMMA ButlerControl ==
  ASSUME TypeOK, FlagInv, PhaseInv, ClosedIsClosed, Butler
  PROVE  PhaseInv' /\ ClosedIsClosed'
PROOF
  <1> USE DEF StaysOpen, KeepSend, KeepConnection, KeepSendAndReceive,
        connectVars, abortVars, sendOpVars, recvOpVars, recvDataVars
  <1> ControlTypes
    BY DEF TypeOK
  <1>1. ASSUME HandleResolve  PROVE PhaseInv' /\ ClosedIsClosed'
    <2>1. CASE AbortSeen
      BY <1>1, <2>1 DEF HandleResolve, AbortSeen, SocketAfter, ControlTypes,
           PhaseInv, ClosedIsClosed
    <2>2. CASE ~AbortSeen
      <3>1. /\ state = "connecting" /\ connectOp = "idle" /\ sendOp = "idle"
            /\ ~connectingAbort /\ ~connectedAbort /\ handle # "none"
            /\ recvOp = "idle"
        BY <1>1, <2>2 DEF HandleResolve, AbortSeen, PhaseInv
      <3>2. /\ resolveOp' = "idle" /\ sendOp' = "idle" /\ recvOp' = "idle"
            /\ handle' = handle
        BY <1>1, <3>1 DEF HandleResolve
      <3>3. CASE resolveOp = "failed"
        BY <1>1, <2>2, <3>1, <3>2, <3>3 DEF HandleResolve, LookupFailed, SocketAfter,
             EnterError, EnterErrorFrom, EnterClosed, PhaseInv, ClosedIsClosed
      <3>4. CASE StartConnectionAttempt(IteratorOver(resolved))
        BY <3>1, <3>2, <3>4, AttemptEffect DEF PhaseInv, ClosedIsClosed
      <3> QED BY <1>1, <2>2, <3>3, <3>4 DEF HandleResolve
    <2> QED BY <2>1, <2>2
  <1>2. ASSUME HandleConnect  PROVE PhaseInv' /\ ClosedIsClosed'
    <2>1. CASE AbortSeen
      BY <1>2, <2>1 DEF HandleConnect, AbortSeen, SocketAfter, ControlTypes,
           PhaseInv, ClosedIsClosed
    <2>2. CASE ~AbortSeen
      <3>1. /\ state = "connecting" /\ resolveOp = "idle" /\ sendOp = "idle"
            /\ ~connectingAbort /\ ~connectedAbort /\ handle # "none"
            /\ recvOp = "idle"
        BY <1>2, <2>2 DEF HandleConnect, AbortSeen, PhaseInv
      <3>2. /\ resolveOp' = "idle" /\ recvOp' = "idle" /\ handle' = handle
        BY <1>2, <3>1 DEF HandleConnect
      <3>3. CASE Enter(WantedOption) /\ connectOp' = "idle"
        BY <3>1, <3>2, <3>3, EnterEffect DEF PhaseInv, ClosedIsClosed
      <3>4. CASE StartConnectionAttempt(endpoints) /\ UNCHANGED sendOpVars
        BY <3>1, <3>2, <3>4, AttemptEffect DEF PhaseInv, ClosedIsClosed
      <3>5. CASE /\ EnterError("connect") /\ SocketAfter(FALSE)
                 /\ UNCHANGED sendOpVars /\ connectOp' = "idle"
        BY <3>1, <3>2, <3>5 DEF SocketAfter,
             EnterError, EnterErrorFrom, EnterClosed, PhaseInv, ClosedIsClosed
      <3> QED BY <1>2, <2>2, <3>3, <3>4, <3>5 DEF HandleConnect
    <2> QED BY <2>1, <2>2
  <1>3. ASSUME HandleSend  PROVE PhaseInv' /\ ClosedIsClosed'
    <2>1. CASE connectedAbort
      BY <1>3, <2>1 DEF HandleSend, NoSend, SocketAfter, ControlTypes,
           PhaseInv, ClosedIsClosed
    <2>2. CASE ~connectedAbort /\ sendOp = "done"
      <3>1. state = "connected"
        BY <1>3, <2>2 DEF HandleSend, PhaseInv
      <3>2. Keeps
        BY <1>3, <2>2, <3>1 DEF Keeps, HandleSend, SocketAfter, ControlTypes
      <3> QED BY <3>2, KeepOrClose
    <2>3. CASE ~connectedAbort /\ sendOp = "failed"
      <3>1. state = "connected" /\ handle # "none"
        BY <1>3, <2>3 DEF HandleSend, PhaseInv
      <3>2. /\ EnterClosed(state) /\ isOpen' = FALSE
            /\ sendOp' = "idle" /\ UNCHANGED <<resolveOp, connectOp, recvOp, handle>>
        BY <1>3, <2>3 DEF HandleSend, NoSend, SocketAfter, EnterError, EnterErrorFrom
      <3> QED BY <3>1, <3>2 DEF EnterClosed, ControlTypes, PhaseInv, ClosedIsClosed
    <2> QED BY <1>3, <2>1, <2>2, <2>3 DEF HandleSend
  <1>4. ASSUME HandleReceive  PROVE PhaseInv' /\ ClosedIsClosed'
    <2>1. /\ state \in {"connected", "closed"} /\ handle # "none"
          /\ recvOp' = "idle" /\ UNCHANGED <<resolveOp, connectOp, sendOp, handle>>
      BY <1>4 DEF HandleReceive, EndRead, PhaseInv
    <2>2. Keeps \/ Closes
      BY <1>4, <2>1 DEF Keeps, Closes, HandleReceive, SocketAfter, ControlTypes,
           EnterError, EnterErrorFrom
    <2> QED BY <2>2, KeepOrClose
  <1> QED BY <1>1, <1>2, <1>3, <1>4 DEF Butler

(* ... and of the constructors, the operating system and the peer.         *)
LEMMA OtherControl ==
  ASSUME TypeOK, FlagInv, PhaseInv, ClosedIsClosed, Construct \/ System \/ Peer
  PROVE  PhaseInv' /\ ClosedIsClosed'
PROOF
  <1> USE DEF StaysOpen, KeepSend, KeepConnection, KeepSendAndReceive, PeerActs,
        connectVars, abortVars, sendOpVars, recvOpVars, recvDataVars
  <1> ControlTypes
    BY DEF TypeOK
  <1>1. ASSUME Construct  PROVE PhaseInv' /\ ClosedIsClosed'
    <2>1. /\ state = "none" /\ resolveOp = "idle" /\ connectOp = "idle"
          /\ sendOp = "idle" /\ recvOp = "idle" /\ ~isOpen
          /\ ~connectingAbort /\ ~connectedAbort
          /\ handle' = "held" /\ recvOp' = "idle"
      BY <1>1 DEF Construct, ConnectToLiteral, ConnectToName, FromConnectedSocket,
           ErrorSocket, ConstructWith, PhaseInv
    <2>2. CASE \E f \in Families : ConnectToLiteral(f)
      <3>1. PICK f \in Families : ConnectToLiteral(f)
        BY <2>2
      <3>2. resolveOp' = "idle" /\ sendOp' = "idle"
        BY <2>1, <3>1 DEF ConnectToLiteral
      <3>3. StartConnectionAttempt(IteratorOver(<<f>>))
        BY <3>1 DEF ConnectToLiteral
      <3> QED BY <2>1, <3>2, <3>3, AttemptEffect DEF PhaseInv, ClosedIsClosed
    <2>3. CASE ConnectToName
      BY <2>1, <2>3 DEF ConnectToName, PhaseInv, ClosedIsClosed
    <2>4. CASE FromConnectedSocket
      <3>1. resolveOp' = "idle" /\ connectOp' = "idle" /\ Enter(DefaultOption)
        BY <2>1, <2>4 DEF FromConnectedSocket
      <3> QED BY <2>1, <3>1, EnterEffect DEF PhaseInv, ClosedIsClosed
    <2>5. CASE ErrorSocket
      BY <2>1, <2>5 DEF ErrorSocket, PhaseInv, ClosedIsClosed
    <2> QED BY <1>1, <2>2, <2>3, <2>4, <2>5 DEF Construct
  <1>2. ASSUME System  PROVE PhaseInv' /\ ClosedIsClosed'
    <2>1. CASE OsResolve
      BY <2>1 DEF OsResolve, PhaseInv, ClosedIsClosed
    <2>2. CASE OsConnect
      BY <2>2 DEF OsConnect, PhaseInv, ClosedIsClosed
    <2>3. CASE OsSend
      BY <2>3 DEF OsSend, PhaseInv, ClosedIsClosed
    <2>4. CASE OsReceive
      BY <2>4 DEF OsReceive, PhaseInv, ClosedIsClosed
    <2> QED BY <1>2, <2>1, <2>2, <2>3, <2>4 DEF System
  <1>3. ASSUME Peer  PROVE PhaseInv' /\ ClosedIsClosed'
    BY <1>3 DEF Peer, PeerSends, PeerCloses, PeerResets, PhaseInv, ClosedIsClosed
  <1> QED BY <1>1, <1>2, <1>3

----------------------------------------------------------------------------
(* Types.  What closing and entering the error state assign is well typed. *)
LEMMA SocketAfterType ==
  ASSUME ControlTypes, NEW open \in BOOLEAN, SocketAfter(open)
  PROVE  isOpen' \in BOOLEAN
PROOF
  BY DEF SocketAfter, ControlTypes

CloseTypes ==
  /\ state' = "closed" /\ errorMessage' \in Errors
  /\ connectingAbort' \in BOOLEAN /\ connectedAbort' \in BOOLEAN

LEMMA EnterErrorType ==
  ASSUME ControlTypes, NEW s, NEW msg \in Errors, EnterErrorFrom(s, msg)
  PROVE  CloseTypes
PROOF
  BY DEF EnterErrorFrom, EnterClosed, MessageAfter, ControlTypes, CloseTypes

LEMMA ControlTypesStep ==
  ASSUME ControlTypes, Next
  PROVE  ControlTypes'
PROOF
  <1> DEFINE Rest == UNCHANGED <<handle, peer, arrived, eofReported>>
             Same == UNCHANGED <<state, errorMessage, abortVars>>
             Socket == isOpen' \in BOOLEAN
  <1> USE DEF StaysOpen, KeepConnection, KeepSendAndReceive, PeerActs
  <1>a. TRUE \in BOOLEAN /\ FALSE \in BOOLEAN /\ isOpen \in BOOLEAN
    BY DEF ControlTypes
  <1>b. {"invalid", "resolve", "close", "connect", "enter", "limit", "send",
         "receive", "peek", "eof", "aborted"} \subseteq Errors
    BY DEF Errors
  <1>c. ASSUME Same \/ CloseTypes, Socket, Rest  PROVE ControlTypes'
    BY <1>c DEF ControlTypes, CloseTypes, abortVars
  <1>d. ASSUME NEW it, StartConnectionAttempt(it)
        PROVE  /\ state' \in {"connecting", "closed"} /\ errorMessage' \in Errors
               /\ connectingAbort' \in BOOLEAN /\ connectedAbort' \in BOOLEAN
               /\ Socket
    BY <1>a, <1>b, <1>d, SocketAfterType, EnterErrorType
       DEF StartConnectionAttempt, abortVars, CloseTypes, ControlTypes
  <1>e. ASSUME NEW option, Enter(option)
        PROVE  /\ state' \in {"connected", "closed"} /\ errorMessage' \in Errors
               /\ connectingAbort' \in BOOLEAN /\ connectedAbort' \in BOOLEAN
               /\ Socket
    BY <1>a, <1>b, <1>e, SocketAfterType, EnterErrorType
       DEF Enter, abortVars, CloseTypes, ControlTypes
  <1>1. ASSUME NEW f \in Families, ConnectToLiteral(f)  PROVE ControlTypes'
    BY <1>1, <1>d DEF ConnectToLiteral, ConstructWith, ControlTypes
  <1>2. ASSUME ConnectToName  PROVE ControlTypes'
    BY <1>2 DEF ConnectToName, ConstructWith, ControlTypes, abortVars
  <1>3. ASSUME FromConnectedSocket  PROVE ControlTypes'
    BY <1>3, <1>e DEF FromConnectedSocket, ConstructWith, ControlTypes
  <1>4. ASSUME ErrorSocket  PROVE ControlTypes'
    BY <1>4, <1>b DEF ErrorSocket, ConstructWith, ControlTypes, abortVars
  <1>5. ASSUME NEW n \in WriteSizes, Write(n)  PROVE ControlTypes'
    <2>1. CASE ExceedsLimit(n)
      BY <1>5, <2>1, <1>a, <1>b, <1>c, SocketAfterType, EnterErrorType
         DEF Write, EnterError
    <2>2. CASE ~ExceedsLimit(n)
      BY <1>5, <2>2, <1>c DEF Write, ControlTypes
    <2> QED BY <2>1, <2>2
  <1>6. ASSUME NEW n \in RequestSizes, Receive(n)  PROVE ControlTypes'
    BY <1>6, <1>a, <1>b, <1>c, SocketAfterType, EnterErrorType
       DEF Receive, ClearOnly, ReadFails, EnterError, ControlTypes
  <1>7. ASSUME ReceiveAvailable  PROVE ControlTypes'
    BY <1>7, <1>a, <1>b, <1>c, SocketAfterType, EnterErrorType
       DEF ReceiveAvailable, ClearOnly, ReadFails, EnterError, ControlTypes
  <1>8. ASSUME IsEof  PROVE ControlTypes'
    BY <1>8, <1>a, <1>b, SocketAfterType, EnterErrorType
       DEF IsEof, EnterError, ControlTypes, CloseTypes, abortVars
  <1>9. ASSUME NEW b \in BOOLEAN, SetNoDelay(b)  PROVE ControlTypes'
    BY <1>9, <1>c DEF SetNoDelay, RememberNoDelay, ApplyNoDelay, ControlTypes
  <1>10. ASSUME NEW l \in SendLimits, SetSendbufferLimit(l)  PROVE ControlTypes'
    BY <1>10, <1>c DEF SetSendbufferLimit, ControlTypes
  <1>11. ASSUME Send  PROVE ControlTypes'
    BY <1>11, <1>c DEF Send, ControlTypes
  <1>12. ASSUME DestroyGraceful  PROVE ControlTypes'
    BY <1>12 DEF DestroyGraceful, ControlTypes, abortVars
  <1>13. ASSUME DestroyAbortive  PROVE ControlTypes'
    BY <1>13, <1>a, SocketAfterType DEF DestroyAbortive, EnterClosed, ControlTypes
  <1>14. ASSUME ReleaseHandle  PROVE ControlTypes'
    BY <1>14, <1>a, SocketAfterType DEF ReleaseHandle, ControlTypes, abortVars
  <1>15. ASSUME HandleResolve  PROVE ControlTypes'
    BY <1>15, <1>a, <1>b, <1>c, <1>d, SocketAfterType, EnterErrorType
       DEF HandleResolve, LookupFailed, EnterError, ControlTypes
  <1>16. ASSUME HandleConnect  PROVE ControlTypes'
    BY <1>16, <1>a, <1>b, <1>c, <1>d, <1>e, SocketAfterType, EnterErrorType
       DEF HandleConnect, EnterError, ControlTypes
  <1>17. ASSUME HandleSend  PROVE ControlTypes'
    BY <1>17, <1>a, <1>b, <1>c, SocketAfterType, EnterErrorType
       DEF HandleSend, EnterError, ControlTypes
  <1>18. ASSUME HandleReceive  PROVE ControlTypes'
    BY <1>18, <1>a, <1>b, <1>c, SocketAfterType, EnterErrorType
       DEF HandleReceive, EnterError, ControlTypes
  <1>19. ASSUME System  PROVE ControlTypes'
    BY <1>19, <1>c DEF System, OsResolve, OsConnect, OsSend, OsReceive,
       ControlTypes, abortVars
  <1>20. ASSUME Peer  PROVE ControlTypes'
    BY <1>20 DEF Peer, PeerSends, PeerCloses, PeerResets, ControlTypes, abortVars
  <1> QED BY <1>1, <1>2, <1>3, <1>4, <1>5, <1>6, <1>7, <1>8, <1>9, <1>10, <1>11,
             <1>12, <1>13, <1>14, <1>15, <1>16, <1>17, <1>18, <1>19, <1>20
          DEF Next, Construct, Client, Butler

----------------------------------------------------------------------------
LEMMA AttemptTypes ==
  ASSUME ConnectTypes, NEW it \in Iterators, StartConnectionAttempt(it)
  PROVE  /\ connectOp' \in {"idle", "pending", "failed"}
         /\ endpoints' \in Iterators
         /\ tried' \in Seq(Nat)
         /\ sockNoDelay' \in BOOLEAN
PROOF
  <1>1. Advance(it) \in Iterators /\ NextPosition(it) \in Nat
    BY IteratorTypes
  <1>2. Append(tried, NextPosition(it)) \in Seq(Nat)
    BY <1>1 DEF ConnectTypes
  <1> QED BY <1>1, <1>2 DEF StartConnectionAttempt, ConnectTypes

LEMMA ConnectTypesStep ==
  ASSUME ConnectTypes, Next
  PROVE  ConnectTypes'
PROOF
  <1> USE DEF StaysOpen, KeepConnection, KeepSendAndReceive, PeerActs,
        connectVars, noDelayVars, Iterators
  <1>a. UNCHANGED <<connectVars, noDelayVars>> => ConnectTypes'
    BY DEF ConnectTypes
  <1>1. ASSUME NEW f \in Families, ConnectToLiteral(f)  PROVE ConnectTypes'
    <2>1. <<f>> \in Seq(Families)
      OBVIOUS
    <2>2. IteratorOver(<<f>>) \in Iterators
      BY <2>1, IteratorTypes
    <2> QED BY <1>1, <2>1, <2>2, AttemptTypes
            DEF ConnectToLiteral, ConstructWith, ConnectTypes
  <1>2. ASSUME ConnectToName  PROVE ConnectTypes'
    BY <1>2 DEF ConnectToName, ConstructWith, ConnectTypes
  <1>3. ASSUME FromConnectedSocket  PROVE ConnectTypes'
    <2>1. sockNoDelay' \in BOOLEAN
      BY <1>3 DEF FromConnectedSocket, Enter, DefaultOption, ConnectTypes
    <2> QED BY <1>3, <2>1 DEF FromConnectedSocket, ConstructWith, ConnectTypes
  <1>4. ASSUME ErrorSocket  PROVE ConnectTypes'
    BY <1>4 DEF ErrorSocket, ConstructWith, ConnectTypes
  <1>5. ASSUME NEW b \in BOOLEAN, SetNoDelay(b)  PROVE ConnectTypes'
    BY <1>5 DEF SetNoDelay, RememberNoDelay, ApplyNoDelay, ConnectTypes
  <1>6. ASSUME HandleResolve  PROVE ConnectTypes'
    <2>1. IteratorOver(resolved) \in Iterators
      BY IteratorTypes DEF ConnectTypes
    <2>2. CASE StartConnectionAttempt(IteratorOver(resolved))
      BY <1>6, <2>1, <2>2, AttemptTypes DEF HandleResolve, ConnectTypes
    <2>3. CASE UNCHANGED <<connectOp, endpoints, tried, sockNoDelay>>
      BY <1>6, <2>3 DEF HandleResolve, ConnectTypes
    <2> QED BY <1>6, <2>2, <2>3 DEF HandleResolve
  <1>7. ASSUME HandleConnect  PROVE ConnectTypes'
    <2>1. endpoints \in Iterators
      BY DEF ConnectTypes
    <2>2. CASE StartConnectionAttempt(endpoints) /\ UNCHANGED grantedNoDelay
      BY <1>7, <2>1, <2>2, AttemptTypes DEF HandleConnect, ConnectTypes
    <2>3. CASE Enter(WantedOption) /\ connectOp' = "idle"
               /\ UNCHANGED <<endpoints, tried, grantedNoDelay>>
      BY <1>7, <2>3 DEF HandleConnect, Enter, WantedOption, ConnectTypes
    <2>4. CASE connectOp' = "idle" /\ UNCHANGED <<endpoints, tried, noDelayVars>>
      BY <1>7, <2>4 DEF HandleConnect, ConnectTypes
    <2> QED BY <1>7, <2>2, <2>3, <2>4 DEF HandleConnect
  <1>8. ASSUME OsResolve  PROVE ConnectTypes'
    BY <1>8, ResolveAssumption DEF OsResolve, ConnectTypes
  <1>9. ASSUME OsConnect  PROVE ConnectTypes'
    BY <1>9 DEF OsConnect, ConnectTypes
  <1>10. ASSUME \/ Send \/ ReceiveAvailable \/ IsEof
                \/ DestroyGraceful \/ DestroyAbortive \/ ReleaseHandle
         PROVE  ConnectTypes'
    BY <1>10, <1>a DEF Send, ReceiveAvailable, IsEof,
       DestroyGraceful, DestroyAbortive, ReleaseHandle
  <1>11. ASSUME NEW n, Write(n) \/ Receive(n) \/ SetSendbufferLimit(n)
         PROVE  ConnectTypes'
    BY <1>11, <1>a DEF Write, Receive, SetSendbufferLimit
  <1>12. ASSUME HandleSend \/ HandleReceive \/ OsSend \/ OsReceive \/ Peer
         PROVE  ConnectTypes'
    BY <1>12, <1>a DEF HandleSend, HandleReceive, OsSend, OsReceive,
       Peer, PeerSends, PeerCloses, PeerResets
  <1> QED BY <1>1, <1>2, <1>3, <1>4, <1>5, <1>6, <1>7, <1>8, <1>9, <1>10, <1>11, <1>12
          DEF Next, Construct, Client, Butler, System

(* Byte strings: what the receiving code builds them from.                 *)
LEMMA ByteStrings ==
  ASSUME NEW s \in Seq(Nat), NEW k \in Nat, NEW n \in Nat
  PROVE  /\ s \o Bytes(k, n) \in Seq(Nat) /\ s \o Placeholders(n) \in Seq(Nat)
         /\ Len(s \o Bytes(k, n)) = Len(s) + n
         /\ n <= Len(s) => Take(s, n) \in Seq(Nat) /\ Drop(s, n) \in Seq(Nat)
PROOF
  <1>1. Bytes(k, n) \in Seq(Nat) /\ Len(Bytes(k, n)) = n
    BY DEF Bytes
  <1>2. Placeholders(n) \in Seq(Nat) /\ Len(Placeholders(n)) = n
    BY DEF Placeholders
  <1>3. ASSUME n <= Len(s)  PROVE Take(s, n) \in Seq(Nat) /\ Drop(s, n) \in Seq(Nat)
    <2>1. SubSeq(s, 1, n) \in Seq(Nat)
      BY <1>3, \A i \in 1..n : s[i] \in Nat
    <2>2. SubSeq(s, n + 1, Len(s)) \in Seq(Nat)
      BY <1>3, \A i \in (n + 1)..Len(s) : s[i] \in Nat
    <2> QED BY <2>1, <2>2 DEF Take, Drop
  <1>4. s \o Bytes(k, n) \in Seq(Nat) /\ Len(s \o Bytes(k, n)) = Len(s) + n
    <2> HIDE DEF Bytes
    <2> QED BY <1>1
  <1>5. s \o Placeholders(n) \in Seq(Nat)
    BY <1>2
  <1> QED BY <1>3, <1>4, <1>5

LEMMA ReceiveTypesStep ==
  ASSUME ControlTypes, ReceiveTypes, KernelInv, Next
  PROVE  ReceiveTypes' /\ KernelInv'
PROOF
  <1> USE DEF StaysOpen, KeepSend, KeepConnection, KeepSendAndReceive, PeerActs,
        recvOpVars, recvDataVars
  <1>a. ASSUME UNCHANGED <<recvOpVars, recvDataVars>>, arrived' = arrived \/ arrived' = arrived + 1
        PROVE  ReceiveTypes' /\ KernelInv'
    BY <1>a DEF ControlTypes, ReceiveTypes, KernelInv
  <1>b. arrived \in Nat /\ kernelRead \in Nat /\ Readable \in Nat
        /\ kernelRead + Readable = arrived
    BY DEF ControlTypes, ReceiveTypes, KernelInv, Readable
  <1>c. <<>> \in Seq(Nat)
    OBVIOUS
  <1>d. ASSUME ClearOnly, UNCHANGED arrived  PROVE ReceiveTypes' /\ KernelInv'
    BY <1>c, <1>d DEF ClearOnly, ReceiveTypes, KernelInv
  <1>e. ASSUME NEW n \in Nat, ReadFails(n), UNCHANGED arrived
        PROVE  ReceiveTypes' /\ KernelInv'
    <2>1. partial \o Placeholders(n) \in Seq(Nat)
      BY <1>b, ByteStrings DEF ReceiveTypes
    <2> QED BY <1>c, <1>e, <2>1 DEF ReadFails, ReceiveTypes, KernelInv
  <1>f. ASSUME NEW got \in Seq(Nat), NEW n \in Nat, n <= Len(got), Deliver(got, n)
        PROVE  partial' \in Seq(Nat) /\ receiveBuffer' \in Seq(Nat) /\ delivered' \in Seq(Nat)
    <2>1. Take(got, n) \in Seq(Nat) /\ Drop(got, n) \in Seq(Nat)
      BY <1>f, ByteStrings
    <2> QED BY <1>f, <2>1 DEF Deliver, ReceiveTypes
  <1>1. ASSUME NEW n \in RequestSizes, Receive(n)  PROVE ReceiveTypes' /\ KernelInv'
    <2> DEFINE read == NonblockAmmount(Missing(n))
               got  == partial \o Bytes(kernelRead, read)
    <2>1. n \in Nat /\ Len(partial) \in Nat
      BY SizesAssumption DEF ReceiveTypes
    <2>2. read \in Nat /\ read <= Readable
      BY <1>b, <2>1 DEF NonblockAmmount, Missing, Smaller
    <2>3. got \in Seq(Nat)
      BY <1>b, <2>2, ByteStrings DEF ReceiveTypes
    <2>4. kernelRead + read \in Nat /\ kernelRead + read <= arrived
      BY <1>b, <2>2
    <2> HIDE DEF read, got
    <2>5. CASE ClearOnly
      BY <1>1, <1>d, <2>5 DEF Receive
    <2>6. CASE ReadFails(read)
      BY <1>1, <1>e, <2>2, <2>6 DEF Receive
    <2>7. CASE Len(got) >= n /\ Deliver(got, n) /\ kernelRead' = kernelRead + read
               /\ UNCHANGED <<asyncReceiveInProgress, recvOp, recvAt>>
      <3>1. n <= Len(got)
        BY <2>1, <2>3, <2>7
      <3> QED BY <1>1, <1>f, <2>1, <2>3, <2>4, <2>7, <3>1 DEF Receive, ReceiveTypes, KernelInv
    <2>8. CASE Len(got) < n /\ StartAsyncReceive(got, n - Len(got)) /\ receiveBuffer' = <<>>
               /\ kernelRead' = kernelRead + read /\ UNCHANGED delivered
      <3>1. n - Len(got) \in Nat /\ Len(got) \in Nat
        BY <2>1, <2>3, <2>8
      <3>2. got \o Placeholders(n - Len(got)) \in Seq(Nat)
        BY <1>b, <2>3, <3>1, ByteStrings
      <3> QED BY <1>1, <1>c, <2>4, <2>8, <3>1, <3>2
              DEF Receive, StartAsyncReceive, ReceiveTypes, KernelInv
    <2> QED BY <1>1, <2>5, <2>6, <2>7, <2>8 DEF Receive, read, got
  <1>2. ASSUME ReceiveAvailable  PROVE ReceiveTypes' /\ KernelInv'
    <2> DEFINE got == partial \o Bytes(kernelRead, Readable)
    <2>1. got \in Seq(Nat) /\ Len(got) \in Nat
      <3>1. partial \in Seq(Nat)
        BY DEF ReceiveTypes
      <3>2. got \in Seq(Nat)
        BY <1>b, <3>1, ByteStrings
      <3> QED BY <3>2, LenProperties
    <2> HIDE DEF got
    <2>2. CASE ClearOnly
      BY <1>2, <1>d, <2>2 DEF ReceiveAvailable
    <2>3. CASE ReadFails(Readable)
      BY <1>2, <1>b, <1>e, <2>3 DEF ReceiveAvailable
    <2>4. CASE Deliver(got, Len(got)) /\ kernelRead' = arrived
               /\ UNCHANGED <<asyncReceiveInProgress, recvOp, recvAt>>
      BY <1>2, <1>b, <1>f, <2>1, <2>4 DEF ReceiveAvailable, ReceiveTypes, KernelInv
    <2> QED BY <1>2, <2>2, <2>3, <2>4 DEF ReceiveAvailable, got
  <1>3. ASSUME OsReceive  PROVE ReceiveTypes' /\ KernelInv'
    <2>1. [partial EXCEPT ![recvAt + 1] = kernelRead + 1] \in Seq(Nat)
      <3>1. partial \in Seq(Nat) /\ kernelRead + 1 \in Nat
        BY DEF ReceiveTypes
      <3>2. CASE recvAt + 1 \in 1..Len(partial)
        BY <3>1, <3>2, ExceptSeq
      <3>3. CASE recvAt + 1 \notin DOMAIN partial
        <4>1. [partial EXCEPT ![recvAt + 1] = kernelRead + 1] = partial
          BY <3>1, <3>3
        <4> QED BY <3>1, <4>1
      <3> QED BY <3>1, <3>2, <3>3, LenProperties
    <2>2. Readable > 0 => kernelRead + 1 <= arrived
      BY <1>b DEF Readable
    <2>3. UNCHANGED <<arrived, asyncReceiveInProgress, receiveBuffer, delivered>>
      BY <1>3 DEF OsReceive
    <2>4. CASE /\ Readable > 0
               /\ partial' = [partial EXCEPT ![recvAt + 1] = kernelRead + 1]
               /\ recvAt' = recvAt + 1 /\ kernelRead' = kernelRead + 1
               /\ recvOp' \in {"done", "pending"}
      BY <1>b, <2>1, <2>2, <2>3, <2>4 DEF ReceiveTypes, KernelInv
    <2>5. CASE /\ recvOp' \in {"eof", "failed", "aborted"}
               /\ UNCHANGED <<partial, recvAt, kernelRead>>
      BY <2>3, <2>5 DEF ReceiveTypes, KernelInv
    <2> QED BY <1>3, <2>4, <2>5 DEF OsReceive
  <1>4. ASSUME HandleReceive  PROVE ReceiveTypes' /\ KernelInv'
    BY <1>4 DEF HandleReceive, EndRead, ReceiveTypes, KernelInv
  <1>5. ASSUME Construct  PROVE ReceiveTypes' /\ KernelInv'
    BY <1>5, <1>a DEF Construct, ConnectToLiteral, ConnectToName,
       FromConnectedSocket, ErrorSocket, ConstructWith
  <1>6. ASSUME \/ Send \/ IsEof \/ DestroyGraceful \/ DestroyAbortive \/ ReleaseHandle
        PROVE  ReceiveTypes' /\ KernelInv'
    BY <1>6, <1>a DEF Send, IsEof, DestroyGraceful, DestroyAbortive, ReleaseHandle
  <1>7. ASSUME NEW n, Write(n) \/ SetNoDelay(n) \/ SetSendbufferLimit(n)
        PROVE  ReceiveTypes' /\ KernelInv'
    BY <1>7, <1>a DEF Write, SetNoDelay, RememberNoDelay, ApplyNoDelay, SetSendbufferLimit
  <1>8. ASSUME \/ HandleResolve \/ HandleConnect \/ HandleSend
               \/ OsResolve \/ OsConnect \/ OsSend
        PROVE  ReceiveTypes' /\ KernelInv'
    BY <1>8, <1>a DEF HandleResolve, HandleConnect, HandleSend, OsResolve, OsConnect, OsSend
  <1>9. ASSUME Peer  PROVE ReceiveTypes' /\ KernelInv'
    BY <1>9, <1>a DEF Peer, PeerSends, PeerCloses, PeerResets
  <1> QED BY <1>1, <1>2, <1>3, <1>4, <1>5, <1>6, <1>7, <1>8, <1>9
          DEF Next, Client, Butler, System

----------------------------------------------------------------------------
(* Sending.  What enter does to the operation it starts.                   *)
LEMMA SendOpEffects ==
  ASSUME SendTypes, FlagInv
  PROVE  /\ \A n \in Nat : BeginSend(n) =>
              /\ asyncSendInProgress' = TRUE /\ sendOp' = "pending"
              /\ inFlight' = n /\ transferred' = 0
         /\ NoSend => /\ asyncSendInProgress' = FALSE /\ sendOp' = "idle"
                      /\ inFlight' = 0 /\ transferred' = 0
         /\ \A n \in Nat : StartAsyncSend(n) =>
              \/ ~asyncSendInProgress /\ BeginSend(n)
              \/ asyncSendInProgress /\ UNCHANGED sendOpVars
PROOF
  BY DEF BeginSend, NoSend, StartAsyncSend

LEMMA FlagStep ==
  ASSUME SendTypes, ReceiveTypes, FlagInv, Next
  PROVE  FlagInv'
PROOF
  <1> USE DEF StaysOpen, KeepSend, KeepConnection, KeepSendAndReceive, PeerActs,
        sendOpVars, recvOpVars
  <1>a. ASSUME UNCHANGED <<sendOpVars, recvOpVars>>  PROVE FlagInv'
    BY <1>a DEF FlagInv
  <1>b. ASSUME NEW n, StartAsyncSend(n) \/ NoSend \/ BeginSend(n), UNCHANGED recvOpVars
        PROVE  FlagInv'
    BY <1>b DEF FlagInv, StartAsyncSend, BeginSend, NoSend
  <1>1. ASSUME Construct  PROVE FlagInv'
    BY <1>1, <1>a, <1>b DEF Construct, ConnectToLiteral, ConnectToName,
       FromConnectedSocket, ErrorSocket, ConstructWith, Enter
  <1>2. ASSUME NEW n, Write(n) \/ SetNoDelay(n) \/ SetSendbufferLimit(n)
        PROVE  FlagInv'
    BY <1>2, <1>a DEF Write, SetNoDelay, RememberNoDelay, ApplyNoDelay, SetSendbufferLimit
  <1>3. ASSUME NEW n \in RequestSizes, Receive(n)  PROVE FlagInv'
    <2> DEFINE read == NonblockAmmount(Missing(n))
               got  == partial \o Bytes(kernelRead, read)
    <2> HIDE DEF read, got
    <2>1. \/ UNCHANGED <<asyncReceiveInProgress, recvOp>>
          \/ asyncReceiveInProgress' = TRUE /\ recvOp' = "pending"
      <3>1. CASE ClearOnly \/ ReadFails(read)
        BY <3>1 DEF ClearOnly, ReadFails
      <3>2. CASE UNCHANGED <<asyncReceiveInProgress, recvOp, recvAt>>
        BY <3>2
      <3>3. CASE StartAsyncReceive(got, n - Len(got))
        BY <3>3 DEF StartAsyncReceive
      <3> QED BY <1>3, <3>1, <3>2, <3>3, Zenon DEF Receive, read, got
    <2>2. UNCHANGED sendOpVars
      BY <1>3, Zenon DEF Receive
    <2> QED BY <2>1, <2>2 DEF FlagInv
  <1>4. ASSUME ReceiveAvailable  PROVE FlagInv'
    <2> DEFINE got == partial \o Bytes(kernelRead, Readable)
    <2> HIDE DEF got
    <2>1. UNCHANGED <<asyncReceiveInProgress, recvOp>>
      <3>1. CASE ClearOnly \/ ReadFails(Readable)
        BY <3>1 DEF ClearOnly, ReadFails
      <3>2. CASE UNCHANGED <<asyncReceiveInProgress, recvOp, recvAt>>
        BY <3>2
      <3> QED BY <1>4, <3>1, <3>2, Zenon DEF ReceiveAvailable, got
    <2>2. UNCHANGED sendOpVars
      BY <1>4, Zenon DEF ReceiveAvailable
    <2> QED BY <2>1, <2>2 DEF FlagInv
  <1>5. ASSUME Send \/ DestroyGraceful  PROVE FlagInv'
    BY <1>5, <1>a, <1>b DEF Send, DestroyGraceful, CommitAndStart
  <1>6. ASSUME IsEof \/ DestroyAbortive \/ ReleaseHandle  PROVE FlagInv'
    BY <1>6, <1>a DEF IsEof, DestroyAbortive, ReleaseHandle
  <1>7. ASSUME HandleResolve \/ HandleConnect  PROVE FlagInv'
    BY <1>7, <1>a, <1>b DEF HandleResolve, HandleConnect, Enter
  <1>8. ASSUME HandleSend  PROVE FlagInv'
    BY <1>8, <1>b DEF HandleSend, SendRest
  <1>9. ASSUME HandleReceive  PROVE FlagInv'
    BY <1>9 DEF HandleReceive, EndRead, FlagInv
  <1>10. ASSUME OsResolve \/ OsConnect  PROVE FlagInv'
    BY <1>10, <1>a DEF OsResolve, OsConnect
  <1>11. ASSUME OsSend  PROVE FlagInv'
    BY <1>11 DEF OsSend, FlagInv, SendTypes
  <1>12. ASSUME OsReceive  PROVE FlagInv'
    BY <1>12 DEF OsReceive, FlagInv
  <1>13. ASSUME Peer  PROVE FlagInv'
    BY <1>13, <1>a DEF Peer, PeerSends, PeerCloses, PeerResets
  <1> QED BY <1>1, <1>2, <1>3, <1>4, <1>5, <1>6, <1>7, <1>8, <1>9, <1>10, <1>11,
             <1>12, <1>13 DEF Next, Client, Butler, System

(* How the control state may move, as far as sending is concerned.         *)
LEMMA SendControl ==
  ASSUME ControlTypes, PhaseInv, Next
  PROVE  /\ state = "closed" => state' = "closed"
         /\ connectedAbort => connectedAbort'
         /\ state' = "connected" =>
              state = "connected" \/ HandleConnect \/ FromConnectedSocket
PROOF
  <1> USE DEF StaysOpen, KeepSend, KeepConnection, KeepSendAndReceive, PeerActs,
        abortVars
  <1> DEFINE Goal == /\ state = "closed" => state' = "closed"
                     /\ connectedAbort => connectedAbort'
                     /\ state' = "connected" =>
                          state = "connected" \/ HandleConnect \/ FromConnectedSocket
  <1>a. StaysOpen => Goal
    BY DEF ControlTypes
  <1>b. \A s, msg : EnterErrorFrom(s, msg) => Goal
    BY DEF EnterErrorFrom, EnterClosed, ControlTypes
  <1>1. ASSUME Construct  PROVE Goal
    <2>1. state = "none" /\ ~connectedAbort
      BY <1>1 DEF Construct, ConnectToLiteral, ConnectToName, FromConnectedSocket,
         ErrorSocket, ConstructWith, PhaseInv
    <2> QED BY <1>1, <2>1, <1>b DEF Construct, ConnectToLiteral, ConnectToName,
         ErrorSocket, StartConnectionAttempt, EnterErrorFrom, EnterClosed
  <1>2. ASSUME NEW n, Write(n) \/ SetNoDelay(n) \/ SetSendbufferLimit(n)  PROVE Goal
    BY <1>2, <1>a, <1>b DEF Write, SetNoDelay, RememberNoDelay, ApplyNoDelay, SetSendbufferLimit, EnterError
  <1>3. ASSUME NEW n, Receive(n)  PROVE Goal
    BY <1>3, <1>a, <1>b DEF Receive, ClearOnly, ReadFails, EnterError
  <1>4. ASSUME Send \/ ReceiveAvailable \/ IsEof \/ DestroyGraceful \/ ReleaseHandle
        PROVE  Goal
    BY <1>4, <1>a, <1>b DEF Send, ReceiveAvailable, IsEof, DestroyGraceful,
       ReleaseHandle, ClearOnly, ReadFails, EnterError
  <1>5. ASSUME DestroyAbortive  PROVE Goal
    BY <1>5 DEF DestroyAbortive, EnterClosed, ControlTypes
  <1>6. ASSUME HandleResolve  PROVE Goal
    <2>1. CASE StaysOpen \/ EnterError("resolve")
      BY <2>1, <1>a, <1>b DEF EnterError
    <2>2. CASE ~connectingAbort /\ StartConnectionAttempt(IteratorOver(resolved))
      <3>1. state = "connecting"
        BY <1>6, <2>2 DEF HandleResolve, PhaseInv
      <3>2. CASE UNCHANGED <<errorMessage, abortVars>> /\ state' = "connecting"
        BY <3>1, <3>2 DEF ControlTypes
      <3>3. CASE EnterErrorFrom("connecting", "close")
        BY <3>3, <1>b
      <3> QED BY <2>2, <3>2, <3>3, Zenon DEF StartConnectionAttempt
    <2> QED BY <1>6, <2>1, <2>2 DEF HandleResolve, LookupFailed, AbortSeen
  <1>7. ASSUME HandleConnect  PROVE Goal
    <2>1. CASE StaysOpen \/ EnterError("connect")
      BY <2>1, <1>a, <1>b DEF EnterError
    <2>2. CASE ~connectingAbort
      <3>1. state = "connecting" /\ ~connectedAbort
        BY <1>7, <2>2 DEF HandleConnect, PhaseInv
      <3> QED BY <1>7, <2>2, <3>1 DEF HandleConnect, Enter, StartConnectionAttempt,
                 EnterErrorFrom, EnterError, EnterClosed
    <2> QED BY <1>7, <2>1, <2>2 DEF HandleConnect, AbortSeen
  <1>8. ASSUME HandleSend \/ HandleReceive  PROVE Goal
    BY <1>8, <1>a, <1>b DEF HandleSend, HandleReceive, EnterError
  <1>9. ASSUME System \/ Peer  PROVE Goal
    BY <1>9, <1>a DEF System, OsResolve, OsConnect, OsSend, OsReceive,
       Peer, PeerSends, PeerCloses, PeerResets
  <1> QED BY <1>1, <1>2, <1>3, <1>4, <1>5, <1>6, <1>7, <1>8, <1>9
          DEF Next, Client, Butler

----------------------------------------------------------------------------
(* A step that leaves the sending variables alone keeps SendInv, unless it *)
(* enters the connected state.                                             *)
LEMMA SendUntouched ==
  ASSUME SendTypes, SendInv, UNCHANGED <<sendOpVars, sendDataVars>>,
         state = "closed" => state' = "closed",
         connectedAbort => connectedAbort',
         state' = "connected" => state = "connected"
  PROVE  SendTypes' /\ SendInv'
PROOF
  BY DEF SendTypes, SendInv, SendStream, NoStalledSend, sendOpVars, sendDataVars

(* Entering the connected state starts a send of what is committed.        *)
LEMMA SendEnter ==
  ASSUME ControlTypes, SendTypes, FlagInv, PhaseInv, SendInv, NEW b, Enter(b),
         UNCHANGED sendDataVars, state \in {"none", "connecting"}
  PROVE  SendTypes' /\ SendInv'
PROOF
  <1>1. ~connectedAbort /\ sendOp = "idle" /\ ~asyncSendInProgress /\ transferred = 0
    BY DEF PhaseInv, FlagInv, SendTypes
  <1>2. CASE StartAsyncSend(sendCommitted) /\ state' = "connected"
    <2>1. asyncSendInProgress' = TRUE /\ sendOp' = "pending"
          /\ inFlight' = sendCommitted /\ transferred' = 0
      BY <1>1, <1>2 DEF StartAsyncSend, BeginSend
    <2> QED BY <1>1, <1>2, <2>1
            DEF SendTypes, SendInv, SendStream, NoStalledSend, sendDataVars
  <1>3. CASE EnterErrorFrom("connected", "enter") /\ UNCHANGED sendOpVars
    BY <1>1, <1>3 DEF EnterErrorFrom, EnterClosed,
       SendTypes, SendInv, SendStream, NoStalledSend, sendDataVars, sendOpVars
  <1> QED BY <1>2, <1>3 DEF Enter

(* commit() followed by the start of a send in the connected state.        *)
LEMMA SendCommit ==
  ASSUME SendTypes, FlagInv, PhaseInv, SendInv, CommitAndStart, StaysOpen,
         UNCHANGED <<sendTotal, sendLimit, pushed, osTaken>>
  PROVE  SendTypes' /\ SendInv'
PROOF
  <1>1. UNCHANGED <<state, connectedAbort>> /\ sendCommitted' = sendTotal
    BY DEF CommitAndStart, StaysOpen, abortVars
  <1>2. CASE UNCHANGED sendOpVars /\ (state # "connected" \/ asyncSendInProgress)
    BY <1>1, <1>2 DEF SendTypes, SendInv, SendStream, NoStalledSend, sendOpVars
  <1>3. CASE ~asyncSendInProgress /\ BeginSend(sendTotal)
    <2>1. transferred = 0
      BY <1>3 DEF FlagInv, SendTypes
    <2> QED BY <1>1, <1>3, <2>1
            DEF BeginSend, SendTypes, SendInv, SendStream, NoStalledSend
  <1> QED BY <1>2, <1>3 DEF CommitAndStart, StartAsyncSend

(* The OS takes bytes: at most those in flight, of an open socket.         *)
LEMMA SendTaken ==
  ASSUME SendTypes, FlagInv, PhaseInv, SendInv, ClosedIsClosed, OsSend
  PROVE  SendTypes' /\ SendInv'
PROOF
  <1>1. /\ UNCHANGED <<state, connectedAbort, asyncSendInProgress, inFlight>>
        /\ UNCHANGED <<sendTotal, sendCommitted, sendLimit, pushed>>
    BY DEF OsSend, StaysOpen, abortVars
  <1>2. transferred = 0
    BY DEF OsSend, FlagInv, SendTypes
  <1>3. CASE UNCHANGED <<transferred, osTaken>>
    BY <1>1, <1>3 DEF OsSend, SendTypes, SendInv, SendStream, NoStalledSend
  <1>4. ASSUME isOpen, NEW k \in 1..inFlight, transferred' = k, osTaken' = osTaken + k
        PROVE  SendTypes' /\ SendInv'
    <2>1. state # "closed" /\ ~connectedAbort
      BY <1>4 DEF ClosedIsClosed, PhaseInv
    <2>2. k \in Nat /\ k <= sendCommitted /\ k <= sendTotal /\ k <= inFlight
      BY <2>1 DEF SendTypes, SendInv, SendStream
    <2>3. sendOp' \in {"idle", "pending", "done", "failed"}
      BY DEF OsSend
    <2>4. osTaken + k \in Nat /\ osTaken + k <= pushed
      BY <1>2, <2>1, <2>2 DEF SendTypes, SendInv, SendStream
    <2>5. (osTaken + k) + sendTotal = pushed + k
      BY <1>2, <2>1, <2>2 DEF SendTypes, SendInv, SendStream
    <2> QED BY <1>1, <1>4, <2>1, <2>2, <2>3, <2>4, <2>5
            DEF SendTypes, SendInv, SendStream, NoStalledSend
  <1> QED BY <1>3, <1>4 DEF OsSend

(* What the two outcomes of handleSend leave of the operation.             *)
LEMMA SendOpTypes ==
  ASSUME NEW n \in Nat, (BeginSend(n) /\ n > 0) \/ NoSend
  PROVE  /\ asyncSendInProgress' \in BOOLEAN
         /\ sendOp' \in {"idle", "pending", "done", "failed"}
         /\ inFlight' \in Nat /\ transferred' = 0
         /\ inFlight' <= n
         /\ BeginSend(n) => asyncSendInProgress'
PROOF
  <1>1. CASE BeginSend(n)
    <2>1. asyncSendInProgress' \in BOOLEAN /\ asyncSendInProgress'
      BY <1>1, Zenon DEF BeginSend
    <2> QED BY <1>1, <2>1 DEF BeginSend
  <1>2. CASE NoSend
    <2>1. asyncSendInProgress' \in BOOLEAN
      BY <1>2, Zenon DEF NoSend
    <2>2. sendOp' = "idle" /\ inFlight' = 0 /\ transferred' = 0
      BY <1>2 DEF NoSend
    <2>3. ~BeginSend(n)
      BY <2>2 DEF BeginSend
    <2> QED BY <2>1, <2>2, <2>3
  <1> QED BY <1>1, <1>2

(* handleSend pops what was taken and sends the rest.                      *)
LEMMA SendHandled ==
  ASSUME ControlTypes, SendTypes, FlagInv, PhaseInv, SendInv, HandleSend
  PROVE  SendTypes' /\ SendInv'
PROOF
  <1>1. UNCHANGED <<sendLimit, pushed, osTaken>>
    BY DEF HandleSend
  <1>2. CASE connectedAbort /\ NoSend /\ UNCHANGED <<sendTotal, sendCommitted>> /\ StaysOpen
    <2>1. state = "closed" /\ state' = "closed"
      BY <1>2 DEF PhaseInv, StaysOpen
    <2>2. sendTotal \in Nat /\ sendCommitted \in Nat /\ UNCHANGED <<sendTotal, sendCommitted>>
      BY <1>2 DEF SendTypes
    <2> QED BY <1>1, <1>2, <2>1, <2>2, SendOpTypes
            DEF SendTypes, SendInv, SendStream, NoStalledSend
  <1>3. CASE /\ ~connectedAbort /\ StaysOpen
             /\ PopTransferred(transferred) /\ SendRest(sendCommitted - transferred)
    <2>1. UNCHANGED <<state, connectedAbort>> /\ state = "connected"
      BY <1>3 DEF HandleSend, PhaseInv, StaysOpen, abortVars
    <2>2. /\ transferred <= sendCommitted /\ sendCommitted <= sendTotal
          /\ osTaken + sendTotal = pushed + transferred /\ osTaken <= pushed
      BY <1>3, <2>1 DEF SendInv, SendStream, SendTypes
    <2>3. /\ sendTotal' = sendTotal - transferred
          /\ sendCommitted' = sendCommitted - transferred
      BY <1>3 DEF PopTransferred
    <2>4. /\ sendTotal' \in Nat /\ sendCommitted' \in Nat /\ sendCommitted' <= sendTotal'
          /\ osTaken + sendTotal' = pushed
      BY <2>2, <2>3 DEF SendTypes
    <2>5. \/ sendCommitted' > 0 /\ BeginSend(sendCommitted')
          \/ ~(sendCommitted' > 0) /\ NoSend
      <3>1. SendRest(sendCommitted')
        BY <1>3, <2>3, Zenon
      <3>2. CASE sendCommitted' > 0
        BY <2>4, <3>1, <3>2 DEF SendRest
      <3>3. CASE ~(sendCommitted' > 0)
        BY <2>4, <3>1, <3>3 DEF SendRest
      <3> QED BY <3>2, <3>3
    <2>6. /\ asyncSendInProgress' \in BOOLEAN
          /\ sendOp' \in {"idle", "pending", "done", "failed"}
          /\ inFlight' \in Nat /\ transferred' = 0 /\ inFlight' <= sendCommitted'
          /\ sendCommitted' > 0 => asyncSendInProgress'
      BY <2>4, <2>5, SendOpTypes
    <2>7. SendTypes'
      BY <1>1, <2>4, <2>6 DEF SendTypes
    <2>8. osTaken' + sendTotal' = pushed' + transferred' /\ osTaken' <= pushed'
      <3>1. pushed \in Nat /\ osTaken \in Nat
        BY DEF SendTypes
      <3>2. transferred' = 0 /\ osTaken' = osTaken /\ pushed' = pushed
        BY <1>1, <2>6
      <3>3. osTaken <= pushed /\ sendTotal' \in Nat /\ osTaken + sendTotal' = pushed
        BY <2>2, <2>4
      <3>4. osTaken' \in Nat /\ pushed' \in Nat /\ transferred' \in Nat
        BY <2>7 DEF SendTypes
      <3>5. osTaken' + sendTotal' = pushed' /\ osTaken' <= pushed'
        BY <3>2, <3>3
      <3>6. pushed' + transferred' = pushed'
        BY <3>2, <3>4
      <3> QED BY <3>5, <3>6
    <2>9. 0 <= inFlight'
      BY <2>6
    <2> QED BY <2>4, <2>6, <2>7, <2>8, <2>9 DEF SendInv, SendStream, NoStalledSend
  <1>4. CASE NoSend /\ UNCHANGED <<sendTotal, sendCommitted>> /\ EnterError("send")
    <2>1. state' = "closed"
      BY <1>4 DEF EnterError, EnterErrorFrom, EnterClosed
    <2>2. sendTotal \in Nat /\ sendCommitted \in Nat /\ UNCHANGED <<sendTotal, sendCommitted>>
      BY <1>4 DEF SendTypes
    <2> QED BY <1>1, <1>4, <2>1, <2>2, SendOpTypes
            DEF SendTypes, SendInv, SendStream, NoStalledSend
  <1> QED BY <1>2, <1>3, <1>4 DEF HandleSend

LEMMA SendStep ==
  ASSUME ControlTypes, SendTypes, FlagInv, PhaseInv, SendInv, ClosedIsClosed, Next
  PROVE  SendTypes' /\ SendInv'
PROOF
  <1> USE DEF StaysOpen, KeepSend, KeepConnection, KeepSendAndReceive, PeerActs
  <1>a. ASSUME UNCHANGED <<sendOpVars, sendDataVars>>,
               ~HandleConnect, ~FromConnectedSocket
        PROVE  SendTypes' /\ SendInv'
    BY <1>a, SendControl, SendUntouched
  <1>b. ASSUME UNCHANGED <<sendOpVars, sendDataVars>>, state' # "connected"
        PROVE  SendTypes' /\ SendInv'
    BY <1>b, SendControl, SendUntouched
  <1>1. CASE FromConnectedSocket
    <2>1. state = "none"
      BY <1>1 DEF FromConnectedSocket, ConstructWith, PhaseInv
    <2> QED BY <1>1, <2>1, SendEnter DEF FromConnectedSocket, ConstructWith
  <1>2. CASE HandleConnect
    <2>1. UNCHANGED sendDataVars
      BY <1>2 DEF HandleConnect
    <2>2. CASE Enter(WantedOption) /\ ~connectingAbort
      <3>1. state = "connecting"
        BY <1>2, <2>2 DEF HandleConnect, PhaseInv
      <3> QED BY <2>1, <2>2, <3>1, SendEnter
    <2>3. CASE UNCHANGED sendOpVars /\ state' # "connected"
      BY <2>1, <2>3, <1>b
    <2>4. connectingAbort => state = "closed"
      BY DEF PhaseInv
    <2>5. StartConnectionAttempt(endpoints) \/ EnterError("connect") => state' # "connected"
      BY DEF StartConnectionAttempt, EnterError, EnterErrorFrom, EnterClosed
    <2> QED BY <1>2, <2>2, <2>3, <2>4, <2>5 DEF HandleConnect, AbortSeen
  <1>3. ASSUME ~HandleConnect, ~FromConnectedSocket  PROVE SendTypes' /\ SendInv'
    <2>1. ASSUME NEW n \in WriteSizes, Write(n)  PROVE SendTypes' /\ SendInv'
      <3>1. CASE UNCHANGED <<sendOpVars, sendDataVars>>
        BY <1>3, <1>a, <3>1
      <3>2. CASE /\ sendTotal' = sendTotal + n /\ pushed' = pushed + n
                 /\ UNCHANGED <<sendCommitted, sendLimit, osTaken, sendOpVars>>
                 /\ StaysOpen
        <4>1. n \in Nat
          BY SizesAssumption
        <4> QED BY <3>2, <4>1 DEF SendTypes, SendInv, SendStream, NoStalledSend,
                   sendOpVars, abortVars
      <3> QED BY <2>1, <3>1, <3>2, Zenon DEF Write
    <2>2. ASSUME NEW l \in SendLimits, SetSendbufferLimit(l)  PROVE SendTypes' /\ SendInv'
      <3>1. l \in Nat
        BY SizesAssumption
      <3> QED BY <2>2, <3>1 DEF SetSendbufferLimit, SendTypes, SendInv, SendStream,
                 NoStalledSend, sendOpVars, abortVars
    <2>3. CASE Send \/ DestroyGraceful
      BY <2>3, SendCommit DEF Send, DestroyGraceful
    <2>4. CASE OsSend
      BY <2>4, SendTaken
    <2>5. CASE HandleSend
      BY <2>5, SendHandled
    <2>6. ASSUME NEW n, Receive(n) \/ SetNoDelay(n)  PROVE SendTypes' /\ SendInv'
      <3>1. UNCHANGED <<sendOpVars, sendDataVars>>
        BY <2>6, Zenon DEF Receive, SetNoDelay, RememberNoDelay, ApplyNoDelay
      <3> QED BY <1>3, <1>a, <3>1
    <2>7. CASE \/ ReceiveAvailable \/ IsEof \/ DestroyAbortive \/ ReleaseHandle
               \/ HandleResolve \/ HandleReceive \/ OsResolve \/ OsConnect \/ OsReceive
      <3>1. UNCHANGED <<sendOpVars, sendDataVars>>
        BY <2>7, Zenon DEF ReceiveAvailable, IsEof, DestroyAbortive, ReleaseHandle,
           HandleResolve, HandleReceive, OsResolve, OsConnect, OsReceive
      <3> QED BY <1>3, <1>a, <3>1
    <2>8. CASE Peer \/ Construct
      <3>1. UNCHANGED <<sendOpVars, sendDataVars>>
        BY <1>3, <2>8, Zenon DEF Peer, PeerSends, PeerCloses, PeerResets, Construct,
           ConnectToLiteral, ConnectToName, ErrorSocket, ConstructWith
      <3> QED BY <1>3, <1>a, <3>1
    <2> QED BY <1>3, <2>1, <2>2, <2>3, <2>4, <2>5, <2>6, <2>7, <2>8
            DEF Next, Client, Butler, System
  <1> QED BY <1>1, <1>2, <1>3
----------------------------------------------------------------------------
(* The invariant is inductive.                                             *)
LEMMA Initially ==
  Init => IInv
PROOF
  <1> SUFFICES ASSUME Init PROVE IInv
    OBVIOUS
  <1>1. <<>> \in Seq(Nat) /\ <<>> \in Seq(Families) /\ NoLimit \in Nat
    BY SizesAssumption
  <1>2. endpoints \in [list : Seq(Families), v4 : Nat, v6 : Nat]
    BY <1>1, IteratorTypes DEF Init, Iterators
  <1>3. ControlTypes
    BY DEF Init, ControlTypes, Errors
  <1>4. ConnectTypes /\ ReceiveTypes
    BY <1>1, <1>2 DEF Init, ConnectTypes, ReceiveTypes
  <1>5. SendTypes
    BY <1>1 DEF Init, SendTypes
  <1>6. FlagInv /\ PhaseInv /\ ClosedIsClosed
    BY DEF Init, FlagInv, PhaseInv, ClosedIsClosed
  <1>7. KernelInv /\ SendInv
    BY DEF Init, KernelInv, SendInv, SendStream, NoStalledSend
  <1> QED BY <1>3, <1>4, <1>5, <1>6, <1>7 DEF IInv, TypeOK

(* A stuttering step changes nothing the invariant reads.                  *)
LEMMA Stuttering ==
  ASSUME IInv, UNCHANGED vars
  PROVE  IInv'
PROOF
  <1> USE DEF vars, noDelayVars, connectVars, abortVars, sendOpVars,
        sendDataVars, recvOpVars, recvDataVars
  <1>1. TypeOK'
    BY DEF IInv, TypeOK, ControlTypes, ConnectTypes, SendTypes, ReceiveTypes
  <1>2. FlagInv' /\ PhaseInv' /\ ClosedIsClosed'
    BY DEF IInv, FlagInv, PhaseInv, ClosedIsClosed
  <1>3. KernelInv' /\ SendInv'
    BY DEF IInv, KernelInv, SendInv, SendStream, NoStalledSend
  <1> QED BY <1>1, <1>2, <1>3 DEF IInv

LEMMA Inductive ==
  IInv /\ [Next]_vars => IInv'
PROOF
  <1>1. ASSUME IInv, Next  PROVE IInv'
    <2>1. ControlTypes /\ ConnectTypes /\ SendTypes /\ ReceiveTypes
      BY <1>1 DEF IInv, TypeOK
    <2>2. PhaseInv' /\ ClosedIsClosed'
      BY <1>1, ClientControl, ButlerControl, OtherControl DEF IInv, Next
    <2>3. ControlTypes' /\ ConnectTypes'
      BY <1>1, <2>1, ControlTypesStep, ConnectTypesStep DEF IInv
    <2>4. ReceiveTypes' /\ KernelInv'
      BY <1>1, <2>1, ReceiveTypesStep DEF IInv
    <2>5. SendTypes' /\ SendInv'
      BY <1>1, <2>1, SendStep DEF IInv
    <2>6. FlagInv'
      BY <1>1, <2>1, FlagStep DEF IInv
    <2> QED BY <2>2, <2>3, <2>4, <2>5, <2>6 DEF IInv, TypeOK
  <1> QED BY <1>1, Stuttering

LEMMA Invariance ==
  Spec => []IInv
PROOF
  BY Initially, Inductive, PTL DEF Spec

(* Type correctness: in particular handleSend never pops more than the     *)
(* buffer holds, and no counter of the send or receive path goes negative. *)
THEOREM TypeCorrect ==
  Spec => []TypeOK
PROOF
  <1>1. IInv => TypeOK
    BY DEF IInv
  <1> QED BY <1>1, Invariance, PTL

(* The send path: every byte written is in the buffer until the OS takes   *)
(* it, is taken once, and only committed bytes are in flight, whatever the *)
(* order of the client's calls, the handlers, disconnects and errors.      *)
THEOREM SendSafe ==
  Spec => []SendStream
PROOF
  <1>1. IInv => SendStream
    BY DEF IInv, SendInv
  <1> QED BY <1>1, Invariance, PTL

(* Committed bytes on a connected socket always have an async_send on the  *)
(* way whose handler will look again: no lost wakeup in send/handleSend.   *)
THEOREM SendNeverStalls ==
  Spec => []NoStalledSend
PROOF
  <1>1. IInv => NoStalledSend
    BY DEF IInv, SendInv
  <1> QED BY <1>1, Invariance, PTL

(* In the closed state the OS socket is closed, and no handler still in    *)
(* flight reopens it.                                                      *)
THEOREM ClosedSafe ==
  Spec => []ClosedIsClosed
PROOF
  <1>1. IInv => ClosedIsClosed
    BY DEF IInv
  <1> QED BY <1>1, Invariance, PTL

----------------------------------------------------------------------------
(* What a step in the closed state may do to the error message.            *)
LEMMA FinalMessage ==
  ASSUME IInv, state = "closed", Next
  PROVE  hasError => errorMessage' = errorMessage
PROOF
  <1> USE DEF StaysOpen, PeerActs
  <1>a. \A s, msg : EnterErrorFrom(s, msg) => (hasError => errorMessage' = errorMessage)
    BY DEF EnterErrorFrom, MessageAfter
  <1>b. UNCHANGED errorMessage => (hasError => errorMessage' = errorMessage)
    OBVIOUS
  <1>c. connectOp # "idle" \/ resolveOp # "idle" => connectingAbort
    BY DEF IInv, PhaseInv
  <1>1. ~Construct
    BY DEF IInv, PhaseInv, Construct, ConnectToLiteral, ConnectToName,
       FromConnectedSocket, ErrorSocket, ConstructWith
  <1>2. CASE Client
    BY <1>2, <1>a, <1>b, Zenon DEF Client, Write, Receive, SetNoDelay,
       RememberNoDelay, ApplyNoDelay, SetSendbufferLimit,
       Send, ReceiveAvailable, IsEof, DestroyGraceful, DestroyAbortive, ReleaseHandle,
       ClearOnly, ReadFails, EnterError
  <1>3. CASE HandleSend \/ HandleReceive
    BY <1>3, <1>a, <1>b, Zenon DEF HandleSend, HandleReceive, EnterError
  <1>4. CASE HandleResolve \/ HandleConnect
    <2>1. connectingAbort
      BY <1>4, <1>c DEF HandleResolve, HandleConnect
    <2>2. StaysOpen
      BY <1>4, <2>1 DEF HandleResolve, HandleConnect, AbortSeen
    <2> QED BY <2>2, <1>b
  <1>5. CASE System \/ Peer
    BY <1>5, <1>b, Zenon DEF System, OsResolve, OsConnect, OsSend, OsReceive,
       Peer, PeerSends, PeerCloses, PeerResets
  <1> QED BY <1>1, <1>2, <1>3, <1>4, <1>5 DEF Next, Butler

(* No byte moves in the closed state.                                      *)
LEMMA FinalData ==
  ASSUME IInv, state = "closed", Next
  PROVE  UNCHANGED <<osTaken, delivered>>
PROOF
  <1> USE DEF KeepSend, KeepSendAndReceive, PeerActs, sendDataVars, recvDataVars
  <1>0. ~isOpen /\ ~MayReceive
    BY DEF IInv, ClosedIsClosed, MayReceive
  <1>1. ~Construct
    BY DEF IInv, PhaseInv, Construct, ConnectToLiteral, ConnectToName,
       FromConnectedSocket, ErrorSocket, ConstructWith
  <1>2. CASE Client
    <2>1. UNCHANGED osTaken
      BY <1>2, Zenon DEF Client, Write, Receive, SetNoDelay,
       RememberNoDelay, ApplyNoDelay, SetSendbufferLimit,
         Send, ReceiveAvailable, IsEof, DestroyGraceful, DestroyAbortive, ReleaseHandle
    <2>2. UNCHANGED delivered
      BY <1>0, <1>2, Zenon DEF Client, Write, Receive, SetNoDelay,
       RememberNoDelay, ApplyNoDelay, SetSendbufferLimit,
         Send, ReceiveAvailable, IsEof, DestroyGraceful, DestroyAbortive, ReleaseHandle,
         ClearOnly
    <2> QED BY <2>1, <2>2
  <1>3. CASE Butler
    BY <1>3, Zenon DEF Butler, HandleSend, HandleReceive, HandleResolve, HandleConnect
  <1>4. CASE OsSend
    BY <1>0, <1>4 DEF OsSend
  <1>5. CASE OsResolve \/ OsConnect \/ OsReceive \/ Peer
    BY <1>5, Zenon DEF OsResolve, OsConnect, OsReceive,
       Peer, PeerSends, PeerCloses, PeerResets
  <1> QED BY <1>1, <1>2, <1>3, <1>4, <1>5 DEF Next, System

(* The closed state is final: it is never left, no more data moves and the *)
(* first error message stays, although handlers of the aborted operations  *)
(* and of the background read are still to run.                            *)
THEOREM ClosedForGood ==
  Spec => ClosedIsFinal
PROOF
  <1> DEFINE Final == state = "closed" =>
               /\ state' = "closed"
               /\ hasError => errorMessage' = errorMessage
               /\ UNCHANGED <<osTaken, delivered>>
  <1>1. ASSUME IInv, Next  PROVE Final
    BY <1>1, FinalMessage, FinalData, SendControl DEF IInv, TypeOK
  <1>2. ASSUME UNCHANGED vars  PROVE Final
    BY <1>2 DEF vars, sendDataVars, recvDataVars
  <1>3. IInv /\ [Next]_vars => [Final]_vars
    BY <1>1, <1>2
  <1> HIDE DEF Final
  <1>4. Spec => [][Final]_vars
    BY <1>3, Invariance, PTL DEF Spec
  <1> QED BY <1>4 DEF ClosedIsFinal, Final

----------------------------------------------------------------------------
(* Receiving.  Consecutive runs of the peer's bytes join, and the front of *)
(* one is one.                                                             *)
LEMMA BytesType ==
  \A k, n \in Nat : /\ Bytes(k, n) \in Seq(Nat) /\ Len(Bytes(k, n)) = n
                    /\ \A i \in 1..n : Bytes(k, n)[i] = k + i
PROOF
  BY DEF Bytes

LEMMA BytesJoin ==
  ASSUME NEW k \in Nat, NEW n \in Nat
  PROVE  Bytes(0, k) \o Bytes(k, n) = Bytes(0, k + n)
PROOF
  <1>1. /\ Bytes(0, k) \in Seq(Nat) /\ Bytes(k, n) \in Seq(Nat)
        /\ Bytes(0, k + n) \in Seq(Nat)
        /\ Len(Bytes(0, k)) = k /\ Len(Bytes(k, n)) = n /\ Len(Bytes(0, k + n)) = k + n
    <2>1. 0 \in Nat /\ k + n \in Nat
      OBVIOUS
    <2> QED BY <2>1, BytesType
  <1> DEFINE s == Bytes(0, k)  t == Bytes(k, n)
  <1>2. /\ s \o t \in Seq(Nat) /\ Len(s \o t) = k + n
        /\ \A i \in 1..(k + n) : (s \o t)[i] = IF i <= k THEN s[i] ELSE t[i - k]
    <2> HIDE DEF s, t
    <2>1. s \in Seq(Nat) /\ t \in Seq(Nat) /\ Len(s) = k /\ Len(t) = n
      BY <1>1 DEF s, t
    <2> QED BY <2>1, ConcatProperties
  <1>3. ASSUME NEW i \in 1..(k + n)  PROVE (s \o t)[i] = i
    <2>1. CASE i <= k
      <3>1. i \in 1..k /\ 0 \in Nat /\ 0 + i = i
        BY <2>1
      <3>2. s[i] = i
        BY <3>1, BytesType
      <3> HIDE DEF s, t
      <3> QED BY <1>2, <2>1, <3>2
    <2>2. CASE ~(i <= k)
      <3>1. i - k \in 1..n
        BY <2>2
      <3>2. t[i - k] = k + (i - k)
        BY <3>1, BytesType
      <3>3. k + (i - k) = i
        OBVIOUS
      <3> HIDE DEF s, t
      <3> QED BY <1>2, <2>2, <3>2, <3>3
    <2> QED BY <2>1, <2>2
  <1>4. ASSUME NEW i \in 1..(k + n)  PROVE Bytes(0, k + n)[i] = i
    <2>1. 0 \in Nat /\ k + n \in Nat /\ 0 + i = i
      OBVIOUS
    <2> QED BY <2>1, BytesType
  <1> HIDE DEF s, t
  <1>5. s \o t = Bytes(0, k + n)
    BY <1>1, <1>2, <1>3, <1>4, SeqEqual
  <1> QED BY <1>5 DEF s, t

LEMMA BytesFront ==
  ASSUME NEW s \in Seq(Nat), NEW t \in Seq(Nat), NEW k \in Nat,
         s \o t = Bytes(0, k)
  PROVE  s = Bytes(0, Len(s)) /\ Len(s) + Len(t) = k
PROOF
  <1>1. Len(s) \in Nat /\ Len(t) \in Nat
    OBVIOUS
  <1>2. Len(s \o t) = Len(s) + Len(t)
    OBVIOUS
  <1>3. Len(s) + Len(t) = k
    BY <1>2, BytesType
  <1>4. Bytes(0, Len(s)) \in Seq(Nat) /\ Len(Bytes(0, Len(s))) = Len(s)
    BY <1>1, BytesType
  <1>5. ASSUME NEW i \in 1..Len(s)  PROVE s[i] = Bytes(0, Len(s))[i]
    <2>1. (s \o t)[i] = s[i]
      BY <1>1, ConcatProperties
    <2>2. i \in 1..k
      BY <1>1, <1>3
    <2>3. Bytes(0, k)[i] = 0 + i /\ Bytes(0, Len(s))[i] = 0 + i
      BY <1>1, <2>2, BytesType
    <2> QED BY <2>1, <2>3
  <1> QED BY <1>3, <1>4, <1>5, SeqEqual

LEMMA TakeDrop ==
  ASSUME NEW s \in Seq(Nat), NEW n \in Nat, n <= Len(s)
  PROVE  /\ Take(s, n) \in Seq(Nat) /\ Drop(s, n) \in Seq(Nat)
         /\ Len(Take(s, n)) = n
         /\ Take(s, n) \o Drop(s, n) = s
         /\ Take(s, Len(s)) = s
PROOF
  <1>1. Take(s, n) \in Seq(Nat) /\ Drop(s, n) \in Seq(Nat)
    BY ByteStrings
  <1>2. Take(s, Len(s)) = s
    BY SubSeqFull DEF Take
  <1>3. Take(s, n) \o Drop(s, n) = s
    <2>1. Len(s) \in Nat /\ 1 \in 1..(Len(s) + 1) /\ n \in (1 - 1)..Len(s) /\ Len(s) \in n..Len(s)
      OBVIOUS
    <2>2. SubSeq(s, 1, n) \o SubSeq(s, n + 1, Len(s)) = SubSeq(s, 1, Len(s))
      BY <2>1, ConcatAdjacentSubSeq
    <2> QED BY <1>2, <2>2 DEF Take, Drop
  <1>4. Len(Take(s, n)) = n
    BY SubSeqProperties, \A i \in 1..n : s[i] \in Nat DEF Take
  <1> QED BY <1>1, <1>2, <1>3, <1>4

(* A read in the background begins with the bytes it found ...             *)
LEMMA TakeOfRoom ==
  ASSUME NEW s \in Seq(Nat), NEW n \in Nat, n > 0
  PROVE  /\ Take(s \o Placeholders(n), Len(s)) = s
         /\ s \o Placeholders(n) \in Seq(Nat)
         /\ Len(s) < Len(s \o Placeholders(n))
PROOF
  <1> DEFINE p == Placeholders(n)
  <1>1. p \in Seq(Nat) /\ Len(p) = n
    BY DEF Placeholders
  <1> HIDE DEF p
  <1>2. s \o p \in Seq(Nat) /\ Len(s \o p) = Len(s) + n /\ Len(s) \in Nat
    BY <1>1
  <1>3. Take(s \o p, Len(s)) \in Seq(Nat) /\ Len(Take(s \o p, Len(s))) = Len(s)
    <2>1. Len(s) <= Len(s \o p)
      BY <1>2
    <2> QED BY <1>2, <2>1, TakeDrop
  <1>4. ASSUME NEW i \in 1..Len(s)  PROVE Take(s \o p, Len(s))[i] = s[i]
    <2>1. (s \o p)[i] = s[i]
      BY <1>1, <1>2
    <2>2. SubSeq(s \o p, 1, Len(s))[i] = (s \o p)[i]
      BY <1>2
    <2> QED BY <2>1, <2>2 DEF Take
  <1>5. Take(s \o p, Len(s)) = s
    BY <1>3, <1>4, SeqEqual
  <1> QED BY <1>2, <1>5 DEF p

(* ... and each byte the OS writes goes behind those filled in so far.     *)
LEMMA TakeFilled ==
  ASSUME NEW s \in Seq(Nat), NEW k \in Nat, k < Len(s), NEW b \in Nat
  PROVE  /\ [s EXCEPT ![k + 1] = b] \in Seq(Nat)
         /\ Len([s EXCEPT ![k + 1] = b]) = Len(s)
         /\ Take([s EXCEPT ![k + 1] = b], k + 1) = Take(s, k) \o <<b>>
PROOF
  <1> DEFINE r == [s EXCEPT ![k + 1] = b]
  <1>1. Len(s) \in Nat /\ k + 1 \in 1..Len(s)
    OBVIOUS
  <1>2. r \in Seq(Nat) /\ Len(r) = Len(s)
    BY <1>1, ExceptSeq
  <1>3. /\ r[k + 1] = b
        /\ \A i \in 1..k : r[i] = s[i]
    BY <1>1
  <1> HIDE DEF r
  <1>4. /\ Take(r, k + 1) \in Seq(Nat) /\ Len(Take(r, k + 1)) = k + 1
        /\ Take(s, k) \in Seq(Nat) /\ Len(Take(s, k)) = k
    <2>1. k + 1 \in Nat /\ k + 1 <= Len(r) /\ k <= Len(s)
      BY <1>1, <1>2
    <2> QED BY <1>2, <2>1, TakeDrop
  <1>5. /\ Take(s, k) \o <<b>> \in Seq(Nat)
        /\ Len(Take(s, k) \o <<b>>) = k + 1
        /\ \A i \in 1..(k + 1) : (Take(s, k) \o <<b>>)[i] =
             IF i <= k THEN Take(s, k)[i] ELSE <<b>>[i - k]
    <2>1. <<b>> \in Seq(Nat) /\ Len(<<b>>) = 1
      OBVIOUS
    <2> QED BY <1>4, <2>1, ConcatProperties
  <1>6. ASSUME NEW i \in 1..(k + 1)
        PROVE  Take(r, k + 1)[i] = (Take(s, k) \o <<b>>)[i]
    <2>1. Take(r, k + 1)[i] = r[i]
      BY <1>1, <1>2, SubSeqProperties, \A j \in 1..(k + 1) : r[j] \in Nat DEF Take
    <2>2. CASE i <= k
      <3>1. Take(s, k)[i] = s[i]
        BY <1>1, <2>2, SubSeqProperties, \A j \in 1..k : s[j] \in Nat DEF Take
      <3> QED BY <1>3, <1>5, <2>1, <2>2, <3>1
    <2>3. CASE ~(i <= k)
      <3>1. i = k + 1 /\ i - k = 1
        BY <2>3
      <3> QED BY <1>3, <1>5, <2>1, <2>3, <3>1
    <2> QED BY <2>2, <2>3
  <1>7. Take(r, k + 1) = Take(s, k) \o <<b>>
    BY <1>4, <1>5, <1>6, SeqEqual
  <1> QED BY <1>2, <1>7 DEF r

LEMMA JoinAssociative ==
  \A s, t, u \in Seq(Nat) : (s \o t) \o u = s \o (t \o u)
PROOF
  BY ConcatAssociative, SMTT(60)

(* Bytes read from the kernel continue the stream ...                      *)
LEMMA StreamRead ==
  \A d, p \in Seq(Nat) : \A k, r \in Nat :
    d \o p = Bytes(0, k) =>
      /\ p \o Bytes(k, r) \in Seq(Nat)
      /\ d \o (p \o Bytes(k, r)) = Bytes(0, k + r)
PROOF
  <1> SUFFICES ASSUME NEW d \in Seq(Nat), NEW p \in Seq(Nat), NEW k \in Nat, NEW r \in Nat,
                      d \o p = Bytes(0, k)
               PROVE  /\ p \o Bytes(k, r) \in Seq(Nat)
                      /\ d \o (p \o Bytes(k, r)) = Bytes(0, k + r)
    OBVIOUS
  <1>1. Bytes(k, r) \in Seq(Nat)
    BY BytesType
  <1>2. p \o Bytes(k, r) \in Seq(Nat)
    BY <1>1, ConcatProperties
  <1>3. (d \o p) \o Bytes(k, r) = d \o (p \o Bytes(k, r))
    BY <1>1, JoinAssociative, Zenon
  <1>4. Bytes(0, k) \o Bytes(k, r) = Bytes(0, k + r)
    BY BytesJoin
  <1> QED BY <1>2, <1>3, <1>4, Zenon

(* ... and handing on a front of what there is leaves it whole.            *)
LEMMA StreamHandover ==
  \A d, got \in Seq(Nat) : \A n \in Nat : n <= Len(got) =>
    /\ d \o Take(got, n) \in Seq(Nat) /\ Drop(got, n) \in Seq(Nat)
    /\ (d \o Take(got, n)) \o Drop(got, n) = d \o got
PROOF
  <1> SUFFICES ASSUME NEW d \in Seq(Nat), NEW got \in Seq(Nat), NEW n \in Nat, n <= Len(got)
               PROVE  /\ d \o Take(got, n) \in Seq(Nat) /\ Drop(got, n) \in Seq(Nat)
                      /\ (d \o Take(got, n)) \o Drop(got, n) = d \o got
    OBVIOUS
  <1>1. /\ Take(got, n) \in Seq(Nat) /\ Drop(got, n) \in Seq(Nat)
        /\ Take(got, n) \o Drop(got, n) = got
    BY TakeDrop
  <1>2. (d \o Take(got, n)) \o Drop(got, n) = d \o (Take(got, n) \o Drop(got, n))
    BY <1>1, JoinAssociative, Zenon
  <1>3. d \o Take(got, n) \in Seq(Nat)
    BY <1>1, ConcatProperties
  <1> QED BY <1>1, <1>2, <1>3, Zenon

(* The stream stays whole in a step that accounts for what is filled.      *)
LEMMA StreamWhole ==
  ASSUME ReceiveTypes', Filled' \in Seq(Nat),
         delivered' \o Filled' = Bytes(0, kernelRead'),
         asyncReceiveInProgress' => recvAt' <= Len(partial'),
         recvOp' = "pending" => recvAt' < Len(partial'),
         recvOp' = "done" => recvAt' = Len(partial')
  PROVE  StreamInv'
PROOF
  <1>1. delivered' \in Seq(Nat) /\ kernelRead' \in Nat
    BY DEF ReceiveTypes
  <1>2. delivered' = Bytes(0, Len(delivered'))
    BY <1>1, BytesFront
  <1> QED BY <1>2 DEF StreamInv

(* Which steps touch what the read in the background and the client see.   *)
LEMMA ReceiveKept ==
  ASSUME Next
  PROVE  \/ UNCHANGED <<recvOpVars, recvDataVars>>
         \/ \E n \in RequestSizes : Receive(n)
         \/ ReceiveAvailable \/ OsReceive \/ HandleReceive
PROOF
  <1> USE DEF KeepSendAndReceive, PeerActs, recvOpVars, recvDataVars
  <1>1. CASE Construct \/ Peer
    BY <1>1, Zenon DEF Construct, ConnectToLiteral, ConnectToName,
       FromConnectedSocket, ErrorSocket, ConstructWith, Peer, PeerSends, PeerCloses, PeerResets
  <1>2. CASE \/ Send \/ IsEof \/ DestroyGraceful \/ DestroyAbortive \/ ReleaseHandle
             \/ HandleResolve \/ HandleConnect \/ HandleSend
             \/ OsResolve \/ OsConnect \/ OsSend
    BY <1>2, Zenon DEF Send, IsEof, DestroyGraceful, DestroyAbortive, ReleaseHandle,
       HandleResolve, HandleConnect, HandleSend, OsResolve, OsConnect, OsSend
  <1>3. ASSUME NEW n, Write(n) \/ SetNoDelay(n) \/ SetSendbufferLimit(n)
        PROVE  UNCHANGED <<recvOpVars, recvDataVars>>
    BY <1>3, Zenon DEF Write, SetNoDelay, RememberNoDelay, ApplyNoDelay, SetSendbufferLimit
  <1> QED BY <1>1, <1>2, <1>3 DEF Next, Client, Butler, System

LEMMA StreamStep ==
  ASSUME IInv, StreamInv, Next
  PROVE  StreamInv'
PROOF
  <1> USE DEF StaysOpen, KeepSend, KeepConnection, KeepSendAndReceive, PeerActs,
        recvOpVars, recvDataVars
  <1>0. /\ ControlTypes /\ ReceiveTypes /\ ReceiveTypes' /\ FlagInv /\ PhaseInv
        /\ KernelInv /\ ClosedIsClosed
    BY ReceiveTypesStep DEF IInv, TypeOK
  <1>a. ASSUME UNCHANGED <<recvOpVars, kernelRead, delivered>>  PROVE StreamInv'
    <2>1. state = "closed" => state' = "closed"
      BY <1>0, SendControl
    <2> QED BY <1>a, <2>1 DEF StreamInv, Filled
  <1>b. ASSUME state' = "closed", UNCHANGED delivered  PROVE StreamInv'
    BY <1>b DEF StreamInv
  <1>c. ASSUME NEW n, ReadFails(n)  PROVE StreamInv'
    BY <1>b, <1>c DEF ReadFails, EnterError, EnterErrorFrom, EnterClosed
  <1>d. arrived \in Nat /\ kernelRead \in Nat /\ Readable \in Nat
        /\ kernelRead + Readable = arrived
    BY <1>0 DEF ControlTypes, ReceiveTypes, KernelInv, Readable
  <1>e. ASSUME MayReceive
        PROVE  /\ delivered \in Seq(Nat) /\ partial \in Seq(Nat) /\ kernelRead \in Nat
               /\ delivered \o partial = Bytes(0, kernelRead)
               /\ ~asyncReceiveInProgress /\ recvOp = "idle"
    BY <1>0, <1>e DEF MayReceive, StreamInv, Filled, ReceiveTypes, FlagInv
  <1>f. ASSUME MayReceive, NEW r \in Nat, NEW n \in Nat, NEW got,
               got = partial \o Bytes(kernelRead, r), n <= Len(got), Deliver(got, n),
               kernelRead' = kernelRead + r, UNCHANGED <<asyncReceiveInProgress, recvOp>>
        PROVE  StreamInv'
    <2>1. /\ delivered \o Take(got, n) \in Seq(Nat) /\ Drop(got, n) \in Seq(Nat)
          /\ (delivered \o Take(got, n)) \o Drop(got, n) = Bytes(0, kernelRead + r)
      <3>1. got \in Seq(Nat) /\ delivered \o got = Bytes(0, kernelRead + r)
        BY <1>e, <1>f, StreamRead, Zenon
      <3> QED BY <1>e, <1>f, <3>1, StreamHandover, ZenonT(30)
    <2>2. /\ Filled' = Drop(got, n) /\ delivered' = delivered \o Take(got, n)
          /\ ~asyncReceiveInProgress' /\ recvOp' = "idle"
      BY <1>e, <1>f DEF Deliver, Filled
    <2> QED BY <1>0, <1>f, <2>1, <2>2, StreamWhole
  <1>1. ASSUME NEW n \in RequestSizes, Receive(n)  PROVE StreamInv'
    <2> DEFINE read == NonblockAmmount(Missing(n))
               got  == partial \o Bytes(kernelRead, read)
    <2>1. n \in Nat /\ Len(partial) \in Nat
      BY <1>0, SizesAssumption DEF ReceiveTypes
    <2>2. read \in Nat
      BY <1>d, <2>1 DEF NonblockAmmount, Missing, Smaller
    <2>3. got = partial \o Bytes(kernelRead, read)
      OBVIOUS
    <2> HIDE DEF read, got
    <2>4. CASE ClearOnly
      BY <1>a, <2>4 DEF ClearOnly
    <2>5. CASE ReadFails(read)
      BY <1>c, <2>5
    <2>6. CASE MayReceive /\ Len(got) >= n /\ Deliver(got, n) /\ kernelRead' = kernelRead + read
               /\ UNCHANGED <<asyncReceiveInProgress, recvOp, recvAt>>
      <3>1. n <= Len(got)
        <4>1. got \in Seq(Nat)
          BY <1>e, <2>2, <2>3, <2>6, StreamRead, Zenon
        <4> QED BY <2>1, <2>6, <4>1, LenProperties
      <3> QED BY <1>f, <2>1, <2>2, <2>3, <2>6, <3>1
    <2>7. CASE MayReceive /\ Len(got) < n /\ StartAsyncReceive(got, n - Len(got))
               /\ kernelRead' = kernelRead + read /\ UNCHANGED delivered
      <3>1. got \in Seq(Nat) /\ Len(got) \in Nat /\ delivered \o got = Bytes(0, kernelRead + read)
        <4>1. got \in Seq(Nat) /\ delivered \o got = Bytes(0, kernelRead + read)
          BY <1>e, <2>2, <2>3, <2>7, StreamRead, Zenon
        <4> QED BY <4>1, LenProperties
      <3>2. n - Len(got) \in Nat /\ n - Len(got) > 0
        BY <2>1, <2>7, <3>1
      <3>3. /\ asyncReceiveInProgress' = TRUE /\ recvOp' = "pending" /\ recvAt' = Len(got)
            /\ partial' = got \o Placeholders(n - Len(got))
        BY <2>7 DEF StartAsyncReceive
      <3>4. /\ Take(partial', Len(got)) = got /\ Len(got) < Len(partial')
            /\ partial' \in Seq(Nat)
        BY <3>1, <3>2, <3>3, TakeOfRoom
      <3>5. Filled' = got
        BY <3>3, <3>4 DEF Filled
      <3>6. recvAt' <= Len(partial')
        BY <3>1, <3>3, <3>4, LenProperties
      <3> QED BY <1>0, <2>7, <3>1, <3>3, <3>4, <3>5, <3>6, StreamWhole
    <2> QED BY <1>1, <2>4, <2>5, <2>6, <2>7 DEF Receive, read, got
  <1>2. ASSUME ReceiveAvailable  PROVE StreamInv'
    <2> DEFINE got == partial \o Bytes(kernelRead, Readable)
    <2>1. got = partial \o Bytes(kernelRead, Readable)
      OBVIOUS
    <2> HIDE DEF got
    <2>2. CASE ClearOnly
      BY <1>a, <2>2 DEF ClearOnly
    <2>3. CASE ReadFails(Readable)
      BY <1>c, <2>3
    <2>4. CASE MayReceive /\ Deliver(got, Len(got)) /\ kernelRead' = arrived
               /\ UNCHANGED <<asyncReceiveInProgress, recvOp, recvAt>>
      <3>1. Len(got) \in Nat /\ Len(got) <= Len(got)
        <4>1. got \in Seq(Nat)
          BY <1>d, <1>e, <2>1, <2>4, StreamRead, Zenon
        <4> QED BY <4>1, LenProperties
      <3> QED BY <1>d, <1>f, <2>1, <2>4, <3>1
    <2> QED BY <1>2, <2>2, <2>3, <2>4 DEF ReceiveAvailable, got
  <1>3. ASSUME OsReceive  PROVE StreamInv'
    <2>0. UNCHANGED <<state, asyncReceiveInProgress, delivered>> /\ recvOp = "pending"
          /\ asyncReceiveInProgress /\ partial \in Seq(Nat) /\ recvAt \in Nat
      BY <1>0, <1>3 DEF OsReceive, FlagInv, ReceiveTypes
    <2>1. CASE recvOp' \in {"eof", "failed", "aborted"} /\ UNCHANGED <<partial, recvAt, kernelRead>>
      BY <2>0, <2>1 DEF StreamInv, Filled
    <2>2. CASE /\ isOpen
               /\ partial' = [partial EXCEPT ![recvAt + 1] = kernelRead + 1]
               /\ recvAt' = recvAt + 1 /\ kernelRead' = kernelRead + 1
               /\ recvOp' = IF recvAt + 1 = Len(partial) THEN "done" ELSE "pending"
      <3>1. state # "closed" /\ recvAt < Len(partial)
            /\ delivered \o Take(partial, recvAt) = Bytes(0, kernelRead)
        BY <1>0, <2>0, <2>2 DEF ClosedIsClosed, StreamInv, Filled
      <3>2. /\ Len(partial') = Len(partial)
            /\ Take(partial', recvAt') = Take(partial, recvAt) \o <<kernelRead + 1>>
        <4>1. kernelRead + 1 \in Nat
          BY <1>d
        <4> DEFINE r == [partial EXCEPT ![recvAt + 1] = kernelRead + 1]
        <4>2. Len(r) = Len(partial) /\ Take(r, recvAt + 1) = Take(partial, recvAt) \o <<kernelRead + 1>>
          BY <2>0, <3>1, <4>1, TakeFilled
        <4>3. partial' = r /\ recvAt' = recvAt + 1
          BY <2>2
        <4> HIDE DEF r
        <4> QED BY <4>2, <4>3
      <3>3. <<kernelRead + 1>> = Bytes(kernelRead, 1)
        BY <1>d DEF Bytes
      <3>4. Take(partial, recvAt) \in Seq(Nat) /\ delivered \in Seq(Nat)
        BY <1>0, <2>0, <3>1, TakeDrop, LenProperties DEF ReceiveTypes
      <3>5. Filled' = Take(partial, recvAt) \o Bytes(kernelRead, 1)
        BY <2>0, <3>2, <3>3 DEF Filled
      <3>6. Filled' \in Seq(Nat) /\ delivered \o Filled' = Bytes(0, kernelRead + 1)
        <4>1. 1 \in Nat /\ kernelRead \in Nat
          BY <1>d
        <4> QED BY <3>1, <3>4, <3>5, <4>1, StreamRead, Zenon
      <3>7. Len(partial) \in Nat
        BY <2>0
      <3>8. /\ recvAt' <= Len(partial')
            /\ recvOp' = "pending" => recvAt' < Len(partial')
            /\ recvOp' = "done" => recvAt' = Len(partial')
        <4> DEFINE n == Len(partial)
        <4>1. n \in Nat /\ recvAt \in Nat /\ recvAt < n /\ Len(partial') = n /\ recvAt' = recvAt + 1
          BY <2>0, <2>2, <3>1, <3>2, <3>7
        <4>2. recvOp' = IF recvAt + 1 = n THEN "done" ELSE "pending"
          BY <2>2
        <4> HIDE DEF n
        <4> QED BY <4>1, <4>2
      <3> QED BY <1>0, <2>0, <2>2, <3>6, <3>8, StreamWhole
    <2> QED BY <1>3, <2>1, <2>2 DEF OsReceive
  <1>4. ASSUME HandleReceive  PROVE StreamInv'
    <2>1. CASE recvOp # "done" /\ EnterError(IF recvOp = "failed" THEN "receive" ELSE recvOp)
      BY <1>4, <1>b, <2>1 DEF HandleReceive, EnterError, EnterErrorFrom, EnterClosed
    <2>2. CASE recvOp = "done" /\ StaysOpen
      <3>1. /\ UNCHANGED <<state, partial, delivered, kernelRead>>
            /\ ~asyncReceiveInProgress' /\ recvOp' = "idle"
        BY <1>4, <2>2 DEF HandleReceive, EndRead
      <3>2. asyncReceiveInProgress /\ partial \in Seq(Nat)
        BY <1>0, <2>2 DEF FlagInv, ReceiveTypes
      <3>3. state # "closed" => Filled = partial
        BY <2>2, <3>2, SubSeqFull DEF StreamInv, Filled, Take
      <3> QED BY <3>1, <3>3 DEF StreamInv, Filled
    <2> QED BY <1>4, <2>1, <2>2 DEF HandleReceive
  <1>5. ASSUME UNCHANGED <<recvOpVars, recvDataVars>>  PROVE StreamInv'
    BY <1>5, <1>a, Zenon
  <1> QED BY <1>1, <1>2, <1>3, <1>4, <1>5, ReceiveKept, Zenon

(* While a read runs, receive leaves its vector alone, and the OS writes   *)
(* into it in place.                                                       *)
LEMMA TargetStep ==
  ASSUME IInv, Next, recvOp = "pending"
  PROVE  Len(partial') = Len(partial)
PROOF
  <1>1. asyncReceiveInProgress /\ partial \in Seq(Nat)
    BY DEF IInv, FlagInv, TypeOK, ReceiveTypes
  <1>2. CASE UNCHANGED partial
    BY <1>2
  <1>3. CASE partial' = [partial EXCEPT ![recvAt + 1] = kernelRead + 1]
    BY <1>1, <1>3
  <1>4. ASSUME NEW n, Receive(n)  PROVE UNCHANGED partial
    BY <1>1, <1>4, Zenon DEF Receive, MayReceive, ClearOnly, recvOpVars
  <1>5. ASSUME ReceiveAvailable  PROVE UNCHANGED partial
    BY <1>1, <1>5, Zenon DEF ReceiveAvailable, MayReceive, ClearOnly, recvOpVars
  <1>6. ASSUME OsReceive  PROVE UNCHANGED partial \/ partial' = [partial EXCEPT ![recvAt + 1] = kernelRead + 1]
    BY <1>6, Zenon DEF OsReceive
  <1>7. ASSUME HandleReceive  PROVE UNCHANGED partial
    BY <1>7 DEF HandleReceive
  <1>8. ASSUME UNCHANGED <<recvOpVars, recvDataVars>>  PROVE UNCHANGED partial
    BY <1>8 DEF recvOpVars
  <1> QED BY <1>2, <1>3, <1>4, <1>5, <1>6, <1>7, <1>8, ReceiveKept, Zenon

(* At the end of the stream a receive finds nothing to hand on.            *)
LEMMA NothingLeft ==
  ASSUME IInv, EofInv, eofReported, MayReceive
  PROVE  /\ partial = <<>> /\ Readable = 0 /\ peer \in {"fin", "reset"} /\ kernelRead \in Nat
         /\ \A n \in Nat : NonblockAmmount(Missing(n)) = 0
         /\ partial \o Bytes(kernelRead, 0) = <<>>
         /\ Deliver(<<>>, 0) => delivered' = delivered /\ partial' = <<>>
PROOF
  <1>1. partial = <<>> /\ Readable = 0 /\ peer \in {"fin", "reset"}
    BY DEF EofInv, MayReceive
  <1>2. kernelRead \in Nat /\ delivered \in Seq(Nat)
    BY DEF IInv, TypeOK, ReceiveTypes
  <1>3. ASSUME NEW n \in Nat  PROVE NonblockAmmount(Missing(n)) = 0
    BY <1>1 DEF NonblockAmmount, Missing, Smaller
  <1>4. Bytes(kernelRead, 0) = <<>>
    BY <1>2 DEF Bytes
  <1>5. partial \o Bytes(kernelRead, 0) = <<>>
    BY <1>1, <1>4
  <1>6. Take(<<>>, 0) = <<>> /\ Drop(<<>>, 0) = <<>>
    BY DEF Take, Drop
  <1>7. delivered \o <<>> = delivered
    BY <1>2, ConcatEmptySeq
  <1> QED BY <1>1, <1>2, <1>3, <1>5, <1>6, <1>7 DEF Deliver

(* What the client gets from a receive after isEof has said so.            *)
LEMMA ReceiveAtEof ==
  ASSUME IInv, EofInv, eofReported, state # "closed",
         ReceiveAvailable \/ (\E n \in RequestSizes : Receive(n))
  PROVE  /\ delivered' = delivered
         /\ EofInv'
PROOF
  <1> USE DEF StaysOpen, KeepConnection
  <1>0. /\ state = "connected" /\ Readable = 0 /\ peer \in {"fin", "reset"}
        /\ recvOp # "done" /\ ~asyncReceiveInProgress => partial = <<>>
    BY DEF EofInv
  <1>a. ASSUME ClearOnly, UNCHANGED <<eofReported, peer, arrived>>
        PROVE  delivered' = delivered /\ EofInv'
    BY <1>0, <1>a DEF ClearOnly, recvOpVars, EofInv, Readable
  <1>b. ASSUME NEW n, ReadFails(n)  PROVE delivered' = delivered /\ EofInv'
    BY <1>b DEF ReadFails, EnterError, EnterErrorFrom, EnterClosed, EofInv
  <1>c. ASSUME MayReceive, Deliver(<<>>, 0), kernelRead' = kernelRead,
               UNCHANGED <<eofReported, peer, arrived, state, asyncReceiveInProgress, recvOp>>
        PROVE  delivered' = delivered /\ EofInv'
    BY <1>0, <1>c, NothingLeft DEF EofInv, Readable
  <1>1. ASSUME NEW n \in RequestSizes, Receive(n)
        PROVE  delivered' = delivered /\ EofInv'
    <2> DEFINE read == NonblockAmmount(Missing(n))
               got  == partial \o Bytes(kernelRead, read)
    <2>1. UNCHANGED <<eofReported, peer, arrived>> /\ n \in Nat
      BY <1>1, SizesAssumption DEF Receive
    <2>2. MayReceive => read = 0 /\ got = <<>> /\ kernelRead + read = kernelRead
      <3>1. ASSUME MayReceive  PROVE read = 0 /\ kernelRead \in Nat
        BY <2>1, <3>1, NothingLeft
      <3>2. ASSUME MayReceive  PROVE got = <<>>
        BY <3>1, <3>2, NothingLeft
      <3> HIDE DEF read, got
      <3> QED BY <3>1, <3>2
    <2> HIDE DEF read, got
    <2>3. CASE ClearOnly
      BY <1>a, <2>1, <2>3
    <2>4. CASE ReadFails(read)
      BY <1>b, <2>4
    <2>5. CASE /\ MayReceive /\ Len(got) >= n /\ Deliver(got, n) /\ kernelRead' = kernelRead + read
               /\ UNCHANGED <<asyncReceiveInProgress, recvOp, recvAt>> /\ UNCHANGED state
      <3>1. n = 0
        BY <2>1, <2>2, <2>5
      <3>2. Deliver(<<>>, 0) /\ kernelRead' = kernelRead
        BY <2>2, <2>5, <3>1
      <3> QED BY <1>c, <2>1, <2>5, <3>2
    <2>6. CASE /\ MayReceive /\ StartAsyncReceive(got, n - Len(got))
               /\ kernelRead' = kernelRead + read /\ UNCHANGED <<delivered, state>>
      <3>1. asyncReceiveInProgress' = TRUE /\ recvOp' = "pending"
        BY <2>6 DEF StartAsyncReceive
      <3> QED BY <1>0, <2>1, <2>2, <2>6, <3>1 DEF EofInv, Readable
    <2> QED BY <1>1, <2>3, <2>4, <2>5, <2>6 DEF Receive, read, got
  <1>2. ASSUME ReceiveAvailable  PROVE delivered' = delivered /\ EofInv'
    <2> DEFINE got == partial \o Bytes(kernelRead, Readable)
    <2>1. UNCHANGED <<eofReported, peer, arrived>>
      BY <1>2 DEF ReceiveAvailable
    <2>2. ASSUME MayReceive  PROVE got = <<>> /\ Len(got) = 0
      <3>1. got = <<>>
        BY <1>0, <2>2, NothingLeft
      <3> QED BY <3>1
    <2>3. ASSUME kernelRead' = arrived  PROVE kernelRead' = kernelRead
      BY <1>0, <2>3 DEF Readable, IInv, TypeOK, ReceiveTypes, ControlTypes
    <2> HIDE DEF got
    <2>4. CASE ClearOnly
      BY <1>a, <2>1, <2>4
    <2>5. CASE ReadFails(Readable)
      BY <1>b, <2>5
    <2>6. CASE /\ MayReceive /\ Deliver(got, Len(got)) /\ kernelRead' = arrived
               /\ UNCHANGED <<asyncReceiveInProgress, recvOp, recvAt>> /\ UNCHANGED state
      BY <1>c, <2>1, <2>2, <2>3, <2>6
    <2> QED BY <1>2, <2>4, <2>5, <2>6 DEF ReceiveAvailable, got
  <1> QED BY <1>1, <1>2

LEMMA EofStep ==
  ASSUME IInv, EofInv, Next
  PROVE  /\ EofInv'
         /\ eofReported => delivered' = delivered
PROOF
  <1> USE DEF StaysOpen, KeepSend, KeepConnection, KeepSendAndReceive, PeerActs
  <1>0. ControlTypes /\ ReceiveTypes /\ FlagInv /\ PhaseInv
    BY DEF IInv, TypeOK
  <1>1. CASE state = "closed"
    <2>1. state' = "closed"
      BY <1>0, <1>1, SendControl
    <2> QED BY <1>1, <2>1, FinalData DEF EofInv
  <1>2. CASE state # "closed" /\ ~eofReported
    <2>1. CASE IsEof /\ state' # "closed"
      <3>1. /\ UNCHANGED <<state, recvOpVars, recvDataVars, peer, arrived>>
            /\ state = "connected" /\ NothingBuffered /\ Readable = 0 /\ peer = "fin"
        BY <1>2, <2>1 DEF IsEof, EnterError, EnterErrorFrom, EnterClosed
      <3>2. recvOp = "idle"
        BY <1>0, <3>1 DEF NothingBuffered, FlagInv
      <3> QED BY <1>2, <3>1, <3>2 DEF EofInv, Readable, NothingBuffered, recvOpVars, recvDataVars
    <2>2. CASE state' = "closed"
      BY <1>2, <2>2 DEF EofInv
    <2>3. ASSUME ~IsEof  PROVE UNCHANGED eofReported
      <3>1. CASE Construct \/ System \/ Peer \/ Butler
        BY <3>1, Zenon DEF Construct, ConnectToLiteral, ConnectToName,
           FromConnectedSocket, ErrorSocket, ConstructWith, Peer, PeerSends, PeerCloses, PeerResets,
           System, OsResolve, OsConnect, OsSend, OsReceive, Butler, HandleResolve, HandleConnect,
           HandleSend, HandleReceive
      <3>2. CASE Client
        BY <2>3, <3>2, Zenon DEF Client, Write, Receive, SetNoDelay,
       RememberNoDelay, ApplyNoDelay, SetSendbufferLimit, Send,
           ReceiveAvailable, DestroyGraceful, DestroyAbortive, ReleaseHandle
      <3> QED BY <3>1, <3>2 DEF Next
    <2> QED BY <1>2, <2>1, <2>2, <2>3 DEF EofInv
  <1>3. CASE state # "closed" /\ eofReported
    <2>0. /\ state = "connected" /\ Readable = 0 /\ peer \in {"fin", "reset"}
          /\ recvOp # "done" /\ (~asyncReceiveInProgress => partial = <<>>)
          /\ resolveOp = "idle" /\ connectOp = "idle" /\ handle # "none"
      BY <1>0, <1>3 DEF EofInv, PhaseInv
    <2>a. ASSUME UNCHANGED <<recvOpVars, recvDataVars, arrived>>,
                 UNCHANGED peer \/ peer' = "reset", UNCHANGED state \/ state' = "closed"
          PROVE  EofInv' /\ delivered' = delivered
      BY <2>0, <2>a DEF EofInv, Readable, recvOpVars, recvDataVars
    <2>b. \A s, msg : EnterErrorFrom(s, msg) => state' = "closed"
      BY DEF EnterErrorFrom, EnterClosed
    <2>1. CASE ReceiveAvailable \/ (\E n \in RequestSizes : Receive(n))
      BY <1>3, <2>1, ReceiveAtEof
    <2>2. CASE OsReceive
      <3>1. /\ UNCHANGED <<partial, kernelRead, delivered, state, peer, arrived,
                           asyncReceiveInProgress, eofReported>>
            /\ recvOp' \in {"eof", "failed", "aborted"}
        BY <2>0, <2>2 DEF OsReceive
      <3> QED BY <2>0, <3>1 DEF EofInv, Readable
    <2>3. CASE HandleReceive
      BY <2>0, <2>3, <2>b DEF HandleReceive, EnterError, recvDataVars, EofInv
    <2>4. CASE Construct \/ HandleResolve \/ HandleConnect \/ OsResolve \/ OsConnect
      BY <2>0, <2>4 DEF Construct, ConnectToLiteral, ConnectToName, FromConnectedSocket,
         ErrorSocket, ConstructWith, HandleResolve, HandleConnect, OsResolve, OsConnect
    <2>5. CASE \/ Send \/ IsEof \/ DestroyGraceful \/ ReleaseHandle
               \/ HandleSend \/ OsSend \/ Peer
      BY <2>0, <2>5, <2>a, <2>b, Zenon DEF Send, IsEof, DestroyGraceful, ReleaseHandle,
         HandleSend, OsSend, EnterError, Peer, PeerSends, PeerCloses, PeerResets
    <2>6. CASE DestroyAbortive
      BY <2>6, <2>a DEF DestroyAbortive, EnterClosed
    <2>7. ASSUME NEW n, Write(n) \/ SetNoDelay(n) \/ SetSendbufferLimit(n)
          PROVE  EofInv' /\ delivered' = delivered
      BY <2>7, <2>a, <2>b, Zenon DEF Write, SetNoDelay, RememberNoDelay, ApplyNoDelay, SetSendbufferLimit, EnterError
    <2> QED BY <2>1, <2>2, <2>3, <2>4, <2>5, <2>6, <2>7 DEF Next, Client, Butler, System
  <1> QED BY <1>1, <1>2, <1>3
----------------------------------------------------------------------------
(* The option.                                                             *)
LEMMA OptionStep ==
  ASSUME IInv, OptionInv, Next
  PROVE  OptionInv'
PROOF
  <1> USE DEF StaysOpen, KeepSend, KeepConnection, KeepSendAndReceive, PeerActs, connectVars, noDelayVars
  <1>0. ControlTypes /\ PhaseInv /\ noDelay \in BOOLEAN /\ grantedNoDelay \in BOOLEAN
    BY DEF IInv, TypeOK, ConnectTypes
  <1>a. ASSUME UNCHANGED <<noDelay, noDelayVars, state>>  PROVE OptionInv'
    BY <1>a DEF OptionInv, NoDelayKept
  <1>b. ASSUME state' = "closed"  PROVE OptionInv'
    BY <1>b DEF OptionInv, NoDelayKept
  <1>c. ASSUME NEW s, NEW msg, EnterErrorFrom(s, msg)  PROVE OptionInv'
    BY <1>b, <1>c DEF EnterErrorFrom, EnterClosed
  <1>d. ASSUME NEW it, StartConnectionAttempt(it), UNCHANGED <<noDelay, grantedNoDelay>>,
               state \in {"none", "connecting"}
        PROVE  OptionInv'
    <2>1. noDelay = grantedNoDelay
      BY <1>0, <1>d DEF OptionInv
    <2>2. CASE state' = "connecting"
      BY <1>d, <2>1, <2>2 DEF OptionInv, NoDelayKept
    <2>3. CASE EnterErrorFrom("connecting", "close")
      BY <2>3, <1>c
    <2> QED BY <1>d, <2>2, <2>3, Zenon DEF StartConnectionAttempt
  <1>1. CASE Construct
    <2>1. state = "none" /\ noDelay = TRUE /\ grantedNoDelay = TRUE
      BY <1>0, <1>1 DEF Construct, ConnectToLiteral, ConnectToName, FromConnectedSocket,
         ErrorSocket, ConstructWith, PhaseInv, OptionInv
    <2>2. ASSUME NEW f \in Families, ConnectToLiteral(f)  PROVE OptionInv'
      BY <1>d, <2>1, <2>2 DEF ConnectToLiteral
    <2>3. CASE ConnectToName
      BY <2>1, <2>3 DEF ConnectToName, OptionInv, NoDelayKept
    <2>4. CASE FromConnectedSocket
      <3>1. CASE state' = "connected" /\ sockNoDelay' = DefaultOption
        BY <2>1, <2>4, <3>1 DEF FromConnectedSocket, OptionInv, NoDelayKept, DefaultOption
      <3>2. CASE EnterErrorFrom("connected", "enter")
        BY <3>2, <1>c
      <3> QED BY <2>4, <3>1, <3>2, Zenon DEF FromConnectedSocket, Enter
    <2>5. CASE ErrorSocket
      BY <2>5, <1>b DEF ErrorSocket
    <2> QED BY <1>1, <2>2, <2>3, <2>4, <2>5 DEF Construct
  <1>2. CASE HandleResolve
    <2>1. CASE ~AbortSeen /\ StartConnectionAttempt(IteratorOver(resolved))
      <3>1. state = "connecting"
        BY <1>0, <1>2, <2>1 DEF HandleResolve, AbortSeen, PhaseInv
      <3> QED BY <1>2, <1>d, <2>1, <3>1 DEF HandleResolve
    <2>2. CASE LookupFailed
      BY <2>2, <1>c DEF LookupFailed, EnterError
    <2>3. CASE UNCHANGED <<sockNoDelay, state>>
      BY <1>2, <1>a, <2>3 DEF HandleResolve
    <2> QED BY <1>2, <2>1, <2>2, <2>3 DEF HandleResolve
  <1>3. CASE HandleConnect
    <2>1. ~AbortSeen => state = "connecting"
      BY <1>0, <1>3 DEF HandleConnect, AbortSeen, PhaseInv
    <2>2. CASE ~AbortSeen /\ StartConnectionAttempt(endpoints) /\ UNCHANGED grantedNoDelay
      BY <1>3, <1>d, <2>1, <2>2 DEF HandleConnect
    <2>3. CASE ~AbortSeen /\ Enter(WantedOption) /\ UNCHANGED grantedNoDelay
      <3>1. CASE state' = "connected" /\ sockNoDelay' = WantedOption
        BY <2>1, <2>3, <3>1 DEF WantedOption, OptionInv, NoDelayKept
      <3>2. CASE EnterErrorFrom("connected", "enter")
        BY <3>2, <1>c
      <3> QED BY <2>3, <3>1, <3>2, Zenon DEF Enter
    <2>4. CASE EnterError("connect")
      BY <2>4, <1>c DEF EnterError
    <2>5. CASE UNCHANGED noDelayVars /\ StaysOpen
      BY <1>3, <1>a, <2>5 DEF HandleConnect
    <2> QED BY <1>3, <2>2, <2>3, <2>4, <2>5 DEF HandleConnect
  <1>4. ASSUME NEW b, SetNoDelay(b)  PROVE OptionInv'
    BY <1>4 DEF SetNoDelay, RememberNoDelay, ApplyNoDelay, OptionInv, NoDelayKept
  <1>5. CASE \/ Send \/ IsEof \/ DestroyGraceful \/ ReleaseHandle \/ ReceiveAvailable
             \/ HandleSend \/ HandleReceive \/ OsResolve \/ OsConnect \/ OsSend \/ OsReceive \/ Peer
    BY <1>5, <1>a, <1>c, Zenon DEF Send, IsEof, DestroyGraceful, ReleaseHandle,
       ReceiveAvailable, ClearOnly, ReadFails, HandleSend, HandleReceive,
       OsResolve, OsConnect, OsSend, OsReceive, EnterError, Peer, PeerSends, PeerCloses, PeerResets
  <1>6. CASE DestroyAbortive
    BY <1>6, <1>b DEF DestroyAbortive, EnterClosed
  <1>7. ASSUME NEW n, Write(n) \/ Receive(n) \/ SetSendbufferLimit(n)  PROVE OptionInv'
    BY <1>7, <1>a, <1>c, Zenon DEF Write, Receive, ClearOnly, ReadFails, SetSendbufferLimit, EnterError
  <1> QED BY <1>1, <1>2, <1>3, <1>4, <1>5, <1>6, <1>7 DEF Next, Client, Butler, System
----------------------------------------------------------------------------
(* The order of the endpoints.  A cursor moves to the next position of its *)
(* family and passes none.                                                 *)
LEMMA SkipSpec ==
  ASSUME NEW list \in Seq(Families), NEW k \in 1..(Len(list) + 1), NEW f
  PROVE  /\ Skip(list, k, f) \in k..(Len(list) + 1)
         /\ Skip(list, k, f) \in DOMAIN list => list[Skip(list, k, f)] = f
         /\ \A p \in DOMAIN list : k <= p /\ p < Skip(list, k, f) => list[p] # f
PROOF
  <1> DEFINE hits == {i \in k..Len(list) : list[i] = f}
  <1>0. Len(list) \in Nat /\ DOMAIN list = 1..Len(list)
    OBVIOUS
  <1>1. CASE hits = {}
    <2>1. Skip(list, k, f) = Len(list) + 1
      BY <1>1 DEF Skip
    <2>2. \A p \in k..Len(list) : list[p] # f
      BY <1>1
    <2> QED BY <1>0, <2>1, <2>2
  <1>2. CASE hits # {}
    <2>1. hits \in SUBSET Nat
      BY <1>0
    <2>2. \E i \in hits : \A j \in hits : i <= j
      BY <1>2, <2>1, LeastNumber
    <2>3. Skip(list, k, f) = CHOOSE i \in hits : \A j \in hits : i <= j
      BY <1>2 DEF Skip
    <2>4. Skip(list, k, f) \in hits /\ \A j \in hits : Skip(list, k, f) <= j
      <3> HIDE DEF hits
      <3> QED BY <2>2, <2>3
    <2>5. ASSUME NEW p \in DOMAIN list, k <= p, p < Skip(list, k, f)  PROVE list[p] # f
      <3>1. p \notin hits
        BY <1>0, <2>1, <2>4, <2>5
      <3> QED BY <1>0, <2>5, <3>1
    <2> QED BY <1>0, <2>4, <2>5
  <1> QED BY <1>1, <1>2

Ordered(list, walk) ==
  \A i, j \in DOMAIN walk : i < j =>
    \/ list[walk[i]] = list[walk[j]] /\ walk[i] < walk[j]
    \/ list[walk[i]] = "v4" /\ list[walk[j]] = "v6"

LEMMA WalkStart ==
  ASSUME NEW list \in Seq(Families)
  PROVE  Walked(IteratorOver(list), <<>>) /\ Ordered(list, <<>>)
PROOF
  <1> DEFINE it == IteratorOver(list)
  <1>0. Len(list) \in Nat /\ DOMAIN list = 1..Len(list) /\ 1 \in 1..(Len(list) + 1)
        /\ \A p \in DOMAIN list : list[p] \in {"v4", "v6"}
    BY DEF Families
  <1>1. it.list = list /\ it.v4 = Skip(list, 1, "v4") /\ it.v6 = Skip(list, 1, "v6")
    BY DEF IteratorOver
  <1> HIDE DEF it
  <1>2. ASSUME NEW p \in DOMAIN list  PROVE ~Before(it, p)
    <2>1. p < Skip(list, 1, "v4") => list[p] # "v4"
      BY <1>0, SkipSpec
    <2>2. p < Skip(list, 1, "v6") => list[p] # "v6"
      BY <1>0, SkipSpec
    <2> QED BY <1>0, <1>1, <2>1, <2>2 DEF Before
  <1>3. /\ it.v4 \in 1..(Len(list) + 1) /\ it.v6 \in 1..(Len(list) + 1)
        /\ it.v4 \in DOMAIN list => list[it.v4] = "v4"
        /\ it.v6 \in DOMAIN list => list[it.v6] = "v6"
    BY <1>0, <1>1, SkipSpec
  <1>4. DOMAIN <<>> = {}
    OBVIOUS
  <1>5. Walked(it, <<>>)
    BY <1>1, <1>2, <1>3, <1>4 DEF Walked
  <1>6. Ordered(list, <<>>)
    BY <1>4 DEF Ordered
  <1> QED BY <1>5, <1>6 DEF it

LEMMA WalkOn ==
  ASSUME NEW it \in Iterators, NEW walk \in Seq(Nat),
         Walked(it, walk), Ordered(it.list, walk), HasNext(it)
  PROVE  /\ Walked(Advance(it), Append(walk, NextPosition(it)))
         /\ Ordered(Advance(it).list, Append(walk, NextPosition(it)))
PROOF
  <1> DEFINE list == it.list
             pos  == NextPosition(it)
             on   == Append(walk, pos)
             next == Advance(it)
             n    == Len(walk)
  <1>0. /\ list \in Seq(Families) /\ Len(list) \in Nat /\ DOMAIN list = 1..Len(list)
        /\ it.v4 \in Nat /\ it.v6 \in Nat
        /\ \A p \in DOMAIN list : list[p] \in {"v4", "v6"}
    BY DEF Iterators, Families
  <1>1. /\ it.v4 \in 1..(Len(list) + 1) /\ it.v6 \in 1..(Len(list) + 1)
        /\ it.v4 \in DOMAIN list => list[it.v4] = "v4"
        /\ it.v6 \in DOMAIN list => list[it.v6] = "v6"
    BY DEF Walked
  <1>2. /\ n \in Nat /\ DOMAIN walk = 1..n
        /\ \A i \in 1..n : walk[i] \in Nat /\ walk[i] \in DOMAIN list /\ Before(it, walk[i])
        /\ \A i \in 1..n : list[walk[i]] = "v6" => AtEnd(it, it.v4)
    BY DEF Walked
  <1>3. pos \in Nat
    BY IteratorTypes
  <1>4. DOMAIN on = 1..(n + 1) /\ on[n + 1] = pos /\ \A i \in 1..n : on[i] = walk[i]
    BY <1>2, <1>3, AppendProperties
  <1>5. ASSUME next.list = list,
               next.v4 \in 1..(Len(list) + 1), next.v6 \in 1..(Len(list) + 1),
               next.v4 \in DOMAIN list => list[next.v4] = "v4",
               next.v6 \in DOMAIN list => list[next.v6] = "v6",
               pos \in DOMAIN list, Before(next, pos),
               list[pos] = "v6" => AtEnd(next, next.v4),
               AtEnd(it, it.v4) => AtEnd(next, next.v4),
               \A p \in DOMAIN list : Before(it, p) => Before(next, p),
               \A p \in DOMAIN list : Before(next, p) => Before(it, p) \/ p = pos,
               \A i \in 1..n : \/ list[walk[i]] = list[pos] /\ walk[i] < pos
                               \/ list[walk[i]] = "v4" /\ list[pos] = "v6"
        PROVE  Walked(next, on) /\ Ordered(next.list, on)
    <2> HIDE DEF next, on, pos, n, list
    <2>1. ASSUME NEW i \in DOMAIN on
          PROVE  /\ on[i] \in DOMAIN next.list /\ Before(next, on[i])
                 /\ next.list[on[i]] = "v6" => AtEnd(next, next.v4)
      <3>1. CASE i = n + 1
        BY <1>4, <1>5, <3>1
      <3>2. CASE i \in 1..n
        BY <1>2, <1>4, <1>5, <3>2
      <3> QED BY <1>2, <1>4, <2>1, <3>1, <3>2
    <2>2. ASSUME NEW p \in DOMAIN next.list, Before(next, p)
          PROVE  \E i \in DOMAIN on : on[i] = p
      <3>1. CASE p = pos
        BY <1>2, <1>4, <3>1
      <3>2. CASE Before(it, p)
        <4>1. PICK i \in DOMAIN walk : walk[i] = p
          BY <1>5, <2>2, <3>2 DEF Walked, list
        <4>2. i \in DOMAIN on /\ on[i] = p
          BY <1>2, <1>4, <4>1
        <4> QED BY <4>2
      <3> QED BY <1>5, <2>2, <3>1, <3>2
    <2>3. Walked(next, on)
      BY <1>5, <2>1, <2>2, Zenon DEF Walked
    <2>4. ASSUME NEW i \in DOMAIN on, NEW j \in DOMAIN on, i < j
          PROVE  \/ list[on[i]] = list[on[j]] /\ on[i] < on[j]
                 \/ list[on[i]] = "v4" /\ list[on[j]] = "v6"
      <3>1. i \in 1..n
        BY <1>2, <1>4, <2>4
      <3>2. CASE j = n + 1
        BY <1>4, <1>5, <3>1, <3>2
      <3>3. CASE j \in 1..n
        BY <1>2, <1>4, <2>4, <3>1, <3>3 DEF Ordered, list
      <3> QED BY <1>2, <1>4, <2>4, <3>2, <3>3
    <2>5. Ordered(next.list, on)
      BY <1>5, <2>4 DEF Ordered
    <2> QED BY <2>3, <2>5
  <1>6. CASE ~AtEnd(it, it.v4)
    <2> DEFINE v == Skip(list, it.v4 + 1, "v4")
    <2>1. it.v4 \in DOMAIN list /\ list[it.v4] = "v4" /\ it.v4 + 1 \in 1..(Len(list) + 1)
      BY <1>0, <1>1, <1>6 DEF AtEnd
    <2>2. /\ v \in (it.v4 + 1)..(Len(list) + 1)
          /\ v \in DOMAIN list => list[v] = "v4"
          /\ \A p \in DOMAIN list : it.v4 + 1 <= p /\ p < v => list[p] # "v4"
      BY <1>0, <2>1, SkipSpec
    <2>3. pos = it.v4 /\ next = [it EXCEPT !.v4 = v]
      BY <1>6 DEF NextPosition, Advance
    <2>4. next.list = list /\ next.v4 = v /\ next.v6 = it.v6
      BY <2>3 DEF Iterators
    <2> HIDE DEF v, next, pos, list, on, n
    <2>5. v \in 1..(Len(list) + 1) /\ it.v4 < v
      BY <1>0, <2>1, <2>2
    <2>6. Before(next, pos) /\ pos \in DOMAIN list /\ list[pos] = "v4"
      BY <2>1, <2>3, <2>4, <2>5 DEF Before
    <2>7. ASSUME NEW p \in DOMAIN list
          PROVE  /\ Before(it, p) => Before(next, p)
                 /\ Before(next, p) => Before(it, p) \/ p = pos
      BY <1>0, <2>2, <2>3, <2>4, <2>5 DEF Before, list
    <2>8. ASSUME NEW i \in 1..n  PROVE list[walk[i]] = list[pos] /\ walk[i] < pos
      <3>1. list[walk[i]] = "v4"
        BY <1>0, <1>2, <1>6
      <3> QED BY <1>2, <2>3, <2>6, <3>1 DEF Before, list
    <2>9. Walked(next, on) /\ Ordered(next.list, on)
      BY <1>1, <1>5, <1>6, <2>2, <2>4, <2>5, <2>6, <2>7, <2>8
    <2> QED BY <2>9 DEF on, next, pos
  <1>7. CASE AtEnd(it, it.v4)
    <2> DEFINE v == Skip(list, it.v6 + 1, "v6")
    <2>0. ~AtEnd(it, it.v6)
      BY <1>7 DEF HasNext
    <2>1. it.v6 \in DOMAIN list /\ list[it.v6] = "v6" /\ it.v6 + 1 \in 1..(Len(list) + 1)
      BY <1>0, <1>1, <2>0 DEF AtEnd
    <2>2. /\ v \in (it.v6 + 1)..(Len(list) + 1)
          /\ v \in DOMAIN list => list[v] = "v6"
          /\ \A p \in DOMAIN list : it.v6 + 1 <= p /\ p < v => list[p] # "v6"
      BY <1>0, <2>1, SkipSpec
    <2>3. pos = it.v6 /\ next = [it EXCEPT !.v6 = v]
      BY <1>7, <2>0 DEF NextPosition, Advance
    <2>4. next.list = list /\ next.v6 = v /\ next.v4 = it.v4
      BY <2>3 DEF Iterators
    <2> HIDE DEF v, next, pos, list, on, n
    <2>5. v \in 1..(Len(list) + 1) /\ it.v6 < v
      BY <1>0, <2>1, <2>2
    <2>6. Before(next, pos) /\ pos \in DOMAIN list /\ list[pos] = "v6"
      BY <2>1, <2>3, <2>4, <2>5 DEF Before
    <2>7. ASSUME NEW p \in DOMAIN list
          PROVE  /\ Before(it, p) => Before(next, p)
                 /\ Before(next, p) => Before(it, p) \/ p = pos
      BY <1>0, <2>2, <2>3, <2>4, <2>5 DEF Before, list
    <2>8. ASSUME NEW i \in 1..n
          PROVE  \/ list[walk[i]] = list[pos] /\ walk[i] < pos
                 \/ list[walk[i]] = "v4" /\ list[pos] = "v6"
      <3>1. CASE list[walk[i]] = "v4"
        BY <2>6, <3>1
      <3>2. CASE list[walk[i]] = "v6"
        BY <1>2, <2>3, <2>6, <3>2 DEF Before, list
      <3> QED BY <1>0, <1>2, <3>1, <3>2
    <2>9. AtEnd(next, next.v4)
      BY <1>7, <2>4 DEF AtEnd, list
    <2>10. Walked(next, on) /\ Ordered(next.list, on)
      BY <1>1, <1>5, <2>2, <2>4, <2>5, <2>6, <2>7, <2>8, <2>9
    <2> QED BY <2>10 DEF on, next, pos
  <1> QED BY <1>6, <1>7

(* With both cursors at the end every endpoint has been tried, once.       *)
LEMMA WalkedAll ==
  ASSUME NEW it \in Iterators, NEW walk \in Seq(Nat),
         Walked(it, walk), Ordered(it.list, walk), ~HasNext(it)
  PROVE  Len(walk) = Len(it.list)
PROOF
  <1> DEFINE n == Len(walk)  m == Len(it.list)
  <1>0. /\ n \in Nat /\ m \in Nat /\ DOMAIN walk = 1..n /\ DOMAIN it.list = 1..m
        /\ walk = [i \in 1..n |-> walk[i]]
    BY DEF Iterators
  <1>1. it.v4 = m + 1 /\ it.v6 = m + 1
    BY DEF HasNext, AtEnd
  <1>2. \A i \in 1..n : walk[i] \in 1..m
    BY <1>0 DEF Walked
  <1>3. \A p \in 1..m : \E i \in 1..n : walk[i] = p
    <2>1. ASSUME NEW p \in 1..m  PROVE Before(it, p)
      BY <1>0, <1>1 DEF Before
    <2> QED BY <1>0, <2>1 DEF Walked
  <1>4. ASSUME NEW i \in 1..n, NEW j \in 1..n, i < j  PROVE walk[i] # walk[j]
    <2>1. \/ walk[i] < walk[j]
          \/ it.list[walk[i]] = "v4" /\ it.list[walk[j]] = "v6"
      BY <1>0, <1>4 DEF Ordered
    <2>2. walk[i] \in Nat /\ walk[j] \in Nat
      BY <1>0, <1>2
    <2> QED BY <2>1, <2>2
  <1> HIDE DEF n, m
  <1>5. ASSUME NEW i \in 1..n, NEW j \in 1..n, walk[i] = walk[j]  PROVE i = j
    <2>1. i < j \/ j < i \/ i = j
      BY <1>0
    <2> QED BY <1>4, <1>5, <2>1
  <1>6. walk \in Bijection(1..n, 1..m)
    <2>1. walk \in [1..n -> 1..m]
      BY <1>0, <1>2
    <2>2. DOMAIN walk = 1..n
      BY <1>0
    <2> QED BY <1>3, <1>5, <2>1, <2>2 DEF Bijection, Injection, Surjection, IsInjective
  <1>7. ExistsBijection(1..n, 1..m)
    BY <1>6 DEF ExistsBijection
  <1>8. /\ IsFiniteSet(1..n)
        /\ Cardinality(1..n) = IF 1 > n THEN 0 ELSE n - 1 + 1
        /\ Cardinality(1..m) = IF 1 > m THEN 0 ELSE m - 1 + 1
    <2>1. 1 \in Int /\ n \in Int /\ m \in Int
      BY <1>0
    <2> QED BY <2>1, FS_Interval
  <1>9. Cardinality(1..m) = Cardinality(1..n)
    BY <1>7, <1>8, FS_Bijection
  <1>10. n = m
    BY <1>0, <1>8, <1>9
  <1> QED BY <1>10 DEF n, m

(* What remains to show of TriedInv in a step: that the list has been      *)
(* walked in order.                                                        *)
LEMMA TriedWhole ==
  ASSUME ConnectTypes', Walked(endpoints', tried'), Ordered(endpoints'.list, tried'),
         errorMessage' # "none" => state' = "closed",
         resolveOp' = "done" => resolved' # <<>>,
         state' = "none" \/ (resolveOp' # "idle" /\ ~connectingAbort') => tried' = <<>>,
         errorMessage' = "connect" => ~HasNext(endpoints')
  PROVE  TriedInv'
PROOF
  <1>1. endpoints' \in Iterators /\ tried' \in Seq(Nat)
    BY DEF ConnectTypes, Iterators
  <1>2. errorMessage' = "connect" => Len(tried') = Len(endpoints'.list)
    BY <1>1, WalkedAll
  <1>3. FallbackOrder'
    BY <1>2 DEF FallbackOrder, Ordered
  <1> QED BY <1>3 DEF TriedInv

(* A step that does not connect changes none of it, except for a message.  *)
LEMMA TriedKept ==
  ASSUME IInv, TriedInv, UNCHANGED <<endpoints, tried, resolved>>,
         resolveOp' = resolveOp \/ resolveOp' \in {"idle", "failed"},
         resolveOp = "idle" => resolveOp' = "idle",
         \/ StaysOpen
         \/ EnterClosed(state) /\ UNCHANGED errorMessage
         \/ EnterClosed(state) /\ errorMessage = "none" /\ errorMessage' # "connect"
  PROVE  TriedInv'
PROOF
  <1>0. PhaseInv /\ ControlTypes
    BY DEF IInv, TypeOK
  <1>1. /\ errorMessage' # "none" => state' = "closed"
        /\ errorMessage' = "connect" => errorMessage = "connect"
        /\ state' = "none" => state = "none"
        /\ ~connectingAbort' => ~connectingAbort
    BY <1>0 DEF StaysOpen, abortVars, EnterClosed, TriedInv, PhaseInv, ControlTypes
  <1>2. resolveOp' # "idle" => resolveOp # "idle"
    OBVIOUS
  <1>3. resolveOp' = "done" => resolveOp = "done"
    OBVIOUS
  <1>4. FallbackOrder' /\ Walked(endpoints, tried)'
    BY <1>1 DEF TriedInv, FallbackOrder, Walked
  <1> QED BY <1>1, <1>2, <1>3, <1>4 DEF TriedInv

(* An attempt goes to the next endpoint in the order.                      *)
LEMMA TriedAttempt ==
  ASSUME IInv, TriedInv, ConnectTypes', NEW it \in Iterators,
         Walked(it, tried), Ordered(it.list, tried), HasNext(it),
         StartConnectionAttempt(it), errorMessage = "none",
         resolveOp' = "idle"
  PROVE  TriedInv'
PROOF
  <1>0. tried \in Seq(Nat)
    BY DEF IInv, TypeOK, ConnectTypes
  <1>1. CASE /\ endpoints' = Advance(it) /\ tried' = Append(tried, NextPosition(it))
             /\ UNCHANGED errorMessage /\ state' = "connecting"
    <2>1. Walked(endpoints', tried') /\ Ordered(endpoints'.list, tried')
      BY <1>0, <1>1, WalkOn
    <2> QED BY <1>1, <2>1, TriedWhole
  <1>2. CASE EnterErrorFrom("connecting", "close") /\ endpoints' = it /\ UNCHANGED tried
    <2>1. state' = "closed" /\ errorMessage' = "close"
      BY <1>2 DEF EnterErrorFrom, EnterClosed, MessageAfter, hasError
    <2> QED BY <1>2, <2>1, TriedWhole
  <1> QED BY <1>1, <1>2, Zenon DEF StartConnectionAttempt, abortVars

(* A list with an endpoint has a first one to try.                         *)
LEMMA FirstEndpoint ==
  ASSUME NEW list \in Seq(Families), list # <<>>
  PROVE  HasNext(IteratorOver(list))
PROOF
  <1> DEFINE it == IteratorOver(list)
  <1>1. it.list = list /\ it.v4 = Skip(list, 1, "v4") /\ it.v6 = Skip(list, 1, "v6")
    BY DEF IteratorOver
  <1>2. 1 \in DOMAIN list /\ Len(list) \in Nat /\ DOMAIN list = 1..Len(list) /\ 1 \in 1..(Len(list) + 1)
    BY EmptySeq
  <1>3. list[1] = "v4" \/ list[1] = "v6"
    BY <1>2 DEF Families
  <1>4. ASSUME NEW f, list[1] = f, Skip(list, 1, f) = Len(list) + 1  PROVE FALSE
    BY <1>2, <1>4, SkipSpec
  <1> HIDE DEF it
  <1>5. HasNext(it)
    BY <1>1, <1>3, <1>4 DEF HasNext, AtEnd
  <1> QED BY <1>5 DEF it

LEMMA TriedStep ==
  ASSUME IInv, TriedInv, Next
  PROVE  TriedInv'
PROOF
  <1> USE DEF StaysOpen, KeepSend, KeepConnection, KeepSendAndReceive, PeerActs, connectVars
  <1>0. /\ ControlTypes /\ ConnectTypes /\ ReceiveTypes /\ PhaseInv /\ ConnectTypes'
        /\ endpoints \in Iterators /\ tried \in Seq(Nat)
        /\ Walked(endpoints, tried) /\ Ordered(endpoints.list, tried)
    BY ConnectTypesStep DEF IInv, TypeOK, ConnectTypes, Iterators, TriedInv, FallbackOrder, Ordered
  <1>1. ASSUME NEW msg, msg # "connect", EnterErrorFrom(state, msg)
        PROVE  \/ EnterClosed(state) /\ UNCHANGED errorMessage
               \/ EnterClosed(state) /\ errorMessage = "none" /\ errorMessage' # "connect"
    BY <1>1 DEF EnterErrorFrom, MessageAfter, hasError
  <1>a. ASSUME UNCHANGED connectVars,
               StaysOpen \/ (EnterClosed(state) /\ UNCHANGED errorMessage)
                 \/ \E msg : msg # "connect" /\ EnterErrorFrom(state, msg)
        PROVE  TriedInv'
    BY <1>1, <1>a, TriedKept
  <1>b. ASSUME state = "none" \/ (resolveOp # "idle" /\ ~connectingAbort)
        PROVE  tried = <<>> /\ errorMessage = "none"
    BY <1>0, <1>b DEF TriedInv, PhaseInv
  <1>2. CASE Construct
    <2>1. state = "none" /\ tried = <<>> /\ errorMessage = "none" /\ resolveOp = "idle"
      BY <1>0, <1>2, <1>b DEF Construct, ConnectToLiteral, ConnectToName, FromConnectedSocket,
         ErrorSocket, ConstructWith, PhaseInv
    <2>2. ASSUME NEW f \in Families, ConnectToLiteral(f)  PROVE TriedInv'
      <3>1. <<f>> \in Seq(Families) /\ <<f>> # <<>>
        OBVIOUS
      <3>2. /\ IteratorOver(<<f>>) \in Iterators /\ HasNext(IteratorOver(<<f>>))
            /\ Walked(IteratorOver(<<f>>), tried) /\ IteratorOver(<<f>>).list = <<f>>
            /\ Ordered(<<f>>, tried)
        <4>1. IteratorOver(<<f>>).list = <<f>>
          BY DEF IteratorOver
        <4> QED BY <2>1, <3>1, <4>1, IteratorTypes, FirstEndpoint, WalkStart
      <3>3. resolveOp' = "idle" /\ StartConnectionAttempt(IteratorOver(<<f>>))
        BY <2>2 DEF ConnectToLiteral
      <3> QED BY <1>0, <2>1, <3>2, <3>3, TriedAttempt
    <2>3. ASSUME UNCHANGED <<endpoints, tried>>, resolved' = <<>>, resolveOp' \in {"idle", "pending"},
                 errorMessage' # "connect", errorMessage' # "none" => state' = "closed"
          PROVE  TriedInv'
      BY <1>0, <2>1, <2>3, TriedWhole
    <2>4. CASE ConnectToName
      BY <2>1, <2>3, <2>4 DEF ConnectToName, ConstructWith
    <2>5. CASE FromConnectedSocket
      <3>1. errorMessage' \in {"none", "enter"} /\ (errorMessage' # "none" => state' = "closed")
        BY <2>1, <2>5 DEF FromConnectedSocket, Enter, EnterErrorFrom, EnterClosed, MessageAfter, hasError
      <3> QED BY <2>1, <2>3, <2>5, <3>1 DEF FromConnectedSocket, ConstructWith
    <2>6. CASE ErrorSocket
      BY <2>1, <2>3, <2>6 DEF ErrorSocket, ConstructWith
    <2> QED BY <1>2, <2>2, <2>4, <2>5, <2>6 DEF Construct
  <1>3. CASE HandleResolve
    <2>1. resolveOp' = "idle" /\ UNCHANGED resolved
      BY <1>3 DEF HandleResolve
    <2>2. CASE UNCHANGED <<endpoints, tried>> /\ (StaysOpen \/ LookupFailed)
      BY <1>1, <2>1, <2>2, TriedKept DEF LookupFailed, EnterError
    <2>3. CASE ~AbortSeen /\ resolveOp = "done" /\ StartConnectionAttempt(IteratorOver(resolved))
      <3>1. /\ resolved \in Seq(Families) /\ resolved # <<>> /\ tried = <<>>
            /\ errorMessage = "none"
        BY <1>0, <1>b, <2>3 DEF ConnectTypes, TriedInv, AbortSeen
      <3>2. IteratorOver(resolved).list = resolved
        BY DEF IteratorOver
      <3>3. /\ IteratorOver(resolved) \in Iterators /\ HasNext(IteratorOver(resolved))
            /\ Walked(IteratorOver(resolved), tried) /\ Ordered(resolved, tried)
        BY <3>1, IteratorTypes, FirstEndpoint, WalkStart
      <3> QED BY <1>0, <2>1, <2>3, <3>1, <3>2, <3>3, TriedAttempt
    <2> QED BY <1>3, <2>2, <2>3 DEF HandleResolve
  <1>4. CASE HandleConnect
    <2>0. UNCHANGED <<resolveOp, resolved>>
      BY <1>4 DEF HandleConnect
    <2>1. ~AbortSeen => state = "connecting" /\ errorMessage = "none" /\ resolveOp = "idle"
      BY <1>0, <1>4 DEF HandleConnect, AbortSeen, PhaseInv, TriedInv
    <2>2. CASE AbortSeen
      BY <1>4, <2>0, <2>2, TriedKept DEF HandleConnect
    <2>3. CASE ~AbortSeen /\ Enter(WantedOption) /\ UNCHANGED <<endpoints, tried>>
      <3>1. errorMessage' \in {"none", "enter"} /\ (errorMessage' # "none" => state' = "closed")
            /\ state' # "none"
        BY <2>1, <2>3 DEF Enter, EnterErrorFrom, EnterClosed, MessageAfter, hasError
      <3> QED BY <1>0, <2>0, <2>1, <2>3, <3>1, TriedWhole
    <2>4. CASE ~AbortSeen /\ MoreEndpoints(endpoints) /\ StartConnectionAttempt(endpoints)
      BY <1>0, <2>0, <2>1, <2>4, TriedAttempt DEF MoreEndpoints
    <2>5. CASE /\ ~AbortSeen /\ ~MoreEndpoints(endpoints) /\ EnterError("connect")
               /\ UNCHANGED <<endpoints, tried>>
      <3>1. state' = "closed" /\ ~HasNext(endpoints)
        BY <2>5 DEF EnterError, EnterErrorFrom, EnterClosed, MoreEndpoints
      <3> QED BY <1>0, <2>0, <2>1, <2>5, <3>1, TriedWhole
    <2> QED BY <1>4, <2>2, <2>3, <2>4, <2>5, Zenon DEF HandleConnect
  <1>5. CASE OsResolve
    <2>1. UNCHANGED <<endpoints, tried, state, errorMessage, connectingAbort>> /\ resolveOp # "idle"
      BY <1>5 DEF OsResolve, abortVars
    <2>2. resolveOp' = "done" => resolved' # <<>>
      BY <1>5, ResolveAssumption DEF OsResolve
    <2> QED BY <1>0, <2>1, <2>2, TriedWhole DEF TriedInv
  <1>6. CASE OsConnect
    BY <1>6, TriedKept DEF OsConnect
  <1>7. CASE HandleReceive
    <2>1. (IF recvOp = "failed" THEN "receive" ELSE recvOp) # "connect"
      BY <1>0 DEF ReceiveTypes
    <2> QED BY <1>7, <1>a, <2>1 DEF HandleReceive, EnterError
  <1>8. CASE \/ Send \/ IsEof \/ DestroyGraceful \/ ReleaseHandle \/ ReceiveAvailable
             \/ HandleSend \/ OsSend \/ OsReceive \/ Peer
    BY <1>8, <1>a DEF Send, IsEof, DestroyGraceful, ReleaseHandle,
       ReceiveAvailable, ClearOnly, ReadFails, HandleSend,
       OsSend, OsReceive, EnterError, Peer, PeerSends, PeerCloses, PeerResets
  <1>9. CASE DestroyAbortive
    BY <1>9, <1>a DEF DestroyAbortive
  <1>10. ASSUME NEW n, Write(n) \/ Receive(n) \/ SetSendbufferLimit(n)  PROVE TriedInv'
    BY <1>10, <1>a DEF Write, Receive, ClearOnly, ReadFails, SetSendbufferLimit, EnterError
  <1>11. ASSUME NEW n, SetNoDelay(n)  PROVE TriedInv'
    <2>1. UNCHANGED <<endpoints, tried, resolved, resolveOp>> /\ StaysOpen
      BY <1>11 DEF SetNoDelay, RememberNoDelay, ApplyNoDelay
    <2> QED BY <2>1, TriedKept
  <1> QED BY <1>2, <1>3, <1>4, <1>5, <1>6, <1>7, <1>8, <1>9, <1>10, <1>11
          DEF Next, Client, Butler, System
----------------------------------------------------------------------------
(* All of it together is inductive.                                        *)
FurtherInv == StreamInv /\ EofInv /\ OptionInv /\ TriedInv

LEMMA FurtherInitially ==
  Init => FurtherInv
PROOF
  <1> SUFFICES ASSUME Init PROVE FurtherInv
    OBVIOUS
  <1>1. StreamInv
    <2>1. <<>> \in Seq(Nat) /\ <<>> \o <<>> = <<>> /\ Bytes(0, 0) = <<>> /\ Len(<<>>) = 0
      BY DEF Bytes
    <2> QED BY <2>1 DEF Init, StreamInv, Filled
  <1>2. EofInv /\ OptionInv
    BY DEF Init, EofInv, OptionInv, NoDelayKept
  <1>3. TriedInv
    <2>1. <<>> \in Seq(Families) /\ IteratorOver(<<>>).list = <<>> /\ DOMAIN <<>> = {}
      BY DEF IteratorOver
    <2>2. Walked(endpoints, tried)
      BY <2>1, WalkStart DEF Init
    <2>3. FallbackOrder
      BY <2>1 DEF Init, FallbackOrder
    <2> QED BY <2>2, <2>3 DEF Init, TriedInv
  <1> QED BY <1>1, <1>2, <1>3 DEF FurtherInv

LEMMA FurtherStuttering ==
  ASSUME FurtherInv, UNCHANGED vars
  PROVE  FurtherInv'
PROOF
  <1> USE DEF vars, noDelayVars, connectVars, abortVars, sendOpVars,
        sendDataVars, recvOpVars, recvDataVars
  <1>1. StreamInv' /\ EofInv' /\ OptionInv'
    BY DEF FurtherInv, StreamInv, Filled, EofInv, Readable, OptionInv, NoDelayKept
  <1>2. TriedInv'
    BY DEF FurtherInv, TriedInv, FallbackOrder
  <1> QED BY <1>1, <1>2 DEF FurtherInv

LEMMA FurtherInvariance ==
  Spec => [](IInv /\ FurtherInv)
PROOF
  <1>1. Init => IInv /\ FurtherInv
    BY Initially, FurtherInitially
  <1>2. ASSUME IInv, FurtherInv, Next  PROVE FurtherInv'
    <2>1. StreamInv' /\ EofInv'
      BY <1>2, StreamStep, EofStep DEF FurtherInv
    <2>2. OptionInv' /\ TriedInv'
      BY <1>2, OptionStep, TriedStep DEF FurtherInv
    <2> QED BY <2>1, <2>2 DEF FurtherInv
  <1>3. IInv /\ FurtherInv /\ [Next]_vars => (IInv /\ FurtherInv)'
    BY <1>2, Inductive, FurtherStuttering
  <1> QED BY <1>1, <1>3, PTL DEF Spec

(* The receive path: what the client gets is the peer's bytes, in order,   *)
(* each once and never a placeholder, across partial receives, background  *)
(* reads and the vector they share.                                        *)
THEOREM StreamDelivered ==
  Spec => []ReceiveStream
PROOF
  <1>1. IInv /\ FurtherInv => ReceiveStream
    <2> SUFFICES ASSUME IInv, FurtherInv PROVE ReceiveStream
      OBVIOUS
    <2> QED BY DEF FurtherInv, StreamInv, Filled, ReceiveStream
  <1> QED BY <1>1, FurtherInvariance, PTL

(* Connecting goes through the resolver's endpoints once each, IPv4 first, *)
(* and reports failure only after the last of them.                        *)
THEOREM FallsBackInOrder ==
  Spec => []FallbackOrder
PROOF
  <1>1. IInv /\ FurtherInv => FallbackOrder
    BY DEF FurtherInv, TriedInv
  <1> QED BY <1>1, FurtherInvariance, PTL

(* The option asked for while connecting reaches the socket that connects. *)
THEOREM OptionReachesSocket ==
  Spec => []NoDelayKept
PROOF
  <1>1. IInv /\ FurtherInv => NoDelayKept
    BY DEF FurtherInv, OptionInv
  <1> QED BY <1>1, FurtherInvariance, PTL

(* isEof is not taken back: after it has said so, nothing is delivered.    *)
THEOREM EofForGood ==
  Spec => EofFinal
PROOF
  <1> DEFINE A == eofReported => delivered' = delivered
  <1>1. ASSUME IInv, FurtherInv, [Next]_vars  PROVE [A]_vars
    BY <1>1, EofStep DEF FurtherInv
  <1> HIDE DEF A
  <1>2. Spec => [][A]_vars
    BY <1>1, FurtherInvariance, PTL DEF Spec
  <1> QED BY <1>2 DEF EofFinal, A

(* The memory async_read writes into stays where it is until it ends.      *)
THEOREM TargetKept ==
  Spec => ReadTargetStable
PROOF
  <1> DEFINE A == recvOp = "pending" => Len(partial') = Len(partial)
  <1>1. ASSUME IInv, [Next]_vars  PROVE [A]_vars
    BY <1>1, TargetStep
  <1> HIDE DEF A
  <1>2. Spec => [][A]_vars
    BY <1>1, Invariance, PTL DEF Spec
  <1> QED BY <1>2 DEF ReadTargetStable, A
=============================================================================
