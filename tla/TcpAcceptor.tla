---------------------------- MODULE TcpAcceptor ----------------------------
(***************************************************************************)
(* A CombinedTcpAcceptor and its two TcpAcceptors, one per IP family       *)
(* (faucet/tcp), from tcp_listen to socket_destroy.                        *)
(*                                                                         *)
(* A TcpAcceptor keeps one async_accept going while it holds no connection *)
(* for the client, and the combined acceptor takes connections from the    *)
(* two in turns.  Client calls and handlers run under a family's           *)
(* socketMutex_ and are atomic for that family: the combined accept is one *)
(* step per family it asks, with the butler's steps in between.  The       *)
(* completion of an accept and the run of its handler are separate steps.  *)
(* Connections are numbered as they arrive.                                *)
(***************************************************************************)
EXTENDS Integers, Sequences, FiniteSets

CONSTANTS
  Ports,           \* port numbers in use here; 0 asks for a random one
  MaxConnections,  \* bound: connections that arrive
  MaxErrors        \* bound: accepts that fail on an open acceptor

ASSUME PortsAssumption == Ports # {} /\ Ports \subseteq Nat \ {0}
ASSUME BoundsAssumption == MaxConnections \in Nat /\ MaxErrors \in Nat

Families == {"v4", "v6"}

VARIABLES
  handle,        \* the client's reference, through the handle map
  open,          \* acceptor_->is_open()
  hasError,
  waiting,       \* socket_: the connection to hand out, 0 for none
  acceptOp,      \* the async_accept
  acceptIn,      \* what a completed async_accept has got
  checkV6First,
  askOther,      \* accept() found the first family empty, the other is next
  localPort,
  backlog,       \* connections the OS holds for us
  \* history
  boundTo, arrived, accepted, aborted, errors, passedOver, cameLate

portVars == <<localPort, boundTo>>
callVars == <<checkV6First, askOther, accepted, passedOver>>
vars == <<handle, open, hasError, waiting, acceptOp, acceptIn, callVars,
          portVars, backlog, arrived, aborted, errors, cameLate>>
----------------------------------------------------------------------------
(* The constructor.  A random port is found with a dual stack socket, or   *)
(* failing that by binding IPv4 to port 0; either family may fail.         *)
PortNotReadBack(v4, placeholder, p) == placeholder
PortAfterTheFirst(v4, placeholder, p) ==
  IF v4 /\ placeholder = 0 THEN p + 1 ELSE placeholder
PortAfterFirst(v4, placeholder, p) ==
  IF v4 /\ placeholder = 0 THEN p ELSE placeholder

ListenOn(port) ==
  \E placeholder \in IF port = 0 THEN Ports \cup {0} ELSE {port},
     v4 \in BOOLEAN, v6 \in BOOLEAN, p4 \in Ports, p6 \in Ports :
    LET first  == PortAfterFirst(v4, placeholder, p4)
        second == IF v6 /\ first = 0 THEN p6 ELSE first
    IN  /\ open' = [f \in Families |-> IF f = "v4" THEN v4 ELSE v6]
        /\ localPort' = second
        /\ boundTo' = [f \in Families |->
             IF f = "v4" THEN IF v4 THEN IF placeholder = 0 THEN p4 ELSE placeholder ELSE 0
             ELSE IF v6 THEN second ELSE 0]

Listen(port) ==
  /\ handle = "none" /\ handle' = "held"
  /\ ListenOn(port)
  /\ hasError' = [f \in Families |-> ~open'[f]]
  /\ acceptOp' = [f \in Families |-> IF open'[f] THEN "pending" ELSE "idle"]
  /\ UNCHANGED <<waiting, acceptIn, callVars, backlog, arrived, aborted, errors,
                 cameLate>>

(* A connection is established by the OS and waits for an accept.          *)
Connect(f) ==
  /\ open[f] /\ arrived < MaxConnections
  /\ arrived' = arrived + 1
  /\ backlog' = [backlog EXCEPT ![f] = Append(@, arrived + 1)]
  /\ UNCHANGED <<handle, open, hasError, waiting, acceptOp, acceptIn, callVars,
                 portVars, aborted, errors, cameLate>>

OsAccept(f) ==
  /\ acceptOp[f] = "pending"
  /\ \/ /\ open[f] /\ backlog[f] # <<>>
        /\ acceptOp' = [acceptOp EXCEPT ![f] = "done"]
        /\ acceptIn' = [acceptIn EXCEPT ![f] = Head(backlog[f])]
        /\ backlog' = [backlog EXCEPT ![f] = Tail(@)]
        /\ UNCHANGED <<aborted, errors>>
     \/ /\ open[f] /\ errors < MaxErrors          \* with or without losing one
        /\ errors' = errors + 1
        /\ acceptOp' = [acceptOp EXCEPT ![f] = "failed"]
        /\ \/ UNCHANGED <<backlog, aborted>>
           \/ /\ backlog[f] # <<>>
              /\ backlog' = [backlog EXCEPT ![f] = Tail(@)]
              /\ aborted' = aborted \cup {Head(backlog[f])}
        /\ UNCHANGED acceptIn
     \/ /\ ~open[f]
        /\ acceptOp' = [acceptOp EXCEPT ![f] = "failed"]
        /\ UNCHANGED <<acceptIn, backlog, aborted, errors>>
  /\ UNCHANGED <<handle, open, hasError, waiting, callVars, portVars, arrived,
                 cameLate>>

Other(f) == IF f = "v4" THEN "v6" ELSE "v4"
AlwaysV4 == "v4"
FirstToCheck == IF checkV6First THEN "v6" ELSE "v4"

(* What becomes of a failed accept: another one while the acceptor is      *)
(* open, the error otherwise.                                              *)
AcceptFailedForGood(f) ==
  /\ acceptOp' = [acceptOp EXCEPT ![f] = "idle"]
  /\ hasError' = [hasError EXCEPT ![f] = TRUE]
AcceptFailed(f) ==
  \/ /\ open[f]
     /\ acceptOp' = [acceptOp EXCEPT ![f] = "pending"]
     /\ UNCHANGED hasError
  \/ /\ ~open[f]
     /\ acceptOp' = [acceptOp EXCEPT ![f] = "idle"]
     /\ hasError' = [hasError EXCEPT ![f] = TRUE]

(* A completed one leaves the connection for the client, and no accept.    *)
AcceptSucceededAndGoesOn(f) ==
  /\ acceptOp' = [acceptOp EXCEPT ![f] = "pending"]
  /\ waiting' = [waiting EXCEPT ![f] = acceptIn[f]]
AcceptSucceeded(f) ==
  /\ acceptOp' = [acceptOp EXCEPT ![f] = "idle"]
  /\ waiting' = [waiting EXCEPT ![f] = acceptIn[f]]

(* handleAccept.  After the client has let go, the handler's was the last  *)
(* reference: the TcpAcceptor dies with the connection it got.             *)
HandleAccept(f) ==
  /\ acceptOp[f] \in {"done", "failed"}
  /\ acceptIn' = [acceptIn EXCEPT ![f] = 0]
  /\ \/ /\ acceptOp[f] = "done" /\ handle = "held"
        /\ AcceptSucceeded(f)
        /\ cameLate' = [cameLate EXCEPT ![f] = askOther /\ FirstToCheck = f]
        /\ UNCHANGED <<hasError, aborted>>
     \/ /\ acceptOp[f] = "done" /\ handle = "released"
        /\ acceptOp' = [acceptOp EXCEPT ![f] = "idle"]
        /\ aborted' = aborted \cup {acceptIn[f]}
        /\ UNCHANGED <<hasError, waiting, cameLate>>
     \/ /\ acceptOp[f] = "failed"
        /\ AcceptFailed(f)
        /\ UNCHANGED <<waiting, aborted, cameLate>>
  /\ UNCHANGED <<handle, open, callVars, portVars, backlog, arrived, errors>>

(* TcpAcceptor::accept on a family with a connection waiting.              *)
RestartNever(f) == UNCHANGED acceptOp
Restart(f) == acceptOp' = [acceptOp EXCEPT ![f] = "pending"]

HandOut(f) == waiting' = [waiting EXCEPT ![f] = 0]

TakeFrom(f) ==
  /\ waiting[f] # 0
  /\ accepted' = Append(accepted, [id |-> waiting[f], family |-> f])
  /\ HandOut(f)
  /\ Restart(f)
  /\ passedOver' = [g \in Families |->
       IF g = f \/ waiting[g] = 0 THEN 0 ELSE passedOver[g] + 1]

(* CombinedTcpAcceptor::accept asks one family and, when that has nothing, *)
(* the other, each under its own lock; the turn changes as it returns.     *)
AskFirst ==
  /\ handle = "held" /\ ~askOther
  /\ \/ /\ TakeFrom(FirstToCheck)
        /\ checkV6First' = ~checkV6First
        /\ UNCHANGED askOther
     \/ /\ waiting[FirstToCheck] = 0
        /\ askOther' = TRUE
        /\ UNCHANGED <<checkV6First, accepted, waiting, acceptOp, passedOver>>
  /\ UNCHANGED <<handle, open, hasError, acceptIn, portVars, backlog, arrived,
                 aborted, errors, cameLate>>

AskOther ==
  /\ askOther /\ askOther' = FALSE
  /\ checkV6First' = ~checkV6First
  /\ \/ TakeFrom(Other(FirstToCheck))
     \/ /\ waiting[Other(FirstToCheck)] = 0
        /\ UNCHANGED <<accepted, waiting, acceptOp, passedOver>>
  /\ UNCHANGED <<handle, open, hasError, acceptIn, portVars, backlog, arrived,
                 aborted, errors, cameLate>>

(* socket_destroy: the destructor closes both acceptors, which resets the  *)
(* connections still in the backlog; a TcpAcceptor without an accept going *)
(* on dies at once, and with it the connection it held for the client.     *)
Destroy ==
  /\ handle = "held" /\ ~askOther /\ handle' = "released"
  /\ open' = [f \in Families |-> FALSE]
  /\ aborted' = aborted \cup {waiting[f] : f \in {g \in Families : waiting[g] # 0}}
                  \cup UNION {{backlog[f][i] : i \in DOMAIN backlog[f]} : f \in Families}
  /\ waiting' = [f \in Families |-> 0]
  /\ backlog' = [f \in Families |-> <<>>]
  /\ UNCHANGED <<hasError, acceptOp, acceptIn, callVars, portVars, arrived, errors,
                 cameLate>>
----------------------------------------------------------------------------
Init ==
  /\ handle = "none" /\ localPort = 0
  /\ checkV6First = FALSE /\ askOther = FALSE
  /\ open = [f \in Families |-> FALSE] /\ hasError = [f \in Families |-> FALSE]
  /\ waiting = [f \in Families |-> 0] /\ acceptIn = [f \in Families |-> 0]
  /\ acceptOp = [f \in Families |-> "idle"]
  /\ backlog = [f \in Families |-> <<>>] /\ boundTo = [f \in Families |-> 0]
  /\ arrived = 0 /\ accepted = <<>> /\ aborted = {} /\ errors = 0
  /\ passedOver = [f \in Families |-> 0] /\ cameLate = [f \in Families |-> FALSE]

Next ==
  \/ \E port \in Ports \cup {0} : Listen(port)
  \/ AskFirst \/ AskOther \/ Destroy
  \/ \E f \in Families : Connect(f) \/ OsAccept(f) \/ HandleAccept(f)

(* The butler runs its handlers; the OS hands over what is in the backlog  *)
(* and aborts the accept of a closed acceptor.                             *)
Fairness ==
  \A f \in Families : WF_vars(HandleAccept(f)) /\ WF_vars(OsAccept(f))

Spec == Init /\ [][Next]_vars
FairSpec == Spec /\ Fairness
----------------------------------------------------------------------------
TypeOK ==
  /\ handle \in {"none", "held", "released"}
  /\ open \in [Families -> BOOLEAN] /\ hasError \in [Families -> BOOLEAN]
  /\ acceptOp \in [Families -> {"idle", "pending", "done", "failed"}]
  /\ waiting \in [Families -> Nat] /\ acceptIn \in [Families -> Nat]
  /\ checkV6First \in BOOLEAN /\ askOther \in BOOLEAN /\ localPort \in Ports \cup {0}
  /\ boundTo \in [Families -> Ports \cup {0}]
  /\ backlog \in [Families -> Seq(Nat)]
  /\ arrived \in Nat /\ errors \in Nat /\ aborted \subseteq Nat
  /\ accepted \in Seq([id : Nat, family : Families])
  /\ passedOver \in [Families -> Nat] /\ cameLate \in [Families -> BOOLEAN]

(* An open acceptor is never deaf: with no connection waiting there is an  *)
(* accept whose handler will provide one, whatever errors came before.     *)
KeepsListening ==
  handle = "held" =>
    \A f \in Families : open[f] /\ waiting[f] = 0 => acceptOp[f] # "idle"

(* Each connection is in one place: in the backlog, at an accept, waiting, *)
(* handed out or closed; and those of one family are handed out in the     *)
(* order they arrived.                                                     *)
Places(id) ==
  {<<"backlog", f>> : f \in {g \in Families : \E i \in DOMAIN backlog[g] : backlog[g][i] = id}}
    \cup {<<"op", f>> : f \in {g \in Families : acceptIn[g] = id}}
    \cup {<<"waiting", f>> : f \in {g \in Families : waiting[g] = id}}
    \cup {<<"accepted", i>> : i \in {j \in DOMAIN accepted : accepted[j].id = id}}
    \cup {<<"aborted", id>> : i \in aborted \cap {id}}
NoneLost ==
  /\ \A id \in 1..arrived : Cardinality(Places(id)) = 1
  /\ \A i, j \in DOMAIN accepted :
       i < j /\ accepted[i].family = accepted[j].family => accepted[i].id < accepted[j].id

(* A waiting connection is passed over at most once in favour of the other *)
(* family, however many arrive there; twice when it came in the middle of  *)
(* a call of accept that had found its family empty.                       *)
TakesTurns == \A f \in Families : passedOver[f] <= IF cameLate[f] THEN 2 ELSE 1

(* Every open acceptor listens on the port that is reported.               *)
ListensOnLocalPort ==
  handle = "held" => \A f \in Families : open[f] => boundTo[f] = localPort

(* A connection in the backlog gets to the client's reach.                 *)
BecomesAvailable ==
  \A f \in Families :
    backlog[f] # <<>> ~> (waiting[f] # 0 \/ backlog[f] = <<>> \/ handle = "released")
=============================================================================
