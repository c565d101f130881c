------------------------------ MODULE Library ------------------------------
(***************************************************************************)
(* The library as a whole: faucet/Asio.cpp, and of socketApi.cpp           *)
(* dllStartup, dllShutdown, the default UDP socket, and the calls that     *)
(* create and destroy objects while handlers run.                          *)
(*                                                                         *)
(* Two threads: the client (the game, one API call at a time) and the      *)
(* butler, which runs io_service::run().  What an object does is in the    *)
(* modules of its class; here an operation is outstanding or not, and a    *)
(* handler begins, holds its object's mutex, and ends, with any client     *)
(* step in between that needs no mutex it holds.                           *)
(*                                                                         *)
(* Objects are shared_ptrs: an object exists while the handle map, the     *)
(* default socket's pointer, a handler or the butler refers to it, and is  *)
(* destroyed with the last of these.  An io_service is known by its        *)
(* generation, 1 for that of the first dllStartup; the default socket of a *)
(* generation g is object -g.                                              *)
(***************************************************************************)
EXTENDS HandleMap

CONSTANT MaxServices     \* bound: dllStartup calls that create an io_service

ASSUME ServicesAssumption == MaxServices \in Nat
ASSUME AcceptedAssumption == "acceptor" \in Kinds => "tcp" \in Kinds

VARIABLES
  ioService,         \* Asio::ioService: its generation, 0 if there is none
  work,              \* Asio::work: run() does not return for lack of work
  stopped,           \* io_service::stop() has been called
  butler,            \* "none", "looping" (in run()) or "returned" (from it)
  defaultUdpSocket,  \* 0 if there is none
  outstanding,       \* operations started, whose handlers have not been called
  running,           \* the handler the butler is in
  shutdownAt,        \* where the client is in dllShutdown
  \* history
  generation,        \* io_services ever created
  serviceOf          \* of each object, the generation it was created in

asioVars == <<ioService, work, stopped, butler, generation>>
opVars == <<outstanding, running>>
libraryVars == <<vars, asioVars, opVars, defaultUdpSocket, shutdownAt, serviceOf>>

NoHandler == <<0, "none">>
----------------------------------------------------------------------------
(* Operations.  An acceptor's "accept" stands for those of its two         *)
(* TcpAcceptors, a UDP socket's "receive" for those on its two OS sockets, *)
(* "connect" and "send" for the lookup that comes before as well.          *)
OpsOf(kind) ==
  CASE kind = "tcp"      -> {"connect", "send", "read"}
    [] kind = "acceptor" -> {"accept"}
    [] kind = "udp"      -> {"send", "receive"}
    [] kind = "lookup"   -> {"resolve"}
    [] OTHER             -> {}

(* The operations a constructor may leave outstanding: one that failed, or *)
(* has its result at once, leaves none.                                    *)
OpsAtCreation(kind) ==
  CASE kind = "tcp"      -> {{}, {"connect"}}
    [] kind = "acceptor" -> {{}, {"accept"}}
    [] kind = "udp"      -> {{}, {"receive"}}
    [] kind = "lookup"   -> {{}, {"resolve"}}
    [] OTHER             -> {{}}

(* ... and those its handler may start.                                    *)
OpsAfter(op) ==
  CASE op = "connect" -> {{}, {"connect"}, {"send"}}
    [] op = "send"    -> {{}, {"send"}}
    [] op = "accept"  -> {{}, {"accept"}}
    [] op = "receive" -> {{"receive"}}
    [] OTHER          -> {{}}

On(object, ops) == {object} \X ops

(* handleReceive of UdpSocket is bound to a weak_ptr, every other handler  *)
(* to a shared_ptr.                                                        *)
Weak(handler) == handler[2] = "receive"

Holds(handler) == handler # NoHandler      \* once weak_ptr::lock() has succeeded

Exists(object) ==
  \/ \E h \in Live : content[h] = object
  \/ object # 0 /\ object = defaultUdpSocket
  \/ \E handler \in outstanding : handler[1] = object /\ ~Weak(handler)
  \/ running[1] = object /\ Holds(running)

(* The running handler has its object's commonMutex_ or socketMutex_.      *)
Locked(object) == running[1] = object

Outstanding(object, op) ==
  <<object, op>> \in outstanding \cup {running}

(* An operation is started unless one of its kind is outstanding.          *)
Started(object, ops) ==
  On(object, {op \in ops : ~Outstanding(object, op)})
----------------------------------------------------------------------------
(* The client.  Every method called here takes the object's mutex.         *)
ClientMay == shutdownAt = "no"

StartingOnly(handlers) ==
  /\ outstanding' = outstanding \cup handlers
  /\ UNCHANGED <<running, asioVars, shutdownAt>>

(* tcp_connect, tcp_listen, udp_bind, ip_lookup_create, buffer_create:     *)
(* without an io_service all but the last throw.                           *)
Create(kind) ==
  /\ ClientMay
  /\ kind # "buffer" => ioService # 0
  /\ Allocate(kind)
  /\ serviceOf' = Append(serviceOf, IF kind = "buffer" THEN 0 ELSE ioService)
  /\ \E ops \in OpsAtCreation(kind) :
       StartingOnly(On(Len(handleOf) + 1, ops))
  /\ UNCHANGED defaultUdpSocket

(* socket_accept with a connection waiting: a new socket, and the acceptor *)
(* accepts the next one.                                                   *)
Accept(h) ==
  /\ ClientMay
  /\ Found(h, {"acceptor"})
  /\ ~Locked(content[h]) /\ ~Outstanding(content[h], "accept")
  /\ Allocate("tcp")
  /\ serviceOf' = Append(serviceOf, ioService)
  /\ \E ops \in {{}, {"send"}} :
       StartingOnly(On(Len(handleOf) + 1, ops) \cup On(content[h], {"accept"}))
  /\ UNCHANGED defaultUdpSocket

(* socket_send, tcp_receive, udp_send: a TCP socket starts nothing while   *)
(* it is connecting.                                                       *)
StartOperation(h) ==
  /\ ClientMay
  /\ Found(h, {"tcp", "udp"})
  /\ ~Locked(content[h]) /\ ~Outstanding(content[h], "connect")
  /\ \E op \in OpsOf(kindOf[content[h]]) \ {"connect", "receive"} :
       StartingOnly(Started(content[h], {op}))
  /\ UNCHANGED <<vars, serviceOf, defaultUdpSocket>>

(* udp_send and udp_broadcast on a buffer: the default socket is bound by  *)
(* the first such call, to be kept whether or not that succeeds, and then  *)
(* sends; an address none of its OS sockets can send to leaves nothing     *)
(* outstanding.                                                            *)
SendFromBuffer(h) ==
  /\ ClientMay
  /\ Found(h, {"buffer"})
  /\ IF defaultUdpSocket = 0
     THEN /\ ioService # 0
          /\ defaultUdpSocket' = -ioService
          /\ \E ops \in SUBSET {"send", "receive"} :
               StartingOnly(On(-ioService, ops))
     ELSE /\ ~Locked(defaultUdpSocket)
          /\ \E ops \in SUBSET {"send"} :
               StartingOnly(Started(defaultUdpSocket, ops))
          /\ UNCHANGED defaultUdpSocket
  /\ UNCHANGED <<vars, serviceOf>>

(* socket_destroy, buffer_destroy, ip_lookup_destroy.  disconnectAbortive, *)
(* send and the destructor of an acceptor wait for a handler of the object *)
(* to end; a graceful disconnect may start a send.                         *)
WaitsForHandler(object) == kindOf[object] \in {"tcp", "acceptor"}

DestroyObject(call, h) ==
  /\ ClientMay
  /\ Destroy(call, h)
  /\ WaitsForHandler(content[h]) => ~Locked(content[h])
  /\ \E ops \in SUBSET {"send"} :
       /\ ops # {} => kindOf[content[h]] = "tcp"
                      /\ ~Outstanding(content[h], "connect")
       /\ StartingOnly(Started(content[h], ops))
  /\ UNCHANGED <<serviceOf, defaultUdpSocket>>
----------------------------------------------------------------------------
(* dllStartup, and Asio::startup; while there is an io_service it has no   *)
(* effect here.                                                            *)
NoWorkAtStartup == FALSE
WorkAtStartup == TRUE

Startup ==
  /\ ClientMay /\ ioService = 0 /\ generation < MaxServices
  /\ generation' = generation + 1
  /\ ioService' = generation'
  /\ work' = WorkAtStartup /\ stopped' = FALSE /\ butler' = "looping"
  /\ UNCHANGED <<vars, opVars, defaultUdpSocket, shutdownAt, serviceOf>>

(* dllShutdown, without apiMutex: defaultUdpSocket.reset(), ...            *)
DefaultReset == 0

ResetDefault ==
  /\ ClientMay
  /\ defaultUdpSocket' = DefaultReset
  /\ shutdownAt' = "release"
  /\ UNCHANGED <<vars, asioVars, opVars, serviceOf>>

(* ... handles.releaseAll(), where destructors of acceptors wait for their *)
(* handler, ...                                                            *)
ReleaseHandles ==
  /\ shutdownAt = "release"
  /\ \A h \in Live : kindOf[content[h]] = "acceptor" => ~Locked(content[h])
  /\ ReleaseAll
  /\ shutdownAt' = IF ioService = 0 THEN "no" ELSE "work"
  /\ UNCHANGED <<asioVars, opVars, defaultUdpSocket, serviceOf>>

(* ... and Asio::shutdown(): delete work, ...                              *)
DeleteWork ==
  /\ shutdownAt = "work"
  /\ work' = FALSE /\ shutdownAt' = "stop"
  /\ UNCHANGED <<vars, ioService, stopped, butler, generation, opVars,
                 defaultUdpSocket, serviceOf>>

(* ... ioService->stop(), ...                                              *)
StopsNot == stopped
Stops == TRUE

StopService ==
  /\ shutdownAt = "stop"
  /\ stopped' = Stops /\ shutdownAt' = "join"
  /\ UNCHANGED <<vars, ioService, work, butler, generation, opVars,
                 defaultUdpSocket, serviceOf>>

(* ... butler->join() and delete ioService, which destroys the handlers it *)
(* still has, and the objects they hold, without calling them.             *)
JoinedAnyway == butler # "none"
Joined == butler = "returned"

DeleteService ==
  /\ shutdownAt = "join" /\ Joined
  /\ ioService' = 0 /\ stopped' = FALSE /\ butler' = "none"
  /\ outstanding' = {}
  /\ shutdownAt' = "no"
  /\ UNCHANGED <<vars, work, generation, running, defaultUdpSocket, serviceOf>>
----------------------------------------------------------------------------
(* The butler, in run(), calls the handler of any operation that the OS    *)
(* has ended, or aborted with its closed socket.  A handler whose weak_ptr *)
(* finds no object returns at once.                                        *)
BeginHandler(handler) ==
  /\ butler = "looping" /\ ~stopped /\ running = NoHandler
  /\ handler \in outstanding
  /\ outstanding' = outstanding \ {handler}
  /\ running' = IF Weak(handler) /\ ~Exists(handler[1]) THEN NoHandler ELSE handler
  /\ UNCHANGED <<vars, asioVars, defaultUdpSocket, shutdownAt, serviceOf>>

EndHandler ==
  /\ running # NoHandler
  /\ \E ops \in OpsAfter(running[2]) :
       outstanding' = outstanding \cup On(running[1], ops)
  /\ running' = NoHandler
  /\ UNCHANGED <<vars, asioVars, defaultUdpSocket, shutdownAt, serviceOf>>

(* run() returns when it is stopped, or has nothing left to wait for.      *)
ButlerReturns ==
  /\ butler = "looping" /\ running = NoHandler
  /\ stopped \/ (~work /\ outstanding = {})
  /\ butler' = "returned" /\ stopped' = TRUE
  /\ UNCHANGED <<vars, ioService, work, generation, opVars, defaultUdpSocket,
                 shutdownAt, serviceOf>>
----------------------------------------------------------------------------
LibraryInit ==
  /\ Init
  /\ ioService = 0 /\ work = FALSE /\ stopped = FALSE /\ butler = "none"
  /\ defaultUdpSocket = 0 /\ outstanding = {} /\ running = NoHandler
  /\ shutdownAt = "no" /\ generation = 0 /\ serviceOf = <<>>

Client ==
  \/ \E kind \in Kinds : Create(kind)
  \/ \E h \in Handles : Accept(h) \/ StartOperation(h) \/ SendFromBuffer(h)
  \/ \E call \in Calls, h \in Handles : DestroyObject(call, h)
  \/ Startup \/ ResetDefault

Shutdown == ReleaseHandles \/ DeleteWork \/ StopService \/ DeleteService

Butler ==
  \/ \E handler \in outstanding : BeginHandler(handler)
  \/ EndHandler \/ ButlerReturns

LibraryNext == Client \/ Shutdown \/ Butler

(* The butler goes on with its loop and its handlers end; dllShutdown goes *)
(* on, and gets a mutex that is free again and again.  Nothing makes the   *)
(* OS end an operation, or the game call.                                  *)
LibraryFairness ==
  /\ WF_libraryVars(EndHandler) /\ WF_libraryVars(ButlerReturns)
  /\ SF_libraryVars(ReleaseHandles)
  /\ WF_libraryVars(DeleteWork \/ StopService \/ DeleteService)

LibrarySpec == LibraryInit /\ [][LibraryNext]_libraryVars
LibraryFairSpec == LibrarySpec /\ LibraryFairness
----------------------------------------------------------------------------
Objects == 1..Len(handleOf) \cup {-g : g \in 1..generation}
ServiceOf(object) == IF object < 0 THEN -object ELSE serviceOf[object]
NeedsService(object) == object < 0 \/ kindOf[object] # "buffer"

(* Lifetimes nest.  The io_service an object was made with is there as     *)
(* long as the object, whose sockets, acceptors and resolver belong to it, *)
(* across dllShutdown and a later dllStartup too; and no handler runs but  *)
(* in the io_service of its object, with whatever the game destroys or     *)
(* shuts down meanwhile.                                                   *)
LifetimesNest ==
  /\ \A object \in Objects :
       Exists(object) /\ NeedsService(object) =>
         ioService # 0 /\ ServiceOf(object) = ioService
  /\ running # NoHandler => ioService # 0 /\ ServiceOf(running[1]) = ioService

(* From dllStartup until dllShutdown the butler waits for handlers to run, *)
(* also when for a time no operation is outstanding: what the game starts  *)
(* later has someone to end it (Asio::work).                               *)
AlwaysServed ==
  ioService # 0 /\ shutdownAt = "no" => butler = "looping" /\ ~stopped

(* dllShutdown returns, although operations that never end, such as an     *)
(* accept, are outstanding and handlers go on starting new ones.           *)
ShutdownReturns == shutdownAt # "no" ~> shutdownAt = "no"
----------------------------------------------------------------------------
(* The inductive invariant behind LifetimesNest and AlwaysServed.          *)

Belongs(object) ==
  /\ ioService # 0
  /\ \/ object = -ioService
     \/ /\ object \in 1..Len(handleOf)
        /\ kindOf[object] # "buffer" /\ serviceOf[object] = ioService

(* Whatever refers to an object that needs an io_service, or waits for one *)
(* of its operations, goes when that io_service does.                      *)
OwnerInv ==
  /\ generation \in Nat /\ ioService \in {0, generation}
  /\ Len(serviceOf) = Len(handleOf) /\ serviceOf \in Seq(Nat)
  /\ defaultUdpSocket \in {0, -ioService}
  /\ \A handler \in outstanding : Belongs(handler[1])
  /\ running # NoHandler => Belongs(running[1])
  /\ \A h \in Live : kindOf[content[h]] # "buffer" => Belongs(content[h])

(* How far dllShutdown has got, and with it the butler.                    *)
ThreadInv ==
  /\ shutdownAt # "no" => defaultUdpSocket = 0
  /\ shutdownAt \in {"work", "stop", "join"} => Live = {}
  /\ ioService # 0 /\ shutdownAt \in {"no", "release"} =>
       work /\ ~stopped /\ butler = "looping"
  /\ butler # "looping" => running = NoHandler

ServiceInv == OwnerInv /\ ThreadInv
=============================================================================
