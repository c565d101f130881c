# Verification of Faucet Networking

Faucet Networking is an extension for Game Maker that gives games asynchronous
TCP and UDP sockets, buffers and host lookups. A game calls the functions of
`faucet/socketApi.cpp` from one thread and never blocks; a second thread (the
"butler", which runs boost::asio's io_service) does the networking and reports
back through shared objects. This directory holds TLA+ modules of that program,
the TLC configurations that check them, and proofs checked by TLAPS.

Paths of sources below are relative to the repository, `src/faucet/` being the
code of the library.

## 1. Inventory

### Actors and locks

| Actor | What it does |
|---|---|
| client | the game's thread; every API function holds `apiMutex` from start to end |
| butler | `io_service::run()` in `Asio.cpp`; runs one completion handler after the other |
| OS | completes lookups, connects, accepts, sends, receives, and closes |
| peer | sends, shuts its side down, resets, connects, sends datagrams |

A TcpSocket, UdpSocket or IpLookup protects its state with `commonMutex_`, a
TcpAcceptor with `socketMutex_` (and its error text with `errorMutex_`). Locks
are always taken in the order apiMutex, commonMutex_ or socketMutex_,
errorMutex_, and no handler takes apiMutex, so the locks themselves cannot
deadlock. What can go wrong is what happens *between* two critical sections: an
operation is complete, its handler has not run, and the client calls something;
or a handler runs in the middle of a function that forgot the lock.

### Components

| Component (source) | State | Operations | Talks to | Hard about it; what must hold |
|---|---|---|---|---|
| **TcpSocket** (`tcp/TcpSocket.*`, `tcp/connectionStates/*`) | current state object, error message, OS socket, send buffer, partial and client receive buffers, one send, one read, one lookup or connect in flight, per state object an abort flag | constructors, write, send, receive, isEof, limits, options, disconnect; handlers of resolve, connect, send, receive | SendBuffer, V4FirstIterator, Asio, Buffer | handlers that arrive after the state has changed; sends that nobody starts; bytes in three receive places; life until the last handler. Byte streams whole and in order, no stalled send, closed is final, destroying drains |
| **SendBuffer** (`tcp/SendBuffer.hpp`) | list of blocks, first index, free space, end pointer, committed count | push, commit, pop, buffer sequence | an async_send reads its memory from another thread | block boundaries, memory stable under a running send, FIFO |
| **V4FirstIterator** | two cursors over one list | hasNext, next | TcpConnecting, UdpSocket | each endpoint once, IPv4 first |
| **fct_async_resolve** (`resolve.hpp`) | none | resolve at once or later | the two above, IpLookup | the handler may run within the call |
| **UdpSocket** (`udp/UdpSocket.*`) | two OS sockets, send and receive queue, send buffer, one send in flight, one reception per socket | bind, write, send, broadcast, receive, close, limit; handlers of resolve, send, receive | DatagramQueue, V4FirstIterator | the queue at its limit, recursion through handlers, the unlocked setSendbufferLimit, weak pointers. Lossy FIFO, no stalled datagram, never deaf, losses reported |
| **DatagramQueue** (`udp/DatagramQueue.hpp`) | items, memory used, limit | push, pop, clear, set limit | UdpSocket | accounting, wrapping size_t, keeps the newest |
| **TcpAcceptor, CombinedTcpAcceptor** | per family an accept in flight and a waiting connection; whose turn it is; the port | listen, accept, destroy; handler | TcpSocket takes the connection | one waiting slot for two threads, errors, fairness between families, a random port shared by two families |
| **HandleMap** (`HandleMap.hpp`) | map, next handle | allocate, find, release, releaseAll | all API functions | 32 bit counter wraps among live objects; stale handles |
| **IpLookup** | result iterator, next address, complete flag | lookup, ready, hasNext, nextResult; handler | fct_async_resolve | polling across calls; must become ready on errors too |
| **Buffer, ReadWritable** | bytes, read position, byte order | append, read, skip, copy | every reader and writer | copying onto itself, ends, clipping |
| **HexCodec, Base64Codec** | none | validate, decode, encode | Buffer | padding, chunked output, all or nothing |
| **socketApi** | handle map, default UDP socket, return string | the exported functions | everything | order of disconnect and release; dllShutdown takes no apiMutex and runs beside handlers; the default socket is made by the first call that needs it |
| **Asio** | io_service, its work object and thread | startup, shutdown | everything | stop with handlers pending, start again. No object outlives its io_service, the thread serves until shutdown, shutdown returns |
| String return buffer, MAC and broadcast addresses, interfaces, Game Maker package | | | | no state that interacts; not modelled |

The hazards, each at the line where it bites and with the properties that
cover it, are in `PROJECT.json`.

## 2. Modules and how they correspond to the code

| Module | Models | Composed by |
|---|---|---|
| `V4FirstIterator` | the two cursor iterator, as operators | TcpSocket, UdpSocket (EXTENDS) |
| `TcpSocket` | a TcpSocket with TcpConnecting, TcpConnected, TcpClosed | MCTcpSocket, TcpSocketProofs |
| `SendBuffer` | SendBuffer, and TcpConnected's use of it | implements `ByteQueue`; SendBufferProofs |
| `ByteQueue` | abstract: what a buffer of bytes to send promises | |
| `DatagramQueue` | the queue, as operators | UdpSocket (EXTENDS); UdpSocketProofs has its lemmas |
| `UdpSocket` | a UdpSocket, both directions | implements `LossyFifo` |
| `LossyFifo` | abstract: what sending datagrams promises | |
| `TcpAcceptor` | CombinedTcpAcceptor and its two TcpAcceptors | |
| `HandleMap` | the map with the API's create and destroy calls | Library (EXTENDS) |
| `Library` | Asio, dllStartup and dllShutdown, the default UDP socket, and the objects' lives while handlers run | implements `HandleMap` |
| `IpLookup` | a lookup | |
| `Codecs` | hex and base64, as operators | Buffer (EXTENDS) |
| `Buffer` | buffers with the read and write functions | MCBuffer, BufferProofs |
| `MC*` | finite values for TLC | the `.cfg` files |
| `Lemmas` | least elements, induction on numbers and folds, products and quotients | the proof modules that need them |
| `*Proofs` | theorems about the module named, and about the modules it uses, see section 5 | |

Conventions of all state modules:

* A method or handler that runs under the object's mutex is one action, with
  all it calls: `HandleSend` pops, and starts the next send or enters the error
  state. `UdpSocket!AsyncSend` takes a whole run of undeliverable datagrams,
  because in the code that is one recursion under one lock.
  `CombinedTcpAcceptor::accept` holds the lock of one family at a time, so it is
  two steps, `AskFirst` and `AskOther`, with the butler's between them. A client
  call is not followed by another before it has returned.
* An asynchronous operation `op` is `idle`, `pending` (the OS works on it), or
  has a result for which the handler has not run yet. Completing it (`Os...`)
  and handling it (`Handle...`) are two steps, and the client may do anything
  between them. Starting it may set the result at once, as when async_connect
  cannot open a socket.
* Object lifetime: handlers hold shared pointers, those of UDP receptions weak
  ones, so an object lives while `Referenced` or `Alive` holds,
  and the step that drops the last reference closes its OS socket
  (`SocketAfter`, `OpenWhileAlive`).
* Outgoing TCP bytes are counted in `TcpSocket`, and have identities in
  `SendBuffer`, which checks their order in memory. Incoming bytes are numbered,
  0 stands for the room `startAsyncReceive` inserts before a read fills it.
* Variables under "history" exist for the properties only; no action reads them
  except to stay within a bound.

Some definitions are kept next to a variant that no action uses
(`PopTransferredTwice`, `CrowdedIfOver`, ...). Such a variant is a plausible
mistake in that piece of code, and `PROJECT.json` names the property that finds it
when it is put in the place of the definition; every property has one.

### The parts of TcpSocket

`state` is the current state object; `connectingAbort` and `connectedAbort` are
`abortRequested` of the two objects that have such a flag. `EnterClosed` is
"abort the current state object and make tcpClosed_ current"; it sets the flag
of the object it leaves. `EnterError` adds TcpClosed's rule that the first
message stays. `HandleReceive` does not look at the flag, exactly as
`TcpConnected::handleReceive` does not; the invariants hold nevertheless,
because closing twice is harmless. `peer` is what the remote end did; `fin` leaves
our sending direction working, `reset` makes every OS call fail.

### The parts of UdpSocket

`setSendbufferLimit` takes no lock. It is the only operation split into its
loads and stores: `LimitBegin` (store the limit), `LimitTest` (the loop's condition
and pop's loads), `LimitStore` (store `memSize_`), `LimitPop` (pop_front). Of the
undefined behaviour of this race the model has the lost update of `memSize_`
(`LimitReturns`) and the pop_front of an empty deque (`wreck = "crashed"`). What
two simultaneous pop_fronts do inside the deque is left out.

### The parts of Library

What an object does is in the module of its class; here it has operations
(`OpsOf`) that are outstanding or not. A handler *begins* (`BeginHandler`), then
has its object's mutex (`Locked`), and *ends* (`EndHandler`), with client steps in
between: this is the one module in which a handler is not atomic, because
dllShutdown and destructors run beside it. `Exists` is the count of shared
pointers, by who holds one: handle map, `defaultUdpSocket`, an operation, the
running handler. That each handler is bound to a shared pointer of its object is
therefore part of this definition, read off the code, and nothing the runs test. dllShutdown takes no apiMutex but is called by the client's only
thread; its statements are the actions `ResetDefault`, `ReleaseHandles`,
`DeleteWork`, `StopService` and `DeleteService`, in the order `shutdownAt` gives.
An io_service is known by its generation, so that an object of an earlier one
can be told from those of the next.

## 3. What the runs check

States are distinct states.

| Run | States | What it shows |
|---|---|---|
| `tcp_stream` | 663,541 | An accepted connection with every interleaving of writes, sends, receives of 0 to 2 bytes, limits, destruction, handlers, partial transfers, FIN and RST. `ReceiveStream`: bytes delivered are the peer's, in order, no placeholder. `SendStream`: each byte is in the buffer or with the OS, and no pop exceeds what was committed. `NoStalledSend`: committed bytes always have a send whose handler looks again. `ClosedIsFinal`, `EofFinal`: the end is the end. `ReadTargetStable`: the vector async_read writes into is not resized under it. |
| `tcp_life` | 173,059 | All four constructors, endpoint lists of one to three entries, failures anywhere, abort and destruction at any time, fair butler and OS. `FallbackOrder`, `ClosedIsClosed`, `NoDelayKept` (the connected OS socket has the value that tcp_set_nodelay last returned true for, refusals by the OS included); liveness `GracefulDrain` (destroying gracefully gets everything written to the OS), `CloseAfterRelease`, `OperationsSettle`. |
| `tcp_destroy_sends` | | Finding 1. |
| `udp_send` | 311,680 | `SendsInOrder`: the socket implements `LossyFifo`, with `pending` the datagrams in the queue and in flight, the race on the limit included. `NoStalledDatagram`, `QueuesAccounted`, `DiscardReported`, `GivesUpOnlyAfterAll` (straight after the lookup too, with the family that has no socket passed over), liveness `ReleasedDies`. |
| `udp_receive` | 706,545 | `AlwaysListening`, `DeliveredInOrder`, `NewestKept` (a new datagram pushes out as few as it can, against an independent definition). |
| `udp_limit_returns` | | Finding 2. |
| `acceptor` | 216,023 | `NoneLost`: a connection is in exactly one of backlog, accept, waiting slot, client, closed. `KeepsListening`; `TakesTurns`: a waiting connection is passed over at most once, twice if it came when a call had already found its family empty; `ListensOnLocalPort`, liveness `BecomesAvailable`. |
| `send_buffer` | 2,002 | `RegionsStable`: the memory given to async_send is allocated, unchanged and in order until its handler pops it. `ImplementsByteQueue`: the block list is a byte queue. |
| `library` | 739,567 | Objects of four kinds made, used and destroyed while handlers run, the default socket, dllShutdown at any point, a second dllStartup. `StillFound`: a live object is found by its handle although the counter wraps. `NoEarlyReuse`: a stale handle names nothing for as long as can be. `LifetimesNest`: no object outlives its io_service, and a handler runs in the io_service its object belongs to. `AlwaysServed`: until dllShutdown there is a thread in run(). `ShutdownReturns`: dllShutdown comes to its end, whatever is outstanding. |
| `ip_lookup` | 209 | `ResultsInOrder` for any client that polls, `BecomesReady`. |
| `buffer` | 47,076 | `WrittenAsMeant`, `ReadAsStored`: numbers, strings, files, hex and base64 against definitions of what they mean. `CopiedWhole`: copying, onto itself too. `ReadposWithin`: no read position leaves its buffer. |
| `base64_padding` | | Finding 3. |

### Bounds, and why they are enough

* **TCP.** Two bytes to send are enough for a partial transfer, for a commit
  during a send, and for uncommitted bytes behind committed ones; three peer bytes
  with requests up to two give a partial buffer that is filled, part delivered and
  filled again. `MaxPeerBytes` is 0 in `tcp_life`, which is about control.
  Three endpoints in the order v6, v4, v6 are the shortest list on which both
  cursors skip. The cfg's `NoLimit` of 9 is more than can be written.
* **UDP.** The limit is four units, the overhead of an item one, payloads up to
  two (four when receiving), so that a queue holds one to four datagrams, a push
  discards none, one or several, and some never fit. `SizeWrap` is larger than any
  sum of sizes, and a subtraction below zero wraps as in the code. Sending and
  receiving share only the object's life, so each run leaves the other
  direction idle (`MaxArrivals = 0`, `Hosts = {}`), which bounds the product.
* **Acceptor.** Four connections over two families with one failed accept: a
  waiting one, one at an accept and one behind it in the backlog, on one
  family, while the other is served. Three are enough to pass one over twice: one
  that comes between the two questions of a call, and one of the other family
  for that call and for the next.
* **SendBuffer.** `BUFFER_SIZE` is 3 instead of 65,536; pushes of 0 to 7 bytes
  are empty, within, up to, across and over two blocks.
* **Library.** Handles of three values, of which 0 is not used, instead of 2^32,
  and three objects: the third is made when the counter has wrapped, beside a
  live object or not. An acceptor with a socket it has accepted and one more
  object is the largest composition whose lives depend on each other; what
  handles do with more objects is proved. Two io_services are a restart. The
  code's loop in `allocate` would not end with all handles in use; memory
  ends first.
* **Buffer.** Bytes have 16 values instead of 256: `Quarter`, the number of
  values of two bits, is 2 instead of 4, so that a byte is still four quarters,
  two nibbles or one and a third sextets. Output and copying buffers hold 2
  bytes instead of 2,048 and 4,096, so that texts of six characters flush them.
  All texts of up to four characters over representatives of each class, and
  some longer, are written to empty and non-empty buffers. Numbers to write are
  given in halves, so that rounding meets the midpoint between two
  numbers and the border of a type. The two buffers are
  interchangeable (SYMMETRY), and `result`, `call` are outputs no
  action reads (VIEW); action properties are checked on each step all the same.

`CHECK_DEADLOCK FALSE` stands in the configurations because these
behaviours really stop: an object that was destroyed and whose handlers have run
does nothing more, and behaviours end at their bounds.

### Fairness

`FairSpec` says: the io_service thread runs every handler that is ready (weak
fairness of each `Handle...`, justified by the loop in `Asio.cpp`, whose
io_service is kept running by a work object); the OS ends each lookup and each
connection attempt, moves bytes of a send or receive it can move, and aborts the
operations of a closed socket (`Os...`); a client call that has begun is
finished (`ReleaseHandle` after the disconnect, the loop of
setSendbufferLimit; the statements of dllShutdown). Weak fairness is enough, as
once enabled these stay enabled until they happen, with one exception:
`ReleaseHandles` waits for an acceptor's mutex, which handlers take again and
again, so its fairness is strong (a thread that waits for a mutex that is free
infinitely often gets it). `Library` asks nothing of the OS: `ShutdownReturns`
holds with operations that never end. Nothing makes the client call anything, or the peer send,
read or close. `GracefulDrain` relies on a peer that takes data, as `OsSend`
always does in the end; with a peer that never reads, a destroyed socket stays.

## 4. Findings

1. **A destroyed socket may not send what it has** (`tcp_destroy_sends`).
   By `socketApi.cpp:195`, a graceful disconnect just lets the object die after
   making "sure that everything left in the send buffer is committed". If a `tcp_receive` read is going on in
   the background when the game destroys the socket, and the peer then shuts down
   *its* sending direction, `TcpConnected::handleReceive` takes the end of the
   stream for an error and closes the OS socket, discarding bytes not yet sent.
   `GracefulDrain` is what does hold: without a background read, all is sent.
2. **`socket_sendbuffer_limit` of a UDP socket may never return**
   (`udp_limit_returns`). `UdpSocket::setSendbufferLimit` (`UdpSocket.cpp:152`)
   takes no lock. When the butler pops in between its read and its write of
   `memSize_`, the butler's update is lost, the queue runs empty with
   `memSize_` above the limit, and the loop in `DatagramQueue::setMemSizeLimit` goes on
   for ever.
3. **A misplaced base64 padding is accepted** (`base64_padding`).
   `Base64Codec.hpp:111` returns -3 from a function of type bool, which is true.

Noticed in the code while modelling, without a run of their own:

* `ConnectionState.hpp:33` says that after `abort()` a state object takes no action
  that would change the socket; `TcpConnected::handleReceive` still enters the error state
  (`TcpConnected.cpp:165`). Harmless, as `ClosedIsFinal` shows.
* A released socket with a background read and a peer that neither sends nor
  closes is never closed (`socketApi.cpp:194`); `CloseAfterRelease` excludes it.
* `socket_sendbuffer_limit` bounds a UDP socket's queue, not its send buffer.
* `CombinedTcpAcceptor::getLocalPort` (line 96) gives a port even when the
  acceptor has an error.
* The Base64 table is indexed with a plain char and its last entry is not
  initialised; characters outside ASCII are left out of the model.

## 5. What is proved

All proofs hold for every value of the constants that their named assumptions
allow: no bound on bytes, endpoints, limits or handles matters.

| Theorem | Says |
|---|---|
| `TcpSocketProofs!TypeCorrect` | `Spec => []TypeOK` |
| `TcpSocketProofs!SendSafe` | `Spec => []SendStream` |
| `TcpSocketProofs!SendNeverStalls` | `Spec => []NoStalledSend` |
| `TcpSocketProofs!ClosedSafe` | `Spec => []ClosedIsClosed` |
| `TcpSocketProofs!ClosedForGood` | `Spec => ClosedIsFinal` |
| `TcpSocketProofs!StreamDelivered` | `Spec => []ReceiveStream` |
| `TcpSocketProofs!EofForGood` | `Spec => EofFinal` |
| `TcpSocketProofs!TargetKept` | `Spec => ReadTargetStable` |
| `TcpSocketProofs!OptionReachesSocket` | `Spec => []NoDelayKept` |
| `TcpSocketProofs!FallsBackInOrder` | `Spec => []FallbackOrder` |
| `UdpSocketProofs!TypeCorrect` | `Spec => []TypeOK` |
| `UdpSocketProofs!ImplementsLossyFifo` | `Spec => SendsInOrder`, the refinement |
| `UdpSocketProofs!NeverStalls` | `Spec => []NoStalledDatagram` |
| `UdpSocketProofs!DiscardTold` | `Spec => []DiscardReported` |
| `UdpSocketProofs!Accounting` | `Spec => []QueuesAccounted` |
| `UdpSocketProofs!AlwaysReceived` | `Spec => []AlwaysListening` |
| `UdpSocketProofs!Delivery` | `Spec => []DeliveredInOrder` |
| `UdpSocketProofs!KeepsNewest` | `Spec => NewestKept` |
| `UdpSocketProofs!GivesUpLate` | `Spec => GivesUpOnlyAfterAll` |
| `UdpSocketProofs!TransmitsInOrder` | `LossyFifo!Spec => []InOrder` |
| `UdpSocketProofs!SentInOrder` | `Spec => []Service!InOrder`, by the refinement |
| `SendBufferProofs!TypeCorrect` | `Spec => []TypeOK` |
| `SendBufferProofs!RegionsAlwaysStable` | `Spec => []RegionsStable` |
| `SendBufferProofs!KeepsQueue` | `Spec => ImplementsByteQueue`, the refinement |
| `TcpAcceptorProofs!NothingLost` | `Spec => []NoneLost` |
| `TcpAcceptorProofs!NeverDeaf` | `Spec => []KeepsListening` |
| `TcpAcceptorProofs!Fair` | `Spec => []TakesTurns` |
| `TcpAcceptorProofs!PortReported` | `Spec => []ListensOnLocalPort` |
| `IpLookupProofs!AllInOrder` | `Spec => []ResultsInOrder` |
| `LibraryProofs!TypeCorrect` | `Spec => []TypeOK`; no handle is ever 0 |
| `LibraryProofs!FoundUntilReleased` | `Spec => []StillFound` |
| `LibraryProofs!ReusedLate` | `Spec => []NoEarlyReuse` |
| `LibraryProofs!ImplementsHandleMap` | `LibrarySpec => Spec` of HandleMap |
| `LibraryProofs!FoundInLibrary`, `ReusedLateInLibrary` | `StillFound` and `NoEarlyReuse` of the library |
| `LibraryProofs!LifetimesAlwaysNest` | `LibrarySpec => []LifetimesNest` |
| `LibraryProofs!ServedUntilShutdown` | `LibrarySpec => []AlwaysServed` |
| `BufferProofs!BuffersStayOK` | `Spec => []BuffersOK`, the inductive invariant |
| `BufferProofs!ReadposStaysWithin` | `Spec => []ReadposWithin` |
| `BufferProofs!WritesMeanWhatTheySay` | `Spec => WrittenAsMeant` |
| `BufferProofs!ReadsReturnWhatIsStored` | `Spec => ReadAsStored` |
| `BufferProofs!CopiesAreWhole` | `Spec => CopiedWhole` |
| `BufferProofs!HexThere`, `Base64There` | decoding what was encoded gives the same bytes, for every length |
| `BufferProofs!DecodeIsMeaning` | the base64 decoder agrees with the reference on every text |
| `BufferProofs!RefusedIfInvalid` | `validate` refuses for an invalid character only, if no padding is misplaced |
| `BufferProofs!Nearest` | `clipped_cast` of `round` is the nearest number of the type |
| `BufferProofs!CopyAll` | the pieces of `write_buffer_part` are the whole |

The type invariants that are proved are not all checked by a run as well.

**TcpSocket.** None of the properties is inductive: that a handler does no harm
depends on who else can be in flight. The invariant is

    IInv == TypeOK /\ FlagInv /\ PhaseInv /\ KernelInv /\ ClosedIsClosed /\ SendInv

* `FlagInv`: an in-progress flag is set exactly while its one operation has not
  been handled, and only a completed send has moved bytes. Without it a second
  send could be started over the same bytes.
* `PhaseInv`: a handler of an object whose abort flag is not set finds that
  object current; there is no lookup or connect in a connected socket; reads
  exist only after connecting. This is why a late handler cannot leave `closed`
  or reopen the OS socket.
* `KernelInv`: what is read has arrived, so that the amounts of `receive` are
  numbers.
* `SendInv` is `SendStream /\ NoStalledSend`. Each of `transferred <= inFlight <=
  sendCommitted <= sendTotal` is needed to show that a pop keeps the others.

The proofs go part by part: types, control (`PhaseInv` and `ClosedIsClosed`, for
which every step either keeps the control state, closes the socket, or is one of
the few that connect), sending, receiving, each with a lemma for the client, the
butler, the system and the peer. `ClosedForGood` is the action property that
follows from `IInv`. The iterator's part (`SkipType`, `IteratorTypes`) rests on
the least element of a set of numbers.

Receiving, the option and the fallback need more, `FurtherInv`:

* `StreamInv`: what was delivered, followed by the filled part of
  `partialReceiveBuffer` (`Filled`), is the run of bytes taken from the kernel.
  `ReceiveStream` speaks of what is delivered only; the invariant says where the
  rest is, while a background read fills placeholders too.
* `EofInv`: after `isEof` has said so nothing is left in any of the three places
  a byte can wait in, and no read is about to add to them.
* `OptionInv`: the option last granted waits in the connecting state until a
  socket has it. When the OS refuses, the call returns false and the socket keeps
  what it had.
* `TriedInv`: the endpoints tried are those the two cursors have passed
  (`Walked`), and the IPv6 ones come only when the IPv4 cursor is at the end. When
  both are at the end, the list tried has no repetition and misses no position,
  so it is as long as the resolver's: that is the counting in `WalkedAll`.

**UdpSocket.** The constants' assumptions say that limits and sizes are below
`SizeWrap`, as they are values of size_t. `Typed` is the type invariant.

* `SendInv`: items are numbered upwards, the one in flight before the queue's;
  a queue that is not empty has a send in progress; losses are reported. The
  refinement follows: each step offers, loses, transmits the first or stutters.
* `ReceiveInv`: each open socket is received on, ids ascend per family from what
  was delivered over the queue to what is at the handler, and the queue is
  accounted for.
* `EndpointInv`: while a datagram to a host is under way, the endpoints tried are
  those the two cursors have passed and an open socket can reach (`TriedAll`), each
  once. `handleSend` gives up with both cursors at the end, so none is left, be it after a failed send or straight
  after the lookup. Only one
  of the two sockets may be open, which is why the list tried need not be the
  resolver's, and why this differs from the `Walked` of TcpSocket.
* `LimitInv`: during the unlocked `setSendbufferLimit`, how `memSize_` and the items
  differ, unless `handleSend` came in between (`QueuesAccounted` excepts that).

`UdpSocketProofs` begins with what they need of the queue: pushing to an accounted
queue keeps it accounted, does not hang, and drops as few as it can.

That `LossyFifo` keeps the order needs that whatever is pending has been offered and
is behind all that was sent (`FifoInv`). With `ImplementsLossyFifo` this is the
order of datagrams leaving a UdpSocket (`SentInOrder`).

**Recursion over data.** The library's induction theorems take operators, which the
provers cannot instantiate. `Lemmas` states induction for a set of numbers
(`Induct`, from the least element of a set, `LeastNumber`) and shows that a
recursive function over 0..n with a step that keeps a type exists and is of that
type (`FoldExists`). What `MemUpTo`, `Quarters`, `Unsigned`, `CopyFrom` and the loops
of the codecs compute, for sequences of every length, rests on these two; that is
why these are recursive functions.

**SendBuffer.** Bytes are numbered from the first ever pushed. The code keeps
offsets into the first block and counts instead, so the invariant `SInv` says
what these mean:

* `Layout`: the blocks present are consecutive, and as many bytes were pushed as
  the blocks allocated hold without `freeSpaceInLastBuffer`.
* `Held`: byte q lies in block `BlockOf(q)` at `OffsetOf(q)`, that is
  `(q - 1) \div BUFFER_SIZE + 1` and `(q - 1) % BUFFER_SIZE`, as long as that block
  is present. A popped block is gone, so this is what a premature pop or a
  wrong end of the last block would break.
* `Sending`: the regions in flight cover the first bytes not yet popped, whatever
  was pushed and committed since the send was started.

That the region list covers exactly the committed bytes is the long part: the
loop is stated as a closed form (`Count` regions, ending at `Bounds`), and the
place of the p-th byte offered is found from the region it falls in. The
refinement then needs only that the j-th byte of the abstract queue is number
`Popped + Gone + j` (`QueueForm`).

**TcpAcceptor.** `HandInv` says where a connection can be while an accept is in
progress, `PlaceInv` that the places are disjoint, cover all arrivals, and are
ordered per family. `TurnInv` says of a family how often its connection was passed
over (`Passed`): not at all; once and it is its turn now; or the connection came
between the two questions of a call (`cameLate`) and was passed over by that call,
then perhaps by the next, which begins with the other family. After that
it is its turn in any case.

**IpLookup.** `LookupInv`: until the handler has run there are no results; after
it, what was handed out is the front of the resolver's list, `next_` the address
behind it unless that has no text, and `result_` the one behind that, both at
the end together.

**HandleMap.** `StillFound` needs that each live object is stored under the
handle its creation returned (`OwnHandles`), and, for the distance between handles
to have a least element, that the map is finite (`FiniteInv`). `NoEarlyReuse` is a
counting argument. `AgeInv` says of each object that was ever made: either many
enough have been made since, or its handle has not been given out again, and
what the counter has passed since was given out or in use when the object was
made, hence is counted by `mostLive`. When the counter comes round, these cover
all handles (`CoverCount`).

**Library.** `ServiceInv` is `OwnerInv /\ ThreadInv`: whatever refers to an object
that needs an io_service belongs to the present one, and how far dllShutdown
has got determines what is gone already. Each step of it is one of HandleMap
or leaves the map alone, which gives the refinement and with it HandleMap's
theorems.

**Buffer and codecs.** The assumptions only say what the inputs are: strings are
bytes, texts are sequences of the classes of characters the tables know, types have
at least one byte, and a pair of bits has at least two values. The invariant of the
state is small: `BuffersOK` says that
buffers hold bytes and that read positions are not behind the end, without which
`bytesRemaining` would be negative and a read would not return as much as it passes
over. Each operation has a lemma (`...Step`) that it keeps `BuffersOK` and satisfies
the three action properties. The work is in what the operations compute:

* *Output in pieces.* `Flushed(Put(out, byte))` is `Flushed(out)` with the byte
  behind it, as long as the buffered part is shorter than `OutBuffer` before each
  byte (`Outs`, `PutByte`). So no byte is lost or written twice for any `OutBuffer`.
* *Numbers as pairs of bits.* `Pair(x, k)` is pair k of x; numbers with the same
  pairs are the same. Shifts, masks and joins of the codecs are then statements
  about which pair goes where.
* *Decoding base64.* `Decoded` is the loop's invariant: the bytes put so far are the
  meaning of the characters so far, and the `count` pairs left in the 16 bits of
  `bitBuffer` are the low end of the last character. It relates the decoder to the
  blocks of the reference after every character, so padding in the middle of a
  text, where the bits left over are dropped, is just another step. Together
  with what each quad of `encode` consists of, this gives the round trip.
* *Validation.* `Scanned`: until it has refused the scan knows the position in the
  quad, which is the length of the last block modulo 4. Texts with a misplaced
  padding (`BadPadding`) are excepted, as finding 3 concerns these.
* *Numbers.* The bytes of a number are its digits (`NumberBack`, `BytesBack`, in both
  byte orders, signed or not), and rounding then clamping gives the nearest number,
  also when the value is beyond the border.
* *Copying.* After i pieces the destination has grown by the first bytes of the
  source as it was (`CopyInto`), also when the source is the destination: what a
  piece reads lies before the old end, where appending changes nothing.

**Only model-checked:** all liveness (`GracefulDrain`, `CloseAfterRelease`,
`OperationsSettle`, `ReleasedDies`, `BecomesAvailable`, `BecomesReady`,
`ShutdownReturns`), which depends on fairness. Every invariant and every action
property of the passing runs has a theorem.

## 6. Not modelled

* What asio does within a composed read or write, except that bytes arrive
  one at a time; when a read fails its bytes stay where they are.
* Ports and addresses reported, the query given to the resolver, multicast,
  MAC and broadcast addresses (their number is an input).
* The pure functions of `socketApi.cpp` on bits and addresses, the string return
  buffer, the Game Maker scripts and examples.
* A second client thread: API calls during dllShutdown.
* Stack depth: a UDP queue full of datagrams for a family without a socket is
  worked off by recursion (`UdpSocket.cpp:281`).
* Floating point values on the wire, `write_buffer_to_file`, and the value of a
  number read behind the end (arbitrary bytes in the model).
* In `Library`, an operation of the OS and the wait for its handler are one
  (`outstanding`), and the accepts or receptions of an object's two OS sockets are
  one operation: what happens between them is in the modules of the classes.
* A default UDP socket whose bind failed is kept, and every later `udp_send` from
  a buffer fails (`socketApi.cpp:730`). `Library` models that; nothing in the
  repository promises otherwise, so no property speaks of it.
* `SendBuffer::clear`, which nothing calls.

## 7. Plan

Written, in this order, the system's central behaviour first: `TcpSocket`;
`UdpSocket` with `DatagramQueue` and `LossyFifo`; `SendBuffer` with `ByteQueue`;
`TcpAcceptor`; `HandleMap`; `IpLookup`; `Buffer` with `Codecs`; `Library`; and the
proofs, from `TcpSocketProofs` to those of the acceptor, the lookup, the UDP socket
with its queue, the send buffer, and the buffers with their codecs.

To come:

1. A composition of TcpAcceptor and TcpSocket: a connection is open in exactly
   one object from accept to destruction.
2. `SendBuffer` refined into TcpSocket's counts, so that `SendStream` speaks of
   the very bytes.

## 8. Running

    tlc -workers 2 -config tcp_stream.cfg MCTcpSocket
    tlapm TcpSocketProofs.tla

`PROJECT.json` lists which module each configuration belongs to. No run takes
more than about two minutes.
