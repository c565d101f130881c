----------------------------- MODULE SendBuffer ----------------------------
(***************************************************************************)
(* faucet/tcp/SendBuffer.hpp: the bytes a TcpSocket has still to send, in  *)
(* blocks of BUFFER_SIZE bytes from the heap, and the use TcpConnected     *)
(* makes of it: one async_send at a time reads the committed bytes right   *)
(* out of the blocks, while the client pushes and commits more.            *)
(***************************************************************************)
EXTENDS Integers, Sequences

CONSTANTS
  BufferSize,   \* BUFFER_SIZE
  PushSizes,    \* sizes of push() calls
  MaxBytes      \* bound: bytes pushed in a behaviour

ASSUME SendBufferAssumption ==
  BufferSize \in Nat \ {0} /\ PushSizes \subseteq Nat /\ MaxBytes \in Nat

VARIABLES
  buffers,                 \* the blocks, by number
  memory,                  \* what each allocated block holds
  firstElementIndex,
  freeSpaceInLastBuffer,
  endBlock,                \* the block endPtr points into, 0 before the first
  committedBytes,
  inFlight,                \* the regions handed to async_send
  transferred,             \* what it has reported, -1 while it runs, -2 without one
  blocks, pushed, taken    \* history

bufferVars == <<buffers, memory, firstElementIndex, freeSpaceInLastBuffer,
                endBlock, committedBytes, blocks>>
vars == <<bufferVars, inFlight, transferred, pushed, taken>>

Running == -1
NoSend == -2

totalSize == Len(buffers) * BufferSize - freeSpaceInLastBuffer - firstElementIndex
----------------------------------------------------------------------------
(* push() allocates a block whenever the last one is full and bytes are    *)
(* left.                                                                   *)
NewBlocksForAll(n) == (n + BufferSize - 1) \div BufferSize
NewBlocks(n) ==
  IF n <= freeSpaceInLastBuffer THEN 0
  ELSE (n - freeSpaceInLastBuffer + BufferSize - 1) \div BufferSize

Push(n) ==
  /\ pushed + n <= MaxBytes
  /\ LET k == NewBlocks(n)
         new == [i \in 1..k |-> blocks + i]
         path == <<endBlock>> \o new            \* the blocks written to
         Place(i) == BufferSize - freeSpaceInLastBuffer + i - 1
     IN /\ buffers' = buffers \o new
        /\ memory' = [b \in DOMAIN memory \cup {new[i] : i \in 1..k} |->
             [o \in 0..(BufferSize - 1) |->
               LET here == {i \in 1..n : /\ path[Place(i) \div BufferSize + 1] = b
                                         /\ Place(i) % BufferSize = o}
               IN  IF here # {} THEN pushed + (CHOOSE i \in here : TRUE)
                   ELSE IF b \in DOMAIN memory THEN memory[b][o] ELSE 0]]
        /\ freeSpaceInLastBuffer' = freeSpaceInLastBuffer + k * BufferSize - n
        /\ endBlock' = path[k + 1]
        /\ blocks' = blocks + k
  /\ pushed' = pushed + n
  /\ UNCHANGED <<firstElementIndex, committedBytes, inFlight, transferred, taken>>

Commit ==
  /\ committedBytes' = totalSize
  /\ UNCHANGED <<buffers, memory, firstElementIndex, freeSpaceInLastBuffer,
                 endBlock, blocks, inFlight, transferred, pushed, taken>>

(* committedAsConstBufferSequence(): block i offers what lies between      *)
(* firstElementIndex and the free space, as far as committed.              *)
StartAtTheFront(i) == 0
StartIn(i) == IF i = 1 THEN firstElementIndex ELSE 0
OfferedBy(i) ==
  BufferSize - StartIn(i) - (IF i = Len(buffers) THEN freeSpaceInLastBuffer ELSE 0)
OfferedBefore(i) == IF i = 1 THEN 0 ELSE (i - 1) * BufferSize - firstElementIndex

Regions ==
  LET used == {i \in 1..Len(buffers) : OfferedBefore(i) < committedBytes}
      count == IF used = {} THEN 0 ELSE CHOOSE i \in used : \A j \in used : j <= i
      Rest(i) == committedBytes - OfferedBefore(i)
  IN  [i \in 1..count |->
        [block |-> buffers[i], at |-> StartIn(i),
         size |-> IF OfferedBy(i) >= Rest(i) THEN Rest(i) ELSE OfferedBy(i)]]

(* The places the regions cover, in order.                                 *)
StartsOf(regions) ==
  LET start[i \in 1..(Len(regions) + 1)] ==
        IF i = 1 THEN 0 ELSE start[i - 1] + regions[i - 1].size
  IN  start

PlacesOf(regions) ==
  LET start == StartsOf(regions)
      Of(p) == CHOOSE i \in 1..Len(regions) : start[i] < p /\ p <= start[i + 1]
  IN  [p \in 1..start[Len(regions) + 1] |->
        <<regions[Of(p)].block, regions[Of(p)].at + p - start[Of(p)] - 1>>]

(* startAsyncSend, when no send is in progress. The code also starts sends *)
(* of no bytes, which take nothing: TcpSocket models those.                *)
StartSend ==
  /\ transferred = NoSend /\ committedBytes > 0
  /\ inFlight' = Regions
  /\ transferred' = Running
  /\ UNCHANGED <<bufferVars, pushed, taken>>

(* The OS reads a part of the regions, at a time of its own.               *)
OsTake ==
  /\ transferred = Running
  /\ LET places == PlacesOf(inFlight)
     IN \E n \in 1..Len(places) :
          /\ transferred' = n
          /\ taken' = taken \o [p \in 1..n |-> memory[places[p][1]][places[p][2]]]
  /\ UNCHANGED <<bufferVars, inFlight, pushed>>

(* pop(n): blocks all of whose bytes are gone are freed.                   *)
EmptiedOffByOne(n) == (firstElementIndex + n + 1) \div BufferSize
Emptied(n) == (firstElementIndex + n) \div BufferSize

(* handleSend: pop what was transferred.                                   *)
HandleSend ==
  /\ transferred >= 0
  /\ LET n == transferred
     IN /\ committedBytes' = committedBytes - n
        /\ firstElementIndex' = (firstElementIndex + n) % BufferSize
        /\ buffers' = SubSeq(buffers, Emptied(n) + 1, Len(buffers))
        /\ memory' = [b \in {buffers'[i] : i \in DOMAIN buffers'} |-> memory[b]]
  /\ transferred' = NoSend /\ inFlight' = <<>>
  /\ UNCHANGED <<freeSpaceInLastBuffer, endBlock, blocks, pushed, taken>>
----------------------------------------------------------------------------
Init ==
  /\ buffers = <<>> /\ memory = [b \in {} |-> 0]
  /\ firstElementIndex = 0 /\ freeSpaceInLastBuffer = 0 /\ endBlock = 0
  /\ committedBytes = 0 /\ inFlight = <<>> /\ transferred = NoSend
  /\ blocks = 0 /\ pushed = 0 /\ taken = <<>>

Next ==
  \/ \E n \in PushSizes : Push(n)
  \/ Commit \/ StartSend \/ OsTake \/ HandleSend

Spec == Init /\ [][Next]_vars
----------------------------------------------------------------------------
(* Types; and where push() writes through endPtr there is an allocated     *)
(* block, since pop() never frees the last block while it has free space.  *)
TypeOK ==
  /\ buffers \in Seq(1..blocks) /\ blocks \in Nat /\ endBlock \in 0..blocks
  /\ \A b \in DOMAIN memory : memory[b] \in [0..(BufferSize - 1) -> 0..pushed]
  /\ firstElementIndex \in 0..(BufferSize - 1)
  /\ freeSpaceInLastBuffer \in 0..(BufferSize - 1)
  /\ committedBytes \in 0..totalSize
  /\ inFlight \in Seq([block : 1..blocks, at : 0..(BufferSize - 1), size : 1..BufferSize])
  /\ transferred \in Int /\ pushed \in Nat /\ taken \in Seq(Nat)
  /\ freeSpaceInLastBuffer > 0 => buffers # <<>> /\ endBlock = buffers[Len(buffers)]

(* The bytes in the buffer, read as pop() and push() lay them out.         *)
Contents ==
  [p \in 1..totalSize |->
    memory[buffers[(firstElementIndex + p - 1) \div BufferSize + 1]]
          [(firstElementIndex + p - 1) % BufferSize]]

(* The regions an async_send reads from stay allocated and go on holding   *)
(* the first committed bytes, whatever is pushed and committed meanwhile;  *)
(* and a new one would cover all of the committed bytes, so that nothing   *)
(* committed is left out of a send, with no empty region.                  *)
RegionsStable ==
  /\ transferred # NoSend =>
       LET places == PlacesOf(inFlight)
       IN /\ Len(places) <= committedBytes
          /\ \A p \in DOMAIN places :
               places[p][1] \in DOMAIN memory
               /\ memory[places[p][1]][places[p][2]] = Contents[p]
  /\ Len(PlacesOf(Regions)) = committedBytes
  /\ \A i \in DOMAIN Regions : Regions[i].size > 0

(* What a SendBuffer promises, as the abstract specification ByteQueue:    *)
(* bytes the OS has taken leave the queue then, not when pop() is called.  *)
Gone == IF transferred >= 0 THEN transferred ELSE 0
Queue == INSTANCE ByteQueue
  WITH queue <- SubSeq(Contents, Gone + 1, totalSize), committed <- committedBytes - Gone
ImplementsByteQueue == Queue!Spec
=============================================================================
