----------------------------- MODULE HandleMap -----------------------------
(***************************************************************************)
(* faucet/HandleMap.hpp, and the calls of socketApi.cpp that create and    *)
(* destroy objects: the game refers to each of its objects by a number,    *)
(* and may go on using that number after it has destroyed the object.      *)
(*                                                                         *)
(* All of these calls run under apiMutex and are atomic.  nextHandle_ is a *)
(* uint32_t: it wraps, at HandleWrap here.  Objects are numbered in the    *)
(* order they are created, and known by their kind.                        *)
(***************************************************************************)
EXTENDS Integers, Sequences, FiniteSets

CONSTANTS
  HandleWrap,      \* 2^32
  Kinds,           \* the kinds of object the game creates
  MaxAllocations   \* bound: objects created in a behaviour

KindNames == {"tcp", "acceptor", "udp", "buffer", "lookup"}

ASSUME HandleWrapAssumption == HandleWrap \in Nat \ {0, 1}
ASSUME KindsAssumption == Kinds \subseteq KindNames /\ MaxAllocations \in Nat

Handles == 0..(HandleWrap - 1)

VARIABLES
  nextHandle,
  content,         \* content_, a function from handles to objects
  kindOf,          \* the kind of each object ever created
  \* history
  handleOf,        \* the handle each object ever created was given
  released,        \* the objects the map has let go of
  mostLive         \* the most objects there have been at a time

vars == <<nextHandle, content, kindOf, handleOf, released, mostLive>>

Live == DOMAIN content
----------------------------------------------------------------------------
(* allocate(): the first handle from nextHandle_ on, round and round, that *)
(* is not in use and not 0.  With every handle in use the loop would never *)
(* end, but memory ends long before 2^32 objects.                          *)
Distance(h) == (h - nextHandle) % HandleWrap
FreeIgnoringContent(h) == h # 0
FreeWithZero(h) == h \notin Live
Free(h) == h \notin Live /\ h # 0
NextFree(h) ==
  Free(h) /\ \A g \in Handles : Free(g) => Distance(h) <= Distance(g)

AfterwardsReset(h) == 1
Afterwards(h) == (h + 1) % HandleWrap

Larger(m, n) == IF m >= n THEN m ELSE n

Allocate(kind) ==
  /\ Len(handleOf) < MaxAllocations
  /\ \E h \in Handles :
       /\ NextFree(h)
       /\ nextHandle' = Afterwards(h)
       /\ handleOf' = Append(handleOf, h)
       /\ kindOf' = Append(kindOf, kind)
       /\ content' = [g \in Live \cup {h} |->
                       IF g = h THEN Len(handleOf) + 1 ELSE content[g]]
  /\ mostLive' = Larger(mostLive, Cardinality(Live) + 1)
  /\ UNCHANGED released

(* socket_destroy and socket_destroy_abortive, buffer_destroy and          *)
(* ip_lookup_destroy: each finds objects of its own kinds only, and does   *)
(* nothing with any other handle.                                          *)
Calls == {"socket_destroy", "buffer_destroy", "ip_lookup_destroy"}
KindsOf(call) ==
  CASE call = "socket_destroy" -> {"tcp", "acceptor", "udp"}
    [] call = "buffer_destroy" -> {"buffer"}
    [] OTHER -> {"lookup"}

Found(h, kinds) == h \in Live /\ kindOf[content[h]] \in kinds

Release(h) ==
  /\ content' = [g \in Live \ {h} |-> content[g]]
  /\ released' = released \cup {content[h]}

Destroy(call, h) ==
  /\ Found(h, KindsOf(call))
  /\ Release(h)
  /\ UNCHANGED <<nextHandle, kindOf, handleOf, mostLive>>

(* dllShutdown: the map is emptied, the counter goes on.                   *)
ReleaseAll ==
  /\ content' = [g \in {} |-> 0]
  /\ released' = released \cup {content[h] : h \in Live}
  /\ UNCHANGED <<nextHandle, kindOf, handleOf, mostLive>>
----------------------------------------------------------------------------
Init ==
  /\ nextHandle = 1 /\ content = [g \in {} |-> 0]
  /\ kindOf = <<>> /\ handleOf = <<>> /\ released = {} /\ mostLive = 0

Next ==
  \/ \E kind \in Kinds : Allocate(kind)
  \/ \E call \in Calls, h \in Handles : Destroy(call, h)
  \/ ReleaseAll

Spec == Init /\ [][Next]_vars
----------------------------------------------------------------------------
(* Types; no handle is 0, which the game takes for false.                  *)
TypeOK ==
  /\ nextHandle \in Handles
  /\ Live \subseteq Handles \ {0} /\ content \in [Live -> 1..Len(handleOf)]
  /\ handleOf \in Seq(Handles \ {0}) /\ kindOf \in Seq(Kinds)
  /\ Len(kindOf) = Len(handleOf)
  /\ released \subseteq 1..Len(handleOf) /\ mostLive \in Nat

(* An object is found by the handle its creation returned, until a call    *)
(* destroys it through that handle: no later object takes its place, also  *)
(* when nextHandle_ has wrapped; and afterwards it is found no more.  Its  *)
(* handle is not 0, which the game takes for false.                        *)
StillFound ==
  \A id \in 1..Len(handleOf) :
    IF id \in released THEN \A h \in Live : content[h] # id
    ELSE /\ handleOf[id] # 0 /\ handleOf[id] \in Live
         /\ content[handleOf[id]] = id

(* A handle the game has kept of a destroyed object names no other object  *)
(* until the counter has gone all the way round: with at most mostLive     *)
(* objects at a time, not for the next HandleWrap - mostLive creations.    *)
NoEarlyReuse ==
  \A i, j \in 1..Len(handleOf) :
    i < j /\ handleOf[i] = handleOf[j] => j - i >= HandleWrap - mostLive
=============================================================================
