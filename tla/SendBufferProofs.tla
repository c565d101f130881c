-------------------------- MODULE SendBufferProofs -------------------------
(***************************************************************************)
(* Proofs about SendBuffer, for every BUFFER_SIZE and any pushes: that the *)
(* regions given to an async_send stay what they are (RegionsStable), and  *)
(* that the buffer implements a queue of bytes (ByteQueue).                *)
(*                                                                         *)
(* The invariant SInv numbers the bytes from the first ever pushed. Byte q *)
(* lies in block (q - 1) \div BufferSize + 1 at offset (q - 1) % BufferSize *)
(* for as long as it is in the buffer, whatever is pushed or popped, and   *)
(* the regions of the running send cover the first bytes not yet popped.   *)
(***************************************************************************)
EXTENDS SendBuffer, Lemmas, SequenceTheorems, TLAPS
----------------------------------------------------------------------------
(* Multiples of BUFFER_SIZE.                                               *)
LEMMA SizeType == BufferSize \in Nat /\ BufferSize > 0
BY SendBufferAssumption

LEMMA TimesType ==
  \A k \in Int : /\ k * BufferSize \in Int
                 /\ 0 * BufferSize = 0 /\ 1 * BufferSize = BufferSize
BY SizeType

LEMMA TimesSum ==
  \A j, k \in Int : /\ (j + k) * BufferSize = j * BufferSize + k * BufferSize
                    /\ (j - k) * BufferSize = j * BufferSize - k * BufferSize
BY SizeType

LEMMA TimesLess ==
  \A j, k \in Int : j < k => j * BufferSize + BufferSize <= k * BufferSize
BY SizeType, ProductLess

LEMMA TimesAtMost == \A j, k \in Int : j <= k => j * BufferSize <= k * BufferSize
BY SizeType, ProductAtMost

LEMMA SizeDivMod ==
  \A q \in Nat : /\ q \div BufferSize \in Nat /\ q % BufferSize \in 0..(BufferSize - 1)
                 /\ q = (q \div BufferSize) * BufferSize + (q % BufferSize)
<1> SUFFICES ASSUME NEW q \in Nat
             PROVE  /\ q \div BufferSize \in Nat /\ q % BufferSize \in 0..(BufferSize - 1)
                    /\ q = (q \div BufferSize) * BufferSize + (q % BufferSize)
  OBVIOUS
<1>1. q \in Int /\ q >= 0
  OBVIOUS
<1> QED BY <1>1, SizeType, DivMod

LEMMA SizeDivUnique ==
  \A k \in Nat, r \in 0..(BufferSize - 1) :
    /\ k * BufferSize + r \in Nat
    /\ (k * BufferSize + r) \div BufferSize = k /\ (k * BufferSize + r) % BufferSize = r
<1> SUFFICES ASSUME NEW k \in Nat, NEW r \in 0..(BufferSize - 1)
             PROVE  /\ k * BufferSize + r \in Nat
                    /\ (k * BufferSize + r) \div BufferSize = k /\ (k * BufferSize + r) % BufferSize = r
  OBVIOUS
<1>1. k \in Int /\ k * BufferSize \in Nat
  BY SizeType, ProductType
<1> QED BY <1>1, SizeType, DivUnique

LEMMA DivLess ==
  \A q, k \in Nat : (q < k * BufferSize <=> q \div BufferSize < k)
<1> SUFFICES ASSUME NEW q \in Nat, NEW k \in Nat  PROVE q < k * BufferSize <=> q \div BufferSize < k
  OBVIOUS
<1> DEFINE d == q \div BufferSize
           m == q % BufferSize
<1>1. d \in Nat /\ m \in 0..(BufferSize - 1) /\ q = d * BufferSize + m
  BY SizeDivMod, Zenon
<1> HIDE DEF d, m
<1>0. d * BufferSize \in Int /\ k * BufferSize \in Int
  BY <1>1, TimesType
<1>2. d < k => d * BufferSize + BufferSize <= k * BufferSize
  BY <1>1, TimesLess
<1>3. k <= d => k * BufferSize <= d * BufferSize
  BY <1>1, TimesAtMost
<1>4. q < k * BufferSize <=> d < k
  BY <1>0, <1>1, <1>2, <1>3, SizeType
<1> QED BY <1>4 DEF d
----------------------------------------------------------------------------
(* Where each region starts: the recursion has the one solution E.         *)
LEMMA StartsAre ==
  ASSUME NEW regions, Len(regions) \in Nat,
         NEW E \in [1..(Len(regions) + 1) -> Int], E[1] = 0,
         \A i \in 1..Len(regions) : E[i + 1] = E[i] + regions[i].size
  PROVE  \A i \in 1..(Len(regions) + 1) : StartsOf(regions)[i] = E[i]
<1> DEFINE Eq(g) == g = [i \in 1..(Len(regions) + 1) |->
                          IF i = 1 THEN 0 ELSE g[i - 1] + regions[i - 1].size]
           start == StartsOf(regions)
<1>1. Eq(E)
  <2>1. ASSUME NEW i \in 1..(Len(regions) + 1), i # 1
        PROVE  E[i] = E[i - 1] + regions[i - 1].size
    <3>1. i - 1 \in 1..Len(regions) /\ (i - 1) + 1 = i
      BY <2>1
    <3> QED BY <3>1
  <2> QED BY <2>1
<1>2. Eq(start)
  <2> DEFINE f == CHOOSE f : Eq(f)
  <2>1. Eq(f)
    <3> HIDE DEF Eq
    <3> QED BY <1>1
  <2> QED BY <2>1 DEF StartsOf
<1>3. \A i \in 1..(Len(regions) + 1) :
        start[i] = IF i = 1 THEN 0 ELSE start[i - 1] + regions[i - 1].size
  <2> HIDE DEF start
  <2> QED BY <1>2
<1> HIDE DEF start
<1> DEFINE S == {m \in 0..Len(regions) : start[m + 1] = E[m + 1]}
<1>4. 0 \in S
  <2>1. 1 \in 1..(Len(regions) + 1)
    OBVIOUS
  <2>2. start[1] = 0
    BY <1>3, <2>1
  <2> QED BY <2>2
<1>5. ASSUME NEW m \in 1..Len(regions), m - 1 \in S  PROVE m \in S
  <2>1. start[(m - 1) + 1] = E[(m - 1) + 1] /\ (m - 1) + 1 = m
    BY <1>5
  <2>2. m + 1 \in 1..(Len(regions) + 1) /\ m + 1 # 1 /\ (m + 1) - 1 = m
    OBVIOUS
  <2>3. start[m + 1] = start[m] + regions[m].size
    BY <1>3, <2>2
  <2> QED BY <2>1, <2>3
<1>6. 0..Len(regions) \subseteq S
  <2> HIDE DEF S
  <2> QED BY <1>4, <1>5, Induct
<1>7. ASSUME NEW i \in 1..(Len(regions) + 1)  PROVE start[i] = E[i]
  <2>1. i - 1 \in 0..Len(regions) /\ (i - 1) + 1 = i
    OBVIOUS
  <2>2. i - 1 \in S
    BY <1>6, <2>1
  <2> QED BY <2>1, <2>2
<1> QED BY <1>7 DEF start

(* A function on 1..n is a sequence of length n.                           *)
LEMMA LenIs ==
  ASSUME NEW n \in Nat, NEW T, NEW f \in [1..n -> T]
  PROVE  f \in Seq(T) /\ Len(f) = n
OBVIOUS

(* Bounds E that c regions fill up one after the other, and the places     *)
(* they then cover.                                                        *)
Bounded(regions, c, E) ==
  /\ c \in Nat /\ Len(regions) = c
  /\ E \in [1..(c + 1) -> Nat] /\ E[1] = 0
  /\ \A i \in 1..c : E[i + 1] = E[i] + regions[i].size
  /\ \A i, j \in 1..(c + 1) : i < j => E[i] < E[j]

Placed(regions, c, E) ==
  /\ DOMAIN PlacesOf(regions) = 1..E[c + 1]
  /\ Len(PlacesOf(regions)) = E[c + 1]
  /\ \A i \in 1..c : \A p \in (E[i] + 1)..E[i + 1] :
       PlacesOf(regions)[p] = <<regions[i].block, regions[i].at + p - E[i] - 1>>

LEMMA PlacesAre ==
  ASSUME NEW regions, NEW c, NEW E, Bounded(regions, c, E)
  PROVE  Placed(regions, c, E)
<1>0. /\ c \in Nat /\ Len(regions) = c
      /\ E \in [1..(c + 1) -> Nat] /\ E[1] = 0
      /\ \A i \in 1..c : E[i + 1] = E[i] + regions[i].size
  BY DEF Bounded
<1>7. \A i, j \in 1..(c + 1) : i < j => E[i] < E[j]
  BY DEF Bounded
<1> DEFINE start == StartsOf(regions)
           Of(p) == CHOOSE i \in 1..Len(regions) : start[i] < p /\ p <= start[i + 1]
           Place(p) == <<regions[Of(p)].block, regions[Of(p)].at + p - start[Of(p)] - 1>>
           places == [p \in 1..start[Len(regions) + 1] |-> Place(p)]
<1>1. PlacesOf(regions) = places
  BY DEF PlacesOf
<1>2. \A i \in 1..(c + 1) : start[i] = E[i]
  <2>1. E \in [1..(Len(regions) + 1) -> Int] /\ Len(regions) \in Nat
    BY <1>0
  <2> HIDE DEF start
  <2>2. \A i \in 1..(Len(regions) + 1) : StartsOf(regions)[i] = E[i]
    BY <1>0, <2>1, StartsAre
  <2> QED BY <1>0, <2>2 DEF start
<1> HIDE DEF start
<1>3. /\ c + 1 \in 1..(c + 1) /\ E[c + 1] \in Nat
      /\ start[Len(regions) + 1] = E[c + 1]
  BY <1>0, <1>2
<1>4. DOMAIN places = 1..E[c + 1]
  BY <1>3
<1>5. Len(places) = E[c + 1]
  <2> DEFINE T == {Place(p) : p \in 1..E[c + 1]}
  <2> HIDE DEF Place
  <2>1. places \in [1..E[c + 1] -> T]
    BY <1>3
  <2> HIDE DEF places, T
  <2> QED BY <1>3, <2>1, LenIs
<1>6. ASSUME NEW i \in 1..c, NEW p \in (E[i] + 1)..E[i + 1]
      PROVE  places[p] = <<regions[i].block, regions[i].at + p - E[i] - 1>>
  <2>1. /\ i \in 1..(c + 1) /\ i + 1 \in 1..(c + 1)
        /\ E[i] \in Nat /\ E[i + 1] \in Nat /\ (i + 1 < c + 1 => E[i + 1] < E[c + 1])
    BY <1>0, <1>3, <1>7
  <2>2. p \in 1..E[c + 1]
    BY <1>0, <1>3, <2>1
  <2>3. start[i] < p /\ p <= start[i + 1]
    BY <1>0, <1>2, <2>1
  <2>4. ASSUME NEW j \in 1..c, start[j] < p, p <= start[j + 1]  PROVE j = i
    <3>1. j \in 1..(c + 1) /\ j + 1 \in 1..(c + 1) /\ E[j] < p /\ p <= E[j + 1]
          /\ E[j] \in Nat /\ E[j + 1] \in Nat
      BY <1>0, <1>2, <2>4
    <3>2. CASE j < i
      <4>1. j + 1 = i \/ j + 1 < i
        BY <3>1, <3>2
      <4>2. j + 1 = i \/ E[j + 1] < E[i]
        BY <1>7, <2>1, <3>1, <4>1
      <4> QED BY <2>1, <3>1, <4>2
    <3>3. CASE i < j
      <4>1. i + 1 = j \/ i + 1 < j
        BY <2>1, <3>3
      <4>2. i + 1 = j \/ E[i + 1] < E[j]
        BY <1>7, <2>1, <3>1, <4>1
      <4> QED BY <2>1, <3>1, <4>2
    <3> QED BY <3>1, <3>2, <3>3, <2>1
  <2>5. Of(p) = i
    BY <1>0, <2>3, <2>4
  <2>6. places[p] = Place(p)
    <3> HIDE DEF Place
    <3> QED BY <1>3, <2>2
  <2>7. Place(p) = <<regions[i].block, regions[i].at + p - start[i] - 1>>
    <3> HIDE DEF Of
    <3> QED BY <2>5
  <2> HIDE DEF Place, places
  <2> QED BY <1>2, <2>1, <2>6, <2>7
<1> HIDE DEF places
<1> QED BY <1>1, <1>4, <1>5, <1>6 DEF Placed
----------------------------------------------------------------------------
(* Byte q of all that were ever pushed lies in a block and at an offset    *)
(* that depend on q alone.                                                 *)
BlockOf(q) == (q - 1) \div BufferSize + 1
OffsetOf(q) == (q - 1) % BufferSize

Freed == blocks - Len(buffers)
Popped == Freed * BufferSize + firstElementIndex

Layout ==
  /\ blocks \in Nat /\ pushed \in Nat /\ taken \in Seq(Nat)
  /\ buffers \in Seq(Nat) /\ Freed \in Nat
  /\ \A i \in 1..Len(buffers) : buffers[i] = Freed + i
  /\ endBlock = blocks
  /\ firstElementIndex \in 0..(BufferSize - 1)
  /\ freeSpaceInLastBuffer \in 0..(BufferSize - 1)
  /\ committedBytes \in 0..totalSize
  /\ pushed = blocks * BufferSize - freeSpaceInLastBuffer
  /\ freeSpaceInLastBuffer > 0 => Len(buffers) > 0

Held ==
  /\ DOMAIN memory = (Freed + 1)..blocks
  /\ \A b \in DOMAIN memory : memory[b] \in [0..(BufferSize - 1) -> 0..pushed]
  /\ \A q \in (Freed * BufferSize + 1)..pushed : memory[BlockOf(q)][OffsetOf(q)] = q

Covers(places, m) ==
  /\ DOMAIN places = 1..m /\ Len(places) = m
  /\ \A p \in 1..m : places[p] = <<BlockOf(Popped + p), OffsetOf(Popped + p)>>

RegionType(n) == [block : 1..n, at : 0..(BufferSize - 1), size : 1..BufferSize]

Sending ==
  /\ transferred \in Nat \cup {Running, NoSend}
  /\ inFlight \in Seq(RegionType(blocks))
  /\ transferred # NoSend =>
       \E m \in 1..committedBytes : Covers(PlacesOf(inFlight), m) /\ transferred <= m

SInv == Layout /\ Held /\ Sending
----------------------------------------------------------------------------
(* Bytes a whole number of blocks apart lie at the same offset.            *)
LEMMA Shift ==
  \A k, q \in Nat : /\ (k * BufferSize + q) \div BufferSize = k + (q \div BufferSize)
                    /\ (k * BufferSize + q) % BufferSize = q % BufferSize
<1> SUFFICES ASSUME NEW k \in Nat, NEW q \in Nat
             PROVE  /\ (k * BufferSize + q) \div BufferSize = k + (q \div BufferSize)
                    /\ (k * BufferSize + q) % BufferSize = q % BufferSize
  OBVIOUS
<1> DEFINE d == q \div BufferSize
           m == q % BufferSize
<1>1. d \in Nat /\ m \in 0..(BufferSize - 1) /\ q = d * BufferSize + m
  BY SizeDivMod, Zenon
<1> HIDE DEF d, m
<1>2. k + d \in Nat /\ k * BufferSize + q = (k + d) * BufferSize + m
  <2>1. (k + d) * BufferSize = k * BufferSize + d * BufferSize
    BY <1>1, TimesSum
  <2>2. k * BufferSize \in Int /\ d * BufferSize \in Int
    BY <1>1, TimesType
  <2> QED BY <1>1, <2>1, <2>2
<1>3. /\ (k * BufferSize + q) \div BufferSize = k + d
      /\ (k * BufferSize + q) % BufferSize = m
  BY <1>1, <1>2, SizeDivUnique
<1> QED BY <1>3 DEF d, m

(* The block and the offset of a byte tell which it is.                    *)
LEMMA PlaceOf ==
  \A q \in Nat \ {0} :
    /\ BlockOf(q) \in Nat \ {0} /\ OffsetOf(q) \in 0..(BufferSize - 1)
    /\ q = (BlockOf(q) - 1) * BufferSize + OffsetOf(q) + 1
<1> SUFFICES ASSUME NEW q \in Nat \ {0}
             PROVE  /\ BlockOf(q) \in Nat \ {0} /\ OffsetOf(q) \in 0..(BufferSize - 1)
                    /\ q = (BlockOf(q) - 1) * BufferSize + OffsetOf(q) + 1
  OBVIOUS
<1> DEFINE d == (q - 1) \div BufferSize
           m == (q - 1) % BufferSize
<1>1. q - 1 \in Nat
  OBVIOUS
<1>2. d \in Nat /\ m \in 0..(BufferSize - 1) /\ q - 1 = d * BufferSize + m
  BY <1>1, SizeDivMod, Zenon
<1>3. BlockOf(q) = d + 1 /\ OffsetOf(q) = m
  BY DEF BlockOf, OffsetOf
<1> HIDE DEF d, m
<1>4. BlockOf(q) - 1 = d /\ d * BufferSize \in Int
  BY <1>2, <1>3, TimesType
<1> QED BY <1>2, <1>3, <1>4, SizeType

(* A byte is in one of the blocks from j + 1 to k when it lies between     *)
(* their bounds.                                                           *)
LEMMA BlockBounds ==
  \A q \in Nat \ {0}, j, k \in Nat :
    q > j * BufferSize /\ q <= k * BufferSize => BlockOf(q) \in (j + 1)..k
<1> SUFFICES ASSUME NEW q \in Nat \ {0}, NEW j \in Nat, NEW k \in Nat,
                    q > j * BufferSize, q <= k * BufferSize
             PROVE  BlockOf(q) \in (j + 1)..k
  OBVIOUS
<1>1. q - 1 \in Nat /\ j * BufferSize \in Int /\ k * BufferSize \in Int
  BY TimesType
<1>2. q - 1 < k * BufferSize /\ ~(q - 1 < j * BufferSize)
  BY <1>1
<1>3. (q - 1) \div BufferSize < k /\ ~((q - 1) \div BufferSize < j)
  BY <1>1, <1>2, DivLess
<1>4. (q - 1) \div BufferSize \in Nat
  BY <1>1, SizeDivMod
<1> QED BY <1>3, <1>4 DEF BlockOf

(* The numbers of bytes, from the numbers of blocks.                       *)
LEMMA Sizes ==
  ASSUME Layout
  PROVE  /\ Len(buffers) \in Nat /\ blocks = Freed + Len(buffers)
         /\ Freed * BufferSize \in Nat /\ blocks * BufferSize \in Nat
         /\ Len(buffers) * BufferSize \in Nat
         /\ blocks * BufferSize = Freed * BufferSize + Len(buffers) * BufferSize
         /\ totalSize \in Nat /\ Popped \in Nat
         /\ Popped + totalSize = pushed
         /\ Popped = Freed * BufferSize + firstElementIndex
         /\ totalSize = Len(buffers) * BufferSize - freeSpaceInLastBuffer - firstElementIndex
<1>1. Len(buffers) \in Nat /\ blocks = Freed + Len(buffers)
  <2>1. buffers \in Seq(Nat) /\ blocks \in Nat
    BY DEF Layout
  <2>2. Len(buffers) \in Nat
    BY <2>1, LenProperties
  <2> QED BY <2>1, <2>2 DEF Freed
<1>2. Freed \in Nat /\ blocks \in Nat
  BY DEF Layout
<1>3. /\ Freed * BufferSize \in Nat /\ blocks * BufferSize \in Nat
      /\ Len(buffers) * BufferSize \in Nat
  BY <1>1, <1>2, SizeType, TimesType, TimesAtMost
<1>4. blocks * BufferSize = Freed * BufferSize + Len(buffers) * BufferSize
  BY <1>1, <1>2, TimesSum
<1>5. /\ firstElementIndex \in 0..(BufferSize - 1)
      /\ freeSpaceInLastBuffer \in 0..(BufferSize - 1)
      /\ committedBytes \in 0..totalSize
      /\ pushed = blocks * BufferSize - freeSpaceInLastBuffer
  BY DEF Layout
<1>6. totalSize = Len(buffers) * BufferSize - freeSpaceInLastBuffer - firstElementIndex
  BY DEF totalSize
<1>7. Popped = Freed * BufferSize + firstElementIndex
  BY DEF Popped
<1> HIDE DEF Layout
<1>8. totalSize \in Nat /\ Popped \in Nat
  BY <1>3, <1>5, <1>6, <1>7, SizeType
<1>9. Popped + totalSize = pushed
  BY <1>3, <1>4, <1>5, <1>6, <1>7, SizeType
<1> QED BY <1>1, <1>3, <1>4, <1>6, <1>7, <1>8, <1>9

(* The contents of the buffer are the bytes pushed last.                   *)
LEMMA ContentsAre ==
  ASSUME Layout, Held
  PROVE  /\ DOMAIN Contents = 1..totalSize /\ Len(Contents) = totalSize
         /\ Contents \in Seq(Nat)
         /\ \A p \in 1..totalSize : Contents[p] = Popped + p
<1> DEFINE before == Freed * BufferSize
           held == Len(buffers) * BufferSize
<1>0. /\ Len(buffers) \in Nat /\ blocks = Freed + Len(buffers)
      /\ before \in Nat /\ held \in Nat
      /\ totalSize \in Nat /\ Popped \in Nat /\ Popped + totalSize = pushed
      /\ Popped = before + firstElementIndex
      /\ totalSize = held - freeSpaceInLastBuffer - firstElementIndex
  BY Sizes
<1>1. /\ Freed \in Nat /\ firstElementIndex \in Nat /\ pushed \in Nat
      /\ freeSpaceInLastBuffer \in Nat
  BY SizeType DEF Layout
<1>11. \A i \in 1..Len(buffers) : buffers[i] = Freed + i
  BY DEF Layout
<1> HIDE DEF before, held
<1> DEFINE At(p) == memory[buffers[(firstElementIndex + p - 1) \div BufferSize + 1]]
                          [(firstElementIndex + p - 1) % BufferSize]
<1>2. ASSUME NEW p \in 1..totalSize  PROVE At(p) = Popped + p
  <2> DEFINE q == firstElementIndex + p - 1
  <2>1. q \in Nat /\ q < held
        /\ (Popped + p) - 1 = before + q /\ p \in Nat /\ p > 0
    BY <1>0, <1>1
  <2>2. Popped + p \in (before + 1)..pushed
    BY <1>0, <1>1
  <2> HIDE DEF q
  <2>3. q \div BufferSize < Len(buffers) /\ q \div BufferSize \in Nat
    BY <1>0, <2>1, DivLess, SizeDivMod DEF held
  <2>4. buffers[q \div BufferSize + 1] = Freed + (q \div BufferSize + 1)
    <3>1. q \div BufferSize + 1 \in 1..Len(buffers)
      BY <1>0, <2>3
    <3> QED BY <1>11, <3>1, Zenon
  <2>5. /\ BlockOf(Popped + p) = Freed + (q \div BufferSize) + 1
        /\ OffsetOf(Popped + p) = q % BufferSize
    BY <1>1, <2>1, Shift DEF BlockOf, OffsetOf, before
  <2>6. BlockOf(Popped + p) = buffers[q \div BufferSize + 1]
    BY <1>1, <2>3, <2>4, <2>5
  <2>7. memory[BlockOf(Popped + p)][OffsetOf(Popped + p)] = Popped + p
    BY <2>2 DEF Held, before
  <2>8. memory[buffers[q \div BufferSize + 1]][q % BufferSize] = Popped + p
    BY <2>5, <2>6, <2>7
  <2> QED BY <2>8 DEF q
<1>3. Contents = [p \in 1..totalSize |-> At(p)]
  BY DEF Contents
<1> HIDE DEF At
<1>4. Contents \in [1..totalSize -> Nat]
  <2>1. \A p \in 1..totalSize : At(p) \in Nat
    BY <1>0, <1>2
  <2> QED BY <1>3, <2>1
<1>5. \A p \in 1..totalSize : Contents[p] = Popped + p
  BY <1>2, <1>3
<1>6. Contents \in Seq(Nat) /\ Len(Contents) = totalSize
  BY <1>0, <1>4, LenIs
<1> QED BY <1>4, <1>5, <1>6
----------------------------------------------------------------------------
(* Where the p-th byte of the buffer lies.                                 *)
LEMMA InBuffer ==
  ASSUME Layout, NEW p \in Nat \ {0}
  PROVE  LET q == firstElementIndex + p - 1
         IN  /\ q \in Nat
             /\ BlockOf(Popped + p) = Freed + (q \div BufferSize) + 1
             /\ OffsetOf(Popped + p) = q % BufferSize
<1> DEFINE before == Freed * BufferSize
           q == firstElementIndex + p - 1
<1>1. /\ Freed \in Nat /\ before \in Nat
      /\ firstElementIndex \in Nat /\ Popped = before + firstElementIndex
  BY Sizes, SizeType DEF Layout
<1>2. q \in Nat /\ (Popped + p) - 1 = before + q
  <2> HIDE DEF before
  <2> QED BY <1>1
<1> HIDE DEF q
<1>3. /\ BlockOf(Popped + p) = Freed + (q \div BufferSize) + 1
      /\ OffsetOf(Popped + p) = q % BufferSize
  BY <1>1, <1>2, Shift DEF BlockOf, OffsetOf
<1> QED BY <1>2, <1>3 DEF q

(* What the blocks offer up to block i.                                    *)
LEMMA Offers ==
  ASSUME Layout
  PROVE  \A i \in 1..Len(buffers) :
           /\ StartIn(i) \in 0..(BufferSize - 1) /\ OfferedBefore(i) \in Nat
           /\ OfferedBy(i) \in Nat /\ OfferedBy(i) <= BufferSize
           /\ OfferedBefore(i) + OfferedBy(i) =
                IF i = Len(buffers) THEN totalSize ELSE OfferedBefore(i + 1)
<1> SUFFICES ASSUME NEW i \in 1..Len(buffers)
    PROVE  /\ StartIn(i) \in 0..(BufferSize - 1) /\ OfferedBefore(i) \in Nat
           /\ OfferedBy(i) \in Nat /\ OfferedBy(i) <= BufferSize
           /\ OfferedBefore(i) + OfferedBy(i) =
                IF i = Len(buffers) THEN totalSize ELSE OfferedBefore(i + 1)
  OBVIOUS
<1> DEFINE held == Len(buffers) * BufferSize
           x == (i - 1) * BufferSize
           y == i * BufferSize
<1>1. /\ Len(buffers) \in Nat /\ held \in Nat /\ totalSize \in Nat
      /\ totalSize = held - freeSpaceInLastBuffer - firstElementIndex
  BY Sizes
<1>2. /\ firstElementIndex \in 0..(BufferSize - 1)
      /\ freeSpaceInLastBuffer \in 0..(BufferSize - 1)
  BY DEF Layout
<1>3. i \in Nat /\ i > 0 /\ i <= Len(buffers)
  BY <1>1
<1>4. x \in Int /\ y \in Int /\ y = x + BufferSize
  BY <1>3, SizeType
<1>5. (i # 1 => x >= BufferSize) /\ (i = 1 => x = 0)
  <2>1. i # 1 => 1 * BufferSize <= (i - 1) * BufferSize
    BY <1>3, TimesAtMost
  <2>2. 1 * BufferSize = BufferSize /\ 0 * BufferSize = 0
    BY SizeType
  <2> QED BY <2>1, <2>2
<1>6. (i = Len(buffers) => y = held)
  OBVIOUS
<1>7. OfferedBefore(i) = IF i = 1 THEN 0 ELSE x - firstElementIndex
  BY DEF OfferedBefore
<1>8. i # Len(buffers) => OfferedBefore(i + 1) = y - firstElementIndex
  <2>1. i + 1 # 1 /\ (i + 1) - 1 = i
    BY <1>3
  <2> QED BY <2>1 DEF OfferedBefore
<1>9. StartIn(i) = IF i = 1 THEN firstElementIndex ELSE 0
  BY DEF StartIn
<1>10. OfferedBy(i) = BufferSize - StartIn(i)
                      - (IF i = Len(buffers) THEN freeSpaceInLastBuffer ELSE 0)
  BY DEF OfferedBy
<1> HIDE DEF held, x, y
<1>11. StartIn(i) \in 0..(BufferSize - 1) /\ OfferedBefore(i) \in Nat
  BY <1>2, <1>4, <1>5, <1>7, <1>9, SizeType
<1>12. OfferedBy(i) \in Int /\ OfferedBy(i) <= BufferSize
  BY <1>2, <1>10, <1>11, SizeType
<1>13. CASE i = Len(buffers)
  <2>1. OfferedBefore(i) + OfferedBy(i) = totalSize
    BY <1>1, <1>2, <1>4, <1>5, <1>6, <1>7, <1>9, <1>10, <1>13, SizeType
  <2>2. OfferedBy(i) \in Nat
    <3>1. CASE i = 1
      BY <1>1, <1>7, <1>11, <1>12, <2>1, <3>1
    <3>2. CASE i # 1
      BY <1>2, <1>9, <1>10, <1>13, <3>2, SizeType
    <3> QED BY <3>1, <3>2
  <2> QED BY <1>11, <1>12, <1>13, <2>1, <2>2
<1>14. CASE i # Len(buffers)
  <2>1. OfferedBefore(i) + OfferedBy(i) = OfferedBefore(i + 1)
    BY <1>2, <1>4, <1>5, <1>7, <1>8, <1>9, <1>10, <1>14, SizeType
  <2>2. OfferedBy(i) \in Nat
    BY <1>2, <1>9, <1>10, <1>14, SizeType
  <2> QED BY <1>11, <1>12, <1>14, <2>1, <2>2
<1> QED BY <1>13, <1>14

(* Which blocks start before the p-th byte.                                *)
LEMMA StartsBefore ==
  ASSUME Layout
  PROVE  \A i \in 1..Len(buffers), p \in Nat \ {0} :
           OfferedBefore(i) < p <=> i - 1 <= (firstElementIndex + p - 1) \div BufferSize
<1> SUFFICES ASSUME NEW i \in 1..Len(buffers), NEW p \in Nat \ {0}
    PROVE  OfferedBefore(i) < p <=> i - 1 <= (firstElementIndex + p - 1) \div BufferSize
  OBVIOUS
<1> DEFINE q == firstElementIndex + p - 1
           x == (i - 1) * BufferSize
<1>1. Len(buffers) \in Nat /\ firstElementIndex \in Nat
  BY Sizes, SizeType DEF Layout
<1>2. q \in Nat /\ i - 1 \in Nat /\ x \in Int
  BY <1>1, TimesType
<1>3. q = firstElementIndex + p - 1
  OBVIOUS
<1> HIDE DEF q
<1>4. q \div BufferSize \in Nat /\ (q < x <=> q \div BufferSize < i - 1)
  BY <1>2, DivLess, SizeDivMod
<1>5. CASE i = 1
  <2>1. OfferedBefore(i) = 0
    BY <1>5 DEF OfferedBefore
  <2> HIDE DEF x
  <2>2. OfferedBefore(i) < p /\ i - 1 <= q \div BufferSize
    BY <1>4, <1>5, <2>1
  <2> QED BY <2>2 DEF q
<1>6. CASE i # 1
  <2>1. OfferedBefore(i) = x - firstElementIndex
    BY <1>6 DEF OfferedBefore
  <2> HIDE DEF x
  <2>2. OfferedBefore(i) < p <=> ~(q < x)
    BY <1>1, <1>2, <1>3, <2>1
  <2>3. ~(q \div BufferSize < i - 1) <=> i - 1 <= q \div BufferSize
    BY <1>2, <1>4
  <2> QED BY <1>4, <2>2, <2>3 DEF q
<1> QED BY <1>5, <1>6
----------------------------------------------------------------------------
(* How many regions there are, and where each ends.                        *)
Count == (firstElementIndex + committedBytes - 1) \div BufferSize + 1
RegionOf(i) ==
  LET rest == committedBytes - OfferedBefore(i)
  IN  [block |-> buffers[i], at |-> StartIn(i),
       size |-> IF OfferedBy(i) >= rest THEN rest ELSE OfferedBy(i)]
Bounds == [i \in 1..(Count + 1) |->
            IF i = Count + 1 THEN committedBytes ELSE OfferedBefore(i)]

LEMMA CountType ==
  ASSUME Layout, committedBytes > 0
  PROVE  Count \in 1..Len(buffers) /\ Len(buffers) \in Nat
<1> DEFINE held == Len(buffers) * BufferSize
           q == firstElementIndex + committedBytes - 1
<1>1. /\ Len(buffers) \in Nat /\ held \in Nat
      /\ totalSize = held - freeSpaceInLastBuffer - firstElementIndex
      /\ totalSize \in Nat
  BY Sizes
<1>2. /\ firstElementIndex \in Nat /\ freeSpaceInLastBuffer \in Nat
      /\ committedBytes \in 0..totalSize
  BY SizeType DEF Layout
<1>3. q \in Nat /\ q < held
  <2> HIDE DEF held
  <2> QED BY <1>1, <1>2
<1> HIDE DEF q
<1>4. q \div BufferSize \in Nat /\ q \div BufferSize < Len(buffers)
  BY <1>1, <1>3, DivLess, SizeDivMod
<1>5. q \div BufferSize + 1 \in 1..Len(buffers)
  BY <1>1, <1>4
<1> QED BY <1>1, <1>5 DEF Count, q

LEMMA RegionsForm ==
  ASSUME Layout, committedBytes > 0
  PROVE  Regions = [i \in 1..Count |-> RegionOf(i)]
<1> DEFINE used == {i \in 1..Len(buffers) : OfferedBefore(i) < committedBytes}
           count == IF used = {} THEN 0 ELSE CHOOSE i \in used : \A j \in used : j <= i
<1>1. committedBytes \in Nat \ {0}
  BY Sizes DEF Layout
<1>2. Count \in 1..Len(buffers) /\ Len(buffers) \in Nat
  BY CountType
<1>3. \A i \in 1..Len(buffers) : i \in used <=> i <= Count
  <2> SUFFICES ASSUME NEW i \in 1..Len(buffers)  PROVE i \in used <=> i <= Count
    OBVIOUS
  <2> DEFINE d == (firstElementIndex + committedBytes - 1) \div BufferSize
  <2>1. OfferedBefore(i) < committedBytes <=> i - 1 <= d
    BY <1>1, StartsBefore
  <2>2. Count = d + 1
    BY DEF Count
  <2>3. d \in Int
    <3>1. firstElementIndex + committedBytes - 1 \in Nat
      BY <1>1, SizeType DEF Layout
    <3> QED BY <3>1, SizeDivMod
  <2> HIDE DEF d
  <2>4. i - 1 <= d <=> i <= Count
    BY <1>2, <2>2, <2>3
  <2> QED BY <2>1, <2>4
<1>4. Count \in used /\ \A j \in used : j <= Count /\ j \in Int
  BY <1>2, <1>3
<1>5. count = Count
  <2> HIDE DEF used
  <2>1. \A i \in used : (\A j \in used : j <= i) => i = Count
    BY <1>4, <1>2
  <2> QED BY <1>4, <2>1
<1>6. Regions = [i \in 1..count |-> RegionOf(i)]
  BY DEF Regions, RegionOf
<1> QED BY <1>5, <1>6

(* The bounds grow by the sizes of the regions.                            *)
LEMMA BoundsGrow ==
  ASSUME Layout, committedBytes > 0
  PROVE  /\ Bounds \in [1..(Count + 1) -> Nat] /\ Bounds[1] = 0
         /\ \A i \in 1..Count : /\ Bounds[i + 1] = Bounds[i] + RegionOf(i).size
                                /\ RegionOf(i) \in RegionType(blocks)
                                /\ RegionOf(i).block = Freed + i
                                /\ RegionOf(i).at = StartIn(i)
                                /\ Bounds[i] = OfferedBefore(i)
<1>1. committedBytes \in Nat \ {0} /\ committedBytes <= totalSize /\ totalSize \in Nat
  BY Sizes DEF Layout
<1>2. /\ Count \in 1..Len(buffers) /\ Len(buffers) \in Nat
      /\ Freed \in Nat /\ blocks = Freed + Len(buffers)
  BY CountType, Sizes DEF Layout
<1>3. \A i \in 1..Count : i \in 1..Len(buffers) /\ i \in 1..(Count + 1)
                          /\ i + 1 \in 1..(Count + 1) /\ i # Count + 1
  BY <1>2
<1>4. \A i \in 1..Len(buffers) : OfferedBefore(i) < committedBytes <=> i <= Count
  <2> SUFFICES ASSUME NEW i \in 1..Len(buffers)
               PROVE  OfferedBefore(i) < committedBytes <=> i <= Count
    OBVIOUS
  <2> DEFINE d == (firstElementIndex + committedBytes - 1) \div BufferSize
  <2>1. OfferedBefore(i) < committedBytes <=> i - 1 <= d
    BY <1>1, StartsBefore
  <2>2. Count = d + 1
    BY DEF Count
  <2>3. d \in Int
    <3>1. firstElementIndex + committedBytes - 1 \in Nat
      BY <1>1, SizeType DEF Layout
    <3> QED BY <3>1, SizeDivMod
  <2> HIDE DEF d
  <2>4. i - 1 <= d <=> i <= Count
    BY <1>2, <2>2, <2>3
  <2> QED BY <2>1, <2>4
<1>5. \A i \in 1..Count : Bounds[i] = OfferedBefore(i)
  BY <1>3 DEF Bounds
<1>6. Bounds[Count + 1] = committedBytes
  <2>1. Count + 1 \in 1..(Count + 1)
    BY <1>2
  <2> QED BY <2>1 DEF Bounds
<1>7. Bounds[1] = 0
  <2>1. 1 \in 1..Count
    BY <1>2
  <2> QED BY <1>5, <2>1 DEF OfferedBefore
<1>8. Bounds \in [1..(Count + 1) -> Nat]
  <2>1. ASSUME NEW i \in 1..(Count + 1)
        PROVE  (IF i = Count + 1 THEN committedBytes ELSE OfferedBefore(i)) \in Nat
    <3>1. i = Count + 1 \/ i \in 1..Len(buffers)
      BY <1>2
    <3> QED BY <1>1, <3>1, Offers
  <2> QED BY <2>1 DEF Bounds
<1>9. ASSUME NEW i \in 1..Count
      PROVE  /\ Bounds[i + 1] = Bounds[i] + RegionOf(i).size
             /\ RegionOf(i).size \in 1..BufferSize
  <2> DEFINE before == OfferedBefore(i)
             offered == OfferedBy(i)
             rest == committedBytes - before
  <2>1. /\ before \in Nat /\ offered \in Nat /\ offered <= BufferSize
        /\ before + offered = IF i = Len(buffers) THEN totalSize ELSE OfferedBefore(i + 1)
        /\ before < committedBytes
    BY <1>3, <1>4, Offers
  <2>2. RegionOf(i).size = IF offered >= rest THEN rest ELSE offered
    BY DEF RegionOf
  <2>3. Bounds[i] = before
    BY <1>5
  <2>4. CASE i = Count
    <3>1. before + offered >= committedBytes
      <4>1. CASE i = Len(buffers)
        BY <1>1, <2>1, <4>1
      <4>2. CASE i # Len(buffers)
        <5>1. i + 1 \in 1..Len(buffers) /\ ~(i + 1 <= Count)
          BY <1>2, <2>4, <4>2
        <5>2. ~(OfferedBefore(i + 1) < committedBytes) /\ OfferedBefore(i + 1) \in Nat
          BY <1>4, <5>1, Offers
        <5> HIDE DEF before, offered
        <5> QED BY <1>1, <2>1, <4>2, <5>2
      <4> QED BY <4>1, <4>2
    <3>2. Bounds[i + 1] = committedBytes
      BY <1>6, <2>4
    <3> HIDE DEF before, offered
    <3> QED BY <1>1, <2>1, <2>2, <2>3, <3>1, <3>2, SizeType
  <2>5. CASE i # Count
    <3>1. i + 1 \in 1..Count /\ i # Len(buffers) /\ i + 1 \in 1..Len(buffers)
      BY <1>2, <2>5
    <3>2. Bounds[i + 1] = before + offered /\ before + offered < committedBytes
      <4>1. OfferedBefore(i + 1) < committedBytes
        BY <1>2, <1>4, <3>1
      <4> QED BY <1>5, <2>1, <3>1, <4>1
    <3>3. offered > 0
      <4>1. OfferedBefore(i) < OfferedBefore(i + 1)
        <5>1. StartIn(i) \in 0..(BufferSize - 1)
          BY <1>3, Offers
        <5>2. offered = BufferSize - StartIn(i)
          BY <3>1, <5>1, SizeType DEF OfferedBy
        <5> HIDE DEF before, offered
        <5>3. offered > 0
          BY <5>1, <5>2, SizeType
        <5>4. before + offered = OfferedBefore(i + 1)
          BY <2>1, <3>1
        <5>5. before < OfferedBefore(i + 1)
          BY <2>1, <5>3, <5>4
        <5> QED BY <5>5 DEF before
      <4>2. before + offered = OfferedBefore(i + 1)
        BY <2>1, <3>1
      <4> HIDE DEF offered
      <4> QED BY <2>1, <4>1, <4>2
    <3> HIDE DEF before, offered
    <3> QED BY <1>1, <2>1, <2>2, <2>3, <3>2, <3>3, SizeType
  <2> QED BY <2>4, <2>5
<1>10. ASSUME NEW i \in 1..Count
       PROVE  /\ RegionOf(i) \in RegionType(blocks)
              /\ RegionOf(i).block = Freed + i /\ RegionOf(i).at = StartIn(i)
  <2>1. /\ RegionOf(i).block = buffers[i] /\ RegionOf(i).at = StartIn(i)
        /\ RegionOf(i) = [block |-> RegionOf(i).block, at |-> RegionOf(i).at,
                          size |-> RegionOf(i).size]
    BY DEF RegionOf
  <2>2. buffers[i] = Freed + i
    BY <1>3 DEF Layout
  <2>3. Freed + i \in 1..blocks
    BY <1>2
  <2>4. StartIn(i) \in 0..(BufferSize - 1)
    BY <1>3, Offers
  <2>5. RegionOf(i).size \in 1..BufferSize
    BY <1>9
  <2> QED BY <2>1, <2>2, <2>3, <2>4, <2>5 DEF RegionType
<1> QED BY <1>5, <1>7, <1>8, <1>9, <1>10

LEMMA BoundsIncrease ==
  ASSUME Layout, committedBytes > 0
  PROVE  \A i, j \in 1..(Count + 1) : i < j => Bounds[i] < Bounds[j]
<1> SUFFICES ASSUME NEW i \in 1..(Count + 1), NEW j \in 1..(Count + 1), i < j
             PROVE  Bounds[i] < Bounds[j]
  OBVIOUS
<1>1. Count \in 1..Len(buffers) /\ Len(buffers) \in Nat
  BY CountType
<1>2. i \in 1..Count /\ i + 1 \in 1..(Count + 1)
  BY <1>1
<1>3. /\ Bounds[i + 1] = Bounds[i] + RegionOf(i).size
      /\ RegionOf(i) \in RegionType(blocks)
      /\ Bounds[i] = OfferedBefore(i)
  BY <1>2, BoundsGrow
<1>4. Bounds[i] \in Nat /\ Bounds[i + 1] \in Nat
  BY <1>2, BoundsGrow
<1>5. Bounds[i] < Bounds[i + 1]
  <2>1. RegionOf(i).size \in 1..BufferSize
    BY <1>3 DEF RegionType
  <2> QED BY <1>3, <1>4, <2>1, SizeType
<1>6. CASE j = i + 1
  BY <1>5, <1>6
<1>7. CASE j # i + 1 /\ j # Count + 1
  <2>1. j \in 1..Count /\ i - 1 \in Int /\ j - 1 \in Int /\ i - 1 < j - 1 /\ j # 1
    BY <1>1, <1>2, <1>7
  <2>2. Bounds[j] = OfferedBefore(j)
    BY <2>1, BoundsGrow
  <2> DEFINE x == (i - 1) * BufferSize
             y == (j - 1) * BufferSize
  <2>3. x + BufferSize <= y /\ x \in Int /\ y \in Int
    BY <2>1, TimesLess, TimesType
  <2>4. firstElementIndex \in 0..(BufferSize - 1)
    BY DEF Layout
  <2>5. OfferedBefore(j) = y - firstElementIndex
    BY <2>1 DEF OfferedBefore
  <2>6. OfferedBefore(i) = IF i = 1 THEN 0 ELSE x - firstElementIndex
    BY DEF OfferedBefore
  <2>7. i = 1 => x = 0
    BY SizeType
  <2> HIDE DEF x, y
  <2> QED BY <1>3, <2>2, <2>3, <2>4, <2>5, <2>6, <2>7, SizeType
<1>8. CASE j # i + 1 /\ j = Count + 1
  <2>1. i + 1 \in 1..Count /\ Count \in 1..Count
    BY <1>1, <1>2, <1>8
  <2>2. Bounds[Count + 1] = Bounds[Count] + RegionOf(Count).size
    BY <2>1, BoundsGrow
  <2>3. RegionOf(Count).size \in 1..BufferSize /\ Bounds[Count] \in Nat /\ Bounds[Count + 1] \in Nat
    <3>1. RegionOf(Count) \in RegionType(blocks)
      BY <2>1, BoundsGrow
    <3>2. Count \in 1..(Count + 1) /\ Count + 1 \in 1..(Count + 1)
      BY <1>1
    <3> QED BY <3>1, <3>2, BoundsGrow DEF RegionType
  <2>4. Bounds[i] <= Bounds[Count]
    <3>1. Bounds[Count] = OfferedBefore(Count)
      BY <2>1, BoundsGrow
    <3> DEFINE x == (i - 1) * BufferSize
               y == (Count - 1) * BufferSize
    <3>2. i - 1 \in Int /\ Count - 1 \in Int /\ i - 1 < Count - 1 /\ Count # 1
      BY <1>1, <1>2, <2>1
    <3>3. x + BufferSize <= y /\ x \in Int /\ y \in Int
      BY <3>2, TimesLess, TimesType
    <3>4. firstElementIndex \in 0..(BufferSize - 1)
      BY DEF Layout
    <3>5. OfferedBefore(Count) = y - firstElementIndex
      BY <3>2 DEF OfferedBefore
    <3>6. OfferedBefore(i) = IF i = 1 THEN 0 ELSE x - firstElementIndex
      BY DEF OfferedBefore
    <3>7. i = 1 => x = 0
      BY SizeType
    <3> HIDE DEF x, y
    <3> QED BY <1>3, <3>1, <3>3, <3>4, <3>5, <3>6, <3>7, SizeType
  <2> QED BY <1>4, <1>8, <2>2, <2>3, <2>4, SizeType
<1> QED BY <1>6, <1>7, <1>8

(* The regions of a new async_send hold the committed bytes, all of them.  *)
LEMMA RegionsAre ==
  ASSUME Layout, committedBytes > 0
  PROVE  /\ Regions \in Seq(RegionType(blocks))
         /\ Covers(PlacesOf(Regions), committedBytes)
<1>1. Regions = [i \in 1..Count |-> RegionOf(i)]
  BY RegionsForm
<1>2. Count \in 1..Len(buffers) /\ Len(buffers) \in Nat /\ Count \in Nat
  BY CountType
<1>3. Regions \in [1..Count -> RegionType(blocks)]
  BY <1>1, BoundsGrow
<1>4. Regions \in Seq(RegionType(blocks)) /\ Len(Regions) = Count
  BY <1>2, <1>3, LenIs
<1>5. \A i \in 1..Count : /\ Regions[i] = RegionOf(i)
                          /\ Bounds[i + 1] = Bounds[i] + Regions[i].size
  BY <1>1, BoundsGrow
<1>6. Bounds[Count + 1] = committedBytes
  <2>1. Count + 1 \in 1..(Count + 1)
    BY <1>2
  <2> QED BY <2>1 DEF Bounds
<1>7. /\ DOMAIN PlacesOf(Regions) = 1..Bounds[Count + 1]
      /\ Len(PlacesOf(Regions)) = Bounds[Count + 1]
      /\ \A i \in 1..Count : \A p \in (Bounds[i] + 1)..Bounds[i + 1] :
           PlacesOf(Regions)[p] =
             <<Regions[i].block, Regions[i].at + p - Bounds[i] - 1>>
  <2>1. Bounds \in [1..(Count + 1) -> Nat] /\ Bounds[1] = 0
    BY BoundsGrow
  <2>2. \A i \in 1..Count : Bounds[i + 1] = Bounds[i] + Regions[i].size
    BY <1>5
  <2>3. \A i, j \in 1..(Count + 1) : i < j => Bounds[i] < Bounds[j]
    BY BoundsIncrease
  <2>4. Len(Regions) = Count
    BY <1>4
  <2>5. Count \in Nat
    BY <1>2
  <2>6. Bounds \in [1..(Count + 1) -> Nat]
    BY <2>1
  <2>7. Bounds[1] = 0
    BY <2>1
  <2>8. Bounded(Regions, Count, Bounds)
    BY <2>2, <2>3, <2>4, <2>5, <2>6, <2>7 DEF Bounded
  <2>9. Placed(Regions, Count, Bounds)
    BY <2>8, PlacesAre
  <2> QED BY <2>9 DEF Placed
<1>8. ASSUME NEW p \in 1..committedBytes
      PROVE  PlacesOf(Regions)[p] = <<BlockOf(Popped + p), OffsetOf(Popped + p)>>
  <2> DEFINE q == firstElementIndex + p - 1
             d == q \div BufferSize
             i == d + 1
             last == firstElementIndex + committedBytes - 1
  <2>1. /\ committedBytes \in Nat \ {0} /\ p \in Nat \ {0} /\ p <= committedBytes
        /\ firstElementIndex \in 0..(BufferSize - 1) /\ firstElementIndex \in Nat
    <3>1. committedBytes \in 0..totalSize /\ firstElementIndex \in 0..(BufferSize - 1)
      BY DEF Layout
    <3>2. totalSize \in Nat
      BY Sizes
    <3> QED BY <3>1, <3>2
  <2>2. /\ BlockOf(Popped + p) = Freed + d + 1 /\ OffsetOf(Popped + p) = q % BufferSize
        /\ q \in Nat
    BY <2>1, InBuffer
  <2>3. /\ d \in Nat /\ q % BufferSize \in 0..(BufferSize - 1)
        /\ q = d * BufferSize + (q % BufferSize)
    <3> HIDE DEF q
    <3> QED BY <2>2, SizeDivMod
  <2>4. i \in 1..Count
    <3>1. last \in Nat /\ q <= last
      BY <2>1
    <3>2. Count = last \div BufferSize + 1 /\ last \div BufferSize \in Nat
      <4> HIDE DEF last
      <4>1. last \div BufferSize \in Nat
        BY <3>1, SizeDivMod
      <4> QED BY <4>1 DEF Count, last
    <3>3. ~(last \div BufferSize < d)
      <4>1. ~(q < d * BufferSize)
        <5> DEFINE m == q % BufferSize
                   b == d * BufferSize
        <5>1. b \in Int
          BY <2>3, TimesType
        <5>2. m \in Nat /\ q = b + m
          BY <2>3, SizeType
        <5> HIDE DEF m, b, q
        <5>3. ~(q < b)
          BY <5>1, <5>2
        <5> QED BY <5>3 DEF b
      <4> DEFINE b == d * BufferSize
      <4>2. b \in Int
        BY <2>3, TimesType
      <4>3. ~(last < b)
        <5>1. ~(q < b)
          BY <4>1
        <5> HIDE DEF q, b, last
        <5> QED BY <2>2, <3>1, <4>2, <5>1
      <4> HIDE DEF q, d, last
      <4>4. ~(last < d * BufferSize)
        BY <4>3
      <4> QED BY <2>3, <3>1, <4>4, DivLess
    <3> HIDE DEF last, d
    <3> QED BY <2>3, <3>2, <3>3
  <2>5. i \in 1..Len(buffers) /\ i \in 1..(Count + 1) /\ i + 1 \in 1..(Count + 1)
    BY <1>2, <2>4
  <2>6. /\ Bounds[i] = OfferedBefore(i) /\ RegionOf(i).at = StartIn(i)
        /\ RegionOf(i).block = Freed + i
        /\ Bounds[i] \in Nat /\ Bounds[i + 1] \in Nat
    <3>1. Bounds \in [1..(Count + 1) -> Nat]
      BY BoundsGrow
    <3> HIDE DEF i, Bounds
    <3> QED BY <2>4, <2>5, <3>1, BoundsGrow
  <2>7. i - 1 = d
    BY <2>3
  <2>8. OfferedBefore(i) < p
    <3> HIDE DEF i
    <3>1. i - 1 <= (firstElementIndex + p - 1) \div BufferSize
      BY <2>3, <2>7
    <3> QED BY <2>1, <2>5, <3>1, StartsBefore
  <2>9. p <= Bounds[i + 1]
    <3>1. CASE i = Count
      <4> HIDE DEF i
      <4> QED BY <1>6, <2>1, <3>1
    <3>2. CASE i # Count
      <4>1. i + 1 \in 1..Count
        BY <1>2, <2>4, <3>2
      <4>2. i + 1 \in 1..Len(buffers)
        BY <1>2, <4>1
      <4>3. Bounds[i + 1] = OfferedBefore(i + 1)
        BY <4>1, BoundsGrow
      <4>4. ~((i + 1) - 1 <= d)
        BY <2>3
      <4>5. ~(OfferedBefore(i + 1) < p)
        <5> HIDE DEF i
        <5> QED BY <2>1, <4>2, <4>4, StartsBefore
      <4> HIDE DEF i
      <4> QED BY <2>1, <2>6, <4>3, <4>5
    <3> QED BY <3>1, <3>2
  <2>10. PlacesOf(Regions)[p] = <<Freed + i, StartIn(i) + p - OfferedBefore(i) - 1>>
    <3> HIDE DEF i, Bounds, Regions
    <3>1. p \in (Bounds[i] + 1)..Bounds[i + 1]
      BY <2>1, <2>6, <2>8, <2>9
    <3>2. PlacesOf(Regions)[p] = <<Regions[i].block, Regions[i].at + p - Bounds[i] - 1>>
      BY <1>7, <2>4, <3>1
    <3>3. Regions[i] = RegionOf(i)
      BY <1>5, <2>4
    <3> QED BY <2>6, <3>2, <3>3
  <2>11. StartIn(i) + p - OfferedBefore(i) - 1 = q % BufferSize
    <3> DEFINE m == q % BufferSize
               b == (i - 1) * BufferSize
    <3>0. b = d * BufferSize
      BY <2>7
    <3>1. b \in Int
      BY <2>3, <3>0, TimesType
    <3>2. OfferedBefore(i) = IF i = 1 THEN 0 ELSE b - firstElementIndex
      BY DEF OfferedBefore
    <3>3. StartIn(i) = IF i = 1 THEN firstElementIndex ELSE 0
      BY DEF StartIn
    <3>4. i = 1 => b = 0
      BY SizeType
    <3>5. m \in Int /\ q = b + m
      BY <2>3, <3>0
    <3>6. q = firstElementIndex + p - 1
      OBVIOUS
    <3> HIDE DEF m, b, q, i
    <3>7. StartIn(i) + p - OfferedBefore(i) - 1 = m
      BY <2>1, <3>1, <3>2, <3>3, <3>4, <3>5, <3>6
    <3> QED BY <3>7 DEF m
  <2>12. Freed + i = BlockOf(Popped + p)
    <3>1. Freed \in Nat
      BY DEF Layout
    <3> HIDE DEF d
    <3>2. Freed + (d + 1) = Freed + d + 1
      BY <2>3, <3>1
    <3> QED BY <2>2, <3>2
  <2> QED BY <2>2, <2>10, <2>11, <2>12
<1> QED BY <1>4, <1>6, <1>7, <1>8 DEF Covers
----------------------------------------------------------------------------
(* What the regions in flight hold.                                        *)
LEMMA ReadsAre ==
  ASSUME Layout, Held, NEW places, NEW m \in 1..committedBytes, Covers(places, m)
  PROVE  \A p \in 1..m : /\ places[p][1] \in DOMAIN memory
                         /\ memory[places[p][1]][places[p][2]] = Popped + p
                         /\ Popped + p \in Nat
<1> SUFFICES ASSUME NEW p \in 1..m
             PROVE  /\ places[p][1] \in DOMAIN memory
                    /\ memory[places[p][1]][places[p][2]] = Popped + p
                    /\ Popped + p \in Nat
  OBVIOUS
<1> DEFINE before == Freed * BufferSize
           all == blocks * BufferSize
<1>1. /\ before \in Nat /\ Popped \in Nat /\ totalSize \in Nat /\ all \in Nat
      /\ Popped + totalSize = pushed /\ Popped = before + firstElementIndex
  BY Sizes
<1>2. /\ committedBytes \in 0..totalSize /\ firstElementIndex \in Nat
      /\ pushed = all - freeSpaceInLastBuffer /\ freeSpaceInLastBuffer \in Nat
      /\ blocks \in Nat /\ Freed \in Nat
  BY SizeType DEF Layout
<1> HIDE DEF before, all
<1>3. /\ Popped + p \in (before + 1)..pushed /\ Popped + p \in Nat \ {0}
      /\ Popped + p > before /\ Popped + p <= all
  BY <1>1, <1>2
<1>4. BlockOf(Popped + p) \in (Freed + 1)..blocks
  BY <1>2, <1>3, BlockBounds DEF before, all
<1>5. memory[BlockOf(Popped + p)][OffsetOf(Popped + p)] = Popped + p
  BY <1>3 DEF Held, before
<1>6. places[p] = <<BlockOf(Popped + p), OffsetOf(Popped + p)>>
  BY DEF Covers
<1> QED BY <1>3, <1>4, <1>5, <1>6 DEF Held

LEMMA SamePlace ==
  \A q, r \in Nat \ {0} : BlockOf(q) = BlockOf(r) /\ OffsetOf(q) = OffsetOf(r) => q = r
BY PlaceOf

LEMMA SInvInit == Init => SInv
<1> SUFFICES ASSUME Init PROVE SInv
  OBVIOUS
<1>0. Len(buffers) = 0 /\ blocks = 0
  BY DEF Init
<1>1. Freed = 0 /\ Len(buffers) = 0
  BY <1>0 DEF Freed
<1> USE DEF Init
<1>2. totalSize = 0
  <2>1. /\ Len(buffers) * BufferSize = 0
        /\ freeSpaceInLastBuffer = 0 /\ firstElementIndex = 0
    BY <1>1, SizeType
  <2> HIDE DEF Init
  <2> QED BY <2>1 DEF totalSize
<1>3. Layout
  <2>1. buffers \in Seq(Nat) /\ taken \in Seq(Nat)
    OBVIOUS
  <2> QED BY <1>1, <1>2, <2>1, SizeType DEF Layout
<1>4. Held
  BY <1>1, SizeType DEF Held
<1>5. Sending
  BY DEF Sending, NoSend, Running
<1> QED BY <1>3, <1>4, <1>5 DEF SInv

LEMMA SInvCommit ==
  ASSUME SInv, Commit  PROVE SInv'
<1> USE DEF SInv, Commit
<1>1. /\ Freed' = Freed /\ totalSize' = totalSize /\ Popped' = Popped
  BY DEF Freed, totalSize, Popped
<1>2. totalSize \in Nat
  BY Sizes
<1>3. Layout'
  BY <1>1, <1>2 DEF Layout
<1>4. Held'
  BY <1>1 DEF Held
<1>5. Sending'
  <2>1. transferred' # NoSend =>
          \E m \in 1..committedBytes' : Covers(PlacesOf(inFlight), m)' /\ transferred' <= m
    <3> SUFFICES ASSUME transferred # NoSend
                 PROVE  \E m \in 1..committedBytes' :
                          Covers(PlacesOf(inFlight), m)' /\ transferred' <= m
      OBVIOUS
    <3>1. PICK m \in 1..committedBytes : Covers(PlacesOf(inFlight), m) /\ transferred <= m
      BY DEF Sending
    <3>2. m \in 1..committedBytes'
      BY <1>2 DEF Layout
    <3>3. Covers(PlacesOf(inFlight), m)'
      BY <1>1, <3>1 DEF Covers
    <3> QED BY <3>1, <3>2, <3>3
  <2> QED BY <2>1 DEF Sending
<1> QED BY <1>3, <1>4, <1>5

LEMMA SInvStartSend ==
  ASSUME SInv, StartSend  PROVE SInv'
<1> USE DEF SInv, StartSend, bufferVars
<1>1. /\ Freed' = Freed /\ totalSize' = totalSize /\ Popped' = Popped
  BY DEF Freed, totalSize, Popped
<1>2. Layout'
  BY <1>1 DEF Layout
<1>3. Held'
  BY <1>1 DEF Held
<1>4. Regions \in Seq(RegionType(blocks)) /\ Covers(PlacesOf(Regions), committedBytes)
  BY RegionsAre
<1>5. committedBytes \in 1..committedBytes' /\ committedBytes \in Nat
  BY Sizes DEF Layout
<1>6. Covers(PlacesOf(inFlight), committedBytes)'
  BY <1>1, <1>4 DEF Covers
<1>7. Sending'
  <2>1. Running <= committedBytes /\ transferred' = Running
    BY <1>5 DEF Running
  <2> QED BY <1>4, <1>5, <1>6, <2>1 DEF Sending
<1> QED BY <1>2, <1>3, <1>7

(* What the OS takes are the first bytes of the buffer.                    *)
LEMMA TakeIs ==
  ASSUME SInv, OsTake
  PROVE  \E m \in 1..committedBytes : \E n \in 1..m :
           /\ Covers(PlacesOf(inFlight), m)
           /\ transferred' = n
           /\ [p \in 1..n |-> Popped + p] \in Seq(Nat)
           /\ taken' = taken \o [p \in 1..n |-> Popped + p]
<1> DEFINE places == PlacesOf(inFlight)
           bytes(n) == [p \in 1..n |-> memory[places[p][1]][places[p][2]]]
<1>1. transferred # NoSend
  BY DEF OsTake, Running, NoSend
<1>2. PICK m \in 1..committedBytes : Covers(places, m)
  BY <1>1 DEF SInv, Sending
<1>3. Len(places) = m
  BY <1>2 DEF Covers
<1>4. PICK n \in 1..Len(places) : transferred' = n /\ taken' = taken \o bytes(n)
  BY DEF OsTake
<1> HIDE DEF places
<1>5. n \in 1..m /\ m \in Nat /\ n \in Nat
  BY <1>2, <1>3, <1>4
<1>6. \A p \in 1..m : memory[places[p][1]][places[p][2]] = Popped + p /\ Popped + p \in Nat
  BY <1>2, ReadsAre DEF SInv
<1>7. \A p \in 1..n : p \in 1..m
  BY <1>5
<1>8. bytes(n) = [p \in 1..n |-> Popped + p]
  BY <1>6, <1>7
<1>9. [p \in 1..n |-> Popped + p] \in [1..n -> Nat]
  BY <1>6, <1>7
<1>10. [p \in 1..n |-> Popped + p] \in Seq(Nat)
  BY <1>5, <1>9, LenIs
<1> HIDE DEF bytes
<1> QED BY <1>2, <1>4, <1>5, <1>8, <1>10 DEF places

LEMMA SInvOsTake ==
  ASSUME SInv, OsTake  PROVE SInv'
<1> USE DEF SInv
<1>0. UNCHANGED <<bufferVars, inFlight, pushed>>
  BY DEF OsTake
<1> USE DEF bufferVars
<1>1. /\ Freed' = Freed /\ totalSize' = totalSize /\ Popped' = Popped
  BY <1>0 DEF Freed, totalSize, Popped
<1>10. PICK m \in 1..committedBytes : \E n \in 1..m :
         /\ Covers(PlacesOf(inFlight), m)
         /\ transferred' = n
         /\ [p \in 1..n |-> Popped + p] \in Seq(Nat)
         /\ taken' = taken \o [p \in 1..n |-> Popped + p]
  BY TakeIs
<1>2. PICK n \in 1..m :
        /\ Covers(PlacesOf(inFlight), m)
        /\ transferred' = n
        /\ [p \in 1..n |-> Popped + p] \in Seq(Nat)
        /\ taken' = taken \o [p \in 1..n |-> Popped + p]
  BY <1>10
<1> DEFINE bytes == [p \in 1..n |-> Popped + p]
<1>3. taken' \in Seq(Nat)
  <2>1. bytes \in Seq(Nat) /\ taken' = taken \o bytes /\ taken \in Seq(Nat)
    BY <1>2 DEF Layout
  <2> HIDE DEF bytes
  <2> QED BY <2>1, ConcatProperties
<1>4. Layout'
  BY <1>0, <1>1, <1>3 DEF Layout
<1>5. Held'
  BY <1>0, <1>1 DEF Held
<1>6. Covers(PlacesOf(inFlight), m)'
  BY <1>0, <1>1, <1>2 DEF Covers
<1>7. m \in 1..committedBytes' /\ transferred' <= m /\ transferred' \in Nat
  BY <1>0, <1>2
<1>8. Sending'
  BY <1>0, <1>6, <1>7 DEF Sending
<1> QED BY <1>4, <1>5, <1>8
----------------------------------------------------------------------------
(* pop(): the numbers of blocks and bytes after it.                        *)
LEMMA Pops ==
  ASSUME SInv, HandleSend
  PROVE  LET n == transferred
             e == Emptied(n)
         IN  /\ n \in Nat /\ n <= committedBytes
             /\ e \in 0..Len(buffers) /\ Len(buffers) \in Nat
             /\ firstElementIndex' \in 0..(BufferSize - 1)
             /\ Freed' = Freed + e /\ Len(buffers') = Len(buffers) - e
             /\ buffers' \in Seq(Nat)
             /\ \A i \in 1..Len(buffers') : buffers'[i] = Freed' + i
             /\ totalSize' = totalSize - n /\ Popped' = Popped + n
             /\ freeSpaceInLastBuffer > 0 => Len(buffers') > 0
<1> DEFINE n == transferred
           e == Emptied(n)
           rem == (firstElementIndex + n) % BufferSize
           held == Len(buffers) * BufferSize
           out == e * BufferSize
           before == Freed * BufferSize
<1>1. /\ Len(buffers) \in Nat /\ blocks = Freed + Len(buffers)
      /\ before \in Nat /\ held \in Nat
      /\ totalSize \in Nat /\ Popped = before + firstElementIndex
      /\ totalSize = held - freeSpaceInLastBuffer - firstElementIndex
  BY Sizes DEF SInv
<1>2. /\ committedBytes \in 0..totalSize /\ firstElementIndex \in 0..(BufferSize - 1)
      /\ freeSpaceInLastBuffer \in 0..(BufferSize - 1)
      /\ Freed \in Nat /\ blocks \in Nat /\ buffers \in Seq(Nat)
  BY DEF SInv, Layout
<1>3. /\ n \in Nat /\ n <= committedBytes
  <2>1. n >= 0 /\ n # NoSend /\ n \in Nat \cup {Running, NoSend}
    BY DEF HandleSend, NoSend, SInv, Sending
  <2>2. \E m \in 1..committedBytes : n <= m
    BY <2>1 DEF SInv, Sending
  <2> QED BY <1>1, <1>2, <2>1, <2>2 DEF Running, NoSend
<1>4. /\ e \in Nat /\ rem \in 0..(BufferSize - 1) /\ firstElementIndex + n = out + rem
      /\ out \in Int
  <2> DEFINE q == firstElementIndex + n
  <2>1. q \in Nat
    BY <1>2, <1>3
  <2> HIDE DEF q
  <2>2. q \div BufferSize \in Nat /\ q % BufferSize \in 0..(BufferSize - 1)
        /\ q = (q \div BufferSize) * BufferSize + (q % BufferSize)
    BY <2>1, SizeDivMod
  <2>3. e = q \div BufferSize
    BY DEF Emptied, q
  <2>4. out \in Int
    BY <2>2, <2>3, TimesType
  <2> QED BY <2>2, <2>3, <2>4 DEF q
<1>5. e <= Len(buffers)
  <2>1. e > Len(buffers) => held + BufferSize <= out
    <3> HIDE DEF e
    <3> QED BY <1>1, <1>4, TimesLess
  <2> HIDE DEF e, rem, held, out, n
  <2> QED BY <1>1, <1>2, <1>3, <1>4, <2>1, SizeType
<1>6. freeSpaceInLastBuffer > 0 => e < Len(buffers)
  <2>1. e = Len(buffers) => held = out
    OBVIOUS
  <2> HIDE DEF e, rem, held, out, n
  <2> QED BY <1>1, <1>2, <1>3, <1>4, <1>5, <2>1, SizeType
<1>7. /\ buffers' = SubSeq(buffers, e + 1, Len(buffers))
      /\ firstElementIndex' = rem
      /\ UNCHANGED <<freeSpaceInLastBuffer, blocks>>
  BY DEF HandleSend
<1> HIDE DEF n, e, rem
<1>8. /\ Len(buffers') = Len(buffers) - e /\ buffers' \in Seq(Nat)
      /\ \A i \in 1..Len(buffers') : buffers'[i] = buffers[e + i]
  <2>1. e + 1 \in 1..(Len(buffers) + 1)
    BY <1>1, <1>4, <1>5
  <2>2. /\ SubSeq(buffers, e + 1, Len(buffers)) \in Seq(Nat)
        /\ Len(SubSeq(buffers, e + 1, Len(buffers))) =
             IF e + 1 <= Len(buffers) THEN Len(buffers) - (e + 1) + 1 ELSE 0
        /\ \A i \in 1..(Len(buffers) - (e + 1) + 1) :
             SubSeq(buffers, e + 1, Len(buffers))[i] = buffers[e + 1 + i - 1]
    <3>1. e + 1 \in Int /\ Len(buffers) \in Int
      BY <1>1, <1>4
    <3>2. \A i \in (e + 1)..Len(buffers) : buffers[i] \in Nat
      <4>1. \A i \in 1..Len(buffers) : buffers[i] \in Nat
        BY <1>2
      <4>2. \A i \in (e + 1)..Len(buffers) : i \in 1..Len(buffers)
        BY <2>1, <3>1
      <4> QED BY <4>1, <4>2
    <3> QED BY <3>1, <3>2, SubSeqProperties
  <2>3. Len(buffers') = Len(buffers) - e
    BY <1>1, <1>4, <1>5, <1>7, <2>2
  <2>4. ASSUME NEW i \in 1..Len(buffers')  PROVE buffers'[i] = buffers[e + i]
    <3>1. i \in 1..(Len(buffers) - (e + 1) + 1) /\ e + 1 + i - 1 = e + i
      BY <1>1, <1>4, <2>3
    <3> QED BY <1>7, <2>2, <3>1
  <2> QED BY <1>7, <2>2, <2>3, <2>4
<1>9. Freed' = Freed + e
  <2>1. Freed' = blocks - Len(buffers') /\ Freed = blocks - Len(buffers)
    BY <1>7 DEF Freed
  <2>2. Len(buffers') = Len(buffers) - e
    BY <1>8
  <2>3. Len(buffers) \in Nat /\ e \in Nat /\ blocks \in Nat
    BY <1>1, <1>2, <1>4
  <2> QED BY <2>1, <2>2, <2>3
<1>10. \A i \in 1..Len(buffers') : buffers'[i] = Freed' + i
  <2> SUFFICES ASSUME NEW i \in 1..Len(buffers')  PROVE buffers'[i] = Freed' + i
    OBVIOUS
  <2>1. e + i \in 1..Len(buffers) /\ i \in Nat
    BY <1>1, <1>4, <1>5, <1>8
  <2>2. buffers[e + i] = Freed + (e + i)
    BY <2>1 DEF SInv, Layout
  <2> QED BY <1>2, <1>4, <1>8, <1>9, <2>1, <2>2
<1>11. totalSize' = totalSize - n
  <2>1. totalSize' = (Len(buffers) - e) * BufferSize - freeSpaceInLastBuffer - rem
    BY <1>7, <1>8 DEF totalSize
  <2>2. (Len(buffers) - e) * BufferSize = held - out
    BY <1>1, <1>4, TimesSum
  <2> HIDE DEF held, out
  <2> QED BY <1>1, <1>2, <1>3, <1>4, <2>1, <2>2, SizeType
<1>12. Popped' = Popped + n
  <2>1. Popped' = (Freed + e) * BufferSize + rem
    BY <1>7, <1>9 DEF Popped
  <2>2. (Freed + e) * BufferSize = before + out
    BY <1>2, <1>4, TimesSum
  <2> HIDE DEF before, out
  <2> QED BY <1>1, <1>2, <1>3, <1>4, <2>1, <2>2, SizeType
<1>13. freeSpaceInLastBuffer > 0 => Len(buffers') > 0
  BY <1>1, <1>4, <1>6, <1>8
<1>14. /\ e \in 0..Len(buffers) /\ firstElementIndex' \in 0..(BufferSize - 1)
  BY <1>1, <1>4, <1>5, <1>7
<1> QED BY <1>1, <1>3, <1>8, <1>9, <1>10, <1>11, <1>12, <1>13, <1>14 DEF n, e

LEMMA SInvHandleSend ==
  ASSUME SInv, HandleSend  PROVE SInv'
<1> DEFINE n == transferred
           e == Emptied(n)
<1>1. /\ n \in Nat /\ n <= committedBytes
      /\ e \in 0..Len(buffers) /\ Len(buffers) \in Nat
      /\ firstElementIndex' \in 0..(BufferSize - 1)
      /\ Freed' = Freed + e /\ Len(buffers') = Len(buffers) - e
      /\ buffers' \in Seq(Nat)
      /\ totalSize' = totalSize - n
      /\ freeSpaceInLastBuffer > 0 => Len(buffers') > 0
  BY Pops
<1>2. \A i \in 1..Len(buffers') : buffers'[i] = Freed' + i
  BY Pops
<1>3. /\ committedBytes' = committedBytes - n
      /\ memory' = [b \in {buffers'[i] : i \in DOMAIN buffers'} |-> memory[b]]
      /\ transferred' = NoSend /\ inFlight' = <<>>
      /\ UNCHANGED <<freeSpaceInLastBuffer, endBlock, blocks, pushed, taken>>
  BY DEF HandleSend
<1> HIDE DEF n, e
<1>4. /\ totalSize \in Nat /\ committedBytes \in 0..totalSize
      /\ Freed \in Nat /\ blocks \in Nat /\ blocks = Freed + Len(buffers)
  BY Sizes DEF SInv, Layout
<1>14. /\ Freed' \in Nat /\ blocks' = Freed' + Len(buffers')
       /\ Len(buffers') \in Nat
  <2>1. blocks' = blocks
    BY <1>3
  <2> QED BY <1>1, <1>4, <2>1
<1>15. Freed <= Freed' /\ Freed \in Nat
  BY <1>1, <1>4
<1>5. Layout'
  <2>1. committedBytes' \in 0..totalSize' /\ Freed' \in Nat
    BY <1>1, <1>3, <1>4
  <2> QED BY <1>1, <1>2, <1>3, <2>1 DEF SInv, Layout
<1>6. DOMAIN memory' = (Freed' + 1)..blocks'
  <2>1. DOMAIN buffers' = 1..Len(buffers')
    BY <1>1, LenProperties
  <2>2. ASSUME NEW b \in (Freed' + 1)..blocks'
        PROVE  b \in {buffers'[i] : i \in DOMAIN buffers'}
    <3> DEFINE i == b - Freed'
    <3>1. i \in 1..Len(buffers') /\ Freed' + i = b
      <4>1. \A f, l \in Nat : \A x \in (f + 1)..(f + l) : x - f \in 1..l /\ f + (x - f) = x
        OBVIOUS
      <4> QED BY <1>14, <4>1, Zenon
    <3> HIDE DEF i
    <3>2. buffers'[i] = b /\ i \in DOMAIN buffers'
      BY <1>2, <2>1, <3>1
    <3> QED BY <3>2
  <2>3. ASSUME NEW i \in DOMAIN buffers'  PROVE buffers'[i] \in (Freed' + 1)..blocks'
    <3>1. Freed' + i \in (Freed' + 1)..blocks'
      BY <1>14, <2>1
    <3> QED BY <1>2, <2>1, <3>1
  <2> QED BY <1>3, <2>2, <2>3
<1>7. \A b \in DOMAIN memory' : b \in DOMAIN memory /\ memory'[b] = memory[b]
  <2>1. \A b \in DOMAIN memory' : b \in (Freed + 1)..blocks
    <3>1. blocks' = blocks
      BY <1>3
    <3> QED BY <1>6, <1>14, <1>15, <3>1
  <2> QED BY <1>3, <2>1 DEF SInv, Held
<1>8. Held'
  <2>1. \A b \in DOMAIN memory' : memory'[b] \in [0..(BufferSize - 1) -> 0..pushed']
    BY <1>3, <1>7 DEF SInv, Held
  <2>2. ASSUME NEW q \in (Freed' * BufferSize + 1)..pushed'
        PROVE  memory'[BlockOf(q)][OffsetOf(q)] = q
    <3> DEFINE before == Freed * BufferSize
               after == Freed' * BufferSize
               all == blocks * BufferSize
    <3>1. /\ before \in Nat /\ all \in Nat /\ pushed = all - freeSpaceInLastBuffer
          /\ freeSpaceInLastBuffer \in Nat /\ pushed \in Nat
      BY Sizes, SizeType DEF SInv, Layout
    <3>2. before <= after /\ after \in Int
      BY <1>14, <1>15, TimesAtMost, TimesType
    <3>3. /\ q \in Nat \ {0} /\ q > after /\ q <= all
          /\ q \in (before + 1)..pushed
      <4> HIDE DEF before, after, all
      <4>1. q \in (after + 1)..pushed
        BY <1>3 DEF after
      <4> QED BY <3>1, <3>2, <4>1
    <3>4. BlockOf(q) \in (Freed' + 1)..blocks'
      <4>1. Freed' \in Nat
        BY <1>14
      <4> QED BY <1>3, <1>4, <3>3, <4>1, BlockBounds
    <3>5. memory[BlockOf(q)][OffsetOf(q)] = q
      BY <3>3 DEF SInv, Held
    <3> QED BY <1>6, <1>7, <3>4, <3>5
  <2> QED BY <1>6, <2>1, <2>2 DEF Held
<1>9. Sending'
  BY <1>3 DEF Sending
<1> QED BY <1>5, <1>8, <1>9 DEF SInv
----------------------------------------------------------------------------
(* push() allocates as many blocks as it needs and no more.                *)
LEMMA NewBlocksFit ==
  ASSUME NEW n \in Nat, freeSpaceInLastBuffer \in 0..(BufferSize - 1)
  PROVE  LET k == NewBlocks(n)
             left == freeSpaceInLastBuffer + k * BufferSize - n
         IN  /\ k \in Nat /\ k * BufferSize \in Nat /\ left \in 0..(BufferSize - 1)
             /\ left > 0 /\ k = 0 => freeSpaceInLastBuffer > 0
<1> DEFINE k == NewBlocks(n)
           out == k * BufferSize
           left == freeSpaceInLastBuffer + out - n
<1>1. CASE n <= freeSpaceInLastBuffer
  <2>1. k = 0
    BY <1>1 DEF NewBlocks
  <2>2. out = 0
    BY <2>1, SizeType
  <2> HIDE DEF k, out
  <2>3. left \in 0..(BufferSize - 1) /\ (left > 0 => freeSpaceInLastBuffer > 0)
    BY <1>1, <2>2, SizeType
  <2> HIDE DEF left
  <2> QED BY <2>1, <2>2, <2>3 DEF k, out, left
<1>2. CASE ~(n <= freeSpaceInLastBuffer)
  <2> DEFINE q == n - freeSpaceInLastBuffer + BufferSize - 1
             m == q % BufferSize
  <2>1. q \in Nat /\ q >= BufferSize
    BY <1>2, SizeType
  <2>2. k = q \div BufferSize
    BY <1>2 DEF NewBlocks
  <2>3. q = n - freeSpaceInLastBuffer + BufferSize - 1
    OBVIOUS
  <2> HIDE DEF q
  <2>4. q \div BufferSize \in Nat /\ m \in 0..(BufferSize - 1)
        /\ q = (q \div BufferSize) * BufferSize + m
    BY <2>1, SizeDivMod
  <2>5. k \in Nat /\ q = out + m
    BY <2>2, <2>4
  <2>6. out \in Int
    BY <2>5, TimesType
  <2> HIDE DEF k, m
  <2>7. k > 0
    <3>1. k = 0 => out = 0
      BY SizeType
    <3> HIDE DEF out
    <3> QED BY <2>1, <2>4, <2>5, <2>6, <3>1, SizeType
  <2> HIDE DEF out
  <2>8. left \in 0..(BufferSize - 1) /\ out \in Nat
    BY <2>1, <2>3, <2>4, <2>5, <2>6, SizeType
  <2> HIDE DEF left
  <2> QED BY <2>5, <2>7, <2>8 DEF k, out, left
<1> QED BY <1>1, <1>2

(* push(): the numbers of blocks and bytes after it.                       *)
LEMMA Pushes ==
  ASSUME SInv, NEW n \in PushSizes, Push(n)
  PROVE  LET k == NewBlocks(n)
         IN  /\ n \in Nat /\ k \in Nat
             /\ freeSpaceInLastBuffer' \in 0..(BufferSize - 1)
             /\ freeSpaceInLastBuffer' > 0 => Len(buffers') > 0
             /\ freeSpaceInLastBuffer' = freeSpaceInLastBuffer + k * BufferSize - n
             /\ k * BufferSize \in Nat
             /\ blocks' = blocks + k /\ endBlock' = blocks' /\ blocks' \in Nat
             /\ buffers' \in Seq(Nat) /\ Len(buffers') = Len(buffers) + k
             /\ Freed' = Freed
             /\ pushed' = blocks' * BufferSize - freeSpaceInLastBuffer'
             /\ totalSize' = totalSize + n /\ Popped' = Popped
<1> DEFINE k == NewBlocks(n)
           new == [i \in 1..k |-> blocks + i]
           path == <<endBlock>> \o new
           out == k * BufferSize
           held == Len(buffers) * BufferSize
           all == blocks * BufferSize
<1>0. n \in Nat
  BY SendBufferAssumption
<1>1. /\ Len(buffers) \in Nat /\ blocks = Freed + Len(buffers)
      /\ held \in Nat /\ all \in Nat
      /\ totalSize = held - freeSpaceInLastBuffer - firstElementIndex
  BY Sizes DEF SInv
<1>2. /\ freeSpaceInLastBuffer \in 0..(BufferSize - 1)
      /\ firstElementIndex \in 0..(BufferSize - 1)
      /\ freeSpaceInLastBuffer > 0 => Len(buffers) > 0
      /\ blocks \in Nat /\ Freed \in Nat /\ buffers \in Seq(Nat) /\ endBlock = blocks
      /\ pushed = all - freeSpaceInLastBuffer
  BY DEF SInv, Layout
<1>3. /\ k \in Nat /\ out \in Nat
      /\ freeSpaceInLastBuffer + out - n \in 0..(BufferSize - 1)
      /\ freeSpaceInLastBuffer + out - n > 0 /\ k = 0 => freeSpaceInLastBuffer > 0
  BY <1>0, <1>2, NewBlocksFit
<1>4. /\ buffers' = buffers \o new
      /\ freeSpaceInLastBuffer' = freeSpaceInLastBuffer + out - n
      /\ endBlock' = path[k + 1]
      /\ blocks' = blocks + k
      /\ pushed' = pushed + n
      /\ firstElementIndex' = firstElementIndex
  BY DEF Push
<1> HIDE DEF k
<1>5. new \in Seq(Nat) /\ Len(new) = k
  <2>1. new \in [1..k -> Nat]
    BY <1>2, <1>3
  <2> HIDE DEF new
  <2> QED BY <1>3, <2>1, LenIs
<1>6. endBlock' = blocks'
  <2>1. <<endBlock>> \in Seq(Nat) /\ Len(<<endBlock>>) = 1 /\ <<endBlock>>[1] = endBlock
    BY <1>2
  <2>2. CASE k = 0
    <3>1. path[1] = endBlock
      <4> HIDE DEF new
      <4> QED BY <1>5, <2>1, ConcatProperties
    <3> HIDE DEF path
    <3> QED BY <1>2, <1>4, <2>2, <3>1
  <2>3. CASE k # 0
    <3>1. k \in 1..k /\ k + 1 \in 1..(1 + k) /\ k + 1 > 1 /\ (k + 1) - 1 = k
      BY <1>3, <2>3
    <3>2. path[k + 1] = new[k]
      <4> HIDE DEF new
      <4> QED BY <1>5, <2>1, <3>1, ConcatProperties
    <3>3. new[k] = blocks + k
      BY <3>1
    <3> QED BY <1>4, <3>2, <3>3
  <2> QED BY <2>2, <2>3
<1>7. buffers' \in Seq(Nat) /\ Len(buffers') = Len(buffers) + k
  <2> HIDE DEF new
  <2> QED BY <1>2, <1>4, <1>5, ConcatProperties
<1> HIDE DEF path, new
<1>8. Freed' = Freed
  <2>1. Freed' = blocks' - Len(buffers') /\ Freed = blocks - Len(buffers)
    BY DEF Freed
  <2>2. blocks' = blocks + k /\ Len(buffers') = Len(buffers) + k
    BY <1>4, <1>7
  <2>3. Len(buffers) \in Nat /\ k \in Nat /\ blocks \in Nat
    BY <1>1, <1>2, <1>3
  <2> QED BY <2>1, <2>2, <2>3
<1>9. Popped' = Popped
  BY <1>4, <1>8 DEF Popped
<1>10. /\ blocks' * BufferSize = all + out
       /\ Len(buffers') * BufferSize = held + out
  BY <1>1, <1>2, <1>3, <1>4, <1>7, TimesSum
<1>11. totalSize' = (held + out) - freeSpaceInLastBuffer' - firstElementIndex
  BY <1>4, <1>10 DEF totalSize
<1> HIDE DEF held, all, out
<1>12. totalSize' = totalSize + n
  BY <1>0, <1>1, <1>2, <1>3, <1>4, <1>11, SizeType
<1>13. pushed' = blocks' * BufferSize - freeSpaceInLastBuffer'
  <2>2. all \in Int /\ out \in Int /\ freeSpaceInLastBuffer \in Int /\ n \in Int
    BY <1>0, <1>1, <1>2, <1>3
  <2>3. (all - freeSpaceInLastBuffer) + n = (all + out) - (freeSpaceInLastBuffer + out - n)
    BY <2>2
  <2>4. pushed' = (all - freeSpaceInLastBuffer) + n
    BY <1>2, <1>4
  <2>5. /\ blocks' * BufferSize = all + out
        /\ freeSpaceInLastBuffer' = freeSpaceInLastBuffer + out - n
    BY <1>4, <1>10
  <2> QED BY <2>3, <2>4, <2>5
<1>14. freeSpaceInLastBuffer' > 0 => Len(buffers') > 0
  BY <1>1, <1>2, <1>3, <1>4, <1>7
<1>15. blocks' \in Nat
  BY <1>2, <1>3, <1>4
<1> QED BY <1>0, <1>3, <1>4, <1>6, <1>7, <1>8, <1>9, <1>12, <1>13, <1>14, <1>15 DEF k, out

(* push(): where it writes each byte.                                      *)
LEMMA Writes ==
  ASSUME SInv, NEW n \in PushSizes, Push(n), NEW i \in 1..n
  PROVE  LET k == NewBlocks(n)
             path == <<endBlock>> \o [j \in 1..k |-> blocks + j]
             place == BufferSize - freeSpaceInLastBuffer + i - 1
         IN  /\ path[place \div BufferSize + 1] = BlockOf(pushed + i)
             /\ place % BufferSize = OffsetOf(pushed + i)
<1> DEFINE k == NewBlocks(n)
           new == [j \in 1..k |-> blocks + j]
           path == <<endBlock>> \o new
           place == BufferSize - freeSpaceInLastBuffer + i - 1
           d == place \div BufferSize
           all == blocks * BufferSize
           more == (k + 1) * BufferSize
<1>1. /\ freeSpaceInLastBuffer \in 0..(BufferSize - 1)
      /\ blocks \in Nat /\ endBlock = blocks /\ pushed \in Nat
      /\ pushed = all - freeSpaceInLastBuffer
  BY DEF SInv, Layout
<1>2. /\ n \in Nat /\ k \in Nat /\ k * BufferSize \in Nat
      /\ freeSpaceInLastBuffer + k * BufferSize - n \in 0..(BufferSize - 1)
  BY <1>1, NewBlocksFit, SendBufferAssumption
<1>3. all \in Nat /\ more = k * BufferSize + BufferSize
  <2>1. all \in Nat
    BY Sizes DEF SInv
  <2>2. (k + 1) * BufferSize = k * BufferSize + 1 * BufferSize
    BY <1>2, TimesSum
  <2> HIDE DEF k, all
  <2> QED BY <2>1, <2>2, SizeType
<1>4. i \in Nat /\ i > 0 /\ i <= n
  BY <1>2
<1> HIDE DEF k
<1>5. place \in Nat /\ place < more
  <2> DEFINE out == k * BufferSize
  <2>1. out \in Nat /\ more = out + BufferSize
        /\ freeSpaceInLastBuffer + out - n \in 0..(BufferSize - 1)
    BY <1>2, <1>3
  <2> HIDE DEF out, more
  <2> QED BY <1>1, <1>2, <1>4, <2>1, SizeType
<1>6. all + place = (pushed + i - 1) + BufferSize /\ pushed + i - 1 \in Nat
  <2> HIDE DEF all
  <2> QED BY <1>1, <1>3, <1>4, SizeType
<1>7. d \in Nat /\ d < k + 1
  <2> HIDE DEF place
  <2>1. d \in Nat
    BY <1>5, SizeDivMod
  <2>2. d < k + 1
    <3>1. k + 1 \in Nat
      BY <1>2
    <3> QED BY <1>5, <3>1, DivLess
  <2> QED BY <2>1, <2>2
<1>8. /\ BlockOf(pushed + i) = blocks + d
      /\ OffsetOf(pushed + i) = place % BufferSize
  <2> DEFINE q == (pushed + i) - 1
  <2>0. q = pushed + i - 1
    BY <1>1, <1>4
  <2>1. q \in Nat
    BY <1>6, <2>0
  <2>2. /\ (all + place) \div BufferSize = blocks + d
        /\ (all + place) % BufferSize = place % BufferSize
    <3> HIDE DEF place
    <3> QED BY <1>1, <1>5, Shift
  <2>3. /\ (1 * BufferSize + q) \div BufferSize = 1 + (q \div BufferSize)
        /\ (1 * BufferSize + q) % BufferSize = q % BufferSize
    <3> HIDE DEF q
    <3> QED BY <2>1, Shift
  <2>4. all + place = 1 * BufferSize + q
    <3>1. all + place = q + BufferSize /\ 1 * BufferSize = BufferSize
      BY <1>6, <2>0, SizeType
    <3> HIDE DEF q, place, all
    <3> QED BY <2>1, <3>1, SizeType
  <2>5. q \div BufferSize \in Nat
    <3> HIDE DEF q
    <3> QED BY <2>1, SizeDivMod
  <2>6. BlockOf(pushed + i) = (q \div BufferSize) + 1 /\ OffsetOf(pushed + i) = q % BufferSize
    BY Zenon DEF BlockOf, OffsetOf
  <2>7. 1 + (q \div BufferSize) = (q \div BufferSize) + 1
    <3> HIDE DEF q
    <3> QED BY <2>5
  <2> HIDE DEF q, place, d, all
  <2>8. BlockOf(pushed + i) = (all + place) \div BufferSize
    BY <2>3, <2>4, <2>6, <2>7
  <2>9. OffsetOf(pushed + i) = (all + place) % BufferSize
    BY <2>3, <2>4, <2>6
  <2> QED BY <2>2, <2>8, <2>9
<1> HIDE DEF place, d, all, more
<1>9. path[d + 1] = blocks + d
  <2>1. <<endBlock>> \in Seq(Nat) /\ Len(<<endBlock>>) = 1 /\ <<endBlock>>[1] = endBlock
    BY <1>1
  <2>2. new \in Seq(Nat) /\ Len(new) = k
    <3>1. new \in [1..k -> Nat]
      BY <1>1, <1>2
    <3> HIDE DEF new
    <3> QED BY <1>2, <3>1, LenIs
  <2>3. CASE d = 0
    <3>1. path[1] = endBlock
      <4> HIDE DEF new
      <4> QED BY <2>1, <2>2, ConcatProperties
    <3> HIDE DEF path
    <3> QED BY <1>1, <2>3, <3>1
  <2>4. CASE d # 0
    <3>1. d \in 1..k /\ d + 1 \in 1..(1 + k) /\ d + 1 > 1 /\ (d + 1) - 1 = d
      BY <1>2, <1>7, <2>4
    <3>2. path[d + 1] = new[d]
      <4> HIDE DEF new
      <4> QED BY <2>1, <2>2, <3>1, ConcatProperties
    <3>3. new[d] = blocks + d
      BY <3>1
    <3> QED BY <3>2, <3>3
  <2> QED BY <2>3, <2>4
<1> QED BY <1>8, <1>9 DEF k, place, d
----------------------------------------------------------------------------
(* push(): the blocks there are then, and what they hold.                  *)
LEMMA Stores ==
  ASSUME SInv, NEW n \in PushSizes, Push(n)
  PROVE  /\ DOMAIN memory' = (Freed + 1)..blocks'
         /\ \A b \in DOMAIN memory' : memory'[b] \in [0..(BufferSize - 1) -> 0..pushed']
         /\ \A q \in (Freed * BufferSize + 1)..pushed' :
              memory'[BlockOf(q)][OffsetOf(q)] = q
<1> DEFINE k == NewBlocks(n)
           new == [j \in 1..k |-> blocks + j]
           path == <<endBlock>> \o new
           Place(i) == BufferSize - freeSpaceInLastBuffer + i - 1
           Here(b, o) == {i \in 1..n : /\ path[Place(i) \div BufferSize + 1] = b
                                       /\ Place(i) % BufferSize = o}
           Old(b, o) == IF b \in DOMAIN memory THEN memory[b][o] ELSE 0
           Cell(b, o) == IF Here(b, o) # {} THEN pushed + (CHOOSE i \in Here(b, o) : TRUE)
                         ELSE Old(b, o)
           All == DOMAIN memory \cup {new[i] : i \in 1..k}
<1>1. memory' = [b \in All |-> [o \in 0..(BufferSize - 1) |-> Cell(b, o)]]
      /\ pushed' = pushed + n
  BY DEF Push
<1>2. /\ n \in Nat /\ k \in Nat /\ blocks' = blocks + k /\ blocks' \in Nat
      /\ freeSpaceInLastBuffer' \in 0..(BufferSize - 1)
      /\ pushed' = blocks' * BufferSize - freeSpaceInLastBuffer'
  BY Pushes
<1>3. /\ pushed \in Nat /\ blocks \in Nat /\ Freed \in Nat
      /\ pushed = blocks * BufferSize - freeSpaceInLastBuffer
      /\ freeSpaceInLastBuffer \in Nat
  BY SizeType DEF SInv, Layout
<1>4. /\ DOMAIN memory = (Freed + 1)..blocks
      /\ \A b \in DOMAIN memory : memory[b] \in [0..(BufferSize - 1) -> 0..pushed]
      /\ \A q \in (Freed * BufferSize + 1)..pushed : memory[BlockOf(q)][OffsetOf(q)] = q
  BY DEF SInv, Held
<1>5. blocks = Freed + Len(buffers) /\ Len(buffers) \in Nat /\ Freed * BufferSize \in Nat
  BY Sizes DEF SInv
<1> HIDE DEF k
<1>6. All = (Freed + 1)..blocks'
  <2>1. {new[i] : i \in 1..k} = (blocks + 1)..(blocks + k)
    <3>1. \A i \in 1..k : new[i] = blocks + i /\ blocks + i \in (blocks + 1)..(blocks + k)
      BY <1>2, <1>3
    <3>2. ASSUME NEW b \in (blocks + 1)..(blocks + k)
          PROVE  b \in {new[i] : i \in 1..k}
      <4>1. b - blocks \in 1..k /\ blocks + (b - blocks) = b
        BY <1>2, <1>3
      <4>2. new[b - blocks] = b
        BY <3>1, <4>1
      <4> HIDE DEF new
      <4> QED BY <4>1, <4>2
    <3> HIDE DEF new
    <3> QED BY <3>1, <3>2
  <2>2. All = ((Freed + 1)..blocks) \cup ((blocks + 1)..(blocks + k))
    BY <1>4, <2>1
  <2> HIDE DEF All
  <2>3. ((Freed + 1)..blocks) \cup ((blocks + 1)..(blocks + k)) = (Freed + 1)..(blocks + k)
    <3>1. Freed <= blocks
      BY <1>3, <1>5
    <3> QED BY <1>2, <1>3, <3>1
  <2> QED BY <1>2, <2>2, <2>3
<1>7. DOMAIN memory' = (Freed + 1)..blocks'
  <2> HIDE DEF All
  <2> QED BY <1>1, <1>6
<1>8. ASSUME NEW b, NEW o, NEW i \in 1..n
      PROVE  i \in Here(b, o) <=> BlockOf(pushed + i) = b /\ OffsetOf(pushed + i) = o
  <2>1. /\ path[Place(i) \div BufferSize + 1] = BlockOf(pushed + i)
        /\ Place(i) % BufferSize = OffsetOf(pushed + i)
    BY Writes DEF k
  <2> HIDE DEF path, Place
  <2> QED BY <2>1
<1> HIDE DEF path, Place, new
<1>9. \A b, o : Here(b, o) \subseteq 1..n
  OBVIOUS
<1> HIDE DEF Here
<1>10. ASSUME NEW b \in DOMAIN memory', NEW o \in 0..(BufferSize - 1)
       PROVE  Cell(b, o) \in 0..pushed'
  <2>1. CASE Here(b, o) # {}
    <3>1. (CHOOSE i \in Here(b, o) : TRUE) \in 1..n
      BY <1>9, <2>1
    <3>2. pushed + (CHOOSE i \in Here(b, o) : TRUE) \in 0..pushed'
      <4> DEFINE i == CHOOSE i \in Here(b, o) : TRUE
      <4>1. i \in 1..n
        BY <3>1
      <4> HIDE DEF i
      <4>2. pushed + i \in 0..(pushed + n)
        BY <1>2, <1>3, <4>1
      <4> QED BY <1>1, <4>2 DEF i
    <3> QED BY <2>1, <3>2
  <2>2. CASE Here(b, o) = {}
    <3>1. Old(b, o) \in 0..pushed
      <4>1. \A c \in DOMAIN memory : memory[c] \in [0..(BufferSize - 1) -> 0..pushed]
        BY <1>4
      <4>2. 0 \in 0..pushed
        BY <1>3
      <4> QED BY <4>1, <4>2
    <3>2. pushed <= pushed' /\ pushed' \in Nat
      BY <1>1, <1>2, <1>3
    <3> QED BY <1>3, <2>2, <3>1, <3>2
  <2> QED BY <2>1, <2>2
<1>11. ASSUME NEW b \in DOMAIN memory'
       PROVE  memory'[b] \in [0..(BufferSize - 1) -> 0..pushed']
  <2>1. \A o \in 0..(BufferSize - 1) : Cell(b, o) \in 0..pushed'
    BY <1>10
  <2> HIDE DEF Cell
  <2>2. memory'[b] = [o \in 0..(BufferSize - 1) |-> Cell(b, o)]
    BY <1>1
  <2> QED BY <2>1, <2>2
<1>12. ASSUME NEW q \in (Freed * BufferSize + 1)..pushed'
       PROVE  memory'[BlockOf(q)][OffsetOf(q)] = q
  <2> DEFINE before == Freed * BufferSize
             all == blocks' * BufferSize
             b == BlockOf(q)
             o == OffsetOf(q)
  <2>1. /\ q \in Nat \ {0} /\ q > before /\ q <= all /\ pushed' \in Nat
        /\ q <= pushed'
    <3>1. all \in Int /\ before \in Nat /\ pushed' = all - freeSpaceInLastBuffer'
          /\ freeSpaceInLastBuffer' \in Nat /\ pushed' \in Nat
      <4>1. all \in Int
        BY <1>2, TimesType
      <4>2. before \in Nat
        BY <1>5
      <4>3. pushed' \in Nat
        BY <1>1, <1>2, <1>3
      <4>4. freeSpaceInLastBuffer' \in Nat
        BY <1>2, SizeType
      <4> HIDE DEF before
      <4> QED BY <1>2, <4>1, <4>2, <4>3, <4>4
    <3>2. q \in (before + 1)..pushed'
      OBVIOUS
    <3>3. \A x, y, z, f \in Int : \A c \in (x + 1)..y :
            x >= 0 /\ f >= 0 /\ y = z - f => c \in Nat \ {0} /\ c > x /\ c <= z /\ c <= y
      OBVIOUS
    <3> HIDE DEF before, all
    <3>4. /\ before \in Int /\ pushed' \in Int /\ all \in Int
          /\ freeSpaceInLastBuffer' \in Int
          /\ before >= 0 /\ freeSpaceInLastBuffer' >= 0
      BY <3>1
    <3> QED BY <3>1, <3>2, <3>3, <3>4, Zenon
  <2>2. b \in (Freed + 1)..blocks'
    BY <1>2, <1>3, <2>1, BlockBounds
  <2>3. o \in 0..(BufferSize - 1)
    BY <2>1, PlaceOf
  <2>4. memory'[b][o] = Cell(b, o)
    <3> HIDE DEF Cell, All, b, o
    <3>1. b \in All
      BY <1>6, <2>2
    <3> QED BY <1>1, <2>3, <3>1
  <2>5. CASE q <= pushed
    <3>1. Here(b, o) = {}
      <4> SUFFICES ASSUME NEW i \in Here(b, o)  PROVE FALSE
        OBVIOUS
      <4>1. i \in 1..n
        BY <1>9
      <4>2. BlockOf(pushed + i) = b /\ OffsetOf(pushed + i) = o
        BY <1>8, <4>1
      <4>3. pushed + i \in Nat \ {0} /\ pushed + i # q
        BY <1>2, <1>3, <2>1, <2>5, <4>1
      <4> QED BY <2>1, <4>2, <4>3, SamePlace
    <3>2. memory[b][o] = q
      <4>1. q \in (Freed * BufferSize + 1)..pushed
        <5> HIDE DEF b, o, all
        <5>1. before \in Nat
          BY <1>5
        <5>2. q \in (before + 1)..pushed
          <6> HIDE DEF before
          <6> QED BY <1>3, <2>1, <2>5, <5>1
        <5> QED BY <5>2
      <4> QED BY <1>4, <4>1
    <3>3. b \in DOMAIN memory
      <4>1. q <= blocks * BufferSize
        <5> DEFINE held == blocks * BufferSize
        <5>1. held \in Int /\ pushed = held - freeSpaceInLastBuffer
          BY <1>3, TimesType
        <5> HIDE DEF held
        <5>2. q <= held
          <6> HIDE DEF before, all
          <6> QED BY <1>3, <2>1, <2>5, <5>1
        <5> QED BY <5>2 DEF held
      <4>2. b \in (Freed + 1)..blocks
        BY <1>3, <2>1, <4>1, BlockBounds
      <4> QED BY <1>4, <4>2
    <3> HIDE DEF b, o
    <3>4. memory'[b][o] = q
      BY <2>4, <3>1, <3>2, <3>3
    <3> QED BY <3>4 DEF b, o
  <2>6. CASE ~(q <= pushed)
    <3> DEFINE i == q - pushed
    <3>1. i \in 1..n /\ pushed + i = q
      <4> HIDE DEF before, all
      <4> QED BY <1>1, <1>2, <1>3, <2>1, <2>6
    <3> HIDE DEF i
    <3>2. i \in Here(b, o)
      BY <1>8, <3>1
    <3>3. ASSUME NEW j \in Here(b, o)  PROVE j = i
      <4>1. j \in 1..n
        BY <1>9
      <4>2. BlockOf(pushed + j) = b /\ OffsetOf(pushed + j) = o
        BY <1>8, <4>1
      <4>3. pushed + j \in Nat \ {0}
        BY <1>2, <1>3, <4>1
      <4>4. pushed + j = q
        BY <2>1, <4>2, <4>3, SamePlace
      <4> QED BY <1>2, <1>3, <3>1, <4>1, <4>4
    <3>4. (CHOOSE j \in Here(b, o) : TRUE) = i
      BY <3>2, <3>3
    <3> HIDE DEF b, o
    <3>5. Cell(b, o) = pushed + i
      BY <3>2, <3>4
    <3>6. memory'[b][o] = q
      BY <2>4, <3>1, <3>5
    <3> QED BY <3>6 DEF b, o
  <2> QED BY <2>5, <2>6
<1> QED BY <1>7, <1>11, <1>12

LEMMA SInvPush ==
  ASSUME SInv, NEW n \in PushSizes, Push(n)  PROVE SInv'
<1> DEFINE k == NewBlocks(n)
<1>1. /\ n \in Nat /\ k \in Nat
      /\ freeSpaceInLastBuffer' \in 0..(BufferSize - 1)
      /\ freeSpaceInLastBuffer' > 0 => Len(buffers') > 0
      /\ blocks' = blocks + k /\ endBlock' = blocks' /\ blocks' \in Nat
      /\ buffers' \in Seq(Nat) /\ Len(buffers') = Len(buffers) + k
      /\ Freed' = Freed
      /\ pushed' = blocks' * BufferSize - freeSpaceInLastBuffer'
      /\ totalSize' = totalSize + n /\ Popped' = Popped
  BY Pushes
<1>2. /\ pushed' = pushed + n
      /\ buffers' = buffers \o [i \in 1..k |-> blocks + i]
      /\ UNCHANGED <<firstElementIndex, committedBytes, inFlight, transferred, taken>>
  BY DEF Push
<1> HIDE DEF k
<1>3. /\ totalSize \in Nat /\ committedBytes \in 0..totalSize /\ Freed \in Nat
      /\ blocks = Freed + Len(buffers) /\ Len(buffers) \in Nat /\ pushed \in Nat
      /\ blocks \in Nat
  BY Sizes DEF SInv, Layout
<1>4. \A i \in 1..Len(buffers') : buffers'[i] = Freed' + i
  <2> DEFINE new == [i \in 1..k |-> blocks + i]
  <2>1. new \in Seq(Nat) /\ Len(new) = k
    <3>1. new \in [1..k -> Nat]
      BY <1>1, <1>3
    <3> HIDE DEF new
    <3> QED BY <1>1, <3>1, LenIs
  <2>2. buffers \in Seq(Nat) /\ \A i \in 1..Len(buffers) : buffers[i] = Freed + i
    BY DEF SInv, Layout
  <2> SUFFICES ASSUME NEW i \in 1..Len(buffers')  PROVE buffers'[i] = Freed + i
    BY <1>1
  <2>3. i \in 1..(Len(buffers) + k)
    BY <1>1
  <2>4. buffers'[i] = IF i <= Len(buffers) THEN buffers[i] ELSE new[i - Len(buffers)]
    <3>1. buffers' = buffers \o new
      BY <1>2
    <3> HIDE DEF new
    <3>2. \A j \in 1..(Len(buffers) + Len(new)) : (buffers \o new)[j] =
            IF j <= Len(buffers) THEN buffers[j] ELSE new[j - Len(buffers)]
      BY <2>1, <2>2, ConcatProperties
    <3> QED BY <2>1, <2>3, <3>1, <3>2
  <2>5. CASE i <= Len(buffers)
    <3>1. i \in 1..Len(buffers)
      BY <1>1, <1>3, <2>3, <2>5
    <3> QED BY <2>2, <2>4, <2>5, <3>1
  <2>6. CASE ~(i <= Len(buffers))
    <3>1. i - Len(buffers) \in 1..k /\ blocks + (i - Len(buffers)) = Freed + i
      <4>1. \A f, l, c \in Nat : \A j \in 1..(l + c) :
              ~(j <= l) => j - l \in 1..c /\ (f + l) + (j - l) = f + j
        OBVIOUS
      <4>2. i - Len(buffers) \in 1..k /\ (Freed + Len(buffers)) + (i - Len(buffers)) = Freed + i
        BY <1>1, <1>3, <2>3, <2>6, <4>1
      <4> QED BY <1>3, <4>2
    <3>2. new[i - Len(buffers)] = blocks + (i - Len(buffers))
      BY <3>1
    <3> QED BY <2>4, <2>6, <3>1, <3>2
  <2> QED BY <2>5, <2>6
<1>5. committedBytes' \in 0..totalSize' /\ pushed' \in Nat
  BY <1>1, <1>2, <1>3
<1>6. Layout'
  BY <1>1, <1>2, <1>4, <1>5 DEF SInv, Layout
<1>7. Held'
  BY <1>1, Stores DEF Held
<1>8. Sending'
  <2>1. inFlight \in Seq(RegionType(blocks'))
    <3>1. RegionType(blocks) \subseteq RegionType(blocks')
      <4>1. 1..blocks \subseteq 1..blocks'
        BY <1>1, <1>3
      <4> QED BY <4>1 DEF RegionType
    <3>2. inFlight \in Seq(RegionType(blocks))
      BY DEF SInv, Sending
    <3> QED BY <3>1, <3>2
  <2>2. ASSUME transferred # NoSend
        PROVE  \E m \in 1..committedBytes' :
                 Covers(PlacesOf(inFlight), m)' /\ transferred' <= m
    <3>1. PICK m \in 1..committedBytes : Covers(PlacesOf(inFlight), m) /\ transferred <= m
      BY <2>2 DEF SInv, Sending
    <3>2. Covers(PlacesOf(inFlight), m)'
      BY <1>1, <1>2, <3>1 DEF Covers
    <3> QED BY <1>2, <3>1, <3>2
  <2> QED BY <1>2, <2>1, <2>2 DEF SInv, Sending
<1> QED BY <1>6, <1>7, <1>8 DEF SInv
----------------------------------------------------------------------------
(* SInv is an invariant.                                                   *)
LEMMA SInvStep == SInv /\ [Next]_vars => SInv'
<1> SUFFICES ASSUME SInv, [Next]_vars  PROVE SInv'
  OBVIOUS
<1>1. ASSUME NEW n \in PushSizes, Push(n)  PROVE SInv'
  BY <1>1, SInvPush
<1>2. CASE Commit
  BY <1>2, SInvCommit
<1>3. CASE StartSend
  BY <1>3, SInvStartSend
<1>4. CASE OsTake
  BY <1>4, SInvOsTake
<1>5. CASE HandleSend
  BY <1>5, SInvHandleSend
<1>6. CASE UNCHANGED vars
  <2> USE <1>6 DEF vars, bufferVars
  <2>1. Freed' = Freed /\ totalSize' = totalSize /\ Popped' = Popped
    BY DEF Freed, totalSize, Popped
  <2>2. Layout'
    BY <2>1 DEF SInv, Layout
  <2>3. Held'
    BY <2>1 DEF SInv, Held
  <2>4. Sending'
    <3>1. ASSUME NEW m, Covers(PlacesOf(inFlight), m)
          PROVE  Covers(PlacesOf(inFlight), m)'
      BY <2>1, <3>1 DEF Covers
    <3> QED BY <3>1 DEF SInv, Sending
  <2> QED BY <2>2, <2>3, <2>4 DEF SInv
<1> QED BY <1>1, <1>2, <1>3, <1>4, <1>5, <1>6 DEF Next

LEMMA SInvAlways == Spec => []SInv
BY SInvInit, SInvStep, PTL DEF Spec

(* Without committed bytes there are no regions.                           *)
LEMMA NothingOffered ==
  ASSUME Layout, committedBytes = 0
  PROVE  /\ Regions \in Seq(RegionType(blocks)) /\ Len(Regions) = 0
         /\ Len(PlacesOf(Regions)) = 0
<1>1. \A i \in 1..Len(buffers) : ~(OfferedBefore(i) < committedBytes)
  <2>1. \A i \in 1..Len(buffers) : OfferedBefore(i) \in Nat
    BY Offers
  <2> QED BY <2>1
<1>2. {i \in 1..Len(buffers) : OfferedBefore(i) < committedBytes} = {}
  BY <1>1
<1>3. Regions = [i \in 1..0 |-> RegionOf(i)]
  BY <1>2 DEF Regions, RegionOf
<1>4. Regions \in [1..0 -> RegionType(blocks)]
  BY <1>3
<1>5. Regions \in Seq(RegionType(blocks)) /\ Len(Regions) = 0
  BY <1>4, LenIs
<1> DEFINE E == [i \in 1..1 |-> 0]
<1>6. Bounded(Regions, 0, E)
  BY <1>5 DEF Bounded
<1>7. Len(PlacesOf(Regions)) = E[0 + 1]
  <2> HIDE DEF E
  <2> QED BY <1>6, PlacesAre DEF Placed
<1>8. E[0 + 1] = 0
  OBVIOUS
<1> QED BY <1>5, <1>7, <1>8

LEMMA StableFromInv == SInv => RegionsStable
<1> SUFFICES ASSUME SInv  PROVE RegionsStable
  OBVIOUS
<1>1. Layout /\ Held /\ Sending
  BY DEF SInv
<1>2. committedBytes \in 0..totalSize /\ totalSize \in Nat
  BY <1>1, Sizes DEF Layout
<1>3. ASSUME transferred # NoSend
      PROVE  LET places == PlacesOf(inFlight)
             IN /\ Len(places) <= committedBytes
                /\ \A p \in DOMAIN places :
                     places[p][1] \in DOMAIN memory
                     /\ memory[places[p][1]][places[p][2]] = Contents[p]
  <2> DEFINE places == PlacesOf(inFlight)
  <2>1. PICK m \in 1..committedBytes : Covers(places, m)
    BY <1>1, <1>3 DEF Sending
  <2> HIDE DEF places
  <2>2. DOMAIN places = 1..m /\ Len(places) = m
    BY <2>1 DEF Covers
  <2>3. \A p \in 1..m : /\ places[p][1] \in DOMAIN memory
                        /\ memory[places[p][1]][places[p][2]] = Popped + p
    BY <1>1, <2>1, ReadsAre
  <2>4. \A p \in 1..m : Contents[p] = Popped + p
    <3>1. \A p \in 1..m : p \in 1..totalSize
      BY <1>2
    <3>2. \A p \in 1..totalSize : Contents[p] = Popped + p
      BY <1>1, ContentsAre
    <3> QED BY <3>1, <3>2
  <2>5. m <= committedBytes
    BY <1>2
  <2>6. /\ Len(places) <= committedBytes
        /\ \A p \in DOMAIN places :
             places[p][1] \in DOMAIN memory
             /\ memory[places[p][1]][places[p][2]] = Contents[p]
    BY <2>2, <2>3, <2>4, <2>5
  <2> QED BY <2>6 DEF places
<1>4. Regions \in Seq(RegionType(blocks)) /\ Len(PlacesOf(Regions)) = committedBytes
  <2>1. CASE committedBytes = 0
    BY <1>1, <2>1, NothingOffered
  <2>2. CASE committedBytes > 0
    BY <1>1, <2>2, RegionsAre DEF Covers
  <2> QED BY <1>2, <2>1, <2>2
<1>5. \A i \in DOMAIN Regions : Regions[i].size > 0
  <2>1. \A i \in DOMAIN Regions : Regions[i] \in RegionType(blocks)
    BY <1>4
  <2>2. \A r \in RegionType(blocks) : r.size > 0
    BY SizeType DEF RegionType
  <2> QED BY <2>1, <2>2
<1> QED BY <1>3, <1>4, <1>5 DEF RegionsStable

(* What an async_send reads from stays allocated and unchanged until       *)
(* handleSend has popped it, whatever the client pushes and commits        *)
(* meanwhile; and committedAsConstBufferSequence() always offers exactly   *)
(* the committed bytes, in regions none of which is empty.                 *)
THEOREM RegionsAlwaysStable == Spec => []RegionsStable
BY SInvAlways, StableFromInv, PTL

LEMMA TypeFromInv == SInv => TypeOK
<1> SUFFICES ASSUME SInv  PROVE TypeOK
  OBVIOUS
<1> USE DEF SInv
<1>1. /\ blocks = Freed + Len(buffers) /\ Len(buffers) \in Nat
  BY Sizes
<1>2. /\ blocks \in Nat /\ Freed \in Nat /\ buffers \in Seq(Nat)
      /\ \A i \in 1..Len(buffers) : buffers[i] = Freed + i
      /\ endBlock = blocks
  BY DEF Layout
<1>3. buffers \in Seq(1..blocks)
  <2>1. \A i \in 1..Len(buffers) : Freed + i \in 1..blocks
    BY <1>1, <1>2
  <2>2. \A i \in 1..Len(buffers) : buffers[i] \in 1..blocks
    BY <1>2, <2>1
  <2>3. buffers \in [1..Len(buffers) -> 1..blocks]
    BY <1>2, <2>2
  <2> QED BY <1>1, <2>3, LenIs
<1>4. freeSpaceInLastBuffer > 0 => buffers # <<>> /\ endBlock = buffers[Len(buffers)]
  <2> SUFFICES ASSUME freeSpaceInLastBuffer > 0
               PROVE  buffers # <<>> /\ endBlock = buffers[Len(buffers)]
    OBVIOUS
  <2>1. Len(buffers) > 0
    BY DEF Layout
  <2>2. Len(buffers) \in 1..Len(buffers)
    BY <1>1, <2>1
  <2>3. Len(<<>>) = 0
    OBVIOUS
  <2> QED BY <1>1, <1>2, <2>1, <2>2, <2>3
<1>5. endBlock \in 0..blocks
  BY <1>2
<1>6. /\ \A b \in DOMAIN memory : memory[b] \in [0..(BufferSize - 1) -> 0..pushed]
      /\ inFlight \in Seq([block : 1..blocks, at : 0..(BufferSize - 1), size : 1..BufferSize])
      /\ transferred \in Int
  BY DEF Held, Sending, RegionType, Running, NoSend
<1> QED BY <1>2, <1>3, <1>4, <1>5, <1>6 DEF TypeOK, Layout

(* The types; above all, that push() writes through endPtr into a block    *)
(* that is still there.                                                    *)
THEOREM TypeCorrect == Spec => []TypeOK
BY SInvAlways, TypeFromInv, PTL
----------------------------------------------------------------------------
(* The refinement of ByteQueue: the queue holds the bytes from the first   *)
(* one the OS has not taken to the last one pushed.                        *)
QueueNow == SubSeq(Contents, Gone + 1, totalSize)

QueueForm ==
  /\ Gone \in Nat /\ Gone <= committedBytes
  /\ QueueNow \in Seq(Nat) /\ Len(QueueNow) = totalSize - Gone
  /\ \A j \in 1..Len(QueueNow) : QueueNow[j] = Popped + Gone + j

LEMMA QueueIs == SInv => QueueForm
<1> SUFFICES ASSUME SInv  PROVE QueueForm
  OBVIOUS
<1>1. /\ committedBytes \in 0..totalSize /\ totalSize \in Nat /\ Popped \in Nat
  BY Sizes DEF SInv, Layout
<1>2. Gone \in Nat /\ Gone <= committedBytes
  <2>1. transferred \in Nat \cup {Running, NoSend}
    BY DEF SInv, Sending
  <2>2. transferred # NoSend => \E m \in 1..committedBytes : transferred <= m
    BY DEF SInv, Sending
  <2> QED BY <1>1, <2>1, <2>2 DEF Gone, Running, NoSend
<1>3. /\ Contents \in Seq(Nat) /\ Len(Contents) = totalSize
      /\ \A p \in 1..totalSize : Contents[p] = Popped + p
  BY ContentsAre DEF SInv
<1>4. /\ QueueNow \in Seq(Nat)
      /\ Len(QueueNow) = IF Gone + 1 <= totalSize THEN totalSize - (Gone + 1) + 1 ELSE 0
      /\ \A i \in 1..(totalSize - (Gone + 1) + 1) :
           QueueNow[i] = Contents[(Gone + 1) + i - 1]
  <2>1. Gone + 1 \in Int /\ totalSize \in Int
    BY <1>1, <1>2
  <2>2. \A i \in (Gone + 1)..totalSize : Contents[i] \in Nat
    <3>1. \A i \in (Gone + 1)..totalSize : i \in 1..totalSize
      BY <1>1, <1>2
    <3>2. \A i \in 1..totalSize : Popped + i \in Nat
      BY <1>1
    <3> QED BY <1>3, <3>1, <3>2
  <2> QED BY <2>1, <2>2, SubSeqProperties DEF QueueNow
<1>5. Len(QueueNow) = totalSize - Gone
  BY <1>1, <1>2, <1>4
<1>6. ASSUME NEW j \in 1..Len(QueueNow)  PROVE QueueNow[j] = Popped + Gone + j
  <2>1. /\ j \in 1..(totalSize - (Gone + 1) + 1) /\ (Gone + 1) + j - 1 = Gone + j
        /\ Gone + j \in 1..totalSize /\ Popped + (Gone + j) = Popped + Gone + j
    BY <1>1, <1>2, <1>5
  <2>2. QueueNow[j] = Contents[Gone + j]
    BY <1>4, <2>1
  <2> QED BY <1>3, <2>1, <2>2
<1> QED BY <1>2, <1>4, <1>5, <1>6 DEF QueueForm

(* Sequences of the same length with the same elements.                    *)
LEMMA SameSeq ==
  \A s, t \in Seq(Nat) :
    Len(s) = Len(t) /\ (\A i \in 1..Len(s) : s[i] = t[i]) => s = t
OBVIOUS
QueueCommitted == committedBytes - Gone

LEMMA QueueInit == Init /\ QueueForm => Queue!Init
<1> SUFFICES ASSUME Init, QueueForm  PROVE Queue!Init
  OBVIOUS
<1>1. committedBytes = 0 /\ pushed = 0 /\ taken = <<>> /\ Gone = 0
  BY DEF Init, Gone, NoSend
<1>2. totalSize = 0
  <2>1. Layout
    BY SInvInit DEF SInv
  <2>2. Popped + totalSize = pushed /\ totalSize \in Nat /\ Popped \in Nat
    BY <2>1, Sizes
  <2> QED BY <1>1, <2>2
<1>3. QueueNow \in Seq(Nat) /\ Len(QueueNow) = 0
  BY <1>1, <1>2 DEF QueueForm
<1>4. QueueNow = <<>>
  BY <1>3, EmptySeq
<1>5. QueueCommitted = 0
  BY <1>1 DEF QueueCommitted
<1> QED BY <1>1, <1>4, <1>5 DEF Queue!Init, QueueNow, QueueCommitted

(* The queue is the same when it starts after the same byte and is as long.*)
LEMMA QueueSame ==
  ASSUME QueueForm, QueueForm',
         totalSize' - Gone' = totalSize - Gone, Popped' + Gone' = Popped + Gone
  PROVE  QueueNow' = QueueNow
<1>1. /\ QueueNow \in Seq(Nat) /\ Len(QueueNow) = totalSize - Gone
      /\ \A j \in 1..Len(QueueNow) : QueueNow[j] = Popped + Gone + j
  BY DEF QueueForm
<1>2. /\ QueueNow' \in Seq(Nat) /\ Len(QueueNow') = totalSize' - Gone'
      /\ \A j \in 1..Len(QueueNow') : QueueNow'[j] = Popped' + Gone' + j
  BY DEF QueueForm
<1> HIDE DEF QueueNow
<1>3. Len(QueueNow') = Len(QueueNow)
  BY <1>1, <1>2
<1>4. \A j \in 1..Len(QueueNow') : QueueNow'[j] = QueueNow[j]
  BY <1>1, <1>2, <1>3
<1> QED BY <1>1, <1>2, <1>3, <1>4, SameSeq

LEMMA QueuePush ==
  ASSUME SInv, QueueForm, QueueForm', NEW n \in PushSizes, Push(n)
  PROVE  Queue!Push(n)
<1> DEFINE new == [i \in 1..n |-> pushed + i]
           long == QueueNow \o new
<1>1. /\ n \in Nat /\ totalSize' = totalSize + n /\ Popped' = Popped
  BY Pushes
<1>2. /\ pushed' = pushed + n
      /\ UNCHANGED <<committedBytes, transferred, taken>>
  BY DEF Push
<1>3. Gone' = Gone
  BY <1>2 DEF Gone
<1>4. /\ Popped \in Nat /\ totalSize \in Nat /\ Popped + totalSize = pushed
      /\ pushed \in Nat
  BY Sizes DEF SInv, Layout
<1>5. /\ Gone \in Nat /\ QueueNow \in Seq(Nat) /\ Len(QueueNow) = totalSize - Gone
      /\ Len(QueueNow) \in Nat
      /\ \A j \in 1..Len(QueueNow) : QueueNow[j] = Popped + Gone + j
  BY LenProperties DEF QueueForm
<1>6. /\ QueueNow' \in Seq(Nat) /\ Len(QueueNow') = totalSize' - Gone'
      /\ \A j \in 1..Len(QueueNow') : QueueNow'[j] = Popped' + Gone' + j
  BY DEF QueueForm
<1>7. new \in Seq(Nat) /\ Len(new) = n
  <2>1. new \in [1..n -> Nat]
    BY <1>1, <1>4
  <2> HIDE DEF new
  <2> QED BY <1>1, <2>1, LenIs
<1>8. /\ long \in Seq(Nat) /\ Len(long) = Len(QueueNow) + n
      /\ \A j \in 1..(Len(QueueNow) + n) :
           long[j] = IF j <= Len(QueueNow) THEN QueueNow[j] ELSE new[j - Len(QueueNow)]
  <2> HIDE DEF new
  <2> QED BY <1>5, <1>7, ConcatProperties
<1>9. Len(QueueNow') = Len(QueueNow) + n
  BY <1>1, <1>3, <1>4, <1>5, <1>6
<1>10. ASSUME NEW j \in 1..(Len(QueueNow) + n)  PROVE QueueNow'[j] = long[j]
  <2>1. QueueNow'[j] = Popped + Gone + j
    BY <1>1, <1>3, <1>6, <1>9
  <2>2. CASE j <= Len(QueueNow)
    <3>1. j \in 1..Len(QueueNow)
      BY <1>1, <1>5, <2>2
    <3>2. long[j] = QueueNow[j]
      <4> HIDE DEF long
      <4> QED BY <1>8, <2>2
    <3> HIDE DEF long
    <3> QED BY <1>5, <2>1, <3>1, <3>2
  <2>3. CASE ~(j <= Len(QueueNow))
    <3> DEFINE i == j - Len(QueueNow)
    <3>1. i \in 1..n /\ j = Len(QueueNow) + i /\ i \in Nat
      BY <1>1, <1>5, <2>3
    <3>2. long[j] = new[i]
      <4> HIDE DEF long, new
      <4> QED BY <1>8, <2>3
    <3> HIDE DEF i, long
    <3>3. new[i] = pushed + i
      BY <3>1
    <3>4. pushed + i = Popped + Gone + j
      <4>1. \A a, t, g, x \in Nat : (a + t) + x = a + g + ((t - g) + x)
        OBVIOUS
      <4>2. (Popped + totalSize) + i = Popped + Gone + ((totalSize - Gone) + i)
        BY <1>4, <1>5, <3>1, <4>1
      <4> QED BY <1>4, <1>5, <3>1, <4>2
    <3> QED BY <2>1, <3>2, <3>3, <3>4
  <2> QED BY <2>2, <2>3
<1>11. QueueNow' = long
  <2> HIDE DEF long
  <2> QED BY <1>6, <1>8, <1>9, <1>10, SameSeq
<1>12. QueueCommitted' = QueueCommitted
  BY <1>2, <1>3 DEF QueueCommitted
<1> QED BY <1>2, <1>11, <1>12 DEF Queue!Push, QueueNow, QueueCommitted

LEMMA QueueCommit ==
  ASSUME SInv, QueueForm, QueueForm', Commit
  PROVE  Queue!Commit
<1>1. /\ totalSize' = totalSize /\ Popped' = Popped /\ Gone' = Gone
      /\ committedBytes' = totalSize /\ UNCHANGED <<pushed, taken>>
  BY DEF Commit, totalSize, Popped, Freed, Gone
<1>2. QueueNow' = QueueNow
  BY <1>1, QueueSame
<1>3. QueueCommitted' = Len(QueueNow)
  BY <1>1 DEF QueueCommitted, QueueForm
<1> QED BY <1>1, <1>2, <1>3 DEF Queue!Commit, QueueNow, QueueCommitted

LEMMA QueueTake ==
  ASSUME SInv, QueueForm, QueueForm', OsTake
  PROVE  Queue!Take
<1>1. /\ UNCHANGED <<bufferVars, pushed>> /\ transferred = Running
  BY DEF OsTake
<1>2. totalSize' = totalSize /\ Popped' = Popped /\ committedBytes' = committedBytes
  BY <1>1 DEF totalSize, Popped, Freed, bufferVars
<1>3. Gone = 0
  BY <1>1 DEF Gone, Running
<1>4. PICK m \in 1..committedBytes : \E n \in 1..m :
        /\ transferred' = n
        /\ taken' = taken \o [p \in 1..n |-> Popped + p]
  BY TakeIs
<1>5. PICK n \in 1..m : /\ transferred' = n
                        /\ taken' = taken \o [p \in 1..n |-> Popped + p]
  BY <1>4
<1> DEFINE bytes == [p \in 1..n |-> Popped + p]
<1>6. /\ Popped \in Nat /\ totalSize \in Nat /\ committedBytes \in 0..totalSize
  BY Sizes DEF SInv, Layout
<1>7. n \in Nat /\ n > 0 /\ n <= committedBytes /\ n <= totalSize
  BY <1>4, <1>5, <1>6
<1>8. Gone' = n
  BY <1>5, <1>7 DEF Gone
<1>9. /\ QueueNow \in Seq(Nat) /\ Len(QueueNow) = totalSize
      /\ \A j \in 1..totalSize : QueueNow[j] = Popped + j
  <2>1. /\ QueueNow \in Seq(Nat) /\ Len(QueueNow) = totalSize - Gone
        /\ \A j \in 1..Len(QueueNow) : QueueNow[j] = Popped + Gone + j
    BY DEF QueueForm
  <2> QED BY <1>3, <1>6, <2>1
<1>10. /\ QueueNow' \in Seq(Nat) /\ Len(QueueNow') = totalSize - n
       /\ \A j \in 1..(totalSize - n) : QueueNow'[j] = Popped + n + j
  <2>1. /\ QueueNow' \in Seq(Nat) /\ Len(QueueNow') = totalSize' - Gone'
        /\ \A j \in 1..Len(QueueNow') : QueueNow'[j] = Popped' + Gone' + j
    BY DEF QueueForm
  <2> QED BY <1>2, <1>8, <2>1
<1>11. SubSeq(QueueNow, 1, n) = bytes
  <2>1. /\ SubSeq(QueueNow, 1, n) \in Seq(Nat)
        /\ Len(SubSeq(QueueNow, 1, n)) = IF 1 <= n THEN n - 1 + 1 ELSE 0
        /\ \A i \in 1..(n - 1 + 1) : SubSeq(QueueNow, 1, n)[i] = QueueNow[1 + i - 1]
    <3>1. \A i \in 1..n : QueueNow[i] \in Nat
      BY <1>6, <1>7, <1>9
    <3> QED BY <1>7, <3>1, SubSeqProperties
  <2>2. Len(SubSeq(QueueNow, 1, n)) = n /\ n - 1 + 1 = n
    BY <1>7, <2>1
  <2>3. ASSUME NEW i \in 1..n  PROVE SubSeq(QueueNow, 1, n)[i] = Popped + i
    <3>1. 1 + i - 1 = i /\ i \in 1..totalSize
      BY <1>6, <1>7
    <3> QED BY <1>9, <2>1, <2>2, <3>1
  <2>4. bytes \in Seq(Nat) /\ Len(bytes) = n /\ \A i \in 1..n : bytes[i] = Popped + i
    <3>1. bytes \in [1..n -> Nat]
      BY <1>6, <1>7
    <3>2. \A i \in 1..n : bytes[i] = Popped + i
      OBVIOUS
    <3> HIDE DEF bytes
    <3> QED BY <1>7, <3>1, <3>2, LenIs
  <2> HIDE DEF bytes
  <2> QED BY <2>1, <2>2, <2>3, <2>4, SameSeq
<1>12. QueueNow' = SubSeq(QueueNow, n + 1, Len(QueueNow))
  <2> DEFINE rest == SubSeq(QueueNow, n + 1, Len(QueueNow))
  <2>1. /\ rest \in Seq(Nat)
        /\ Len(rest) = IF n + 1 <= totalSize THEN totalSize - (n + 1) + 1 ELSE 0
        /\ \A i \in 1..(totalSize - (n + 1) + 1) : rest[i] = QueueNow[(n + 1) + i - 1]
    <3>1. \A i \in (n + 1)..totalSize : QueueNow[i] \in Nat
      <4>1. \A i \in (n + 1)..totalSize : i \in 1..totalSize /\ Popped + i \in Nat
        BY <1>6, <1>7
      <4> QED BY <1>9, <4>1
    <3>2. n + 1 \in Int /\ totalSize \in Int
      BY <1>6, <1>7
    <3> DEFINE tail == SubSeq(QueueNow, n + 1, totalSize)
    <3>3. /\ tail \in Seq(Nat)
          /\ Len(tail) = IF n + 1 <= totalSize THEN totalSize - (n + 1) + 1 ELSE 0
          /\ \A i \in 1..(totalSize - (n + 1) + 1) : tail[i] = QueueNow[(n + 1) + i - 1]
      BY <3>1, <3>2, SubSeqProperties
    <3>4. rest = tail
      BY <1>9
    <3> HIDE DEF tail, rest
    <3> QED BY <3>3, <3>4
  <2> HIDE DEF rest
  <2>2. Len(rest) = totalSize - n
    BY <1>6, <1>7, <2>1
  <2>3. ASSUME NEW i \in 1..(totalSize - n)  PROVE QueueNow'[i] = rest[i]
    <3>1. /\ (n + 1) + i - 1 = n + i /\ n + i \in 1..totalSize
          /\ i \in 1..(totalSize - (n + 1) + 1)
          /\ Popped + (n + i) = Popped + n + i
      BY <1>6, <1>7
    <3> QED BY <1>9, <1>10, <2>1, <3>1
  <2>4. QueueNow' = rest
    BY <1>10, <2>1, <2>2, <2>3, SameSeq
  <2> QED BY <2>4 DEF rest
<1>13. QueueCommitted = committedBytes /\ QueueCommitted' = QueueCommitted - n
  BY <1>2, <1>3, <1>6, <1>8 DEF QueueCommitted
<1>14. n \in 0..QueueCommitted
  BY <1>6, <1>7, <1>13
<1>15. /\ taken' = taken \o SubSeq(QueueNow, 1, n) /\ pushed' = pushed
  BY <1>1, <1>5, <1>11
<1> QED BY <1>12, <1>13, <1>14, <1>15 DEF Queue!Take, QueueNow, QueueCommitted

LEMMA QueueStep == SInv /\ QueueForm /\ QueueForm' /\ [Next]_vars => [Queue!Next]_Queue!vars
<1> SUFFICES ASSUME SInv, QueueForm, QueueForm', [Next]_vars
             PROVE  [Queue!Next]_Queue!vars
  OBVIOUS
<1>0. ASSUME QueueNow' = QueueNow, QueueCommitted' = QueueCommitted,
             pushed' = pushed, taken' = taken
      PROVE  UNCHANGED Queue!vars
  BY <1>0 DEF Queue!vars, QueueNow, QueueCommitted
<1>1. ASSUME NEW n \in PushSizes, Push(n)  PROVE Queue!Next
  BY <1>1, QueuePush DEF Queue!Next
<1>2. CASE Commit
  BY <1>2, QueueCommit DEF Queue!Next
<1>3. CASE OsTake
  BY <1>3, QueueTake DEF Queue!Next
<1>4. CASE StartSend \/ UNCHANGED vars
  <2>1. UNCHANGED <<bufferVars, pushed, taken>>
    BY <1>4 DEF StartSend, vars
  <2>2. totalSize' = totalSize /\ Popped' = Popped /\ committedBytes' = committedBytes
    BY <2>1 DEF totalSize, Popped, Freed, bufferVars
  <2>3. Gone' = Gone
    BY <1>4 DEF StartSend, vars, Gone, Running, NoSend
  <2>4. QueueNow' = QueueNow
    BY <2>2, <2>3, QueueSame
  <2>5. QueueCommitted' = QueueCommitted
    BY <2>2, <2>3 DEF QueueCommitted
  <2> QED BY <1>0, <2>1, <2>4, <2>5
<1>5. CASE HandleSend
  <2>1. /\ committedBytes' = committedBytes - transferred
        /\ transferred' = NoSend /\ transferred >= 0
        /\ UNCHANGED <<pushed, taken>>
    BY <1>5 DEF HandleSend
  <2>2. /\ transferred \in Nat
        /\ totalSize' = totalSize - transferred /\ Popped' = Popped + transferred
    BY <1>5, Pops
  <2>3. Gone = transferred /\ Gone' = 0
    BY <2>1 DEF Gone, NoSend
  <2>4. /\ totalSize \in Nat /\ Popped \in Nat /\ committedBytes \in Nat
    BY Sizes DEF SInv, Layout
  <2>5. QueueNow' = QueueNow
    <3>1. totalSize' - Gone' = totalSize - Gone
      BY <2>2, <2>3, <2>4
    <3>2. Popped' + Gone' = Popped + Gone
      BY <2>2, <2>3, <2>4
    <3> QED BY <3>1, <3>2, QueueSame
  <2>6. QueueCommitted' = QueueCommitted
    BY <2>1, <2>2, <2>3, <2>4 DEF QueueCommitted
  <2> QED BY <1>0, <2>1, <2>5, <2>6
<1> QED BY <1>1, <1>2, <1>3, <1>4, <1>5 DEF Next

(* A SendBuffer implements a queue of bytes: they come out in the order    *)
(* they were pushed, each once, and only after a commit().                 *)
THEOREM KeepsQueue == Spec => ImplementsByteQueue
BY SInvAlways, SInvInit, QueueIs, QueueInit, QueueStep, PTL DEF Spec, ImplementsByteQueue, Queue!Spec
=============================================================================
