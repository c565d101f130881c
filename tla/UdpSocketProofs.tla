--------------------------- MODULE UdpSocketProofs --------------------------
(***************************************************************************)
(* Theorems about UdpSocket, for all sizes, limits, hosts and bounds, and  *)
(* first what push() and pop() do to a DatagramQueue, for every limit and  *)
(* every sequence of items.  The sums over a queue are recursive           *)
(* functions, which FoldExists of Lemmas shows to be what their equations  *)
(* say.                                                                    *)
(***************************************************************************)
EXTENDS UdpSocket, Lemmas, SequenceTheorems, FiniteSetTheorems, TLAPS

(* The sum of the memory of the first n items.                             *)
LEMMA SumSteps ==
  ASSUME NEW Item, \A x \in Item : x.mem \in Nat, NEW items \in Seq(Item)
  PROVE  /\ MemUpTo(items) \in [0..Len(items) -> Nat]
         /\ MemUpTo(items)[0] = 0
         /\ \A n \in 1..Len(items) : MemUpTo(items)[n] = MemUpTo(items)[n - 1] + items[n].mem
<1> DEFINE N == Len(items)
           step == [p \in (1..N) \X Nat |-> p[2] + items[p[1]].mem]
           Eq(g) == g = [n \in 0..N |-> IF n = 0 THEN 0 ELSE g[n - 1] + items[n].mem]
<1>1. N \in Nat /\ \A n \in 1..N : items[n].mem \in Nat
  BY LenProperties, ElementOfSeq
<1>2. step \in [(1..N) \X Nat -> Nat]
  BY <1>1
<1>3. PICK g : IsFold(g, N, Nat, 0, step)
  <2> HIDE DEF N, step
  <2> QED BY <1>1, <1>2, FoldExists
<1>4. \A n \in 1..N : g[n] = g[n - 1] + items[n].mem
  <2>1. \A n \in 1..N, x \in Nat : step[<<n, x>>] = x + items[n].mem
    OBVIOUS
  <2> HIDE DEF N, step
  <2>2. \A n \in 1..N : g[n - 1] \in Nat
    BY <1>1, <1>3 DEF IsFold
  <2> QED BY <1>3, <2>1, <2>2 DEF IsFold
<1>5. Eq(g)
  <2> HIDE DEF N
  <2> QED BY <1>1, <1>3, <1>4 DEF IsFold
<1>6. Eq(MemUpTo(items))
  <2> DEFINE f == CHOOSE f : Eq(f)
  <2>1. Eq(f)
    <3> HIDE DEF Eq
    <3> QED BY <1>5
  <2> QED BY <2>1 DEF MemUpTo
<1>7. \A n \in 0..N : MemUpTo(items)[n] = g[n]
  <2> DEFINE f == MemUpTo(items)
             S == {n \in 0..N : f[n] = g[n]}
  <2> HIDE DEF f, N
  <2>1. \A n \in 0..N : f[n] = IF n = 0 THEN 0 ELSE f[n - 1] + items[n].mem
    BY <1>6 DEF f
  <2>2. 0 \in S
    BY <1>1, <1>3, <2>1 DEF IsFold
  <2>3. \A n \in 1..N : n - 1 \in S => n \in S
    BY <1>1, <1>4, <2>1
  <2> HIDE DEF S
  <2>4. 0..N \subseteq S
    BY <1>1, <2>2, <2>3, Induct
  <2> QED BY <2>4 DEF S, f
<1> HIDE DEF N
<1>8. MemUpTo(items) = [n \in 0..N |-> g[n]]
  BY <1>6, <1>7
<1> QED BY <1>1, <1>3, <1>4, <1>7, <1>8 DEF N, IsFold

(* A part of a sequence that starts behind place k adds up to the          *)
(* difference of two of its sums.                                          *)
LEMMA SumOfPart ==
  ASSUME NEW Item, \A x \in Item : x.mem \in Nat, NEW items \in Seq(Item),
         NEW part \in Seq(Item), NEW k \in Nat, k + Len(part) <= Len(items),
         \A i \in 1..Len(part) : part[i] = items[k + i]
  PROVE  \A n \in 0..Len(part) : MemUpTo(part)[n] = MemUpTo(items)[k + n] - MemUpTo(items)[k]
<1> DEFINE whole == MemUpTo(items)
           sum == MemUpTo(part)
           N == Len(part)
           S == {n \in 0..N : sum[n] = whole[k + n] - whole[k]}
<1>1. N \in Nat /\ Len(items) \in Nat
  BY LenProperties
<1>2. /\ sum \in [0..N -> Nat] /\ sum[0] = 0
      /\ \A n \in 1..N : sum[n] = sum[n - 1] + part[n].mem
  BY SumSteps
<1>3. /\ whole \in [0..Len(items) -> Nat]
      /\ \A n \in 1..Len(items) : whole[n] = whole[n - 1] + items[n].mem
  BY SumSteps
<1>4. \A n \in 1..N : part[n] \in Item
  BY ElementOfSeq
<1> HIDE DEF whole, sum, N
<1>5. 0 \in S
  <2>1. k \in 0..Len(items) /\ k + 0 = k
    BY <1>1 DEF N
  <2>2. whole[k] \in Nat /\ whole[k] - whole[k] = 0
    BY <1>3, <2>1
  <2> QED BY <1>1, <1>2, <2>1, <2>2
<1>6. ASSUME NEW n \in 1..N, n - 1 \in S PROVE n \in S
  <2>1. k + n \in 1..Len(items) /\ k + (n - 1) = (k + n) - 1 /\ k \in 0..Len(items)
    BY <1>1 DEF N
  <2>2. whole[k + n] = whole[k + (n - 1)] + part[n].mem
    BY <1>3, <2>1 DEF N
  <2>3. sum[n] = sum[n - 1] + part[n].mem /\ sum[n - 1] = whole[k + (n - 1)] - whole[k]
    BY <1>2, <1>6
  <2>4. part[n].mem \in Nat /\ whole[k + (n - 1)] \in Nat /\ whole[k] \in Nat
    BY <1>3, <1>4, <2>1, k + (n - 1) \in 0..Len(items)
  <2> QED BY <2>2, <2>3, <2>4
<1>7. 0..N \subseteq S
  <2> HIDE DEF S
  <2> QED BY <1>1, <1>5, <1>6, Induct
<1> QED BY <1>7 DEF whole, sum, N

LEMMA SumType ==
  ASSUME NEW Item, \A x \in Item : x.mem \in Nat, NEW items \in Seq(Item)
  PROVE  MemSum(items) \in Nat
BY SumSteps, LenProperties DEF MemSum

LEMMA SumEmpty ==
  ASSUME NEW Item, \A x \in Item : x.mem \in Nat
  PROVE  MemSum(<<>>) = 0
BY SumSteps, EmptySeq DEF MemSum

LEMMA SumAppend ==
  ASSUME NEW Item, \A x \in Item : x.mem \in Nat, NEW items \in Seq(Item), NEW item \in Item
  PROVE  MemSum(Append(items, item)) = MemSum(items) + item.mem
<1> DEFINE more == Append(items, item)
           N == Len(items)
<1>1. /\ more \in Seq(Item) /\ N \in Nat /\ Len(more) = N + 1
      /\ \A i \in 1..N : more[i] = items[i]
      /\ more[N + 1] = item
  BY AppendProperties, LenProperties
<1> HIDE DEF more
<1>2. MemUpTo(items)[N] = MemUpTo(more)[N] - MemUpTo(more)[0]
  <2>1. 0 + N <= Len(more) /\ \A i \in 1..N : items[i] = more[0 + i]
    BY <1>1
  <2>2. \A n \in 0..N : MemUpTo(items)[n] = MemUpTo(more)[0 + n] - MemUpTo(more)[0]
    BY <1>1, <2>1, SumOfPart
  <2> HIDE DEF N
  <2> QED BY <1>1, <2>2
<1>3. /\ MemUpTo(more) \in [0..(N + 1) -> Nat] /\ MemUpTo(more)[0] = 0
      /\ MemUpTo(more)[N + 1] = MemUpTo(more)[N] + item.mem
  BY <1>1, SumSteps
<1>4. MemUpTo(more)[N] \in Nat
  BY <1>1, <1>3
<1> QED BY <1>1, <1>2, <1>3, <1>4 DEF MemSum, more

(* Popping n items takes their memory off the sum.                         *)
LEMMA SumSplit ==
  ASSUME NEW Item, \A x \in Item : x.mem \in Nat, NEW items \in Seq(Item), NEW n \in 0..Len(items)
  PROVE  LET front == SubSeq(items, 1, n)
             rest  == SubSeq(items, n + 1, Len(items))
         IN  /\ front \in Seq(Item) /\ rest \in Seq(Item)
             /\ Len(front) = n /\ Len(rest) = Len(items) - n
             /\ \A i \in 1..Len(rest) : rest[i] = items[n + i]
             /\ MemSum(front) + MemSum(rest) = MemSum(items)
<1> DEFINE front == SubSeq(items, 1, n)
           rest == SubSeq(items, n + 1, Len(items))
           sum == MemUpTo(items)
           N == Len(items)
<1>1. N \in Nat /\ \A i \in 1..N : items[i] \in Item
  BY LenProperties, ElementOfSeq
<1>2. front \in Seq(Item) /\ Len(front) = n /\ \A i \in 1..n : front[i] = items[i]
  BY <1>1, SubSeqProperties
<1>3. rest \in Seq(Item) /\ Len(rest) = N - n /\ \A i \in 1..(N - n) : rest[i] = items[n + i]
  BY <1>1, SubSeqProperties
<1>4. sum \in [0..N -> Nat] /\ sum[0] = 0
  BY SumSteps
<1> HIDE DEF front, rest, N
<1>5. MemSum(front) = sum[n]
  <2>1. 0 + Len(front) <= Len(items) /\ \A i \in 1..Len(front) : front[i] = items[0 + i]
    BY <1>1, <1>2 DEF N
  <2>2. \A m \in 0..n : MemUpTo(front)[m] = sum[0 + m] - sum[0]
    BY SMTT(30), <1>2, <2>1, SumOfPart
  <2> HIDE DEF sum
  <2> QED BY <1>1, <1>2, <1>4, <2>2 DEF MemSum, N
<1>6. MemSum(rest) = sum[N] - sum[n]
  <2>1. n + Len(rest) <= Len(items) /\ \A i \in 1..Len(rest) : rest[i] = items[n + i]
    BY SMTT(30), <1>1, <1>3 DEF N
  <2>2. \A m \in 0..Len(rest) : MemUpTo(rest)[m] = sum[n + m] - sum[n]
    <3>1. n \in Nat /\ rest \in Seq(Item)
      BY <1>1, <1>3
    <3> HIDE DEF sum
    <3>2. \A m \in 0..Len(rest) : MemUpTo(rest)[m] = MemUpTo(items)[n + m] - MemUpTo(items)[n]
      BY <2>1, <3>1, SumOfPart
    <3> QED BY <3>2 DEF sum
  <2> HIDE DEF sum
  <2>3. Len(rest) \in 0..Len(rest) /\ n + Len(rest) = N
    BY <1>1, <1>3 DEF N
  <2> QED BY <2>2, <2>3 DEF MemSum
<1>7. MemSum(items) = sum[N] /\ sum[N] \in Nat /\ sum[n] \in Nat
  BY <1>1, <1>4 DEF MemSum, N
<1> HIDE DEF sum
<1>8. MemSum(front) + MemSum(rest) = MemSum(items)
  BY <1>5, <1>6, <1>7
<1> QED BY <1>2, <1>3, <1>8 DEF front, rest, N
----------------------------------------------------------------------------
QueueOf(Item) == [items : Seq(Item), mem : 0..(SizeWrap - 1), limit : 0..(SizeWrap - 1)]

LEMMA Wrapped ==
  /\ \A x \in Int : x % SizeWrap \in 0..(SizeWrap - 1)
  /\ \A x \in 0..(SizeWrap - 1) : x % SizeWrap = x
BY SizeWrapAssumption

(* pop() leaves a queue, and an accounted one accounted.                   *)
LEMMA PopKeeps ==
  ASSUME NEW Item, \A x \in Item : x.mem \in Nat,
         NEW q \in QueueOf(Item), NEW n \in 0..Len(q.items)
  PROVE  /\ Popped(q, n) \in QueueOf(Item)
         /\ Popped(q, n).items = SubSeq(q.items, n + 1, Len(q.items))
         /\ Popped(q, n).limit = q.limit
         /\ Accounted(q) => Accounted(Popped(q, n))
<1> DEFINE front == SubSeq(q.items, 1, n)
           rest == SubSeq(q.items, n + 1, Len(q.items))
           m == (q.mem - MemSum(front)) % SizeWrap
<1>1. q.items \in Seq(Item) /\ q.mem \in 0..(SizeWrap - 1) /\ q.limit \in 0..(SizeWrap - 1)
  BY DEF QueueOf
<1>2. /\ front \in Seq(Item) /\ rest \in Seq(Item)
      /\ MemSum(front) + MemSum(rest) = MemSum(q.items)
  BY <1>1, SumSplit
<1>3. MemSum(front) \in Nat /\ MemSum(rest) \in Nat /\ MemSum(q.items) \in Nat
  BY <1>1, <1>2, SumType
<1>4. Popped(q, n) = [q EXCEPT !.items = rest, !.mem = m]
  BY DEF Popped
<1> HIDE DEF front, rest
<1>5. m \in 0..(SizeWrap - 1)
  BY <1>1, <1>3, Wrapped
<1>6. Accounted(q) => m = MemSum(rest) /\ MemSum(rest) <= q.limit
  <2> SUFFICES ASSUME Accounted(q) PROVE m = MemSum(rest) /\ MemSum(rest) <= q.limit
    OBVIOUS
  <2>1. q.mem = MemSum(q.items) /\ q.mem <= q.limit
    BY DEF Accounted
  <2>2. q.mem - MemSum(front) = MemSum(rest) /\ MemSum(rest) \in 0..(SizeWrap - 1)
    BY <1>1, <1>2, <1>3, <2>1, SizeWrapAssumption
  <2>3. m = MemSum(rest)
    BY <2>2, Wrapped
  <2> HIDE DEF m
  <2> QED BY <1>1, <1>2, <1>3, <2>1, <2>2, <2>3
<1> HIDE DEF m
<1>7. /\ Popped(q, n).items = rest /\ Popped(q, n).mem = m /\ Popped(q, n).limit = q.limit
      /\ Popped(q, n) \in QueueOf(Item)
  BY <1>1, <1>2, <1>4, <1>5 DEF QueueOf
<1> QED BY <1>6, <1>7 DEF Accounted, rest

(* The outcomes of push(): the item is refused and nothing changes, or it  *)
(* is put behind what is left after n pops.                                *)
Refused(q, r) == r.queue = q /\ r.discarded
PushedAfter(q, item, n, r) ==
  /\ r.queue.items = Append(SubSeq(q.items, n + 1, Len(q.items)), item)
  /\ r.discarded <=> n > 0
  /\ ~r.hangs

(* The smallest number of pops that leaves room, when there is one.        *)
Enough(q, size) == {n \in 0..Len(q.items) : ~Crowded(Popped(q, n), size)}

LEMMA PushKeeps ==
  ASSUME NEW Item, \A x \in Item : x.mem \in Nat,
         NEW q \in QueueOf(Item), NEW item \in Item
  PROVE  LET r == Push(q, item)
         IN  /\ r.queue \in QueueOf(Item) /\ r.queue.limit = q.limit
             /\ r.discarded \in BOOLEAN /\ r.hangs \in BOOLEAN
             /\ Refused(q, r) \/ \E n \in 0..Len(q.items) : PushedAfter(q, item, n, r)
             /\ Accounted(q) =>
                  ~r.hangs /\ Accounted(r.queue) /\ KeepsNewestThatFit(q, item, r.queue.items)
<1> DEFINE r == Push(q, item)
           N == Len(q.items)
           enough == Enough(q, item.mem)
<1>1. /\ q.items \in Seq(Item) /\ q.mem \in 0..(SizeWrap - 1) /\ q.limit \in 0..(SizeWrap - 1)
      /\ item.mem \in Nat /\ N \in Nat
  BY LenProperties DEF QueueOf
<1>2. CASE TooLarge(q, item)
  <2>1. r = [queue |-> q, discarded |-> TRUE, hangs |-> FALSE]
    BY <1>2 DEF Push
  <2> HIDE DEF r
  <2>2. KeepsNewestThatFit(q, item, r.queue.items)
    BY <1>2, <2>1 DEF KeepsNewestThatFit
  <2> QED BY <2>1, <2>2 DEF r, Refused
<1>3. CASE ~TooLarge(q, item) /\ enough = {}
  <2>1. r = [queue |-> q, discarded |-> TRUE, hangs |-> TRUE]
    BY <1>3 DEF Push, Enough
  <2>2. ~Accounted(q)
    <3> SUFFICES ASSUME Accounted(q) PROVE FALSE
      OBVIOUS
    <3>1. N \in 0..N
      BY <1>1
    <3>2. /\ Popped(q, N).items = SubSeq(q.items, N + 1, N) /\ Popped(q, N).limit = q.limit
          /\ Accounted(Popped(q, N))
      BY <3>1, PopKeeps
    <3>3. Popped(q, N).items = <<>>
      BY <1>1, <3>2, SubSeqEmpty
    <3>4. Popped(q, N).mem = 0
      BY <3>2, <3>3, SumEmpty DEF Accounted
    <3>5. ~Crowded(Popped(q, N), item.mem)
      BY <1>1, <1>3, <3>2, <3>4 DEF Crowded, TooLarge
    <3> QED BY <1>3, <3>1, <3>5 DEF Enough
  <2> HIDE DEF r
  <2> QED BY <2>1, <2>2 DEF r, Refused
<1>4. CASE ~TooLarge(q, item) /\ enough # {}
  <2> DEFINE n == CHOOSE n \in enough : \A m \in enough : n <= m
             room == Popped(q, n)
             items == Append(room.items, item)
             mem == (room.mem + item.mem) % SizeWrap
  <2>1. n \in enough /\ \A m \in enough : n <= m
    <3>1. enough \in SUBSET Nat
      BY <1>1 DEF Enough
    <3> HIDE DEF enough
    <3>2. PICK i \in enough : \A m \in enough : i <= m
      BY <1>4, <3>1, LeastNumber
    <3> QED BY <3>2
  <2>2. /\ r.queue = [room EXCEPT !.items = items, !.mem = mem]
        /\ r.discarded <=> n > 0
        /\ r.discarded \in BOOLEAN /\ r.hangs = FALSE
    <3>1. r = [queue |-> [room EXCEPT !.items = Append(@, item),
                                      !.mem = (@ + item.mem) % SizeWrap],
               discarded |-> n > 0, hangs |-> FALSE]
      BY <1>4 DEF Push, Enough
    <3> HIDE DEF r, n, room
    <3>2. r.queue = [room EXCEPT !.items = Append(@, item), !.mem = (@ + item.mem) % SizeWrap]
      BY <3>1
    <3>3. r.queue = [room EXCEPT !.items = items, !.mem = mem]
      BY <3>2
    <3>4. r.discarded = (n > 0) /\ r.hangs = FALSE
      BY <3>1, Zenon
    <3>5. (n > 0) \in BOOLEAN
      BY <2>1
    <3>6. (r.discarded <=> n > 0) /\ r.discarded \in BOOLEAN
      BY <3>4, <3>5, Zenon
    <3> QED BY <3>3, <3>4, <3>6
  <2> HIDE DEF n, r
  <2>3. n \in 0..N /\ ~Crowded(room, item.mem)
    BY <2>1 DEF Enough
  <2>4. /\ room \in QueueOf(Item) /\ room.limit = q.limit
        /\ room.items = SubSeq(q.items, n + 1, N)
        /\ Accounted(q) => Accounted(room)
    BY <2>3, PopKeeps
  <2> HIDE DEF room, enough
  <2>5. room.items \in Seq(Item) /\ room.mem \in 0..(SizeWrap - 1)
    BY <2>4 DEF QueueOf
  <2>6. items \in Seq(Item) /\ mem \in 0..(SizeWrap - 1)
    BY <1>1, <2>5, AppendProperties, Wrapped
  <2>7. MemSum(items) = MemSum(room.items) + item.mem /\ MemSum(room.items) \in Nat
    BY <2>5, SumAppend, SumType
  <2>8. Accounted(q) => mem = MemSum(items) /\ MemSum(items) <= q.limit
    <3> SUFFICES ASSUME Accounted(q) PROVE mem = MemSum(items) /\ MemSum(items) <= q.limit
      OBVIOUS
    <3>1. room.mem = MemSum(room.items) /\ room.mem <= q.limit /\ q.limit - room.mem >= item.mem
      BY <1>1, <2>3, <2>4, <2>5 DEF Accounted, Crowded
    <3>2. room.mem + item.mem \in 0..(SizeWrap - 1) /\ room.mem + item.mem <= q.limit
      BY <1>1, <2>5, <3>1, SizeWrapAssumption
    <3> HIDE DEF items
    <3>3. mem = room.mem + item.mem
      BY <3>2, Wrapped
    <3> HIDE DEF mem
    <3> QED BY <2>7, <3>1, <3>2, <3>3
  <2> HIDE DEF items, mem
  <2>9. /\ r.queue.items = items /\ r.queue.mem = mem /\ r.queue.limit = q.limit
        /\ r.queue \in QueueOf(Item)
    BY <2>2, <2>4, <2>6 DEF QueueOf
  <2>10. PushedAfter(q, item, n, r)
    BY <2>2, <2>4, <2>9 DEF PushedAfter, items
  <2>11. Accounted(q) => KeepsNewestThatFit(q, item, r.queue.items)
    <3> SUFFICES ASSUME Accounted(q) PROVE KeepsNewestThatFit(q, item, r.queue.items)
      OBVIOUS
    <3>1. n > 0 => MemSum(SubSeq(q.items, n, N)) + item.mem > q.limit
      <4> SUFFICES ASSUME n > 0 PROVE MemSum(SubSeq(q.items, n, N)) + item.mem > q.limit
        OBVIOUS
      <4>1. n - 1 \in 0..N /\ n - 1 \notin enough /\ (n - 1) + 1 = n
        BY <1>1, <2>1, <2>3 DEF Enough
      <4>2. Crowded(Popped(q, n - 1), item.mem)
        BY <4>1 DEF enough, Enough
      <4>3. /\ Popped(q, n - 1).items = SubSeq(q.items, n, N) /\ Popped(q, n - 1).limit = q.limit
            /\ Accounted(Popped(q, n - 1)) /\ Popped(q, n - 1) \in QueueOf(Item)
        BY <4>1, PopKeeps
      <4>4. Popped(q, n - 1).mem = MemSum(SubSeq(q.items, n, N)) /\ Popped(q, n - 1).mem \in Nat
        <5> DEFINE p == Popped(q, n - 1)
        <5>1. p.mem = MemSum(p.items) /\ p.mem \in Nat
          BY <4>3 DEF Accounted, QueueOf
        <5> HIDE DEF p
        <5>2. p.items = SubSeq(q.items, n, N)
          BY <4>3 DEF p
        <5> QED BY <5>1, <5>2 DEF p
      <4>5. Popped(q, n - 1).mem <= q.limit
        BY <4>3 DEF Accounted
      <4> HIDE DEF N
      <4> QED BY <1>1, <4>2, <4>3, <4>4, <4>5 DEF Crowded
    <3>2. items = Append(SubSeq(q.items, n + 1, N), item)
      BY <2>4 DEF items
    <3> QED BY <1>4, <2>3, <2>8, <2>9, <3>1, <3>2 DEF KeepsNewestThatFit
  <2>12. Accounted(q) => Accounted(r.queue)
    BY <2>8, <2>9 DEF Accounted
  <2> QED BY <2>2, <2>3, <2>9, <2>10, <2>11, <2>12 DEF r
<1> QED BY <1>2, <1>3, <1>4
----------------------------------------------------------------------------

Queues == QueueOf(ItemType)
Iterators == [list : Seq(Families), v4 : Nat, v6 : Nat]

LEMMA ItemMem == \A x \in ItemType : x.mem \in Nat /\ x.id \in Nat
BY DEF ItemType

(* Skipping the other family leaves a cursor on a position of the list or  *)
(* at its end, so that the constructor and next() yield iterators.         *)
LEMMA SkipType ==
  ASSUME NEW list \in Seq(Families), NEW k \in Nat, NEW f
  PROVE  Skip(list, k, f) \in Nat
<1> DEFINE hits == {i \in k..Len(list) : list[i] = f}
<1>1. CASE hits = {}
  BY <1>1 DEF Skip
<1>2. CASE hits # {}
  <2>1. hits \in SUBSET Nat
    OBVIOUS
  <2>2. \E i \in hits : \A j \in hits : i <= j
    BY <1>2, <2>1, LeastNumber
  <2> QED BY <1>2, <2>1, <2>2 DEF Skip
<1> QED BY <1>1, <1>2

LEMMA IteratorTypes ==
  /\ \A list \in Seq(Families) : IteratorOver(list) \in Iterators
  /\ \A it \in Iterators : Advance(it) \in Iterators /\ NextPosition(it) \in Nat
<1>1. ASSUME NEW list \in Seq(Families) PROVE IteratorOver(list) \in Iterators
  BY SkipType DEF IteratorOver, Iterators
<1>2. ASSUME NEW it \in Iterators
      PROVE  Advance(it) \in Iterators /\ NextPosition(it) \in Nat
  <2>1. it.list \in Seq(Families) /\ it.v4 \in Nat /\ it.v6 \in Nat
    BY DEF Iterators
  <2>2. /\ Skip(it.list, it.v4 + 1, "v4") \in Nat
        /\ Skip(it.list, it.v6 + 1, "v6") \in Nat
    BY <2>1, SkipType
  <2>3. \A n \in Nat : [it EXCEPT !.v4 = n] \in Iterators /\ [it EXCEPT !.v6 = n] \in Iterators
    BY DEF Iterators
  <2> QED BY <2>1, <2>2, <2>3 DEF Advance, NextPosition
<1> QED BY <1>1, <1>2

LEMMA NoEndpoints == IteratorOver(<<>>) \in Iterators
BY EmptySeq, IteratorTypes

(* The datagrams that cannot be delivered at once are a prefix of the      *)
(* queue, which ends at one that can.                                      *)
LEMMA LeadingType ==
  ASSUME NEW items \in Seq(ItemType)
  PROVE  /\ LeadingUndeliverable(items) \in 0..Len(items)
         /\ LeadingUndeliverable(items) < Len(items) =>
              ~Undeliverable(items[LeadingUndeliverable(items) + 1])
<1> DEFINE N == Len(items)
           good == {i \in 1..N : ~Undeliverable(items[i])}
           P(n) == (\A i \in 1..n : Undeliverable(items[i]))
                     /\ (n < N => ~Undeliverable(items[n + 1]))
<1>1. N \in Nat
  BY LenProperties
<1>2. \E n \in 0..N : P(n)
  <2>1. CASE good = {}
    <3>1. P(N) /\ N \in 0..N
      BY <1>1, <2>1
    <3> HIDE DEF P
    <3> QED BY <3>1
  <2>2. CASE good # {}
    <3>1. PICK i \in good : \A j \in good : i <= j
      <4>1. good \in SUBSET Nat
        OBVIOUS
      <4> HIDE DEF good
      <4> QED BY <2>2, <4>1, LeastNumber
    <3>2. i - 1 \in 0..N /\ (i - 1) + 1 = i /\ \A j \in 1..(i - 1) : j \in 1..N /\ j \notin good
      BY <1>1, <3>1
    <3>3. P(i - 1)
      BY <3>1, <3>2
    <3> HIDE DEF P
    <3> QED BY <3>2, <3>3
  <2> QED BY <2>1, <2>2
<1>3. LeadingUndeliverable(items) = CHOOSE n \in 0..N : P(n)
  BY DEF LeadingUndeliverable
<1>4. P(LeadingUndeliverable(items)) /\ LeadingUndeliverable(items) \in 0..N
  <2> HIDE DEF P, N
  <2> QED BY <1>2, <1>3
<1> QED BY <1>4

(* What asyncSend makes of a queue: all of it is dropped, or all before    *)
(* the datagram that is then being sent.                                   *)
AllDropped(q) == sendqueue' = Popped(q, Len(q.items)) /\ NoSend
SendingNth(q, n) ==
  /\ sendqueue' = Popped(q, n)
  /\ asyncSendInProgress' = TRUE
  /\ sendOp' \in {"resolving", "sending"}
  /\ current' = q.items[n].id
  /\ endpoints' \in Iterators
  /\ tried' \in Seq(Nat)

LEMMA AsyncSendEffect ==
  ASSUME NEW q \in Queues, AsyncSend(q)
  PROVE  AllDropped(q) \/ \E n \in 1..Len(q.items) : SendingNth(q, n)
<1> DEFINE n == LeadingUndeliverable(q.items)
<1>1. q.items \in Seq(ItemType) /\ Len(q.items) \in Nat
  BY LenProperties DEF Queues, QueueOf
<1>2. n \in 0..Len(q.items)
  BY <1>1, LeadingType
<1>3. CASE n = Len(q.items) /\ sendqueue' = Popped(q, n) /\ NoSend
  BY <1>3 DEF AllDropped
<1>4. CASE n < Len(q.items)
  <2> DEFINE item == q.items[n + 1]
  <2> HIDE DEF n
  <2>1. n + 1 \in 1..Len(q.items) /\ item \in ItemType
    BY <1>1, <1>2, <1>4, ElementOfSeq
  <2>2. /\ sendqueue' = Popped(q, n + 1) /\ asyncSendInProgress' = TRUE
        /\ current' = item.id
        /\ sendOp' = IF item.host = "name" THEN "resolving" ELSE "sending"
        /\ endpoints' = IF item.host = "name" THEN IteratorOver(<<>>)
                        ELSE Advance(IteratorOver(<<item.host>>))
        /\ tried' = IF item.host = "name" THEN <<>> ELSE <<1>>
    BY <1>2, <1>4 DEF AsyncSend, n
  <2>3. endpoints' \in Iterators
    <3>1. CASE item.host = "name"
      BY <2>2, <3>1, NoEndpoints
    <3>2. CASE item.host # "name"
      <4>1. item.host \in Families
        BY <2>1, <3>2 DEF ItemType
      <4>2. <<item.host>> \in Seq(Families)
        BY <4>1
      <4>3. IteratorOver(<<item.host>>) \in Iterators
        BY <4>2, IteratorTypes
      <4> QED BY <2>2, <3>2, <4>3, IteratorTypes
    <3> QED BY <3>1, <3>2
  <2>4. tried' \in Seq(Nat)
    <3>1. <<>> \in Seq(Nat) /\ <<1>> \in Seq(Nat)
      BY EmptySeq
    <3> QED BY <2>2, <3>1
  <2> QED BY <2>1, <2>2, <2>3, <2>4 DEF SendingNth
<1> QED BY <1>2, <1>3, <1>4 DEF AsyncSend
----------------------------------------------------------------------------
(* Pushing the items of a call one after the other.                        *)
Results == [queue : Queues, discarded : BOOLEAN, hangs : BOOLEAN]

LEMMA AndThenType ==
  ASSUME NEW r \in Results, NEW item \in ItemType
  PROVE  AndThen(r, item) \in Results
<1> DEFINE p == Push(r.queue, item)
<1>1. r.queue \in QueueOf(ItemType) /\ r.discarded \in BOOLEAN /\ r.hangs \in BOOLEAN
  BY DEF Results, Queues
<1>2. p.queue \in QueueOf(ItemType) /\ p.discarded \in BOOLEAN /\ p.hangs \in BOOLEAN
  BY <1>1, ItemMem, PushKeeps
<1>3. AndThen(r, item) = [queue |-> p.queue, discarded |-> r.discarded \/ p.discarded,
                          hangs |-> r.hangs \/ p.hangs]
  BY DEF AndThen
<1> HIDE DEF p
<1> QED BY <1>1, <1>2, <1>3 DEF Results, Queues

LEMMA PushedSteps ==
  ASSUME sendqueue \in Queues, NEW items \in Seq(ItemType)
  PROVE  /\ PushedUpTo(items) \in [0..Len(items) -> Results]
         /\ PushedUpTo(items)[0] = NothingPushed
         /\ \A n \in 1..Len(items) :
              PushedUpTo(items)[n] = AndThen(PushedUpTo(items)[n - 1], items[n])
<1> DEFINE N == Len(items)
           step == [p \in (1..N) \X Results |-> AndThen(p[2], items[p[1]])]
           Eq(g) == g = [n \in 0..N |-> IF n = 0 THEN NothingPushed ELSE AndThen(g[n - 1], items[n])]
<1>1. N \in Nat /\ \A n \in 1..N : items[n] \in ItemType
  BY LenProperties, ElementOfSeq
<1>2. NothingPushed \in Results
  BY DEF NothingPushed, Results
<1>3. step \in [(1..N) \X Results -> Results]
  BY <1>1, AndThenType
<1>4. PICK g : IsFold(g, N, Results, NothingPushed, step)
  <2> HIDE DEF N, step
  <2> QED BY <1>1, <1>2, <1>3, FoldExists
<1>5. \A n \in 1..N : g[n] = AndThen(g[n - 1], items[n])
  <2>1. \A n \in 1..N, x \in Results : step[<<n, x>>] = AndThen(x, items[n])
    OBVIOUS
  <2> HIDE DEF N, step
  <2>2. \A n \in 1..N : g[n - 1] \in Results
    BY <1>1, <1>4 DEF IsFold
  <2> QED BY <1>4, <2>1, <2>2 DEF IsFold
<1>6. Eq(g)
  <2> HIDE DEF N
  <2> QED BY <1>1, <1>4, <1>5 DEF IsFold
<1>7. Eq(PushedUpTo(items))
  <2> DEFINE f == CHOOSE f : Eq(f)
  <2>1. Eq(f)
    <3> HIDE DEF Eq
    <3> QED BY <1>6
  <2> QED BY <2>1 DEF PushedUpTo
<1>8. \A n \in 0..N : PushedUpTo(items)[n] = g[n]
  <2> DEFINE f == PushedUpTo(items)
             S == {n \in 0..N : f[n] = g[n]}
  <2> HIDE DEF f, N
  <2>1. \A n \in 0..N : f[n] = IF n = 0 THEN NothingPushed ELSE AndThen(f[n - 1], items[n])
    BY <1>7 DEF f
  <2>2. 0 \in S
    BY <1>1, <1>4, <2>1 DEF IsFold
  <2>3. \A n \in 1..N : n - 1 \in S => n \in S
    BY <1>1, <1>5, <2>1
  <2> HIDE DEF S
  <2>4. 0..N \subseteq S
    BY <1>1, <2>2, <2>3, Induct
  <2> QED BY <2>4 DEF S, f
<1> HIDE DEF N
<1>9. PushedUpTo(items) = [n \in 0..N |-> g[n]]
  BY <1>7, <1>8
<1> QED BY <1>1, <1>4, <1>5, <1>8, <1>9 DEF N, IsFold

LEMMA PushAllType ==
  ASSUME sendqueue \in Queues, NEW items \in Seq(ItemType)
  PROVE  PushAll(items) \in Results
BY PushedSteps, LenProperties DEF PushAll
----------------------------------------------------------------------------
(* Types.                                                                  *)
SendOps == {"idle", "resolving", "resolved", "unresolved", "sending", "sent", "failed"}
OpTypes ==
  /\ asyncSendInProgress \in BOOLEAN /\ sendOp \in SendOps /\ current \in Nat
  /\ endpoints \in Iterators /\ tried \in Seq(Nat)
SendTypes ==
  /\ sendqueue \in Queues /\ sendBuffer \in Nat /\ offered \in Nat
  /\ lastDiscarded \subseteq Nat /\ discardReported \in BOOLEAN
ReceiveTypes ==
  /\ receivequeue \in Queues
  /\ recvOp \in [Families -> {"idle", "pending", "done", "failed"}]
  /\ recvIn \in [Families -> ItemType]
  /\ receiveBuffer \in Nat /\ arrivals \in Nat /\ readErrors \in Nat
  /\ delivered \in Seq(ItemType)
RestTypes ==
  /\ handle \in {"none", "held", "releasing", "released"}
  /\ open \in [Families -> BOOLEAN]
  /\ wreck \in {"no", "hung", "crashed"} /\ raced \in BOOLEAN
  /\ limiter \in [pc : {"idle", "loop", "pop", "front"}, mem : Nat, size : Nat]
  /\ sent \in Seq(Nat)

Typed == OpTypes /\ SendTypes /\ ReceiveTypes /\ RestTypes

LEMMA TypedIsTypeOK == Typed <=> TypeOK
BY DEF Typed, OpTypes, SendTypes, ReceiveTypes, RestTypes, TypeOK, Queues, QueueOf,
       Iterators, SendOps

LEMMA QueueParts ==
  ASSUME NEW q \in Queues
  PROVE  /\ q.items \in Seq(ItemType) /\ Len(q.items) \in Nat
         /\ q.mem \in 0..(SizeWrap - 1) /\ q.limit \in 0..(SizeWrap - 1)
         /\ \A i \in 1..Len(q.items) : q.items[i] \in ItemType
BY LenProperties, ElementOfSeq DEF Queues, QueueOf

LEMMA QueueUpdates ==
  ASSUME NEW q \in Queues
  PROVE  /\ \A m \in 0..(SizeWrap - 1) : [q EXCEPT !.mem = m] \in Queues
         /\ \A l \in 0..(SizeWrap - 1) : [q EXCEPT !.limit = l] \in Queues
         /\ \A s \in Seq(ItemType) : [q EXCEPT !.items = s] \in Queues
         /\ Cleared(q) \in Queues
<1>1. /\ \A m \in 0..(SizeWrap - 1) : [q EXCEPT !.mem = m] \in Queues
      /\ \A l \in 0..(SizeWrap - 1) : [q EXCEPT !.limit = l] \in Queues
      /\ \A s \in Seq(ItemType) : [q EXCEPT !.items = s] \in Queues
  BY DEF Queues, QueueOf
<1>2. 0 \in 0..(SizeWrap - 1) /\ <<>> \in Seq(ItemType)
  BY SizeWrapAssumption, EmptySeq
<1>3. ASSUME NEW s \in Seq(ItemType), NEW m \in 0..(SizeWrap - 1)
      PROVE  [q EXCEPT !.items = s, !.mem = m] \in Queues
  BY DEF Queues, QueueOf
<1>4. Cleared(q) \in Queues
  <2>1. \E s \in Seq(ItemType), m \in 0..(SizeWrap - 1) : Cleared(q) = [q EXCEPT !.items = s, !.mem = m]
    BY <1>2 DEF Cleared
  <2> QED BY <1>3, <2>1
<1> QED BY <1>1, <1>4

LEMMA NoSendTypes == NoSend => OpTypes'
<1>1. <<>> \in Seq(Nat)
  BY EmptySeq
<1> SUFFICES ASSUME NoSend PROVE OpTypes'
  OBVIOUS
<1>2. endpoints' \in Iterators /\ tried' \in Seq(Nat)
  BY <1>1, NoEndpoints DEF NoSend
<1>3. asyncSendInProgress' \in BOOLEAN /\ sendOp' \in SendOps /\ current' \in Nat
  BY DEF NoSend, SendOps
<1> QED BY <1>2, <1>3 DEF OpTypes

LEMMA AsyncSendTypes ==
  ASSUME NEW q \in Queues, AsyncSend(q)
  PROVE  OpTypes' /\ sendqueue' \in Queues
<1>1. \A n \in 0..Len(q.items) : Popped(q, n) \in Queues
  BY ItemMem, PopKeeps DEF Queues
<1>2. CASE AllDropped(q)
  BY <1>1, <1>2, QueueParts, NoSendTypes DEF AllDropped
<1>3. ASSUME NEW n \in 1..Len(q.items), SendingNth(q, n) PROVE OpTypes' /\ sendqueue' \in Queues
  <2>1. q.items[n].id \in Nat /\ n \in 0..Len(q.items)
    BY QueueParts, ItemMem
  <2> QED BY <1>1, <1>3, <2>1 DEF SendingNth, OpTypes, SendOps
<1> QED BY <1>2, <1>3, AsyncSendEffect

LEMMA ItemsType ==
  ASSUME sendBuffer \in Nat, offered \in Nat, NEW count \in Nat,
         NEW host \in Families \cup {"name"}
  PROVE  /\ Items(count, host) \in Seq(ItemType)
         /\ Len(Items(count, host)) = count
         /\ \A i \in 1..count : Items(count, host)[i].id = offered + i
<1>1. \A i \in 1..count :
        [id |-> offered + i, mem |-> Overhead + sendBuffer, host |-> host] \in ItemType
  BY UdpSizesAssumption DEF ItemType
<1> QED BY <1>1 DEF Items

LEMMA OfferTypes ==
  ASSUME Typed, NEW items \in Seq(ItemType), Offer(items)
  PROVE  Typed'
<1> DEFINE r == PushAll(items)
<1>1. r \in Results
  BY PushAllType DEF Typed, SendTypes
<1>2. r.queue \in Queues /\ r.discarded \in BOOLEAN
  BY <1>1 DEF Results
<1>3. Len(items) \in Nat /\ DOMAIN items = 1..Len(items)
  BY LenProperties
<1>4. offered' \in Nat /\ UNCHANGED <<handle, open, limitVars, sent, receiveVars>>
  BY <1>3 DEF Offer, Typed, SendTypes
<1>5. CASE UNCHANGED <<sendqueue, sendBuffer, opVars, lastDiscarded, discardReported>> /\ wreck' = "hung"
  BY <1>4, <1>5 DEF Typed, OpTypes, SendTypes, ReceiveTypes, RestTypes, opVars, limitVars, receiveVars
<1>6. CASE /\ UNCHANGED wreck
           /\ lastDiscarded' = (Ids(sendqueue.items) \cup Ids(items)) \ Ids(r.queue.items)
           /\ discardReported' = r.discarded
           /\ AsyncSendUnlessInProgress(r.queue)
           /\ sendBuffer' = 0
  <2>1. Ids(sendqueue.items) \subseteq Nat /\ Ids(items) \subseteq Nat
    <3>1. \A s \in Seq(ItemType) : Ids(s) \subseteq Nat
      BY LenProperties, ElementOfSeq, ItemMem DEF Ids
    <3> QED BY <3>1, QueueParts DEF Typed, SendTypes
  <2> HIDE DEF r
  <2>2. OpTypes' /\ sendqueue' \in Queues
    <3>1. CASE asyncSendInProgress
      BY <1>2, <1>6, <3>1 DEF AsyncSendUnlessInProgress, Typed, OpTypes, opVars
    <3>2. CASE ~asyncSendInProgress
      BY <1>2, <1>6, <3>2, AsyncSendTypes DEF AsyncSendUnlessInProgress
    <3> QED BY <3>1, <3>2
  <2> QED BY <1>2, <1>4, <1>6, <2>1, <2>2
        DEF Typed, SendTypes, ReceiveTypes, RestTypes, limitVars, receiveVars
<1> QED BY <1>5, <1>6 DEF Offer

LEMMA OpenTypes ==
  ASSUME Typed, OpenWhileAlive
  PROVE  open' \in [Families -> BOOLEAN] /\ (open' = open \/ open' = NoFamilies)
BY DEF OpenWhileAlive, NoFamilies, Typed, RestTypes

LEMMA TypesInit == Init => Typed
<1> SUFFICES ASSUME Init PROVE Typed
  OBVIOUS
<1>1. \A l \in 0..(SizeWrap - 1) : EmptyQueue(l) \in Queues
  BY SizeWrapAssumption, EmptySeq DEF EmptyQueue, Queues, QueueOf
<1>2. OpTypes
  <2>1. endpoints \in Iterators
    BY NoEndpoints DEF Init
  <2>2. tried \in Seq(Nat)
    BY EmptySeq DEF Init
  <2> QED BY <2>1, <2>2 DEF Init, OpTypes, SendOps
<1>3. SendTypes
  BY <1>1, UdpSizesAssumption DEF Init, SendTypes
<1>4. ReceiveTypes
  <2>1. receivequeue \in Queues /\ delivered \in Seq(ItemType)
    BY <1>1, UdpSizesAssumption, EmptySeq DEF Init
  <2>2. recvOp \in [Families -> {"idle", "pending", "done", "failed"}] /\ recvIn \in [Families -> ItemType]
    BY DEF Init, ItemType
  <2>3. receiveBuffer \in Nat /\ arrivals \in Nat /\ readErrors \in Nat
    BY DEF Init
  <2> QED BY <2>1, <2>2, <2>3 DEF ReceiveTypes
<1>5. RestTypes
  <2>1. sent \in Seq(Nat)
    BY EmptySeq DEF Init
  <2> QED BY <2>1 DEF Init, RestTypes, NoFamilies, Idle
<1> QED BY <1>2, <1>3, <1>4, <1>5 DEF Typed

LEMMA TypesReceive ==
  ASSUME Typed, NEW f \in Families,
         Receive \/ HandleReceive(f) \/ OsReceiveError(f) \/ (\E n \in ArrivalSizes : OsReceive(f, n))
  PROVE  Typed'
<1> USE DEF Typed, ReceiveTypes
<1>1. CASE UNCHANGED <<handle, open>> /\ KeepSending /\ ReceiveTypes' /\ wreck' \in {"no", "hung", "crashed"}
  BY <1>1 DEF KeepSending, limitVars, opVars, sendVars, OpTypes, SendTypes, RestTypes
<1>2. CASE Receive
  <2>1. CASE receivequeue.items = <<>> /\ UNCHANGED <<receivequeue, delivered>> /\ receiveBuffer' = 0
    BY <1>1, <1>2, <2>1 DEF Receive, RestTypes
  <2>2. CASE receivequeue.items # <<>>
    <3> DEFINE item == Head(receivequeue.items)
    <3>1. item \in ItemType /\ item.id \in Nat /\ 1 \in 0..Len(receivequeue.items)
      BY <2>2, QueueParts, HeadTailProperties, EmptySeq, ItemMem
    <3>2. Popped(receivequeue, 1) \in Queues
      BY <3>1, ItemMem, PopKeeps DEF Queues
    <3> HIDE DEF item
    <3>3. /\ receiveBuffer' = item.id /\ delivered' = Append(delivered, item)
          /\ receivequeue' = Popped(receivequeue, 1)
      BY <1>2, <2>2 DEF Receive, item
    <3>4. delivered' \in Seq(ItemType)
      BY <3>1, <3>3, AppendProperties
    <3> QED BY <1>1, <1>2, <3>1, <3>2, <3>3, <3>4 DEF Receive, RestTypes
  <2> QED BY <1>2, <2>1, <2>2 DEF Receive
<1>3. CASE HandleReceive(f)
  <2>1. recvOp' \in [Families -> {"idle", "pending", "done", "failed"}]
    BY <1>3 DEF HandleReceive, ListenAgain
  <2>2. receivequeue' \in Queues /\ wreck' \in {"no", "hung", "crashed"}
    <3>1. CASE UNCHANGED <<receivequeue, wreck>>
      BY <3>1 DEF RestTypes
    <3>2. CASE receivequeue' = Push(receivequeue, recvIn[f]).queue
                 /\ wreck' = IF Push(receivequeue, recvIn[f]).hangs THEN "hung" ELSE wreck
      <4>1. Push(receivequeue, recvIn[f]).queue \in Queues
        BY ItemMem, PushKeeps DEF Queues
      <4> QED BY <3>2, <4>1 DEF RestTypes
    <3> QED BY <1>3, <3>1, <3>2 DEF HandleReceive
  <2> QED BY <1>1, <1>3, <2>1, <2>2 DEF HandleReceive
<1>4. CASE OsReceiveError(f)
  BY <1>1, <1>4 DEF OsReceiveError, RestTypes
<1>5. ASSUME NEW n \in ArrivalSizes, OsReceive(f, n) PROVE Typed'
  <2>1. [id |-> arrivals + 1, mem |-> Overhead + n, host |-> f] \in ItemType
    BY UdpSizesAssumption DEF ItemType
  <2> QED BY <1>1, <1>5, <2>1 DEF OsReceive, RestTypes
<1> QED BY <1>2, <1>3, <1>4, <1>5

LEMMA TypesClient ==
  ASSUME Typed, Client
  PROVE  Typed'
<1> USE DEF Typed
<1>1. CASE Bind
  BY <1>1 DEF Bind, KeepSending, limitVars, opVars, sendVars, OpTypes, SendTypes, ReceiveTypes, RestTypes
<1>2. CASE Receive
  BY <1>2, TypesReceive DEF Families
<1>3. CASE Close
  BY <1>3, QueueUpdates DEF Close, limitVars, opVars, OpTypes, SendTypes, ReceiveTypes, RestTypes
<1>4. CASE Release
  BY <1>4, OpenTypes DEF Release, KeepSending, limitVars, opVars, sendVars, receiveVars,
       OpTypes, SendTypes, ReceiveTypes, RestTypes
<1>5. CASE LimitTest
  <2>1. limiter' \in [pc : {"idle", "loop", "pop", "front"}, mem : Nat, size : Nat]
    <3>1. CASE limiter' = Idle
      BY <3>1 DEF Idle
    <3>2. CASE /\ sendqueue.items # <<>>
               /\ limiter' = [pc |-> "pop", mem |-> sendqueue.mem, size |-> Head(sendqueue.items).mem]
      <4>1. Head(sendqueue.items).mem \in Nat /\ sendqueue.mem \in Nat
        BY <3>2, QueueParts, HeadTailProperties, ItemMem, SizeWrapAssumption DEF SendTypes
      <4> QED BY <3>2, <4>1
    <3> QED BY <1>5, <3>1, <3>2 DEF LimitTest
  <2> QED BY <1>5, <2>1 DEF LimitTest, opVars, sendVars, receiveVars, OpTypes, SendTypes, ReceiveTypes, RestTypes
<1>6. CASE LimitStore
  <2>1. (limiter.mem - limiter.size) % SizeWrap \in 0..(SizeWrap - 1)
    BY Wrapped DEF RestTypes
  <2> QED BY <1>6, <2>1, QueueUpdates DEF LimitStore, Idle, opVars, receiveVars, OpTypes, SendTypes, ReceiveTypes, RestTypes
<1>7. CASE LimitPop
  <2>1. sendqueue' \in Queues
    <3>1. CASE sendqueue.items # <<>> /\ sendqueue' = [sendqueue EXCEPT !.items = Tail(@)]
      <4>1. Tail(sendqueue.items) \in Seq(ItemType)
        BY <3>1, QueueParts, HeadTailProperties DEF SendTypes
      <4> QED BY <3>1, <4>1, QueueUpdates DEF SendTypes
    <3> QED BY <1>7, <3>1 DEF LimitPop, SendTypes
  <2> QED BY <1>7, <2>1 DEF LimitPop, Idle, opVars, receiveVars, OpTypes, SendTypes, ReceiveTypes, RestTypes
<1>8. ASSUME NEW n \in WriteSizes, Write(n) PROVE Typed'
  BY <1>8, UdpSizesAssumption DEF Write, limitVars, opVars, receiveVars, OpTypes, SendTypes, ReceiveTypes, RestTypes
<1>9. ASSUME NEW host \in Hosts, Send(host) PROVE Typed'
  <2>1. Items(1, host) \in Seq(ItemType)
    BY HostsAssumption, ItemsType DEF SendTypes
  <2> QED BY <1>9, <2>1, OfferTypes DEF Send
<1>10. ASSUME NEW count \in AddressCounts, Broadcast(count) PROVE Typed'
  <2>1. Items(count, "v4") \in Seq(ItemType)
    BY UdpSizesAssumption, ItemsType DEF SendTypes, Families
  <2> QED BY <1>10, <2>1, OfferTypes DEF Broadcast
<1>11. ASSUME NEW limit \in SendLimits, LimitBegin(limit) PROVE Typed'
  BY <1>11, UdpSizesAssumption, QueueUpdates DEF LimitBegin, Idle, opVars, receiveVars, OpTypes, SendTypes, ReceiveTypes, RestTypes
<1> QED BY <1>1, <1>2, <1>3, <1>4, <1>5, <1>6, <1>7, <1>8, <1>9, <1>10, <1>11 DEF Client

(* handleSend tries the next endpoint, or gives the datagram up and goes   *)
(* on with the queue.                                                      *)
LEMMA HandleSendCases ==
  ASSUME Typed, HandleSend
  PROVE  /\ UNCHANGED <<handle, wreck, limiter, sendBuffer, sent, offered, lastDiscarded,
                        discardReported, receiveVars>>
         /\ raced' = (raced \/ limiter # Idle)
         /\ sendOp # "idle"
         /\ \/ /\ sendOp' = "sending" /\ endpoints' \in Iterators /\ tried' \in Seq(Nat)
               /\ sendOp \in {"resolved", "failed"}
               /\ UNCHANGED <<asyncSendInProgress, current, sendqueue, open>>
            \/ AsyncSend(sendqueue) /\ OpenWhileAlive
<1> DEFINE left == WithoutClosed(endpoints)
<1>1. left \in Iterators /\ Advance(left) \in Iterators /\ NextPosition(left) \in Nat
  <2>1. endpoints.list \in Seq(Families) /\ Len(endpoints.list) + 1 \in Nat
    BY LenProperties DEF Typed, OpTypes, Iterators
  <2>2. left \in Iterators
    BY <2>1 DEF WithoutClosed, Typed, OpTypes, Iterators
  <2> HIDE DEF left
  <2> QED BY <2>2, IteratorTypes
<1> HIDE DEF left
<1>2. Append(tried, NextPosition(left)) \in Seq(Nat)
  BY <1>1, AppendProperties DEF Typed, OpTypes
<1> QED BY <1>1, <1>2 DEF HandleSend, NextDatagram, left

LEMMA TypesHandleSend ==
  ASSUME Typed, HandleSend
  PROVE  Typed'
<1>1. CASE /\ sendOp' = "sending" /\ endpoints' \in Iterators /\ tried' \in Seq(Nat)
           /\ UNCHANGED <<asyncSendInProgress, current, sendqueue, open>>
  BY <1>1, HandleSendCases DEF receiveVars, SendOps, Typed, OpTypes, SendTypes, ReceiveTypes, RestTypes
<1>2. CASE AsyncSend(sendqueue) /\ OpenWhileAlive
  <2>1. OpTypes' /\ sendqueue' \in Queues
    BY <1>2, AsyncSendTypes DEF Typed, SendTypes
  <2> QED BY <1>2, <2>1, HandleSendCases, OpenTypes DEF receiveVars, Typed, SendTypes, ReceiveTypes, RestTypes
<1> QED BY <1>1, <1>2, HandleSendCases

LEMMA TypesStep == Typed /\ [Next]_vars => Typed'
<1> SUFFICES ASSUME Typed, [Next]_vars PROVE Typed'
  OBVIOUS
<1>1. CASE OsResolve
  <2>1. endpoints' \in Iterators
    BY <1>1, UdpResolveAssumption, IteratorTypes DEF OsResolve, Typed, OpTypes
  <2> QED BY <1>1, <2>1 DEF OsResolve, SendOps, limitVars, sendVars, receiveVars,
             Typed, OpTypes, SendTypes, ReceiveTypes, RestTypes
<1>2. CASE OsSend
  <2>1. sent' \in Seq(Nat)
    <3>1. Append(sent, current) \in Seq(Nat) /\ sent \in Seq(Nat)
      BY AppendProperties DEF Typed, OpTypes, RestTypes
    <3> QED BY <1>2, <3>1 DEF OsSend
  <2> QED BY <1>2, <2>1 DEF OsSend, SendOps, limitVars, sendVars, receiveVars,
             Typed, OpTypes, SendTypes, ReceiveTypes, RestTypes
<1>3. CASE UNCHANGED vars
  BY <1>3 DEF vars, limitVars, opVars, sendVars, receiveVars,
       Typed, OpTypes, SendTypes, ReceiveTypes, RestTypes
<1> QED BY <1>1, <1>2, <1>3, TypesClient, TypesHandleSend, TypesReceive DEF Next, Butler, System

(* Every variable keeps its type; in particular memSize_ stays a size_t.   *)
THEOREM TypeCorrect == Spec => []TypeOK
BY TypesInit, TypesStep, TypedIsTypeOK, PTL DEF Spec
----------------------------------------------------------------------------
(* Receiving.  Of each family the datagrams delivered come before those in *)
(* the queue, and these before the one the butler has still to handle.     *)
Listening == \A f \in Families : open[f] => recvOp[f] # "idle"

Ascending(s) ==
  \A i, j \in 1..Len(s) : i < j /\ s[i].host = s[j].host => s[i].id < s[j].id
Received ==
  /\ \A i \in 1..Len(receivequeue.items) : receivequeue.items[i].id <= arrivals
  /\ \A i \in 1..Len(delivered) : delivered[i].id <= arrivals
  /\ \A f \in Families : recvIn[f].host = f /\ recvIn[f].id <= arrivals
ReceivedOrder ==
  /\ Ascending(receivequeue.items) /\ Ascending(delivered)
  /\ \A i \in 1..Len(delivered), j \in 1..Len(receivequeue.items) :
       delivered[i].host = receivequeue.items[j].host =>
         delivered[i].id < receivequeue.items[j].id
  /\ \A f \in Families : recvOp[f] = "done" =>
       /\ \A i \in 1..Len(receivequeue.items) :
            receivequeue.items[i].host = f => receivequeue.items[i].id < recvIn[f].id
       /\ \A i \in 1..Len(delivered) : delivered[i].host = f => delivered[i].id < recvIn[f].id

ReceiveInv == Listening /\ Received /\ ReceivedOrder /\ Accounted(receivequeue)

LEMMA ReceiveInit == Init => ReceiveInv
<1> SUFFICES ASSUME Init PROVE ReceiveInv
  OBVIOUS
<1>1. receivequeue.items = <<>> /\ receivequeue.mem = 0 /\ receivequeue.limit \in Nat
  BY UdpSizesAssumption DEF Init, EmptyQueue
<1>2. Len(receivequeue.items) = 0 /\ Len(delivered) = 0
  BY <1>1 DEF Init
<1>3. Accounted(receivequeue)
  BY <1>1, ItemMem, SumEmpty DEF Accounted
<1>4. Listening /\ Received
  BY <1>2 DEF Init, Listening, Received, NoFamilies
<1> QED BY <1>2, <1>3, <1>4 DEF Init, ReceiveInv, ReceivedOrder, Ascending

(* Sending leaves all of this alone, except that it may close the sockets. *)
LEMMA ReceiveSame ==
  ASSUME Typed, ReceiveInv, UNCHANGED receiveVars, open' = open \/ open' = NoFamilies
  PROVE  ReceiveInv'
BY DEF receiveVars, NoFamilies, ReceiveInv, Listening, Received, ReceivedOrder, Ascending

LEMMA ReceiveOffer ==
  ASSUME Typed, ReceiveInv, NEW items, Offer(items)
  PROVE  ReceiveInv'
BY ReceiveSame DEF Offer

LEMMA ReceiveTaken ==
  ASSUME Typed, ReceiveInv, Receive
  PROVE  ReceiveInv'
<1>1. CASE UNCHANGED <<receivequeue, delivered>>
  BY <1>1 DEF Receive, ReceiveInv, Listening, Received, ReceivedOrder, Ascending
<1>2. CASE receivequeue.items # <<>>
  <2> DEFINE q == receivequeue.items
             item == Head(q)
             rest == SubSeq(q, 2, Len(q))
  <2>1. /\ q \in Seq(ItemType) /\ Len(q) \in Nat /\ delivered \in Seq(ItemType) /\ Len(delivered) \in Nat
        /\ arrivals \in Nat
    BY QueueParts, LenProperties DEF Typed, ReceiveTypes
  <2>2. 1 \in 1..Len(q) /\ 1 \in 0..Len(q) /\ item = q[1] /\ item \in ItemType
    <3>1. Len(q) > 0
      BY <1>2, <2>1, EmptySeq
    <3> QED BY <1>2, <2>1, <3>1, ElementOfSeq
  <2>3. Len(rest) = Len(q) - 1 /\ \A i \in 1..Len(rest) : rest[i] = q[i + 1] /\ i + 1 \in 1..Len(q)
    <3>1. 1 + 1 = 2
      OBVIOUS
    <3>2. Len(rest) = Len(q) - 1 /\ \A i \in 1..Len(rest) : rest[i] = q[1 + i]
      BY <2>1, <2>2, <3>1, ItemMem, SumSplit
    <3> QED BY <2>1, <3>2
  <2>4. /\ receivequeue'.items = rest
        /\ Accounted(receivequeue')
    <3>1. receivequeue' = Popped(receivequeue, 1)
      BY <1>2 DEF Receive
    <3>2. receivequeue \in QueueOf(ItemType)
      BY DEF Typed, ReceiveTypes, Queues
    <3>3. 1 \in 0..Len(receivequeue.items) /\ Accounted(receivequeue) /\ 1 + 1 = 2
      BY <2>2 DEF ReceiveInv
    <3> HIDE DEF q, rest, item
    <3>4. /\ Popped(receivequeue, 1).items
               = SubSeq(receivequeue.items, 2, Len(receivequeue.items))
          /\ Accounted(Popped(receivequeue, 1))
      BY <3>2, <3>3, ItemMem, PopKeeps
    <3> QED BY <3>1, <3>4 DEF q, rest
  <2>5. delivered' = Append(delivered, item)
    BY <1>2 DEF Receive
  <2>6. /\ Len(delivered') = Len(delivered) + 1
        /\ \A i \in 1..Len(delivered) : delivered'[i] = delivered[i]
        /\ delivered'[Len(delivered) + 1] = q[1]
    BY <2>1, <2>2, <2>5, AppendProperties
  <2>7. UNCHANGED <<open, recvOp, recvIn, arrivals>>
    BY DEF Receive
  <2> HIDE DEF item, rest
  <2>8. \A i \in 1..Len(delivered) : delivered[i].id \in Nat
    BY <2>1, ElementOfSeq, ItemMem
  <2>9. \A i \in 1..Len(delivered') : i \in 1..Len(delivered) \/ i = Len(delivered) + 1
    BY <2>1, <2>6
  <2>10. Received'
    BY <2>2, <2>3, <2>4, <2>6, <2>7, <2>9 DEF ReceiveInv, Received
  <2>11. Ascending(receivequeue'.items)
    <3>1. \A i, j \in 1..Len(rest) : i < j => i + 1 < j + 1
      BY <2>1, <2>3
    <3> QED BY SMTT(30), <2>3, <2>4, <3>1 DEF ReceiveInv, ReceivedOrder, Ascending
  <2>12. Ascending(delivered')
    <3> SUFFICES ASSUME NEW i \in 1..Len(delivered'), NEW j \in 1..Len(delivered'), i < j,
                        delivered'[i].host = delivered'[j].host
                 PROVE  delivered'[i].id < delivered'[j].id
      BY DEF Ascending
    <3>1. i \in 1..Len(delivered)
      BY <2>1, <2>6
    <3> QED BY <2>2, <2>6, <2>9, <3>1 DEF ReceiveInv, ReceivedOrder, Ascending
  <2>13. \A i \in 1..Len(delivered'), j \in 1..Len(rest) :
           delivered'[i].host = rest[j].host => delivered'[i].id < rest[j].id
    <3> TAKE i \in 1..Len(delivered'), j \in 1..Len(rest)
    <3>1. rest[j] = q[j + 1] /\ j + 1 \in 1..Len(q) /\ 1 < j + 1
      BY <2>1, <2>3
    <3>2. CASE i \in 1..Len(delivered)
      BY <2>6, <3>1, <3>2 DEF ReceiveInv, ReceivedOrder
    <3>3. CASE i = Len(delivered) + 1
      BY <2>2, <2>6, <3>1, <3>3 DEF ReceiveInv, ReceivedOrder, Ascending
    <3> QED BY <2>9, <3>2, <3>3
  <2>14. ASSUME NEW g \in Families, recvOp'[g] = "done"
         PROVE  /\ \A i \in 1..Len(rest) : rest[i].host = g => rest[i].id < recvIn'[g].id
                /\ \A i \in 1..Len(delivered') :
                     delivered'[i].host = g => delivered'[i].id < recvIn'[g].id
    <3>1. recvOp[g] = "done" /\ recvIn'[g] = recvIn[g]
      BY <2>7, <2>14
    <3>2. /\ \A i \in 1..Len(q) : q[i].host = g => q[i].id < recvIn[g].id
          /\ \A i \in 1..Len(delivered) : delivered[i].host = g => delivered[i].id < recvIn[g].id
      BY <3>1 DEF ReceiveInv, ReceivedOrder
    <3>3. \A i \in 1..Len(rest) : rest[i] = q[i + 1] /\ i + 1 \in 1..Len(q)
      BY <2>1, <2>3
    <3> QED BY <2>2, <2>6, <2>9, <3>1, <3>2, <3>3
  <2>15. receivequeue'.items = rest
    BY <2>4
  <2>16. ReceivedOrder'
    BY <2>11, <2>12, <2>13, <2>14, <2>15 DEF ReceivedOrder
  <2> QED BY <2>4, <2>7, <2>10, <2>16 DEF ReceiveInv, Listening
<1> QED BY <1>1, <1>2 DEF Receive

LEMMA ReceiveHandled ==
  ASSUME Typed, ReceiveInv, NEW f \in Families, HandleReceive(f)
  PROVE  ReceiveInv'
<1>1. /\ UNCHANGED <<open, recvIn, delivered, arrivals>>
      /\ recvOp' = [recvOp EXCEPT ![f] = ListenAgain(f)]
  BY DEF HandleReceive
<1>2. /\ \A g \in Families : recvOp'[g] = "done" => recvOp[g] = "done" /\ g # f
      /\ Listening'
  BY <1>1 DEF ListenAgain, Typed, ReceiveTypes, ReceiveInv, Listening
<1>3. CASE receivequeue' = receivequeue
  BY <1>1, <1>2, <1>3 DEF ReceiveInv, Received, ReceivedOrder
<1>4. CASE recvOp[f] = "done" /\ receivequeue' = Push(receivequeue, recvIn[f]).queue
  <2> DEFINE q == receivequeue.items
             r == Push(receivequeue, recvIn[f])
  <2>1. /\ q \in Seq(ItemType) /\ Len(q) \in Nat /\ recvIn[f] \in ItemType /\ recvIn[f].host = f
        /\ arrivals \in Nat /\ receivequeue \in QueueOf(ItemType)
    BY QueueParts DEF Typed, ReceiveTypes, ReceiveInv, Received, Queues
  <2>2. /\ r.queue = receivequeue \/ \E n \in 0..Len(q) : PushedAfter(receivequeue, recvIn[f], n, r)
        /\ Accounted(r.queue)
    BY <2>1, ItemMem, PushKeeps DEF ReceiveInv, Refused
  <2> HIDE DEF r
  <2>3. CASE r.queue = receivequeue
    BY <1>3, <1>4, <2>3 DEF r
  <2>4. ASSUME NEW n \in 0..Len(q), PushedAfter(receivequeue, recvIn[f], n, r) PROVE ReceiveInv'
    <3> DEFINE rest == SubSeq(q, n + 1, Len(q))
               M == Len(q) - n
               new == receivequeue'.items
    <3>1. rest \in Seq(ItemType) /\ Len(rest) = M /\ \A i \in 1..M : rest[i] = q[n + i]
      BY <2>1, ItemMem, SumSplit
    <3>2. new = Append(rest, recvIn[f])
      BY <1>4, <2>4 DEF PushedAfter, r
    <3> HIDE DEF rest, q, new
    <3>3. /\ Len(new) = M + 1 /\ new[M + 1] = recvIn[f]
          /\ \A i \in 1..M : new[i] = q[n + i] /\ n + i \in 1..Len(q)
          /\ \A i \in 1..Len(new) : i \in 1..M \/ i = M + 1
      <4>1. M \in Nat /\ \A i \in 1..M : n + i \in 1..Len(q)
        BY <2>1
      <4>2. /\ Len(new) = M + 1 /\ new[M + 1] = recvIn[f] /\ \A i \in 1..M : new[i] = rest[i]
        <5>1. rest \in Seq(ItemType) /\ recvIn[f] \in ItemType
          BY <2>1, <3>1
        <5>2. /\ Len(new) = Len(rest) + 1 /\ new[Len(rest) + 1] = recvIn[f]
              /\ \A i \in 1..Len(rest) : new[i] = rest[i]
          BY <3>2, <5>1, AppendProperties
        <5>3. Len(rest) = M
          BY <3>1
        <5> HIDE DEF M
        <5> QED BY <5>2, <5>3, Zenon
      <4>3. \A i \in 1..M : rest[i] = q[n + i]
        BY <3>1
      <4> HIDE DEF M
      <4>4. \A i \in 1..Len(new) : i \in 1..M \/ i = M + 1
        BY <4>1, <4>2
      <4> QED BY <4>1, <4>2, <4>3, <4>4
    <3>4. recvIn[f].id <= arrivals
      BY <1>4 DEF ReceiveInv, Received
    <3>5. Received'
      BY <1>1, <2>1, <3>3, <3>4 DEF ReceiveInv, Received, q, new
    <3>6. Ascending(new)
      <4> SUFFICES ASSUME NEW i \in 1..Len(new), NEW j \in 1..Len(new), i < j,
                          new[i].host = new[j].host
                   PROVE  new[i].id < new[j].id
        BY DEF Ascending
      <4>1. i \in 1..M /\ n + i < n + j
        BY <2>1, <3>3
      <4>2. CASE j \in 1..M
        <5>1. /\ n + i \in 1..Len(q) /\ new[i] = q[n + i]
              /\ n + j \in 1..Len(q) /\ new[j] = q[n + j]
          BY <3>3, <4>1, <4>2
        <5>2. Ascending(q)
          BY DEF ReceiveInv, ReceivedOrder, q
        <5> QED BY <4>1, <5>1, <5>2 DEF Ascending
      <4>3. CASE j = M + 1
        BY <1>4, <2>1, <3>3, <4>1, <4>3 DEF ReceiveInv, ReceivedOrder, q
      <4> QED BY <3>3, <4>2, <4>3
    <3>7. ReceivedOrder'
      <4>1. Ascending(new) /\ Ascending(delivered')
        BY <1>1, <3>6 DEF ReceiveInv, ReceivedOrder
      <4>2. \A i \in 1..Len(delivered'), j \in 1..Len(new) :
              delivered'[i].host = new[j].host => delivered'[i].id < new[j].id
        <5> TAKE i \in 1..Len(delivered'), j \in 1..Len(new)
        <5>1. CASE j \in 1..M
          BY <1>1, <3>3, <5>1 DEF ReceiveInv, ReceivedOrder, q
        <5>2. CASE j = M + 1
          BY <1>1, <1>4, <2>1, <3>3, <5>2 DEF ReceiveInv, ReceivedOrder
        <5> QED BY <3>3, <5>1, <5>2
      <4>3. \A g \in Families : recvOp'[g] = "done" =>
              /\ \A i \in 1..Len(new) : new[i].host = g => new[i].id < recvIn'[g].id
              /\ \A i \in 1..Len(delivered') : delivered'[i].host = g => delivered'[i].id < recvIn'[g].id
        <5> SUFFICES ASSUME NEW g \in Families, recvOp'[g] = "done"
                     PROVE  /\ \A i \in 1..Len(new) : new[i].host = g => new[i].id < recvIn'[g].id
                            /\ \A i \in 1..Len(delivered') :
                                 delivered'[i].host = g => delivered'[i].id < recvIn'[g].id
          OBVIOUS
        <5>1. recvOp[g] = "done" /\ g # f /\ recvIn' = recvIn /\ delivered' = delivered
          BY <1>1, <1>2
        <5>2. ASSUME NEW i \in 1..Len(new), new[i].host = g PROVE new[i].id < recvIn[g].id
          <6>1. i \in 1..M
            BY <2>1, <3>3, <5>1, <5>2
          <6> QED BY <3>3, <5>1, <5>2, <6>1 DEF ReceiveInv, ReceivedOrder, q
        <5> QED BY <5>1, <5>2 DEF ReceiveInv, ReceivedOrder
      <4> QED BY <4>1, <4>2, <4>3 DEF ReceivedOrder, new
    <3>8. Accounted(receivequeue')
      BY <1>4, <2>2 DEF r
    <3> QED BY <1>2, <3>5, <3>7, <3>8 DEF ReceiveInv
  <2> QED BY <2>2, <2>3, <2>4
<1> QED BY <1>3, <1>4 DEF HandleReceive

LEMMA ReceiveStep == Typed /\ ReceiveInv /\ [Next]_vars => ReceiveInv'
<1> SUFFICES ASSUME Typed, ReceiveInv, [Next]_vars PROVE ReceiveInv'
  OBVIOUS
<1>1. ASSUME UNCHANGED receiveVars, open' = open \/ open' = NoFamilies PROVE ReceiveInv'
  BY <1>1, ReceiveSame
<1>2. CASE Client
  <2>1. CASE Bind
    BY <2>1 DEF Bind, Typed, ReceiveTypes, ReceiveInv, Listening, Received, ReceivedOrder, Ascending
  <2>2. CASE Close
    <3>1. /\ receivequeue'.items = <<>> /\ receivequeue'.mem = 0 /\ receivequeue'.limit \in Nat
          /\ UNCHANGED <<open, recvOp, recvIn, arrivals, delivered>>
      BY <2>2, SizeWrapAssumption DEF Close, Cleared, Typed, ReceiveTypes, Queues, QueueOf
    <3>2. Len(receivequeue'.items) = 0
      BY <3>1
    <3>3. Accounted(receivequeue')
      <4>1. MemSum(<<>>) = 0
        BY ItemMem, SumEmpty
      <4>2. MemSum(receivequeue'.items) = 0
        BY <3>1, <4>1
      <4> QED BY <3>1, <4>2 DEF Accounted
    <3> QED BY <3>1, <3>2, <3>3 DEF ReceiveInv, Listening, Received, ReceivedOrder, Ascending
  <2>3. CASE Release
    BY <1>1, <2>3, OpenTypes DEF Release
  <2>4. CASE LimitTest \/ LimitStore \/ LimitPop
    BY <1>1, <2>4 DEF LimitTest, LimitStore, LimitPop
  <2>5. ASSUME NEW n \in WriteSizes, Write(n) PROVE ReceiveInv'
    BY <1>1, <2>5 DEF Write
  <2>6. ASSUME NEW limit \in SendLimits, LimitBegin(limit) PROVE ReceiveInv'
    BY <1>1, <2>6 DEF LimitBegin
  <2> QED BY <1>2, <2>1, <2>2, <2>3, <2>4, <2>5, <2>6, ReceiveTaken, ReceiveOffer DEF Client, Send, Broadcast
<1>3. CASE HandleSend
  BY <1>1, <1>3, HandleSendCases, OpenTypes
<1>4. ASSUME NEW f \in Families, NEW n \in ArrivalSizes, OsReceive(f, n) PROVE ReceiveInv'
  <2>1. /\ recvIn' = [recvIn EXCEPT ![f] = [id |-> arrivals + 1, mem |-> Overhead + n, host |-> f]]
        /\ recvOp' = [recvOp EXCEPT ![f] = "done"] /\ arrivals' = arrivals + 1 /\ arrivals \in Nat
        /\ UNCHANGED <<receivequeue, delivered, open>>
    BY <1>4 DEF OsReceive, Typed, ReceiveTypes
  <2>2. /\ recvIn'[f].id = arrivals + 1 /\ recvIn'[f].host = f /\ recvOp'[f] = "done"
        /\ \A g \in Families \ {f} : recvIn'[g] = recvIn[g] /\ recvOp'[g] = recvOp[g]
    BY <2>1 DEF Typed, ReceiveTypes
  <2>3. /\ \A i \in 1..Len(receivequeue.items) : receivequeue.items[i].id \in Nat
        /\ \A i \in 1..Len(delivered) : delivered[i].id \in Nat
        /\ \A g \in Families : recvIn[g].id \in Nat
    BY QueueParts, ElementOfSeq, ItemMem DEF Typed, ReceiveTypes
  <2>4. /\ \A i \in 1..Len(receivequeue.items) : receivequeue.items[i].id < arrivals + 1
        /\ \A i \in 1..Len(delivered) : delivered[i].id < arrivals + 1
        /\ \A g \in Families : recvIn[g].id <= arrivals + 1
    BY <2>1, <2>3 DEF ReceiveInv, Received
  <2>5. Received'
    BY <2>1, <2>2, <2>3, <2>4 DEF ReceiveInv, Received
  <2>6. ReceivedOrder'
    BY <2>1, <2>2, <2>4 DEF ReceiveInv, ReceivedOrder, Ascending
  <2>7. Listening'
    BY <2>1, <2>2 DEF ReceiveInv, Listening
  <2> QED BY <2>1, <2>5, <2>6, <2>7 DEF ReceiveInv
<1>5. ASSUME NEW f \in Families, OsReceiveError(f) PROVE ReceiveInv'
  <2>1. /\ recvOp' = [recvOp EXCEPT ![f] = "failed"]
        /\ UNCHANGED <<receivequeue, delivered, open, recvIn, arrivals>>
    BY <1>5 DEF OsReceiveError
  <2>2. \A g \in Families : recvOp'[g] = "failed" \/ recvOp'[g] = recvOp[g]
    BY <2>1 DEF Typed, ReceiveTypes
  <2> QED BY <2>1, <2>2 DEF ReceiveInv, Listening, Received, ReceivedOrder, Ascending
<1>6. CASE OsResolve \/ OsSend
  BY <1>1, <1>6 DEF OsResolve, OsSend
<1>7. CASE UNCHANGED vars
  BY <1>1, <1>7 DEF vars
<1> QED BY <1>2, <1>3, <1>4, <1>5, <1>6, <1>7, ReceiveHandled DEF Next, Butler, System

(* What handleReceive, receive and the OS keep of the received datagrams.  *)
THEOREM ReceiveAlways == Spec => [](Typed /\ ReceiveInv)
BY TypesInit, TypesStep, ReceiveInit, ReceiveStep, PTL DEF Spec

(* Whatever errors the OS reports, each open socket is being received on   *)
(* as long as the object lives: every way through handleReceive starts the *)
(* next reception.                                                         *)
THEOREM AlwaysReceived == Spec => []AlwaysListening
<1>1. ReceiveInv => AlwaysListening
  BY DEF ReceiveInv, Listening, AlwaysListening
<1> QED BY <1>1, ReceiveAlways, PTL

(* The datagrams of one family reach the client in the order they arrived, *)
(* none twice, through discards, clears and errors.                        *)
THEOREM Delivery == Spec => []DeliveredInOrder
<1>1. Typed /\ ReceiveInv => DeliveredInOrder
  <2> SUFFICES ASSUME Typed, ReceiveInv PROVE DeliveredInOrder
    OBVIOUS
  <2>1. DOMAIN delivered = 1..Len(delivered)
    BY LenProperties DEF Typed, ReceiveTypes
  <2> QED BY <2>1 DEF ReceiveInv, ReceivedOrder, Ascending, DeliveredInOrder
<1> QED BY <1>1, ReceiveAlways, PTL

(* An arriving datagram pushes out as few of the oldest as make room for   *)
(* it, and none when it can never fit: push() keeps the newest.            *)
THEOREM KeepsNewest == Spec => NewestKept
<1>1. Typed /\ ReceiveInv =>
        \A f \in Families :
          HandleReceive(f) /\ Alive(handle, sendOp) /\ recvOp[f] = "done" =>
            KeepsNewestThatFit(receivequeue, recvIn[f], receivequeue'.items)
  <2> SUFFICES ASSUME Typed, ReceiveInv, NEW f \in Families, HandleReceive(f),
                      Alive(handle, sendOp), recvOp[f] = "done"
               PROVE  KeepsNewestThatFit(receivequeue, recvIn[f], receivequeue'.items)
    OBVIOUS
  <2>1. receivequeue' = Push(receivequeue, recvIn[f]).queue
    BY DEF HandleReceive
  <2>2. receivequeue \in QueueOf(ItemType) /\ recvIn[f] \in ItemType /\ Accounted(receivequeue)
    BY DEF Typed, ReceiveTypes, ReceiveInv, Queues
  <2>3. KeepsNewestThatFit(receivequeue, recvIn[f], Push(receivequeue, recvIn[f]).queue.items)
    BY <2>2, ItemMem, PushKeeps
  <2> QED BY <2>1, <2>3
<1> QED BY <1>1, ReceiveAlways, PTL DEF NewestKept
----------------------------------------------------------------------------
(* Sending.  The datagrams in the queue are in the order of their numbers. *)
Numbered(items, top) ==
  /\ \A i \in 1..Len(items) : items[i].id <= top
  /\ \A i, j \in 1..Len(items) : i < j => items[i].id < items[j].id

LEMMA IdsOf ==
  ASSUME NEW items \in Seq(ItemType)
  PROVE  /\ \A d \in Ids(items) : d \in Nat /\ \E i \in 1..Len(items) : d = items[i].id
         /\ \A i \in 1..Len(items) : items[i].id \in Ids(items) /\ items[i].id \in Nat
         /\ items = <<>> <=> Ids(items) = {}
<1>1. DOMAIN items = 1..Len(items) /\ Len(items) \in Nat
  BY LenProperties
<1>2. \A i \in 1..Len(items) : items[i].id \in Nat
  BY ElementOfSeq, ItemMem
<1>3. Ids(items) = {items[i].id : i \in 1..Len(items)}
  BY <1>1 DEF Ids
<1>4. items # <<>> => 1 \in 1..Len(items)
  BY <1>1, EmptySeq
<1>5. items = <<>> => Len(items) = 0
  OBVIOUS
<1>6. \A d \in Ids(items) : d \in Nat /\ \E i \in 1..Len(items) : d = items[i].id
  BY <1>2, <1>3
<1>7. \A i \in 1..Len(items) : items[i].id \in Ids(items) /\ items[i].id \in Nat
  BY <1>2, <1>3
<1>8. items = <<>> => Ids(items) = {}
  BY <1>1, <1>5, <1>6
<1>9. Ids(items) = {} => items = <<>>
  BY <1>4, <1>7
<1> QED BY <1>6, <1>7, <1>8, <1>9

(* What pop() leaves of it.                                                *)
LEMMA RestNumbered ==
  ASSUME NEW q \in Queues, NEW top \in Nat, Numbered(q.items, top), NEW n \in 0..Len(q.items)
  PROVE  LET p == Popped(q, n)
         IN  /\ p \in Queues /\ Numbered(p.items, top)
             /\ Ids(p.items) \subseteq Ids(q.items)
             /\ \A i \in 1..n, d \in Ids(p.items) : q.items[i].id < d
             /\ n = Len(q.items) => p.items = <<>>
             /\ Accounted(q) => Accounted(p)
<1> DEFINE p == Popped(q, n)
           N == Len(q.items)
<1>1. q.items \in Seq(ItemType) /\ N \in Nat /\ q \in QueueOf(ItemType)
  BY QueueParts DEF Queues
<1>2. /\ p \in Queues /\ p.items = SubSeq(q.items, n + 1, N)
      /\ Accounted(q) => Accounted(p)
  BY <1>1, ItemMem, PopKeeps DEF Queues
<1> HIDE DEF p
<1>3. /\ p.items \in Seq(ItemType) /\ Len(p.items) = N - n
      /\ \A i \in 1..Len(p.items) : p.items[i] = q.items[n + i]
  BY <1>1, <1>2, ItemMem, SumSplit
<1>4. \A i \in 1..Len(p.items) : n + i \in 1..N /\ p.items[i] = q.items[n + i]
  <2>1. Len(p.items) = N - n
    BY <1>3
  <2>2. \A i \in 1..(N - n) : n + i \in 1..N
    BY <1>1
  <2> HIDE DEF N
  <2> QED BY <1>3, <2>1, <2>2
<1>5. Numbered(p.items, top)
  <2>1. \A i, j \in 1..Len(p.items) : i < j => n + i < n + j
    BY <1>1, <1>3
  <2> QED BY <1>4, <2>1 DEF Numbered
<1>6. ASSUME NEW d \in Ids(p.items) PROVE d \in Ids(q.items)
  <2>1. PICK i \in 1..Len(p.items) : d = p.items[i].id
    BY <1>3, IdsOf
  <2> QED BY <1>1, <1>4, <2>1, IdsOf
<1>7. ASSUME NEW i \in 1..n, NEW d \in Ids(p.items) PROVE q.items[i].id < d
  <2>1. PICK j \in 1..Len(p.items) : d = p.items[j].id
    BY <1>3, IdsOf
  <2>2. i \in 1..N /\ n + j \in 1..N /\ i < n + j
    BY <1>1, <1>3, <1>4
  <2> QED BY <1>4, <2>1, <2>2 DEF Numbered
<1>8. n = N => p.items = <<>>
  BY <1>1, <1>2, SubSeqEmpty
<1> QED BY <1>2, <1>5, <1>6, <1>7, <1>8 DEF p

(* push() of the next number: it is in the queue unless it was refused,    *)
(* and the return value tells whether one is missing.                      *)
LEMMA PushNumbered ==
  ASSUME NEW q \in Queues, NEW top \in Nat, Numbered(q.items, top),
         NEW item \in ItemType, item.id = top + 1
  PROVE  LET r == Push(q, item)
         IN  /\ Numbered(r.queue.items, top + 1)
             /\ Ids(r.queue.items) \subseteq Ids(q.items) \cup {top + 1}
             /\ r.discarded <=> ~(Ids(q.items) \cup {top + 1} \subseteq Ids(r.queue.items))
             /\ Accounted(q) => ~r.hangs /\ Accounted(r.queue)
<1> DEFINE r == Push(q, item)
<1>1. q.items \in Seq(ItemType) /\ Len(q.items) \in Nat /\ q \in QueueOf(ItemType)
  BY QueueParts DEF Queues
<1>2. /\ Refused(q, r) \/ \E n \in 0..Len(q.items) : PushedAfter(q, item, n, r)
      /\ Accounted(q) => ~r.hangs /\ Accounted(r.queue)
      /\ r.queue \in Queues
  BY <1>1, ItemMem, PushKeeps DEF Queues
<1> HIDE DEF r
<1>3. ASSUME NEW d \in Ids(q.items) PROVE d \in Nat /\ d <= top
  <2>1. PICK i \in 1..Len(q.items) : d = q.items[i].id /\ d \in Nat
    BY <1>1, IdsOf
  <2> QED BY <2>1 DEF Numbered
<1>4. CASE Refused(q, r)
  <2>1. top + 1 \notin Ids(q.items)
    BY <1>3
  <2>2. Numbered(q.items, top + 1)
    BY <1>1, IdsOf DEF Numbered
  <2> QED BY <1>2, <1>4, <2>1, <2>2 DEF Refused, r
<1>5. ASSUME NEW n \in 0..Len(q.items), PushedAfter(q, item, n, r)
      PROVE  /\ Numbered(r.queue.items, top + 1)
             /\ Ids(r.queue.items) \subseteq Ids(q.items) \cup {top + 1}
             /\ r.discarded <=> ~(Ids(q.items) \cup {top + 1} \subseteq Ids(r.queue.items))
  <2> DEFINE p == Popped(q, n)
             new == r.queue.items
             M == Len(p.items)
  <2>1. /\ p \in Queues /\ Numbered(p.items, top) /\ Ids(p.items) \subseteq Ids(q.items)
        /\ \A i \in 1..n, d \in Ids(p.items) : q.items[i].id < d
    BY RestNumbered
  <2>2. p.items = SubSeq(q.items, n + 1, Len(q.items))
    BY <1>1, ItemMem, PopKeeps
  <2>3. new = Append(p.items, item) /\ (r.discarded <=> n > 0)
    BY <1>5, <2>2 DEF PushedAfter
  <2> HIDE DEF p
  <2>4. p.items \in Seq(ItemType) /\ M \in Nat
    BY <2>1, QueueParts
  <2>5. /\ new \in Seq(ItemType) /\ Len(new) = M + 1 /\ new[M + 1] = item
        /\ \A i \in 1..M : new[i] = p.items[i]
    BY <2>3, <2>4, AppendProperties
  <2> HIDE DEF new, M
  <2>6. \A i \in 1..Len(new) : i \in 1..M \/ i = M + 1
    BY <2>4, <2>5
  <2>7. \A i \in 1..M : p.items[i].id \in Nat /\ p.items[i].id <= top /\ i \in 1..Len(new)
    BY SMTT(30), <2>1, <2>4, <2>5, IdsOf DEF Numbered, M
  <2>8. Numbered(new, top + 1)
    <3> SUFFICES ASSUME NEW i \in 1..Len(new), NEW j \in 1..Len(new), i < j
                 PROVE  new[i].id < new[j].id
      BY <2>5, <2>6, <2>7 DEF Numbered
    <3>1. i \in 1..M
      BY <2>4, <2>5
    <3>2. CASE j \in 1..M
      BY <2>1, <2>5, <3>1, <3>2 DEF Numbered, M
    <3>3. CASE j = M + 1
      BY <2>5, <2>7, <3>1, <3>3
    <3> QED BY <2>6, <3>2, <3>3
  <2>9. Ids(new) = Ids(p.items) \cup {top + 1}
    <3>1. ASSUME NEW d \in Ids(new) PROVE d \in Ids(p.items) \cup {top + 1}
      <4>1. PICK i \in 1..Len(new) : d = new[i].id
        BY <2>5, IdsOf
      <4>2. i \in 1..M => d \in Ids(p.items)
        BY <2>4, <2>5, <4>1, IdsOf DEF M
      <4> QED BY <2>5, <2>6, <4>1, <4>2
    <3>2. ASSUME NEW d \in Ids(p.items) PROVE d \in Ids(new)
      <4>1. PICK i \in 1..M : d = p.items[i].id
        BY <2>4, IdsOf DEF M
      <4>2. new[i].id \in Ids(new)
        BY <2>5, <2>7, IdsOf
      <4> QED BY <2>5, <4>1, <4>2
    <3>3. top + 1 \in Ids(new)
      <4>1. M + 1 \in 1..Len(new)
        BY <2>4, <2>5
      <4> QED BY <2>5, <4>1, IdsOf
    <3> QED BY <3>1, <3>2, <3>3
  <2>10. n > 0 => ~(Ids(q.items) \subseteq Ids(new))
    <3> SUFFICES ASSUME n > 0 PROVE ~(Ids(q.items) \subseteq Ids(new))
      OBVIOUS
    <3>1. 1 \in 1..n /\ 1 \in 1..Len(q.items)
      BY <1>1
    <3>2. q.items[1].id \in Ids(q.items) /\ q.items[1].id \in Nat /\ q.items[1].id <= top
      BY <1>1, <3>1, IdsOf DEF Numbered
    <3>3. q.items[1].id \notin Ids(p.items)
      BY <2>1, <3>1, <3>2
    <3> QED BY <2>9, <3>2, <3>3
  <2>11. n = 0 => Ids(p.items) = Ids(q.items)
    <3> SUFFICES ASSUME n = 0 PROVE Ids(p.items) = Ids(q.items)
      OBVIOUS
    <3>1. p.items = q.items
      BY <1>1, <2>2, SubSeqFull
    <3> QED BY <3>1
  <2>12. n > 0 \/ n = 0
    BY <1>1
  <2> QED BY <2>1, <2>3, <2>8, <2>9, <2>10, <2>11, <2>12 DEF new
<1> QED BY <1>2, <1>4, <1>5 DEF r

(* Pushing one item after the other, as send() and broadcast() do, the     *)
(* result after m of them.                                                 *)
BatchOf(m) == Ids(sendqueue.items) \cup (offered + 1)..(offered + m)
PushedBatch(r, m) ==
  /\ Numbered(r.queue.items, offered + m)
  /\ Ids(r.queue.items) \subseteq BatchOf(m)
  /\ r.discarded <=> ~(BatchOf(m) \subseteq Ids(r.queue.items))
  /\ Accounted(sendqueue) => ~r.hangs /\ Accounted(r.queue)

LEMMA BatchStep ==
  ASSUME Typed, Numbered(sendqueue.items, offered), NEW m \in Nat, NEW r \in Results,
         PushedBatch(r, m), NEW item \in ItemType, item.id = offered + m + 1
  PROVE  PushedBatch(AndThen(r, item), m + 1)
<1> DEFINE p == Push(r.queue, item)
           top == offered + m
           old == Ids(sendqueue.items)
<1>1. /\ offered \in Nat /\ top \in Nat /\ r.queue \in Queues /\ sendqueue \in Queues
      /\ r.discarded \in BOOLEAN /\ r.hangs \in BOOLEAN
  BY DEF Typed, SendTypes, Results
<1>2. /\ Numbered(p.queue.items, top + 1)
      /\ Ids(p.queue.items) \subseteq Ids(r.queue.items) \cup {top + 1}
      /\ p.discarded <=> ~(Ids(r.queue.items) \cup {top + 1} \subseteq Ids(p.queue.items))
      /\ Accounted(r.queue) => ~p.hangs /\ Accounted(p.queue)
  <2>1. Numbered(r.queue.items, top) /\ item.id = top + 1
    BY DEF PushedBatch
  <2> HIDE DEF top
  <2> QED BY <1>1, <2>1, PushNumbered
<1>3. /\ AndThen(r, item).queue = p.queue
      /\ AndThen(r, item).discarded <=> r.discarded \/ p.discarded
      /\ AndThen(r, item).hangs <=> r.hangs \/ p.hangs
  BY DEF AndThen
<1> HIDE DEF p
<1>4. BatchOf(m + 1) = BatchOf(m) \cup {top + 1} /\ offered + (m + 1) = top + 1
  BY <1>1 DEF BatchOf
<1>5. \A d \in BatchOf(m) : d # top + 1
  <2>1. ASSUME NEW d \in old PROVE d # top + 1
    <3>1. PICK i \in 1..Len(sendqueue.items) : d = sendqueue.items[i].id /\ d \in Nat
      BY <1>1, QueueParts, IdsOf
    <3> QED BY <1>1, <3>1 DEF Numbered
  <2>2. \A d \in (offered + 1)..(offered + m) : d # top + 1
    BY <1>1
  <2> QED BY <2>1, <2>2 DEF BatchOf
<1> HIDE DEF top
<1>6. r.discarded \/ p.discarded <=> ~(BatchOf(m + 1) \subseteq Ids(p.queue.items))
  BY <1>2, <1>4, <1>5 DEF PushedBatch
<1>7. Ids(p.queue.items) \subseteq BatchOf(m + 1)
  BY <1>2, <1>4 DEF PushedBatch
<1> QED BY <1>2, <1>3, <1>4, <1>6, <1>7 DEF PushedBatch

LEMMA BatchPushed ==
  ASSUME Typed, Numbered(sendqueue.items, offered), NEW items \in Seq(ItemType),
         \A i \in 1..Len(items) : items[i].id = offered + i
  PROVE  PushedBatch(PushAll(items), Len(items)) /\ PushAll(items) \in Results
<1> DEFINE N == Len(items)
           f == PushedUpTo(items)
           S == {m \in 0..N : PushedBatch(f[m], m)}
<1>1. N \in Nat /\ sendqueue \in Queues /\ offered \in Nat
  BY LenProperties DEF Typed, SendTypes
<1>2. /\ f \in [0..N -> Results] /\ f[0] = NothingPushed
      /\ \A n \in 1..N : f[n] = AndThen(f[n - 1], items[n])
  BY <1>1, PushedSteps
<1> HIDE DEF f
<1>3. 0 \in S
  <2>1. BatchOf(0) = Ids(sendqueue.items) /\ offered + 0 = offered
    BY <1>1 DEF BatchOf
  <2>2. PushedBatch(NothingPushed, 0)
    BY <2>1 DEF PushedBatch, NothingPushed
  <2> QED BY <1>1, <1>2, <2>2
<1>4. ASSUME NEW n \in 1..N, n - 1 \in S PROVE n \in S
  <2>1. /\ n - 1 \in Nat /\ f[n - 1] \in Results /\ PushedBatch(f[n - 1], n - 1)
        /\ items[n] \in ItemType /\ (n - 1) + 1 = n
        /\ items[n].id = offered + (n - 1) + 1
    BY <1>1, <1>2, <1>4, ElementOfSeq
  <2>2. PushedBatch(AndThen(f[n - 1], items[n]), (n - 1) + 1)
    BY <2>1, BatchStep
  <2> QED BY <1>2, <2>1, <2>2
<1> HIDE DEF S, N
<1>5. 0..N \subseteq S
  BY <1>1, <1>3, <1>4, Induct
<1>6. PushAll(items) = f[N]
  BY DEF PushAll, f, N
<1>7. N \in S
  BY <1>1, <1>5
<1> QED BY <1>1, <1>2, <1>6, <1>7 DEF S, N
----------------------------------------------------------------------------
(* The sending side as a whole: the datagram in flight was offered before  *)
(* all in the queue, and is there if any is.                               *)
CurrentFirst ==
  sendOp # "idle" => current <= offered /\ \A d \in Ids(sendqueue.items) : current < d
SendInv ==
  /\ Numbered(sendqueue.items, offered) /\ CurrentFirst
  /\ NoStalledDatagram /\ DiscardReported

LEMMA AsyncSendKeeps ==
  ASSUME NEW q \in Queues, NEW top \in Nat, Numbered(q.items, top), AsyncSend(q)
  PROVE  /\ Numbered(sendqueue'.items, top)
         /\ Ids(sendqueue'.items) \subseteq Ids(q.items)
         /\ sendOp' # "idle" =>
              /\ sendOp' \in {"resolving", "sending"}
              /\ current' \in Ids(q.items) /\ current' <= top
              /\ \A d \in Ids(sendqueue'.items) : current' < d
         /\ NoStalledDatagram'
         /\ Accounted(q) => Accounted(sendqueue')
<1>1. q.items \in Seq(ItemType) /\ Len(q.items) \in Nat
  BY QueueParts
<1>2. CASE AllDropped(q)
  <2>1. sendqueue' = Popped(q, Len(q.items)) /\ Len(q.items) \in 0..Len(q.items)
    BY <1>1, <1>2 DEF AllDropped
  <2>2. /\ Numbered(sendqueue'.items, top) /\ Ids(sendqueue'.items) \subseteq Ids(q.items)
        /\ sendqueue'.items = <<>>
        /\ Accounted(q) => Accounted(sendqueue')
    BY <2>1, RestNumbered
  <2>3. asyncSendInProgress' = FALSE /\ sendOp' = "idle"
    BY <1>2 DEF AllDropped, NoSend
  <2> QED BY <2>2, <2>3 DEF NoStalledDatagram
<1>3. ASSUME NEW n \in 1..Len(q.items), SendingNth(q, n)
      PROVE  /\ Numbered(sendqueue'.items, top)
             /\ Ids(sendqueue'.items) \subseteq Ids(q.items)
             /\ sendOp' \in {"resolving", "sending"}
             /\ current' \in Ids(q.items) /\ current' <= top
             /\ \A d \in Ids(sendqueue'.items) : current' < d
             /\ NoStalledDatagram'
             /\ Accounted(q) => Accounted(sendqueue')
  <2>1. sendqueue' = Popped(q, n) /\ n \in 0..Len(q.items) /\ n \in 1..n
    BY <1>1, <1>3 DEF SendingNth
  <2>2. /\ Numbered(sendqueue'.items, top) /\ Ids(sendqueue'.items) \subseteq Ids(q.items)
        /\ \A d \in Ids(sendqueue'.items) : q.items[n].id < d
        /\ Accounted(q) => Accounted(sendqueue')
    BY <2>1, RestNumbered
  <2>3. current' = q.items[n].id /\ q.items[n].id \in Ids(q.items) /\ q.items[n].id <= top
    BY <1>1, <1>3, IdsOf DEF SendingNth, Numbered
  <2>4. asyncSendInProgress' = TRUE /\ sendOp' \in {"resolving", "sending"}
    BY <1>3 DEF SendingNth
  <2> QED BY <2>2, <2>3, <2>4 DEF NoStalledDatagram
<1> QED BY <1>2, <1>3, AsyncSendEffect DEF AllDropped, NoSend

LEMMA SendInit == Init => SendInv
<1> SUFFICES ASSUME Init PROVE SendInv
  OBVIOUS
<1>1. sendqueue.items = <<>> /\ Len(sendqueue.items) = 0
  BY DEF Init, EmptyQueue
<1> QED BY <1>1 DEF Init, SendInv, Numbered, CurrentFirst, NoStalledDatagram, DiscardReported

LEMMA SendSame ==
  ASSUME SendInv, UNCHANGED <<sendqueue, opVars, offered, lastDiscarded, discardReported>>
  PROVE  SendInv'
BY DEF SendInv, opVars, CurrentFirst, NoStalledDatagram, DiscardReported

(* What an offer does to the queue.                                        *)
OfferItems(items) ==
  items \in Seq(ItemType) /\ \A i \in 1..Len(items) : items[i].id = offered + i

LEMMA OfferedIds ==
  ASSUME Typed, SendInv, NEW items, OfferItems(items)
  PROVE  BatchOf(Len(items)) = Ids(sendqueue.items) \cup Ids(items)
<1> DEFINE N == Len(items)
<1>1. items \in Seq(ItemType) /\ N \in Nat /\ offered \in Nat
  BY LenProperties DEF OfferItems, Typed, SendTypes
<1>2. ASSUME NEW d \in Ids(items) PROVE d \in (offered + 1)..(offered + N)
  <2>1. PICK i \in 1..N : d = items[i].id
    BY <1>1, IdsOf
  <2>2. d = offered + i
    BY <2>1 DEF OfferItems
  <2> QED BY <1>1, <2>2
<1>3. ASSUME NEW d \in (offered + 1)..(offered + N) PROVE d \in Ids(items)
  <2>1. d - offered \in 1..N /\ offered + (d - offered) = d
    BY <1>1
  <2>2. items[d - offered].id = d
    BY <2>1 DEF OfferItems
  <2> QED BY <1>1, <2>1, <2>2, IdsOf
<1>4. Ids(items) = (offered + 1)..(offered + N)
  BY <1>2, <1>3
<1> QED BY <1>4 DEF BatchOf

LEMMA SendOffer ==
  ASSUME Typed, SendInv, NEW items, OfferItems(items), Offer(items)
  PROVE  SendInv' /\ (Accounted(sendqueue) => Accounted(sendqueue'))
<1> DEFINE r == PushAll(items)
           N == Len(items)
<1>1. /\ items \in Seq(ItemType) /\ N \in Nat /\ offered \in Nat /\ offered' = offered + N
      /\ sendqueue \in Queues /\ offered' \in Nat /\ current \in Nat
  BY LenProperties DEF OfferItems, Offer, Typed, SendTypes, OpTypes
<1>2. r \in Results /\ PushedBatch(r, N)
  BY <1>1, BatchPushed DEF SendInv, OfferItems
<1>3. r.queue \in Queues /\ r.discarded \in BOOLEAN
  BY <1>2 DEF Results
<1> HIDE DEF r, N
<1>4. CASE UNCHANGED <<sendqueue, opVars, lastDiscarded, discardReported>>
  <2>1. Numbered(sendqueue.items, offered')
    <3>1. \A i \in 1..Len(sendqueue.items) : sendqueue.items[i].id \in Nat
      BY <1>1, QueueParts, ItemMem
    <3> QED BY <1>1, <3>1 DEF SendInv, Numbered
  <2>2. CurrentFirst'
    BY <1>1, <1>4 DEF SendInv, CurrentFirst, opVars
  <2> QED BY <1>4, <2>1, <2>2 DEF SendInv, opVars, NoStalledDatagram, DiscardReported
<1>5. CASE /\ lastDiscarded' = (Ids(sendqueue.items) \cup Ids(items)) \ Ids(r.queue.items)
           /\ discardReported' = r.discarded
           /\ AsyncSendUnlessInProgress(r.queue)
  <2>1. DiscardReported'
    <3>1. BatchOf(N) = Ids(sendqueue.items) \cup Ids(items)
      BY OfferedIds DEF N
    <3> QED BY <1>2, <1>5, <3>1 DEF PushedBatch, DiscardReported
  <2>2. CASE asyncSendInProgress
    <3>1. sendqueue' = r.queue /\ UNCHANGED opVars
      BY <1>5, <2>2 DEF AsyncSendUnlessInProgress
    <3>2. Numbered(sendqueue'.items, offered')
      BY <1>1, <1>2, <3>1 DEF PushedBatch
    <3>3. CurrentFirst'
      <4> SUFFICES ASSUME sendOp # "idle"
                   PROVE  current <= offered' /\ \A d \in Ids(r.queue.items) : current < d
        BY <3>1 DEF CurrentFirst, opVars
      <4>1. current <= offered /\ \A d \in Ids(sendqueue.items) : current < d
        BY DEF SendInv, CurrentFirst
      <4>2. \A d \in (offered + 1)..(offered + N) : current < d
        BY <1>1, <4>1
      <4>3. \A d \in BatchOf(N) : current < d
        BY <4>1, <4>2 DEF BatchOf
      <4>4. current <= offered'
        BY <1>1, <4>1
      <4> QED BY <1>2, <4>3, <4>4 DEF PushedBatch
    <3>4. NoStalledDatagram'
      BY <2>2, <3>1 DEF SendInv, NoStalledDatagram, opVars
    <3> QED BY <1>2, <2>1, <3>1, <3>2, <3>3, <3>4 DEF SendInv, PushedBatch
  <2>3. CASE ~asyncSendInProgress
    <3>1. AsyncSend(r.queue)
      BY <1>5, <2>3 DEF AsyncSendUnlessInProgress
    <3>2. Numbered(r.queue.items, offered')
      BY <1>1, <1>2 DEF PushedBatch
    <3>3. /\ Numbered(sendqueue'.items, offered') /\ NoStalledDatagram'
          /\ sendOp' # "idle" => current' <= offered' /\ \A d \in Ids(sendqueue'.items) : current' < d
          /\ Accounted(r.queue) => Accounted(sendqueue')
      BY <1>1, <1>3, <3>1, <3>2, AsyncSendKeeps
    <3> QED BY <1>2, <2>1, <3>3 DEF SendInv, CurrentFirst, PushedBatch
  <2> QED BY <2>2, <2>3
<1> QED BY <1>4, <1>5 DEF Offer, r

LEMMA OffersItems ==
  ASSUME Typed, NEW host \in Families \cup {"name"}, NEW count \in Nat
  PROVE  OfferItems(Items(count, host))
BY ItemsType DEF OfferItems, Typed, SendTypes

LEMMA SendHandled ==
  ASSUME Typed, SendInv, HandleSend
  PROVE  SendInv' /\ (Accounted(sendqueue) => Accounted(sendqueue'))
<1>1. UNCHANGED <<offered, lastDiscarded, discardReported>> /\ sendOp # "idle"
  BY HandleSendCases
<1>2. CASE sendOp' = "sending" /\ UNCHANGED <<asyncSendInProgress, current, sendqueue>>
  BY <1>1, <1>2 DEF SendInv, CurrentFirst, NoStalledDatagram, DiscardReported
<1>3. CASE AsyncSend(sendqueue)
  <2>1. sendqueue \in Queues /\ offered \in Nat /\ Numbered(sendqueue.items, offered)
    BY DEF Typed, SendTypes, SendInv
  <2> QED BY <1>1, <1>3, <2>1, AsyncSendKeeps DEF SendInv, CurrentFirst, DiscardReported
<1> QED BY <1>2, <1>3, HandleSendCases

LEMMA TailIds ==
  ASSUME NEW q \in Queues, NEW top \in Nat, Numbered(q.items, top), q.items # <<>>
  PROVE  Numbered(Tail(q.items), top) /\ Ids(Tail(q.items)) \subseteq Ids(q.items)
<1> DEFINE s == q.items
           t == Tail(q.items)
<1>1. /\ s \in Seq(ItemType) /\ Len(s) \in Nat /\ t \in Seq(ItemType) /\ Len(t) = Len(s) - 1
      /\ \A i \in 1..Len(t) : t[i] = s[i + 1]
  BY QueueParts, HeadTailProperties
<1> HIDE DEF t
<1>2. \A i \in 1..Len(t) : i + 1 \in 1..Len(s)
  BY <1>1
<1>3. \A i, j \in 1..Len(t) : i < j => i + 1 < j + 1
  BY <1>1
<1>4. Numbered(t, top)
  BY <1>1, <1>2, <1>3 DEF Numbered
<1>5. ASSUME NEW d \in Ids(t) PROVE d \in Ids(s)
  <2>1. PICK i \in 1..Len(t) : d = t[i].id
    BY <1>1, IdsOf
  <2> QED BY <1>1, <1>2, <2>1, IdsOf
<1> QED BY <1>4, <1>5 DEF t

(* Fewer datagrams in the queue, and nothing else that matters here.       *)
LEMMA SendFewer ==
  ASSUME SendInv, UNCHANGED <<opVars, offered, lastDiscarded, discardReported>>,
         Numbered(sendqueue'.items, offered), Ids(sendqueue'.items) \subseteq Ids(sendqueue.items),
         sendqueue'.items # <<>> => sendqueue.items # <<>>
  PROVE  SendInv'
BY DEF SendInv, opVars, CurrentFirst, NoStalledDatagram, DiscardReported

(* The client's calls other than send() and broadcast() take datagrams out *)
(* of the queue at most.                                                   *)
Fewer ==
  /\ UNCHANGED <<opVars, offered, lastDiscarded, discardReported, sent>>
  /\ Numbered(sendqueue'.items, offered) /\ Ids(sendqueue'.items) \subseteq Ids(sendqueue.items)
  /\ sendqueue'.items # <<>> => sendqueue.items # <<>>

ClientOnly ==
  \/ Bind \/ Receive \/ Close \/ Release \/ LimitTest \/ LimitStore \/ LimitPop
  \/ \E n \in WriteSizes : Write(n)
  \/ \E limit \in SendLimits : LimitBegin(limit)

LEMMA ClientFewer ==
  ASSUME Typed, SendInv, ClientOnly
  PROVE  Fewer
<1>1. sendqueue \in Queues /\ Numbered(sendqueue.items, offered) /\ offered \in Nat
  BY DEF Typed, SendTypes, SendInv
<1>2. ASSUME sendqueue'.items = sendqueue.items,
             UNCHANGED <<opVars, offered, lastDiscarded, discardReported, sent>>
      PROVE  Fewer
  BY <1>1, <1>2 DEF Fewer
<1>3. CASE Bind \/ Receive \/ Release
  BY <1>2, <1>3 DEF Bind, Receive, Release, KeepSending, sendVars
<1>4. CASE LimitTest
  BY <1>2, <1>4 DEF LimitTest, sendVars
<1>5. CASE LimitStore
  <2>1. sendqueue'.items = sendqueue.items
    BY <1>1, <1>5 DEF LimitStore, Queues, QueueOf
  <2> QED BY <1>2, <1>5, <2>1 DEF LimitStore
<1>6. ASSUME NEW limit \in SendLimits, LimitBegin(limit) PROVE Fewer
  <2>1. sendqueue'.items = sendqueue.items
    BY <1>1, <1>6 DEF LimitBegin, Queues, QueueOf
  <2> QED BY <1>2, <1>6, <2>1 DEF LimitBegin
<1>7. ASSUME NEW n \in WriteSizes, Write(n) PROVE Fewer
  BY <1>2, <1>7 DEF Write
<1>8. CASE Close
  <2>1. sendqueue'.items = <<>>
    BY <1>1, <1>8 DEF Close, Cleared, Queues, QueueOf
  <2>2. Numbered(<<>>, offered) /\ Ids(<<>>) = {}
    BY EmptySeq, IdsOf DEF Numbered
  <2> QED BY <1>8, <2>1, <2>2 DEF Fewer, Close
<1>9. CASE LimitPop
  <2>1. CASE sendqueue.items # <<>> /\ sendqueue' = [sendqueue EXCEPT !.items = Tail(@)]
    <3>1. sendqueue'.items = Tail(sendqueue.items)
      BY <1>1, <2>1 DEF Queues, QueueOf
    <3> QED BY <1>1, <1>9, <2>1, <3>1, TailIds DEF LimitPop, Fewer
  <2> QED BY <1>2, <1>9, <2>1 DEF LimitPop
<1> QED BY <1>3, <1>4, <1>5, <1>6, <1>7, <1>8, <1>9 DEF ClientOnly

(* The steps of an object, by what they mean to sending.                   *)
LEMMA ClientCases ==
  ASSUME Typed, Client
  PROVE  ClientOnly \/ \E items : OfferItems(items) /\ Offer(items)
<1>1. ASSUME NEW host \in Hosts, Send(host)
      PROVE  \E items : OfferItems(items) /\ Offer(items)
  BY <1>1, HostsAssumption, OffersItems DEF Send
<1>2. ASSUME NEW count \in AddressCounts, Broadcast(count)
      PROVE  \E items : OfferItems(items) /\ Offer(items)
  <2>1. "v4" \in Families \cup {"name"} /\ count \in Nat
    BY UdpSizesAssumption DEF Families
  <2> QED BY <1>2, <2>1, OffersItems DEF Broadcast
<1>3. ClientOnly \/ (\E host \in Hosts : Send(host))
        \/ (\E count \in AddressCounts : Broadcast(count))
  BY DEF Client, ClientOnly
<1> QED BY <1>1, <1>2, <1>3

LEMMA StepCases ==
  ASSUME Typed, [Next]_vars
  PROVE  \/ ClientOnly
         \/ \E items : OfferItems(items) /\ Offer(items)
         \/ HandleSend
         \/ OsResolve \/ OsSend
         \/ UNCHANGED <<opVars, sendVars, sent>>
<1>1. ASSUME NEW f \in Families,
             HandleReceive(f) \/ OsReceiveError(f) \/ \E n \in ArrivalSizes : OsReceive(f, n)
      PROVE  UNCHANGED <<opVars, sendVars, sent>>
  BY <1>1 DEF HandleReceive, OsReceiveError, OsReceive, KeepSending
<1>2. UNCHANGED vars => UNCHANGED <<opVars, sendVars, sent>>
  BY DEF vars
<1> QED BY <1>1, <1>2, ClientCases DEF Next, Butler, System

LEMMA SendStep == Typed /\ SendInv /\ [Next]_vars => SendInv'
<1> SUFFICES ASSUME Typed, SendInv, [Next]_vars PROVE SendInv'
  OBVIOUS
<1>1. CASE ClientOnly
  BY <1>1, ClientFewer, SendFewer DEF Fewer
<1>2. CASE OsResolve \/ OsSend
  <2>1. /\ UNCHANGED <<asyncSendInProgress, current, sendVars>>
        /\ sendOp # "idle" /\ sendOp' # "idle"
    BY <1>2 DEF OsResolve, OsSend
  <2> QED BY <2>1 DEF sendVars, SendInv, CurrentFirst, NoStalledDatagram, DiscardReported
<1>3. CASE UNCHANGED <<opVars, sendVars, sent>>
  BY <1>3, SendSame DEF sendVars
<1> QED BY <1>1, <1>2, <1>3, StepCases, SendOffer, SendHandled

(* What send, broadcast, handleSend and the unlocked limit keep of those   *)
(* to be sent.                                                             *)
THEOREM SendAlways == Spec => [](Typed /\ SendInv)
BY TypesInit, TypesStep, SendInit, SendStep, PTL DEF Spec

(* A datagram is in the queue only while a send is in progress, whose      *)
(* handler takes the next one: none waits for a send() that does not come. *)
THEOREM NeverStalls == Spec => []NoStalledDatagram
<1>1. SendInv => NoStalledDatagram
  BY DEF SendInv
<1> QED BY <1>1, SendAlways, PTL

(* send() and broadcast() tell the truth about what the memory limit cost: *)
(* true exactly when a datagram, new or old, was thrown away.              *)
THEOREM DiscardTold == Spec => []DiscardReported
<1>1. SendInv => DiscardReported
  BY DEF SendInv
<1> QED BY <1>1, SendAlways, PTL
----------------------------------------------------------------------------
(* The refinement of LossyFifo.                                            *)
Pending == Ids(sendqueue.items) \cup InFlight

LEMMA LosesSome ==
  ASSUME UNCHANGED <<offered, sent>>, Pending' \subseteq Pending
  PROVE  Service!Next
BY DEF Pending, Service!Next, Service!Lose

LEMMA HandlingLoses ==
  ASSUME Typed, SendInv, HandleSend
  PROVE  Service!Next
<1>1. UNCHANGED <<offered, sent>> /\ sendOp # "idle"
  BY HandleSendCases
<1>2. CASE /\ sendOp' = "sending" /\ sendOp \in {"resolved", "failed"}
           /\ UNCHANGED <<current, sendqueue>>
  <2>1. Pending' \subseteq Pending
    BY <1>2 DEF Pending, InFlight
  <2> QED BY <1>1, <2>1, LosesSome
<1>3. CASE AsyncSend(sendqueue)
  <2>1. sendqueue \in Queues /\ offered \in Nat /\ Numbered(sendqueue.items, offered)
    BY DEF Typed, SendTypes, SendInv
  <2>2. /\ Ids(sendqueue'.items) \subseteq Ids(sendqueue.items)
        /\ sendOp' # "idle" => current' \in Ids(sendqueue.items)
    BY <1>3, <2>1, AsyncSendKeeps
  <2>3. Pending' \subseteq Pending
    BY <2>2 DEF Pending, InFlight
  <2> QED BY <1>1, <2>3, LosesSome
<1> QED BY <1>2, <1>3, HandleSendCases

LEMMA OfferImplements ==
  ASSUME Typed, SendInv, NEW items, OfferItems(items), Offer(items)
  PROVE  Service!Next \/ UNCHANGED Service!vars
<1> DEFINE r == PushAll(items)
           N == Len(items)
<1>1. /\ items \in Seq(ItemType) /\ N \in Nat /\ offered \in Nat /\ offered' = offered + N
      /\ sendqueue \in Queues /\ UNCHANGED sent
  BY LenProperties DEF OfferItems, Offer, Typed, SendTypes
<1>2. r \in Results /\ PushedBatch(r, N)
  BY <1>1, BatchPushed DEF SendInv, OfferItems
<1>3. r.queue \in Queues /\ offered + N \in Nat
  BY <1>1, <1>2 DEF Results
<1>4. Pending' \subseteq BatchOf(N) \cup InFlight
  <2> HIDE DEF r, N
  <2>1. CASE UNCHANGED <<sendqueue, opVars>>
    BY <2>1 DEF Pending, InFlight, BatchOf, opVars
  <2>2. CASE AsyncSendUnlessInProgress(r.queue)
    <3>1. CASE asyncSendInProgress
      BY <1>2, <2>2, <3>1 DEF AsyncSendUnlessInProgress, Pending, InFlight, opVars, PushedBatch
    <3>2. CASE ~asyncSendInProgress
      <4>1. AsyncSend(r.queue) /\ Numbered(r.queue.items, offered + N)
        BY <1>2, <2>2, <3>2 DEF AsyncSendUnlessInProgress, PushedBatch
      <4>2. /\ Ids(sendqueue'.items) \subseteq Ids(r.queue.items)
            /\ sendOp' # "idle" => current' \in Ids(r.queue.items)
        BY <1>3, <4>1, AsyncSendKeeps
      <4>3. Pending' \subseteq Ids(r.queue.items)
        BY <4>2 DEF Pending, InFlight
      <4> QED BY <1>2, <4>3 DEF PushedBatch
    <3> QED BY <3>1, <3>2
  <2> QED BY <2>1, <2>2 DEF Offer, r
<1>5. BatchOf(N) \cup InFlight = Pending \cup (offered + 1)..offered'
  BY <1>1 DEF BatchOf, Pending
<1> HIDE DEF N
<1>6. CASE N = 0
  <2>1. offered' = offered /\ (offered + 1)..offered' = {}
    BY <1>1, <1>6
  <2> QED BY <1>1, <1>4, <1>5, <2>1, LosesSome
<1>7. CASE N > 0
  <2>1. offered' \in Nat /\ offered' > offered
    BY <1>1, <1>7
  <2> QED BY <1>1, <1>4, <1>5, <2>1 DEF Service!Next, Service!Offer, Pending
<1> QED BY <1>1, <1>6, <1>7

LEMMA SendingTransmits ==
  ASSUME Typed, SendInv, OsSend
  PROVE  Service!Next
<1>1. sendOp = "sending" /\ UNCHANGED <<current, sendqueue, offered>>
  BY DEF OsSend, sendVars
<1>2. CASE sendOp' = "failed" /\ UNCHANGED sent
  <2>1. Pending' \subseteq Pending
    BY <1>1, <1>2 DEF Pending, InFlight
  <2> QED BY <1>1, <1>2, <2>1, LosesSome
<1>3. CASE sendOp' = "sent" /\ sent' = Append(sent, current)
  <2>1. Pending = Ids(sendqueue.items) \cup {current} /\ Pending' = Ids(sendqueue.items)
    BY <1>1, <1>3 DEF Pending, InFlight
  <2>2. \A d \in Ids(sendqueue.items) : current < d /\ d \in Nat
    BY <1>1, QueueParts, IdsOf DEF SendInv, CurrentFirst, Typed, SendTypes
  <2>3. current \in Nat
    BY DEF Typed, OpTypes
  <2>4. Pending' = Pending \ {current} /\ \A e \in Pending : current <= e
    BY <2>1, <2>2, <2>3
  <2>5. current \in Pending
    BY <2>1
  <2>6. Service!Transmit
    BY <1>1, <1>3, <2>4, <2>5 DEF Service!Transmit, Pending
  <2> QED BY <2>6 DEF Service!Next
<1> QED BY <1>2, <1>3 DEF OsSend

(* What sending promises: whatever the resolver, the OS, the memory limit  *)
(* and setSendbufferLimit's unlocked pops do, datagrams leave in the order *)
(* they were offered, each at most once (TransmitsInOrder).                *)
THEOREM ImplementsLossyFifo == Spec => SendsInOrder
<1>1. Init => Service!Init
  <2> SUFFICES ASSUME Init PROVE Service!Init
    OBVIOUS
  <2>1. Ids(sendqueue.items) = {}
    BY EmptySeq, IdsOf DEF Init, EmptyQueue
  <2> QED BY <2>1 DEF Init, InFlight, Service!Init
<1>2. Typed /\ SendInv /\ [Next]_vars => Service!Next \/ UNCHANGED Service!vars
  <2> SUFFICES ASSUME Typed, SendInv, [Next]_vars PROVE Service!Next \/ UNCHANGED Service!vars
    OBVIOUS
  <2>1. CASE ClientOnly
    <3>1. Fewer
      BY <2>1, ClientFewer
    <3>2. Pending' \subseteq Pending
      BY <3>1 DEF Fewer, opVars, Pending, InFlight
    <3> QED BY <3>1, <3>2, LosesSome DEF Fewer
  <2>2. CASE OsResolve
    <3>1. UNCHANGED <<offered, sent>> /\ Pending' \subseteq Pending
      BY <2>2 DEF OsResolve, sendVars, Pending, InFlight
    <3> QED BY <3>1, LosesSome
  <2>3. CASE UNCHANGED <<opVars, sendVars, sent>>
    <3>1. UNCHANGED <<offered, sent>> /\ Pending' \subseteq Pending
      BY <2>3 DEF opVars, sendVars, Pending, InFlight
    <3> QED BY <3>1, LosesSome
  <2> QED BY <2>1, <2>2, <2>3, StepCases, HandlingLoses, OfferImplements, SendingTransmits
<1> QED BY <1>1, <1>2, SendAlways, PTL DEF Spec, SendsInOrder, Service!Spec

(* That the service keeps the order, whatever its steps do: everything     *)
(* transmitted was offered, before everything still pending.               *)
FifoInv ==
  /\ offered \in Nat /\ sent \in Seq(Nat) /\ Pending \subseteq Nat
  /\ \A d \in Pending : d <= offered
  /\ \A i \in 1..Len(sent) : sent[i] <= offered
  /\ \A i \in 1..Len(sent) : \A d \in Pending : sent[i] < d
  /\ Service!InOrder

LEMMA FifoOffer ==
  ASSUME FifoInv, Service!Offer
  PROVE  FifoInv'
<1>0. /\ offered' \in Nat /\ offered' > offered /\ UNCHANGED sent
      /\ Pending' \subseteq Pending \cup (offered + 1)..offered'
  BY DEF Service!Offer, Pending
<1>1. \A d \in Pending' : d \in Nat /\ d <= offered' /\ (d \in Pending \/ offered < d)
  BY <1>0 DEF FifoInv
<1>2. \A i \in 1..Len(sent) : sent[i] \in Nat /\ sent[i] <= offered
  BY ElementOfSeq DEF FifoInv
<1> QED BY <1>0, <1>1, <1>2 DEF FifoInv, Service!InOrder

LEMMA FifoTransmit ==
  ASSUME FifoInv, Service!Transmit
  PROVE  FifoInv'
<1>1. PICK d \in Pending : /\ \A e \in Pending : d <= e
                           /\ sent' = Append(sent, d)
                           /\ Pending' = Pending \ {d}
  BY DEF Service!Transmit, Pending
<1>2. offered' = offered
  BY DEF Service!Transmit
<1>3. /\ d \in Nat /\ d <= offered /\ sent \in Seq(Nat)
      /\ \A i \in 1..Len(sent) : sent[i] < d
  BY DEF FifoInv
<1>4. /\ sent' \in Seq(Nat) /\ Len(sent') = Len(sent) + 1 /\ Len(sent) \in Nat
      /\ sent'[Len(sent) + 1] = d
      /\ \A i \in 1..Len(sent) : sent'[i] = sent[i]
  BY <1>1, <1>3, AppendProperties
<1>5. \A e \in Pending' : e \in Nat /\ e <= offered' /\ d < e
  BY <1>1, <1>2, <1>3 DEF FifoInv
<1>6. \A i \in 1..Len(sent') : i \in 1..Len(sent) \/ i = Len(sent) + 1
  BY <1>4
<1>7. \A i \in 1..Len(sent') : sent'[i] <= offered'
  BY <1>2, <1>3, <1>4, <1>6 DEF FifoInv
<1>8. \A i \in 1..Len(sent') : \A e \in Pending' : sent'[i] < e
  <2> TAKE i \in 1..Len(sent')
  <2> TAKE e \in Pending'
  <2>1. CASE i \in 1..Len(sent)
    BY <1>1, <1>4, <2>1 DEF FifoInv
  <2>2. CASE i = Len(sent) + 1
    BY <1>4, <1>5, <2>2
  <2> QED BY <1>6, <2>1, <2>2
<1>9. Service!InOrder'
  <2> SUFFICES ASSUME NEW i \in 1..Len(sent'), NEW j \in 1..Len(sent'), i < j
               PROVE  sent'[i] < sent'[j]
    BY DEF Service!InOrder
  <2>1. i \in 1..Len(sent)
    BY <1>4
  <2>2. CASE j \in 1..Len(sent)
    BY <1>4, <2>1, <2>2 DEF FifoInv, Service!InOrder
  <2>3. CASE j = Len(sent) + 1
    BY <1>3, <1>4, <2>1, <2>3
  <2> QED BY <1>6, <2>2, <2>3
<1> QED BY <1>2, <1>3, <1>4, <1>5, <1>7, <1>8, <1>9 DEF FifoInv

LEMMA FifoLose ==
  ASSUME FifoInv, Service!Lose \/ UNCHANGED Service!vars
  PROVE  FifoInv'
<1>1. UNCHANGED <<offered, sent>> /\ Pending' \subseteq Pending
  BY DEF Service!Lose, Service!vars, Pending
<1> QED BY <1>1 DEF FifoInv, Service!InOrder

(* Datagrams leave in the order they were offered, and each at most once,  *)
(* whatever is lost in between: what send() promises of DatagramQueue and  *)
(* handleSend.                                                             *)
THEOREM TransmitsInOrder == Service!Spec => []Service!InOrder
<1>1. Service!Init => FifoInv
  <2> SUFFICES ASSUME Service!Init PROVE FifoInv
    OBVIOUS
  <2>1. sent \in Seq(Nat) /\ Len(sent) = 0 /\ Pending = {} /\ offered = 0
    BY DEF Service!Init, Pending
  <2> QED BY <2>1 DEF FifoInv, Service!InOrder
<1>2. FifoInv /\ [Service!Next]_(Service!vars) => FifoInv'
  BY FifoOffer, FifoTransmit, FifoLose DEF Service!Next
<1>3. FifoInv => Service!InOrder
  BY DEF FifoInv
<1> QED BY <1>1, <1>2, <1>3, PTL DEF Service!Spec

(* So the datagrams a UdpSocket sends leave in the order of send() calls.  *)
THEOREM SentInOrder == Spec => []Service!InOrder
BY ImplementsLossyFifo, TransmitsInOrder, PTL DEF SendsInOrder
----------------------------------------------------------------------------
(* The accounting of the send queue.  setSendbufferLimit leaves memSize_   *)
(* right too, as long as the butler stays away from the queue meanwhile.   *)
LimitInv ==
  /\ limiter.pc = "idle" => limiter = Idle
  /\ ~raced =>
       /\ limiter.pc = "idle" => Accounted(sendqueue)
       /\ limiter.pc \in {"loop", "pop"} => sendqueue.mem = MemSum(sendqueue.items)
       /\ limiter.pc = "pop" =>
            /\ sendqueue.items # <<>>
            /\ limiter.mem = sendqueue.mem /\ limiter.size = Head(sendqueue.items).mem
       /\ limiter.pc = "front" =>
            sendqueue.items # <<>> /\ sendqueue.mem = MemSum(Tail(sendqueue.items))

LEMMA SumOfTail ==
  ASSUME NEW s \in Seq(ItemType), s # <<>>
  PROVE  /\ Head(s).mem \in Nat /\ MemSum(Tail(s)) \in Nat
         /\ MemSum(s) = Head(s).mem + MemSum(Tail(s))
<1> DEFINE front == SubSeq(s, 1, 1)
           rest == SubSeq(s, 2, Len(s))
<1>1. Len(s) \in Nat /\ 1 \in 1..Len(s) /\ 1 \in 0..Len(s) /\ 1 + 1 = 2
  BY EmptySeq
<1>2. Head(s) = s[1]
  OBVIOUS
<1>3. /\ front \in Seq(ItemType) /\ rest \in Seq(ItemType) /\ Len(front) = 1
      /\ MemSum(front) + MemSum(rest) = MemSum(s)
  <2>1. /\ front \in Seq(ItemType) /\ SubSeq(s, 1 + 1, Len(s)) \in Seq(ItemType) /\ Len(front) = 1
        /\ MemSum(front) + MemSum(SubSeq(s, 1 + 1, Len(s))) = MemSum(s)
    BY <1>1, ItemMem, SumSplit
  <2> QED BY <1>1, <2>1
<1>4. front[1] = s[1]
  BY <1>1
<1> HIDE DEF front, rest
<1>5. rest = Tail(s)
  BY TailIsSubSeq DEF rest
<1>6. MemSum(front) = s[1].mem
  <2>1. /\ MemUpTo(front)[0] = 0 /\ MemUpTo(front)[1] = MemUpTo(front)[0] + front[1].mem
    <3>1. 1 \in 1..Len(front) /\ 1 - 1 = 0
      BY <1>3
    <3> QED BY <1>3, <3>1, ItemMem, SumSteps
  <2>2. s[1].mem \in Nat
    BY <1>1, ElementOfSeq, ItemMem
  <2> QED BY <1>3, <1>4, <2>1, <2>2 DEF MemSum
<1>7. s[1].mem \in Nat /\ MemSum(rest) \in Nat
  BY <1>1, <1>3, ElementOfSeq, ItemMem, SumType
<1> QED BY <1>2, <1>3, <1>5, <1>6, <1>7

LEMMA LimitInit == Init => LimitInv
<1> SUFFICES ASSUME Init PROVE LimitInv
  OBVIOUS
<1>1. sendqueue.items = <<>> /\ sendqueue.mem = 0 /\ sendqueue.limit \in Nat
  BY UdpSizesAssumption DEF Init, EmptyQueue
<1>2. Accounted(sendqueue)
  BY <1>1, ItemMem, SumEmpty DEF Accounted
<1> QED BY <1>2 DEF Init, LimitInv, Idle

(* With the client outside setSendbufferLimit, only an accounted queue     *)
(* matters.                                                                *)
LEMMA LimitIdle ==
  ASSUME LimitInv, limiter = Idle, UNCHANGED limiter, raced' = raced,
         Accounted(sendqueue) => Accounted(sendqueue')
  PROVE  LimitInv'
BY DEF LimitInv, Idle

LEMMA LimitCalls ==
  ASSUME Typed, LimitInv,
         LimitTest \/ LimitStore \/ LimitPop \/ \E limit \in SendLimits : LimitBegin(limit)
  PROVE  LimitInv'
<1>1. sendqueue \in Queues /\ raced' = raced /\ raced \in BOOLEAN
  BY DEF Typed, SendTypes, RestTypes, LimitTest, LimitStore, LimitPop, LimitBegin
<1>2. /\ sendqueue.items \in Seq(ItemType) /\ sendqueue.mem \in 0..(SizeWrap - 1)
      /\ sendqueue.limit \in 0..(SizeWrap - 1) /\ SizeWrap \in Nat
  BY <1>1, QueueParts, SizeWrapAssumption
<1>3. ASSUME NEW limit \in SendLimits, LimitBegin(limit) PROVE LimitInv'
  <2>1. /\ sendqueue'.items = sendqueue.items /\ sendqueue'.mem = sendqueue.mem
        /\ limiter = Idle /\ limiter'.pc = "loop"
    BY <1>1, <1>3 DEF LimitBegin, ClientMay, Queues, QueueOf, Idle
  <2> QED BY <1>1, <2>1 DEF LimitInv, Idle, Accounted
<1>4. CASE LimitTest
  <2>1. sendqueue' = sendqueue /\ limiter.pc = "loop"
    BY <1>4 DEF LimitTest, sendVars
  <2>2. CASE sendqueue.mem <= sendqueue.limit /\ limiter' = Idle
    BY <1>1, <2>1, <2>2 DEF LimitInv, Idle, Accounted
  <2>3. CASE /\ sendqueue.items # <<>>
             /\ limiter' = [pc |-> "pop", mem |-> sendqueue.mem, size |-> Head(sendqueue.items).mem]
    BY <1>1, <2>1, <2>3 DEF LimitInv
  <2> QED BY <1>4, <2>2, <2>3 DEF LimitTest
<1>5. CASE LimitStore
  <2> DEFINE left == (limiter.mem - limiter.size) % SizeWrap
  <2>1. /\ sendqueue'.items = sendqueue.items /\ sendqueue'.mem = left
        /\ limiter.pc = "pop" /\ limiter'.pc = "front"
    BY <1>1, <1>5 DEF LimitStore, Queues, QueueOf, Idle
  <2>2. ASSUME ~raced PROVE sendqueue.items # <<>> /\ left = MemSum(Tail(sendqueue.items))
    <3>1. /\ sendqueue.items # <<>> /\ limiter.mem = MemSum(sendqueue.items)
          /\ limiter.mem = sendqueue.mem /\ limiter.size = Head(sendqueue.items).mem
      BY <2>1, <2>2 DEF LimitInv
    <3>2. /\ Head(sendqueue.items).mem \in Nat /\ MemSum(Tail(sendqueue.items)) \in Nat
          /\ MemSum(sendqueue.items) = Head(sendqueue.items).mem + MemSum(Tail(sendqueue.items))
      BY <1>2, <3>1, SumOfTail
    <3>3. /\ limiter.mem - limiter.size = MemSum(Tail(sendqueue.items))
          /\ MemSum(Tail(sendqueue.items)) \in 0..(SizeWrap - 1)
      <4> DEFINE a == limiter.mem
                 b == limiter.size
                 c == MemSum(Tail(sendqueue.items))
      <4>1. a \in 0..(SizeWrap - 1)
        BY <1>2, <3>1
      <4>2. b \in Nat /\ c \in Nat /\ a = b + c
        BY <3>1, <3>2
      <4> HIDE DEF a, b, c
      <4>3. a - b = c /\ c \in 0..(SizeWrap - 1)
        BY <1>2, <4>1, <4>2
      <4> QED BY <4>3 DEF a, b, c
    <3> QED BY <3>1, <3>3, Wrapped
  <2> HIDE DEF left
  <2> QED BY <1>1, <2>1, <2>2 DEF LimitInv
<1>6. CASE LimitPop
  <2>1. limiter.pc = "front" /\ limiter'.pc = "loop"
    BY <1>6 DEF LimitPop, Idle
  <2>2. CASE sendqueue.items # <<>> /\ sendqueue' = [sendqueue EXCEPT !.items = Tail(@)]
    <3>1. sendqueue'.items = Tail(sendqueue.items) /\ sendqueue'.mem = sendqueue.mem
      BY <1>1, <2>2 DEF Queues, QueueOf
    <3> QED BY <1>1, <2>1, <3>1 DEF LimitInv
  <2>3. CASE sendqueue.items = <<>>
    BY <1>1, <2>1, <2>3 DEF LimitInv
  <2> QED BY <1>6, <2>2, <2>3 DEF LimitPop
<1> QED BY <1>3, <1>4, <1>5, <1>6

LEMMA LimitStep == Typed /\ SendInv /\ LimitInv /\ [Next]_vars => LimitInv'
<1> SUFFICES ASSUME Typed, SendInv, LimitInv, [Next]_vars PROVE LimitInv'
  OBVIOUS
<1>1. CASE LimitTest \/ LimitStore \/ LimitPop \/ \E limit \in SendLimits : LimitBegin(limit)
  BY <1>1, LimitCalls
<1>2. ASSUME NEW items, OfferItems(items), Offer(items) PROVE LimitInv'
  <2>1. limiter = Idle /\ UNCHANGED limitVars
    BY <1>2 DEF Offer, ClientMay
  <2>2. Accounted(sendqueue) => Accounted(sendqueue')
    BY <1>2, SendOffer
  <2> QED BY <2>1, <2>2, LimitIdle DEF limitVars
<1>3. CASE HandleSend
  <2>1. UNCHANGED limiter /\ raced' = (raced \/ limiter # Idle) /\ raced \in BOOLEAN
    BY <1>3, HandleSendCases DEF Typed, RestTypes
  <2>2. CASE limiter = Idle
    BY <1>3, <2>1, <2>2, SendHandled, LimitIdle
  <2>3. CASE limiter # Idle
    BY <2>1, <2>3 DEF LimitInv
  <2> QED BY <2>2, <2>3
<1>4. CASE Close
  <2>1. limiter = Idle /\ UNCHANGED limitVars
    BY <1>4 DEF Close, ClientMay
  <2>2. Accounted(sendqueue')
    <3>1. sendqueue'.items = <<>> /\ sendqueue'.mem = 0 /\ sendqueue'.limit \in 0..(SizeWrap - 1)
      BY <1>4, SizeWrapAssumption DEF Close, Cleared, Typed, SendTypes, Queues, QueueOf
    <3>2. MemSum(<<>>) = 0
      BY ItemMem, SumEmpty
    <3>3. MemSum(sendqueue'.items) = 0
      BY <3>1, <3>2
    <3> QED BY <3>1, <3>3, SizeWrapAssumption DEF Accounted
  <2> QED BY <2>1, <2>2, LimitIdle DEF limitVars
<1>5. ASSUME UNCHANGED <<limitVars, sendqueue>> PROVE LimitInv'
  BY <1>5 DEF LimitInv, limitVars
<1>6. CASE Bind \/ Receive \/ Release \/ \E n \in WriteSizes : Write(n)
  BY <1>5, <1>6 DEF Bind, Receive, Release, Write, KeepSending, sendVars
<1>7. CASE OsResolve \/ OsSend
  BY <1>5, <1>7 DEF OsResolve, OsSend, sendVars
<1>8. ASSUME NEW f \in Families,
             HandleReceive(f) \/ OsReceiveError(f) \/ \E n \in ArrivalSizes : OsReceive(f, n)
      PROVE  LimitInv'
  BY <1>5, <1>8 DEF HandleReceive, OsReceiveError, OsReceive, KeepSending, sendVars
<1>9. CASE UNCHANGED vars
  BY <1>5, <1>9 DEF vars, sendVars
<1>10. CASE ClientOnly
  BY <1>1, <1>4, <1>6, <1>10 DEF ClientOnly
<1> QED BY <1>2, <1>3, <1>7, <1>8, <1>9, <1>10, ClientCases DEF Next, Butler, System

(* memSize_ is the memory of the queue's items and within the limit, for   *)
(* both queues, unless handleSend has run within setSendbufferLimit, which *)
(* takes no lock.                                                          *)
THEOREM Accounting == Spec => []QueuesAccounted
<1>1. Typed /\ SendInv /\ LimitInv /\ [Next]_vars => (Typed /\ SendInv /\ LimitInv)'
  BY TypesStep, SendStep, LimitStep
<1>2. LimitInv /\ Typed /\ ReceiveInv => QueuesAccounted
  BY DEF LimitInv, ReceiveInv, QueuesAccounted, Idle
<1> QED BY <1>1, <1>2, TypesInit, SendInit, LimitInit, ReceiveAlways, PTL DEF Spec
----------------------------------------------------------------------------
(* The endpoints.  A cursor moves to the next position of its family and   *)
(* passes none.                                                            *)
LEMMA SkipSpec ==
  ASSUME NEW list \in Seq(Families), NEW k \in 1..(Len(list) + 1), NEW f
  PROVE  /\ Skip(list, k, f) \in k..(Len(list) + 1)
         /\ Skip(list, k, f) \in DOMAIN list => list[Skip(list, k, f)] = f
         /\ \A p \in DOMAIN list : k <= p /\ p < Skip(list, k, f) => list[p] # f
<1> DEFINE hits == {i \in k..Len(list) : list[i] = f}
<1>0. Len(list) \in Nat /\ DOMAIN list = 1..Len(list)
  OBVIOUS
<1>1. CASE hits = {}
  <2>1. Skip(list, k, f) = Len(list) + 1 /\ \A p \in k..Len(list) : list[p] # f
    BY <1>1 DEF Skip
  <2> QED BY <1>0, <2>1
<1>2. CASE hits # {}
  <2>1. hits \in SUBSET Nat
    BY <1>0
  <2>2. \E i \in hits : \A j \in hits : i <= j
    BY <1>2, <2>1, LeastNumber
  <2>3. Skip(list, k, f) = CHOOSE i \in hits : \A j \in hits : i <= j
    BY <1>2 DEF Skip
  <2>4. Skip(list, k, f) \in hits /\ \A j \in hits : Skip(list, k, f) <= j
    <3> HIDE DEF hits
    <3> QED BY <2>2, <2>3
  <2>5. ASSUME NEW p \in DOMAIN list, k <= p, p < Skip(list, k, f)  PROVE list[p] # f
    <3>1. p \notin hits
      BY <1>0, <2>1, <2>4, <2>5
    <3> QED BY <1>0, <2>5, <3>1
  <2> QED BY <1>0, <2>4, <2>5
<1> QED BY <1>1, <1>2

(* What the cursors of an iterator have passed, and that of it the walk    *)
(* holds just the positions of the families in use, each once.             *)
Cursors(it) ==
  /\ it.v4 \in 1..(Len(it.list) + 1) /\ it.v6 \in 1..(Len(it.list) + 1)
  /\ it.v4 \in DOMAIN it.list => it.list[it.v4] = "v4"
  /\ it.v6 \in DOMAIN it.list => it.list[it.v6] = "v6"
Before(it, p) == IF it.list[p] = "v4" THEN p < it.v4 ELSE p < it.v6
TriedAll(it, walk, used) ==
  /\ \A i \in DOMAIN walk :
       walk[i] \in DOMAIN it.list /\ used[it.list[walk[i]]] /\ Before(it, walk[i])
  /\ \A p \in DOMAIN it.list :
       used[it.list[p]] /\ Before(it, p) => \E i \in DOMAIN walk : walk[i] = p
  /\ \A i, j \in DOMAIN walk : walk[i] = walk[j] => i = j

LEMMA IteratorParts ==
  ASSUME NEW it \in Iterators
  PROVE  /\ it.list \in Seq(Families) /\ Len(it.list) \in Nat
         /\ DOMAIN it.list = 1..Len(it.list)
         /\ it.v4 \in Nat /\ it.v6 \in Nat
         /\ \A p \in DOMAIN it.list : it.list[p] \in {"v4", "v6"}
BY DEF Iterators, Families

LEMMA StartTried ==
  ASSUME NEW list \in Seq(Families), NEW used
  PROVE  /\ Cursors(IteratorOver(list)) /\ TriedAll(IteratorOver(list), <<>>, used)
         /\ \A p \in DOMAIN list : ~Before(IteratorOver(list), p)
<1> DEFINE it == IteratorOver(list)
<1>0. /\ Len(list) \in Nat /\ DOMAIN list = 1..Len(list) /\ 1 \in 1..(Len(list) + 1)
      /\ \A p \in DOMAIN list : list[p] \in {"v4", "v6"}
  BY DEF Families
<1>1. it.list = list /\ it.v4 = Skip(list, 1, "v4") /\ it.v6 = Skip(list, 1, "v6")
  BY DEF IteratorOver
<1> HIDE DEF it
<1>2. Cursors(it)
  BY <1>0, <1>1, SkipSpec DEF Cursors
<1>3. ASSUME NEW p \in DOMAIN list PROVE ~Before(it, p)
  <2>1. /\ p < Skip(list, 1, "v4") => list[p] # "v4"
        /\ p < Skip(list, 1, "v6") => list[p] # "v6"
    BY <1>0, SkipSpec
  <2> QED BY <1>0, <1>1, <2>1 DEF Before
<1>4. DOMAIN <<>> = {}
  OBVIOUS
<1>5. TriedAll(it, <<>>, used)
  BY <1>1, <1>3, <1>4 DEF TriedAll
<1> QED BY <1>2, <1>3, <1>5 DEF it

(* next() passes the endpoint it returns, and no other.                    *)
LEMMA AdvancePasses ==
  ASSUME NEW it \in Iterators, Cursors(it), HasNext(it)
  PROVE  /\ Cursors(Advance(it)) /\ Advance(it).list = it.list
         /\ NextPosition(it) \in DOMAIN it.list /\ ~Before(it, NextPosition(it))
         /\ \A p \in DOMAIN it.list :
              Before(Advance(it), p) <=> Before(it, p) \/ p = NextPosition(it)
<1> DEFINE list == it.list
<1>0. /\ list \in Seq(Families) /\ Len(list) \in Nat /\ DOMAIN list = 1..Len(list)
      /\ it.v4 \in Nat /\ it.v6 \in Nat
      /\ \A p \in DOMAIN list : list[p] \in {"v4", "v6"}
  BY IteratorParts
<1>1. CASE ~AtEnd(it, it.v4)
  <2> DEFINE v == Skip(list, it.v4 + 1, "v4")
  <2>1. it.v4 \in DOMAIN list /\ list[it.v4] = "v4" /\ it.v4 + 1 \in 1..(Len(list) + 1)
    BY <1>0, <1>1 DEF AtEnd, Cursors
  <2>2. /\ v \in (it.v4 + 1)..(Len(list) + 1)
        /\ v \in DOMAIN list => list[v] = "v4"
        /\ \A p \in DOMAIN list : it.v4 + 1 <= p /\ p < v => list[p] # "v4"
    BY <1>0, <2>1, SkipSpec
  <2>3. NextPosition(it) = it.v4 /\ Advance(it) = [it EXCEPT !.v4 = v]
    BY <1>1 DEF NextPosition, Advance
  <2>4. Advance(it).list = list /\ Advance(it).v4 = v /\ Advance(it).v6 = it.v6
    BY <2>3 DEF Iterators
  <2> HIDE DEF v, list
  <2>5. Cursors(Advance(it))
    BY <1>0, <2>1, <2>2, <2>4 DEF Cursors, list
  <2>6. ASSUME NEW p \in DOMAIN list
        PROVE  Before(Advance(it), p) <=> Before(it, p) \/ p = it.v4
    <3>1. p \in Nat /\ v \in Nat /\ it.v4 < v
      BY <1>0, <2>1, <2>2
    <3>2. CASE list[p] = "v4"
      <4>1. p < v <=> p < it.v4 \/ p = it.v4
        BY <1>0, <2>2, <3>1, <3>2
      <4> QED BY <2>4, <3>2, <4>1 DEF Before, list
    <3>3. CASE list[p] # "v4"
      BY <2>1, <2>4, <3>3 DEF Before, list
    <3> QED BY <3>2, <3>3
  <2>7. ~Before(it, it.v4)
    BY <1>0, <2>1 DEF Before, list
  <2> QED BY <2>1, <2>3, <2>4, <2>5, <2>6, <2>7 DEF list
<1>2. CASE AtEnd(it, it.v4)
  <2> DEFINE v == Skip(list, it.v6 + 1, "v6")
  <2>0. ~AtEnd(it, it.v6)
    BY <1>2 DEF HasNext
  <2>1. it.v6 \in DOMAIN list /\ list[it.v6] = "v6" /\ it.v6 + 1 \in 1..(Len(list) + 1)
    BY <1>0, <2>0 DEF AtEnd, Cursors
  <2>2. /\ v \in (it.v6 + 1)..(Len(list) + 1)
        /\ v \in DOMAIN list => list[v] = "v6"
        /\ \A p \in DOMAIN list : it.v6 + 1 <= p /\ p < v => list[p] # "v6"
    BY <1>0, <2>1, SkipSpec
  <2>3. NextPosition(it) = it.v6 /\ Advance(it) = [it EXCEPT !.v6 = v]
    BY <1>2, <2>0 DEF NextPosition, Advance
  <2>4. Advance(it).list = list /\ Advance(it).v6 = v /\ Advance(it).v4 = it.v4
    BY <2>3 DEF Iterators
  <2> HIDE DEF v, list
  <2>5. Cursors(Advance(it))
    BY <1>0, <2>1, <2>2, <2>4 DEF Cursors, list
  <2>6. ASSUME NEW p \in DOMAIN list
        PROVE  Before(Advance(it), p) <=> Before(it, p) \/ p = it.v6
    <3>1. p \in Nat /\ v \in Nat /\ it.v6 < v
      BY <1>0, <2>1, <2>2
    <3>2. CASE list[p] = "v6"
      <4>1. p < v <=> p < it.v6 \/ p = it.v6
        BY <1>0, <2>2, <3>1, <3>2
      <4> QED BY <2>4, <3>2, <4>1 DEF Before, list
    <3>3. CASE list[p] = "v4"
      BY <2>1, <2>4, <3>3 DEF Before, list
    <3> QED BY <1>0, <3>2, <3>3
  <2>7. ~Before(it, it.v6)
    BY <1>0, <2>1 DEF Before, list
  <2> QED BY <2>1, <2>3, <2>4, <2>5, <2>6, <2>7 DEF list
<1> QED BY <1>1, <1>2

LEMMA AdvanceTried ==
  ASSUME NEW it \in Iterators, Cursors(it), HasNext(it),
         NEW walk \in Seq(Nat), NEW used, TriedAll(it, walk, used),
         used[it.list[NextPosition(it)]]
  PROVE  /\ Cursors(Advance(it))
         /\ TriedAll(Advance(it), Append(walk, NextPosition(it)), used)
<1> DEFINE pos == NextPosition(it)
           on == Append(walk, pos)
           next == Advance(it)
           n == Len(walk)
<1>1. /\ Cursors(next) /\ next.list = it.list
      /\ pos \in DOMAIN it.list /\ ~Before(it, pos)
      /\ \A p \in DOMAIN it.list : Before(next, p) <=> Before(it, p) \/ p = pos
  BY AdvancePasses
<1>2. n \in Nat /\ DOMAIN walk = 1..n /\ pos \in Nat
  BY IteratorTypes
<1>3. DOMAIN on = 1..(n + 1) /\ on[n + 1] = pos /\ \A i \in 1..n : on[i] = walk[i]
  BY <1>2, AppendProperties
<1>4. \A i \in 1..(n + 1) : i \in 1..n \/ i = n + 1
  BY <1>2
<1> HIDE DEF pos, on, next, n
<1>5. \A i \in DOMAIN on :
        on[i] \in DOMAIN next.list /\ used[next.list[on[i]]] /\ Before(next, on[i])
  BY <1>1, <1>2, <1>3, <1>4 DEF TriedAll, pos
<1>6. ASSUME NEW p \in DOMAIN next.list, used[next.list[p]], Before(next, p)
      PROVE  \E i \in DOMAIN on : on[i] = p
  <2>1. CASE p = pos
    BY <1>2, <1>3, <2>1
  <2>2. CASE Before(it, p)
    <3>1. PICK i \in DOMAIN walk : walk[i] = p
      BY <1>1, <1>6, <2>2 DEF TriedAll
    <3>2. i \in 1..(n + 1)
      BY <1>2, <3>1
    <3> QED BY <1>2, <1>3, <3>1, <3>2
  <2> QED BY <1>1, <1>6, <2>1, <2>2
<1>7. ASSUME NEW i \in DOMAIN on, NEW j \in DOMAIN on, on[i] = on[j]  PROVE i = j
  <2>1. \A k \in 1..n : walk[k] # pos
    BY <1>1, <1>2 DEF TriedAll
  <2> QED BY <1>2, <1>3, <1>4, <1>7, <2>1 DEF TriedAll
<1>8. TriedAll(next, on, used)
  BY <1>5, <1>6, <1>7, Zenon DEF TriedAll
<1> QED BY <1>1, <1>8 DEF next, on, pos

(* handleSend's loop passes endpoints of families without a socket only.   *)
LEMMA WithoutTried ==
  ASSUME NEW it \in Iterators, Cursors(it), open \in [Families -> BOOLEAN],
         NEW walk, TriedAll(it, walk, open)
  PROVE  LET left == WithoutClosed(it)
         IN  /\ left \in Iterators /\ Cursors(left) /\ left.list = it.list
             /\ TriedAll(left, walk, open)
             /\ HasNext(left) => open[left.list[NextPosition(left)]]
             /\ ~HasNext(left) => \A p \in DOMAIN it.list : open[it.list[p]] => Before(it, p)
<1> DEFINE left == WithoutClosed(it)
<1>0. /\ it.list \in Seq(Families) /\ Len(it.list) \in Nat /\ DOMAIN it.list = 1..Len(it.list)
      /\ it.v4 \in Nat /\ it.v6 \in Nat
      /\ \A p \in DOMAIN it.list : it.list[p] \in {"v4", "v6"}
  BY IteratorParts
<1>1. /\ left.list = it.list
      /\ left.v4 = IF open["v4"] THEN it.v4 ELSE Len(it.list) + 1
      /\ left.v6 = IF open["v6"] THEN it.v6 ELSE Len(it.list) + 1
      /\ left \in Iterators
  <2> DEFINE v4 == IF open["v4"] THEN it.v4 ELSE Len(it.list) + 1
             v6 == IF open["v6"] THEN it.v6 ELSE Len(it.list) + 1
  <2>1. v4 \in Nat /\ v6 \in Nat
    BY <1>0
  <2>2. left = [it EXCEPT !.v4 = v4, !.v6 = v6]
    BY DEF WithoutClosed
  <2> HIDE DEF v4, v6, left
  <2>3. left.list = it.list /\ left.v4 = v4 /\ left.v6 = v6 /\ left \in Iterators
    BY <2>1, <2>2 DEF Iterators
  <2> QED BY <2>3 DEF v4, v6
<1> HIDE DEF left
<1>2. Cursors(left)
  BY <1>0, <1>1 DEF Cursors
<1>3. \A p \in DOMAIN it.list : open[it.list[p]] => (Before(left, p) <=> Before(it, p))
  BY <1>0, <1>1 DEF Before
<1>4. TriedAll(left, walk, open)
  BY <1>1, <1>3 DEF TriedAll
<1>5. ASSUME HasNext(left) PROVE open[left.list[NextPosition(left)]]
  <2>1. CASE ~AtEnd(left, left.v4)
    <3>1. NextPosition(left) = left.v4 /\ left.v4 # Len(it.list) + 1
      BY <1>1, <2>1 DEF NextPosition, AtEnd
    <3>2. open["v4"] /\ left.v4 \in DOMAIN left.list
      BY <1>0, <1>1, <1>2, <3>1 DEF Cursors
    <3> QED BY <1>2, <3>1, <3>2 DEF Cursors
  <2>2. CASE AtEnd(left, left.v4)
    <3>0. ~AtEnd(left, left.v6)
      BY <1>5, <2>2 DEF HasNext
    <3>1. NextPosition(left) = left.v6 /\ left.v6 # Len(it.list) + 1
      BY <1>1, <2>2, <3>0 DEF NextPosition, AtEnd
    <3>2. open["v6"] /\ left.v6 \in DOMAIN left.list
      BY <1>0, <1>1, <1>2, <3>1 DEF Cursors
    <3> QED BY <1>2, <3>1, <3>2 DEF Cursors
  <2> QED BY <2>1, <2>2
<1>6. ASSUME ~HasNext(left), NEW p \in DOMAIN it.list, open[it.list[p]]  PROVE Before(it, p)
  <2>1. left.v4 = Len(it.list) + 1 /\ left.v6 = Len(it.list) + 1
    BY <1>1, <1>6 DEF HasNext, AtEnd
  <2>2. Before(left, p)
    BY <1>0, <1>1, <2>1 DEF Before
  <2> QED BY <1>3, <1>6, <2>2
<1> QED BY <1>1, <1>2, <1>4, <1>5, <1>6 DEF left
----------------------------------------------------------------------------
(* Of the list being worked off, the endpoints tried are those passed that *)
(* an open socket can reach.                                               *)
EndpointInv ==
  /\ handle = "none" => sendOp = "idle"
  /\ sendOp = "resolving" => tried = <<>>
  /\ sendOp \in {"resolved", "sending", "sent", "failed"} =>
       Cursors(endpoints) /\ TriedAll(endpoints, tried, open)

(* An item taken from the queue is a host name to look up, or an address   *)
(* an open socket can reach, whose one endpoint is tried at once.          *)
LEMMA AsyncSendTried ==
  ASSUME NEW q \in Queues, AsyncSend(q), open \in [Families -> BOOLEAN]
  PROVE  \/ sendOp' = "idle"
         \/ sendOp' = "resolving" /\ tried' = <<>>
         \/ sendOp' = "sending" /\ Cursors(endpoints') /\ TriedAll(endpoints', tried', open)
<1> DEFINE n == LeadingUndeliverable(q.items)
           N == Len(q.items)
<1>1. q.items \in Seq(ItemType) /\ N \in Nat
  BY QueueParts
<1>2. n \in 0..N
  BY <1>1, LeadingType
<1>3. CASE NoSend
  BY <1>3 DEF NoSend
<1>4. CASE n < N
  <2> DEFINE item == q.items[n + 1]
  <2>1. ~Undeliverable(item)
    BY <1>1, <1>4, LeadingType
  <2> HIDE DEF n, N
  <2>2. n + 1 \in 1..N /\ item \in ItemType
    BY <1>1, <1>2, <1>4, ElementOfSeq DEF N
  <2>3. /\ sendOp' = IF item.host = "name" THEN "resolving" ELSE "sending"
        /\ endpoints' = IF item.host = "name" THEN IteratorOver(<<>>)
                        ELSE Advance(IteratorOver(<<item.host>>))
        /\ tried' = IF item.host = "name" THEN <<>> ELSE <<1>>
    BY <1>2, <1>4 DEF AsyncSend, n, N
  <2>4. CASE item.host # "name"
    <3> DEFINE list == <<item.host>>
               it == IteratorOver(list)
    <3>1. item.host \in Families /\ open[item.host]
      BY <2>1, <2>2, <2>4 DEF ItemType, Undeliverable
    <3>2. list \in Seq(Families) /\ Len(list) = 1 /\ DOMAIN list = 1..1 /\ list[1] = item.host
      BY <3>1
    <3>3. it.list = list
      BY DEF IteratorOver
    <3> HIDE DEF it, list
    <3>4. it \in Iterators /\ Cursors(it) /\ TriedAll(it, <<>>, open)
      BY <3>2, StartTried, IteratorTypes DEF it
    <3>5. \A p \in DOMAIN list : ~Before(it, p)
      BY <3>2, StartTried DEF it
    <3>6. HasNext(it)
      <4>0. Len(it.list) + 1 = 2
        <5>1. Len(list) + 1 = 2
          BY <3>2
        <5> QED BY <3>3, <5>1, Zenon
      <4>5. 1 \in DOMAIN list
        BY <3>2
      <4>1. it.v4 \in 1..2 /\ it.v6 \in 1..2 /\ ~Before(it, 1)
        BY <3>4, <3>5, <4>0, <4>5 DEF Cursors
      <4>2. it.v4 = 1 \/ it.v6 = 1
        BY <4>1 DEF Before
      <4> QED BY <4>0, <4>2 DEF HasNext, AtEnd
    <3>7. NextPosition(it) = 1
      BY <3>2, <3>3, <3>4, <3>6, AdvancePasses
    <3>8. Append(<<>>, 1) = <<1>> /\ <<>> \in Seq(Nat)
      OBVIOUS
    <3>9. Cursors(Advance(it)) /\ TriedAll(Advance(it), <<1>>, open)
      BY <3>1, <3>2, <3>3, <3>4, <3>6, <3>7, <3>8, AdvanceTried
    <3> QED BY <2>3, <2>4, <3>9 DEF it, list
  <2> QED BY <2>3, <2>4
<1> QED BY <1>2, <1>3, <1>4 DEF AsyncSend

LEMMA EndpointInit == Init => EndpointInv
BY DEF Init, EndpointInv

LEMMA EndpointSame ==
  ASSUME EndpointInv, UNCHANGED <<opVars, open>>, handle' = "none" => handle = "none"
  PROVE  EndpointInv'
BY DEF opVars, EndpointInv

LEMMA EndpointHandled ==
  ASSUME Typed, EndpointInv, HandleSend
  PROVE  EndpointInv'
<1> DEFINE left == WithoutClosed(endpoints)
<1>1. handle' = handle /\ sendOp # "idle" /\ open \in [Families -> BOOLEAN]
      /\ endpoints \in Iterators /\ tried \in Seq(Nat) /\ sendqueue \in Queues
  BY DEF HandleSend, Typed, RestTypes, OpTypes, SendTypes
<1>2. CASE /\ sendOp \in {"resolved", "failed"} /\ MoreEndpoints(left)
           /\ sendOp' = "sending"
           /\ endpoints' = Advance(left)
           /\ tried' = Append(tried, NextPosition(left))
           /\ UNCHANGED open
  <2> HIDE DEF left
  <2>1. Cursors(endpoints) /\ TriedAll(endpoints, tried, open)
    BY <1>2 DEF EndpointInv
  <2>2. /\ left \in Iterators /\ Cursors(left) /\ HasNext(left)
        /\ TriedAll(left, tried, open) /\ open[left.list[NextPosition(left)]]
    BY <1>1, <1>2, <2>1, WithoutTried DEF left, MoreEndpoints
  <2>3. Cursors(endpoints') /\ TriedAll(endpoints', tried', open)
    BY <1>1, <1>2, <2>2, AdvanceTried
  <2> QED BY <1>1, <1>2, <2>3 DEF EndpointInv
<1>3. CASE AsyncSend(sendqueue) /\ OpenWhileAlive
  <2>1. \/ sendOp' = "idle"
        \/ sendOp' = "resolving" /\ tried' = <<>>
        \/ sendOp' = "sending" /\ Cursors(endpoints') /\ TriedAll(endpoints', tried', open)
    BY <1>1, <1>3, AsyncSendTried
  <2>2. sendOp' # "idle" => open' = open
    BY <1>3 DEF OpenWhileAlive, Alive
  <2>3. handle' # "none"
    BY <1>1 DEF EndpointInv
  <2> QED BY <2>1, <2>2, <2>3 DEF EndpointInv
<1> QED BY <1>2, <1>3 DEF HandleSend, NextDatagram

LEMMA EndpointOffer ==
  ASSUME Typed, SendInv, EndpointInv, NEW items, OfferItems(items), Offer(items)
  PROVE  EndpointInv'
<1> DEFINE r == PushAll(items)
<1>1. handle = "held" /\ UNCHANGED <<handle, open>> /\ open \in [Families -> BOOLEAN]
  BY DEF Offer, ClientMay, Typed, RestTypes
<1>2. CASE UNCHANGED opVars
  BY <1>1, <1>2, EndpointSame
<1>3. CASE AsyncSend(r.queue)
  <2>1. r.queue \in Queues
    <3>1. items \in Seq(ItemType) /\ Len(items) \in Nat
      BY LenProperties DEF OfferItems
    <3>2. r \in Results
      BY <3>1, PushAllType DEF Typed, SendTypes
    <3> QED BY <3>2 DEF Results
  <2> HIDE DEF r
  <2>2. \/ sendOp' = "idle"
        \/ sendOp' = "resolving" /\ tried' = <<>>
        \/ sendOp' = "sending" /\ Cursors(endpoints') /\ TriedAll(endpoints', tried', open)
    BY <1>1, <1>3, <2>1, AsyncSendTried
  <2> QED BY <1>1, <2>2 DEF EndpointInv
<1> QED BY <1>2, <1>3 DEF Offer, AsyncSendUnlessInProgress

LEMMA EndpointStep == Typed /\ SendInv /\ EndpointInv /\ [Next]_vars => EndpointInv'
<1> SUFFICES ASSUME Typed, SendInv, EndpointInv, [Next]_vars PROVE EndpointInv'
  OBVIOUS
<1>1. CASE ClientOnly
  <2>1. UNCHANGED opVars
    BY <1>1, ClientFewer DEF Fewer
  <2>2. CASE Bind
    BY <2>1, <2>2 DEF Bind, EndpointInv, opVars
  <2>3. CASE Release
    <3>1. sendOp' = sendOp /\ handle' = "released" /\ (sendOp # "idle" => open' = open)
      BY <2>1, <2>3 DEF Release, OpenWhileAlive, Alive, opVars
    <3> QED BY <2>1, <3>1 DEF EndpointInv, opVars
  <2>4. CASE open' = open /\ handle' \in {handle, "releasing"}
    BY <2>1, <2>4, EndpointSame
  <2>5. CASE Receive \/ LimitTest \/ LimitStore \/ LimitPop \/ Close
    <3>1. open' = open /\ handle' \in {handle, "releasing"}
      BY <2>5 DEF Receive, LimitTest, LimitStore, LimitPop, Close
    <3> QED BY <2>4, <3>1
  <2>6. ASSUME NEW n \in WriteSizes, Write(n) PROVE EndpointInv'
    <3>1. open' = open /\ handle' \in {handle, "releasing"}
      BY <2>6 DEF Write
    <3> QED BY <2>4, <3>1
  <2>7. ASSUME NEW limit \in SendLimits, LimitBegin(limit) PROVE EndpointInv'
    <3>1. open' = open /\ handle' \in {handle, "releasing"}
      BY <2>7 DEF LimitBegin
    <3> QED BY <2>4, <3>1
  <2> QED BY <1>1, <2>2, <2>3, <2>5, <2>6, <2>7 DEF ClientOnly
<1>2. CASE OsResolve
  <2>1. CASE sendOp' = "resolved" /\ \E list \in ResolveResults : endpoints' = IteratorOver(list)
    <3>1. tried' = <<>> /\ UNCHANGED <<handle, open>>
      BY <1>2 DEF OsResolve, EndpointInv
    <3>2. Cursors(endpoints') /\ TriedAll(endpoints', <<>>, open)
      BY <2>1, UdpResolveAssumption, StartTried
    <3> QED BY <1>2, <2>1, <3>1, <3>2 DEF EndpointInv, OsResolve
  <2>2. CASE sendOp' = "unresolved"
    BY <1>2, <2>2 DEF EndpointInv, OsResolve
  <2> QED BY <1>2, <2>1, <2>2 DEF OsResolve
<1>3. CASE OsSend
  BY <1>3 DEF OsSend, EndpointInv
<1>4. ASSUME NEW f \in Families,
             HandleReceive(f) \/ OsReceiveError(f) \/ \E n \in ArrivalSizes : OsReceive(f, n)
      PROVE  EndpointInv'
  BY <1>4, EndpointSame DEF HandleReceive, OsReceiveError, OsReceive, KeepSending
<1>5. CASE UNCHANGED vars
  BY <1>5, EndpointSame DEF vars
<1> QED BY <1>1, <1>2, <1>3, <1>4, <1>5, ClientCases, EndpointHandled, EndpointOffer
      DEF Next, Butler, System

LEMMA EndpointAlways == Spec => [](Typed /\ SendInv /\ EndpointInv)
BY TypesInit, TypesStep, SendInit, SendStep, EndpointInit, EndpointStep, PTL DEF Spec

(* A walk without repetition over a set is as long as the set is large.    *)
LEMMA WalkLength ==
  ASSUME NEW walk \in Seq(Nat), \A i, j \in DOMAIN walk : walk[i] = walk[j] => i = j
  PROVE  Cardinality({walk[i] : i \in DOMAIN walk}) = Len(walk)
<1> DEFINE n == Len(walk)
           S == {walk[i] : i \in DOMAIN walk}
<1>1. n \in Nat /\ DOMAIN walk = 1..n
  OBVIOUS
<1>2. walk \in Bijection(1..n, S)
  <2>1. walk \in [1..n -> S]
    BY <1>1
  <2>2. \A s \in S : \E i \in 1..n : walk[i] = s
    BY <1>1
  <2> HIDE DEF S, n
  <2> QED BY <1>1, <2>1, <2>2 DEF Bijection, Injection, Surjection, IsInjective
<1> HIDE DEF S, n
<1>3. ExistsBijection(1..n, S)
  BY <1>2 DEF ExistsBijection
<1>4. IsFiniteSet(1..n) /\ Cardinality(1..n) = IF 1 > n THEN 0 ELSE n - 1 + 1
  <2>1. 1 \in Int /\ n \in Int
    BY <1>1
  <2> QED BY <2>1, FS_Interval
<1>5. Cardinality(1..n) = n
  BY <1>1, <1>4
<1>6. Cardinality(S) = Cardinality(1..n)
  BY <1>3, <1>4, FS_Bijection, FS_SameCardinalityBij
<1> QED BY <1>5, <1>6 DEF S, n

(* handleSend gives a datagram up, straight from handleResolve or after a  *)
(* failure, only when every endpoint that an open socket can reach has     *)
(* been tried, and tries none twice, for lists of every length and         *)
(* whichever of the two sockets is open.                                   *)
THEOREM GivesUpLate == Spec => GivesUpOnlyAfterAll
<1>1. ASSUME Typed, SendInv, EndpointInv, [Next]_vars,
             sendOp \in {"resolved", "failed"}, current' # current
      PROVE  LET reachable == {p \in DOMAIN endpoints.list : open[endpoints.list[p]]}
             IN  reachable = {tried[i] : i \in DOMAIN tried}
                 /\ Cardinality(reachable) = Len(tried)
  <2> DEFINE reachable == {p \in DOMAIN endpoints.list : open[endpoints.list[p]]}
             walked == {tried[i] : i \in DOMAIN tried}
  <2>1. HandleSend
    <3>1. CASE ClientOnly
      BY <1>1, <3>1, ClientFewer DEF Fewer, opVars
    <3>2. ASSUME NEW items, OfferItems(items), Offer(items) PROVE FALSE
      <4>1. asyncSendInProgress
        BY <1>1 DEF SendInv, NoStalledDatagram
      <4>2. UNCHANGED opVars
        BY <3>2, <4>1 DEF Offer, AsyncSendUnlessInProgress
      <4> QED BY <1>1, <4>2 DEF opVars
    <3>3. CASE OsResolve \/ OsSend
      BY <1>1, <3>3 DEF OsResolve, OsSend
    <3>4. CASE UNCHANGED <<opVars, sendVars, sent>>
      BY <1>1, <3>4 DEF opVars
    <3> QED BY <1>1, <3>1, <3>2, <3>3, <3>4, StepCases
  <2>2. ~MoreEndpoints(WithoutClosed(endpoints))
    BY <1>1, <2>1 DEF HandleSend
  <2>3. /\ Cursors(endpoints) /\ TriedAll(endpoints, tried, open)
        /\ endpoints \in Iterators /\ tried \in Seq(Nat) /\ open \in [Families -> BOOLEAN]
    BY <1>1 DEF EndpointInv, Typed, OpTypes, RestTypes
  <2>4. \A p \in DOMAIN endpoints.list : open[endpoints.list[p]] => Before(endpoints, p)
    BY <2>2, <2>3, WithoutTried DEF MoreEndpoints
  <2>5. reachable = walked
    BY <2>3, <2>4 DEF TriedAll
  <2>6. Cardinality(walked) = Len(tried)
    BY <2>3, WalkLength DEF TriedAll
  <2> HIDE DEF reachable, walked
  <2>7. Cardinality(reachable) = Len(tried)
    BY <2>5, <2>6
  <2> QED BY <2>5, <2>7 DEF reachable, walked
<1>2. Typed /\ SendInv /\ EndpointInv /\ [Next]_vars =>
        [current' # current /\ sendOp \in {"resolved", "failed"} =>
           LET reachable == {p \in DOMAIN endpoints.list : open[endpoints.list[p]]}
           IN  reachable = {tried[i] : i \in DOMAIN tried}
               /\ Cardinality(reachable) = Len(tried)]_vars
  BY <1>1
<1> QED BY <1>2, EndpointAlways, PTL DEF GivesUpOnlyAfterAll, Spec
=============================================================================
