---------------------------- MODULE BufferProofs ---------------------------
(***************************************************************************)
(* Proofs about Buffer and Codecs.  The codecs come first: what each loop  *)
(* over a text has done after every character, that the small output       *)
(* buffer loses no byte, that hex and base64 texts decode to what was      *)
(* encoded, and that the base64 decoder agrees with the reference          *)
(* Base64Meaning on every text.  Then numbers in memory and the copy in    *)
(* pieces; and last the invariant BuffersOK and, operation by operation,   *)
(* what the properties of Buffer say of each.                              *)
(***************************************************************************)
EXTENDS Buffer, Lemmas, SequenceTheorems, TLAPS
----------------------------------------------------------------------------
(* Numbers as pairs of bits.                                               *)
LEMMA QuarterType == Quarter \in Nat /\ Quarter > 1
BY CodecsAssumption

LEMMA QuarterValues ==
  ASSUME NEW N \in Nat
  PROVE  \E g \in [0..N -> Nat] : /\ g[0] = 1 /\ Quarters(N) = g[N]
                                  /\ \A i \in 1..N : g[i] = g[i - 1] * Quarter
<1> DEFINE step == [p \in (1..N) \X Nat |-> p[2] * Quarter]
           Eq(g) == g = [i \in 0..N |-> IF i = 0 THEN 1 ELSE g[i - 1] * Quarter]
           v == CHOOSE g : Eq(g)
<1>1. \A x \in Nat : x * Quarter \in Nat
  BY QuarterType, ProductType
<1>2. step \in [(1..N) \X Nat -> Nat]
  BY <1>1
<1>3. PICK g : IsFold(g, N, Nat, 1, step)
  <2> HIDE DEF step
  <2> QED BY <1>2, FoldExists
<1>4. \A i \in 1..N : g[i] = g[i - 1] * Quarter
  <2>1. \A i \in 1..N, x \in Nat : step[<<i, x>>] = x * Quarter
    OBVIOUS
  <2> HIDE DEF step
  <2>2. \A i \in 1..N : g[i - 1] \in Nat
    BY <1>3 DEF IsFold
  <2> QED BY <1>3, <2>1, <2>2 DEF IsFold
<1>5. Eq(g)
  <2>1. \A i \in 0..N : g[i] = IF i = 0 THEN 1 ELSE g[i - 1] * Quarter
    <3> HIDE DEF step
    <3>1. g[0] = 1
      BY <1>3 DEF IsFold
    <3>2. \A i \in 0..N : i # 0 => i \in 1..N
      OBVIOUS
    <3> QED BY <3>1, <3>2, <1>4
  <2>2. g \in [0..N -> Nat]
    BY <1>3 DEF IsFold
  <2> QED BY <2>1, <2>2
<1>6. Eq(v)
  <2> HIDE DEF Eq
  <2> QED BY <1>5
<1>7. Quarters(N) = v[N]
  BY DEF Quarters
<1>7a. v = [i \in 0..N |-> IF i = 0 THEN 1 ELSE v[i - 1] * Quarter]
  BY <1>6
<1> HIDE DEF v
<1>8. v[0] = 1 /\ \A i \in 1..N : v[i] = v[i - 1] * Quarter
  <2>1. \A i \in 0..N : v[i] = IF i = 0 THEN 1 ELSE v[i - 1] * Quarter
    BY ONLY <1>7a
  <2>2. 0 \in 0..N /\ \A i \in 1..N : i \in 0..N /\ i # 0
    OBVIOUS
  <2> QED BY <2>1, <2>2
<1>9. \A i \in 0..N : v[i] \in Nat
  <2> DEFINE S == {i \in 0..N : v[i] \in Nat}
  <2>1. 0 \in S /\ \A i \in 1..N : i - 1 \in S => i \in S
    BY <1>1, <1>8
  <2> HIDE DEF S
  <2>2. 0..N \subseteq S
    BY <2>1, Induct
  <2> QED BY <2>2 DEF S
<1>10. v \in [0..N -> Nat]
  BY <1>7a, <1>9
<1> QED BY <1>7, <1>8, <1>10

LEMMA QuartersNext ==
  ASSUME NEW n \in Nat
  PROVE  Quarters(n + 1) = Quarters(n) * Quarter
<1>1. PICK g \in [0..n -> Nat] : /\ g[0] = 1 /\ Quarters(n) = g[n]
                                 /\ \A i \in 1..n : g[i] = g[i - 1] * Quarter
  BY QuarterValues
<1>2. PICK h \in [0..(n + 1) -> Nat] : /\ h[0] = 1 /\ Quarters(n + 1) = h[n + 1]
                                       /\ \A i \in 1..(n + 1) : h[i] = h[i - 1] * Quarter
  <2>1. n + 1 \in Nat
    OBVIOUS
  <2> QED BY <2>1, QuarterValues
<1> DEFINE S == {i \in 0..n : g[i] = h[i]}
<1>3. 0 \in S /\ \A i \in 1..n : i - 1 \in S => i \in S
  BY <1>1, <1>2
<1> HIDE DEF S
<1>4. 0..n \subseteq S
  BY <1>3, Induct
<1>5. g[n] = h[n]
  BY <1>4 DEF S
<1>6. h[n + 1] = h[n] * Quarter
  BY <1>2
<1> QED BY <1>1, <1>2, <1>5, <1>6

LEMMA QuartersZero == Quarters(0) = 1
BY QuarterValues

LEMMA QuartersType ==
  ASSUME NEW n \in Nat
  PROVE  Quarters(n) \in Nat /\ Quarters(n) > 0
<1> DEFINE S == {i \in 0..n : Quarters(i) \in Nat /\ Quarters(i) > 0}
<1>1. 0 \in S
  BY QuartersZero
<1>2. ASSUME NEW i \in 1..n, i - 1 \in S PROVE i \in S
  <2>1. Quarters((i - 1) + 1) = Quarters(i - 1) * Quarter /\ (i - 1) + 1 = i
    BY QuartersNext
  <2>2. Quarters(i - 1) * Quarter \in Nat /\ Quarters(i - 1) * Quarter > 0
    BY <1>2, QuarterType, ProductType
  <2> QED BY <2>1, <2>2
<1> HIDE DEF S
<1>3. 0..n \subseteq S
  BY <1>1, <1>2, Induct
<1> QED BY <1>3 DEF S

LEMMA QuartersSum ==
  ASSUME NEW m \in Nat, NEW n \in Nat
  PROVE  Quarters(m + n) = Quarters(m) * Quarters(n)
<1> DEFINE S == {i \in 0..n : Quarters(m + i) = Quarters(m) * Quarters(i)}
<1>1. 0 \in S
  <2>1. m + 0 = m /\ Quarters(m) * 1 = Quarters(m)
    BY QuartersType
  <2> QED BY <2>1, QuartersZero
<1>2. ASSUME NEW i \in 1..n, i - 1 \in S PROVE i \in S
  <2> DEFINE j == i - 1
  <2>1. j \in Nat /\ j + 1 = i /\ (m + j) + 1 = m + i /\ m + j \in Nat
    OBVIOUS
  <2> HIDE DEF j
  <2>2. Quarters(m + i) = Quarters(m + j) * Quarter /\ Quarters(i) = Quarters(j) * Quarter
    BY <2>1, QuartersNext
  <2>3. Quarters(m + j) = Quarters(m) * Quarters(j)
    BY <1>2 DEF j
  <2>4. (Quarters(m) * Quarters(j)) * Quarter = Quarters(m) * (Quarters(j) * Quarter)
    BY <2>1, QuartersType, QuarterType
  <2> QED BY <2>2, <2>3, <2>4
<1> HIDE DEF S
<1>3. 0..n \subseteq S
  BY <1>1, <1>2, Induct
<1> QED BY <1>3 DEF S

LEMMA QuartersOne == Quarters(1) = Quarter
<1>1. Quarters(0 + 1) = Quarters(0) * Quarter /\ 0 + 1 = 1
  BY QuartersNext
<1> QED BY <1>1, QuartersZero, QuarterType

(* Pair k of x, from its low end.                                          *)
Pair(x, k) == (x \div Quarters(k)) % Quarter

LEMMA PairType ==
  ASSUME NEW x \in Int, NEW k \in Nat
  PROVE  Pair(x, k) \in 0..(Quarter - 1)
<1>1. x \div Quarters(k) \in Int
  BY DivMod, QuartersType
<1> QED BY <1>1, DivMod, QuarterType DEF Pair

(* Shifting to the right.                                                  *)
LEMMA PairShift ==
  ASSUME NEW x \in Int, NEW m \in Nat, NEW k \in Nat
  PROVE  Pair(x \div Quarters(m), k) = Pair(x, m + k)
<1>1. x \div (Quarters(m) * Quarters(k)) = (x \div Quarters(m)) \div Quarters(k)
  BY DivTwice, QuartersType
<1> QED BY <1>1, QuartersSum DEF Pair

(* Taking the low end.                                                     *)
LEMMA PairMask ==
  ASSUME NEW x \in Int, NEW n \in Nat, NEW k \in 0..(n - 1)
  PROVE  Pair(x % Quarters(n), k) = Pair(x, k)
<1> DEFINE a == Quarters(k)
           b == Quarters((n - k) - 1)
           d == x \div a
           rest == (n - k) - 1
<1>1. /\ k \in Nat /\ rest \in Nat /\ 1 + rest = n - k /\ k + (n - k) = n /\ n - k \in Nat
  OBVIOUS
<1>2. a \in Nat /\ a > 0 /\ b \in Nat /\ b > 0 /\ Quarters(n - k) = Quarter * b
      /\ Quarters(n) = a * Quarters(n - k)
  <2>1. Quarters(1 + rest) = Quarters(1) * Quarters(rest)
    <3> HIDE DEF rest
    <3> QED BY <1>1, QuartersSum
  <2>2. Quarters(k + (n - k)) = Quarters(k) * Quarters(n - k)
    BY <1>1, QuartersSum
  <2>3. Quarters(k) \in Nat /\ Quarters(k) > 0 /\ Quarters(rest) \in Nat /\ Quarters(rest) > 0
    <3> HIDE DEF rest
    <3> QED BY <1>1, QuartersType
  <2> QED BY <1>1, <2>1, <2>2, <2>3, QuartersOne
<1>3. d \in Int /\ x % a \in 0..(a - 1)
  BY <1>2, DivMod
<1>4. Quarter * b \in Nat /\ Quarter * b > 0
  BY <1>2, QuarterType, ProductType
<1>5. x % Quarters(n) = (d % (Quarter * b)) * a + (x % a)
  <2>1. x % (a * (Quarter * b)) = ((x \div a) % (Quarter * b)) * a + (x % a)
    <3> HIDE DEF a, b
    <3> QED BY <1>2, <1>4, DivTwice
  <2> QED BY <1>2, <2>1
<1> HIDE DEF a, b, d, rest
<1>6. d % (Quarter * b) \in Int
  BY <1>3, <1>4, DivMod
<1>7. (x % Quarters(n)) \div a = d % (Quarter * b)
  BY <1>2, <1>3, <1>5, <1>6, DivUnique
<1>8. d % (Quarter * b) = ((d \div Quarter) % b) * Quarter + (d % Quarter)
  BY <1>2, <1>3, QuarterType, DivTwice
<1>9. (d \div Quarter) % b \in Int /\ d % Quarter \in 0..(Quarter - 1)
  BY <1>2, <1>3, QuarterType, DivMod
<1>10. (d % (Quarter * b)) % Quarter = d % Quarter
  <2> DEFINE q == (d \div Quarter) % b
             r == d % Quarter
  <2>1. q \in Int /\ r \in 0..(Quarter - 1) /\ d % (Quarter * b) = q * Quarter + r
    BY <1>8, <1>9
  <2> HIDE DEF q, r
  <2>2. (q * Quarter + r) % Quarter = r
    BY <2>1, QuarterType, DivUnique
  <2> QED BY <2>1, <2>2 DEF r
<1> QED BY <1>7, <1>10 DEF Pair, a, d

(* Putting y behind x.                                                     *)
LEMMA PairJoin ==
  ASSUME NEW x \in Int, NEW m \in Nat, NEW y \in 0..(Quarters(m) - 1), NEW k \in Nat
  PROVE  Pair(x * Quarters(m) + y, k) = IF k < m THEN Pair(y, k) ELSE Pair(x, k - m)
<1> DEFINE z == x * Quarters(m) + y
<1>1. Quarters(m) \in Nat /\ Quarters(m) > 0
  BY QuartersType
<1>2. z \div Quarters(m) = x /\ z % Quarters(m) = y
  BY <1>1, DivUnique
<1>3. z \in Int
  BY <1>1
<1> HIDE DEF z
<1>4. CASE k < m
  <2>1. k \in 0..(m - 1)
    BY <1>4
  <2> QED BY <1>2, <1>3, <1>4, <2>1, PairMask DEF z
<1>5. CASE ~(k < m)
  <2>1. k - m \in Nat /\ m + (k - m) = k
    BY <1>5
  <2>2. Pair(z \div Quarters(m), k - m) = Pair(z, m + (k - m))
    BY <1>3, <2>1, PairShift
  <2> QED BY <1>2, <1>5, <2>1, <2>2 DEF z
<1> QED BY <1>4, <1>5

(* Numbers with the same pairs are the same.                               *)
LEMMA PairsEqual ==
  ASSUME NEW n \in Nat, NEW x \in 0..(Quarters(n) - 1), NEW y \in 0..(Quarters(n) - 1),
         \A k \in 0..(n - 1) : Pair(x, k) = Pair(y, k)
  PROVE  x = y
<1>0. x \in Int /\ y \in Int
  BY QuartersType
<1> DEFINE S == {j \in 0..n : x % Quarters(j) = y % Quarters(j)}
<1>1. 0 \in S
  <2>1. x % 1 = 0 /\ y % 1 = 0
    BY <1>0
  <2> QED BY <2>1, QuartersZero
<1>2. ASSUME NEW j \in 1..n, j - 1 \in S PROVE j \in S
  <2> DEFINE i == j - 1
             a == Quarters(i)
  <2>1. i \in Nat /\ i + 1 = j /\ i \in 0..(n - 1)
    OBVIOUS
  <2>2. a \in Nat /\ a > 0 /\ Quarters(j) = a * Quarter
    BY <2>1, QuartersNext, QuartersType
  <2>3. /\ x % (a * Quarter) = ((x \div a) % Quarter) * a + (x % a)
        /\ y % (a * Quarter) = ((y \div a) % Quarter) * a + (y % a)
    <3> HIDE DEF a
    <3> QED BY <1>0, <2>2, QuarterType, DivTwice
  <2>4. (x \div a) % Quarter = (y \div a) % Quarter
    BY <2>1 DEF Pair
  <2>5. x % a = y % a
    BY <1>2
  <2> QED BY <2>2, <2>3, <2>4, <2>5
<1> HIDE DEF S
<1>3. 0..n \subseteq S
  BY <1>1, <1>2, Induct
<1>4. x % Quarters(n) = y % Quarters(n)
  BY <1>3 DEF S
<1>5. x % Quarters(n) = x /\ y % Quarters(n) = y
  <2>1. 0 * Quarters(n) + x = x /\ 0 * Quarters(n) + y = y
    BY <1>0, QuartersType
  <2>2. (0 * Quarters(n) + x) % Quarters(n) = x /\ (0 * Quarters(n) + y) % Quarters(n) = y
    BY QuartersType, DivUnique
  <2> QED BY <2>1, <2>2
<1> QED BY <1>4, <1>5

(* Each loop of the codecs goes from a start, which it keeps to the type   *)
(* of, by its step for each element.                                       *)
LEMMA OutputLoop ==
  ASSUME NEW D, NoOutput \in D, NEW Item,
         \A x \in D, y \in Item : Put(x, y) \in D, NEW seq \in Seq(Item)
  PROVE  LET v == Loop(Put, NoOutput, seq)
         IN  /\ v \in [0..Len(seq) -> D] /\ v[0] = NoOutput
             /\ \A n \in 1..Len(seq) : v[n] = Put(v[n - 1], seq[n])
<1> DEFINE N == Len(seq)
           v == Loop(Put, NoOutput, seq)
           step == [p \in (1..N) \X D |-> Put(p[2], seq[p[1]])]
           Eq(g) == g = [n \in 0..N |-> IF n = 0 THEN NoOutput ELSE Put(g[n - 1], seq[n])]
<1>1. N \in Nat /\ \A n \in 1..N : seq[n] \in Item
  BY LenProperties, ElementOfSeq
<1>2. step \in [(1..N) \X D -> D]
  BY <1>1
<1>3. PICK g : IsFold(g, N, D, NoOutput, step)
  <2> HIDE DEF N, step
  <2> QED BY <1>1, <1>2, FoldExists
<1>4. \A n \in 1..N : g[n] = Put(g[n - 1], seq[n])
  <2>1. \A n \in 1..N, x \in D : step[<<n, x>>] = Put(x, seq[n])
    OBVIOUS
  <2> HIDE DEF N, step
  <2>2. \A n \in 1..N : g[n - 1] \in D
    BY <1>1, <1>3 DEF IsFold
  <2> QED BY <1>3, <2>1, <2>2 DEF IsFold
<1>5. Eq(g)
  <2> HIDE DEF N
  <2> QED BY <1>1, <1>3, <1>4 DEF IsFold
<1>6. Eq(v)
  <2> DEFINE f == CHOOSE f : Eq(f)
  <2>1. Eq(f)
    <3> HIDE DEF Eq
    <3> QED BY <1>5
  <2> QED BY <2>1 DEF Loop
<1>7. v = [n \in 0..N |-> IF n = 0 THEN NoOutput ELSE Put(v[n - 1], seq[n])]
  BY <1>6
<1> HIDE DEF v, N
<1>8. v[0] = NoOutput /\ \A n \in 1..N : v[n] = Put(v[n - 1], seq[n])
  <2>1. \A n \in 0..N : v[n] = IF n = 0 THEN NoOutput ELSE Put(v[n - 1], seq[n])
    BY ONLY <1>7
  <2>2. 0 \in 0..N /\ \A n \in 1..N : n \in 0..N /\ n # 0
    BY <1>1
  <2> QED BY <2>1, <2>2
<1>9. \A n \in 0..N : v[n] \in D
  <2> DEFINE S == {n \in 0..N : v[n] \in D}
  <2>1. 0 \in S
    BY <1>1, <1>8
  <2>2. \A n \in 1..N : n - 1 \in S => n \in S
    BY <1>1, <1>8
  <2> HIDE DEF S
  <2>3. 0..N \subseteq S
    BY <1>1, <2>1, <2>2, Induct
  <2> QED BY <2>3 DEF S
<1>10. v \in [0..N -> D]
  BY <1>7, <1>9
<1> QED BY <1>8, <1>10 DEF v, N

LEMMA ScanLoop ==
  ASSUME NEW D, ScanStart \in D, NEW Item,
         \A x \in D, y \in Item : ScanChar(x, y) \in D, NEW seq \in Seq(Item)
  PROVE  LET v == Loop(ScanChar, ScanStart, seq)
         IN  /\ v \in [0..Len(seq) -> D] /\ v[0] = ScanStart
             /\ \A n \in 1..Len(seq) : v[n] = ScanChar(v[n - 1], seq[n])
<1> DEFINE N == Len(seq)
           v == Loop(ScanChar, ScanStart, seq)
           step == [p \in (1..N) \X D |-> ScanChar(p[2], seq[p[1]])]
           Eq(g) == g = [n \in 0..N |-> IF n = 0 THEN ScanStart ELSE ScanChar(g[n - 1], seq[n])]
<1>1. N \in Nat /\ \A n \in 1..N : seq[n] \in Item
  BY LenProperties, ElementOfSeq
<1>2. step \in [(1..N) \X D -> D]
  BY <1>1
<1>3. PICK g : IsFold(g, N, D, ScanStart, step)
  <2> HIDE DEF N, step
  <2> QED BY <1>1, <1>2, FoldExists
<1>4. \A n \in 1..N : g[n] = ScanChar(g[n - 1], seq[n])
  <2>1. \A n \in 1..N, x \in D : step[<<n, x>>] = ScanChar(x, seq[n])
    OBVIOUS
  <2> HIDE DEF N, step
  <2>2. \A n \in 1..N : g[n - 1] \in D
    BY <1>1, <1>3 DEF IsFold
  <2> QED BY <1>3, <2>1, <2>2 DEF IsFold
<1>5. Eq(g)
  <2> HIDE DEF N
  <2> QED BY <1>1, <1>3, <1>4 DEF IsFold
<1>6. Eq(v)
  <2> DEFINE f == CHOOSE f : Eq(f)
  <2>1. Eq(f)
    <3> HIDE DEF Eq
    <3> QED BY <1>5
  <2> QED BY <2>1 DEF Loop
<1>7. v = [n \in 0..N |-> IF n = 0 THEN ScanStart ELSE ScanChar(v[n - 1], seq[n])]
  BY <1>6
<1> HIDE DEF v, N
<1>8. v[0] = ScanStart /\ \A n \in 1..N : v[n] = ScanChar(v[n - 1], seq[n])
  <2>1. \A n \in 0..N : v[n] = IF n = 0 THEN ScanStart ELSE ScanChar(v[n - 1], seq[n])
    BY ONLY <1>7
  <2>2. 0 \in 0..N /\ \A n \in 1..N : n \in 0..N /\ n # 0
    BY <1>1
  <2> QED BY <2>1, <2>2
<1>9. \A n \in 0..N : v[n] \in D
  <2> DEFINE S == {n \in 0..N : v[n] \in D}
  <2>1. 0 \in S
    BY <1>1, <1>8
  <2>2. \A n \in 1..N : n - 1 \in S => n \in S
    BY <1>1, <1>8
  <2> HIDE DEF S
  <2>3. 0..N \subseteq S
    BY <1>1, <2>1, <2>2, Induct
  <2> QED BY <2>3 DEF S
<1>10. v \in [0..N -> D]
  BY <1>7, <1>9
<1> QED BY <1>8, <1>10 DEF v, N

LEMMA DecodeLoop ==
  ASSUME NEW D, DecodeStart \in D, NEW Item,
         \A x \in D, y \in Item : DecodeChar(x, y) \in D, NEW seq \in Seq(Item)
  PROVE  LET v == Loop(DecodeChar, DecodeStart, seq)
         IN  /\ v \in [0..Len(seq) -> D] /\ v[0] = DecodeStart
             /\ \A n \in 1..Len(seq) : v[n] = DecodeChar(v[n - 1], seq[n])
<1> DEFINE N == Len(seq)
           v == Loop(DecodeChar, DecodeStart, seq)
           step == [p \in (1..N) \X D |-> DecodeChar(p[2], seq[p[1]])]
           Eq(g) == g = [n \in 0..N |-> IF n = 0 THEN DecodeStart ELSE DecodeChar(g[n - 1], seq[n])]
<1>1. N \in Nat /\ \A n \in 1..N : seq[n] \in Item
  BY LenProperties, ElementOfSeq
<1>2. step \in [(1..N) \X D -> D]
  BY <1>1
<1>3. PICK g : IsFold(g, N, D, DecodeStart, step)
  <2> HIDE DEF N, step
  <2> QED BY <1>1, <1>2, FoldExists
<1>4. \A n \in 1..N : g[n] = DecodeChar(g[n - 1], seq[n])
  <2>1. \A n \in 1..N, x \in D : step[<<n, x>>] = DecodeChar(x, seq[n])
    OBVIOUS
  <2> HIDE DEF N, step
  <2>2. \A n \in 1..N : g[n - 1] \in D
    BY <1>1, <1>3 DEF IsFold
  <2> QED BY <1>3, <2>1, <2>2 DEF IsFold
<1>5. Eq(g)
  <2> HIDE DEF N
  <2> QED BY <1>1, <1>3, <1>4 DEF IsFold
<1>6. Eq(v)
  <2> DEFINE f == CHOOSE f : Eq(f)
  <2>1. Eq(f)
    <3> HIDE DEF Eq
    <3> QED BY <1>5
  <2> QED BY <2>1 DEF Loop
<1>7. v = [n \in 0..N |-> IF n = 0 THEN DecodeStart ELSE DecodeChar(v[n - 1], seq[n])]
  BY <1>6
<1> HIDE DEF v, N
<1>8. v[0] = DecodeStart /\ \A n \in 1..N : v[n] = DecodeChar(v[n - 1], seq[n])
  <2>1. \A n \in 0..N : v[n] = IF n = 0 THEN DecodeStart ELSE DecodeChar(v[n - 1], seq[n])
    BY ONLY <1>7
  <2>2. 0 \in 0..N /\ \A n \in 1..N : n \in 0..N /\ n # 0
    BY <1>1
  <2> QED BY <2>1, <2>2
<1>9. \A n \in 0..N : v[n] \in D
  <2> DEFINE S == {n \in 0..N : v[n] \in D}
  <2>1. 0 \in S
    BY <1>1, <1>8
  <2>2. \A n \in 1..N : n - 1 \in S => n \in S
    BY <1>1, <1>8
  <2> HIDE DEF S
  <2>3. 0..N \subseteq S
    BY <1>1, <2>1, <2>2, Induct
  <2> QED BY <2>3 DEF S
<1>10. v \in [0..N -> D]
  BY <1>7, <1>9
<1> QED BY <1>8, <1>10 DEF v, N

LEMMA BlocksLoop ==
  ASSUME NEW D, << <<>> >> \in D, NEW Item,
         \A x \in D, y \in Item : AddToBlocks(x, y) \in D, NEW seq \in Seq(Item)
  PROVE  LET v == Loop(AddToBlocks, << <<>> >>, seq)
         IN  /\ v \in [0..Len(seq) -> D] /\ v[0] = << <<>> >>
             /\ \A n \in 1..Len(seq) : v[n] = AddToBlocks(v[n - 1], seq[n])
<1> DEFINE N == Len(seq)
           v == Loop(AddToBlocks, << <<>> >>, seq)
           step == [p \in (1..N) \X D |-> AddToBlocks(p[2], seq[p[1]])]
           Eq(g) == g = [n \in 0..N |-> IF n = 0 THEN << <<>> >> ELSE AddToBlocks(g[n - 1], seq[n])]
<1>1. N \in Nat /\ \A n \in 1..N : seq[n] \in Item
  BY LenProperties, ElementOfSeq
<1>2. step \in [(1..N) \X D -> D]
  BY <1>1
<1>3. PICK g : IsFold(g, N, D, << <<>> >>, step)
  <2> HIDE DEF N, step
  <2> QED BY <1>1, <1>2, FoldExists
<1>4. \A n \in 1..N : g[n] = AddToBlocks(g[n - 1], seq[n])
  <2>1. \A n \in 1..N, x \in D : step[<<n, x>>] = AddToBlocks(x, seq[n])
    OBVIOUS
  <2> HIDE DEF N, step
  <2>2. \A n \in 1..N : g[n - 1] \in D
    BY <1>1, <1>3 DEF IsFold
  <2> QED BY <1>3, <2>1, <2>2 DEF IsFold
<1>5. Eq(g)
  <2> HIDE DEF N
  <2> QED BY <1>1, <1>3, <1>4 DEF IsFold
<1>6. Eq(v)
  <2> DEFINE f == CHOOSE f : Eq(f)
  <2>1. Eq(f)
    <3> HIDE DEF Eq
    <3> QED BY <1>5
  <2> QED BY <2>1 DEF Loop
<1>7. v = [n \in 0..N |-> IF n = 0 THEN << <<>> >> ELSE AddToBlocks(v[n - 1], seq[n])]
  BY <1>6
<1> HIDE DEF v, N
<1>8. v[0] = << <<>> >> /\ \A n \in 1..N : v[n] = AddToBlocks(v[n - 1], seq[n])
  <2>1. \A n \in 0..N : v[n] = IF n = 0 THEN << <<>> >> ELSE AddToBlocks(v[n - 1], seq[n])
    BY ONLY <1>7
  <2>2. 0 \in 0..N /\ \A n \in 1..N : n \in 0..N /\ n # 0
    BY <1>1
  <2> QED BY <2>1, <2>2
<1>9. \A n \in 0..N : v[n] \in D
  <2> DEFINE S == {n \in 0..N : v[n] \in D}
  <2>1. 0 \in S
    BY <1>1, <1>8
  <2>2. \A n \in 1..N : n - 1 \in S => n \in S
    BY <1>1, <1>8
  <2> HIDE DEF S
  <2>3. 0..N \subseteq S
    BY <1>1, <2>1, <2>2, Induct
  <2> QED BY <2>3 DEF S
<1>10. v \in [0..N -> D]
  BY <1>7, <1>9
<1> QED BY <1>8, <1>10 DEF v, N

LEMMA BytesLoop ==
  ASSUME NEW D, <<>> \in D, NEW Item,
         \A x \in D, y \in Item : AddBytes(x, y) \in D, NEW seq \in Seq(Item)
  PROVE  LET v == Loop(AddBytes, <<>>, seq)
         IN  /\ v \in [0..Len(seq) -> D] /\ v[0] = <<>>
             /\ \A n \in 1..Len(seq) : v[n] = AddBytes(v[n - 1], seq[n])
<1> DEFINE N == Len(seq)
           v == Loop(AddBytes, <<>>, seq)
           step == [p \in (1..N) \X D |-> AddBytes(p[2], seq[p[1]])]
           Eq(g) == g = [n \in 0..N |-> IF n = 0 THEN <<>> ELSE AddBytes(g[n - 1], seq[n])]
<1>1. N \in Nat /\ \A n \in 1..N : seq[n] \in Item
  BY LenProperties, ElementOfSeq
<1>2. step \in [(1..N) \X D -> D]
  BY <1>1
<1>3. PICK g : IsFold(g, N, D, <<>>, step)
  <2> HIDE DEF N, step
  <2> QED BY <1>1, <1>2, FoldExists
<1>4. \A n \in 1..N : g[n] = AddBytes(g[n - 1], seq[n])
  <2>1. \A n \in 1..N, x \in D : step[<<n, x>>] = AddBytes(x, seq[n])
    OBVIOUS
  <2> HIDE DEF N, step
  <2>2. \A n \in 1..N : g[n - 1] \in D
    BY <1>1, <1>3 DEF IsFold
  <2> QED BY <1>3, <2>1, <2>2 DEF IsFold
<1>5. Eq(g)
  <2> HIDE DEF N
  <2> QED BY <1>1, <1>3, <1>4 DEF IsFold
<1>6. Eq(v)
  <2> DEFINE f == CHOOSE f : Eq(f)
  <2>1. Eq(f)
    <3> HIDE DEF Eq
    <3> QED BY <1>5
  <2> QED BY <2>1 DEF Loop
<1>7. v = [n \in 0..N |-> IF n = 0 THEN <<>> ELSE AddBytes(v[n - 1], seq[n])]
  BY <1>6
<1> HIDE DEF v, N
<1>8. v[0] = <<>> /\ \A n \in 1..N : v[n] = AddBytes(v[n - 1], seq[n])
  <2>1. \A n \in 0..N : v[n] = IF n = 0 THEN <<>> ELSE AddBytes(v[n - 1], seq[n])
    BY ONLY <1>7
  <2>2. 0 \in 0..N /\ \A n \in 1..N : n \in 0..N /\ n # 0
    BY <1>1
  <2> QED BY <2>1, <2>2
<1>9. \A n \in 0..N : v[n] \in D
  <2> DEFINE S == {n \in 0..N : v[n] \in D}
  <2>1. 0 \in S
    BY <1>1, <1>8
  <2>2. \A n \in 1..N : n - 1 \in S => n \in S
    BY <1>1, <1>8
  <2> HIDE DEF S
  <2>3. 0..N \subseteq S
    BY <1>1, <2>1, <2>2, Induct
  <2> QED BY <2>3 DEF S
<1>10. v \in [0..N -> D]
  BY <1>7, <1>9
<1> QED BY <1>8, <1>10 DEF v, N
----------------------------------------------------------------------------
LEMMA ConcatAppend ==
  ASSUME NEW S, NEW s \in Seq(S), NEW t \in Seq(S), NEW e \in S
  PROVE  s \o Append(t, e) = Append(s \o t, e)
<1>1. s \o t \in Seq(S) /\ Append(t, e) \in Seq(S) /\ Len(Append(t, e)) = Len(t) + 1
  BY ConcatProperties, AppendProperties
<1>2. Append(s \o t, e) \in Seq(S) /\ s \o Append(t, e) \in Seq(S)
  BY <1>1, ConcatProperties, AppendProperties
<1>3. Len(s \o Append(t, e)) = Len(Append(s \o t, e))
  BY <1>1, ConcatProperties, AppendProperties
<1>4. \A i \in 1..Len(s \o Append(t, e)) : (s \o Append(t, e))[i] = Append(s \o t, e)[i]
  <2>1. Len(s) \in Nat /\ Len(t) \in Nat
    BY LenProperties
  <2>2. /\ Len(s \o t) = Len(s) + Len(t) /\ Len(s \o Append(t, e)) = Len(s) + (Len(t) + 1)
        /\ \A i \in 1..Len(s) + Len(t) : (s \o t)[i] = IF i <= Len(s) THEN s[i] ELSE t[i - Len(s)]
        /\ \A i \in 1..Len(s) + (Len(t) + 1) :
             (s \o Append(t, e))[i] = IF i <= Len(s) THEN s[i] ELSE Append(t, e)[i - Len(s)]
    BY <1>1, ConcatProperties
  <2>3. /\ \A i \in 1..Len(t) : Append(t, e)[i] = t[i]
        /\ Append(t, e)[Len(t) + 1] = e
        /\ \A i \in 1..Len(s \o t) : Append(s \o t, e)[i] = (s \o t)[i]
        /\ Append(s \o t, e)[Len(s \o t) + 1] = e
    BY <1>1, AppendProperties
  <2> TAKE i \in 1..Len(s \o Append(t, e))
  <2>4. CASE i <= Len(s) + Len(t)
    BY <2>1, <2>2, <2>3, <2>4
  <2>5. CASE ~(i <= Len(s) + Len(t))
    <3>1. i = (Len(s) + Len(t)) + 1 /\ i - Len(s) = Len(t) + 1
      BY <2>1, <2>2, <2>5
    <3> QED BY <2>1, <2>2, <2>3, <3>1
  <2> QED BY <2>4, <2>5
<1> QED BY <1>2, <1>3, <1>4, SeqEqual

LEMMA PrefixNext ==
  ASSUME NEW S, NEW seq \in Seq(S), NEW n \in 1..Len(seq)
  PROVE  SubSeq(seq, 1, n) = Append(SubSeq(seq, 1, n - 1), seq[n])
<1>1. Len(seq) \in Nat /\ \A i \in 1..Len(seq) : seq[i] \in S
  BY LenProperties, ElementOfSeq
<1>2. /\ SubSeq(seq, 1, n - 1) \in Seq(S) /\ Len(SubSeq(seq, 1, n - 1)) = n - 1
      /\ \A i \in 1..(n - 1) : SubSeq(seq, 1, n - 1)[i] = seq[i]
  BY <1>1, SubSeqProperties
<1>3. /\ SubSeq(seq, 1, n) \in Seq(S) /\ Len(SubSeq(seq, 1, n)) = n
      /\ \A i \in 1..n : SubSeq(seq, 1, n)[i] = seq[i]
  BY <1>1, SubSeqProperties
<1>4. /\ Append(SubSeq(seq, 1, n - 1), seq[n]) \in Seq(S)
      /\ Len(Append(SubSeq(seq, 1, n - 1), seq[n])) = n
      /\ \A i \in 1..n : Append(SubSeq(seq, 1, n - 1), seq[n])[i] = seq[i]
  BY <1>1, <1>2, AppendProperties
<1> QED BY <1>3, <1>4, SeqEqual

(* Decoded bytes: what is written and what is buffered, together, is what  *)
(* was put; the buffer is never full after a byte is put.                  *)
Outs == [written : Seq(Byte), buffered : {s \in Seq(Byte) : Len(s) < OutBuffer}]

LEMMA PutByte ==
  ASSUME NEW out \in Outs, NEW byte \in Byte
  PROVE  /\ Put(out, byte) \in Outs
         /\ Flushed(Put(out, byte)) = Append(Flushed(out), byte)
<1> DEFINE w == out.written
           s == out.buffered
<1>1. w \in Seq(Byte) /\ s \in Seq(Byte) /\ Len(s) < OutBuffer /\ OutBuffer \in Nat \ {0}
  BY CodecsAssumption DEF Outs
<1>2. out = [written |-> w, buffered |-> s]
  BY DEF Outs
<1> HIDE DEF w, s
<1>3. w \o s \in Seq(Byte)
  BY <1>1, ConcatProperties
<1>4. Append(w \o s, byte) \in Seq(Byte) /\ Append(s, byte) \in Seq(Byte)
      /\ Len(Append(s, byte)) = Len(s) + 1
  BY <1>1, <1>3, AppendProperties
<1>5. CASE Len(s) + 1 = OutBuffer
  <2>1. Put(out, byte) = [written |-> Append(w \o s, byte), buffered |-> <<>>]
    BY <1>2, <1>5 DEF Put
  <2>2. <<>> \in Seq(Byte) /\ Len(<<>>) = 0
    BY EmptySeq
  <2>3. Append(w \o s, byte) \o <<>> = Append(w \o s, byte)
    BY <1>4, ConcatEmptySeq
  <2> DEFINE a == Append(w \o s, byte)
  <2>4. Flushed(out) = w \o s
    BY <1>2 DEF Flushed
  <2>5. [written |-> a, buffered |-> <<>>] \in Outs
    BY <1>1, <1>4, <2>2 DEF Outs
  <2>6. Flushed([written |-> a, buffered |-> <<>>]) = a \o <<>>
    BY DEF Flushed
  <2> QED BY <2>1, <2>3, <2>4, <2>5, <2>6
<1>6. CASE Len(s) + 1 # OutBuffer
  <2>1. Put(out, byte) = [written |-> w, buffered |-> Append(s, byte)]
    BY <1>2, <1>6 DEF Put
  <2>2. w \o Append(s, byte) = Append(w \o s, byte)
    BY <1>1, ConcatAppend
  <2>3. Flushed(out) = w \o s
    BY <1>2 DEF Flushed
  <2>4. Len(s) \in Nat /\ Len(Append(s, byte)) < OutBuffer
    BY <1>1, <1>4, <1>6, LenProperties
  <2> DEFINE a == Append(s, byte)
  <2>5. [written |-> w, buffered |-> a] \in Outs
    BY <1>1, <1>4, <2>4 DEF Outs
  <2>6. Flushed([written |-> w, buffered |-> a]) = w \o a
    BY DEF Flushed
  <2> QED BY <2>1, <2>2, <2>3, <2>5, <2>6
<1> QED BY <1>5, <1>6

LEMMA NoOutputType == NoOutput \in Outs /\ Flushed(NoOutput) = <<>>
<1>1. <<>> \in Seq(Byte) /\ Len(<<>>) = 0
  BY EmptySeq
<1>2. <<>> \o <<>> = <<>>
  BY <1>1, ConcatEmptySeq
<1> QED BY <1>1, <1>2, CodecsAssumption DEF NoOutput, Outs, Flushed

(* Putting all bytes of a sequence, for any size of the buffer.            *)
LEMMA PutAll ==
  ASSUME NEW bytes \in Seq(Byte)
  PROVE  Flushed(Loop(Put, NoOutput, bytes)[Len(bytes)]) = bytes
<1> DEFINE N == Len(bytes)
           v == Loop(Put, NoOutput, bytes)
<1>1. N \in Nat /\ \A n \in 1..N : bytes[n] \in Byte
  BY LenProperties, ElementOfSeq
<1>2. /\ v \in [0..N -> Outs] /\ v[0] = NoOutput
      /\ \A n \in 1..N : v[n] = Put(v[n - 1], bytes[n])
  <2>1. \A x \in Outs, y \in Byte : Put(x, y) \in Outs
    BY PutByte
  <2> QED BY <2>1, NoOutputType, OutputLoop
<1> DEFINE S == {n \in 0..N : Flushed(v[n]) = SubSeq(bytes, 1, n)}
<1> HIDE DEF v, N
<1>3. 0 \in S
  <2>1. SubSeq(bytes, 1, 0) = <<>>
    BY SubSeqEmpty
  <2>2. Flushed(v[0]) = <<>>
    BY <1>2, NoOutputType
  <2>3. 0 \in 0..N
    BY <1>1
  <2> QED BY <2>1, <2>2, <2>3
<1>4. ASSUME NEW n \in 1..N, n - 1 \in S PROVE n \in S
  <2>1. Flushed(v[n]) = Append(Flushed(v[n - 1]), bytes[n])
    <3>1. v[n - 1] \in Outs /\ bytes[n] \in Byte
      BY <1>1, <1>2
    <3> QED BY <1>2, <3>1, PutByte
  <2>2. SubSeq(bytes, 1, n) = Append(SubSeq(bytes, 1, n - 1), bytes[n])
    BY PrefixNext DEF N
  <2> QED BY <1>4, <2>1, <2>2
<1> HIDE DEF S
<1>5. 0..N \subseteq S
  BY <1>1, <1>3, <1>4, Induct
<1>6. Flushed(v[N]) = SubSeq(bytes, 1, N)
  BY <1>1, <1>5 DEF S
<1>7. SubSeq(bytes, 1, N) = bytes
  BY SubSeqFull DEF N
<1> QED BY <1>6, <1>7 DEF v, N
----------------------------------------------------------------------------
(* HexCodec.                                                               *)
LEMMA IsSequence ==
  ASSUME NEW n \in Nat, NEW S, NEW f \in [1..n -> S]
  PROVE  f \in Seq(S) /\ Len(f) = n
OBVIOUS

(* What is not negative has quotients not negative and less than any bound *)
(* times the divisor.                                                      *)
LEMMA DivBound ==
  ASSUME NEW a \in Nat, NEW b \in Nat, b > 0, NEW x \in 0..(a * b - 1)
  PROVE  x \div b \in 0..(a - 1)
<1> DEFINE d == x \div b
<1>1. a * b \in Int
  BY ProductType
<1>2. x \in Nat /\ x < a * b
  BY <1>1
<1>3. d \in Nat /\ x % b \in 0..(b - 1) /\ x = d * b + (x % b)
  BY <1>2, DivMod
<1> HIDE DEF d
<1>4. a <= d => a * b <= d * b
  BY <1>3, ProductAtMost
<1>5. d * b \in Int
  BY <1>3, ProductType
<1>6. d < a
  BY <1>1, <1>2, <1>3, <1>4, <1>5
<1> QED BY <1>3, <1>6 DEF d

LEMMA JoinBound ==
  ASSUME NEW a \in Nat, NEW b \in Nat, NEW x \in 0..(a - 1), NEW y \in 0..(b - 1)
  PROVE  x * b + y \in 0..(a * b - 1)
<1>1. x * b \in Nat /\ x * b + b <= a * b
  BY ProductType, ProductLess
<1>2. a * b \in Nat
  BY ProductType
<1> QED BY <1>1, <1>2

LEMMA NibbleByte ==
  /\ Quarters(2) \in Nat /\ Quarters(2) > 0 /\ Quarters(4) = Quarters(2) * Quarters(2)
  /\ Byte = 0..(Quarters(2) * Quarters(2) - 1) /\ Nibble = 0..(Quarters(2) - 1)
  /\ Byte \subseteq Nat /\ Nibble \subseteq Nat
<1>1. Quarters(2) \in Nat /\ Quarters(2) > 0 /\ Quarters(4) \in Nat
  BY QuartersType
<1>2. Quarters(2 + 2) = Quarters(2) * Quarters(2) /\ 2 + 2 = 4
  BY QuartersSum
<1> QED BY <1>1, <1>2 DEF Byte, Nibble

LEMMA HexEncodeType ==
  ASSUME NEW bytes \in Seq(Byte)
  PROVE  /\ HexEncode(bytes) \in Seq(Nibble) /\ Len(HexEncode(bytes)) = 2 * Len(bytes)
         /\ \A i \in 1..2 * Len(bytes) :
              HexEncode(bytes)[i] = IF i % 2 = 1 THEN bytes[(i + 1) \div 2] \div Quarters(2)
                                    ELSE bytes[(i + 1) \div 2] % Quarters(2)
<1> DEFINE n == 2 * Len(bytes)
<1>1. n \in Nat /\ Len(bytes) \in Nat
  BY LenProperties
<1>2. \A i \in 1..n : HexEncode(bytes)[i] \in Nibble
  <2> TAKE i \in 1..n
  <2>1. (i + 1) \div 2 \in 1..Len(bytes)
    BY <1>1
  <2> DEFINE byte == bytes[(i + 1) \div 2]
  <2>2. byte \in Byte
    BY <2>1, ElementOfSeq
  <2>3. HexEncode(bytes)[i] = IF i % 2 = 1 THEN byte \div Quarters(2) ELSE byte % Quarters(2)
    BY DEF HexEncode
  <2> HIDE DEF byte
  <2>4. byte \div Quarters(2) \in Nibble
    BY <2>2, NibbleByte, DivBound
  <2>5. byte % Quarters(2) \in Nibble
    BY <2>2, NibbleByte, DivMod
  <2> QED BY <2>3, <2>4, <2>5
<1>3. HexEncode(bytes) = [i \in 1..n |-> HexEncode(bytes)[i]]
  BY DEF HexEncode
<1>4. HexEncode(bytes) \in [1..n -> Nibble]
  BY <1>2, <1>3
<1>5. HexEncode(bytes) \in Seq(Nibble) /\ Len(HexEncode(bytes)) = n
  <2> HIDE DEF n
  <2> QED BY <1>1, <1>4, IsSequence
<1> QED BY <1>5 DEF HexEncode

LEMMA HexBytesType ==
  ASSUME NEW text \in Seq(Nibble)
  PROVE  /\ HexBytes(text) \in Seq(Byte) /\ Len(HexBytes(text)) = Len(text) \div 2
         /\ \A i \in 1..Len(text) \div 2 :
              HexBytes(text)[i] = text[2 * i - 1] * Quarters(2) + text[2 * i]
<1> DEFINE n == Len(text) \div 2
<1>1. n \in Nat /\ Len(text) \in Nat
  BY LenProperties
<1>2. \A i \in 1..n : text[2 * i - 1] * Quarters(2) + text[2 * i] \in Byte
  <2> TAKE i \in 1..n
  <2>1. 2 * i - 1 \in 1..Len(text) /\ 2 * i \in 1..Len(text)
    BY <1>1
  <2> DEFINE a == text[2 * i - 1]
             b == text[2 * i]
  <2>2. a \in Nibble /\ b \in Nibble
    BY <2>1, ElementOfSeq
  <2> HIDE DEF a, b
  <2>3. a * Quarters(2) + b \in Byte
    BY <2>2, NibbleByte, JoinBound
  <2> QED BY <2>3 DEF a, b
<1>3. HexBytes(text) \in [1..n -> Byte]
  BY <1>2 DEF HexBytes
<1>4. HexBytes(text) \in Seq(Byte) /\ Len(HexBytes(text)) = n
  <2> HIDE DEF n
  <2> QED BY <1>1, <1>3, IsSequence
<1> QED BY <1>4 DEF HexBytes

(* HexCodec: a text is read back as the bytes it was made of, for texts    *)
(* of every length and any size of the output buffer.                      *)
THEOREM HexThere ==
  ASSUME NEW bytes \in Seq(Byte)
  PROVE  HexDecode(HexEncode(bytes)) = bytes
<1> DEFINE text == HexEncode(bytes)
<1>1. /\ text \in Seq(Nibble) /\ Len(text) = 2 * Len(bytes) /\ Len(bytes) \in Nat
      /\ \A i \in 1..2 * Len(bytes) :
           text[i] = IF i % 2 = 1 THEN bytes[(i + 1) \div 2] \div Quarters(2)
                     ELSE bytes[(i + 1) \div 2] % Quarters(2)
  BY HexEncodeType, LenProperties
<1> HIDE DEF text
<1>2. Len(text) \div 2 = Len(bytes)
  BY <1>1
<1>3. /\ HexBytes(text) \in Seq(Byte) /\ Len(HexBytes(text)) = Len(bytes)
      /\ \A i \in 1..Len(bytes) : HexBytes(text)[i] = text[2 * i - 1] * Quarters(2) + text[2 * i]
  BY <1>1, <1>2, HexBytesType
<1>4. ASSUME NEW i \in 1..Len(bytes) PROVE HexBytes(text)[i] = bytes[i]
  <2>1. /\ 2 * i - 1 \in 1..2 * Len(bytes) /\ (2 * i - 1) % 2 = 1 /\ ((2 * i - 1) + 1) \div 2 = i
        /\ 2 * i \in 1..2 * Len(bytes) /\ (2 * i) % 2 = 0 /\ (2 * i + 1) \div 2 = i
    BY <1>1
  <2>2. text[2 * i - 1] = bytes[i] \div Quarters(2) /\ text[2 * i] = bytes[i] % Quarters(2)
    BY <1>1, <2>1
  <2>3. bytes[i] \in Int
    BY ElementOfSeq, NibbleByte
  <2>4. bytes[i] = (bytes[i] \div Quarters(2)) * Quarters(2) + (bytes[i] % Quarters(2))
    BY <2>3, NibbleByte, DivMod
  <2> QED BY <1>3, <2>2, <2>4
<1>5. HexBytes(text) = bytes
  BY <1>3, <1>4, SeqEqual
<1>6. HexDecode(text) = bytes
  BY <1>2, <1>5, PutAll DEF HexDecode
<1> QED BY <1>6 DEF text

(* A valid text is the encoding of the bytes it stands for.                *)
LEMMA HexBack ==
  ASSUME NEW text \in Seq(Nibble), Len(text) % 2 = 0
  PROVE  HexDecode(text) \in Seq(Byte) /\ HexEncode(HexDecode(text)) = text
<1> DEFINE bytes == HexBytes(text)
<1>1. Len(text) \in Nat
  BY LenProperties
<1>2. /\ bytes \in Seq(Byte) /\ Len(bytes) = Len(text) \div 2
      /\ \A i \in 1..Len(text) \div 2 : bytes[i] = text[2 * i - 1] * Quarters(2) + text[2 * i]
  BY HexBytesType
<1>3. HexDecode(text) = bytes
  <2> HIDE DEF bytes
  <2>1. Flushed(Loop(Put, NoOutput, bytes)[Len(bytes)]) = bytes
    BY <1>2, PutAll
  <2> QED BY <1>2, <2>1 DEF HexDecode, bytes
<1> HIDE DEF bytes
<1>4. 2 * Len(bytes) = Len(text)
  BY <1>1, <1>2
<1>5. ASSUME NEW i \in 1..Len(text) PROVE HexEncode(bytes)[i] = text[i]
  <2> DEFINE k == (i + 1) \div 2
             a == text[2 * k - 1]
             b == text[2 * k]
  <2>1. k \in 1..Len(text) \div 2 /\ 2 * k - 1 \in 1..Len(text) /\ 2 * k \in 1..Len(text)
        /\ (i % 2 = 1 => i = 2 * k - 1) /\ (i % 2 # 1 => i = 2 * k)
    BY <1>1
  <2>2. a \in Nibble /\ b \in Nibble
    BY <2>1, ElementOfSeq
  <2>3. HexEncode(bytes)[i] = IF i % 2 = 1 THEN bytes[k] \div Quarters(2) ELSE bytes[k] % Quarters(2)
    BY <1>2, <1>4, HexEncodeType
  <2>4. bytes[k] = a * Quarters(2) + b
    BY <1>2, <2>1
  <2> HIDE DEF a, b, k
  <2>5. (a * Quarters(2) + b) \div Quarters(2) = a /\ (a * Quarters(2) + b) % Quarters(2) = b
    <3>1. a \in Int /\ b \in 0..(Quarters(2) - 1)
      BY <2>2, NibbleByte
    <3> QED BY <3>1, NibbleByte, DivUnique
  <2> QED BY <2>1, <2>3, <2>4, <2>5 DEF a, b
<1>6. HexEncode(bytes) = text
  <2>1. HexEncode(bytes) \in Seq(Nibble) /\ Len(HexEncode(bytes)) = Len(text)
    BY <1>2, <1>4, HexEncodeType
  <2> QED BY <1>5, <2>1, SeqEqual
<1> QED BY <1>2, <1>3, <1>6
----------------------------------------------------------------------------
(* Numbers.                                                                *)
LEMMA UnsignedValues ==
  ASSUME NEW bytes \in Seq(Byte)
  PROVE  \E g \in [0..Len(bytes) -> Nat] :
           /\ g[0] = 0 /\ Unsigned(bytes) = g[Len(bytes)]
           /\ \A n \in 1..Len(bytes) : g[n] = g[n - 1] + bytes[n] * Quarters(4 * (n - 1))
<1> DEFINE N == Len(bytes)
           step == [p \in (1..N) \X Nat |-> p[2] + bytes[p[1]] * Quarters(4 * (p[1] - 1))]
           Eq(g) == g = [n \in 0..N |-> IF n = 0 THEN 0
                                        ELSE g[n - 1] + bytes[n] * Quarters(4 * (n - 1))]
           v == CHOOSE g : Eq(g)
<1>1. N \in Nat
  BY LenProperties
<1>2. \A n \in 1..N : bytes[n] * Quarters(4 * (n - 1)) \in Nat
  <2> TAKE n \in 1..N
  <2>1. 4 * (n - 1) \in Nat
    OBVIOUS
  <2>2. bytes[n] \in Nat
    BY ElementOfSeq, NibbleByte
  <2>3. Quarters(4 * (n - 1)) \in Nat
    BY <2>1, QuartersType
  <2> QED BY <2>2, <2>3, ProductType
<1>3. step \in [(1..N) \X Nat -> Nat]
  BY <1>2
<1>4. PICK g : IsFold(g, N, Nat, 0, step)
  <2> HIDE DEF N, step
  <2> QED BY <1>1, <1>3, FoldExists
<1> HIDE DEF N
<1>5. \A n \in 1..N : g[n] = g[n - 1] + bytes[n] * Quarters(4 * (n - 1))
  <2>1. \A n \in 1..N, x \in Nat : step[<<n, x>>] = x + bytes[n] * Quarters(4 * (n - 1))
    OBVIOUS
  <2> HIDE DEF step
  <2>2. \A n \in 1..N : g[n - 1] \in Nat
    BY <1>1, <1>4 DEF IsFold
  <2> QED BY <1>4, <2>1, <2>2 DEF IsFold
<1>6. Eq(g)
  <2>1. \A n \in 0..N : g[n] = IF n = 0 THEN 0 ELSE g[n - 1] + bytes[n] * Quarters(4 * (n - 1))
    <3> HIDE DEF step
    <3>1. g[0] = 0
      BY <1>4 DEF IsFold
    <3>2. \A n \in 0..N : n # 0 => n \in 1..N
      BY <1>1
    <3> QED BY <3>1, <3>2, <1>5
  <2>2. g \in [0..N -> Nat]
    BY <1>4 DEF IsFold
  <2> QED BY <2>1, <2>2
<1>7. Eq(v)
  <2> HIDE DEF Eq
  <2> QED BY <1>6
<1>8. Unsigned(bytes) = v[N]
  BY DEF Unsigned, N
<1>9. v = [n \in 0..N |-> IF n = 0 THEN 0 ELSE v[n - 1] + bytes[n] * Quarters(4 * (n - 1))]
  BY <1>7
<1> HIDE DEF v
<1>10. v[0] = 0 /\ \A n \in 1..N : v[n] = v[n - 1] + bytes[n] * Quarters(4 * (n - 1))
  <2>1. \A n \in 0..N : v[n] = IF n = 0 THEN 0 ELSE v[n - 1] + bytes[n] * Quarters(4 * (n - 1))
    BY ONLY <1>9
  <2>2. 0 \in 0..N /\ \A n \in 1..N : n \in 0..N /\ n # 0
    BY <1>1
  <2> QED BY <2>1, <2>2
<1>11. \A n \in 0..N : v[n] \in Nat
  <2> DEFINE S == {n \in 0..N : v[n] \in Nat}
  <2>1. 0 \in S
    BY <1>1, <1>10
  <2>2. ASSUME NEW n \in 1..N, n - 1 \in S PROVE n \in S
    <3> DEFINE p == bytes[n] * Quarters(4 * (n - 1))
    <3>1. p \in Nat /\ v[n - 1] \in Nat /\ v[n] = v[n - 1] + p
      BY <1>2, <1>10, <2>2
    <3> HIDE DEF p
    <3>2. v[n] \in Nat
      BY <3>1
    <3> QED BY <1>1, <3>2
  <2> HIDE DEF S
  <2>3. 0..N \subseteq S
    BY <1>1, <2>1, <2>2, Induct
  <2> QED BY <2>3 DEF S
<1>12. v \in [0..N -> Nat]
  BY <1>9, <1>11
<1> QED BY <1>8, <1>10, <1>12 DEF N

LEMMA InMemoryType ==
  ASSUME NEW value \in Int, NEW type, type.bytes \in Nat
  PROVE  InMemory(value, type) \in Seq(Byte) /\ Len(InMemory(value, type)) = type.bytes
<1> DEFINE n == type.bytes
<1>1. \A i \in 1..n : (value \div Quarters(4 * (i - 1))) % Quarters(4) \in Byte
  <2> TAKE i \in 1..n
  <2>1. 4 * (i - 1) \in Nat /\ 4 \in Nat
    OBVIOUS
  <2>2. value \div Quarters(4 * (i - 1)) \in Int
    BY <2>1, QuartersType, DivMod
  <2> QED BY <2>1, <2>2, QuartersType, DivMod DEF Byte
<1>2. InMemory(value, type) \in [1..n -> Byte]
  BY <1>1 DEF InMemory
<1> HIDE DEF n
<1>3. n \in Nat
  BY DEF n
<1>4. InMemory(value, type) \in Seq(Byte) /\ Len(InMemory(value, type)) = n
  BY <1>2, <1>3, IsSequence
<1> QED BY <1>4 DEF n

(* The bytes of a number stand for it up to a multiple of all there are.   *)
LEMMA NumberThere ==
  ASSUME NEW value \in Int, NEW type, type.bytes \in Nat
  PROVE  Unsigned(InMemory(value, type)) = value % Quarters(4 * type.bytes)
<1> DEFINE bytes == InMemory(value, type)
           N == type.bytes
<1>1. bytes \in Seq(Byte) /\ Len(bytes) = N /\ N \in Nat
  BY InMemoryType
<1>2. \A i \in 1..N : bytes[i] = (value \div Quarters(4 * (i - 1))) % Quarters(4)
  BY DEF InMemory
<1> HIDE DEF bytes, N
<1>3. PICK g \in [0..N -> Nat] :
        /\ g[0] = 0 /\ Unsigned(bytes) = g[N]
        /\ \A n \in 1..N : g[n] = g[n - 1] + bytes[n] * Quarters(4 * (n - 1))
  BY <1>1, UnsignedValues
<1> DEFINE S == {n \in 0..N : g[n] = value % Quarters(4 * n)}
<1>4. 0 \in S
  <2>1. value % 1 = 0 /\ 4 * 0 = 0
    OBVIOUS
  <2> QED BY <1>1, <1>3, <2>1, QuartersZero
<1>5. ASSUME NEW n \in 1..N, n - 1 \in S PROVE n \in S
  <2> DEFINE a == Quarters(4 * (n - 1))
             b == Quarters(4)
  <2>1. /\ a \in Nat /\ a > 0 /\ b \in Nat /\ b > 0 /\ Quarters(4 * n) = a * b
    <3>1. 4 * (n - 1) \in Nat /\ 4 \in Nat /\ 4 * (n - 1) + 4 = 4 * n
      OBVIOUS
    <3> QED BY <3>1, QuartersType, QuartersSum
  <2>2. g[n] = (value % a) + ((value \div a) % b) * a
    BY <1>2, <1>3, <1>5
  <2> HIDE DEF a, b
  <2>3. value % (a * b) = ((value \div a) % b) * a + (value % a)
    BY <2>1, DivTwice
  <2>4. value \div a \in Int
    BY <2>1, DivMod
  <2>5. (value \div a) % b \in Nat /\ value % a \in Int
    BY <2>1, <2>4, DivMod
  <2>6. ((value \div a) % b) * a \in Int
    BY <2>1, <2>5, ProductType
  <2>7. g[n] = value % (a * b)
    BY <2>2, <2>3, <2>5, <2>6
  <2> QED BY <2>1, <2>7
<1> HIDE DEF S
<1>6. 0..N \subseteq S
  BY <1>1, <1>4, <1>5, Induct
<1>7. g[N] = value % Quarters(4 * N)
  BY <1>1, <1>6 DEF S
<1> QED BY <1>3, <1>7 DEF bytes, N

(* Different bytes are different numbers.                                  *)
LEMMA UnsignedBound ==
  ASSUME NEW bytes \in Seq(Byte), NEW g \in [0..Len(bytes) -> Nat], g[0] = 0,
         \A n \in 1..Len(bytes) : g[n] = g[n - 1] + bytes[n] * Quarters(4 * (n - 1))
  PROVE  \A n \in 0..Len(bytes) : g[n] \in 0..(Quarters(4 * n) - 1)
<1> DEFINE N == Len(bytes)
           S == {n \in 0..N : g[n] \in 0..(Quarters(4 * n) - 1)}
<1>1. N \in Nat
  BY LenProperties
<1>2. 0 \in S
  <2>1. 4 * 0 = 0
    OBVIOUS
  <2> QED BY <1>1, <2>1, QuartersZero
<1>3. ASSUME NEW n \in 1..N, n - 1 \in S PROVE n \in S
  <2> DEFINE a == Quarters(4 * (n - 1))
             b == Quarters(4)
             x == bytes[n]
             y == g[n - 1]
  <2>1. /\ a \in Nat /\ a > 0 /\ b \in Nat /\ b > 0 /\ Quarters(4 * n) = b * a
    <3>1. 4 * (n - 1) \in Nat /\ 4 \in Nat /\ 4 + 4 * (n - 1) = 4 * n
      OBVIOUS
    <3> QED BY <3>1, QuartersType, QuartersSum
  <2>2. x \in 0..(b - 1)
    BY ElementOfSeq DEF Byte
  <2>3. y \in 0..(a - 1) /\ g[n] = y + x * a
    BY <1>3
  <2> HIDE DEF a, b, x, y
  <2>4. x * a + y \in 0..(b * a - 1)
    BY <2>1, <2>2, <2>3, JoinBound
  <2>5. x * a \in Int
    BY <2>1, <2>2, ProductType
  <2>6. g[n] = x * a + y
    BY <2>3, <2>5
  <2> QED BY <2>1, <2>4, <2>6
<1> HIDE DEF S
<1>4. 0..N \subseteq S
  <2> HIDE DEF N
  <2> QED BY <1>1, <1>2, <1>3, Induct
<1> QED BY <1>4 DEF S

LEMMA UnsignedDiffers ==
  ASSUME NEW s \in Seq(Byte), NEW t \in Seq(Byte), Len(s) = Len(t), Unsigned(s) = Unsigned(t)
  PROVE  s = t
<1> DEFINE N == Len(s)
<1>1. N \in Nat
  BY LenProperties
<1>2. PICK g \in [0..N -> Nat] :
        /\ g[0] = 0 /\ Unsigned(s) = g[N]
        /\ \A n \in 1..N : g[n] = g[n - 1] + s[n] * Quarters(4 * (n - 1))
  BY UnsignedValues
<1>3. PICK h \in [0..N -> Nat] :
        /\ h[0] = 0 /\ Unsigned(t) = h[N]
        /\ \A n \in 1..N : h[n] = h[n - 1] + t[n] * Quarters(4 * (n - 1))
  BY UnsignedValues
<1>4. \A n \in 0..N : g[n] \in 0..(Quarters(4 * n) - 1) /\ h[n] \in 0..(Quarters(4 * n) - 1)
  BY <1>2, <1>3, UnsignedBound
<1>5. ASSUME NEW n \in 1..N, g[n] = h[n] PROVE s[n] = t[n] /\ g[n - 1] = h[n - 1]
  <2> DEFINE a == Quarters(4 * (n - 1))
             x == s[n]
             y == t[n]
             u == g[n - 1]
             v == h[n - 1]
  <2>1. a \in Nat /\ a > 0
    <3>1. 4 * (n - 1) \in Nat
      OBVIOUS
    <3> QED BY <3>1, QuartersType
  <2>2. x \in Nat /\ y \in Nat
    BY ElementOfSeq, NibbleByte
  <2>3. u \in 0..(a - 1) /\ v \in 0..(a - 1)
    BY <1>1, <1>4
  <2>4. u + x * a = v + y * a
    BY <1>2, <1>3, <1>5
  <2> HIDE DEF a, x, y, u, v
  <2>5. x * a \in Nat /\ y * a \in Nat
    BY <2>1, <2>2, ProductType
  <2>6. x * a + u = y * a + v
    BY <2>3, <2>4, <2>5
  <2>7. (x * a + u) \div a = x /\ (x * a + u) % a = u
    BY <2>1, <2>2, <2>3, DivUnique
  <2>8. (y * a + v) \div a = y /\ (y * a + v) % a = v
    BY <2>1, <2>2, <2>3, DivUnique
  <2> QED BY <2>6, <2>7, <2>8 DEF x, y, u, v
<1> DEFINE S == {m \in 0..N : g[N - m] = h[N - m]}
<1>5a. g[N] = h[N]
  BY <1>2, <1>3
<1> HIDE DEF N
<1>6. 0 \in S
  <2>1. N - 0 = N
    BY <1>1
  <2> QED BY <1>1, <1>5a, <2>1
<1>7. ASSUME NEW m \in 1..N, m - 1 \in S PROVE m \in S
  <2>1. N - (m - 1) \in 1..N /\ (N - (m - 1)) - 1 = N - m
    BY <1>1
  <2>2. g[N - (m - 1)] = h[N - (m - 1)]
    BY <1>7
  <2>3. g[(N - (m - 1)) - 1] = h[(N - (m - 1)) - 1]
    BY <1>5, <2>1, <2>2
  <2> QED BY <2>1, <2>3
<1> HIDE DEF S
<1>8. 0..N \subseteq S
  BY <1>1, <1>6, <1>7, Induct
<1>9. \A n \in 1..N : s[n] = t[n]
  <2> TAKE n \in 1..N
  <2>1. N - n \in 0..N /\ N - (N - n) = n
    BY <1>1
  <2>2. g[n] = h[n]
    BY <1>8, <2>1 DEF S
  <2> QED BY <1>5, <2>2
<1> QED BY <1>9, SeqEqual DEF N

LEMMA InRange ==
  ASSUME NEW type \in [bytes : Nat \ {0}, signed : BOOLEAN]
  PROVE  LET all == Quarters(4 * type.bytes)
         IN  /\ all \in Nat /\ all > 1
             /\ type.signed => /\ RangeOf(type).low = -(all \div 2)
                               /\ RangeOf(type).high = all \div 2 - 1
             /\ ~type.signed => RangeOf(type).low = 0 /\ RangeOf(type).high = all - 1
<1> DEFINE n == 4 * type.bytes
           all == Quarters(n)
<1>1. n \in Nat /\ n - 1 \in Nat /\ (n - 1) + 1 = n
  OBVIOUS
<1> HIDE DEF n
<1>2. all = Quarters(n - 1) * Quarter
  BY <1>1, QuartersNext
<1>3. Quarters(n - 1) \in Nat /\ Quarters(n - 1) >= 1 /\ all \in Nat
  BY <1>1, QuartersType
<1>4. 1 * Quarter <= Quarters(n - 1) * Quarter
  BY <1>3, QuarterType, ProductAtMost
<1>5. all > 1
  BY <1>2, <1>3, <1>4, QuarterType
<1>6. /\ type.signed => RangeOf(type) = [low |-> -(all \div 2), high |-> all \div 2 - 1]
      /\ ~type.signed => RangeOf(type) = [low |-> 0, high |-> all - 1]
  BY DEF RangeOf, n
<1> HIDE DEF all
<1>7. /\ type.signed => RangeOf(type).low = -(all \div 2) /\ RangeOf(type).high = all \div 2 - 1
      /\ ~type.signed => RangeOf(type).low = 0 /\ RangeOf(type).high = all - 1
  BY <1>6
<1> QED BY <1>3, <1>5, <1>7 DEF all, n

(* A number in the range of its type is read back from its bytes, and any  *)
(* bytes are those of the number they are read as.                         *)
LEMMA NumberBack ==
  ASSUME NEW type \in [bytes : Nat \ {0}, signed : BOOLEAN],
         NEW value \in RangeOf(type).low..RangeOf(type).high
  PROVE  FromMemory(InMemory(value, type), type) = value
<1> DEFINE all == Quarters(4 * type.bytes)
           u == Unsigned(InMemory(value, type))
           high == RangeOf(type).high
           low == RangeOf(type).low
<1>1. /\ all \in Nat /\ all > 1
      /\ type.signed => low = -(all \div 2) /\ high = all \div 2 - 1
      /\ ~type.signed => low = 0 /\ high = all - 1
  BY InRange
<1>2. value \in low..high
  OBVIOUS
<1>3. FromMemory(InMemory(value, type), type) = IF type.signed /\ u > high THEN u - all ELSE u
  BY DEF FromMemory
<1> HIDE DEF high, low, all, u
<1>4. low \in Int /\ high \in Int /\ all \div 2 \in Nat /\ 2 * (all \div 2) <= all
      /\ value \in Int /\ type.signed \in BOOLEAN
  BY <1>1
<1>5. u = value % all
  BY <1>4, NumberThere DEF u, all
<1>6. CASE value >= 0
  <2>1. value \in 0..(all - 1)
    BY <1>1, <1>2, <1>4, <1>6
  <2>2. 0 * all + value = value /\ (0 * all + value) % all = value
    BY <1>1, <1>4, <2>1, DivUnique
  <2>3. u = value /\ ~(u > high)
    BY <1>2, <1>4, <1>5, <2>2
  <2> QED BY <1>3, <2>3
<1>7. CASE value < 0
  <2>1. type.signed
    BY <1>1, <1>2, <1>4, <1>7
  <2>2. value + all \in 0..(all - 1) /\ value + all > high
    BY <1>1, <1>2, <1>4, <1>7, <2>1
  <2>3. (-1) * all + (value + all) = value
    BY <1>1, <1>4
  <2>4. ((-1) * all + (value + all)) % all = value + all
    BY <1>1, <2>2, DivUnique
  <2>5. u = value + all /\ u - all = value
    BY <1>1, <1>4, <1>5, <2>3, <2>4
  <2> QED BY <1>3, <2>1, <2>2, <2>5
<1> QED BY <1>4, <1>6, <1>7

LEMMA BytesBack ==
  ASSUME NEW type \in [bytes : Nat \ {0}, signed : BOOLEAN],
         NEW bytes \in Seq(Byte), Len(bytes) = type.bytes
  PROVE  InMemory(FromMemory(bytes, type), type) = bytes
<1> DEFINE all == Quarters(4 * type.bytes)
           u == Unsigned(bytes)
           value == FromMemory(bytes, type)
           N == type.bytes
<1>1. all \in Nat /\ all > 1 /\ N \in Nat
  BY InRange
<1>2. u \in 0..(all - 1)
  <2>1. PICK g \in [0..Len(bytes) -> Nat] :
          /\ g[0] = 0 /\ Unsigned(bytes) = g[Len(bytes)]
          /\ \A n \in 1..Len(bytes) : g[n] = g[n - 1] + bytes[n] * Quarters(4 * (n - 1))
    BY UnsignedValues
  <2>2. g[Len(bytes)] \in 0..(Quarters(4 * Len(bytes)) - 1)
    <3>1. Len(bytes) \in 0..Len(bytes)
      BY <1>1
    <3>2. \A n \in 0..Len(bytes) : g[n] \in 0..(Quarters(4 * n) - 1)
      BY <2>1, UnsignedBound
    <3> QED BY <3>1, <3>2
  <2> QED BY <2>1, <2>2
<1>3. value = u \/ value = u - all
  BY DEF FromMemory
<1> HIDE DEF all, u, value
<1>4. value \in Int /\ value % all = u
  <2>1. CASE value = u
    <3>1. 0 * all + u = u /\ (0 * all + u) % all = u
      BY <1>1, <1>2, DivUnique
    <3> QED BY <1>1, <1>2, <2>1, <3>1
  <2>2. CASE value = u - all
    <3>1. (-1) * all + u = u - all /\ (-1) \in Int
      BY <1>1, <1>2
    <3>2. ((-1) * all + u) % all = u
      BY <1>1, <1>2, DivUnique
    <3> QED BY <1>1, <1>2, <2>2, <3>1, <3>2
  <2> QED BY <1>3, <2>1, <2>2
<1>5. Unsigned(InMemory(value, type)) = u
  BY <1>1, <1>4, NumberThere DEF all
<1>6. InMemory(value, type) \in Seq(Byte) /\ Len(InMemory(value, type)) = Len(bytes)
  BY <1>1, <1>4, InMemoryType
<1> QED BY <1>5, <1>6, UnsignedDiffers DEF u, value

LEMMA Turned ==
  ASSUME NEW bytes \in Seq(Byte), NEW little \in BOOLEAN
  PROVE  /\ Ordered(bytes, little) \in Seq(Byte) /\ Len(Ordered(bytes, little)) = Len(bytes)
         /\ Ordered(Ordered(bytes, little), little) = bytes
<1> DEFINE back == Reverse(bytes)
           N == Len(bytes)
<1>1. N \in Nat /\ \A i \in 1..N : bytes[i] \in Byte
  BY LenProperties, ElementOfSeq
<1>2. back = [i \in 1..N |-> bytes[(N - i) + 1]]
  BY DEF Reverse
<1> HIDE DEF back, N
<1>3. \A i \in 1..N : (N - i) + 1 \in 1..N /\ (N - ((N - i) + 1)) + 1 = i
  BY <1>1
<1>4. back \in [1..N -> Byte]
  BY <1>1, <1>2, <1>3
<1>5. back \in Seq(Byte) /\ Len(back) = N
  BY <1>1, <1>4, IsSequence
<1>6. Reverse(back) = [i \in 1..N |-> back[(N - i) + 1]]
  BY <1>5 DEF Reverse
<1>7. \A i \in 1..N : Reverse(back)[i] = bytes[i]
  BY <1>2, <1>3, <1>6
<1>8. Reverse(back) \in [1..N -> Byte]
  BY <1>1, <1>6, <1>7
<1>9. Reverse(back) \in Seq(Byte) /\ Len(Reverse(back)) = N
  BY <1>1, <1>8, IsSequence
<1>10. Reverse(back) = bytes
  BY <1>7, <1>9, SeqEqual DEF N
<1> QED BY <1>5, <1>10 DEF Ordered, back, N

(* clipped_cast of round(): the nearest number of the type; value counts   *)
(* halves.                                                                 *)
THEOREM Nearest ==
  ASSUME NEW type \in [bytes : Nat \ {0}, signed : BOOLEAN], NEW value \in Int
  PROVE  LET stored == Clipped(Rounded(value), type)
         IN  /\ stored \in RangeOf(type).low..RangeOf(type).high
             /\ \A other \in RangeOf(type).low..RangeOf(type).high :
                  \/ other = stored
                  \/ Distance(value, 2 * stored) < Distance(value, 2 * other)
                  \/ /\ Distance(value, 2 * stored) = Distance(value, 2 * other)
                     /\ Distance(0, stored) > Distance(0, other)
<1> DEFINE low == RangeOf(type).low
           high == RangeOf(type).high
           whole == Rounded(value)
           stored == Clipped(whole, type)
<1>1. low \in Int /\ high \in Int /\ low <= 0 /\ 0 <= high
  <2>1. \A all \in Nat : all > 1 => all \div 2 \in Nat /\ all \div 2 > 0
    OBVIOUS
  <2> QED BY <2>1, InRange
<1>3. /\ whole \in Int
      /\ value < 0 => 2 * whole = value \/ 2 * whole = value - 1
      /\ value >= 0 => 2 * whole = value \/ 2 * whole = value + 1
  BY DEF Rounded
<1> HIDE DEF whole
<1>2. stored = IF whole <= low THEN low ELSE IF whole >= high THEN high ELSE whole
  <2>0. low < high /\ low \in Int /\ high \in Int
    <3>1. \A all \in Nat : all > 1 => all \div 2 \in Nat /\ all \div 2 > 0
      OBVIOUS
    <3> QED BY <3>1, InRange
  <2>1. stored = CASE whole <= low -> low [] whole >= high -> high [] OTHER -> whole
    BY DEF Clipped
  <2> HIDE DEF stored, low, high
  <2>2. CASE whole <= low
    <3>1. ~(whole >= high)
      BY <1>3, <2>0, <2>2
    <3> QED BY <2>1, <2>2, <3>1
  <2>3. CASE ~(whole <= low) /\ whole >= high
    BY <2>1, <2>3
  <2>4. CASE ~(whole <= low) /\ ~(whole >= high)
    BY <2>1, <2>4
  <2> QED BY <2>2, <2>3, <2>4
<1> HIDE DEF low, high, stored
<1>4. stored \in low..high
  BY <1>1, <1>2, <1>3
<1>5. ASSUME NEW other \in low..high, other # stored
      PROVE  \/ Distance(value, 2 * stored) < Distance(value, 2 * other)
             \/ /\ Distance(value, 2 * stored) = Distance(value, 2 * other)
                /\ Distance(0, stored) > Distance(0, other)
  <2>1. stored \in Int /\ other \in Int
    BY <1>1, <1>4
  <2>2. CASE whole <= low
    BY <1>1, <1>2, <1>3, <1>5, <2>1, <2>2 DEF Distance
  <2>3. CASE ~(whole <= low) /\ whole >= high
    BY <1>1, <1>2, <1>3, <1>5, <2>1, <2>3 DEF Distance
  <2>4. CASE ~(whole <= low) /\ ~(whole >= high)
    BY <1>1, <1>2, <1>3, <1>5, <2>1, <2>4 DEF Distance
  <2> QED BY <2>2, <2>3, <2>4
<1> QED BY <1>4, <1>5 DEF low, high, stored, whole
----------------------------------------------------------------------------
(* Base64: sequences of characters as bytes, pair by pair.                 *)
LEMMA SextetType == Sextet \subseteq Nat /\ Sextet = 0..(Quarters(3) - 1) /\ Byte \subseteq Nat
  /\ \A x \in Sextet : x # Whitespace /\ x # Padding /\ x # Invalid
<1>1. Quarters(3) \in Nat /\ Quarters(4) \in Nat
  BY QuartersType
<1> QED BY <1>1 DEF Sextet, Byte, Whitespace, Padding, Invalid

LEMMA FourJoin ==
  ASSUME NEW a \in 0..(Quarter - 1), NEW b \in 0..(Quarter - 1),
         NEW c \in 0..(Quarter - 1), NEW d \in 0..(Quarter - 1)
  PROVE  LET x == ((a * Quarter + b) * Quarter + c) * Quarter + d
         IN  /\ x \in Byte
             /\ Pair(x, 3) = a /\ Pair(x, 2) = b /\ Pair(x, 1) = c /\ Pair(x, 0) = d
<1> DEFINE x2 == a * Quarter + b
           x3 == x2 * Quarter + c
           x4 == x3 * Quarter + d
<1>1. Quarters(1) = Quarter /\ Quarter \in Nat /\ Quarter > 1
  BY QuartersOne, QuarterType
<1>2. /\ Quarters(2) = Quarter * Quarter /\ Quarters(3) = Quarters(2) * Quarter
      /\ Quarters(4) = Quarters(3) * Quarter
      /\ Quarters(2) \in Nat /\ Quarters(3) \in Nat
  <2>1. /\ Quarters(1 + 1) = Quarters(1) * Quarter /\ Quarters(2 + 1) = Quarters(2) * Quarter
        /\ Quarters(3 + 1) = Quarters(3) * Quarter
    BY QuartersNext
  <2>2. Quarters(2) \in Nat /\ Quarters(3) \in Nat
    BY QuartersType
  <2> QED BY <1>1, <2>1, <2>2
<1>3. x2 \in 0..(Quarters(2) - 1)
  BY <1>1, <1>2, JoinBound
<1> HIDE DEF x2
<1>4. x3 \in 0..(Quarters(3) - 1)
  BY <1>1, <1>2, <1>3, JoinBound
<1> HIDE DEF x3
<1>5. x4 \in Byte
  <2>1. x4 \in 0..(Quarters(3) * Quarter - 1)
    BY <1>1, <1>2, <1>4, JoinBound
  <2> QED BY <1>2, <2>1 DEF Byte
<1> HIDE DEF x4
<1>6. a \in Int /\ x2 \in Int /\ x3 \in Int /\ x4 \in Int
  BY <1>1, <1>2, <1>3, <1>4, <1>5, SextetType
<1>7. \A y \in 0..(Quarter - 1) : y \in Int /\ Pair(y, 0) = y
  <2> TAKE y \in 0..(Quarter - 1)
  <2>1. y \in Int /\ y \div 1 = y
    BY <1>1
  <2>2. 0 * Quarter + y = y /\ (0 * Quarter + y) % Quarter = y
    BY <1>1, DivUnique
  <2> QED BY <2>1, <2>2, QuartersZero DEF Pair
<1>8. Pair(x2, 1) = a /\ Pair(x2, 0) = b
  <2>1. \A k \in Nat : Pair(a * Quarters(1) + b, k) = IF k < 1 THEN Pair(b, k) ELSE Pair(a, k - 1)
    BY <1>1, <1>6, PairJoin
  <2> QED BY <1>1, <1>7, <2>1 DEF x2
<1>9. Pair(x3, 2) = a /\ Pair(x3, 1) = b /\ Pair(x3, 0) = c
  <2>1. \A k \in Nat : Pair(x2 * Quarters(1) + c, k) = IF k < 1 THEN Pair(c, k) ELSE Pair(x2, k - 1)
    BY <1>1, <1>6, PairJoin
  <2> QED BY <1>1, <1>7, <1>8, <2>1 DEF x3
<1>10. Pair(x4, 3) = a /\ Pair(x4, 2) = b /\ Pair(x4, 1) = c /\ Pair(x4, 0) = d
  <2>1. \A k \in Nat : Pair(x3 * Quarters(1) + d, k) = IF k < 1 THEN Pair(d, k) ELSE Pair(x3, k - 1)
    BY <1>1, <1>6, PairJoin
  <2> QED BY <1>1, <1>7, <1>9, <2>1 DEF x4
<1> QED BY <1>5, <1>10 DEF x4, x3, x2

LEMMA PairsType ==
  ASSUME NEW seq \in Seq(Sextet)
  PROVE  /\ Pairs(seq, 3) \in Seq(0..(Quarter - 1)) /\ Len(Pairs(seq, 3)) = 3 * Len(seq)
         /\ \A p \in 1..3 * Len(seq) :
              Pairs(seq, 3)[p] = Pair(seq[(p - 1) \div 3 + 1], 2 - ((p - 1) % 3))
<1> DEFINE N == 3 * Len(seq)
           f == Pairs(seq, 3)
<1>1. Len(seq) \in Nat /\ N \in Nat /\ Len(seq) * 3 = N
  BY LenProperties
<1>2. f = [p \in 1..N |-> Pair(seq[(p - 1) \div 3 + 1], 2 - ((p - 1) % 3))]
  <2>1. \A p \in 1..N : (3 - 1) - ((p - 1) % 3) = 2 - ((p - 1) % 3)
    BY <1>1
  <2>2. f = [p \in 1..Len(seq) * 3 |->
               (seq[(p - 1) \div 3 + 1] \div Quarters(3 - 1 - ((p - 1) % 3))) % Quarter]
    BY DEF Pairs
  <2> HIDE DEF f, N
  <2> QED BY <1>1, <2>1, <2>2 DEF Pair
<1>3. \A p \in 1..N : f[p] \in 0..(Quarter - 1)
  <2> TAKE p \in 1..N
  <2>1. (p - 1) \div 3 + 1 \in 1..Len(seq) /\ 2 - ((p - 1) % 3) \in Nat
    BY <1>1
  <2> DEFINE m == (p - 1) \div 3 + 1
  <2>2. seq[m] \in Int
    <3>1. m \in 1..Len(seq)
      BY <2>1
    <3> HIDE DEF m
    <3>2. seq[m] \in Sextet
      BY <3>1, ElementOfSeq
    <3> QED BY <3>2, SextetType
  <2>3. f[p] = Pair(seq[(p - 1) \div 3 + 1], 2 - ((p - 1) % 3))
    BY <1>2
  <2> HIDE DEF f
  <2> QED BY <2>1, <2>2, <2>3, PairType
<1> HIDE DEF f
<1>4. f \in [1..N -> 0..(Quarter - 1)]
  BY <1>2, <1>3
<1>5. f \in Seq(0..(Quarter - 1)) /\ Len(f) = N
  <2> HIDE DEF N
  <2> QED BY <1>1, <1>4, IsSequence
<1> QED BY <1>2, <1>5 DEF f

(* The bytes of a sequence of characters, and their pairs.                 *)
LEMMA BytesOfType ==
  ASSUME NEW seq \in Seq(Sextet)
  PROVE  /\ BytesOf(seq, 3) \in Seq(Byte) /\ Len(BytesOf(seq, 3)) = (3 * Len(seq)) \div 4
         /\ \A i \in 1..(3 * Len(seq)) \div 4, k \in 0..3 :
              Pair(BytesOf(seq, 3)[i], k) =
                Pair(seq[((4 * i - k) - 1) \div 3 + 1], 2 - (((4 * i - k) - 1) % 3))
<1> DEFINE P == Pairs(seq, 3)
           n == (3 * Len(seq)) \div 4
           f == Fours(P)
<1>1. Len(seq) \in Nat /\ n \in Nat
  BY LenProperties
<1>2. /\ P \in Seq(0..(Quarter - 1)) /\ Len(P) = 3 * Len(seq)
      /\ \A p \in 1..3 * Len(seq) : P[p] = Pair(seq[(p - 1) \div 3 + 1], 2 - ((p - 1) % 3))
  BY PairsType
<1> HIDE DEF P
<1>3. f = [i \in 1..n |-> ((P[4 * i - 3] * Quarter + P[4 * i - 2]) * Quarter
                           + P[4 * i - 1]) * Quarter + P[4 * i]]
  BY <1>2 DEF Fours
<1>4. ASSUME NEW i \in 1..n
      PROVE  f[i] \in Byte /\ \A k \in 0..3 : Pair(f[i], k) = P[4 * i - k]
  <2>1. /\ 4 * i - 3 \in 1..Len(P) /\ 4 * i - 2 \in 1..Len(P) /\ 4 * i - 1 \in 1..Len(P)
        /\ 4 * i \in 1..Len(P) /\ 4 * i - 0 = 4 * i
    BY <1>1, <1>2
  <2>2. /\ P[4 * i - 3] \in 0..(Quarter - 1) /\ P[4 * i - 2] \in 0..(Quarter - 1)
        /\ P[4 * i - 1] \in 0..(Quarter - 1) /\ P[4 * i] \in 0..(Quarter - 1)
    BY <1>2, <2>1, ElementOfSeq
  <2>3. f[i] = ((P[4 * i - 3] * Quarter + P[4 * i - 2]) * Quarter + P[4 * i - 1]) * Quarter + P[4 * i]
    BY <1>3
  <2> HIDE DEF f
  <2>4. /\ f[i] \in Byte /\ Pair(f[i], 3) = P[4 * i - 3] /\ Pair(f[i], 2) = P[4 * i - 2]
        /\ Pair(f[i], 1) = P[4 * i - 1] /\ Pair(f[i], 0) = P[4 * i]
    BY <2>2, <2>3, FourJoin
  <2>5. \A k \in 0..3 : k = 0 \/ k = 1 \/ k = 2 \/ k = 3
    OBVIOUS
  <2> QED BY <2>1, <2>4, <2>5
<1> HIDE DEF f
<1>5. f \in [1..n -> Byte]
  BY <1>3, <1>4
<1>6. f \in Seq(Byte) /\ Len(f) = n
  <2> HIDE DEF n
  <2> QED BY <1>1, <1>5, IsSequence
<1>7. ASSUME NEW i \in 1..n, NEW k \in 0..3
      PROVE  Pair(f[i], k) = Pair(seq[((4 * i - k) - 1) \div 3 + 1], 2 - (((4 * i - k) - 1) % 3))
  <2>1. 4 * i - k \in 1..3 * Len(seq)
    BY <1>1
  <2> QED BY <1>2, <1>4, <2>1
<1> QED BY <1>6, <1>7 DEF f, P, BytesOf

(* The character that fills a byte.                                        *)
LEMMA BytesOfAppend ==
  ASSUME NEW seq \in Seq(Sextet), NEW char \in Sextet
  PROVE  LET old == BytesOf(seq, 3)
             new == BytesOf(Append(seq, char), 3)
             left == (3 * Len(seq)) % 4
         IN  /\ left = 0 => new = old
             /\ left > 0 => \A byte \in Byte :
                  (\A k \in 0..3 : Pair(byte, k) =
                     IF left + k <= 3 THEN Pair(char, (left + k) - 1)
                     ELSE Pair(seq[Len(seq)], (left + k) - 4))
                  => new = Append(old, byte)
<1> DEFINE L == Len(seq)
           t == Append(seq, char)
           old == BytesOf(seq, 3)
           new == BytesOf(t, 3)
           left == (3 * L) % 4
           n == (3 * L) \div 4
<1>1. /\ L \in Nat /\ t \in Seq(Sextet) /\ Len(t) = L + 1 /\ t[L + 1] = char
      /\ \A i \in 1..L : t[i] = seq[i]
  BY LenProperties, AppendProperties
<1>2. n \in Nat /\ left \in 0..3 /\ 3 * L = 4 * n + left
  BY <1>1
<1>3. /\ old \in Seq(Byte) /\ Len(old) = n
      /\ \A i \in 1..n, k \in 0..3 :
           Pair(old[i], k) = Pair(seq[((4 * i - k) - 1) \div 3 + 1], 2 - (((4 * i - k) - 1) % 3))
  BY BytesOfType
<1>4. /\ new \in Seq(Byte) /\ Len(new) = (3 * (L + 1)) \div 4
      /\ \A i \in 1..(3 * (L + 1)) \div 4, k \in 0..3 :
           Pair(new[i], k) = Pair(t[((4 * i - k) - 1) \div 3 + 1], 2 - (((4 * i - k) - 1) % 3))
  BY <1>1, BytesOfType
<1> HIDE DEF t, old, new, left, n
<1>5. (3 * (L + 1)) \div 4 = IF left = 0 THEN n ELSE n + 1
  BY <1>1, <1>2
<1>6. ASSUME NEW i \in 1..n PROVE new[i] = old[i]
  <2>1. i \in 1..(3 * (L + 1)) \div 4
    BY <1>2, <1>5
  <2>2. new[i] \in Byte /\ old[i] \in Byte
    BY <1>3, <1>4, <2>1, ElementOfSeq
  <2>3. ASSUME NEW k \in 0..3 PROVE Pair(new[i], k) = Pair(old[i], k)
    <3> DEFINE m == ((4 * i - k) - 1) \div 3 + 1
               j == 2 - (((4 * i - k) - 1) % 3)
    <3>1. m \in 1..L
      BY <1>1, <1>2
    <3>2. Pair(new[i], k) = Pair(t[m], j)
      BY <1>4, <2>1
    <3>3. Pair(old[i], k) = Pair(seq[m], j)
      BY <1>3
    <3> HIDE DEF m, j
    <3> QED BY <1>1, <3>1, <3>2, <3>3
  <2> QED BY <2>2, <2>3, PairsEqual DEF Byte
<1>7. CASE left = 0
  <2>1. new = old
    BY <1>3, <1>4, <1>5, <1>6, <1>7, SeqEqual
  <2> QED BY <1>7, <2>1 DEF new, old, t, left
<1>8. CASE left > 0
  <2> SUFFICES ASSUME NEW byte \in Byte,
                      \A k \in 0..3 : Pair(byte, k) = IF left + k <= 3 THEN Pair(char, (left + k) - 1)
                                                      ELSE Pair(seq[L], (left + k) - 4)
               PROVE  new = Append(old, byte)
    BY <1>8 DEF new, old, t, left
  <2>1. Len(new) = n + 1 /\ n + 1 \in 1..Len(new)
    BY <1>2, <1>4, <1>5, <1>8
  <2>2. new[n + 1] \in Byte
    BY <1>4, <2>1, ElementOfSeq
  <2>3. ASSUME NEW k \in 0..3 PROVE Pair(new[n + 1], k) = Pair(byte, k)
    <3> DEFINE p == (4 * (n + 1) - k) - 1
    <3>1. Pair(new[n + 1], k) = Pair(t[p \div 3 + 1], 2 - (p % 3))
      BY <1>4, <2>1
    <3>2. p = 3 * L + ((3 - left) - k)
      BY <1>1, <1>2
    <3>3. CASE left + k <= 3
      <4>1. p \div 3 + 1 = L + 1 /\ 2 - (p % 3) = (left + k) - 1
        <5> HIDE DEF p
        <5> QED BY <1>1, <1>2, <1>8, <3>2, <3>3
      <4> QED BY <1>1, <3>1, <3>3, <4>1
    <3>4. CASE ~(left + k <= 3)
      <4>1. L > 0
        BY <1>1, <1>2, <1>8
      <4>2. p \div 3 + 1 = L /\ 2 - (p % 3) = (left + k) - 4
        <5> HIDE DEF p
        <5>1. p = (L - 1) * 3 + ((6 - left) - k) /\ (6 - left) - k \in 0..(3 - 1)
          BY <1>1, <1>2, <3>2, <3>4
        <5>2. p \div 3 = L - 1 /\ p % 3 = (6 - left) - k
          BY <1>1, <5>1, DivUnique
        <5> QED BY <1>1, <1>2, <5>2
      <4> QED BY <1>1, <3>1, <3>4, <4>1, <4>2
    <3> QED BY <3>3, <3>4
  <2>4. new[n + 1] = byte
    BY <2>2, <2>3, PairsEqual DEF Byte
  <2>5. /\ Append(old, byte) \in Seq(Byte) /\ Len(Append(old, byte)) = n + 1
        /\ \A i \in 1..n : Append(old, byte)[i] = old[i]
        /\ Append(old, byte)[n + 1] = byte
    BY <1>3, AppendProperties
  <2>6. \A i \in 1..(n + 1) : new[i] = Append(old, byte)[i]
    BY <1>2, <1>6, <2>4, <2>5
  <2> QED BY <1>4, <2>1, <2>5, <2>6, SeqEqual
<1> QED BY <1>2, <1>7, <1>8

(* Base64Decode and the characters between paddings, side by side.         *)
LEMMA Blocking ==
  ASSUME NEW blocks \in Seq(Seq(Sextet)), blocks # <<>>, NEW char \in Base64Char
  PROVE  /\ char = Padding => AddToBlocks(blocks, char) = Append(blocks, <<>>)
         /\ char \in Sextet => AddToBlocks(blocks, char)
                = [blocks EXCEPT ![Len(blocks)] = Append(blocks[Len(blocks)], char)]
         /\ char \in {Whitespace, Invalid} => AddToBlocks(blocks, char) = blocks
         /\ AddToBlocks(blocks, char) \in Seq(Seq(Sextet)) \ {<<>>}
<1> DEFINE n == Len(blocks)
<1>1. n \in 1..Len(blocks) /\ n \in Nat
  BY EmptySeq, LenProperties
<1>2. CASE char = Padding
  <2>1. AddToBlocks(blocks, char) = Append(blocks, <<>>)
    BY <1>2, SextetType DEF AddToBlocks
  <2>2. <<>> \in Seq(Sextet)
    BY EmptySeq
  <2>3. Append(blocks, <<>>) \in Seq(Seq(Sextet)) \ {<<>>}
    BY <2>2, AppendProperties
  <2>4. char \notin Sextet /\ char \notin {Whitespace, Invalid}
    BY <1>2, SextetType DEF Padding, Whitespace, Invalid
  <2> QED BY <1>2, <2>1, <2>3, <2>4
<1>3. CASE char \in Sextet
  <2>1. AddToBlocks(blocks, char) = [blocks EXCEPT ![n] = Append(blocks[n], char)]
    BY <1>3, SextetType DEF AddToBlocks
  <2>2. blocks[n] \in Seq(Sextet)
    BY <1>1, ElementOfSeq
  <2>3. Append(blocks[n], char) \in Seq(Sextet)
    BY <1>3, <2>2, AppendProperties
  <2>4. /\ [blocks EXCEPT ![n] = Append(blocks[n], char)] \in Seq(Seq(Sextet))
        /\ Len([blocks EXCEPT ![n] = Append(blocks[n], char)]) = n
    BY <1>1, <2>3, ExceptSeq
  <2>5. [blocks EXCEPT ![n] = Append(blocks[n], char)] # <<>>
    BY <1>1, <2>4, EmptySeq
  <2> QED BY <1>3, <2>1, <2>4, <2>5, SextetType
<1>4. CASE char \in {Whitespace, Invalid}
  <2>1. char \notin Sextet /\ char # Padding
    BY <1>4, SextetType DEF Padding, Whitespace, Invalid
  <2>2. AddToBlocks(blocks, char) = blocks
    BY <2>1 DEF AddToBlocks
  <2> QED BY <1>4, <2>1, <2>2
<1> QED BY <1>2, <1>3, <1>4 DEF Base64Char

LEMMA BlocksStates ==
  ASSUME NEW text \in Seq(Base64Char)
  PROVE  LET w == Loop(AddToBlocks, << <<>> >>, text)
         IN  /\ w \in [0..Len(text) -> Seq(Seq(Sextet)) \ {<<>>}] /\ w[0] = << <<>> >>
             /\ \A n \in 1..Len(text) : w[n] = AddToBlocks(w[n - 1], text[n])
<1> DEFINE D == Seq(Seq(Sextet)) \ {<<>>}
<1>1. \A x \in D, y \in Base64Char : AddToBlocks(x, y) \in D
  BY Blocking
<1>2. << <<>> >> \in D
  <2>1. <<>> \in Seq(Sextet) /\ <<>> \in Seq(Seq(Sextet))
    BY EmptySeq
  <2>2. Append(<<>>, <<>>) \in D
    BY <2>1, AppendProperties
  <2>3. Append(<<>>, <<>>) = << <<>> >>
    OBVIOUS
  <2> QED BY <2>2, <2>3
<1> HIDE DEF D
<1>3. LET w == Loop(AddToBlocks, << <<>> >>, text)
      IN  /\ w \in [0..Len(text) -> D] /\ w[0] = << <<>> >>
          /\ \A n \in 1..Len(text) : w[n] = AddToBlocks(w[n - 1], text[n])
  BY <1>1, <1>2, BlocksLoop
<1> QED BY <1>3 DEF D

MeaningOf(blocks) == Loop(AddBytes, <<>>, blocks)[Len(blocks)]

LEMMA MeaningStates ==
  ASSUME NEW blocks \in Seq(Seq(Sextet))
  PROVE  LET m == Loop(AddBytes, <<>>, blocks)
         IN  /\ m \in [0..Len(blocks) -> Seq(Byte)] /\ m[0] = <<>>
             /\ \A n \in 1..Len(blocks) : m[n] = m[n - 1] \o BytesOf(blocks[n], 3)
<1>1. \A x \in Seq(Byte), y \in Seq(Sextet) : AddBytes(x, y) \in Seq(Byte)
  <2> TAKE x \in Seq(Byte), y \in Seq(Sextet)
  <2>1. BytesOf(y, 3) \in Seq(Byte)
    BY BytesOfType
  <2> QED BY <2>1, ConcatProperties DEF AddBytes
<1>2. <<>> \in Seq(Byte)
  BY EmptySeq
<1> DEFINE m == Loop(AddBytes, <<>>, blocks)
<1>3. /\ m \in [0..Len(blocks) -> Seq(Byte)] /\ m[0] = <<>>
      /\ \A n \in 1..Len(blocks) : m[n] = AddBytes(m[n - 1], blocks[n])
  BY <1>1, <1>2, BytesLoop
<1> HIDE DEF m
<1>4. \A n \in 1..Len(blocks) : m[n] = m[n - 1] \o BytesOf(blocks[n], 3)
  BY <1>3 DEF AddBytes
<1> QED BY <1>3, <1>4 DEF m

(* What blocks mean depends on the last only in its own bytes.             *)
LEMMA MeaningAppend ==
  ASSUME NEW blocks \in Seq(Seq(Sextet)), NEW block \in Seq(Sextet)
  PROVE  /\ MeaningOf(blocks) \in Seq(Byte)
         /\ MeaningOf(Append(blocks, block)) = MeaningOf(blocks) \o BytesOf(block, 3)
<1> DEFINE N == Len(blocks)
           more == Append(blocks, block)
           m == Loop(AddBytes, <<>>, blocks)
           k == Loop(AddBytes, <<>>, more)
<1>1. /\ N \in Nat /\ more \in Seq(Seq(Sextet)) /\ Len(more) = N + 1 /\ more[N + 1] = block
      /\ \A i \in 1..N : more[i] = blocks[i]
  BY LenProperties, AppendProperties
<1> HIDE DEF more
<1>2. /\ m \in [0..N -> Seq(Byte)] /\ m[0] = <<>>
      /\ \A n \in 1..N : m[n] = m[n - 1] \o BytesOf(blocks[n], 3)
  BY MeaningStates
<1>3. /\ k \in [0..N + 1 -> Seq(Byte)] /\ k[0] = <<>>
      /\ \A n \in 1..N + 1 : k[n] = k[n - 1] \o BytesOf(more[n], 3)
  BY <1>1, MeaningStates
<1>4. MeaningOf(blocks) = m[N] /\ MeaningOf(more) = k[N + 1]
  BY <1>1 DEF MeaningOf
<1> HIDE DEF m, k, N
<1> DEFINE S == {n \in 0..N : m[n] = k[n]}
<1>5. 0 \in S
  BY <1>1, <1>2, <1>3
<1>6. ASSUME NEW n \in 1..N, n - 1 \in S PROVE n \in S
  <2>1. n \in 1..N + 1
    BY <1>1
  <2>2. m[n] = m[n - 1] \o BytesOf(blocks[n], 3) /\ k[n] = k[n - 1] \o BytesOf(blocks[n], 3)
    BY <1>1, <1>2, <1>3, <2>1
  <2>3. m[n - 1] = k[n - 1]
    BY <1>6
  <2>4. m[n] = k[n] /\ n \in 0..N
    BY <1>1, <2>2, <2>3
  <2> QED BY <2>4
<1> HIDE DEF S
<1>7. 0..N \subseteq S
  BY <1>1, <1>5, <1>6, Induct
<1>8. m[N] = k[N]
  BY <1>1, <1>7 DEF S
<1>9. k[N + 1] = k[N] \o BytesOf(block, 3)
  <2>1. N + 1 \in 1..N + 1 /\ (N + 1) - 1 = N
    BY <1>1
  <2> QED BY <1>1, <1>3, <2>1
<1>10. m[N] \in Seq(Byte)
  BY <1>1, <1>2
<1> QED BY <1>4, <1>8, <1>9, <1>10 DEF more

LEMMA MeaningNone == MeaningOf(<<>>) = <<>> /\ BytesOf(<<>>, 3) = <<>>
<1>1. <<>> \in Seq(Sextet) /\ Len(<<>>) = 0 /\ <<>> \in Seq(Seq(Sextet))
  BY EmptySeq
<1>2. BytesOf(<<>>, 3) = <<>>
  <2>1. (3 * 0) \div 4 = 0
    OBVIOUS
  <2>2. BytesOf(<<>>, 3) \in Seq(Byte) /\ Len(BytesOf(<<>>, 3)) = 0
    BY <1>1, <2>1, BytesOfType
  <2> QED BY <2>2, EmptySeq
<1> DEFINE m == Loop(AddBytes, <<>>, <<>>)
<1>3. m[0] = <<>>
  BY <1>1, MeaningStates
<1> HIDE DEF m
<1> QED BY <1>1, <1>2, <1>3 DEF MeaningOf, m

(* A sequence that is not empty, without its last element.                 *)
LEMMA FrontLast ==
  ASSUME NEW S, NEW s \in Seq(S), s # <<>>
  PROVE  \E front \in Seq(S) : s = Append(front, s[Len(s)])
<1>1. PICK front \in Seq(S), e \in S : s = Append(front, e)
  BY SequenceEmptyOrAppend
<1>2. Len(s) = Len(front) + 1 /\ s[Len(front) + 1] = e
  BY <1>1, AppendProperties
<1> QED BY <1>1, <1>2

LEMMA MeaningAdd ==
  ASSUME NEW blocks \in Seq(Seq(Sextet)), blocks # <<>>, NEW block \in Seq(Sextet)
  PROVE  LET open == blocks[Len(blocks)]
             new == [blocks EXCEPT ![Len(blocks)] = block]
         IN  \E bytes \in Seq(Byte) : /\ MeaningOf(blocks) = bytes \o BytesOf(open, 3)
                                      /\ MeaningOf(new) = bytes \o BytesOf(block, 3)
<1> DEFINE n == Len(blocks)
           open == blocks[n]
           new == [blocks EXCEPT ![n] = block]
<1>1. n \in 1..n /\ open \in Seq(Sextet)
  BY EmptySeq, LenProperties, ElementOfSeq
<1>2. PICK front \in Seq(Seq(Sextet)) : blocks = Append(front, open)
  BY FrontLast
<1>3. n = Len(front) + 1 /\ Len(front) \in Nat
  BY <1>1, <1>2, AppendProperties, LenProperties
<1>4. /\ new \in Seq(Seq(Sextet)) /\ Len(new) = n
      /\ \A j \in 1..n : new[j] = IF j = n THEN block ELSE blocks[j]
  BY <1>1, ExceptSeq
<1>5. /\ Append(front, block) \in Seq(Seq(Sextet)) /\ Len(Append(front, block)) = n
      /\ \A j \in 1..Len(front) : Append(front, block)[j] = front[j]
      /\ Append(front, block)[Len(front) + 1] = block
  BY <1>3, AppendProperties
<1>6. \A j \in 1..Len(front) : blocks[j] = front[j]
  <2> HIDE DEF open
  <2>1. open \in Seq(Sextet)
    BY <1>1
  <2> QED BY <1>2, <2>1, AppendProperties
<1> HIDE DEF new, open, n
<1>7. \A j \in 1..n : new[j] = Append(front, block)[j]
  BY <1>3, <1>4, <1>5, <1>6
<1>8. new = Append(front, block)
  BY <1>4, <1>5, <1>7, SeqEqual
<1>9. /\ MeaningOf(front) \in Seq(Byte) /\ MeaningOf(blocks) = MeaningOf(front) \o BytesOf(open, 3)
      /\ MeaningOf(new) = MeaningOf(front) \o BytesOf(block, 3)
  BY <1>1, <1>2, <1>8, MeaningAppend
<1> QED BY <1>9 DEF new, open, n

Decodes == [bits : Nat, count : 0..3, out : Outs]
NextBits(state, char) == (state.bits * Quarters(3) + char) % Quarters(8)
NextByte(state, char) == (NextBits(state, char) \div Quarters(state.count - 1)) % Quarters(4)

LEMMA BitsLeft ==
  ASSUME NEW n \in Nat
  PROVE  (3 * (n + 1)) % 4 = IF (3 * n) % 4 = 0 THEN 3 ELSE ((3 * n) % 4) - 1
OBVIOUS

LEMMA DecodeSextet ==
  ASSUME NEW state \in Decodes, NEW char \in Sextet
  PROVE  /\ NextBits(state, char) \in Nat
         /\ \A k \in 0..2 : Pair(NextBits(state, char), k) = Pair(char, k)
         /\ state.count = 0 =>
              DecodeChar(state, char) = [bits |-> NextBits(state, char), count |-> 3, out |-> state.out]
         /\ state.count > 0 =>
              /\ DecodeChar(state, char) = [bits |-> NextBits(state, char), count |-> state.count - 1,
                                            out |-> Put(state.out, NextByte(state, char))]
              /\ NextByte(state, char) \in Byte
              /\ \A k \in 0..3 : Pair(NextByte(state, char), k) =
                   IF state.count + k <= 3 THEN Pair(char, (state.count + k) - 1)
                   ELSE Pair(state.bits, (state.count + k) - 4)
<1> DEFINE bits == NextBits(state, char)
           byte == NextByte(state, char)
           joined == state.bits * Quarters(3) + char
           c == state.count
<1>1. state.bits \in Nat /\ c \in 0..3 /\ char \in Nat /\ char \in 0..(Quarters(3) - 1)
  BY SextetType DEF Decodes
<1>2. /\ Quarters(3) \in Nat /\ Quarters(3) > 0 /\ Quarters(4) \in Nat /\ Quarters(4) > 0
      /\ Quarters(8) \in Nat /\ Quarters(8) > 0
  BY QuartersType
<1>3. joined \in Nat
  BY <1>1, <1>2, ProductType
<1>4. \A k \in Nat : Pair(joined, k) = IF k < 3 THEN Pair(char, k) ELSE Pair(state.bits, k - 3)
  BY <1>1, PairJoin
<1>5. bits = joined % Quarters(8)
  BY DEF NextBits
<1>0. DecodeChar(state, char) =
        [bits |-> bits, count |-> IF c + 3 >= 4 THEN c - 1 ELSE c + 3,
         out |-> IF c + 3 >= 4 THEN Put(state.out, byte) ELSE state.out]
  BY SextetType DEF DecodeChar, NextBits, NextByte
<1> HIDE DEF joined, bits, c
<1>6. bits \in Nat
  BY <1>2, <1>3, <1>5, DivMod
<1>7. \A k \in 0..7 : Pair(bits, k) = Pair(joined, k)
  <2>1. 8 - 1 = 7 /\ 8 \in Nat
    OBVIOUS
  <2>2. \A k \in 0..(8 - 1) : Pair(joined % Quarters(8), k) = Pair(joined, k)
    BY <1>3, <2>1, PairMask
  <2> QED BY <1>5, <2>1, <2>2
<1>8. \A k \in 0..2 : Pair(bits, k) = Pair(char, k)
  BY <1>4, <1>7
<1>9. CASE c = 0
  <2>1. DecodeChar(state, char) = [bits |-> bits, count |-> 3, out |-> state.out]
    <3> HIDE DEF byte
    <3> QED BY <1>0, <1>9
  <2> QED BY <1>6, <1>8, <1>9, <2>1 DEF bits, c
<1>10. CASE c > 0
  <2>1. DecodeChar(state, char) = [bits |-> bits, count |-> c - 1, out |-> Put(state.out, byte)]
    <3>1. c + 3 >= 4
      BY <1>1, <1>10
    <3> HIDE DEF byte
    <3> QED BY <1>0, <3>1
  <2> DEFINE rest == bits \div Quarters(c - 1)
  <2>2. c - 1 \in Nat
    BY <1>1, <1>10
  <2>3. byte = rest % Quarters(4)
    BY DEF NextByte, bits, c
  <2>4. rest \in Int
    BY <1>6, <2>2, QuartersType, DivMod
  <2>5. \A k \in Nat : Pair(rest, k) = Pair(bits, (c - 1) + k)
    BY <1>6, <2>2, PairShift
  <2> HIDE DEF byte, rest
  <2>6. byte \in Byte
    BY <1>2, <2>3, <2>4, DivMod DEF Byte
  <2>7. ASSUME NEW k \in 0..3
        PROVE  Pair(byte, k) = IF c + k <= 3 THEN Pair(char, (c + k) - 1) ELSE Pair(state.bits, (c + k) - 4)
    <3>1. Pair(byte, k) = Pair(rest, k)
      <4>1. 4 - 1 = 3 /\ 4 \in Nat
        OBVIOUS
      <4>2. \A j \in 0..(4 - 1) : Pair(rest % Quarters(4), j) = Pair(rest, j)
        BY <2>4, <4>1, PairMask
      <4> QED BY <2>3, <4>1, <4>2
    <3>2. Pair(rest, k) = Pair(bits, (c + k) - 1) /\ (c + k) - 1 \in 0..7
      <4>1. (c - 1) + k = (c + k) - 1 /\ (c + k) - 1 \in 0..7
        BY <1>1, <1>10
      <4> QED BY <2>5, <4>1
    <3>3. Pair(byte, k) = Pair(joined, (c + k) - 1)
      BY <1>7, <3>1, <3>2
    <3>4. (c + k) - 1 \in Nat /\ ((c + k) - 1 < 3 <=> c + k <= 3) /\ ((c + k) - 1) - 3 = (c + k) - 4
      BY <1>1, <1>10
    <3> QED BY <1>4, <3>3, <3>4
  <2> QED BY <1>6, <1>8, <1>10, <2>1, <2>6, <2>7 DEF bits, byte, c
<1> QED BY <1>1, <1>9, <1>10 DEF c

LEMMA DecodeOther ==
  ASSUME NEW state \in Decodes, NEW char \in {Whitespace, Padding, Invalid}
  PROVE  /\ char = Padding => DecodeChar(state, char) = [state EXCEPT !.count = 0]
         /\ char # Padding => DecodeChar(state, char) = state
<1>1. char \notin Sextet
  BY SextetType
<1> QED BY <1>1 DEF DecodeChar

LEMMA DecodeType ==
  ASSUME NEW state \in Decodes, NEW char \in Base64Char
  PROVE  DecodeChar(state, char) \in Decodes
<1>1. state.bits \in Nat /\ state.count \in 0..3 /\ state.out \in Outs
  BY DEF Decodes
<1>2. CASE char \in Sextet
  <2> DEFINE bits == NextBits(state, char)
             byte == NextByte(state, char)
  <2>1. CASE state.count = 0
    <3>1. DecodeChar(state, char) = [bits |-> bits, count |-> 3, out |-> state.out] /\ bits \in Nat
      BY <1>2, <2>1, DecodeSextet
    <3> HIDE DEF bits
    <3> QED BY <1>1, <3>1 DEF Decodes
  <2>2. CASE state.count > 0
    <3>1. /\ DecodeChar(state, char) = [bits |-> bits, count |-> state.count - 1,
                                        out |-> Put(state.out, byte)]
          /\ bits \in Nat /\ byte \in Byte
      BY <1>2, <2>2, DecodeSextet
    <3> HIDE DEF bits, byte
    <3>2. Put(state.out, byte) \in Outs /\ state.count - 1 \in 0..3
      BY <1>1, <2>2, <3>1, PutByte
    <3> QED BY <3>1, <3>2 DEF Decodes
  <2> QED BY <1>1, <2>1, <2>2
<1>3. CASE char \in {Whitespace, Padding, Invalid}
  <2>1. [state EXCEPT !.count = 0] \in Decodes
    BY DEF Decodes
  <2> QED BY <1>3, <2>1, DecodeOther
<1> QED BY <1>2, <1>3 DEF Base64Char

(* What is decoded so far is the meaning of the characters so far; count   *)
(* pairs of bits of the last one are not yet in a byte.                    *)
Decoded(state, blocks) ==
  LET open == blocks[Len(blocks)]
  IN  /\ Flushed(state.out) = MeaningOf(blocks)
      /\ state.count = (3 * Len(open)) % 4
      /\ \A k \in 0..(state.count - 1) : Pair(state.bits, k) = Pair(open[Len(open)], k)

LEMMA DecodedSextet ==
  ASSUME NEW state \in Decodes, NEW blocks \in Seq(Seq(Sextet)), blocks # <<>>,
         NEW char \in Sextet, Decoded(state, blocks)
  PROVE  Decoded(DecodeChar(state, char), AddToBlocks(blocks, char))
<1> DEFINE n == Len(blocks)
           open == blocks[n]
           more == Append(open, char)
           new == [blocks EXCEPT ![n] = more]
           c == state.count
           bits == NextBits(state, char)
           byte == NextByte(state, char)
           next == DecodeChar(state, char)
<1>1. n \in 1..n /\ open \in Seq(Sextet)
  BY EmptySeq, LenProperties, ElementOfSeq
<1>2. AddToBlocks(blocks, char) = new
  BY Blocking DEF Base64Char
<1>3. more \in Seq(Sextet) /\ Len(more) = Len(open) + 1 /\ more[Len(more)] = char /\ Len(open) \in Nat
  BY <1>1, AppendProperties, LenProperties
<1>4. Len(new) = n /\ new[n] = more
  BY <1>1, <1>3, ExceptSeq
<1>5. /\ Flushed(state.out) = MeaningOf(blocks) /\ c = (3 * Len(open)) % 4
      /\ \A k \in 0..(c - 1) : Pair(state.bits, k) = Pair(open[Len(open)], k)
  BY DEF Decoded
<1>6. PICK bytes \in Seq(Byte) : /\ MeaningOf(blocks) = bytes \o BytesOf(open, 3)
                                 /\ MeaningOf(new) = bytes \o BytesOf(more, 3)
  BY <1>3, MeaningAdd
<1>7. /\ bits \in Nat /\ \A k \in 0..2 : Pair(bits, k) = Pair(char, k)
      /\ c = 0 => next = [bits |-> bits, count |-> 3, out |-> state.out]
      /\ c > 0 => /\ next = [bits |-> bits, count |-> c - 1, out |-> Put(state.out, byte)]
                  /\ byte \in Byte
                  /\ \A k \in 0..3 : Pair(byte, k) = IF c + k <= 3 THEN Pair(char, (c + k) - 1)
                                                     ELSE Pair(state.bits, (c + k) - 4)
  BY DecodeSextet
<1>8. BytesOf(open, 3) \in Seq(Byte)
  BY <1>1, BytesOfType
<1>9. c \in 0..3 /\ state.out \in Outs
  BY DEF Decodes
<1>10. /\ c = 0 => BytesOf(more, 3) = BytesOf(open, 3)
       /\ c > 0 => \A b \in Byte :
            (\A k \in 0..3 : Pair(b, k) = IF c + k <= 3 THEN Pair(char, (c + k) - 1)
                                          ELSE Pair(open[Len(open)], (c + k) - 4))
            => BytesOf(more, 3) = Append(BytesOf(open, 3), b)
  <2> DEFINE left == (3 * Len(open)) % 4
  <2> HIDE DEF open
  <2>1. /\ left = 0 => BytesOf(more, 3) = BytesOf(open, 3)
        /\ left > 0 => \A b \in Byte :
             (\A k \in 0..3 : Pair(b, k) = IF left + k <= 3 THEN Pair(char, (left + k) - 1)
                                           ELSE Pair(open[Len(open)], (left + k) - 4))
             => BytesOf(more, 3) = Append(BytesOf(open, 3), b)
    BY <1>1, BytesOfAppend
  <2>2. c = left
    BY <1>5
  <2> HIDE DEF left, c, more
  <2> QED BY <2>1, <2>2
<1> SUFFICES /\ Flushed(next.out) = MeaningOf(new)
             /\ next.count = (3 * (Len(open) + 1)) % 4
             /\ \A k \in 0..(next.count - 1) : Pair(next.bits, k) = Pair(char, k)
  <2> HIDE DEF next, new, more, open, n
  <2> QED BY <1>2, <1>3, <1>4 DEF Decoded, next
<1> HIDE DEF next, new, more, open, n, bits, byte, c
<1>11. CASE c = 0
  <2>1. next.out = state.out /\ next.count = 3 /\ next.bits = bits
    BY <1>7, <1>11
  <2>2. (3 * (Len(open) + 1)) % 4 = 3
    BY <1>3, <1>5, <1>11, BitsLeft
  <2> QED BY <1>5, <1>6, <1>7, <1>10, <1>11, <2>1, <2>2
<1>12. CASE c > 0
  <2>1. next.out = Put(state.out, byte) /\ next.count = c - 1 /\ next.bits = bits
    BY <1>7, <1>12
  <2>2. (3 * (Len(open) + 1)) % 4 = c - 1
    BY <1>3, <1>5, <1>9, <1>12, BitsLeft
  <2>3. \A k \in 0..(next.count - 1) : Pair(next.bits, k) = Pair(char, k)
    BY <1>7, <1>9, <2>1
  <2>4. \A k \in 0..3 : Pair(byte, k) = IF c + k <= 3 THEN Pair(char, (c + k) - 1)
                                        ELSE Pair(open[Len(open)], (c + k) - 4)
    <3> TAKE k \in 0..3
    <3>1. ~(c + k <= 3) => (c + k) - 4 \in 0..(c - 1)
      BY <1>9
    <3> QED BY <1>5, <1>7, <1>12, <3>1
  <2>5. BytesOf(more, 3) = Append(BytesOf(open, 3), byte)
    BY <1>7, <1>10, <1>12, <2>4
  <2>6. Flushed(next.out) = Append(Flushed(state.out), byte)
    BY <1>7, <1>9, <1>12, <2>1, PutByte
  <2>7. bytes \o Append(BytesOf(open, 3), byte) = Append(bytes \o BytesOf(open, 3), byte)
    <3> DEFINE before == BytesOf(open, 3)
    <3>1. before \in Seq(Byte) /\ bytes \in Seq(Byte) /\ byte \in Byte
      BY <1>6, <1>7, <1>8, <1>12
    <3> HIDE DEF before
    <3>2. bytes \o Append(before, byte) = Append(bytes \o before, byte)
      BY ONLY <3>1, ConcatAppend
    <3> QED BY <3>2 DEF before
  <2> QED BY <1>5, <1>6, <2>1, <2>2, <2>3, <2>5, <2>6, <2>7
<1> QED BY <1>9, <1>11, <1>12

LEMMA DecodedOther ==
  ASSUME NEW state \in Decodes, NEW blocks \in Seq(Seq(Sextet)), blocks # <<>>,
         NEW char \in {Whitespace, Padding, Invalid}, Decoded(state, blocks)
  PROVE  Decoded(DecodeChar(state, char), AddToBlocks(blocks, char))
<1>1. char \in Base64Char
  BY DEF Base64Char
<1>2. CASE char = Padding
  <2> DEFINE new == Append(blocks, <<>>)
             next == DecodeChar(state, char)
  <2>1. AddToBlocks(blocks, char) = new
    BY <1>1, <1>2, Blocking
  <2>2. <<>> \in Seq(Sextet) /\ Len(<<>>) = 0
    BY EmptySeq
  <2>3. new[Len(new)] = <<>>
    BY <2>2, AppendProperties
  <2>4. next.count = 0 /\ next.out = state.out
    <3>1. next = [state EXCEPT !.count = 0]
      BY <1>2, DecodeOther
    <3> QED BY <3>1 DEF Decodes
  <2>6. MeaningOf(new) = MeaningOf(blocks)
    <3>1. MeaningOf(blocks) \in Seq(Byte) /\ MeaningOf(new) = MeaningOf(blocks) \o BytesOf(<<>>, 3)
      BY <2>2, MeaningAppend
    <3> QED BY <3>1, MeaningNone, ConcatEmptySeq
  <2>7. Flushed(state.out) = MeaningOf(blocks)
    BY DEF Decoded
  <2> HIDE DEF new, next
  <2>8. (3 * Len(<<>>)) % 4 = 0
    BY <2>2
  <2> QED BY <2>1, <2>3, <2>4, <2>6, <2>7, <2>8 DEF Decoded, next
<1>3. CASE char # Padding
  <2>1. AddToBlocks(blocks, char) = blocks
    BY <1>1, <1>3, Blocking
  <2> QED BY <1>3, <2>1, DecodeOther
<1> QED BY <1>2, <1>3

(* Base64Codec::writeBase64 gives the bytes a text means, whatever its     *)
(* characters and whatever OutBuffer.                                      *)
THEOREM DecodeIsMeaning ==
  ASSUME NEW text \in Seq(Base64Char)
  PROVE  Base64Decode(text) = Base64Meaning(text) /\ Base64Decode(text) \in Seq(Byte)
<1> DEFINE N == Len(text)
           v == Loop(DecodeChar, DecodeStart, text)
           w == Loop(AddToBlocks, << <<>> >>, text)
<1>1. N \in Nat /\ \A n \in 1..N : text[n] \in Base64Char
  BY LenProperties, ElementOfSeq
<1>2. DecodeStart \in Decodes
  BY NoOutputType DEF DecodeStart, Decodes
<1>3. /\ v \in [0..N -> Decodes] /\ v[0] = DecodeStart
      /\ \A n \in 1..N : v[n] = DecodeChar(v[n - 1], text[n])
  <2>1. \A x \in Decodes, y \in Base64Char : DecodeChar(x, y) \in Decodes
    BY DecodeType
  <2> QED BY <1>2, <2>1, DecodeLoop
<1>4. /\ w \in [0..N -> Seq(Seq(Sextet)) \ {<<>>}] /\ w[0] = << <<>> >>
      /\ \A n \in 1..N : w[n] = AddToBlocks(w[n - 1], text[n])
  BY BlocksStates
<1>5. Base64Decode(text) = Flushed(v[N].out) /\ Base64Meaning(text) = MeaningOf(w[N])
  BY DEF Base64Decode, Base64Meaning, Blocks, MeaningOf
<1> HIDE DEF v, w, N
<1> DEFINE S == {n \in 0..N : Decoded(v[n], w[n])}
<1>6. 0 \in S
  <2> DEFINE blocks == << <<>> >>
  <2>1. <<>> \in Seq(Sextet) /\ Len(<<>>) = 0 /\ <<>> \in Seq(Seq(Sextet))
    BY EmptySeq
  <2>2. blocks = Append(<<>>, <<>>) /\ Len(blocks) = 1 /\ blocks[1] = <<>>
    OBVIOUS
  <2>5. MeaningOf(blocks) = <<>>
    <3>1. MeaningOf(Append(<<>>, <<>>)) = MeaningOf(<<>>) \o BytesOf(<<>>, 3)
      BY <2>1, MeaningAppend
    <3>2. <<>> \o <<>> = <<>>
      OBVIOUS
    <3> QED BY <2>2, <3>1, <3>2, MeaningNone
  <2> HIDE DEF blocks
  <2>6. DecodeStart.count = 0 /\ Flushed(DecodeStart.out) = <<>>
    BY NoOutputType DEF DecodeStart
  <2>7. (3 * Len(<<>>)) % 4 = 0
    BY <2>1
  <2>8. Decoded(DecodeStart, blocks)
    BY <2>2, <2>5, <2>6, <2>7 DEF Decoded
  <2>9. v[0] = DecodeStart /\ w[0] = blocks /\ 0 \in 0..N
    BY <1>1, <1>3, <1>4 DEF blocks
  <2> QED BY <2>8, <2>9
<1>7. ASSUME NEW n \in 1..N, n - 1 \in S PROVE n \in S
  <2>1. n - 1 \in 0..N /\ Decoded(v[n - 1], w[n - 1])
    BY <1>7
  <2>2. v[n - 1] \in Decodes /\ w[n - 1] \in Seq(Seq(Sextet)) /\ w[n - 1] # <<>>
    BY <1>3, <1>4, <2>1
  <2>3. text[n] \in Base64Char
    BY <1>1
  <2>4. Decoded(DecodeChar(v[n - 1], text[n]), AddToBlocks(w[n - 1], text[n]))
    BY <2>1, <2>2, <2>3, DecodedSextet, DecodedOther DEF Base64Char
  <2> QED BY <1>3, <1>4, <2>4
<1> HIDE DEF S
<1>8. 0..N \subseteq S
  BY <1>1, <1>6, <1>7, Induct
<1>9. Decoded(v[N], w[N])
  BY <1>1, <1>8 DEF S
<1>10. Flushed(v[N].out) = MeaningOf(w[N])
  BY <1>9 DEF Decoded
<1>11. MeaningOf(w[N]) \in Seq(Byte)
  <2>1. w[N] \in Seq(Seq(Sextet)) /\ <<>> \in Seq(Sextet)
    BY <1>1, <1>4, EmptySeq
  <2> QED BY <2>1, MeaningAppend
<1> QED BY <1>5, <1>10, <1>11

(* Base64Codec::validate.                                                  *)
LEMMA Scanning ==
  ASSUME NEW verdict \in {"none", "refused"}, NEW pos \in 0..3, NEW char \in Base64Char
  PROVE  LET scan == [verdict |-> verdict, quadPos |-> pos]
             next == ScanChar(scan, char)
         IN  /\ verdict = "refused" => next = scan
             /\ verdict = "none" =>
                  /\ char \in Sextet => next = [verdict |-> "none", quadPos |-> (pos + 1) % 4]
                  /\ char = Whitespace => next = scan
                  /\ char = Padding /\ pos # 1 => next = [verdict |-> "none", quadPos |-> 0]
                  /\ char = Invalid => next = [verdict |-> "refused", quadPos |-> pos]
<1> DEFINE scan == [verdict |-> verdict, quadPos |-> pos]
           next == ScanChar(scan, char)
<1>1. CASE verdict = "refused"
  BY <1>1 DEF ScanChar
<1>2. CASE verdict = "none"
  <2>0. Whitespace # Padding /\ Whitespace # Invalid /\ Padding # Invalid
    BY DEF Whitespace, Padding, Invalid
  <2>1. CASE char \in Sextet
    BY <1>2, <2>1, SextetType DEF ScanChar
  <2>2. CASE char = Whitespace
    BY <1>2, <2>0, <2>2, SextetType DEF ScanChar
  <2>3. CASE char = Padding
    BY <1>2, <2>0, <2>3, SextetType DEF ScanChar
  <2>4. CASE char = Invalid
    BY <1>2, <2>0, <2>4, SextetType DEF ScanChar
  <2> QED BY <2>1, <2>2, <2>3, <2>4 DEF Base64Char
<1> QED BY <1>1, <1>2

Scans == [verdict : {"none", "refused", "accepted"}, quadPos : 0..3]
PaddedWell(blocks) == \A b \in 1..Len(blocks) - 1 : Len(blocks[b]) % 4 # 1
Scanned(scan, blocks, refused) ==
  /\ scan.verdict = IF refused THEN "refused" ELSE "none"
  /\ ~refused => scan.quadPos = Len(blocks[Len(blocks)]) % 4

LEMMA ScanType ==
  ASSUME NEW scan \in Scans, NEW char \in Base64Char
  PROVE  ScanChar(scan, char) \in Scans
<1>1. scan.verdict \in {"none", "refused", "accepted"} /\ scan.quadPos \in 0..3
  BY DEF Scans
<1>2. Whitespace # Padding /\ Whitespace # Invalid /\ Padding # Invalid
  BY DEF Whitespace, Padding, Invalid
<1>3. (scan.quadPos + 1) % 4 \in 0..3
  BY <1>1
<1>4. /\ [scan EXCEPT !.quadPos = (@ + 1) % 4] \in Scans
      /\ [scan EXCEPT !.quadPos = 0] \in Scans
      /\ [scan EXCEPT !.verdict = "accepted"] \in Scans
      /\ [scan EXCEPT !.verdict = "refused"] \in Scans
  BY <1>3 DEF Scans
<1>5. CASE scan.verdict # "none"
  BY <1>5 DEF ScanChar
<1>6. CASE scan.verdict = "none"
  <2>1. CASE char \in Sextet
    BY <1>4, <1>6, <2>1, SextetType DEF ScanChar
  <2>2. CASE char = Whitespace
    BY <1>2, <1>6, <2>2, SextetType DEF ScanChar
  <2>3. CASE char = Padding
    BY <1>2, <1>4, <1>6, <2>3, SextetType DEF ScanChar
  <2>4. CASE char = Invalid
    BY <1>2, <1>4, <1>6, <2>4, SextetType DEF ScanChar
  <2> QED BY <2>1, <2>2, <2>3, <2>4 DEF Base64Char
<1> QED BY <1>5, <1>6

LEMMA PaddedBefore ==
  ASSUME NEW blocks \in Seq(Seq(Sextet)), blocks # <<>>, NEW char \in Base64Char,
         PaddedWell(AddToBlocks(blocks, char))
  PROVE  /\ PaddedWell(blocks)
         /\ char = Padding => Len(blocks[Len(blocks)]) % 4 # 1
<1> DEFINE n == Len(blocks)
           new == AddToBlocks(blocks, char)
<1>1. n \in Nat /\ n \in 1..n
  BY EmptySeq, LenProperties
<1>2. Len(new) \in {n, n + 1} /\ \A b \in 1..n - 1 : new[b] = blocks[b]
  <2>1. CASE char = Padding
    <3>1. new = Append(blocks, <<>>) /\ <<>> \in Seq(Sextet)
      BY <2>1, Blocking, EmptySeq
    <3>2. Len(Append(blocks, <<>>)) = n + 1 /\ \A b \in 1..n : Append(blocks, <<>>)[b] = blocks[b]
      BY <3>1, AppendProperties
    <3> HIDE DEF new, n
    <3> QED BY <1>1, <3>1, <3>2
  <2>2. CASE char \in Sextet
    <3>1. new = [blocks EXCEPT ![n] = Append(blocks[n], char)]
      BY <2>2, Blocking
    <3>2. Append(blocks[n], char) \in Seq(Sextet)
      BY <1>1, <2>2, ElementOfSeq, AppendProperties
    <3>3. /\ Len([blocks EXCEPT ![n] = Append(blocks[n], char)]) = n
          /\ \A b \in 1..n : [blocks EXCEPT ![n] = Append(blocks[n], char)][b]
                              = IF b = n THEN Append(blocks[n], char) ELSE blocks[b]
      BY <1>1, <3>2, ExceptSeq
    <3> HIDE DEF new, n
    <3> QED BY <1>1, <3>1, <3>3
  <2>3. CASE char \in {Whitespace, Invalid}
    <3>1. new = blocks
      BY <2>3, Blocking
    <3> HIDE DEF new
    <3> QED BY <3>1
  <2> QED BY <2>1, <2>2, <2>3 DEF Base64Char
<1>3. char = Padding => Len(new) = n + 1 /\ new[n] = blocks[n]
  <2> SUFFICES ASSUME char = Padding PROVE Len(new) = n + 1 /\ new[n] = blocks[n]
    OBVIOUS
  <2>1. new = Append(blocks, <<>>) /\ <<>> \in Seq(Sextet)
    BY Blocking, EmptySeq
  <2>2. Len(Append(blocks, <<>>)) = n + 1 /\ \A b \in 1..n : Append(blocks, <<>>)[b] = blocks[b]
    BY <2>1, AppendProperties
  <2> HIDE DEF new, n
  <2> QED BY <1>1, <2>1, <2>2
<1>4. \A b \in 1..Len(new) - 1 : Len(new[b]) % 4 # 1
  BY DEF PaddedWell
<1> HIDE DEF new, n
<1>5. \A b \in 1..n - 1 : Len(blocks[b]) % 4 # 1
  <2> TAKE b \in 1..n - 1
  <2>1. b \in 1..Len(new) - 1
    BY <1>1, <1>2
  <2> QED BY <1>2, <1>4, <2>1
<1>6. char = Padding => Len(blocks[n]) % 4 # 1
  <2> SUFFICES ASSUME char = Padding PROVE Len(blocks[n]) % 4 # 1
    OBVIOUS
  <2>1. n \in 1..Len(new) - 1
    BY <1>1, <1>3
  <2> QED BY <1>3, <1>4, <2>1
<1> QED BY <1>5, <1>6 DEF PaddedWell, n

LEMMA QuadNext ==
  ASSUME NEW n \in Nat
  PROVE  (n + 1) % 4 = ((n % 4) + 1) % 4
OBVIOUS

LEMMA ScannedStep ==
  ASSUME NEW scan \in Scans, NEW blocks \in Seq(Seq(Sextet)), blocks # <<>>,
         NEW char \in Base64Char, NEW refused \in BOOLEAN,
         PaddedWell(AddToBlocks(blocks, char)), Scanned(scan, blocks, refused)
  PROVE  Scanned(ScanChar(scan, char), AddToBlocks(blocks, char), refused \/ char = Invalid)
<1> DEFINE n == Len(blocks)
           pos == scan.quadPos
           next == ScanChar(scan, char)
           new == AddToBlocks(blocks, char)
<1>1. n \in 1..n /\ blocks[n] \in Seq(Sextet) /\ Len(blocks[n]) \in Nat
  BY EmptySeq, LenProperties, ElementOfSeq
<1>2. pos \in 0..3 /\ scan = [verdict |-> scan.verdict, quadPos |-> pos]
  BY DEF Scans
<1>3. Whitespace # Padding /\ Whitespace # Invalid /\ Padding # Invalid
  BY DEF Whitespace, Padding, Invalid
<1>4. CASE refused
  <2>1. scan = [verdict |-> "refused", quadPos |-> pos]
    BY <1>2, <1>4 DEF Scanned
  <2>2. next = scan
    BY <1>2, <2>1, Scanning
  <2> QED BY <1>4, <2>1, <2>2 DEF Scanned
<1>5. CASE ~refused
  <2>1. scan = [verdict |-> "none", quadPos |-> pos] /\ pos = Len(blocks[n]) % 4
    BY <1>2, <1>5 DEF Scanned
  <2>2. CASE char \in Sextet
    <3>1. next = [verdict |-> "none", quadPos |-> (pos + 1) % 4]
      BY <1>2, <2>1, <2>2, Scanning
    <3>2. new = [blocks EXCEPT ![n] = Append(blocks[n], char)]
      BY <2>2, Blocking
    <3>3. Append(blocks[n], char) \in Seq(Sextet) /\ Len(Append(blocks[n], char)) = Len(blocks[n]) + 1
      BY <1>1, <2>2, AppendProperties
    <3>4. Len(new) = n /\ new[n] = Append(blocks[n], char)
      BY <1>1, <3>2, <3>3, ExceptSeq
    <3>5. (Len(blocks[n]) + 1) % 4 = ((Len(blocks[n]) % 4) + 1) % 4
      BY <1>1, QuadNext
    <3>6. ~(refused \/ char = Invalid)
      BY <1>5, <2>2, SextetType
    <3>7. next.verdict = "none" /\ next.quadPos = Len(new[Len(new)]) % 4
      <4> HIDE DEF new, next, n, pos
      <4> QED BY <2>1, <3>1, <3>3, <3>4, <3>5
    <3> QED BY <3>6, <3>7 DEF Scanned
  <2>3. CASE char = Whitespace
    <3>1. next = scan /\ new = blocks
      BY <1>2, <2>1, <2>3, Scanning, Blocking
    <3> QED BY <1>3, <1>5, <2>3, <3>1 DEF Scanned
  <2>4. CASE char = Padding
    <3>1. pos # 1
      BY <2>1, <2>4, PaddedBefore
    <3>2. next = [verdict |-> "none", quadPos |-> 0]
      BY <1>2, <2>1, <2>4, <3>1, Scanning
    <3>3. new = Append(blocks, <<>>) /\ <<>> \in Seq(Sextet) /\ Len(<<>>) = 0
      BY <2>4, Blocking, EmptySeq
    <3>4. new[Len(new)] = <<>>
      BY <3>3, AppendProperties
    <3>5. ~(refused \/ char = Invalid)
      BY <1>3, <1>5, <2>4
    <3>6. next.verdict = "none" /\ next.quadPos = Len(new[Len(new)]) % 4
      <4>1. Len(new[Len(new)]) % 4 = 0
        <5>1. 0 % 4 = 0
          OBVIOUS
        <5> HIDE DEF new
        <5> QED BY <3>3, <3>4, <5>1
      <4> HIDE DEF new, next, n, pos
      <4> QED BY <3>2, <4>1
    <3> QED BY <3>5, <3>6 DEF Scanned
  <2>5. CASE char = Invalid
    <3>1. next = [verdict |-> "refused", quadPos |-> pos]
      <4> HIDE DEF pos
      <4>1. char \in Base64Char /\ "none" \in {"none", "refused"}
        OBVIOUS
      <4>2. ScanChar([verdict |-> "none", quadPos |-> pos], char) = [verdict |-> "refused", quadPos |-> pos]
        BY <1>2, <2>5, <4>1, Scanning
      <4> QED BY <2>1, <4>2
    <3> QED BY <2>5, <3>1 DEF Scanned
  <2> QED BY <2>2, <2>3, <2>4, <2>5 DEF Base64Char
<1> QED BY <1>4, <1>5

(* Base64Codec::validate: a text without misplaced padding is refused for  *)
(* an invalid character and for nothing else.                              *)
THEOREM RefusedIfInvalid ==
  ASSUME NEW text \in Seq(Base64Char), ~BadPadding(text)
  PROVE  Base64Valid(text) <=> \A i \in 1..Len(text) : text[i] # Invalid
<1> DEFINE N == Len(text)
           z == Loop(ScanChar, ScanStart, text)
           w == Loop(AddToBlocks, << <<>> >>, text)
           Ref(n) == \E i \in 1..n : text[i] = Invalid
<1>1. N \in Nat /\ \A n \in 1..N : text[n] \in Base64Char
  BY LenProperties, ElementOfSeq
<1>2. /\ z \in [0..N -> Scans] /\ z[0] = ScanStart
      /\ \A n \in 1..N : z[n] = ScanChar(z[n - 1], text[n])
  <2>1. ScanStart \in Scans
    BY DEF ScanStart, Scans
  <2>2. \A x \in Scans, y \in Base64Char : ScanChar(x, y) \in Scans
    BY ScanType
  <2> QED BY <2>1, <2>2, ScanLoop
<1>3. /\ w \in [0..N -> Seq(Seq(Sextet)) \ {<<>>}] /\ w[0] = << <<>> >>
      /\ \A n \in 1..N : w[n] = AddToBlocks(w[n - 1], text[n])
  BY BlocksStates
<1>4. Base64Valid(text) <=> z[N].verdict # "refused"
  BY DEF Base64Valid
<1>5. PaddedWell(w[N])
  BY DEF BadPadding, Blocks, PaddedWell
<1> HIDE DEF z, w, N
<1> DEFINE S == {n \in 0..N : PaddedWell(w[n]) => Scanned(z[n], w[n], Ref(n))}
<1>6. 0 \in S
  <2>1. z[0].verdict = "none" /\ z[0].quadPos = 0
    BY <1>2 DEF ScanStart
  <2>2. Len(w[0][Len(w[0])]) % 4 = 0
    BY <1>3
  <2>3. ~Ref(0)
    OBVIOUS
  <2>4. Scanned(z[0], w[0], Ref(0))
    <3> HIDE DEF Ref
    <3> QED BY <2>1, <2>2, <2>3 DEF Scanned
  <2> HIDE DEF Ref
  <2>5. 0 \in 0..N
    BY <1>1
  <2> QED BY <2>4, <2>5
<1>7. ASSUME NEW n \in 1..N, n - 1 \in S PROVE n \in S
  <2> SUFFICES ASSUME PaddedWell(w[n]) PROVE Scanned(z[n], w[n], Ref(n))
    <3> HIDE DEF Ref
    <3>1. n \in 0..N
      BY <1>1
    <3> QED BY <3>1
  <2>1. n - 1 \in 0..N
    BY <1>1
  <2>2. z[n - 1] \in Scans /\ w[n - 1] \in Seq(Seq(Sextet)) /\ w[n - 1] # <<>>
    BY <1>2, <1>3, <2>1
  <2>3. text[n] \in Base64Char
    BY <1>1
  <2>4. z[n] = ScanChar(z[n - 1], text[n]) /\ w[n] = AddToBlocks(w[n - 1], text[n])
    BY <1>2, <1>3
  <2>5. PaddedWell(w[n - 1])
    BY <2>2, <2>3, <2>4, PaddedBefore
  <2>6. Scanned(z[n - 1], w[n - 1], Ref(n - 1))
    BY <1>7, <2>5
  <2>7. Ref(n) <=> Ref(n - 1) \/ text[n] = Invalid
    <3>1. \A i : i \in 1..n <=> i \in 1..(n - 1) \/ i = n
      BY <1>1
    <3> QED BY <3>1
  <2>8. Ref(n - 1) \in BOOLEAN /\ Ref(n) = (Ref(n - 1) \/ text[n] = Invalid)
    BY <2>7
  <2> HIDE DEF Ref
  <2>9. Scanned(z[n], w[n], Ref(n - 1) \/ text[n] = Invalid)
    BY <2>2, <2>3, <2>4, <2>6, <2>8, ScannedStep
  <2> QED BY <2>8, <2>9
<1> HIDE DEF S, Ref
<1>8. 0..N \subseteq S
  BY <1>1, <1>6, <1>7, Induct
<1>9. Scanned(z[N], w[N], Ref(N))
  BY <1>1, <1>5, <1>8 DEF S
<1>10. z[N].verdict # "refused" <=> ~Ref(N)
  BY <1>9 DEF Scanned
<1> QED BY <1>4, <1>10 DEF N, Ref

(* A text of characters and then paddings means the bytes of those.        *)
LEMMA MeaningOfPadded ==
  ASSUME NEW text \in Seq(Base64Char), NEW C \in 0..Len(text),
         \A i \in 1..C : text[i] \in Sextet, \A i \in (C + 1)..Len(text) : text[i] = Padding
  PROVE  Base64Meaning(text) = BytesOf(SubSeq(text, 1, C), 3)
<1> DEFINE N == Len(text)
           chars == SubSeq(text, 1, C)
           w == Loop(AddToBlocks, << <<>> >>, text)
<1>1. N \in Nat /\ C \in Nat /\ \A i \in 1..N : text[i] \in Base64Char
  BY LenProperties, ElementOfSeq
<1>2. /\ w \in [0..N -> Seq(Seq(Sextet)) \ {<<>>}] /\ w[0] = << <<>> >>
      /\ \A n \in 1..N : w[n] = AddToBlocks(w[n - 1], text[n])
  BY BlocksStates
<1>3. Base64Meaning(text) = MeaningOf(w[N])
  BY DEF Base64Meaning, Blocks, MeaningOf
<1>4. \A n \in 0..C : SubSeq(text, 1, n) \in Seq(Sextet)
  <2> TAKE n \in 0..C
  <2>1. \A i \in 1..n : text[i] \in Sextet
    BY <1>1
  <2> QED BY <1>1, <2>1, SubSeqProperties
<1> HIDE DEF w, N
<1> DEFINE S == {n \in 0..C : w[n] = Append(<<>>, SubSeq(text, 1, n))}
<1>5. 0 \in S
  <2>1. SubSeq(text, 1, 0) = <<>> /\ Append(<<>>, <<>>) = << <<>> >>
    BY SubSeqEmpty
  <2>2. w[0] = Append(<<>>, SubSeq(text, 1, 0)) /\ 0 \in 0..C
    BY <1>1, <1>2, <2>1
  <2> QED BY <2>2
<1>6. ASSUME NEW n \in 1..C, n - 1 \in S PROVE n \in S
  <2> DEFINE s == SubSeq(text, 1, n - 1)
             b == Append(<<>>, s)
  <2>1. s \in Seq(Sextet) /\ n \in 1..N /\ text[n] \in Sextet
    BY <1>1, <1>4 DEF N
  <2>2. w[n - 1] = b /\ w[n] = AddToBlocks(w[n - 1], text[n])
    BY <1>2, <1>6, <2>1
  <2>3. b \in Seq(Seq(Sextet)) /\ b # <<>> /\ Len(b) = 1 /\ b[1] = s
    <3>1. <<>> \in Seq(Seq(Sextet)) /\ Len(<<>>) = 0
      BY EmptySeq
    <3> HIDE DEF s
    <3> QED BY <2>1, <3>1, AppendProperties
  <2>4. SubSeq(text, 1, n) = Append(s, text[n])
    BY <2>1, PrefixNext DEF N
  <2> HIDE DEF s, b
  <2>5. w[n] = [b EXCEPT ![1] = Append(s, text[n])]
    <3>1. text[n] \in Base64Char
      BY <2>1 DEF Base64Char
    <3>2. AddToBlocks(b, text[n]) = [b EXCEPT ![Len(b)] = Append(b[Len(b)], text[n])]
      BY <2>1, <2>3, <3>1, Blocking
    <3> QED BY <2>2, <2>3, <3>2
  <2>6. Append(s, text[n]) \in Seq(Sextet)
    BY <2>1, AppendProperties
  <2>7. [b EXCEPT ![1] = Append(s, text[n])] = Append(<<>>, Append(s, text[n]))
    <3> DEFINE t == Append(s, text[n])
               x == [b EXCEPT ![1] = t]
               y == Append(<<>>, t)
    <3>1. x \in Seq(Seq(Sextet)) /\ Len(x) = 1 /\ x[1] = t
      BY <2>3, <2>6, ExceptSeq
    <3>2. <<>> \in Seq(Seq(Sextet)) /\ Len(<<>>) = 0
      BY EmptySeq
    <3>3. y \in Seq(Seq(Sextet)) /\ Len(y) = 1 /\ y[1] = t
      <4> HIDE DEF t
      <4> QED BY <2>6, <3>2, AppendProperties DEF t
    <3> HIDE DEF x, y, t
    <3>4. \A i \in 1..Len(x) : x[i] = y[i]
      BY <3>1, <3>3
    <3>5. x = y
      BY <3>1, <3>3, <3>4, SeqEqual
    <3> QED BY <3>5 DEF x, y, t
  <2>8. w[n] = Append(<<>>, SubSeq(text, 1, n))
    BY <2>4, <2>5, <2>7
  <2> QED BY <1>1, <2>8
<1> HIDE DEF S
<1>7. 0..C \subseteq S
  BY <1>1, <1>5, <1>6, Induct
<1>8. MeaningOf(w[C]) = BytesOf(chars, 3)
  <2>1. w[C] = Append(<<>>, chars) /\ chars \in Seq(Sextet)
    BY <1>1, <1>4, <1>7 DEF S
  <2> HIDE DEF chars
  <2>2. <<>> \in Seq(Seq(Sextet)) /\ BytesOf(chars, 3) \in Seq(Byte)
    BY <2>1, EmptySeq, BytesOfType
  <2>3. MeaningOf(w[C]) = MeaningOf(<<>>) \o BytesOf(chars, 3)
    BY <2>1, <2>2, MeaningAppend
  <2> QED BY <2>2, <2>3, MeaningNone, ConcatEmptySeq
<1> DEFINE T == {m \in 0..(N - C) : MeaningOf(w[C + m]) = BytesOf(chars, 3)}
<1> HIDE DEF chars
<1>9. N - C \in Nat /\ C + (N - C) = N /\ C + 0 = C
  BY <1>1 DEF N
<1>10. 0 \in T
  BY <1>8, <1>9
<1>11. ASSUME NEW m \in 1..(N - C), m - 1 \in T PROVE m \in T
  <2> DEFINE n == C + m
  <2>1. n \in 1..N /\ n - 1 = C + (m - 1) /\ n - 1 \in 0..N /\ n \in (C + 1)..N
    BY <1>1, <1>9
  <2>2. MeaningOf(w[n - 1]) = BytesOf(chars, 3)
    BY <1>11, <2>1
  <2> HIDE DEF n
  <2>3. text[n] = Padding /\ w[n - 1] \in Seq(Seq(Sextet)) /\ w[n - 1] # <<>>
    BY <1>2, <2>1 DEF N
  <2>4. w[n] = Append(w[n - 1], <<>>)
    BY <1>2, <2>1, <2>3, Blocking DEF Base64Char
  <2>5. <<>> \in Seq(Sextet)
    BY EmptySeq
  <2>6. MeaningOf(w[n]) = MeaningOf(w[n - 1])
    <3>1. /\ MeaningOf(w[n - 1]) \in Seq(Byte)
          /\ MeaningOf(Append(w[n - 1], <<>>)) = MeaningOf(w[n - 1]) \o BytesOf(<<>>, 3)
      BY <2>3, <2>5, MeaningAppend
    <3> QED BY <2>4, <3>1, MeaningNone, ConcatEmptySeq
  <2> QED BY <1>9, <2>2, <2>6 DEF n
<1> HIDE DEF T
<1>12. 0..(N - C) \subseteq T
  BY <1>9, <1>10, <1>11, Induct
<1>13. MeaningOf(w[N]) = BytesOf(chars, 3)
  BY <1>9, <1>12 DEF T
<1> QED BY <1>3, <1>13 DEF chars

LEMMA QuadPairs ==
  ASSUME NEW a \in Byte, NEW b \in Byte, NEW c \in Byte, NEW i \in 1..4
  PROVE  /\ Quad(a, b, c)[i] \in Sextet
         /\ \A j \in 0..2 : Pair(Quad(a, b, c)[i], j) =
              IF 3 * (4 - i) + j < 4 THEN Pair(c, 3 * (4 - i) + j)
              ELSE IF 3 * (4 - i) + j < 8 THEN Pair(b, (3 * (4 - i) + j) - 4)
              ELSE Pair(a, (3 * (4 - i) + j) - 8)
<1> DEFINE x == a * Quarters(4) + b
           all == x * Quarters(4) + c
           m == 3 * (4 - i)
           char == Quad(a, b, c)[i]
           rest == all \div Quarters(m)
<1>1. /\ Quarters(4) \in Nat /\ Quarters(4) > 0 /\ Quarters(3) \in Nat /\ Quarters(3) > 0
  BY QuartersType
<1>2. /\ a \in Nat /\ b \in Nat /\ c \in Nat /\ a \in 0..(Quarters(4) - 1)
      /\ b \in 0..(Quarters(4) - 1) /\ c \in 0..(Quarters(4) - 1)
  BY SextetType DEF Byte
<1>3. char = rest % Quarters(3)
  BY DEF Quad
<1>4. \A k \in Nat : Pair(x, k) = IF k < 4 THEN Pair(b, k) ELSE Pair(a, k - 4)
  BY <1>2, PairJoin
<1>5. x \in Nat
  BY <1>1, <1>2, ProductType
<1> HIDE DEF x, char
<1>6. \A k \in Nat : Pair(all, k) = IF k < 4 THEN Pair(c, k) ELSE Pair(x, k - 4)
  BY <1>2, <1>5, PairJoin
<1>7. all \in Nat
  BY <1>1, <1>2, <1>5, ProductType
<1>8. m \in Nat
  OBVIOUS
<1> HIDE DEF all, m
<1>9. rest \in Int
  BY <1>7, <1>8, QuartersType, DivMod
<1>10. \A k \in Nat : Pair(rest, k) = Pair(all, m + k)
  BY <1>7, <1>8, PairShift
<1> HIDE DEF rest
<1>11. char \in Sextet
  BY <1>1, <1>3, <1>9, DivMod DEF Sextet
<1>12. ASSUME NEW j \in 0..2
       PROVE  Pair(char, j) = IF m + j < 4 THEN Pair(c, m + j)
                              ELSE IF m + j < 8 THEN Pair(b, (m + j) - 4) ELSE Pair(a, (m + j) - 8)
  <2>1. Pair(char, j) = Pair(rest, j)
    <3>1. j \in 0..(3 - 1) /\ 3 \in Nat
      OBVIOUS
    <3> QED BY <1>3, <1>9, <3>1, PairMask
  <2>2. Pair(char, j) = Pair(all, m + j) /\ m + j \in Nat
    BY <1>8, <1>10, <2>1
  <2>3. ~(m + j < 4) => /\ (m + j) - 4 \in Nat /\ ((m + j) - 4 < 4 <=> m + j < 8)
                        /\ ((m + j) - 4) - 4 = (m + j) - 8
    BY <2>2
  <2> QED BY <1>4, <1>6, <2>2, <2>3
<1> QED BY <1>11, <1>12 DEF char, m

LEMMA PaddedOnePairs ==
  ASSUME NEW a \in Byte
  PROVE  /\ PaddedOne(a)[1] \in Sextet /\ PaddedOne(a)[2] \in Sextet
         /\ PaddedOne(a)[3] = Padding /\ PaddedOne(a)[4] = Padding
         /\ \A j \in 0..2 : Pair(PaddedOne(a)[1], j) = Pair(a, j + 1)
         /\ Pair(PaddedOne(a)[2], 2) = Pair(a, 0)
<1> DEFINE x == a \div Quarter
           y == (a * Quarters(2)) % Quarters(3)
<1>1. PaddedOne(a) = <<x, y, Padding, Padding>>
  BY DEF PaddedOne
<1>2. /\ Quarters(2) \in Nat /\ Quarters(2) > 0 /\ Quarters(3) \in Nat /\ Quarters(3) > 0
      /\ Quarters(3 + 1) = Quarters(3) * Quarter /\ 3 + 1 = 4
  BY QuartersType, QuartersNext
<1>3. a \in Nat /\ a \in 0..(Quarters(3) * Quarter - 1)
  BY <1>2, SextetType DEF Byte
<1>4. x \in Sextet
  BY <1>2, <1>3, QuarterType, DivBound DEF Sextet
<1>5. \A k \in Nat : Pair(x, k) = Pair(a, 1 + k)
  <2>1. \A k \in Nat : Pair(a \div Quarters(1), k) = Pair(a, 1 + k)
    BY <1>3, PairShift
  <2> QED BY <2>1, QuartersOne
<1> DEFINE z == a * Quarters(2)
<1>6. z \in Int /\ y = z % Quarters(3)
  BY <1>2, <1>3, ProductType
<1> HIDE DEF x, z, y
<1>7. y \in Sextet
  BY <1>2, <1>6, DivMod DEF Sextet
<1>8. Pair(y, 2) = Pair(a, 0)
  <2>1. 2 \in 0..(3 - 1) /\ 3 \in Nat
    OBVIOUS
  <2>2. Pair(y, 2) = Pair(z, 2)
    BY <1>6, <2>1, PairMask
  <2>3. 0 \in 0..(Quarters(2) - 1) /\ 2 \in Nat
    BY <1>2
  <2>4. Pair(a * Quarters(2) + 0, 2) = IF 2 < 2 THEN Pair(0, 2) ELSE Pair(a, 2 - 2)
    BY <1>3, <2>3, PairJoin
  <2>5. a * Quarters(2) + 0 = z
    BY <1>6 DEF z
  <2> QED BY <2>2, <2>4, <2>5
<1>9. \A j \in 0..2 : Pair(x, j) = Pair(a, j + 1)
  <2> TAKE j \in 0..2
  <2>1. j \in Nat /\ 1 + j = j + 1
    OBVIOUS
  <2> QED BY <1>5, <2>1
<1> QED BY <1>1, <1>4, <1>7, <1>8, <1>9

LEMMA PaddedTwoPairs ==
  ASSUME NEW a \in Byte, NEW b \in Byte
  PROVE  /\ \A i \in 1..3 : PaddedTwo(a, b)[i] \in Sextet
         /\ PaddedTwo(a, b)[4] = Padding
         /\ \A j \in 0..2 : /\ Pair(PaddedTwo(a, b)[1], j) = Pair(a, j + 1)
                            /\ Pair(PaddedTwo(a, b)[2], j) =
                                 IF j < 2 THEN Pair(b, j + 2) ELSE Pair(a, 0)
         /\ \A j \in 1..2 : Pair(PaddedTwo(a, b)[3], j) = Pair(b, j - 1)
<1> DEFINE both == a * Quarters(4) + b
           x == both \div Quarters(5)
           r == both \div Quarters(2)
           y == r % Quarters(3)
           s == both * Quarter
           z == s % Quarters(3)
<1>1. PaddedTwo(a, b) = <<x, y, z, Padding>>
  BY DEF PaddedTwo
<1>2. /\ Quarters(2) \in Nat /\ Quarters(2) > 0 /\ Quarters(3) \in Nat /\ Quarters(3) > 0
      /\ Quarters(4) \in Nat /\ Quarters(5) \in Nat /\ Quarters(5) > 0
  BY QuartersType
<1>3. a \in Nat /\ b \in Nat /\ a \in 0..(Quarters(4) - 1) /\ b \in 0..(Quarters(4) - 1)
  BY SextetType DEF Byte
<1>4. both \in 0..(Quarters(4) * Quarters(4) - 1) /\ both \in Nat
  <2>1. both \in 0..(Quarters(4) * Quarters(4) - 1)
    BY <1>2, <1>3, JoinBound
  <2> HIDE DEF both
  <2> QED BY <2>1
<1>5. \A k \in Nat : Pair(both, k) = IF k < 4 THEN Pair(b, k) ELSE Pair(a, k - 4)
  BY <1>3, PairJoin
<1> HIDE DEF both
<1>6. x \in Sextet
  <2>1. Quarters(4) * Quarters(4) = Quarters(3) * Quarters(5)
    <3>1. /\ Quarters(4 + 4) = Quarters(4) * Quarters(4) /\ Quarters(3 + 5) = Quarters(3) * Quarters(5)
          /\ 4 + 4 = 3 + 5
      BY QuartersSum
    <3> QED BY <3>1
  <2>2. both \in 0..(Quarters(3) * Quarters(5) - 1)
    BY <1>4, <2>1
  <2> QED BY <1>2, <2>2, DivBound DEF Sextet
<1>7. \A k \in Nat : Pair(x, k) = Pair(both, 5 + k)
  BY <1>4, PairShift
<1>8. r \in Int /\ \A k \in Nat : Pair(r, k) = Pair(both, 2 + k)
  <2>1. r \in Int
    BY <1>2, <1>4, DivMod
  <2>2. \A k \in Nat : Pair(r, k) = Pair(both, 2 + k)
    BY <1>4, PairShift
  <2> QED BY <2>1, <2>2
<1>9. s \in Int
  BY <1>4, QuarterType, ProductType
<1>10. \A k \in Nat : Pair(s, k) = IF k < 1 THEN Pair(0, k) ELSE Pair(both, k - 1)
  <2>1. 0 \in 0..(Quarters(1) - 1)
    BY QuartersOne, QuarterType
  <2>2. \A k \in Nat : Pair(both * Quarters(1) + 0, k) = IF k < 1 THEN Pair(0, k) ELSE Pair(both, k - 1)
    BY <1>4, <2>1, PairJoin
  <2>3. both * Quarters(1) + 0 = s
    BY <1>9, QuartersOne
  <2> HIDE DEF s
  <2> QED BY <2>2, <2>3
<1> HIDE DEF x, r, s
<1>11. y \in Sextet /\ z \in Sextet
  BY <1>2, <1>8, <1>9, DivMod DEF Sextet
<1>12. \A j \in 0..2 : Pair(y, j) = Pair(r, j) /\ Pair(z, j) = Pair(s, j)
  <2>1. 3 \in Nat /\ 3 - 1 = 2
    OBVIOUS
  <2>2. \A j \in 0..(3 - 1) : Pair(r % Quarters(3), j) = Pair(r, j) /\ Pair(s % Quarters(3), j) = Pair(s, j)
    BY <1>8, <1>9, <2>1, PairMask
  <2> QED BY <2>1, <2>2
<1> HIDE DEF y, z
<1>13. \A j \in 0..2 : Pair(x, j) = Pair(a, j + 1)
  <2> TAKE j \in 0..2
  <2>1. j \in Nat /\ 5 + j \in Nat /\ ~(5 + j < 4) /\ (5 + j) - 4 = j + 1
    OBVIOUS
  <2> QED BY <1>5, <1>7, <2>1
<1>14. \A j \in 0..2 : Pair(y, j) = IF j < 2 THEN Pair(b, j + 2) ELSE Pair(a, 0)
  <2> TAKE j \in 0..2
  <2>1. j \in Nat /\ 2 + j \in Nat /\ (2 + j < 4 <=> j < 2) /\ 2 + j = j + 2 /\ (~(j < 2) => (2 + j) - 4 = 0)
    OBVIOUS
  <2>2. Pair(y, j) = Pair(both, 2 + j)
    BY <1>8, <1>12, <2>1
  <2> QED BY <1>5, <2>1, <2>2
<1>15. \A j \in 1..2 : Pair(z, j) = Pair(b, j - 1)
  <2> TAKE j \in 1..2
  <2>1. j \in Nat /\ j \in 0..2 /\ ~(j < 1) /\ j - 1 \in Nat /\ j - 1 < 4
    OBVIOUS
  <2> QED BY <1>5, <1>10, <1>12, <2>1
<1>16. \A i \in 1..3 : i = 1 \/ i = 2 \/ i = 3
  OBVIOUS
<1> QED BY <1>1, <1>6, <1>11, <1>13, <1>14, <1>15, <1>16

(* The quads of an encoded text: w whole ones and what is left.            *)
LEMMA EncodeParts ==
  ASSUME NEW bytes \in Seq(Byte)
  PROVE  LET w == Len(bytes) \div 3
             left == Len(bytes) % 3
             text == Base64Encode(bytes)
         IN  /\ text \in Seq(Base64Char)
             /\ Len(text) = 4 * w + (IF left = 0 THEN 0 ELSE 4)
             /\ \A q \in 0..(w - 1), u \in 1..4 :
                  text[4 * q + u] = Quad(bytes[3 * q + 1], bytes[3 * q + 2], bytes[3 * q + 3])[u]
             /\ left = 1 => \A u \in 1..4 : text[4 * w + u] = PaddedOne(bytes[3 * w + 1])[u]
             /\ left = 2 => \A u \in 1..4 :
                  text[4 * w + u] = PaddedTwo(bytes[3 * w + 1], bytes[3 * w + 2])[u]
<1> DEFINE N == Len(bytes)
           w == N \div 3
           left == N % 3
           Quads == [q \in 1..w |-> Quad(bytes[3 * q - 2], bytes[3 * q - 1], bytes[3 * q])]
           body == [i \in 1..4 * w |-> Quads[(i + 3) \div 4][((i + 3) % 4) + 1]]
           pad == CASE left = 0 -> <<>>
                    [] left = 1 -> PaddedOne(bytes[3 * w + 1])
                    [] left = 2 -> PaddedTwo(bytes[3 * w + 1], bytes[3 * w + 2])
           text == Base64Encode(bytes)
<1>1. N \in Nat /\ w \in Nat /\ left \in 0..2 /\ N = 3 * w + left /\ 4 * w \in Nat
  BY LenProperties
<1>2. text = body \o pad
  BY DEF Base64Encode
<1>3. \A i \in 1..N : bytes[i] \in Byte
  BY ElementOfSeq
<1> HIDE DEF text, N, w, left
<1>4. \A q \in 0..(w - 1), u \in 1..4 :
        /\ 4 * q + u \in 1..4 * w
        /\ ((4 * q + u) + 3) \div 4 = q + 1 /\ (((4 * q + u) + 3) % 4) + 1 = u
  BY <1>1
<1>5. \A q \in 0..(w - 1), u \in 1..4 :
        /\ body[4 * q + u] = Quad(bytes[3 * q + 1], bytes[3 * q + 2], bytes[3 * q + 3])[u]
        /\ body[4 * q + u] \in Sextet
  <2> TAKE q \in 0..(w - 1), u \in 1..4
  <2>1. body[4 * q + u] = Quads[q + 1][u]
    BY <1>4
  <2>2. q + 1 \in 1..w /\ 3 * (q + 1) - 2 = 3 * q + 1 /\ 3 * (q + 1) - 1 = 3 * q + 2 /\ 3 * (q + 1) = 3 * q + 3
    BY <1>1
  <2>3. Quads[q + 1] = Quad(bytes[3 * q + 1], bytes[3 * q + 2], bytes[3 * q + 3])
    BY <2>2
  <2>4. 3 * q + 1 \in 1..N /\ 3 * q + 2 \in 1..N /\ 3 * q + 3 \in 1..N
    BY <1>1
  <2> HIDE DEF Quads, body
  <2>5. Quad(bytes[3 * q + 1], bytes[3 * q + 2], bytes[3 * q + 3])[u] \in Sextet
    BY <1>3, <2>4, QuadPairs
  <2> QED BY <2>1, <2>3, <2>5
<1>6. \A i \in 1..4 * w : \E q \in 0..(w - 1), u \in 1..4 : i = 4 * q + u
  <2> TAKE i \in 1..4 * w
  <2> DEFINE q == (i - 1) \div 4
             u == ((i - 1) % 4) + 1
  <2>1. q \in 0..(w - 1) /\ u \in 1..4 /\ i = 4 * q + u
    BY <1>1
  <2> HIDE DEF q, u
  <2> QED BY <2>1
<1>7. body \in [1..4 * w -> Sextet]
  <2> DEFINE f == Quads
  <2>1. body = [i \in 1..4 * w |-> body[i]]
    OBVIOUS
  <2>2. \A i \in 1..4 * w : body[i] \in Sextet
    <3> HIDE DEF body
    <3> QED BY <1>5, <1>6
  <2> HIDE DEF body
  <2> QED BY <2>1, <2>2
<1> HIDE DEF Quads, body
<1>8. body \in Seq(Sextet) /\ Len(body) = 4 * w
  BY <1>1, <1>7, IsSequence
<1>9. body \in Seq(Base64Char)
  BY <1>8, SeqMonotonic DEF Base64Char
<1>10. left = 0 => pad = <<>>
  OBVIOUS
<1>11. left = 1 => /\ pad = PaddedOne(bytes[3 * w + 1])
                   /\ pad \in Seq(Base64Char) /\ Len(pad) = 4
  <2> SUFFICES ASSUME left = 1 PROVE /\ pad = PaddedOne(bytes[3 * w + 1])
                                     /\ pad \in Seq(Base64Char) /\ Len(pad) = 4
    OBVIOUS
  <2>1. pad = PaddedOne(bytes[3 * w + 1])
    OBVIOUS
  <2>2. 3 * w + 1 \in 1..N
    BY <1>1
  <2> DEFINE a == bytes[3 * w + 1]
  <2>3. a \in Byte
    BY <1>3, <2>2
  <2> HIDE DEF pad, a
  <2>4. /\ PaddedOne(a)[1] \in Sextet /\ PaddedOne(a)[2] \in Sextet
        /\ PaddedOne(a)[3] = Padding /\ PaddedOne(a)[4] = Padding
    BY <2>3, PaddedOnePairs
  <2> DEFINE x == a \div Quarter
             y == (a * Quarters(2)) % Quarters(3)
  <2>5. PaddedOne(a) = <<x, y, Padding, Padding>>
    BY DEF PaddedOne
  <2> HIDE DEF x, y
  <2>6. x \in Base64Char /\ y \in Base64Char /\ Padding \in Base64Char
    BY <2>4, <2>5 DEF Base64Char
  <2>7. <<x, y, Padding, Padding>> \in Seq(Base64Char) /\ Len(<<x, y, Padding, Padding>>) = 4
    BY <2>6
  <2> QED BY <2>1, <2>5, <2>7 DEF a
<1>12. left = 2 => /\ pad = PaddedTwo(bytes[3 * w + 1], bytes[3 * w + 2])
                   /\ pad \in Seq(Base64Char) /\ Len(pad) = 4
  <2> SUFFICES ASSUME left = 2 PROVE /\ pad = PaddedTwo(bytes[3 * w + 1], bytes[3 * w + 2])
                                     /\ pad \in Seq(Base64Char) /\ Len(pad) = 4
    OBVIOUS
  <2>1. pad = PaddedTwo(bytes[3 * w + 1], bytes[3 * w + 2])
    OBVIOUS
  <2>2. 3 * w + 1 \in 1..N /\ 3 * w + 2 \in 1..N
    BY <1>1
  <2> DEFINE a == bytes[3 * w + 1]
             b == bytes[3 * w + 2]
  <2>3. a \in Byte /\ b \in Byte
    BY <1>3, <2>2
  <2> HIDE DEF pad, a, b
  <2>4. PaddedTwo(a, b)[4] = Padding /\ \A i \in 1..3 : PaddedTwo(a, b)[i] \in Sextet
    BY <2>3, PaddedTwoPairs
  <2> DEFINE both == a * Quarters(4) + b
             x == both \div Quarters(5)
             y == (both \div Quarters(2)) % Quarters(3)
             z == (both * Quarter) % Quarters(3)
  <2>5. PaddedTwo(a, b) = <<x, y, z, Padding>>
    BY DEF PaddedTwo
  <2> HIDE DEF x, y, z
  <2>6. x \in Base64Char /\ y \in Base64Char /\ z \in Base64Char /\ Padding \in Base64Char
    BY <2>4, <2>5 DEF Base64Char
  <2>7. <<x, y, z, Padding>> \in Seq(Base64Char) /\ Len(<<x, y, z, Padding>>) = 4
    BY <2>6
  <2> QED BY <2>1, <2>5, <2>7 DEF a, b
<1>13. pad \in Seq(Base64Char) /\ Len(pad) = IF left = 0 THEN 0 ELSE 4
  <2>1. <<>> \in Seq(Base64Char) /\ Len(<<>>) = 0
    BY EmptySeq
  <2> HIDE DEF pad
  <2>2. CASE left = 0
    <3>1. pad = <<>>
      BY <1>10, <2>2
    <3> QED BY <2>1, <2>2, <3>1
  <2>3. CASE left = 1
    BY <1>11, <2>3
  <2>4. CASE left = 2
    BY <1>12, <2>4
  <2> QED BY <1>1, <2>2, <2>3, <2>4
<1> HIDE DEF pad
<1>14. /\ text \in Seq(Base64Char) /\ Len(text) = 4 * w + Len(pad)
       /\ \A i \in 1..4 * w + Len(pad) : text[i] = IF i <= 4 * w THEN body[i] ELSE pad[i - 4 * w]
  <2>1. /\ body \o pad \in Seq(Base64Char) /\ Len(body \o pad) = Len(body) + Len(pad)
        /\ \A i \in 1..Len(body) + Len(pad) :
             (body \o pad)[i] = IF i <= Len(body) THEN body[i] ELSE pad[i - Len(body)]
    BY <1>9, <1>13, ConcatProperties
  <2> QED BY <1>2, <1>8, <2>1
<1>15. \A q \in 0..(w - 1), u \in 1..4 :
         text[4 * q + u] = Quad(bytes[3 * q + 1], bytes[3 * q + 2], bytes[3 * q + 3])[u]
  <2> TAKE q \in 0..(w - 1), u \in 1..4
  <2>1. 4 * q + u \in 1..4 * w /\ 4 * q + u <= 4 * w
    BY <1>1, <1>4
  <2>2. 4 * q + u \in 1..4 * w + Len(pad)
    BY <1>1, <1>13, <2>1
  <2> QED BY <1>5, <1>14, <2>1, <2>2
<1>16. left # 0 => \A u \in 1..4 : text[4 * w + u] = pad[u]
  <2> SUFFICES ASSUME left # 0, NEW u \in 1..4 PROVE text[4 * w + u] = pad[u]
    OBVIOUS
  <2>1. 4 * w + u \in 1..4 * w + Len(pad) /\ ~(4 * w + u <= 4 * w) /\ (4 * w + u) - 4 * w = u
    BY <1>1, <1>13
  <2> QED BY <1>14, <2>1
<1>17. left = 1 => \A u \in 1..4 : text[4 * w + u] = PaddedOne(bytes[3 * w + 1])[u]
  BY <1>11, <1>16
<1>18. left = 2 => \A u \in 1..4 : text[4 * w + u] = PaddedTwo(bytes[3 * w + 1], bytes[3 * w + 2])[u]
  BY <1>12, <1>16
<1> QED BY <1>13, <1>14, <1>15, <1>17, <1>18 DEF text, N, w, left

(* Pair k of byte t of three is pair j of character u of four.             *)
CharOf(t, k) == ((4 * t - k) - 1) \div 3 + 1
PairOf(t, k) == 2 - (((4 * t - k) - 1) % 3)

LEMMA CharIndex ==
  ASSUME NEW q \in Nat, NEW t \in 1..3, NEW k \in 0..3
  PROVE  /\ CharOf(3 * q + t, k) = 4 * q + CharOf(t, k) /\ PairOf(3 * q + t, k) = PairOf(t, k)
         /\ CharOf(t, k) \in 1..4 /\ PairOf(t, k) \in 0..2
         /\ 3 * (4 - CharOf(t, k)) + PairOf(t, k) = (12 - 4 * t) + k
<1> DEFINE x == (4 * t - k) - 1
           y == (4 * (3 * q + t) - k) - 1
           d == x \div 3
           r == x % 3
<1>1. x \in 0..11
  OBVIOUS
<1>2. d \in 0..3 /\ r \in 0..2 /\ x = d * 3 + r
  <2> HIDE DEF x
  <2> QED BY <1>1
<1>3. y = 12 * q + x
  OBVIOUS
<1> HIDE DEF x, y, d, r
<1>4. y = (4 * q + d) * 3 + r
  BY <1>2, <1>3
<1>5. y \div 3 = 4 * q + d /\ y % 3 = r
  BY <1>2, <1>4, DivUnique
<1>6. CharOf(3 * q + t, k) = (4 * q + d) + 1 /\ PairOf(3 * q + t, k) = 2 - r
  BY <1>5 DEF CharOf, PairOf, y
<1>7. CharOf(t, k) = d + 1 /\ PairOf(t, k) = 2 - r
  BY DEF CharOf, PairOf, d, r, x
<1>8. 3 * (4 - (d + 1)) + (2 - r) = 11 - x
  BY <1>2
<1>9. 11 - x = (12 - 4 * t) + k
  BY DEF x
<1> QED BY <1>2, <1>6, <1>7, <1>8, <1>9

LEMMA CharCases ==
  /\ \A k \in 1..3 : CharOf(1, k) = 1 /\ PairOf(1, k) = k - 1
  /\ CharOf(1, 0) = 2 /\ PairOf(1, 0) = 2
  /\ \A k \in 2..3 : CharOf(2, k) = 2 /\ PairOf(2, k) = k - 2
  /\ \A k \in 0..1 : CharOf(2, k) = 3 /\ PairOf(2, k) = k + 1
BY DEF CharOf, PairOf

(* Base64Codec: an encoded text is read back as the bytes it was made of.  *)
THEOREM Base64There ==
  ASSUME NEW bytes \in Seq(Byte)
  PROVE  /\ Base64Decode(Base64Encode(bytes)) = bytes
         /\ Len(Base64Encode(bytes)) % 4 = 0
<1> DEFINE N == Len(bytes)
           w == N \div 3
           left == N % 3
           text == Base64Encode(bytes)
           C == 4 * w + (IF left = 0 THEN 0 ELSE left + 1)
           out == BytesOf(SubSeq(text, 1, C), 3)
<1>1. N \in Nat /\ w \in Nat /\ left \in 0..2 /\ N = 3 * w + left
  BY LenProperties
<1>2. /\ text \in Seq(Base64Char) /\ Len(text) = 4 * w + (IF left = 0 THEN 0 ELSE 4)
      /\ \A q \in 0..(w - 1), u \in 1..4 :
           text[4 * q + u] = Quad(bytes[3 * q + 1], bytes[3 * q + 2], bytes[3 * q + 3])[u]
      /\ left = 1 => \A u \in 1..4 : text[4 * w + u] = PaddedOne(bytes[3 * w + 1])[u]
      /\ left = 2 => \A u \in 1..4 : text[4 * w + u] = PaddedTwo(bytes[3 * w + 1], bytes[3 * w + 2])[u]
  BY EncodeParts
<1>3. \A i \in 1..N : bytes[i] \in Byte
  BY ElementOfSeq
<1> HIDE DEF text, w, left, N
<1>4. \A q \in 0..(w - 1) : /\ bytes[3 * q + 1] \in Byte /\ bytes[3 * q + 2] \in Byte
                            /\ bytes[3 * q + 3] \in Byte
  <2> TAKE q \in 0..(w - 1)
  <2>1. 3 * q + 1 \in 1..N /\ 3 * q + 2 \in 1..N /\ 3 * q + 3 \in 1..N
    BY <1>1
  <2> QED BY <1>3, <2>1
<1>5. /\ left > 0 => bytes[3 * w + 1] \in Byte
      /\ left = 2 => bytes[3 * w + 2] \in Byte
  <2>1. /\ left > 0 => 3 * w + 1 \in 1..N
        /\ left = 2 => 3 * w + 2 \in 1..N
    BY <1>1
  <2> QED BY <1>3, <2>1
<1>6. C \in 0..Len(text) /\ C \in Nat /\ (3 * C) \div 4 = N
  BY <1>1, <1>2
<1>7. \A i \in 1..C : text[i] \in Sextet
  <2> TAKE i \in 1..C
  <2>1. CASE i <= 4 * w
    <3> DEFINE q == (i - 1) \div 4
               u == ((i - 1) % 4) + 1
    <3>1. q \in 0..(w - 1) /\ u \in 1..4 /\ i = 4 * q + u
      BY <1>1, <2>1
    <3> HIDE DEF q, u
    <3>2. text[4 * q + u] = Quad(bytes[3 * q + 1], bytes[3 * q + 2], bytes[3 * q + 3])[u]
      BY <1>2, <3>1
    <3> QED BY <1>4, <3>1, <3>2, QuadPairs
  <2>2. CASE ~(i <= 4 * w) /\ left = 1
    <3>1. i = 4 * w + 1 \/ i = 4 * w + 2
      BY <1>1, <1>6, <2>2
    <3>2. text[i] = PaddedOne(bytes[3 * w + 1])[1] \/ text[i] = PaddedOne(bytes[3 * w + 1])[2]
      BY <1>2, <2>2, <3>1
    <3> QED BY <1>5, <2>2, <3>2, PaddedOnePairs
  <2>3. CASE ~(i <= 4 * w) /\ left = 2
    <3>1. i = 4 * w + (i - 4 * w) /\ i - 4 * w \in 1..3 /\ i - 4 * w \in 1..4
      BY <1>1, <1>6, <2>3
    <3>2. text[i] = PaddedTwo(bytes[3 * w + 1], bytes[3 * w + 2])[i - 4 * w]
      BY <1>2, <2>3, <3>1
    <3> QED BY <1>5, <2>3, <3>1, <3>2, PaddedTwoPairs
  <2>4. left = 0 => i <= 4 * w
    BY <1>1
  <2> QED BY <1>1, <2>1, <2>2, <2>3, <2>4
<1>8. \A i \in (C + 1)..Len(text) : text[i] = Padding
  <2> TAKE i \in (C + 1)..Len(text)
  <2>1. CASE left = 1
    <3>1. i = 4 * w + 3 \/ i = 4 * w + 4
      BY <1>1, <1>2, <2>1
    <3>2. text[i] = PaddedOne(bytes[3 * w + 1])[3] \/ text[i] = PaddedOne(bytes[3 * w + 1])[4]
      BY <1>2, <2>1, <3>1
    <3> QED BY <1>5, <2>1, <3>2, PaddedOnePairs
  <2>2. CASE left = 2
    <3>1. i = 4 * w + 4
      BY <1>1, <1>2, <2>2
    <3>2. text[i] = PaddedTwo(bytes[3 * w + 1], bytes[3 * w + 2])[4]
      BY <1>2, <2>2, <3>1
    <3> QED BY <1>5, <2>2, <3>2, PaddedTwoPairs
  <2>3. left # 0
    BY <1>1, <1>2
  <2> QED BY <1>1, <2>1, <2>2, <2>3
<1>9. Base64Decode(text) = out
  <2> HIDE DEF C
  <2>1. Base64Meaning(text) = out
    BY <1>2, <1>6, <1>7, <1>8, MeaningOfPadded
  <2> HIDE DEF out
  <2> QED BY <1>2, <2>1, DecodeIsMeaning
<1> DEFINE chars == SubSeq(text, 1, C)
<1> HIDE DEF C
<1>10. chars \in Seq(Sextet) /\ Len(chars) = C /\ \A i \in 1..C : chars[i] = text[i]
  <2>1. /\ SubSeq(text, 1, C) \in Seq(Sextet)
        /\ Len(SubSeq(text, 1, C)) = IF 1 <= C THEN C - 1 + 1 ELSE 0
        /\ \A i \in 1..C - 1 + 1 : SubSeq(text, 1, C)[i] = text[1 + i - 1]
    BY <1>6, <1>7, SubSeqProperties
  <2> QED BY <1>6, <2>1
<1> HIDE DEF chars
<1>11. /\ out \in Seq(Byte) /\ Len(out) = N
       /\ \A i \in 1..N, k \in 0..3 : Pair(out[i], k) = Pair(chars[CharOf(i, k)], PairOf(i, k))
  <2>1. out = BytesOf(chars, 3)
    BY DEF chars
  <2> HIDE DEF out
  <2> QED BY <1>6, <1>10, <2>1, BytesOfType DEF CharOf, PairOf
<1>12. \A i \in 1..N, k \in 0..3 : CharOf(i, k) \in 1..C
  <2> TAKE i \in 1..N, k \in 0..3
  <2>1. 4 * N <= 3 * C /\ (4 * i - k) - 1 \in 0..(3 * C - 1)
    BY <1>1, <1>6
  <2> QED BY <1>6, <2>1 DEF CharOf
<1>13. \A i \in 1..N, k \in 0..3 : Pair(out[i], k) = Pair(text[CharOf(i, k)], PairOf(i, k))
  BY <1>10, <1>11, <1>12
<1> HIDE DEF out
<1>14. ASSUME NEW i \in 1..N, NEW k \in 0..3 PROVE Pair(out[i], k) = Pair(bytes[i], k)
  <2> DEFINE q == (i - 1) \div 3
             t == ((i - 1) % 3) + 1
             u == CharOf(t, k)
             j == PairOf(t, k)
  <2>1. q \in 0..w /\ q \in Nat /\ t \in 1..3 /\ i = 3 * q + t /\ (q < w \/ (q = w /\ t <= left))
    BY <1>1
  <2> HIDE DEF q, t
  <2>2. /\ CharOf(i, k) = 4 * q + u /\ PairOf(i, k) = j /\ u \in 1..4 /\ j \in 0..2
        /\ 3 * (4 - u) + j = (12 - 4 * t) + k
    BY <2>1, CharIndex
  <2>3. Pair(out[i], k) = Pair(text[4 * q + u], j)
    BY <1>13, <2>2
  <2>4. CASE q < w
    <3> DEFINE a == bytes[3 * q + 1]
               b == bytes[3 * q + 2]
               c == bytes[3 * q + 3]
               m == 3 * (4 - u) + j
    <3>1. q \in 0..(w - 1)
      BY <1>1, <2>1, <2>4
    <3>2. text[4 * q + u] = Quad(a, b, c)[u] /\ a \in Byte /\ b \in Byte /\ c \in Byte
      BY <1>2, <1>4, <2>2, <3>1
    <3> HIDE DEF a, b, c, u, j
    <3>3. Pair(Quad(a, b, c)[u], j) = IF m < 4 THEN Pair(c, m) ELSE IF m < 8 THEN Pair(b, m - 4)
                                      ELSE Pair(a, m - 8)
      BY <2>2, <3>2, QuadPairs
    <3> HIDE DEF m
    <3>4. m = (12 - 4 * t) + k
      BY <2>2 DEF m
    <3>5. CASE t = 1
      <4>1. ~(m < 4) /\ ~(m < 8) /\ m - 8 = k /\ bytes[i] = a
        BY <2>1, <3>4, <3>5 DEF a
      <4> QED BY <2>3, <3>2, <3>3, <4>1
    <3>6. CASE t = 2
      <4>1. ~(m < 4) /\ m < 8 /\ m - 4 = k /\ bytes[i] = b
        BY <2>1, <3>4, <3>6 DEF b
      <4> QED BY <2>3, <3>2, <3>3, <4>1
    <3>7. CASE t = 3
      <4>1. m < 4 /\ m = k /\ bytes[i] = c
        BY <2>1, <3>4, <3>7 DEF c
      <4> QED BY <2>3, <3>2, <3>3, <4>1
    <3> QED BY <2>1, <3>5, <3>6, <3>7
  <2>5. CASE q = w /\ left = 1
    <3> DEFINE a == bytes[3 * w + 1]
    <3>1. t = 1 /\ a \in Byte /\ bytes[i] = a
      BY <1>1, <1>5, <2>1, <2>5
    <3>2. text[4 * q + u] = PaddedOne(a)[u]
      BY <1>2, <2>2, <2>5
    <3> HIDE DEF a
    <3>3. CASE k = 0
      <4>1. u = 2 /\ j = 2
        BY <3>1, <3>3, CharCases
      <4> QED BY <2>3, <3>1, <3>2, <3>3, <4>1, PaddedOnePairs
    <3>4. CASE k \in 1..3
      <4>1. u = 1 /\ j = k - 1 /\ j + 1 = k
        BY <3>1, <3>4, CharCases
      <4>2. Pair(PaddedOne(a)[1], j) = Pair(a, j + 1)
        BY <2>2, <3>1, PaddedOnePairs
      <4> HIDE DEF u, j
      <4> QED BY <2>3, <3>1, <3>2, <4>1, <4>2
    <3> QED BY <3>3, <3>4
  <2>6. CASE q = w /\ left = 2
    <3> DEFINE a == bytes[3 * w + 1]
               b == bytes[3 * w + 2]
    <3>1. a \in Byte /\ b \in Byte
      BY <1>1, <1>5, <2>6
    <3>2. text[4 * q + u] = PaddedTwo(a, b)[u]
      BY <1>2, <2>2, <2>6
    <3>3. t = 1 \/ t = 2
      BY <1>1, <2>1, <2>6
    <3>4. (t = 1 => bytes[i] = a) /\ (t = 2 => bytes[i] = b)
      BY <2>1, <2>6
    <3> HIDE DEF a, b
    <3>5. /\ \A y \in 0..2 : /\ Pair(PaddedTwo(a, b)[1], y) = Pair(a, y + 1)
                             /\ Pair(PaddedTwo(a, b)[2], y) = IF y < 2 THEN Pair(b, y + 2) ELSE Pair(a, 0)
          /\ \A y \in 1..2 : Pair(PaddedTwo(a, b)[3], y) = Pair(b, y - 1)
      BY <3>1, PaddedTwoPairs
    <3>6. CASE t = 1 /\ k = 0
      <4>1. u = 2 /\ j = 2
        BY <3>6, CharCases
      <4>2. Pair(PaddedTwo(a, b)[2], 2) = Pair(a, 0)
        BY <3>5
      <4> QED BY <2>3, <3>2, <3>4, <3>6, <4>1, <4>2
    <3>7. CASE t = 1 /\ k \in 1..3
      <4>1. u = 1 /\ j = k - 1 /\ j + 1 = k
        BY <3>7, CharCases
      <4>2. Pair(PaddedTwo(a, b)[1], j) = Pair(a, j + 1)
        BY <2>2, <3>5
      <4> HIDE DEF u, j
      <4> QED BY <2>3, <3>2, <3>4, <3>7, <4>1, <4>2
    <3>8. CASE t = 2 /\ k \in 2..3
      <4>1. u = 2 /\ j = k - 2 /\ j < 2 /\ j + 2 = k
        BY <3>8, CharCases
      <4>2. Pair(PaddedTwo(a, b)[2], j) = Pair(b, j + 2)
        BY <2>2, <3>5, <4>1
      <4> HIDE DEF u, j
      <4> QED BY <2>3, <3>2, <3>4, <3>8, <4>1, <4>2
    <3>9. CASE t = 2 /\ k \in 0..1
      <4>1. u = 3 /\ j = k + 1 /\ j \in 1..2 /\ j - 1 = k
        BY <3>9, CharCases
      <4>2. Pair(PaddedTwo(a, b)[3], j) = Pair(b, j - 1)
        BY <3>5, <4>1
      <4> HIDE DEF u, j
      <4> QED BY <2>3, <3>2, <3>4, <3>9, <4>1, <4>2
    <3> QED BY <3>3, <3>6, <3>7, <3>8, <3>9
  <2> QED BY <1>1, <2>1, <2>4, <2>5, <2>6
<1>15. ASSUME NEW i \in 1..N PROVE out[i] = bytes[i]
  <2>1. out[i] \in Byte /\ bytes[i] \in Byte
    BY <1>3, <1>11, ElementOfSeq
  <2>2. \A k \in 0..(4 - 1) : Pair(out[i], k) = Pair(bytes[i], k)
    BY <1>14
  <2> QED BY <2>1, <2>2, PairsEqual DEF Byte
<1>16. out = bytes
  BY <1>11, <1>15, SeqEqual DEF N
<1>17. Len(text) % 4 = 0
  BY <1>1, <1>2
<1> QED BY <1>9, <1>16, <1>17 DEF text
----------------------------------------------------------------------------
(* Copying piece by piece.                                                 *)
CopyInto(d, dest, source, pos, c) ==
  [data |-> [d EXCEPT ![dest] = d[dest] \o SubSeq(d[source], pos + 1, pos + c)], pos |-> pos + c]

LEMMA Part ==
  ASSUME NEW s \in Seq(Byte), NEW from \in Nat, NEW to \in Nat, from <= to, to <= Len(s)
  PROVE  /\ SubSeq(s, from + 1, to) \in Seq(Byte) /\ Len(SubSeq(s, from + 1, to)) = to - from
         /\ \A i \in 1..(to - from) : SubSeq(s, from + 1, to)[i] = s[from + i]
<1>1. \A i \in (from + 1)..to : s[i] \in Byte
  <2> TAKE i \in (from + 1)..to
  <2>1. i \in 1..Len(s)
    BY LenProperties
  <2> QED BY <2>1, ElementOfSeq
<1>2. /\ SubSeq(s, from + 1, to) \in Seq(Byte)
      /\ Len(SubSeq(s, from + 1, to)) = IF from + 1 <= to THEN to - (from + 1) + 1 ELSE 0
      /\ \A i \in 1..to - (from + 1) + 1 : SubSeq(s, from + 1, to)[i] = s[(from + 1) + i - 1]
  BY <1>1, SubSeqProperties
<1>3. /\ (IF from + 1 <= to THEN to - (from + 1) + 1 ELSE 0) = to - from
      /\ to - (from + 1) + 1 = to - from /\ \A i \in Int : (from + 1) + i - 1 = from + i
  OBVIOUS
<1> DEFINE part == SubSeq(s, from + 1, to)
<1>4. part \in Seq(Byte) /\ Len(part) = to - from
  BY <1>2, <1>3
<1>5. \A i \in 1..(to - from) : part[i] = s[from + i]
  <2> DEFINE rest == to - (from + 1) + 1
  <2>1. rest = to - from /\ \A i \in 1..rest : part[i] = s[(from + 1) + i - 1]
    BY <1>2, <1>3
  <2> HIDE DEF part, rest
  <2>2. \A i \in 1..(to - from) : (from + 1) + i - 1 = from + i
    BY <1>3
  <2> QED BY <2>1, <2>2
<1> QED BY <1>4, <1>5

LEMMA JoinAgain ==
  ASSUME NEW a \in Seq(Byte), NEW b \in Seq(Byte), NEW c \in Seq(Byte)
  PROVE  (a \o b) \o c = a \o (b \o c)
BY ConcatAssociative

LEMMA CopyStep ==
  ASSUME NEW d \in [Buffers -> Seq(Byte)], NEW dest \in Buffers, NEW source \in Buffers,
         NEW pos \in Nat, NEW c \in Nat, NEW size \in Nat, (pos + c) + size <= Len(d[source])
  PROVE  CopyPiece(dest, source, CopyInto(d, dest, source, pos, c), size)
           = CopyInto(d, dest, source, pos, c + size)
<1> DEFINE s == d[source]
           part == SubSeq(s, pos + 1, pos + c)
           now == [d EXCEPT ![dest] = d[dest] \o part]
           new == now[source]
           state == CopyInto(d, dest, source, pos, c)
           last == SubSeq(s, (pos + c) + 1, (pos + c) + size)
<1>1. s \in Seq(Byte) /\ d[dest] \in Seq(Byte) /\ Len(s) \in Nat
  BY LenProperties
<1>2. part \in Seq(Byte)
  BY <1>1, Part
<1>3. d[dest] \o part \in Seq(Byte)
  BY <1>1, <1>2, ConcatProperties
<1>4. state.data = now /\ state.pos = pos + c
  BY DEF CopyInto
<1>5. now \in [Buffers -> Seq(Byte)] /\ now[dest] = d[dest] \o part
  BY <1>3
<1>6. new \in Seq(Byte) /\ Len(new) >= Len(s) /\ \A i \in 1..Len(s) : new[i] = s[i]
  <2>1. CASE source = dest
    <3>1. new = s \o part
      BY <1>5, <2>1
    <3>2. s \o part \in Seq(Byte) /\ Len(s \o part) = Len(s) + Len(part)
          /\ \A i \in 1..Len(s) + Len(part) : (s \o part)[i] = IF i <= Len(s) THEN s[i] ELSE part[i - Len(s)]
      BY <1>1, <1>2, ConcatProperties
    <3>3. Len(part) \in Nat
      BY <1>2, LenProperties
    <3> HIDE DEF new, part, s
    <3> QED BY <1>1, <3>1, <3>2, <3>3
  <2>2. CASE source # dest
    <3>1. new = s
      BY <2>2
    <3> HIDE DEF new, s
    <3> QED BY <1>1, <3>1
  <2> QED BY <2>1, <2>2
<1> HIDE DEF new
<1>7. SubSeq(new, (pos + c) + 1, (pos + c) + size) = last
  <2>1. /\ last \in Seq(Byte) /\ Len(last) = size
        /\ \A i \in 1..size : last[i] = s[(pos + c) + i]
    <3> DEFINE f == pos + c
               t == f + size
    <3>1. f \in Nat /\ t \in Nat /\ f <= t /\ t <= Len(s) /\ t - f = size
      OBVIOUS
    <3>2. /\ SubSeq(s, f + 1, t) \in Seq(Byte) /\ Len(SubSeq(s, f + 1, t)) = t - f
          /\ \A i \in 1..(t - f) : SubSeq(s, f + 1, t)[i] = s[f + i]
      <4> HIDE DEF f, t, s
      <4> QED BY <1>1, <3>1, Part
    <3> QED BY <3>1, <3>2
  <2>2. /\ SubSeq(new, (pos + c) + 1, (pos + c) + size) \in Seq(Byte)
        /\ Len(SubSeq(new, (pos + c) + 1, (pos + c) + size)) = size
        /\ \A i \in 1..size : SubSeq(new, (pos + c) + 1, (pos + c) + size)[i] = new[(pos + c) + i]
    <3> DEFINE f == pos + c
               t == f + size
    <3>1. f \in Nat /\ t \in Nat /\ f <= t /\ t <= Len(s) /\ t - f = size
      OBVIOUS
    <3>2. t <= Len(new) /\ new \in Seq(Byte)
      <4> HIDE DEF f, t
      <4>1. Len(new) \in Nat /\ Len(s) \in Nat
        BY <1>1, <1>6, LenProperties
      <4> QED BY <1>6, <3>1, <4>1
    <3>3. /\ SubSeq(new, f + 1, t) \in Seq(Byte) /\ Len(SubSeq(new, f + 1, t)) = t - f
          /\ \A i \in 1..(t - f) : SubSeq(new, f + 1, t)[i] = new[f + i]
      <4> HIDE DEF f, t
      <4> QED BY <3>1, <3>2, Part
    <3> QED BY <3>1, <3>3
  <2>3. \A i \in 1..size : new[(pos + c) + i] = s[(pos + c) + i]
    <3> TAKE i \in 1..size
    <3>1. (pos + c) + i \in 1..Len(s)
      BY <1>1
    <3> QED BY <1>6, <3>1
  <2> HIDE DEF last, s
  <2>4. \A i \in 1..size : SubSeq(new, (pos + c) + 1, (pos + c) + size)[i] = last[i]
    BY <2>1, <2>2, <2>3
  <2> DEFINE x == SubSeq(new, (pos + c) + 1, (pos + c) + size)
  <2>5. x \in Seq(Byte) /\ Len(x) = Len(last) /\ \A i \in 1..Len(x) : x[i] = last[i]
    BY <2>1, <2>2, <2>4
  <2> HIDE DEF x
  <2>6. x = last
    BY <2>1, <2>5, SeqEqual
  <2> QED BY <2>6 DEF x
<1>8. AtMost(size, Len(new) - (pos + c)) = size
  <2>1. Len(new) \in Nat
    BY <1>6, LenProperties
  <2>2. ~(size < Len(new) - (pos + c)) => size = Len(new) - (pos + c)
    BY <1>1, <1>6, <2>1
  <2> QED BY <2>2 DEF AtMost
<1>9. CopyPiece(dest, source, state, size)
        = [data |-> [now EXCEPT ![dest] = now[dest] \o last], pos |-> (pos + c) + size]
  <2>1. state.data[source] = new
    BY <1>4 DEF new
  <2> HIDE DEF state, now, last
  <2> QED BY <1>4, <1>7, <1>8, <2>1 DEF CopyPiece
<1>10. now[dest] \o last = d[dest] \o SubSeq(s, pos + 1, pos + (c + size))
  <2>1. part \o last = SubSeq(s, pos + 1, (pos + c) + size)
    <3>1. pos + 1 \in 1..Len(s) + 1 /\ pos + c \in (pos + 1) - 1..Len(s)
          /\ (pos + c) + size \in (pos + c)..Len(s)
      BY <1>1
    <3> HIDE DEF s
    <3> QED BY <1>1, <3>1, ConcatAdjacentSubSeq
  <2>2. last \in Seq(Byte)
    <3>1. \A i \in (pos + c) + 1..(pos + c) + size : i \in 1..Len(s)
      BY <1>1
    <3>2. \A i \in (pos + c) + 1..(pos + c) + size : s[i] \in Byte
      BY <1>1, <3>1, ElementOfSeq
    <3>3. (pos + c) + 1 \in Int /\ (pos + c) + size \in Int
      OBVIOUS
    <3> HIDE DEF s
    <3> QED BY <3>2, <3>3, SubSeqProperties
  <2>3. (d[dest] \o part) \o last = d[dest] \o (part \o last)
    <3> DEFINE front == d[dest]
    <3>1. front \in Seq(Byte)
      BY <1>1
    <3> HIDE DEF part, last, front
    <3>2. (front \o part) \o last = front \o (part \o last)
      BY <1>2, <2>2, <3>1, JoinAgain
    <3> QED BY <3>2 DEF front
  <2>4. (pos + c) + size = pos + (c + size)
    OBVIOUS
  <2> QED BY <1>5, <2>1, <2>3, <2>4
<1>11. [now EXCEPT ![dest] = now[dest] \o last]
         = [d EXCEPT ![dest] = d[dest] \o SubSeq(s, pos + 1, pos + (c + size))]
  <2> HIDE DEF last, part, s
  <2> QED BY <1>10
<1>12. (pos + c) + size = pos + (c + size)
  OBVIOUS
<1> QED BY <1>9, <1>11, <1>12 DEF CopyInto

LEMMA CopyType ==
  ASSUME NEW dest \in Buffers, NEW source \in Buffers,
         NEW state \in [data : [Buffers -> Seq(Byte)], pos : Nat], NEW size \in Nat
  PROVE  CopyPiece(dest, source, state, size) \in [data : [Buffers -> Seq(Byte)], pos : Nat]
<1> DEFINE s == state.data[source]
           n == AtMost(size, Len(s) - state.pos)
           part == SubSeq(s, state.pos + 1, state.pos + n)
<1>1. /\ state.data \in [Buffers -> Seq(Byte)] /\ state.pos \in Nat
      /\ s \in Seq(Byte) /\ Len(s) \in Nat /\ state.data[dest] \in Seq(Byte)
  <2>1. state.data \in [Buffers -> Seq(Byte)] /\ state.pos \in Nat
    OBVIOUS
  <2> QED BY <2>1, LenProperties
<1> HIDE DEF s
<1>2. n \in Int /\ state.pos + n \in Nat /\ state.pos + n <= Len(s)
  BY <1>1 DEF AtMost
<1> HIDE DEF n
<1>3. part \in Seq(Byte)
  <2>1. \A i \in (state.pos + 1)..(state.pos + n) : s[i] \in Byte
    <3> TAKE i \in (state.pos + 1)..(state.pos + n)
    <3>1. i \in 1..Len(s)
      BY <1>1, <1>2
    <3> QED BY <1>1, <3>1, ElementOfSeq
  <2>2. state.pos + 1 \in Int /\ state.pos + n \in Int
    BY <1>1, <1>2
  <2> QED BY <2>1, <2>2, SubSeqProperties
<1> HIDE DEF part
<1>4. state.data[dest] \o part \in Seq(Byte)
  BY <1>1, <1>3, ConcatProperties
<1> DEFINE now == [state.data EXCEPT ![dest] = state.data[dest] \o part]
<1>5. now \in [Buffers -> Seq(Byte)]
  BY <1>1, <1>4
<1>6. CopyPiece(dest, source, state, size) = [data |-> now, pos |-> state.pos + n]
  BY DEF CopyPiece, n, part, s
<1> HIDE DEF now
<1> QED BY <1>2, <1>5, <1>6

LEMMA CopyLoop ==
  ASSUME data \in [Buffers -> Seq(Byte)], NEW dest \in Buffers, NEW source \in Buffers,
         NEW pos \in Nat, NEW n \in Nat, Pieces(n) \in Seq(Nat)
  PROVE  \E g :
           /\ g[0] = [data |-> data, pos |-> pos]
           /\ CopyFrom(dest, source, pos, n) = g[Len(Pieces(n))]
           /\ \A i \in 1..Len(Pieces(n)) : g[i] = CopyPiece(dest, source, g[i - 1], Pieces(n)[i])
<1> DEFINE D == [data : [Buffers -> Seq(Byte)], pos : Nat]
           seq == Pieces(n)
           N == Len(seq)
           start == [data |-> data, pos |-> pos]
           step == [p \in (1..N) \X D |-> CopyPiece(dest, source, p[2], seq[p[1]])]
           Eq(g) == g = [i \in 0..N |-> IF i = 0 THEN start
                                        ELSE CopyPiece(dest, source, g[i - 1], seq[i])]
           v == CHOOSE g : Eq(g)
<1>0. start \in D /\ \A x \in D, y \in Nat : CopyPiece(dest, source, x, y) \in D
  BY CopyType
<1> HIDE DEF D
<1>1. N \in Nat /\ \A i \in 1..N : seq[i] \in Nat
  BY LenProperties, ElementOfSeq
<1>2. step \in [(1..N) \X D -> D]
  <2> HIDE DEF start, N, seq
  <2> QED BY <1>0, <1>1
<1>3. PICK g : IsFold(g, N, D, start, step)
  <2> HIDE DEF N, step, start
  <2> QED BY <1>0, <1>1, <1>2, FoldExists
<1> HIDE DEF N
<1>4. \A i \in 1..N : g[i] = CopyPiece(dest, source, g[i - 1], seq[i])
  <2>1. \A i \in 1..N, x \in D : step[<<i, x>>] = CopyPiece(dest, source, x, seq[i])
    OBVIOUS
  <2> HIDE DEF step, start
  <2>2. \A i \in 1..N : i - 1 \in 0..N
    BY <1>1
  <2>3. g \in [0..N -> D]
    BY <1>3 DEF IsFold
  <2>4. \A i \in 1..N : g[i - 1] \in D
    BY <2>2, <2>3
  <2> HIDE DEF seq
  <2>5. \A i \in 1..N : g[i] = step[<<i, g[i - 1]>>]
    BY <1>3 DEF IsFold
  <2> QED BY <2>1, <2>4, <2>5
<1>5. Eq(g)
  <2> HIDE DEF step, start, seq
  <2>1. \A i \in 0..N : g[i] = IF i = 0 THEN start ELSE CopyPiece(dest, source, g[i - 1], seq[i])
    <3>1. g[0] = start
      BY <1>3 DEF IsFold
    <3>2. \A i \in 0..N : i # 0 => i \in 1..N
      BY <1>1
    <3> QED BY <3>1, <3>2, <1>4
  <2>2. g \in [0..N -> D]
    BY <1>3 DEF IsFold
  <2> QED BY <2>1, <2>2
<1>6. Eq(v)
  <2> HIDE DEF Eq
  <2> QED BY <1>5
<1>7. CopyFrom(dest, source, pos, n) = v[N]
  BY DEF CopyFrom, N
<1>8. v = [i \in 0..N |-> IF i = 0 THEN start ELSE CopyPiece(dest, source, v[i - 1], seq[i])]
  BY <1>6
<1> HIDE DEF v
<1>9. v[0] = start /\ \A i \in 1..N : v[i] = CopyPiece(dest, source, v[i - 1], seq[i])
  <2>1. \A i \in 0..N : v[i] = IF i = 0 THEN start ELSE CopyPiece(dest, source, v[i - 1], seq[i])
    BY ONLY <1>8
  <2>2. 0 \in 0..N /\ \A i \in 1..N : i \in 0..N /\ i # 0
    BY <1>1
  <2> QED BY <2>1, <2>2
<1> QED BY <1>7, <1>9 DEF N

(* write_buffer_part: all pieces together are the whole, also when a       *)
(* buffer grows by what is read from it.                                   *)
THEOREM CopyAll ==
  ASSUME data \in [Buffers -> Seq(Byte)], NEW dest \in Buffers, NEW source \in Buffers,
         NEW pos \in Nat, NEW n \in Nat, pos + n <= Len(data[source])
  PROVE  CopyFrom(dest, source, pos, n)
           = [data |-> [data EXCEPT ![dest] = data[dest] \o SubSeq(data[source], pos + 1, pos + n)],
              pos |-> pos + n]
<1> DEFINE start == [data |-> data, pos |-> pos]
           pieces == Pieces(n)
           full == n \div TempBuffer
           done(i) == IF i <= full THEN i * TempBuffer ELSE n
           N == full + 1
<1>1. TempBuffer \in Nat /\ TempBuffer > 0
  BY BufferAssumption
<1>2. full \in Nat /\ n % TempBuffer \in Nat /\ n = full * TempBuffer + (n % TempBuffer)
  BY <1>1, DivMod
<1> HIDE DEF full
<1>3. /\ pieces \in Seq(Nat) /\ Len(pieces) = N
      /\ \A i \in 1..full : pieces[i] = TempBuffer
      /\ pieces[N] = n % TempBuffer
  <2> DEFINE most == [i \in 1..full |-> TempBuffer]
             rest == <<n % TempBuffer>>
  <2>1. most \in Seq(Nat) /\ Len(most) = full /\ \A i \in 1..full : most[i] = TempBuffer
    <3>1. most \in [1..full -> Nat]
      BY <1>1
    <3>2. \A i \in 1..full : most[i] = TempBuffer
      OBVIOUS
    <3> HIDE DEF most
    <3> QED BY <1>2, <3>1, <3>2, IsSequence
  <2>2. rest \in Seq(Nat) /\ Len(rest) = 1 /\ rest[1] = n % TempBuffer
    BY <1>2
  <2>3. pieces = most \o rest
    BY DEF Pieces, full
  <2> HIDE DEF most, rest, pieces
  <2>4. /\ pieces \in Seq(Nat) /\ Len(pieces) = full + 1
        /\ \A i \in 1..full + 1 : pieces[i] = IF i <= full THEN most[i] ELSE rest[i - full]
    <3>1. most \o rest \in Seq(Nat) /\ Len(most \o rest) = Len(most) + Len(rest)
      <4> DEFINE Sizes == Nat
      <4>1. most \in Seq(Sizes) /\ rest \in Seq(Sizes)
        BY <2>1, <2>2
      <4> HIDE DEF Sizes
      <4>2. most \o rest \in Seq(Sizes) /\ Len(most \o rest) = Len(most) + Len(rest)
        BY <4>1, ConcatProperties
      <4> QED BY <4>2 DEF Sizes
    <3>3. \A i \in 1..Len(most) + Len(rest) :
               (most \o rest)[i] = IF i <= Len(most) THEN most[i] ELSE rest[i - Len(most)]
      BY <2>1, <2>2, ConcatProperties
    <3>2. Len(most) = full /\ Len(rest) = 1
      BY <2>1, <2>2
    <3> QED BY <2>3, <3>1, <3>2, <3>3
  <2>5. N \in 1..full + 1 /\ ~(N <= full) /\ N - full = 1
    BY <1>2
  <2>6. \A i \in 1..full : i \in 1..full + 1 /\ i <= full
    BY <1>2
  <2> QED BY <2>1, <2>2, <2>4, <2>5, <2>6
<1> HIDE DEF pieces
<1> HIDE DEF N
<1>6. PICK v : /\ v[0] = start
               /\ CopyFrom(dest, source, pos, n) = v[N]
               /\ \A i \in 1..N : v[i] = CopyPiece(dest, source, v[i - 1], pieces[i])
  <2> DEFINE P(g, count) == /\ g[0] = [data |-> data, pos |-> pos]
                            /\ CopyFrom(dest, source, pos, n) = g[count]
                            /\ \A i \in 1..count : g[i] = CopyPiece(dest, source, g[i - 1], Pieces(n)[i])
  <2>1. \E g : P(g, Len(Pieces(n)))
    <3>1. Pieces(n) \in Seq(Nat)
      BY <1>3 DEF pieces
    <3>2. \E g : /\ g[0] = [data |-> data, pos |-> pos]
                 /\ CopyFrom(dest, source, pos, n) = g[Len(Pieces(n))]
                 /\ \A i \in 1..Len(Pieces(n)) : g[i] = CopyPiece(dest, source, g[i - 1], Pieces(n)[i])
      BY ONLY <3>1, data \in [Buffers -> Seq(Byte)], dest \in Buffers, source \in Buffers,
              pos \in Nat, n \in Nat, CopyLoop
    <3> QED BY <3>2
  <2>2. Len(Pieces(n)) = N
    BY <1>3 DEF pieces
  <2> HIDE DEF P
  <2>3. \E g : P(g, N)
    BY <2>1, <2>2
  <2> QED BY <2>3 DEF P, pieces
<1> USE DEF N
<1>7. CopyFrom(dest, source, pos, n) = v[N]
  BY <1>6
<1> DEFINE S == {i \in 0..N : v[i] = CopyInto(data, dest, source, pos, done(i))}
<1>8. 0 \in S
  <2>1. done(0) = 0 /\ pos + 0 = pos /\ 0 \in 0..N
    BY <1>1, <1>2
  <2>2. SubSeq(data[source], pos + 1, pos) = <<>>
    BY SubSeqEmpty
  <2>3. data[dest] \o <<>> = data[dest]
    BY ConcatEmptySeq
  <2>4. [data EXCEPT ![dest] = data[dest]] = data
    OBVIOUS
  <2> HIDE DEF done
  <2>5. CopyInto(data, dest, source, pos, 0) = start
    BY <2>1, <2>2, <2>3, <2>4 DEF CopyInto
  <2> QED BY <1>6, <2>1, <2>5
<1>9. ASSUME NEW i \in 1..N, i - 1 \in S PROVE i \in S
  <2> DEFINE c == done(i - 1)
             size == pieces[i]
  <2>1. c = (i - 1) * TempBuffer /\ c \in Nat
    <3>1. i - 1 \in Nat /\ i - 1 <= full
      BY <1>2
    <3> QED BY <1>1, <3>1, ProductType
  <2>2. size \in Nat /\ c + size = done(i)
    <3>1. CASE i <= full
      <4>1. i \in 1..full
        BY <1>2, <3>1
      <4>2. (i - 1) * TempBuffer + TempBuffer = i * TempBuffer
        BY <1>1
      <4>3. size = TempBuffer /\ done(i) = i * TempBuffer
        BY <1>3, <3>1, <4>1
      <4> HIDE DEF c, size, done
      <4> QED BY <1>1, <2>1, <4>2, <4>3
    <3>2. CASE ~(i <= full)
      <4>1. i = N /\ i - 1 = full
        BY <1>2, <3>2
      <4>2. size = n % TempBuffer /\ done(i) = n
        BY <1>3, <3>2, <4>1
      <4>3. c = full * TempBuffer
        BY <2>1, <4>1
      <4> HIDE DEF c, size, done
      <4> QED BY <1>2, <2>1, <4>2, <4>3
    <3> QED BY <3>1, <3>2
  <2>3. done(i) <= n
    <3>1. CASE i <= full
      <4>1. i * TempBuffer <= full * TempBuffer
        BY <1>1, <1>2, <3>1, ProductAtMost
      <4>2. i * TempBuffer \in Int /\ full * TempBuffer \in Int
        BY <1>1, <1>2, ProductType
      <4>3. done(i) = i * TempBuffer
        BY <3>1
      <4> HIDE DEF done
      <4> QED BY <1>2, <4>1, <4>2, <4>3
    <3>2. CASE ~(i <= full)
      BY <3>2
    <3> QED BY <3>1, <3>2
  <2>4. v[i - 1] = CopyInto(data, dest, source, pos, c)
    BY <1>9
  <2>5. v[i] = CopyPiece(dest, source, v[i - 1], size)
    BY <1>6
  <2>6. Len(data[source]) \in Nat
    BY LenProperties
  <2>7. (pos + c) + size <= Len(data[source])
    <3>1. (pos + c) + size = pos + done(i)
      <4> HIDE DEF c, size, done
      <4> QED BY <2>1, <2>2
    <3>2. done(i) \in Int
      <4> HIDE DEF c, size, done
      <4> QED BY <2>1, <2>2
    <3> HIDE DEF c, size, done
    <3> QED BY <2>3, <2>6, <3>1, <3>2
  <2> HIDE DEF c, size, done
  <2>8. v[i] = CopyInto(data, dest, source, pos, c + size)
    BY <2>1, <2>2, <2>4, <2>5, <2>7, CopyStep
  <2> QED BY <2>2, <2>8
<1> HIDE DEF S
<1>10. N \in Nat
  BY <1>2
<1>11. 0..N \subseteq S
  <2> HIDE DEF N
  <2> QED BY <1>8, <1>9, <1>10, Induct
<1>12. v[N] = CopyInto(data, dest, source, pos, done(N)) /\ done(N) = n
  <2>1. N \in 0..N /\ ~(N <= full)
    BY <1>2, <1>10
  <2> QED BY <1>11, <2>1 DEF S
<1> QED BY <1>7, <1>12 DEF CopyInto
----------------------------------------------------------------------------
(* The inductive invariant: bytes and read positions, none behind the end. *)
BuffersOK ==
  /\ data \in [Buffers -> Seq(Byte)] /\ readIndex \in [Buffers -> Nat]
  /\ littleEndian \in [Buffers -> BOOLEAN]
  /\ ReadposWithin

LEMMA Ahead ==
  ASSUME BuffersOK, NEW b \in Buffers, NEW n \in Nat, n <= bytesRemaining(b)
  PROVE  /\ readIndex[b] + n \in Nat /\ readIndex[b] + n <= Len(data[b])
         /\ ReadposAfter(b, readIndex[b] + n) = readIndex[b] + n
         /\ Upcoming(b, n) \in Seq(Byte) /\ Len(Upcoming(b, n)) = n
         /\ \A i \in 1..n : Upcoming(b, n)[i] = data[b][readIndex[b] + i]
<1> DEFINE s == data[b]
           from == readIndex[b]
           to == from + n
<1>1. s \in Seq(Byte) /\ from \in Nat /\ Len(s) \in Nat
  <2>1. s \in Seq(Byte) /\ from \in Nat
    BY DEF BuffersOK
  <2> QED BY <2>1, LenProperties
<1>2. n <= Len(s) - from
  BY DEF bytesRemaining
<1> HIDE DEF s, from
<1>3. to \in Nat /\ from <= to /\ to <= Len(s) /\ to - from = n
  BY <1>1, <1>2
<1>4. AtMost(to, Len(s)) = to
  <2> HIDE DEF to
  <2> QED BY <1>1, <1>3 DEF AtMost
<1> HIDE DEF to
<1>5. /\ SubSeq(s, from + 1, to) \in Seq(Byte) /\ Len(SubSeq(s, from + 1, to)) = to - from
      /\ \A i \in 1..(to - from) : SubSeq(s, from + 1, to)[i] = s[from + i]
  BY <1>1, <1>3, Part
<1>6. Upcoming(b, n) = SubSeq(s, from + 1, to) /\ ReadposAfter(b, to) = AtMost(to, Len(s))
  BY DEF Upcoming, ReadposAfter, s, from, to
<1> QED BY <1>3, <1>4, <1>5, <1>6 DEF to, from, s

LEMMA LeftOver ==
  ASSUME BuffersOK, NEW b \in Buffers
  PROVE  /\ bytesRemaining(b) \in Nat
         /\ \A n \in Nat : AtMost(n, bytesRemaining(b)) \in Nat
                           /\ AtMost(n, bytesRemaining(b)) <= bytesRemaining(b)
<1>1. data[b] \in Seq(Byte) /\ readIndex[b] \in Nat /\ readIndex[b] <= Len(data[b])
  BY DEF BuffersOK, ReadposWithin
<1>2. Len(data[b]) \in Nat
  BY <1>1, LenProperties
<1>3. bytesRemaining(b) \in Nat
  BY <1>1, <1>2 DEF bytesRemaining
<1> QED BY <1>3 DEF AtMost

(* What is added is found behind what was there.                           *)
LEMMA AddedBytes ==
  ASSUME BuffersOK, NEW b \in Buffers, NEW bytes \in Seq(Byte),
         data' = [data EXCEPT ![b] = data[b] \o bytes]
  PROVE  /\ Added(b) = bytes /\ data' \in [Buffers -> Seq(Byte)]
         /\ \A c \in Buffers : Len(data'[c]) \in Nat /\ Len(data[c]) <= Len(data'[c])
<1> DEFINE s == data[b]
           all == s \o bytes
<1>1. data \in [Buffers -> Seq(Byte)] /\ s \in Seq(Byte) /\ Len(s) \in Nat /\ Len(bytes) \in Nat
  <2>1. data \in [Buffers -> Seq(Byte)]
    BY DEF BuffersOK
  <2> QED BY <2>1, LenProperties
<1>2. data'[b] = all
  BY <1>1
<1> HIDE DEF s
<1>3. /\ all \in Seq(Byte) /\ Len(all) = Len(s) + Len(bytes)
      /\ \A i \in 1..Len(s) + Len(bytes) : all[i] = IF i <= Len(s) THEN s[i] ELSE bytes[i - Len(s)]
  BY <1>1, ConcatProperties
<1> HIDE DEF all
<1>4. data' = [data EXCEPT ![b] = all]
  BY DEF all, s
<1>5. data' \in [Buffers -> Seq(Byte)] /\ \A c \in Buffers \ {b} : data'[c] = data[c]
  BY <1>1, <1>3, <1>4
<1>6. \A c \in Buffers : Len(data'[c]) \in Nat /\ Len(data[c]) <= Len(data'[c])
  <2>1. \A c \in Buffers : Len(data[c]) \in Nat
    <3> TAKE c \in Buffers
    <3>1. data[c] \in Seq(Byte)
      BY <1>1
    <3> QED BY <3>1, LenProperties
  <2>2. \A c \in Buffers \ {b} : Len(data'[c]) = Len(data[c])
    BY <1>5
  <2>3. Len(data'[b]) = Len(data[b]) + Len(bytes)
    BY <1>2, <1>3 DEF s
  <2> QED BY <1>1, <2>1, <2>2, <2>3
<1>7. SubSeq(all, Len(s) + 1, Len(all)) = bytes
  <2> DEFINE x == SubSeq(all, Len(s) + 1, Len(all))
             m == Len(s)
             t == Len(all)
  <2>1. m \in Nat /\ t \in Nat /\ m <= t /\ t - m = Len(bytes)
    BY <1>1, <1>3
  <2>2. /\ SubSeq(all, m + 1, t) \in Seq(Byte) /\ Len(SubSeq(all, m + 1, t)) = t - m
        /\ \A i \in 1..(t - m) : SubSeq(all, m + 1, t)[i] = all[m + i]
    <3>1. t <= Len(all)
      BY <2>1
    <3> HIDE DEF m, t
    <3> QED BY <1>3, <2>1, <3>1, Part
  <2>3. x \in Seq(Byte) /\ Len(x) = Len(bytes) /\ \A i \in 1..Len(bytes) : x[i] = all[m + i]
    BY <2>1, <2>2
  <2> HIDE DEF x
  <2>4. \A i \in 1..Len(bytes) : all[m + i] = bytes[i]
    <3> TAKE i \in 1..Len(bytes)
    <3>1. m + i \in 1..Len(s) + Len(bytes) /\ ~(m + i <= Len(s)) /\ (m + i) - Len(s) = i
      BY <1>1
    <3> QED BY <1>3, <3>1
  <2>5. \A i \in 1..Len(x) : x[i] = bytes[i]
    BY <2>3, <2>4
  <2>6. x = bytes
    BY <2>3, <2>5, SeqEqual
  <2> QED BY <2>6 DEF x
<1>8. Added(b) = SubSeq(all, Len(s) + 1, Len(all))
  BY <1>2 DEF Added, s
<1> QED BY <1>5, <1>6, <1>7, <1>8

LEMMA AddedNone ==
  ASSUME BuffersOK, NEW b \in Buffers, data' = data
  PROVE  Added(b) = <<>> /\ data' = [data EXCEPT ![b] = data[b] \o Added(b)]
<1>1. data \in [Buffers -> Seq(Byte)] /\ data[b] \in Seq(Byte)
  BY DEF BuffersOK
<1>2. Len(data[b]) \in Nat
  BY <1>1, LenProperties
<1>3. Added(b) = <<>>
  <2>1. Len(data[b]) \in Int /\ Len(data[b]) + 1 \in Int /\ Len(data[b]) < Len(data[b]) + 1
    BY <1>2
  <2>2. SubSeq(data[b], Len(data[b]) + 1, Len(data[b])) = <<>>
    BY <2>1, SubSeqEmpty
  <2> QED BY <2>2 DEF Added
<1>4. data[b] \o <<>> = data[b]
  BY <1>1, ConcatEmptySeq
<1> QED BY <1>1, <1>3, <1>4
----------------------------------------------------------------------------
(* One lemma for each operation: what it keeps and what it does.           *)
Kept == BuffersOK' /\ Written /\ Read /\ Copied

LEMMA NotWriting ==
  ASSUME call'.name \notin {"write_string", "append_file", "write_hex", "write_base64", "write_number"}
  PROVE  Written
BY DEF Written

LEMMA NotReading ==
  ASSUME call'.name \notin {"read_hex", "read_base64", "read_string", "read_number", "read_delimited"}
  PROVE  Read
BY DEF Read

LEMMA NotCopying ==
  ASSUME call'.name \notin {"write_buffer", "write_buffer_part"}
  PROVE  Copied
BY DEF Copied

LEMMA WriteOn ==
  ASSUME BuffersOK, NEW b \in Buffers, NEW bytes \in Seq(Byte), Appended(b, bytes)
  PROVE  /\ BuffersOK' /\ Added(b) = bytes /\ readIndex' = readIndex
         /\ data' = [data EXCEPT ![b] = data[b] \o Added(b)]
<1>1. data' = [data EXCEPT ![b] = data[b] \o bytes] /\ readIndex' = readIndex /\ littleEndian' = littleEndian
  BY DEF Appended
<1>2. /\ Added(b) = bytes /\ data' \in [Buffers -> Seq(Byte)]
      /\ \A c \in Buffers : Len(data'[c]) \in Nat /\ Len(data[c]) <= Len(data'[c])
  BY <1>1, AddedBytes
<1>3. ReadposWithin'
  <2> SUFFICES ASSUME NEW c \in Buffers PROVE readIndex'[c] <= Len(data'[c])
    BY DEF ReadposWithin
  <2>1. readIndex'[c] \in Nat /\ readIndex'[c] <= Len(data[c])
    BY <1>1 DEF BuffersOK, ReadposWithin
  <2>2. Len(data[c]) \in Nat
    <3>1. data[c] \in Seq(Byte)
      BY DEF BuffersOK
    <3> QED BY <3>1, LenProperties
  <2> QED BY <1>2, <2>1, <2>2
<1> QED BY <1>1, <1>2, <1>3 DEF BuffersOK

LEMMA WriteNothing ==
  ASSUME BuffersOK, NEW b \in Buffers, UNCHANGED contents
  PROVE  /\ BuffersOK' /\ Added(b) = <<>> /\ readIndex' = readIndex
         /\ data' = [data EXCEPT ![b] = data[b] \o Added(b)]
<1>1. data' = data /\ readIndex' = readIndex /\ littleEndian' = littleEndian
  BY DEF contents
<1>2. Added(b) = <<>> /\ data' = [data EXCEPT ![b] = data[b] \o Added(b)]
  BY <1>1, AddedNone
<1> QED BY <1>1, <1>2 DEF BuffersOK, ReadposWithin

LEMMA ReadOn ==
  ASSUME BuffersOK, NEW b \in Buffers, NEW n \in Nat, n <= bytesRemaining(b),
         UNCHANGED <<data, littleEndian>>, readIndex' = [readIndex EXCEPT ![b] = readIndex[b] + n]
  PROVE  /\ BuffersOK' /\ ReadFrom(b) = Upcoming(b, n) /\ data' = data
         /\ \A c \in Buffers \ {b} : readIndex'[c] = readIndex[c]
<1>1. readIndex[b] + n \in Nat /\ readIndex[b] + n <= Len(data[b])
  BY Ahead
<1>2. /\ readIndex' \in [Buffers -> Nat] /\ readIndex'[b] = readIndex[b] + n
      /\ \A c \in Buffers \ {b} : readIndex'[c] = readIndex[c]
  BY <1>1 DEF BuffersOK
<1>3. ReadposWithin'
  BY <1>1, <1>2 DEF BuffersOK, ReadposWithin
<1>4. ReadFrom(b) = Upcoming(b, n)
  BY <1>2 DEF ReadFrom, Upcoming
<1> QED BY <1>2, <1>3, <1>4 DEF BuffersOK

(* A read position that is moved anywhere is brought back to the end.      *)
LEMMA MoveTo ==
  ASSUME BuffersOK, NEW b \in Buffers, NEW pos \in Nat,
         UNCHANGED <<data, littleEndian>>, readIndex' = [readIndex EXCEPT ![b] = ReadposAfter(b, pos)]
  PROVE  BuffersOK'
<1>1. data[b] \in Seq(Byte)
  BY DEF BuffersOK
<1>2. Len(data[b]) \in Nat
  BY <1>1, LenProperties
<1>3. ReadposAfter(b, pos) \in Nat /\ ReadposAfter(b, pos) <= Len(data[b])
  BY <1>2 DEF ReadposAfter, AtMost
<1> QED BY <1>3 DEF BuffersOK, ReadposWithin

LEMMA MoveStep ==
  ASSUME BuffersOK, NEW b \in Buffers,
         \/ Clear(b)
         \/ SetLittleEndian(b)
         \/ \E pos \in Lengths : SetReadpos(b, pos) \/ Skip(b, pos)
  PROVE  Kept
<1>1. call'.name \in {"clear", "set_little_endian", "set_readpos", "skip"}
  BY DEF Clear, SetLittleEndian, SetReadpos, Skip, Calls
<1>2. CASE Clear(b)
  <2>1. <<>> \in Seq(Byte) /\ Len(<<>>) = 0
    OBVIOUS
  <2>2. /\ data' = [data EXCEPT ![b] = <<>>] /\ readIndex' = [readIndex EXCEPT ![b] = 0]
        /\ littleEndian' = littleEndian
    BY <1>2 DEF Clear
  <2> QED BY <1>1, <2>1, <2>2, NotWriting, NotReading, NotCopying DEF Kept, BuffersOK, ReadposWithin
<1>3. CASE SetLittleEndian(b)
  <2>1. /\ data' = data /\ readIndex' = readIndex
        /\ littleEndian' = [littleEndian EXCEPT ![b] = ~littleEndian[b]]
    BY <1>3 DEF SetLittleEndian
  <2>2. littleEndian' \in [Buffers -> BOOLEAN]
    BY <2>1 DEF BuffersOK
  <2>3. BuffersOK'
    BY <2>1, <2>2 DEF BuffersOK, ReadposWithin
  <2> QED BY <1>1, <2>3, NotWriting, NotReading, NotCopying DEF Kept
<1>4. ASSUME NEW n \in Lengths, SetReadpos(b, n) \/ Skip(b, n) PROVE Kept
  <2>1. n \in Nat
    BY BufferAssumption
  <2>2. BuffersOK'
    <3>1. CASE SetReadpos(b, n)
      <4>1. UNCHANGED <<data, littleEndian>> /\ readIndex' = [readIndex EXCEPT ![b] = ReadposAfter(b, n)]
        BY <3>1 DEF SetReadpos
      <4> QED BY <2>1, <4>1, MoveTo
    <3>2. CASE Skip(b, n)
      <4>1. UNCHANGED <<data, littleEndian>>
            /\ readIndex' = [readIndex EXCEPT ![b] = ReadposAfter(b, readIndex[b] + n)]
        BY <3>2 DEF Skip
      <4>2. readIndex[b] + n \in Nat
        BY <2>1 DEF BuffersOK
      <4> QED BY <4>1, <4>2, MoveTo
    <3> QED BY <1>4, <3>1, <3>2
  <2> QED BY <1>1, <2>2, NotWriting, NotReading, NotCopying DEF Kept
<1> QED BY <1>2, <1>3, <1>4

(* Writing.                                                                *)
LEMMA WriteStringStep ==
  ASSUME BuffersOK, NEW b \in Buffers, NEW bytes \in Strings,
         WriteString(b, bytes) \/ AppendFile(b, bytes)
  PROVE  Kept
<1>1. bytes \in Seq(Byte)
  BY BufferAssumption
<1>2. CASE WriteString(b, bytes)
  <2>1. Appended(b, bytes)
    BY <1>2 DEF WriteString
  <2>2. call'.name = "write_string" /\ call'.buffer = b /\ call'.argument = bytes
    BY <1>2 DEF WriteString, Writes
  <2>3. Written
    BY <1>1, <2>1, <2>2, WriteOn DEF Written
  <2> QED BY <1>1, <2>1, <2>2, <2>3, WriteOn, NotReading, NotCopying DEF Kept
<1>3. CASE AppendFile(b, bytes)
  <2>1. call'.name = "append_file" /\ call'.buffer = b /\ call'.argument = bytes
    BY <1>3 DEF AppendFile, Writes
  <2>2. CASE Appended(b, bytes) /\ result' = 1
    <3>1. Written
      BY <1>1, <2>1, <2>2, WriteOn DEF Written
    <3> QED BY <1>1, <2>1, <2>2, <3>1, WriteOn, NotReading, NotCopying DEF Kept
  <2>3. CASE UNCHANGED contents /\ result' \in FileErrors
    <3>1. result' # 1
      BY <2>3 DEF FileErrors
    <3>2. Written
      BY <2>1, <2>3, <3>1, WriteNothing DEF Written
    <3> QED BY <2>1, <2>3, <3>2, WriteNothing, NotReading, NotCopying DEF Kept
  <2> QED BY <1>3, <2>2, <2>3 DEF AppendFile
<1> QED BY <1>2, <1>3

LEMMA WriteHexStep ==
  ASSUME BuffersOK, NEW b \in Buffers, NEW text \in HexTexts, WriteHex(b, text)
  PROVE  Kept
<1>1. call'.name = "write_hex" /\ call'.buffer = b /\ call'.argument = text
  BY DEF WriteHex, Writes
<1>2. text \in Seq(HexChar)
  BY BufferAssumption
<1>3. Len(text) \in Nat /\ DOMAIN text = 1..Len(text)
  BY <1>2, LenProperties
<1>4. CASE HexValid(text) /\ Appended(b, HexDecode(text)) /\ result' = Accepted
  <2>1. text \in Seq(Nibble) /\ Len(text) % 2 = 0
    <3>1. \A i \in 1..Len(text) : text[i] \in Nibble
      BY <1>3, <1>4 DEF HexValid
    <3>2. text = [i \in 1..Len(text) |-> text[i]]
      BY <1>2
    <3>3. text \in [1..Len(text) -> Nibble]
      BY <3>1, <3>2
    <3>4. text \in Seq(Nibble)
      BY <1>3, <3>3, IsSequence
    <3> QED BY <1>4, <3>4 DEF HexValid
  <2>2. HexDecode(text) \in Seq(Byte) /\ HexEncode(HexDecode(text)) = text
    BY <2>1, HexBack
  <2>3. Written
    BY <1>1, <1>4, <2>2, WriteOn DEF Written
  <2> QED BY <1>1, <1>4, <2>2, <2>3, WriteOn, NotReading, NotCopying DEF Kept
<1>5. CASE ~HexValid(text) /\ result' = Refused /\ UNCHANGED contents
  <2>1. result' # Accepted
    BY <1>5 DEF Refused, Accepted
  <2>2. Len(text) % 2 = 1 \/ \E i \in DOMAIN text : text[i] \notin Nibble
    BY <1>3, <1>5 DEF HexValid
  <2>3. Written
    BY <1>1, <1>5, <2>1, <2>2, WriteNothing DEF Written
  <2> QED BY <1>1, <1>5, <2>3, WriteNothing, NotReading, NotCopying DEF Kept
<1> QED BY <1>4, <1>5 DEF WriteHex

LEMMA WriteBase64Step ==
  ASSUME BuffersOK, NEW b \in Buffers, NEW text \in Base64Texts, WriteBase64(b, text)
  PROVE  Kept
<1>1. call'.name = "write_base64" /\ call'.buffer = b /\ call'.argument = text
  BY DEF WriteBase64, Writes
<1>2. text \in Seq(Base64Char)
  BY BufferAssumption
<1>3. DOMAIN text = 1..Len(text)
  BY <1>2, LenProperties
<1>4. Base64Decode(text) = Base64Meaning(text) /\ Base64Decode(text) \in Seq(Byte)
  BY <1>2, DecodeIsMeaning
<1>5. ~BadPadding(text) => (Base64Valid(text) <=> ~ \E i \in DOMAIN text : text[i] = Invalid)
  BY <1>2, <1>3, RefusedIfInvalid
<1>6. CASE Base64Valid(text) /\ Appended(b, Base64Decode(text)) /\ result' = Accepted
  <2>1. Written
    BY <1>1, <1>4, <1>5, <1>6, WriteOn DEF Written
  <2> QED BY <1>1, <1>4, <1>6, <2>1, WriteOn, NotReading, NotCopying DEF Kept
<1>7. CASE ~Base64Valid(text) /\ result' = Refused /\ UNCHANGED contents
  <2>1. Written
    BY <1>1, <1>5, <1>7, WriteNothing DEF Written
  <2> QED BY <1>1, <1>7, <2>1, WriteNothing, NotReading, NotCopying DEF Kept
<1> QED BY <1>6, <1>7 DEF WriteBase64

LEMMA WriteNumberStep ==
  ASSUME BuffersOK, NEW b \in Buffers, NEW value \in Values, NEW type \in Types, WriteNumber(b, value, type)
  PROVE  Kept
<1> DEFINE stored == Clipped(Rounded(value), type)
           memory == InMemory(stored, type)
           bytes == Ordered(memory, littleEndian[b])
<1>1. call'.name = "write_number" /\ call'.buffer = b /\ call'.argument = <<value, type>>
  BY DEF WriteNumber, Writes
<1>2. value \in Int /\ type \in [bytes : Nat \ {0}, signed : BOOLEAN]
  BY BufferAssumption
<1>3. /\ stored \in RangeOf(type).low..RangeOf(type).high
      /\ \A other \in RangeOf(type).low..RangeOf(type).high :
           \/ other = stored
           \/ Distance(value, 2 * stored) < Distance(value, 2 * other)
           \/ /\ Distance(value, 2 * stored) = Distance(value, 2 * other)
              /\ Distance(0, stored) > Distance(0, other)
  BY <1>2, Nearest
<1> HIDE DEF stored
<1>4. FromMemory(memory, type) = stored
  BY <1>2, <1>3, NumberBack
<1>5. memory \in Seq(Byte)
  <2>1. stored \in Int /\ type.bytes \in Nat
    BY <1>2, <1>3
  <2> QED BY <2>1, InMemoryType
<1> HIDE DEF memory
<1>6. bytes \in Seq(Byte) /\ Ordered(bytes, littleEndian[b]) = memory
  <2>1. littleEndian[b] \in BOOLEAN
    BY DEF BuffersOK
  <2> QED BY <1>5, <2>1, Turned
<1>7. Appended(b, bytes)
  BY DEF WriteNumber, memory, stored
<1> HIDE DEF bytes
<1>8. Added(b) = bytes /\ readIndex' = readIndex /\ data' = [data EXCEPT ![b] = data[b] \o Added(b)]
  BY <1>6, <1>7, WriteOn
<1>9. FromMemory(Ordered(Added(b), littleEndian[b]), type) = stored
  BY <1>4, <1>6, <1>8
<1>10. Written
  BY <1>1, <1>3, <1>8, <1>9 DEF Written
<1> QED BY <1>1, <1>6, <1>7, <1>10, WriteOn, NotReading, NotCopying DEF Kept

(* Reading.                                                                *)
LEMMA ReadStringStep ==
  ASSUME BuffersOK, NEW b \in Buffers, NEW len \in Lengths,
         ReadString(b, len) \/ ReadHex(b, len) \/ ReadBase64(b, len)
  PROVE  Kept
<1> DEFINE n == AtMost(len, bytesRemaining(b))
           bytes == Upcoming(b, n)
<1>1. len \in Nat
  BY BufferAssumption
<1>2. n \in Nat /\ n <= bytesRemaining(b)
  BY <1>1, LeftOver
<1> HIDE DEF n
<1>3. /\ ReadposAfter(b, readIndex[b] + n) = readIndex[b] + n
      /\ bytes \in Seq(Byte) /\ Len(bytes) = n
  BY <1>2, Ahead
<1>4. UNCHANGED <<data, littleEndian>> /\ readIndex' = [readIndex EXCEPT ![b] = readIndex[b] + n]
  BY <1>3 DEF ReadString, ReadHex, ReadBase64, n
<1>5. /\ BuffersOK' /\ ReadFrom(b) = bytes /\ data' = data
      /\ \A c \in Buffers \ {b} : readIndex'[c] = readIndex[c]
  BY <1>2, <1>4, ReadOn
<1>6. Len(ReadFrom(b)) = AtMost(len, bytesRemaining(b))
  BY <1>3, <1>5 DEF n
<1>7. call'.buffer = b /\ call'.argument = len
      /\ call'.name \in {"read_string", "read_hex", "read_base64"}
  BY DEF ReadString, ReadHex, ReadBase64, Calls
<1>8. CASE ReadString(b, len)
  <2>1. result' = bytes /\ call'.name = "read_string"
    BY <1>8 DEF ReadString, Calls, n
  <2> HIDE DEF bytes
  <2>2. Read
    BY <1>5, <1>6, <1>7, <2>1 DEF Read
  <2> QED BY <1>5, <1>7, <2>2, NotWriting, NotCopying DEF Kept
<1>9. CASE ReadHex(b, len)
  <2>1. result' = HexEncode(bytes) /\ call'.name = "read_hex"
    BY <1>9 DEF ReadHex, Calls, n
  <2> HIDE DEF bytes
  <2>2. HexDecode(result') = bytes
    BY <1>3, <2>1, HexThere
  <2>3. Read
    BY <1>5, <1>6, <1>7, <2>1, <2>2 DEF Read
  <2> QED BY <1>5, <1>7, <2>3, NotWriting, NotCopying DEF Kept
<1>10. CASE ReadBase64(b, len)
  <2>1. result' = Base64Encode(bytes) /\ call'.name = "read_base64"
    BY <1>10 DEF ReadBase64, Calls, n
  <2> HIDE DEF bytes
  <2>2. Base64Decode(result') = bytes /\ Len(result') % 4 = 0
    BY <1>3, <2>1, Base64There
  <2>3. Read
    BY <1>5, <1>6, <1>7, <2>1, <2>2 DEF Read
  <2> QED BY <1>5, <1>7, <2>3, NotWriting, NotCopying DEF Kept
<1> QED BY <1>8, <1>9, <1>10

LEMMA ReadNumberStep ==
  ASSUME BuffersOK, NEW b \in Buffers, NEW type \in Types, ReadNumber(b, type)
  PROVE  Kept
<1> DEFINE n == AtMost(type.bytes, bytesRemaining(b))
           bytes == Upcoming(b, n)
           little == littleEndian[b]
<1>1. type \in [bytes : Nat \ {0}, signed : BOOLEAN]
  BY BufferAssumption
<1>2. n \in Nat /\ n <= bytesRemaining(b) /\ bytesRemaining(b) \in Nat
  <2>1. type.bytes \in Nat
    BY <1>1
  <2> QED BY <2>1, LeftOver
<1>3. UNCHANGED <<data, littleEndian>> /\ readIndex' = [readIndex EXCEPT ![b] = readIndex[b] + n]
  BY DEF ReadNumber
<1>4. PICK garbage \in [1..type.bytes - n -> Garbage] :
        result' = FromMemory(Ordered(bytes \o garbage, little), type)
  BY DEF ReadNumber
<1>5. call'.name = "read_number" /\ call'.buffer = b /\ call'.argument = type
  BY DEF ReadNumber, Calls
<1>6. bytesRemaining(b) >= type.bytes => n = type.bytes
  BY <1>1, <1>2 DEF AtMost
<1> HIDE DEF n
<1>7. bytes \in Seq(Byte) /\ Len(bytes) = n
  BY <1>2, Ahead
<1>8. /\ BuffersOK' /\ ReadFrom(b) = bytes /\ data' = data
      /\ \A c \in Buffers \ {b} : readIndex'[c] = readIndex[c]
  BY <1>2, <1>3, ReadOn
<1> HIDE DEF bytes
<1>9. ASSUME bytesRemaining(b) >= type.bytes
      PROVE  Ordered(InMemory(result', type), little) = bytes
  <2>1. n = type.bytes /\ type.bytes - n = 0
    BY <1>1, <1>6, <1>9
  <2>2. garbage = <<>>
    <3>1. garbage \in [1..0 -> Garbage]
      BY <2>1
    <3>2. garbage \in Seq(Garbage) /\ Len(garbage) = 0
      BY <3>1, IsSequence
    <3> QED BY <3>2, EmptySeq
  <2>3. bytes \o garbage = bytes
    BY <1>7, <2>2, ConcatEmptySeq
  <2>4. little \in BOOLEAN
    BY DEF BuffersOK
  <2> DEFINE turned == Ordered(bytes, little)
  <2>5. turned \in Seq(Byte) /\ Len(turned) = type.bytes /\ Ordered(turned, little) = bytes
    BY <1>7, <2>1, <2>4, Turned
  <2>6. result' = FromMemory(turned, type)
    BY <1>4, <2>3
  <2> HIDE DEF turned
  <2>7. InMemory(result', type) = turned
    BY <1>1, <2>5, <2>6, BytesBack
  <2> QED BY <2>5, <2>7
<1>10. Read
  BY <1>5, <1>8, <1>9 DEF Read
<1> QED BY <1>5, <1>8, <1>10, NotWriting, NotCopying DEF Kept

(* A delimiter found among the bytes ahead is found in the data.           *)
LEMMA Found ==
  ASSUME BuffersOK, NEW b \in Buffers, NEW n \in Nat, NEW len \in Nat, n + len <= bytesRemaining(b)
  PROVE  SubSeq(Upcoming(b, bytesRemaining(b)), n + 1, n + len)
           = SubSeq(data[b], readIndex[b] + n + 1, readIndex[b] + n + len)
<1> DEFINE up == Upcoming(b, bytesRemaining(b))
           s == data[b]
           from == readIndex[b]
           x == SubSeq(up, n + 1, n + len)
           f == from + n
           t == f + len
           y == SubSeq(s, f + 1, t)
<1>1. bytesRemaining(b) \in Nat
  BY LeftOver
<1>2. /\ up \in Seq(Byte) /\ Len(up) = bytesRemaining(b)
      /\ \A i \in 1..bytesRemaining(b) : up[i] = s[from + i]
  BY <1>1, Ahead
<1>3. s \in Seq(Byte) /\ from \in Nat /\ Len(s) \in Nat
  <2>1. s \in Seq(Byte) /\ from \in Nat
    BY DEF BuffersOK
  <2> QED BY <2>1, LenProperties
<1>4. from + (n + len) <= Len(s)
  BY <1>1, <1>3 DEF bytesRemaining
<1> HIDE DEF up, s, from
<1>5. x \in Seq(Byte) /\ Len(x) = len /\ \A i \in 1..len : x[i] = up[n + i]
  <2> DEFINE e == n + len
  <2>1. e \in Nat /\ n <= e /\ e <= Len(up) /\ e - n = len
    BY <1>1, <1>2
  <2> HIDE DEF e
  <2>2. /\ SubSeq(up, n + 1, e) \in Seq(Byte) /\ Len(SubSeq(up, n + 1, e)) = e - n
        /\ \A i \in 1..(e - n) : SubSeq(up, n + 1, e)[i] = up[n + i]
    BY <1>2, <2>1, Part
  <2> QED BY <2>1, <2>2 DEF e
<1>6. f \in Nat /\ t \in Nat /\ f <= t /\ t <= Len(s) /\ t - f = len
  BY <1>3, <1>4
<1>7. y \in Seq(Byte) /\ Len(y) = len /\ \A i \in 1..len : y[i] = s[f + i]
  <2> HIDE DEF f, t
  <2>1. /\ SubSeq(s, f + 1, t) \in Seq(Byte) /\ Len(SubSeq(s, f + 1, t)) = t - f
        /\ \A i \in 1..(t - f) : SubSeq(s, f + 1, t)[i] = s[f + i]
    BY <1>3, <1>6, Part
  <2> QED BY <1>6, <2>1
<1>8. \A i \in 1..len : up[n + i] = s[f + i]
  <2> TAKE i \in 1..len
  <2>1. n + i \in 1..bytesRemaining(b) /\ from + (n + i) = f + i
    BY <1>1, <1>3
  <2> HIDE DEF f
  <2> QED BY <1>2, <2>1
<1>9. x = y
  <2> HIDE DEF x, y, f
  <2>1. \A i \in 1..Len(x) : x[i] = y[i]
    BY <1>5, <1>7, <1>8
  <2> QED BY <1>5, <1>7, <2>1, SeqEqual
<1> QED BY <1>9 DEF up, s, from

LEMMA BeforeDelimiter ==
  ASSUME BuffersOK, NEW b \in Buffers, NEW delim \in Seq(Byte)
  PROVE  LET IsAhead(n) == SubSeq(data[b], readIndex[b] + n + 1, readIndex[b] + n + Len(delim)) = delim
             before == bytesBeforeDelimiter(b, delim)
         IN  /\ before < 0 => \A n \in 0..bytesRemaining(b) - Len(delim) : ~IsAhead(n)
             /\ before >= 0 => /\ before \in Nat /\ before + Len(delim) <= bytesRemaining(b)
                               /\ IsAhead(before) /\ \A n \in 0..before - 1 : ~IsAhead(n)
<1> DEFINE IsAhead(n) == SubSeq(data[b], readIndex[b] + n + 1, readIndex[b] + n + Len(delim)) = delim
           found == {n \in 0..bytesRemaining(b) - Len(delim) :
                       SubSeq(Upcoming(b, bytesRemaining(b)), n + 1, n + Len(delim)) = delim}
           before == bytesBeforeDelimiter(b, delim)
<1>1. bytesRemaining(b) \in Nat /\ Len(delim) \in Nat
  BY LeftOver, LenProperties
<1>2. ASSUME NEW n \in 0..bytesRemaining(b) - Len(delim)
      PROVE  n \in found <=> IsAhead(n)
  <2>1. n \in Nat /\ n + Len(delim) <= bytesRemaining(b)
    BY <1>1
  <2>2. SubSeq(Upcoming(b, bytesRemaining(b)), n + 1, n + Len(delim))
          = SubSeq(data[b], readIndex[b] + n + 1, readIndex[b] + n + Len(delim))
    BY <1>1, <2>1, Found
  <2> QED BY <2>2
<1>3. found \subseteq 0..bytesRemaining(b) - Len(delim)
  OBVIOUS
<1>4. before = IF found = {} THEN -1 ELSE Min(found)
  BY DEF bytesBeforeDelimiter
<1> HIDE DEF found, IsAhead, before
<1>5. CASE found = {}
  <2>1. before < 0 /\ ~(before >= 0)
    BY <1>4, <1>5
  <2> QED BY <1>2, <1>5, <2>1 DEF IsAhead, before
<1>6. CASE found # {}
  <2>1. found \in SUBSET Nat
    BY <1>1, <1>3
  <2>2. Min(found) \in found /\ \A n \in found : Min(found) <= n
    <3>1. \E i \in found : \A n \in found : i <= n
      BY <1>6, <2>1, LeastNumber
    <3> QED BY <3>1 DEF Min
  <2>3. before = Min(found)
    BY <1>4, <1>6
  <2>4. before \in found /\ \A n \in found : before <= n
    BY <2>2, <2>3
  <2>5. before \in 0..bytesRemaining(b) - Len(delim)
    BY <1>3, <2>4
  <2>6. before \in Nat /\ before + Len(delim) <= bytesRemaining(b) /\ ~(before < 0)
    BY <1>1, <2>5
  <2>7. IsAhead(before)
    BY <1>2, <2>4, <2>5
  <2>8. \A n \in 0..before - 1 : ~IsAhead(n)
    <3> TAKE n \in 0..before - 1
    <3>1. n \in 0..bytesRemaining(b) - Len(delim) /\ ~(before <= n)
      BY <1>1, <2>5
    <3> QED BY <1>2, <2>4, <3>1
  <2> QED BY <2>6, <2>7, <2>8 DEF IsAhead, before
<1> QED BY <1>5, <1>6

LEMMA ReadDelimitedStep ==
  ASSUME BuffersOK, NEW b \in Buffers, NEW delim \in Delimiters, ReadDelimited(b, delim)
  PROVE  Kept
<1> DEFINE IsAhead(i) == SubSeq(data[b], readIndex[b] + i + 1, readIndex[b] + i + Len(delim)) = delim
           n == bytesBeforeDelimiter(b, delim)
           all == n + Len(delim)
<1>1. delim \in Seq(Byte)
  BY BufferAssumption
<1>2. Len(delim) \in Nat
  BY <1>1, LenProperties
<1>3. n >= 0
  BY DEF ReadDelimited
<1>4. /\ n \in Nat /\ n + Len(delim) <= bytesRemaining(b)
      /\ IsAhead(n) /\ \A i \in 0..n - 1 : ~IsAhead(i)
  BY <1>1, <1>3, BeforeDelimiter
<1>5. call'.name = "read_delimited" /\ call'.buffer = b /\ call'.argument = delim
  BY DEF ReadDelimited, Calls
<1>6. /\ result' = Upcoming(b, n) /\ UNCHANGED <<data, littleEndian>>
      /\ readIndex' = [readIndex EXCEPT ![b] = ReadposAfter(b, readIndex[b] + n + Len(delim))]
  BY DEF ReadDelimited
<1> HIDE DEF n
<1>7. all \in Nat /\ all <= bytesRemaining(b) /\ n <= bytesRemaining(b)
      /\ readIndex[b] + n + Len(delim) = readIndex[b] + all
  <2>1. readIndex[b] \in Nat /\ bytesRemaining(b) \in Nat
    BY LeftOver DEF BuffersOK
  <2> QED BY <1>2, <1>4, <2>1
<1> HIDE DEF all
<1>8. /\ ReadposAfter(b, readIndex[b] + all) = readIndex[b] + all
      /\ Upcoming(b, all) \in Seq(Byte) /\ Len(Upcoming(b, all)) = all
      /\ readIndex[b] + all <= Len(data[b])
  BY <1>7, Ahead
<1>9. /\ BuffersOK' /\ ReadFrom(b) = Upcoming(b, all) /\ data' = data
      /\ \A c \in Buffers \ {b} : readIndex'[c] = readIndex[c]
  <2>1. readIndex' = [readIndex EXCEPT ![b] = readIndex[b] + all]
    BY <1>6, <1>7, <1>8
  <2> QED BY <1>6, <1>7, <2>1, ReadOn
<1>10. Upcoming(b, n) \in Seq(Byte) /\ Len(Upcoming(b, n)) = n
  BY <1>4, <1>7, Ahead
<1>11. Upcoming(b, all) = Upcoming(b, n) \o delim
  <2> DEFINE s == data[b]
             from == readIndex[b] + 1
             mid == readIndex[b] + n
             to == readIndex[b] + all
  <2>1. s \in Seq(Byte) /\ readIndex[b] \in Nat
    BY DEF BuffersOK
  <2>2. Len(s) \in Nat
    BY <2>1, LenProperties
  <2>3. from \in 1..Len(s) + 1 /\ mid \in from - 1..Len(s) /\ to \in mid..Len(s)
    <3>1. n <= all
      BY <1>2, <1>4 DEF all
    <3>2. \A i, l \in Nat : \A m, a \in Nat : m <= a /\ i + a <= l =>
            i + 1 \in 1..l + 1 /\ i + m \in (i + 1) - 1..l /\ i + a \in (i + m)..l
      OBVIOUS
    <3>3. all \in Nat /\ n \in Nat /\ readIndex[b] + all <= Len(s)
      BY <1>4, <1>7, <1>8
    <3> HIDE DEF s
    <3> QED BY <2>1, <2>2, <3>1, <3>2, <3>3
  <2>4. SubSeq(s, from, mid) \o SubSeq(s, mid + 1, to) = SubSeq(s, from, to)
    <3> HIDE DEF s, from, mid, to
    <3> QED BY <2>1, <2>3, ConcatAdjacentSubSeq
  <2>5. SubSeq(s, mid + 1, to) = delim
    BY <1>4, <1>7
  <2> QED BY <2>4, <2>5 DEF Upcoming
<1>12. ReadFrom(b) = <<>> => delim = <<>>
  <2>1. ASSUME ReadFrom(b) = <<>> PROVE all = 0
    BY <1>8, <1>9, <2>1
  <2>2. all = 0 => Len(delim) = 0
    BY <1>2, <1>4 DEF all
  <2> QED BY <1>1, <2>1, <2>2, EmptySeq
<1>13. ReadFrom(b) = result' \o delim /\ Len(result') = n
  BY <1>6, <1>9, <1>10, <1>11
<1>14. Read
  BY <1>4, <1>5, <1>9, <1>12, <1>13 DEF Read
<1> QED BY <1>5, <1>9, <1>14, NotWriting, NotCopying DEF Kept

LEMMA DelimiterMissingStep ==
  ASSUME BuffersOK, NEW b \in Buffers, NEW delim \in Delimiters, DelimiterMissing(b, delim)
  PROVE  Kept
<1> DEFINE IsAhead(i) == SubSeq(data[b], readIndex[b] + i + 1, readIndex[b] + i + Len(delim)) = delim
<1>1. delim \in Seq(Byte)
  BY BufferAssumption
<1>2. bytesBeforeDelimiter(b, delim) < 0
  BY DEF DelimiterMissing
<1>3. \A n \in 0..bytesRemaining(b) - Len(delim) : ~IsAhead(n)
  BY <1>1, <1>2, BeforeDelimiter
<1>4. data' = data /\ readIndex' = readIndex /\ UNCHANGED contents
  BY DEF DelimiterMissing, contents
<1>5. call'.name = "read_delimited" /\ call'.buffer = b /\ call'.argument = delim
  BY DEF DelimiterMissing, Calls
<1>6. BuffersOK'
  BY <1>4, WriteNothing
<1>7. ReadFrom(b) = <<>>
  <2>1. readIndex[b] + 1 \in Int /\ readIndex[b] \in Int /\ readIndex[b] < readIndex[b] + 1
    BY DEF BuffersOK
  <2>2. SubSeq(data[b], readIndex[b] + 1, readIndex[b]) = <<>>
    BY <2>1, SubSeqEmpty
  <2> QED BY <1>4, <2>2 DEF ReadFrom
<1>8. Read
  BY <1>3, <1>4, <1>5, <1>7 DEF Read
<1> QED BY <1>5, <1>6, <1>8, NotWriting, NotCopying DEF Kept

(* Copying.                                                                *)
LEMMA WriteBufferPartStep ==
  ASSUME BuffersOK, NEW b \in Buffers, NEW source \in Buffers, NEW ammount \in Lengths,
         WriteBufferPart(b, source, ammount)
  PROVE  Kept
<1> DEFINE n == AtMost(ammount, bytesRemaining(source))
           pos == readIndex[source]
           bytes == SubSeq(data[source], pos + 1, pos + n)
<1>1. ammount \in Nat
  BY BufferAssumption
<1>2. n \in Nat /\ n <= bytesRemaining(source)
  BY <1>1, LeftOver
<1>3. /\ call'.name = "write_buffer_part" /\ call'.buffer = b
      /\ call'.argument[1] = source /\ call'.argument[2] = ammount
  BY DEF WriteBufferPart, Writes
<1>4. /\ data' = CopyFrom(b, source, pos, n).data /\ littleEndian' = littleEndian /\ result' = n
      /\ readIndex' = [readIndex EXCEPT ![source] = CopyFrom(b, source, pos, n).pos]
  BY DEF WriteBufferPart
<1>5. result' = AtMost(ammount, bytesRemaining(source))
  BY <1>4
<1> HIDE DEF n
<1>6. /\ pos + n \in Nat /\ pos + n <= Len(data[source]) /\ pos \in Nat
      /\ bytes \in Seq(Byte) /\ Len(bytes) = n
  <2>1. /\ pos + n \in Nat /\ pos + n <= Len(data[source])
        /\ Upcoming(source, n) \in Seq(Byte) /\ Len(Upcoming(source, n)) = n
    BY <1>2, Ahead
  <2>2. pos \in Nat
    BY DEF BuffersOK
  <2> QED BY <2>1, <2>2 DEF Upcoming
<1>7. CopyFrom(b, source, pos, n)
        = [data |-> [data EXCEPT ![b] = data[b] \o bytes], pos |-> pos + n]
  <2>1. data \in [Buffers -> Seq(Byte)]
    BY DEF BuffersOK
  <2> HIDE DEF pos
  <2> QED BY <1>2, <1>6, <2>1, CopyAll DEF bytes
<1> HIDE DEF bytes
<1>8. data' = [data EXCEPT ![b] = data[b] \o bytes] /\ readIndex' = [readIndex EXCEPT ![source] = pos + n]
  BY <1>4, <1>7
<1>9. /\ data' \in [Buffers -> Seq(Byte)]
      /\ \A c \in Buffers : Len(data'[c]) \in Nat /\ Len(data[c]) <= Len(data'[c])
  BY <1>6, <1>8, AddedBytes
<1>10. /\ readIndex' \in [Buffers -> Nat] /\ readIndex'[source] = pos + n
       /\ \A c \in Buffers \ {source} : readIndex'[c] = readIndex[c]
  BY <1>6, <1>8 DEF BuffersOK
<1>11. ReadposWithin'
  <2> SUFFICES ASSUME NEW c \in Buffers PROVE readIndex'[c] <= Len(data'[c])
    BY DEF ReadposWithin
  <2>1. Len(data[c]) \in Nat
    <3>1. data[c] \in Seq(Byte)
      BY DEF BuffersOK
    <3> QED BY <3>1, LenProperties
  <2>2. readIndex'[c] \in Nat /\ readIndex'[c] <= Len(data[c])
    <3> HIDE DEF pos
    <3> QED BY <1>6, <1>10 DEF BuffersOK, ReadposWithin
  <2> QED BY <1>9, <2>1, <2>2
<1>12. BuffersOK'
  BY <1>4, <1>9, <1>10, <1>11 DEF BuffersOK
<1>13. ReadFrom(source) = bytes
  BY <1>10 DEF ReadFrom, bytes
<1>14. Copied
  BY <1>3, <1>4, <1>5, <1>6, <1>8, <1>10, <1>13 DEF Copied
<1> QED BY <1>3, <1>12, <1>14, NotWriting, NotReading DEF Kept

LEMMA WriteBufferStep ==
  ASSUME BuffersOK, NEW b \in Buffers, NEW source \in Buffers, WriteBuffer(b, source)
  PROVE  Kept
<1> DEFINE s == data[source]
           n == Len(s)
<1>1. call'.name = "write_buffer" /\ call'.buffer = b /\ call'.argument = source
  BY DEF WriteBuffer, Writes
<1>2. data \in [Buffers -> Seq(Byte)] /\ s \in Seq(Byte) /\ n \in Nat
  <2>1. data \in [Buffers -> Seq(Byte)]
    BY DEF BuffersOK
  <2> QED BY <2>1, LenProperties
<1>3. /\ data' = CopyFrom(b, source, 0, n).data /\ littleEndian' = littleEndian
      /\ readIndex' = [readIndex EXCEPT ![source] = readIndex[source]]
  BY DEF WriteBuffer, GoneBack
<1>4. CopyFrom(b, source, 0, n).data = [data EXCEPT ![b] = data[b] \o s]
  <2>1. 0 \in Nat /\ 0 + n <= Len(data[source]) /\ 0 + 1 = 1 /\ 0 + n = n
    BY <1>2
  <2> DEFINE piece == SubSeq(data[source], 0 + 1, 0 + n)
  <2>2. CopyFrom(b, source, 0, n) = [data |-> [data EXCEPT ![b] = data[b] \o piece], pos |-> 0 + n]
    <3> HIDE DEF n
    <3> QED BY <1>2, <2>1, CopyAll
  <2>3. piece = s
    <3>1. SubSeq(s, 1, n) = s
      BY <1>2, SubSeqFull
    <3> QED BY <2>1, <3>1
  <2> HIDE DEF piece, n
  <2>4. CopyFrom(b, source, 0, n).data = [data EXCEPT ![b] = data[b] \o piece]
    <3> DEFINE new == [data EXCEPT ![b] = data[b] \o piece]
               copied == CopyFrom(b, source, 0, n)
               end == 0 + n
    <3>1. copied = [data |-> new, pos |-> end]
      BY <2>2
    <3> HIDE DEF new, copied, end
    <3>2. copied.data = new
      BY <3>1
    <3> QED BY <3>2 DEF new, copied
  <2> QED BY <2>3, <2>4
<1>5. data' = [data EXCEPT ![b] = data[b] \o s]
  BY <1>3, <1>4
<1>6. readIndex' = readIndex
  BY <1>3 DEF BuffersOK
<1>7. /\ data' \in [Buffers -> Seq(Byte)]
      /\ \A c \in Buffers : Len(data'[c]) \in Nat /\ Len(data[c]) <= Len(data'[c])
  BY <1>2, <1>5, AddedBytes
<1>8. ReadposWithin'
  <2> SUFFICES ASSUME NEW c \in Buffers PROVE readIndex'[c] <= Len(data'[c])
    BY DEF ReadposWithin
  <2>1. Len(data[c]) \in Nat
    <3>1. data[c] \in Seq(Byte)
      BY <1>2
    <3> QED BY <3>1, LenProperties
  <2>2. readIndex'[c] \in Nat /\ readIndex'[c] <= Len(data[c])
    BY <1>6 DEF BuffersOK, ReadposWithin
  <2> QED BY <1>7, <2>1, <2>2
<1>9. BuffersOK'
  BY <1>3, <1>6, <1>7, <1>8 DEF BuffersOK
<1>10. Copied
  BY <1>1, <1>5, <1>6 DEF Copied
<1> QED BY <1>1, <1>9, <1>10, NotWriting, NotReading DEF Kept
----------------------------------------------------------------------------
LEMMA Begins == Init => BuffersOK
<1> SUFFICES ASSUME Init PROVE BuffersOK
  OBVIOUS
<1>1. <<>> \in Seq(Byte) /\ Len(<<>>) = 0
  OBVIOUS
<1>2. data = [b \in Buffers |-> <<>>] /\ readIndex = [b \in Buffers |-> 0]
      /\ littleEndian = [b \in Buffers |-> FALSE]
  BY DEF Init
<1> QED BY <1>1, <1>2 DEF BuffersOK, ReadposWithin

LEMMA Steps == BuffersOK /\ Next => Kept
<1> SUFFICES ASSUME BuffersOK, Next PROVE Kept
  OBVIOUS
<1>1. PICK b \in Buffers :
        \/ Clear(b) \/ SetLittleEndian(b)
        \/ \E pos \in Lengths : SetReadpos(b, pos)
        \/ \E value \in Values, type \in Types : WriteNumber(b, value, type)
        \/ \E type \in Types : ReadNumber(b, type)
        \/ \E n \in Lengths :
             \/ Skip(b, n) \/ ReadString(b, n) \/ ReadHex(b, n) \/ ReadBase64(b, n)
             \/ \E source \in Buffers : WriteBufferPart(b, source, n)
        \/ \E bytes \in Strings : WriteString(b, bytes) \/ AppendFile(b, bytes)
        \/ \E delim \in Delimiters :
             ReadDelimited(b, delim) \/ DelimiterMissing(b, delim)
        \/ \E text \in HexTexts : WriteHex(b, text)
        \/ \E text \in Base64Texts : WriteBase64(b, text)
        \/ \E source \in Buffers : WriteBuffer(b, source)
  BY DEF Next
<1>2. CASE Clear(b) \/ SetLittleEndian(b)
           \/ \E pos \in Lengths : SetReadpos(b, pos) \/ Skip(b, pos)
  BY <1>2, MoveStep
<1>3. CASE \E value \in Values, type \in Types : WriteNumber(b, value, type)
  BY <1>3, WriteNumberStep
<1>4. CASE \E type \in Types : ReadNumber(b, type)
  BY <1>4, ReadNumberStep
<1>5. CASE \E n \in Lengths : ReadString(b, n) \/ ReadHex(b, n) \/ ReadBase64(b, n)
  BY <1>5, ReadStringStep
<1>6. CASE \E source \in Buffers, n \in Lengths : WriteBufferPart(b, source, n)
  BY <1>6, WriteBufferPartStep
<1>7. CASE \E bytes \in Strings : WriteString(b, bytes) \/ AppendFile(b, bytes)
  BY <1>7, WriteStringStep
<1>8. CASE \E delim \in Delimiters : ReadDelimited(b, delim)
  BY <1>8, ReadDelimitedStep
<1>9. CASE \E delim \in Delimiters : DelimiterMissing(b, delim)
  BY <1>9, DelimiterMissingStep
<1>10. CASE \E text \in HexTexts : WriteHex(b, text)
  BY <1>10, WriteHexStep
<1>11. CASE \E text \in Base64Texts : WriteBase64(b, text)
  BY <1>11, WriteBase64Step
<1>12. CASE \E source \in Buffers : WriteBuffer(b, source)
  BY <1>12, WriteBufferStep
<1> QED BY <1>1, <1>2, <1>3, <1>4, <1>5, <1>6, <1>7, <1>8, <1>9, <1>10, <1>11, <1>12

LEMMA Stutters == BuffersOK /\ UNCHANGED vars => BuffersOK'
BY DEF vars, contents, BuffersOK, ReadposWithin

(* Every Buffer holds bytes, and no read position is behind their end.     *)
THEOREM BuffersStayOK == Spec => []BuffersOK
<1>1. BuffersOK /\ [Next]_vars => BuffersOK'
  BY Steps, Stutters DEF Kept
<1> QED BY <1>1, Begins, PTL DEF Spec

(* What bytesRemaining subtracts is never more than what it subtracts      *)
(* from, for buffers and calls of any size.                                *)
THEOREM ReadposStaysWithin == Spec => []ReadposWithin
<1>1. BuffersOK => ReadposWithin
  BY DEF BuffersOK
<1> QED BY <1>1, BuffersStayOK, PTL

(* The write_ functions append strings, files, texts and numbers of every  *)
(* type with their meaning: the decoders agree with the reference for texts of  *)
(* every length, however often they flush their output buffer.             *)
THEOREM WritesMeanWhatTheySay == Spec => WrittenAsMeant
<1>1. BuffersOK /\ [Next]_vars => [Written]_vars
  BY Steps DEF Kept
<1> QED BY <1>1, BuffersStayOK, PTL DEF Spec, WrittenAsMeant

(* The read_ functions return what they pass over, for buffers of every    *)
(* length and numbers of every type.                                       *)
THEOREM ReadsReturnWhatIsStored == Spec => ReadAsStored
<1>1. BuffersOK /\ [Next]_vars => [Read]_vars
  BY Steps DEF Kept
<1> QED BY <1>1, BuffersStayOK, PTL DEF Spec, ReadAsStored

(* write_buffer and write_buffer_part copy all, however the pieces are     *)
(* cut, to the source itself too.                                          *)
THEOREM CopiesAreWhole == Spec => CopiedWhole
<1>1. BuffersOK /\ [Next]_vars => [Copied]_vars
  BY Steps DEF Kept
<1> QED BY <1>1, BuffersStayOK, PTL DEF Spec, CopiedWhole
=============================================================================
