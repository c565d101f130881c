------------------------------- MODULE Lemmas ------------------------------
(***************************************************************************)
(* Facts about numbers and about functions defined by recursion, used by   *)
(* the proofs of several components.  An operator cannot be a parameter of *)
(* a lemma here, so induction is stated for sets of numbers, and recursion *)
(* for a step that is a function.                                          *)
(***************************************************************************)
EXTENDS Integers, WellFoundedInduction, TLAPS

(* A set of natural numbers that is not empty has a least one.             *)
LEMMA LeastNumber ==
  ASSUME NEW S \in SUBSET Nat, S # {}
  PROVE  \E i \in S : \A j \in S : i <= j
<1> DEFINE R == OpToRel(<, Nat)
<1>1. IsWellFoundedOn(R, Nat)
  BY NatLessThanWellFounded
<1>2. PICK x \in S : \A y \in S : ~ (<<y, x>> \in R)
  <2> HIDE DEF R
  <2> QED BY <1>1, WFMin
<1>3. \A y \in S : ~ (y < x)
  BY <1>2 DEF OpToRel
<1> QED BY <1>3

(* A set that holds 0 and the successor of each of its numbers below N     *)
(* holds all up to N.                                                      *)
LEMMA Induct ==
  ASSUME NEW N \in Nat, NEW S, 0 \in S, \A n \in 1..N : n - 1 \in S => n \in S
  PROVE  0..N \subseteq S
<1> DEFINE bad == (0..N) \ S
<1>1. CASE bad = {}
  BY <1>1
<1>2. CASE bad # {}
  <2>1. PICK i \in bad : \A j \in bad : i <= j
    <3>1. bad \in SUBSET Nat
      OBVIOUS
    <3> HIDE DEF bad
    <3> QED BY <1>2, <3>1, LeastNumber
  <2>2. i \in 1..N /\ i - 1 \in 0..N /\ i - 1 \notin bad
    BY <2>1
  <2> QED BY <2>1, <2>2
<1> QED BY <1>1, <1>2

(* A function defined step by step over 0..N, with values in D.            *)
IsFold(g, N, D, base, step) ==
  /\ g \in [0..N -> D]
  /\ g[0] = base
  /\ \A n \in 1..N : g[n] = step[<<n, g[n - 1]>>]

LEMMA FoldExists ==
  ASSUME NEW N \in Nat, NEW D, NEW base \in D, NEW step \in [(1..N) \X D -> D]
  PROVE  \E g : IsFold(g, N, D, base, step)
<1> DEFINE Fold(g, m) == g[0] = base /\ \A n \in 1..m : g[n] = step[<<n, g[n - 1]>>]
           S == {m \in 0..N : \E g \in [0..m -> D] : Fold(g, m)}
<1>1. 0 \in S
  <2> DEFINE g == [n \in 0..0 |-> base]
  <2>1. g \in [0..0 -> D] /\ g[0] = base
    OBVIOUS
  <2> HIDE DEF g
  <2>2. \E h \in [0..0 -> D] : Fold(h, 0)
    BY <2>1
  <2> QED BY <2>2
<1>2. ASSUME NEW m \in 1..N, m - 1 \in S PROVE m \in S
  <2>1. PICK g \in [0..(m - 1) -> D] : Fold(g, m - 1)
    BY <1>2
  <2> DEFINE h == [n \in 0..m |-> IF n = m THEN step[<<m, g[m - 1]>>] ELSE g[n]]
  <2>2. step[<<m, g[m - 1]>>] \in D
    OBVIOUS
  <2>3. h \in [0..m -> D]
    BY <2>2
  <2>4. h[0] = base
    BY <2>1
  <2>5. ASSUME NEW n \in 1..m PROVE h[n] = step[<<n, h[n - 1]>>]
    <3>1. h[n - 1] = g[n - 1]
      OBVIOUS
    <3>2. CASE n = m
      <4>1. h[m] = step[<<m, g[m - 1]>>]
        OBVIOUS
      <4> HIDE DEF h
      <4> QED BY <3>1, <3>2, <4>1
    <3>3. CASE n # m
      <4>1. n \in 1..(m - 1) /\ h[n] = g[n]
        BY <3>3
      <4>2. g[n] = step[<<n, g[n - 1]>>]
        BY <2>1, <4>1
      <4> HIDE DEF h
      <4> QED BY <3>1, <4>1, <4>2
    <3> QED BY <3>2, <3>3
  <2> HIDE DEF h
  <2> QED BY <2>3, <2>4, <2>5
<1> HIDE DEF S
<1>3. 0..N \subseteq S
  BY <1>1, <1>2, Induct
<1>4. N \in S
  BY <1>3
<1> QED BY <1>4 DEF S, IsFold
----------------------------------------------------------------------------
(* Products, quotients and remainders.  The solver knows little of products *)
(* of two variables; these facts are all the proofs need.                  *)
LEMMA ProductType ==
  ASSUME NEW a \in Nat, NEW b \in Nat
  PROVE  a * b \in Nat /\ (a > 0 /\ b > 0 => a * b > 0)
<1>1. a * b \in Int
  OBVIOUS
<1>2. a * b >= 0
  OBVIOUS
<1>3. ASSUME a > 0, b > 0 PROVE a * b > 0
  BY <1>3
<1> QED BY <1>1, <1>2, <1>3

LEMMA ProductAtMost ==
  ASSUME NEW a \in Int, NEW b \in Int, NEW c \in Nat, a <= b
  PROVE  a * c <= b * c
<1>1. (b - a) * c >= 0
  OBVIOUS
<1>2. (b - a) * c = b * c - a * c
  OBVIOUS
<1> QED BY <1>1, <1>2

(* k - 1 full rows and one not full are less than k.                       *)
LEMMA ProductLess ==
  ASSUME NEW a \in Int, NEW b \in Int, NEW c \in Nat, a < b
  PROVE  a * c + c <= b * c
<1>1. (a + 1) * c <= b * c
  BY ProductAtMost
<1>2. (a + 1) * c = a * c + c
  OBVIOUS
<1> QED BY <1>1, <1>2

LEMMA DivMod ==
  ASSUME NEW x \in Int, NEW b \in Nat, b > 0
  PROVE  /\ x \div b \in Int /\ x % b \in 0..(b - 1) /\ x = (x \div b) * b + (x % b)
         /\ x >= 0 => x \div b \in Nat
<1> DEFINE d == x \div b
           m == x % b
<1>1. d \in Int /\ m \in 0..(b - 1) /\ m = x - b * d
  OBVIOUS
<1>2. x >= 0 => d >= 0
  OBVIOUS
<1> HIDE DEF d, m
<1>3. x = d * b + m
  BY <1>1
<1>4. x >= 0 => d \in Nat
  BY <1>1, <1>2
<1> QED BY <1>1, <1>3, <1>4 DEF d, m

LEMMA DivUnique ==
  ASSUME NEW q \in Int, NEW b \in Nat, b > 0, NEW r \in 0..(b - 1)
  PROVE  (q * b + r) \div b = q /\ (q * b + r) % b = r
<1> DEFINE x == q * b + r
           d == x \div b
           m == x % b
<1>1. x \in Int
  OBVIOUS
<1>2. d \in Int /\ m \in 0..(b - 1) /\ x = d * b + m
  <2> HIDE DEF x
  <2> QED BY <1>1, DivMod
<1>3. x = q * b + r
  OBVIOUS
<1> HIDE DEF x, d, m
<1>4. q * b \in Int /\ d * b \in Int
  BY <1>2
<1>5. ~(d < q)
  <2>1. d < q => d * b + b <= q * b
    BY <1>2, ProductLess
  <2> QED BY <1>2, <1>3, <1>4, <2>1
<1>6. ~(q < d)
  <2>1. q < d => q * b + b <= d * b
    BY <1>2, ProductLess
  <2> QED BY <1>2, <1>3, <1>4, <2>1
<1>7. d = q
  BY <1>2, <1>5, <1>6
<1>8. m = r
  BY <1>2, <1>3, <1>4, <1>7
<1> QED BY <1>7, <1>8 DEF x, d, m

(* Dividing by a product is dividing by its factors, one after the other.  *)
LEMMA DivTwice ==
  ASSUME NEW x \in Int, NEW a \in Nat, NEW b \in Nat, a > 0, b > 0
  PROVE  /\ x \div (a * b) = (x \div a) \div b
         /\ x % (a * b) = ((x \div a) % b) * a + (x % a)
<1> DEFINE d == x \div a
           r == x % a
           e == d \div b
           s == d % b
           c == a * b
           low == s * a + r
<1>1. d \in Int /\ r \in 0..(a - 1) /\ x = d * a + r
  BY DivMod
<1>2. e \in Int /\ s \in 0..(b - 1) /\ d = e * b + s
  <2> HIDE DEF d
  <2> QED BY <1>1, DivMod
<1>3. c \in Nat /\ c > 0
  BY ProductType
<1> HIDE DEF d, r, e, s
<1>4. low \in 0..(c - 1)
  <2>1. s * a \in Nat
    BY <1>2, ProductType
  <2>2. s * a + a <= b * a
    BY <1>2, ProductLess
  <2>3. b * a = c
    OBVIOUS
  <2> HIDE DEF c
  <2> QED BY <1>1, <1>3, <2>1, <2>2, <2>3
<1>5. x = e * c + low
  <2>1. x = (e * b + s) * a + r
    BY <1>1, <1>2
  <2>2. (e * b + s) * a = e * (a * b) + s * a
    BY <1>2
  <2> QED BY <1>1, <1>2, <2>1, <2>2
<1> HIDE DEF c, low
<1>6. x \div c = e /\ x % c = low
  BY <1>2, <1>3, <1>4, <1>5, DivUnique
<1> QED BY <1>6, Zenon DEF c, low, d, r, e, s
============================================================================
