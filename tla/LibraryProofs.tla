--------------------------- MODULE LibraryProofs ---------------------------
(***************************************************************************)
(* Proofs about HandleMap and about Library, for any kinds and numbers of  *)
(* objects, handles of every width and any number of times the library is  *)
(* started.                                                                *)
(***************************************************************************)
EXTENDS Library, FiniteSetTheorems, TLAPS
----------------------------------------------------------------------------
(* HandleMap.                                                              *)

(* What the invariants need of an allocation: the handle is in range, is   *)
(* not 0 and names nothing yet.                                            *)
LEMMA NextFreeIsFree ==
  ASSUME NEW h \in Handles, NextFree(h)
  PROVE  h \notin Live /\ h # 0
  BY DEF NextFree, Free

(* The map holds finitely many objects at a time: counting them, which     *)
(* only the history variable mostLive does, needs that.                    *)
FiniteInv == IsFiniteSet(Live)

LEMMA FiniteCount ==
  ASSUME FiniteInv
  PROVE  Cardinality(Live) \in Nat
  BY FS_CardinalityType DEF FiniteInv

LEMMA FiniteStep ==
  ASSUME FiniteInv, [Next]_vars
  PROVE  FiniteInv'
<1> USE DEF FiniteInv
<1>1. CASE UNCHANGED vars
  BY <1>1 DEF vars, Live
<1>2. ASSUME NEW kind \in Kinds, Allocate(kind) PROVE FiniteInv'
  <2>1. PICK h \in Handles : Live' = Live \cup {h}
    BY <1>2 DEF Allocate, Live
  <2> QED BY <2>1, FS_AddElement
<1>3. ASSUME NEW call \in Calls, NEW h \in Handles, Destroy(call, h)
      PROVE  FiniteInv'
  <2>1. Live' = Live \ {h}
    BY <1>3 DEF Destroy, Release, Live
  <2> QED BY <2>1, FS_RemoveElement
<1>4. CASE ReleaseAll
  <2>1. Live' = {}
    BY <1>4 DEF ReleaseAll, Live
  <2> QED BY <2>1, FS_EmptySet
<1> QED BY <1>1, <1>2, <1>3, <1>4 DEF Next

(* ... always.                                                             *)
THEOREM FiniteAlways == Spec => []FiniteInv
<1>1. Init => FiniteInv
  BY FS_EmptySet DEF Init, FiniteInv, Live
<1>2. FiniteInv /\ [Next]_vars => FiniteInv'
  BY FiniteStep
<1> QED BY <1>1, <1>2, PTL DEF Spec
-----------------------------------------------------------------------------
LEMMA TypeStep ==
  ASSUME TypeOK, FiniteInv, [Next]_vars
  PROVE  TypeOK'
<1> USE HandleWrapAssumption, KindsAssumption
<1>1. CASE UNCHANGED vars
  BY <1>1 DEF TypeOK, vars, Live, Handles
<1>2. ASSUME NEW kind \in Kinds, Allocate(kind) PROVE TypeOK'
  <2>1. PICK h \in Handles :
           /\ NextFree(h)
           /\ nextHandle' = Afterwards(h)
           /\ handleOf' = Append(handleOf, h)
           /\ kindOf' = Append(kindOf, kind)
           /\ content' = [g \in Live \cup {h} |->
                IF g = h THEN Len(handleOf) + 1 ELSE content[g]]
    BY <1>2 DEF Allocate
  <2> h \in Handles \ {0}
    BY <2>1, NextFreeIsFree
  <2>2. /\ handleOf' \in Seq(Handles \ {0}) /\ Len(handleOf') = Len(handleOf) + 1
        /\ kindOf' \in Seq(Kinds) /\ Len(kindOf') = Len(handleOf')
    BY <2>1 DEF TypeOK
  <2>3. nextHandle' \in Handles
    BY <2>1 DEF Afterwards, Handles
  <2>4. Live' \subseteq Handles \ {0} /\ content' \in [Live' -> 1..Len(handleOf')]
    <3>1. Len(handleOf) \in Nat /\ content \in [Live -> 1..Len(handleOf)]
      BY DEF TypeOK
    <3>2. Live' = Live \cup {h}
      BY <2>1 DEF Live
    <3> QED BY <2>1, <2>2, <3>1, <3>2 DEF TypeOK
  <2>5. released' \subseteq 1..Len(handleOf')
    BY <1>2, <2>2 DEF TypeOK, Allocate
  <2>6. mostLive' \in Nat
    BY <1>2, FiniteCount DEF TypeOK, Allocate, Larger
  <2> QED BY <2>2, <2>3, <2>4, <2>5, <2>6 DEF TypeOK
<1>3. ASSUME NEW call \in Calls, NEW h \in Handles, Destroy(call, h)
      PROVE  TypeOK'
  <2>1. h \in Live /\ content' = [g \in Live \ {h} |-> content[g]]
        /\ released' = released \cup {content[h]}
        /\ UNCHANGED <<nextHandle, kindOf, handleOf, mostLive>>
    BY <1>3 DEF Destroy, Found, Release
  <2>2. Live' = Live \ {h}
    BY <2>1 DEF Live
  <2> QED BY <2>1, <2>2 DEF TypeOK, Handles
<1>4. CASE ReleaseAll
  <2>1. Live' = {} /\ content' = [g \in {} |-> 0]
    BY <1>4 DEF ReleaseAll, Live
  <2>2. released' \subseteq 1..Len(handleOf)
    BY <1>4 DEF ReleaseAll, TypeOK
  <2>3. UNCHANGED <<nextHandle, kindOf, handleOf, mostLive>>
    BY <1>4 DEF ReleaseAll
  <2> QED BY <2>1, <2>2, <2>3 DEF TypeOK, Handles
<1> QED BY <1>1, <1>2, <1>3, <1>4 DEF Next

LEMMA TypeInit == Init => TypeOK
  <1> SUFFICES ASSUME Init PROVE TypeOK
    OBVIOUS
  <1>1. Live = {}
    BY DEF Init, Live
  <1>2. nextHandle \in Handles
    BY HandleWrapAssumption DEF Init, Handles
  <1> QED BY <1>1, <1>2 DEF Init, TypeOK

(* Type correctness, of a map of any width; no handle is ever 0.           *)
THEOREM TypeCorrect == Spec => []TypeOK
<1>1. FiniteInv /\ TypeOK /\ [Next]_vars => TypeOK'
  BY TypeStep
<1> QED BY <1>1, TypeInit, FiniteAlways, PTL DEF Spec
-----------------------------------------------------------------------------
(* StillFound by itself is not inductive: that a release takes away no     *)
(* other object needs that the handle an object is found by is its own.    *)
OwnHandles == \A h \in Live : handleOf[content[h]] = h

LEMMA OwnStep ==
  ASSUME TypeOK, OwnHandles, [Next]_vars
  PROVE  OwnHandles'
<1>1. CASE UNCHANGED vars
  BY <1>1 DEF OwnHandles, vars, Live
<1>2. ASSUME NEW kind \in Kinds, Allocate(kind) PROVE OwnHandles'
  <2>1. PICK h \in Handles :
           /\ handleOf' = Append(handleOf, h)
           /\ content' = [g \in Live \cup {h} |->
                IF g = h THEN Len(handleOf) + 1 ELSE content[g]]
    BY <1>2 DEF Allocate
  <2>2. Live' = Live \cup {h}
    BY <2>1 DEF Live
  <2>3. /\ Len(handleOf) \in Nat
        /\ handleOf'[Len(handleOf) + 1] = h
        /\ \A id \in 1..Len(handleOf) : handleOf'[id] = handleOf[id]
    BY <2>1 DEF TypeOK
  <2>4. ASSUME NEW g \in Live PROVE content[g] \in 1..Len(handleOf)
    BY DEF TypeOK
  <2>5. ASSUME NEW g \in Live' PROVE handleOf'[content'[g]] = g
    <3>1. CASE g = h
      BY <2>1, <2>3, <3>1
    <3>2. CASE g # h
      BY <2>1, <2>2, <2>3, <2>4, <2>5, <3>2 DEF OwnHandles
    <3> QED BY <3>1, <3>2
  <2> QED BY <2>5 DEF OwnHandles
<1>3. ASSUME NEW call \in Calls, NEW h \in Handles, Destroy(call, h)
      PROVE  OwnHandles'
  <2>1. content' = [g \in Live \ {h} |-> content[g]] /\ handleOf' = handleOf
    BY <1>3 DEF Destroy, Release
  <2>2. Live' = Live \ {h}
    BY <2>1 DEF Live
  <2> QED BY <2>1, <2>2 DEF OwnHandles
<1>4. CASE ReleaseAll
  <2>1. Live' = {}
    BY <1>4 DEF ReleaseAll, Live
  <2> QED BY <2>1 DEF OwnHandles
<1> QED BY <1>1, <1>2, <1>3, <1>4 DEF Next

(* An allocation disturbs no object there is, since its handle names none, *)
(* and a release takes away just the object its handle names.              *)
LEMMA FoundStep ==
  ASSUME TypeOK, OwnHandles, StillFound, [Next]_vars
  PROVE  StillFound'
<1> DEFINE Finds(id) == IF id \in released THEN \A h \in Live : content[h] # id
                        ELSE /\ handleOf[id] # 0 /\ handleOf[id] \in Live
                             /\ content[handleOf[id]] = id
<1>1. CASE UNCHANGED vars
  BY <1>1 DEF StillFound, vars, Live
<1>2. ASSUME NEW kind \in Kinds, Allocate(kind) PROVE StillFound'
  <2>1. PICK h \in Handles :
           /\ NextFree(h)
           /\ handleOf' = Append(handleOf, h)
           /\ content' = [g \in Live \cup {h} |->
                IF g = h THEN Len(handleOf) + 1 ELSE content[g]]
           /\ released' = released
    BY <1>2 DEF Allocate
  <2>2. h \notin Live /\ h # 0 /\ Live' = Live \cup {h}
    BY <2>1, NextFreeIsFree DEF Live
  <2>3. PICK new \in Nat : new = Len(handleOf) + 1
    BY DEF TypeOK
  <2>4. /\ handleOf'[new] = h /\ content'[h] = new
        /\ \A id \in 1..Len(handleOf) : handleOf'[id] = handleOf[id] /\ id # new
        /\ \A id \in 1..Len(handleOf') : id \in 1..Len(handleOf) \/ id = new
    BY <2>1, <2>3 DEF TypeOK
  <2>5. new \notin released'
    BY <2>1, <2>3 DEF TypeOK
  <2>6. ASSUME NEW g \in Live PROVE content'[g] = content[g]
    BY <2>1, <2>2
  <2>7. ASSUME NEW id \in 1..Len(handleOf) PROVE Finds(id)'
    <3>1. Finds(id)
      BY DEF StillFound
    <3>2. CASE id \in released
      BY <2>1, <2>2, <2>4, <2>6, <3>1, <3>2
    <3>3. CASE id \notin released
      BY <2>1, <2>2, <2>4, <2>6, <3>1, <3>3
    <3> QED BY <3>2, <3>3
  <2>8. Finds(new)'
    BY <2>2, <2>4, <2>5
  <2>9. ASSUME NEW id \in 1..Len(handleOf') PROVE Finds(id)'
    BY <2>4, <2>7, <2>8, <2>9
  <2> QED BY <2>9 DEF StillFound
<1>3. ASSUME NEW call \in Calls, NEW h \in Handles, Destroy(call, h)
      PROVE  StillFound'
  <2>1. h \in Live /\ content' = [g \in Live \ {h} |-> content[g]]
        /\ released' = released \cup {content[h]}
        /\ handleOf' = handleOf
    BY <1>3 DEF Destroy, Found, Release
  <2>2. Live' = Live \ {h}
    BY <2>1 DEF Live
  <2>3. ASSUME NEW g \in Live, content[g] = content[h] PROVE g = h
    BY <2>1, <2>3 DEF OwnHandles
  <2>4. ASSUME NEW id \in 1..Len(handleOf) PROVE Finds(id)'
    <3>1. Finds(id)
      BY DEF StillFound
    <3>2. CASE id \in released
      BY <2>1, <2>2, <3>1, <3>2
    <3>3. CASE id = content[h]
      BY <2>1, <2>2, <2>3, <3>3
    <3>4. CASE id \notin released /\ id # content[h]
      BY <2>1, <2>2, <3>1, <3>4
    <3> QED BY <3>2, <3>3, <3>4
  <2> QED BY <2>1, <2>4 DEF StillFound
<1>4. CASE ReleaseAll
  <2>1. Live' = {} /\ released' = released \cup {content[h] : h \in Live}
        /\ handleOf' = handleOf
    BY <1>4 DEF ReleaseAll, Live
  <2>2. ASSUME NEW id \in 1..Len(handleOf) PROVE id \in released'
    BY <2>1 DEF StillFound
  <2> QED BY <2>1, <2>2 DEF StillFound
<1> QED BY <1>1, <1>2, <1>3, <1>4 DEF Next

(* The game finds each of its objects by the handle it was given, however  *)
(* often nextHandle_ has wrapped, and a destroyed object never.            *)
THEOREM FoundUntilReleased == Spec => []StillFound
<1>1. Init => OwnHandles /\ StillFound
  BY DEF Init, OwnHandles, StillFound, Live
<1>2. TypeOK /\ OwnHandles /\ StillFound /\ [Next]_vars => OwnHandles' /\ StillFound'
  BY OwnStep, FoundStep
<1> QED BY <1>1, <1>2, TypeCorrect, PTL DEF Spec
-----------------------------------------------------------------------------
(* When a handle comes round again.  What the creations after object i     *)
(* have done: the handles they took, and those the counter has passed.     *)
Later(i) == {handleOf[m] : m \in (i + 1)..Len(handleOf)}
Steps(from, to) == (to - from) % HandleWrap
Passed(i) == {g \in Handles : Steps(Afterwards(handleOf[i]), g)
                                < Steps(Afterwards(handleOf[i]), nextHandle)}

(* A handle that was passed over and not taken was in use when object i    *)
(* was created, so there are fewer of these than there were objects.       *)
Recent(i) ==
  /\ handleOf[i] \notin Later(i)
  /\ \E S \in SUBSET Handles :
       /\ IsFiniteSet(S) /\ Cardinality(S) < mostLive
       /\ Live \subseteq S \cup Later(i) \cup {handleOf[i]}
       /\ Passed(i) \subseteq S \cup Later(i) \cup {0}
Aged(i) == Len(handleOf) - i >= HandleWrap - mostLive
AgeInv == \A i \in 1..Len(handleOf) : Aged(i) \/ Recent(i)

LEMMA WrapType == HandleWrap \in Nat /\ HandleWrap > 1
BY HandleWrapAssumption

LEMMA Modulo ==
  \A a, b \in Handles : (a - b) % HandleWrap = IF b <= a THEN a - b ELSE a - b + HandleWrap
<1> SUFFICES ASSUME NEW a \in Handles, NEW b \in Handles
             PROVE  (a - b) % HandleWrap = IF b <= a THEN a - b ELSE a - b + HandleWrap
  OBVIOUS
<1> QED BY HandleWrapAssumption DEF Handles

LEMMA ModuloNext ==
  \A h \in Handles : /\ Afterwards(h) \in Handles
                     /\ Afterwards(h) = IF h + 1 = HandleWrap THEN 0 ELSE h + 1
BY HandleWrapAssumption DEF Afterwards, Handles

(* Going round from the handle after a: the counter at p takes h next and  *)
(* passes what is nearer than h.                                           *)
LEMMA Round ==
  ASSUME NEW a \in Handles, NEW p \in Handles, NEW h \in Handles, NEW g \in Handles,
         ~(Steps(Afterwards(a), g) < Steps(Afterwards(a), p)), g # a, g # h
  PROVE  /\ Steps(p, a) <= Steps(p, h) => Steps(p, g) < Steps(p, h)
         /\ Steps(Afterwards(a), g) < Steps(Afterwards(a), Afterwards(h))
              => Steps(p, g) < Steps(p, h) \/ Steps(p, a) <= Steps(p, h)
<1> DEFINE W == HandleWrap
           b == Afterwards(a)
           q == Afterwards(h)
<1>1. /\ W \in Nat /\ W > 1 /\ a \in 0..(W - 1) /\ p \in 0..(W - 1)
      /\ h \in 0..(W - 1) /\ g \in 0..(W - 1)
  BY HandleWrapAssumption DEF Handles
<1>2. b \in Handles /\ q \in Handles /\ b = (IF a + 1 = W THEN 0 ELSE a + 1)
      /\ q = (IF h + 1 = W THEN 0 ELSE h + 1)
  BY ModuloNext
<1> DEFINE bg == Steps(b, g)
           bp == Steps(b, p)
           bq == Steps(b, q)
           pa == Steps(p, a)
           ph == Steps(p, h)
           pg == Steps(p, g)
<1>3. bg = (IF b <= g THEN g - b ELSE g - b + W)
  BY <1>2, Modulo DEF Steps
<1>4. bp = (IF b <= p THEN p - b ELSE p - b + W)
  BY <1>2, Modulo DEF Steps
<1>5. bq = (IF b <= q THEN q - b ELSE q - b + W)
  BY <1>2, Modulo DEF Steps
<1>6. pa = (IF p <= a THEN a - p ELSE a - p + W)
  BY Modulo DEF Steps
<1>7. ph = (IF p <= h THEN h - p ELSE h - p + W)
  BY Modulo DEF Steps
<1>8. pg = (IF p <= g THEN g - p ELSE g - p + W)
  BY Modulo DEF Steps
<1>9. ~(bg < bp)
  OBVIOUS
<1> HIDE DEF bg, bp, bq, pa, ph, pg, b, q, W
<1>10. pa <= ph => pg < ph
  BY <1>1, <1>2, <1>3, <1>4, <1>6, <1>7, <1>8, <1>9
<1>11. bg < bq => pg < ph \/ pa <= ph
  BY <1>1, <1>2, <1>3, <1>4, <1>5, <1>6, <1>7, <1>8, <1>9
<1> QED BY <1>10, <1>11 DEF bg, bp, bq, pa, ph, pg, b, q

LEMMA RoundEnds ==
  ASSUME NEW a \in Handles, NEW p \in Handles
  PROVE  /\ ~(Steps(Afterwards(a), a) < Steps(Afterwards(a), p))
         /\ ~(Steps(p, a) < Steps(p, p))
         /\ \A h \in Handles : a # h /\ Steps(p, a) <= Steps(p, h)
                                => Steps(Afterwards(a), h) < Steps(Afterwards(a), p)
<1> DEFINE W == HandleWrap
           b == Afterwards(a)
<1>1. W \in Nat /\ W > 1 /\ a \in 0..(W - 1) /\ p \in 0..(W - 1)
  BY HandleWrapAssumption DEF Handles
<1>2. b \in Handles /\ b = (IF a + 1 = W THEN 0 ELSE a + 1)
  BY ModuloNext
<1>3. Steps(b, a) = (IF b <= a THEN a - b ELSE a - b + W)
  BY <1>2, Modulo DEF Steps
<1>4. Steps(b, p) = (IF b <= p THEN p - b ELSE p - b + W)
  BY <1>2, Modulo DEF Steps
<1>5. Steps(p, a) = (IF p <= a THEN a - p ELSE a - p + W)
  BY Modulo DEF Steps
<1>6. Steps(p, p) = 0
  BY <1>1, Modulo DEF Steps
<1>7. ASSUME NEW h \in Handles, a # h, Steps(p, a) <= Steps(p, h)
      PROVE  Steps(b, h) < Steps(b, p)
  <2>1. h \in 0..(W - 1)
    BY DEF Handles
  <2>2. Steps(b, h) = (IF b <= h THEN h - b ELSE h - b + W)
    BY <1>2, Modulo DEF Steps
  <2>3. Steps(p, h) = (IF p <= h THEN h - p ELSE h - p + W)
    BY Modulo DEF Steps
  <2> HIDE DEF b, W
  <2> QED BY <1>1, <1>2, <1>4, <1>5, <1>7, <2>1, <2>2, <2>3
<1> HIDE DEF b, W
<1>8. ~(Steps(b, a) < Steps(b, p)) /\ ~(Steps(p, a) < Steps(p, p))
  BY <1>1, <1>2, <1>3, <1>4, <1>5, <1>6
<1> QED BY <1>7, <1>8 DEF b

(* How many handles a set of so many can cover.                            *)
LEMMA CoverCount ==
  ASSUME NEW S, NEW T, NEW x, NEW y, IsFiniteSet(S), IsFiniteSet(T),
         Handles \subseteq (S \cup T \cup {x}) \cup {y}
  PROVE  HandleWrap <= Cardinality(S) + Cardinality(T) + 2
<1> DEFINE U == S \cup T
           V == U \cup {x}
           All == V \cup {y}
<1>1. IsFiniteSet(U) /\ Cardinality(U) <= Cardinality(S) + Cardinality(T) /\ Cardinality(U) \in Nat
  <2>1. IsFiniteSet(U) /\ Cardinality(U) = Cardinality(S) + Cardinality(T) - Cardinality(S \cap T)
    BY FS_Union
  <2>2. IsFiniteSet(S \cap T)
    BY FS_Subset
  <2>3. Cardinality(S) \in Nat /\ Cardinality(T) \in Nat /\ Cardinality(S \cap T) \in Nat
        /\ Cardinality(U) \in Nat
    BY <2>1, <2>2, FS_CardinalityType
  <2> QED BY <2>1, <2>3
<1>2. Cardinality(S) \in Nat /\ Cardinality(T) \in Nat
  BY FS_CardinalityType
<1>3. IsFiniteSet(V) /\ Cardinality(V) <= Cardinality(U) + 1 /\ Cardinality(V) \in Nat
  <2> HIDE DEF U
  <2>1. IsFiniteSet(V) /\ Cardinality(V) = (IF x \in U THEN Cardinality(U) ELSE Cardinality(U) + 1)
    BY <1>1, FS_AddElement
  <2> QED BY <1>1, <2>1
<1>4. IsFiniteSet(All) /\ Cardinality(All) <= Cardinality(V) + 1 /\ Cardinality(All) \in Nat
  <2> HIDE DEF V
  <2>1. IsFiniteSet(All) /\ Cardinality(All) = (IF y \in V THEN Cardinality(V) ELSE Cardinality(V) + 1)
    BY <1>3, FS_AddElement
  <2> QED BY <1>3, <2>1
<1>5. Cardinality(Handles) <= Cardinality(All)
  <2>1. Handles \subseteq All
    OBVIOUS
  <2> HIDE DEF All
  <2> QED BY <1>4, <2>1, FS_Subset
<1>6. Cardinality(Handles) = HandleWrap
  <2>1. 0 \in Int /\ HandleWrap - 1 \in Int /\ HandleWrap > 1
    BY HandleWrapAssumption
  <2>2. Cardinality(Handles) = IF 0 > HandleWrap - 1 THEN 0 ELSE HandleWrap - 1 - 0 + 1
    BY <2>1, FS_Interval DEF Handles
  <2> QED BY <2>1, <2>2, WrapType
<1> HIDE DEF U, V, All
<1> QED BY <1>1, <1>2, <1>3, <1>4, <1>5, <1>6, HandleWrapAssumption

LEMMA LaterSize ==
  ASSUME TypeOK, NEW i \in 1..Len(handleOf)
  PROVE  /\ IsFiniteSet(Later(i)) /\ Cardinality(Later(i)) \in Nat
         /\ Cardinality(Later(i)) <= Len(handleOf) - i
<1> DEFINE D == (i + 1)..Len(handleOf)
           f == [m \in D |-> handleOf[m]]
<1>1. Len(handleOf) \in Nat /\ i + 1 \in Int /\ Len(handleOf) \in Int
  BY DEF TypeOK
<1>2. IsFiniteSet(D) /\ Cardinality(D) = Len(handleOf) - i
  <2>1. IsFiniteSet(D) /\ Cardinality(D) = (IF i + 1 > Len(handleOf) THEN 0 ELSE Len(handleOf) - (i + 1) + 1)
    BY <1>1, FS_Interval
  <2> HIDE DEF D
  <2> QED BY <1>1, <2>1
<1>3. f \in Surjection(D, Later(i))
  BY DEF Surjection, Later
<1> HIDE DEF D, f
<1>4. IsFiniteSet(Later(i)) /\ Cardinality(Later(i)) <= Cardinality(D)
  BY <1>2, <1>3, FS_Surjection
<1> QED BY <1>2, <1>4, FS_CardinalityType

LEMMA MoreLive ==
  \A x, w, a, b \in Int : b >= a /\ x >= w - a => x >= w - b
OBVIOUS

LEMMA AgeAllocate ==
  ASSUME TypeOK, FiniteInv, AgeInv, NEW kind \in Kinds, Allocate(kind)
  PROVE  AgeInv' /\ mostLive' >= mostLive
<1> DEFINE n == Len(handleOf)
           p == nextHandle
<1>1. PICK h \in Handles :
         /\ NextFree(h)
         /\ nextHandle' = Afterwards(h)
         /\ handleOf' = Append(handleOf, h)
         /\ content' = [g \in Live \cup {h} |->
              IF g = h THEN Len(handleOf) + 1 ELSE content[g]]
         /\ mostLive' = Larger(mostLive, Cardinality(Live) + 1)
  BY DEF Allocate
<1>2. h \notin Live /\ h # 0 /\ Live' = Live \cup {h}
  BY <1>1, NextFreeIsFree DEF Live
<1>3. \A g \in Handles : Steps(p, g) < Steps(p, h) => g \in Live \cup {0}
  <2>1. ASSUME NEW g \in Handles, Steps(p, g) < Steps(p, h), g \notin Live, g # 0
        PROVE  FALSE
    <3>1. Distance(h) <= Distance(g)
      BY <1>1, <2>1 DEF NextFree, Free
    <3>2. Distance(h) = Steps(p, h) /\ Distance(g) = Steps(p, g)
      BY DEF Distance, Steps
    <3>3. Steps(p, h) \in Int /\ Steps(p, g) \in Int
      BY Modulo, HandleWrapAssumption DEF Steps, Handles, TypeOK
    <3> QED BY <2>1, <3>1, <3>2, <3>3
  <2> QED BY <2>1
<1>4. /\ n \in Nat /\ Len(handleOf') = n + 1 /\ handleOf'[n + 1] = h
      /\ \A i \in 1..n : handleOf'[i] = handleOf[i] /\ handleOf[i] \in Handles \ {0}
      /\ p \in Handles /\ mostLive \in Nat
  BY <1>1 DEF TypeOK
<1>5. /\ Cardinality(Live) \in Nat /\ mostLive' \in Nat
      /\ mostLive' >= mostLive /\ mostLive' > Cardinality(Live)
  BY <1>1, <1>4, FiniteCount DEF Larger
<1>6. ASSUME NEW i \in 1..n, Aged(i)  PROVE Aged(i)'
  BY <1>4, <1>5, <1>6, HandleWrapAssumption DEF Aged
<1>7. ASSUME NEW i \in 1..n, Recent(i)  PROVE Aged(i)' \/ Recent(i)'
  <2> DEFINE a == handleOf[i]
  <2>1. PICK S \in SUBSET Handles :
           /\ IsFiniteSet(S) /\ Cardinality(S) < mostLive
           /\ Live \subseteq S \cup Later(i) \cup {a}
           /\ Passed(i) \subseteq S \cup Later(i) \cup {0}
    BY <1>7 DEF Recent
  <2>2. a \in Handles /\ handleOf'[i] = a
    BY <1>4
  <2>3. Later(i)' = Later(i) \cup {h}
    <3>1. (i + 1)..(n + 1) = ((i + 1)..n) \cup {n + 1}
      BY <1>4
    <3>2. \A m \in (i + 1)..n : handleOf'[m] = handleOf[m]
      BY <1>4
    <3> HIDE DEF n
    <3> QED BY <1>4, <3>1, <3>2 DEF Later, n
  <2>4. \A g \in Handles : g \in Passed(i) <=> Steps(Afterwards(a), g) < Steps(Afterwards(a), p)
    BY DEF Passed
  <2>5. CASE Steps(p, a) <= Steps(p, h)
    <3>1. ASSUME NEW g \in Handles, g # a, g # h
          PROVE  g \in S \cup Later(i) \cup {0}
      <4>1. CASE g \in Passed(i)
        BY <2>1, <4>1
      <4>2. CASE g \notin Passed(i)
        <5>1. ~(Steps(Afterwards(a), g) < Steps(Afterwards(a), p))
          BY <2>4, <4>2
        <5>2. Steps(p, g) < Steps(p, h)
          BY <1>4, <2>2, <2>5, <3>1, <5>1, Round
        <5> QED BY <1>3, <2>1, <3>1, <5>2
      <4> QED BY <4>1, <4>2
    <3>2. a # h => h \in S \cup Later(i) \cup {0}
      BY <1>4, <2>1, <2>2, <2>4, <2>5, RoundEnds
    <3>3. Handles \subseteq (S \cup Later(i) \cup {0}) \cup {a}
      BY <3>1, <3>2
    <3>4. /\ IsFiniteSet(Later(i)) /\ Cardinality(Later(i)) \in Nat
          /\ Cardinality(Later(i)) <= n - i
      BY LaterSize
    <3>5. HandleWrap <= Cardinality(S) + Cardinality(Later(i)) + 2
      BY <2>1, <3>3, <3>4, CoverCount
    <3>6. Cardinality(S) \in Nat
      BY <2>1, FS_CardinalityType
    <3>7. (n + 1) - i >= HandleWrap - mostLive'
      <4> DEFINE s == Cardinality(S)
                 l == Cardinality(Later(i))
      <4>1. /\ s \in Nat /\ l \in Nat /\ s < mostLive /\ l <= n - i /\ HandleWrap <= s + l + 2
            /\ n \in Nat /\ i \in 1..n
        BY <1>4, <2>1, <3>4, <3>5, <3>6
      <4> HIDE DEF s, l, n
      <4>2. /\ HandleWrap \in Int /\ mostLive \in Int /\ mostLive' \in Int /\ i \in Int
            /\ mostLive' >= mostLive
        BY <1>4, <1>5, <4>1, WrapType
      <4>3. (n + 1) - i >= HandleWrap - mostLive /\ (n + 1) - i \in Int
        BY <4>1, <4>2
      <4> QED BY <4>2, <4>3, MoreLive, Zenon
    <3> QED BY <1>4, <3>7 DEF Aged
  <2>6. CASE ~(Steps(p, a) <= Steps(p, h))
    <3>1. a # h
      <4>1. Steps(p, h) \in Int
        BY <1>4, Modulo, HandleWrapAssumption DEF Steps, Handles
      <4> QED BY <2>6, <4>1
    <3>2. handleOf'[i] \notin Later(i)'
      BY <1>7, <2>2, <2>3, <3>1 DEF Recent
    <3>3. Cardinality(S) < mostLive'
      <4>1. Cardinality(S) \in Nat
        BY <2>1, FS_CardinalityType
      <4> QED BY <1>4, <1>5, <2>1, <4>1
    <3>4. Live' \subseteq S \cup Later(i)' \cup {handleOf'[i]}
      BY <1>2, <2>1, <2>2, <2>3
    <3>5. ASSUME NEW g \in Handles, Steps(Afterwards(a), g) < Steps(Afterwards(a), Afterwards(h))
          PROVE  g \in S \cup Later(i)' \cup {0}
      <4>1. g # a
        BY <2>2, <3>5, RoundEnds, ModuloNext
      <4>2. CASE g = h
        BY <2>3, <4>2
      <4>3. CASE g \in Passed(i)
        BY <2>1, <2>3, <4>3
      <4>4. CASE g \notin Passed(i) /\ g # h
        <5>1. ~(Steps(Afterwards(a), g) < Steps(Afterwards(a), p))
          BY <2>4, <4>4
        <5>2. Steps(p, g) < Steps(p, h)
          BY <1>4, <2>2, <2>6, <3>5, <4>1, <4>4, <5>1, Round
        <5> QED BY <1>3, <2>1, <2>3, <4>1, <5>2
      <4> QED BY <4>2, <4>3, <4>4
    <3>6. Passed(i)' \subseteq S \cup Later(i)' \cup {0}
      BY <1>1, <2>2, <3>5 DEF Passed
    <3> QED BY <2>1, <3>2, <3>3, <3>4, <3>6 DEF Recent
  <2> QED BY <2>5, <2>6
<1>8. ASSUME NEW i \in 1..(n + 1), i = n + 1  PROVE Recent(i)'
  <2>1. Later(i)' = {} /\ handleOf'[i] = h
    BY <1>4, <1>8 DEF Later
  <2>2. Passed(i)' = {}
    <3>1. Afterwards(h) \in Handles
      BY ModuloNext
    <3>2. \A g \in Handles : ~(Steps(Afterwards(h), g) < Steps(Afterwards(h), Afterwards(h)))
      BY <3>1, RoundEnds
    <3> QED BY <1>1, <2>1, <3>2 DEF Passed
  <2>3. Live \in SUBSET Handles /\ IsFiniteSet(Live)
    BY DEF TypeOK, FiniteInv
  <2>4. handleOf'[i] \notin Later(i)' /\ Live' = Live \cup {handleOf'[i]}
    BY <1>2, <2>1
  <2> QED BY <1>5, <2>2, <2>3, <2>4 DEF Recent
<1>9. ASSUME NEW i \in 1..(n + 1)  PROVE Aged(i)' \/ Recent(i)'
  <2>1. CASE i = n + 1
    BY <1>8, <2>1
  <2>2. CASE i \in 1..n
    BY <1>6, <1>7, <2>2 DEF AgeInv
  <2> QED BY <1>4, <2>1, <2>2
<1> HIDE DEF n
<1> QED BY <1>4, <1>5, <1>9 DEF AgeInv

(* No other step takes a handle, and fewer objects are no harm.            *)
LEMMA AgeKept ==
  ASSUME AgeInv, UNCHANGED <<nextHandle, handleOf, mostLive>>, Live' \subseteq Live
  PROVE  AgeInv'
<1>1. ASSUME NEW i \in 1..Len(handleOf), Recent(i)  PROVE Recent(i)'
  <2>1. Later(i)' = Later(i) /\ Passed(i)' = Passed(i) /\ handleOf'[i] = handleOf[i]
    BY DEF Later, Passed
  <2> QED BY <1>1, <2>1 DEF Recent
<1> QED BY <1>1 DEF AgeInv, Aged

LEMMA ReuseStep ==
  ASSUME TypeOK, FiniteInv, AgeInv, NoEarlyReuse, [Next]_vars
  PROVE  AgeInv' /\ NoEarlyReuse'
<1>1. ASSUME UNCHANGED <<nextHandle, handleOf, mostLive>>, Live' \subseteq Live
      PROVE  AgeInv' /\ NoEarlyReuse'
  BY <1>1, AgeKept DEF NoEarlyReuse
<1>2. CASE UNCHANGED vars
  BY <1>1, <1>2 DEF vars, Live
<1>3. ASSUME NEW kind \in Kinds, Allocate(kind)  PROVE AgeInv' /\ NoEarlyReuse'
  <2> DEFINE n == Len(handleOf)
  <2>1. PICK h \in Handles : handleOf' = Append(handleOf, h)
    BY <1>3 DEF Allocate
  <2>2. /\ n \in Nat /\ Len(handleOf') = n + 1 /\ handleOf'[n + 1] = h
        /\ \A i \in 1..n : handleOf'[i] = handleOf[i]
    BY <2>1 DEF TypeOK
  <2>3. AgeInv' /\ mostLive' >= mostLive
    BY <1>3, AgeAllocate
  <2>4. mostLive \in Nat /\ mostLive' \in Nat
    BY <1>3, TypeStep DEF TypeOK
  <2>5. ASSUME NEW i \in 1..(n + 1), NEW j \in 1..(n + 1), i < j, handleOf'[i] = handleOf'[j]
        PROVE  j - i >= HandleWrap - mostLive'
    <3>1. CASE j = n + 1
      <4>1. handleOf'[i] \in Later(i)'
        BY <2>2, <2>5, <3>1 DEF Later
      <4>2. Aged(i)'
        BY <2>2, <2>3, <4>1 DEF AgeInv, Recent
      <4> QED BY <2>2, <3>1, <4>2 DEF Aged
    <3>2. CASE j \in 1..n
      <4>1. i \in 1..n /\ j - i >= HandleWrap - mostLive
        BY <2>2, <2>5, <3>2 DEF NoEarlyReuse
      <4>2. i \in Int /\ j \in Int
        BY <3>2, <4>1
      <4>3. /\ j - i \in Int /\ mostLive' >= mostLive /\ HandleWrap \in Int
            /\ mostLive \in Int /\ mostLive' \in Int
        BY <2>3, <2>4, <4>2, WrapType
      <4> QED BY <4>1, <4>3, MoreLive, Zenon
    <3> QED BY <2>2, <3>1, <3>2
  <2>6. NoEarlyReuse'
    <3> HIDE DEF n
    <3> QED BY <2>2, <2>5 DEF NoEarlyReuse
  <2> QED BY <2>3, <2>6
<1>4. ASSUME NEW call \in Calls, NEW h \in Handles, Destroy(call, h)
      PROVE  AgeInv' /\ NoEarlyReuse'
  <2>1. Live' = Live \ {h}
    BY <1>4 DEF Destroy, Release, Live
  <2> QED BY <1>1, <1>4, <2>1 DEF Destroy
<1>5. CASE ReleaseAll
  <2>1. Live' = {}
    BY <1>5 DEF ReleaseAll, Live
  <2> QED BY <1>1, <1>5, <2>1 DEF ReleaseAll
<1> QED BY <1>2, <1>3, <1>4, <1>5 DEF Next

(* The handle of a destroyed object stays unused for as long as can be: it *)
(* takes HandleWrap - mostLive creations until the counter is round.       *)
THEOREM ReusedLate == Spec => []NoEarlyReuse
<1>1. Init => AgeInv /\ NoEarlyReuse
  BY DEF Init, AgeInv, NoEarlyReuse
<1>2. TypeOK /\ FiniteInv /\ AgeInv /\ NoEarlyReuse /\ [Next]_vars => AgeInv' /\ NoEarlyReuse'
  BY ReuseStep
<1> QED BY <1>1, <1>2, TypeCorrect, FiniteAlways, PTL DEF Spec
----------------------------------------------------------------------------
(* Library.                                                                *)

(* Every step of the library is a step of its handle map, or none: what is *)
(* proved of the map holds in the library.                                 *)
LEMMA MapStep ==
  ASSUME TypeOK, [LibraryNext]_libraryVars
  PROVE  [Next]_vars
<1>1. CASE UNCHANGED libraryVars
  BY <1>1 DEF libraryVars
<1>2. ASSUME NEW kind \in Kinds, Create(kind) PROVE Next
  BY <1>2 DEF Create, Next
<1>3. ASSUME NEW h \in Handles, Accept(h) PROVE Next
  <2>1. "acceptor" \in Kinds
    BY <1>3 DEF Accept, Found, TypeOK
  <2> QED BY <1>3, <2>1, AcceptedAssumption DEF Accept, Next
<1>4. ASSUME NEW h \in Handles, StartOperation(h) \/ SendFromBuffer(h)
      PROVE  UNCHANGED vars
  BY <1>4 DEF StartOperation, SendFromBuffer
<1>5. ASSUME NEW call \in Calls, NEW h \in Handles, DestroyObject(call, h)
      PROVE  Next
  BY <1>5 DEF DestroyObject, Next
<1>6. CASE Startup \/ ResetDefault
  BY <1>6 DEF Startup, ResetDefault
<1>7. CASE ReleaseHandles
  BY <1>7 DEF ReleaseHandles, Next
<1>8. CASE DeleteWork \/ StopService \/ DeleteService
  BY <1>8 DEF DeleteWork, StopService, DeleteService
<1>9. CASE Butler
  BY <1>9 DEF Butler, BeginHandler, EndHandler, ButlerReturns
<1> QED
  BY <1>1, <1>2, <1>3, <1>4, <1>5, <1>6, <1>7, <1>8, <1>9
     DEF LibraryNext, Client, Shutdown

LEMMA MapInvariant == LibrarySpec => [](TypeOK /\ FiniteInv)
<1>1. LibraryInit => TypeOK /\ FiniteInv
  <2>1. Init => FiniteInv
    BY FS_EmptySet DEF Init, FiniteInv, Live
  <2> QED BY <2>1, TypeInit DEF LibraryInit
<1>2. TypeOK /\ FiniteInv /\ [LibraryNext]_libraryVars => TypeOK' /\ FiniteInv'
  BY MapStep, TypeStep, FiniteStep
<1> QED BY <1>1, <1>2, PTL DEF LibrarySpec

(* The library, in which objects are created and destroyed by the calls of *)
(* a game and by dllShutdown, implements the handle map on its own.        *)
THEOREM ImplementsHandleMap == LibrarySpec => Spec
<1>1. LibraryInit => Init
  BY DEF LibraryInit
<1>2. TypeOK /\ [LibraryNext]_libraryVars => [Next]_vars
  BY MapStep
<1> QED BY <1>1, <1>2, MapInvariant, PTL DEF LibrarySpec, Spec

(* So the game finds each of its objects by its handle until it destroys   *)
(* it or shuts the library down, also in a library started again.          *)
THEOREM FoundInLibrary == LibrarySpec => []StillFound
  BY ImplementsHandleMap, FoundUntilReleased, PTL

(* And what it keeps of a destroyed object's handle names no other soon.   *)
THEOREM ReusedLateInLibrary == LibrarySpec => []NoEarlyReuse
  BY ImplementsHandleMap, ReusedLate, PTL
-----------------------------------------------------------------------------
(* Objects keep their io_service, and creating one takes it from no other. *)
LEMMA BelongsKept ==
  ASSUME UNCHANGED <<ioService, kindOf, handleOf, serviceOf>>,
         NEW object, Belongs(object)
  PROVE  Belongs(object)'
  BY DEF Belongs

LEMMA BelongsAfterCreation ==
  ASSUME TypeOK, OwnerInv, NEW kind, NEW g,
         kindOf' = Append(kindOf, kind), serviceOf' = Append(serviceOf, g),
         Len(handleOf') = Len(handleOf) + 1, UNCHANGED ioService,
         NEW object, Belongs(object)
  PROVE  Belongs(object)'
<1>1. kindOf \in Seq(Kinds) /\ Len(kindOf) = Len(handleOf) /\ Len(handleOf) \in Nat
      /\ serviceOf \in Seq(Nat) /\ Len(serviceOf) = Len(handleOf)
  BY DEF TypeOK, OwnerInv
<1>2. CASE object = -ioService
  BY <1>2 DEF Belongs
<1>3. CASE object \in 1..Len(handleOf)
  <2>1. kindOf'[object] = kindOf[object] /\ serviceOf'[object] = serviceOf[object]
    BY <1>1, <1>3
  <2> QED BY <1>1, <1>3, <2>1 DEF Belongs
<1> QED BY <1>2, <1>3 DEF Belongs

(* What an allocation, of an object of the current io_service or of a      *)
(* buffer, leaves.                                                         *)
LEMMA CreationStep ==
  ASSUME TypeOK, OwnerInv, NEW kind \in Kinds, NEW handlers, NEW g \in Nat,
         Allocate(kind), serviceOf' = Append(serviceOf, g),
         kind # "buffer" => ioService # 0 /\ g = ioService,
         UNCHANGED <<generation, ioService, defaultUdpSocket, running>>,
         outstanding' = outstanding \cup handlers,
         \A handler \in handlers :
           \/ kind # "buffer" /\ handler[1] = Len(handleOf) + 1
           \/ Belongs(handler[1])
  PROVE  OwnerInv'
<1>1. PICK h \in Handles :
         /\ handleOf' = Append(handleOf, h) /\ kindOf' = Append(kindOf, kind)
         /\ content' = [x \in Live \cup {h} |->
              IF x = h THEN Len(handleOf) + 1 ELSE content[x]]
  BY DEF Allocate
<1>2. /\ handleOf \in Seq(Handles \ {0}) /\ kindOf \in Seq(Kinds)
      /\ serviceOf \in Seq(Nat) /\ Len(handleOf) \in Nat
      /\ Len(kindOf) = Len(handleOf) /\ Len(serviceOf) = Len(handleOf)
  BY DEF TypeOK, OwnerInv
<1>3. Len(handleOf') = Len(handleOf) + 1 /\ Len(serviceOf') = Len(handleOf')
      /\ serviceOf' \in Seq(Nat)
  <2>1. Len(Append(handleOf, h)) = Len(handleOf) + 1
    BY <1>2
  <2>2. Len(Append(serviceOf, g)) = Len(serviceOf) + 1
        /\ Append(serviceOf, g) \in Seq(Nat)
    BY <1>2
  <2> QED BY <1>1, <1>2, <2>1, <2>2
<1>4. ASSUME NEW object, Belongs(object) PROVE Belongs(object)'
  BY <1>1, <1>3, <1>4, BelongsAfterCreation
<1>5. PICK new : new = Len(handleOf) + 1
  OBVIOUS
<1>6. kindOf'[new] = kind
  BY <1>1, <1>2, <1>5
<1>7. ASSUME kind # "buffer" PROVE Belongs(new)'
  <2>1. serviceOf'[new] = g
    BY <1>2, <1>5
  <2> QED BY <1>2, <1>3, <1>5, <1>6, <1>7, <2>1 DEF Belongs
<1>8. ASSUME NEW handler \in outstanding' PROVE Belongs(handler[1])'
  <2>1. CASE handler \in outstanding
    BY <1>4, <2>1 DEF OwnerInv
  <2>2. CASE handler \in handlers
    BY <1>4, <1>5, <1>7, <2>2
  <2> QED BY <2>1, <2>2
<1>9. running' # NoHandler => Belongs(running[1])'
  <2>1. PICK object : object = running[1]
    OBVIOUS
  <2>2. running # NoHandler => Belongs(object)'
    BY <1>4, <2>1 DEF OwnerInv
  <2> QED BY <2>1, <2>2 DEF Belongs
<1>10. ASSUME NEW x \in Live', NEW object, object = content'[x],
              kindOf'[object] # "buffer"
       PROVE  Belongs(object)'
  <2>1. Live' = Live \cup {h}
    BY <1>1 DEF Live
  <2>2. CASE x = h
    BY <1>1, <1>5, <1>6, <1>7, <1>10, <2>1, <2>2
  <2>3. CASE x # h
    <3>1. x \in Live /\ object = content[x]
      BY <1>1, <1>10, <2>1, <2>3
    <3>2. object \in 1..Len(handleOf)
      BY <3>1 DEF TypeOK
    <3>3. kindOf'[object] = kindOf[object]
      BY <1>1, <1>2, <3>2
    <3>4. Belongs(object)
      BY <1>10, <3>1, <3>3 DEF OwnerInv
    <3> QED BY <1>4, <3>4
  <2> QED BY <2>2, <2>3
<1>11. ASSUME NEW x \in Live', kindOf'[content'[x]] # "buffer"
       PROVE  Belongs(content[x])'
  <2>1. PICK object : object = content'[x]
    OBVIOUS
  <2>2. Belongs(object)'
    BY <1>10, <1>11, <2>1
  <2> QED BY <2>1, <2>2 DEF Belongs
<1> QED BY <1>3, <1>8, <1>9, <1>11 DEF OwnerInv

(* What a step leaves that creates and destroys nothing, or destroys, and  *)
(* starts operations of objects of the current io_service only.            *)
LEMMA StartingStep ==
  ASSUME OwnerInv,
         UNCHANGED <<generation, ioService, kindOf, handleOf, serviceOf>>,
         defaultUdpSocket' \in {0, -ioService},
         Live' \subseteq Live, \A h \in Live' : content'[h] = content[h],
         running' # NoHandler =>
           \E object : object = running'[1] /\ Belongs(object),
         \A handler \in outstanding' : Belongs(handler[1])
  PROVE  OwnerInv'
<1>1. ASSUME NEW other, Belongs(other) PROVE Belongs(other)'
  BY <1>1, BelongsKept
<1>2. ASSUME NEW handler \in outstanding' PROVE Belongs(handler[1])'
  BY <1>1, <1>2
<1>3. running' # NoHandler => Belongs(running[1])'
  <2>1. SUFFICES ASSUME running' # NoHandler PROVE Belongs(running[1])'
    OBVIOUS
  <2>2. PICK object : object = running'[1] /\ Belongs(object)
    BY <2>1
  <2>3. Belongs(object)'
    BY <1>1, <2>2
  <2> QED BY <2>2, <2>3 DEF Belongs
<1>4. ASSUME NEW h \in Live', kindOf'[content'[h]] # "buffer"
      PROVE  Belongs(content[h])'
  <2>1. PICK other : other = content[h]
    OBVIOUS
  <2>2. h \in Live /\ content'[h] = other /\ kindOf[other] # "buffer"
    BY <1>4, <2>1
  <2>3. Belongs(other)'
    BY <1>1, <2>1, <2>2 DEF OwnerInv
  <2> QED BY <2>2, <2>3 DEF Belongs
<1>5. defaultUdpSocket' \in {0, -(ioService')}
  OBVIOUS
<1> QED BY <1>2, <1>3, <1>4, <1>5 DEF OwnerInv

LEMMA OwnerStep ==
  ASSUME TypeOK, ServiceInv, [LibraryNext]_libraryVars
  PROVE  OwnerInv'
<1> OwnerInv /\ ThreadInv
  BY DEF ServiceInv
<1>0. ASSUME NEW h \in Live, kindOf[content[h]] # "buffer"
      PROVE  Belongs(content[h])
  BY <1>0 DEF OwnerInv
<1>1. ASSUME UNCHANGED libraryVars PROVE OwnerInv'
  <2>1. UNCHANGED <<generation, ioService, kindOf, handleOf, serviceOf>>
        /\ UNCHANGED <<defaultUdpSocket, content, running, outstanding>>
    BY <1>1 DEF libraryVars, vars, asioVars, opVars
  <2> QED BY <2>1, StartingStep DEF OwnerInv, Live
<1>2. ASSUME NEW kind \in Kinds, Create(kind) PROVE OwnerInv'
  <2>1. PICK g \in {0, ioService}, ops \in OpsAtCreation(kind) :
          /\ g = (IF kind = "buffer" THEN 0 ELSE ioService)
          /\ serviceOf' = Append(serviceOf, g)
          /\ outstanding' = outstanding \cup On(Len(handleOf) + 1, ops)
    BY <1>2 DEF Create, StartingOnly
  <2>2. /\ Allocate(kind) /\ (kind # "buffer" => ioService # 0)
        /\ UNCHANGED <<generation, ioService, defaultUdpSocket, running>>
    BY <1>2 DEF Create, StartingOnly, asioVars
  <2>3. g \in Nat
    BY <2>1 DEF OwnerInv
  <2>4. ASSUME NEW handler \in On(Len(handleOf) + 1, ops)
        PROVE  kind # "buffer" /\ handler[1] = Len(handleOf) + 1
    BY <2>1 DEF On, OpsAtCreation
  <2> QED BY <2>1, <2>2, <2>3, <2>4, CreationStep
<1>3. ASSUME NEW h \in Handles, Accept(h) PROVE OwnerInv'
  <2>1. PICK ops \in {{}, {"send"}} :
          outstanding' = outstanding \cup
            (On(Len(handleOf) + 1, ops) \cup On(content[h], {"accept"}))
    BY <1>3 DEF Accept, StartingOnly
  <2>2. /\ Allocate("tcp") /\ serviceOf' = Append(serviceOf, ioService)
        /\ UNCHANGED <<generation, ioService, defaultUdpSocket, running>>
    BY <1>3 DEF Accept, StartingOnly, asioVars
  <2>3. h \in Live /\ kindOf[content[h]] = "acceptor"
    BY <1>3 DEF Accept, Found
  <2>4. "tcp" \in Kinds
    BY <2>3, AcceptedAssumption DEF TypeOK
  <2>5. Belongs(content[h]) /\ ioService # 0 /\ ioService \in Nat
    BY <1>0, <2>3 DEF Belongs, OwnerInv
  <2>6. ASSUME NEW handler \in On(Len(handleOf) + 1, ops) \cup On(content[h], {"accept"})
        PROVE  handler[1] = Len(handleOf) + 1 \/ Belongs(handler[1])
    BY <2>5 DEF On
  <2> QED BY <2>1, <2>2, <2>4, <2>5, <2>6, CreationStep
<1>4. ASSUME NEW h \in Handles, StartOperation(h) PROVE OwnerInv'
  <2>1. PICK op : outstanding' = outstanding \cup Started(content[h], {op})
    BY <1>4 DEF StartOperation, StartingOnly
  <2>2. UNCHANGED <<generation, ioService, kindOf, handleOf, serviceOf>>
        /\ UNCHANGED <<defaultUdpSocket, content, running>>
    BY <1>4 DEF StartOperation, StartingOnly, asioVars, vars
  <2>3. Belongs(content[h])
    BY <1>0, <1>4 DEF StartOperation, Found
  <2>4. ASSUME NEW handler \in outstanding' PROVE Belongs(handler[1])
    BY <2>1, <2>3 DEF Started, On, OwnerInv
  <2> QED BY <2>2, <2>4, StartingStep DEF OwnerInv, Live
<1>5. ASSUME NEW h \in Handles, SendFromBuffer(h) PROVE OwnerInv'
  <2>1. UNCHANGED <<generation, ioService, kindOf, handleOf, serviceOf>>
        /\ UNCHANGED <<content, running>>
    BY <1>5 DEF SendFromBuffer, StartingOnly, asioVars, vars
  <2>2. ioService # 0 /\ defaultUdpSocket' = -ioService
    BY <1>5 DEF SendFromBuffer, OwnerInv
  <2>3. PICK ops : \/ outstanding' = outstanding \cup On(-ioService, ops)
                   \/ /\ outstanding' = outstanding \cup Started(defaultUdpSocket, ops)
                      /\ defaultUdpSocket = -ioService
    BY <1>5, <2>2 DEF SendFromBuffer, StartingOnly
  <2>4. Belongs(-ioService)
    BY <2>2 DEF Belongs
  <2>5. ASSUME NEW handler \in outstanding' PROVE Belongs(handler[1])
    BY <2>3, <2>4 DEF Started, On, OwnerInv
  <2> QED BY <2>1, <2>2, <2>5, StartingStep DEF OwnerInv, Live
<1>6. ASSUME NEW call \in Calls, NEW h \in Handles, DestroyObject(call, h)
      PROVE  OwnerInv'
  <2>1. /\ h \in Live /\ content' = [g \in Live \ {h} |-> content[g]]
        /\ UNCHANGED <<generation, ioService, kindOf, handleOf, serviceOf>>
        /\ UNCHANGED <<defaultUdpSocket, running>>
    BY <1>6 DEF DestroyObject, Destroy, Found, Release, StartingOnly, asioVars
  <2>2. PICK ops : /\ outstanding' = outstanding \cup Started(content[h], ops)
                   /\ ops # {} => kindOf[content[h]] = "tcp"
    BY <1>6 DEF DestroyObject, StartingOnly
  <2>3. ops # {} => Belongs(content[h])
    BY <1>0, <2>1, <2>2
  <2>4. ASSUME NEW handler \in outstanding' PROVE Belongs(handler[1])
    BY <2>2, <2>3 DEF Started, On, OwnerInv
  <2>5. Live' \subseteq Live /\ \A g \in Live' : content'[g] = content[g]
    BY <2>1 DEF Live
  <2> QED BY <2>1, <2>4, <2>5, StartingStep DEF OwnerInv
<1>7. CASE Startup
  <2>1. /\ ioService = 0 /\ ioService' = generation' /\ generation' = generation + 1
        /\ UNCHANGED <<kindOf, handleOf, serviceOf, defaultUdpSocket, content,
                       running, outstanding>>
    BY <1>7 DEF Startup, vars, opVars
  <2>2. ~Belongs(0) /\ \A object : ~Belongs(object)
    BY <2>1 DEF Belongs
  <2>3. outstanding' = {} /\ running' = NoHandler /\ defaultUdpSocket' = 0
        /\ \A h \in Live : kindOf[content[h]] = "buffer"
    BY <2>1, <2>2 DEF OwnerInv
  <2> QED BY <2>1, <2>3 DEF OwnerInv, Live
<1>8. CASE ResetDefault
  <2>1. /\ UNCHANGED <<generation, ioService, kindOf, handleOf, serviceOf>>
        /\ UNCHANGED <<content, running, outstanding>> /\ defaultUdpSocket' = 0
    BY <1>8 DEF ResetDefault, DefaultReset, vars, asioVars, opVars
  <2> QED BY <2>1, StartingStep DEF OwnerInv, Live
<1>9. CASE ReleaseHandles
  <2>1. /\ UNCHANGED <<generation, ioService, kindOf, handleOf, serviceOf>>
        /\ UNCHANGED <<running, outstanding, defaultUdpSocket>>
        /\ content' = [g \in {} |-> 0]
    BY <1>9 DEF ReleaseHandles, ReleaseAll, asioVars, opVars
  <2>2. Live' = {}
    BY <2>1 DEF Live
  <2> QED BY <2>1, <2>2, StartingStep DEF OwnerInv
<1>10. CASE DeleteWork \/ StopService \/ ButlerReturns
  <2>1. /\ UNCHANGED <<generation, ioService, kindOf, handleOf, serviceOf>>
        /\ UNCHANGED <<content, running, outstanding, defaultUdpSocket>>
    BY <1>10 DEF DeleteWork, StopService, ButlerReturns, vars, opVars
  <2> QED BY <2>1, StartingStep DEF OwnerInv, Live
<1>11. CASE DeleteService
  <2>1. /\ ioService' = 0 /\ outstanding' = {}
        /\ UNCHANGED <<generation, handleOf, serviceOf, defaultUdpSocket, content,
                       running>>
        /\ shutdownAt = "join" /\ butler = "returned"
    BY <1>11 DEF DeleteService, Joined, vars
  <2>2. Live = {} /\ defaultUdpSocket = 0 /\ running = NoHandler
    BY <2>1 DEF ThreadInv
  <2> QED BY <2>1, <2>2 DEF OwnerInv, Live
<1>12. ASSUME NEW handler \in outstanding, BeginHandler(handler) PROVE OwnerInv'
  <2>1. /\ UNCHANGED <<generation, ioService, kindOf, handleOf, serviceOf>>
        /\ UNCHANGED <<content, defaultUdpSocket>>
        /\ outstanding' = outstanding \ {handler}
        /\ running' \in {NoHandler, handler}
    BY <1>12 DEF BeginHandler, vars, asioVars
  <2>2. Belongs(handler[1])
    BY DEF OwnerInv
  <2> QED BY <2>1, <2>2, StartingStep DEF OwnerInv, Live
<1>13. CASE EndHandler
  <2>1. /\ UNCHANGED <<generation, ioService, kindOf, handleOf, serviceOf>>
        /\ UNCHANGED <<content, defaultUdpSocket>> /\ running' = NoHandler
        /\ running # NoHandler
    BY <1>13 DEF EndHandler, vars, asioVars
  <2>2. PICK ops : outstanding' = outstanding \cup On(running[1], ops)
    BY <1>13 DEF EndHandler
  <2>3. ASSUME NEW handler \in outstanding' PROVE Belongs(handler[1])
    BY <2>1, <2>2 DEF On, OwnerInv
  <2> QED BY <2>1, <2>3, StartingStep DEF OwnerInv, Live
<1> QED
  BY <1>1, <1>2, <1>3, <1>4, <1>5, <1>6, <1>7, <1>8, <1>9, <1>10, <1>11,
     <1>12, <1>13 DEF LibraryNext, Client, Shutdown, Butler

LEMMA ThreadStep ==
  ASSUME ServiceInv, [LibraryNext]_libraryVars
  PROVE  ThreadInv'
<1> OwnerInv /\ ThreadInv
  BY DEF ServiceInv
<1>1. CASE UNCHANGED libraryVars
  BY <1>1 DEF ThreadInv, libraryVars, vars, asioVars, opVars, Live
<1>2. CASE Client /\ ~Startup /\ ~ResetDefault
  <2>1. shutdownAt = "no" /\ UNCHANGED <<asioVars, running, shutdownAt>>
    BY <1>2 DEF Client, Create, Accept, StartOperation, SendFromBuffer,
                DestroyObject, ClientMay, StartingOnly
  <2> QED BY <2>1 DEF ThreadInv, asioVars
<1>3. CASE Startup
  <2>1. running = NoHandler
    BY <1>3 DEF Startup, OwnerInv, Belongs
  <2> QED BY <1>3, <2>1
             DEF Startup, WorkAtStartup, ClientMay, ThreadInv, vars, opVars
<1>4. CASE ResetDefault
  BY <1>4 DEF ResetDefault, DefaultReset, ClientMay, ThreadInv, asioVars, opVars
<1>5. CASE ReleaseHandles
  <2>1. Live' = {}
    BY <1>5 DEF ReleaseHandles, ReleaseAll, Live
  <2> QED BY <1>5, <2>1 DEF ReleaseHandles, ThreadInv, asioVars, opVars
<1>6. CASE DeleteWork \/ StopService
  BY <1>6 DEF DeleteWork, StopService, ThreadInv, vars, opVars, Live
<1>7. CASE DeleteService
  BY <1>7 DEF DeleteService, Joined, ThreadInv, vars, Live
<1>8. ASSUME NEW handler \in outstanding, BeginHandler(handler) PROVE ThreadInv'
  BY <1>8 DEF BeginHandler, ThreadInv, vars, asioVars, Live
<1>9. CASE EndHandler
  BY <1>9 DEF EndHandler, ThreadInv, vars, asioVars, Live
<1>10. CASE ButlerReturns
  <2>1. ioService = 0 \/ shutdownAt \notin {"no", "release"}
    BY <1>10 DEF ButlerReturns, ThreadInv
  <2> QED BY <1>10, <2>1 DEF ButlerReturns, ThreadInv, vars, opVars, Live
<1> QED
  BY <1>1, <1>2, <1>3, <1>4, <1>5, <1>6, <1>7, <1>8, <1>9, <1>10
     DEF LibraryNext, Client, Shutdown, Butler

LEMMA ServiceAlways == LibrarySpec => []ServiceInv
<1>1. LibraryInit => ServiceInv
  BY DEF LibraryInit, Init, ServiceInv, OwnerInv, ThreadInv, Live
<1>2. TypeOK /\ ServiceInv /\ [LibraryNext]_libraryVars => ServiceInv'
  BY OwnerStep, ThreadStep DEF ServiceInv
<1> QED BY <1>1, <1>2, MapInvariant, PTL DEF LibrarySpec

(* No object outlives the io_service its sockets belong to, and no handler *)
(* runs but in that of its object: at any point of dllShutdown, and after  *)
(* any number of restarts.                                                 *)
THEOREM LifetimesAlwaysNest == LibrarySpec => []LifetimesNest
<1>1. TypeOK /\ ServiceInv => LifetimesNest
  <2> SUFFICES ASSUME TypeOK, OwnerInv PROVE LifetimesNest
    BY DEF ServiceInv
  <2>1. ASSUME NEW object \in Objects, Exists(object), NeedsService(object)
        PROVE  Belongs(object)
    <3>1. CASE \E h \in Live : content[h] = object
      <4>1. object \in 1..Len(handleOf) /\ Len(handleOf) \in Nat
        BY <3>1 DEF TypeOK
      <4>2. kindOf[object] # "buffer"
        BY <2>1, <4>1 DEF NeedsService
      <4> QED BY <3>1, <4>2 DEF OwnerInv
    <3>2. CASE object # 0 /\ object = defaultUdpSocket
      BY <3>2 DEF OwnerInv, Belongs
    <3>3. CASE \E handler \in outstanding : handler[1] = object
      BY <3>3 DEF OwnerInv
    <3>4. CASE running # NoHandler /\ running[1] = object
      BY <3>4 DEF OwnerInv
    <3> QED BY <2>1, <3>1, <3>2, <3>3, <3>4 DEF Exists, Holds
  <2>2. ASSUME NEW object, Belongs(object)
        PROVE  ioService # 0 /\ ServiceOf(object) = ioService
    BY <2>2 DEF Belongs, ServiceOf, OwnerInv, TypeOK
  <2>3. running # NoHandler => ioService # 0 /\ ServiceOf(running[1]) = ioService
    BY <2>2 DEF OwnerInv
  <2> QED BY <2>1, <2>2, <2>3 DEF LifetimesNest
<1> QED BY <1>1, MapInvariant, ServiceAlways, PTL

(* Until dllShutdown the butler is there to run what the game starts.      *)
THEOREM ServedUntilShutdown == LibrarySpec => []AlwaysServed
<1>1. ServiceInv => AlwaysServed
  BY DEF ServiceInv, ThreadInv, AlwaysServed
<1> QED BY <1>1, ServiceAlways, PTL
=============================================================================
