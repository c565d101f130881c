--------------------------- MODULE IpLookupProofs --------------------------
(***************************************************************************)
(* Theorems about IpLookup, for every list a name may resolve to and every *)
(* number of calls.                                                        *)
(***************************************************************************)
EXTENDS IpLookup, SequenceTheorems, TLAPS

Types ==
  /\ handle \in {"none", "held", "released"}
  /\ resolveOp \in {"idle", "pending", "done", "failed"}
  /\ list \in Seq(BOOLEAN) /\ result \in 0..Len(list) /\ next \in 0..Len(list)
  /\ lookupComplete \in BOOLEAN /\ results \in Seq(Nat) /\ calls \in Nat

(* Until the lookup is complete there is nothing to return, and no list    *)
(* unless the resolver has just provided one; no lookup completes twice.   *)
Before ==
  /\ handle = "none" => resolveOp = "idle" /\ ~lookupComplete
  /\ resolveOp # "idle" => ~lookupComplete
  /\ ~lookupComplete =>
       /\ next = 0 /\ result = 0 /\ results = <<>>
       /\ resolveOp # "done" => list = <<>>

(* After that, next_ is the address behind the last one returned, result_  *)
(* the one behind that, and both are at the end together.                  *)
After ==
  /\ Len(results) <= Len(list)
  /\ \A i \in 1..Len(results) : results[i] = i
  /\ next # 0 =>
       next = Len(results) + 1 /\ list[next] /\ result = From(list, next)
  /\ next = 0 =>
       /\ result = 0
       /\ Len(results) = Len(list) \/ ~list[Len(results) + 1]

LookupInv == Types /\ Before /\ (lookupComplete => After)

LEMMA FromType ==
  ASSUME NEW l \in Seq(BOOLEAN), NEW k \in 0..Len(l)
  PROVE  From(l, k) \in 0..Len(l) /\ (From(l, k) = 0 <=> k = Len(l))
BY LenProperties DEF From

(* loadNext() keeps to the list.                                           *)
LEMMA LoadNextType ==
  ASSUME NEW l \in Seq(BOOLEAN), NEW r \in 0..Len(l), LoadNext(l, r)
  PROVE  /\ next' \in 0..Len(l) /\ result' \in 0..Len(l)
         /\ next' # 0 => next' = r /\ l[r] /\ result' = From(l, r)
         /\ next' = 0 => result' = 0 /\ (r = 0 \/ ~l[r])
BY FromType DEF LoadNext

(* On a list of which nothing was returned yet, it loads the first place.  *)
LEMMA FirstLoaded ==
  ASSUME NEW l \in Seq(BOOLEAN), list' = l, LoadFirst(l), results' = <<>>
  PROVE  next' \in 0..Len(list') /\ result' \in 0..Len(list') /\ After'
<1>1. Len(l) \in Nat /\ Len(<<>>) = 0
  BY LenProperties
<1>2. From(l, 0) = IF Len(l) = 0 THEN 0 ELSE 1
  BY <1>1 DEF From
<1>3. From(l, 0) \in 0..Len(l)
  BY <1>1, <1>2
<1>4. /\ next' \in 0..Len(l) /\ result' \in 0..Len(l)
      /\ next' # 0 => next' = From(l, 0) /\ l[From(l, 0)] /\ result' = From(l, From(l, 0))
      /\ next' = 0 => result' = 0 /\ (From(l, 0) = 0 \/ ~l[From(l, 0)])
  BY <1>3, LoadNextType DEF LoadFirst
<1> QED BY <1>1, <1>2, <1>4 DEF After

LEMMA LookupInit == Init => LookupInv
<1> SUFFICES ASSUME Init PROVE LookupInv
  OBVIOUS
<1>1. Len(list) = 0 /\ Len(results) = 0 /\ list \in Seq(BOOLEAN) /\ results \in Seq(Nat)
  BY EmptySeq DEF Init
<1>2. Types
  <2>1. result = 0 /\ next = 0 /\ lookupComplete = FALSE /\ calls = 0
    BY DEF Init
  <2>2. handle \in {"none", "held", "released"} /\ resolveOp \in {"idle", "pending", "done", "failed"}
    BY DEF Init
  <2>3. result \in 0..Len(list) /\ next \in 0..Len(list)
    BY <1>1, <2>1
  <2>4. lookupComplete \in BOOLEAN /\ calls \in Nat
    BY <2>1
  <2> QED BY <1>1, <2>2, <2>3, <2>4 DEF Types
<1> QED BY <1>2 DEF Init, LookupInv, Before

LEMMA LookupStep == LookupInv /\ [Next]_vars => LookupInv'
<1> SUFFICES ASSUME LookupInv, [Next]_vars PROVE LookupInv'
  OBVIOUS
<1>1. CASE LookupLiteral
  <2>1. list' \in Seq(BOOLEAN) /\ LoadFirst(list')
    BY <1>1, LookupAssumption DEF LookupLiteral
  <2>2. results = <<>> /\ results' = <<>> /\ resolveOp = "idle"
    BY <1>1 DEF LookupLiteral, LookupInv, Before
  <2>3. next' \in 0..Len(list') /\ result' \in 0..Len(list') /\ After'
    BY <2>1, <2>2, FirstLoaded
  <2> QED BY <1>1, <2>1, <2>2, <2>3 DEF LookupLiteral, LookupInv, Types, Before
<1>2. CASE LookupName
  BY <1>2 DEF LookupName, LookupInv, Types, Before
<1>3. CASE OsResolve
  <2>1. ~lookupComplete /\ next = 0 /\ result = 0 /\ list' \in Seq(BOOLEAN)
    BY <1>3, LookupAssumption DEF OsResolve, LookupInv, Types, Before
  <2> QED BY <1>3, <2>1, LenProperties DEF OsResolve, LookupInv, Types, Before
<1>4. CASE HandleResolve
  <2>1. ~lookupComplete /\ results = <<>> /\ results' = <<>> /\ list' = list /\ lookupComplete'
    BY <1>4 DEF HandleResolve, Complete, LookupInv, Before
  <2>2. CASE resolveOp = "done" /\ LoadFirst(list)
    <3>1. next' \in 0..Len(list') /\ result' \in 0..Len(list') /\ After'
      BY <2>1, <2>2, FirstLoaded DEF LookupInv, Types
    <3> QED BY <1>4, <2>1, <2>2, <3>1 DEF HandleResolve, Complete, LookupInv, Types, Before
  <2>3. CASE resolveOp = "failed" /\ UNCHANGED <<result, next>>
    <3>1. list = <<>> /\ next = 0 /\ result = 0
      BY <2>1, <2>3 DEF LookupInv, Before
    <3> QED BY <1>4, <2>1, <2>3, <3>1 DEF HandleResolve, Complete, LookupInv, Types, Before, After
  <2> QED BY <1>4, <2>2, <2>3 DEF HandleResolve
<1>5. CASE NextResult
  <2>1. /\ list \in Seq(BOOLEAN) /\ result \in 0..Len(list) /\ next \in 0..Len(list)
        /\ results \in Seq(Nat) /\ calls \in Nat /\ Len(list) \in Nat /\ LoadNext(list, result)
        /\ UNCHANGED <<handle, resolveOp, list, lookupComplete>> /\ calls' = calls + 1
    BY <1>5, LenProperties DEF NextResult, LookupInv, Types
  <2>2. /\ next' \in 0..Len(list) /\ result' \in 0..Len(list)
        /\ next' # 0 => next' = result /\ list[result] /\ result' = From(list, result)
        /\ next' = 0 => result' = 0 /\ (result = 0 \/ ~list[result])
    BY <2>1, LoadNextType
  <2>3. CASE next = 0
    <3>1. results' = results
      BY <1>5, <2>3 DEF NextResult
    <3>2. lookupComplete => result = 0
      BY <2>3 DEF LookupInv, After
    <3>3. result = 0
      BY <2>1, <3>2 DEF LookupInv, Types, Before
    <3>4. next' = 0 /\ result' = 0
      BY <2>2, <3>3, <2>1
    <3> QED BY <2>1, <2>3, <3>1, <3>3, <3>4 DEF LookupInv, Types, Before, After
  <2>4. CASE next # 0
    <3>1. lookupComplete /\ After
      BY <2>4 DEF LookupInv, Types, Before
    <3>2. results' = Append(results, next) /\ next = Len(results) + 1
      BY <1>5, <2>4, <3>1 DEF NextResult, After
    <3>3. /\ results' \in Seq(Nat) /\ Len(results') = Len(results) + 1 /\ Len(results) \in Nat
          /\ \A i \in 1..Len(results) : results'[i] = results[i]
          /\ results'[Len(results) + 1] = next
      BY <2>1, <3>2, AppendProperties, LenProperties
    <3>4. \A i \in 1..Len(results') : results'[i] = i
      BY <3>1, <3>2, <3>3 DEF After
    <3>5. result = From(list, next)
      BY <2>4, <3>1 DEF After
    <3>6. After'
      <4>1. CASE next = Len(list)
        <5>1. result = 0 /\ next' = 0 /\ result' = 0
          BY <2>1, <2>2, <3>5, <4>1 DEF From
        <5> QED BY <2>1, <3>2, <3>3, <3>4, <4>1, <5>1 DEF After
      <4>2. CASE next < Len(list)
        <5>1. result = next + 1
          BY <3>5, <4>2 DEF From
        <5>2. Len(results') + 1 = result /\ Len(results') <= Len(list)
          BY <2>1, <3>2, <3>3, <4>2, <5>1
        <5> QED BY <2>1, <2>2, <3>3, <3>4, <5>1, <5>2 DEF After
      <4> QED BY <2>1, <4>1, <4>2
    <3> QED BY <2>1, <2>2, <3>1, <3>3, <3>6 DEF LookupInv, Types, Before
  <2> QED BY <2>3, <2>4
<1>6. CASE Destroy
  BY <1>6 DEF Destroy, LookupInv, Types, Before, After
<1>7. CASE UNCHANGED vars
  BY <1>7 DEF vars, LookupInv, Types, Before, After
<1> QED BY <1>1, <1>2, <1>3, <1>4, <1>5, <1>6, <1>7 DEF Next

(* What the client has seen and what the iterator still holds make up the *)
(* resolver's list, at every step of IpLookup::lookup and its handler.     *)
THEOREM LookupAlways == Spec => []LookupInv
BY LookupInit, LookupStep, PTL DEF Spec

(* Whenever the client calls it, before the lookup is complete, between    *)
(* the results or behind the last, nextResult returns the addresses in the *)
(* resolver's order, none twice, and all up to the first that cannot be    *)
(* printed.                                                                *)
THEOREM AllInOrder == Spec => []ResultsInOrder
<1>1. LookupInv => ResultsInOrder
  <2> SUFFICES ASSUME LookupInv, lookupComplete PROVE ResultsInOrder
    BY DEF ResultsInOrder
  <2> DEFINE got == IF next = 0 THEN results ELSE Append(results, next)
  <2>1. /\ After /\ results \in Seq(Nat) /\ next \in Nat /\ list \in Seq(BOOLEAN)
        /\ Len(results) \in Nat /\ DOMAIN results = 1..Len(results)
    BY LenProperties DEF LookupInv, Types
  <2>2. got \in Seq(Nat) /\ \A i \in 1..Len(got) : got[i] = i
    <3>1. CASE next = 0
      BY <2>1, <3>1 DEF After
    <3>2. CASE next # 0
      <4>1. got = Append(results, next)
        BY <3>2
      <4> HIDE DEF got
      <4>2. /\ got \in Seq(Nat) /\ Len(got) = Len(results) + 1
            /\ \A i \in 1..Len(results) : got[i] = results[i]
            /\ got[Len(results) + 1] = next
        BY <2>1, <4>1, AppendProperties
      <4> QED BY <2>1, <3>2, <4>2 DEF After
    <3> QED BY <3>1, <3>2
  <2>3. got = [i \in 1..Len(got) |-> i]
    <3> HIDE DEF got
    <3>1. got = [i \in 1..Len(got) |-> got[i]]
      BY <2>2
    <3> QED BY <2>2, <3>1
  <2>4. next = 0 => Len(got) = Len(list) \/ ~list[Len(got) + 1]
    BY <2>1 DEF After
  <2> QED BY <2>3, <2>4 DEF ResultsInOrder
<1> QED BY LookupAlways, <1>1, PTL
=============================================================================
