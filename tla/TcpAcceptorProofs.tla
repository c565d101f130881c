-------------------------- MODULE TcpAcceptorProofs -------------------------
(***************************************************************************)
(* Proofs about TcpAcceptor, for any ports, any number of connections and  *)
(* any number of failed accepts.                                           *)
(***************************************************************************)
EXTENDS TcpAcceptor, FiniteSetTheorems, SequenceTheorems, TLAPS

LEMMA TypeInit == Init => TypeOK
<1>1. <<>> \in Seq(Nat) /\ <<>> \in Seq([id : Nat, family : Families])
  BY EmptySeq
<1> SUFFICES ASSUME Init PROVE TypeOK
  OBVIOUS
<1>2. backlog \in [Families -> Seq(Nat)] /\ accepted \in Seq([id : Nat, family : Families])
  BY <1>1 DEF Init
<1>3. /\ waiting \in [Families -> Nat] /\ acceptIn \in [Families -> Nat]
      /\ boundTo \in [Families -> Ports \cup {0}] /\ passedOver \in [Families -> Nat]
  BY DEF Init
<1>4. /\ open \in [Families -> BOOLEAN] /\ hasError \in [Families -> BOOLEAN]
      /\ acceptOp \in [Families -> {"idle", "pending", "done", "failed"}]
      /\ cameLate \in [Families -> BOOLEAN]
  BY DEF Init
<1> QED BY <1>2, <1>3, <1>4 DEF Init, TypeOK

LEMMA TypeOther ==
  ASSUME TypeOK, [AskFirst \/ AskOther \/ Destroy]_vars
  PROVE  TypeOK'
<1>1. CASE UNCHANGED vars
  BY <1>1 DEF TypeOK, vars, callVars, portVars
<1>2. ASSUME NEW f \in Families, TakeFrom(f), AskFirst \/ AskOther PROVE TypeOK'
  <2>1. accepted' \in Seq([id : Nat, family : Families])
    <3>1. [id |-> waiting[f], family |-> f] \in [id : Nat, family : Families]
      BY DEF TypeOK
    <3> QED BY <1>2, <3>1, AppendProperties DEF TakeFrom, TypeOK
  <2>2. /\ waiting' \in [Families -> Nat] /\ passedOver' \in [Families -> Nat]
        /\ acceptOp' \in [Families -> {"idle", "pending", "done", "failed"}]
    BY <1>2 DEF TakeFrom, HandOut, Restart, TypeOK
  <2>3. checkV6First' \in BOOLEAN /\ askOther' \in BOOLEAN
    BY <1>2 DEF AskFirst, AskOther, TypeOK
  <2>4. UNCHANGED <<handle, open, hasError, acceptIn, portVars, backlog, arrived,
                    aborted, errors, cameLate>>
    BY <1>2 DEF AskFirst, AskOther
  <2> QED BY <2>1, <2>2, <2>3, <2>4 DEF TypeOK, portVars
<1>3. CASE AskFirst \/ AskOther
  <2>1. CASE \E f \in Families : TakeFrom(f)
    BY <1>2, <1>3, <2>1
  <2>2. CASE ~ \E f \in Families : TakeFrom(f)
    <3>1. FirstToCheck \in Families /\ Other(FirstToCheck) \in Families
      BY DEF FirstToCheck, Other, Families
    <3>2. UNCHANGED <<accepted, waiting, acceptOp, passedOver>>
      BY <1>3, <2>2, <3>1 DEF AskFirst, AskOther
    <3>3. checkV6First' \in BOOLEAN /\ askOther' \in BOOLEAN
      BY <1>3 DEF AskFirst, AskOther, TypeOK
    <3> QED BY <1>3, <3>2, <3>3 DEF AskFirst, AskOther, TypeOK, portVars
  <2> QED BY <2>1, <2>2
<1>4. CASE Destroy
  <2>1. aborted' \subseteq Nat
    <3>1. ASSUME NEW f \in Families, NEW i \in DOMAIN backlog[f] PROVE backlog[f][i] \in Nat
      <4>1. backlog[f] \in Seq(Nat)
        BY DEF TypeOK
      <4> QED BY <4>1, ElementOfSeq, LenProperties
    <3>2. UNION {{backlog[f][i] : i \in DOMAIN backlog[f]} : f \in Families} \subseteq Nat
      BY <3>1
    <3>3. {waiting[f] : f \in {g \in Families : waiting[g] # 0}} \subseteq Nat
      BY DEF TypeOK
    <3> QED BY <1>4, <3>2, <3>3 DEF Destroy, TypeOK
  <2>2. open' \in [Families -> BOOLEAN] /\ waiting' \in [Families -> Nat]
    BY <1>4 DEF Destroy
  <2>3. backlog' \in [Families -> Seq(Nat)]
    BY <1>4, EmptySeq DEF Destroy
  <2> QED BY <1>4, <2>1, <2>2, <2>3 DEF Destroy, TypeOK, callVars, portVars
<1> QED BY <1>1, <1>3, <1>4

LEMMA TypeListen ==
  ASSUME TypeOK, NEW port \in Ports \cup {0}, Listen(port)
  PROVE  TypeOK'
<1>1. PICK placeholder \in Ports \cup {0}, v4 \in BOOLEAN, v6 \in BOOLEAN,
           p4 \in Ports, p6 \in Ports :
        LET first  == PortAfterFirst(v4, placeholder, p4)
            second == IF v6 /\ first = 0 THEN p6 ELSE first
        IN  /\ open' = [f \in Families |-> IF f = "v4" THEN v4 ELSE v6]
            /\ localPort' = second
            /\ boundTo' = [f \in Families |->
                 IF f = "v4" THEN IF v4 THEN IF placeholder = 0 THEN p4 ELSE placeholder ELSE 0
                 ELSE IF v6 THEN second ELSE 0]
  BY DEF Listen, ListenOn
<1>2. open' \in [Families -> BOOLEAN]
  BY <1>1
<1>3. localPort' \in Ports \cup {0} /\ boundTo' \in [Families -> Ports \cup {0}]
  BY <1>1 DEF PortAfterFirst
<1>4. /\ hasError' \in [Families -> BOOLEAN]
      /\ acceptOp' \in [Families -> {"idle", "pending", "done", "failed"}]
  BY DEF Listen
<1> QED BY <1>2, <1>3, <1>4 DEF Listen, TypeOK, callVars

LEMMA TypeFamily ==
  ASSUME TypeOK, NEW f \in Families, Connect(f) \/ OsAccept(f) \/ HandleAccept(f)
  PROVE  TypeOK'
<1>1. CASE Connect(f)
  <2>1. backlog' \in [Families -> Seq(Nat)]
    <3>1. Append(backlog[f], arrived + 1) \in Seq(Nat)
      BY AppendProperties DEF TypeOK
    <3> QED BY <1>1, <3>1 DEF Connect, TypeOK
  <2> QED BY <1>1, <2>1 DEF Connect, TypeOK, callVars, portVars
<1>2. CASE OsAccept(f)
  <2>1. /\ backlog[f] # <<>> => Head(backlog[f]) \in Nat /\ Tail(backlog[f]) \in Seq(Nat)
        /\ backlog[f] \in Seq(Nat)
    BY HeadTailProperties DEF TypeOK
  <2>2. backlog' \in [Families -> Seq(Nat)]
    BY <1>2, <2>1 DEF OsAccept, TypeOK
  <2>3. acceptIn' \in [Families -> Nat]
    <3>1. CASE UNCHANGED acceptIn
      BY <3>1 DEF TypeOK
    <3>2. CASE /\ backlog[f] # <<>>
               /\ acceptIn' = [acceptIn EXCEPT ![f] = Head(backlog[f])]
      BY <2>1, <3>2 DEF TypeOK
    <3> QED BY <1>2, <3>1, <3>2 DEF OsAccept
  <2>4. acceptOp' \in [Families -> {"idle", "pending", "done", "failed"}]
    BY <1>2 DEF OsAccept, TypeOK
  <2>5. aborted' \subseteq Nat /\ errors' \in Nat
    <3>1. \/ aborted' = aborted
          \/ backlog[f] # <<>> /\ aborted' = aborted \cup {Head(backlog[f])}
      BY <1>2 DEF OsAccept
    <3>2. errors' = errors \/ errors' = errors + 1
      BY <1>2 DEF OsAccept
    <3>3. aborted' \subseteq Nat
      <4>1. aborted \subseteq Nat
        BY DEF TypeOK
      <4> QED BY <2>1, <3>1, <4>1
    <3> QED BY <3>2, <3>3 DEF TypeOK
  <2> QED BY <1>2, <2>2, <2>3, <2>4, <2>5 DEF OsAccept, TypeOK, callVars, portVars
<1>3. CASE HandleAccept(f)
  <2>1. /\ acceptOp' \in [Families -> {"idle", "pending", "done", "failed"}]
        /\ acceptIn' \in [Families -> Nat]
    BY <1>3 DEF HandleAccept, AcceptSucceeded, AcceptFailed, TypeOK
  <2>2. waiting' \in [Families -> Nat] /\ aborted' \subseteq Nat
    <3>1. acceptIn[f] \in Nat
      BY DEF TypeOK
    <3>2. waiting' = [waiting EXCEPT ![f] = acceptIn[f]] \/ waiting' = waiting
      BY <1>3 DEF HandleAccept, AcceptSucceeded
    <3>3. aborted' = aborted \cup {acceptIn[f]} \/ aborted' = aborted
      BY <1>3 DEF HandleAccept
    <3> QED BY <3>1, <3>2, <3>3 DEF TypeOK
  <2>3. hasError' \in [Families -> BOOLEAN] /\ cameLate' \in [Families -> BOOLEAN]
    BY <1>3 DEF HandleAccept, AcceptSucceeded, AcceptFailed, TypeOK
  <2> QED BY <1>3, <2>1, <2>2, <2>3 DEF HandleAccept, TypeOK, callVars, portVars
<1> QED BY <1>1, <1>2, <1>3

(* TcpAcceptor's type invariant: the members of CombinedTcpAcceptor and    *)
(* TcpAcceptor keep to their types, however many connections arrive.       *)
THEOREM TypeCorrect == Spec => []TypeOK
<1>1. TypeOK /\ [Next]_vars => TypeOK'
  BY TypeOther, TypeListen, TypeFamily DEF Next
<1> QED BY TypeInit, <1>1, PTL DEF Spec
-----------------------------------------------------------------------------
(* What an acceptor has in hand.  An accept goes on only while no          *)
(* connection waits, and one that is done has a connection; without the    *)
(* client's handle nothing is open, waiting or in the backlog.             *)
HandInv ==
  /\ \A f \in Families :
       /\ acceptOp[f] # "idle" => waiting[f] = 0
       /\ acceptIn[f] # 0 <=> acceptOp[f] = "done"
       /\ \A i \in 1..Len(backlog[f]) : backlog[f][i] # 0
       /\ handle # "held" => ~open[f] /\ waiting[f] = 0 /\ backlog[f] = <<>>
       /\ handle = "none" => acceptOp[f] = "idle"
  /\ KeepsListening

(* A family is passed over only while it has a connection waiting.  One    *)
(* that came before the call is then the first to be asked; one that came  *)
(* in the middle of the call is passed over again by the next, which asks  *)
(* the other family first, and no more.                                    *)
Passed(f) ==
  \/ passedOver[f] = 0
  \/ passedOver[f] = 1 /\ FirstToCheck = f /\ ~askOther
  \/ passedOver[f] = 1 /\ FirstToCheck # f /\ cameLate[f]
  \/ passedOver[f] = 2 /\ FirstToCheck = f /\ ~askOther /\ cameLate[f]
TurnInv ==
  /\ askOther => handle = "held"
  /\ \A f \in Families :
       /\ Passed(f)
       /\ passedOver[f] # 0 => handle # "none" /\ (handle = "held" => waiting[f] # 0)
       /\ askOther /\ FirstToCheck = f /\ waiting[f] # 0 => cameLate[f]

ControlInv == TypeOK /\ HandInv /\ TurnInv /\ ListensOnLocalPort

LEMMA ControlInit == Init => ControlInv
<1> SUFFICES ASSUME Init PROVE ControlInv
  OBVIOUS
<1>1. TypeOK
  BY TypeInit
<1>2. HandInv
  BY DEF Init, HandInv, KeepsListening
<1> QED BY <1>1, <1>2 DEF Init, ControlInv, TurnInv, Passed, ListensOnLocalPort

LEMMA ControlListen ==
  ASSUME ControlInv, NEW port \in Ports \cup {0}, Listen(port)
  PROVE  ControlInv'
<1> USE DEF ControlInv
<1>1. TypeOK'
  BY TypeListen
<1>2. HandInv'
  BY DEF Listen, HandInv, KeepsListening, TypeOK
<1>3. TurnInv'
  <2>1. /\ handle = "none" /\ handle' = "held"
        /\ UNCHANGED <<checkV6First, askOther, passedOver, waiting, cameLate>>
    BY DEF Listen, callVars
  <2> QED BY <2>1 DEF TurnInv, Passed, FirstToCheck
<1>4. ListensOnLocalPort'
  <2>1. PICK placeholder \in Ports \cup {0}, v4 \in BOOLEAN, v6 \in BOOLEAN,
             p4 \in Ports, p6 \in Ports :
          LET first  == PortAfterFirst(v4, placeholder, p4)
              second == IF v6 /\ first = 0 THEN p6 ELSE first
          IN  /\ open' = [f \in Families |-> IF f = "v4" THEN v4 ELSE v6]
              /\ localPort' = second
              /\ boundTo' = [f \in Families |->
                   IF f = "v4" THEN IF v4 THEN IF placeholder = 0 THEN p4 ELSE placeholder ELSE 0
                   ELSE IF v6 THEN second ELSE 0]
    BY DEF Listen, ListenOn
  <2>2. 0 \notin Ports
    BY PortsAssumption
  <2> QED BY <2>1, <2>2 DEF ListensOnLocalPort, PortAfterFirst
<1> QED BY <1>1, <1>2, <1>3, <1>4

(* What a family hands out: its own turn is over, and that of the other    *)
(* moves on.                                                               *)
LEMMA TurnTaken ==
  ASSUME ControlInv, NEW f \in Families, TakeFrom(f), handle = "held", handle' = "held",
         checkV6First' = ~checkV6First, askOther' = FALSE, cameLate' = cameLate,
         \/ f = FirstToCheck /\ ~askOther
         \/ f = Other(FirstToCheck) /\ askOther
  PROVE  TurnInv'
<1> USE DEF ControlInv
<1>1. /\ FirstToCheck' = Other(FirstToCheck) /\ FirstToCheck \in Families
      /\ \A g \in Families : g # f => g = Other(f)
      /\ Other(f) \in Families /\ Other(f) # f /\ Other(Other(f)) = f
  BY DEF FirstToCheck, Other, Families, TypeOK
<1>2. \A g \in Families :
        /\ waiting'[g] = IF g = f THEN 0 ELSE waiting[g]
        /\ passedOver'[g] = IF g = f \/ waiting[g] = 0 THEN 0 ELSE passedOver[g] + 1
  BY DEF TakeFrom, HandOut, TypeOK
<1>3. passedOver'[f] = 0
  BY <1>2
<1> DEFINE g == Other(f)
<1>4. waiting'[g] = waiting[g] /\ passedOver'[g] = IF waiting[g] = 0 THEN 0 ELSE passedOver[g] + 1
  BY <1>1, <1>2
<1>5. passedOver'[g] = 0 \/ waiting'[g] # 0
  BY <1>4
<1>6. Passed(g)'
  <2>1. CASE waiting[g] = 0
    BY <1>4, <2>1 DEF Passed
  <2>2. CASE f = FirstToCheck /\ ~askOther /\ waiting[g] # 0
    <3>1. passedOver[g] = 0 \/ (passedOver[g] = 1 /\ cameLate[g])
      BY <1>1, <2>2 DEF TurnInv, Passed
    <3>2. passedOver'[g] = 1 \/ (passedOver'[g] = 2 /\ cameLate[g])
      BY <1>4, <2>2, <3>1
    <3> QED BY <1>1, <2>2, <3>2 DEF Passed
  <2>3. CASE f = Other(FirstToCheck) /\ askOther /\ waiting[g] # 0
    <3>1. g = FirstToCheck
      BY <2>3 DEF FirstToCheck, Other
    <3>2. passedOver[g] = 0 /\ cameLate[g]
      BY <1>1, <2>3, <3>1 DEF TurnInv, Passed
    <3>3. passedOver'[g] = 1
      BY <1>4, <2>3, <3>2
    <3> QED BY <1>1, <2>3, <3>1, <3>2, <3>3 DEF Passed
  <2> QED BY <2>1, <2>2, <2>3
<1>7. Passed(f)'
  BY <1>3 DEF Passed
<1> QED BY <1>1, <1>3, <1>5, <1>6, <1>7 DEF TurnInv

LEMMA ControlTake ==
  ASSUME ControlInv, NEW f \in Families, TakeFrom(f), AskFirst \/ AskOther
  PROVE  HandInv'
<1> USE DEF ControlInv
<1>1. /\ waiting' = [waiting EXCEPT ![f] = 0] /\ waiting[f] # 0
      /\ acceptOp' = [acceptOp EXCEPT ![f] = "pending"]
  BY DEF TakeFrom, HandOut, Restart
<1>2. acceptOp[f] = "idle" /\ acceptIn[f] = 0
  BY <1>1 DEF HandInv, TypeOK
<1>3. UNCHANGED <<handle, open, acceptIn, backlog>> /\ handle = "held"
  BY DEF AskFirst, AskOther, TurnInv
<1>4. \A g \in Families :
        /\ waiting'[g] = IF g = f THEN 0 ELSE waiting[g]
        /\ acceptOp'[g] = IF g = f THEN "pending" ELSE acceptOp[g]
  BY <1>1 DEF TypeOK
<1> QED BY <1>2, <1>3, <1>4 DEF HandInv, KeepsListening

LEMMA ControlAsk ==
  ASSUME ControlInv, AskFirst \/ AskOther
  PROVE  ControlInv'
<1> USE DEF ControlInv
<1>1. TypeOK'
  BY TypeOther
<1>2. FirstToCheck \in Families /\ Other(FirstToCheck) \in Families
  BY DEF FirstToCheck, Other, Families
<1>3. /\ UNCHANGED <<handle, open, acceptIn, portVars, backlog, cameLate>>
      /\ handle = "held" /\ handle' = "held"
  BY DEF AskFirst, AskOther, TurnInv
<1>4. HandInv'
  <2>1. CASE UNCHANGED <<waiting, acceptOp>>
    BY <1>3, <2>1 DEF HandInv, KeepsListening
  <2> QED BY <1>2, <2>1, ControlTake DEF AskFirst, AskOther
<1>5. CASE AskFirst /\ TakeFrom(FirstToCheck)
  <2>1. checkV6First' = ~checkV6First /\ ~askOther /\ askOther' = FALSE
    <3>1. waiting[FirstToCheck] # 0
      BY <1>5 DEF TakeFrom
    <3> QED BY <1>5, <3>1 DEF AskFirst, TypeOK
  <2>2. TurnInv'
    BY <1>2, <1>3, <1>5, <2>1, TurnTaken
  <2> QED BY <1>1, <1>3, <1>4, <2>2 DEF ListensOnLocalPort, portVars
<1>6. CASE AskFirst /\ ~TakeFrom(FirstToCheck)
  <2>1. /\ waiting[FirstToCheck] = 0 /\ askOther' = TRUE
        /\ UNCHANGED <<checkV6First, waiting, passedOver>>
    BY <1>6 DEF AskFirst
  <2>2. FirstToCheck' = FirstToCheck /\ passedOver[FirstToCheck] = 0
    BY <1>2, <1>3, <2>1 DEF FirstToCheck, TurnInv
  <2>3. TurnInv'
    BY <1>3, <2>1, <2>2 DEF TurnInv, Passed
  <2> QED BY <1>1, <1>3, <1>4, <2>3 DEF ListensOnLocalPort, portVars
<1>7. CASE AskOther
  <2>1. checkV6First' = ~checkV6First /\ askOther /\ askOther' = FALSE
    BY <1>7 DEF AskOther
  <2>2. CASE TakeFrom(Other(FirstToCheck))
    <3>1. TurnInv'
      BY <1>2, <1>3, <2>1, <2>2, TurnTaken
    <3> QED BY <1>1, <1>3, <1>4, <3>1 DEF ListensOnLocalPort, portVars
  <2>3. CASE waiting[Other(FirstToCheck)] = 0 /\ UNCHANGED <<waiting, passedOver>>
    <3>1. \A g \in Families : g = FirstToCheck \/ g = Other(FirstToCheck)
      BY DEF FirstToCheck, Other, Families
    <3>2. passedOver[FirstToCheck] = 0 /\ passedOver[Other(FirstToCheck)] = 0
      BY <1>2, <1>3, <2>1, <2>3 DEF TurnInv, Passed
    <3>3. \A g \in Families : passedOver'[g] = 0
      BY <2>3, <3>1, <3>2
    <3>4. TurnInv'
      BY <2>1, <3>3 DEF TurnInv, Passed
    <3> QED BY <1>1, <1>3, <1>4, <3>4 DEF ListensOnLocalPort, portVars
  <2> QED BY <1>7, <2>2, <2>3 DEF AskOther
<1> QED BY <1>5, <1>6, <1>7

LEMMA ControlDestroy ==
  ASSUME ControlInv, Destroy
  PROVE  ControlInv'
<1> USE DEF ControlInv
<1>1. TypeOK'
  BY TypeOther
<1>2. HandInv'
  BY DEF Destroy, HandInv, KeepsListening
<1>3. TurnInv' /\ ListensOnLocalPort'
  BY DEF Destroy, TurnInv, Passed, FirstToCheck, ListensOnLocalPort, callVars, portVars
<1> QED BY <1>1, <1>2, <1>3

LEMMA ControlFamily ==
  ASSUME ControlInv, NEW f \in Families, Connect(f) \/ OsAccept(f) \/ HandleAccept(f)
  PROVE  ControlInv'
<1> USE DEF ControlInv
<1>1. TypeOK'
  BY TypeFamily
<1>2. CASE Connect(f)
  <2>1. handle = "held" /\ backlog[f] \in Seq(Nat) /\ arrived + 1 \in Nat \ {0}
    BY <1>2 DEF Connect, HandInv, TypeOK
  <2>2. \A i \in 1..Len(backlog'[f]) : backlog'[f][i] # 0
    <3>1. backlog'[f] = Append(backlog[f], arrived + 1)
      BY <1>2 DEF Connect, TypeOK
    <3>2. \A i \in 1..Len(backlog[f]) : backlog[f][i] # 0
      BY DEF HandInv
    <3> QED BY <2>1, <3>1, <3>2, AppendProperties
  <2>3. \A g \in Families \ {f} : backlog'[g] = backlog[g]
    BY <1>2 DEF Connect, TypeOK
  <2>4. HandInv'
    BY <1>2, <2>1, <2>2, <2>3 DEF Connect, HandInv, KeepsListening
  <2> QED BY <1>1, <1>2, <2>4 DEF Connect, TurnInv, Passed, ListensOnLocalPort, FirstToCheck, callVars,
                                  portVars
<1>3. CASE OsAccept(f)
  <2>1. backlog[f] \in Seq(Nat)
    BY DEF TypeOK
  <2>2. CASE UNCHANGED <<backlog, acceptIn>> /\ acceptOp' = [acceptOp EXCEPT ![f] = "failed"]
    BY <1>1, <1>3, <2>2 DEF OsAccept, HandInv, TurnInv, Passed, KeepsListening, ListensOnLocalPort,
                            FirstToCheck, callVars, portVars, TypeOK
  <2>3. CASE backlog[f] # <<>> /\ backlog' = [backlog EXCEPT ![f] = Tail(@)]
    <3>1. /\ Head(backlog[f]) # 0
          /\ \A i \in 1..Len(backlog'[f]) : backlog'[f][i] # 0
      <4>1. \A i \in 1..Len(backlog[f]) : backlog[f][i] # 0
        BY DEF HandInv
      <4>2. backlog'[f] = Tail(backlog[f])
        BY <2>3 DEF TypeOK
      <4> QED BY <2>1, <2>3, <4>1, <4>2, HeadTailProperties
    <3>2. /\ \A g \in Families \ {f} : backlog'[g] = backlog[g]
          /\ handle = "held" /\ handle' = "held" /\ UNCHANGED <<waiting, open>>
      BY <1>3, <2>3 DEF OsAccept, HandInv, TypeOK
    <3>3. \/ /\ acceptOp' = [acceptOp EXCEPT ![f] = "done"]
             /\ acceptIn' = [acceptIn EXCEPT ![f] = Head(backlog[f])]
          \/ /\ acceptOp' = [acceptOp EXCEPT ![f] = "failed"]
             /\ acceptIn' = acceptIn
      BY <1>3 DEF OsAccept
    <3>4. acceptOp[f] = "pending" /\ acceptIn[f] = 0
      BY <1>3 DEF OsAccept, HandInv
    <3>5. HandInv'
      <4>1. acceptOp'[f] \in {"done", "failed"} /\ (acceptIn'[f] # 0 <=> acceptOp'[f] = "done")
        BY <3>1, <3>3, <3>4 DEF TypeOK
      <4>2. \A g \in Families \ {f} : acceptOp'[g] = acceptOp[g] /\ acceptIn'[g] = acceptIn[g]
        BY <3>3 DEF TypeOK
      <4>3. waiting[f] = 0
        BY <3>4 DEF HandInv
      <4>4. ASSUME NEW g \in Families
            PROVE  /\ acceptOp'[g] # "idle" => waiting'[g] = 0
                   /\ acceptIn'[g] # 0 <=> acceptOp'[g] = "done"
                   /\ \A i \in 1..Len(backlog'[g]) : backlog'[g][i] # 0
        BY <3>1, <3>2, <4>1, <4>2, <4>3 DEF HandInv
      <4>5. KeepsListening'
        BY <3>2, <4>1, <4>2 DEF HandInv, KeepsListening
      <4> QED BY <3>2, <4>4, <4>5 DEF HandInv
    <3> QED BY <1>1, <1>3, <3>5 DEF OsAccept, TurnInv, Passed, ListensOnLocalPort, FirstToCheck,
                                    callVars, portVars
  <2> QED BY <1>3, <2>2, <2>3 DEF OsAccept
<1>4. CASE HandleAccept(f)
  <2>1. HandInv'
    BY <1>4 DEF HandleAccept, AcceptSucceeded, AcceptFailed, HandInv, KeepsListening, TypeOK
  <2>2. TurnInv'
    <3>1. /\ UNCHANGED <<handle, checkV6First, askOther, passedOver>>
          /\ FirstToCheck' = FirstToCheck
      BY <1>4 DEF HandleAccept, FirstToCheck, callVars
    <3>2. CASE UNCHANGED <<waiting, cameLate>>
      BY <3>1, <3>2 DEF TurnInv, Passed
    <3>3. CASE acceptOp[f] = "done" /\ handle = "held"
      <4>1. waiting[f] = 0 /\ passedOver[f] = 0
        BY <3>3 DEF HandInv, TurnInv
      <4>2. /\ cameLate'[f] = (askOther /\ FirstToCheck = f)
            /\ \A g \in Families \ {f} : cameLate'[g] = cameLate[g] /\ waiting'[g] = waiting[g]
        BY <1>4, <3>3 DEF HandleAccept, AcceptSucceeded, TypeOK
      <4> QED BY <3>1, <3>3, <4>1, <4>2 DEF TurnInv, Passed
    <3> QED BY <1>4, <3>2, <3>3 DEF HandleAccept
  <2> QED BY <1>1, <1>4, <2>1, <2>2 DEF HandleAccept, ListensOnLocalPort, portVars
<1> QED BY <1>2, <1>3, <1>4

(* Flags and operations of TcpAcceptor agree: an accept is started exactly *)
(* when the slot is free, and CombinedTcpAcceptor's turn is right.         *)
THEOREM ControlAlways == Spec => []ControlInv
<1>1. ControlInv /\ UNCHANGED vars => ControlInv'
  <2> SUFFICES ASSUME ControlInv, UNCHANGED vars PROVE ControlInv'
    OBVIOUS
  <2>1. TypeOK'
    BY TypeOther DEF ControlInv
  <2> QED BY <2>1 DEF ControlInv, HandInv, TurnInv, Passed, KeepsListening, ListensOnLocalPort,
                      FirstToCheck, vars, callVars, portVars
<1>2. ControlInv /\ [Next]_vars => ControlInv'
  BY <1>1, ControlListen, ControlAsk, ControlDestroy, ControlFamily DEF Next
<1> QED BY ControlInit, <1>2, PTL DEF Spec

(* An open acceptor always has an accept going on or a connection waiting, *)
(* after any errors and any calls.                                         *)
THEOREM NeverDeaf == Spec => []KeepsListening
<1>1. ControlInv => KeepsListening
  BY DEF ControlInv, HandInv
<1> QED BY ControlAlways, <1>1, PTL

(* CombinedTcpAcceptor asks the two families in turns, so a connection     *)
(* that waits is passed over at most once, or twice when it came between   *)
(* the two checks of a call.                                               *)
THEOREM Fair == Spec => []TakesTurns
<1>1. ControlInv => TakesTurns
  BY DEF ControlInv, TurnInv, Passed, TakesTurns
<1> QED BY ControlAlways, <1>1, PTL

(* Whatever fails in the constructor, each open acceptor is bound to the   *)
(* port that is reported.                                                  *)
THEOREM PortReported == Spec => []ListensOnLocalPort
<1>1. ControlInv => ListensOnLocalPort
  BY DEF ControlInv
<1> QED BY ControlAlways, <1>1, PTL
-----------------------------------------------------------------------------
(* Where connections are, as sets.                                         *)
Held(f) == {backlog[f][i] : i \in 1..Len(backlog[f])}
Op(f) == {acceptIn[f]} \ {0}
Slot(f) == {waiting[f]} \ {0}
Got == {accepted[i].id : i \in 1..Len(accepted)}
Here(f) == Held(f) \cup Op(f) \cup Slot(f)

(* These sets share nothing and make up all connections that ever came.    *)
Apart ==
  /\ \A f \in Families : Held(f) \cap Op(f) = {} /\ Held(f) \cap Slot(f) = {}
  /\ \A f, g \in Families : f # g => Here(f) \cap Here(g) = {}
  /\ \A f \in Families : Here(f) \cap Got = {} /\ Here(f) \cap aborted = {}
  /\ Got \cap aborted = {}
Complete ==
  1..arrived = Here("v4") \cup Here("v6") \cup Got \cup aborted

(* Those of one family are in order: handed out, then at an accept or      *)
(* waiting, then in the backlog; and none was handed out twice.            *)
InOrder ==
  /\ \A f \in Families :
       /\ \A i, j \in 1..Len(backlog[f]) : i < j => backlog[f][i] < backlog[f][j]
       /\ \A x \in Op(f) \cup Slot(f), y \in Held(f) : x < y
  /\ \A f \in Families, i \in 1..Len(accepted) :
       accepted[i].family = f => \A x \in Here(f) : accepted[i].id < x
  /\ \A i, j \in 1..Len(accepted) :
       i < j => /\ accepted[i].id # accepted[j].id
                /\ accepted[i].family = accepted[j].family => accepted[i].id < accepted[j].id

PlaceInv == Apart /\ Complete /\ InOrder

(* The backlog is a queue: what an accept takes is its first connection.   *)
LEMMA HeldEmpty ==
  ASSUME NEW f \in Families, backlog[f] = <<>>
  PROVE  Held(f) = {}
BY DEF Held

LEMMA HeldHead ==
  ASSUME TypeOK, InOrder, NEW f \in Families, backlog[f] # <<>>, backlog'[f] = Tail(backlog[f])
  PROVE  /\ Head(backlog[f]) \in Held(f)
         /\ Held(f)' = Held(f) \ {Head(backlog[f])}
         /\ \A y \in Held(f)' : Head(backlog[f]) < y
         /\ \A i, j \in 1..Len(backlog'[f]) : i < j => backlog'[f][i] < backlog'[f][j]
<1> DEFINE s == backlog[f]
<1>1. s \in Seq(Nat) /\ s # <<>>
  BY DEF TypeOK
<1>2. /\ Len(s) \in Nat \ {0} /\ Head(s) = s[1]
      /\ Len(Tail(s)) = Len(s) - 1
      /\ \A i \in 1..Len(Tail(s)) : Tail(s)[i] = s[i + 1]
  BY <1>1, HeadTailProperties, EmptySeq
<1>3. \A i \in 1..Len(s) : s[i] \in Nat
  BY <1>1, ElementOfSeq
<1>4. \A i, j \in 1..Len(s) : i < j => s[i] < s[j]
  BY DEF InOrder
<1>5. \A i \in 1..Len(Tail(s)) : i + 1 \in 1..Len(s) /\ s[1] < s[i + 1]
  BY <1>2, <1>4
<1>6. \A i \in 1..Len(s) : i # 1 => i - 1 \in 1..Len(Tail(s)) /\ Tail(s)[i - 1] = s[i]
  BY <1>2
<1>7. Held(f) = {s[i] : i \in 1..Len(s)} /\ Held(f)' = {Tail(s)[i] : i \in 1..Len(Tail(s))}
  BY DEF Held
<1> HIDE DEF s
<1>8. {Tail(s)[i] : i \in 1..Len(Tail(s))} = {s[i] : i \in 1..Len(s)} \ {s[1]}
  <2>1. \A i \in 1..Len(Tail(s)) : Tail(s)[i] \in {s[j] : j \in 1..Len(s)} /\ Tail(s)[i] # s[1]
    BY <1>2, <1>3, <1>5
  <2>2. \A i \in 1..Len(s) : s[i] # s[1] => s[i] \in {Tail(s)[j] : j \in 1..Len(Tail(s))}
    BY <1>6
  <2> QED BY <2>1, <2>2
<1>9. /\ s[1] \in {s[i] : i \in 1..Len(s)}
      /\ \A y \in {Tail(s)[i] : i \in 1..Len(Tail(s))} : s[1] < y
  BY <1>2, <1>5
<1>10. \A i, j \in 1..Len(Tail(s)) : i < j => Tail(s)[i] < Tail(s)[j]
  BY <1>2, <1>4, <1>5
<1> QED BY <1>2, <1>7, <1>8, <1>9, <1>10 DEF s

LEMMA PlaceInit == Init => PlaceInv
<1> SUFFICES ASSUME Init PROVE PlaceInv
  OBVIOUS
<1>1. \A f \in Families : Held(f) = {} /\ Op(f) = {} /\ Slot(f) = {}
  BY HeldEmpty DEF Init, Op, Slot
<1>2. Got = {} /\ Len(accepted) = 0 /\ aborted = {} /\ 1..arrived = {}
  BY DEF Init, Got
<1>3. \A f \in Families : Here(f) = {}
  BY <1>1 DEF Here
<1>4. "v4" \in Families /\ "v6" \in Families /\ \A f \in Families : Len(backlog[f]) = 0
  BY DEF Families, Init
<1> QED BY <1>1, <1>2, <1>3, <1>4 DEF PlaceInv, Apart, Complete, InOrder

LEMMA PlaceSame ==
  ASSUME PlaceInv, UNCHANGED <<backlog, acceptIn, waiting, accepted, aborted, arrived>>
  PROVE  PlaceInv'
<1>1. Got' = Got /\ \A f \in Families : Held(f)' = Held(f) /\ Op(f)' = Op(f) /\ Slot(f)' = Slot(f)
  BY DEF Held, Op, Slot, Got
<1>2. \A f \in Families : Here(f)' = Here(f)
  BY <1>1 DEF Here
<1>3. Here("v4")' = Here("v4") /\ Here("v6")' = Here("v6")
  BY <1>2 DEF Families
<1>4. Apart' /\ Complete'
  BY <1>1, <1>2, <1>3 DEF PlaceInv, Apart, Complete
<1>5. InOrder'
  BY <1>1, <1>2 DEF PlaceInv, InOrder
<1> QED BY <1>4, <1>5 DEF PlaceInv

(* What each step does to these sets.                                      *)
LEMMA AllKnown ==
  ASSUME TypeOK, Complete, NEW f \in Families
  PROVE  /\ Here(f) \subseteq 1..arrived /\ Got \subseteq 1..arrived
         /\ aborted \subseteq 1..arrived
<1>1. Here(f) \subseteq Here("v4") \cup Here("v6")
  BY DEF Families
<1> QED BY <1>1 DEF Complete

LEMMA PlaceConnect ==
  ASSUME ControlInv, PlaceInv, NEW f \in Families, Connect(f)
  PROVE  PlaceInv'
<1> DEFINE n == arrived + 1
<1>1. /\ arrived \in Nat /\ arrived' = n /\ backlog[f] \in Seq(Nat)
      /\ backlog'[f] = Append(backlog[f], n)
      /\ \A g \in Families \ {f} : backlog'[g] = backlog[g]
      /\ UNCHANGED <<acceptIn, waiting, accepted, aborted>>
  BY DEF Connect, callVars, ControlInv, TypeOK
<1>2. /\ \A g \in Families : Here(g) \subseteq 1..arrived
      /\ Got \subseteq 1..arrived /\ aborted \subseteq 1..arrived
  BY AllKnown DEF ControlInv, PlaceInv
<1>3. /\ Len(backlog'[f]) = Len(backlog[f]) + 1 /\ Len(backlog[f]) \in Nat
      /\ backlog'[f][Len(backlog[f]) + 1] = n
      /\ \A i \in 1..Len(backlog[f]) : backlog'[f][i] = backlog[f][i]
  BY <1>1, AppendProperties, LenProperties
<1>4. /\ Held(f)' = Held(f) \cup {n}
      /\ \A g \in Families \ {f} : Held(g)' = Held(g)
  <2>1. \A i \in 1..Len(backlog'[f]) : i \in 1..Len(backlog[f]) \/ i = Len(backlog[f]) + 1
    BY <1>3
  <2>2. \A i \in 1..Len(backlog[f]) : i \in 1..Len(backlog'[f])
    BY <1>3
  <2>3. Len(backlog[f]) + 1 \in 1..Len(backlog'[f])
    BY <1>3
  <2> QED BY <1>1, <1>3, <2>1, <2>2, <2>3 DEF Held
<1>5. /\ Got' = Got /\ \A g \in Families : Op(g)' = Op(g) /\ Slot(g)' = Slot(g)
  BY <1>1 DEF Got, Op, Slot
<1>6. /\ Here(f)' = Here(f) \cup {n}
      /\ \A g \in Families \ {f} : Here(g)' = Here(g)
  BY <1>4, <1>5 DEF Here
<1>7. n \notin Got /\ n \notin aborted /\ \A g \in Families : n \notin Here(g)
  BY <1>1, <1>2
<1>8. Apart'
  BY <1>1, <1>4, <1>5, <1>6, <1>7 DEF PlaceInv, Apart, Here
<1>9. Complete'
  <2>1. 1..arrived' = (1..arrived) \cup {n}
    BY <1>1
  <2> QED BY <1>1, <1>5, <1>6, <2>1 DEF PlaceInv, Complete, Families
<1>10. InOrder'
  <2>1. \A g \in Families : \A x \in Here(g) : x \in Nat /\ x < n
    BY <1>1, <1>2
  <2>2. \A i, j \in 1..Len(backlog'[f]) : i < j => backlog'[f][i] < backlog'[f][j]
    <3>1. \A i \in 1..Len(backlog[f]) : backlog[f][i] \in Here(f)
      BY DEF Here, Held
    <3>2. \A i, j \in 1..Len(backlog[f]) : i < j => backlog[f][i] < backlog[f][j]
      BY DEF PlaceInv, InOrder
    <3>3. \A i \in 1..Len(backlog[f]) : backlog[f][i] < n
      BY <2>1, <3>1
    <3> QED BY SMTT(30), <1>3, <3>2, <3>3
  <2>3. \A g \in Families : \A x \in (Op(g) \cup Slot(g))', y \in Held(g)' : x < y
    BY <1>4, <1>5, <2>1 DEF PlaceInv, InOrder, Here
  <2>4. ASSUME NEW g \in Families, NEW i \in 1..Len(accepted), accepted[i].family = g,
               NEW x \in Here(g)'
        PROVE  accepted[i].id < x
    <3>1. accepted[i].id \in 1..arrived
      BY <1>2 DEF Got
    <3>2. CASE x = n
      BY <1>1, <3>1, <3>2
    <3>3. CASE x \in Here(g)
      BY <2>4, <3>3 DEF PlaceInv, InOrder
    <3> QED BY <1>6, <3>2, <3>3
  <2> QED BY <1>1, <2>2, <2>3, <2>4 DEF PlaceInv, InOrder
<1> QED BY <1>8, <1>9, <1>10 DEF PlaceInv

LEMMA PlaceOsAccept ==
  ASSUME ControlInv, PlaceInv, NEW f \in Families, OsAccept(f)
  PROVE  PlaceInv'
<1>1. CASE UNCHANGED <<backlog, acceptIn, aborted>>
  BY <1>1, PlaceSame DEF OsAccept, callVars
<1>2. CASE backlog[f] # <<>> /\ backlog' = [backlog EXCEPT ![f] = Tail(@)]
  <2> DEFINE x == Head(backlog[f])
  <2>1. /\ backlog'[f] = Tail(backlog[f]) /\ \A g \in Families \ {f} : backlog'[g] = backlog[g]
        /\ UNCHANGED <<waiting, accepted, arrived>>
    BY <1>2 DEF OsAccept, callVars, ControlInv, TypeOK
  <2>2. /\ x \in Held(f) /\ Held(f)' = Held(f) \ {x} /\ \A y \in Held(f)' : x < y
        /\ \A i, j \in 1..Len(backlog'[f]) : i < j => backlog'[f][i] < backlog'[f][j]
    BY <1>2, <2>1, HeldHead DEF ControlInv, PlaceInv
  <2>3. /\ Got' = Got
        /\ \A g \in Families : Slot(g)' = Slot(g) /\ (g # f => Held(g)' = Held(g))
    BY <2>1 DEF Got, Slot, Held
  <2>4. Op(f) = {} /\ Slot(f) = {} /\ x # 0
    <3>1. acceptIn[f] = 0 /\ waiting[f] = 0
      BY DEF OsAccept, callVars, ControlInv, HandInv
    <3>2. \A y \in Held(f) : y # 0
      BY DEF Held, ControlInv, HandInv
    <3> QED BY <2>2, <3>1, <3>2 DEF Op, Slot
  <2>5. \/ /\ Op(f)' = {x} /\ aborted' = aborted /\ Here(f)' = Here(f)
        \/ /\ Op(f)' = {} /\ aborted' = aborted \cup {x} /\ Here(f)' = Here(f) \ {x}
    <3>1. \/ acceptIn' = [acceptIn EXCEPT ![f] = x] /\ aborted' = aborted
          \/ acceptIn' = acceptIn /\ aborted' = aborted \cup {x}
      BY <1>2 DEF OsAccept, callVars, ControlInv, TypeOK
    <3>2. \/ acceptIn'[f] = x /\ aborted' = aborted
          \/ acceptIn'[f] = acceptIn[f] /\ aborted' = aborted \cup {x}
      BY <3>1 DEF ControlInv, TypeOK
    <3>3. \/ Op(f)' = {x} /\ aborted' = aborted
          \/ Op(f)' = {} /\ aborted' = aborted \cup {x}
      BY <2>4, <3>2 DEF Op
    <3> QED BY <2>2, <2>3, <2>4, <3>3 DEF Here
  <2>6. \A g \in Families \ {f} : Op(g)' = Op(g) /\ Here(g)' = Here(g)
    <3>1. \A g \in Families \ {f} : acceptIn'[g] = acceptIn[g]
      BY <1>2 DEF OsAccept, callVars, ControlInv, TypeOK
    <3> QED BY <2>3, <3>1 DEF Op, Here
  <2> HIDE DEF x
  <2>7. Apart'
    <3>1. \A g \in Families : Held(g)' \cap Op(g)' = {} /\ Held(g)' \cap Slot(g)' = {}
      BY <2>2, <2>3, <2>4, <2>5, <2>6 DEF PlaceInv, Apart
    <3>2. x \in Here(f) /\ Here(f)' \subseteq Here(f) /\ x \notin Got
      BY <2>2, <2>5 DEF Here, PlaceInv, Apart
    <3>3. \A g, h \in Families : g # h => Here(g)' \cap Here(h)' = {}
      BY <2>6, <3>2 DEF PlaceInv, Apart
    <3>4. \A g \in Families : Here(g)' \cap Got' = {} /\ Here(g)' \cap aborted' = {}
      BY <2>3, <2>5, <2>6, <3>2 DEF PlaceInv, Apart
    <3>5. Got' \cap aborted' = {}
      BY <2>3, <2>5, <3>2 DEF PlaceInv, Apart
    <3> QED BY <3>1, <3>3, <3>4, <3>5 DEF Apart
  <2>8. Complete'
    <3>1. x \in Here(f)
      BY <2>2 DEF Here
    <3>2. Here(f)' \cup aborted' = Here(f) \cup aborted
      BY <2>5, <3>1
    <3>3. CASE f = "v4"
      BY <2>1, <2>3, <2>6, <3>2, <3>3 DEF PlaceInv, Complete, Families
    <3>4. CASE f = "v6"
      BY <2>1, <2>3, <2>6, <3>2, <3>4 DEF PlaceInv, Complete, Families
    <3> QED BY <3>3, <3>4 DEF Families
  <2>9. InOrder'
    <3>1. \A g \in Families : \A i, j \in 1..Len(backlog'[g]) : i < j => backlog'[g][i] < backlog'[g][j]
      BY <2>1, <2>2 DEF PlaceInv, InOrder
    <3>2. \A g \in Families : \A y \in (Op(g) \cup Slot(g))', z \in Held(g)' : y < z
      BY <2>2, <2>3, <2>4, <2>5, <2>6 DEF PlaceInv, InOrder
    <3>3. \A g \in Families : Here(g)' \subseteq Here(g)
      BY <2>5, <2>6
    <3> QED BY <2>1, <3>1, <3>2, <3>3 DEF PlaceInv, InOrder
  <2> QED BY <2>7, <2>8, <2>9 DEF PlaceInv
<1> QED BY <1>1, <1>2 DEF OsAccept, callVars

LEMMA PlaceHandle ==
  ASSUME ControlInv, PlaceInv, NEW f \in Families, HandleAccept(f)
  PROVE  PlaceInv'
<1>1. CASE UNCHANGED <<acceptIn, waiting, aborted>>
  BY <1>1, PlaceSame DEF HandleAccept, callVars
<1>2. UNCHANGED <<backlog, accepted, arrived>>
  BY DEF HandleAccept, callVars
<1>3. /\ acceptIn'[f] = 0
      /\ \A g \in Families \ {f} : acceptIn'[g] = acceptIn[g] /\ waiting'[g] = waiting[g]
  BY DEF HandleAccept, callVars, AcceptSucceeded, ControlInv, TypeOK
<1>4. waiting[f] = 0
  BY DEF HandleAccept, callVars, ControlInv, HandInv
<1>5. \/ waiting'[f] = acceptIn[f] /\ aborted' = aborted
      \/ waiting'[f] = 0 /\ acceptIn[f] # 0 /\ aborted' = aborted \cup {acceptIn[f]}
  <2>1. CASE acceptOp[f] = "failed"
    <3>1. acceptIn[f] = 0
      BY <2>1 DEF ControlInv, HandInv
    <3> QED BY <1>4, <2>1, <3>1 DEF HandleAccept, callVars
  <2>2. CASE acceptOp[f] = "done"
    <3>1. acceptIn[f] # 0
      BY <2>2 DEF ControlInv, HandInv
    <3> QED BY <1>4, <2>2, <3>1 DEF HandleAccept, callVars, AcceptSucceeded, ControlInv, TypeOK
  <2> QED BY <2>1, <2>2 DEF HandleAccept, callVars
<1>6. /\ Got' = Got /\ \A g \in Families : Held(g)' = Held(g)
      /\ \A g \in Families \ {f} : Op(g)' = Op(g) /\ Slot(g)' = Slot(g) /\ Here(g)' = Here(g)
  BY <1>2, <1>3 DEF Got, Held, Op, Slot, Here
<1>7. /\ Slot(f) = {} /\ Op(f)' = {}
      /\ \/ Slot(f)' = Op(f) /\ aborted' = aborted /\ Here(f)' = Here(f)
         \/ Slot(f)' = {} /\ aborted' = aborted \cup Op(f) /\ Here(f)' = Here(f) \ Op(f)
  <2>1. Slot(f) = {} /\ Op(f)' = {}
    BY <1>3, <1>4 DEF Slot, Op
  <2>2. \/ Slot(f)' = Op(f) /\ aborted' = aborted
        \/ Slot(f)' = {} /\ aborted' = aborted \cup Op(f)
    BY <1>5 DEF Slot, Op
  <2>3. Held(f) \cap Op(f) = {}
    BY DEF PlaceInv, Apart
  <2> QED BY <1>6, <2>1, <2>2, <2>3 DEF Here
<1>8. Apart'
  <2>1. \A g \in Families : Held(g)' \cap Op(g)' = {} /\ Held(g)' \cap Slot(g)' = {}
    BY <1>6, <1>7 DEF PlaceInv, Apart
  <2>2. Op(f) \subseteq Here(f) /\ Here(f)' \subseteq Here(f) /\ Op(f) \cap Got = {}
    BY <1>7 DEF Here, PlaceInv, Apart
  <2>3. \A g, h \in Families : g # h => Here(g)' \cap Here(h)' = {}
    BY <1>6, <2>2 DEF PlaceInv, Apart
  <2>4. \A g \in Families : Here(g)' \cap Got' = {} /\ Here(g)' \cap aborted' = {}
    BY <1>6, <1>7, <2>2 DEF PlaceInv, Apart
  <2>5. Got' \cap aborted' = {}
    BY <1>6, <1>7, <2>2 DEF PlaceInv, Apart
  <2> QED BY <2>1, <2>3, <2>4, <2>5 DEF Apart
<1>9. Complete'
  <2>1. Op(f) \subseteq Here(f)
    BY DEF Here
  <2>2. Here(f)' \cup aborted' = Here(f) \cup aborted
    BY <1>7, <2>1
  <2>3. CASE f = "v4"
    BY <1>2, <1>6, <2>2, <2>3 DEF PlaceInv, Complete, Families
  <2>4. CASE f = "v6"
    BY <1>2, <1>6, <2>2, <2>4 DEF PlaceInv, Complete, Families
  <2> QED BY <2>3, <2>4 DEF Families
<1>10. InOrder'
  <2>1. \A g \in Families : /\ Here(g)' \subseteq Here(g)
                            /\ (Op(g) \cup Slot(g))' \subseteq Op(g) \cup Slot(g)
    BY <1>6, <1>7
  <2> QED BY <1>2, <1>6, <2>1 DEF PlaceInv, InOrder
<1> QED BY <1>8, <1>9, <1>10 DEF PlaceInv

LEMMA PlaceTake ==
  ASSUME ControlInv, PlaceInv, NEW f \in Families, AskFirst \/ AskOther, TakeFrom(f)
  PROVE  PlaceInv'
<1> DEFINE n == Len(accepted)
<1>1. /\ waiting[f] # 0 /\ waiting[f] \in Nat /\ acceptIn[f] = 0
      /\ accepted \in Seq([id : Nat, family : Families])
  BY DEF TakeFrom, ControlInv, HandInv, TypeOK
<1>2. /\ waiting'[f] = 0 /\ \A g \in Families \ {f} : waiting'[g] = waiting[g]
      /\ UNCHANGED <<backlog, acceptIn, aborted, arrived>>
  BY DEF AskFirst, AskOther, TakeFrom, HandOut, ControlInv, TypeOK
<1>3. /\ n \in Nat /\ Len(accepted') = n + 1
      /\ accepted'[n + 1] = [id |-> waiting[f], family |-> f]
      /\ \A i \in 1..n : accepted'[i] = accepted[i]
  <2>1. [id |-> waiting[f], family |-> f] \in [id : Nat, family : Families]
    BY <1>1
  <2>2. accepted' = Append(accepted, [id |-> waiting[f], family |-> f])
    BY DEF TakeFrom
  <2> QED BY <1>1, <2>1, <2>2, AppendProperties, LenProperties
<1>4. \A i \in 1..Len(accepted') : i \in 1..n \/ i = n + 1
  BY <1>3
<1>5. /\ Slot(f) = {waiting[f]} /\ Slot(f)' = {} /\ Op(f) = {} /\ Op(f)' = {}
      /\ \A g \in Families : Held(g)' = Held(g)
      /\ \A g \in Families \ {f} : Op(g)' = Op(g) /\ Slot(g)' = Slot(g) /\ Here(g)' = Here(g)
  BY <1>1, <1>2 DEF Slot, Op, Held, Here
<1>6. Here(f)' = Here(f) \ {waiting[f]} /\ waiting[f] \in Here(f)
  <2>1. waiting[f] \notin Held(f)
    BY <1>5 DEF PlaceInv, Apart
  <2> QED BY <1>5, <2>1 DEF Here
<1>7. Got' = Got \cup {waiting[f]} /\ waiting[f] \notin Got /\ waiting[f] \notin aborted
  <2>1. Got' = Got \cup {waiting[f]}
    <3>1. \A i \in 1..n : i \in 1..Len(accepted')
      BY <1>3
    <3>2. n + 1 \in 1..Len(accepted')
      BY <1>3
    <3> QED BY <1>3, <1>4, <3>1, <3>2 DEF Got
  <2> QED BY <1>6, <2>1 DEF PlaceInv, Apart
<1> HIDE DEF n
<1>8. Apart'
  <2>1. \A g \in Families : Held(g)' \cap Op(g)' = {} /\ Held(g)' \cap Slot(g)' = {}
    BY <1>5 DEF PlaceInv, Apart
  <2>2. \A g, h \in Families : g # h => Here(g)' \cap Here(h)' = {}
    BY <1>5, <1>6 DEF PlaceInv, Apart
  <2>3. \A g \in Families : g # f => waiting[f] \notin Here(g)
    BY <1>6 DEF PlaceInv, Apart
  <2>4. \A g \in Families : Here(g)' \cap Got' = {} /\ Here(g)' \cap aborted' = {}
    BY <1>2, <1>5, <1>6, <1>7, <2>3 DEF PlaceInv, Apart
  <2>5. Got' \cap aborted' = {}
    BY <1>2, <1>7 DEF PlaceInv, Apart
  <2> QED BY <2>1, <2>2, <2>4, <2>5 DEF Apart
<1>9. Complete'
  <2>1. Here(f)' \cup Got' = Here(f) \cup Got
    BY <1>6, <1>7
  <2>2. CASE f = "v4"
    BY <1>2, <1>5, <2>1, <2>2 DEF PlaceInv, Complete, Families
  <2>3. CASE f = "v6"
    BY <1>2, <1>5, <2>1, <2>3 DEF PlaceInv, Complete, Families
  <2> QED BY <2>2, <2>3 DEF Families
<1>10. InOrder'
  <2>1. \A g \in Families :
          /\ \A i, j \in 1..Len(backlog'[g]) : i < j => backlog'[g][i] < backlog'[g][j]
          /\ \A x \in (Op(g) \cup Slot(g))', y \in Held(g)' : x < y
    BY <1>2, <1>5 DEF PlaceInv, InOrder
  <2>2. ASSUME NEW g \in Families, NEW i \in 1..Len(accepted'), accepted'[i].family = g,
               NEW x \in Here(g)'
        PROVE  accepted'[i].id < x
    <3>1. CASE i \in 1..n
      BY <1>3, <1>5, <1>6, <2>2, <3>1 DEF PlaceInv, InOrder, n
    <3>2. CASE i = n + 1
      <4>1. g = f /\ accepted'[i].id = waiting[f]
        BY <1>3, <2>2, <3>2
      <4>2. x \in Held(f)
        BY <1>5, <2>2, <4>1 DEF Here
      <4> QED BY <1>5, <4>1, <4>2 DEF PlaceInv, InOrder
    <3> QED BY <1>4, <3>1, <3>2
  <2>3. ASSUME NEW i \in 1..Len(accepted'), NEW j \in 1..Len(accepted'), i < j
        PROVE  /\ accepted'[i].id # accepted'[j].id
               /\ accepted'[i].family = accepted'[j].family => accepted'[i].id < accepted'[j].id
    <3>1. i \in 1..n
      BY <1>3, <2>3
    <3>2. CASE j \in 1..n
      BY <1>3, <2>3, <3>1, <3>2 DEF PlaceInv, InOrder, n
    <3>3. CASE j = n + 1
      <4>1. accepted[i].id \in Got
        BY <3>1 DEF Got, n
      <4>2. accepted[i].family = f => accepted[i].id < waiting[f]
        BY <1>6, <3>1 DEF PlaceInv, InOrder, n
      <4> QED BY <1>3, <1>7, <3>1, <3>3, <4>1, <4>2
    <3> QED BY <1>4, <3>2, <3>3
  <2> QED BY <2>1, <2>2, <2>3 DEF InOrder
<1> QED BY <1>8, <1>9, <1>10 DEF PlaceInv

LEMMA PlaceDestroy ==
  ASSUME ControlInv, PlaceInv, Destroy
  PROVE  PlaceInv'
<1>1. /\ UNCHANGED <<acceptIn, accepted, arrived>>
      /\ \A g \in Families : waiting'[g] = 0 /\ backlog'[g] = <<>>
  BY DEF Destroy, callVars
<1>2. \A g \in Families : Held(g)' = {} /\ Slot(g)' = {} /\ Op(g)' = Op(g) /\ Here(g)' = Op(g)
  BY <1>1 DEF Held, Slot, Op, Here
<1>3. aborted' = aborted \cup (Held("v4") \cup Slot("v4")) \cup (Held("v6") \cup Slot("v6"))
  <2>1. \A g \in Families : {backlog[g][i] : i \in DOMAIN backlog[g]} = Held(g)
    <3>1. \A g \in Families : DOMAIN backlog[g] = 1..Len(backlog[g])
      BY LenProperties DEF ControlInv, TypeOK
    <3> QED BY <3>1 DEF Held
  <2>2. {waiting[g] : g \in {h \in Families : waiting[h] # 0}} = Slot("v4") \cup Slot("v6")
    BY DEF Slot, Families
  <2>3. UNION {{backlog[g][i] : i \in DOMAIN backlog[g]} : g \in Families} = Held("v4") \cup Held("v6")
    BY <2>1 DEF Families
  <2> QED BY <2>2, <2>3 DEF Destroy, callVars
<1>4. Got' = Got /\ \A g \in Families : Op(g) \subseteq Here(g)
  BY <1>1 DEF Got, Here
<1>5. /\ "v4" \in Families /\ "v6" \in Families
      /\ \A g \in Families : g = "v4" \/ g = "v6"
  BY DEF Families
<1>6. \A g, h \in Families : Op(g) \cap (Held(h) \cup Slot(h)) = {}
  <2>1. \A g \in Families : Op(g) \cap Slot(g) = {}
    BY DEF Op, Slot, ControlInv, HandInv
  <2> QED BY <2>1 DEF PlaceInv, Apart, Here
<1>7. Apart'
  <2>1. \A g, h \in Families : g # h => Here(g)' \cap Here(h)' = {}
    BY <1>2, <1>4 DEF PlaceInv, Apart
  <2>2. \A g \in Families : Here(g)' \cap Got' = {} /\ Here(g)' \cap aborted' = {}
    BY <1>2, <1>3, <1>4, <1>5, <1>6 DEF PlaceInv, Apart
  <2>3. Got' \cap aborted' = {}
    BY <1>3, <1>4, <1>5 DEF PlaceInv, Apart, Here
  <2> QED BY <1>2, <2>1, <2>2, <2>3 DEF Apart
<1>8. Complete'
  <2>1. Here("v4")' = Op("v4") /\ Here("v6")' = Op("v6")
    BY <1>2, <1>5
  <2> QED BY <1>1, <1>3, <1>4, <2>1 DEF PlaceInv, Complete, Here
<1>9. InOrder'
  <2>1. \A g \in Families : Here(g)' \subseteq Here(g) /\ Held(g)' = {} /\ Len(backlog'[g]) = 0
    BY <1>1, <1>2, <1>4
  <2> QED BY <1>1, <2>1 DEF PlaceInv, InOrder
<1> QED BY <1>7, <1>8, <1>9 DEF PlaceInv

(* Every connection that has arrived is in one place, in order: what       *)
(* TcpAcceptor's handler and accept preserve between them.                 *)
THEOREM PlacesAlways == Spec => []PlaceInv
<1>1. ControlInv /\ PlaceInv /\ [Next]_vars => PlaceInv'
  <2> SUFFICES ASSUME ControlInv, PlaceInv, [Next]_vars PROVE PlaceInv'
    OBVIOUS
  <2>1. CASE UNCHANGED vars
    BY <2>1, PlaceSame DEF vars, callVars
  <2>2. ASSUME NEW port \in Ports \cup {0}, Listen(port) PROVE PlaceInv'
    BY <2>2, PlaceSame DEF Listen, callVars
  <2>3. CASE AskFirst \/ AskOther
    <3>1. FirstToCheck \in Families /\ Other(FirstToCheck) \in Families
      BY DEF FirstToCheck, Other, Families
    <3>2. UNCHANGED <<acceptIn, backlog, aborted, arrived>>
      BY <2>3 DEF AskFirst, AskOther
    <3>3. CASE UNCHANGED <<accepted, waiting>>
      BY <3>2, <3>3, PlaceSame
    <3>4. ASSUME NEW f \in Families, TakeFrom(f) PROVE PlaceInv'
      BY <2>3, <3>4, PlaceTake
    <3> QED BY <2>3, <3>1, <3>3, <3>4 DEF AskFirst, AskOther
  <2> QED BY <2>1, <2>2, <2>3, PlaceDestroy, PlaceConnect, PlaceOsAccept, PlaceHandle DEF Next
<1> QED BY PlaceInit, <1>1, ControlAlways, PTL DEF Spec

(* Each connection is in exactly one place from its arrival on, and those  *)
(* of one family are handed out in their order: handleAccept and accept    *)
(* overwrite, lose or repeat none.                                         *)
THEOREM NothingLost == Spec => []NoneLost
<1>1. ControlInv /\ PlaceInv => NoneLost
  <2> SUFFICES ASSUME ControlInv, PlaceInv PROVE NoneLost
    OBVIOUS
  <2>1. /\ \A g \in Families : DOMAIN backlog[g] = 1..Len(backlog[g])
        /\ DOMAIN accepted = 1..Len(accepted)
    BY LenProperties DEF ControlInv, TypeOK
  <2>2. ASSUME NEW id \in 1..arrived PROVE \E p : Places(id) = {p}
    <3> DEFINE B == {<<"backlog", f>> : f \in {g \in Families : \E i \in DOMAIN backlog[g] : backlog[g][i] = id}}
               O == {<<"op", f>> : f \in {g \in Families : acceptIn[g] = id}}
               W == {<<"waiting", f>> : f \in {g \in Families : waiting[g] = id}}
               A == {<<"accepted", i>> : i \in {j \in DOMAIN accepted : accepted[j].id = id}}
               X == {<<"aborted", id>> : i \in aborted \cap {id}}
    <3>1. Places(id) = B \cup O \cup W \cup A \cup X
      BY DEF Places
    <3>2. /\ B = {<<"backlog", f>> : f \in {g \in Families : id \in Held(g)}}
          /\ O = {<<"op", f>> : f \in {g \in Families : id \in Op(g)}}
          /\ W = {<<"waiting", f>> : f \in {g \in Families : id \in Slot(g)}}
      <4>1. id # 0
        OBVIOUS
      <4>2. \A g \in Families : /\ (\E i \in DOMAIN backlog[g] : backlog[g][i] = id) <=> id \in Held(g)
                                /\ acceptIn[g] = id <=> id \in Op(g)
                                /\ waiting[g] = id <=> id \in Slot(g)
        BY <2>1, <4>1 DEF Held, Op, Slot
      <4> QED BY <4>2
    <3>3. (id \notin Got => A = {}) /\ (id \notin aborted => X = {})
      BY <2>1 DEF Got
    <3>4. id \in Got \/ id \in aborted \/ \E f \in Families : id \in Here(f)
      BY DEF PlaceInv, Complete, Families
    <3>5. ASSUME NEW f \in Families, id \in Here(f)
          PROVE  /\ A = {} /\ X = {}
                 /\ \A g \in Families : g # f => id \notin Held(g) \cup Op(g) \cup Slot(g)
      BY <3>3, <3>5 DEF PlaceInv, Apart, Here
    <3>6. ASSUME \A f \in Families : id \notin Here(f) PROVE B = {} /\ O = {} /\ W = {}
      BY <3>2, <3>6 DEF Here
    <3> HIDE DEF B, O, W, A, X
    <3>7. ASSUME NEW f \in Families, id \in Here(f) PROVE \E p : Places(id) = {p}
      <4>1. CASE id \in Held(f)
        <5>1. id \notin Op(f) /\ id \notin Slot(f)
          BY <4>1 DEF PlaceInv, Apart
        <5>2. B = {<<"backlog", f>>} /\ O = {} /\ W = {}
          BY <3>2, <3>5, <3>7, <4>1, <5>1
        <5> QED BY <3>1, <3>5, <3>7, <5>2
      <4>2. CASE id \in Op(f) /\ id \notin Held(f) /\ id \notin Slot(f)
        <5>1. B = {} /\ O = {<<"op", f>>} /\ W = {}
          BY <3>2, <3>5, <3>7, <4>2
        <5> QED BY <3>1, <3>5, <3>7, <5>1
      <4>3. CASE id \in Slot(f) /\ id \notin Held(f) /\ id \notin Op(f)
        <5>1. B = {} /\ O = {} /\ W = {<<"waiting", f>>}
          BY <3>2, <3>5, <3>7, <4>3
        <5> QED BY <3>1, <3>5, <3>7, <5>1
      <4>4. acceptIn[f] = 0 \/ waiting[f] = 0
        BY DEF ControlInv, HandInv
      <4>5. Op(f) = {} \/ Slot(f) = {}
        BY <4>4 DEF Op, Slot
      <4> QED BY <3>7, <4>1, <4>2, <4>3, <4>5 DEF Here
    <3>8. ASSUME id \in Got PROVE \E p : Places(id) = {p}
      <4>1. X = {} /\ B = {} /\ O = {} /\ W = {}
        BY <3>3, <3>6, <3>8 DEF PlaceInv, Apart
      <4>2. PICK j \in 1..Len(accepted) : accepted[j].id = id
        BY <3>8 DEF Got
      <4>3. \A k \in 1..Len(accepted) : accepted[k].id = id => k = j
        BY <4>2 DEF PlaceInv, InOrder
      <4>4. A = {<<"accepted", j>>}
        BY <2>1, <4>2, <4>3 DEF A
      <4> QED BY <3>1, <4>1, <4>4
    <3>9. ASSUME id \in aborted PROVE \E p : Places(id) = {p}
      <4>1. A = {} /\ B = {} /\ O = {} /\ W = {}
        BY <3>3, <3>6, <3>9 DEF PlaceInv, Apart
      <4>2. X = {<<"aborted", id>>}
        BY <3>9 DEF X
      <4> QED BY <3>1, <4>1, <4>2
    <3> QED BY <3>4, <3>7, <3>8, <3>9
  <2>3. \A id \in 1..arrived : Cardinality(Places(id)) = 1
    BY <2>2, FS_Singleton
  <2> QED BY <2>1, <2>3 DEF NoneLost, PlaceInv, InOrder
<1> QED BY ControlAlways, PlacesAlways, <1>1, PTL
=============================================================================
