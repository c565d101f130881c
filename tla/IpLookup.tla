------------------------------ MODULE IpLookup -----------------------------
(***************************************************************************)
(* faucet/IpLookup.cpp: a lookup of a host name, polled by the client      *)
(* (ready, hasNext, nextResult) while the io_service thread completes it.  *)
(*                                                                         *)
(* Each method and the handler run under commonMutex_ and are atomic.  The *)
(* addresses found are known by their place in the list; all that matters  *)
(* of one is whether it can be printed.                                    *)
(***************************************************************************)
EXTENDS Integers, Sequences, FiniteSets

CONSTANTS
  ResolveResults,   \* what a name may resolve to: lists of printable or not
  LiteralFits,      \* what a literal of the wanted and of the other family gives
  MaxCalls          \* bound: calls of nextResult

ASSUME LookupAssumption ==
  /\ ResolveResults \subseteq Seq(BOOLEAN) /\ LiteralFits \subseteq Seq(BOOLEAN)
  /\ MaxCalls \in Nat

VARIABLES
  handle,           \* the client's reference, through the handle map
  resolveOp,
  list, result,     \* result_: a place in list, 0 for the end iterator
  next,             \* next_: the place of the address, 0 for ""
  lookupComplete,
  results,          \* history: what nextResult has returned
  calls             \* history: its calls

vars == <<handle, resolveOp, list, result, next, lookupComplete, results, calls>>
----------------------------------------------------------------------------
From(l, k) == IF k < Len(l) THEN k + 1 ELSE 0      \* ++ on the iterator

(* loadNext() with result_ at place r of list l: the address there, if it  *)
(* can be printed, otherwise the end.                                      *)
LoadNextStaying(l, r) ==
  /\ next' = IF r # 0 /\ l[r] THEN r ELSE 0
  /\ result' = r
LoadNext(l, r) ==
  /\ next' = IF r # 0 /\ l[r] THEN r ELSE 0
  /\ result' = IF r # 0 /\ l[r] THEN From(l, r) ELSE 0

LoadFirst(l) == LoadNext(l, From(l, 0))

(* lookup() with a literal address, which completes at once, and with a    *)
(* name.                                                                   *)
LookupLiteral ==
  /\ handle = "none" /\ handle' = "held"
  /\ list' \in LiteralFits
  /\ lookupComplete' = TRUE
  /\ LoadFirst(list')
  /\ UNCHANGED <<resolveOp, results, calls>>

LookupName ==
  /\ handle = "none" /\ handle' = "held"
  /\ resolveOp' = "pending"
  /\ UNCHANGED <<list, result, next, lookupComplete, results, calls>>

OsResolve ==
  /\ resolveOp = "pending"
  /\ \/ resolveOp' = "done" /\ list' \in ResolveResults
     \/ resolveOp' = "failed" /\ UNCHANGED list
  /\ UNCHANGED <<handle, result, next, lookupComplete, results, calls>>

(* The handler holds a reference to the object, so that it runs also after *)
(* ip_lookup_destroy.                                                      *)
CompleteIfFound == lookupComplete' = (resolveOp = "done")
Complete == lookupComplete' = TRUE

HandleResolve ==
  /\ resolveOp \in {"done", "failed"}
  /\ resolveOp' = "idle"
  /\ Complete
  /\ \/ resolveOp = "done" /\ LoadFirst(list)
     \/ resolveOp = "failed" /\ UNCHANGED <<result, next>>
  /\ UNCHANGED <<handle, list, results, calls>>

(* nextResult(), whenever the client likes: before the lookup is complete, *)
(* and behind the last result, it returns "".                              *)
NextResult ==
  /\ handle = "held" /\ calls < MaxCalls
  /\ calls' = calls + 1
  /\ results' = IF next = 0 THEN results ELSE Append(results, next)
  /\ LoadNext(list, result)
  /\ UNCHANGED <<handle, resolveOp, list, lookupComplete>>

Destroy ==
  /\ handle = "held" /\ handle' = "released"
  /\ UNCHANGED <<resolveOp, list, result, next, lookupComplete, results, calls>>
----------------------------------------------------------------------------
Init ==
  /\ handle = "none" /\ resolveOp = "idle" /\ list = <<>> /\ result = 0
  /\ next = 0 /\ lookupComplete = FALSE /\ results = <<>> /\ calls = 0

Next ==
  LookupLiteral \/ LookupName \/ OsResolve \/ HandleResolve \/ NextResult \/ Destroy

(* The OS ends every lookup and the io_service thread runs the handler.    *)
Fairness == WF_vars(OsResolve) /\ WF_vars(HandleResolve)

Spec == Init /\ [][Next]_vars
FairSpec == Spec /\ Fairness
----------------------------------------------------------------------------
(* Once complete, what nextResult has returned and what hasNext announces  *)
(* are the addresses in the resolver's order, each once, and when nothing  *)
(* is announced any more all were returned, up to the first that cannot be *)
(* printed.                                                                *)
ResultsInOrder ==
  lookupComplete =>
    LET got == IF next = 0 THEN results ELSE Append(results, next)
        n == Len(got)
    IN  /\ got = [i \in 1..n |-> i]
        /\ next = 0 => n = Len(list) \/ ~list[n + 1]

(* ready() becomes true, also when the name cannot be resolved.            *)
BecomesReady == handle = "held" ~> lookupComplete
=============================================================================
