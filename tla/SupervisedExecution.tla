------------------------ MODULE SupervisedExecution -------------------------
(***************************************************************************)
(* What the runtime promises about running tools, without how it gets      *)
(* there: a bounded number of requests are served at a time; a tool runs   *)
(* only under an approval; the policy in force gives a request its         *)
(* approvals, a user's answer gives a confirmation its own, for a call the *)
(* policy does not deny; an approval is used at most once.                 *)
(***************************************************************************)
EXTENDS PolicyEngine, Sequences, FiniteSets

CONSTANTS Request, Confirm, MaxConcurrent

VARIABLES
  serving,   \* the requests being served
  grants,    \* the tools that hold a session grant
  approved,  \* the approval each actor holds: at most one call
  ran        \* the calls each actor has run

vars == <<serving, grants, approved, ran>>

Actor == Request \cup Confirm

Init ==
  /\ serving = {}
  /\ grants = {}
  /\ approved = [a \in Actor |-> {}]
  /\ ran = [a \in Actor |-> <<>>]

Begin(r) ==
  /\ r \notin serving
  /\ Cardinality(serving) < MaxConcurrent
  /\ serving' = serving \cup {r}
  /\ UNCHANGED <<grants, approved, ran>>

\* Whatever way a request ends, an approval it holds ends with it.
End(r) ==
  /\ r \in serving
  /\ serving' = serving \ {r}
  /\ approved' = [approved EXCEPT ![r] = {}]
  /\ UNCHANGED <<grants, ran>>

ApprovedByPolicy(r, call) ==
  /\ r \in serving
  /\ approved[r] = {}
  /\ call.tool \in Registered /\ Decide(call, grants) = "allow"
  /\ approved' = [approved EXCEPT ![r] = {call}]
  /\ UNCHANGED <<serving, grants, ran>>

\* A confirmation is good for one run of one call.
ApprovedByUser(c, call) ==
  /\ approved[c] = {} /\ ran[c] = <<>>
  /\ call.tool \in Registered /\ ~AlwaysDenied(call)
  /\ approved' = [approved EXCEPT ![c] = {call}]
  /\ UNCHANGED <<serving, grants, ran>>

Run(a) ==
  \E call \in approved[a] :
    /\ ran' = [ran EXCEPT ![a] = Append(@, call)]
    /\ approved' = [approved EXCEPT ![a] = {}]
    /\ UNCHANGED <<serving, grants>>

\* A confirmation that fails gives its approval up.
Withdraw(c) ==
  /\ approved' = [approved EXCEPT ![c] = {}]
  /\ UNCHANGED <<serving, grants, ran>>

Grant(tool) ==
  /\ grants' = grants \cup {tool}
  /\ UNCHANGED <<serving, approved, ran>>

ClearGrants ==
  /\ grants' = {}
  /\ UNCHANGED <<serving, approved, ran>>

Restart ==
  /\ serving' = {}
  /\ grants' = {}
  /\ approved' = [a \in Actor |-> {}]
  /\ UNCHANGED ran

Next ==
  \/ \E r \in Request :
       Begin(r) \/ End(r) \/ \E call \in Call : ApprovedByPolicy(r, call)
  \/ \E c \in Confirm :
       Withdraw(c) \/ \E call \in Call : ApprovedByUser(c, call)
  \/ \E a \in Actor : Run(a)
  \/ \E call \in Call : Grant(call.tool)
  \/ ClearGrants
  \/ Restart

Spec == Init /\ [][Next]_vars
=============================================================================
