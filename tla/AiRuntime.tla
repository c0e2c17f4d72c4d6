----------------------------- MODULE AiRuntime ------------------------------
(***************************************************************************)
(* The request orchestrator of the SaaiOS runtime (crates/ai-runtime):     *)
(* concurrent user requests that hold a slot, call the model, put every    *)
(* proposed tool call to the policy engine and run what it allows;         *)
(* confirmations of pending calls, which run beside the requests; the      *)
(* session grants, chat sessions and audit trail they share; a restart of  *)
(* the process.                                                            *)
(*                                                                         *)
(* Grain of atomicity.  Appending to the audit log is folded into the      *)
(* action it precedes: no handler reads the log back, so an append         *)
(* commutes with every step of another actor.  The log is kept per actor   *)
(* (a request's, or a confirmation's, own records in file order).  Steps   *)
(* that touch permits, grants or chats are actions of their own.           *)
(***************************************************************************)
EXTENDS PolicyEngine, Conversation

CONSTANTS
  Request,       \* user requests, one per correlation_id
  Confirm,       \* Confirm operations of clients
  Session,       \* chat sessions
  NoSession,     \* a Confirm that names no session
  NoCall,        \* the call of a record that is not about one
  Reply,         \* the answers the model may give
  MaxConcurrent, \* ResourceBudgets::max_concurrent_requests, after max(1)
  MaxToolIters,  \* ResourceBudgets::max_tool_iters
  Yielding,      \* tools that sleep between samples; the others run (commands,
                 \* files, kill) inside one poll and hold its thread
  PidModulus,    \* 2^32: the kill tool narrows the u64 pid to u32
  OwnPid         \* the runtime's own pid

Actor == Request \cup Confirm

ASSUME ActorAssumption ==
  /\ Request \cap Confirm = {}
  /\ NoSession \notin Session
  /\ NoCall \notin Call

ASSUME BudgetAssumption ==
  /\ MaxConcurrent \in Nat \ {0}
  /\ MaxToolIters \in Nat
  /\ PidModulus \in Nat \ {0}
  /\ OwnPid \in Nat

ASSUME ReplyAssumption == Reply \subseteq [text : BOOLEAN, calls : Seq(Call)]

VARIABLES
  permits,  \* free permits of request_slots
  grants,   \* PolicyEngine::session_allows
  chats,    \* ConversationStore: session -> messages (<<>> when absent)
  pc,       \* where each actor is
  session,  \* the session each actor works in
  todo,     \* calls of the current reply not dealt with yet
  turn,     \* `messages` without the system prompt
  iter,     \* model iterations a request has made
  cause,    \* last_causation: index in the actor's own trail
  trail,    \* audit records of each actor
  ran       \* calls each actor's tools have carried out (history)

vars == <<permits, grants, chats, pc, session, todo, turn, iter, cause,
          trail, ran>>

-----------------------------------------------------------------------------
(* Control states *)

Working == {"accept", "model", "propose", "decide", "denied", "ask", "execute",
            "running", "blocked", "result", "complete", "persist_ok",
            "persist_pending"}
Confirming == {"check", "execute", "running", "blocked", "result",
               "append_result", "append_cancelled"}
Ended == {"ok", "pending", "busy", "error", "timeout", "lost"}

\* The steps whose failure (`?`) ends the handler with an error.
Fallible == {"accept", "model", "propose", "decide", "denied", "ask",
             "execute", "running", "blocked", "result", "complete"}

\* Mutant: the timer also interrupts a tool that has returned.
SuspendedUntilRecorded == {"model", "running", "result"}

\* Mutant: a hung model call is not interrupted.
SuspendedInToolsOnly == {"running"}

\* Where a request's handler is suspended for long: it waits for the model, or
\* for a tool that sleeps.  Everything else runs from one poll to the next, a
\* "blocked" handler's tool included, which nothing can interrupt.
Suspended == {"model", "running"}

InFlight(r) == pc[r] \in Working
Current(a) == Head(todo[a])

AuditRecord == [kind : {"user_request", "assistant_message", "tool_call",
                        "policy_decision", "confirmation_request",
                        "tool_result", "diagnose_result",
                        "confirmation_response"},
                call : Call \cup {NoCall},
                note : {"", "allow", "deny", "ask_user", "denied", "ran",
                        "once", "session", "cancel"},
                cause : Nat]

-----------------------------------------------------------------------------
(* Helpers *)

Log(a, kind, call, note) ==
  trail' = [trail EXCEPT ![a] =
              Append(@, [kind |-> kind, call |-> call, note |-> note,
                         cause |-> cause[a]])]

\* Mutant: the cause stays one record behind.
CauseOneBehind(a) == cause' = [cause EXCEPT ![a] = Len(trail[a])]

\* The record being appended becomes the cause of the next one.
BecomesCause(a) == cause' = [cause EXCEPT ![a] = Len(trail[a]) + 1]

Goto(a, where) == pc' = [pc EXCEPT ![a] = where]

\* Mutant: an exit path forgets the permit.
LeaveKeepingPermit(r, how) == permits' = permits /\ Goto(r, how)

\* The handler returns and its permit is dropped.
Leave(r, how) == permits' = permits + 1 /\ Goto(r, how)

Fail(a) ==
  IF a \in Request THEN Leave(a, "error")
  ELSE permits' = permits /\ Goto(a, "error")

Push(a, kind) ==
  turn' = [turn EXCEPT ![a] = Append(@, [kind |-> kind, by |-> a])]

\* Mutant: the budget is passed by one reply.
LoopHeadOneMore(i) == IF i <= MaxToolIters THEN "model" ELSE "complete"

LoopHead(i) == IF i < MaxToolIters THEN "model" ELSE "complete"

\* Mutant: the last call of a reply is taken for one more to come.
NextCallOneTooMany(r) ==
  /\ todo' = [todo EXCEPT ![r] = Tail(@)]
  /\ Goto(r, IF Len(todo[r]) >= 1 THEN "propose" ELSE LoopHead(iter[r]))

\* On to the next call of the reply, or back to the head of the model loop.
NextCall(r) ==
  /\ todo' = [todo EXCEPT ![r] = Tail(@)]
  /\ Goto(r, IF Len(todo[r]) > 1 THEN "propose" ELSE LoopHead(iter[r]))

\* The u32 pid KillRequestTool passes on; real_kill refuses init and itself.
KillTarget(call) == call.pid % PidModulus

ToolAccepts(call) ==
  /\ call.tool \in Registered
  /\ call.tool = "process.kill_request" =>
       KillTarget(call) > 1 /\ KillTarget(call) # OwnPid

-----------------------------------------------------------------------------
(* Requests: handle_user_text_in_session *)

Init ==
  /\ permits = MaxConcurrent
  /\ grants = {}
  /\ chats = [s \in Session |-> <<>>]
  /\ pc = [a \in Actor |-> "idle"]
  /\ session = [a \in Actor |-> NoSession]
  /\ todo = [a \in Actor |-> <<>>]
  /\ turn = [r \in Request |-> <<>>]
  /\ iter = [r \in Request |-> 0]
  /\ cause = [a \in Actor |-> 0]
  /\ trail = [a \in Actor |-> <<>>]
  /\ ran = [a \in Actor |-> <<>>]

\* acquire_slot succeeds.
Admit(r, s) ==
  /\ pc[r] = "idle"
  /\ permits > 0
  /\ permits' = permits - 1
  /\ session' = [session EXCEPT ![r] = s]
  /\ Goto(r, "accept")
  /\ UNCHANGED <<grants, chats, todo, turn, iter, cause, trail, ran>>

\* acquire_slot fails at once: there is no queue.
Refuse(r) ==
  /\ pc[r] = "idle"
  /\ permits = 0
  /\ Goto(r, "busy")
  /\ UNCHANGED <<permits, grants, chats, session, todo, turn, iter, cause,
                 trail, ran>>

\* Mutant: the history is not read, as for a request without a session.
AcceptAlone(r) ==
  /\ pc[r] = "accept"
  /\ Log(r, "user_request", NoCall, "")
  /\ BecomesCause(r)
  /\ turn' = [turn EXCEPT ![r] = <<[kind |-> "user", by |-> r]>>]
  /\ Goto(r, LoopHead(0))
  /\ UNCHANGED <<permits, grants, chats, session, todo, iter, ran>>

\* The request is audited and the session's history is read, once.
Accept(r) ==
  /\ pc[r] = "accept"
  /\ Log(r, "user_request", NoCall, "")
  /\ BecomesCause(r)
  /\ turn' = [turn EXCEPT ![r] =
                Append(chats[session[r]], [kind |-> "user", by |-> r])]
  /\ Goto(r, LoopHead(0))
  /\ UNCHANGED <<permits, grants, chats, session, todo, iter, ran>>

\* complete_with_progress returns; the text, if any, is audited.
ModelReply(r, reply) ==
  /\ pc[r] = "model"
  /\ iter' = [iter EXCEPT ![r] = @ + 1]
  /\ todo' = [todo EXCEPT ![r] = reply.calls]
  /\ Goto(r, IF reply.calls = <<>> THEN "complete" ELSE "propose")
  /\ \/ /\ reply.text
        /\ Log(r, "assistant_message", NoCall, "")
        /\ BecomesCause(r)
        /\ Push(r, "assistant")
     \/ ~reply.text /\ UNCHANGED <<trail, cause, turn>>
  /\ UNCHANGED <<permits, grants, chats, session, ran>>

ProposeCall(r) ==
  /\ pc[r] = "propose"
  /\ Log(r, "tool_call", Current(r), "")
  /\ BecomesCause(r)
  /\ Goto(r, "decide")
  /\ UNCHANGED <<permits, grants, chats, session, todo, turn, iter, ran>>

\* The verdict on a proposed call: unknown tools are denied here, everything
\* the runtime's own copy of the guards denies the policy engine denies too.
Verdict(call) ==
  IF call.tool \in Registered THEN Decide(call, grants) ELSE "deny"

DecideCall(r) ==
  /\ pc[r] = "decide"
  /\ Log(r, "policy_decision", Current(r), Verdict(Current(r)))
  /\ BecomesCause(r)
  /\ Goto(r, CASE Verdict(Current(r)) = "deny"     -> "denied"
               [] Verdict(Current(r)) = "ask_user" -> "ask"
               [] Verdict(Current(r)) = "allow"    -> "execute")
  /\ UNCHANGED <<permits, grants, chats, session, todo, turn, iter, ran>>

\* A denied call gets a failed ToolResult; last_causation stays the decision.
RecordDenial(r) ==
  /\ pc[r] = "denied"
  /\ Log(r, "tool_result", Current(r), "denied")
  /\ Push(r, "denied")
  /\ NextCall(r)
  /\ UNCHANGED <<permits, grants, chats, session, iter, cause, ran>>

\* Mutant: the loop goes on to the next call instead of returning.
AskUserGoesOn(r) ==
  /\ pc[r] = "ask"
  /\ Log(r, "confirmation_request", Current(r), "")
  /\ NextCall(r)
  /\ UNCHANGED <<permits, grants, chats, session, turn, iter, cause, ran>>

\* A call that needs the user ends the request; the reply's other calls are
\* dropped and no DiagnoseResult is audited.
AskUser(r) ==
  /\ pc[r] = "ask"
  /\ Log(r, "confirmation_request", Current(r), "")
  /\ Goto(r, "persist_pending")
  /\ UNCHANGED <<permits, grants, chats, session, todo, turn, iter, cause, ran>>

RecordResult(r) ==
  /\ pc[r] = "result"
  /\ Log(r, "tool_result", Current(r), "ran")
  /\ BecomesCause(r)
  /\ Push(r, "result")
  /\ NextCall(r)
  /\ UNCHANGED <<permits, grants, chats, session, iter, ran>>

\* Mutant: the slot is given back before the history is saved.
CompleteReleases(r) ==
  /\ pc[r] = "complete"
  /\ Log(r, "diagnose_result", NoCall, "")
  /\ Goto(r, "persist_ok")
  /\ permits' = permits + 1
  /\ UNCHANGED <<grants, chats, session, todo, turn, iter, cause, ran>>

Complete(r) ==
  /\ pc[r] = "complete"
  /\ Log(r, "diagnose_result", NoCall, "")
  /\ Goto(r, "persist_ok")
  /\ UNCHANGED <<permits, grants, chats, session, todo, turn, iter, cause, ran>>

\* persist_history replaces the stored session; the permit is then dropped.
Persist(r) ==
  /\ pc[r] \in {"persist_ok", "persist_pending"}
  /\ chats' = [chats EXCEPT ![session[r]] = Trimmed(turn[r])]
  /\ Leave(r, IF pc[r] = "persist_ok" THEN "ok" ELSE "pending")
  /\ UNCHANGED <<grants, session, todo, turn, iter, cause, trail, ran>>

\* Mutant: what a timed-out request has so far is saved.
TimeoutPersists(r) ==
  /\ pc[r] \in Suspended
  /\ chats' = [chats EXCEPT ![session[r]] = Trimmed(turn[r])]
  /\ Leave(r, "timeout")
  /\ UNCHANGED <<grants, session, todo, turn, iter, cause, trail, ran>>

\* tokio::time::timeout drops the handler where it is suspended.
Timeout(r) ==
  /\ pc[r] \in Suspended
  /\ Leave(r, "timeout")
  /\ UNCHANGED <<grants, chats, session, todo, turn, iter, cause, trail, ran>>

-----------------------------------------------------------------------------
(* Steps of a request and of a confirmation alike *)

\* ToolRegistry::execute starts the tool.
StartTool(a) ==
  /\ pc[a] = "execute"
  /\ ToolAccepts(Current(a))
  /\ ran' = [ran EXCEPT ![a] = Append(@, Current(a))]
  /\ Goto(a, IF Current(a).tool \in Yielding THEN "running" ELSE "blocked")
  /\ UNCHANGED <<permits, grants, chats, session, todo, turn, iter, cause,
                 trail>>

\* The tool returns an error before it has done anything.
ToolRefuses(a) ==
  /\ pc[a] = "execute"
  /\ ~ToolAccepts(Current(a))
  /\ Fail(a)
  /\ UNCHANGED <<grants, chats, session, todo, turn, iter, cause, trail, ran>>

\* A tool that slept is polled to its end, or one that blocks returns.
FinishTool(a) ==
  /\ pc[a] \in {"running", "blocked"}
  /\ Goto(a, "result")
  /\ UNCHANGED <<permits, grants, chats, session, todo, turn, iter, cause,
                 trail, ran>>

\* An audit append, the model or the tool fails, and `?` ends the handler.
Abort(a) ==
  /\ \/ pc[a] \in Fallible
     \/ a \in Confirm /\ pc[a] = "idle"
  /\ Fail(a)
  /\ UNCHANGED <<grants, chats, session, todo, turn, iter, cause, trail, ran>>

-----------------------------------------------------------------------------
(* Confirmations: confirm_in_session, under no slot and no timeout *)

\* Mutant: any confirmation records a grant.
GrantsAfterAnyYes(call, scope) ==
  IF scope # "cancel" THEN grants \cup {call.tool} ELSE grants

GrantsAfter(call, scope) ==
  IF scope = "session" THEN grants \cup {call.tool} ELSE grants

\* The answer is audited and, with scope session, the grant recorded, before
\* anything is known of the tool.  The record's call stands for its call_id.
Respond(c, call, scope, s) ==
  /\ pc[c] = "idle"
  /\ Log(c, "confirmation_response", call, scope)
  /\ BecomesCause(c)
  /\ todo' = [todo EXCEPT ![c] = <<call>>]
  /\ session' = [session EXCEPT ![c] = s]
  /\ grants' = GrantsAfter(call, scope)
  /\ Goto(c, IF scope = "cancel" THEN "append_cancelled" ELSE "check")
  /\ UNCHANGED <<permits, chats, turn, iter, ran>>

\* Mutant: a confirmation is the last word on a registered tool.
RunnableIfKnown(call) == call.tool \in Registered

Runnable(call) == Verdict(call) # "deny"

\* The tool is looked up and the policy asked again: a confirmation settles
\* "ask_user", it does not override "deny".
Check(c) ==
  /\ pc[c] = "check"
  /\ Goto(c, IF Runnable(Current(c)) THEN "execute" ELSE "error")
  /\ UNCHANGED <<permits, grants, chats, session, todo, turn, iter, cause,
                 trail, ran>>

ConfirmedResult(c) ==
  /\ pc[c] = "result"
  /\ Log(c, "tool_result", Current(c), "ran")
  /\ Goto(c, "append_result")
  /\ UNCHANGED <<permits, grants, chats, session, todo, turn, iter, cause, ran>>

\* Mutant: a cancelled call is reported like one that ran.
ToldResult(c) == "result"

\* What the session is told of the outcome.
Told(c) == IF pc[c] = "append_result" THEN "result" ELSE "cancelled"

\* ConversationStore::append, when the client named a session.
AppendOutcome(c) ==
  /\ pc[c] \in {"append_result", "append_cancelled"}
  /\ chats' = IF session[c] = NoSession THEN chats
              ELSE [chats EXCEPT ![session[c]] =
                      Trimmed(Append(@, [kind |-> Told(c), by |-> c]))]
  /\ Goto(c, "ok")
  /\ UNCHANGED <<permits, grants, session, todo, turn, iter, cause, trail, ran>>

-----------------------------------------------------------------------------
(* Other operations, and a restart of the process *)

ChatReset(s) ==
  /\ chats' = [chats EXCEPT ![s] = <<>>]
  /\ UNCHANGED <<permits, grants, pc, session, todo, turn, iter, cause, trail,
                 ran>>

ClearGrants ==
  /\ grants' = {}
  /\ UNCHANGED <<permits, chats, pc, session, todo, turn, iter, cause, trail,
                 ran>>

\* A crash loses everything but the audit log; handlers in flight are gone.
Restart ==
  /\ permits' = MaxConcurrent
  /\ grants' = {}
  /\ chats' = [s \in Session |-> <<>>]
  /\ pc' = [a \in Actor |->
              IF pc[a] \in Ended \cup {"idle"} THEN pc[a] ELSE "lost"]
  /\ UNCHANGED <<session, todo, turn, iter, cause, trail, ran>>

-----------------------------------------------------------------------------
(* The specification *)

\* What a request does without waiting for anyone.
RequestStep(r) ==
  \/ Accept(r)
  \/ ProposeCall(r)
  \/ DecideCall(r)
  \/ RecordDenial(r)
  \/ AskUser(r)
  \/ StartTool(r)
  \/ ToolRefuses(r)
  \/ RecordResult(r)
  \/ Complete(r)
  \/ Persist(r)

ConfirmStep(c) ==
  \/ Check(c)
  \/ StartTool(c)
  \/ ToolRefuses(c)
  \/ FinishTool(c)
  \/ ConfirmedResult(c)
  \/ AppendOutcome(c)
  \/ Abort(c)

Next ==
  \/ \E r \in Request :
       \/ \E s \in Session : Admit(r, s)
       \/ Refuse(r)
       \/ \E reply \in Reply : ModelReply(r, reply)
       \/ FinishTool(r)
       \/ Timeout(r)
       \/ Abort(r)
       \/ RequestStep(r)
  \/ \E c \in Confirm :
       \/ \E call \in Call, scope \in {"once", "session", "cancel"},
             s \in Session \cup {NoSession} : Respond(c, call, scope, s)
       \/ ConfirmStep(c)
  \/ \E s \in Session : ChatReset(s)
  \/ ClearGrants
  \/ Restart

Spec == Init /\ [][Next]_vars

\* The scheduler polls a handler that is ready, and the timer fires.  Nothing
\* is assumed of the model, of the clients or of the tools: one that blocks may
\* never return (ToolSpec::timeout_ms is enforced nowhere).
FairSpec ==
  Spec /\ \A r \in Request : WF_vars(RequestStep(r)) /\ WF_vars(Timeout(r))
=============================================================================
