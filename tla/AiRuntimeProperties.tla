------------------------ MODULE AiRuntimeProperties -------------------------
(***************************************************************************)
(* What makes the request orchestrator correct.                            *)
(***************************************************************************)
EXTENDS AiRuntime

Message == [kind : MessageKind, by : Actor]

\* Control states in which a handler has a call in hand.
WithCall == {"propose", "decide", "denied", "ask", "check", "execute",
             "running", "blocked", "result", "append_result",
             "append_cancelled"}

\* Control: every actor is at a place of its own kind of handler, works in a
\* session once it has started, and has a call in hand when it deals with one.
ControlOK ==
  /\ permits \in Nat
  /\ pc \in [Actor -> {"idle"} \cup Working \cup Confirming \cup Ended]
  /\ \A r \in Request : pc[r] \in {"idle"} \cup Working \cup Ended
  /\ \A c \in Confirm : pc[c] \in {"idle"} \cup Confirming \cup Ended
  /\ session \in [Actor -> Session \cup {NoSession}]
  /\ \A r \in Request : InFlight(r) => session[r] \in Session
  /\ todo \in [Actor -> Seq(Call)]
  /\ \A a \in Actor : pc[a] \in WithCall => todo[a] # <<>>

\* Data: what is stored, audited and carried out.
DataOK ==
  /\ grants \subseteq STRING
  /\ chats \in [Session -> Seq(Message)]
  /\ turn \in [Request -> Seq(Message)]
  /\ iter \in [Request -> Nat]
  /\ cause \in [Actor -> Nat]
  /\ trail \in [Actor -> Seq(AuditRecord)]
  /\ ran \in [Actor -> Seq(Call)]

\* Every variable keeps its type, in control and in data.
TypeOK == ControlOK /\ DataOK

-----------------------------------------------------------------------------
(* Slots *)

\* The requests in flight.
Serving == {r \in Request : InFlight(r)}

\* A permit is either free or held by exactly one request in flight: every way
\* out of handle_user_text_in_session (answer, pending confirmation, error,
\* timeout, restart) gives it back, and none gives it back twice.
SlotsConserved == permits + Cardinality(Serving) = MaxConcurrent

\* A tool that blocks its thread never returns.
Hangs(a) == <>[](pc[a] = "blocked")

\* An admitted request ends, even when the model never answers or a tool sleeps
\* for ever: the timer covers every place where the handler lets go of its
\* thread.  The exception is a tool that hangs without letting go: its request
\* never ends, and with every thread held so the others need not either.
AdmittedEnds ==
  \/ \A r \in Request : InFlight(r) ~> pc[r] \in Ended
  \/ \E a \in Actor : Hangs(a)

\* "AI runtime enforces: request timeout" (docs/platform-0.2.md:22-27): whatever
\* a request is doing, it comes to its end.
RequestTimeoutEnforced ==
  \A r \in Request : InFlight(r) ~> pc[r] \in Ended

\* Steps a handler can still take for the call, or the reply, it deals with.
StepsLeft(where) ==
  CASE where = "accept" -> 5
    [] where = "propose" -> 4
    [] where = "decide" -> 3
    [] where \in {"execute", "ask", "complete"} -> 2
    [] where \in {"running", "blocked"} -> 1
    [] OTHER -> 0

\* A reply more of the budgeted ones, or a call less of the reply, or a step
\* less for the call.
ComesCloser(r) ==
  \/ iter'[r] > iter[r] /\ iter'[r] <= MaxToolIters
  \/ iter'[r] = iter[r] /\ Len(todo'[r]) < Len(todo[r])
  \/ /\ iter'[r] = iter[r] /\ todo'[r] = todo[r]
     /\ StepsLeft(pc'[r]) < StepsLeft(pc[r])

\* A handler never goes round in circles, whatever the model proposes and the
\* policy says of it: each step of a request in flight ends it or brings it
\* closer to its end, so that only a wait for the model or a tool is unbounded.
NoStepWasted ==
  [][\A r \in Request :
       InFlight(r) /\ <<pc[r], iter[r], todo[r], trail[r], ran[r]>>' #
                      <<pc[r], iter[r], todo[r], trail[r], ran[r]>>
         => pc'[r] \in Ended \/ ComesCloser(r)]_vars

-----------------------------------------------------------------------------
(* Authority *)

\* What the user has answered with scope session, on record.
Answered(c, scope) ==
  trail[c] # <<>> /\ trail[c][1].note = scope

\* Calls the policy denies outright never run: not under a session grant
\* given for the same tool, not after a confirmation.
DeniedNeverRuns ==
  \A a \in Actor : \A i \in DOMAIN ran[a] : ~AlwaysDenied(ran[a][i])

SessionYes(tool) ==
  \E c \in Confirm : Answered(c, "session") /\ trail[c][1].call.tool = tool

\* The user's word behind a run of `call` by `a`, where one is needed.
Authorised(a, call) ==
  NeedsConfirmation(call.tool) =>
    IF a \in Request THEN SessionYes(call.tool)
    ELSE /\ Answered(a, "once") \/ Answered(a, "session")
         /\ trail[a][1].call = call

\* A tool that needs confirmation runs for a request only if some user's
\* session-wide yes to that tool is on record, and for a confirmation only if
\* its own yes is, given with that call.  (The record holds the call's id, not
\* its arguments, and a yes stays on record after the grant was cleared.)
RunsAreAuthorised ==
  \A a \in Actor : \A i \in DOMAIN ran[a] : Authorised(a, ran[a][i])

\* Every grant in force goes back to a session-wide yes on record.
GrantsAnswered == \A tool \in grants : SessionYes(tool)

\* A confirmation is answered once.
Unanswered == \A c \in Confirm : pc[c] = "idle" => trail[c] = <<>>

\* Past its answer, a confirmation works on the call it was answered for.
OwnCall ==
  \A c \in Confirm : pc[c] \in {"check", "execute"} =>
    /\ Answered(c, "once") \/ Answered(c, "session")
    /\ trail[c][1].call = Current(c)

\* A call about to run has passed the policy and has the user's word where it
\* needs one; so had every call that ran.
Cleared(a, call) == ~AlwaysDenied(call) /\ Authorised(a, call)
AboutToRun == \A a \in Actor : pc[a] = "execute" => Cleared(a, Current(a))
HasRun == \A a \in Actor : \A i \in DOMAIN ran[a] : Cleared(a, ran[a][i])

\* Why DeniedNeverRuns and RunsAreAuthorised are preserved.
AuthorityInv ==
  GrantsAnswered /\ Unanswered /\ OwnCall /\ AboutToRun /\ HasRun

\* The runtime implements the abstract promise about running tools.
Supervised ==
  INSTANCE SupervisedExecution WITH
    serving <- Serving,
    approved <- [a \in Actor |->
                   IF pc[a] = "execute" THEN {Current(a)} ELSE {}]

ImplementsSupervision == Supervised!Spec

-----------------------------------------------------------------------------
(* The audit trail *)

IsDecision(rec, call, verdict) ==
  rec.kind = "policy_decision" /\ rec.call = call /\ rec.note = verdict

\* What must have caused a record, by its kind.
RightCause(rec, origin) ==
  CASE rec.kind = "policy_decision" ->
         origin.kind = "tool_call" /\ origin.call = rec.call
    [] rec.kind = "confirmation_request" ->
         IsDecision(origin, rec.call, "ask_user")
    [] rec.kind = "tool_result" /\ rec.note = "denied" ->
         IsDecision(origin, rec.call, "deny")
    [] rec.kind = "tool_result" /\ rec.note = "ran" ->
         \/ IsDecision(origin, rec.call, "allow")
         \/ /\ origin.kind = "confirmation_response"
            /\ origin.call = rec.call /\ origin.note # "cancel"
    [] OTHER -> TRUE

\* Following causation_id explains every record: the first of a chain is the
\* request or the confirmation; a decision points at its call, a result at
\* the decision or the confirmation that allowed or denied it.
CausesExplain ==
  \A a \in Actor : \A i \in DOMAIN trail[a] :
    IF i = 1 THEN trail[a][i].cause = 0
    ELSE /\ trail[a][i].cause \in 1..(i - 1)
         /\ RightCause(trail[a][i], trail[a][trail[a][i].cause])

LastRecord(a) == trail[a][Len(trail[a])]

\* A request that returned an outcome left a closed chain: each of its calls
\* has its decision and its result next to it, and the chain ends with the
\* diagnosis, or with the confirmation request if and only if one is pending.
ClosedTrail ==
  \A r \in Request : pc[r] \in {"ok", "pending"} =>
    /\ LastRecord(r).kind = IF pc[r] = "ok" THEN "diagnose_result"
                            ELSE "confirmation_request"
    /\ \A i \in DOMAIN trail[r] : trail[r][i].kind = "tool_call" =>
         /\ i + 2 \in DOMAIN trail[r]
         /\ trail[r][i + 1].kind = "policy_decision"
         /\ trail[r][i + 2].kind =
              IF i + 2 = Len(trail[r]) /\ pc[r] = "pending"
              THEN "confirmation_request" ELSE "tool_result"

ResultsOnRecord(a) ==
  {i \in DOMAIN trail[a] : trail[a][i].kind = "tool_result"
                           /\ trail[a][i].note = "ran"}

\* The audit log accounts for every run of a tool, except the last run of a
\* handler that is still at it or that failed or crashed before the append;
\* a timeout can hide only a run of a tool that sleeps, never a kill.
RunsOnRecord ==
  \A a \in Actor :
    LET missing == Len(ran[a]) - Cardinality(ResultsOnRecord(a))
    IN  /\ missing \in {0, 1}
        /\ missing = 1 =>
             \/ pc[a] \in {"running", "blocked", "result", "error", "lost"}
             \/ pc[a] = "timeout" /\ ran[a][Len(ran[a])].tool \in Yielding

-----------------------------------------------------------------------------
(* Chat sessions *)

\* The next turn of a chat is built on finished turns only: nothing of a
\* request that failed, timed out or crashed is in any session, nothing of one
\* still in flight, and a tool result is there only if the tool ran.
OnlyFinishedTurns ==
  \A s \in Session : \A i \in DOMAIN chats[s] :
    LET msg == chats[s][i]
    IN  /\ msg.by \in Request => pc[msg.by] \in {"ok", "pending"}
        /\ msg.kind = "result" => ResultsOnRecord(msg.by) # {}
        /\ msg.kind = "cancelled" => Answered(msg.by, "cancel")

\* Where the window cuts a turn it cuts behind its tool results: the oldest
\* message kept may be the assistant's, whose question is gone, but never the
\* result of a tool that a request called, whose call is gone.
NoOrphanResult ==
  \A s \in Session : chats[s] # <<>> =>
    /\ Len(chats[s]) <= MaxMessages
    /\ chats[s][1].kind \in ToolResultKind => chats[s][1].by \in Confirm

TurnsIn(s) == {chats[s][i].by : i \in DOMAIN chats[s]}

\* The next write to the session may drop its oldest messages.
WindowFull(s) ==
  \/ Len(chats[s]) = MaxMessages
  \/ \E r \in Request :
       InFlight(r) /\ session[r] = s /\ Len(turn[r]) > MaxMessages

\* With the default budget of one request at a time and no confirmation, a
\* turn that was stored is lost only to a reset, a restart or the window.
TurnsKept ==
  [][\A s \in Session :
       \/ TurnsIn(s) \subseteq TurnsIn(s)'
       \/ chats'[s] = <<>>
       \/ WindowFull(s)]_vars

\* The confirmations whose tool ran and whose result the session holds.
ConfirmedIn(s) ==
  {chats[s][i].by : i \in {j \in DOMAIN chats[s] :
     chats[s][j].kind = "result" /\ chats[s][j].by \in Confirm}}

\* A confirmed tool's result stays in the session it was appended to (until a
\* reset, a restart or the window), so that the next turn can refer to it.
ConfirmedResultKept ==
  [][\A s \in Session : \A c \in ConfirmedIn(s) :
       \/ c \in ConfirmedIn(s)'
       \/ chats'[s] = <<>>
       \/ WindowFull(s)]_vars

\* What a reset removed from a session stays removed: a step that adds to a
\* session adds what its own actor has to say, nothing of a finished one.
ResetForgets ==
  [][\A s \in Session : \A a \in TurnsIn(s)' \ TurnsIn(s) : pc'[a] # pc[a]]_vars

\* The requests that have read the session and will save what they read.
Holding(s) == {r \in Request :
                 InFlight(r) /\ pc[r] # "accept" /\ session[r] = s}

TurnsReadBy(r) == {turn[r][i].by : i \in DOMAIN turn[r]}

\* The session and all that was read of it hold the turn of a; none does.
InAll(s, a) == a \in TurnsIn(s) /\ \A r \in Holding(s) : a \in TurnsReadBy(r)
InNone(s, a) == a \notin TurnsIn(s) /\ \A r \in Holding(s) : a \notin TurnsReadBy(r)

\* Only a race rewrites a session: as long as the requests in flight in it read
\* the same of a turn as it holds, the turn stays until a reset, a restart or
\* the window, and one that is gone, or was never saved, does not come back.
\* So what was said or confirmed while no request was in flight is kept, and a
\* reset at such a time holds.
OnlyRacesRewrite ==
  [][\A s \in Session, a \in Actor :
       /\ InAll(s, a) => InAll(s, a)' \/ chats'[s] = <<>> \/ WindowFull(s)
       /\ InNone(s, a) /\ pc[a] \in Ended => InNone(s, a)']_vars
=============================================================================
