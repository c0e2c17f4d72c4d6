-------------------------- MODULE AuthorityProofs ---------------------------
(***************************************************************************)
(* Theorems about who may have a tool run: the calls the policy denies     *)
(* never run, a tool that needs confirmation runs only with the user's     *)
(* word, and no signal reaches init or the runtime itself.                 *)
(***************************************************************************)
EXTENDS AiRuntimeProofs

USE DEF InFlight, Current, Goto, Leave, Fail

-----------------------------------------------------------------------------
(* Records are never taken back *)

FirstsKept ==
  \A a \in Actor : trail[a] # <<>> =>
    trail'[a] # <<>> /\ trail'[a][1] = trail[a][1]

LEMMA AppendKeepsFirst ==
  ASSUME NEW S, NEW s \in Seq(S), NEW e \in S
  PROVE  /\ Append(s, e) # <<>>
         /\ s # <<>> => Append(s, e)[1] = s[1]
         /\ s = <<>> => Append(s, e)[1] = e
<1>1. /\ Append(s, e) \in Seq(S)
      /\ Len(Append(s, e)) = Len(s) + 1
      /\ \A i \in 1..Len(s) : Append(s, e)[i] = s[i]
      /\ Append(s, e)[Len(s) + 1] = e
  BY AppendProperties
<1>2. Len(s) \in Nat
  OBVIOUS
<1>3. Append(s, e) # <<>>
  <2>1. Len(Append(s, e)) # Len(<<>>)
    BY <1>1, <1>2
  <2>2. QED
    BY <2>1, Zenon
<1>4. ASSUME s # <<>> PROVE Append(s, e)[1] = s[1]
  <2>1. Len(s) >= 1
    BY <1>2, <1>4, EmptySeq
  <2>2. QED
    BY <1>1, <1>2, <2>1
<1>5. ASSUME s = <<>> PROVE Append(s, e)[1] = e
  BY <1>1, <1>5
<1>6. QED
  BY <1>3, <1>4, <1>5

LEMMA LogKeepsFirsts ==
  ASSUME TypeOK, NEW a \in Actor, NEW call \in Call \cup {NoCall},
         NEW kind, NEW note, Log(a, kind, call, note),
         kind \in {"user_request", "assistant_message", "tool_call",
                   "policy_decision", "confirmation_request", "tool_result",
                   "diagnose_result", "confirmation_response"},
         note \in {"", "allow", "deny", "ask_user", "denied", "ran",
                   "once", "session", "cancel"}
  PROVE  FirstsKept
<1> DEFINE rec == [kind |-> kind, call |-> call, note |-> note,
                   cause |-> cause[a]]
<1>1. rec \in AuditRecord
  BY DEF TypeOK, DataOK, AuditRecord
<1> HIDE DEF rec
<1>2. trail' = [trail EXCEPT ![a] = Append(trail[a], rec)]
  BY DEF Log, rec
<1>3. trail \in [Actor -> Seq(AuditRecord)]
  BY DEF TypeOK, DataOK
<1>4. trail[a] # <<>> =>
        /\ Append(trail[a], rec) # <<>>
        /\ Append(trail[a], rec)[1] = trail[a][1]
  BY <1>1, <1>3, AppendKeepsFirst
<1>5. QED
  BY <1>2, <1>3, <1>4 DEF FirstsKept

LEMMA AnswersKept ==
  ASSUME FirstsKept, NEW c \in Confirm, NEW scope, Answered(c, scope)
  PROVE  Answered(c, scope)' /\ trail'[c][1] = trail[c][1]
BY DEF FirstsKept, Answered, Actor

LEMMA SessionYesKept ==
  ASSUME FirstsKept, NEW tool, SessionYes(tool)
  PROVE  SessionYes(tool)'
BY AnswersKept DEF SessionYes

LEMMA ClearedKept ==
  ASSUME FirstsKept, NEW a \in Actor, NEW call, Cleared(a, call)
  PROVE  Cleared(a, call)'
<1>1. CASE a \in Request
  BY <1>1, SessionYesKept DEF Cleared, Authorised
<1>2. CASE a \notin Request
  BY <1>2, AnswersKept DEF Cleared, Authorised, Actor
<1>3. QED
  BY <1>1, <1>2

-----------------------------------------------------------------------------
(* Steps that authorise nothing *)

\* No tool runs, no grant is added, no actor comes to its answer's check or to
\* a tool, and no confirmation is answered.
Quiet ==
  /\ ran' = ran
  /\ grants' \subseteq grants
  /\ FirstsKept
  /\ \A a \in Actor : pc'[a] \in {"check", "execute"} =>
       pc'[a] = pc[a] /\ todo'[a] = todo[a]
  /\ \A c \in Confirm : pc'[c] = "idle" =>
       pc[c] = "idle" /\ trail'[c] = trail[c]

LEMMA QuietKeepsAuthority ==
  ASSUME AuthorityInv, Quiet
  PROVE  AuthorityInv'
<1>1. GrantsAnswered'
  BY SessionYesKept DEF AuthorityInv, GrantsAnswered, Quiet
<1>2. Unanswered'
  BY DEF AuthorityInv, Unanswered, Quiet
<1>3. OwnCall'
  <2> SUFFICES ASSUME NEW c \in Confirm, pc'[c] \in {"check", "execute"}
               PROVE  /\ Answered(c, "once")' \/ Answered(c, "session")'
                      /\ trail'[c][1].call = Current(c)'
    BY DEF OwnCall
  <2>1. pc[c] \in {"check", "execute"} /\ todo'[c] = todo[c]
    BY DEF Quiet, Actor
  <2>2. /\ Answered(c, "once") \/ Answered(c, "session")
        /\ trail[c][1].call = Current(c)
    BY <2>1 DEF AuthorityInv, OwnCall
  <2>3. QED
    BY <2>1, <2>2, AnswersKept DEF Quiet
<1>4. AboutToRun'
  <2> SUFFICES ASSUME NEW a \in Actor, pc'[a] = "execute"
               PROVE  Cleared(a, Current(a))'
    BY DEF AboutToRun
  <2>1. pc[a] = "execute" /\ todo'[a] = todo[a]
    BY DEF Quiet
  <2>2. Cleared(a, Head(todo[a]))
    BY <2>1 DEF AuthorityInv, AboutToRun
  <2>3. Cleared(a, Head(todo[a]))'
    <3> DEFINE call == Head(todo[a])
    <3>1. Cleared(a, call)
      BY <2>2
    <3> HIDE DEF call
    <3>2. call' = call
      BY <2>1 DEF call
    <3>3. QED
      BY <3>1, <3>2, ClearedKept DEF Quiet, call
  <2>4. QED
    BY <2>3
<1>5. HasRun'
  BY ClearedKept DEF AuthorityInv, HasRun, Quiet
<1>6. QED
  BY <1>1, <1>2, <1>3, <1>4, <1>5 DEF AuthorityInv

\* One actor moves on, to a place where nothing is authorised.
LEMMA MoveIsQuiet ==
  ASSUME TypeOK, NEW a \in Actor, NEW where, Goto(a, where),
         where \notin {"idle", "check", "execute"},
         ran' = ran, grants' = grants, FirstsKept,
         \A b \in Actor \ {a} : todo'[b] = todo[b] /\ trail'[b] = trail[b]
  PROVE  Quiet
<1>1. /\ pc'[a] = where
      /\ \A b \in Actor \ {a} : pc'[b] = pc[b]
  BY DEF TypeOK, ControlOK
<1>2. QED
  BY <1>1 DEF Quiet, Actor

\* A step that appends no record keeps the first ones.
LEMMA SilentKeepsFirsts == trail' = trail => FirstsKept
BY DEF FirstsKept

LEMMA RequestStepQuiet ==
  ASSUME TypeOK, NEW r \in Request, RequestStep(r),
         ~DecideCall(r), ~StartTool(r)
  PROVE  Quiet
<1>1. r \in Actor
  BY DEF Actor
<1>2. CASE Accept(r)
  <2>1. FirstsKept
    BY <1>1, <1>2, LogKeepsFirsts DEF Accept
  <2>2. LoopHead(0) \in {"model", "complete"}
    BY DEF LoopHead
  <2>3. QED
    BY <1>1, <1>2, <2>1, <2>2, MoveIsQuiet
       DEF Accept, Log, TypeOK, DataOK
<1>3. CASE ProposeCall(r)
  <2>1. Current(r) \in Call
    BY <1>1, <1>3, CurrentType DEF TypeOK, WithCall, ProposeCall
  <2>2. FirstsKept
    BY <1>1, <1>3, <2>1, LogKeepsFirsts DEF ProposeCall
  <2>3. QED
    BY <1>1, <1>3, <2>2, MoveIsQuiet DEF ProposeCall, Log, TypeOK, DataOK
<1>4. CASE RecordDenial(r)
  <2>1. Current(r) \in Call
    BY <1>1, <1>4, CurrentType DEF TypeOK, WithCall, RecordDenial
  <2>2. FirstsKept
    BY <1>1, <1>4, <2>1, LogKeepsFirsts DEF RecordDenial
  <2>3. PICK where \in {"propose", "model", "complete"} : Goto(r, where)
    BY <1>4 DEF RecordDenial, NextCall, LoopHead
  <2>4. QED
    BY <1>1, <1>4, <2>2, <2>3, MoveIsQuiet
       DEF RecordDenial, NextCall, Log, TypeOK, DataOK, ControlOK
<1>5. CASE AskUser(r)
  <2>1. Current(r) \in Call
    BY <1>1, <1>5, CurrentType DEF TypeOK, WithCall, AskUser
  <2>2. FirstsKept
    BY <1>1, <1>5, <2>1, LogKeepsFirsts DEF AskUser
  <2>3. QED
    BY <1>1, <1>5, <2>2, MoveIsQuiet DEF AskUser, Log, TypeOK, DataOK
<1>6. CASE ToolRefuses(r)
  BY <1>1, <1>6, SilentKeepsFirsts, MoveIsQuiet DEF ToolRefuses
<1>7. CASE RecordResult(r)
  <2>1. Current(r) \in Call
    BY <1>1, <1>7, CurrentType DEF TypeOK, WithCall, RecordResult
  <2>2. FirstsKept
    BY <1>1, <1>7, <2>1, LogKeepsFirsts DEF RecordResult
  <2>3. PICK where \in {"propose", "model", "complete"} : Goto(r, where)
    BY <1>7 DEF RecordResult, NextCall, LoopHead
  <2>4. QED
    BY <1>1, <1>7, <2>2, <2>3, MoveIsQuiet
       DEF RecordResult, NextCall, Log, TypeOK, DataOK, ControlOK
<1>8. CASE Complete(r)
  <2>1. FirstsKept
    BY <1>1, <1>8, LogKeepsFirsts DEF Complete
  <2>2. QED
    BY <1>1, <1>8, <2>1, MoveIsQuiet DEF Complete, Log, TypeOK, DataOK
<1>9. CASE Persist(r)
  BY <1>1, <1>9, SilentKeepsFirsts, MoveIsQuiet DEF Persist
<1>10. QED
  BY <1>2, <1>3, <1>4, <1>5, <1>6, <1>7, <1>8, <1>9 DEF RequestStep

LEMMA ConfirmStepQuiet ==
  ASSUME TypeOK, NEW c \in Confirm, ConfirmStep(c),
         ~Check(c), ~StartTool(c)
  PROVE  Quiet
<1>1. c \in Actor
  BY DEF Actor
<1>2. CASE ConfirmedResult(c)
  <2>1. Current(c) \in Call
    BY <1>1, <1>2, CurrentType DEF TypeOK, WithCall, ConfirmedResult
  <2>2. FirstsKept
    BY <1>1, <1>2, <2>1, LogKeepsFirsts DEF ConfirmedResult
  <2>3. QED
    BY <1>1, <1>2, <2>2, MoveIsQuiet
       DEF ConfirmedResult, Log, TypeOK, DataOK
<1>3. CASE ToolRefuses(c)
  BY <1>1, <1>3, SilentKeepsFirsts, MoveIsQuiet DEF ToolRefuses
<1>4. CASE FinishTool(c)
  BY <1>1, <1>4, SilentKeepsFirsts, MoveIsQuiet DEF FinishTool
<1>5. CASE AppendOutcome(c)
  BY <1>1, <1>5, SilentKeepsFirsts, MoveIsQuiet DEF AppendOutcome
<1>6. CASE Abort(c)
  BY <1>1, <1>6, SilentKeepsFirsts, MoveIsQuiet DEF Abort
<1>7. QED
  BY <1>2, <1>3, <1>4, <1>5, <1>6 DEF ConfirmStep

LEMMA OtherStepsQuiet ==
  ASSUME TypeOK,
         \/ \E r \in Request :
              \/ \E s \in Session : Admit(r, s)
              \/ Refuse(r)
              \/ \E reply \in Reply : ModelReply(r, reply)
              \/ FinishTool(r)
              \/ Timeout(r)
              \/ Abort(r)
         \/ \E s \in Session : ChatReset(s)
         \/ ClearGrants
         \/ Restart
         \/ UNCHANGED vars
  PROVE  Quiet
<1>1. ASSUME NEW r \in Request, NEW reply \in Reply, ModelReply(r, reply)
      PROVE  Quiet
  <2>1. r \in Actor
    BY DEF Actor
  <2>2. FirstsKept
    BY <1>1, <2>1, LogKeepsFirsts, SilentKeepsFirsts DEF ModelReply
  <2>3. PICK where \in {"propose", "complete"} : Goto(r, where)
    BY <1>1 DEF ModelReply
  <2>4. \A b \in Actor \ {r} : todo'[b] = todo[b] /\ trail'[b] = trail[b]
    BY <1>1 DEF ModelReply, Log, TypeOK, DataOK, ControlOK
  <2>5. QED
    BY <1>1, <2>1, <2>2, <2>3, <2>4, MoveIsQuiet DEF ModelReply
<1>2. ASSUME NEW r \in Request,
             \/ \E s \in Session : Admit(r, s)
             \/ Refuse(r) \/ FinishTool(r) \/ Timeout(r) \/ Abort(r)
      PROVE  Quiet
  <2>1. r \in Actor
    BY DEF Actor
  <2>2. PICK where \in {"accept", "busy", "result", "timeout", "error"} :
          Goto(r, where)
    BY <1>2 DEF Admit, Refuse, FinishTool, Timeout, Abort
  <2>3. UNCHANGED <<ran, grants, todo, trail>>
    BY <1>2 DEF Admit, Refuse, FinishTool, Timeout, Abort
  <2>4. QED
    BY <2>1, <2>2, <2>3, SilentKeepsFirsts, MoveIsQuiet
<1>3. ASSUME NEW s \in Session, ChatReset(s)
      PROVE  Quiet
  BY <1>3, SilentKeepsFirsts DEF ChatReset, Quiet
<1>4. CASE ClearGrants
  BY <1>4, SilentKeepsFirsts DEF ClearGrants, Quiet
<1>5. CASE Restart
  BY <1>5, SilentKeepsFirsts DEF Restart, Quiet, Actor, Ended
<1>6. CASE UNCHANGED vars
  BY <1>6, SilentKeepsFirsts DEF vars, Quiet
<1>7. QED
  BY <1>1, <1>2, <1>3, <1>4, <1>5, <1>6

-----------------------------------------------------------------------------
(* Steps that authorise, and the one that makes use of it *)

\* A call the policy allows has passed its guards and holds a grant if it
\* needs the user.
LEMMA AllowedIsCleared ==
  ASSUME NEW r \in Request, NEW call, GrantsAnswered,
         Verdict(call) = "allow"
  PROVE  Cleared(r, call)
BY DEF GrantsAnswered, Verdict, Decide, Cleared, Authorised

LEMMA DecideKeepsAuthority ==
  ASSUME TypeOK, AuthorityInv, NEW r \in Request, DecideCall(r)
  PROVE  AuthorityInv'
<1>1. /\ r \in Actor
      /\ Current(r) \in Call
      /\ Verdict(Current(r)) \in PolicyVerdict
  BY CurrentType, VerdictType DEF TypeOK, Actor, WithCall, DecideCall
<1>2. FirstsKept
  BY <1>1, LogKeepsFirsts DEF DecideCall, PolicyVerdict
<1>3. /\ \A a \in Actor \ {r} : pc'[a] = pc[a] /\ trail'[a] = trail[a]
      /\ pc'[r] \in {"denied", "ask", "execute"}
      /\ pc'[r] = "execute" => Verdict(Current(r)) = "allow"
  BY <1>1 DEF DecideCall, PolicyVerdict, Log, TypeOK, ControlOK, DataOK
<1>4. UNCHANGED <<grants, todo, ran>>
  BY DEF DecideCall
<1>5. GrantsAnswered'
  BY <1>2, <1>4, SessionYesKept DEF AuthorityInv, GrantsAnswered
<1>6. Unanswered'
  BY <1>3, ActorAssumption DEF AuthorityInv, Unanswered, Actor
<1>7. OwnCall'
  <2> SUFFICES ASSUME NEW c \in Confirm, pc'[c] \in {"check", "execute"}
               PROVE  /\ Answered(c, "once")' \/ Answered(c, "session")'
                      /\ trail'[c][1].call = Current(c)'
    BY DEF OwnCall
  <2>1. pc[c] \in {"check", "execute"}
    BY <1>3, ActorAssumption DEF Actor
  <2>2. QED
    BY <1>2, <1>4, <2>1, AnswersKept DEF AuthorityInv, OwnCall
<1>8. AboutToRun'
  <2> SUFFICES ASSUME NEW a \in Actor, pc'[a] = "execute"
               PROVE  Cleared(a, Current(a))'
    BY DEF AboutToRun
  <2> DEFINE call == Head(todo[a])
  <2>1. Cleared(a, call)
    <3>1. CASE a = r
      BY <1>3, <3>1, AllowedIsCleared DEF AuthorityInv
    <3>2. CASE a # r
      BY <1>3, <3>2 DEF AuthorityInv, AboutToRun
    <3>3. QED
      BY <3>1, <3>2
  <2> HIDE DEF call
  <2>2. call' = call
    BY <1>4 DEF call
  <2>3. QED
    BY <1>2, <2>1, <2>2, ClearedKept DEF call
<1>9. HasRun'
  BY <1>2, <1>4, ClearedKept DEF AuthorityInv, HasRun
<1>10. QED
  BY <1>5, <1>6, <1>7, <1>8, <1>9 DEF AuthorityInv

LEMMA CheckKeepsAuthority ==
  ASSUME TypeOK, AuthorityInv, NEW c \in Confirm, Check(c)
  PROVE  AuthorityInv'
<1>1. FirstsKept
  BY SilentKeepsFirsts DEF Check
<1>2. /\ \A a \in Actor \ {c} : pc'[a] = pc[a]
      /\ pc[c] = "check" /\ pc'[c] \in {"execute", "error"}
      /\ pc'[c] = "execute" => Verdict(Current(c)) # "deny"
  BY DEF Check, Runnable, TypeOK, ControlOK, Actor
<1>3. UNCHANGED <<grants, todo, trail, ran>>
  BY DEF Check
<1>4. GrantsAnswered'
  BY <1>1, <1>3, SessionYesKept DEF AuthorityInv, GrantsAnswered
<1>5. Unanswered'
  BY <1>2, <1>3 DEF AuthorityInv, Unanswered, Actor
<1>6. OwnCall'
  BY <1>1, <1>2, <1>3, AnswersKept DEF AuthorityInv, OwnCall, Actor
<1>7. AboutToRun'
  <2> SUFFICES ASSUME NEW a \in Actor, pc'[a] = "execute"
               PROVE  Cleared(a, Current(a))'
    BY DEF AboutToRun
  <2> DEFINE call == Head(todo[a])
  <2>1. Cleared(a, call)
    <3>1. CASE a = c
      <4>1. ~AlwaysDenied(call)
        BY <1>2, <3>1 DEF Verdict, Decide
      <4>2. Authorised(c, call)
        BY <1>2, <3>1, ActorAssumption
           DEF AuthorityInv, OwnCall, Authorised
      <4>3. QED
        BY <3>1, <4>1, <4>2 DEF Cleared
    <3>2. CASE a # c
      BY <1>2, <3>2 DEF AuthorityInv, AboutToRun
    <3>3. QED
      BY <3>1, <3>2
  <2> HIDE DEF call
  <2>2. call' = call
    BY <1>3 DEF call
  <2>3. QED
    BY <1>1, <2>1, <2>2, ClearedKept DEF call
<1>8. HasRun'
  BY <1>1, <1>3, ClearedKept DEF AuthorityInv, HasRun
<1>9. QED
  BY <1>4, <1>5, <1>6, <1>7, <1>8 DEF AuthorityInv

LEMMA StartToolKeepsAuthority ==
  ASSUME TypeOK, AuthorityInv, NEW a \in Actor, StartTool(a)
  PROVE  AuthorityInv'
<1> DEFINE call == Head(todo[a])
<1>1. FirstsKept
  BY SilentKeepsFirsts DEF StartTool
<1>2. /\ \A b \in Actor \ {a} : pc'[b] = pc[b]
      /\ pc[a] = "execute" /\ pc'[a] \in {"running", "blocked", "result"}
  BY DEF StartTool, TypeOK, ControlOK
<1>3. UNCHANGED <<grants, todo, trail>>
  BY DEF StartTool
<1>4. GrantsAnswered'
  BY <1>1, <1>3, SessionYesKept DEF AuthorityInv, GrantsAnswered
<1>5. Unanswered'
  BY <1>2, <1>3 DEF AuthorityInv, Unanswered, Actor
<1>6. OwnCall'
  BY <1>1, <1>2, <1>3, AnswersKept DEF AuthorityInv, OwnCall, Actor
<1>7. AboutToRun'
  <2> SUFFICES ASSUME NEW b \in Actor, pc'[b] = "execute"
               PROVE  Cleared(b, Current(b))'
    BY DEF AboutToRun
  <2> DEFINE next == Head(todo[b])
  <2>1. Cleared(b, next)
    <3>1. pc[b] = "execute"
      BY <1>2
    <3>2. QED
      BY <3>1 DEF AuthorityInv, AboutToRun
  <2> HIDE DEF next
  <2>2. next' = next
    BY <1>3 DEF next
  <2>3. QED
    BY <1>1, <2>1, <2>2, ClearedKept DEF next
<1>8. HasRun'
  <2> SUFFICES ASSUME NEW b \in Actor, NEW i \in DOMAIN ran'[b]
               PROVE  Cleared(b, ran[b][i])'
    BY DEF HasRun
  <2>1. call \in Call /\ Cleared(a, call)
    BY <1>2, CurrentType DEF AuthorityInv, AboutToRun, TypeOK, WithCall
  <2> HIDE DEF call
  <2>2. ran' = [ran EXCEPT ![a] = Append(ran[a], call)]
    BY DEF StartTool, call
  <2>3. Cleared(b, ran'[b][i])
    <3>1. CASE b = a
      <4>1. ran[a] \in Seq(Call)
        BY DEF TypeOK, DataOK
      <4>2. ran'[a] = Append(ran[a], call)
        BY <2>2 DEF TypeOK, DataOK
      <4>3. \/ i \in DOMAIN ran[a] /\ ran'[a][i] = ran[a][i]
            \/ ran'[a][i] = call
        BY <2>1, <3>1, <4>1, <4>2
      <4>4. QED
        BY <2>1, <3>1, <4>3 DEF AuthorityInv, HasRun
    <3>2. CASE b # a
      BY <2>2, <3>2 DEF AuthorityInv, HasRun, TypeOK, DataOK
    <3>3. QED
      BY <3>1, <3>2
  <2>4. PICK done : done = ran'[b][i]
    OBVIOUS
  <2>5. Cleared(b, done)'
    BY <1>1, <2>3, <2>4, ClearedKept
  <2>6. QED
    BY <2>4, <2>5 DEF Cleared, Authorised
<1>9. QED
  BY <1>4, <1>5, <1>6, <1>7, <1>8 DEF AuthorityInv

LEMMA RespondKeepsAuthority ==
  ASSUME TypeOK, AuthorityInv, NEW c \in Confirm, NEW call \in Call,
         NEW scope \in {"once", "session", "cancel"},
         NEW s \in Session \cup {NoSession}, Respond(c, call, scope, s)
  PROVE  AuthorityInv'
<1>1. c \in Actor
  BY DEF Actor
<1>2. FirstsKept
  BY <1>1, LogKeepsFirsts DEF Respond
<1>3. /\ \A a \in Actor \ {c} :
           /\ pc'[a] = pc[a]
           /\ todo'[a] = todo[a]
           /\ trail'[a] = trail[a]
      /\ pc'[c] = IF scope = "cancel" THEN "append_cancelled" ELSE "check"
      /\ todo'[c] = <<call>>
      /\ ran' = ran
  BY <1>1 DEF Respond, Log, TypeOK, ControlOK, DataOK
\* The answer is the confirmation's first record.
<1>4. /\ trail'[c] # <<>>
      /\ trail'[c][1].call = call /\ trail'[c][1].note = scope
  <2> DEFINE rec == [kind |-> "confirmation_response", call |-> call,
                     note |-> scope, cause |-> cause[c]]
  <2>1. rec \in AuditRecord
    BY <1>1 DEF AuditRecord, TypeOK, DataOK
  <2>2. rec.call = call /\ rec.note = scope
    OBVIOUS
  <2>3. trail'[c] = Append(trail[c], rec)
    BY <1>1 DEF Respond, Log, TypeOK, DataOK
  <2>4. trail[c] = <<>>
    BY DEF Respond, AuthorityInv, Unanswered
  <2>5. trail[c] \in Seq(AuditRecord)
    BY <1>1 DEF TypeOK, DataOK
  <2> HIDE DEF rec
  <2>6. QED
    BY <2>1, <2>2, <2>3, <2>4, <2>5, AppendKeepsFirst
<1>5. GrantsAnswered'
  <2> SUFFICES ASSUME NEW tool \in grants'
               PROVE  SessionYes(tool)'
    BY DEF GrantsAnswered
  <2>1. CASE tool \in grants
    BY <1>2, <2>1, SessionYesKept DEF AuthorityInv, GrantsAnswered
  <2>2. CASE tool \notin grants
    <3>1. scope = "session" /\ tool = call.tool
      BY <2>2 DEF Respond, GrantsAfter
    <3>2. QED
      BY <1>4, <3>1 DEF SessionYes, Answered
  <2>3. QED
    BY <2>1, <2>2
<1>6. Unanswered'
  BY <1>1, <1>3 DEF AuthorityInv, Unanswered, Actor
<1>7. OwnCall'
  <2> SUFFICES ASSUME NEW d \in Confirm, pc'[d] \in {"check", "execute"}
               PROVE  /\ Answered(d, "once")' \/ Answered(d, "session")'
                      /\ trail'[d][1].call = Current(d)'
    BY DEF OwnCall
  <2>1. CASE d = c
    BY <1>3, <1>4, <2>1 DEF Answered
  <2>2. CASE d # c
    <3>1. pc[d] \in {"check", "execute"} /\ todo'[d] = todo[d]
      BY <1>3, <2>2 DEF Actor
    <3>2. QED
      BY <1>2, <3>1, AnswersKept DEF AuthorityInv, OwnCall
  <2>3. QED
    BY <2>1, <2>2
<1>8. AboutToRun'
  <2> SUFFICES ASSUME NEW a \in Actor, pc'[a] = "execute"
               PROVE  Cleared(a, Current(a))'
    BY DEF AboutToRun
  <2> DEFINE next == Head(todo[a])
  <2>1. a # c
    BY <1>3
  <2>2. Cleared(a, next)
    BY <1>3, <2>1 DEF AuthorityInv, AboutToRun
  <2>3. todo'[a] = todo[a]
    BY <1>3, <2>1
  <2> HIDE DEF next
  <2>4. next' = next
    BY <2>3 DEF next
  <2>5. QED
    BY <1>2, <2>2, <2>4, ClearedKept DEF next
<1>9. HasRun'
  BY <1>2, <1>3, ClearedKept DEF AuthorityInv, HasRun
<1>10. QED
  BY <1>5, <1>6, <1>7, <1>8, <1>9 DEF AuthorityInv

-----------------------------------------------------------------------------
(* The theorems *)

LEMMA InitAuthority == Init => AuthorityInv
BY DEF Init, AuthorityInv, GrantsAnswered, Unanswered, OwnCall, AboutToRun,
       HasRun, Actor

\* Every step is quiet or one of the four above.
LEMMA NextAuthority == TypeOK /\ AuthorityInv /\ [Next]_vars => AuthorityInv'
<1> SUFFICES ASSUME TypeOK, AuthorityInv, [Next]_vars
             PROVE  AuthorityInv'
  OBVIOUS
<1>1. ASSUME NEW r \in Request, RequestStep(r)
      PROVE  AuthorityInv'
  <2>1. r \in Actor
    BY DEF Actor
  <2>2. CASE DecideCall(r)
    BY <2>2, DecideKeepsAuthority
  <2>3. CASE StartTool(r)
    BY <2>1, <2>3, StartToolKeepsAuthority
  <2>4. CASE ~DecideCall(r) /\ ~StartTool(r)
    BY <1>1, <2>4, RequestStepQuiet, QuietKeepsAuthority
  <2>5. QED
    BY <2>2, <2>3, <2>4
<1>2. ASSUME NEW c \in Confirm, ConfirmStep(c)
      PROVE  AuthorityInv'
  <2>1. c \in Actor
    BY DEF Actor
  <2>2. CASE Check(c)
    BY <2>2, CheckKeepsAuthority
  <2>3. CASE StartTool(c)
    BY <2>1, <2>3, StartToolKeepsAuthority
  <2>4. CASE ~Check(c) /\ ~StartTool(c)
    BY <1>2, <2>4, ConfirmStepQuiet, QuietKeepsAuthority
  <2>5. QED
    BY <2>2, <2>3, <2>4
<1>3. ASSUME NEW c \in Confirm, NEW call \in Call,
             NEW scope \in {"once", "session", "cancel"},
             NEW s \in Session \cup {NoSession}, Respond(c, call, scope, s)
      PROVE  AuthorityInv'
  BY <1>3, RespondKeepsAuthority
<1>4. QED
  BY <1>1, <1>2, <1>3, OtherStepsQuiet, QuietKeepsAuthority DEF Next

\* Whatever requests, confirmations, resets of the grants and restarts do to
\* each other, every grant, every call about to run and every call that ran
\* goes back to the policy's verdict and, where one is needed, to the user's
\* recorded answer.
THEOREM AuthorityKept == Spec => []AuthorityInv
<1>1. QED
  BY TypeCorrect, InitAuthority, NextAuthority, PTL DEF Spec

\* A call the policy engine denies outright is never carried out, neither
\* under a session grant nor after a confirmation.
THEOREM DeniedCallsNeverRun == Spec => []DeniedNeverRuns
<1>1. AuthorityInv => DeniedNeverRuns
  BY DEF AuthorityInv, HasRun, Cleared, DeniedNeverRuns
<1>2. QED
  BY <1>1, AuthorityKept, PTL

\* A tool that needs confirmation is never carried out without the user's
\* word: a recorded session-wide yes to the tool, or the confirmation's own
\* recorded yes.
THEOREM NoRunWithoutTheUsersWord == Spec => []RunsAreAuthorised
<1>1. AuthorityInv => RunsAreAuthorised
  BY DEF AuthorityInv, HasRun, Cleared, RunsAreAuthorised
<1>2. QED
  BY <1>1, AuthorityKept, PTL
=============================================================================
