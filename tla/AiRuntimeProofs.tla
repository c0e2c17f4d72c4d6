-------------------------- MODULE AiRuntimeProofs ---------------------------
(***************************************************************************)
(* Theorems about the request orchestrator, for every set of requests,     *)
(* confirmations, sessions, calls and replies and every budget.            *)
(***************************************************************************)
EXTENDS AiRuntimeProperties, FiniteSetTheorems, SequenceTheorems,
        TLAPS

USE DEF InFlight, Current, Goto, Leave, Fail

-----------------------------------------------------------------------------
(* Helpers of the model *)

\* trim_messages returns messages it was given.
LEMMA TrimmedType ==
  ASSUME NEW S, NEW m \in Seq(S)
  PROVE  Trimmed(m) \in Seq(S)
<1>1. CASE Len(m) <= MaxMessages
  BY <1>1 DEF Trimmed
<1>2. CASE ~(Len(m) <= MaxMessages)
  <2> DEFINE kept == Recent(m)
             lead == LeadingResults(kept)
  <2>1. Len(m) \in Nat /\ MaxMessages \in Nat
    BY MaxMessagesAssumption
  <2>2. kept \in Seq(S) /\ Len(kept) = MaxMessages
    BY <2>1, <1>2 DEF Recent
  <2>3. lead \subseteq 1..MaxMessages
    BY <2>2 DEF LeadingResults
  <2>4. Cardinality(lead) \in Nat
    <3>1. IsFiniteSet(1..MaxMessages)
      BY <2>1, FS_Interval
    <3>2. IsFiniteSet(lead)
      BY <2>3, <3>1, FS_Subset
    <3>3. QED
      BY <3>2, FS_CardinalityType
  <2> HIDE DEF kept, lead
  <2>5. SubSeq(kept, Cardinality(lead) + 1, Len(kept)) \in Seq(S)
    BY <2>1, <2>2, <2>4
  <2>6. QED
    BY <1>2, <2>5 DEF Trimmed, kept, lead
<1>3. QED
  BY <1>1, <1>2

LEMMA VerdictType ==
  ASSUME NEW call \in Call
  PROVE  Verdict(call) \in PolicyVerdict
BY DEF Verdict, Decide, PolicyVerdict

\* Appending to one entry of a function of sequences.
LEMMA AppendAt ==
  ASSUME NEW S, NEW T, NEW f \in [S -> Seq(T)], NEW x \in S, NEW e \in T
  PROVE  [f EXCEPT ![x] = Append(f[x], e)] \in [S -> Seq(T)]
<1>1. f[x] \in Seq(T)
  OBVIOUS
<1>2. Append(f[x], e) \in Seq(T)
  BY <1>1
<1>3. QED
  BY <1>2

-----------------------------------------------------------------------------
(* Type correctness *)

LEMMA InitTypeOK == Init => TypeOK
<1>1. Init => ControlOK
  BY BudgetAssumption, ActorAssumption
     DEF Init, ControlOK, Actor, Working, Confirming, Ended, WithCall
<1>2. Init => DataOK
  BY DEF Init, DataOK, Actor
<1>3. QED
  BY <1>1, <1>2 DEF TypeOK

\* What appending a record does to the trail.
LEMMA LogType ==
  ASSUME DataOK, NEW a \in Actor, NEW call \in Call \cup {NoCall},
         NEW kind, NEW note, Log(a, kind, call, note),
         kind \in {"user_request", "assistant_message", "tool_call",
                   "policy_decision", "confirmation_request", "tool_result",
                   "diagnose_result", "confirmation_response"},
         note \in {"", "allow", "deny", "ask_user", "denied", "ran",
                   "once", "session", "cancel"}
  PROVE  trail' \in [Actor -> Seq(AuditRecord)]
<1> DEFINE rec == [kind |-> kind, call |-> call, note |-> note,
                   cause |-> cause[a]]
<1>1. rec \in AuditRecord
  BY DEF DataOK, AuditRecord
<1> HIDE DEF rec
<1>2. trail' = [trail EXCEPT ![a] = Append(trail[a], rec)]
  BY DEF Log, rec
<1>3. trail \in [Actor -> Seq(AuditRecord)]
  BY DEF DataOK
<1>4. QED
  BY <1>1, <1>2, <1>3, AppendAt

\* What pushing a message does to the turn, and a new cause.
LEMMA MessageType ==
  ASSUME NEW kind \in MessageKind, NEW a \in Actor
  PROVE  [kind |-> kind, by |-> a] \in Message
BY DEF Message

LEMMA PushType ==
  ASSUME DataOK, NEW r \in Request, NEW kind \in MessageKind, Push(r, kind)
  PROVE  turn' \in [Request -> Seq(Message)]
<1> DEFINE msg == [kind |-> kind, by |-> r]
<1>1. msg \in Message
  BY MessageType DEF Actor
<1> HIDE DEF msg
<1>2. turn' = [turn EXCEPT ![r] = Append(turn[r], msg)]
  BY DEF Push, msg
<1>3. QED
  BY <1>1, <1>2, AppendAt DEF DataOK

LEMMA CauseType ==
  ASSUME DataOK, NEW a \in Actor, BecomesCause(a)
  PROVE  cause' \in [Actor -> Nat]
<1>1. Len(trail[a]) \in Nat
  BY DEF DataOK
<1>2. QED
  BY <1>1 DEF DataOK, BecomesCause

\* The call a handler has in hand, and the calls after it.
LEMMA CurrentType ==
  ASSUME ControlOK, NEW a \in Actor, pc[a] \in WithCall
  PROVE  /\ Current(a) \in Call
         /\ Tail(todo[a]) \in Seq(Call)
         /\ Len(todo[a]) \in Nat
         /\ Len(todo[a]) > 1 => Tail(todo[a]) # <<>>
<1> DEFINE s == todo[a]
<1>1. s \in Seq(Call) /\ s # <<>>
  BY DEF ControlOK
<1> HIDE DEF s
<1>2. /\ Head(s) \in Call
      /\ Tail(s) \in Seq(Call)
      /\ Len(s) \in Nat
      /\ Len(Tail(s)) = Len(s) - 1
  BY <1>1, HeadTailProperties
<1>3. ASSUME Len(s) > 1 PROVE Tail(s) # <<>>
  <2>1. Len(Tail(s)) # Len(<<>>)
    BY <1>2, <1>3
  <2>2. QED
    BY <2>1, Zenon
<1>4. QED
  BY <1>2, <1>3 DEF s

\* The two ways control moves on: to the next call, and out of the handler.
LEMMA NextCallType ==
  ASSUME ControlOK, NEW r \in Request, pc[r] \in {"denied", "result"},
         NextCall(r), permits' = permits, session' = session
  PROVE  ControlOK'
<1>1. r \in Actor
  BY DEF Actor
<1>2. /\ Tail(todo[r]) \in Seq(Call)
      /\ Len(todo[r]) \in Nat
      /\ Len(todo[r]) > 1 => Tail(todo[r]) # <<>>
  BY <1>1, CurrentType DEF WithCall
<1>3. todo' \in [Actor -> Seq(Call)]
  BY <1>2 DEF NextCall, ControlOK
<1>4. /\ pc'[r] \in {"propose", "model", "complete"}
      /\ pc' = [pc EXCEPT ![r] = pc'[r]]
  BY <1>1 DEF NextCall, LoopHead, ControlOK
<1>5. pc'[r] \in WithCall => Len(todo[r]) > 1
  BY <1>1 DEF NextCall, LoopHead, WithCall, ControlOK
<1>6. \A a \in Actor : pc'[a] \in WithCall => todo'[a] # <<>>
  BY <1>1, <1>2, <1>4, <1>5 DEF NextCall, ControlOK
<1>7. QED
  BY <1>3, <1>4, <1>6, ActorAssumption
     DEF ControlOK, Working, Confirming, Ended, Actor

LEMMA EndType ==
  ASSUME ControlOK, NEW a \in Actor, NEW how \in Ended, permits' \in Nat,
         session' = session, todo' = todo, Goto(a, how)
  PROVE  ControlOK'
<1>1. how \notin WithCall /\ how \notin Working
  BY DEF Ended, WithCall, Working
<1>2. pc' \in [Actor -> {"idle"} \cup Working \cup Confirming \cup Ended]
  BY DEF ControlOK
<1>3. \A r \in Request : pc'[r] \in {"idle"} \cup Working \cup Ended
  BY DEF ControlOK, Actor
<1>4. \A c \in Confirm : pc'[c] \in {"idle"} \cup Confirming \cup Ended
  BY DEF ControlOK, Actor
<1>5. \A r \in Request : pc'[r] \in Working => session[r] \in Session
  BY <1>1 DEF ControlOK, Actor
<1>6. \A b \in Actor : pc'[b] \in WithCall => todo[b] # <<>>
  BY <1>1 DEF ControlOK
<1>7. QED
  BY <1>2, <1>3, <1>4, <1>5, <1>6 DEF ControlOK

LEMMA AdmitTypeOK ==
  ASSUME TypeOK, NEW r \in Request, NEW s \in Session, Admit(r, s)
  PROVE  TypeOK'
<1>1. ControlOK'
  BY ActorAssumption, ReplyAssumption
     DEF TypeOK, ControlOK, Actor, Working, Confirming, Ended, WithCall,
         Admit
<1>3. DataOK'
  BY DEF TypeOK, DataOK, Actor, Admit
<1>4. QED
  BY <1>1, <1>3 DEF TypeOK

LEMMA RefuseTypeOK ==
  ASSUME TypeOK, NEW r \in Request, Refuse(r)
  PROVE  TypeOK'
<1>1. ControlOK'
  BY ActorAssumption, ReplyAssumption
     DEF TypeOK, ControlOK, Actor, Working, Confirming, Ended, WithCall,
         Refuse
<1>3. DataOK'
  BY DEF TypeOK, DataOK, Actor, Refuse
<1>4. QED
  BY <1>1, <1>3 DEF TypeOK

LEMMA AcceptTypeOK ==
  ASSUME TypeOK, NEW r \in Request, Accept(r)
  PROVE  TypeOK'
<1>1. ControlOK'
  BY ActorAssumption, ReplyAssumption
     DEF TypeOK, ControlOK, Actor, Working, Confirming, Ended, WithCall,
         Accept, LoopHead
<1>2. trail' \in [Actor -> Seq(AuditRecord)]
  BY LogType DEF TypeOK, ControlOK, Actor, WithCall, Accept
<1>3. DataOK'
  <2>1. r \in Actor /\ session[r] \in Session
    BY DEF TypeOK, ControlOK, Actor, Accept, Working
  <2>2. cause' \in [Actor -> Nat]
    BY <2>1, CauseType DEF TypeOK, Accept
  <2>3. turn' \in [Request -> Seq(Message)]
    <3> DEFINE msg == [kind |-> "user", by |-> r]
    <3>1. msg \in Message
      BY <2>1, MessageType DEF MessageKind
    <3> HIDE DEF msg
    <3>2. chats[session[r]] \in Seq(Message)
      BY <2>1 DEF TypeOK, DataOK
    <3>3. Append(chats[session[r]], msg) \in Seq(Message)
      BY <3>1, <3>2
    <3>4. turn' = [turn EXCEPT ![r] = Append(chats[session[r]], msg)]
      BY DEF Accept, msg
    <3>5. QED
      BY <3>3, <3>4 DEF TypeOK, DataOK
  <2>4. QED
    BY <1>2, <2>2, <2>3 DEF TypeOK, DataOK, Accept
<1>4. QED
  BY <1>1, <1>3 DEF TypeOK

LEMMA ModelReplyTypeOK ==
  ASSUME TypeOK, NEW r \in Request, NEW reply \in Reply, ModelReply(r, reply)
  PROVE  TypeOK'
<1>1. ControlOK'
  BY ActorAssumption, ReplyAssumption
     DEF TypeOK, ControlOK, Actor, Working, Confirming, Ended, WithCall,
         ModelReply
<1>2. iter' \in [Request -> Nat]
  <2>1. iter \in [Request -> Nat] /\ iter' = [iter EXCEPT ![r] = iter[r] + 1]
    BY DEF TypeOK, DataOK, ModelReply
  <2>2. QED
    BY <2>1
<1>3. CASE reply.text
  <2>1. r \in Actor
    BY DEF Actor
  <2>2. trail' \in [Actor -> Seq(AuditRecord)]
    BY <1>3, <2>1, LogType DEF TypeOK, ModelReply
  <2>3. cause' \in [Actor -> Nat]
    BY <1>3, <2>1, CauseType DEF TypeOK, ModelReply
  <2>4. turn' \in [Request -> Seq(Message)]
    BY <1>3, PushType DEF TypeOK, ModelReply, MessageKind
  <2>5. DataOK'
    BY <1>2, <2>2, <2>3, <2>4 DEF TypeOK, DataOK, ModelReply
  <2>6. QED
    BY <1>1, <2>5 DEF TypeOK
<1>4. CASE ~reply.text
  <2>1. UNCHANGED <<trail, cause, turn>>
    BY <1>4 DEF ModelReply
  <2>2. DataOK'
    BY <1>2, <2>1 DEF TypeOK, DataOK, ModelReply
  <2>3. QED
    BY <1>1, <2>2 DEF TypeOK
<1>5. QED
  BY <1>3, <1>4

LEMMA ProposeCallTypeOK ==
  ASSUME TypeOK, NEW r \in Request, ProposeCall(r)
  PROVE  TypeOK'
<1>1. ControlOK'
  BY ActorAssumption, ReplyAssumption
     DEF TypeOK, ControlOK, Actor, Working, Confirming, Ended, WithCall,
         ProposeCall
<1>2. r \in Actor /\ Current(r) \in Call
  BY CurrentType DEF TypeOK, Actor, WithCall, ProposeCall
<1>3. DataOK'
  <2>1. trail' \in [Actor -> Seq(AuditRecord)]
    BY <1>2, LogType DEF TypeOK, ProposeCall
  <2>2. cause' \in [Actor -> Nat]
    BY <1>2, CauseType DEF TypeOK, ProposeCall
  <2>3. QED
    BY <2>1, <2>2 DEF TypeOK, DataOK, ProposeCall
<1>4. QED
  BY <1>1, <1>3 DEF TypeOK

LEMMA DecideCallTypeOK ==
  ASSUME TypeOK, NEW r \in Request, DecideCall(r)
  PROVE  TypeOK'
<1>1. /\ r \in Actor
      /\ Current(r) \in Call
      /\ Verdict(Current(r)) \in PolicyVerdict
  BY CurrentType, VerdictType DEF TypeOK, Actor, WithCall, DecideCall
<1>2. ControlOK'
  <2>1. /\ pc'[r] \in {"denied", "ask", "execute"}
        /\ pc' = [pc EXCEPT ![r] = pc'[r]]
        /\ todo[r] # <<>> /\ session[r] \in Session
    BY <1>1 DEF DecideCall, PolicyVerdict, TypeOK, ControlOK, WithCall, Working
  <2>2. QED
    BY <2>1, <1>1, ActorAssumption
       DEF TypeOK, ControlOK, Actor, Working, Confirming, Ended, DecideCall
<1>3. DataOK'
  <2>1. trail' \in [Actor -> Seq(AuditRecord)]
    BY <1>1, LogType DEF TypeOK, DecideCall, PolicyVerdict
  <2>2. cause' \in [Actor -> Nat]
    BY <1>1, CauseType DEF TypeOK, DecideCall
  <2>3. QED
    BY <2>1, <2>2 DEF TypeOK, DataOK, DecideCall
<1>4. QED
  BY <1>2, <1>3 DEF TypeOK

LEMMA RecordDenialTypeOK ==
  ASSUME TypeOK, NEW r \in Request, RecordDenial(r)
  PROVE  TypeOK'
<1>1. ControlOK'
  BY NextCallType DEF TypeOK, RecordDenial
<1>2. r \in Actor /\ Current(r) \in Call
  BY CurrentType DEF TypeOK, Actor, WithCall, RecordDenial
<1>3. DataOK'
  <2>1. trail' \in [Actor -> Seq(AuditRecord)]
    BY <1>2, LogType DEF TypeOK, RecordDenial
  <2>2. turn' \in [Request -> Seq(Message)]
    BY PushType DEF TypeOK, RecordDenial, MessageKind, ToolResultKind
  <2>3. QED
    BY <2>1, <2>2 DEF TypeOK, DataOK, RecordDenial
<1>4. QED
  BY <1>1, <1>3 DEF TypeOK

LEMMA AskUserTypeOK ==
  ASSUME TypeOK, NEW r \in Request, AskUser(r)
  PROVE  TypeOK'
<1>1. ControlOK'
  BY ActorAssumption, ReplyAssumption
     DEF TypeOK, ControlOK, Actor, Working, Confirming, Ended, WithCall,
         AskUser
<1>2. r \in Actor /\ Current(r) \in Call
  BY CurrentType DEF TypeOK, Actor, WithCall, AskUser
<1>3. DataOK'
  <2>1. trail' \in [Actor -> Seq(AuditRecord)]
    BY <1>2, LogType DEF TypeOK, AskUser
  <2>2. QED
    BY <2>1 DEF TypeOK, DataOK, AskUser
<1>4. QED
  BY <1>1, <1>3 DEF TypeOK

LEMMA RecordResultTypeOK ==
  ASSUME TypeOK, NEW r \in Request, RecordResult(r)
  PROVE  TypeOK'
<1>1. ControlOK'
  BY NextCallType DEF TypeOK, RecordResult
<1>2. r \in Actor /\ Current(r) \in Call
  BY CurrentType DEF TypeOK, Actor, WithCall, RecordResult
<1>3. DataOK'
  <2>1. trail' \in [Actor -> Seq(AuditRecord)]
    BY <1>2, LogType DEF TypeOK, RecordResult
  <2>2. turn' \in [Request -> Seq(Message)]
    BY PushType DEF TypeOK, RecordResult, MessageKind, ToolResultKind
  <2>3. cause' \in [Actor -> Nat]
    BY <1>2, CauseType DEF TypeOK, RecordResult
  <2>4. QED
    BY <2>1, <2>2, <2>3 DEF TypeOK, DataOK, RecordResult
<1>4. QED
  BY <1>1, <1>3 DEF TypeOK

LEMMA CompleteTypeOK ==
  ASSUME TypeOK, NEW r \in Request, Complete(r)
  PROVE  TypeOK'
<1>1. ControlOK'
  BY ActorAssumption, ReplyAssumption
     DEF TypeOK, ControlOK, Actor, Working, Confirming, Ended, WithCall,
         Complete
<1>2. trail' \in [Actor -> Seq(AuditRecord)]
  BY LogType DEF TypeOK, ControlOK, Actor, WithCall, Complete
<1>3. DataOK'
  BY <1>2 DEF TypeOK, DataOK, Actor, Complete
<1>4. QED
  BY <1>1, <1>3 DEF TypeOK

LEMMA PersistTypeOK ==
  ASSUME TypeOK, NEW r \in Request, Persist(r)
  PROVE  TypeOK'
<1>1. ControlOK'
  BY ActorAssumption, ReplyAssumption
     DEF TypeOK, ControlOK, Actor, Working, Confirming, Ended, WithCall,
         Persist
<1>3. DataOK'
  BY TrimmedType DEF TypeOK, DataOK, Actor, Persist, ControlOK, Working
<1>4. QED
  BY <1>1, <1>3 DEF TypeOK

LEMMA TimeoutTypeOK ==
  ASSUME TypeOK, NEW r \in Request, Timeout(r)
  PROVE  TypeOK'
<1>1. ControlOK'
  BY ActorAssumption, ReplyAssumption
     DEF TypeOK, ControlOK, Actor, Working, Confirming, Ended, WithCall,
         Timeout, Suspended
<1>3. DataOK'
  BY DEF TypeOK, DataOK, Actor, Timeout
<1>4. QED
  BY <1>1, <1>3 DEF TypeOK

LEMMA StartToolTypeOK ==
  ASSUME TypeOK, NEW a \in Actor, StartTool(a)
  PROVE  TypeOK'
<1>1. ControlOK'
  BY ActorAssumption, ReplyAssumption
     DEF TypeOK, ControlOK, Actor, Working, Confirming, Ended, WithCall,
         StartTool
<1>3. DataOK'
  BY DEF TypeOK, DataOK, Actor, StartTool, ControlOK, WithCall
<1>4. QED
  BY <1>1, <1>3 DEF TypeOK

LEMMA FinishToolTypeOK ==
  ASSUME TypeOK, NEW a \in Actor, FinishTool(a)
  PROVE  TypeOK'
<1>1. ControlOK'
  BY ActorAssumption, ReplyAssumption
     DEF TypeOK, ControlOK, Actor, Working, Confirming, Ended, WithCall,
         FinishTool
<1>3. DataOK'
  BY DEF TypeOK, DataOK, Actor, FinishTool
<1>4. QED
  BY <1>1, <1>3 DEF TypeOK

LEMMA ToolRefusesTypeOK ==
  ASSUME TypeOK, NEW a \in Actor, ToolRefuses(a)
  PROVE  TypeOK'
<1>1. ControlOK'
  <2>1. permits' \in Nat /\ Goto(a, "error")
    BY DEF TypeOK, ControlOK, ToolRefuses
  <2>2. QED
    BY <2>1, EndType DEF TypeOK, ToolRefuses, Ended
<1>3. DataOK'
  BY DEF TypeOK, DataOK, ToolRefuses
<1>4. QED
  BY <1>1, <1>3 DEF TypeOK

LEMMA AbortTypeOK ==
  ASSUME TypeOK, NEW a \in Actor, Abort(a)
  PROVE  TypeOK'
<1>1. ControlOK'
  <2>1. permits' \in Nat /\ Goto(a, "error")
    BY DEF TypeOK, ControlOK, Abort
  <2>2. QED
    BY <2>1, EndType DEF TypeOK, Abort, Ended
<1>3. DataOK'
  BY DEF TypeOK, DataOK, Abort
<1>4. QED
  BY <1>1, <1>3 DEF TypeOK

LEMMA RespondTypeOK ==
  ASSUME TypeOK, NEW c \in Confirm, NEW call \in Call,
         NEW scope \in {"once", "session", "cancel"},
         NEW s \in Session \cup {NoSession}, Respond(c, call, scope, s)
  PROVE  TypeOK'
<1>1. ControlOK'
  BY ActorAssumption, ReplyAssumption
     DEF TypeOK, ControlOK, Actor, Working, Confirming, Ended, WithCall,
         Respond
<1>2. c \in Actor
  BY DEF Actor
<1>3. DataOK'
  <2>1. trail' \in [Actor -> Seq(AuditRecord)]
    BY <1>2, LogType DEF TypeOK, Respond
  <2>2. cause' \in [Actor -> Nat]
    BY <1>2, CauseType DEF TypeOK, Respond
  <2>3. grants' \subseteq STRING
    BY CallAssumption DEF TypeOK, DataOK, Respond, GrantsAfter
  <2>4. QED
    BY <2>1, <2>2, <2>3 DEF TypeOK, DataOK, Respond
<1>4. QED
  BY <1>1, <1>3 DEF TypeOK

LEMMA CheckTypeOK ==
  ASSUME TypeOK, NEW c \in Confirm, Check(c)
  PROVE  TypeOK'
<1>1. ControlOK'
  BY ActorAssumption, ReplyAssumption
     DEF TypeOK, ControlOK, Actor, Working, Confirming, Ended, WithCall,
         Check
<1>3. DataOK'
  BY DEF TypeOK, DataOK, Actor, Check
<1>4. QED
  BY <1>1, <1>3 DEF TypeOK

LEMMA ConfirmedResultTypeOK ==
  ASSUME TypeOK, NEW c \in Confirm, ConfirmedResult(c)
  PROVE  TypeOK'
<1>1. ControlOK'
  BY ActorAssumption, ReplyAssumption
     DEF TypeOK, ControlOK, Actor, Working, Confirming, Ended, WithCall,
         ConfirmedResult
<1>2. c \in Actor /\ Current(c) \in Call
  BY CurrentType DEF TypeOK, Actor, WithCall, ConfirmedResult
<1>3. DataOK'
  <2>1. trail' \in [Actor -> Seq(AuditRecord)]
    BY <1>2, LogType DEF TypeOK, ConfirmedResult
  <2>2. QED
    BY <2>1 DEF TypeOK, DataOK, ConfirmedResult
<1>4. QED
  BY <1>1, <1>3 DEF TypeOK

LEMMA AppendOutcomeTypeOK ==
  ASSUME TypeOK, NEW c \in Confirm, AppendOutcome(c)
  PROVE  TypeOK'
<1>1. ControlOK'
  BY ActorAssumption, ReplyAssumption
     DEF TypeOK, ControlOK, Actor, Working, Confirming, Ended, WithCall,
         AppendOutcome
<1>2. CASE session[c] = NoSession
  BY <1>1, <1>2 DEF TypeOK, DataOK, AppendOutcome
<1>3. CASE session[c] # NoSession
  <2> DEFINE s == session[c]
             msg == [kind |-> Told(c), by |-> c]
  <2>1. c \in Actor /\ s \in Session
    BY <1>3 DEF TypeOK, ControlOK, Actor
  <2>2. msg \in Message
    BY <2>1, MessageType DEF Told, MessageKind, ToolResultKind
  <2>3. chats' = [chats EXCEPT ![s] = Trimmed(Append(chats[s], msg))]
    BY <1>3 DEF AppendOutcome
  <2> HIDE DEF s, msg
  <2>4. chats[s] \in Seq(Message)
    BY <2>1 DEF TypeOK, DataOK
  <2>5. Append(chats[s], msg) \in Seq(Message)
    BY <2>2, <2>4
  <2>6. Trimmed(Append(chats[s], msg)) \in Seq(Message)
    BY <2>5, TrimmedType, Zenon
  <2>7. chats' \in [Session -> Seq(Message)]
    BY <2>3, <2>6 DEF TypeOK, DataOK
  <2>8. QED
    BY <1>1, <2>7 DEF TypeOK, DataOK, AppendOutcome
<1>4. QED
  BY <1>2, <1>3

LEMMA ChatResetTypeOK ==
  ASSUME TypeOK, NEW s \in Session, ChatReset(s)
  PROVE  TypeOK'
<1>1. ControlOK'
  BY DEF TypeOK, ControlOK, ChatReset
<1>2. <<>> \in Seq(Message)
  OBVIOUS
<1>3. DataOK'
  <2>1. chats' \in [Session -> Seq(Message)]
    BY <1>2 DEF TypeOK, DataOK, ChatReset
  <2>2. QED
    BY <2>1 DEF TypeOK, DataOK, ChatReset
<1>4. QED
  BY <1>1, <1>3 DEF TypeOK

LEMMA ClearGrantsTypeOK ==
  ASSUME TypeOK, ClearGrants
  PROVE  TypeOK'
<1>1. ControlOK'
  BY DEF TypeOK, ControlOK, ClearGrants
<1>3. DataOK'
  BY DEF TypeOK, DataOK, ClearGrants
<1>4. QED
  BY <1>1, <1>3 DEF TypeOK

LEMMA RestartTypeOK ==
  ASSUME TypeOK, Restart
  PROVE  TypeOK'
<1>1. ControlOK'
  <2>1. permits' \in Nat
    BY BudgetAssumption DEF Restart
  <2>2. \A a \in Actor : pc'[a] \in {pc[a], "lost"} /\ pc'[a] \in Ended \cup {"idle"}
    BY DEF Restart, Ended
  <2>3. pc' \in [Actor -> {"idle"} \cup Working \cup Confirming \cup Ended]
    BY DEF TypeOK, ControlOK, Restart, Ended
  <2>4. /\ \A r \in Request : pc'[r] \in {"idle"} \cup Working \cup Ended
        /\ \A c \in Confirm : pc'[c] \in {"idle"} \cup Confirming \cup Ended
    BY <2>2 DEF Actor
  <2>5. /\ \A r \in Request : pc'[r] \notin Working
        /\ \A a \in Actor : pc'[a] \notin WithCall
    BY <2>2 DEF Actor, Ended, Working, WithCall
  <2>6. QED
    BY <2>1, <2>3, <2>4, <2>5 DEF TypeOK, ControlOK, Restart
<1>3. DataOK'
  BY DEF TypeOK, DataOK, Restart
<1>4. QED
  BY <1>1, <1>3 DEF TypeOK

\* Every step keeps the type invariant.
LEMMA NextTypeOK == TypeOK /\ [Next]_vars => TypeOK'
<1> SUFFICES ASSUME TypeOK, [Next]_vars
             PROVE  TypeOK'
  OBVIOUS
<1>1. ASSUME NEW r \in Request, RequestStep(r)
      PROVE  TypeOK'
  BY <1>1, AcceptTypeOK, ProposeCallTypeOK, DecideCallTypeOK,
     RecordDenialTypeOK, AskUserTypeOK, StartToolTypeOK, ToolRefusesTypeOK,
     RecordResultTypeOK, CompleteTypeOK, PersistTypeOK
     DEF RequestStep, Actor
<1>2. ASSUME NEW c \in Confirm, ConfirmStep(c)
      PROVE  TypeOK'
  BY <1>2, CheckTypeOK, StartToolTypeOK, ToolRefusesTypeOK,
     FinishToolTypeOK, ConfirmedResultTypeOK, AppendOutcomeTypeOK,
     AbortTypeOK
     DEF ConfirmStep, Actor
<1>3. CASE UNCHANGED vars
  <2>1. ControlOK'
    BY <1>3 DEF TypeOK, ControlOK, vars
  <2>2. DataOK'
    BY <1>3 DEF TypeOK, DataOK, vars
  <2>3. QED
    BY <2>1, <2>2 DEF TypeOK
<1>4. CASE Next
  BY <1>1, <1>2, <1>4, AdmitTypeOK, RefuseTypeOK, ModelReplyTypeOK,
     FinishToolTypeOK, TimeoutTypeOK, AbortTypeOK, RespondTypeOK,
     ChatResetTypeOK, ClearGrantsTypeOK, RestartTypeOK
     DEF Next, Actor
<1>5. QED
  BY <1>3, <1>4

\* Type correctness: whatever the interleaving of requests, confirmations,
\* timeouts and restarts, a handler is at a place of its own kind with the
\* session and the call that place needs, and what it stores is well formed.
THEOREM TypeCorrect == Spec => []TypeOK
<1>1. QED
  BY InitTypeOK, NextTypeOK, PTL DEF Spec
=============================================================================
