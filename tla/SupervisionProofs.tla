------------------------- MODULE SupervisionProofs --------------------------
(***************************************************************************)
(* Theorems about slots and the way of a request to its end, and about the *)
(* promise of SupervisedExecution, which the runtime, with its permits,    *)
(* control states and audit records, implements: an approval is the moment *)
(* between the verdict on a call and the start of its tool.                *)
(***************************************************************************)
EXTENDS AiRuntimeProofs

USE DEF InFlight, Current, Goto, Leave, Fail

-----------------------------------------------------------------------------
(* Slots *)

\* The cardinality in SlotsConserved means something only for a finite set.
SlotsInv == IsFiniteSet(Serving) /\ SlotsConserved

-----------------------------------------------------------------------------
(* The three things a step may do to the slots *)

LEMMA TakesSlot ==
  ASSUME TypeOK, SlotsInv, NEW r \in Request, NEW where \in Working,
         ~InFlight(r), Goto(r, where), permits' = permits - 1
  PROVE  SlotsInv'
<1>1. Serving' = Serving \cup {r} /\ r \notin Serving
  BY DEF Serving, TypeOK, ControlOK, Actor
<1>2. IsFiniteSet(Serving') /\ Cardinality(Serving') = Cardinality(Serving) + 1
  BY <1>1, FS_AddElement DEF SlotsInv
<1>3. Cardinality(Serving) \in Nat
  BY FS_CardinalityType DEF SlotsInv
<1>4. QED
  BY <1>2, <1>3, BudgetAssumption
     DEF SlotsInv, SlotsConserved, TypeOK, ControlOK

LEMMA GivesSlotBack ==
  ASSUME TypeOK, SlotsInv, NEW r \in Request, NEW how \in Ended,
         InFlight(r), Leave(r, how)
  PROVE  SlotsInv'
<1>1. Serving' = Serving \ {r} /\ r \in Serving
  BY DEF Serving, TypeOK, ControlOK, Actor, Ended, Working
<1>2. IsFiniteSet(Serving') /\ Cardinality(Serving') = Cardinality(Serving) - 1
  BY <1>1, FS_RemoveElement DEF SlotsInv
<1>3. Cardinality(Serving) \in Nat
  BY FS_CardinalityType DEF SlotsInv
<1>4. QED
  BY <1>2, <1>3, BudgetAssumption
     DEF SlotsInv, SlotsConserved, TypeOK, ControlOK

LEMMA KeepsSlots ==
  ASSUME SlotsInv, permits' = permits,
         \A r \in Request : InFlight(r)' <=> InFlight(r)
  PROVE  SlotsInv'
<1>1. Serving' = Serving
  BY DEF Serving
<1>2. QED
  BY <1>1 DEF SlotsInv, SlotsConserved

-----------------------------------------------------------------------------
(* The actions *)

LEMMA RequestStepSlots ==
  ASSUME TypeOK, SlotsInv, NEW r \in Request, RequestStep(r)
  PROVE  SlotsInv'
<1>1. r \in Actor
  BY DEF Actor
<1>2. CASE Persist(r)
  <2>1. PICK how \in {"ok", "pending"} : Leave(r, how)
    BY <1>2 DEF Persist
  <2>2. how \in Ended /\ InFlight(r)
    BY <1>2 DEF Persist, Ended, Working
  <2>3. QED
    BY <2>1, <2>2, GivesSlotBack
<1>3. CASE ToolRefuses(r)
  BY <1>3, GivesSlotBack DEF ToolRefuses, Ended, Working
<1>4. CASE ~Persist(r) /\ ~ToolRefuses(r)
  <2>1. /\ permits' = permits
        /\ pc[r] \in Working
        /\ pc' = [pc EXCEPT ![r] = pc'[r]]
    BY <1>1, <1>4
       DEF RequestStep, Accept, ProposeCall, DecideCall, RecordDenial,
           AskUser, StartTool, RecordResult, Complete, NextCall, Working,
           TypeOK, ControlOK
  <2>2. pc'[r] \in Working
    <3>1. CASE DecideCall(r)
      <4>1. Verdict(Current(r)) \in PolicyVerdict
        BY <1>1, <3>1, CurrentType, VerdictType
           DEF TypeOK, WithCall, DecideCall
      <4>2. QED
        BY <1>1, <3>1, <4>1
           DEF DecideCall, PolicyVerdict, Working, TypeOK, ControlOK
    <3>2. CASE ~DecideCall(r)
      BY <1>1, <1>4, <3>2
         DEF RequestStep, Accept, ProposeCall, RecordDenial, AskUser,
             StartTool, RecordResult, Complete, NextCall, LoopHead, Working,
             TypeOK, ControlOK
    <3>3. QED
      BY <3>1, <3>2
  <2>3. \A q \in Request : InFlight(q)' <=> InFlight(q)
    BY <2>1, <2>2 DEF Actor, TypeOK, ControlOK
  <2>4. QED
    BY <2>1, <2>3, KeepsSlots
<1>5. QED
  BY <1>2, <1>3, <1>4

\* Confirmations hold no slot.
LEMMA ConfirmStepSlots ==
  ASSUME TypeOK, SlotsInv, NEW c \in Confirm, ConfirmStep(c)
  PROVE  SlotsInv'
<1>1. c \notin Request
  BY ActorAssumption
<1>2. permits' = permits /\ \A r \in Request : pc'[r] = pc[r]
  BY <1>1
     DEF ConfirmStep, Check, StartTool, ToolRefuses, FinishTool,
         ConfirmedResult, AppendOutcome, Abort, TypeOK, ControlOK, Actor
<1>3. QED
  BY <1>2, KeepsSlots

LEMMA InitSlots == Init => SlotsInv
<1> SUFFICES ASSUME Init
             PROVE  SlotsInv
  OBVIOUS
<1>1. Serving = {}
  BY DEF Init, Serving, Working, Actor
<1>2. QED
  BY <1>1, FS_EmptySet, BudgetAssumption DEF Init, SlotsInv, SlotsConserved

LEMMA NextSlots == TypeOK /\ SlotsInv /\ [Next]_vars => SlotsInv'
<1> SUFFICES ASSUME TypeOK, SlotsInv, [Next]_vars
             PROVE  SlotsInv'
  OBVIOUS
<1>1. ASSUME NEW r \in Request, NEW s \in Session, Admit(r, s)
      PROVE  SlotsInv'
  BY <1>1, TakesSlot DEF Admit, Working
<1>2. ASSUME NEW r \in Request,
             \/ Refuse(r)
             \/ \E reply \in Reply : ModelReply(r, reply)
             \/ FinishTool(r)
      PROVE  SlotsInv'
  <2>1. permits' = permits /\ \A q \in Request : InFlight(q)' <=> InFlight(q)
    BY <1>2 DEF Refuse, ModelReply, FinishTool, Working, TypeOK, ControlOK,
                Actor
  <2>2. QED
    BY <2>1, KeepsSlots
<1>3. ASSUME NEW r \in Request, Timeout(r)
      PROVE  SlotsInv'
  BY <1>3, GivesSlotBack DEF Timeout, Suspended, Ended, Working
<1>4. ASSUME NEW r \in Request, Abort(r)
      PROVE  SlotsInv'
  <2>1. pc[r] \in Fallible
    BY <1>4, ActorAssumption DEF Abort
  <2>2. QED
    BY <1>4, <2>1, GivesSlotBack DEF Abort, Fallible, Ended, Working
<1>5. ASSUME NEW c \in Confirm, NEW call \in Call,
             NEW scope \in {"once", "session", "cancel"},
             NEW s \in Session \cup {NoSession}, Respond(c, call, scope, s)
      PROVE  SlotsInv'
  <2>1. permits' = permits /\ \A r \in Request : pc'[r] = pc[r]
    BY <1>5, ActorAssumption DEF Respond, TypeOK, ControlOK, Actor
  <2>2. QED
    BY <2>1, KeepsSlots
<1>6. CASE Restart
  <2>1. Serving' = {}
    BY <1>6 DEF Serving, Restart, Working, Ended, Actor
  <2>2. permits' = MaxConcurrent
    BY <1>6 DEF Restart
  <2>3. QED
    BY <2>1, <2>2, FS_EmptySet, BudgetAssumption DEF SlotsInv, SlotsConserved
<1>7. CASE \/ \E s \in Session : ChatReset(s)
           \/ ClearGrants
           \/ UNCHANGED vars
  <2>1. permits' = permits /\ pc' = pc
    BY <1>7 DEF ChatReset, ClearGrants, vars
  <2>2. QED
    BY <2>1, KeepsSlots
<1>8. QED
  BY <1>1, <1>2, <1>3, <1>4, <1>5, <1>6, <1>7, RequestStepSlots,
     ConfirmStepSlots
     DEF Next

\* Every way out of a request gives its permit back exactly once, so the
\* budget of concurrent requests neither leaks away nor grows, whatever
\* requests, confirmations, failures, timeouts and restarts interleave.
THEOREM SlotsAreConserved == Spec => []SlotsConserved
<1>1. SlotsInv => SlotsConserved
  BY DEF SlotsInv
<1>2. QED
  BY <1>1, TypeCorrect, InitSlots, NextSlots, PTL DEF Spec

-----------------------------------------------------------------------------
(* One request at a time *)

\* Where a request has read its session and not left yet.
AfterRead == Working \ {"accept"}

Tells(messages, by) == \E i \in DOMAIN messages : messages[i].by = by

\* Why TurnsKept holds of a step that saves a turn: what the session holds was
\* there when the request in flight read it.
KeptInv ==
  \A r \in Request : pc[r] \in AfterRead =>
    \A i \in DOMAIN chats[session[r]] : Tells(turn[r], chats[session[r]][i].by)

\* With a budget of one, two requests in flight are the same.
LEMMA Alone ==
  ASSUME MaxConcurrent = 1, TypeOK, SlotsInv,
         NEW r \in Request, NEW q \in Request, InFlight(r), InFlight(q)
  PROVE  r = q
<1> SUFFICES ASSUME r # q PROVE FALSE
  OBVIOUS
<1>1. {r, q} \subseteq Serving /\ {r, q} = {r} \cup {q}
  BY DEF Serving
<1>2. IsFiniteSet({r}) /\ Cardinality({r}) = 1
  BY FS_Singleton
<1>3. Cardinality({r, q}) = 2
  <2>1. q \notin {r}
    OBVIOUS
  <2>2. Cardinality({r} \cup {q}) = Cardinality({r}) + 1
    BY <1>2, <2>1, FS_AddElement
  <2>3. QED
    BY <1>1, <1>2, <2>2
<1>4. Cardinality({r, q}) <= Cardinality(Serving) /\ Cardinality(Serving) \in Nat
  BY <1>1, FS_Subset, FS_CardinalityType DEF SlotsInv
<1>5. QED
  BY <1>3, <1>4 DEF SlotsInv, SlotsConserved, TypeOK, ControlOK

LEMMA SilentKept ==
  ASSUME KeptInv, UNCHANGED <<chats, turn>>,
         \A q \in Request : pc'[q] \in AfterRead =>
                              pc[q] \in AfterRead /\ session'[q] = session[q]
  PROVE  KeptInv'
BY DEF KeptInv, Tells

\* The turn of r becomes `base` and a message more.
LEMMA PushKept ==
  ASSUME TypeOK, KeptInv, NEW r \in Request, NEW kind \in MessageKind,
         NEW base \in Seq(Message),
         turn' = [turn EXCEPT ![r] = Append(base, [kind |-> kind, by |-> r])],
         UNCHANGED <<chats, session>>,
         \A b \in Actor : b # r => pc'[b] = pc[b],
         \A i \in DOMAIN chats[session[r]] : Tells(base, chats[session[r]][i].by)
  PROVE  KeptInv'
<1> DEFINE msg == [kind |-> kind, by |-> r]
<1>1. msg \in Message
  BY MessageType DEF Actor
<1>2. turn'[r] = Append(base, msg)
      /\ \A q \in Request : q # r => turn'[q] = turn[q]
  BY DEF TypeOK, DataOK, msg
<1> HIDE DEF msg
<1>3. \A i \in DOMAIN base :
        i \in DOMAIN Append(base, msg) /\ Append(base, msg)[i] = base[i]
  BY <1>1
<1>4. \A i \in DOMAIN chats[session[r]] :
        Tells(turn'[r], chats[session[r]][i].by)
  BY <1>2, <1>3 DEF Tells
<1>5. ASSUME NEW q \in Request, pc'[q] \in AfterRead,
             NEW i \in DOMAIN chats[session[q]]
      PROVE  Tells(turn'[q], chats[session[q]][i].by)
  <2>1. CASE q = r
    BY <1>4, <2>1
  <2>2. CASE q # r
    BY <1>2, <1>5, <2>2 DEF KeptInv, Actor
  <2>3. QED
    BY <2>1, <2>2
<1>6. QED
  BY <1>5 DEF KeptInv, Tells

LEMMA RequestKept ==
  ASSUME TypeOK, KeptInv, NEW r \in Request,
         \/ Accept(r)
         \/ \E reply \in Reply : ModelReply(r, reply)
         \/ RecordDenial(r) \/ RecordResult(r)
  PROVE  KeptInv'
<1>1. r \in Actor /\ UNCHANGED <<chats, session>>
  BY DEF Actor, Accept, ModelReply, RecordDenial, RecordResult
<1>2. \A b \in Actor : b # r => pc'[b] = pc[b]
  BY <1>1 DEF Accept, ModelReply, RecordDenial, RecordResult, NextCall,
       TypeOK, ControlOK
<1>3. CASE Accept(r)
  <2>1. chats[session[r]] \in Seq(Message)
    BY <1>3 DEF Accept, TypeOK, ControlOK, DataOK, Working
  <2>2. PICK kind \in {"user"} :
          turn' = [turn EXCEPT ![r] =
                     Append(chats[session[r]], [kind |-> kind, by |-> r])]
    BY <1>3 DEF Accept
  <2>3. kind \in MessageKind
    BY DEF MessageKind
  <2>4. QED
    BY <1>1, <1>2, <2>1, <2>2, <2>3, PushKept DEF Tells
<1>4. CASE ~Accept(r)
  <2>1. pc[r] \in AfterRead
    BY <1>4 DEF ModelReply, RecordDenial, RecordResult, AfterRead, Working
  <2>2. CASE turn' = turn
    BY <1>1, <1>2, <2>1, <2>2, SilentKept DEF Actor
  <2>3. CASE Push(r, "assistant") \/ Push(r, "denied") \/ Push(r, "result")
    <3>1. PICK kind \in {"assistant", "denied", "result"} :
            turn' = [turn EXCEPT ![r] = Append(turn[r], [kind |-> kind, by |-> r])]
      BY <2>3 DEF Push
    <3>2. kind \in MessageKind /\ turn[r] \in Seq(Message)
      BY DEF MessageKind, ToolResultKind, TypeOK, DataOK
    <3>3. \A i \in DOMAIN chats[session[r]] :
            Tells(turn[r], chats[session[r]][i].by)
      BY <2>1 DEF KeptInv
    <3>4. QED
      BY <1>1, <1>2, <3>1, <3>2, <3>3, PushKept
  <2>4. QED
    BY <1>4, <2>2, <2>3 DEF ModelReply, RecordDenial, RecordResult
<1>5. QED
  BY <1>3, <1>4

\* Who saves its turn was the only one in flight.
LEMMA PersistKept ==
  ASSUME MaxConcurrent = 1, TypeOK, SlotsInv, NEW r \in Request, Persist(r)
  PROVE  KeptInv'
<1>1. InFlight(r) /\ pc'[r] \in {"ok", "pending"}
      /\ \A q \in Request : q # r => pc'[q] = pc[q]
  BY DEF Persist, TypeOK, ControlOK, Actor, Working
<1>2. \A q \in Request : pc'[q] \notin AfterRead
  BY <1>1, Alone DEF AfterRead, Working
<1>3. QED
  BY <1>2 DEF KeptInv

LEMMA ForgetKept ==
  ASSUME TypeOK, KeptInv, Restart \/ \E s \in Session : ChatReset(s)
  PROVE  KeptInv'
<1>1. UNCHANGED <<turn, session>>
      /\ \A q \in Request : pc'[q] \in AfterRead => pc'[q] = pc[q]
  BY DEF Restart, ChatReset, Ended, AfterRead, Working, Actor
<1>2. \A s \in Session : chats'[s] = chats[s] \/ chats'[s] = <<>>
  BY DEF Restart, ChatReset, TypeOK, DataOK
<1>3. \A q \in Request : pc[q] \in AfterRead => session[q] \in Session
  BY DEF TypeOK, ControlOK, AfterRead, Working
<1>4. QED
  BY <1>1, <1>2, <1>3 DEF KeptInv, Tells

LEMMA NextKept ==
  ASSUME MaxConcurrent = 1, Confirm = {}, TypeOK, SlotsInv, KeptInv, [Next]_vars
  PROVE  KeptInv'
<1>1. ASSUME NEW r \in Request,
             \/ \E s \in Session : Admit(r, s)
             \/ Refuse(r) \/ FinishTool(r) \/ Timeout(r) \/ Abort(r)
             \/ ProposeCall(r) \/ DecideCall(r) \/ AskUser(r)
             \/ StartTool(r) \/ ToolRefuses(r) \/ Complete(r)
      PROVE  KeptInv'
  <2>1. UNCHANGED <<chats, turn>>
    BY <1>1 DEF Admit, Refuse, FinishTool, Timeout, Abort, ProposeCall,
         DecideCall, AskUser, StartTool, ToolRefuses, Complete
  <2>2. \A q \in Request : q # r => pc'[q] = pc[q] /\ session'[q] = session[q]
    BY <1>1 DEF Admit, Refuse, FinishTool, Timeout, Abort, ProposeCall,
         DecideCall, AskUser, StartTool, ToolRefuses, Complete, TypeOK,
         ControlOK, Actor
  <2>3. \/ pc[r] \in AfterRead /\ session'[r] = session[r]
        \/ pc'[r] \in Ended \cup {"accept"}
    BY <1>1 DEF Admit, Refuse, FinishTool, Timeout, Abort, Suspended,
         ProposeCall, DecideCall, AskUser, StartTool, ToolRefuses, Complete,
         AfterRead, Working, Ended, TypeOK, ControlOK, Actor
  <2>4. QED
    BY <2>1, <2>2, <2>3, SilentKept DEF AfterRead, Working, Ended
<1>2. CASE ClearGrants \/ UNCHANGED vars
  <2>1. UNCHANGED <<chats, turn, pc, session>>
    BY <1>2 DEF ClearGrants, vars
  <2>2. QED
    BY <2>1, SilentKept
<1>3. QED
  BY <1>1, <1>2, RequestKept, PersistKept, ForgetKept DEF Next, RequestStep

\* A session that changes is emptied, cut, or grows by the turn of the one
\* request in flight.
LEMMA StepKeeps ==
  ASSUME Confirm = {}, TypeOK, KeptInv, [Next]_vars, NEW s \in Session
  PROVE  \/ TurnsIn(s) \subseteq TurnsIn(s)'
         \/ chats'[s] = <<>>
         \/ WindowFull(s)
<1>1. CASE chats'[s] = chats[s]
  BY <1>1 DEF TurnsIn
<1>2. ASSUME NEW r \in Request, Persist(r), session[r] = s,
             Len(turn[r]) <= MaxMessages
      PROVE  TurnsIn(s) \subseteq TurnsIn(s)'
  <2>1. chats'[s] = turn[r]
    BY <1>2 DEF Persist, Trimmed, TypeOK, DataOK
  <2>2. \A i \in DOMAIN chats[s] : Tells(turn[r], chats[s][i].by)
    BY <1>2 DEF KeptInv, Persist, AfterRead, Working
  <2>3. QED
    BY <2>1, <2>2 DEF TurnsIn, Tells
<1>3. ASSUME chats'[s] # chats[s]
      PROVE  \/ chats'[s] = <<>>
             \/ \E r \in Request : Persist(r) /\ session[r] = s
  BY <1>3
     DEF Next, vars, Admit, Refuse, ModelReply, FinishTool, Timeout, Abort,
         RequestStep, Accept, ProposeCall, DecideCall, RecordDenial, AskUser,
         StartTool, ToolRefuses, RecordResult, Complete, Persist, ChatReset,
         ClearGrants, Restart, TypeOK, DataOK
<1>4. ASSUME NEW r \in Request, Persist(r), session[r] = s,
             ~(Len(turn[r]) <= MaxMessages)
      PROVE  WindowFull(s)
  BY <1>4, MaxMessagesAssumption
     DEF WindowFull, Persist, InFlight, Working, TypeOK, DataOK
<1>5. QED
  BY <1>1, <1>2, <1>3, <1>4

LEMMA InitKept == Init => KeptInv
BY DEF Init, KeptInv, AfterRead, Working, Actor

\* With one request at a time and no confirmations beside them, no turn that
\* was saved is overwritten by another: only a reset, a restart or the window
\* takes it away.
THEOREM OneAtATimeKeepsTurns ==
  ASSUME MaxConcurrent = 1, Confirm = {}
  PROVE  Spec => TurnsKept
<1>1. TypeOK /\ SlotsInv /\ KeptInv /\ [Next]_vars => KeptInv'
  BY NextKept
<1>2. TypeOK /\ KeptInv /\ [Next]_vars =>
        [\A s \in Session :
           \/ TurnsIn(s) \subseteq TurnsIn(s)'
           \/ chats'[s] = <<>>
           \/ WindowFull(s)]_vars
  BY StepKeeps
<1>3. QED
  BY <1>1, <1>2, TypeCorrect, InitSlots, NextSlots, InitKept, PTL
     DEF Spec, TurnsKept

-----------------------------------------------------------------------------
(* No step is wasted *)

\* Replies are counted, and the budget is looked at before each.
BudgetOK(r) ==
  /\ pc[r] \in {"idle", "accept"} => iter[r] = 0
  /\ pc[r] = "model" => iter[r] < MaxToolIters

\* Why NoStepWasted holds of each step.
BudgetInv == \A r \in Request : BudgetOK(r)

LEMMA BudgetOthers ==
  ASSUME BudgetInv, NEW a \in Actor, a \in Request => BudgetOK(a)',
         \A b \in Actor : b # a => pc'[b] = pc[b],
         \A r \in Request : r # a => iter'[r] = iter[r]
  PROVE  BudgetInv'
BY DEF BudgetInv, BudgetOK, Actor

\* What each step of a request does to its measure.
LEMMA StepComesCloser ==
  ASSUME TypeOK, BudgetInv, NEW r \in Request,
         \/ \E reply \in Reply : ModelReply(r, reply)
         \/ FinishTool(r) \/ Timeout(r) \/ Abort(r) \/ RequestStep(r)
  PROVE  /\ BudgetOK(r)'
         /\ pc'[r] \in Ended \/ ComesCloser(r)
         /\ \A b \in Actor : b # r => pc'[b] = pc[b]
         /\ \A q \in Request : q # r => iter'[q] = iter[q]
         /\ \A b \in Actor : b # r =>
              todo'[b] = todo[b] /\ trail'[b] = trail[b] /\ ran'[b] = ran[b]
<1>1. /\ r \in Actor /\ iter[r] \in Nat /\ MaxToolIters \in Nat
      /\ iter \in [Request -> Nat] /\ todo[r] \in Seq(Call)
      /\ pc \in [Actor -> {"idle"} \cup Working \cup Confirming \cup Ended]
      /\ todo \in [Actor -> Seq(Call)]
      /\ trail \in [Actor -> Seq(AuditRecord)] /\ ran \in [Actor -> Seq(Call)]
      /\ BudgetOK(r)
  BY BudgetAssumption DEF TypeOK, ControlOK, DataOK, Actor, BudgetInv
<1>2. /\ \A b \in Actor : b # r => pc'[b] = pc[b]
      /\ \A q \in Request : q # r => iter'[q] = iter[q]
      /\ \A b \in Actor : b # r =>
           todo'[b] = todo[b] /\ trail'[b] = trail[b] /\ ran'[b] = ran[b]
  BY <1>1 DEF ModelReply, FinishTool, Timeout, Abort, RequestStep, Accept,
       ProposeCall, DecideCall, RecordDenial, AskUser, StartTool, ToolRefuses,
       RecordResult, Complete, Persist, NextCall, Log
<1>3. CASE \E reply \in Reply : ModelReply(r, reply)
  <2>1. pc[r] = "model" /\ iter'[r] = iter[r] + 1
        /\ pc'[r] \in {"complete", "propose"}
    BY <1>1, <1>3 DEF ModelReply
  <2>2. QED
    BY <1>1, <1>2, <2>1 DEF BudgetOK, ComesCloser
<1>4. CASE RecordDenial(r) \/ RecordResult(r)
  <2>1. /\ pc[r] \in WithCall /\ iter' = iter
        /\ todo'[r] = Tail(todo[r])
        /\ pc'[r] = IF Len(todo[r]) > 1 THEN "propose" ELSE LoopHead(iter[r])
    BY <1>1, <1>4 DEF RecordDenial, RecordResult, NextCall, WithCall
  <2>2. Len(todo'[r]) < Len(todo[r])
    <3>1. todo[r] # <<>>
      BY <1>1, <2>1 DEF TypeOK, ControlOK
    <3>2. QED
      BY <1>1, <2>1, <3>1, HeadTailProperties
  <2>3. BudgetOK(r)'
    BY <1>1, <2>1 DEF BudgetOK, LoopHead
  <2>4. ComesCloser(r)
    BY <2>1, <2>2 DEF ComesCloser
  <2>5. QED
    BY <1>2, <2>3, <2>4
<1>5. CASE \/ Accept(r) \/ ProposeCall(r) \/ DecideCall(r) \/ AskUser(r)
           \/ StartTool(r) \/ FinishTool(r) \/ Complete(r)
  <2>1. iter' = iter /\ todo' = todo
    BY <1>5 DEF Accept, ProposeCall, DecideCall, AskUser, StartTool,
         FinishTool, Complete
  <2>2. \/ pc[r] = "accept" /\ pc'[r] = LoopHead(0)
        \/ pc[r] = "propose" /\ pc'[r] = "decide"
        \/ pc[r] = "decide" /\ pc'[r] \in {"denied", "ask", "execute"}
        \/ pc[r] = "ask" /\ pc'[r] = "persist_pending"
        \/ pc[r] = "execute" /\ pc'[r] \in {"running", "blocked", "result"}
        \/ pc[r] \in {"running", "blocked"} /\ pc'[r] = "result"
        \/ pc[r] = "complete" /\ pc'[r] = "persist_ok"
    <3>1. PICK verdict \in {"allow", "deny", "ask_user"} :
            DecideCall(r) => verdict = Verdict(Head(todo[r]))
      <4>1. CASE DecideCall(r)
        <5>1. PICK call \in Call : call = Head(todo[r])
          BY <1>1, <4>1, CurrentType DEF DecideCall, WithCall, TypeOK
        <5>2. QED
          BY <5>1, VerdictType DEF PolicyVerdict
      <4>2. QED
        BY <4>1
    <3>2. QED
      BY <1>1, <1>5, <3>1 DEF Accept, ProposeCall, DecideCall, AskUser,
           StartTool, FinishTool, Complete
  <2>3. BudgetOK(r)'
    BY <1>1, <2>1, <2>2 DEF BudgetOK, LoopHead
  <2>4. StepsLeft(pc'[r]) < StepsLeft(pc[r])
    BY <2>2 DEF StepsLeft, LoopHead
  <2>5. QED
    BY <1>2, <2>1, <2>3, <2>4 DEF ComesCloser
<1>6. CASE Timeout(r) \/ Abort(r) \/ ToolRefuses(r) \/ Persist(r)
  <2>1. pc'[r] \in Ended
    BY <1>1, <1>6 DEF Timeout, Abort, ToolRefuses, Persist, Ended
  <2>2. BudgetOK(r)'
    BY <2>1 DEF BudgetOK, Ended
  <2>3. QED
    BY <1>2, <2>1, <2>2
<1>7. QED
  BY <1>3, <1>4, <1>5, <1>6 DEF RequestStep

\* A step that is none of a request in flight leaves those as they are.
LEMMA OtherSteps ==
  ASSUME TypeOK, BudgetInv,
         \/ \E r \in Request : Refuse(r) \/ \E s \in Session : Admit(r, s)
         \/ \E c \in Confirm :
              \/ ConfirmStep(c)
              \/ \E call \in Call, scope \in {"once", "session", "cancel"},
                    s \in Session \cup {NoSession} : Respond(c, call, scope, s)
         \/ \E s \in Session : ChatReset(s)
         \/ ClearGrants \/ Restart \/ UNCHANGED vars
  PROVE  /\ BudgetInv'
         /\ \A r \in Request : InFlight(r) =>
              \/ pc'[r] \in Ended
              \/ <<pc[r], iter[r], todo[r], trail[r], ran[r]>>' =
                 <<pc[r], iter[r], todo[r], trail[r], ran[r]>>
<1>1. ASSUME NEW q \in Request, Refuse(q) \/ \E s \in Session : Admit(q, s)
      PROVE  /\ BudgetInv'
             /\ \A r \in Request : InFlight(r) =>
                  pc'[r] = pc[r] /\ UNCHANGED <<iter, todo, trail, ran>>
  <2>1. /\ q \in Actor /\ pc[q] = "idle" /\ pc'[q] \in {"busy", "accept"}
        /\ \A b \in Actor : b # q => pc'[b] = pc[b]
        /\ UNCHANGED <<iter, todo, trail, ran>>
    BY <1>1 DEF Refuse, Admit, TypeOK, ControlOK, Actor
  <2>2. QED
    BY <2>1, BudgetOthers DEF BudgetInv, BudgetOK, Actor, Working
<1>2. ASSUME NEW c \in Confirm,
             \/ ConfirmStep(c)
             \/ \E call \in Call, scope \in {"once", "session", "cancel"},
                   s \in Session \cup {NoSession} : Respond(c, call, scope, s)
      PROVE  /\ BudgetInv'
             /\ \A r \in Request :
                  <<pc[r], iter[r], todo[r], trail[r], ran[r]>>' =
                  <<pc[r], iter[r], todo[r], trail[r], ran[r]>>
  <2>1. c \in Actor /\ c \notin Request
    BY ActorAssumption DEF Actor
  <2>2. /\ \A b \in Actor : b # c =>
             /\ trail'[b] = trail[b] /\ pc'[b] = pc[b]
             /\ todo'[b] = todo[b] /\ ran'[b] = ran[b]
        /\ iter' = iter
    BY <1>2, <2>1 DEF ConfirmStep, Respond, Check, StartTool, ToolRefuses,
         FinishTool, ConfirmedResult, AppendOutcome, Abort, Log, TypeOK,
         ControlOK, DataOK
  <2>3. QED
    BY <2>1, <2>2, BudgetOthers DEF Actor
<1>3. CASE (\E s \in Session : ChatReset(s)) \/ ClearGrants \/ UNCHANGED vars
  <2>1. UNCHANGED <<pc, iter, todo, trail, ran>>
    BY <1>3 DEF ChatReset, ClearGrants, vars
  <2>2. QED
    BY <2>1 DEF BudgetInv, BudgetOK
<1>4. CASE Restart
  <2>1. \A r \in Request :
          (pc'[r] = pc[r] /\ pc[r] \notin Working) \/ pc'[r] = "lost"
    BY <1>4 DEF Restart, Actor, Working, Ended
  <2>2. iter' = iter
    BY <1>4 DEF Restart
  <2>3. QED
    BY <2>1, <2>2 DEF BudgetInv, BudgetOK, Ended
<1>5. QED
  BY <1>1, <1>2, <1>3, <1>4

\* The invariant and the property, of each step.
LEMMA NextCloser ==
  ASSUME TypeOK, BudgetInv, [Next]_vars
  PROVE  /\ BudgetInv'
         /\ \A r \in Request :
              InFlight(r) /\ <<pc[r], iter[r], todo[r], trail[r], ran[r]>>' #
                             <<pc[r], iter[r], todo[r], trail[r], ran[r]>>
                => pc'[r] \in Ended \/ ComesCloser(r)
<1>1. ASSUME NEW q \in Request,
             \/ \E reply \in Reply : ModelReply(q, reply)
             \/ FinishTool(q) \/ Timeout(q) \/ Abort(q) \/ RequestStep(q)
      PROVE  /\ BudgetInv'
             /\ \A r \in Request :
                  \/ pc'[r] \in Ended \/ ComesCloser(r)
                  \/ <<pc[r], iter[r], todo[r], trail[r], ran[r]>>' =
                     <<pc[r], iter[r], todo[r], trail[r], ran[r]>>
  BY <1>1, StepComesCloser, BudgetOthers DEF Actor
<1>2. CASE \E q \in Request :
             \/ \E reply \in Reply : ModelReply(q, reply)
             \/ FinishTool(q) \/ Timeout(q) \/ Abort(q) \/ RequestStep(q)
  BY <1>1, <1>2
<1>3. CASE \/ \E r \in Request : Refuse(r) \/ \E s \in Session : Admit(r, s)
           \/ \E c \in Confirm :
                \/ ConfirmStep(c)
                \/ \E call \in Call, scope \in {"once", "session", "cancel"},
                      s \in Session \cup {NoSession} :
                        Respond(c, call, scope, s)
           \/ \E s \in Session : ChatReset(s)
           \/ ClearGrants \/ Restart \/ UNCHANGED vars
  BY <1>3, OtherSteps
<1>4. QED
  BY <1>2, <1>3 DEF Next

LEMMA InitBudget == Init => BudgetInv
BY DEF Init, BudgetInv, BudgetOK, Actor

\* A request takes no step that brings it no closer to its end, for replies of
\* any number of calls and any budget of replies; what is left to liveness is
\* that it is waited for nowhere without the timer.
THEOREM NoStepIsWasted == Spec => NoStepWasted
<1>1. TypeOK /\ BudgetInv /\ [Next]_vars =>
        [\A r \in Request :
           InFlight(r) /\ <<pc[r], iter[r], todo[r], trail[r], ran[r]>>' #
                          <<pc[r], iter[r], todo[r], trail[r], ran[r]>>
             => pc'[r] \in Ended \/ ComesCloser(r)]_vars
  BY NextCloser
<1>2. TypeOK /\ BudgetInv /\ [Next]_vars => BudgetInv'
  BY NextCloser
<1>3. QED
  BY <1>1, <1>2, TypeCorrect, InitBudget, PTL DEF Spec, NoStepWasted
-----------------------------------------------------------------------------
(* The promise *)

\* The approvals of the abstract specification.
Approved == [a \in Actor |-> IF pc[a] = "execute" THEN {Current(a)} ELSE {}]

\* What makes a confirmation good for one run.
FreshInv ==
  \A c \in Confirm : pc[c] \in {"idle", "check", "execute"} => ran[c] = <<>>

-----------------------------------------------------------------------------
(* A confirmation runs nothing before its tool *)

\* Actor a moves on to a place before no tool.
LEMMA MoveKeepsFresh ==
  ASSUME TypeOK, FreshInv, NEW a \in Actor, NEW where, Goto(a, where),
         where \notin {"idle", "check", "execute"},
         \A b \in Actor : b # a => ran'[b] = ran[b]
  PROVE  FreshInv'
BY DEF FreshInv, TypeOK, ControlOK, Actor

LEMMA RequestKeepsFresh ==
  ASSUME TypeOK, FreshInv, NEW r \in Request,
         \A b \in Actor : b # r => ran'[b] = ran[b] /\ pc'[b] = pc[b]
  PROVE  FreshInv'
BY ActorAssumption DEF FreshInv, Actor

LEMMA RequestStepFresh ==
  ASSUME TypeOK, FreshInv, NEW r \in Request,
         \/ \E s \in Session : Admit(r, s)
         \/ Refuse(r)
         \/ \E reply \in Reply : ModelReply(r, reply)
         \/ FinishTool(r)
         \/ Timeout(r)
         \/ Abort(r)
         \/ RequestStep(r)
  PROVE  FreshInv'
<1>1. r \in Actor
  BY DEF Actor
<1>2. \A b \in Actor : b # r => ran'[b] = ran[b] /\ pc'[b] = pc[b]
  BY <1>1 DEF Admit, Refuse, ModelReply, FinishTool, Timeout, Abort,
       RequestStep, Accept, ProposeCall, DecideCall, RecordDenial, AskUser,
       StartTool, ToolRefuses, RecordResult, Complete, Persist, NextCall,
       TypeOK, ControlOK, DataOK
<1>3. QED
  BY <1>2, RequestKeepsFresh

LEMMA ConfirmStepFresh ==
  ASSUME TypeOK, FreshInv, NEW c \in Confirm, ConfirmStep(c)
  PROVE  FreshInv'
<1>1. c \in Actor
  BY DEF Actor
<1>2. CASE Check(c)
  BY <1>1, <1>2 DEF Check, FreshInv, TypeOK, ControlOK, Actor
<1>3. CASE ConfirmStep(c) /\ ~Check(c)
  <2>1. \A b \in Actor : b # c => ran'[b] = ran[b]
    BY <1>1, <1>3 DEF ConfirmStep, StartTool, ToolRefuses, FinishTool,
         ConfirmedResult, AppendOutcome, Abort, TypeOK, ControlOK, DataOK
  <2>2. PICK where \in {"running", "blocked", "result", "error", "append_result", "ok"} :
          Goto(c, where)
    <3>1. c \notin Request
      BY ActorAssumption
    <3>2. QED
      BY <1>3, <3>1 DEF ConfirmStep, StartTool, ToolRefuses, FinishTool,
           ConfirmedResult, AppendOutcome, Abort
  <2>3. QED
    BY <1>1, <2>1, <2>2, MoveKeepsFresh
<1>4. QED
  BY <1>2, <1>3

LEMMA NextFresh == TypeOK /\ FreshInv /\ [Next]_vars => FreshInv'
<1> SUFFICES ASSUME TypeOK, FreshInv, [Next]_vars PROVE FreshInv'
  OBVIOUS
<1>1. ASSUME NEW c \in Confirm, NEW call \in Call,
             NEW scope \in {"once", "session", "cancel"},
             NEW s \in Session \cup {NoSession}, Respond(c, call, scope, s)
      PROVE  FreshInv'
  BY <1>1 DEF Respond, FreshInv, TypeOK, ControlOK, Actor
<1>2. CASE Restart
  BY <1>2 DEF Restart, FreshInv, Actor
<1>3. CASE \/ \E s \in Session : ChatReset(s)
           \/ ClearGrants
           \/ UNCHANGED vars
  BY <1>3 DEF ChatReset, ClearGrants, vars, FreshInv
<1>4. QED
  BY <1>1, <1>2, <1>3, RequestStepFresh, ConfirmStepFresh DEF Next

-----------------------------------------------------------------------------
(* What a move of one actor does to the abstract state *)

\* The approvals after actor a has moved on.
LEMMA ApprovedAfter ==
  ASSUME TypeOK, NEW a \in Actor, NEW where, Goto(a, where),
         \A b \in Actor : b # a => todo'[b] = todo[b]
  PROVE  Approved' = [Approved EXCEPT ![a] =
                        IF where = "execute" THEN {Head(todo'[a])} ELSE {}]
<1>1. \A b \in Actor : pc'[b] = IF b = a THEN where ELSE pc[b]
  BY DEF TypeOK, ControlOK
<1>2. QED
  BY <1>1 DEF Approved

LEMMA ServingAfter ==
  ASSUME TypeOK, NEW a \in Actor, NEW where, Goto(a, where),
         a \in Confirm \/ (pc[a] \in Working /\ where \in Working)
  PROVE  Serving' = Serving
BY ActorAssumption DEF Serving, TypeOK, ControlOK, Actor

\* One actor moves between places where nothing is approved.
LEMMA MoveStutters ==
  ASSUME TypeOK, NEW a \in Actor, NEW where, Goto(a, where),
         pc[a] # "execute", where # "execute",
         \A b \in Actor : b # a => todo'[b] = todo[b],
         \/ a \in Confirm
         \/ pc[a] \in Working /\ where \in Working
         \/ pc[a] \notin Working /\ where \notin Working,
         grants' = grants, ran' = ran
  PROVE  UNCHANGED <<Serving, grants, Approved, ran>>
<1>1. Serving' = Serving
  BY ActorAssumption DEF Serving, TypeOK, ControlOK, Actor
<1>2. \A b \in Actor : pc'[b] = IF b = a THEN where ELSE pc[b]
  BY DEF TypeOK, ControlOK
<1>3. Approved' = Approved
  BY <1>2 DEF Approved
<1>4. QED
  BY <1>1, <1>3

\* A request's handler returns.
LEMMA LeaveEnds ==
  ASSUME TypeOK, NEW r \in Request, NEW how \in Ended, InFlight(r),
         Goto(r, how), UNCHANGED <<grants, todo, ran>>
  PROVE  Supervised!End(r)
<1>1. r \in Actor
  BY DEF Actor
<1>2. Serving' = Serving \ {r} /\ r \in Serving
  BY DEF Serving, TypeOK, ControlOK, Actor, Ended, Working
<1>3. Approved' = [Approved EXCEPT ![r] = {}]
  BY <1>1, ApprovedAfter DEF Ended
<1>4. QED
  BY <1>2, <1>3 DEF Supervised!End, Approved

LEMMA FailWithdraws ==
  ASSUME TypeOK, NEW c \in Confirm, NEW how \in Ended, Goto(c, how),
         UNCHANGED <<grants, todo, ran>>
  PROVE  Supervised!Withdraw(c)
<1>1. c \in Actor
  BY DEF Actor
<1>2. Serving' = Serving
  BY <1>1, ServingAfter
<1>3. Approved' = [Approved EXCEPT ![c] = {}]
  BY <1>1, ApprovedAfter DEF Ended
<1>4. QED
  BY <1>2, <1>3 DEF Supervised!Withdraw, Approved

-----------------------------------------------------------------------------
(* The instance's copies of pure operators *)

LEMMA SameCardinality ==
  ASSUME NEW S
  PROVE  Supervised!Cardinality(S) = Cardinality(S)
BY Zenon DEF Supervised!Cardinality, Cardinality

LEMMA SamePolicy ==
  ASSUME NEW call, NEW held
  PROVE  /\ Supervised!AlwaysDenied(call) <=> AlwaysDenied(call)
         /\ Supervised!Decide(call, held) = Decide(call, held)
         /\ Supervised!Registered = Registered
BY DEF Supervised!AlwaysDenied, AlwaysDenied, Supervised!Decide, Decide,
       Supervised!HardDenied, HardDenied, Supervised!InjectionGuarded,
       InjectionGuarded, Supervised!LooksLikeInjection, LooksLikeInjection,
       Supervised!NeedsConfirmation, NeedsConfirmation,
       Supervised!Registered, Registered

-----------------------------------------------------------------------------
(* The actions *)

Abstract == Supervised!Next \/ UNCHANGED <<Serving, grants, Approved, ran>>

LEMMA AdmitBegins ==
  ASSUME TypeOK, SlotsInv, NEW r \in Request, NEW s \in Session, Admit(r, s)
  PROVE  Supervised!Begin(r)
<1>1. r \in Actor
  BY DEF Actor
<1>2. Serving' = Serving \cup {r} /\ r \notin Serving
  BY DEF Admit, Serving, TypeOK, ControlOK, Actor, Working
<1>3. Cardinality(Serving) < MaxConcurrent
  BY FS_CardinalityType, BudgetAssumption
     DEF Admit, SlotsInv, SlotsConserved, TypeOK, ControlOK
<1>4. Approved' = Approved
  <2>1. \A b \in Actor : pc'[b] = IF b = r THEN "accept" ELSE pc[b]
    BY DEF Admit, TypeOK, ControlOK
  <2>2. QED
    BY <1>1, <2>1 DEF Approved, Admit
<1>5. QED
  BY <1>2, <1>3, <1>4, SameCardinality DEF Supervised!Begin, Approved, Admit

LEMMA DecideApproves ==
  ASSUME TypeOK, NEW r \in Request, DecideCall(r)
  PROVE  Abstract
<1>0. r \in Actor
  BY DEF Actor
<1>1. PICK call \in Call : call = Head(todo[r])
  BY <1>0, CurrentType DEF DecideCall, WithCall, TypeOK
<1>2. Verdict(call) \in PolicyVerdict
  BY <1>0, <1>1, VerdictType
<1>3. PICK where \in {"denied", "ask", "execute"} :
        /\ Goto(r, where)
        /\ where = "execute" => Verdict(call) = "allow"
  BY <1>1, <1>2 DEF DecideCall, PolicyVerdict
<1>4. pc[r] = "decide" /\ UNCHANGED <<grants, todo, ran>>
  BY DEF DecideCall
<1>5. CASE where # "execute"
  <2>1. where \in Working
    BY <1>5 DEF Working
  <2>2. pc[r] \in Working
    BY <1>1, <1>4 DEF Working
  <2>3. QED
    BY <1>0, <1>1, <1>3, <1>4, <1>5, <2>1, <2>2, MoveStutters DEF Abstract
<1>6. CASE where = "execute"
  <2>1. Serving' = Serving /\ r \in Serving
    BY <1>0, <1>1, <1>3, <1>4, <1>6, ServingAfter DEF Working, Serving
  <2>2. Approved' = [Approved EXCEPT ![r] = {call}] /\ Approved[r] = {}
    BY <1>0, <1>1, <1>3, <1>4, <1>6, ApprovedAfter DEF Approved
  <2>3. call.tool \in Registered /\ Decide(call, grants) = "allow"
    BY <1>1, <1>3, <1>6 DEF Verdict
  <2>4. Supervised!ApprovedByPolicy(r, call)
    BY <1>4, <2>1, <2>2, <2>3, SamePolicy
       DEF Supervised!ApprovedByPolicy, Approved
  <2>5. QED
    BY <1>0, <2>4 DEF Abstract, Supervised!Next
<1>7. QED
  BY <1>3, <1>5, <1>6

\* The verdict a confirmation asks for again is its approval, unless the policy
\* denies the call.
LEMMA CheckApproves ==
  ASSUME TypeOK, FreshInv, NEW c \in Confirm, Check(c)
  PROVE  Abstract
<1>0. c \in Actor
  BY DEF Actor
<1>1. PICK call \in Call : call = Head(todo[c])
  BY <1>0, CurrentType DEF Check, WithCall, TypeOK
<1>2. pc[c] = "check" /\ ran[c] = <<>> /\ UNCHANGED <<grants, todo, ran>>
  BY DEF Check, FreshInv
<1>3. CASE ~Runnable(call)
  <2>1. Goto(c, "error")
    BY <1>1, <1>3 DEF Check
  <2>2. Supervised!Withdraw(c)
    BY <1>2, <2>1, FailWithdraws DEF Ended
  <2>3. QED
    BY <2>2 DEF Abstract, Supervised!Next
<1>4. CASE Runnable(call)
  <2>1. PICK where : where = "execute" /\ Goto(c, where)
    BY <1>1, <1>4 DEF Check
  <2>2. Serving' = Serving
    BY <1>0, <1>1, <2>1, ServingAfter
  <2>3. Approved' = [Approved EXCEPT ![c] = {call}] /\ Approved[c] = {}
    BY <1>0, <1>1, <1>2, <2>1, ApprovedAfter DEF Approved
  <2>4. call.tool \in Registered /\ ~AlwaysDenied(call)
    BY <1>1, <1>4 DEF Runnable, Verdict, Decide
  <2>5. Supervised!ApprovedByUser(c, call)
    BY <1>2, <2>2, <2>3, <2>4, SamePolicy
       DEF Supervised!ApprovedByUser, Approved
  <2>6. QED
    BY <1>0, <2>5 DEF Abstract, Supervised!Next
<1>5. QED
  BY <1>3, <1>4

\* Starting the tool uses the approval up.
LEMMA StartToolRuns ==
  ASSUME TypeOK, NEW a \in Actor, StartTool(a)
  PROVE  Abstract
<1> DEFINE call == Head(todo[a])
<1>1. PICK where \in {"running", "blocked", "result"} : Goto(a, where)
  BY DEF StartTool
<1>2. pc[a] = "execute" /\ UNCHANGED <<grants, todo>>
  BY DEF StartTool
<1>3. Serving' = Serving
  BY <1>1, <1>2, ServingAfter DEF Working, Actor
<1>4. Approved' = [Approved EXCEPT ![a] = {}] /\ call \in Approved[a]
  BY <1>1, <1>2, ApprovedAfter DEF Approved
<1>5. ran' = [ran EXCEPT ![a] = Append(@, call)]
  BY DEF StartTool
<1>6. Supervised!Run(a)
  BY <1>2, <1>3, <1>4, <1>5 DEF Supervised!Run, Approved
<1>7. QED
  BY <1>6 DEF Abstract, Supervised!Next, Supervised!Actor, Actor

LEMMA RespondGrants ==
  ASSUME TypeOK, NEW c \in Confirm, NEW call \in Call,
         NEW scope \in {"once", "session", "cancel"},
         NEW s \in Session \cup {NoSession}, Respond(c, call, scope, s)
  PROVE  Abstract
<1>1. c \in Actor
  BY DEF Actor
<1>2. PICK where \in {"append_cancelled", "check"} : Goto(c, where)
  BY DEF Respond
<1>3. /\ pc[c] = "idle" /\ ran' = ran
      /\ \A b \in Actor : b # c => todo'[b] = todo[b]
  BY DEF Respond, TypeOK, ControlOK
<1>4. CASE grants' = grants
  BY <1>1, <1>2, <1>3, <1>4, MoveStutters DEF Abstract
<1>5. CASE grants' # grants
  <2>1. grants' = grants \cup {call.tool}
    BY <1>5 DEF Respond, GrantsAfter
  <2>2. Serving' = Serving
    BY <1>1, <1>2, ServingAfter
  <2>3. Approved' = Approved
    <3>1. \A b \in Actor : pc'[b] = IF b = c THEN where ELSE pc[b]
      BY <1>2 DEF TypeOK, ControlOK
    <3>2. QED
      BY <1>2, <1>3, <3>1 DEF Approved
  <2>4. Supervised!Grant(call.tool)
    BY <1>3, <2>1, <2>2, <2>3 DEF Supervised!Grant, Approved
  <2>5. QED
    BY <2>4 DEF Abstract, Supervised!Next
<1>6. QED
  BY <1>4, <1>5

\* What a request does that has no part in the promise.
LEMMA RequestStutters ==
  ASSUME TypeOK, NEW r \in Request,
         \/ Refuse(r)
         \/ \E reply \in Reply : ModelReply(r, reply)
         \/ FinishTool(r)
         \/ Accept(r)
         \/ ProposeCall(r)
         \/ RecordDenial(r)
         \/ AskUser(r)
         \/ RecordResult(r)
         \/ Complete(r)
  PROVE  Abstract
<1>1. r \in Actor
  BY DEF Actor
<1>2. /\ grants' = grants /\ ran' = ran
      /\ \A b \in Actor : b # r => todo'[b] = todo[b]
  BY DEF Refuse, ModelReply, FinishTool, Accept, ProposeCall, RecordDenial,
         AskUser, RecordResult, Complete, NextCall, TypeOK, ControlOK
<1>3. CASE Refuse(r)
  <2>1. PICK where : where = "busy" /\ Goto(r, where)
    BY <1>3 DEF Refuse
  <2>2. QED
    BY <1>1, <1>2, <1>3, <2>1, MoveStutters DEF Abstract, Refuse, Working
<1>4. CASE ~Refuse(r)
  <2>1. PICK where \in {"model", "complete", "propose", "decide", "result",
                        "persist_pending", "persist_ok"} : Goto(r, where)
    BY <1>4 DEF ModelReply, FinishTool, Accept, ProposeCall, RecordDenial,
         AskUser, RecordResult, Complete, NextCall, LoopHead
  <2>2. pc[r] \in Working /\ pc[r] # "execute"
    BY <1>4 DEF ModelReply, FinishTool, Accept, ProposeCall, RecordDenial,
         AskUser, RecordResult, Complete, Working
  <2>3. where \in Working /\ where # "execute"
    BY DEF Working
  <2>4. QED
    BY <1>1, <1>2, <2>1, <2>2, <2>3, MoveStutters DEF Abstract
<1>5. QED
  BY <1>3, <1>4

\* The ways a request's handler returns.
LEMMA RequestEnds ==
  ASSUME TypeOK, NEW r \in Request,
         Persist(r) \/ Timeout(r) \/ Abort(r) \/ ToolRefuses(r)
  PROVE  Abstract
<1>1. /\ UNCHANGED <<grants, todo, ran>>
      /\ InFlight(r)
  BY ActorAssumption DEF Persist, Timeout, Abort, ToolRefuses, Suspended, Fallible, Working
<1>2. PICK how \in Ended : Goto(r, how)
  BY DEF Persist, Timeout, Abort, ToolRefuses, Ended
<1>3. Supervised!End(r)
  BY <1>1, <1>2, LeaveEnds
<1>4. QED
  BY <1>3 DEF Abstract, Supervised!Next

LEMMA ConfirmEnds ==
  ASSUME TypeOK, NEW c \in Confirm, Abort(c) \/ ToolRefuses(c)
  PROVE  Abstract
<1>1. UNCHANGED <<grants, todo, ran>>
  BY DEF Abort, ToolRefuses
<1>2. PICK how \in Ended : Goto(c, how)
  BY ActorAssumption DEF Abort, ToolRefuses, Ended
<1>3. Supervised!Withdraw(c)
  BY <1>1, <1>2, FailWithdraws
<1>4. QED
  BY <1>3 DEF Abstract, Supervised!Next

LEMMA ConfirmStutters ==
  ASSUME TypeOK, NEW c \in Confirm,
         FinishTool(c) \/ ConfirmedResult(c) \/ AppendOutcome(c)
  PROVE  Abstract
<1>1. c \in Actor
  BY DEF Actor
<1>2. UNCHANGED <<grants, todo, ran>> /\ pc[c] # "execute"
  BY DEF FinishTool, ConfirmedResult, AppendOutcome
<1>3. PICK where \in {"result", "append_result", "ok"} : Goto(c, where)
  BY DEF FinishTool, ConfirmedResult, AppendOutcome
<1>4. QED
  BY <1>1, <1>2, <1>3, MoveStutters DEF Abstract

LEMMA RestartRestarts ==
  ASSUME Restart
  PROVE  Supervised!Restart
<1>1. \A a \in Actor : pc'[a] \in Ended \cup {"idle"}
  BY DEF Restart, Ended
<1>2. Serving' = {}
  BY <1>1 DEF Serving, Working, Ended, Actor
<1>3. Approved' = [a \in Actor |-> {}]
  BY <1>1 DEF Approved, Ended
<1>4. QED
  BY <1>2, <1>3 DEF Restart, Supervised!Restart, Supervised!Actor, Actor, Approved

\* Every step of the runtime is a step of the promise, or none.
LEMMA SupervisedStep ==
  TypeOK /\ SlotsInv /\ FreshInv /\ [Next]_vars =>
    [Supervised!Next]_(Supervised!vars)
<1> SUFFICES ASSUME TypeOK, SlotsInv, FreshInv, [Next]_vars
             PROVE  Abstract
  BY DEF Abstract, Supervised!vars, Approved
<1>1. ASSUME NEW r \in Request, NEW s \in Session, Admit(r, s)
      PROVE  Abstract
  BY <1>1, AdmitBegins DEF Abstract, Supervised!Next
<1>2. ASSUME NEW r \in Request, RequestStep(r)
      PROVE  Abstract
  BY <1>2, RequestStutters, RequestEnds, DecideApproves, StartToolRuns
     DEF RequestStep, Actor
<1>3. ASSUME NEW c \in Confirm, ConfirmStep(c)
      PROVE  Abstract
  BY <1>3, ConfirmStutters, ConfirmEnds, CheckApproves, StartToolRuns
     DEF ConfirmStep, Actor
<1>4. CASE Restart
  BY <1>4, RestartRestarts DEF Abstract, Supervised!Next
<1>5. CASE ClearGrants
  BY <1>5 DEF ClearGrants, Supervised!ClearGrants, Serving, Approved,
       Abstract, Supervised!Next
<1>6. CASE (\E s \in Session : ChatReset(s)) \/ UNCHANGED vars
  BY <1>6 DEF ChatReset, vars, Serving, Approved, Abstract
<1>7. QED
  BY <1>1, <1>2, <1>3, <1>4, <1>5, <1>6, RequestStutters, RequestEnds,
     RespondGrants
     DEF Next

LEMMA InitSupervised == Init => FreshInv /\ Supervised!Init
<1> SUFFICES ASSUME Init PROVE FreshInv /\ Supervised!Init
  OBVIOUS
<1>1. Serving = {}
  BY DEF Init, Serving, Working, Actor
<1>2. Approved = [a \in Actor |-> {}]
  BY DEF Init, Approved
<1>3. QED
  BY <1>1, <1>2 DEF Init, FreshInv, Actor, Supervised!Init, Supervised!Actor, Approved

\* However requests, confirmations, grants, failures, timeouts and restarts
\* interleave: no more requests are served at a time than the budget allows,
\* every run of a tool uses up an approval of its own call, and approvals come
\* from the policy in force, or from the user for a call it does not deny.
THEOREM RuntimeIsSupervised == Spec => ImplementsSupervision
<1>1. Spec => []SlotsInv
  BY TypeCorrect, InitSlots, NextSlots, PTL DEF Spec
<1>2. Spec => []FreshInv
  BY TypeCorrect, InitSupervised, NextFresh, PTL DEF Spec
<1>3. QED
  BY <1>1, <1>2, TypeCorrect, InitSupervised, SupervisedStep, PTL
     DEF Spec, ImplementsSupervision, Supervised!Spec
=============================================================================
