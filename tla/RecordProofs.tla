---------------------------- MODULE RecordProofs ----------------------------
(***************************************************************************)
(* Theorems about what the audit log and the chat sessions record: causes  *)
(* explain every record, every run of a tool is accounted for, a chat      *)
(* holds finished turns only, and the replay of the log tells the truth.   *)
(***************************************************************************)
EXTENDS AuthorityProofs, Replay

USE DEF InFlight, Current, Goto, Leave, Fail

-----------------------------------------------------------------------------
(* Causes *)

\* Record i of a trail is explained by an earlier one.
Explained(tr, i) ==
  IF i = 1 THEN tr[i].cause = 0
  ELSE tr[i].cause \in 1..(i - 1) /\ RightCause(tr[i], tr[tr[i].cause])

\* The record that becomes the cause of the next one.
Origin(a) == trail[a][cause[a]]

YesTo(rec, call) ==
  /\ rec.kind = "confirmation_response" /\ rec.call = call
  /\ rec.note # "cancel"

\* Where a handler has begun its trail and goes on with it.
Recording == (Working \cup Confirming) \ {"accept"}

\* What the cause is at each place where the next record depends on it.
OriginOK(a) ==
  /\ pc[a] = "decide" =>
       Origin(a).kind = "tool_call" /\ Origin(a).call = Current(a)
  /\ pc[a] = "denied" => IsDecision(Origin(a), Current(a), "deny")
  /\ pc[a] = "ask" => IsDecision(Origin(a), Current(a), "ask_user")
  /\ pc[a] = "check" => YesTo(Origin(a), Current(a))
  /\ pc[a] \in {"execute", "running", "blocked", "result"} =>
       \/ IsDecision(Origin(a), Current(a), "allow")
       \/ YesTo(Origin(a), Current(a))

Thread(a) ==
  /\ pc[a] \in {"idle", "accept"} => trail[a] = <<>> /\ cause[a] = 0
  /\ pc[a] \in Recording => cause[a] \in 1..Len(trail[a]) /\ OriginOK(a)
  /\ \A i \in DOMAIN trail[a] : Explained(trail[a], i)

\* Why CausesExplain is preserved.
ThreadInv == \A a \in Actor : Thread(a)

LEMMA AppendExplained ==
  ASSUME NEW tr \in Seq(AuditRecord), NEW rec \in AuditRecord,
         \A i \in DOMAIN tr : Explained(tr, i),
         \/ tr = <<>> /\ rec.cause = 0
         \/ rec.cause \in 1..Len(tr) /\ RightCause(rec, tr[rec.cause])
  PROVE  \A i \in DOMAIN Append(tr, rec) : Explained(Append(tr, rec), i)
<1> DEFINE new == Append(tr, rec)
<1>1. /\ Len(tr) \in Nat /\ Len(new) = Len(tr) + 1
      /\ DOMAIN new = 1..(Len(tr) + 1) /\ DOMAIN tr = 1..Len(tr)
      /\ \A i \in 1..Len(tr) : new[i] = tr[i]
      /\ new[Len(tr) + 1] = rec
  BY AppendProperties
<1>2. ASSUME NEW i \in 1..Len(tr) PROVE Explained(new, i)
  <2>1. Explained(tr, i) /\ new[i] = tr[i]
    BY <1>1
  <2>2. i # 1 => tr[i].cause \in 1..Len(tr)
    BY <1>1, <2>1 DEF Explained
  <2>3. i # 1 => new[tr[i].cause] = tr[tr[i].cause]
    BY <1>1, <2>2
  <2> HIDE DEF new
  <2>4. QED
    BY <2>1, <2>3 DEF Explained
<1>3. Explained(new, Len(tr) + 1)
  <2>1. CASE tr = <<>>
    <3>1. Len(tr) = 0
      BY <2>1
    <3>2. rec.cause = 0
      BY <3>1
    <3> HIDE DEF new
    <3>3. QED
      BY <1>1, <3>1, <3>2 DEF Explained
  <2>2. CASE tr # <<>>
    <3>1. rec.cause \in 1..Len(tr) /\ RightCause(rec, tr[rec.cause])
      BY <2>2
    <3>2. Len(tr) + 1 # 1 /\ new[rec.cause] = tr[rec.cause]
      BY <1>1, <3>1
    <3> HIDE DEF new
    <3>3. QED
      BY <1>1, <3>1, <3>2 DEF Explained
  <2>3. QED
    BY <2>1, <2>2
<1> HIDE DEF new
<1>4. \A i \in 1..(Len(tr) + 1) : i \in 1..Len(tr) \/ i = Len(tr) + 1
  BY <1>1
<1>5. \A i \in DOMAIN new : Explained(new, i)
  BY <1>1, <1>2, <1>3, <1>4
<1>6. QED
  BY <1>5 DEF new

-----------------------------------------------------------------------------
(* What appending a record does to its actor's trail *)

\* Record rec is appended to a's trail.
Appends(a, rec) ==
  /\ rec.cause = cause[a]
  /\ trail' = [trail EXCEPT ![a] = Append(trail[a], rec)]

Says(rec, kind, call, note) ==
  rec.kind = kind /\ rec.call = call /\ rec.note = note

LEMMA LogAppends ==
  ASSUME TypeOK, NEW a \in Actor, NEW call \in Call \cup {NoCall},
         NEW kind, NEW note, Log(a, kind, call, note),
         kind \in {"user_request", "assistant_message", "tool_call",
                   "policy_decision", "confirmation_request", "tool_result",
                   "diagnose_result", "confirmation_response"},
         note \in {"", "allow", "deny", "ask_user", "denied", "ran",
                   "once", "session", "cancel"}
  PROVE  \E rec \in AuditRecord :
           Says(rec, kind, call, note) /\ Appends(a, rec)
<1> DEFINE rec == [kind |-> kind, call |-> call, note |-> note,
                   cause |-> cause[a]]
<1>1. rec \in AuditRecord
  BY DEF TypeOK, DataOK, AuditRecord
<1>2. Says(rec, kind, call, note)
  BY DEF Says
<1>3. Appends(a, rec)
  BY DEF Log, Appends
<1> HIDE DEF rec
<1>4. QED
  BY <1>1, <1>2, <1>3

LEMMA AppendFacts ==
  ASSUME NEW S, NEW tr \in Seq(S), NEW e \in S
  PROVE  /\ Len(tr) \in Nat /\ Len(Append(tr, e)) = Len(tr) + 1
         /\ DOMAIN tr = 1..Len(tr)
         /\ DOMAIN Append(tr, e) = 1..(Len(tr) + 1)
         /\ \A i \in 1..Len(tr) : Append(tr, e)[i] = tr[i]
         /\ Append(tr, e)[Len(tr) + 1] = e
BY AppendProperties

LEMMA AppendsToTrail ==
  ASSUME TypeOK, NEW a \in Actor, NEW rec \in AuditRecord, Appends(a, rec)
  PROVE  /\ trail[a] \in Seq(AuditRecord)
         /\ trail'[a] = Append(trail[a], rec)
         /\ \A b \in Actor : b # a => trail'[b] = trail[b]
         /\ Len(trail[a]) \in Nat /\ Len(trail'[a]) = Len(trail[a]) + 1
         /\ DOMAIN trail[a] = 1..Len(trail[a])
         /\ DOMAIN trail'[a] = 1..(Len(trail[a]) + 1)
         /\ \A i \in 1..Len(trail[a]) : trail'[a][i] = trail[a][i]
         /\ trail'[a][Len(trail[a]) + 1] = rec
<1>1. trail[a] \in Seq(AuditRecord) /\ trail \in [Actor -> Seq(AuditRecord)]
  BY DEF TypeOK, DataOK
<1>2. trail'[a] = Append(trail[a], rec)
      /\ \A b \in Actor : b # a => trail'[b] = trail[b]
  BY <1>1 DEF Appends
<1>3. QED
  BY <1>1, <1>2, AppendFacts

\* An actor that does nothing keeps its thread.
LEMMA ThreadKept ==
  ASSUME NEW b \in Actor, Thread(b), pc'[b] = pc[b], todo'[b] = todo[b],
         trail'[b] = trail[b], cause'[b] = cause[b]
  PROVE  Thread(b)'
BY DEF Thread, OriginOK, Origin

LEMMA ThreadOthers ==
  ASSUME TypeOK, ThreadInv, NEW a \in Actor, Thread(a)',
         \A b \in Actor : b # a =>
           /\ pc'[b] = pc[b] /\ todo'[b] = todo[b]
           /\ trail'[b] = trail[b] /\ cause'[b] = cause[b]
  PROVE  ThreadInv'
BY ThreadKept DEF ThreadInv

\* An actor that appends nothing: what it has to show where it goes.
LEMMA ThreadMoves ==
  ASSUME TypeOK, ThreadInv, NEW a \in Actor, UNCHANGED <<trail, cause>>,
         \A b \in Actor : b # a => pc'[b] = pc[b] /\ todo'[b] = todo[b],
         pc'[a] \in {"idle", "accept"} => pc[a] = "idle",
         pc'[a] \in Recording => pc[a] \in Recording /\ OriginOK(a)'
  PROVE  ThreadInv'
<1>1. Thread(a)'
  BY DEF ThreadInv, Thread
<1>2. QED
  BY <1>1, ThreadOthers

\* The record an actor appends is explained by its cause, if it has one.
Follows(a, rec) ==
  \/ pc[a] \in {"idle", "accept"}
  \/ pc[a] \in Recording /\ RightCause(rec, Origin(a))

LEMMA ThreadGrows ==
  ASSUME TypeOK, NEW a \in Actor, Thread(a), NEW rec \in AuditRecord,
         Appends(a, rec), Follows(a, rec)
  PROVE  /\ \A i \in DOMAIN trail'[a] : Explained(trail'[a], i)
         /\ \A b \in Actor : b # a => trail'[b] = trail[b]
<1>1. /\ trail[a] \in Seq(AuditRecord)
      /\ trail'[a] = Append(trail[a], rec)
      /\ \A b \in Actor : b # a => trail'[b] = trail[b]
  BY AppendsToTrail
<1>2. \/ trail[a] = <<>> /\ rec.cause = 0
      \/ rec.cause \in 1..Len(trail[a]) /\ RightCause(rec, trail[a][rec.cause])
  BY DEF Follows, Thread, Origin, Appends
<1>3. \A i \in DOMAIN trail'[a] : Explained(trail'[a], i)
  BY <1>1, <1>2, AppendExplained DEF Thread
<1>4. QED
  BY <1>1, <1>3

\* The record becomes the next cause.
LEMMA RecordIsOrigin ==
  ASSUME TypeOK, NEW a \in Actor, NEW rec \in AuditRecord, Appends(a, rec),
         BecomesCause(a)
  PROVE  /\ cause'[a] \in 1..Len(trail'[a])
         /\ Origin(a)' = rec
         /\ \A b \in Actor : b # a => cause'[b] = cause[b]
<1>1. cause'[a] = Len(trail[a]) + 1
      /\ \A b \in Actor : b # a => cause'[b] = cause[b]
  BY DEF BecomesCause, TypeOK, DataOK
<1>2. QED
  BY <1>1, AppendsToTrail DEF Origin

\* The cause stays in the trail.
LEMMA OriginStays ==
  ASSUME TypeOK, NEW a \in Actor, Thread(a), NEW rec \in AuditRecord,
         Appends(a, rec), cause' = cause, pc[a] \in Recording
  PROVE  /\ cause'[a] \in 1..Len(trail'[a])
         /\ \A b \in Actor : b # a => cause'[b] = cause[b]
<1>1. cause[a] \in 1..Len(trail[a])
  BY DEF Thread
<1>2. QED
  BY <1>1, AppendsToTrail

-----------------------------------------------------------------------------
(* The actions that append *)

LEMMA AcceptThread ==
  ASSUME TypeOK, ThreadInv, NEW r \in Request, Accept(r)
  PROVE  ThreadInv'
<1>1. r \in Actor /\ Thread(r)
  BY DEF Actor, ThreadInv
<1>2. PICK rec \in AuditRecord : Appends(r, rec)
  BY <1>1, LogAppends DEF Accept
<1>3. Follows(r, rec)
  BY DEF Accept, Follows
<1>4. pc'[r] \in {"model", "complete"} /\ todo' = todo
      /\ \A b \in Actor : b # r => pc'[b] = pc[b]
  BY <1>1 DEF Accept, LoopHead, TypeOK, ControlOK
<1>5. Thread(r)'
  BY <1>1, <1>2, <1>3, <1>4, ThreadGrows, RecordIsOrigin
     DEF Thread, OriginOK, Accept
<1>6. QED
  BY <1>1, <1>2, <1>3, <1>4, <1>5, ThreadGrows, RecordIsOrigin, ThreadOthers
     DEF Accept

LEMMA ModelReplyThread ==
  ASSUME TypeOK, ThreadInv, NEW r \in Request, NEW reply \in Reply,
         ModelReply(r, reply)
  PROVE  ThreadInv'
<1>1. r \in Actor /\ Thread(r) /\ pc[r] \in Recording
  BY DEF Actor, ThreadInv, ModelReply, Recording, Working
<1>2. pc'[r] \in {"propose", "complete"}
      /\ \A b \in Actor : b # r => pc'[b] = pc[b] /\ todo'[b] = todo[b]
  BY <1>1 DEF ModelReply, TypeOK, ControlOK
<1>3. CASE UNCHANGED <<trail, cause>>
  BY <1>1, <1>2, <1>3, ThreadMoves DEF OriginOK
<1>4. CASE Log(r, "assistant_message", NoCall, "") /\ BecomesCause(r)
  <2>1. PICK rec \in AuditRecord :
          Says(rec, "assistant_message", NoCall, "") /\ Appends(r, rec)
    BY <1>1, <1>4, LogAppends
  <2>2. Follows(r, rec)
    BY <1>1, <2>1 DEF Follows, Says, RightCause
  <2>3. Thread(r)'
    BY <1>1, <1>2, <1>4, <2>1, <2>2, ThreadGrows, RecordIsOrigin
       DEF Thread, OriginOK
  <2>4. QED
    BY <1>1, <1>2, <1>4, <2>1, <2>2, <2>3, ThreadGrows, RecordIsOrigin,
       ThreadOthers
<1>5. QED
  BY <1>3, <1>4 DEF ModelReply

LEMMA ProposeCallThread ==
  ASSUME TypeOK, ThreadInv, NEW r \in Request, ProposeCall(r)
  PROVE  ThreadInv'
<1>1. r \in Actor /\ Thread(r) /\ pc[r] \in Recording
  BY DEF Actor, ThreadInv, ProposeCall, Recording, Working
<1>2. PICK call \in Call : call = Head(todo[r])
  BY <1>1, CurrentType DEF ProposeCall, WithCall, TypeOK
<1>3. PICK rec \in AuditRecord :
        Says(rec, "tool_call", call, "") /\ Appends(r, rec)
  BY <1>1, <1>2, LogAppends DEF ProposeCall
<1>4. Follows(r, rec) /\ BecomesCause(r)
  BY <1>1, <1>3 DEF Follows, Says, RightCause, ProposeCall
<1>5. pc'[r] = "decide" /\ todo' = todo
      /\ \A b \in Actor : b # r => pc'[b] = pc[b]
  BY <1>1 DEF ProposeCall, TypeOK, ControlOK
<1>6. Origin(r)' = rec
  BY <1>1, <1>3, <1>4, RecordIsOrigin
<1>7. OriginOK(r)'
  BY <1>2, <1>3, <1>5, <1>6 DEF OriginOK, Says
<1>8. Thread(r)'
  BY <1>1, <1>3, <1>4, <1>5, <1>7, ThreadGrows, RecordIsOrigin DEF Thread
<1>9. QED
  BY <1>1, <1>3, <1>4, <1>5, <1>8, ThreadGrows, RecordIsOrigin, ThreadOthers

LEMMA DecideCallThread ==
  ASSUME TypeOK, ThreadInv, NEW r \in Request, DecideCall(r)
  PROVE  ThreadInv'
<1>1. r \in Actor /\ Thread(r) /\ pc[r] \in Recording
  BY DEF Actor, ThreadInv, DecideCall, Recording, Working
<1>2. PICK call \in Call : call = Head(todo[r])
  BY <1>1, CurrentType DEF DecideCall, WithCall, TypeOK
<1>3. PICK verdict \in {"allow", "deny", "ask_user"} : verdict = Verdict(call)
  BY VerdictType DEF PolicyVerdict
<1>4. Log(r, "policy_decision", call, verdict) /\ BecomesCause(r)
  BY <1>2, <1>3 DEF DecideCall
<1>5. PICK rec \in AuditRecord :
        IsDecision(rec, call, verdict) /\ Appends(r, rec)
  <2>1. \E rec \in AuditRecord :
          Says(rec, "policy_decision", call, verdict) /\ Appends(r, rec)
    BY <1>1, <1>4, LogAppends
  <2>2. QED
    BY <2>1 DEF IsDecision, Says
<1>6. Follows(r, rec)
  BY <1>1, <1>2, <1>5
     DEF Follows, Says, RightCause, IsDecision, Thread, OriginOK, DecideCall
<1>7. /\ todo' = todo
      /\ \A b \in Actor : b # r => pc'[b] = pc[b]
      /\ \/ verdict = "deny" /\ pc'[r] = "denied"
         \/ verdict = "ask_user" /\ pc'[r] = "ask"
         \/ verdict = "allow" /\ pc'[r] = "execute"
  BY <1>1, <1>2, <1>3 DEF DecideCall, TypeOK, ControlOK
<1>8. Origin(r)' = rec
  BY <1>1, <1>4, <1>5, RecordIsOrigin
<1>9. OriginOK(r)'
  BY <1>2, <1>5, <1>7, <1>8 DEF OriginOK
<1>10. Thread(r)'
  BY <1>1, <1>4, <1>5, <1>6, <1>7, <1>9, ThreadGrows, RecordIsOrigin DEF Thread
<1>11. QED
  BY <1>1, <1>4, <1>5, <1>6, <1>7, <1>10, ThreadGrows, RecordIsOrigin,
     ThreadOthers

LEMMA RecordDenialThread ==
  ASSUME TypeOK, ThreadInv, NEW r \in Request, RecordDenial(r)
  PROVE  ThreadInv'
<1>1. r \in Actor /\ Thread(r) /\ pc[r] \in Recording
  BY DEF Actor, ThreadInv, RecordDenial, Recording, Working
<1>2. PICK call \in Call : call = Head(todo[r])
  BY <1>1, CurrentType DEF RecordDenial, WithCall, TypeOK
<1>3. PICK rec \in AuditRecord :
        Says(rec, "tool_result", call, "denied") /\ Appends(r, rec)
  BY <1>1, <1>2, LogAppends DEF RecordDenial
<1>4. Follows(r, rec)
  BY <1>1, <1>2, <1>3
     DEF Follows, Says, RightCause, Thread, OriginOK, RecordDenial
<1>5. /\ pc'[r] \in {"propose", "model", "complete"} /\ cause' = cause
      /\ \A b \in Actor : b # r => pc'[b] = pc[b] /\ todo'[b] = todo[b]
  BY <1>1 DEF RecordDenial, NextCall, LoopHead, TypeOK, ControlOK
<1>6. Thread(r)'
  BY <1>1, <1>3, <1>4, <1>5, ThreadGrows, OriginStays DEF Thread, OriginOK
<1>7. QED
  BY <1>1, <1>3, <1>4, <1>5, <1>6, ThreadGrows, OriginStays, ThreadOthers

LEMMA AskUserThread ==
  ASSUME TypeOK, ThreadInv, NEW r \in Request, AskUser(r)
  PROVE  ThreadInv'
<1>1. r \in Actor /\ Thread(r) /\ pc[r] \in Recording
  BY DEF Actor, ThreadInv, AskUser, Recording, Working
<1>2. PICK call \in Call : call = Head(todo[r])
  BY <1>1, CurrentType DEF AskUser, WithCall, TypeOK
<1>3. PICK rec \in AuditRecord :
        Says(rec, "confirmation_request", call, "") /\ Appends(r, rec)
  BY <1>1, <1>2, LogAppends DEF AskUser
<1>4. Follows(r, rec)
  BY <1>1, <1>2, <1>3
     DEF Follows, Says, RightCause, Thread, OriginOK, AskUser
<1>5. /\ pc'[r] = "persist_pending" /\ cause' = cause /\ todo' = todo
      /\ \A b \in Actor : b # r => pc'[b] = pc[b]
  BY <1>1 DEF AskUser, TypeOK, ControlOK
<1>6. Thread(r)'
  BY <1>1, <1>3, <1>4, <1>5, ThreadGrows, OriginStays DEF Thread, OriginOK
<1>7. QED
  BY <1>1, <1>3, <1>4, <1>5, <1>6, ThreadGrows, OriginStays, ThreadOthers

LEMMA RecordResultThread ==
  ASSUME TypeOK, ThreadInv, NEW r \in Request, RecordResult(r)
  PROVE  ThreadInv'
<1>1. r \in Actor /\ Thread(r) /\ pc[r] \in Recording
  BY DEF Actor, ThreadInv, RecordResult, Recording, Working
<1>2. PICK call \in Call : call = Head(todo[r])
  BY <1>1, CurrentType DEF RecordResult, WithCall, TypeOK
<1>3. PICK rec \in AuditRecord :
        Says(rec, "tool_result", call, "ran") /\ Appends(r, rec)
  BY <1>1, <1>2, LogAppends DEF RecordResult
<1>4. Follows(r, rec) /\ BecomesCause(r)
  BY <1>1, <1>2, <1>3
     DEF Follows, Says, RightCause, Thread, OriginOK, YesTo, RecordResult
<1>5. /\ pc'[r] \in {"propose", "model", "complete"}
      /\ \A b \in Actor : b # r => pc'[b] = pc[b] /\ todo'[b] = todo[b]
  BY <1>1 DEF RecordResult, NextCall, LoopHead, TypeOK, ControlOK
<1>6. Thread(r)'
  BY <1>1, <1>3, <1>4, <1>5, ThreadGrows, RecordIsOrigin DEF Thread, OriginOK
<1>7. QED
  BY <1>1, <1>3, <1>4, <1>5, <1>6, ThreadGrows, RecordIsOrigin, ThreadOthers

LEMMA CompleteThread ==
  ASSUME TypeOK, ThreadInv, NEW r \in Request, Complete(r)
  PROVE  ThreadInv'
<1>1. r \in Actor /\ Thread(r) /\ pc[r] \in Recording
  BY DEF Actor, ThreadInv, Complete, Recording, Working
<1>2. PICK rec \in AuditRecord :
        Says(rec, "diagnose_result", NoCall, "") /\ Appends(r, rec)
  BY <1>1, LogAppends DEF Complete
<1>3. Follows(r, rec)
  BY <1>1, <1>2 DEF Follows, Says, RightCause
<1>4. /\ pc'[r] = "persist_ok" /\ cause' = cause /\ todo' = todo
      /\ \A b \in Actor : b # r => pc'[b] = pc[b]
  BY <1>1 DEF Complete, TypeOK, ControlOK
<1>5. Thread(r)'
  BY <1>1, <1>2, <1>3, <1>4, ThreadGrows, OriginStays DEF Thread, OriginOK
<1>6. QED
  BY <1>1, <1>2, <1>3, <1>4, <1>5, ThreadGrows, OriginStays, ThreadOthers

LEMMA RespondThread ==
  ASSUME TypeOK, ThreadInv, NEW c \in Confirm, NEW call \in Call,
         NEW scope \in {"once", "session", "cancel"},
         NEW s \in Session \cup {NoSession}, Respond(c, call, scope, s)
  PROVE  ThreadInv'
<1>1. c \in Actor /\ Thread(c)
  BY DEF Actor, ThreadInv
<1>2. PICK rec \in AuditRecord :
        Says(rec, "confirmation_response", call, scope) /\ Appends(c, rec)
  BY <1>1, LogAppends DEF Respond
<1>3. Follows(c, rec) /\ BecomesCause(c)
  BY DEF Respond, Follows
<1>4. /\ pc'[c] = IF scope = "cancel" THEN "append_cancelled" ELSE "check"
      /\ Head(todo'[c]) = call
      /\ \A b \in Actor : b # c => pc'[b] = pc[b] /\ todo'[b] = todo[b]
  BY <1>1 DEF Respond, TypeOK, ControlOK
<1>5. Origin(c)' = rec
  BY <1>1, <1>2, <1>3, RecordIsOrigin
<1>6. OriginOK(c)'
  BY <1>2, <1>4, <1>5 DEF OriginOK, Says, YesTo
<1>7. Thread(c)'
  BY <1>1, <1>2, <1>3, <1>4, <1>6, ThreadGrows, RecordIsOrigin DEF Thread
<1>8. QED
  BY <1>1, <1>2, <1>3, <1>4, <1>7, ThreadGrows, RecordIsOrigin, ThreadOthers

LEMMA ConfirmedResultThread ==
  ASSUME TypeOK, ThreadInv, NEW c \in Confirm, ConfirmedResult(c)
  PROVE  ThreadInv'
<1>1. c \in Actor /\ Thread(c) /\ pc[c] \in Recording
  BY DEF Actor, ThreadInv, ConfirmedResult, Recording, Confirming
<1>2. PICK call \in Call : call = Head(todo[c])
  BY <1>1, CurrentType DEF ConfirmedResult, WithCall, TypeOK
<1>3. PICK rec \in AuditRecord :
        Says(rec, "tool_result", call, "ran") /\ Appends(c, rec)
  BY <1>1, <1>2, LogAppends DEF ConfirmedResult
<1>4. Follows(c, rec)
  BY <1>1, <1>2, <1>3
     DEF Follows, Says, RightCause, Thread, OriginOK, YesTo, ConfirmedResult
<1>5. /\ pc'[c] = "append_result" /\ cause' = cause /\ todo' = todo
      /\ \A b \in Actor : b # c => pc'[b] = pc[b]
  BY <1>1 DEF ConfirmedResult, TypeOK, ControlOK
<1>6. Thread(c)'
  BY <1>1, <1>3, <1>4, <1>5, ThreadGrows, OriginStays DEF Thread, OriginOK
<1>7. QED
  BY <1>1, <1>3, <1>4, <1>5, <1>6, ThreadGrows, OriginStays, ThreadOthers

-----------------------------------------------------------------------------
(* The actions that append nothing *)

LEMMA SilentThread ==
  ASSUME TypeOK, ThreadInv, NEW a \in Actor,
         \/ \E s \in Session : Admit(a, s)
         \/ Refuse(a)
         \/ Persist(a) \/ Timeout(a) \/ Abort(a) \/ ToolRefuses(a)
         \/ StartTool(a) \/ FinishTool(a)
         \/ Check(a) \/ AppendOutcome(a)
  PROVE  ThreadInv'
<1>1. /\ UNCHANGED <<trail, cause>> /\ todo' = todo
      /\ \A b \in Actor : b # a => pc'[b] = pc[b]
  BY DEF Admit, Refuse, Persist, Timeout, Abort, ToolRefuses, StartTool,
         FinishTool, Check, AppendOutcome, TypeOK, ControlOK
<1>2. \/ pc'[a] \in Ended
      \/ pc[a] = "idle" /\ pc'[a] = "accept"
      \/ pc[a] = "check" /\ pc'[a] = "execute"
      \/ pc[a] = "execute" /\ pc'[a] \in {"running", "blocked"}
      \/ pc[a] \in {"execute", "running", "blocked"} /\ pc'[a] = "result"
  BY DEF Admit, Refuse, Persist, Timeout, Abort, ToolRefuses, StartTool,
         FinishTool, Check, AppendOutcome, TypeOK, ControlOK, Ended
<1>3. pc'[a] \in {"idle", "accept"} => pc[a] = "idle"
  BY <1>2 DEF Ended
<1>4. ASSUME pc'[a] \in Recording PROVE pc[a] \in Recording /\ OriginOK(a)'
  <2>1. \/ pc[a] = "check" /\ pc'[a] = "execute"
        \/ pc[a] = "execute" /\ pc'[a] \in {"running", "blocked"}
        \/ pc[a] \in {"execute", "running", "blocked"} /\ pc'[a] = "result"
    BY <1>2, <1>4 DEF Ended, Recording, Working, Confirming
  <2>2. pc[a] \in Recording
    BY <2>1 DEF Recording, Working, Confirming
  <2>3. OriginOK(a) /\ Origin(a)' = Origin(a)
    BY <1>1, <2>2 DEF ThreadInv, Thread, Origin
  <2>4. QED
    BY <1>1, <2>1, <2>2, <2>3 DEF OriginOK
<1>5. QED
  BY <1>1, <1>3, <1>4, ThreadMoves

LEMMA RestartThread ==
  ASSUME TypeOK, ThreadInv, Restart
  PROVE  ThreadInv'
<1> SUFFICES ASSUME NEW a \in Actor PROVE Thread(a)'
  BY DEF ThreadInv
<1>1. UNCHANGED <<trail, cause, todo>>
  BY DEF Restart
<1>2. pc'[a] \in Ended \/ (pc'[a] = "idle" /\ pc[a] = "idle")
  BY DEF Restart, Ended
<1>3. QED
  BY <1>1, <1>2 DEF ThreadInv, Thread, Ended, Recording, Working, Confirming

LEMMA NextThread == TypeOK /\ ThreadInv /\ [Next]_vars => ThreadInv'
<1> SUFFICES ASSUME TypeOK, ThreadInv, [Next]_vars PROVE ThreadInv'
  OBVIOUS
<1>1. ASSUME NEW r \in Request,
             \/ \E s \in Session : Admit(r, s)
             \/ Refuse(r) \/ FinishTool(r) \/ Timeout(r) \/ Abort(r)
      PROVE  ThreadInv'
  BY <1>1, SilentThread DEF Actor
<1>2. ASSUME NEW r \in Request, RequestStep(r) PROVE ThreadInv'
  BY <1>2, AcceptThread, ProposeCallThread, DecideCallThread,
     RecordDenialThread, AskUserThread, RecordResultThread, CompleteThread,
     SilentThread
     DEF RequestStep, Actor
<1>3. ASSUME NEW c \in Confirm, ConfirmStep(c) PROVE ThreadInv'
  BY <1>3, ConfirmedResultThread, SilentThread DEF ConfirmStep, Actor
<1>4. CASE (\E s \in Session : ChatReset(s)) \/ ClearGrants \/ UNCHANGED vars
  <2>1. UNCHANGED <<pc, todo, trail, cause>>
    BY <1>4 DEF ChatReset, ClearGrants, vars
  <2>2. QED
    BY <2>1, ThreadKept DEF ThreadInv
<1>5. QED
  BY <1>1, <1>2, <1>3, <1>4, ModelReplyThread, RespondThread, RestartThread
     DEF Next

LEMMA InitThread == Init => ThreadInv
BY DEF Init, ThreadInv, Thread, Recording, Working, Confirming

\* However handlers interleave, fail, time out or are lost in a restart, the
\* causation_id of every record leads to the record it says it follows from.
THEOREM CausesAlwaysExplain == Spec => []CausesExplain
<1>1. ThreadInv => CausesExplain
  BY DEF ThreadInv, Thread, Explained, CausesExplain
<1>2. QED
  BY <1>1, TypeCorrect, InitThread, NextThread, PTL DEF Spec

-----------------------------------------------------------------------------
(* Runs on record *)

Count(a) == Cardinality(ResultsOnRecord(a))

\* Where every run of a handler's tools is on record.
Level ==
  ({"idle", "busy", "ok", "pending"} \cup Working \cup Confirming)
    \ {"running", "blocked", "result"}

LastRunYields(a) == ran[a][Len(ran[a])].tool \in Yielding

Accounted(a) ==
  /\ Len(ran[a]) \in {Count(a), Count(a) + 1}
  /\ pc[a] \in Level => Len(ran[a]) = Count(a)
  /\ pc[a] \in {"running", "blocked", "result"} => Len(ran[a]) = Count(a) + 1
  /\ pc[a] = "running" => LastRunYields(a)
  /\ pc[a] = "timeout" /\ Len(ran[a]) = Count(a) + 1 => LastRunYields(a)

\* Why RunsOnRecord is preserved.
AccountsInv == \A a \in Actor : Accounted(a)

LEMMA CountType ==
  ASSUME TypeOK, NEW a \in Actor
  PROVE  IsFiniteSet(ResultsOnRecord(a)) /\ Count(a) \in Nat
<1>1. trail[a] \in Seq(AuditRecord)
  BY DEF TypeOK, DataOK
<1>2. Len(trail[a]) \in Nat /\ DOMAIN trail[a] = 1..Len(trail[a])
  BY <1>1
<1>3. ResultsOnRecord(a) \subseteq 1..Len(trail[a])
  BY <1>2 DEF ResultsOnRecord
<1>4. IsFiniteSet(1..Len(trail[a]))
  BY <1>2, FS_Interval
<1>5. IsFiniteSet(ResultsOnRecord(a))
  BY <1>3, <1>4, FS_Subset
<1>6. QED
  BY <1>5, FS_CardinalityType DEF Count

IsRun(rec) == rec.kind = "tool_result" /\ rec.note = "ran"

LEMMA ResultsGrow ==
  ASSUME TypeOK, NEW a \in Actor, NEW rec \in AuditRecord, Appends(a, rec)
  PROVE  /\ IsRun(rec) => Count(a)' = Count(a) + 1
         /\ ~IsRun(rec) => Count(a)' = Count(a)
         /\ \A b \in Actor : b # a => Count(b)' = Count(b)
<1> DEFINE n == Len(trail[a]) + 1
<1>1. /\ n \in Nat /\ n \notin DOMAIN trail[a]
      /\ DOMAIN trail'[a] = DOMAIN trail[a] \cup {n}
      /\ \A i \in DOMAIN trail[a] : trail'[a][i] = trail[a][i]
      /\ trail'[a][n] = rec
      /\ \A b \in Actor : b # a => trail'[b] = trail[b]
  <2>1. /\ Len(trail[a]) \in Nat
        /\ DOMAIN trail[a] = 1..Len(trail[a])
        /\ DOMAIN trail'[a] = 1..(Len(trail[a]) + 1)
        /\ \A i \in 1..Len(trail[a]) : trail'[a][i] = trail[a][i]
        /\ trail'[a][Len(trail[a]) + 1] = rec
        /\ \A b \in Actor : b # a => trail'[b] = trail[b]
    BY AppendsToTrail
  <2>2. QED
    BY <2>1
<1> HIDE DEF n
<1>2. n \notin ResultsOnRecord(a)
  BY <1>1 DEF ResultsOnRecord
<1>3. ASSUME IsRun(rec) PROVE Count(a)' = Count(a) + 1
  <2>1. ResultsOnRecord(a)' = ResultsOnRecord(a) \cup {n}
    BY <1>1, <1>3 DEF ResultsOnRecord, IsRun
  <2>2. QED
    BY <1>2, <2>1, CountType, FS_AddElement DEF Count
<1>4. ASSUME ~IsRun(rec) PROVE Count(a)' = Count(a)
  <2>1. ResultsOnRecord(a)' = ResultsOnRecord(a)
    BY <1>1, <1>4 DEF ResultsOnRecord, IsRun
  <2>2. QED
    BY <2>1 DEF Count
<1>5. ASSUME NEW b \in Actor, b # a PROVE Count(b)' = Count(b)
  BY <1>1, <1>5 DEF Count, ResultsOnRecord
<1>6. QED
  BY <1>3, <1>4, <1>5

\* Nothing runs, and nothing is put on record that ran.
LEMMA AccountsMove ==
  ASSUME TypeOK, AccountsInv, NEW a \in Actor, ran' = ran,
         \A b \in Actor : Count(b)' = Count(b),
         \A b \in Actor : b # a => pc'[b] = pc[b],
         \/ pc[a] \in Level /\ pc'[a] \in Level \cup Ended
         \/ /\ pc[a] \in {"running", "blocked"}
            /\ pc'[a] \in {"result", "error"} \cup
                 (IF pc[a] = "running" THEN {"timeout"} ELSE {})
         \/ pc[a] = "result" /\ pc'[a] = "error"
  PROVE  AccountsInv'
<1>1. \A b \in Actor : b # a => Accounted(b)'
  BY DEF AccountsInv, Accounted, LastRunYields
<1>2. Accounted(a)'
  <2>1. Count(a) \in Nat /\ Accounted(a)
    BY CountType DEF AccountsInv
  <2>2. CASE pc[a] \in Level /\ pc'[a] \in Level \cup Ended
    BY <2>1, <2>2 DEF Accounted, LastRunYields, Level, Ended, Working, Confirming
  <2>3. CASE /\ pc[a] \in {"running", "blocked"}
            /\ pc'[a] \in {"result", "error"} \cup
                 (IF pc[a] = "running" THEN {"timeout"} ELSE {})
    BY <2>1, <2>3 DEF Accounted, LastRunYields, Level, Working, Confirming
  <2>4. CASE pc[a] = "result" /\ pc'[a] = "error"
    BY <2>1, <2>4 DEF Accounted, LastRunYields, Level, Working, Confirming
  <2>5. QED
    BY <2>2, <2>3, <2>4
<1>3. QED
  BY <1>1, <1>2 DEF AccountsInv

LEMMA SilentCounts ==
  ASSUME trail' = trail
  PROVE  \A b \in Actor : Count(b)' = Count(b)
BY DEF Count, ResultsOnRecord

LEMMA SilentAccounts ==
  ASSUME TypeOK, AccountsInv, NEW a \in Actor,
         \/ \E s \in Session : Admit(a, s)
         \/ Refuse(a)
         \/ Persist(a) \/ Timeout(a) \/ Abort(a) \/ ToolRefuses(a)
         \/ FinishTool(a) \/ Check(a) \/ AppendOutcome(a)
  PROVE  AccountsInv'
<1>1. /\ trail' = trail /\ ran' = ran
      /\ \A b \in Actor : b # a => pc'[b] = pc[b]
  BY DEF Admit, Refuse, Persist, Timeout, Abort, ToolRefuses, FinishTool,
         Check, AppendOutcome, TypeOK, ControlOK
<1>2. \/ pc[a] \in Level /\ pc'[a] \in Level \cup Ended
      \/ /\ pc[a] \in {"running", "blocked"}
            /\ pc'[a] \in {"result", "error"} \cup
                 (IF pc[a] = "running" THEN {"timeout"} ELSE {})
      \/ pc[a] = "result" /\ pc'[a] = "error"
  <2>1. CASE (\E s \in Session : Admit(a, s)) \/ Refuse(a) \/ Persist(a)
    BY <2>1 DEF Admit, Refuse, Persist, Level, Ended, Working, TypeOK, ControlOK
  <2>2. CASE Timeout(a)
    BY <2>2 DEF Timeout, Suspended, Level, Ended, Working, TypeOK, ControlOK
  <2>3. CASE Abort(a)
    BY <2>3 DEF Abort, Fallible, Level, Ended, Working, Confirming, TypeOK,
                ControlOK
  <2>4. CASE ToolRefuses(a) \/ FinishTool(a) \/ Check(a) \/ AppendOutcome(a)
    BY <2>4 DEF ToolRefuses, FinishTool, Check, AppendOutcome, Level, Ended,
                Working, Confirming, TypeOK, ControlOK
  <2>5. QED
    BY <2>1, <2>2, <2>3, <2>4
<1>3. QED
  BY <1>1, <1>2, SilentCounts, AccountsMove

\* Records of what is not a run.
LEMMA RecordAccounts ==
  ASSUME TypeOK, AccountsInv, NEW a \in Actor,
         NEW call \in Call \cup {NoCall}, NEW kind, NEW note,
         Log(a, kind, call, note),
         kind \in {"user_request", "assistant_message", "tool_call",
                   "policy_decision", "confirmation_request", "tool_result",
                   "diagnose_result", "confirmation_response"},
         note \in {"", "allow", "deny", "ask_user", "denied",
                   "once", "session", "cancel"},
         ran' = ran, \A b \in Actor : b # a => pc'[b] = pc[b],
         pc[a] \in Level, pc'[a] \in Level
  PROVE  AccountsInv'
<1>1. PICK rec \in AuditRecord : Says(rec, kind, call, note) /\ Appends(a, rec)
  BY LogAppends
<1>2. ~IsRun(rec)
  BY <1>1 DEF Says, IsRun
<1>3. \A b \in Actor : Count(b)' = Count(b)
  BY <1>1, <1>2, ResultsGrow
<1>4. QED
  BY <1>3, AccountsMove

LEMMA RequestAccounts ==
  ASSUME TypeOK, AccountsInv, NEW r \in Request,
         \/ Accept(r)
         \/ \E reply \in Reply : ModelReply(r, reply)
         \/ ProposeCall(r) \/ DecideCall(r) \/ RecordDenial(r)
         \/ AskUser(r) \/ Complete(r)
  PROVE  AccountsInv'
<1>1. r \in Actor
  BY DEF Actor
<1>2. ran' = ran /\ \A b \in Actor : b # r => pc'[b] = pc[b]
  BY <1>1 DEF Accept, ModelReply, ProposeCall, DecideCall, RecordDenial,
       AskUser, Complete, NextCall, TypeOK, ControlOK
<1>3. pc[r] \in Level
  BY DEF Accept, ModelReply, ProposeCall, DecideCall, RecordDenial, AskUser,
         Complete, Level, Working
<1>4. CASE Accept(r) \/ Complete(r) \/ \E reply \in Reply : ModelReply(r, reply)
  <2>1. pc'[r] \in Level
    BY <1>1, <1>4 DEF Accept, ModelReply, Complete, LoopHead, Level, Working,
         TypeOK, ControlOK
  <2>2. \/ Log(r, "user_request", NoCall, "")
        \/ Log(r, "diagnose_result", NoCall, "")
        \/ Log(r, "assistant_message", NoCall, "")
        \/ trail' = trail
    BY <1>4 DEF Accept, ModelReply, Complete
  <2>3. CASE trail' = trail
    BY <1>1, <1>2, <1>3, <2>1, <2>3, SilentCounts, AccountsMove
  <2>4. QED
    BY <1>1, <1>2, <1>3, <2>1, <2>2, <2>3, RecordAccounts
<1>5. CASE ProposeCall(r) \/ RecordDenial(r) \/ AskUser(r)
  <2>1. PICK call \in Call : call = Head(todo[r])
    BY <1>1, <1>5, CurrentType
       DEF ProposeCall, RecordDenial, AskUser, WithCall, TypeOK
  <2>2. pc'[r] \in Level
    BY <1>1, <1>5 DEF ProposeCall, RecordDenial, AskUser, NextCall, LoopHead,
         Level, Working, TypeOK, ControlOK
  <2>3. \/ Log(r, "tool_call", call, "")
        \/ Log(r, "tool_result", call, "denied")
        \/ Log(r, "confirmation_request", call, "")
    BY <1>5, <2>1 DEF ProposeCall, RecordDenial, AskUser
  <2>4. QED
    BY <1>1, <1>2, <1>3, <2>2, <2>3, RecordAccounts
<1>6. CASE DecideCall(r)
  <2>1. PICK call \in Call : call = Head(todo[r])
    BY <1>1, <1>6, CurrentType DEF DecideCall, WithCall, TypeOK
  <2>2. PICK verdict \in {"allow", "deny", "ask_user"} : verdict = Verdict(call)
    BY VerdictType DEF PolicyVerdict
  <2>3. pc'[r] \in Level
    BY <1>1, <1>6, <2>1, <2>2 DEF DecideCall, Level, Working, TypeOK, ControlOK
  <2>4. Log(r, "policy_decision", call, verdict)
    BY <1>6, <2>1, <2>2 DEF DecideCall
  <2>5. QED
    BY <1>1, <1>2, <1>3, <2>3, <2>4, RecordAccounts
<1>7. QED
  BY <1>4, <1>5, <1>6

LEMMA RespondAccounts ==
  ASSUME TypeOK, AccountsInv, NEW c \in Confirm, NEW call \in Call,
         NEW scope \in {"once", "session", "cancel"},
         NEW s \in Session \cup {NoSession}, Respond(c, call, scope, s)
  PROVE  AccountsInv'
<1>1. c \in Actor
  BY DEF Actor
<1>2. /\ ran' = ran /\ \A b \in Actor : b # c => pc'[b] = pc[b]
      /\ pc[c] \in Level /\ pc'[c] \in Level
  BY <1>1 DEF Respond, Level, Confirming, TypeOK, ControlOK
<1>3. Log(c, "confirmation_response", call, scope)
  BY DEF Respond
<1>4. QED
  BY <1>1, <1>2, <1>3, RecordAccounts

LEMMA StartToolAccounts ==
  ASSUME TypeOK, AccountsInv, NEW a \in Actor, StartTool(a)
  PROVE  AccountsInv'
<1>1. \A b \in Actor : Count(b)' = Count(b) /\ Count(b) \in Nat
  BY SilentCounts, CountType DEF StartTool
<1>2. \A b \in Actor : b # a => pc'[b] = pc[b] /\ ran'[b] = ran[b]
  BY DEF StartTool, TypeOK, ControlOK, DataOK
<1>3. PICK call \in Call : call = Head(todo[a])
  BY CurrentType DEF StartTool, WithCall, TypeOK
<1>4. ran'[a] = Append(ran[a], call) /\ ran[a] \in Seq(Call)
  BY <1>3 DEF StartTool, TypeOK, DataOK
<1>5. /\ Len(ran[a]) \in Nat /\ Len(ran'[a]) = Len(ran[a]) + 1
      /\ ran'[a][Len(ran[a]) + 1] = call
  BY <1>4, AppendFacts
<1>6. Len(ran[a]) = Count(a)
  BY DEF AccountsInv, Accounted, StartTool, Level, Working
<1>7. pc'[a] \in {"running", "blocked", "result"}
      /\ (pc'[a] = "running" => call.tool \in Yielding)
  BY <1>3 DEF StartTool, TypeOK, ControlOK
<1>8. Accounted(a)'
  BY <1>1, <1>5, <1>6, <1>7 DEF Accounted, LastRunYields, Level
<1>9. \A b \in Actor : b # a => Accounted(b)'
  BY <1>1, <1>2 DEF AccountsInv, Accounted, LastRunYields
<1>10. QED
  BY <1>8, <1>9 DEF AccountsInv

LEMMA ResultAccounts ==
  ASSUME TypeOK, AccountsInv, NEW a \in Actor,
         RecordResult(a) \/ ConfirmedResult(a)
  PROVE  AccountsInv'
<1>1. PICK call \in Call : call = Head(todo[a])
  BY CurrentType DEF RecordResult, ConfirmedResult, WithCall, TypeOK
<1>2. Log(a, "tool_result", call, "ran")
  BY <1>1 DEF RecordResult, ConfirmedResult
<1>3. PICK rec \in AuditRecord :
        Says(rec, "tool_result", call, "ran") /\ Appends(a, rec)
  BY <1>2, LogAppends
<1>4. IsRun(rec)
  BY <1>3 DEF Says, IsRun
<1>5. /\ Count(a)' = Count(a) + 1 /\ Count(a) \in Nat
      /\ \A b \in Actor : b # a => Count(b)' = Count(b)
  BY <1>3, <1>4, ResultsGrow, CountType
<1>6. /\ ran' = ran /\ pc[a] = "result"
      /\ pc'[a] \in {"propose", "model", "complete", "append_result"}
      /\ \A b \in Actor : b # a => pc'[b] = pc[b]
  BY DEF RecordResult, ConfirmedResult, NextCall, LoopHead, TypeOK, ControlOK
<1>7. Accounted(a)'
  BY <1>5, <1>6 DEF AccountsInv, Accounted
<1>8. \A b \in Actor : b # a => Accounted(b)'
  BY <1>5, <1>6 DEF AccountsInv, Accounted, LastRunYields
<1>9. QED
  BY <1>7, <1>8 DEF AccountsInv

LEMMA RestartAccounts ==
  ASSUME TypeOK, AccountsInv, Restart
  PROVE  AccountsInv'
<1> SUFFICES ASSUME NEW a \in Actor PROVE Accounted(a)'
  BY DEF AccountsInv
<1>1. ran' = ran /\ Count(a)' = Count(a)
  BY SilentCounts DEF Restart
<1>2. pc'[a] = pc[a] \/ pc'[a] = "lost"
  BY DEF Restart
<1>3. QED
  BY <1>1, <1>2
     DEF AccountsInv, Accounted, LastRunYields, Level, Working, Confirming

LEMMA NextAccounts == TypeOK /\ AccountsInv /\ [Next]_vars => AccountsInv'
<1> SUFFICES ASSUME TypeOK, AccountsInv, [Next]_vars PROVE AccountsInv'
  OBVIOUS
<1>1. ASSUME NEW r \in Request,
             \/ \E s \in Session : Admit(r, s)
             \/ Refuse(r) \/ FinishTool(r) \/ Timeout(r) \/ Abort(r)
      PROVE  AccountsInv'
  BY <1>1, SilentAccounts DEF Actor
<1>2. ASSUME NEW r \in Request, RequestStep(r) PROVE AccountsInv'
  BY <1>2, RequestAccounts, ResultAccounts, StartToolAccounts, SilentAccounts
     DEF RequestStep, Actor
<1>3. ASSUME NEW c \in Confirm, ConfirmStep(c) PROVE AccountsInv'
  BY <1>3, ResultAccounts, StartToolAccounts, SilentAccounts
     DEF ConfirmStep, Actor
<1>4. CASE (\E s \in Session : ChatReset(s)) \/ ClearGrants \/ UNCHANGED vars
  <2>1. UNCHANGED <<pc, trail, ran>>
    BY <1>4 DEF ChatReset, ClearGrants, vars
  <2>2. QED
    BY <2>1, SilentCounts DEF AccountsInv, Accounted, LastRunYields
<1>5. QED
  BY <1>1, <1>2, <1>3, <1>4, RequestAccounts, RespondAccounts, RestartAccounts
     DEF Next

LEMMA InitAccounts == Init => AccountsInv
<1> SUFFICES ASSUME Init, NEW a \in Actor PROVE Accounted(a)
  BY DEF AccountsInv
<1>1. pc[a] = "idle" /\ ran[a] = <<>> /\ trail[a] = <<>>
  BY DEF Init
<1>2. ResultsOnRecord(a) = {}
  BY <1>1 DEF ResultsOnRecord
<1>3. Len(ran[a]) = 0 /\ Count(a) = 0
  BY <1>1, <1>2, FS_EmptySet DEF Count
<1>4. QED
  BY <1>1, <1>3 DEF Accounted

\* A tool that ran without a result on record belongs to a handler that is at
\* it, failed or crashed, or to a sleeping tool's that timed out; of each
\* handler at most the last run is missing.
THEOREM RunsAreOnRecord == Spec => []RunsOnRecord
<1>1. TypeOK /\ AccountsInv => RunsOnRecord
  <2> SUFFICES ASSUME TypeOK, AccountsInv, NEW a \in Actor
               PROVE  LET missing == Len(ran[a]) - Count(a)
                      IN  /\ missing \in {0, 1}
                          /\ missing = 1 =>
                               \/ pc[a] \in {"running", "blocked", "result", "error", "lost"}
                               \/ pc[a] = "timeout" /\ LastRunYields(a)
    BY DEF RunsOnRecord, Count, LastRunYields
  <2>1. Count(a) \in Nat /\ Accounted(a)
    BY CountType DEF AccountsInv
  <2>2. pc[a] \in {"idle"} \cup Working \cup Confirming \cup Ended
    BY DEF TypeOK, ControlOK
  <2>3. QED
    BY <2>1, <2>2 DEF Accounted, Level, Ended
<1>2. QED
  BY <1>1, TypeCorrect, InitAccounts, NextAccounts, PTL DEF Spec

-----------------------------------------------------------------------------
(* Finished turns *)

Finished(r) == pc[r] \in {"ok", "pending"}

\* What a message says is on record.
OnRecord(msg) ==
  /\ msg.kind = "result" => ResultsOnRecord(msg.by) # {}
  /\ msg.kind = "cancelled" => Answered(msg.by, "cancel")

\* What a session may hold.
Settled ==
  {msg \in Message : OnRecord(msg) /\ (msg.by \in Request => Finished(msg.by))}

\* What the turn of request r may hold: its own messages besides.
TurnOf(r) ==
  {msg \in Message :
     OnRecord(msg) /\ (msg.by \in Request => msg.by = r \/ Finished(msg.by))}

\* What a confirmation is about to tell its session is on record.
AboutToTell ==
  \A c \in Confirm :
    /\ pc[c] = "append_result" => ResultsOnRecord(c) # {}
    /\ pc[c] = "append_cancelled" => Answered(c, "cancel")

\* Why OnlyFinishedTurns is preserved.
FinishedInv ==
  /\ \A s \in Session : chats[s] \in Seq(Settled)
  /\ \A r \in Request : turn[r] \in Seq(TurnOf(r))
  /\ AboutToTell

\* Records stay, and what has finished has.
Onward ==
  /\ \A a \in Actor : ResultsOnRecord(a) \subseteq ResultsOnRecord(a)'
  /\ FirstsKept
  /\ \A r \in Request : Finished(r) => Finished(r)'

LEMMA SeqOfMore ==
  ASSUME NEW S, NEW T, S \subseteq T, NEW s \in Seq(S)
  PROVE  s \in Seq(T)
OBVIOUS

LEMMA OnwardKeeps ==
  ASSUME Onward
  PROVE  /\ Settled \subseteq Settled'
         /\ \A r \in Request : TurnOf(r) \subseteq TurnOf(r)'
<1>1. ASSUME NEW msg \in Message, OnRecord(msg) PROVE OnRecord(msg)'
  <2>1. msg.by \in Actor
    BY DEF Message
  <2>2. QED
    BY <1>1, <2>1 DEF OnRecord, Onward, FirstsKept, Answered
<1>2. QED
  BY <1>1 DEF Settled, TurnOf, Onward

\* A step appends one record, or none.
LEMMA NextTrail ==
  ASSUME TypeOK, [Next]_vars
  PROVE  \/ trail' = trail
         \/ \E a \in Actor, rec \in AuditRecord : Appends(a, rec)
<1>1. ASSUME NEW r \in Request,
             Accept(r) \/ Complete(r) \/ \E reply \in Reply : ModelReply(r, reply)
      PROVE  trail' = trail \/ \E rec \in AuditRecord : Appends(r, rec)
  <2>1. r \in Actor
    BY DEF Actor
  <2>2. \/ Log(r, "user_request", NoCall, "")
        \/ Log(r, "diagnose_result", NoCall, "")
        \/ Log(r, "assistant_message", NoCall, "")
        \/ trail' = trail
    BY <1>1 DEF Accept, ModelReply, Complete
  <2>3. QED
    BY <2>1, <2>2, LogAppends
<1>2. ASSUME NEW r \in Request,
             ProposeCall(r) \/ RecordDenial(r) \/ AskUser(r) \/ RecordResult(r)
      PROVE  \E rec \in AuditRecord : Appends(r, rec)
  <2>1. r \in Actor
    BY DEF Actor
  <2>2. PICK call \in Call : call = Head(todo[r])
    BY <1>2, <2>1, CurrentType
       DEF ProposeCall, RecordDenial, AskUser, RecordResult, WithCall, TypeOK
  <2>3. \/ Log(r, "tool_call", call, "")
        \/ Log(r, "tool_result", call, "denied")
        \/ Log(r, "tool_result", call, "ran")
        \/ Log(r, "confirmation_request", call, "")
    BY <1>2, <2>2 DEF ProposeCall, RecordDenial, AskUser, RecordResult
  <2>4. QED
    BY <2>1, <2>3, LogAppends
<1>3. ASSUME NEW r \in Request, DecideCall(r)
      PROVE  \E rec \in AuditRecord : Appends(r, rec)
  <2>1. r \in Actor
    BY DEF Actor
  <2>2. PICK call \in Call : call = Head(todo[r])
    BY <1>3, <2>1, CurrentType DEF DecideCall, WithCall, TypeOK
  <2>3. PICK verdict \in {"allow", "deny", "ask_user"} : verdict = Verdict(call)
    BY VerdictType DEF PolicyVerdict
  <2>4. Log(r, "policy_decision", call, verdict)
    BY <1>3, <2>2, <2>3 DEF DecideCall
  <2>5. QED
    BY <2>1, <2>4, LogAppends
<1>4. ASSUME NEW c \in Confirm, ConfirmedResult(c)
      PROVE  \E rec \in AuditRecord : Appends(c, rec)
  <2>1. c \in Actor
    BY DEF Actor
  <2>2. PICK call \in Call : call = Head(todo[c])
    BY <1>4, <2>1, CurrentType DEF ConfirmedResult, WithCall, TypeOK
  <2>3. Log(c, "tool_result", call, "ran")
    BY <1>4, <2>2 DEF ConfirmedResult
  <2>4. QED
    BY <2>1, <2>3, LogAppends
<1>5. ASSUME NEW c \in Confirm, NEW call \in Call,
             NEW scope \in {"once", "session", "cancel"},
             NEW s \in Session \cup {NoSession}, Respond(c, call, scope, s)
      PROVE  \E rec \in AuditRecord : Appends(c, rec)
  <2>1. c \in Actor /\ Log(c, "confirmation_response", call, scope)
    BY <1>5 DEF Actor, Respond
  <2>2. QED
    BY <2>1, LogAppends
<1>6. CASE \/ \E r \in Request :
                \/ \E s \in Session : Admit(r, s)
                \/ Refuse(r) \/ FinishTool(r) \/ Timeout(r) \/ Abort(r)
                \/ StartTool(r) \/ ToolRefuses(r) \/ Persist(r)
           \/ \E c \in Confirm : ConfirmStep(c) /\ ~ConfirmedResult(c)
           \/ \E s \in Session : ChatReset(s)
           \/ ClearGrants \/ Restart \/ UNCHANGED vars
  BY <1>6 DEF Admit, Refuse, FinishTool, Timeout, Abort, StartTool,
       ToolRefuses, Persist, ConfirmStep, Check, AppendOutcome, ChatReset,
       ClearGrants, Restart, vars
<1>7. QED
  BY <1>1, <1>2, <1>3, <1>4, <1>5, <1>6 DEF Next, RequestStep, Actor

LEMMA NextOnward ==
  ASSUME TypeOK, [Next]_vars
  PROVE  Onward
<1>1. \A r \in Request : Finished(r) => Finished(r)'
  <2> SUFFICES ASSUME NEW r \in Request, pc[r] \in {"ok", "pending"}
               PROVE  pc'[r] = pc[r]
    BY DEF Finished
  <2>1. r \in Actor
    BY DEF Actor
  <2>2. ASSUME NEW q \in Request,
               \/ \E s \in Session : Admit(q, s)
               \/ Refuse(q)
               \/ \E reply \in Reply : ModelReply(q, reply)
               \/ FinishTool(q) \/ Timeout(q) \/ Abort(q) \/ RequestStep(q)
        PROVE  pc'[r] = pc[r]
    <3>1. q \in Actor
      BY DEF Actor
    <3>2. q # r
      BY <2>2, ActorAssumption
         DEF Admit, Refuse, ModelReply, FinishTool, Timeout, Suspended, Abort,
             Fallible, RequestStep, Accept, ProposeCall, DecideCall,
             RecordDenial, AskUser, StartTool, ToolRefuses, RecordResult,
             Complete, Persist
    <3>3. pc' = [pc EXCEPT ![q] = pc'[q]]
      BY <2>2, <3>1 DEF Admit, Refuse, ModelReply, FinishTool, Timeout, Abort,
           RequestStep, Accept, ProposeCall, DecideCall, RecordDenial,
           AskUser, StartTool, ToolRefuses, RecordResult, Complete, Persist,
           NextCall, TypeOK, ControlOK
    <3>4. QED
      BY <2>1, <3>1, <3>2, <3>3 DEF TypeOK, ControlOK
  <2>3. ASSUME NEW c \in Confirm,
               \/ \E call \in Call, scope \in {"once", "session", "cancel"},
                     s \in Session \cup {NoSession} : Respond(c, call, scope, s)
               \/ ConfirmStep(c)
        PROVE  pc'[r] = pc[r]
    <3>1. c # r
      BY ActorAssumption
    <3>2. QED
      BY <2>1, <2>3, <3>1 DEF Respond, ConfirmStep, Check, StartTool,
           ToolRefuses, FinishTool, ConfirmedResult, AppendOutcome, Abort,
           TypeOK, ControlOK
  <2>4. CASE \/ \E s \in Session : ChatReset(s)
             \/ ClearGrants \/ Restart \/ UNCHANGED vars
    BY <2>1, <2>4 DEF ChatReset, ClearGrants, Restart, Ended, vars
  <2>5. QED
    BY <2>2, <2>3, <2>4 DEF Next
<1>2. CASE trail' = trail
  BY <1>1, <1>2 DEF Onward, FirstsKept, ResultsOnRecord
<1>3. ASSUME NEW a \in Actor, NEW rec \in AuditRecord, Appends(a, rec)
      PROVE  Onward
  <2>1. /\ Len(trail[a]) \in Nat
        /\ DOMAIN trail[a] = 1..Len(trail[a])
        /\ DOMAIN trail'[a] = 1..(Len(trail[a]) + 1)
        /\ \A i \in 1..Len(trail[a]) : trail'[a][i] = trail[a][i]
        /\ \A b \in Actor : b # a => trail'[b] = trail[b]
        /\ trail[a] \in Seq(AuditRecord)
    BY <1>3, AppendsToTrail
  <2>2. \A b \in Actor : ResultsOnRecord(b) \subseteq ResultsOnRecord(b)'
    BY <2>1 DEF ResultsOnRecord
  <2>3. trail'[a] # <<>> /\ (trail[a] # <<>> => trail'[a][1] = trail[a][1])
    <3>1. 1 \in DOMAIN trail'[a] /\ (trail[a] # <<>> => 1 \in 1..Len(trail[a]))
      BY <2>1
    <3>2. QED
      BY <2>1, <3>1
  <2>4. QED
    BY <1>1, <2>1, <2>2, <2>3 DEF Onward, FirstsKept
<1>4. QED
  BY <1>2, <1>3, NextTrail

\* Neither chats nor turns change, and no confirmation comes to its answer.
LEMMA FinishedKept ==
  ASSUME FinishedInv, Onward, UNCHANGED <<chats, turn>>, AboutToTell'
  PROVE  FinishedInv'
<1>1. \A s \in Session : chats[s] \in Seq(Settled')
  BY SeqOfMore, OnwardKeeps DEF FinishedInv
<1>2. \A r \in Request : turn[r] \in Seq(TurnOf(r)')
  BY SeqOfMore, OnwardKeeps DEF FinishedInv
<1>3. QED
  BY <1>1, <1>2 DEF FinishedInv

\* A confirmation that stands where it stood still has its record.
LEMMA TellsKept ==
  ASSUME FinishedInv, Onward,
         \A c \in Confirm : pc'[c] \in {"append_result", "append_cancelled"} =>
           pc'[c] = pc[c]
  PROVE  AboutToTell'
<1>1. \A c \in Confirm : Answered(c, "cancel") => Answered(c, "cancel")'
  BY AnswersKept DEF Onward
<1>2. \A c \in Confirm : ResultsOnRecord(c) \subseteq ResultsOnRecord(c)'
  BY DEF Onward, Actor
<1>3. QED
  BY <1>1, <1>2 DEF FinishedInv, AboutToTell

\* A request adds a message of its own to its turn.
LEMMA TurnGrows ==
  ASSUME FinishedInv, Onward, NEW r \in Request, NEW kind \in MessageKind,
         NEW base \in Seq(TurnOf(r)),
         turn' = [turn EXCEPT ![r] = Append(base, [kind |-> kind, by |-> r])],
         turn \in [Request -> Seq(Message)],
         kind = "result" => ResultsOnRecord(r)' # {}, kind # "cancelled",
         chats' = chats, AboutToTell'
  PROVE  FinishedInv'
<1> DEFINE msg == [kind |-> kind, by |-> r]
<1>1. msg \in Message /\ msg.kind = kind /\ msg.by = r
  BY MessageType DEF Actor
<1> HIDE DEF msg
<1>2. msg \in TurnOf(r)'
  BY <1>1 DEF TurnOf, OnRecord
<1>3. base \in Seq(TurnOf(r)')
  BY SeqOfMore, OnwardKeeps
<1>4. Append(base, msg) \in Seq(TurnOf(r)')
  BY <1>2, <1>3
<1>5. turn'[r] \in Seq(TurnOf(r)')
  BY <1>4 DEF msg
<1>6. \A q \in Request : q # r => turn'[q] \in Seq(TurnOf(q)')
  BY SeqOfMore, OnwardKeeps DEF FinishedInv
<1>7. \A s \in Session : chats'[s] \in Seq(Settled')
  BY SeqOfMore, OnwardKeeps DEF FinishedInv
<1>8. QED
  BY <1>5, <1>6, <1>7 DEF FinishedInv

\* A session is replaced by settled messages.
LEMMA ChatReplaced ==
  ASSUME TypeOK, FinishedInv, Onward, NEW s \in Session,
         NEW messages \in Seq(Settled'),
         chats' = [chats EXCEPT ![s] = messages], turn' = turn, AboutToTell'
  PROVE  FinishedInv'
<1>1. \A q \in Request : turn[q] \in Seq(TurnOf(q)')
  BY SeqOfMore, OnwardKeeps DEF FinishedInv
<1>2. \A x \in Session : x # s => chats'[x] \in Seq(Settled')
  BY SeqOfMore, OnwardKeeps DEF FinishedInv, TypeOK, DataOK
<1>3. chats'[s] \in Seq(Settled')
  BY DEF TypeOK, DataOK
<1>4. QED
  BY <1>1, <1>2, <1>3 DEF FinishedInv

LEMMA RequestTellsNothing ==
  ASSUME FinishedInv, Onward, NEW r \in Request,
         \A b \in Actor : b # r => pc'[b] = pc[b]
  PROVE  AboutToTell'
BY TellsKept, ActorAssumption DEF Actor

LEMMA PushesFinished ==
  ASSUME TypeOK, FinishedInv, Onward, NEW r \in Request,
         Accept(r) \/ RecordDenial(r) \/ \E reply \in Reply : ModelReply(r, reply)
  PROVE  FinishedInv'
<1>1. r \in Actor /\ turn \in [Request -> Seq(Message)] /\ chats' = chats
  BY DEF Actor, TypeOK, DataOK, Accept, ModelReply, RecordDenial
<1>2. AboutToTell'
  <2>1. \A b \in Actor : b # r => pc'[b] = pc[b]
    BY <1>1 DEF Accept, ModelReply, RecordDenial, NextCall, TypeOK, ControlOK
  <2>2. QED
    BY <2>1, RequestTellsNothing
<1>3. CASE Accept(r)
  <2>1. session[r] \in Session
    BY <1>3 DEF Accept, TypeOK, ControlOK, Working
  <2>2. Settled \subseteq TurnOf(r)
    BY DEF Settled, TurnOf
  <2>3. chats[session[r]] \in Seq(TurnOf(r))
    BY <2>1, <2>2, SeqOfMore DEF FinishedInv
  <2>4. PICK kind \in {"user"} :
          turn' = [turn EXCEPT ![r] =
                     Append(chats[session[r]], [kind |-> kind, by |-> r])]
    BY <1>3 DEF Accept
  <2>5. kind \in MessageKind /\ kind # "result" /\ kind # "cancelled"
    BY DEF MessageKind
  <2>6. QED
    BY <1>1, <1>2, <2>3, <2>4, <2>5, TurnGrows
<1>4. CASE turn' = turn
  BY <1>1, <1>2, <1>4, FinishedKept
<1>5. CASE Push(r, "assistant") \/ Push(r, "denied")
  <2>1. PICK kind \in {"assistant", "denied"} :
          turn' = [turn EXCEPT ![r] = Append(turn[r], [kind |-> kind, by |-> r])]
    BY <1>5 DEF Push
  <2>2. kind \in MessageKind /\ turn[r] \in Seq(TurnOf(r))
    BY <2>1 DEF MessageKind, ToolResultKind, FinishedInv
  <2>3. QED
    BY <1>1, <1>2, <2>1, <2>2, TurnGrows
<1>6. QED
  BY <1>3, <1>4, <1>5 DEF RecordDenial, ModelReply

\* The record of a run is there before anybody is told of it.
LEMMA ResultIsOnRecord ==
  ASSUME TypeOK, NEW a \in Actor, RecordResult(a) \/ ConfirmedResult(a)
  PROVE  ResultsOnRecord(a)' # {}
<1>1. PICK call \in Call : call = Head(todo[a])
  BY CurrentType DEF RecordResult, ConfirmedResult, WithCall, TypeOK
<1>2. Log(a, "tool_result", call, "ran")
  BY <1>1 DEF RecordResult, ConfirmedResult
<1>3. PICK rec \in AuditRecord :
        Says(rec, "tool_result", call, "ran") /\ Appends(a, rec)
  BY <1>2, LogAppends
<1>4. /\ Len(trail[a]) \in Nat
      /\ DOMAIN trail'[a] = 1..(Len(trail[a]) + 1)
      /\ trail'[a][Len(trail[a]) + 1] = rec
  BY <1>3, AppendsToTrail
<1>5. Len(trail[a]) + 1 \in ResultsOnRecord(a)'
  BY <1>3, <1>4 DEF ResultsOnRecord, Says
<1>6. QED
  BY <1>5

LEMMA RecordResultFinished ==
  ASSUME TypeOK, FinishedInv, Onward, NEW r \in Request, RecordResult(r)
  PROVE  FinishedInv'
<1>1. r \in Actor /\ turn \in [Request -> Seq(Message)] /\ chats' = chats
  BY DEF Actor, TypeOK, DataOK, RecordResult
<1>2. AboutToTell'
  <2>1. \A b \in Actor : b # r => pc'[b] = pc[b]
    BY <1>1 DEF RecordResult, NextCall, TypeOK, ControlOK
  <2>2. QED
    BY <2>1, RequestTellsNothing
<1>3. turn' = [turn EXCEPT ![r] = Append(turn[r], [kind |-> "result", by |-> r])]
  BY DEF RecordResult, Push
<1>4. turn[r] \in Seq(TurnOf(r)) /\ "result" \in MessageKind
  BY DEF FinishedInv, MessageKind, ToolResultKind
<1>5. ResultsOnRecord(r)' # {}
  BY <1>1, ResultIsOnRecord
<1>6. QED
  BY <1>1, <1>2, <1>3, <1>4, <1>5, TurnGrows

LEMMA PersistFinished ==
  ASSUME TypeOK, FinishedInv, Onward, NEW r \in Request, Persist(r)
  PROVE  FinishedInv'
<1>1. r \in Actor /\ turn' = turn /\ session[r] \in Session
  BY DEF Actor, Persist, TypeOK, ControlOK, Working
<1>2. Finished(r)' /\ \A b \in Actor : b # r => pc'[b] = pc[b]
  BY <1>1 DEF Persist, Finished, TypeOK, ControlOK
<1>3. TurnOf(r)' \subseteq Settled'
  BY <1>2 DEF TurnOf, Settled
<1>4. turn[r] \in Seq(Settled')
  <2>1. turn[r] \in Seq(TurnOf(r)')
    BY SeqOfMore, OnwardKeeps DEF FinishedInv
  <2>2. QED
    BY <1>3, <2>1, SeqOfMore
<1>5. Trimmed(turn[r]) \in Seq(Settled')
  BY <1>4, TrimmedType
<1>6. chats' = [chats EXCEPT ![session[r]] = Trimmed(turn[r])]
  BY DEF Persist
<1>7. QED
  BY <1>1, <1>2, <1>5, <1>6, RequestTellsNothing, ChatReplaced

LEMMA AppendOutcomeFinished ==
  ASSUME TypeOK, FinishedInv, Onward, NEW c \in Confirm, AppendOutcome(c)
  PROVE  FinishedInv'
<1>1. c \in Actor /\ c \notin Request /\ turn' = turn
  BY ActorAssumption DEF Actor, AppendOutcome
<1>2. AboutToTell'
  BY <1>1, TellsKept DEF AppendOutcome, TypeOK, ControlOK, Actor
<1>3. CASE session[c] = NoSession
  BY <1>1, <1>2, <1>3, FinishedKept DEF AppendOutcome
<1>4. CASE session[c] # NoSession
  <2> DEFINE msg == [kind |-> Told(c), by |-> c]
  <2>1. session[c] \in Session
    BY <1>1, <1>4 DEF TypeOK, ControlOK
  <2>2. msg \in Message /\ msg.by = c /\ msg.kind = Told(c)
    BY <1>1, MessageType DEF Told, MessageKind, ToolResultKind
  <2>3. /\ Told(c) = "result" => ResultsOnRecord(c) # {}
        /\ Told(c) = "cancelled" => Answered(c, "cancel")
    BY DEF Told, AppendOutcome, FinishedInv, AboutToTell
  <2> HIDE DEF msg
  <2>4. msg \in Settled
    BY <1>1, <2>2, <2>3 DEF Settled, OnRecord
  <2>5. Append(chats[session[c]], msg) \in Seq(Settled)
    BY <2>1, <2>4 DEF FinishedInv
  <2>6. Append(chats[session[c]], msg) \in Seq(Settled')
    BY <2>5, SeqOfMore, OnwardKeeps
  <2>7. Trimmed(Append(chats[session[c]], msg)) \in Seq(Settled')
    BY <2>6, TrimmedType
  <2>8. chats' = [chats EXCEPT ![session[c]] =
                    Trimmed(Append(chats[session[c]], msg))]
    BY <1>4 DEF AppendOutcome, msg
  <2>9. QED
    BY <1>1, <1>2, <2>1, <2>7, <2>8, ChatReplaced
<1>5. QED
  BY <1>3, <1>4

LEMMA ConfirmedResultFinished ==
  ASSUME TypeOK, FinishedInv, Onward, NEW c \in Confirm, ConfirmedResult(c)
  PROVE  FinishedInv'
<1>1. c \in Actor /\ UNCHANGED <<chats, turn>>
  BY DEF Actor, ConfirmedResult
<1>2. pc' = [pc EXCEPT ![c] = "append_result"]
  BY DEF ConfirmedResult
<1>3. ResultsOnRecord(c)' # {}
  BY <1>1, ResultIsOnRecord
<1>4. \A d \in Confirm : /\ Answered(d, "cancel") => Answered(d, "cancel")'
                         /\ ResultsOnRecord(d) \subseteq ResultsOnRecord(d)'
  BY AnswersKept DEF Onward, Actor
<1>5. AboutToTell'
  BY <1>2, <1>3, <1>4 DEF AboutToTell, FinishedInv, TypeOK, ControlOK, Actor
<1>6. QED
  BY <1>1, <1>5, FinishedKept

LEMMA RespondFinished ==
  ASSUME TypeOK, ThreadInv, FinishedInv, Onward, NEW c \in Confirm,
         NEW call \in Call, NEW scope \in {"once", "session", "cancel"},
         NEW s \in Session \cup {NoSession}, Respond(c, call, scope, s)
  PROVE  FinishedInv'
<1>1. c \in Actor /\ UNCHANGED <<chats, turn>>
  BY DEF Actor, Respond
<1>2. PICK where \in {"append_cancelled", "check"} :
        /\ pc' = [pc EXCEPT ![c] = where]
        /\ where = "append_cancelled" => scope = "cancel"
  BY DEF Respond
<1>3. scope = "cancel" => Answered(c, "cancel")'
  <2>1. PICK rec \in AuditRecord :
          Says(rec, "confirmation_response", call, scope) /\ Appends(c, rec)
    <3>1. Log(c, "confirmation_response", call, scope)
      BY DEF Respond
    <3>2. QED
      BY <1>1, <3>1, LogAppends
  <2>2. trail[c] = <<>>
    BY <1>1 DEF ThreadInv, Thread, Respond
  <2>3. Len(trail[c]) = 0
    BY <2>2
  <2>4. /\ DOMAIN trail'[c] = 1..(Len(trail[c]) + 1)
        /\ trail'[c][Len(trail[c]) + 1] = rec
    BY <1>1, <2>1, AppendsToTrail
  <2>5. 1 \in DOMAIN trail'[c] /\ trail'[c][1] = rec
    BY <2>3, <2>4
  <2>6. QED
    BY <2>1, <2>5 DEF Answered, Says
<1>4. \A d \in Confirm : /\ Answered(d, "cancel") => Answered(d, "cancel")'
                         /\ ResultsOnRecord(d) \subseteq ResultsOnRecord(d)'
  BY AnswersKept DEF Onward, Actor
<1>5. AboutToTell'
  BY <1>2, <1>3, <1>4 DEF AboutToTell, FinishedInv, TypeOK, ControlOK, Actor
<1>6. QED
  BY <1>1, <1>5, FinishedKept

LEMMA SilentFinished ==
  ASSUME TypeOK, FinishedInv, Onward,
         \/ \E r \in Request :
              \/ \E s \in Session : Admit(r, s)
              \/ Refuse(r) \/ FinishTool(r) \/ Timeout(r) \/ Abort(r)
              \/ ProposeCall(r) \/ DecideCall(r) \/ AskUser(r)
              \/ StartTool(r) \/ ToolRefuses(r) \/ Complete(r)
         \/ \E c \in Confirm :
              \/ Check(c) \/ StartTool(c) \/ ToolRefuses(c)
              \/ FinishTool(c) \/ Abort(c)
         \/ ClearGrants \/ UNCHANGED vars
  PROVE  FinishedInv'
<1>1. UNCHANGED <<chats, turn>>
  BY DEF Admit, Refuse, FinishTool, Timeout, Abort, ProposeCall, DecideCall,
         AskUser, StartTool, ToolRefuses, Complete, Check, ClearGrants, vars
<1>2. CASE \E r \in Request :
              \/ \E s \in Session : Admit(r, s)
              \/ Refuse(r) \/ FinishTool(r) \/ Timeout(r) \/ Abort(r)
              \/ ProposeCall(r) \/ DecideCall(r) \/ AskUser(r)
              \/ StartTool(r) \/ ToolRefuses(r) \/ Complete(r)
  <2>1. PICK r \in Request : \A b \in Actor : b # r => pc'[b] = pc[b]
    BY <1>2 DEF Admit, Refuse, FinishTool, Timeout, Abort, ProposeCall,
         DecideCall, AskUser, StartTool, ToolRefuses, Complete, TypeOK,
         ControlOK
  <2>2. QED
    BY <1>1, <2>1, RequestTellsNothing, FinishedKept
<1>3. CASE \E c \in Confirm :
              \/ Check(c) \/ StartTool(c) \/ ToolRefuses(c)
              \/ FinishTool(c) \/ Abort(c)
  <2>1. PICK c \in Confirm, where \in {"execute", "running", "blocked", "result", "error"} :
          pc' = [pc EXCEPT ![c] = where]
    BY <1>3, ActorAssumption DEF Check, StartTool, ToolRefuses, FinishTool, Abort
  <2>2. \A d \in Confirm : pc'[d] \in {"append_result", "append_cancelled"} =>
                             pc'[d] = pc[d]
    BY <2>1 DEF TypeOK, ControlOK, Actor
  <2>3. QED
    BY <1>1, <2>2, TellsKept, FinishedKept
<1>4. CASE ClearGrants \/ UNCHANGED vars
  <2>1. pc' = pc
    BY <1>4 DEF ClearGrants, vars
  <2>2. QED
    BY <1>1, <2>1, TellsKept, FinishedKept
<1>5. QED
  BY <1>2, <1>3, <1>4

LEMMA ForgetFinished ==
  ASSUME TypeOK, FinishedInv, Onward, Restart \/ \E s \in Session : ChatReset(s)
  PROVE  FinishedInv'
<1>1. <<>> \in Seq(Settled')
  OBVIOUS
<1>2. ASSUME NEW s \in Session, ChatReset(s) PROVE FinishedInv'
  <2>1. pc' = pc /\ turn' = turn /\ chats' = [chats EXCEPT ![s] = <<>>]
    BY <1>2 DEF ChatReset
  <2>2. QED
    BY <1>1, <2>1, TellsKept, ChatReplaced
<1>3. CASE Restart
  <2>1. turn' = turn /\ chats' = [s \in Session |-> <<>>]
    BY <1>3 DEF Restart
  <2>2. \A c \in Confirm : pc'[c] \notin {"append_result", "append_cancelled"}
    BY <1>3 DEF Restart, Ended, Actor
  <2>3. AboutToTell'
    BY <2>2, TellsKept
  <2>4. \A q \in Request : turn[q] \in Seq(TurnOf(q)')
    BY SeqOfMore, OnwardKeeps DEF FinishedInv
  <2>5. QED
    BY <1>1, <2>1, <2>3, <2>4 DEF FinishedInv
<1>4. QED
  BY <1>2, <1>3

LEMMA NextFinished ==
  TypeOK /\ ThreadInv /\ FinishedInv /\ [Next]_vars => FinishedInv'
<1> SUFFICES ASSUME TypeOK, ThreadInv, FinishedInv, [Next]_vars PROVE FinishedInv'
  OBVIOUS
<1>1. Onward
  BY NextOnward
<1>2. ASSUME NEW r \in Request, RequestStep(r) PROVE FinishedInv'
  BY <1>1, <1>2, PushesFinished, RecordResultFinished, PersistFinished,
     SilentFinished
     DEF RequestStep
<1>3. ASSUME NEW c \in Confirm, ConfirmStep(c) PROVE FinishedInv'
  BY <1>1, <1>3, ConfirmedResultFinished, AppendOutcomeFinished,
     SilentFinished
     DEF ConfirmStep
<1>4. ASSUME NEW r \in Request,
             \/ \E s \in Session : Admit(r, s)
             \/ Refuse(r) \/ FinishTool(r) \/ Timeout(r) \/ Abort(r)
      PROVE  FinishedInv'
  BY <1>1, <1>4, SilentFinished
<1>5. ASSUME NEW r \in Request, NEW reply \in Reply, ModelReply(r, reply)
      PROVE  FinishedInv'
  BY <1>1, <1>5, PushesFinished
<1>6. CASE ClearGrants \/ UNCHANGED vars
  BY <1>1, <1>6, SilentFinished
<1>7. CASE Restart \/ \E s \in Session : ChatReset(s)
  BY <1>1, <1>7, ForgetFinished
<1>8. QED
  BY <1>1, <1>2, <1>3, <1>4, <1>5, <1>6, <1>7, RespondFinished DEF Next

LEMMA InitFinished == Init => FinishedInv
BY DEF Init, FinishedInv, AboutToTell, Actor

\* However requests of one session overlap, fail, time out or crash, nothing
\* but finished turns and what really happened gets into a chat.
THEOREM ChatsHoldFinishedTurns == Spec => []OnlyFinishedTurns
<1>1. TypeOK /\ FinishedInv => OnlyFinishedTurns
  <2> SUFFICES ASSUME FinishedInv, NEW s \in Session, NEW i \in DOMAIN chats[s]
               PROVE  LET msg == chats[s][i]
                      IN  /\ msg.by \in Request => pc[msg.by] \in {"ok", "pending"}
                          /\ msg.kind = "result" => ResultsOnRecord(msg.by) # {}
                          /\ msg.kind = "cancelled" => Answered(msg.by, "cancel")
    BY DEF OnlyFinishedTurns
  <2>1. chats[s][i] \in Settled
    BY DEF FinishedInv
  <2>2. QED
    BY <2>1 DEF Settled, OnRecord, Finished
<1>2. Spec => []ThreadInv
  BY TypeCorrect, InitThread, NextThread, PTL DEF Spec
<1>3. QED
  BY <1>1, <1>2, TypeCorrect, InitFinished, NextFinished, PTL DEF Spec

-----------------------------------------------------------------------------
(* The window of a session *)

\* A conversation does not start with the tool result of a request.
HeadOK(messages) ==
  messages # <<>> =>
    (messages[1].kind \in ToolResultKind => messages[1].by \in Confirm)

\* A window that was cut starts with no tool result at all: the number of
\* leading results is the place of the last of them.
LEMMA TrimmedWindow ==
  ASSUME NEW m \in Seq(Message)
  PROVE  /\ Len(Trimmed(m)) <= MaxMessages
         /\ HeadOK(m) => HeadOK(Trimmed(m))
<1> USE MaxMessagesAssumption
<1>1. CASE Len(m) <= MaxMessages
  BY <1>1 DEF Trimmed
<1>2. CASE ~(Len(m) <= MaxMessages)
  <2>1. PICK kept : kept = Recent(m)
    OBVIOUS
  <2>2. kept \in Seq(Message) /\ Len(kept) = MaxMessages
    BY <1>2, <2>1 DEF Recent
  <2>3. DOMAIN kept = 1..MaxMessages
    BY <2>2
  <2>4. PICK lead : lead = LeadingResults(kept)
    OBVIOUS
  <2>5. lead = {i \in 1..MaxMessages :
                  \A j \in 1..i : kept[j].kind \in ToolResultKind}
    BY <2>3, <2>4 DEF LeadingResults
  <2>6. IsFiniteSet(1..MaxMessages) /\ Cardinality(1..MaxMessages) = MaxMessages
    BY FS_Interval
  <2>7. IsFiniteSet(lead) /\ Cardinality(lead) <= MaxMessages
    BY <2>5, <2>6, FS_Subset
  <2>8. PICK k \in Nat : k = Cardinality(lead)
    BY <2>7, FS_CardinalityType
  <2>9. Trimmed(m) = SubSeq(kept, k + 1, Len(kept))
    BY <1>2, <2>1, <2>4, <2>8 DEF Trimmed
  <2>10. k <= MaxMessages
    BY <2>7, <2>8
  <2>11. Len(Trimmed(m)) = MaxMessages - k
    BY <2>2, <2>9, <2>10
  <2>12. ASSUME k < MaxMessages PROVE kept[k + 1].kind \notin ToolResultKind
    <3> SUFFICES ASSUME kept[k + 1].kind \in ToolResultKind PROVE FALSE
      OBVIOUS
    <3>1. CASE \A j \in 1..(k + 1) : kept[j].kind \in ToolResultKind
      <4>1. 1..(k + 1) \subseteq lead
        BY <2>5, <2>12, <3>1
      <4>2. Cardinality(1..(k + 1)) = k + 1
        BY FS_Interval
      <4>3. k + 1 <= k
        BY <2>7, <2>8, <4>1, <4>2, FS_Subset
      <4>4. QED
        BY <4>3
    <3>2. CASE \E j \in 1..(k + 1) : kept[j].kind \notin ToolResultKind
      <4>1. PICK j \in 1..(k + 1) : kept[j].kind \notin ToolResultKind
        BY <3>2
      <4>2. j # k + 1
        BY <4>1
      <4>3. lead \subseteq 1..(j - 1)
        BY <2>5, <4>1
      <4>4. IsFiniteSet(1..(j - 1)) /\ Cardinality(1..(j - 1)) = j - 1
        BY <4>1, FS_Interval
      <4>5. k <= j - 1
        BY <2>8, <4>3, <4>4, FS_Subset
      <4>6. QED
        BY <4>1, <4>2, <4>5
    <3>3. QED
      BY <3>1, <3>2
  <2>13. CASE k = MaxMessages
    <3>1. Len(Trimmed(m)) = 0
      BY <2>11, <2>13
    <3>2. Trimmed(m) = <<>>
      BY <2>2, <2>9, <2>13
    <3>3. QED
      BY <3>1, <3>2 DEF HeadOK
  <2>14. CASE k < MaxMessages
    <3>1. Trimmed(m)[1] = kept[k + 1]
      BY <2>2, <2>9, <2>14
    <3>2. QED
      BY <2>11, <2>12, <2>14, <3>1 DEF HeadOK
  <2>15. QED
    BY <2>10, <2>13, <2>14
<1>3. QED
  BY <1>1, <1>2

LEMMA AppendHead ==
  ASSUME NEW m \in Seq(Message), NEW msg \in Message, HeadOK(m),
         m # <<>> \/ (msg.kind \in ToolResultKind => msg.by \in Confirm)
  PROVE  Append(m, msg) # <<>> /\ HeadOK(Append(m, msg))
<1>1. /\ Append(m, msg) # <<>>
      /\ m # <<>> => Append(m, msg)[1] = m[1]
      /\ m = <<>> => Append(m, msg)[1] = msg
  BY AppendKeepsFirst
<1>2. QED
  BY <1>1 DEF HeadOK

\* Why NoOrphanResult is preserved.
WindowInv ==
  /\ \A s \in Session : Len(chats[s]) <= MaxMessages /\ HeadOK(chats[s])
  /\ \A r \in Request :
       /\ HeadOK(turn[r])
       /\ pc[r] \in Working \ {"accept"} => turn[r] # <<>>

\* The request's own messages come after its question.
LEMMA RequestPushWindow ==
  ASSUME TypeOK, WindowInv, NEW r \in Request, NEW kind \in MessageKind,
         NEW base \in Seq(Message), HeadOK(base),
         base # <<>> \/ kind \notin ToolResultKind,
         turn' = [turn EXCEPT ![r] = Append(base, [kind |-> kind, by |-> r])],
         chats' = chats, \A b \in Actor : b # r => pc'[b] = pc[b]
  PROVE  WindowInv'
<1> DEFINE msg == [kind |-> kind, by |-> r]
<1>1. msg \in Message /\ msg.kind = kind
  BY MessageType DEF Actor
<1> HIDE DEF msg
<1>2. Append(base, msg) # <<>> /\ HeadOK(Append(base, msg))
  BY <1>1, AppendHead
<1>3. turn'[r] = Append(base, msg) /\ \A q \in Request : q # r => turn'[q] = turn[q]
  BY DEF TypeOK, DataOK, msg
<1>4. QED
  BY <1>2, <1>3 DEF WindowInv, Actor

LEMMA RequestWindow ==
  ASSUME TypeOK, WindowInv, NEW r \in Request,
         \/ Accept(r)
         \/ \E reply \in Reply : ModelReply(r, reply)
         \/ RecordDenial(r) \/ RecordResult(r)
  PROVE  WindowInv'
<1>1. /\ r \in Actor /\ chats' = chats
      /\ turn[r] \in Seq(Message) /\ HeadOK(turn[r])
  BY DEF Actor, TypeOK, DataOK, Accept, ModelReply, RecordDenial,
         RecordResult, WindowInv
<1>2. \A b \in Actor : b # r => pc'[b] = pc[b]
  BY <1>1 DEF Accept, ModelReply, RecordDenial, RecordResult, NextCall,
       TypeOK, ControlOK
<1>3. CASE Accept(r)
  <2>1. session[r] \in Session
    BY <1>3 DEF Accept, TypeOK, ControlOK, Working
  <2>2. chats[session[r]] \in Seq(Message) /\ HeadOK(chats[session[r]])
    BY <2>1 DEF TypeOK, DataOK, WindowInv
  <2>3. PICK kind \in {"user"} :
          turn' = [turn EXCEPT ![r] =
                     Append(chats[session[r]], [kind |-> kind, by |-> r])]
    BY <1>3 DEF Accept
  <2>4. kind \in MessageKind /\ kind \notin ToolResultKind
    BY DEF MessageKind, ToolResultKind
  <2>5. QED
    BY <1>1, <1>2, <2>2, <2>3, <2>4, RequestPushWindow
<1>4. CASE ~Accept(r)
  <2>1. turn[r] # <<>>
    BY <1>4 DEF ModelReply, RecordDenial, RecordResult, WindowInv, Working
  <2>2. CASE turn' = turn
    BY <1>1, <1>2, <2>1, <2>2 DEF WindowInv, Actor
  <2>3. CASE Push(r, "assistant") \/ Push(r, "denied") \/ Push(r, "result")
    <3>1. PICK kind \in {"assistant", "denied", "result"} :
            turn' = [turn EXCEPT ![r] = Append(turn[r], [kind |-> kind, by |-> r])]
      BY <2>3 DEF Push
    <3>2. kind \in MessageKind
      BY DEF MessageKind, ToolResultKind
    <3>3. QED
      BY <1>1, <1>2, <2>1, <3>1, <3>2, RequestPushWindow
  <2>4. QED
    BY <1>4, <2>2, <2>3 DEF ModelReply, RecordDenial, RecordResult
<1>5. QED
  BY <1>3, <1>4

\* A session is replaced by a window that may be cut.
LEMMA ReplacedWindow ==
  ASSUME TypeOK, WindowInv, NEW s \in Session, NEW m \in Seq(Message),
         HeadOK(m), chats' = [chats EXCEPT ![s] = Trimmed(m)], turn' = turn,
         \A r \in Request : pc'[r] \in Working => pc'[r] = pc[r]
  PROVE  WindowInv'
<1>1. chats'[s] = Trimmed(m) /\ \A x \in Session : x # s => chats'[x] = chats[x]
  BY DEF TypeOK, DataOK
<1>2. Len(Trimmed(m)) <= MaxMessages /\ HeadOK(Trimmed(m))
  BY TrimmedWindow
<1>3. QED
  BY <1>1, <1>2 DEF WindowInv

LEMMA PersistWindow ==
  ASSUME TypeOK, WindowInv, NEW r \in Request, Persist(r)
  PROVE  WindowInv'
<1>1. session[r] \in Session /\ turn[r] \in Seq(Message) /\ HeadOK(turn[r])
  BY DEF Persist, TypeOK, ControlOK, DataOK, Working, WindowInv
<1>2. \A q \in Request : pc'[q] \in Working => pc'[q] = pc[q]
  BY DEF Persist, TypeOK, ControlOK, Working, Actor
<1>3. QED
  BY <1>1, <1>2, ReplacedWindow DEF Persist

LEMMA AppendOutcomeWindow ==
  ASSUME TypeOK, WindowInv, NEW c \in Confirm, AppendOutcome(c)
  PROVE  WindowInv'
<1>1. turn' = turn /\ \A q \in Request : pc'[q] = pc[q]
  BY ActorAssumption DEF AppendOutcome, TypeOK, ControlOK, Actor
<1>2. CASE session[c] = NoSession
  BY <1>1, <1>2 DEF AppendOutcome, WindowInv
<1>3. CASE session[c] # NoSession
  <2> DEFINE msg == [kind |-> Told(c), by |-> c]
  <2>1. session[c] \in Session
    BY <1>3 DEF TypeOK, ControlOK, Actor
  <2>2. msg \in Message /\ msg.by = c
    BY MessageType DEF Told, MessageKind, ToolResultKind, Actor
  <2> HIDE DEF msg
  <2>3. chats[session[c]] \in Seq(Message) /\ HeadOK(chats[session[c]])
    BY <2>1 DEF TypeOK, DataOK, WindowInv
  <2>4. /\ Append(chats[session[c]], msg) \in Seq(Message)
        /\ HeadOK(Append(chats[session[c]], msg))
    BY <2>2, <2>3, AppendHead
  <2>5. chats' = [chats EXCEPT ![session[c]] =
                    Trimmed(Append(chats[session[c]], msg))]
    BY <1>3 DEF AppendOutcome, msg
  <2>6. QED
    BY <1>1, <2>1, <2>4, <2>5, ReplacedWindow
<1>4. QED
  BY <1>2, <1>3

LEMMA ForgetWindow ==
  ASSUME TypeOK, WindowInv, Restart \/ \E s \in Session : ChatReset(s)
  PROVE  WindowInv'
<1>1. turn' = turn /\ \A q \in Request : pc'[q] \in Working => pc'[q] = pc[q]
  BY DEF Restart, ChatReset, Ended, Working, Actor
<1>2. \A s \in Session : chats'[s] = chats[s] \/ chats'[s] = <<>>
  BY DEF Restart, ChatReset, TypeOK, DataOK
<1>3. Len(<<>>) <= MaxMessages /\ HeadOK(<<>>)
  BY MaxMessagesAssumption DEF HeadOK
<1>4. QED
  BY <1>1, <1>2, <1>3 DEF WindowInv

LEMMA SilentWindow ==
  ASSUME TypeOK, WindowInv, UNCHANGED <<chats, turn>>,
         \A q \in Request : pc'[q] \in Working \ {"accept"} =>
                            pc[q] \in Working \ {"accept"}
  PROVE  WindowInv'
BY DEF WindowInv

LEMMA NextWindow == TypeOK /\ WindowInv /\ [Next]_vars => WindowInv'
<1> SUFFICES ASSUME TypeOK, WindowInv, [Next]_vars PROVE WindowInv'
  OBVIOUS
<1>1. ASSUME NEW r \in Request,
             \/ \E s \in Session : Admit(r, s)
             \/ Refuse(r) \/ FinishTool(r) \/ Timeout(r) \/ Abort(r)
             \/ ProposeCall(r) \/ DecideCall(r) \/ AskUser(r)
             \/ StartTool(r) \/ ToolRefuses(r) \/ Complete(r)
      PROVE  WindowInv'
  <2>1. UNCHANGED <<chats, turn>>
    BY <1>1 DEF Admit, Refuse, FinishTool, Timeout, Abort, ProposeCall,
         DecideCall, AskUser, StartTool, ToolRefuses, Complete
  <2>2. \A q \in Request : q # r => pc'[q] = pc[q]
    BY <1>1 DEF Admit, Refuse, FinishTool, Timeout, Abort, ProposeCall,
         DecideCall, AskUser, StartTool, ToolRefuses, Complete, TypeOK,
         ControlOK, Actor
  <2>3. \/ pc[r] \in Working \ {"accept"}
        \/ pc'[r] \in Ended \cup {"accept"}
    BY <1>1 DEF Admit, Refuse, FinishTool, Timeout, Abort, Suspended,
         ProposeCall, DecideCall, AskUser, StartTool, ToolRefuses, Complete,
         Working, Ended, TypeOK, ControlOK, Actor
  <2>4. QED
    BY <2>1, <2>2, <2>3, SilentWindow DEF Working, Ended
<1>2. ASSUME NEW c \in Confirm,
             \/ \E call \in Call, scope \in {"once", "session", "cancel"},
                   s \in Session \cup {NoSession} : Respond(c, call, scope, s)
             \/ Check(c) \/ StartTool(c) \/ ToolRefuses(c) \/ FinishTool(c)
             \/ ConfirmedResult(c) \/ Abort(c)
      PROVE  WindowInv'
  <2>1. UNCHANGED <<chats, turn>>
    BY <1>2 DEF Respond, Check, StartTool, ToolRefuses, FinishTool,
         ConfirmedResult, Abort
  <2>2. \A q \in Request : pc'[q] = pc[q]
    BY <1>2, ActorAssumption DEF Respond, Check, StartTool, ToolRefuses,
         FinishTool, ConfirmedResult, Abort, TypeOK, ControlOK, Actor
  <2>3. QED
    BY <2>1, <2>2, SilentWindow
<1>3. CASE ClearGrants \/ UNCHANGED vars
  <2>1. UNCHANGED <<chats, turn, pc>>
    BY <1>3 DEF ClearGrants, vars
  <2>2. QED
    BY <2>1, SilentWindow
<1>4. QED
  BY <1>1, <1>2, <1>3, RequestWindow, PersistWindow, AppendOutcomeWindow,
     ForgetWindow
     DEF Next, RequestStep, ConfirmStep

LEMMA InitWindow == Init => WindowInv
BY MaxMessagesAssumption DEF Init, WindowInv, HeadOK, Working, Actor

\* However long a chat grows and wherever its window cuts a turn, what is left
\* does not start with the result of a tool that a request called.
THEOREM WindowHasNoOrphan == Spec => []NoOrphanResult
<1>1. WindowInv => NoOrphanResult
  BY DEF WindowInv, HeadOK, NoOrphanResult
<1>2. QED
  BY <1>1, TypeCorrect, InitWindow, NextWindow, PTL DEF Spec

-----------------------------------------------------------------------------
(* Races for a session *)

\* Who speaks in a conversation.
By(messages) == {messages[i].by : i \in DOMAIN messages}

\* Trimming brings in nobody.
LEMMA TrimmedBy ==
  ASSUME NEW m \in Seq(Message)
  PROVE  /\ By(Trimmed(m)) \subseteq By(m)
         /\ Len(m) <= MaxMessages => By(Trimmed(m)) = By(m)
<1> DEFINE S == {m[i] : i \in DOMAIN m}
<1>1. m \in Seq(S)
  OBVIOUS
<1>2. Trimmed(m) \in Seq(S)
  BY <1>1, TrimmedType
<1>3. \A i \in DOMAIN Trimmed(m) : Trimmed(m)[i] \in S
  BY <1>2
<1>4. \A i \in DOMAIN Trimmed(m) : \E j \in DOMAIN m : Trimmed(m)[i] = m[j]
  BY <1>3
<1>5. QED
  BY <1>4 DEF By, Trimmed

LEMMA AppendBy ==
  ASSUME NEW m \in Seq(Message), NEW msg \in Message
  PROVE  By(Append(m, msg)) = By(m) \cup {msg.by}
<1>1. /\ Len(m) \in Nat /\ DOMAIN m = 1..Len(m)
      /\ DOMAIN Append(m, msg) = 1..(Len(m) + 1)
      /\ \A i \in 1..Len(m) : Append(m, msg)[i] = m[i]
      /\ Append(m, msg)[Len(m) + 1] = msg
  BY AppendFacts
<1>2. /\ Len(m) + 1 \in DOMAIN Append(m, msg)
      /\ \A i \in DOMAIN m : i \in DOMAIN Append(m, msg)
      /\ \A i \in DOMAIN Append(m, msg) : i \in DOMAIN m \/ i = Len(m) + 1
  BY <1>1
<1>3. QED
  BY <1>1, <1>2 DEF By

\* What OnlyRacesRewrite says of a session and an actor.
OnlyRaced(s, a) ==
  /\ InAll(s, a) => InAll(s, a)' \/ chats'[s] = <<>> \/ WindowFull(s)
  /\ InNone(s, a) /\ pc[a] \in Ended => InNone(s, a)'

\* Nothing that was stored or read changes, and nobody begins to hold it.
LEMMA SilentRaced ==
  ASSUME NEW s \in Session, NEW a \in Actor, chats'[s] = chats[s],
         turn' = turn, Holding(s)' \subseteq Holding(s)
  PROVE  OnlyRaced(s, a)
BY DEF OnlyRaced, InAll, InNone, TurnsIn, TurnsReadBy, Holding

\* One request reads the session or adds to its turn.
LEMMA ReadRaced ==
  ASSUME TypeOK, NEW s \in Session, NEW a \in Actor, NEW r \in Request,
         chats'[s] = chats[s],
         Holding(s)' \subseteq Holding(s) \cup {r},
         \A q \in Request : q # r => turn'[q] = turn[q],
         NEW base \in Seq(Message), NEW msg \in Message, msg.by = r,
         turn'[r] = Append(base, msg),
         pc[r] \notin Ended,
         r \in Holding(s)' => By(base) \in {TurnsIn(s)} \cup
             {By(turn[q]) : q \in Holding(s)}
  PROVE  OnlyRaced(s, a)
<1>1. TurnsReadBy(r)' = By(base) \cup {r}
  BY AppendBy DEF TurnsReadBy, By
<1>2. \A q \in Request : q # r => TurnsReadBy(q)' = TurnsReadBy(q)
  BY DEF TurnsReadBy
<1>3. TurnsIn(s)' = TurnsIn(s)
  BY DEF TurnsIn
<1>4. \A q \in Holding(s)' : q = r \/ q \in Holding(s)
  OBVIOUS
<1>5. \A q \in Holding(s) : TurnsReadBy(q) = By(turn[q])
  BY DEF TurnsReadBy, By
<1>6. ASSUME InAll(s, a) PROVE InAll(s, a)'
  <2>1. \A q \in Holding(s)' : a \in TurnsReadBy(q)'
    BY <1>1, <1>2, <1>4, <1>5, <1>6 DEF InAll, Holding
  <2>2. QED
    BY <1>3, <1>6, <2>1 DEF InAll
<1>7. ASSUME InNone(s, a), pc[a] \in Ended PROVE InNone(s, a)'
  <2>1. a # r
    BY <1>7
  <2>2. \A q \in Holding(s)' : a \notin TurnsReadBy(q)'
    BY <1>1, <1>2, <1>4, <1>5, <1>7, <2>1 DEF InNone, Holding
  <2>3. QED
    BY <1>3, <1>7, <2>2 DEF InNone
<1>8. QED
  BY <1>6, <1>7 DEF OnlyRaced

LEMMA RequestReads ==
  ASSUME TypeOK, NEW s \in Session, NEW a \in Actor, NEW r \in Request,
         \/ Accept(r)
         \/ \E reply \in Reply : ModelReply(r, reply)
         \/ RecordDenial(r) \/ RecordResult(r)
  PROVE  OnlyRaced(s, a)
<1>1. /\ r \in Actor /\ UNCHANGED <<chats, session>>
      /\ turn[r] \in Seq(Message) /\ turn \in [Request -> Seq(Message)]
      /\ pc[r] \in Working
  BY DEF Actor, TypeOK, DataOK, Accept, ModelReply, RecordDenial,
         RecordResult, Working
<1>2. \A b \in Actor : b # r => pc'[b] = pc[b]
  BY <1>1 DEF Accept, ModelReply, RecordDenial, RecordResult, NextCall,
       TypeOK, ControlOK
<1>3. /\ Holding(s)' \subseteq Holding(s) \cup {r}
      /\ pc[r] \notin Ended
  BY <1>1, <1>2 DEF Holding, Actor, Working, Ended
<1>4. CASE turn' = turn /\ ~Accept(r)
  <2>1. Holding(s)' \subseteq Holding(s)
    BY <1>1, <1>3, <1>4 DEF Holding, ModelReply, RecordDenial, RecordResult, Working
  <2>2. QED
    BY <1>1, <1>4, <2>1, SilentRaced
<1>5. ASSUME NEW kind \in MessageKind, NEW base \in Seq(Message),
             turn' = [turn EXCEPT ![r] = Append(base, [kind |-> kind, by |-> r])],
             \/ base = turn[r] /\ ~Accept(r)
             \/ base = chats[session[r]]
      PROVE  OnlyRaced(s, a)
  <2>1. PICK msg \in Message : msg = [kind |-> kind, by |-> r]
    BY <1>1, MessageType
  <2>2. msg.by = r /\ turn'[r] = Append(base, msg)
    BY <1>1, <1>5, <2>1
  <2>3. \A q \in Request : q # r => turn'[q] = turn[q]
    BY <1>1, <1>5
  <2>4. ASSUME r \in Holding(s)'
        PROVE  By(base) \in {TurnsIn(s)} \cup {By(turn[q]) : q \in Holding(s)}
    <3>1. session[r] = s
      BY <1>1, <2>4 DEF Holding
    <3>2. CASE base = chats[session[r]]
      BY <3>1, <3>2 DEF By, TurnsIn
    <3>3. CASE base = turn[r] /\ ~Accept(r)
      <4>1. r \in Holding(s)
        BY <1>1, <3>1, <3>3 DEF Holding, ModelReply, RecordDenial, RecordResult,
             Working
      <4>2. QED
        BY <3>3, <4>1
    <3>4. QED
      BY <1>5, <3>2, <3>3
  <2>5. QED
    BY <1>1, <1>3, <2>2, <2>3, <2>4, ReadRaced
<1>6. CASE Accept(r)
  <2>1. chats[session[r]] \in Seq(Message)
    BY <1>6 DEF Accept, TypeOK, ControlOK, DataOK, Working
  <2>2. PICK kind \in {"user"} :
          turn' = [turn EXCEPT ![r] =
                     Append(chats[session[r]], [kind |-> kind, by |-> r])]
    BY <1>6 DEF Accept
  <2>3. kind \in MessageKind
    BY DEF MessageKind
  <2>4. QED
    BY <1>5, <2>1, <2>2, <2>3
<1>7. CASE ~Accept(r) /\ (Push(r, "assistant") \/ Push(r, "denied") \/ Push(r, "result"))
  <2>1. PICK kind \in {"assistant", "denied", "result"} :
          turn' = [turn EXCEPT ![r] = Append(turn[r], [kind |-> kind, by |-> r])]
    BY <1>7 DEF Push
  <2>2. kind \in MessageKind
    BY DEF MessageKind, ToolResultKind
  <2>3. QED
    BY <1>1, <1>5, <1>7, <2>1, <2>2
<1>8. QED
  BY <1>4, <1>6, <1>7 DEF ModelReply, RecordDenial, RecordResult

\* A request saves its turn: all that agreed with the session still does.
LEMMA PersistRaced ==
  ASSUME TypeOK, NEW s \in Session, NEW a \in Actor, NEW r \in Request,
         Persist(r)
  PROVE  OnlyRaced(s, a)
<1>1. /\ r \in Actor /\ session' = session /\ turn' = turn
      /\ turn[r] \in Seq(Message) /\ Len(turn[r]) \in Nat
      /\ InFlight(r) /\ pc[r] # "accept"
      /\ pc'[r] \in {"ok", "pending"} /\ \A b \in Actor : b # r => pc'[b] = pc[b]
  BY DEF Actor, Persist, TypeOK, ControlOK, DataOK, Working
<1>2. Holding(s)' \subseteq Holding(s)
  BY <1>1 DEF Holding, Actor, Working
<1>3. CASE session[r] # s
  <2>1. chats'[s] = chats[s]
    BY <1>3 DEF Persist, TypeOK, DataOK
  <2>2. QED
    BY <1>1, <1>2, <2>1, SilentRaced
<1>4. CASE session[r] = s
  <2>1. chats'[s] = Trimmed(turn[r])
    BY <1>4 DEF Persist, TypeOK, DataOK
  <2>2. /\ TurnsIn(s)' \subseteq TurnsReadBy(r)
        /\ Len(turn[r]) <= MaxMessages => TurnsIn(s)' = TurnsReadBy(r)
    BY <1>1, <2>1, TrimmedBy DEF TurnsIn, TurnsReadBy, By
  <2>3. r \in Holding(s)
    BY <1>1, <1>4 DEF Holding
  <2>4. \A q \in Request : TurnsReadBy(q)' = TurnsReadBy(q)
    BY <1>1 DEF TurnsReadBy
  <2>5. Len(turn[r]) <= MaxMessages \/ WindowFull(s)
    BY <1>1, <1>4, MaxMessagesAssumption DEF WindowFull
  <2>6. QED
    BY <1>2, <2>2, <2>3, <2>4, <2>5 DEF OnlyRaced, InAll, InNone, Holding
<1>5. QED
  BY <1>3, <1>4

\* A confirmation adds its own outcome.
LEMMA AppendRaced ==
  ASSUME TypeOK, WindowInv, NEW s \in Session, NEW a \in Actor,
         NEW c \in Confirm, AppendOutcome(c)
  PROVE  OnlyRaced(s, a)
<1>1. /\ c \in Actor /\ session' = session /\ turn' = turn
      /\ pc[c] \notin Ended /\ \A q \in Request : pc'[q] = pc[q]
  BY ActorAssumption DEF Actor, AppendOutcome, TypeOK, ControlOK, Ended
<1>2. Holding(s)' = Holding(s)
  BY <1>1 DEF Holding
<1>3. CASE session[c] # s
  <2>1. chats'[s] = chats[s]
    BY <1>3 DEF AppendOutcome, TypeOK, DataOK
  <2>2. QED
    BY <1>1, <1>2, <2>1, SilentRaced
<1>4. CASE session[c] = s
  <2>1. PICK msg \in Message : msg = [kind |-> Told(c), by |-> c]
    BY <1>1, MessageType DEF Told, MessageKind, ToolResultKind
  <2>2. PICK old \in Seq(Message) : old = chats[s]
    BY DEF TypeOK, DataOK
  <2>3. chats'[s] = Trimmed(Append(old, msg))
    <3>1. s # NoSession
      BY ActorAssumption
    <3>2. QED
      BY <1>4, <2>1, <2>2, <3>1 DEF AppendOutcome, TypeOK, DataOK
  <2>4. Append(old, msg) \in Seq(Message)
    OBVIOUS
  <2>5. By(Append(old, msg)) = TurnsIn(s) \cup {c}
    <3>1. TurnsIn(s) = By(old) /\ msg.by = c
      BY <2>1, <2>2 DEF TurnsIn, By
    <3>2. QED
      BY <3>1, AppendBy
  <2>6. /\ TurnsIn(s)' \subseteq TurnsIn(s) \cup {c}
        /\ Len(Append(old, msg)) <= MaxMessages => TurnsIn(s)' = TurnsIn(s) \cup {c}
    BY <2>3, <2>4, <2>5, TrimmedBy DEF TurnsIn, By
  <2>7. Len(Append(old, msg)) <= MaxMessages \/ WindowFull(s)
    <3>1. Len(Append(old, msg)) = Len(old) + 1 /\ Len(old) \in Nat
      BY AppendFacts
    <3>2. Len(old) <= MaxMessages
      BY <2>2 DEF WindowInv
    <3>3. QED
      BY <2>2, <3>1, <3>2, MaxMessagesAssumption DEF WindowFull
  <2>8. \A q \in Request : TurnsReadBy(q)' = TurnsReadBy(q)
    BY <1>1 DEF TurnsReadBy
  <2>9. QED
    BY <1>1, <1>2, <2>6, <2>7, <2>8 DEF OnlyRaced, InAll, InNone, Holding
<1>5. QED
  BY <1>3, <1>4

LEMMA ForgetRaced ==
  ASSUME TypeOK, NEW s \in Session, NEW a \in Actor,
         Restart \/ \E x \in Session : ChatReset(x)
  PROVE  OnlyRaced(s, a)
<1>1. UNCHANGED <<turn, session>> /\ (chats'[s] = chats[s] \/ chats'[s] = <<>>)
  BY DEF Restart, ChatReset, TypeOK, DataOK
<1>2. Holding(s)' \subseteq Holding(s)
  BY DEF Restart, ChatReset, Holding, Ended, Working, Actor
<1>3. CASE chats'[s] = chats[s]
  BY <1>1, <1>2, <1>3, SilentRaced
<1>4. CASE chats'[s] = <<>>
  BY <1>1, <1>2, <1>4 DEF OnlyRaced, InNone, TurnsIn, TurnsReadBy, Holding
<1>5. QED
  BY <1>1, <1>3, <1>4

LEMMA NextRaced ==
  ASSUME TypeOK, WindowInv, [Next]_vars, NEW s \in Session, NEW a \in Actor
  PROVE  OnlyRaced(s, a)
<1>1. ASSUME NEW r \in Request,
             \/ \E x \in Session : Admit(r, x)
             \/ Refuse(r) \/ FinishTool(r) \/ Timeout(r) \/ Abort(r)
             \/ ProposeCall(r) \/ DecideCall(r) \/ AskUser(r)
             \/ StartTool(r) \/ ToolRefuses(r) \/ Complete(r)
      PROVE  OnlyRaced(s, a)
  <2>1. UNCHANGED <<chats, turn>>
    BY <1>1 DEF Admit, Refuse, FinishTool, Timeout, Abort, ProposeCall,
         DecideCall, AskUser, StartTool, ToolRefuses, Complete
  <2>2. \A q \in Request : q # r => pc'[q] = pc[q] /\ session'[q] = session[q]
    BY <1>1 DEF Admit, Refuse, FinishTool, Timeout, Abort, ProposeCall,
         DecideCall, AskUser, StartTool, ToolRefuses, Complete, TypeOK,
         ControlOK, Actor
  <2>3. \/ pc[r] \in Working \ {"accept"} /\ session'[r] = session[r]
        \/ pc'[r] \in Ended \cup {"accept"}
    BY <1>1 DEF Admit, Refuse, FinishTool, Timeout, Abort, Suspended,
         ProposeCall, DecideCall, AskUser, StartTool, ToolRefuses, Complete,
         Working, Ended, TypeOK, ControlOK, Actor
  <2>4. Holding(s)' \subseteq Holding(s)
    BY <2>2, <2>3 DEF Holding, Working, Ended
  <2>5. QED
    BY <2>1, <2>4, SilentRaced
<1>2. ASSUME NEW c \in Confirm,
             \/ \E call \in Call, scope \in {"once", "session", "cancel"},
                   x \in Session \cup {NoSession} : Respond(c, call, scope, x)
             \/ Check(c) \/ StartTool(c) \/ ToolRefuses(c) \/ FinishTool(c)
             \/ ConfirmedResult(c) \/ Abort(c)
      PROVE  OnlyRaced(s, a)
  <2>1. UNCHANGED <<chats, turn>>
    BY <1>2 DEF Respond, Check, StartTool, ToolRefuses, FinishTool,
         ConfirmedResult, Abort
  <2>2. \A q \in Request : pc'[q] = pc[q] /\ session'[q] = session[q]
    BY <1>2, ActorAssumption DEF Respond, Check, StartTool, ToolRefuses,
         FinishTool, ConfirmedResult, Abort, TypeOK, ControlOK, Actor
  <2>3. Holding(s)' \subseteq Holding(s)
    BY <2>2 DEF Holding
  <2>4. QED
    BY <2>1, <2>3, SilentRaced
<1>3. CASE ClearGrants \/ UNCHANGED vars
  <2>1. UNCHANGED <<chats, turn, pc, session>>
    BY <1>3 DEF ClearGrants, vars
  <2>2. Holding(s)' \subseteq Holding(s)
    BY <2>1 DEF Holding
  <2>3. QED
    BY <2>1, <2>2, SilentRaced
<1>4. QED
  BY <1>1, <1>2, <1>3, RequestReads, PersistRaced, AppendRaced, ForgetRaced
     DEF Next, RequestStep, ConfirmStep

\* A turn that no request in flight in its session has failed to read is not
\* overwritten, and one that none of them has read is not brought back: what
\* the docs promise of confirmed results and resets, and where it ends.
THEOREM OnlyRacesRewriteChats == Spec => OnlyRacesRewrite
<1>1. TypeOK /\ WindowInv /\ [Next]_vars =>
        [\A s \in Session, a \in Actor :
           /\ InAll(s, a) => InAll(s, a)' \/ chats'[s] = <<>> \/ WindowFull(s)
           /\ InNone(s, a) /\ pc[a] \in Ended => InNone(s, a)']_vars
  BY NextRaced DEF OnlyRaced
<1>2. QED
  BY <1>1, TypeCorrect, InitWindow, NextWindow, PTL DEF Spec, OnlyRacesRewrite

-----------------------------------------------------------------------------
(* Closed chains *)

\* Record i, if it proposes a call, has its decision and `end` next to it.
Closed(tr, i, end) ==
  tr[i].kind = "tool_call" =>
    /\ i + 2 \in DOMAIN tr
    /\ tr[i + 1].kind = "policy_decision" /\ tr[i + 2].kind = end

\* All but the last n records are closed.
ClosedBut(tr, n) ==
  \A i \in DOMAIN tr : i <= Len(tr) - n => Closed(tr, i, "tool_result")

\* Where the last call of the trail has its result.
Settling == {"idle", "accept", "model", "propose", "complete"}

\* Where it has its decision and no more.
Deciding == {"denied", "ask", "execute", "running", "blocked", "result"}

\* Where its chain ends with the confirmation request.
PendingTrail(tr) ==
  /\ tr # <<>> /\ tr[Len(tr)].kind = "confirmation_request"
  /\ ClosedBut(tr, 3)
  /\ \A i \in DOMAIN tr : i = Len(tr) - 1 => tr[i].kind # "tool_call"
  /\ \A i \in DOMAIN tr : i = Len(tr) - 2 => Closed(tr, i, "confirmation_request")

ChainOK(r) ==
  /\ pc[r] \in Settling => ClosedBut(trail[r], 0)
  /\ pc[r] = "decide" => ClosedBut(trail[r], 1)
  /\ pc[r] \in Deciding =>
       /\ trail[r] # <<>> /\ LastRecord(r).kind = "policy_decision"
       /\ ClosedBut(trail[r], 2)
  /\ pc[r] \in {"persist_ok", "ok"} =>
       /\ trail[r] # <<>> /\ LastRecord(r).kind = "diagnose_result"
       /\ ClosedBut(trail[r], 0)
  /\ pc[r] \in {"persist_pending", "pending"} => PendingTrail(trail[r])

\* Why ClosedTrail is preserved.
ChainInv == \A r \in Request : ChainOK(r)

\* A step of others.
LEMMA ChainKept ==
  ASSUME NEW r \in Request, ChainOK(r), trail'[r] = trail[r], pc'[r] = pc[r]
  PROVE  ChainOK(r)'
BY DEF ChainOK, LastRecord

\* What appending a record does to the calls before it.
LEMMA AppendClosed ==
  ASSUME NEW tr \in Seq(AuditRecord), NEW rec \in AuditRecord,
         NEW new, new = Append(tr, rec)
  PROVE  /\ new # <<>> /\ new[Len(new)] = rec
         /\ ClosedBut(tr, 0) => ClosedBut(new, 1)
         /\ ClosedBut(tr, 1) => ClosedBut(new, 2)
         /\ ClosedBut(tr, 2) => ClosedBut(new, 3)
<1>1. /\ Len(tr) \in Nat /\ Len(new) = Len(tr) + 1
      /\ DOMAIN tr = 1..Len(tr)
      /\ DOMAIN new = 1..(Len(tr) + 1)
      /\ \A i \in 1..Len(tr) : new[i] = tr[i]
      /\ new[Len(tr) + 1] = rec
  BY AppendFacts
<1>2. new # <<>>
  BY AppendKeepsFirst
<1>3. ASSUME NEW i \in DOMAIN tr, Closed(tr, i, "tool_result")
      PROVE  Closed(new, i, "tool_result")
  BY <1>1, <1>3 DEF Closed
<1>4. ClosedBut(tr, 0) => ClosedBut(new, 1)
  BY <1>1, <1>3 DEF ClosedBut
<1>5. ClosedBut(tr, 1) => ClosedBut(new, 2)
  BY <1>1, <1>3 DEF ClosedBut
<1>6. ClosedBut(tr, 2) => ClosedBut(new, 3)
  BY <1>1, <1>3 DEF ClosedBut
<1>7. QED
  BY <1>1, <1>2, <1>4, <1>5, <1>6

\* A record that proposes no call, after a trail that is closed.
LEMMA ClosedGoesOn ==
  ASSUME NEW tr \in Seq(AuditRecord), NEW rec \in AuditRecord,
         NEW new, new = Append(tr, rec), ClosedBut(tr, 0),
         rec.kind # "tool_call"
  PROVE  ClosedBut(new, 0)
<1>1. /\ Len(tr) \in Nat /\ Len(new) = Len(tr) + 1
      /\ DOMAIN new = 1..(Len(tr) + 1)
      /\ new[Len(tr) + 1] = rec
  BY AppendFacts
<1>2. ClosedBut(new, 1)
  BY AppendClosed
<1>3. ASSUME NEW i \in DOMAIN new PROVE Closed(new, i, "tool_result")
  BY <1>1, <1>2 DEF ClosedBut, Closed
<1>4. QED
  BY <1>3 DEF ClosedBut

\* The result of the last call closes it.
LEMMA ResultCloses ==
  ASSUME NEW tr \in Seq(AuditRecord), NEW rec \in AuditRecord,
         NEW new, new = Append(tr, rec), ClosedBut(tr, 2), tr # <<>>,
         tr[Len(tr)].kind = "policy_decision", rec.kind = "tool_result"
  PROVE  ClosedBut(new, 0)
<1>1. /\ Len(tr) \in Nat /\ Len(new) = Len(tr) + 1
      /\ DOMAIN new = 1..(Len(tr) + 1)
      /\ \A i \in 1..Len(tr) : new[i] = tr[i]
      /\ new[Len(tr) + 1] = rec
  BY AppendFacts
<1>2. ClosedBut(new, 3) /\ Len(tr) >= 1
  <2>1. ClosedBut(new, 3) /\ new # <<>>
    BY AppendClosed
  <2>2. QED
    BY <1>1, <2>1, EmptySeq
<1>3. new[Len(tr)].kind = "policy_decision"
  BY <1>1, <1>2
<1>4. ASSUME NEW i \in DOMAIN new PROVE Closed(new, i, "tool_result")
  <2>1. CASE i <= Len(new) - 3
    BY <1>2, <2>1 DEF ClosedBut
  <2>2. CASE i = Len(tr) - 1
    BY <1>1, <1>3, <2>2 DEF Closed
  <2>3. CASE i = Len(tr) \/ i = Len(tr) + 1
    BY <1>1, <1>3, <2>3 DEF Closed
  <2>4. QED
    BY <1>1, <2>1, <2>2, <2>3
<1>5. QED
  BY <1>4 DEF ClosedBut

\* So does the request for confirmation, at the end of a trail.
LEMMA AskCloses ==
  ASSUME NEW tr \in Seq(AuditRecord), NEW rec \in AuditRecord,
         NEW new, new = Append(tr, rec), ClosedBut(tr, 2), tr # <<>>,
         tr[Len(tr)].kind = "policy_decision",
         rec.kind = "confirmation_request"
  PROVE  PendingTrail(new)
<1>1. /\ Len(tr) \in Nat /\ Len(new) = Len(tr) + 1
      /\ DOMAIN new = 1..(Len(tr) + 1)
      /\ \A i \in 1..Len(tr) : new[i] = tr[i]
      /\ new[Len(tr) + 1] = rec
  BY AppendFacts
<1>2. ClosedBut(new, 3) /\ Len(tr) >= 1 /\ new # <<>>
  <2>1. ClosedBut(new, 3) /\ new # <<>>
    BY AppendClosed
  <2>2. QED
    BY <1>1, <2>1, EmptySeq
<1>3. new[Len(tr)].kind = "policy_decision"
  BY <1>1, <1>2
<1>4. QED
  BY <1>1, <1>2, <1>3 DEF PendingTrail, ClosedBut, Closed

-----------------------------------------------------------------------------
(* The actions, and the chain they leave *)

\* What the actor of a step has to show, and the others do not.
LEMMA ChainOthers ==
  ASSUME ChainInv, NEW a \in Actor, a \in Request => ChainOK(a)',
         \A b \in Actor : b # a => trail'[b] = trail[b] /\ pc'[b] = pc[b]
  PROVE  ChainInv'
BY ChainKept DEF ChainInv, Actor

\* A step that appends nothing and stays between the same two records.
LEMMA ChainMoves ==
  ASSUME ChainInv, NEW r \in Request, trail' = trail,
         \A b \in Actor : b # r => pc'[b] = pc[b],
         \/ pc[r] \in Settling /\ pc'[r] \in Settling
         \/ pc[r] \in Deciding /\ pc'[r] \in Deciding
         \/ pc[r] = "persist_ok" /\ pc'[r] = "ok"
         \/ pc[r] = "persist_pending" /\ pc'[r] = "pending"
         \/ pc'[r] \in Ended \ {"ok", "pending"}
  PROVE  ChainInv'
<1>1. ChainOK(r)
  BY DEF ChainInv
<1>2. ChainOK(r)'
  BY <1>1 DEF ChainOK, LastRecord, Settling, Deciding, Ended
<1>3. QED
  BY <1>2, ChainOthers DEF Actor

\* A record that proposes no call, while the chain is closed.
LEMMA ChainGoesOn ==
  ASSUME TypeOK, ChainInv, NEW r \in Request, pc[r] \in Settling,
         NEW rec \in AuditRecord, Appends(r, rec), rec.kind # "tool_call",
         \A b \in Actor : b # r => pc'[b] = pc[b],
         \/ pc'[r] \in Settling
         \/ pc'[r] = "persist_ok" /\ rec.kind = "diagnose_result"
  PROVE  ChainInv'
<1>1. /\ r \in Actor /\ trail[r] \in Seq(AuditRecord)
      /\ trail'[r] = Append(trail[r], rec)
      /\ \A b \in Actor : b # r => trail'[b] = trail[b]
  BY AppendsToTrail DEF Actor
<1>2. ClosedBut(trail[r], 0)
  BY DEF ChainInv, ChainOK
<1>3. trail'[r] # <<>> /\ trail'[r][Len(trail'[r])] = rec
  BY <1>1, AppendClosed
<1>4. ClosedBut(trail'[r], 0)
  BY <1>1, <1>2, ClosedGoesOn
<1>5. ChainOK(r)'
  BY <1>3, <1>4 DEF ChainOK, LastRecord, Settling, Deciding
<1>6. QED
  BY <1>1, <1>5, ChainOthers

LEMMA AcceptChain ==
  ASSUME TypeOK, ChainInv, NEW r \in Request, Accept(r)
  PROVE  ChainInv'
<1>1. PICK rec \in AuditRecord :
        Says(rec, "user_request", NoCall, "") /\ Appends(r, rec)
  BY LogAppends DEF Accept, Actor
<1>2. pc[r] \in Settling /\ pc'[r] \in Settling
      /\ \A b \in Actor : b # r => pc'[b] = pc[b]
  BY DEF Accept, LoopHead, Settling, TypeOK, ControlOK, Actor
<1>3. QED
  BY <1>1, <1>2, ChainGoesOn DEF Says

LEMMA ModelReplyChain ==
  ASSUME TypeOK, ChainInv, NEW r \in Request, NEW reply \in Reply,
         ModelReply(r, reply)
  PROVE  ChainInv'
<1>1. pc[r] \in Settling /\ pc'[r] \in Settling
      /\ \A b \in Actor : b # r => pc'[b] = pc[b]
  BY DEF ModelReply, Settling, TypeOK, ControlOK, Actor
<1>2. CASE trail' = trail
  BY <1>1, <1>2, ChainMoves
<1>3. CASE Log(r, "assistant_message", NoCall, "")
  <2>1. PICK rec \in AuditRecord :
          Says(rec, "assistant_message", NoCall, "") /\ Appends(r, rec)
    BY <1>3, LogAppends DEF Actor
  <2>2. QED
    BY <1>1, <2>1, ChainGoesOn DEF Says
<1>4. QED
  BY <1>2, <1>3 DEF ModelReply

LEMMA CompleteChain ==
  ASSUME TypeOK, ChainInv, NEW r \in Request, Complete(r)
  PROVE  ChainInv'
<1>1. PICK rec \in AuditRecord :
        Says(rec, "diagnose_result", NoCall, "") /\ Appends(r, rec)
  BY LogAppends DEF Complete, Actor
<1>2. pc[r] \in Settling /\ pc'[r] = "persist_ok"
      /\ \A b \in Actor : b # r => pc'[b] = pc[b]
  BY DEF Complete, Settling, TypeOK, ControlOK, Actor
<1>3. QED
  BY <1>1, <1>2, ChainGoesOn DEF Says

LEMMA ProposeCallChain ==
  ASSUME TypeOK, ChainInv, NEW r \in Request, ProposeCall(r)
  PROVE  ChainInv'
<1>1. PICK call \in Call : call = Head(todo[r])
  BY CurrentType DEF ProposeCall, WithCall, TypeOK, Actor
<1>2. PICK rec \in AuditRecord : Appends(r, rec)
  BY <1>1, LogAppends DEF ProposeCall, Actor
<1>3. /\ r \in Actor /\ trail[r] \in Seq(AuditRecord)
      /\ trail'[r] = Append(trail[r], rec)
      /\ \A b \in Actor : b # r => trail'[b] = trail[b]
  BY <1>2, AppendsToTrail DEF Actor
<1>4. ClosedBut(trail[r], 0)
  BY DEF ChainInv, ChainOK, ProposeCall, Settling
<1>5. ClosedBut(trail'[r], 1)
  BY <1>3, <1>4, AppendClosed
<1>6. pc'[r] = "decide" /\ \A b \in Actor : b # r => pc'[b] = pc[b]
  BY <1>3 DEF ProposeCall, TypeOK, ControlOK
<1>7. ChainOK(r)'
  BY <1>5, <1>6 DEF ChainOK, Settling, Deciding
<1>8. QED
  BY <1>3, <1>6, <1>7, ChainOthers

LEMMA DecideCallChain ==
  ASSUME TypeOK, ChainInv, NEW r \in Request, DecideCall(r)
  PROVE  ChainInv'
<1>1. PICK call \in Call : call = Head(todo[r])
  BY CurrentType DEF DecideCall, WithCall, TypeOK, Actor
<1>2. PICK verdict \in {"allow", "deny", "ask_user"} : verdict = Verdict(call)
  BY VerdictType DEF PolicyVerdict
<1>3. Log(r, "policy_decision", call, verdict)
  BY <1>1, <1>2 DEF DecideCall
<1>4. PICK rec \in AuditRecord :
        Says(rec, "policy_decision", call, verdict) /\ Appends(r, rec)
  BY <1>3, LogAppends DEF Actor
<1>5. /\ r \in Actor /\ trail[r] \in Seq(AuditRecord)
      /\ trail'[r] = Append(trail[r], rec)
      /\ \A b \in Actor : b # r => trail'[b] = trail[b]
  BY <1>4, AppendsToTrail DEF Actor
<1>6. ClosedBut(trail[r], 1)
  BY DEF ChainInv, ChainOK, DecideCall
<1>7. /\ trail'[r] # <<>> /\ trail'[r][Len(trail'[r])] = rec
      /\ ClosedBut(trail'[r], 2)
  BY <1>5, <1>6, AppendClosed
<1>8. pc'[r] \in {"denied", "ask", "execute"}
      /\ \A b \in Actor : b # r => pc'[b] = pc[b]
  BY <1>1, <1>2, <1>5 DEF DecideCall, TypeOK, ControlOK
<1>9. ChainOK(r)'
  BY <1>4, <1>7, <1>8 DEF ChainOK, LastRecord, Says, Settling, Deciding
<1>10. QED
  BY <1>5, <1>8, <1>9, ChainOthers

LEMMA OutcomeChain ==
  ASSUME TypeOK, ChainInv, NEW r \in Request,
         RecordDenial(r) \/ RecordResult(r)
  PROVE  ChainInv'
<1>1. PICK call \in Call : call = Head(todo[r])
  BY CurrentType DEF RecordDenial, RecordResult, WithCall, TypeOK, Actor
<1>2. PICK rec \in AuditRecord : rec.kind = "tool_result" /\ Appends(r, rec)
  <2>1. PICK note \in {"denied", "ran"} : Log(r, "tool_result", call, note)
    BY <1>1 DEF RecordDenial, RecordResult
  <2>2. \E rec \in AuditRecord :
          Says(rec, "tool_result", call, note) /\ Appends(r, rec)
    BY <1>1, <2>1, LogAppends DEF Actor
  <2>3. QED
    BY <2>2 DEF Says
<1>3. /\ r \in Actor /\ trail[r] \in Seq(AuditRecord)
      /\ trail'[r] = Append(trail[r], rec)
      /\ \A b \in Actor : b # r => trail'[b] = trail[b]
  BY <1>2, AppendsToTrail DEF Actor
<1>4. /\ ClosedBut(trail[r], 2) /\ trail[r] # <<>>
      /\ trail[r][Len(trail[r])].kind = "policy_decision"
  BY DEF ChainInv, ChainOK, RecordDenial, RecordResult, Deciding, LastRecord
<1>5. ClosedBut(trail'[r], 0)
  BY <1>2, <1>3, <1>4, ResultCloses
<1>6. pc'[r] \in {"propose", "model", "complete"}
      /\ \A b \in Actor : b # r => pc'[b] = pc[b]
  BY <1>3 DEF RecordDenial, RecordResult, NextCall, LoopHead, TypeOK, ControlOK
<1>7. ChainOK(r)'
  BY <1>5, <1>6 DEF ChainOK, Settling, Deciding
<1>8. QED
  BY <1>3, <1>6, <1>7, ChainOthers

LEMMA AskUserChain ==
  ASSUME TypeOK, ChainInv, NEW r \in Request, AskUser(r)
  PROVE  ChainInv'
<1>1. PICK call \in Call : call = Head(todo[r])
  BY CurrentType DEF AskUser, WithCall, TypeOK, Actor
<1>2. PICK rec \in AuditRecord :
        Says(rec, "confirmation_request", call, "") /\ Appends(r, rec)
  BY <1>1, LogAppends DEF AskUser, Actor
<1>3. /\ r \in Actor /\ trail[r] \in Seq(AuditRecord)
      /\ trail'[r] = Append(trail[r], rec)
      /\ \A b \in Actor : b # r => trail'[b] = trail[b]
  BY <1>2, AppendsToTrail DEF Actor
<1>4. /\ ClosedBut(trail[r], 2) /\ trail[r] # <<>>
      /\ trail[r][Len(trail[r])].kind = "policy_decision"
  BY DEF ChainInv, ChainOK, AskUser, Deciding, LastRecord
<1>5. PendingTrail(trail'[r])
  BY <1>2, <1>3, <1>4, AskCloses DEF Says
<1>6. pc'[r] = "persist_pending"
      /\ \A b \in Actor : b # r => pc'[b] = pc[b]
  BY <1>3 DEF AskUser, TypeOK, ControlOK
<1>7. ChainOK(r)'
  BY <1>5, <1>6 DEF ChainOK, Settling, Deciding
<1>8. QED
  BY <1>3, <1>6, <1>7, ChainOthers

LEMMA SilentChain ==
  ASSUME TypeOK, ChainInv, NEW r \in Request,
         \/ \E s \in Session : Admit(r, s)
         \/ Refuse(r)
         \/ Persist(r) \/ Timeout(r) \/ Abort(r) \/ ToolRefuses(r)
         \/ StartTool(r) \/ FinishTool(r)
  PROVE  ChainInv'
<1>1. trail' = trail /\ \A b \in Actor : b # r => pc'[b] = pc[b]
  BY DEF Admit, Refuse, Persist, Timeout, Abort, ToolRefuses, StartTool,
         FinishTool, TypeOK, ControlOK, Actor
<1>2. \/ pc[r] = "idle" /\ pc'[r] = "accept"
      \/ pc[r] \in {"execute", "running", "blocked"} /\ pc'[r] \in {"running", "blocked", "result"}
      \/ pc[r] = "persist_ok" /\ pc'[r] = "ok"
      \/ pc[r] = "persist_pending" /\ pc'[r] = "pending"
      \/ pc'[r] \in {"busy", "timeout", "error"}
  BY DEF Admit, Refuse, Persist, Timeout, Abort, ToolRefuses, StartTool,
         FinishTool, TypeOK, ControlOK, Actor
<1>3. \/ pc[r] \in Settling /\ pc'[r] \in Settling
      \/ pc[r] \in Deciding /\ pc'[r] \in Deciding
      \/ pc[r] = "persist_ok" /\ pc'[r] = "ok"
      \/ pc[r] = "persist_pending" /\ pc'[r] = "pending"
      \/ pc'[r] \in Ended \ {"ok", "pending"}
  BY <1>2 DEF Settling, Deciding, Ended
<1>4. QED
  BY <1>1, <1>3, ChainMoves

\* Confirmations have trails of their own.
LEMMA ConfirmChain ==
  ASSUME TypeOK, ChainInv, NEW c \in Confirm,
         \/ ConfirmStep(c)
         \/ \E call \in Call, scope \in {"once", "session", "cancel"},
               s \in Session \cup {NoSession} : Respond(c, call, scope, s)
  PROVE  ChainInv'
<1>1. c \in Actor /\ c \notin Request
  BY ActorAssumption DEF Actor
<1>2. \A b \in Actor : b # c => trail'[b] = trail[b] /\ pc'[b] = pc[b]
  BY <1>1 DEF ConfirmStep, Respond, Check, StartTool, ToolRefuses, FinishTool,
              ConfirmedResult, AppendOutcome, Abort, Log, TypeOK, ControlOK,
              DataOK
<1>3. QED
  BY <1>1, <1>2, ChainOthers

LEMMA RestartChain ==
  ASSUME TypeOK, ChainInv, Restart
  PROVE  ChainInv'
<1> SUFFICES ASSUME NEW r \in Request PROVE ChainOK(r)'
  BY DEF ChainInv
<1>1. ChainOK(r) /\ trail'[r] = trail[r]
  BY DEF ChainInv, Restart
<1>2. pc'[r] = pc[r] \/ pc'[r] = "lost"
  BY DEF Restart, Actor
<1>3. QED
  BY <1>1, <1>2 DEF ChainOK, LastRecord, Settling, Deciding

LEMMA NextChain == TypeOK /\ ChainInv /\ [Next]_vars => ChainInv'
<1> SUFFICES ASSUME TypeOK, ChainInv, [Next]_vars PROVE ChainInv'
  OBVIOUS
<1>1. ASSUME NEW r \in Request,
             \/ \E s \in Session : Admit(r, s)
             \/ Refuse(r) \/ FinishTool(r) \/ Timeout(r) \/ Abort(r)
      PROVE  ChainInv'
  BY <1>1, SilentChain
<1>2. ASSUME NEW r \in Request, RequestStep(r) PROVE ChainInv'
  BY <1>2, AcceptChain, ProposeCallChain, DecideCallChain, OutcomeChain,
     AskUserChain, CompleteChain, SilentChain
     DEF RequestStep
<1>3. CASE (\E s \in Session : ChatReset(s)) \/ ClearGrants \/ UNCHANGED vars
  <2>1. UNCHANGED <<pc, trail>>
    BY <1>3 DEF ChatReset, ClearGrants, vars
  <2>2. QED
    BY <2>1, ChainKept DEF ChainInv
<1>4. QED
  BY <1>1, <1>2, <1>3, ModelReplyChain, ConfirmChain, RestartChain DEF Next

LEMMA InitChain == Init => ChainInv
BY DEF Init, ChainInv, ChainOK, ClosedBut, Closed, Settling, Deciding, Actor

\* A request that came back with an outcome left a closed chain: each of its
\* calls decided and settled, the last of them by the pending confirmation if
\* that is the outcome.
THEOREM TrailsAreClosed == Spec => []ClosedTrail
<1>1. ASSUME TypeOK, ChainInv, NEW r \in Request, pc[r] = "ok"
      PROVE  /\ LastRecord(r).kind = "diagnose_result"
             /\ \A i \in DOMAIN trail[r] : Closed(trail[r], i, "tool_result")
  BY <1>1 DEF ChainInv, ChainOK, ClosedBut, TypeOK, DataOK, Actor
<1>2. ASSUME TypeOK, ChainInv, NEW r \in Request, pc[r] = "pending",
             NEW i \in DOMAIN trail[r], trail[r][i].kind = "tool_call"
      PROVE  /\ i + 2 \in DOMAIN trail[r]
             /\ trail[r][i + 1].kind = "policy_decision"
             /\ trail[r][i + 2].kind =
                  IF i + 2 = Len(trail[r]) THEN "confirmation_request"
                  ELSE "tool_result"
  <2>1. PendingTrail(trail[r])
    BY <1>2 DEF ChainInv, ChainOK
  <2>2. Len(trail[r]) \in Nat /\ DOMAIN trail[r] = 1..Len(trail[r])
    BY DEF TypeOK, DataOK, Actor
  <2>3. i <= Len(trail[r]) - 2
    BY <1>2, <2>1, <2>2 DEF PendingTrail
  <2>4. QED
    BY <1>2, <2>1, <2>2, <2>3 DEF PendingTrail, ClosedBut, Closed
<1>3. ASSUME TypeOK, ChainInv, NEW r \in Request, pc[r] = "pending"
      PROVE  LastRecord(r).kind = "confirmation_request"
  BY <1>3 DEF ChainInv, ChainOK, PendingTrail, LastRecord
<1>4. TypeOK /\ ChainInv => ClosedTrail
  BY <1>1, <1>2, <1>3 DEF ClosedTrail, Closed
<1>5. QED
  BY <1>4, TypeCorrect, InitChain, NextChain, PTL DEF Spec

-----------------------------------------------------------------------------
(* The replay of the audit log *)

\* The trail proposes this call.
Proposed(tr, call) == \E i \in Places(tr, "tool_call") : tr[i].call = call

\* Where a request deals with a call it has proposed.
InHand == {"decide", "denied", "ask", "execute", "running", "blocked", "result"}

\* Where a request has not asked the user anything, nor just decided to.
Unasked == {"idle", "accept", "model", "propose", "decide", "denied", "execute",
            "running", "blocked", "result", "complete", "persist_ok", "ok"}

\* A request proposes what it runs, and asks at the end of its trail.
TruthOK(r) ==
  /\ pc[r] \in InHand => Proposed(trail[r], Current(r))
  /\ pc[r] \in {"persist_pending", "pending"} =>
       Proposed(trail[r], LastRecord(r).call)
  /\ \A k \in DOMAIN ran[r] : Proposed(trail[r], ran[r][k])
  /\ pc[r] \in Unasked => AskedFor(trail[r]) = {}
  /\ pc[r] \in Unasked \cup {"ask"} =>
       Places(trail[r], "confirmation_request") = {}
  /\ \A i \in AskedFor(trail[r]) : \A j \in ResultsOnRecord(r) : j < i

OnlyRegisteredRan ==
  \A a \in Actor : \A k \in DOMAIN ran[a] : ran[a][k].tool \in Registered

\* Why ReplayTruthful is preserved.
TruthInv == \A r \in Request : TruthOK(r)

\* A step of others.
LEMMA TruthKept ==
  ASSUME NEW r \in Request, TruthOK(r), trail'[r] = trail[r], pc'[r] = pc[r],
         todo'[r] = todo[r], ran'[r] = ran[r]
  PROVE  TruthOK(r)'
BY DEF TruthOK, LastRecord, ResultsOnRecord

LEMMA TruthOthers ==
  ASSUME TruthInv, NEW a \in Actor, a \in Request => TruthOK(a)',
         \A b \in Actor : b # a =>
           /\ trail'[b] = trail[b] /\ pc'[b] = pc[b]
           /\ todo'[b] = todo[b] /\ ran'[b] = ran[b]
  PROVE  TruthInv'
BY TruthKept DEF TruthInv, Actor

\* What a record adds to what the replay tells of a trail.
LEMMA AppendTells ==
  ASSUME NEW tr \in Seq(AuditRecord), NEW rec \in AuditRecord,
         NEW new, new = Append(tr, rec)
  PROVE  /\ \A call \in Call : Proposed(tr, call) => Proposed(new, call)
         /\ rec.kind = "tool_call" => Proposed(new, rec.call)
         /\ ~(rec.kind = "policy_decision" /\ rec.note = "ask_user") =>
              AskedFor(new) = AskedFor(tr)
         /\ AskedFor(new) \subseteq AskedFor(tr) \cup {Len(tr) + 1}
         /\ rec.kind # "confirmation_request" =>
              Places(new, "confirmation_request") =
                Places(tr, "confirmation_request")
<1>1. /\ Len(tr) \in Nat
      /\ DOMAIN tr = 1..Len(tr)
      /\ DOMAIN new = 1..(Len(tr) + 1)
      /\ \A i \in 1..Len(tr) : new[i] = tr[i]
      /\ new[Len(tr) + 1] = rec
  BY AppendFacts
<1>2. \A i : i \in DOMAIN new <=> i \in DOMAIN tr \/ i = Len(tr) + 1
  BY <1>1
<1>3. ASSUME NEW kind
      PROVE  Places(new, kind) =
               Places(tr, kind) \cup
                 (IF rec.kind = kind THEN {Len(tr) + 1} ELSE {})
  BY <1>1, <1>2, <1>3 DEF Places
<1>4. \A i \in DOMAIN tr : new[i] = tr[i]
  BY <1>1
<1>5. ASSUME NEW call, Proposed(tr, call) PROVE Proposed(new, call)
  <2>1. PICK i \in Places(tr, "tool_call") : tr[i].call = call
    BY <1>5 DEF Proposed
  <2>2. i \in Places(new, "tool_call") /\ new[i].call = call
    BY <1>3, <1>4, <2>1 DEF Places
  <2>3. QED
    BY <2>2 DEF Proposed
<1>6. rec.kind = "tool_call" => Proposed(new, rec.call)
  BY <1>1, <1>3 DEF Proposed
<1>7. ASSUME NEW i
      PROVE  i \in AskedFor(new) <=>
               \/ i \in AskedFor(tr)
               \/ /\ i = Len(tr) + 1 /\ rec.kind = "policy_decision"
                  /\ rec.note = "ask_user"
  BY <1>1, <1>2, <1>4 DEF AskedFor, Places
<1>8. QED
  BY <1>3, <1>5, <1>6, <1>7

LEMMA TrailTells ==
  ASSUME TypeOK, NEW r \in Request, NEW rec \in AuditRecord, Appends(r, rec)
  PROVE  /\ \A call \in Call :
              Proposed(trail[r], call) => Proposed(trail'[r], call)
         /\ rec.kind = "tool_call" => Proposed(trail'[r], rec.call)
         /\ ~(rec.kind = "policy_decision" /\ rec.note = "ask_user") =>
              AskedFor(trail'[r]) = AskedFor(trail[r])
         /\ AskedFor(trail'[r]) \subseteq
              AskedFor(trail[r]) \cup {Len(trail[r]) + 1}
         /\ rec.kind # "confirmation_request" =>
              Places(trail'[r], "confirmation_request") =
                Places(trail[r], "confirmation_request")
<1>1. PICK tr \in Seq(AuditRecord) : tr = trail[r]
  BY DEF TypeOK, DataOK, Actor
<1>2. PICK new : new = trail'[r]
  OBVIOUS
<1>3. new = Append(tr, rec)
  BY <1>1, <1>2, AppendsToTrail DEF Actor
<1>4. QED
  BY <1>1, <1>2, <1>3, AppendTells, Zenon

\* What ran stays proposed.
LEMMA RanStaysProposed ==
  ASSUME TypeOK, TruthInv, NEW r \in Request, NEW rec \in AuditRecord,
         Appends(r, rec)
  PROVE  \A k \in DOMAIN ran[r] : Proposed(trail'[r], ran[r][k])
<1>1. \A k \in DOMAIN ran[r] :
        ran[r][k] \in Call /\ Proposed(trail[r], ran[r][k])
  BY DEF TruthInv, TruthOK, TypeOK, DataOK, Actor
<1>2. \A call \in Call : Proposed(trail[r], call) => Proposed(trail'[r], call)
  BY TrailTells
<1>3. QED
  BY <1>1, <1>2

-----------------------------------------------------------------------------
(* The actions, and what the replay tells of them *)

\* A step that appends nothing and runs nothing.
LEMMA TruthMoves ==
  ASSUME TruthInv, NEW r \in Request, UNCHANGED <<trail, todo, ran>>,
         \A b \in Actor : b # r => pc'[b] = pc[b],
         \/ pc[r] \in Unasked /\ pc'[r] \in Unasked \ InHand
         \/ pc[r] \in {"execute", "running", "blocked"} /\ pc'[r] \in {"running", "blocked", "result"}
         \/ pc[r] = "persist_pending" /\ pc'[r] = "pending"
         \/ pc'[r] \in Ended \ {"ok", "pending"}
  PROVE  TruthInv'
<1>1. TruthOK(r)
  BY DEF TruthInv
<1>2. TruthOK(r)'
  BY <1>1 DEF TruthOK, LastRecord, ResultsOnRecord, Unasked, InHand, Ended
<1>3. QED
  BY <1>2, TruthOthers DEF Actor

\* A record of a request that asks for nothing.
LEMMA TruthGoesOn ==
  ASSUME TypeOK, TruthInv, NEW r \in Request, pc[r] \in Unasked,
         NEW rec \in AuditRecord, Appends(r, rec), ran' = ran,
         rec.kind # "confirmation_request",
         ~(rec.kind = "policy_decision" /\ rec.note = "ask_user"),
         pc'[r] \in Unasked,
         pc'[r] \in InHand => Proposed(trail'[r], Head(todo'[r])),
         \A b \in Actor : b # r => pc'[b] = pc[b] /\ todo'[b] = todo[b]
  PROVE  TruthInv'
<1>1. /\ r \in Actor /\ trail[r] \in Seq(AuditRecord)
      /\ trail'[r] = Append(trail[r], rec)
      /\ \A b \in Actor : b # r => trail'[b] = trail[b]
  BY AppendsToTrail DEF Actor
<1>2. TruthOK(r)
  BY DEF TruthInv
<1>3. /\ AskedFor(trail'[r]) = {}
      /\ Places(trail'[r], "confirmation_request") = {}
  BY <1>2, TrailTells DEF TruthOK
<1>4. \A k \in DOMAIN ran[r] : Proposed(trail'[r], ran[r][k])
  BY RanStaysProposed
<1>5. TruthOK(r)'
  BY <1>3, <1>4 DEF TruthOK, Unasked
<1>6. QED
  BY <1>1, <1>5, TruthOthers

LEMMA AcceptTruth ==
  ASSUME TypeOK, TruthInv, NEW r \in Request, Accept(r)
  PROVE  TruthInv'
<1>1. PICK rec \in AuditRecord :
        Says(rec, "user_request", NoCall, "") /\ Appends(r, rec)
  BY LogAppends DEF Accept, Actor
<1>2. /\ pc[r] \in Unasked /\ pc'[r] \in Unasked \ InHand
      /\ \A b \in Actor : b # r => pc'[b] = pc[b] /\ todo'[b] = todo[b]
      /\ ran' = ran
  BY DEF Accept, LoopHead, Unasked, InHand, TypeOK, ControlOK, Actor
<1>3. QED
  BY <1>1, <1>2, TruthGoesOn DEF Says

LEMMA ModelReplyTruth ==
  ASSUME TypeOK, TruthInv, NEW r \in Request, NEW reply \in Reply,
         ModelReply(r, reply)
  PROVE  TruthInv'
<1>1. /\ pc[r] \in Unasked /\ pc'[r] \in Unasked \ InHand
      /\ \A b \in Actor : b # r => pc'[b] = pc[b] /\ todo'[b] = todo[b]
      /\ ran' = ran
  BY DEF ModelReply, Unasked, InHand, TypeOK, ControlOK, Actor
<1>2. CASE trail' = trail
  <2>1. TruthOK(r)
    BY DEF TruthInv
  <2>2. TruthOK(r)'
    BY <1>1, <1>2, <2>1
       DEF TruthOK, LastRecord, ResultsOnRecord, Unasked, InHand
  <2>3. QED
    BY <1>1, <1>2, <2>2, TruthOthers DEF Actor
<1>3. CASE Log(r, "assistant_message", NoCall, "")
  <2>1. PICK rec \in AuditRecord :
          Says(rec, "assistant_message", NoCall, "") /\ Appends(r, rec)
    BY <1>3, LogAppends DEF Actor
  <2>2. QED
    BY <1>1, <2>1, TruthGoesOn DEF Says
<1>4. QED
  BY <1>2, <1>3 DEF ModelReply

LEMMA ProposeCallTruth ==
  ASSUME TypeOK, TruthInv, NEW r \in Request, ProposeCall(r)
  PROVE  TruthInv'
<1>1. PICK call \in Call : call = Head(todo[r])
  BY CurrentType DEF ProposeCall, WithCall, TypeOK, Actor
<1>2. PICK rec \in AuditRecord :
        Says(rec, "tool_call", call, "") /\ Appends(r, rec)
  BY <1>1, LogAppends DEF ProposeCall, Actor
<1>3. /\ pc[r] \in Unasked /\ pc'[r] \in Unasked /\ ran' = ran
      /\ \A b \in Actor : b # r => pc'[b] = pc[b]
      /\ todo' = todo
  BY DEF ProposeCall, Unasked, TypeOK, ControlOK, Actor
<1>4. Proposed(trail'[r], call)
  BY <1>2, TrailTells DEF Says
<1>5. QED
  BY <1>1, <1>2, <1>3, <1>4, TruthGoesOn DEF Says

LEMMA OutcomeTruth ==
  ASSUME TypeOK, TruthInv, NEW r \in Request,
         RecordDenial(r) \/ RecordResult(r)
  PROVE  TruthInv'
<1>1. PICK call \in Call : call = Head(todo[r])
  BY CurrentType DEF RecordDenial, RecordResult, WithCall, TypeOK, Actor
<1>2. PICK rec \in AuditRecord : rec.kind = "tool_result" /\ Appends(r, rec)
  <2>1. PICK note \in {"denied", "ran"} : Log(r, "tool_result", call, note)
    BY <1>1 DEF RecordDenial, RecordResult
  <2>2. \E rec \in AuditRecord :
          Says(rec, "tool_result", call, note) /\ Appends(r, rec)
    BY <1>1, <2>1, LogAppends DEF Actor
  <2>3. QED
    BY <2>2 DEF Says
<1>3. /\ pc[r] \in Unasked /\ pc'[r] \in Unasked \ InHand /\ ran' = ran
      /\ \A b \in Actor : b # r => pc'[b] = pc[b] /\ todo'[b] = todo[b]
  BY DEF RecordDenial, RecordResult, NextCall, LoopHead, Unasked, InHand,
         TypeOK, ControlOK, Actor
<1>4. QED
  BY <1>2, <1>3, TruthGoesOn

LEMMA CompleteTruth ==
  ASSUME TypeOK, TruthInv, NEW r \in Request, Complete(r)
  PROVE  TruthInv'
<1>1. PICK rec \in AuditRecord :
        Says(rec, "diagnose_result", NoCall, "") /\ Appends(r, rec)
  BY LogAppends DEF Complete, Actor
<1>2. /\ pc[r] \in Unasked /\ pc'[r] \in Unasked \ InHand
      /\ \A b \in Actor : b # r => pc'[b] = pc[b] /\ todo'[b] = todo[b]
      /\ ran' = ran
  BY DEF Complete, Unasked, InHand, TypeOK, ControlOK, Actor
<1>3. QED
  BY <1>1, <1>2, TruthGoesOn DEF Says

\* A decision to ask comes after every result of the request.
LEMMA DecideCallTruth ==
  ASSUME TypeOK, TruthInv, NEW r \in Request, DecideCall(r)
  PROVE  TruthInv'
<1>1. PICK call \in Call : call = Head(todo[r])
  BY CurrentType DEF DecideCall, WithCall, TypeOK, Actor
<1>2. PICK verdict \in {"allow", "deny", "ask_user"} : verdict = Verdict(call)
  BY VerdictType DEF PolicyVerdict
<1>3. Log(r, "policy_decision", call, verdict)
  BY <1>1, <1>2 DEF DecideCall
<1>4. PICK rec \in AuditRecord :
        Says(rec, "policy_decision", call, verdict) /\ Appends(r, rec)
  BY <1>3, LogAppends DEF Actor
<1>5. /\ r \in Actor /\ trail[r] \in Seq(AuditRecord)
      /\ trail'[r] = Append(trail[r], rec)
      /\ \A b \in Actor : b # r => trail'[b] = trail[b]
      /\ Len(trail[r]) \in Nat
      /\ DOMAIN trail[r] = 1..Len(trail[r])
      /\ DOMAIN trail'[r] = 1..(Len(trail[r]) + 1)
      /\ trail'[r][Len(trail[r]) + 1] = rec
  BY <1>4, AppendsToTrail DEF Actor
<1>6. /\ pc[r] \in Unasked \cap InHand /\ ran' = ran /\ todo' = todo
      /\ \A b \in Actor : b # r => pc'[b] = pc[b]
      /\ pc'[r] = CASE verdict = "deny"     -> "denied"
                    [] verdict = "ask_user" -> "ask"
                    [] verdict = "allow"    -> "execute"
  BY <1>1, <1>2, <1>5 DEF DecideCall, Unasked, InHand, TypeOK, ControlOK
<1>7. TruthOK(r)
  BY DEF TruthInv
<1>8. Proposed(trail'[r], call)
  <2>1. Proposed(trail[r], call)
    BY <1>1, <1>6, <1>7 DEF TruthOK, InHand
  <2>2. QED
    BY <1>4, <2>1, TrailTells
<1>9. CASE verdict # "ask_user"
  <2>1. pc'[r] \in Unasked
    BY <1>2, <1>6, <1>9 DEF Unasked
  <2>2. QED
    BY <1>1, <1>4, <1>6, <1>8, <1>9, <2>1, TruthGoesOn DEF Says
<1>10. CASE verdict = "ask_user"
  <2>1. /\ AskedFor(trail'[r]) \subseteq {Len(trail[r]) + 1}
        /\ Places(trail'[r], "confirmation_request") = {}
    BY <1>4, <1>5, <1>6, <1>7, TrailTells DEF TruthOK, Says
  <2>2. \A j \in ResultsOnRecord(r)' : j < Len(trail[r]) + 1
    BY <1>4, <1>5 DEF ResultsOnRecord, Says
  <2>3. \A k \in DOMAIN ran[r] : Proposed(trail'[r], ran[r][k])
    BY <1>4, RanStaysProposed
  <2>4. pc'[r] = "ask"
    BY <1>6, <1>10
  <2>5. TruthOK(r)'
    BY <1>1, <1>6, <1>8, <2>1, <2>2, <2>3, <2>4 DEF TruthOK, Unasked
  <2>6. QED
    BY <1>5, <1>6, <2>5, TruthOthers
<1>11. QED
  BY <1>9, <1>10

\* The request for confirmation names the call that was proposed.
LEMMA AskUserTruth ==
  ASSUME TypeOK, TruthInv, NEW r \in Request, AskUser(r)
  PROVE  TruthInv'
<1>1. PICK call \in Call : call = Head(todo[r])
  BY CurrentType DEF AskUser, WithCall, TypeOK, Actor
<1>2. PICK rec \in AuditRecord :
        Says(rec, "confirmation_request", call, "") /\ Appends(r, rec)
  BY <1>1, LogAppends DEF AskUser, Actor
<1>3. /\ r \in Actor /\ trail[r] \in Seq(AuditRecord)
      /\ trail'[r] = Append(trail[r], rec)
      /\ \A b \in Actor : b # r => trail'[b] = trail[b]
      /\ Len(trail[r]) \in Nat /\ Len(trail'[r]) = Len(trail[r]) + 1
      /\ DOMAIN trail[r] = 1..Len(trail[r])
      /\ DOMAIN trail'[r] = 1..(Len(trail[r]) + 1)
      /\ \A i \in 1..Len(trail[r]) : trail'[r][i] = trail[r][i]
      /\ trail'[r][Len(trail[r]) + 1] = rec
  BY <1>2, AppendsToTrail DEF Actor
<1>4. /\ pc[r] = "ask" /\ pc'[r] = "persist_pending"
      /\ ran' = ran /\ todo' = todo
      /\ \A b \in Actor : b # r => pc'[b] = pc[b]
  BY <1>3 DEF AskUser, TypeOK, ControlOK
<1>5. TruthOK(r)
  BY DEF TruthInv
<1>6. /\ Proposed(trail'[r], call)
      /\ \A k \in DOMAIN ran[r] : Proposed(trail'[r], ran[r][k])
      /\ AskedFor(trail'[r]) = AskedFor(trail[r])
  BY <1>1, <1>2, <1>4, <1>5, TrailTells, RanStaysProposed
     DEF TruthOK, InHand, Says
<1>7. ASSUME NEW j \in ResultsOnRecord(r)' PROVE j \in ResultsOnRecord(r)
  <2>1. /\ j \in DOMAIN trail'[r] /\ trail'[r][j].kind = "tool_result"
        /\ trail'[r][j].note = "ran"
    BY <1>7 DEF ResultsOnRecord
  <2>2. j # Len(trail[r]) + 1
    BY <1>2, <1>3, <2>1 DEF Says
  <2>3. j \in 1..Len(trail[r])
    BY <1>3, <2>1, <2>2
  <2>4. QED
    BY <1>3, <2>1, <2>3 DEF ResultsOnRecord
<1>8. LastRecord(r)'.call = call
  BY <1>2, <1>3 DEF LastRecord, Says
<1>9. \A i \in AskedFor(trail'[r]) : \A j \in ResultsOnRecord(r)' : j < i
  BY <1>5, <1>6, <1>7 DEF TruthOK
<1>10. TruthOK(r)'
  BY <1>4, <1>6, <1>8, <1>9 DEF TruthOK, Unasked, InHand
<1>11. QED
  BY <1>3, <1>4, <1>10, TruthOthers

\* What runs is the call in hand.
LEMMA StartToolTruth ==
  ASSUME TypeOK, TruthInv, NEW a \in Actor, StartTool(a)
  PROVE  TruthInv'
<1>1. PICK call \in Call : call = Head(todo[a])
  BY CurrentType DEF StartTool, WithCall, TypeOK
<1>2. /\ ran[a] \in Seq(Call) /\ ran'[a] = Append(ran[a], call)
      /\ \A b \in Actor : b # a => pc'[b] = pc[b] /\ ran'[b] = ran[b]
      /\ UNCHANGED <<trail, todo>>
      /\ pc[a] = "execute" /\ pc'[a] \in {"running", "blocked", "result"}
  BY <1>1 DEF StartTool, TypeOK, ControlOK, DataOK
<1>3. ASSUME a \in Request PROVE TruthOK(a)'
  <2>1. TruthOK(a)
    BY <1>3 DEF TruthInv
  <2>2. Proposed(trail[a], call)
    BY <1>1, <1>2, <2>1 DEF TruthOK, InHand
  <2>3. \A k \in DOMAIN ran'[a] : Proposed(trail[a], ran'[a][k])
    BY <1>2, <2>1, <2>2, AppendFacts DEF TruthOK
  <2>4. QED
    BY <1>1, <1>2, <2>1, <2>2, <2>3
       DEF TruthOK, ResultsOnRecord, Unasked, InHand
<1>4. QED
  BY <1>2, <1>3, TruthOthers

LEMMA SilentTruth ==
  ASSUME TypeOK, TruthInv, NEW r \in Request,
         \/ \E s \in Session : Admit(r, s)
         \/ Refuse(r)
         \/ Persist(r) \/ Timeout(r) \/ Abort(r) \/ ToolRefuses(r)
         \/ FinishTool(r)
  PROVE  TruthInv'
<1>1. /\ UNCHANGED <<trail, todo, ran>>
      /\ \A b \in Actor : b # r => pc'[b] = pc[b]
  BY DEF Admit, Refuse, Persist, Timeout, Abort, ToolRefuses, FinishTool,
         TypeOK, ControlOK, Actor
<1>2. \/ pc[r] = "idle" /\ pc'[r] = "accept"
      \/ pc[r] \in {"running", "blocked"} /\ pc'[r] = "result"
      \/ pc[r] = "persist_ok" /\ pc'[r] = "ok"
      \/ pc[r] = "persist_pending" /\ pc'[r] = "pending"
      \/ pc'[r] \in {"busy", "timeout", "error"}
  BY DEF Admit, Refuse, Persist, Timeout, Abort, ToolRefuses, FinishTool,
         TypeOK, ControlOK, Actor
<1>3. \/ pc[r] \in Unasked /\ pc'[r] \in Unasked \ InHand
      \/ pc[r] \in {"execute", "running", "blocked"} /\ pc'[r] \in {"running", "blocked", "result"}
      \/ pc[r] = "persist_pending" /\ pc'[r] = "pending"
      \/ pc'[r] \in Ended \ {"ok", "pending"}
  BY <1>2 DEF Unasked, InHand, Ended
<1>4. QED
  BY <1>1, <1>3, TruthMoves

\* Confirmations keep out of the requests' trails.
LEMMA ConfirmTruth ==
  ASSUME TypeOK, TruthInv, NEW c \in Confirm,
         \/ ConfirmStep(c)
         \/ \E call \in Call, scope \in {"once", "session", "cancel"},
               s \in Session \cup {NoSession} : Respond(c, call, scope, s)
  PROVE  TruthInv'
<1>1. c \in Actor /\ c \notin Request
  BY ActorAssumption DEF Actor
<1>2. \A b \in Actor : b # c =>
        /\ trail'[b] = trail[b] /\ pc'[b] = pc[b]
        /\ todo'[b] = todo[b] /\ ran'[b] = ran[b]
  BY <1>1 DEF ConfirmStep, Respond, Check, StartTool, ToolRefuses, FinishTool,
              ConfirmedResult, AppendOutcome, Abort, Log, TypeOK, ControlOK,
              DataOK
<1>3. QED
  BY <1>1, <1>2, TruthOthers

LEMMA RestartTruth ==
  ASSUME TypeOK, TruthInv, Restart
  PROVE  TruthInv'
<1> SUFFICES ASSUME NEW r \in Request PROVE TruthOK(r)'
  BY DEF TruthInv
<1>1. TruthOK(r) /\ UNCHANGED <<trail, todo, ran>>
  BY DEF TruthInv, Restart
<1>2. pc'[r] = pc[r] \/ pc'[r] = "lost"
  BY DEF Restart, Actor
<1>3. QED
  BY <1>1, <1>2 DEF TruthOK, LastRecord, ResultsOnRecord, Unasked, InHand

LEMMA NextTruth == TypeOK /\ TruthInv /\ [Next]_vars => TruthInv'
<1> SUFFICES ASSUME TypeOK, TruthInv, [Next]_vars PROVE TruthInv'
  OBVIOUS
<1>1. ASSUME NEW r \in Request,
             \/ \E s \in Session : Admit(r, s)
             \/ Refuse(r) \/ FinishTool(r) \/ Timeout(r) \/ Abort(r)
      PROVE  TruthInv'
  BY <1>1, SilentTruth
<1>2. ASSUME NEW r \in Request, RequestStep(r) PROVE TruthInv'
  BY <1>2, AcceptTruth, ProposeCallTruth, DecideCallTruth, OutcomeTruth,
     AskUserTruth, CompleteTruth, StartToolTruth, SilentTruth
     DEF RequestStep, Actor
<1>3. CASE (\E s \in Session : ChatReset(s)) \/ ClearGrants \/ UNCHANGED vars
  <2>1. UNCHANGED <<pc, trail, todo, ran>>
    BY <1>3 DEF ChatReset, ClearGrants, vars
  <2>2. QED
    BY <2>1, TruthKept DEF TruthInv
<1>4. QED
  BY <1>1, <1>2, <1>3, ModelReplyTruth, ConfirmTruth, RestartTruth DEF Next

LEMMA InitTruth == Init => TruthInv
BY DEF Init, TruthInv, TruthOK, AskedFor, Places, ResultsOnRecord, InHand, Actor

\* A tool is looked up in the registry before it runs.
LEMMA NextRegistered ==
  TypeOK /\ OnlyRegisteredRan /\ [Next]_vars => OnlyRegisteredRan'
<1> SUFFICES ASSUME TypeOK, OnlyRegisteredRan, [Next]_vars
             PROVE  OnlyRegisteredRan'
  OBVIOUS
<1>1. ASSUME NEW a \in Actor, StartTool(a) PROVE OnlyRegisteredRan'
  <2>1. PICK call \in Call : call = Head(todo[a])
    BY <1>1, CurrentType DEF StartTool, TypeOK, WithCall
  <2>2. call.tool \in Registered /\ ran' = [ran EXCEPT ![a] = Append(ran[a], call)]
    BY <1>1, <2>1 DEF StartTool, ToolAccepts
  <2>3. ASSUME NEW b \in Actor, NEW i \in DOMAIN ran'[b]
        PROVE  \/ i \in DOMAIN ran[b] /\ ran'[b][i] = ran[b][i]
               \/ ran'[b][i] = call
    BY <2>1, <2>2 DEF TypeOK, DataOK
  <2>4. QED
    BY <2>2, <2>3 DEF OnlyRegisteredRan
<1>2. ASSUME ran' = ran PROVE OnlyRegisteredRan'
  BY <1>2 DEF OnlyRegisteredRan
<1>3. ran' = ran \/ \E a \in Actor : StartTool(a)
  BY DEF Next, RequestStep, ConfirmStep, Actor, vars, Admit, Refuse, Accept,
         ModelReply, ProposeCall, DecideCall, RecordDenial, AskUser,
         ToolRefuses, FinishTool, RecordResult, Complete, Persist, Timeout,
         Abort, Respond, Check, ConfirmedResult, AppendOutcome, ChatReset,
         ClearGrants, Restart
<1>4. QED
  BY <1>1, <1>2, <1>3

-----------------------------------------------------------------------------
(* What the replay tells *)

\* A proposed call that needs a confirmation is told as a step and as a side
\* effect.
LEMMA ProposedIsTold ==
  ASSUME NEW records, NEW call, Proposed(records, call), call.tool \in Registered,
         NeedsConfirmation(call.tool)
  PROVE  /\ call \in Report(records).side_effects
         /\ \E i \in DOMAIN Report(records).steps :
              Report(records).steps[i].side_effect /\ records[i].call = call
<1>1. PICK i \in Places(records, "tool_call") : records[i].call = call
  BY DEF Proposed
<1>2. call.tool \in Dangerous
  BY RegistryAssumption DEF Dangerous
<1>3. call \in WouldInvoke(records)
  BY <1>1, <1>2 DEF WouldInvoke
<1>4. i \in DOMAIN records /\ records[i].kind = "tool_call"
  BY <1>1 DEF Places
<1>5. QED
  BY <1>1, <1>2, <1>3, <1>4 DEF Report

\* What a request's own records propose, the whole chain does.
LEMMA ChainTellsMore ==
  ASSUME NEW tr \in Seq(AuditRecord), NEW more \in Seq(AuditRecord)
  PROVE  /\ \A call : Proposed(tr, call) => Proposed(tr \o more, call)
         /\ \A kind : Places(tr, kind) \subseteq Places(tr \o more, kind)
<1>1. /\ Len(tr) \in Nat /\ Len(more) \in Nat
      /\ DOMAIN tr = 1..Len(tr)
      /\ DOMAIN (tr \o more) = 1..(Len(tr) + Len(more))
      /\ \A i \in 1..Len(tr) : (tr \o more)[i] = tr[i]
  OBVIOUS
<1>2. \A i \in DOMAIN tr : i \in DOMAIN (tr \o more) /\ (tr \o more)[i] = tr[i]
  BY <1>1
<1>3. PICK both : both = tr \o more
  OBVIOUS
<1>4. \A kind : Places(tr, kind) \subseteq Places(both, kind)
  BY <1>2, <1>3 DEF Places
<1>5. ASSUME NEW call, Proposed(tr, call) PROVE Proposed(both, call)
  <2>1. PICK i \in Places(tr, "tool_call") : tr[i].call = call
    BY <1>5 DEF Proposed
  <2>2. i \in Places(both, "tool_call") /\ both[i].call = call
    BY <1>2, <1>3, <1>4, <2>1 DEF Places
  <2>3. QED
    BY <2>2 DEF Proposed
<1>6. QED
  BY <1>3, <1>4, <1>5

\* The diagnosis that ends a trail is its summary.
LEMMA LastIsSummary ==
  ASSUME NEW tr \in Seq(AuditRecord), tr # <<>>,
         tr[Len(tr)].kind = "diagnose_result"
  PROVE  Report(tr).summary = Len(tr)
<1>1. Len(tr) \in Nat /\ Len(tr) >= 1 /\ DOMAIN tr = 1..Len(tr)
  BY EmptySeq
<1>2. Len(tr) \in Places(tr, "diagnose_result")
  BY <1>1 DEF Places
<1>3. \A i \in Places(tr, "diagnose_result") : i \in Nat /\ i <= Len(tr)
  BY <1>1 DEF Places
<1>4. ASSUME NEW i \in Places(tr, "diagnose_result"),
             \A j \in Places(tr, "diagnose_result") : j <= i
      PROVE  i = Len(tr)
  BY <1>1, <1>2, <1>3, <1>4
<1>5. (CHOOSE i \in Places(tr, "diagnose_result") :
         \A j \in Places(tr, "diagnose_result") : j <= i) = Len(tr)
  BY <1>2, <1>3, <1>4
<1>6. Summary(tr) = Len(tr)
  BY <1>2, <1>5 DEF Summary
<1>7. QED
  BY <1>6 DEF Report

\* The dry-run replay names every call that needed a confirmation and ran, and
\* takes nothing for avoided that ran, whatever tools are registered beside
\* the kill and whatever is denied, asked for, confirmed or lost.
THEOREM ReplayTellsTheTruth == Spec => []ReplayTruthful
<1>1. ASSUME TypeOK, TruthInv, OnlyRegisteredRan, NEW r \in Request,
             NEW call \in Risky(ran[r])
      PROVE  Proposed(trail[r], call) /\ call.tool \in Registered
             /\ NeedsConfirmation(call.tool)
  <2>1. PICK k \in DOMAIN ran[r] :
          call = ran[r][k] /\ NeedsConfirmation(ran[r][k].tool)
    BY <1>1 DEF Risky
  <2>2. QED
    BY <1>1, <2>1 DEF TruthInv, TruthOK, OnlyRegisteredRan, Actor
<1>2. ASSUME TypeOK, TruthInv, OnlyRegisteredRan, NEW r \in Request
      PROVE  /\ Risky(ran[r]) \subseteq Report(trail[r]).side_effects
             /\ \A call \in Risky(ran[r]) :
                  \E i \in DOMAIN Report(trail[r]).steps :
                    /\ Report(trail[r]).steps[i].side_effect
                    /\ trail[r][i].call = call
  BY <1>1, <1>2, ProposedIsTold
<1>3. ASSUME TypeOK, TruthInv, NEW r \in Request
      PROVE  \A i \in Report(trail[r]).not_executed :
               \A j \in ResultsOnRecord(r) : j < i
  BY <1>3 DEF Report, TruthInv, TruthOK
<1>4. ASSUME TypeOK, TruthInv, ChainInv, NEW r \in Request, pc[r] = "ok"
      PROVE  ~Report(trail[r]).pending
             /\ Report(trail[r]).summary = Len(trail[r])
  <2>1. /\ trail[r] \in Seq(AuditRecord) /\ trail[r] # <<>>
        /\ trail[r][Len(trail[r])].kind = "diagnose_result"
    BY <1>4 DEF ChainInv, ChainOK, LastRecord, TypeOK, DataOK, Actor
  <2>2. Places(trail[r], "confirmation_request") = {}
    BY <1>4 DEF TruthInv, TruthOK, Unasked
  <2>3. QED
    BY <2>1, <2>2, LastIsSummary DEF Report
<1>5. ASSUME TypeOK, ChainInv, NEW r \in Request, pc[r] = "pending"
      PROVE  Places(trail[r], "confirmation_request") # {}
  <2>1. /\ trail[r] \in Seq(AuditRecord) /\ trail[r] # <<>>
        /\ trail[r][Len(trail[r])].kind = "confirmation_request"
    BY <1>5 DEF ChainInv, ChainOK, PendingTrail, TypeOK, DataOK, Actor
  <2>2. Len(trail[r]) \in DOMAIN trail[r]
    BY <2>1, EmptySeq
  <2>3. QED
    BY <2>1, <2>2 DEF Places
<1>6. ASSUME TypeOK, TruthInv, OnlyRegisteredRan, ChainInv, AuthorityInv,
             NEW r \in Request, NEW c \in AnswersTo(r)
      PROVE  /\ Report(trail[r] \o trail[c]).pending
             /\ Risky(ran[c]) \subseteq Report(trail[r] \o trail[c]).side_effects
  <2>1. /\ c \in Confirm /\ c \in Actor /\ pc[r] = "pending"
        /\ trail[c][1].call = LastRecord(r).call
    BY <1>6 DEF AnswersTo, PendingCall, Actor
  <2>2. trail[r] \in Seq(AuditRecord) /\ trail[c] \in Seq(AuditRecord)
    BY <1>6, <2>1 DEF TypeOK, DataOK, Actor
  <2>3. PICK both : both = trail[r] \o trail[c]
    OBVIOUS
  <2>4. Places(both, "confirmation_request") # {}
    BY <1>5, <1>6, <2>1, <2>2, <2>3, ChainTellsMore
  <2>5. Proposed(both, trail[c][1].call)
    BY <1>6, <2>1, <2>2, <2>3, ChainTellsMore DEF TruthInv, TruthOK
  <2>6. ASSUME NEW call \in Risky(ran[c])
        PROVE  call \in Report(both).side_effects
    <3>1. PICK k \in DOMAIN ran[c] :
            call = ran[c][k] /\ NeedsConfirmation(ran[c][k].tool)
      BY <2>6 DEF Risky
    <3>2. trail[c][1].call = call /\ call.tool \in Registered
      BY <1>6, <2>1, <3>1, ActorAssumption
         DEF AuthorityInv, HasRun, Cleared, Authorised, OnlyRegisteredRan
    <3>3. QED
      BY <2>5, <3>1, <3>2, ProposedIsTold
  <2>7. Report(both).pending
    BY <2>4 DEF Report
  <2>8. QED
    BY <2>3, <2>6, <2>7
<1>7. TypeOK /\ TruthInv /\ OnlyRegisteredRan /\ ChainInv /\ AuthorityInv
        => ReplayTruthful
  <2> SUFFICES ASSUME TypeOK, TruthInv, OnlyRegisteredRan, ChainInv,
                      AuthorityInv
               PROVE  ReplayTruthful
    OBVIOUS
  <2>1. ASSUME NEW r \in Request, pc[r] \in {"ok", "pending"}
        PROVE  /\ Report(trail[r]).pending = (pc[r] = "pending")
               /\ pc[r] = "ok" => Report(trail[r]).summary = Len(trail[r])
    BY <1>4, <1>5, <2>1 DEF Report
  <2>2. QED
    BY <1>2, <1>3, <1>6, <2>1 DEF ReplayTruthful
<1>8. Init => OnlyRegisteredRan
  BY DEF Init, OnlyRegisteredRan
<1>9. QED
  BY <1>7, <1>8, TypeCorrect, AuthorityKept, InitTruth, NextTruth,
     NextRegistered, InitChain, NextChain, PTL DEF Spec
=============================================================================
