-------------------------- MODULE AutomationProofs --------------------------
(***************************************************************************)
(* The safety of the automation loop, for every set of rules, bus and ring *)
(* capacity and number of slots.  The invariant has a part for the engine  *)
(* (a rule that is due is out of its cooldown, and has not fired later     *)
(* than lastFired says) and one for the worker (the event it deals with is *)
(* the last it read, and has no outcome yet), over the shape of the log.   *)
(***************************************************************************)
EXTENDS AutomationProperties, TLAPS

Busy == {"starting", "running", "completed", "failed"}

EnvelopeType == [event : Name, rule : Nat, cause : Nat, at : Nat]

\* The shape of what the other parts speak of.
ShapeInv ==
  /\ log \in Seq(EnvelopeType)
  /\ next \in [Receiver -> Nat \ {0}]
  /\ \A w \in Receiver : next[w] <= Len(log) + 1
  /\ missed \subseteq Nat
  /\ now \in Nat \ {0}
  /\ lastFired \in [DOMAIN Rules -> Nat]
  /\ due \subseteq DOMAIN Rules
  /\ item \in Nat

\* What is due may fire on the envelope read last.
DueInv ==
  \A k \in due :
    /\ next["engine"] > 1
    /\ log[next["engine"] - 1].event \in Rules[k].trigger
    /\ ~IsAutomation(log[next["engine"] - 1])
    /\ ~InCooldown(k)

\* What the log tells of a fire is what the engine did.
FiredInv ==
  \A i \in Fires :
    LET k == log[i].rule
    IN  /\ k \in DOMAIN Rules
        /\ log[i].event = Rules[k].action
        /\ log[i].at > 0 /\ log[i].at <= lastFired[k]
        /\ log[i].cause \in 1..(i - 1)
        /\ log[log[i].cause].event \in Rules[k].trigger
        /\ ~IsAutomation(log[log[i].cause])

EngineInv == DueInv /\ FiredInv /\ CooldownKept

\* The worker deals with the last event it read.
ItemInv ==
  worker \in Busy =>
    /\ item = next["worker"] - 1
    /\ item \in DOMAIN log
    /\ log[item].event = "AutomationAutoDiagnose"
    /\ item \notin missed
    /\ Outcomes(item) = {}

\* What the worker has answered or lost lies behind it.
BehindInv ==
  /\ \A m \in missed : m < next["worker"]
  /\ \A j \in Published(OutcomeEvent) :
       /\ log[j].cause \in DOMAIN log
       /\ log[j].cause < next["worker"]
       /\ log[log[j].cause].event = "AutomationAutoDiagnose"

WorkerInv == ItemInv /\ BehindInv /\ NoSecondOutcome

AutomationInv == ShapeInv /\ EngineInv /\ WorkerInv

-----------------------------------------------------------------------------
(* Lemmas *)

\* Publishing an envelope leaves what was published before as it was.
LEMMA PublishAppends ==
  ASSUME ShapeInv, NEW env \in EnvelopeType, Publish(env)
  PROVE  /\ log' \in Seq(EnvelopeType)
         /\ Len(log') = Len(log) + 1
         /\ DOMAIN log = 1..Len(log)
         /\ DOMAIN log' = DOMAIN log \cup {Len(log) + 1}
         /\ \A i \in DOMAIN log : log'[i] = log[i]
         /\ log'[Len(log) + 1] = env
  BY DEF ShapeInv, Publish

LEMMA PublishedAfter ==
  ASSUME ShapeInv, NEW env \in EnvelopeType, Publish(env), NEW E
  PROVE  /\ env.event \in E => Published(E)' = Published(E) \cup {Len(log) + 1}
         /\ env.event \notin E => Published(E)' = Published(E)
  BY PublishAppends DEF Published

LEMMA FiresAfter ==
  ASSUME ShapeInv, NEW env \in EnvelopeType, Publish(env)
  PROVE  /\ env.rule # 0 => Fires' = Fires \cup {Len(log) + 1}
         /\ env.rule = 0 => Fires' = Fires
  BY PublishAppends DEF Fires

\* An element of a sequence, and its index.
LEMMA ElementOf ==
  ASSUME NEW S, NEW s \in Seq(S), NEW i \in DOMAIN s
  PROVE  i \in Nat \ {0} /\ s[i] \in S
  OBVIOUS

\* The worker's outcomes are no rule's and no sample's; a rule waits for
\* events, and emits one.
LEMMA EventsApart ==
  /\ RuleEvent \cap OutcomeEvent = {}
  /\ (Foreign \cup Emitted) \cap (RuleEvent \cup OutcomeEvent) = {}
  /\ "AutomationAutoDiagnose" \in RuleEvent
  /\ \A k \in DOMAIN Rules :
       /\ k \in Nat \ {0}
       /\ Rules[k].action \in Name /\ Rules[k].action \notin OutcomeEvent
       /\ Rules[k].trigger \subseteq Name
       /\ Rules[k].cooldown \in Nat
<1>1. \A k \in DOMAIN Rules :
        /\ k \in Nat \ {0}
        /\ Rules[k] \in [trigger : SUBSET Name, action : RuleEvent \cup Emitted,
                         cooldown : Nat]
  BY RulesAssumption, ElementOf, Zenon DEF Name
<1>2. RuleEvent \cap OutcomeEvent = {}
  BY DEF RuleEvent, OutcomeEvent
<1>3. (Foreign \cup Emitted) \cap (RuleEvent \cup OutcomeEvent) = {}
  BY RulesAssumption, Zenon
<1>4. "AutomationAutoDiagnose" \in RuleEvent
  BY DEF RuleEvent
<1>5. \A e \in RuleEvent \cup Emitted : e \in Name /\ e \notin OutcomeEvent
  BY <1>2, <1>3 DEF Name
<1> QED
  BY <1>1, <1>2, <1>3, <1>4, <1>5

LEMMA InitAutomation == Init => AutomationInv
  BY RulesAssumption
  DEF Init, AutomationInv, ShapeInv, EngineInv, DueInv, FiredInv, CooldownKept,
      Fires, WorkerInv, ItemInv, BehindInv, NoSecondOutcome, Outcomes,
      Published, Busy, Receiver, Never

\* A step keeps the shape of the state.
LEMMA ShapeStep == ShapeInv /\ DueInv /\ [Next]_vars => ShapeInv'
<1> SUFFICES ASSUME ShapeInv, DueInv, [Next]_vars PROVE ShapeInv'
  OBVIOUS
<1> USE DEF ShapeInv
<1>1. ASSUME NEW event \in Foreign, ForeignPublish(event) PROVE ShapeInv'
  <2> DEFINE env == Envelope(event, 0, 0, 0)
  <2>1. env \in EnvelopeType
    BY DEF Envelope, EnvelopeType, Name
  <2>2. Publish(env)
    BY <1>1 DEF ForeignPublish
  <2> QED
    BY <1>1, <2>1, <2>2, PublishAppends DEF ForeignPublish
<1>2. ASSUME NEW w \in Receiver, LoseEnvelopes(w) PROVE ShapeInv'
  <2>1. Oldest(log) \in Nat \ {0} /\ Oldest(log) <= Len(log) + 1
    BY BusAssumption DEF Oldest
  <2>2. next' \in [Receiver -> Nat \ {0}]
        /\ \A v \in Receiver : next'[v] <= Len(log) + 1
    BY <1>2, <2>1 DEF LoseEnvelopes
  <2>3. next[w]..(Oldest(log) - 1) \subseteq Nat
    BY <2>1
  <2>4. missed' \subseteq Nat
    BY <1>2, <2>3 DEF LoseEnvelopes
  <2> QED
    BY <1>2, <2>2, <2>4 DEF LoseEnvelopes
<1>3. ASSUME NEW w \in Receiver, Readable(log, next[w]), Read(w)
      PROVE  /\ next' \in [Receiver -> Nat \ {0}]
             /\ \A v \in Receiver : next'[v] <= Len(log) + 1
  BY <1>3 DEF Readable, Read, Oldest
<1>4. CASE EngineReceive
  <2>1. due' \subseteq DOMAIN Rules
    BY <1>4 DEF EngineReceive, Due
  <2> QED
    BY <1>3, <1>4, <2>1 DEF EngineReceive, Receiver
<1>5. ASSUME NEW k \in DOMAIN Rules, EngineApply(k) PROVE ShapeInv'
  <2>1. Fire(k) \in EnvelopeType
    BY <1>5, EventsApart
    DEF EngineApply, DueInv, Fire, Envelope, EnvelopeType, Receiver
  <2>2. CASE Publish(Fire(k))
    BY <1>5, <2>1, <2>2, PublishAppends DEF EngineApply
  <2>3. CASE UNCHANGED log
    BY <1>5, <2>3 DEF EngineApply
  <2> QED
    BY <1>5, <2>2, <2>3 DEF EngineApply
<1>6. CASE FeedReceive
  BY <1>3, <1>6 DEF FeedReceive, Receiver
<1>7. CASE WorkerReceive
  BY <1>3, <1>7 DEF WorkerReceive, Receiver
<1>8. CASE WorkerReport
  <2>1. Outcome \in EnvelopeType
    BY DEF Outcome, Envelope, EnvelopeType, Name, OutcomeEvent
  <2> QED
    BY <1>8, <2>1, PublishAppends DEF WorkerReport
<1>9. ASSUME UNCHANGED <<log, next, missed, lastFired, due, item>>,
             now' \in {now, now + 1}
      PROVE  ShapeInv'
  BY <1>9
<1>10. CASE WorkerBegin \/ WorkerPush
  BY <1>9, <1>10 DEF WorkerBegin, WorkerPush
<1>11. ASSUME NEW how \in {"completed", "failed"}, DiagnoseEnd(how)
       PROVE  ShapeInv'
  BY <1>9, <1>11 DEF DiagnoseEnd
<1>12. CASE UserBegin \/ UserEnd \/ Tick \/ UNCHANGED vars
  BY <1>9, <1>12 DEF UserBegin, UserEnd, Tick, vars
<1> QED
  BY <1>1, <1>2, <1>4, <1>5, <1>6, <1>7, <1>8, <1>10, <1>11, <1>12 DEF Next

-----------------------------------------------------------------------------
(* The engine *)

\* An envelope that is no fire does not disturb the engine.
LEMMA EnginePublish ==
  ASSUME ShapeInv, EngineInv, NEW env \in EnvelopeType, Publish(env),
         env.rule = 0,
         UNCHANGED <<next, now, lastFired, due>>
  PROVE  EngineInv'
<1>1. Fires' = Fires
  BY FiresAfter
<1>2. /\ DOMAIN log = 1..Len(log)
      /\ \A i \in DOMAIN log : log'[i] = log[i]
  BY PublishAppends
<1>3. DueInv'
  BY <1>2 DEF EngineInv, DueInv, ShapeInv, InCooldown, IsAutomation, Receiver
<1>4. FiredInv'
  BY <1>1, <1>2 DEF EngineInv, FiredInv, Fires, IsAutomation
<1>5. CooldownKept'
  BY <1>1, <1>2 DEF EngineInv, CooldownKept, Fires
<1> QED
  BY <1>3, <1>4, <1>5 DEF EngineInv

\* The rest of the engine's invariant is about the log, and does not change
\* with it.
LEMMA EngineLogKept ==
  ASSUME EngineInv, UNCHANGED <<log, lastFired>>, DueInv'
  PROVE  EngineInv'
  BY DEF EngineInv, FiredInv, CooldownKept, Fires, IsAutomation

\* A rule fires: it was out of its cooldown, so every earlier fire of it is
\* that far back.
LEMMA EngineFires ==
  ASSUME ShapeInv, EngineInv, NEW k \in DOMAIN Rules, EngineApply(k)
  PROVE  EngineInv'
<1> USE DEF EngineInv
<1>1. /\ k \in Nat \ {0}
      /\ Rules[k].action \in Name
      /\ Rules[k].cooldown \in Nat
      /\ now \in Nat \ {0}
      /\ lastFired \in [DOMAIN Rules -> Nat]
      /\ next["engine"] - 1 \in DOMAIN log
  <2>1. next["engine"] \in Nat \ {0} /\ next["engine"] <= Len(log) + 1
    BY DEF ShapeInv, Receiver
  <2>2. next["engine"] > 1
    BY DEF EngineApply, DueInv
  <2>3. DOMAIN log = 1..Len(log) /\ Len(log) \in Nat
    BY DEF ShapeInv
  <2> QED
    BY <2>1, <2>2, <2>3, EventsApart DEF ShapeInv
<1>2. /\ lastFired[k] # Never => now >= lastFired[k] + Rules[k].cooldown
      /\ log[next["engine"] - 1].event \in Rules[k].trigger
      /\ ~IsAutomation(log[next["engine"] - 1])
  BY <1>1 DEF EngineApply, DueInv, InCooldown
<1>3. \A j \in DOMAIN Rules :
        lastFired'[j] = IF j = k THEN now ELSE lastFired[j]
  BY <1>1 DEF EngineApply
<1>4. \A j \in DOMAIN Rules : lastFired'[j] >= lastFired[j]
  BY <1>1, <1>2, <1>3 DEF Never
<1>5. CASE UNCHANGED log
  <2>1. FiredInv'
    <3> SUFFICES ASSUME NEW i \in Fires
                 PROVE  log[i].at <= lastFired'[log[i].rule]
      BY <1>5 DEF FiredInv, Fires, IsAutomation
    <3>1. log[i].at \in Nat
      <4>1. i \in DOMAIN log /\ log[i] \in EnvelopeType
        BY DEF Fires, ShapeInv
      <4> QED
        BY <4>1 DEF EnvelopeType
    <3>2. log[i].rule \in DOMAIN Rules /\ log[i].at <= lastFired[log[i].rule]
      BY DEF FiredInv
    <3>3. lastFired'[log[i].rule] \in Nat /\ lastFired[log[i].rule] \in Nat
      BY <1>1, <1>3, <3>2
    <3> QED
      BY <1>4, <3>1, <3>2, <3>3
  <2>2. DueInv'
    BY <1>1, <1>3, <1>5 DEF DueInv, EngineApply, InCooldown, IsAutomation, ShapeInv
  <2> QED
    BY <1>5, <2>1, <2>2 DEF CooldownKept, Fires
<1>6. CASE Publish(Fire(k))
  <2> DEFINE n == Len(log) + 1
  <2>1. /\ Fire(k) \in EnvelopeType
        /\ Fire(k).event = Rules[k].action
        /\ Fire(k).rule = k
        /\ Fire(k).cause = next["engine"] - 1
        /\ Fire(k).at = now
    <3>1. next["engine"] - 1 \in Nat
      BY <1>1 DEF ShapeInv
    <3> QED
      BY <1>1, <3>1 DEF Fire, Envelope, EnvelopeType
  <2>2. /\ DOMAIN log = 1..Len(log)
        /\ \A i \in DOMAIN log : log'[i] = log[i]
        /\ log'[n] = Fire(k)
        /\ Len(log) \in Nat
    BY <1>6, <2>1, PublishAppends DEF ShapeInv
  <2>3. Fires' = Fires \cup {n}
    BY <1>1, <1>6, <2>1, FiresAfter
  <2>4. \A i \in Fires :
          /\ i \in DOMAIN log /\ log'[i] = log[i] /\ i < n
          /\ log[i].at \in Nat \ {0}
          /\ log[i].rule \in DOMAIN Rules
          /\ log[i].at <= lastFired[log[i].rule]
    <3>1. \A i \in Fires :
            i \in DOMAIN log /\ log[i] \in EnvelopeType
      BY DEF Fires, ShapeInv
    <3> QED
      BY <2>2, <3>1 DEF FiredInv, EnvelopeType
  <2>5. FiredInv'
    <3> SUFFICES ASSUME NEW i \in Fires \cup {n}
                 PROVE  /\ log'[i].rule \in DOMAIN Rules
                        /\ log'[i].event = Rules[log'[i].rule].action
                        /\ log'[i].at > 0
                        /\ log'[i].at <= lastFired'[log'[i].rule]
                        /\ log'[i].cause \in 1..(i - 1)
                        /\ log'[log'[i].cause].event
                             \in Rules[log'[i].rule].trigger
                        /\ ~IsAutomation(log'[log'[i].cause])
      BY <2>3 DEF FiredInv, IsAutomation
    <3>1. CASE i = n
      BY <1>1, <1>2, <1>3, <2>1, <2>2, <3>1
    <3>2. CASE i \in Fires
      <4>1. log'[i].at <= lastFired'[log'[i].rule]
        BY <1>1, <1>3, <1>4, <2>4, <3>2
      <4>2. log[i].cause \in 1..(i - 1) /\ log[i].cause \in DOMAIN log
        BY <2>2, <2>4, <3>2 DEF FiredInv
      <4> QED
        BY <2>2, <2>4, <3>2, <4>1, <4>2 DEF FiredInv
    <3> QED
      BY <3>1, <3>2
  <2>6. CooldownKept'
    <3> SUFFICES ASSUME NEW i \in Fires \cup {n},
                        NEW j \in Fires \cup {n},
                        i < j, log'[i].rule = log'[j].rule
                 PROVE  log'[j].at >= log'[i].at + Rules[log'[i].rule].cooldown
      BY <2>3 DEF CooldownKept
    <3>1. i \in Fires
      BY <2>2, <2>4
    <3>2. CASE j \in Fires
      BY <2>4, <3>1, <3>2 DEF CooldownKept
    <3>3. CASE j = n
      <4>1. log'[i] = log[i] /\ log[i].rule = k /\ log'[j].at = now
        BY <2>1, <2>2, <2>4, <3>1, <3>3
      <4>2. log[i].at \in Nat \ {0} /\ log[i].at <= lastFired[k]
        BY <2>4, <3>1, <4>1
      <4>3. lastFired[k] \in Nat /\ lastFired[k] # Never
        BY <1>1, <4>2 DEF Never
      <4>4. now >= lastFired[k] + Rules[k].cooldown
        BY <1>2, <4>3
      <4> QED
        BY <1>1, <4>1, <4>2, <4>3, <4>4
    <3> QED
      BY <3>2, <3>3
  <2>7. DueInv'
    <3>1. \A j \in due' : j \in due /\ j # k
      BY DEF EngineApply
    <3> QED
      BY <1>1, <1>3, <2>2, <3>1 DEF DueInv, EngineApply, InCooldown, IsAutomation, ShapeInv
  <2> QED
    BY <2>5, <2>6, <2>7
<1> QED
  BY <1>5, <1>6 DEF EngineApply

LEMMA EngineStep == ShapeInv /\ EngineInv /\ [Next]_vars => EngineInv'
<1> SUFFICES ASSUME ShapeInv, EngineInv, [Next]_vars PROVE EngineInv'
  OBVIOUS
<1>1. ASSUME NEW event \in Foreign, ForeignPublish(event) PROVE EngineInv'
  <2>1. /\ Envelope(event, 0, 0, 0) \in EnvelopeType
        /\ Envelope(event, 0, 0, 0).rule = 0
    BY DEF Envelope, EnvelopeType, Name
  <2> QED
    BY <1>1, <2>1, EnginePublish DEF ForeignPublish
<1>2. CASE WorkerReport
  <2>1. Outcome \in EnvelopeType /\ Outcome.rule = 0
    BY DEF Outcome, Envelope, EnvelopeType, Name, OutcomeEvent, ShapeInv
  <2> QED
    BY <1>2, <2>1, EnginePublish DEF WorkerReport
<1>3. ASSUME NEW k \in DOMAIN Rules, EngineApply(k) PROVE EngineInv'
  BY <1>3, EngineFires
<1>4. ASSUME NEW w \in Receiver, LoseEnvelopes(w) PROVE EngineInv'
  <2>1. DueInv'
    BY <1>4
    DEF LoseEnvelopes, EngineInv, DueInv, InCooldown, IsAutomation, ShapeInv, Receiver
  <2> QED
    BY <1>4, <2>1, EngineLogKept DEF LoseEnvelopes
<1>5. CASE EngineReceive
  <2>1. next["engine"] \in Nat \ {0} /\ next'["engine"] = next["engine"] + 1
    BY <1>5 DEF EngineReceive, Read, ShapeInv, Receiver
  <2>2. \A k \in due' : k \in Due(next["engine"]) /\ ~IsAutomation(log[next["engine"]])
    BY <1>5 DEF EngineReceive
  <2>3. DueInv'
    BY <1>5, <2>1, <2>2 DEF EngineReceive, DueInv, Due, InCooldown, IsAutomation
  <2> QED
    BY <1>5, <2>3, EngineLogKept DEF EngineReceive
<1>6. ASSUME UNCHANGED <<log, lastFired, due, next>>,
             now' \in {now, now + 1}
      PROVE  EngineInv'
  <2>1. \A k \in due : InCooldown(k)' => InCooldown(k)
    <3> SUFFICES ASSUME NEW k \in due, ~InCooldown(k) PROVE ~InCooldown(k)'
      OBVIOUS
    <3>1. /\ k \in DOMAIN Rules /\ lastFired[k] \in Nat
          /\ Rules[k].cooldown \in Nat /\ now \in Nat
      BY EventsApart DEF ShapeInv
    <3> QED
      BY <1>6, <3>1 DEF InCooldown
  <2>2. DueInv'
    BY <1>6, <2>1 DEF EngineInv, DueInv, IsAutomation
  <2> QED
    BY <1>6, <2>2, EngineLogKept
<1>7. CASE FeedReceive \/ WorkerReceive
  <2>1. UNCHANGED <<log, lastFired, due, now>>
        /\ next'["engine"] = next["engine"]
    BY <1>7 DEF FeedReceive, WorkerReceive, Read, ShapeInv, Receiver
  <2>2. DueInv'
    BY <2>1 DEF EngineInv, DueInv, InCooldown, IsAutomation
  <2> QED
    BY <2>1, <2>2, EngineLogKept
<1>8. CASE WorkerBegin \/ WorkerPush
  BY <1>6, <1>8 DEF WorkerBegin, WorkerPush
<1>9. ASSUME NEW how \in {"completed", "failed"}, DiagnoseEnd(how)
      PROVE  EngineInv'
  BY <1>6, <1>9 DEF DiagnoseEnd
<1>10. CASE UserBegin \/ UserEnd \/ Tick \/ UNCHANGED vars
  BY <1>6, <1>10 DEF UserBegin, UserEnd, Tick, vars
<1> QED
  BY <1>1, <1>2, <1>3, <1>4, <1>5, <1>7, <1>8, <1>9, <1>10 DEF Next

-----------------------------------------------------------------------------
(* The worker *)

\* An envelope that is no outcome does not disturb the worker.
LEMMA WorkerPublish ==
  ASSUME ShapeInv, WorkerInv, NEW env \in EnvelopeType, Publish(env),
         env.event \notin OutcomeEvent,
         UNCHANGED <<next, missed, worker, item>>
  PROVE  WorkerInv'
<1>1. Published(OutcomeEvent)' = Published(OutcomeEvent)
  BY PublishedAfter
<1>2. /\ DOMAIN log \subseteq DOMAIN log'
      /\ \A i \in DOMAIN log : log'[i] = log[i]
  BY PublishAppends
<1>3. \A i \in Published(OutcomeEvent) : i \in DOMAIN log
  BY DEF Published
<1>4. \A i : Outcomes(i)' = Outcomes(i)
  BY <1>1, <1>2, <1>3 DEF Outcomes
<1>5. ItemInv'
  BY <1>2, <1>4 DEF WorkerInv, ItemInv
<1>6. BehindInv'
  BY <1>1, <1>2, <1>3 DEF WorkerInv, BehindInv
<1>7. NoSecondOutcome'
  BY <1>1, <1>2, <1>3 DEF WorkerInv, NoSecondOutcome
<1> QED
  BY <1>5, <1>6, <1>7 DEF WorkerInv

\* The outcome is the first for the worker's event.
LEMMA WorkerReports ==
  ASSUME ShapeInv, WorkerInv, WorkerReport
  PROVE  WorkerInv'
<1> DEFINE n == Len(log) + 1
<1>1. /\ Outcome \in EnvelopeType
      /\ Outcome.event \in OutcomeEvent
      /\ Outcome.cause = item
  BY DEF Outcome, Envelope, EnvelopeType, Name, OutcomeEvent, ShapeInv
<1>2. /\ DOMAIN log = 1..Len(log) /\ DOMAIN log \subseteq DOMAIN log'
      /\ \A i \in DOMAIN log : log'[i] = log[i]
      /\ log'[n] = Outcome
      /\ Len(log) \in Nat
  BY <1>1, PublishAppends DEF WorkerReport, ShapeInv
<1>3. Published(OutcomeEvent)' = Published(OutcomeEvent) \cup {n}
  BY <1>1, PublishedAfter DEF WorkerReport
<1>4. \A i \in Published(OutcomeEvent) :
        i \in DOMAIN log /\ log'[i] = log[i] /\ i # n
  BY <1>2 DEF Published
<1>5. /\ item = next["worker"] - 1
      /\ item \in DOMAIN log
      /\ log[item].event = "AutomationAutoDiagnose"
      /\ item \notin missed
      /\ \A j \in Published(OutcomeEvent) : log[j].cause # item
  BY DEF WorkerReport, WorkerInv, ItemInv, Outcomes, Busy
<1>6. UNCHANGED <<next, missed>> /\ worker' = "reported"
  BY DEF WorkerReport
<1>7. ItemInv'
  BY <1>6 DEF ItemInv, Busy
<1>8. BehindInv'
  <2>1. next["worker"] \in Nat
    BY DEF ShapeInv, Receiver
  <2>2. item < next["worker"]
    BY <1>5, <2>1
  <2> QED
    BY <1>1, <1>2, <1>3, <1>4, <1>5, <1>6, <2>2 DEF WorkerInv, BehindInv
<1>9. NoSecondOutcome'
  BY <1>1, <1>2, <1>3, <1>4, <1>5, <1>6 DEF WorkerInv, NoSecondOutcome
<1> QED
  BY <1>7, <1>8, <1>9 DEF WorkerInv

\* The worker goes on from where it is: what it had answered or lost stays
\* behind it.
LEMMA WorkerGoesOn ==
  ASSUME ShapeInv, WorkerInv, UNCHANGED log,
         next'["worker"] \in Nat, next'["worker"] >= next["worker"],
         missed \subseteq missed',
         \A m \in missed' :
           m \in missed \/ m \in next["worker"]..(next'["worker"] - 1),
         ItemInv'
  PROVE  WorkerInv'
<1>1. next["worker"] \in Nat /\ missed \subseteq Nat
  BY DEF ShapeInv, Receiver
<1>2. \A j \in Published(OutcomeEvent) :
        /\ log[j].cause \in Nat
        /\ log[j].cause < next["worker"]
        /\ log[j].cause \notin missed
  BY DEF WorkerInv, BehindInv, NoSecondOutcome, ShapeInv
<1>3. BehindInv'
  <2>1. \A m \in missed' : m < next'["worker"]
    BY <1>1 DEF WorkerInv, BehindInv
  <2>2. \A j \in Published(OutcomeEvent) : log[j].cause < next'["worker"]
    BY <1>1, <1>2
  <2> QED
    BY <2>1, <2>2 DEF WorkerInv, BehindInv, Published
<1>4. NoSecondOutcome'
  <2>1. \A j \in Published(OutcomeEvent) : log[j].cause \notin missed'
    BY <1>1, <1>2
  <2> QED
    BY <2>1 DEF WorkerInv, NoSecondOutcome, Published
<1> QED
  BY <1>3, <1>4 DEF WorkerInv

LEMMA WorkerStepKeeps ==
  ShapeInv /\ DueInv /\ WorkerInv /\ [Next]_vars => WorkerInv'
<1> SUFFICES ASSUME ShapeInv, DueInv, WorkerInv, [Next]_vars PROVE WorkerInv'
  OBVIOUS
<1> DEFINE n == next["worker"]
<1>0. n \in Nat \ {0} /\ missed \subseteq Nat
  BY DEF ShapeInv, Receiver
<1>1. ASSUME NEW event \in Foreign, ForeignPublish(event) PROVE WorkerInv'
  <2>1. /\ Envelope(event, 0, 0, 0) \in EnvelopeType
        /\ Envelope(event, 0, 0, 0).event \notin OutcomeEvent
    BY EventsApart DEF Envelope, EnvelopeType, Name
  <2> QED
    BY <1>1, <2>1, WorkerPublish DEF ForeignPublish
<1>2. ASSUME UNCHANGED <<log, missed, item>>, next'["worker"] = n,
             worker' = worker \/ worker' \notin Busy
             \/ worker \in Busy
      PROVE  WorkerInv'
  <2>1. ItemInv'
    BY <1>2 DEF WorkerInv, ItemInv, Outcomes, Published
  <2> QED
    BY <1>0, <1>2, <2>1, WorkerGoesOn
<1>3. ASSUME NEW k \in DOMAIN Rules, EngineApply(k) PROVE WorkerInv'
  <2>1. UNCHANGED <<next, missed, worker, item>>
    BY <1>3 DEF EngineApply
  <2>2. CASE UNCHANGED log
    BY <1>2, <2>1, <2>2
  <2>3. CASE Publish(Fire(k))
    <3>1. next["engine"] - 1 \in Nat /\ k \in Nat /\ now \in Nat
      BY <1>3, EventsApart DEF EngineApply, DueInv, ShapeInv, Receiver
    <3>2. Fire(k) \in EnvelopeType /\ Fire(k).event \notin OutcomeEvent
      BY <3>1, EventsApart DEF Fire, Envelope, EnvelopeType
    <3> QED
      BY <2>1, <2>3, <3>2, WorkerPublish
  <2> QED
    BY <1>3, <2>2, <2>3 DEF EngineApply
<1>4. ASSUME NEW w \in Receiver, LoseEnvelopes(w) PROVE WorkerInv'
  <2>1. CASE w = "worker"
    <3>1. Oldest(log) \in Nat /\ n < Oldest(log)
      BY <1>4, <2>1, BusAssumption DEF LoseEnvelopes, Lagged, Oldest, ShapeInv
    <3>2. /\ next'["worker"] = Oldest(log)
          /\ missed' = missed \cup n..(Oldest(log) - 1)
          /\ worker' = "idle" /\ UNCHANGED log
      BY <1>4, <2>1 DEF LoseEnvelopes, ShapeInv
    <3>3. ItemInv'
      BY <3>2 DEF ItemInv, Busy
    <3> QED
      BY <1>0, <3>1, <3>2, <3>3, WorkerGoesOn
  <2>2. CASE w # "worker"
    BY <1>2, <1>4, <2>2 DEF LoseEnvelopes, ShapeInv, Receiver
  <2> QED
    BY <2>1, <2>2
<1>5. CASE EngineReceive \/ FeedReceive
  BY <1>2, <1>5 DEF EngineReceive, FeedReceive, Read, ShapeInv, Receiver
<1>6. CASE WorkerReceive
  <2>1. next'["worker"] = n + 1 /\ UNCHANGED <<log, missed>>
    BY <1>6 DEF WorkerReceive, Read, ShapeInv, Receiver
  <2>2. n \in DOMAIN log
    BY <1>0, <1>6, BusAssumption DEF WorkerReceive, Readable, Oldest, ShapeInv
  <2>3. ItemInv'
    <3>1. CASE log[n].event = "AutomationAutoDiagnose"
      <4>1. item' = n /\ item' = next'["worker"] - 1
        BY <1>0, <1>6, <2>1, <3>1 DEF WorkerReceive
      <4>2. n \notin missed /\ Outcomes(n) = {}
        BY <1>0 DEF WorkerInv, BehindInv, Outcomes
      <4>3. (Outcomes(item) = {})'
        BY <2>1, <4>1, <4>2 DEF Outcomes, Published
      <4> QED
        BY <2>1, <2>2, <3>1, <4>1, <4>2, <4>3 DEF ItemInv
    <3>2. CASE log[n].event # "AutomationAutoDiagnose"
      BY <1>6, <3>2 DEF WorkerReceive, ItemInv, Busy
    <3> QED
      BY <3>1, <3>2
  <2> QED
    BY <1>0, <2>1, <2>3, WorkerGoesOn
<1>7. CASE WorkerReport
  BY <1>7, WorkerReports
<1>8. CASE WorkerBegin
  BY <1>2, <1>8 DEF WorkerBegin, Busy
<1>9. ASSUME NEW how \in {"completed", "failed"}, DiagnoseEnd(how)
      PROVE  WorkerInv'
  BY <1>2, <1>9 DEF DiagnoseEnd, Busy
<1>10. CASE WorkerPush
  BY <1>2, <1>10 DEF WorkerPush, Busy
<1>11. CASE UserBegin \/ UserEnd \/ Tick \/ UNCHANGED vars
  BY <1>2, <1>11 DEF UserBegin, UserEnd, Tick, vars
<1> QED
  BY <1>1, <1>3, <1>4, <1>5, <1>6, <1>7, <1>8, <1>9, <1>10, <1>11 DEF Next

\* What the worker has behind it stays answered, lost or in hand, where the
\* step reads nothing and puts nothing away.
LEMMA PassedOverKept ==
  ASSUME ShapeInv, NonePassedOver, UNCHANGED log,
         next'["worker"] = next["worker"], missed \subseteq missed',
         \A i \in DOMAIN log : InHand(i) => InHand(i)'
  PROVE  NonePassedOver'
<1>1. \A i : Outcomes(i)' = Outcomes(i)
  BY DEF Outcomes, Published
<1>2. \A i \in DOMAIN log : Answered(i) => Answered(i)'
  BY <1>1 DEF Answered, Published
<1> QED
  BY <1>2 DEF NonePassedOver

\* What is published is not behind the worker.
LEMMA PassedOverPublish ==
  ASSUME ShapeInv, NonePassedOver, NEW env \in EnvelopeType, Publish(env),
         UNCHANGED <<next, missed>>,
         \A i \in DOMAIN log : InHand(i) => InHand(i)'
            \/ Outcomes(i)' # {}
  PROVE  NonePassedOver'
<1>1. /\ DOMAIN log' = DOMAIN log \cup {Len(log) + 1}
      /\ \A i \in DOMAIN log : log'[i] = log[i]
      /\ Len(log) + 1 >= next["worker"]
  BY PublishAppends DEF ShapeInv, Receiver
<1>2. \A i : Outcomes(i) \subseteq Outcomes(i)'
  BY <1>1 DEF Outcomes, Published
<1>3. \A i \in DOMAIN log : Answered(i) => Answered(i)'
  BY <1>1, <1>2 DEF Answered, Published
<1>4. \A i \in DOMAIN log : Outcomes(i)' # {} => Answered(i)'
  BY DEF Answered
<1>5. next["worker"] \in Nat /\ Len(log) + 1 \in Nat
  BY DEF ShapeInv, Receiver
<1> QED
  BY <1>1, <1>3, <1>4, <1>5 DEF NonePassedOver

LEMMA PassedOverStep ==
  ShapeInv /\ DueInv /\ NonePassedOver /\ [Next]_vars => NonePassedOver'
<1> SUFFICES ASSUME ShapeInv, DueInv, NonePassedOver, [Next]_vars
             PROVE  NonePassedOver'
  OBVIOUS
<1> DEFINE n == next["worker"]
<1>0. n \in Nat \ {0} /\ n <= Len(log) + 1 /\ Len(log) \in Nat /\ DOMAIN log = 1..Len(log)
  BY DEF ShapeInv, Receiver
<1>1. ASSUME NEW event \in Foreign, ForeignPublish(event) PROVE NonePassedOver'
  <2>1. Envelope(event, 0, 0, 0) \in EnvelopeType
    BY DEF Envelope, EnvelopeType, Name
  <2> QED
    BY <1>1, <2>1, PassedOverPublish DEF ForeignPublish, InHand
<1>2. ASSUME NEW k \in DOMAIN Rules, EngineApply(k) PROVE NonePassedOver'
  <2>1. UNCHANGED <<next, missed, worker, item>>
    BY <1>2 DEF EngineApply
  <2>2. CASE UNCHANGED log
    BY <2>1, <2>2, PassedOverKept DEF InHand
  <2>3. CASE Publish(Fire(k))
    <3>1. next["engine"] - 1 \in Nat /\ k \in Nat /\ now \in Nat
      BY <1>2, EventsApart DEF EngineApply, DueInv, ShapeInv, Receiver
    <3>2. Fire(k) \in EnvelopeType
      BY <3>1, EventsApart DEF Fire, Envelope, EnvelopeType
    <3> QED
      BY <2>1, <2>3, <3>2, PassedOverPublish DEF InHand
  <2> QED
    BY <1>2, <2>2, <2>3 DEF EngineApply
<1>3. ASSUME NEW w \in Receiver, LoseEnvelopes(w) PROVE NonePassedOver'
  <2>1. CASE w = "worker"
    <3>1. Oldest(log) \in Nat
      BY BusAssumption, <1>0 DEF Oldest
    <3>2. /\ next'["worker"] = Oldest(log)
          /\ missed' = missed \cup n..(Oldest(log) - 1)
          /\ worker = "idle" /\ UNCHANGED log
      BY <1>3, <2>1 DEF LoseEnvelopes, ShapeInv
    <3>3. ASSUME NEW i \in DOMAIN log, i < Oldest(log) PROVE Answered(i)'
      <4>1. CASE i < n
        BY <3>2, <4>1 DEF NonePassedOver, InHand, Answered, Outcomes, Published
      <4>2. CASE ~(i < n)
        BY <1>0, <3>1, <3>2, <3>3, <4>2 DEF Answered
      <4> QED
        BY <4>1, <4>2
    <3> QED
      BY <3>2, <3>3 DEF NonePassedOver
  <2>2. CASE w # "worker"
    BY <1>3, <2>2, PassedOverKept DEF LoseEnvelopes, ShapeInv, Receiver, InHand
  <2> QED
    BY <2>1, <2>2
<1>4. CASE EngineReceive \/ FeedReceive
  BY <1>4, PassedOverKept DEF EngineReceive, FeedReceive, Read, ShapeInv, Receiver, InHand
<1>5. CASE WorkerReceive
  <2>1. /\ next'["worker"] = n + 1 /\ UNCHANGED <<log, missed>>
        /\ worker = "idle"
    BY <1>5 DEF WorkerReceive, Read, ShapeInv, Receiver
  <2>2. ASSUME NEW i \in DOMAIN log, i < n + 1 PROVE Answered(i)' \/ InHand(i)'
    <3>1. CASE i < n
      BY <2>1, <3>1 DEF NonePassedOver, InHand, Answered, Outcomes, Published
    <3>2. CASE i = n /\ log[n].event = "AutomationAutoDiagnose"
      BY <1>5, <3>2 DEF WorkerReceive, InHand
    <3>3. CASE i = n /\ log[n].event # "AutomationAutoDiagnose"
      BY <2>1, <3>3 DEF Answered, Published
    <3> QED
      BY <1>0, <2>2, <3>1, <3>2, <3>3
  <2> QED
    BY <2>1, <2>2 DEF NonePassedOver
<1>6. CASE WorkerReport
  <2>1. /\ Outcome \in EnvelopeType /\ Outcome.cause = item
        /\ Outcome.event \in OutcomeEvent
    BY DEF Outcome, Envelope, EnvelopeType, Name, OutcomeEvent, ShapeInv
  <2>2. Publish(Outcome) /\ UNCHANGED <<next, missed>>
    BY <1>6 DEF WorkerReport
  <2>3. Len(log) + 1 \in DOMAIN log' /\ log'[Len(log) + 1] = Outcome
    BY <2>1, <2>2, PublishAppends
  <2>4. ASSUME NEW i, i = item PROVE Len(log) + 1 \in Outcomes(i)'
    BY <2>1, <2>3, <2>4 DEF Outcomes, Published
  <2>5. \A i \in DOMAIN log : InHand(i) => Outcomes(i)' # {}
    BY <2>4 DEF InHand
  <2> QED
    BY <2>1, <2>2, <2>5, PassedOverPublish
<1>7. CASE WorkerBegin \/ \E how \in {"completed", "failed"} : DiagnoseEnd(how)
  BY <1>7, PassedOverKept DEF WorkerBegin, DiagnoseEnd, InHand
<1>8. CASE WorkerPush
  BY <1>8, PassedOverKept DEF WorkerPush, InHand
<1>9. CASE UserBegin \/ UserEnd \/ Tick \/ UNCHANGED vars
  BY <1>9, PassedOverKept DEF UserBegin, UserEnd, Tick, vars, InHand
<1> QED
  BY <1>1, <1>2, <1>3, <1>4, <1>5, <1>6, <1>7, <1>8, <1>9 DEF Next

-----------------------------------------------------------------------------
(* The feed *)

FeedEntry == [event : RuleEvent \cup OutcomeEvent \cup {"AutoDiagnoseStarted"},
              of : Nat]

\* What the feed shows is on the bus, and the feed task has read the rules'
\* events among it; what the worker is about to show is its outcome.
FeedInv ==
  /\ feed \in Seq(FeedEntry)
  /\ \A p \in DOMAIN feed :
       /\ feed[p].of \in DOMAIN log
       /\ feed[p].event \in RuleEvent => feed[p].of < next["feed"]
  /\ worker = "reported" =>
       item \in DOMAIN log /\ log[item].event \in OutcomeEvent
  /\ FeedTellsInOrder

\* How far the items move when one is pushed.
Moved(items) == IF Len(items) >= FeedCapacity THEN 1 ELSE 0

\* An item goes in at the end, and the others keep their order.
LEMMA PushedLast ==
  ASSUME NEW S, NEW items \in Seq(S), NEW entry \in S,
         NEW pushed, pushed = Pushed(items, entry)
  PROVE  /\ pushed \in Seq(S)
         /\ pushed[Len(pushed)] = entry
         /\ \A p \in DOMAIN pushed :
              /\ p \in Nat /\ Len(pushed) \in Nat /\ p <= Len(pushed)
              /\ p # Len(pushed) => /\ p + Moved(items) \in DOMAIN items
                                    /\ pushed[p] = items[p + Moved(items)]
<1>1. CASE Len(items) >= FeedCapacity
  <2>1. items # <<>> /\ pushed = Append(Tail(items), entry) /\ Moved(items) = 1
    BY <1>1, AutomationAssumption DEF Pushed, Moved
  <2> QED
    BY <2>1
<1>2. CASE ~(Len(items) >= FeedCapacity)
  <2>1. pushed = Append(items, entry) /\ Moved(items) = 0
    BY <1>2 DEF Pushed, Moved
  <2> QED
    BY <2>1
<1> QED
  BY <1>1, <1>2

\* What is pushed comes after all that is in the feed.
LEMMA PushKeepsOrder ==
  ASSUME ShapeInv, FeedInv, NEW entry \in FeedEntry, entry.of \in DOMAIN log,
         feed' = Pushed(feed, entry), log' = log,
         next'["feed"] \in Nat, next'["feed"] >= next["feed"],
         entry.event \in RuleEvent =>
           next["feed"] <= entry.of /\ entry.of < next'["feed"],
         entry.event = "AutoDiagnoseStarted" =>
           \A p \in DOMAIN feed : feed[p].of \notin Outcomes(entry.of)
  PROVE  /\ feed' \in Seq(FeedEntry)
         /\ \A p \in DOMAIN feed' :
              /\ feed'[p].of \in DOMAIN log
              /\ feed'[p].event \in RuleEvent => feed'[p].of < next'["feed"]
         /\ FeedTellsInOrder'
<1> DEFINE n == Len(feed')
           d == Moved(feed)
<1>1. feed \in Seq(FeedEntry)
  BY DEF FeedInv
<1>2. /\ feed' \in Seq(FeedEntry) /\ feed'[n] = entry
      /\ \A p \in DOMAIN feed' :
           /\ p \in Nat /\ n \in Nat /\ p <= n
           /\ p # n => p + d \in DOMAIN feed /\ feed'[p] = feed[p + d]
  BY <1>1, PushedLast
<1>3. next["feed"] \in Nat /\ DOMAIN log \subseteq Nat
  BY DEF ShapeInv, Receiver
<1>0. d \in Nat
  BY DEF Moved
<1> HIDE DEF n, d
<1>4. ASSUME NEW p \in DOMAIN feed'
      PROVE  /\ feed'[p].of \in DOMAIN log
             /\ feed'[p].event \in RuleEvent => feed'[p].of < next'["feed"]
  <2>1. CASE p = n
    BY <1>2, <2>1
  <2>2. CASE p # n
    BY <1>2, <1>3, <2>2 DEF FeedInv
  <2> QED
    BY <2>1, <2>2
<1>5. \A i : Outcomes(i)' = Outcomes(i)
  BY DEF Outcomes, Published
<1>6. ASSUME NEW p \in DOMAIN feed', NEW q \in DOMAIN feed', p < q
      PROVE  /\ {feed'[p].event, feed'[q].event} \subseteq RuleEvent =>
                  feed'[p].of < feed'[q].of
             /\ feed'[q].event = "AutoDiagnoseStarted" =>
                  feed'[p].of \notin Outcomes(feed'[q].of)
  <2>1. p # n /\ p + d \in DOMAIN feed /\ feed'[p] = feed[p + d]
    BY <1>2, <1>6
  <2>2. CASE q = n
    <3>1. feed[p + d].event \in RuleEvent /\ entry.event \in RuleEvent =>
            feed[p + d].of < entry.of
      BY <1>3, <2>1 DEF FeedInv
    <3> QED
      BY <1>2, <2>1, <2>2, <3>1
  <2>3. CASE q # n
    <3>1. q + d \in DOMAIN feed /\ feed'[q] = feed[q + d] /\ p + d < q + d
      BY <1>0, <1>2, <1>6, <2>3
    <3> QED
      BY <2>1, <3>1 DEF FeedInv, FeedTellsInOrder
  <2> QED
    BY <2>2, <2>3
<1>7. FeedTellsInOrder'
  BY <1>5, <1>6 DEF FeedTellsInOrder
<1> QED
  BY <1>2, <1>4, <1>7

\* An envelope that is published is in no item of the feed yet.
LEMMA PublishKeepsFeed ==
  ASSUME ShapeInv, FeedInv, NEW env \in EnvelopeType, Publish(env),
         UNCHANGED <<feed, next>>,
         worker' = "reported" =>
           \/ worker = "reported" /\ item' = item
           \/ item' = Len(log) + 1 /\ env.event \in OutcomeEvent
  PROVE  FeedInv'
<1>1. /\ DOMAIN log \subseteq DOMAIN log' /\ DOMAIN log' = DOMAIN log \cup {Len(log) + 1}
      /\ \A i \in DOMAIN log : log'[i] = log[i] /\ i # Len(log) + 1
      /\ log'[Len(log) + 1] = env
  <2>1. Len(log) \in Nat /\ DOMAIN log = 1..Len(log)
    BY DEF ShapeInv
  <2>2. \A i \in DOMAIN log : i # Len(log) + 1
    BY <2>1
  <2> QED
    BY <2>2, PublishAppends, Zenon
<1>2. \A i : Outcomes(i)' \subseteq Outcomes(i) \cup {Len(log) + 1}
  BY <1>1 DEF Outcomes, Published
<1>3. FeedTellsInOrder'
  BY <1>1, <1>2 DEF FeedInv, FeedTellsInOrder
<1> QED
  BY <1>1, <1>3 DEF FeedInv

LEMMA FeedStep ==
  AutomationInv /\ FeedInv /\ [Next]_vars => FeedInv'
<1> SUFFICES ASSUME AutomationInv, FeedInv, [Next]_vars PROVE FeedInv'
  OBVIOUS
<1> USE DEF AutomationInv, EngineInv
<1>0. /\ next \in [Receiver -> Nat \ {0}] /\ "feed" \in Receiver
      /\ next["feed"] \in Nat /\ next["worker"] \in Nat \ {0} /\ Len(log) \in Nat
  BY DEF ShapeInv, Receiver
<1>1. ASSUME NEW event \in Foreign, ForeignPublish(event) PROVE FeedInv'
  <2>1. Envelope(event, 0, 0, 0) \in EnvelopeType
    BY DEF Envelope, EnvelopeType, Name
  <2> QED
    BY <1>1, <2>1, PublishKeepsFeed DEF ForeignPublish
<1>2. ASSUME UNCHANGED <<log, feed>>, next'["feed"] \in Nat, next'["feed"] >= next["feed"],
             worker' = "reported" => worker = "reported" /\ item' = item
      PROVE  FeedInv'
  <2>1. \A i : Outcomes(i)' = Outcomes(i)
    BY <1>2 DEF Outcomes, Published
  <2>2. FeedTellsInOrder'
    BY <1>2, <2>1 DEF FeedInv, FeedTellsInOrder
  <2>3. \A p \in DOMAIN feed : feed[p].event \in RuleEvent => feed[p].of < next'["feed"]
    <3>1. \A p \in DOMAIN feed : feed[p].of \in Nat
      BY <1>0 DEF FeedInv, ShapeInv
    <3> QED
      BY <1>0, <1>2, <3>1 DEF FeedInv
  <2> QED
    BY <1>2, <2>2, <2>3 DEF FeedInv
<1>3. ASSUME NEW w \in Receiver, LoseEnvelopes(w) PROVE FeedInv'
  <2>1. Oldest(log) \in Nat /\ next[w] < Oldest(log)
    BY <1>3, BusAssumption DEF LoseEnvelopes, Lagged, Oldest, ShapeInv
  <2>2. next'["feed"] \in Nat /\ next'["feed"] >= next["feed"]
    BY <1>0, <1>3, <2>1 DEF LoseEnvelopes
  <2> QED
    BY <1>2, <1>3, <2>2 DEF LoseEnvelopes
<1>4. CASE EngineReceive
  BY <1>0, <1>2, <1>4 DEF EngineReceive, Read
<1>5. ASSUME NEW k \in DOMAIN Rules, EngineApply(k) PROVE FeedInv'
  <2>1. CASE UNCHANGED log
    BY <1>0, <1>2, <1>5, <2>1 DEF EngineApply
  <2>2. CASE Publish(Fire(k))
    <3>1. next["engine"] - 1 \in Nat /\ k \in Nat /\ now \in Nat
      BY <1>5, EventsApart DEF EngineApply, DueInv, ShapeInv, Receiver
    <3>2. Fire(k) \in EnvelopeType
      BY <3>1, EventsApart DEF Fire, Envelope, EnvelopeType
    <3> QED
      BY <1>5, <2>2, <3>2, PublishKeepsFeed DEF EngineApply
  <2> QED
    BY <1>5, <2>1, <2>2 DEF EngineApply
<1>6. CASE FeedReceive
  <2> DEFINE n == next["feed"]
             entry == [event |-> log[n].event, of |-> n]
  <2>1. /\ n \in DOMAIN log
        /\ next'["feed"] = n + 1 /\ UNCHANGED <<log, worker, item>>
    BY <1>0, <1>6, BusAssumption DEF FeedReceive, Readable, Oldest, Read, ShapeInv
  <2>2. CASE ~IsAutomation(log[n])
    BY <1>0, <1>2, <1>6, <2>1, <2>2 DEF FeedReceive
  <2>3. CASE IsAutomation(log[n])
    <3>1. /\ entry \in FeedEntry /\ feed' = Pushed(feed, entry)
          /\ entry.of = n /\ entry.event # "AutoDiagnoseStarted"
      BY <1>0, <1>6, <2>3 DEF FeedReceive, IsAutomation, FeedEntry, RuleEvent, OutcomeEvent
    <3>2. /\ feed' \in Seq(FeedEntry)
          /\ \A p \in DOMAIN feed' :
               /\ feed'[p].of \in DOMAIN log
               /\ feed'[p].event \in RuleEvent => feed'[p].of < next'["feed"]
          /\ FeedTellsInOrder'
      <4> HIDE DEF entry
      <4> QED
        BY <1>0, <2>1, <3>1, PushKeepsOrder
    <3> QED
      BY <2>1, <3>2 DEF FeedInv
  <2> QED
    BY <2>2, <2>3
<1>7. CASE WorkerReceive
  <2> DEFINE n == next["worker"]
             entry == [event |-> "AutoDiagnoseStarted", of |-> n]
  <2>1. /\ n \in DOMAIN log
        /\ next'["feed"] = next["feed"] /\ UNCHANGED log
    BY <1>0, <1>7, BusAssumption DEF WorkerReceive, Readable, Oldest, Read, ShapeInv
  <2>2. CASE log[n].event # "AutomationAutoDiagnose"
    BY <1>0, <1>2, <1>7, <2>1, <2>2 DEF WorkerReceive
  <2>3. CASE log[n].event = "AutomationAutoDiagnose"
    <3>1. /\ entry \in FeedEntry /\ feed' = Pushed(feed, entry)
          /\ entry.of = n /\ entry.event \notin RuleEvent /\ worker' = "starting"
      BY <1>0, <1>7, <2>3 DEF WorkerReceive, FeedEntry, RuleEvent
    <3>2. Outcomes(n) = {}
      BY <1>0 DEF WorkerInv, BehindInv, Outcomes
    <3>3. /\ feed' \in Seq(FeedEntry)
          /\ \A p \in DOMAIN feed' :
               /\ feed'[p].of \in DOMAIN log
               /\ feed'[p].event \in RuleEvent => feed'[p].of < next'["feed"]
          /\ FeedTellsInOrder'
      <4> HIDE DEF entry
      <4> QED
        BY <1>0, <2>1, <3>1, <3>2, PushKeepsOrder
    <3> QED
      BY <2>1, <3>1, <3>3 DEF FeedInv
  <2> QED
    BY <2>2, <2>3
<1>8. CASE WorkerReport
  <2>1. Outcome \in EnvelopeType /\ Outcome.event \in OutcomeEvent
    BY DEF Outcome, Envelope, EnvelopeType, Name, OutcomeEvent, ShapeInv
  <2> QED
    BY <1>8, <2>1, PublishKeepsFeed DEF WorkerReport
<1>9. CASE WorkerPush
  <2> DEFINE entry == [event |-> log[item].event, of |-> item]
  <2>1. /\ item \in DOMAIN log /\ log[item].event \in OutcomeEvent
        /\ UNCHANGED <<log, next>> /\ worker' = "idle"
        /\ feed' = Pushed(feed, entry)
    BY <1>9 DEF WorkerPush, FeedInv
  <2>2. /\ entry \in FeedEntry /\ entry.of = item
        /\ entry.event \notin RuleEvent /\ entry.event # "AutoDiagnoseStarted"
    BY <1>0, <2>1 DEF FeedEntry, RuleEvent, OutcomeEvent, ShapeInv
  <2>3. /\ feed' \in Seq(FeedEntry)
        /\ \A p \in DOMAIN feed' :
             /\ feed'[p].of \in DOMAIN log
             /\ feed'[p].event \in RuleEvent => feed'[p].of < next'["feed"]
        /\ FeedTellsInOrder'
    <3> HIDE DEF entry
    <3> QED
      BY <1>0, <2>1, <2>2, PushKeepsOrder
  <2> QED
    BY <2>1, <2>3 DEF FeedInv
<1>10. ASSUME \/ WorkerBegin \/ UserBegin \/ UserEnd \/ Tick \/ UNCHANGED vars
              \/ \E how \in {"completed", "failed"} : DiagnoseEnd(how)
       PROVE  FeedInv'
  <2>1. UNCHANGED <<log, feed, next, item>> /\ (worker' = "reported" => worker = "reported")
    BY <1>10 DEF WorkerBegin, UserBegin, UserEnd, Tick, vars, DiagnoseEnd
  <2> QED
    BY <1>0, <1>2, <2>1
<1> QED
  BY <1>1, <1>3, <1>4, <1>5, <1>6, <1>7, <1>8, <1>9, <1>10 DEF Next

-----------------------------------------------------------------------------
(* Types *)

\* What TypeOK says beyond ShapeInv and FeedInv.
RangeInv ==
  /\ \A i \in DOMAIN log :
       /\ log[i].rule \in {0} \cup DOMAIN Rules
       /\ log[i].cause < i
       /\ log[i].at <= now
  /\ missed \subseteq DOMAIN log
  /\ now \in 1..MaxTime
  /\ \A k \in DOMAIN Rules : lastFired[k] <= now
  /\ worker \in {"idle", "starting", "running", "completed", "failed", "reported"}
  /\ item <= Len(log)
  /\ users \in Nat /\ FreeSlots \in Nat
  /\ Len(feed) <= FeedCapacity

\* The envelopes on the bus.
LEMMA EnvelopeAt ==
  ASSUME ShapeInv, NEW i \in DOMAIN log
  PROVE  /\ i \in Nat \ {0}
         /\ log[i].event \in Name
         /\ log[i].rule \in Nat /\ log[i].cause \in Nat /\ log[i].at \in Nat
<1>1. log[i] \in EnvelopeType /\ i \in Nat \ {0}
  BY DEF ShapeInv
<1> QED
  BY <1>1 DEF EnvelopeType

LEMMA RangesMakeTypes == AutomationInv /\ FeedInv /\ RangeInv => TypeOK
<1> SUFFICES ASSUME AutomationInv, FeedInv, RangeInv PROVE TypeOK
  OBVIOUS
<1> USE DEF AutomationInv
<1>1. \A i \in DOMAIN log :
        /\ log[i].event \in Name
        /\ log[i].rule \in {0} \cup DOMAIN Rules
        /\ log[i].cause \in 0..(i - 1)
        /\ log[i].at \in 0..now
  BY EnvelopeAt DEF ShapeInv, RangeInv
<1>2. next \in [Receiver -> 1..(Len(log) + 1)]
  BY DEF ShapeInv
<1>3. lastFired \in [DOMAIN Rules -> 0..now]
  BY DEF ShapeInv, RangeInv
<1>4. feed \in Seq(Entry)
  <2>1. \A p \in DOMAIN feed : feed[p] \in FeedEntry /\ feed[p].of \in DOMAIN log
    BY DEF FeedInv
  <2>2. \A p \in DOMAIN feed : feed[p] \in Entry
    BY <2>1 DEF FeedEntry, Entry
  <2>3. Len(feed) \in Nat /\ DOMAIN feed = 1..Len(feed) /\ feed = [p \in 1..Len(feed) |-> feed[p]]
    BY DEF FeedInv
  <2> QED
    BY <2>2, <2>3
<1>5. item \in 0..Len(log)
  BY DEF ShapeInv, RangeInv
<1> QED
  BY <1>1, <1>2, <1>3, <1>4, <1>5 DEF TypeOK, RangeInv, ShapeInv

\* An envelope whose rule, cause and time are in range.
LEMMA PublishKeepsRange ==
  ASSUME ShapeInv, RangeInv, NEW env \in EnvelopeType, Publish(env),
         env.rule \in {0} \cup DOMAIN Rules, env.cause <= Len(log), env.at <= now,
         UNCHANGED <<missed, now, users, feed>>,
         \A k \in DOMAIN Rules : lastFired'[k] \in {lastFired[k], now},
         worker' \in {worker, "reported"},
         FreeSlots' = FreeSlots,
         item' \in {item, Len(log) + 1}
  PROVE  RangeInv'
<1>1. /\ Len(log) \in Nat /\ Len(log') = Len(log) + 1
      /\ DOMAIN log = 1..Len(log) /\ DOMAIN log' = DOMAIN log \cup {Len(log) + 1}
      /\ \A i \in DOMAIN log : log'[i] = log[i]
      /\ log'[Len(log) + 1] = env
  <2>1. Len(log) \in Nat
    BY DEF ShapeInv
  <2> QED
    BY <2>1, PublishAppends, Zenon
<1>2. env.cause \in Nat /\ env.cause < Len(log) + 1
  BY <1>1 DEF EnvelopeType
<1>3. \A i \in DOMAIN log' :
        log'[i].rule \in {0} \cup DOMAIN Rules /\ log'[i].cause < i /\ log'[i].at <= now'
  BY <1>1, <1>2 DEF RangeInv
<1>5. missed' \subseteq DOMAIN log' /\ item' <= Len(log')
  BY <1>1 DEF RangeInv, ShapeInv
<1>6. \A k \in DOMAIN Rules : lastFired'[k] <= now'
  BY DEF RangeInv
<1> QED
  BY <1>3, <1>5, <1>6 DEF RangeInv

\* The ring of the feed keeps its size.
LEMMA PushKeepsSize ==
  ASSUME NEW S, NEW items \in Seq(S), NEW entry \in S, Len(items) <= FeedCapacity
  PROVE  Len(Pushed(items, entry)) <= FeedCapacity
<1>1. CASE Len(items) >= FeedCapacity
  <2>1. items # <<>> /\ Pushed(items, entry) = Append(Tail(items), entry)
    BY <1>1, AutomationAssumption DEF Pushed
  <2> QED
    BY <2>1, AutomationAssumption
<1>2. CASE ~(Len(items) >= FeedCapacity)
  <2>1. Pushed(items, entry) = Append(items, entry)
    BY <1>2 DEF Pushed
  <2> QED
    BY <1>2, <2>1, AutomationAssumption
<1> QED
  BY <1>1, <1>2

LEMMA RangeStep ==
  AutomationInv /\ FeedInv /\ RangeInv /\ [Next]_vars => RangeInv'
<1> SUFFICES ASSUME AutomationInv, FeedInv, RangeInv, [Next]_vars PROVE RangeInv'
  OBVIOUS
<1> USE DEF AutomationInv, EngineInv
<1>0. /\ Len(log) \in Nat /\ DOMAIN log = 1..Len(log) /\ now \in Nat /\ MaxConcurrent \in Nat
      /\ feed \in Seq(FeedEntry) /\ item \in Nat
  BY AutomationAssumption DEF ShapeInv, FeedInv
<1>1. ASSUME NEW event \in Foreign, ForeignPublish(event) PROVE RangeInv'
  <2> DEFINE env == Envelope(event, 0, 0, 0)
  <2>1. env \in EnvelopeType /\ env.rule = 0 /\ env.cause <= Len(log) /\ env.at <= now
    BY <1>0 DEF Envelope, EnvelopeType, Name
  <2>2. Publish(env)
    BY <1>1 DEF ForeignPublish
  <2>3. FreeSlots' = FreeSlots
    BY <1>1 DEF ForeignPublish, FreeSlots
  <2> HIDE DEF env
  <2> QED
    BY <1>1, <2>1, <2>2, <2>3, PublishKeepsRange DEF ForeignPublish
<1>2. ASSUME UNCHANGED <<log, lastFired>>, missed' \subseteq DOMAIN log,
             now' \in {now, now + 1}, now' <= MaxTime, Len(feed') <= FeedCapacity,
             worker' \in {"idle", "starting", "running", "completed", "failed", "reported"},
             item' <= Len(log), users' \in Nat, FreeSlots' \in Nat
      PROVE  RangeInv'
  <2>1. \A i \in DOMAIN log : log[i].at \in Nat
    BY EnvelopeAt
  <2>2. \A k \in DOMAIN Rules : lastFired[k] \in Nat
    BY DEF ShapeInv
  <2>3. now' \in 1..MaxTime
    BY <1>0, <1>2, AutomationAssumption DEF RangeInv
  <2> QED
    BY <1>0, <1>2, <2>1, <2>2, <2>3 DEF RangeInv
<1>3. ASSUME UNCHANGED <<worker, users>> PROVE FreeSlots' = FreeSlots
  BY <1>3 DEF FreeSlots
<1>4. ASSUME NEW w \in Receiver, LoseEnvelopes(w) PROVE RangeInv'
  <2>1. next[w] \in Nat \ {0} /\ Oldest(log) <= Len(log) + 1 /\ Oldest(log) \in Nat
    BY <1>0, BusAssumption DEF ShapeInv, Oldest
  <2>2. missed' \subseteq DOMAIN log
    BY <1>0, <1>4, <2>1 DEF LoseEnvelopes, RangeInv
  <2> QED
    BY <1>2, <1>3, <1>4, <2>2 DEF LoseEnvelopes, RangeInv
<1>5. CASE EngineReceive
  BY <1>2, <1>3, <1>5 DEF EngineReceive, RangeInv
<1>6. ASSUME NEW k \in DOMAIN Rules, EngineApply(k) PROVE RangeInv'
  <2>1. /\ next["engine"] - 1 \in Nat /\ next["engine"] - 1 <= Len(log) /\ k \in Nat
        /\ \A j \in DOMAIN Rules : lastFired'[j] \in {lastFired[j], now}
    BY <1>0, <1>6, EventsApart DEF EngineApply, DueInv, ShapeInv, Receiver
  <2>2. CASE UNCHANGED log
    BY <1>3, <1>6, <2>1, <2>2 DEF EngineApply, RangeInv
  <2>3. CASE Publish(Fire(k))
    <3>1. /\ Fire(k) \in EnvelopeType /\ Fire(k).rule \in DOMAIN Rules
          /\ Fire(k).cause <= Len(log) /\ Fire(k).at <= now
      BY <1>0, <2>1, EventsApart DEF Fire, Envelope, EnvelopeType
    <3>2. FreeSlots' = FreeSlots
      BY <1>6 DEF EngineApply, FreeSlots
    <3> QED
      BY <1>6, <2>1, <2>3, <3>1, <3>2, PublishKeepsRange DEF EngineApply
  <2> QED
    BY <1>6, <2>2, <2>3 DEF EngineApply
<1>7. ASSUME NEW entry \in FeedEntry PROVE Len(Pushed(feed, entry)) <= FeedCapacity
  BY <1>0, PushKeepsSize DEF RangeInv
<1>8. CASE FeedReceive
  <2> DEFINE n == next["feed"]
  <2>1. n \in DOMAIN log
    BY <1>0, <1>8, BusAssumption DEF FeedReceive, Readable, Oldest, ShapeInv, Receiver
  <2>2. Len(feed') <= FeedCapacity
    <3>1. CASE IsAutomation(log[n])
      <4>1. [event |-> log[n].event, of |-> n] \in FeedEntry
        BY <1>0, <2>1, <3>1 DEF IsAutomation, FeedEntry
      <4> QED
        BY <1>7, <1>8, <3>1, <4>1 DEF FeedReceive
    <3>2. CASE ~IsAutomation(log[n])
      BY <1>8, <3>2 DEF FeedReceive, RangeInv
    <3> QED
      BY <3>1, <3>2
  <2> QED
    BY <1>2, <1>3, <1>8, <2>2 DEF FeedReceive, RangeInv
<1>9. CASE WorkerReceive
  <2> DEFINE n == next["worker"]
  <2>1. n \in DOMAIN log
    BY <1>0, <1>9, BusAssumption DEF WorkerReceive, Readable, Oldest, ShapeInv, Receiver
  <2>2. [event |-> "AutoDiagnoseStarted", of |-> n] \in FeedEntry
    BY <1>0, <2>1 DEF FeedEntry
  <2>3. Len(feed') <= FeedCapacity
    BY <1>7, <1>9, <2>2 DEF WorkerReceive, RangeInv
  <2>4. FreeSlots' = FreeSlots /\ worker' \in {"idle", "starting"} /\ item' <= Len(log)
    BY <1>0, <1>9, <2>1 DEF WorkerReceive, FreeSlots, RangeInv
  <2> QED
    BY <1>2, <1>9, <2>3, <2>4 DEF WorkerReceive, RangeInv
<1>10. CASE WorkerReport
  <2>1. /\ Outcome \in EnvelopeType /\ Outcome.rule = 0
        /\ Outcome.cause <= Len(log) /\ Outcome.at <= now
    BY <1>0 DEF Outcome, Envelope, EnvelopeType, Name, OutcomeEvent, RangeInv
  <2>2. FreeSlots' = FreeSlots
    BY <1>10 DEF WorkerReport, FreeSlots
  <2> QED
    BY <1>10, <2>1, <2>2, PublishKeepsRange DEF WorkerReport
<1>11. CASE WorkerPush
  <2>1. [event |-> log[item].event, of |-> item] \in FeedEntry
    BY <1>0, <1>11 DEF WorkerPush, FeedInv, FeedEntry
  <2>2. Len(feed') <= FeedCapacity /\ FreeSlots' = FreeSlots
    BY <1>7, <1>11, <2>1 DEF WorkerPush, FreeSlots
  <2> QED
    BY <1>2, <1>11, <2>2 DEF WorkerPush, RangeInv
<1>12. CASE WorkerBegin \/ \E how \in {"completed", "failed"} : DiagnoseEnd(how)
  <2>1. FreeSlots' \in Nat /\ worker' \in {"running", "completed", "failed"}
    BY <1>0, <1>12 DEF WorkerBegin, DiagnoseEnd, FreeSlots, RangeInv
  <2> QED
    BY <1>2, <1>12, <2>1 DEF WorkerBegin, DiagnoseEnd, RangeInv
<1>13. CASE UserBegin \/ UserEnd
  <2>1. FreeSlots' \in Nat /\ users' \in Nat
    <3>1. users \in Nat /\ FreeSlots \in Nat
      BY DEF RangeInv
    <3>2. CASE UserBegin
      <4>1. FreeSlots' = FreeSlots - 1
        BY <1>0, <3>1, <3>2 DEF UserBegin, FreeSlots
      <4> QED
        BY <3>1, <3>2, <4>1 DEF UserBegin
    <3>3. CASE UserEnd
      <4>1. FreeSlots' = FreeSlots + 1 /\ users' \in Nat
        BY <1>0, <3>1, <3>3 DEF UserEnd, FreeSlots
      <4> QED
        BY <3>1, <4>1
    <3> QED
      BY <1>13, <3>2, <3>3
  <2> QED
    BY <1>2, <1>13, <2>1 DEF UserBegin, UserEnd, RangeInv
<1>14. CASE Tick \/ UNCHANGED vars
  <2>1. now' <= MaxTime /\ now' \in {now, now + 1} /\ FreeSlots' = FreeSlots
    BY <1>0, <1>14, AutomationAssumption DEF Tick, vars, FreeSlots, RangeInv
  <2> QED
    BY <1>2, <1>14, <2>1 DEF Tick, vars, RangeInv
<1> QED
  BY <1>1, <1>4, <1>5, <1>6, <1>8, <1>9, <1>10, <1>11, <1>12, <1>13, <1>14 DEF Next

-----------------------------------------------------------------------------
(* The theorems *)

LEMMA AutomationAlways == Spec => []AutomationInv
<1>1. AutomationInv /\ [Next]_vars => AutomationInv'
  BY ShapeStep, EngineStep, WorkerStepKeeps DEF AutomationInv, EngineInv
<1> QED
  BY InitAutomation, <1>1, PTL DEF Spec

\* "Minimum seconds between firings of this rule": the engine keeps every
\* rule's cooldown, whatever its triggers and however late it applies a fire.
THEOREM CooldownsAreKept == Spec => []CooldownKept
<1>1. AutomationInv => CooldownKept
  BY DEF AutomationInv, EngineInv
<1> QED
  BY AutomationAlways, <1>1, PTL

\* Whatever a rule waits for and whatever other rules emit, what it fires was
\* set off by an event that is no Automation event; an outcome is the answer to
\* a diagnose some rule asked for.
THEOREM ActsAreTraceable == Spec => []Traceable
<1>1. AutomationInv => Traceable
  BY DEF AutomationInv, EngineInv, FiredInv, WorkerInv, BehindInv, Traceable
<1> QED
  BY AutomationAlways, <1>1, PTL

\* The worker answers an AutomationAutoDiagnose event once at most, also when
\* it lags behind the bus, and passes over none: the half of DiagnoseAnswered
\* that is safety.
THEOREM OneOutcomeEach == Spec => []OutcomeOnce
<1>1. AutomationInv => NoSecondOutcome /\ ShapeInv /\ DueInv
  BY DEF AutomationInv, WorkerInv, EngineInv
<1>2. Init => NonePassedOver
  BY DEF Init, NonePassedOver
<1> QED
  BY AutomationAlways, PassedOverStep, <1>1, <1>2, PTL DEF Spec, OutcomeOnce

LEMMA FeedAlways == Spec => []FeedInv
<1>1. Init => FeedInv
  BY DEF Init, FeedInv, FeedTellsInOrder
<1> QED
  BY AutomationAlways, FeedStep, <1>1, PTL DEF Spec

\* The feed shows events in the order of the bus, and never the start of a
\* diagnose after its outcome, although two tasks write into it and each
\* lags as it likes.
THEOREM FeedIsInOrder == Spec => []FeedTellsInOrder
<1>1. FeedInv => FeedTellsInOrder
  BY DEF FeedInv
<1> QED
  BY FeedAlways, <1>1, PTL

\* The loop keeps its shape: no cause lies ahead, the feed keeps to its ring,
\* and the slots in use never outnumber the permits.
THEOREM AutomationTypes == Spec => []TypeOK
<1>1. Init => RangeInv
  BY AutomationAssumption DEF Init, RangeInv, FreeSlots, Never
<1> QED
  BY AutomationAlways, FeedAlways, RangeStep, RangesMakeTypes, <1>1, PTL DEF Spec
=============================================================================
