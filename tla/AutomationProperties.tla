------------------------ MODULE AutomationProperties ------------------------
(***************************************************************************)
(* What the automation engine, the auto-diagnose worker and the event feed *)
(* owe the user of a machine that runs them unattended.                    *)
(***************************************************************************)
EXTENDS Automation

Name == Foreign \cup Emitted \cup RuleEvent \cup OutcomeEvent

Entry == [event : RuleEvent \cup OutcomeEvent \cup {"AutoDiagnoseStarted"},
          of : DOMAIN log]

\* Every variable has the shape the code's types give it; the feed never
\* outgrows its ring, the slots in use never outnumber the permits.
TypeOK ==
  /\ \A i \in DOMAIN log :
       /\ log[i].event \in Name
       /\ log[i].rule \in {0} \cup DOMAIN Rules
       /\ log[i].cause \in 0..(i - 1)
       /\ log[i].at \in 0..now
  /\ next \in [Receiver -> 1..(Len(log) + 1)]
  /\ missed \subseteq DOMAIN log
  /\ now \in 1..MaxTime
  /\ lastFired \in [DOMAIN Rules -> 0..now]
  /\ due \subseteq DOMAIN Rules
  /\ worker \in {"idle", "starting", "running", "completed", "failed",
                 "reported"}
  /\ item \in 0..Len(log)
  /\ users \in Nat /\ FreeSlots \in Nat
  /\ feed \in Seq(Entry) /\ Len(feed) <= FeedCapacity

\* Two fires of one rule are at least its cooldown apart, whatever the engine
\* was doing between evaluating a fire and applying it ("Minimum seconds
\* between firings of this rule").
CooldownKept ==
  \A i, j \in Fires :
    i < j /\ log[i].rule = log[j].rule =>
      log[j].at >= log[i].at + Rules[log[i].rule].cooldown

\* Each automatic act can be traced to what set it off: an outcome to the
\* AutomationAutoDiagnose event it answers, what a rule fired to an envelope the
\* rule waits for.  That is never an Automation event, although rules may wait for
\* those and for what other rules emit: a diagnose, its outcome or a notice sets
\* off nothing.
Traceable ==
  /\ \A i \in Published(OutcomeEvent) :
       log[log[i].cause].event = "AutomationAutoDiagnose"
  /\ \A i \in Fires :
       /\ log[i].event = Rules[log[i].rule].action
       /\ log[log[i].cause].event \in Rules[log[i].rule].trigger
       /\ ~IsAutomation(log[log[i].cause])

Outcomes(i) == {j \in Published(OutcomeEvent) : log[j].cause = i}

\* The feed is read in order: the events of the bus as they were published,
\* and the start of a diagnose before its outcome, although two tasks write
\* into it.
FeedTellsInOrder ==
  \A p, q \in DOMAIN feed :
    p < q =>
      /\ {feed[p].event, feed[q].event} \subseteq RuleEvent =>
           feed[p].of < feed[q].of
      /\ feed[q].event = "AutoDiagnoseStarted" =>
           feed[p].of \notin Outcomes(feed[q].of)

\* The i-th envelope asks for no diagnose, or it has its outcome, or is lost.
Answered(i) ==
  i \in Published({"AutomationAutoDiagnose"}) =>
    i \in missed \/ Outcomes(i) # {}

\* An event the worker has taken up and not reported on.
InHand(i) ==
  item = i /\ worker \in {"starting", "running", "completed", "failed"}

NoSecondOutcome ==
  \A i, j \in Published(OutcomeEvent) :
    /\ i # j => log[i].cause # log[j].cause
    /\ log[i].cause \notin missed

NonePassedOver ==
  \A i \in DOMAIN log : i < next["worker"] => Answered(i) \/ InHand(i)

\* An AutomationAutoDiagnose event is answered once: never twice, nor if the
\* worker lost it; and the worker passes over none, be the runtime busy or
\* the diagnose a failure: one that lies behind it has its outcome, was lost,
\* or is the one in hand.
OutcomeOnce == NoSecondOutcome /\ NonePassedOver

\* An AutomationAutoDiagnose event on the bus gets an outcome, if only that
\* the runtime was busy, unless the worker fell so far behind that it lost it
\* (or a tool of its diagnose hangs: DiagnoseEnd is fair here).
\* The run publishes finitely many envelopes, so all of them are answered
\* in the end.
DiagnoseAnswered == []<>(\A i \in DOMAIN log : Answered(i))
=============================================================================
