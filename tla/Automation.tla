----------------------------- MODULE Automation -----------------------------
(***************************************************************************)
(* What happens in the runtime without a user: envelopes published on the  *)
(* bus by telemetry and requests, the automation engine that fires rules   *)
(* on them, the worker that answers an AutomationAutoDiagnose event with a *)
(* diagnose request of its own, and the feed of recent events.  The three  *)
(* are tasks of their own, each with its own place in the bus.             *)
(*                                                                         *)
(* The request is reduced to the slot it takes, what it publishes and how  *)
(* it ends; AiRuntime.tla has it in full, and shows that it does end if    *)
(* none of its tools hangs.                                                *)
(*                                                                         *)
(* This is one life of the process: the bus, the cooldowns and the feed    *)
(* are in memory, so a restart is Init again.  Time is Utc::now(), taken   *)
(* not to be set back or forward.                                          *)
(***************************************************************************)
EXTENDS EventBus, FiniteSets

CONSTANTS
  Foreign,        \* what telemetry and requests publish
  Emitted,        \* the names that EmitEvent rules give their events
  Rules,          \* the enabled rules in order: [trigger, action, cooldown]
  FeedCapacity,   \* EventFeed::capacity, after max(1)
  MaxConcurrent,  \* request slots
  MaxForeign,     \* bound: envelopes published by telemetry and requests
  MaxTime         \* bound: last second of the clock

RuleEvent == {"AutomationNotify", "AutomationSuggestDiagnose",
              "AutomationAutoDiagnose"}
OutcomeEvent == {"AutomationDiagnoseCompleted", "AutomationDiagnoseFailed"}

\* A rule may wait for any event.  An EmitEvent rule gives its event a name of
\* its own that does not begin with "Automation", or that of a RuleEvent: it is
\* then as a rule of that kind.
ASSUME RulesAssumption ==
  /\ (Foreign \cup Emitted) \cap (RuleEvent \cup OutcomeEvent) = {}
  /\ Rules \in Seq([trigger : SUBSET (Foreign \cup Emitted \cup RuleEvent \cup OutcomeEvent),
                    action : RuleEvent \cup Emitted, cooldown : Nat])

ASSUME AutomationAssumption ==
  FeedCapacity \in Nat \ {0} /\ MaxConcurrent \in Nat \ {0} /\ MaxTime \in Nat \ {0}

Receiver == {"engine", "worker", "feed"}

VARIABLES
  log,        \* the envelopes published so far
  next,       \* the envelope each receiver reads next
  missed,     \* what the worker was told it lost (history)
  now,        \* Utc::now() in seconds, from 1
  lastFired,  \* CooldownState::last_fired, 0 for a rule that never fired
  due,        \* rules evaluated to fire and not applied yet
  worker,     \* where the auto-diagnose worker is
  item,       \* the envelope it is dealing with
  users,      \* slots held by users' requests
  feed        \* EventFeed::items

vars == <<log, next, missed, now, lastFired, due, worker, item,
          users, feed>>

Never == 0

\* The events whose names begin with "Automation".
IsAutomation(env) == env.event \in RuleEvent \cup OutcomeEvent

-----------------------------------------------------------------------------
(* Helpers *)

\* An envelope; `rule` and `at`, the time the rule fired, are kept for the
\* engine's own.
Envelope(event, rule, cause, at) ==
  [event |-> event, rule |-> rule, cause |-> cause, at |-> at]

Publish(env) == log' = Append(log, env)

Published(event) == {i \in DOMAIN log : log[i].event \in event}

\* What telemetry and requests have published, and what the rules have.
Samples == {i \in Published(Foreign) : log[i].rule = 0}
Fires == {i \in DOMAIN log : log[i].rule # 0}

Read(w) == next' = [next EXCEPT ![w] = @ + 1]

\* Mutant: the new item goes in at the end items are taken from.
PushedInFront(items, entry) ==
  IF Len(items) >= FeedCapacity THEN <<entry>> \o Tail(items)
  ELSE <<entry>> \o items

\* Mutant: the ring holds one item more.
PushedPastCapacity(items, entry) ==
  IF Len(items) > FeedCapacity THEN Append(Tail(items), entry)
  ELSE Append(items, entry)

\* EventFeed::push: the oldest item makes room.
Pushed(items, entry) ==
  IF Len(items) >= FeedCapacity THEN Append(Tail(items), entry)
  ELSE Append(items, entry)

InCooldown(k) ==
  lastFired[k] # Never /\ now < lastFired[k] + Rules[k].cooldown

\* AutomationEngine::evaluate: the rules that are to fire on envelope i.
Due(i) ==
  {k \in DOMAIN Rules : log[i].event \in Rules[k].trigger /\ ~InCooldown(k)}

\* The event of rule k, fired on the envelope the engine has read last.
Fire(k) == Envelope(Rules[k].action, k, next["engine"] - 1, now)

IsFirst(k) == \A j \in due : k <= j

FreeSlots == MaxConcurrent - users - IF worker = "running" THEN 1 ELSE 0

-----------------------------------------------------------------------------
Init ==
  /\ log = <<>>
  /\ next = [w \in Receiver |-> 1] /\ missed = {}
  /\ now = 1 /\ lastFired = [k \in DOMAIN Rules |-> Never]
  /\ due = {}
  /\ worker = "idle" /\ item = 0 /\ users = 0
  /\ feed = <<>>

\* A telemetry sample, or an envelope of a request: a user's, or the
\* worker's own, which the engine sees like any other.
ForeignPublish(event) ==
  /\ Cardinality(Samples) < MaxForeign
  /\ Publish(Envelope(event, 0, 0, 0))
  /\ UNCHANGED <<next, missed, now, lastFired, due, worker, item,
                 users, feed>>

\* RecvError::Lagged: the receiver loses what was overwritten.
LoseEnvelopes(w) ==
  /\ w = "engine" => due = {}
  /\ w = "worker" => worker = "idle"
  /\ Lagged(log, next[w])
  /\ next' = [next EXCEPT ![w] = Oldest(log)]
  /\ missed' = IF w = "worker" THEN missed \cup next[w]..(Oldest(log) - 1)
               ELSE missed
  /\ UNCHANGED <<log, now, lastFired, due, worker, item, users, feed>>

-----------------------------------------------------------------------------
(* AutomationEngine *)

\* Mutant: the names of events are not looked at.
EngineReceiveAny ==
  /\ due = {}
  /\ Readable(log, next["engine"])
  /\ Read("engine")
  /\ due' = Due(next["engine"])
  /\ UNCHANGED <<log, missed, now, lastFired, worker, item, users, feed>>

\* An envelope is evaluated against every rule; events whose names begin with
\* "Automation" are passed over, those of EmitEvent rules are not.
EngineReceive ==
  /\ due = {}
  /\ Readable(log, next["engine"])
  /\ Read("engine")
  /\ due' = IF IsAutomation(log[next["engine"]]) THEN {}
            ELSE Due(next["engine"])
  /\ UNCHANGED <<log, missed, now, lastFired, worker, item, users,
                 feed>>

\* Mutant: the rule is marked with the time its trigger was evaluated, here
\* one second ago.
EngineApplyMarksEarly(k) ==
  /\ k \in due /\ IsFirst(k)
  /\ lastFired' = [lastFired EXCEPT ![k] = now - 1]
  /\ Publish(Fire(k))
  /\ due' = due \ {k}
  /\ UNCHANGED <<next, missed, now, worker, item, users, feed>>

\* AutomationEngine::apply, in the order of the rules: the cooldown starts
\* first; an event that cannot be audited is not published, and lost.
EngineApply(k) ==
  /\ k \in due /\ IsFirst(k)
  /\ lastFired' = [lastFired EXCEPT ![k] = now]
  /\ Publish(Fire(k)) \/ UNCHANGED log
  /\ due' = due \ {k}
  /\ UNCHANGED <<next, missed, now, worker, item, users, feed>>

-----------------------------------------------------------------------------
(* The event feed worker *)

FeedReceive ==
  /\ Readable(log, next["feed"])
  /\ Read("feed")
  /\ LET env == log[next["feed"]]
     IN  feed' = IF IsAutomation(env)
                 THEN Pushed(feed, [event |-> env.event, of |-> next["feed"]])
                 ELSE feed
  /\ UNCHANGED <<log, missed, now, lastFired, due, worker, item,
                 users>>

-----------------------------------------------------------------------------
(* The auto-diagnose worker *)

\* A request for a diagnose is shown in the feed and taken up.
WorkerReceive ==
  /\ worker = "idle"
  /\ Readable(log, next["worker"])
  /\ Read("worker")
  /\ IF log[next["worker"]].event = "AutomationAutoDiagnose"
     THEN /\ worker' = "starting"
          /\ item' = next["worker"]
          /\ feed' = Pushed(feed, [event |-> "AutoDiagnoseStarted",
                                   of |-> next["worker"]])
     ELSE UNCHANGED <<worker, item, feed>>
  /\ UNCHANGED <<log, missed, now, lastFired, due, users>>

\* Mutant: a diagnose that finds no slot is given up without a word.
WorkerBeginGivesUp ==
  /\ worker = "starting"
  /\ worker' = IF FreeSlots > 0 THEN "running" ELSE "idle"
  /\ UNCHANGED <<log, next, missed, now, lastFired, due, item,
                 users, feed>>

\* handle_user_text takes a slot, or fails at once: the runtime is busy.
WorkerBegin ==
  /\ worker = "starting"
  /\ worker' = IF FreeSlots > 0 THEN "running" ELSE "failed"
  /\ UNCHANGED <<log, next, missed, now, lastFired, due, item,
                 users, feed>>

DiagnoseEnd(how) ==
  /\ worker = "running"
  /\ worker' = how
  /\ UNCHANGED <<log, next, missed, now, lastFired, due, item,
                 users, feed>>

\* What the worker tells the bus, caused by the event it answers.
Outcome ==
  Envelope(IF worker = "completed" THEN "AutomationDiagnoseCompleted"
           ELSE "AutomationDiagnoseFailed", 0, item, 0)

\* The outcome is published whether or not it could be audited.
WorkerReport ==
  /\ worker \in {"completed", "failed"}
  /\ Publish(Outcome)
  /\ item' = Len(log) + 1
  /\ worker' = "reported"
  /\ UNCHANGED <<next, missed, now, lastFired, due, users, feed>>

\* Mutant: a diagnose that failed is tried again.
WorkerPushRetries ==
  /\ worker = "reported"
  /\ feed' = Pushed(feed, [event |-> log[item].event, of |-> item])
  /\ IF log[item].event = "AutomationDiagnoseFailed"
     THEN worker' = "starting" /\ item' = log[item].cause
     ELSE worker' = "idle" /\ UNCHANGED item
  /\ UNCHANGED <<log, next, missed, now, lastFired, due, users>>

\* The worker puts the outcome in the feed itself as well.
WorkerPush ==
  /\ worker = "reported"
  /\ feed' = Pushed(feed, [event |-> log[item].event, of |-> item])
  /\ worker' = "idle"
  /\ UNCHANGED <<log, next, missed, now, lastFired, due, item, users>>

-----------------------------------------------------------------------------
(* Users and time *)

UserBegin ==
  /\ FreeSlots > 0
  /\ users' = users + 1
  /\ UNCHANGED <<log, next, missed, now, lastFired, due, worker,
                 item, feed>>

UserEnd ==
  /\ users > 0
  /\ users' = users - 1
  /\ UNCHANGED <<log, next, missed, now, lastFired, due, worker,
                 item, feed>>

Tick ==
  /\ now < MaxTime
  /\ now' = now + 1
  /\ UNCHANGED <<log, next, missed, lastFired, due, worker, item,
                 users, feed>>

-----------------------------------------------------------------------------
Next ==
  \/ \E event \in Foreign : ForeignPublish(event)
  \/ \E w \in Receiver : LoseEnvelopes(w)
  \/ EngineReceive
  \/ \E k \in DOMAIN Rules : EngineApply(k)
  \/ FeedReceive
  \/ WorkerReceive \/ WorkerBegin
  \/ \E how \in {"completed", "failed"} : DiagnoseEnd(how)
  \/ WorkerReport \/ WorkerPush
  \/ UserBegin \/ UserEnd
  \/ Tick

Spec == Init /\ [][Next]_vars

\* What the worker does next; its request ends if none of its tools hangs.
WorkerStep ==
  \/ LoseEnvelopes("worker")
  \/ WorkerReceive
  \/ WorkerBegin
  \/ \E how \in {"completed", "failed"} : DiagnoseEnd(how)
  \/ WorkerReport
  \/ WorkerPush

FairSpec == Spec /\ WF_vars(WorkerStep)
=============================================================================
