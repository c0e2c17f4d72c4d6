# SaaiOS runtime: TLA+ models, checks and proofs

SaaiOS puts an AI runtime between a user and a machine: a daemon
(`saaios-runtime`) takes requests over a Unix socket, asks a language model what
to do, lets the model call tools of the system, and has a policy engine decide
which of these calls may run, must be confirmed by the user, or never run. It
also watches the machine by itself and can start a diagnosis without being
asked. People reach it through a web console (Stage) and a terminal console. This
directory models the runtime, its store of facts, its start, its provider chain
and its consoles, model-checks them and proves most of what makes them
trustworthy.

## 1. Inventory

Paths are below `src/`.

| Part | State | Operations | Talks to |
|---|---|---|---|
| AI runtime, `crates/ai-runtime/src/lib.rs` | request slots (a semaphore), budgets; per request: messages, iteration, last causation | `handle_user_text_in_session`, `confirm_in_session`, `reset_chat_session`, `clear_session_grants` | everything below |
| Chat sessions, `conversation.rs` | session id -> messages, behind a (std) mutex | `get`, `save`, `append`, `reset`; window of 40 | AI runtime |
| Policy engine, `crates/policy-engine` | session grants, behind a mutex | `decide`, `grant_session`, `clear_session_grants` | AI runtime |
| Tool registry and system tools | fixed after start | `get`, `execute` | AI runtime, telemetry; the kill tool sends signals |
| Event bus, `crates/event-bus` | a broadcast ring of 64 envelopes | `publish_envelope`, `subscribe` | all tasks |
| Automation engine, `crates/automation-engine` | rules, last time each fired | `evaluate`, `apply`, its task | bus, audit log |
| Auto-diagnose worker, `services/saaios-runtime/src/main.rs` | the envelope in hand | its task | bus, AI runtime, feed, audit log |
| Event feed, `event_feed.rs` | a ring of 64 items | `push`, `tail`, its task | bus, worker |
| Telemetry, `crates/telemetry` | a counter | a sample every interval | tools, audit log, bus |
| UDS server, `main.rs` | per client: one read, one answer or a stream | `handle_client`, `handle_diagnose_stream` | AI runtime, memory, feed |
| Audit log, `crates/audit-log` | an append-only file of JSON lines | `append_envelope`, `read_all`, `replay` | everyone |
| Memory store, `crates/memory-store` | an append-only file with tombstones, a mutex for appends | `remember`, `recall`, `list_recent`, `forget` | tools, UDS server, AI runtime |
| Model provider, `crates/model-provider` | per completion: line buffer, text, tool calls so far; all completions of a request share its time | mock, HTTP/SSE, fallback chain | AI runtime |
| Web console, `crates/console-web` with `static/app.js` | one conversation slot behind a lock; per page: busy, the decision shown | diagnose (streamed), confirm, reset | UDS server |
| Terminal console, `crates/console-tui` | its conversation, the decision it waits for | diagnose, confirm, `/new` | UDS server |
| Configuration, `crates/config` | none | `resolve`: defaults, file, environment, command line | start-up |
| A/B slots, `deploy/ab/*.sh`, units, `ab_status.rs` | binaries, a link, a file, markers | install, switch, boot-ok, status | the boot |
| Init, `os/init/init.c` | brightness, keys held | keys, drawing, device set-up | the phone |

What is hard in it, and which properties are about it:

* **Concurrency without queues.** Clients are tasks of their own; requests take a
  slot or are refused, confirmations take none and run beside requests in the
  same session. Sessions, grants and slots are shared. Slots must not leak
  (`SlotsConserved`), a request must end whatever it waits for (`AdmittedEnds`; a tool
  that does not wait but blocks its thread is another matter:
  `RequestTimeoutEnforced`, violated), no reply of the model may keep it going round
  (`NoStepWasted`), sessions must hold finished turns only
  (`OnlyFinishedTurns`, `TurnsKept`) and be rewritten by nothing but a race
  (`OnlyRacesRewrite`), no interleaving may get a call past the
  policy (`DeniedNeverRuns`, `RunsAreAuthorised`, `ImplementsSupervision`).
* **Failure at every step.** Almost every line of a handler can end it (`?`), the
  timer drops it where it waits, the process may restart. The audit trail has to
  explain what happened anyway (`CausesExplain`, `ClosedTrail`, `RunsOnRecord`).
* **Two views of one value.** A session is read at the start of a request and
  written back at its end (`ConfirmedResultKept`, `ResetForgets`: both violated).
  The policy looks at a 64-bit pid, the tool sends to a 32-bit one, and so checks
  again what it sends to; the model narrows and checks as the tool does.
* **Unattended loops.** Rules fire on what the runtime itself publishes, over a bus
  that loses envelopes, and start requests that compete with users
  (`CooldownKept`, `Traceable`, `OutcomeOnce`, `FeedTellsInOrder`,
  `DiagnoseAnswered`).
* **A file shared without a lock for readers.** Appends to the store of facts hold a
  mutex, reads hold nothing, and an append may fail half-way or be killed
  (`ImplementsFacts`, `ForgottenStaysForgotten`, `UnreadableOnlyAfterFault`,
  `ReadErrorsExplained`).
* **A stream through queues that drop.** Pieces of a reply and events of the request
  reach a console through a pump, a bounded channel and a socket that nobody may
  be reading (`ShownInOrder`, `DoneTellsAll`, `AskEnds`).
* **One conversation slot for all pages.** It is written by a done frame, cleared by
  a reset, and read when a decision is confirmed (`QuietResetHolds`,
  `DecisionOfThisTalk`).
* **Fallback inside a time limit.** Providers fail before, in the middle of, or after
  an answer, or are slow; each has a timeout of its own, and all the completions of a
  request share one more with its tools (`AutoAnswers`, `AnswerShownLast`,
  `ReplyAsSent`).
* **Layers of settings.** Several switches ask for the mock in different ways
  (`MockStaysOffline`); that of the unit
  leaves the file no say, against its own comment (`ProviderInFileCounts`, violated).
* **Scripts cut off by a power loss** (`BootOkMeansHealthyStart`, violated).

`PROJECT.json` lists every component and every hazard with its line.

## 2. Modules

```
PolicyEngine   Conversation          EventBus       JsonLines
      \           /                      |              |
       AiRuntime                     Automation     MemoryStore
           |                             |              |
  AiRuntimeProperties         AutomationProperties  MemoryProperties -INSTANCE- KeyFacts
   |   |   -INSTANCE-              |         |         |          |
   |   |   SupervisedExecution MCAutomation  |      MCMemory   MemoryProofs
   |  AiRuntimeProofs                 AutomationProofs
   |     |         \
   |     |   SupervisionProofs        ProgressStream     Settings  ModelProvider   ABSlots
   |  AuthorityProofs                         |                \      /              |
 Replay      |                                |                 \    /               |
   |   \     |                             Consoles             Startup           MCSlots
   |   RecordProofs                           |                    |
MCAiRuntime                         ConsolesProperties     StartupProperties
                                       |         |            |         |
                                 MCConsoles ConsolesProofs MCStartup StartupProofs
```

* `PolicyEngine` -- `decide` as an operator on a call and the set of granted
  tools. A call is a tool's name, the pid it names and the suspicious phrase its
  arguments contain.
* `Conversation` -- the window of a session, `trim_messages`. A message is its
  kind and whose it is.
* `AiRuntime` -- the runtime, one action per stretch of a handler between
  points where another task can interfere. `pc` is where each handler is:

  | action | code (`ai-runtime/src/lib.rs`) |
  |---|---|
  | `Admit`, `Refuse` | `acquire_slot` |
  | `Accept` | the user's request is audited, the history read |
  | `ModelReply` | the provider answers: text and calls in any combination |
  | `ProposeCall`, `DecideCall` | the call and its verdict are audited |
  | `RecordDenial`, `AskUser`, `StartTool` ... `RecordResult` | the three verdicts |
  | `Complete`, `Persist` | the diagnosis; the history is saved, the slot freed |
  | `StartTool`, `FinishTool` | a tool that sleeps is "running" and can be dropped; one that runs commands is "blocked" until they return, if they do |
  | `Timeout`, `Abort` | the timer; an error at any `?` |
  | `Respond`, `Check`, `ConfirmedResult`, `AppendOutcome` | `confirm_in_session` |
  | `ChatReset`, `ClearGrants`, `Restart` | the other operations, a crash |

  An audit append is folded into the action it precedes: no handler reads the log
  back. `trail` keeps each handler's own records, with their causes; `ran` is the
  history of what its tools have carried out.
* `SupervisedExecution` -- what the runtime promises about running tools, without
  its control: at most so many requests are served, a tool runs under an approval,
  approvals come from the policy (for a request) or from a user's answer (for a
  confirmation, if the policy does not deny the call), and each is used once.
  `AiRuntimeProperties!Supervised` maps the runtime to it: the requests in flight
  are served, and an actor about to execute a call holds the approval of it.
* `Replay` -- `replay` of `audit-log`: what a reader of the log is told of a chain of
  records, among it which dangerous tools ran without a recorded yes. It is
  evaluated on the trail of each handler in `AiRuntime`'s states.
* `EventBus` -- where a receiver of a lossy broadcast stands.
* `Automation` -- telemetry and requests as publishers of envelopes, the automation
  engine, the auto-diagnose worker, the feed task and users who compete for
  slots. `log` is all that was ever published, `next` where each of the three
  receivers is, `missed` what the worker was told it lost.

  | action | code |
  |---|---|
  | `ForeignPublish` | `sample_once`, or a request's `publish_envelope` |
  | `LoseEnvelopes` | `RecvError::Lagged` |
  | `EngineReceive`, `EngineApply` | `evaluate` and `apply`, one rule at a time; a fire that cannot be audited is lost |
  | `FeedReceive` | `spawn_event_feed_worker` |
  | `WorkerReceive` ... `WorkerPush` | `spawn_auto_diagnose_worker` |

  A rule may wait for any event, those of other rules and of the worker among them;
  of the four actions `EmitEvent` publishes a name of its own (`Emitted`).
  The worker's request is reduced to its slot, what it publishes and how it ends;
  `AiRuntime` has the request in full. The module is one life of the process:
  everything here is in memory, so a restart is `Init`.
* `JsonLines` -- a file of JSON lines as append, open and `read_all` leave and see it:
  settled lines, and a tail without a newline, of which a reader sees the
  beginning (which does not parse) or all (which does). A line begun behind an
  unended one is glued to it.
* `MemoryStore` -- the store and its clients (connections, tools, prompts).

  | action | code (`memory-store/src/lib.rs`) |
  |---|---|
  | `Remember`, `Forget` | up to the call of `append`; `forget` has read the log |
  | `BeginAppend`, `EndAppend` | the mutex is taken and the line written, released |
  | `FailAppend`, `FailUnwritten` | `write_all` fails half-way, or at once |
  | `Recall`, `Recent` | `recall` with a query, and the limited lists |
  | `Restart` | the process is killed and `open`s the file again |

* `KeyFacts` -- what the store promises: a fact per key, an operation changes one key
  at once; an interrupted one may or may not have changed it, and may leave a
  store that can be read no more. `MemoryProperties!Facts` maps the file to it: the
  latest settled line of a key is its fact.
* `ProgressStream` -- a streamed diagnose from the model to the console's end of the
  socket. `task` is the request, `pieces` the unbounded queue that the pump
  empties, `channel` the bounded one (64), `handler` and `wire` the connection.

  | action | code |
  |---|---|
  | `Open` | `handle_diagnose_stream`, and the model is asked |
  | `Piece`, `Reply`, `Pump` | the delta callback, the end of the reply, the pump task |
  | `Step`, `Finish`, `Fail` | `emit_progress` after a reply, at the end; an error |
  | `Relay`, `WriteDone`, `Abandon` | the loop that writes frames; a write that fails |
  | `Kill` | the runtime is killed and started again |

* `Consoles` -- the pages of Stage with their one slot, and the terminal, on top of
  `ProgressStream`. `Forward` is `forward_diagnose_stream`, which writes the slot;
  `BeginReset`, `EndReset`, `PageResets` are `api_chat_reset`, which holds the slot's
  lock while the runtime works, and the page's end of it; `PageLeaves` is a reload,
  which drops the page's own reset where it waits: the runtime has reset, the slot
  is not cleared.
  The `Terminal...` actions are `run_loop`.
* `Settings` -- `resolve`: what wins for each setting.
* `ModelProvider` -- the completions of a request: `Complete`, `NextCompletion` and
  `PassOver` are the loop and the chain, `Chunk` and `StreamEnds` the SSE decoder
  (chunks end anywhere; one that ends inside a character damages a text, a name or
  arguments), `MockWord` and `MockAnswers` the mock. `Tick` lets time pass wherever a
  provider is asked, before its answer or amid it, `ToolsTake` between completions;
  `HttpTimesOut` and `RequestTimesOut` are the two timeouts, the latter over all of
  it.
* `Startup` -- `main`: tools and files, demo, `build_provider` with its health check,
  the workers, the socket; then completions.
* `ABSlots` -- the scripts, each a few steps, the units and the status. Only its
  violation is of interest, so it has no passing run.
* The `...Properties` modules state what must hold, `MC...` give the instances,
  `...Proofs` hold the proofs. Operators whose comment starts with "Mutant:" are
  plausible mistakes in the definition that follows them; each property is shown
  to fail with one of them in the definition's place.

## 3. Runs

| Run | Instance | States | Shows |
|---|---|---|---|
| `authority` | 1 request, 1 confirmation, 6 calls, 6 replies, 2 iterations, 1 slot | 102,335 | who may run a tool; the trail and its replay; the refinement; no step in a circle |
| `serial` | 3 requests in 1 session, 1 slot, window of 4, fair | 144,948 | turns are kept, no window starts with a result whose call is cut away, requests end |
| `shared_chat` | 2 requests and 1 confirmation in 1 session, 2 slots | 743,136 | sessions hold finished turns only, and only races rewrite them; slots |
| `automation` | 2 rules, one of which emits what the other waits for, 2 samples, bus of 2, feed of 3, 1 slot, 2 seconds, fair | 1,549,204 | the automation loop |
| `memory` | 2 clients, 2 keys, 2 values, 3 lines, symmetric | 41,878 | the file is a store of facts; forgetting; who may fail to read |
| `consoles` | 1 page and the terminal, 2 requests of 1 reply, queues of 1, fair | 325,536 | order and end of streams; decisions; resets |
| `startup` | 72 files, 2 environments, 17 command lines, 2 network providers, 4 scripts, 2 completions | 1,459,723 | mock means offline; the chain answers; streams decode to what was sent |
| `confirmed_result_lost` | 1 request, 1 confirmation | violation | a confirmed result is overwritten |
| `reset_undone` | 2 requests, 1 slot | violation | a reset is undone |
| `hung_tool` | 2 requests in 1 session, 1 slot, fair | violation | a tool that hangs holds its request beyond the timeout |
| `unit_provider` | as `startup` | violation | under the unit's environment the file's provider does not count |
| `slots` | 2 builds, one of which does not start | violation | BOOT_OK for a binary that never ran |

Why the bounds are enough:

* `authority`: pids are narrowed modulo 4, with pid 5 for those above 2^32 that
  become init's, 3 for the runtime's own and 1 for init itself; the calls cover
  low-risk, confirmable, hard-denied (and unknown), guarded by phrase and guarded
  by pid. A restart or a reset of the grants may come anywhere. What a call may do
  depends on grants and the call alone, so one request and one confirmation meet
  in every order; two would only repeat it.
* `serial`: with one iteration a turn has two messages, the question and the answer or a
  tool's result, or the question alone when a decision is pending. Three of them
  overflow a window of four, and the cut falls behind a question or behind a turn.
  Three is also the least number of turns in which one is cut, one is whole and
  one is being made.
* `shared_chat`: two requests and a confirmation are the least that overwrite
  each other in each of the orders, with a window (40) that never cuts.
* `automation`: two samples, what the first rule emits on the hot one, up to three
  diagnoses and their outcomes, on a bus that holds two, so each receiver lags at
  any place; the feed of three overflows. The second rule also waits for a failed
  diagnose, which only the prefix of the event's name keeps from firing it. Two
  seconds are enough for a cooldown to be over, to be not over, and to end between
  evaluation and application.
* `memory`: two clients are the least that interleave a `forget`'s read, another's
  append and the tombstone; three lines hold a fact, one of another key (or the
  same) and a tombstone, or a torn line with two behind it. The proofs lift all of
  these bounds.
* `consoles`: with queues of one place every second event is dropped, every write
  may have to wait, and the reply's own event and the last one compete with the
  pieces. Two requests are the least where a page's stream is overtaken by the
  terminal's or by the page's own next one after a reload. `DecisionOfThisTalk`
  speaks of the only open page, so one page is its instance; for the other
  properties the proofs lift the bounds.
* `startup`: a script with text on both sides of a line that is not understood, one with
  a call whose arguments come in two fragments, one with an empty piece and an empty
  name, and one whose call is never named; every cut of them into chunks. Request times
  below, equal to and above the provider's own (2), and two of those, so that one or
  both providers of `auto` may be slow or hang; two completions (`MaxIters`), so that one
  of them may be slow twice and the tools between them take time as well. The mock's
  pauses of 8 ms a word are less than a tick each and taken to stay below one in all.

Bounds in the model: `MaxLines` (lines ever started) in `MemoryStore`; `MaxAsks` and
`MaxPieces` in `ProgressStream`; `Files`, `Envs`, `Clis`, `Scripts` and `MaxCall` in
`Startup` (`MaxIters` is the code's `max_tool_iters`, 6); `MaxForeign` (envelopes published from outside) and
`MaxTime` in `Automation`; `Request` and `Confirm` are finite sets each member
of which is used once. Everything else is a parameter of the code.

**Fairness.** `AiRuntime!FairSpec` assumes weak fairness of what a request does
without waiting (the tokio scheduler polls a ready task) and of `Timeout` (a
timer fires where the handler waits). Nothing is assumed of the model, of clients or
of tools. A tool that sleeps is cut off by the timer; one that runs a command runs it
inside a poll (`system-tools/src/lib.rs` 371, 466, 578-585, 603, 657), holds its thread,
and may never return: no timer reaches it. Its request then never ends
(`RequestTimeoutEnforced`, violated), and with the threads of the scheduler held
the others need not end either; so `AdmittedEnds` says that all requests end, or some
tool hangs. Confirmations have no timer at all, and nothing is claimed of them.
`Automation!FairSpec` assumes weak fairness of the worker's steps, the end of its
request among them: that is `AdmittedEnds`, if none of its tools hangs, and
`DiagnoseAnswered` rests on that, as does `AskEnds`.
`ConsolesProperties!FairSpec` assumes weak fairness of the runtime's tasks (a
request that waits for the model is ended by its timer, `Fail`), of its
connections, of the end of a reset and of the terminal's reading, which are all
tasks or loops that wait for nothing else. Stage's forwarding waits for the
slot's lock, which resets may take again and again; a tokio mutex is granted in
the order of asking, so a task that waits gets it although it is free only now
and then: strong fairness of `Forward` and `ForwardEnds`. What people do is never
assumed.

**What the violations say.** `docs/platform-0.5-streaming.md` promises that a
confirmed result is in the session for the next turn, and that `/new` clears a
session. Both hold only if no request is in flight in that session: a request
reads the history once and saves all of it at its end. How far they do hold is
`OnlyRacesRewrite`, proved as `OnlyRacesRewriteChats`: as long as every request
in flight in a session read the same of a turn as the session holds now, the turn
is neither lost (but to a reset, a restart or the window) nor, once gone, brought
back.
`docs/platform-0.2.md:22-27` says that the runtime enforces a request timeout of 30 s;
`hung_tool` shows a request in a tool that blocks and does not return.
The comment in the systemd unit beside `SAAIOS_MOCK=true` says to override the provider
in the toml file, and `docs/appliance.md:46-48` to edit that file for the provider; but the
variable is the flag `--mock`, which is applied after the file: whatever the file names,
the unit serves with the mock. `MockStaysOffline` holds for just that reason, so
the two are to be read together: the switch is safe, and the unit's comment wrong.
`boot-ok.sh:2` marks a slot "after a healthy start", but the unit starts
`/usr/local/bin/saaios-runtime` whichever slot is current: the binary in the slot,
half-written after a power loss, is marked without ever having run.

## 4. Proofs

All for every value of the constants under the named assumptions
(`ActorAssumption`, `BudgetAssumption`, `ReplyAssumption`, `CallAssumption`,
`ToolSpecAssumption`, `MaxMessagesAssumption`; `BusAssumption`,
`RulesAssumption`, `AutomationAssumption`; `TextAssumption`, `FactAssumption`; `StreamAssumption`,
`PageAssumption`; `RegistryAssumption`; the assumptions of `Settings`, `ModelProvider`
and `Startup`): any
set of requests, confirmations, sessions, calls and replies, any budgets, any
rules and capacities, any clients (finitely many), keys and values, any number of
pages, requests and replies, any settings and scripts. The specifications are
those without fairness.

| Theorem | Module | Property |
|---|---|---|
| `TypeCorrect` | `AiRuntimeProofs` | `TypeOK` |
| `AuthorityKept` | `AuthorityProofs` | `AuthorityInv`, the inductive invariant of the next two |
| `DeniedCallsNeverRun` | `AuthorityProofs` | `DeniedNeverRuns` |
| `NoRunWithoutTheUsersWord` | `AuthorityProofs` | `RunsAreAuthorised` |
| `SlotsAreConserved` | `SupervisionProofs` | `SlotsConserved` |
| `RuntimeIsSupervised` | `SupervisionProofs` | `ImplementsSupervision` (a refinement) |
| `NoStepIsWasted` | `SupervisionProofs` | `NoStepWasted` |
| `OneAtATimeKeepsTurns` | `SupervisionProofs` | `TurnsKept` (for `MaxConcurrent = 1`, no confirmations) |
| `CausesAlwaysExplain` | `RecordProofs` | `CausesExplain` |
| `RunsAreOnRecord` | `RecordProofs` | `RunsOnRecord` |
| `TrailsAreClosed` | `RecordProofs` | `ClosedTrail` |
| `ChatsHoldFinishedTurns` | `RecordProofs` | `OnlyFinishedTurns` |
| `OnlyRacesRewriteChats` | `RecordProofs` | `OnlyRacesRewrite` |
| `WindowHasNoOrphan` | `RecordProofs` | `NoOrphanResult` |
| `ReplayTellsTheTruth` | `RecordProofs` | `ReplayTruthful` |
| `CooldownsAreKept` | `AutomationProofs` | `CooldownKept` |
| `ActsAreTraceable` | `AutomationProofs` | `Traceable` |
| `OneOutcomeEach` | `AutomationProofs` | `OutcomeOnce` |
| `FeedIsInOrder` | `AutomationProofs` | `FeedTellsInOrder` |
| `AutomationTypes` | `AutomationProofs` | `TypeOK` |
| `Typing` | `MemoryProofs` | `TypeOK` |
| `LostOnlyAfterFault` | `MemoryProofs` | `UnreadableOnlyAfterFault` |
| `ErrorsExplained` | `MemoryProofs` | `ReadErrorsExplained` |
| `ForgottenForGood` | `MemoryProofs` | `ForgottenStaysForgotten` |
| `FileImplementsFacts` | `MemoryProofs` | `ImplementsFacts` (a refinement) |
| `StaysOffline` | `StartupProofs` | `MockStaysOffline` |
| `AutoEnds` | `StartupProofs` | `AutoAnswers` |
| `StartTypes` | `StartupProofs` | `TypeOK` |
| `RepliesAreAsSent` | `StartupProofs` | `ReplyAsSent` |
| `AnswersAreShownLast` | `StartupProofs` | `AnswerShownLast` |
| `TypesOfConsoles` | `ConsolesProofs` | `TypeOK` |
| `StreamsAreShownInOrder` | `ConsolesProofs` | `ShownInOrder` |
| `OutcomesTellAll` | `ConsolesProofs` | `DoneTellsAll` |
| `QuietResetsHold` | `ConsolesProofs` | `QuietResetHolds` |
| `DecisionsStayInTheirTalk` | `ConsolesProofs` | `DecisionOfThisTalk` |

* *Types.* `TypeOK` is inductive as it stands because it says of each place in a
  handler what it needs there: a call in hand, a session. Proved action by action;
  `Trimmed` is shown to keep the type of its messages.
* *Authority.* That no denied call ran is not inductive: what runs was decided a
  step earlier, by grants that have changed since. `AuthorityInv` adds that every
  grant goes back to a recorded session-wide yes (records are never taken back:
  `FirstsKept`), that a confirmation past its answer works on the call it was
  answered for, and that a call *about to* run is cleared. Then running it keeps
  the invariant; deciding or checking it establishes the clearance; clearing the
  grants and restarting disturb neither.
* *Slots.* The sum of free permits and requests in flight needs the set of those
  requests to be finite, which `SlotsInv` carries along. A step takes a slot,
  gives one back, or leaves both sides alone: three lemmas, and one line for
  each action.
* *Supervision.* Every action is a step of `SupervisedExecution` or leaves its
  state alone. An approval is the moment between the verdict (or the user's
  answer) and the start of the tool; `AuthorityInv` says that what is approved is
  cleared, `SlotsInv` that no more requests are served than there are slots, and
  `FreshInv` that a confirmation that has not reached its tool has run nothing,
  so that each approval is used once.
* *No step wasted.* The measure of a request is: replies left of the budget, calls left
  of the reply, steps left for the call. `BudgetInv` says that the budget is looked at
  before each reply, so the first part cannot fall below zero. It is the safety half
  of `AdmittedEnds`: a request cannot work for ever, only wait or be held up by a tool,
  and what it waits for the timer covers.
* *One at a time.* A saved turn can be overwritten by a second request of the
  same session, or by a confirmation, which takes no slot (`confirmed_result_lost`).
  `KeptInv` says that what a session holds was there when the request in flight read
  it; with one permit, `SlotsInv` leaves no second request to write in between, so
  the session is only ever extended.
* *Causes.* `ThreadInv` says, for each place of a handler, which record `cause` points
  at: the proposal while the call is decided, the decision or the user's yes
  while it runs. The next record then follows from the right one, and the earlier
  records are not touched (`AppendExplained`).
* *Runs on record.* `AccountsInv` compares the number of runs with the number of
  results in the trail: equal wherever a handler stands, but for the one run that
  is under way; a handler that was cut off is at most that one ahead.
* *Closed chains.* `ChainInv` says how much of the end of a trail is still open at each
  place: nothing, the proposal, or the proposal and its decision; everything before
  is closed and stays closed (`AppendClosed`).
* *Chats.* `FinishedInv` says that a session's messages, and those a request has
  read of it, tell of handlers that came back with an outcome or of that request itself;
  a result among them is in the trail of its handler, which is where `ThreadInv`
  comes in. `WindowInv` says that no window starts with a result. For the trimmed one
  (`TrimmedWindow`) the number of results at the front is the place of the last of
  them, so what is dropped ends exactly before the first other message: a fact
  about finite sets that needs no induction over the sequence.
* *Races.* A save writes what its request read, cut to the window, and what it adds is
  its own; so if the session and all that was read of it agree about a turn
  (`InAll`: they have it, `InNone`: they have not), they agree after the step. A
  request that starts reads the session as it is, so it agrees as well; that is what
  the mutant `AcceptAlone`, which starts with an empty history, breaks. Only the cut
  of the window can take a turn away; `WindowInv` and the sizes of what a request
  has in hand say when it can come to that (`WindowFull`).
* *Replay.* `TruthInv` says that what is in hand, what ran and what is asked for has been
  proposed in the request's own trail, and that nothing is decided as "ask" before
  the trail's end. A call that needed a confirmation and ran is then among the
  proposed ones (for a confirmation: it is the pending call, by `AuthorityInv`), so the
  replay's list has its tool. That is where `RegistryAssumption` comes in: of the tools
  that `install_system_tools` registers only the kill needs a confirmation, and it is
  on the list. A second tool of that kind that nobody adds to the list breaks the
  assumption, and the property with it.
* *Automation.* For the engine, `DueInv` says that a rule evaluated to fire is out
  of its cooldown and matches the envelope read last, which is no Automation event,
  and `FiredInv` that a fire in the log goes back to such an envelope and that
  `lastFired` is no earlier than any fire in the log; the cooldown follows when the
  fire is applied, however much later. For the worker, `BehindInv` says that all
  it has answered or lost lies behind it, and `ItemInv` that the event it deals
  with is the last it read and has no outcome. That it passes over none
  (`NonePassedOver`) is inductive beside them: whatever the worker reads and does not
  take up asks for no diagnose, and what it lays down it has published an outcome
  of, the refusal of a busy runtime among them. `FeedInv` leads what is
  shown back to the bus: every item is a published event, the rule events among
  them lie behind the place where the feed task reads, and what the worker reports
  is an outcome; so whatever is pushed next is later than what it must follow. For
  the types, `RangeInv` bounds every index by the length of the log and every time
  by the clock.
* *Memory.* `FileInv` says what is visible of a line while it is written, and that
  without a fault the line is what its owner has in hand; `RoomInv` counts the
  appends under way, so that each finds its line. `ForgottenInv` puts a tombstone
  behind every fact of a forgotten key, not only in front of the reader: this is
  what survives another client's `remember` between the read and the write of a
  `forget`. The refinement goes by cases of whether the store is lost before and
  after a step: an append that ends changes one key, one that is cut may, and a
  lost store stays lost.
* *Start and provider.* `MockInv` follows the mock from whichever layer asked for it to
  a chain that holds nothing else. `AutoInv` bounds the time of the request by the own timeout of each
  provider that took time, in every completion so far, and the time of the tools; the
  mock at the end of the chain does not fail. `TypesInv` adds
  to `TypeOK` what each place of the request needs: a chain that is not empty, lines
  of a script.
* *Replies.* `Said`, `CallsUpTo` and `Accumulated` are recursive functions of the number of
  lines. That each is what its equations say, and a sequence, is shown without an
  induction rule: a set of numbers that is not empty has a least element (`Least`, from
  `NatLessThanWellFounded`), so a statement that goes from each number to the next holds
  from where it starts (`Upwards`), and a function on 0..n that is given by a step
  exists (`Recursion`). `StreamInv` then says that what is parsed so far is what the
  complete lines say, up to the damaged ones. `ShownInv` keeps the pieces of the provider
  that is asked behind those of the ones before it, which all have an earlier place,
  and equal to its text.
* *Consoles.* What is on its way to a console is one sequence, `wire \o channel`, which
  changes at its two ends only. `OrderInv` adds what may still be put behind it:
  the pieces in the queue are of the reply under way, and as long as there are
  any, everything before them is older. `ListedInv` says that the events so far are
  1, 2, ... up to the reply; dropping touches the channel only. `DeliveredInv` follows
  the outcome once it is written: it is the last frame of an ordered wire, so who
  takes a frame takes progress and leaves the outcome where it is, or takes it all;
  `HandsInv` says that each request is in the hands of one console, so nobody else
  empties them. `QuietInv` says that
  no forwarded request has, or will open, a conversation that was reset in quiet
  (one whose page left amid its reset is none),
  and `NamedInv` that a done frame names one of these two; the lock, held over a
  reset, keeps a new request from reading the slot in between. `TalkInv` goes from the
  frame that asks for a decision to the click: `BoxInv` keeps unused requests out of
  the consoles' hands and names the conversation of what came for a request;
  `AskingInv` says that while the only page asks and nothing overlaps it, Stage
  forwards no other stream; `DecisionInv` that, while the decision is shown, every
  stream Stage forwards goes on in its conversation, so the slot keeps naming it.

## 5. Model-checked only

`AdmittedEnds`, `DiagnoseAnswered` and `AskEnds` are liveness properties under fairness:
out of the prover's reach, they rest on the instances above. Of each the half that is
safety is proved.
For `AdmittedEnds` it is `NoStepIsWasted`: a request does not go round. For
`DiagnoseAnswered` it is `OneOutcomeEach`: the worker passes over no event that asks
for a diagnose, so what is unanswered is before it or in its hand. For `AskEnds` it is
`OutcomesTellAll`: what was written of an outcome is not lost before who waits has
it. What is left to fairness is that the request, the worker and the forwarding task
go on. Every other property of a passing run is a theorem. What is claimed of the
A/B slots is violated, so there is nothing to prove of them.

## 6. Not modelled, and what the models leave out

Not modelled: kernel patches, boot images, vendored code, drawing and device set-up
of the phone image (`init.c`: a program of its own, whose keys set the brightness,
reboot or power off and share nothing with the runtime). Text:
prompts, answers, how a summary is found in a reply. What the read-only tools find
in `/proc`. The numbers behind a rule's threshold. The read-only operations
(`Status`, `EventsTail`, `AuditTail`). The mock planner, a demo.

Abstractions a reader should know of:

* Requests are read whole (the server reads once, 64 KiB at most); a pid that is used
  again between a confirmation and its kill is one pid; a second runtime that
  removes the first one's socket (`main.rs:482`) is not started.
* `QuietResetHolds` exempts a reset whose page leaves while the runtime works: Stage
  drops it where it waits (`console-web/src/main.rs:349-353`), the runtime's session is gone and
  the slot still names it. `RunsAreAuthorised` asks for a recorded yes, and a yes stays
  on record when the grants are cleared or the runtime is restarted: that `ClearGrants`
  and `Restart` empty the grants is in the actions, not in the property.
* Two things happen in the models that nothing promises to be otherwise. The outcome of
  a diagnose enters the feed twice, from the worker (`main.rs:597-603`, 620-626) and from
  the feed task that reads it off the bus. The tools are chosen by `real_linux` alone
  (`main.rs:331-335`), so `--mock` with `real_linux` in the file gives the mock model the
  real tools; `README.md:111` wants that combination for `just run-linux`, although the
  help of `--mock` speaks of mock tools.
* `EmitEvent` rules with a name that begins with "Automation" and is none of the engine's
  own are left out (the engine would pass their events over, the feed show them); no
  rule in the repository uses `EmitEvent` at all. A document whose text is empty and one
  without text are one.
* `DecisionOfThisTalk` exempts a request whose stream was overlapped by a reset or by
  another request of a page that left: there the slot may name another
  conversation when the click comes (`console-web/src/main.rs:484`). A click and
  the reading of the slot are one step. Stage's own channel of 64 chunks is part of the wire. The end of a
  connection without a done frame is one event, whatever error the console makes
  of it. `Rounds` is 1 in the run; the proofs are for any number.
* A power cut loses nothing that was written: flushing is not `fsync`, and the
  models of files are of a process that is killed. After a torn line the store of
  facts and the audit log cannot be read again; nothing repairs them, and
  `ImplementsFacts` says no more than that.
* A local provider's health is asked once, at start; nothing in code or docs
  promises more. The auto-diagnose worker is started with automation off
  (`main.rs:432`) and then has nothing to do.
* A clock only goes forward. `Automation` is one life of the process.

## 7. What could be added

A settable clock in `Automation`. Scripts that use the slots they install, if the units ever do.
