------------------------- MODULE ConsolesProperties -------------------------
(***************************************************************************)
(* What the consoles may rely on.                                          *)
(***************************************************************************)
EXTENDS Consoles

\* Fairness: something that the runtime's tasks can do is done, a request that
\* waits being timed out (so none of its tools hangs: AdmittedEnds of the
\* request's own module); its connections are served; Stage forwards and
\* answers resets; the terminal reads.  The slot's lock is granted in the order
\* it was asked for (tokio), so resets one after the other do not keep a done
\* frame waiting: strong fairness.  What people do (ask, confirm, reset, leave)
\* is never assumed.
Tasks == \E a \in Ask : Reply(a) \/ Step(a) \/ Finish(a) \/ Fail(a)
Connections == \E a \in Ask : Pump(a) \/ Relay(a) \/ WriteDone(a) \/ Abandon(a)

FairSpec ==
  /\ Spec
  /\ WF_vars(Tasks /\ UNCHANGED <<pages, terminal>>)
  /\ WF_vars(Connections /\ UNCHANGED <<pages, terminal>>)
  /\ SF_vars(\E a \in Ask : Forward(a) \/ ForwardEnds(a))
  /\ WF_vars(\E p \in Page : EndReset(p))
  /\ WF_vars(TerminalReads \/ TerminalAnswered)

ProgressFrame == [type : {"progress"}, kind : {"delta", "step"}, round : 1..(Rounds + 1)]
DoneFrame ==
  [type : {"done"}, ok : BOOLEAN, session : Session \cup {NoSession},
   pending : BOOLEAN, progress : Seq(1..(Rounds + 1))]

\* Shapes of the state, the capacities of the two queues, and one reset at a
\* time.
TypeOK ==
  /\ session \in [Ask -> Session \cup {NoSession}]
  /\ task \in [Ask -> Working \cup Gone \cup {"off"}]
  /\ round \in [Ask -> 0..Rounds]
  /\ pieces \in [Ask -> Seq(ProgressFrame)]
  /\ pending \in [Ask -> BOOLEAN]
  /\ events \in [Ask -> Seq(1..(Rounds + 1))]
  /\ channel \in [Ask -> Seq(ProgressFrame)]
  /\ \A a \in Ask : Len(channel[a]) <= ChannelRoom /\ Len(wire[a]) <= WireRoom
  /\ handler \in [Ask -> {"off", "serving", "finished", "gone"}]
  /\ wire \in [Ask -> Seq(ProgressFrame \cup DoneFrame)]
  /\ inbox \in [Ask -> Seq(DoneFrame)]
  /\ reader \in [Ask -> {"off", "reading", "left", "closed", "over"}]
  /\ slot \in Session \cup {NoSession} /\ chat \in Session \cup {NoSession}
  /\ resetter \in SUBSET Page /\ \A p, q \in resetter : p = q
  /\ hiding \in SUBSET Page /\ crossed \in SUBSET Ask /\ retired \in SUBSET Session
  /\ asking \in [Page -> Ask \cup {NoAsk}] /\ decision \in [Page -> Ask \cup {NoAsk}]
  /\ question \in Ask \cup {NoAsk} /\ choice \in Ask \cup {NoAsk}

\* The order of what is shown: no piece of a reply comes after the reply's own
\* event or after anything of a later reply, steps come in order, and nothing
\* follows the done frame.
Flow(a) == wire[a] \o channel[a]
ShownInOrder ==
  \A a \in Ask : \A i, j \in DOMAIN Flow(a) :
    i < j =>
      /\ Flow(a)[i].type = "progress"
      /\ Flow(a)[j].type = "progress" =>
           \/ Flow(a)[i].round < Flow(a)[j].round
           \/ Flow(a)[i].round = Flow(a)[j].round /\ Flow(a)[i].kind = "delta"

Last(frames) == frames[Len(frames)]

\* Who asked is still there and has not been told the outcome.
Awaited(a) == a = question \/ \E p \in Page : asking[p] = a

\* The outcome is on its way, behind what is left of the progress, or there.
OnItsWay(a) == wire[a] # <<>> /\ Last(wire[a]) = Done(a)
Delivered(a) == wire[a] = <<>> /\ inbox[a] = <<Done(a)>>

\* Progress that the full channel dropped is in the done frame: a successful
\* outcome lists the events of every reply, the last one included.  And the
\* frame gets to who waits for it: once the runtime has written it, it is on
\* the wire or in the console's hands, and is what the request came to.
DoneTellsAll ==
  \A a \in Ask :
    /\ task[a] = "ended" => Done(a).progress = [i \in 1..(round[a] + 1) |-> i]
    /\ handler[a] = "finished" /\ Awaited(a) => OnItsWay(a) \/ Delivered(a)

\* Who asks and stays gets an end of the stream, also when the request fails in
\* the middle of a reply or the runtime is killed, if no tool hangs.
AskEnds == \A a \in Ask : reader[a] = "reading" ~> reader[a] \in {"over", "left", "closed"}

\* A conversation whose reset began while no page was asking, and was not cut
\* off by its page leaving, is never in Stage's slot again, whoever asks while
\* the runtime is busy with the reset.
QuietResetHolds == slot \in retired => resetter # {}

\* A decision is confirmed into the conversation that asked for it: in the
\* terminal always, in the only page that is open unless a reset is under way,
\* or a reset or a request of a page that was left overlapped this one.
DecisionOfThisTalk ==
  /\ choice # NoAsk => chat = Outcome(choice)
  /\ \A p \in Page :
       Page = {p} /\ decision[p] # NoAsk /\ p \notin hiding \cup resetter
         => slot = Outcome(decision[p]) \/ decision[p] \in crossed
=============================================================================
