--------------------------- MODULE ConsolesProofs ---------------------------
(***************************************************************************)
(* The consoles, for any number of pages and requests, any number of model *)
(* replies in one, and queues of any capacity: a stream tells a request's  *)
(* story in order, what the queues drop is in its last frame, which gets   *)
(* to who waits for it, and a conversation that was reset in quiet does    *)
(* not come back.                                                          *)
(***************************************************************************)
EXTENDS ConsolesProperties, TLAPS

\* The two halves of TypeOK.
StreamType ==
  /\ session \in [Ask -> Session \cup {NoSession}]
  /\ task \in [Ask -> Working \cup Gone \cup {"off"}]
  /\ round \in [Ask -> 0..Rounds]
  /\ pieces \in [Ask -> Seq(ProgressFrame)]
  /\ pending \in [Ask -> BOOLEAN]
  /\ events \in [Ask -> Seq(1..(Rounds + 1))]
  /\ channel \in [Ask -> Seq(ProgressFrame)]
  /\ \A a \in Ask : Len(channel[a]) <= ChannelRoom /\ Len(wire[a]) <= WireRoom
  /\ handler \in [Ask -> {"off", "serving", "finished", "gone"}]
  /\ wire \in [Ask -> Seq(ProgressFrame \cup DoneFrame)]
  /\ reader \in [Ask -> {"off", "reading", "left", "closed", "over"}]

PagesType ==
  /\ inbox \in [Ask -> Seq(DoneFrame)]
  /\ slot \in Session \cup {NoSession} /\ chat \in Session \cup {NoSession}
  /\ resetter \in SUBSET Page /\ \A p, q \in resetter : p = q
  /\ hiding \in SUBSET Page /\ crossed \in SUBSET Ask /\ retired \in SUBSET Session
  /\ asking \in [Page -> Ask \cup {NoAsk}] /\ decision \in [Page -> Ask \cup {NoAsk}]
  /\ question \in Ask \cup {NoAsk} /\ choice \in Ask \cup {NoAsk}

\* A request that was made is at one of its replies.
RoundInv == \A a \in Ask : task[a] # "off" => round[a] >= 1

Shapes == StreamType /\ PagesType /\ RoundInv

\* What may still come: while a reply is under way, or pieces of it wait, only
\* its own pieces and older replies are on their way; before the last event,
\* nothing newer than the reply the task is at.
Before(f, g) ==
  /\ f.type = "progress"
  /\ g.type = "progress" => f.round < g.round \/ (f.round = g.round /\ f.kind = "delta")

Ordered(f) == \A i, j \in DOMAIN f : i < j => Before(f[i], f[j])

OrderInv(a) ==
  /\ Ordered(Flow(a))
  /\ handler[a] # "serving" => channel[a] = <<>>
  /\ handler[a] = "serving" => \A i \in DOMAIN Flow(a) : Flow(a)[i].type = "progress"
  /\ task[a] = "off" => handler[a] = "off" /\ reader[a] = "off" /\ wire[a] = <<>>
  /\ task[a] \in {"finishing", "ended", "off"} => pieces[a] = <<>>
  /\ \A i \in DOMAIN pieces[a] : pieces[a][i] = Progress("delta", round[a])
  /\ handler[a] = "serving" /\ (pieces[a] # <<>> \/ task[a] \in {"completing", "draining"}) =>
       \A i \in DOMAIN Flow(a) : Before(Flow(a)[i], Progress("delta", round[a]))
  /\ handler[a] = "serving" /\ task[a] = "finishing" =>
       \A i \in DOMAIN Flow(a) : Flow(a)[i].round <= round[a]

\* The events of every reply so far are listed.
ListedInv ==
  \A a \in Ask :
    /\ task[a] \in {"completing", "draining"} => events[a] = [i \in 1..(round[a] - 1) |-> i]
    /\ task[a] = "finishing" => events[a] = [i \in 1..round[a] |-> i]
    /\ task[a] = "ended" => events[a] = [i \in 1..(round[a] + 1) |-> i]
    /\ task[a] = "off" => events[a] = <<>>

\* A conversation that was reset in quiet is not one that Stage may hear of
\* from a request it forwards, and all that it knows of has been opened.
QuietInv ==
  /\ QuietResetHolds
  /\ NoSession \notin retired
  /\ \A a \in Ask : task[a] = "off" => a \notin retired /\ slot # a
  /\ \A a \in Forwarded :
       /\ session[a] \in Session => task[session[a]] # "off"
       /\ session[a] \notin retired
       /\ session[a] = NoSession => a \notin retired

\* The conversation that a done frame of request a names.
Named(a, f) ==
  f.type = "done" =>
    /\ f.session \in {session[a], Outcome(a)}
    /\ f.ok => f.session = Outcome(a)
    /\ f.pending => f.ok

NamedInv(a) == \A i \in DOMAIN wire[a] : Named(a, wire[a][i])

LEMMA Halves == TypeOK <=> StreamType /\ PagesType
  BY DEF TypeOK, StreamType, PagesType

\* What a task or a pump says is a frame, and the channel keeps its capacity.
LEMMA EmitType ==
  ASSUME StreamType, NEW a \in Ask, NEW e \in ProgressFrame, Emit(a, e)
  PROVE  /\ channel' \in [Ask -> Seq(ProgressFrame)]
         /\ \A b \in Ask : Len(channel'[b]) <= ChannelRoom
<1>1. CASE channel' = channel
  BY <1>1 DEF StreamType
<1>2. CASE Len(channel[a]) < ChannelRoom /\ channel' = [channel EXCEPT ![a] = Append(channel[a], e)]
  <2>1. channel[a] \in Seq(ProgressFrame)
    BY DEF StreamType
  <2>2. Append(channel[a], e) \in Seq(ProgressFrame) /\ Len(Append(channel[a], e)) = Len(channel[a]) + 1
    BY <2>1
  <2>3. ChannelRoom \in Nat /\ Len(channel[a]) \in Nat
    BY <2>1, StreamAssumption
  <2> QED
    BY <1>2, <2>2, <2>3 DEF StreamType
<1> QED
  BY <1>1, <1>2 DEF Emit, Set

LEMMA FrameType ==
  ASSUME StreamType, RoundInv, NEW a \in Ask, task[a] # "off"
  PROVE  /\ \A kind \in {"delta", "step"} : Progress(kind, round[a]) \in ProgressFrame
         /\ Progress("step", round[a] + 1) \in ProgressFrame
         /\ round[a] \in 1..Rounds
         /\ round[a] \in 1..(Rounds + 1) /\ round[a] + 1 \in 1..(Rounds + 1)
<1>1. round[a] \in 1..Rounds /\ Rounds \in Nat
  BY StreamAssumption DEF StreamType, RoundInv
<1>2. round[a] \in 1..(Rounds + 1) /\ round[a] + 1 \in 1..(Rounds + 1)
  BY <1>1
<1> QED
  BY <1>1, <1>2 DEF Progress, ProgressFrame

LEMMA DoneType ==
  ASSUME StreamType, NEW a \in Ask
  PROVE  Done(a) \in DoneFrame /\ Outcome(a) \in Session
<1>1. Outcome(a) \in Session /\ session[a] \in Session \cup {NoSession}
  BY DEF Outcome, StreamType, Session
<1>2. pending[a] \in BOOLEAN /\ events[a] \in Seq(1..(Rounds + 1))
  BY DEF StreamType
<1>3. <<>> \in Seq(1..(Rounds + 1))
  OBVIOUS
<1> QED
  BY <1>1, <1>2, <1>3 DEF Done, DoneFrame

\* Appending to and taking from the queue of one request.
LEMMA QueueType ==
  ASSUME NEW S, NEW q \in [Ask -> Seq(S)], NEW a \in Ask
  PROVE  /\ \A e \in S : Set(q, a, Append(q[a], e)) \in [Ask -> Seq(S)]
         /\ q[a] # <<>> => Set(q, a, Tail(q[a])) \in [Ask -> Seq(S)] /\ Head(q[a]) \in S
         /\ Set(q, a, <<>>) \in [Ask -> Seq(S)]
<1>1. q[a] \in Seq(S) /\ <<>> \in Seq(S)
  OBVIOUS
<1>2. \A e \in S : Append(q[a], e) \in Seq(S)
  BY <1>1
<1>3. q[a] # <<>> => Tail(q[a]) \in Seq(S) /\ Head(q[a]) \in S
  BY <1>1
<1> QED
  BY <1>1, <1>2, <1>3 DEF Set

\* A step of the request's task or pump.
LEMMA TaskType ==
  ASSUME Shapes, NEW a \in Ask,
         Piece(a) \/ Reply(a) \/ Pump(a) \/ Step(a) \/ Finish(a) \/ Fail(a)
  PROVE  StreamType' /\ RoundInv'
<1> USE DEF Shapes
<1>0. task[a] # "off" => /\ round[a] \in 1..Rounds /\ Rounds \in Nat
  BY FrameType, StreamAssumption
<1>1. CASE Piece(a)
  <2>1. task[a] # "off"
    BY <1>1 DEF Piece
  <2>2. pieces' \in [Ask -> Seq(ProgressFrame)]
    BY <1>1, <2>1, FrameType, QueueType DEF Piece, StreamType
  <2> QED
    BY <1>1, <2>2 DEF Piece, StreamType, RoundInv
<1>2. CASE Reply(a) \/ Fail(a)
  <2>1. task[a] # "off" /\ UNCHANGED <<session, round, pieces, events, pending, channel, handler, wire, reader>>
    BY <1>2 DEF Reply, Fail, Working
  <2>2. task' = [task EXCEPT ![a] = "draining"] \/ task' = [task EXCEPT ![a] = "failed"]
    BY <1>2 DEF Reply, Fail, Set
  <2>3. task' \in [Ask -> Working \cup Gone \cup {"off"}] /\ \A b \in Ask : task'[b] # "off" => task[b] # "off"
    BY <2>1, <2>2 DEF StreamType, Working, Gone
  <2> QED
    BY <2>1, <2>3 DEF StreamType, RoundInv
<1>3. CASE Pump(a)
  <2>1. pieces' \in [Ask -> Seq(ProgressFrame)] /\ Head(pieces[a]) \in ProgressFrame
    BY <1>3, QueueType DEF Pump, StreamType
  <2>2. channel' \in [Ask -> Seq(ProgressFrame)] /\ \A b \in Ask : Len(channel'[b]) <= ChannelRoom
    BY <1>3, <2>1, EmitType DEF Pump
  <2> QED
    BY <1>3, <2>1, <2>2 DEF Pump, StreamType, RoundInv
<1>4. CASE Step(a)
  <2>1. task[a] # "off"
    BY <1>4 DEF Step
  <2>2. events' \in [Ask -> Seq(1..(Rounds + 1))]
    BY <1>4, <2>1, FrameType, QueueType DEF Step, StreamType
  <2>3. channel' \in [Ask -> Seq(ProgressFrame)] /\ \A b \in Ask : Len(channel'[b]) <= ChannelRoom
    BY <1>4, <2>1, EmitType, FrameType DEF Step
  <2>4. /\ task' \in [Ask -> Working \cup Gone \cup {"off"}]
        /\ round' \in [Ask -> 0..Rounds]
        /\ RoundInv'
    <3>1. CASE /\ round[a] < Rounds
               /\ task' = Set(task, a, "completing")
               /\ round' = Set(round, a, round[a] + 1)
      <4>1. round[a] + 1 \in 0..Rounds /\ round[a] + 1 >= 1
        BY <1>0, <2>1, <3>1
      <4> QED
        BY <2>1, <3>1, <4>1 DEF StreamType, RoundInv, Set, Working
    <3>2. CASE task' = Set(task, a, "finishing") /\ UNCHANGED round
      BY <2>1, <3>2 DEF StreamType, RoundInv, Set, Working
    <3> QED
      BY <1>4, <3>1, <3>2 DEF Step, Continue
  <2> QED
    BY <1>4, <2>2, <2>3, <2>4 DEF Step, StreamType
<1>5. CASE Finish(a)
  <2>1. task[a] # "off"
    BY <1>5 DEF Finish
  <2>2. events' \in [Ask -> Seq(1..(Rounds + 1))]
    BY <1>5, <2>1, FrameType, QueueType DEF Finish, StreamType
  <2>3. channel' \in [Ask -> Seq(ProgressFrame)] /\ \A b \in Ask : Len(channel'[b]) <= ChannelRoom
    BY <1>5, <2>1, EmitType, FrameType DEF Finish
  <2>4. /\ task' \in [Ask -> Working \cup Gone \cup {"off"}]
        /\ pending' \in [Ask -> BOOLEAN]
        /\ RoundInv'
    BY <1>5, <2>1 DEF Finish, StreamType, RoundInv, Set, Gone
  <2> QED
    BY <1>5, <2>2, <2>3, <2>4 DEF Finish, StreamType
<1> QED
  BY <1>1, <1>2, <1>3, <1>4, <1>5

\* A step of the connection's handler, or the end of the process.
LEMMA HandlerType ==
  ASSUME Shapes, Kill \/ \E a \in Ask : Relay(a) \/ WriteDone(a) \/ Abandon(a)
  PROVE  StreamType' /\ RoundInv'
<1> USE DEF Shapes
<1>0. ChannelRoom \in Nat \ {0} /\ WireRoom \in Nat \ {0}
  BY StreamAssumption
<1>1. ASSUME NEW a \in Ask, Relay(a) PROVE StreamType' /\ RoundInv'
  <2>1. /\ channel' \in [Ask -> Seq(ProgressFrame)]
        /\ Head(channel[a]) \in ProgressFrame
        /\ channel[a] \in Seq(ProgressFrame) /\ wire[a] \in Seq(ProgressFrame \cup DoneFrame)
    BY <1>1, QueueType DEF Relay, StreamType
  <2>2. wire' \in [Ask -> Seq(ProgressFrame \cup DoneFrame)]
    BY <1>1, <2>1, QueueType DEF Relay, StreamType
  <2>3. \A b \in Ask : Len(channel'[b]) <= ChannelRoom
    <3>1. Len(Tail(channel[a])) <= ChannelRoom
      BY <1>1, <1>0, <2>1 DEF Relay, StreamType
    <3> QED
      BY <1>1, <3>1 DEF Relay, StreamType, Set
  <2>4. \A b \in Ask : Len(wire'[b]) <= WireRoom
    <3>1. Len(Append(wire[a], Head(channel[a]))) <= WireRoom
      BY <1>1, <1>0, <2>1 DEF Relay
    <3> QED
      BY <1>1, <3>1 DEF Relay, StreamType, Set
  <2> QED
    BY <1>1, <2>1, <2>2, <2>3, <2>4 DEF Relay, StreamType, RoundInv
<1>2. ASSUME NEW a \in Ask, WriteDone(a) PROVE StreamType' /\ RoundInv'
  <2>1. wire' \in [Ask -> Seq(ProgressFrame \cup DoneFrame)] /\ wire[a] \in Seq(ProgressFrame \cup DoneFrame)
    BY <1>2, DoneType, QueueType DEF WriteDone, StreamType
  <2>2. \A b \in Ask : Len(wire'[b]) <= WireRoom
    <3>1. Len(Append(wire[a], Done(a))) <= WireRoom
      BY <1>2, <1>0, <2>1 DEF WriteDone
    <3> QED
      BY <1>2, <3>1 DEF WriteDone, StreamType, Set
  <2>3. handler' \in [Ask -> {"off", "serving", "finished", "gone"}]
    BY <1>2 DEF WriteDone, StreamType, Set
  <2> QED
    BY <1>2, <2>1, <2>2, <2>3 DEF WriteDone, StreamType, RoundInv
<1>3. ASSUME NEW a \in Ask, Abandon(a) PROVE StreamType' /\ RoundInv'
  <2>1. handler' \in [Ask -> {"off", "serving", "finished", "gone"}]
    BY <1>3 DEF Abandon, StreamType, Set
  <2>2. channel' \in [Ask -> Seq(ProgressFrame)]
    BY <1>3, QueueType DEF Abandon, StreamType
  <2>3. \A b \in Ask : Len(channel'[b]) <= ChannelRoom
    BY <1>3, <1>0 DEF Abandon, StreamType, Set
  <2> QED
    BY <1>3, <2>1, <2>2, <2>3 DEF Abandon, StreamType, RoundInv
<1>4. CASE Kill
  <2>1. task' \in [Ask -> Working \cup Gone \cup {"off"}] /\ \A a \in Ask : task'[a] # "off" => task[a] # "off"
    BY <1>4 DEF Kill, StreamType, Working, Gone
  <2>2. handler' \in [Ask -> {"off", "serving", "finished", "gone"}]
    BY <1>4 DEF Kill, StreamType
  <2>3. /\ pieces' \in [Ask -> Seq(ProgressFrame)] /\ channel' \in [Ask -> Seq(ProgressFrame)]
        /\ \A a \in Ask : Len(channel'[a]) <= ChannelRoom
    BY <1>4, <1>0 DEF Kill
  <2> QED
    BY <1>4, <2>1, <2>2, <2>3 DEF Kill, StreamType, RoundInv
<1> QED
  BY <1>1, <1>2, <1>3, <1>4

\* What a page or the terminal does with a stream.
LEMMA ReaderType ==
  ASSUME Shapes, NEW a \in Ask,
         UNCHANGED <<session, task, round, pieces, events, pending, channel, handler>>,
         \/ wire' = wire
         \/ wire' = Set(wire, a, <<>>)
         \/ wire[a] # <<>> /\ wire' = Set(wire, a, Tail(wire[a])),
         \/ reader' = reader
         \/ \E r \in {"reading", "left", "closed", "over"} : reader' = Set(reader, a, r)
  PROVE  StreamType' /\ RoundInv'
<1> USE DEF Shapes
<1>0. WireRoom \in Nat \ {0}
  BY StreamAssumption
<1>1. reader' \in [Ask -> {"off", "reading", "left", "closed", "over"}]
  BY DEF StreamType, Set
<1>2. wire' \in [Ask -> Seq(ProgressFrame \cup DoneFrame)]
  <2>1. wire \in [Ask -> Seq(ProgressFrame \cup DoneFrame)]
    BY DEF StreamType
  <2>2. /\ Set(wire, a, <<>>) \in [Ask -> Seq(ProgressFrame \cup DoneFrame)]
        /\ wire[a] # <<>> => Set(wire, a, Tail(wire[a])) \in [Ask -> Seq(ProgressFrame \cup DoneFrame)]
    BY <2>1, QueueType
  <2> QED
    BY <2>1, <2>2
<1>3. \A b \in Ask : Len(wire'[b]) <= WireRoom
  <2>1. wire[a] \in Seq(ProgressFrame \cup DoneFrame)
    BY DEF StreamType
  <2>2. wire[a] # <<>> => Len(Tail(wire[a])) <= WireRoom
    BY <1>0, <2>1 DEF StreamType
  <2>3. Len(<<>>) <= WireRoom
    BY <1>0
  <2> QED
    BY <2>2, <2>3 DEF StreamType, Set
<1> QED
  BY <1>1, <1>2, <1>3 DEF StreamType, RoundInv

\* A new request.
LEMMA OpenType ==
  ASSUME Shapes, NEW a \in Ask, NEW s \in Session \cup {NoSession}, Open(a, s)
  PROVE  StreamType' /\ RoundInv'
<1>1. 1 \in 0..Rounds
  BY StreamAssumption
<1> QED
  BY <1>1 DEF Open, Shapes, StreamType, RoundInv, Set, Working

\* The last frame a console took.
LEMMA HeadType ==
  ASSUME Shapes, NEW a \in Ask, wire[a] # <<>>
  PROVE  /\ Head(wire[a]) \in ProgressFrame \cup DoneFrame
         /\ Head(wire[a]).type = "done" =>
              /\ Head(wire[a]) \in DoneFrame
              /\ Head(wire[a]).session \in Session \cup {NoSession}
              /\ Set(inbox, a, <<Head(wire[a])>>) \in [Ask -> Seq(DoneFrame)]
<1>1. Head(wire[a]) \in ProgressFrame \cup DoneFrame
  BY QueueType DEF Shapes, StreamType
<1>2. Head(wire[a]).type = "done" => Head(wire[a]) \in DoneFrame
  BY <1>1 DEF ProgressFrame
<1>3. \A f \in DoneFrame : f.session \in Session \cup {NoSession} /\ <<f>> \in Seq(DoneFrame)
  BY DEF DoneFrame
<1> QED
  BY <1>1, <1>2, <1>3 DEF Shapes, PagesType, Set

\* The shapes are kept by what the pages do.
LEMMA PageType ==
  ASSUME Shapes, NEW p \in Page,
         \/ PageShows(p) \/ PageConfirm(p) \/ BeginReset(p) \/ EndReset(p)
         \/ PageResets(p) \/ PageLeaves(p) \/ \E a \in Ask : PageAsk(p, a)
  PROVE  Shapes'
<1> USE DEF Shapes
<1>1. ASSUME NEW a \in Ask, PageAsk(p, a) PROVE Shapes'
  <2>1. StreamType' /\ RoundInv'
    BY <1>1, OpenType DEF PageAsk, PagesType
  <2>2. PagesType'
    BY <1>1 DEF PageAsk, PagesType, Set, Forwarded, terminal
  <2> QED
    BY <2>1, <2>2
<1>2. CASE PageShows(p)
  <2>1. asking[p] \in Ask /\ UNCHANGED stream
    BY <1>2 DEF PageShows, PagesType
  <2>2. inbox' \in [Ask -> Seq(DoneFrame)]
    BY <1>2, <2>1, QueueType DEF PageShows, PagesType
  <2>3. asking' \in [Page -> Ask \cup {NoAsk}] /\ decision' \in [Page -> Ask \cup {NoAsk}]
    BY <1>2, <2>1 DEF PageShows, PagesType, Set
  <2>4. UNCHANGED <<slot, resetter, hiding, crossed, retired, chat, question, choice>>
    BY <1>2 DEF PageShows, terminal
  <2>5. PagesType'
    BY <2>2, <2>3, <2>4 DEF PagesType
  <2> QED
    BY <2>1, <2>5 DEF StreamType, RoundInv, stream
<1>3. CASE PageConfirm(p) \/ BeginReset(p) \/ EndReset(p) \/ PageResets(p)
  <2>1. UNCHANGED stream
    BY <1>3 DEF PageConfirm, BeginReset, EndReset, PageResets
  <2>2. Overlapped \subseteq Ask
    BY DEF PagesType, Overlapped, Forwarded
  <2>3. CASE PageConfirm(p)
    BY <2>1, <2>3 DEF PageConfirm, PagesType, Set, terminal, StreamType, RoundInv, stream
  <2>4. CASE BeginReset(p)
    BY <2>1, <2>2, <2>4 DEF BeginReset, PagesType, terminal, StreamType, RoundInv, stream
  <2>5. CASE EndReset(p)
    BY <2>1, <2>5 DEF EndReset, PagesType, terminal, StreamType, RoundInv, stream
  <2>6. CASE PageResets(p)
    BY <2>1, <2>6 DEF PageResets, PagesType, Set, terminal, StreamType, RoundInv, stream
  <2> QED
    BY <1>3, <2>3, <2>4, <2>5, <2>6
<1>4. CASE PageLeaves(p)
  <2>1. CASE asking[p] = NoAsk
    <3>1. UNCHANGED stream
      BY <1>4, <2>1 DEF PageLeaves, stream
    <3>2. PagesType'
      BY <1>4, <2>1 DEF PageLeaves, PagesType, Set, terminal
    <3> QED
      BY <3>1, <3>2 DEF StreamType, RoundInv, stream
  <2>2. CASE asking[p] \in Ask
    <3>1. asking[p] # NoAsk
      BY <2>2, PageAssumption
    <3>2. StreamType' /\ RoundInv'
      BY <1>4, <2>2, ReaderType DEF PageLeaves
    <3>3. PagesType'
      BY <1>4, <2>2, <3>1, QueueType DEF PageLeaves, PagesType, Set, terminal
    <3> QED
      BY <3>2, <3>3
  <2> QED
    BY <2>1, <2>2 DEF PagesType
<1> QED
  BY <1>1, <1>2, <1>3, <1>4

\* And by Stage's forwarding and the terminal.
LEMMA OtherType ==
  ASSUME Shapes,
         \/ \E a \in Ask : Forward(a) \/ ForwardEnds(a) \/ TerminalAsk(a)
         \/ TerminalReads \/ TerminalAnswered \/ TerminalConfirm \/ TerminalNew
  PROVE  Shapes'
<1> USE DEF Shapes
<1>1. ASSUME NEW a \in Ask, Forward(a) PROVE Shapes'
  <2>1. StreamType' /\ RoundInv'
    BY <1>1, ReaderType DEF Forward
  <2>2. PagesType'
    BY <1>1, HeadType DEF Forward, PagesType, terminal
  <2> QED
    BY <2>1, <2>2
<1>2. ASSUME NEW a \in Ask, ForwardEnds(a) PROVE Shapes'
  <2>1. StreamType' /\ RoundInv'
    BY <1>2, ReaderType DEF ForwardEnds
  <2>2. PagesType'
    BY <1>2 DEF ForwardEnds, PagesType, pages, terminal
  <2> QED
    BY <2>1, <2>2
<1>3. ASSUME NEW a \in Ask, TerminalAsk(a) PROVE Shapes'
  <2>1. StreamType' /\ RoundInv'
    BY <1>3, OpenType DEF TerminalAsk, PagesType
  <2>2. PagesType'
    BY <1>3 DEF TerminalAsk, PagesType, pages
  <2> QED
    BY <2>1, <2>2
<1>4. CASE TerminalReads
  <2>1. question \in Ask
    BY <1>4 DEF TerminalReads, PagesType
  <2>2. StreamType' /\ RoundInv'
    BY <1>4, <2>1, ReaderType DEF TerminalReads
  <2>3. PagesType'
    BY <1>4, <2>1, HeadType DEF TerminalReads, PagesType, terminal
  <2> QED
    BY <2>2, <2>3
<1>5. CASE TerminalAnswered
  <2>1. question \in Ask
    BY <1>5 DEF TerminalAnswered, PagesType
  <2>2. StreamType' /\ RoundInv'
    BY <1>5, <2>1, ReaderType DEF TerminalAnswered
  <2>3. inbox[question] # <<>> => inbox[question][1].session \in Session \cup {NoSession}
    <3>1. inbox[question] \in Seq(DoneFrame)
      BY <2>1 DEF PagesType
    <3>2. inbox[question] # <<>> => inbox[question][1] \in DoneFrame
      BY <3>1
    <3> QED
      BY <3>2 DEF DoneFrame
  <2>4. inbox' \in [Ask -> Seq(DoneFrame)]
    BY <1>5, <2>1, QueueType DEF TerminalAnswered, PagesType
  <2>5. PagesType'
    BY <1>5, <2>1, <2>3, <2>4 DEF TerminalAnswered, PagesType
  <2> QED
    BY <2>2, <2>5
<1>6. CASE TerminalConfirm \/ TerminalNew
  BY <1>6 DEF TerminalConfirm, TerminalNew, PagesType, pages, StreamType, RoundInv, stream
<1> QED
  BY <1>1, <1>2, <1>3, <1>4, <1>5, <1>6

LEMMA InitShapes == Init => Shapes
<1> SUFFICES ASSUME Init PROVE Shapes
  OBVIOUS
<1>0. ChannelRoom \in Nat \ {0} /\ WireRoom \in Nat \ {0} /\ Rounds \in Nat \ {0}
  BY StreamAssumption
<1>1. StreamType
  BY <1>0 DEF Init, InitStream, StreamType
<1>2. PagesType
  BY DEF Init, PagesType
<1>3. RoundInv
  BY DEF Init, InitStream, RoundInv
<1> QED
  BY <1>1, <1>2, <1>3 DEF Shapes

LEMMA NextShapes == Shapes /\ [Next]_vars => Shapes'
<1> SUFFICES ASSUME Shapes, [Next]_vars PROVE Shapes'
  OBVIOUS
<1>1. CASE UNCHANGED vars
  BY <1>1 DEF vars, stream, pages, terminal, Shapes, StreamType, PagesType, RoundInv
<1>2. CASE Runtime
  <2>1. PagesType'
    BY <1>2 DEF Runtime, pages, terminal, Shapes, PagesType
  <2>2. StreamType' /\ RoundInv'
    BY <1>2, TaskType, HandlerType DEF Runtime, Serve
  <2> QED
    BY <2>1, <2>2 DEF Shapes
<1> QED
  BY <1>1, <1>2, PageType, OtherType DEF Next

LEMMA ShapesAlways == Spec => []Shapes
  BY InitShapes, NextShapes, PTL DEF Spec

\* The shape of the state, the queues within their capacities, one reset at a
\* time.
THEOREM TypesOfConsoles == Spec => []TypeOK
<1>1. Shapes => TypeOK
  BY Halves DEF Shapes
<1> QED
  BY <1>1, ShapesAlways, PTL
-----------------------------------------------------------------------------
(* The order of a stream. *)

Frame == ProgressFrame \cup DoneFrame

\* What is on its way changes at its two ends only.
LEMMA Joining ==
  ASSUME NEW S, NEW w \in Seq(S), NEW c \in Seq(S)
  PROVE  /\ c # <<>> => Append(w, Head(c)) \o Tail(c) = w \o c
         /\ w # <<>> => Tail(w) \o c = Tail(w \o c)
         /\ w \o <<>> = w
         /\ <<>> \o c = c
<1>1. c # <<>> => Append(w, Head(c)) \o Tail(c) = w \o c
  OBVIOUS
<1>2. w # <<>> => Tail(w) \o c = Tail(w \o c)
  OBVIOUS
<1>3. w \o <<>> = w /\ <<>> \o c = c
  OBVIOUS
<1> QED
  BY <1>1, <1>2, <1>3

LEMMA JoiningAppend ==
  ASSUME NEW S, NEW w \in Seq(S), NEW c \in Seq(S), NEW e \in S
  PROVE  w \o Append(c, e) = Append(w \o c, e)
  OBVIOUS

LEMMA ElementOf ==
  ASSUME NEW S, NEW w \in Seq(S), NEW c \in Seq(S), NEW i \in DOMAIN (w \o c)
  PROVE  (w \o c)[i] \in S
<1>1. w \o c \in Seq(S)
  OBVIOUS
<1> QED
  BY <1>1

LEMMA FrameRound ==
  ASSUME NEW w \in Seq(Frame), NEW c \in Seq(Frame), NEW i \in DOMAIN (w \o c),
         (w \o c)[i].type = "progress"
  PROVE  (w \o c)[i].round \in Nat
<1>1. (w \o c)[i] \in Frame
  BY ElementOf
<1>2. \A f \in Frame : f.type = "progress" => f.round \in Nat
  BY StreamAssumption DEF Frame, ProgressFrame, DoneFrame
<1> QED
  BY <1>1, <1>2

\* Parts of an ordered stream are ordered, and so is one with a frame behind
\* it that everything comes before.
LEMMA OrderedParts ==
  ASSUME NEW S, NEW w \in Seq(S), NEW c \in Seq(S), Ordered(w \o c)
  PROVE  /\ Ordered(w) /\ Ordered(c)
         /\ \A i \in DOMAIN w : \E j \in DOMAIN (w \o c) : (w \o c)[j] = w[i]
         /\ \A i \in DOMAIN c : \E j \in DOMAIN (w \o c) : (w \o c)[j] = c[i]
<1>1. \A i \in DOMAIN w : i \in DOMAIN (w \o c) /\ (w \o c)[i] = w[i]
  OBVIOUS
<1>2. \A i \in DOMAIN c : Len(w) + i \in DOMAIN (w \o c) /\ (w \o c)[Len(w) + i] = c[i]
  OBVIOUS
<1>3. \A i, j \in DOMAIN c : i < j => Len(w) + i < Len(w) + j
  OBVIOUS
<1> QED
  BY <1>1, <1>2, <1>3 DEF Ordered

LEMMA OrderedTail ==
  ASSUME NEW S, NEW f \in Seq(S), f # <<>>, Ordered(f)
  PROVE  /\ Ordered(Tail(f))
         /\ \A i \in DOMAIN Tail(f) : \E j \in DOMAIN f : f[j] = Tail(f)[i]
<1>1. \A i \in DOMAIN Tail(f) : i + 1 \in DOMAIN f /\ Tail(f)[i] = f[i + 1] /\ i \in Nat
  OBVIOUS
<1> QED
  BY <1>1 DEF Ordered

LEMMA OrderedAppend ==
  ASSUME NEW S, NEW f \in Seq(S), NEW e \in S, Ordered(f), \A i \in DOMAIN f : Before(f[i], e)
  PROVE  Ordered(Append(f, e))
<1>1. /\ DOMAIN Append(f, e) = DOMAIN f \cup {Len(f) + 1}
      /\ \A i \in DOMAIN f : Append(f, e)[i] = f[i] /\ i <= Len(f) /\ i \in Nat
      /\ Append(f, e)[Len(f) + 1] = e
      /\ Len(f) \in Nat
  OBVIOUS
<1> QED
  BY <1>1 DEF Ordered

\* Whom a step leaves alone.
LEMMA OrderElsewhere ==
  ASSUME NEW b \in Ask, OrderInv(b), task'[b] = task[b], round'[b] = round[b],
         pieces'[b] = pieces[b], channel'[b] = channel[b], handler'[b] = handler[b],
         wire'[b] = wire[b], reader'[b] = reader[b]
  PROVE  OrderInv(b)'
<1>1. Flow(b)' = Flow(b)
  BY DEF Flow
<1> QED
  BY <1>1 DEF OrderInv

\* What an event does to the stream.
LEMMA EmitFlow ==
  ASSUME StreamType, NEW a \in Ask, NEW e \in ProgressFrame, Emit(a, e), wire' = wire, OrderInv(a),
         handler[a] = "serving" => \A i \in DOMAIN Flow(a) : Before(Flow(a)[i], e)
  PROVE  /\ Ordered(Flow(a)')
         /\ handler[a] # "serving" => channel'[a] = <<>>
         /\ \A b \in Ask : b # a => channel'[b] = channel[b]
         /\ \A i \in DOMAIN Flow(a)' :
              \/ handler[a] = "serving" /\ Flow(a)'[i] = e
              \/ \E j \in DOMAIN Flow(a) : Flow(a)'[i] = Flow(a)[j]
<1>1. CASE channel' = channel
  <2>1. Flow(a)' = Flow(a)
    BY <1>1 DEF Flow
  <2> QED
    BY <1>1, <2>1 DEF OrderInv
<1>2. CASE handler[a] = "serving" /\ channel' = [channel EXCEPT ![a] = Append(channel[a], e)]
  <2>1. wire[a] \in Seq(Frame) /\ channel[a] \in Seq(Frame) /\ e \in Frame
    BY DEF StreamType, Frame
  <2>2. channel'[a] = Append(channel[a], e) /\ \A b \in Ask : b # a => channel'[b] = channel[b]
    BY <1>2 DEF StreamType
  <2>3. Flow(a)' = Append(Flow(a), e)
    <3>1. wire[a] \o Append(channel[a], e) = Append(wire[a] \o channel[a], e)
      <4> DEFINE w == wire[a]
                 c == channel[a]
      <4>1. w \in Seq(Frame) /\ c \in Seq(Frame) /\ e \in Frame
        BY <2>1
      <4> HIDE DEF w, c
      <4>2. w \o Append(c, e) = Append(w \o c, e)
        BY <4>1, JoiningAppend
      <4> QED
        BY <4>2 DEF w, c
    <3> QED
      BY <2>2, <3>1 DEF Flow
  <2>4. Flow(a) \in Seq(Frame)
    BY <2>1 DEF Flow
  <2>5. Ordered(Append(Flow(a), e))
    BY <1>2, <2>1, <2>4, OrderedAppend DEF OrderInv
  <2>6. \A i \in DOMAIN Append(Flow(a), e) :
          Append(Flow(a), e)[i] = e \/ (i \in DOMAIN Flow(a) /\ Append(Flow(a), e)[i] = Flow(a)[i])
    BY <2>1, <2>4
  <2> QED
    BY <1>2, <2>2, <2>3, <2>5, <2>6
<1> QED
  BY <1>1, <1>2 DEF Emit, Set

\* What a step can do to what is on its way, when it adds nothing.
LEMMA FlowShrinks ==
  ASSUME StreamType, NEW a \in Ask, OrderInv(a),
         \/ wire'[a] = wire[a] /\ channel'[a] = <<>>
         \/ channel'[a] = channel[a] /\ wire'[a] = <<>>
         \/ channel'[a] = channel[a] /\ wire[a] # <<>> /\ wire'[a] = Tail(wire[a])
         \/ channel[a] # <<>> /\ wire'[a] = Append(wire[a], Head(channel[a])) /\ channel'[a] = Tail(channel[a])
         \/ wire'[a] = wire[a] /\ channel'[a] = channel[a]
  PROVE  /\ Ordered(Flow(a)')
         /\ \A i \in DOMAIN Flow(a)' : \E j \in DOMAIN Flow(a) : Flow(a)[j] = Flow(a)'[i]
<1> DEFINE w == wire[a]
           c == channel[a]
<1>1. w \in Seq(Frame) /\ c \in Seq(Frame) /\ w \o c \in Seq(Frame)
  BY DEF StreamType, Frame
<1>2. Flow(a) = w \o c /\ Flow(a)' = wire'[a] \o channel'[a] /\ Ordered(w \o c)
  BY DEF Flow, OrderInv
<1> HIDE DEF w, c
<1>3. CASE wire'[a] = w /\ channel'[a] = <<>>
  <2>1. Flow(a)' = w
    BY <1>1, <1>2, <1>3, Joining
  <2>2. /\ Ordered(w)
        /\ \A i \in DOMAIN w : \E j \in DOMAIN (w \o c) : (w \o c)[j] = w[i]
    BY <1>1, <1>2, OrderedParts
  <2> QED
    BY <1>2, <2>1, <2>2
<1>4. CASE channel'[a] = c /\ wire'[a] = <<>>
  <2>1. Flow(a)' = c
    BY <1>1, <1>2, <1>4, Joining
  <2>2. /\ Ordered(c)
        /\ \A i \in DOMAIN c : \E j \in DOMAIN (w \o c) : (w \o c)[j] = c[i]
    BY <1>1, <1>2, OrderedParts
  <2> QED
    BY <1>2, <2>1, <2>2
<1>5. CASE channel'[a] = c /\ w # <<>> /\ wire'[a] = Tail(w)
  <2>1. Flow(a)' = Tail(w \o c) /\ w \o c # <<>>
    BY <1>1, <1>2, <1>5, Joining
  <2>2. /\ Ordered(Tail(w \o c))
        /\ \A i \in DOMAIN Tail(w \o c) : \E j \in DOMAIN (w \o c) : (w \o c)[j] = Tail(w \o c)[i]
    BY <1>1, <1>2, <2>1, OrderedTail
  <2> QED
    BY <1>2, <2>1, <2>2
<1>6. CASE c # <<>> /\ wire'[a] = Append(w, Head(c)) /\ channel'[a] = Tail(c)
  <2>1. Append(w, Head(c)) \o Tail(c) = w \o c
    BY <1>1, <1>6, Joining
  <2>2. Flow(a)' = Flow(a)
    BY <1>2, <1>6, <2>1
  <2> QED
    BY <1>2, <2>2
<1>7. CASE wire'[a] = w /\ channel'[a] = c
  BY <1>2, <1>7
<1> QED
  BY <1>3, <1>4, <1>5, <1>6, <1>7 DEF w, c

\* The rest of OrderInv then depends on task, round, pieces and handler alone.
LEMMA ShrinkKeepsOrder ==
  ASSUME StreamType, NEW a \in Ask, OrderInv(a), Ordered(Flow(a)'),
         \A i \in DOMAIN Flow(a)' : \E j \in DOMAIN Flow(a) : Flow(a)[j] = Flow(a)'[i],
         round'[a] = round[a], pieces'[a] \in {pieces[a], <<>>},
         task'[a] \in {task[a], "failed"} \/ (task[a] = "completing" /\ task'[a] = "draining"),
         task'[a] = "off" => handler'[a] = "off" /\ reader'[a] = "off" /\ wire'[a] = <<>>,
         handler'[a] = "serving" => handler[a] = "serving",
         handler'[a] # "serving" => channel'[a] = <<>>
  PROVE  OrderInv(a)'
<1>1. handler'[a] = "serving" => \A i \in DOMAIN Flow(a)' : Flow(a)'[i].type = "progress"
  BY DEF OrderInv
<1>2. task'[a] \in {"finishing", "ended", "off"} => task'[a] = task[a] /\ pieces'[a] = <<>>
  BY DEF OrderInv
<1>3. \A i \in DOMAIN pieces'[a] : pieces'[a][i] = Progress("delta", round'[a])
  BY DEF OrderInv
<1>4. handler'[a] = "serving" /\ (pieces'[a] # <<>> \/ task'[a] \in {"completing", "draining"}) =>
        \A i \in DOMAIN Flow(a)' : Before(Flow(a)'[i], Progress("delta", round'[a]))
  <2>1. pieces'[a] # <<>> \/ task'[a] \in {"completing", "draining"}
          => pieces[a] # <<>> \/ task[a] \in {"completing", "draining"}
    OBVIOUS
  <2> QED
    BY <2>1 DEF OrderInv
<1>5. handler'[a] = "serving" /\ task'[a] = "finishing" =>
        \A i \in DOMAIN Flow(a)' : Flow(a)'[i].round <= round'[a]
  BY DEF OrderInv
<1> QED
  BY <1>1, <1>2, <1>3, <1>4, <1>5 DEF OrderInv

\* Steps that add nothing keep the order.
LEMMA TakingKeepsOrder ==
  ASSUME StreamType, NEW a \in Ask, OrderInv(a),
         \/ wire'[a] = wire[a] /\ channel'[a] = <<>>
         \/ channel'[a] = channel[a] /\ wire'[a] = <<>>
         \/ channel'[a] = channel[a] /\ wire[a] # <<>> /\ wire'[a] = Tail(wire[a])
         \/ channel[a] # <<>> /\ wire'[a] = Append(wire[a], Head(channel[a])) /\ channel'[a] = Tail(channel[a])
         \/ wire'[a] = wire[a] /\ channel'[a] = channel[a],
         round'[a] = round[a], pieces'[a] \in {pieces[a], <<>>},
         task'[a] \in {task[a], "failed"} \/ (task[a] = "completing" /\ task'[a] = "draining"),
         task'[a] = "off" => handler'[a] = "off" /\ reader'[a] = "off" /\ wire'[a] = <<>>,
         handler'[a] = "serving" => handler[a] = "serving",
         handler'[a] # "serving" => channel'[a] = <<>>
  PROVE  OrderInv(a)'
  BY FlowShrinks, ShrinkKeepsOrder

LEMMA TaskOrder ==
  ASSUME Shapes, \A a \in Ask : OrderInv(a), NEW a \in Ask,
         Piece(a) \/ Reply(a) \/ Pump(a) \/ Step(a) \/ Finish(a) \/ Fail(a),
         NEW b \in Ask
  PROVE  OrderInv(b)'
<1> USE DEF Shapes
<1>0. OrderInv(a) /\ OrderInv(b)
  OBVIOUS
<1>1. CASE Reply(a) \/ Fail(a)
  <2>1. UNCHANGED <<round, pieces, channel, handler, wire, reader>>
    BY <1>1 DEF Reply, Fail
  <2>2. task'[b] = task[b] \/ (b = a /\ task[a] \in Working /\ task'[b] = "failed")
          \/ (task[b] = "completing" /\ task'[b] = "draining")
    BY <1>1 DEF Reply, Fail, Set, StreamType
  <2> QED
    BY <1>0, <2>1, <2>2, TakingKeepsOrder DEF OrderInv
<1>2. CASE Piece(a)
  <2>1. UNCHANGED <<task, round, channel, handler, wire, reader>> /\ task[a] = "completing"
    BY <1>2 DEF Piece
  <2>2. /\ pieces[a] \in Seq(ProgressFrame)
        /\ pieces'[a] = Append(pieces[a], Progress("delta", round[a]))
        /\ b # a => pieces'[b] = pieces[b]
    BY <1>2 DEF Piece, Set, StreamType
  <2>3. \A i \in DOMAIN pieces'[a] : pieces'[a][i] = Progress("delta", round[a])
    BY <1>0, <2>2 DEF OrderInv
  <2>4. Flow(b)' = Flow(b)
    BY <2>1 DEF Flow
  <2> QED
    BY <1>0, <2>1, <2>2, <2>3, <2>4 DEF OrderInv
<1>3. CASE Pump(a)
  <2>1. UNCHANGED <<task, round, handler, wire, reader>> /\ pieces[a] # <<>>
    BY <1>3 DEF Pump
  <2>2. /\ pieces[a] \in Seq(ProgressFrame)
        /\ pieces'[a] = Tail(pieces[a])
        /\ b # a => pieces'[b] = pieces[b]
    BY <1>3 DEF Pump, Set, StreamType
  <2>3. /\ \A i \in DOMAIN pieces'[a] : pieces'[a][i] = Progress("delta", round[a])
        /\ Head(pieces[a]) = Progress("delta", round[a])
        /\ Head(pieces[a]) \in ProgressFrame
    BY <1>0, <2>1, <2>2 DEF OrderInv
  <2>4. handler[a] = "serving" => \A i \in DOMAIN Flow(a) : Before(Flow(a)[i], Progress("delta", round[a]))
    BY <1>0, <2>1 DEF OrderInv
  <2>5. /\ Ordered(Flow(a)')
        /\ handler[a] # "serving" => channel'[a] = <<>>
        /\ \A c \in Ask : c # a => channel'[c] = channel[c]
        /\ \A i \in DOMAIN Flow(a)' :
             \/ handler[a] = "serving" /\ Flow(a)'[i] = Progress("delta", round[a])
             \/ \E j \in DOMAIN Flow(a) : Flow(a)'[i] = Flow(a)[j]
    BY <1>0, <1>3, <2>1, <2>3, <2>4, EmitFlow DEF Pump
  <2>6. CASE b # a
    BY <1>0, <2>1, <2>2, <2>5, <2>6, OrderElsewhere
  <2>7. CASE b = a
    <3>1. Before(Progress("delta", round[a]), Progress("delta", round[a])) /\ Progress("delta", round[a]).type = "progress"
      BY DEF Before, Progress
    <3>2. task[a] \notin {"finishing", "ended", "off"}
      BY <1>0, <2>1 DEF OrderInv
    <3>3. \A i \in DOMAIN Flow(a)' : handler[a] = "serving" => Before(Flow(a)'[i], Progress("delta", round[a]))
      BY <2>4, <2>5, <3>1
    <3>4. \A i \in DOMAIN Flow(a)' : handler[a] = "serving" => Flow(a)'[i].type = "progress"
      BY <1>0, <2>5, <3>1 DEF OrderInv
    <3> QED
      BY <1>0, <2>1, <2>2, <2>3, <2>5, <2>7, <3>2, <3>3, <3>4 DEF OrderInv
  <2> QED
    BY <2>6, <2>7
<1>4. CASE Step(a)
  <2> DEFINE e == Progress("step", round[a])
  <2>1. UNCHANGED <<pieces, handler, wire, reader>> /\ task[a] = "draining" /\ pieces[a] = <<>>
    BY <1>4 DEF Step
  <2>2. /\ b # a => task'[b] = task[b] /\ round'[b] = round[b]
        /\ \/ task'[a] = "completing" /\ round'[a] = round[a] + 1
           \/ task'[a] = "finishing" /\ round'[a] = round[a]
    BY <1>4 DEF Step, Continue, Set, StreamType
  <2>3. e \in ProgressFrame /\ round[a] \in Nat
    <3>1. task[a] # "off"
      BY <2>1
    <3>2. e \in ProgressFrame /\ round[a] \in 1..Rounds
      BY <3>1, FrameType
    <3> QED
      BY <3>2, StreamAssumption
  <2>4. handler[a] = "serving" => \A i \in DOMAIN Flow(a) : Before(Flow(a)[i], Progress("delta", round[a]))
    BY <1>0, <2>1 DEF OrderInv
  <2>5. handler[a] = "serving" => \A i \in DOMAIN Flow(a) : Before(Flow(a)[i], e)
    BY <2>4 DEF Before, Progress
  <2>6. /\ Ordered(Flow(a)')
        /\ handler[a] # "serving" => channel'[a] = <<>>
        /\ \A c \in Ask : c # a => channel'[c] = channel[c]
        /\ \A i \in DOMAIN Flow(a)' :
             \/ handler[a] = "serving" /\ Flow(a)'[i] = e
             \/ \E j \in DOMAIN Flow(a) : Flow(a)'[i] = Flow(a)[j]
    BY <1>0, <1>4, <2>1, <2>3, <2>5, EmitFlow DEF Step
  <2>7. CASE b # a
    BY <1>0, <2>1, <2>2, <2>6, <2>7, OrderElsewhere
  <2>8. CASE b = a
    <3>1. e.type = "progress" /\ e.round = round[a]
      BY DEF Progress
    <3>2. handler[a] = "serving" => \A i \in DOMAIN Flow(a) :
            Flow(a)[i].type = "progress" /\ (Flow(a)[i].round < round[a] \/ Flow(a)[i].round = round[a])
      BY <2>4 DEF Before, Progress
    <3>3. handler[a] = "serving" => \A i \in DOMAIN Flow(a)' :
            Flow(a)'[i].type = "progress" /\ (Flow(a)'[i].round < round[a] \/ Flow(a)'[i].round = round[a])
      BY <2>6, <3>1, <3>2
    <3>4. handler[a] = "serving" => \A i \in DOMAIN Flow(a)' : Flow(a)'[i].round \in Nat
      <4>1. \A i \in DOMAIN Flow(a) : Flow(a)[i].type = "progress" => Flow(a)[i].round \in Nat
        <5>1. wire[a] \in Seq(Frame) /\ channel[a] \in Seq(Frame)
          BY DEF StreamType, Frame
        <5> QED
          BY <5>1, FrameRound DEF Flow
      <4> QED
        BY <2>3, <2>6, <3>1, <3>2, <4>1
    <3>5. CASE task'[a] = "completing" /\ round'[a] = round[a] + 1
      <4>1. handler[a] = "serving" => \A i \in DOMAIN Flow(a)' : Before(Flow(a)'[i], Progress("delta", round'[a]))
        BY <2>3, <3>3, <3>4, <3>5 DEF Before, Progress
      <4> QED
        BY <1>0, <2>1, <2>6, <2>8, <3>3, <3>5, <4>1 DEF OrderInv
    <3>6. CASE task'[a] = "finishing" /\ round'[a] = round[a]
      <4>1. handler[a] = "serving" => \A i \in DOMAIN Flow(a)' : Flow(a)'[i].round <= round[a]
        BY <2>3, <3>3, <3>4
      <4> QED
        BY <1>0, <2>1, <2>6, <2>8, <3>3, <3>6, <4>1 DEF OrderInv
    <3> QED
      BY <2>2, <3>5, <3>6
  <2> QED
    BY <2>7, <2>8
<1>5. CASE Finish(a)
  <2> DEFINE e == Progress("step", round[a] + 1)
  <2>1. UNCHANGED <<round, pieces, handler, wire, reader>> /\ task[a] = "finishing"
    BY <1>5 DEF Finish
  <2>2. (b # a => task'[b] = task[b]) /\ task'[a] = "ended"
    BY <1>5 DEF Finish, Set, StreamType
  <2>3. e \in ProgressFrame /\ round[a] \in Nat /\ e.type = "progress"
    <3>1. task[a] # "off"
      BY <2>1
    <3>2. e \in ProgressFrame /\ round[a] \in 1..Rounds
      BY <3>1, FrameType
    <3> QED
      BY <3>2, StreamAssumption DEF Progress
  <2>4. handler[a] = "serving" => \A i \in DOMAIN Flow(a) :
          Flow(a)[i].type = "progress" /\ Flow(a)[i].round <= round[a] /\ Flow(a)[i].round \in Nat
    <3>1. wire[a] \in Seq(Frame) /\ channel[a] \in Seq(Frame)
      BY DEF StreamType, Frame
    <3>2. \A i \in DOMAIN Flow(a) : Flow(a)[i].type = "progress" => Flow(a)[i].round \in Nat
      BY <3>1, FrameRound DEF Flow
    <3> QED
      BY <1>0, <2>1, <3>2 DEF OrderInv
  <2>5. handler[a] = "serving" => \A i \in DOMAIN Flow(a) : Before(Flow(a)[i], e)
    BY <2>3, <2>4 DEF Before, Progress
  <2>6. /\ Ordered(Flow(a)')
        /\ handler[a] # "serving" => channel'[a] = <<>>
        /\ \A c \in Ask : c # a => channel'[c] = channel[c]
        /\ \A i \in DOMAIN Flow(a)' :
             \/ handler[a] = "serving" /\ Flow(a)'[i] = e
             \/ \E j \in DOMAIN Flow(a) : Flow(a)'[i] = Flow(a)[j]
    BY <1>0, <1>5, <2>1, <2>3, <2>5, EmitFlow DEF Finish
  <2>7. CASE b # a
    BY <1>0, <2>1, <2>2, <2>6, <2>7, OrderElsewhere
  <2>8. CASE b = a
    <3>1. handler[a] = "serving" => \A i \in DOMAIN Flow(a)' : Flow(a)'[i].type = "progress"
      BY <2>3, <2>4, <2>6
    <3>2. pieces[a] = <<>>
      BY <1>0, <2>1 DEF OrderInv
    <3> QED
      BY <2>1, <2>2, <2>6, <2>8, <3>1, <3>2 DEF OrderInv
  <2> QED
    BY <2>7, <2>8
<1> QED
  BY <1>1, <1>2, <1>3, <1>4, <1>5

LEMMA HandlerOrder ==
  ASSUME Shapes, \A a \in Ask : OrderInv(a),
         Kill \/ \E a \in Ask : Relay(a) \/ WriteDone(a) \/ Abandon(a),
         NEW b \in Ask
  PROVE  OrderInv(b)'
<1> USE DEF Shapes
<1>0. OrderInv(b)
  OBVIOUS
<1>1. ASSUME NEW a \in Ask, Relay(a) PROVE OrderInv(b)'
  <2>1. UNCHANGED <<task, round, pieces, handler, reader>> /\ handler[a] = "serving" /\ channel[a] # <<>>
    BY <1>1 DEF Relay
  <2>2. \/ channel[b] # <<>> /\ wire'[b] = Append(wire[b], Head(channel[b])) /\ channel'[b] = Tail(channel[b]) /\ b = a
        \/ wire'[b] = wire[b] /\ channel'[b] = channel[b]
    BY <1>1, <2>1 DEF Relay, Set, StreamType
  <2>3. task[b] = "off" => b # a
    BY <1>0, <2>1 DEF OrderInv
  <2> QED
    BY <1>0, <2>1, <2>2, <2>3, TakingKeepsOrder DEF OrderInv
<1>2. ASSUME NEW a \in Ask, WriteDone(a) PROVE OrderInv(b)'
  <2>1. /\ UNCHANGED <<task, round, pieces, channel, reader>>
        /\ handler[a] = "serving" /\ channel[a] = <<>> /\ task[a] \in Gone /\ pieces[a] = <<>>
    BY <1>2 DEF WriteDone
  <2>2. /\ b # a => wire'[b] = wire[b] /\ handler'[b] = handler[b]
        /\ wire'[a] = Append(wire[a], Done(a)) /\ handler'[a] = "finished"
    BY <1>2 DEF WriteDone, Set, StreamType
  <2>3. CASE b # a
    BY <1>0, <2>1, <2>2, <2>3, OrderElsewhere
  <2>4. CASE b = a
    <3>1. wire[a] \in Seq(Frame) /\ Done(a) \in Frame
      BY DoneType DEF StreamType, Frame
    <3>2. Flow(a) = wire[a] /\ Flow(a)' = Append(wire[a], Done(a))
      <4>1. Append(wire[a], Done(a)) \in Seq(Frame) /\ <<>> \in Seq(Frame)
        BY <3>1
      <4> QED
        BY <2>1, <2>2, <3>1, <4>1, Joining DEF Flow
    <3>3. Done(a).type = "done"
      BY DEF Done
    <3>4. \A i \in DOMAIN Flow(a) : Before(Flow(a)[i], Done(a))
      BY <1>0, <2>1, <2>4, <3>3 DEF Before, OrderInv
    <3>5. Ordered(Flow(a)')
      BY <1>0, <2>4, <3>1, <3>2, <3>4, OrderedAppend DEF OrderInv
    <3> QED
      BY <1>0, <2>1, <2>2, <2>4, <3>5 DEF OrderInv, Gone
  <2> QED
    BY <2>3, <2>4
<1>3. ASSUME NEW a \in Ask, Abandon(a) PROVE OrderInv(b)'
  <2>1. UNCHANGED <<task, round, pieces, wire, reader>> /\ handler[a] = "serving"
    BY <1>3 DEF Abandon
  <2>2. \/ b # a /\ handler'[b] = handler[b] /\ channel'[b] = channel[b]
        \/ b = a /\ handler'[b] = "gone" /\ channel'[b] = <<>>
    BY <1>3 DEF Abandon, Set, StreamType
  <2>3. task[b] = "off" => b # a
    BY <1>0, <2>1 DEF OrderInv
  <2> QED
    BY <1>0, <2>1, <2>2, <2>3, TakingKeepsOrder DEF OrderInv
<1>4. CASE Kill
  <2>1. /\ UNCHANGED <<round, wire, reader>> /\ pieces'[b] = <<>> /\ channel'[b] = <<>>
        /\ task'[b] \in {task[b], "failed"} /\ (task'[b] = "off" => task[b] = "off")
        /\ handler'[b] # "serving" /\ (handler[b] = "off" => handler'[b] = "off")
    BY <1>4 DEF Kill, Gone, Working
  <2> QED
    BY <1>0, <2>1, TakingKeepsOrder DEF OrderInv
<1> QED
  BY <1>1, <1>2, <1>3, <1>4

LEMMA OpenOrder ==
  ASSUME Shapes, \A a \in Ask : OrderInv(a), NEW a \in Ask, NEW s, Open(a, s), NEW b \in Ask
  PROVE  OrderInv(b)'
<1> USE DEF Shapes
<1>1. /\ UNCHANGED <<pieces, channel, wire>> /\ task[a] = "off"
      /\ task'[a] = "completing" /\ round'[a] = 1 /\ handler'[a] = "serving"
      /\ b # a => task'[b] = task[b] /\ round'[b] = round[b] /\ handler'[b] = handler[b] /\ reader'[b] = reader[b]
  BY DEF Open, Unused, Set, StreamType
<1>2. wire[a] = <<>> /\ channel[a] = <<>> /\ pieces[a] = <<>>
  BY <1>1 DEF OrderInv
<1>3. CASE b # a
  BY <1>1, <1>3, OrderElsewhere
<1>4. CASE b = a
  <2>1. Flow(a)' = <<>>
    BY <1>1, <1>2 DEF Flow
  <2> QED
    BY <1>1, <1>2, <1>4, <2>1 DEF OrderInv, Ordered
<1> QED
  BY <1>3, <1>4

LEMMA ReaderOrder ==
  ASSUME Shapes, \A a \in Ask : OrderInv(a), NEW a \in Ask, task[a] # "off",
         UNCHANGED <<session, task, round, pieces, events, pending, channel, handler>>,
         \/ wire' = wire
         \/ wire' = Set(wire, a, <<>>)
         \/ wire[a] # <<>> /\ wire' = Set(wire, a, Tail(wire[a])),
         \/ reader' = reader
         \/ \E r \in {"reading", "left", "closed", "over"} : reader' = Set(reader, a, r),
         NEW b \in Ask
  PROVE  OrderInv(b)'
<1> USE DEF Shapes
<1>0. OrderInv(b) /\ (b = a => task[b] # "off")
  OBVIOUS
<1>1. \/ wire'[b] = wire[b]
      \/ b = a /\ wire'[b] = <<>>
      \/ b = a /\ wire[b] # <<>> /\ wire'[b] = Tail(wire[b])
  BY DEF Set, StreamType
<1>2. b # a => reader'[b] = reader[b] /\ wire'[b] = wire[b]
  BY DEF Set, StreamType
<1> QED
  BY <1>0, <1>1, <1>2, TakingKeepsOrder DEF OrderInv

LEMMA NextOrder ==
  ASSUME Shapes, \A a \in Ask : OrderInv(a), [Next]_vars, NEW b \in Ask
  PROVE  OrderInv(b)'
<1>0. ASSUME NEW a \in Ask, wire[a] # <<>> \/ Ended(a) PROVE task[a] # "off"
  BY <1>0 DEF OrderInv, Ended
<1>1. CASE UNCHANGED stream
  BY <1>1, OrderElsewhere DEF stream
<1>2. CASE Runtime
  BY <1>2, TaskOrder, HandlerOrder DEF Runtime, Serve
<1>3. ASSUME NEW a \in Ask, Forward(a) PROVE OrderInv(b)'
  <2>1. task[a] # "off"
    BY <1>0, <1>3 DEF Forward
  <2> QED
    BY <1>3, <2>1, ReaderOrder DEF Forward
<1>4. ASSUME NEW a \in Ask, ForwardEnds(a) PROVE OrderInv(b)'
  <2>1. task[a] # "off"
    BY <1>0, <1>4 DEF ForwardEnds
  <2> QED
    BY <1>4, <2>1, ReaderOrder DEF ForwardEnds
<1>5. ASSUME NEW a \in Ask, TerminalAsk(a) \/ \E p \in Page : PageAsk(p, a) PROVE OrderInv(b)'
  BY <1>5, OpenOrder DEF TerminalAsk, PageAsk
<1>6. ASSUME NEW p \in Page, PageLeaves(p) PROVE OrderInv(b)'
  <2>1. CASE asking[p] = NoAsk \/ reader[asking[p]] # "reading"
    <3>1. UNCHANGED stream
      BY <1>6, <2>1 DEF PageLeaves, stream
    <3> QED
      BY <3>1, <1>1
  <2>2. CASE asking[p] \in Ask /\ reader[asking[p]] = "reading"
    <3>1. task[asking[p]] # "off"
      BY <2>2 DEF OrderInv
    <3> QED
      BY <1>6, <2>2, <3>1, ReaderOrder DEF PageLeaves
  <2> QED
    BY <2>1, <2>2 DEF Shapes, PagesType
<1>7. CASE TerminalReads
  <2>1. question \in Ask
    BY <1>7 DEF TerminalReads, Shapes, PagesType
  <2>2. task[question] # "off"
    BY <1>0, <1>7, <2>1 DEF TerminalReads
  <2> QED
    BY <1>7, <2>1, <2>2, ReaderOrder DEF TerminalReads
<1>8. CASE TerminalAnswered
  <2>1. question \in Ask
    BY <1>8 DEF TerminalAnswered, Shapes, PagesType
  <2>2. task[question] # "off"
    BY <1>0, <1>8, <2>1 DEF TerminalAnswered
  <2> QED
    BY <1>8, <2>1, <2>2, ReaderOrder DEF TerminalAnswered
<1>9. ASSUME \/ TerminalConfirm \/ TerminalNew
             \/ \E p \in Page : PageShows(p) \/ PageConfirm(p) \/ BeginReset(p) \/ EndReset(p) \/ PageResets(p)
      PROVE  UNCHANGED stream
  BY <1>9 DEF TerminalConfirm, TerminalNew, PageShows, PageConfirm, BeginReset, EndReset, PageResets
<1> QED
  BY <1>1, <1>2, <1>3, <1>4, <1>5, <1>6, <1>7, <1>8, <1>9 DEF Next, vars, stream

LEMMA InitOrder ==
  ASSUME Init, NEW a \in Ask
  PROVE  OrderInv(a)
<1>1. wire[a] = <<>> /\ channel[a] = <<>> /\ Flow(a) = <<>>
  BY DEF Init, InitStream, Flow
<1> QED
  BY <1>1 DEF Init, InitStream, OrderInv, Ordered

LEMMA OrderAlways == Spec => [](\A a \in Ask : OrderInv(a))
<1>1. Init => \A a \in Ask : OrderInv(a)
  BY InitOrder
<1>2. Shapes /\ (\A a \in Ask : OrderInv(a)) /\ [Next]_vars => (\A a \in Ask : OrderInv(a))'
  BY NextOrder
<1> QED
  BY <1>1, <1>2, ShapesAlways, PTL DEF Spec

\* Whatever the queues drop, and however slowly the console reads: it is shown
\* the pieces of a reply before its events, one reply after the other, and
\* nothing after the done frame.
THEOREM StreamsAreShownInOrder == Spec => []ShownInOrder
<1>1. (\A a \in Ask : OrderInv(a)) => ShownInOrder
  BY DEF OrderInv, Ordered, Before, ShownInOrder
<1> QED
  BY <1>1, OrderAlways, PTL
-----------------------------------------------------------------------------
(* The last frame. *)

\* Only the task itself lists its events.
LEMMA NextListed == Shapes /\ ListedInv /\ [Next]_vars => ListedInv'
<1> SUFFICES ASSUME Shapes, ListedInv, [Next]_vars PROVE ListedInv'
  OBVIOUS
<1> USE DEF Shapes
<1>1. CASE UNCHANGED <<task, round, events>>
  BY <1>1 DEF ListedInv
<1>2. ASSUME NEW a \in Ask, Step(a) PROVE ListedInv'
  <2>1. /\ round[a] \in 1..Rounds /\ Rounds \in Nat
        /\ events[a] = [i \in 1..(round[a] - 1) |-> i] /\ task[a] = "draining"
    BY <1>2, FrameType, StreamAssumption DEF Step, ListedInv
  <2>2. Append(events[a], round[a]) = [i \in 1..round[a] |-> i]
    <3>1. events[a] \in Seq(1..(Rounds + 1)) /\ Len(events[a]) = round[a] - 1
      BY <2>1 DEF StreamType
    <3> QED
      BY <2>1, <3>1
  <2>3. \A b \in Ask : b # a => task'[b] = task[b] /\ round'[b] = round[b] /\ events'[b] = events[b]
    BY <1>2 DEF Step, Continue, Set, StreamType
  <2>4. events'[a] = [i \in 1..round[a] |-> i]
    BY <1>2, <2>2 DEF Step, Set, StreamType
  <2>5. \/ task'[a] = "completing" /\ round'[a] = round[a] + 1
        \/ task'[a] = "finishing" /\ round'[a] = round[a]
    BY <1>2 DEF Step, Continue, Set, StreamType
  <2>6. (round[a] + 1) - 1 = round[a]
    BY <2>1
  <2> QED
    BY <2>3, <2>4, <2>5, <2>6 DEF ListedInv
<1>3. ASSUME NEW a \in Ask, Finish(a) PROVE ListedInv'
  <2>1. /\ round[a] \in 1..Rounds /\ Rounds \in Nat
        /\ events[a] = [i \in 1..round[a] |-> i] /\ task[a] = "finishing"
    BY <1>3, FrameType, StreamAssumption DEF Finish, ListedInv
  <2>2. Append(events[a], round[a] + 1) = [i \in 1..(round[a] + 1) |-> i]
    <3>1. events[a] \in Seq(1..(Rounds + 1)) /\ Len(events[a]) = round[a]
      BY <2>1 DEF StreamType
    <3> QED
      BY <2>1, <3>1
  <2>3. /\ \A b \in Ask : b # a => task'[b] = task[b] /\ events'[b] = events[b]
        /\ task'[a] = "ended" /\ round' = round
        /\ events'[a] = [i \in 1..(round[a] + 1) |-> i]
    BY <1>3, <2>2 DEF Finish, Set, StreamType
  <2> QED
    BY <2>3 DEF ListedInv
<1>4. ASSUME NEW a \in Ask, NEW s, Open(a, s) PROVE ListedInv'
  <2>1. /\ \A b \in Ask : b # a => task'[b] = task[b] /\ round'[b] = round[b]
        /\ events' = events /\ events[a] = <<>>
        /\ task'[a] = "completing" /\ round'[a] = 1
    BY <1>4 DEF Open, Unused, Set, StreamType, ListedInv
  <2>2. [i \in 1..(1 - 1) |-> i] = <<>>
    OBVIOUS
  <2> QED
    BY <2>1, <2>2 DEF ListedInv
<1>5. ASSUME NEW a \in Ask, Reply(a) \/ Fail(a) PROVE ListedInv'
  <2>1. /\ UNCHANGED <<round, events>>
        /\ \A b \in Ask : task'[b] = task[b] \/ task'[b] = "failed" \/ (task[b] = "completing" /\ task'[b] = "draining")
    BY <1>5 DEF Reply, Fail, Set, StreamType
  <2> QED
    BY <2>1 DEF ListedInv
<1>6. CASE Kill
  <2>1. UNCHANGED <<round, events>> /\ \A b \in Ask : task'[b] = task[b] \/ task'[b] = "failed"
    BY <1>6 DEF Kill
  <2> QED
    BY <2>1 DEF ListedInv
<1>7. ASSUME NEW a \in Ask, Pump(a) \/ Piece(a) \/ Relay(a) \/ WriteDone(a) \/ Abandon(a)
      PROVE  UNCHANGED <<task, round, events>>
  BY <1>7 DEF Pump, Piece, Relay, WriteDone, Abandon
<1>8. ASSUME NEW a \in Ask, Forward(a) \/ ForwardEnds(a) PROVE UNCHANGED <<task, round, events>>
  BY <1>8 DEF Forward, ForwardEnds
<1>9. ASSUME NEW p \in Page,
             \/ PageShows(p) \/ PageConfirm(p) \/ BeginReset(p) \/ EndReset(p)
             \/ PageResets(p) \/ PageLeaves(p)
      PROVE  UNCHANGED <<task, round, events>>
  BY <1>9 DEF PageShows, PageConfirm, BeginReset, EndReset, PageResets, PageLeaves, stream
<1>10. ASSUME TerminalReads \/ TerminalAnswered \/ TerminalConfirm \/ TerminalNew
       PROVE  UNCHANGED <<task, round, events>>
  BY <1>10 DEF TerminalReads, TerminalAnswered, TerminalConfirm, TerminalNew, stream
<1>11. CASE Runtime
  BY <1>11, <1>1, <1>2, <1>3, <1>5, <1>6, <1>7 DEF Runtime, Serve
<1>12. ASSUME NEW a \in Ask, TerminalAsk(a) \/ \E p \in Page : PageAsk(p, a) PROVE ListedInv'
  BY <1>12, <1>4 DEF TerminalAsk, PageAsk
<1>13. CASE UNCHANGED vars
  BY <1>13, <1>1 DEF vars, stream
<1> QED
  BY <1>1, <1>8, <1>9, <1>10, <1>11, <1>12, <1>13 DEF Next

LEMMA ListedAlways == Spec => []ListedInv
<1>1. Init => ListedInv
  BY DEF Init, InitStream, ListedInv
<1> QED
  BY <1>1, NextListed, ShapesAlways, PTL DEF Spec

-----------------------------------------------------------------------------
(* Stage's slot. *)

\* The session of a done frame is the request's, or the one it opened.
LEMMA NextNamed ==
  ASSUME Shapes, \A a \in Ask : OrderInv(a), \A a \in Ask : NamedInv(a), [Next]_vars
  PROVE  \A a \in Ask : NamedInv(a)'
<1> SUFFICES ASSUME NEW b \in Ask PROVE NamedInv(b)'
  OBVIOUS
<1> USE DEF Shapes
<1>0. wire[b] \in Seq(ProgressFrame \cup DoneFrame)
  BY DEF StreamType
<1>1. ASSUME session'[b] = session[b],
             wire'[b] = wire[b] \/ wire'[b] = <<>> \/ (wire[b] # <<>> /\ wire'[b] = Tail(wire[b]))
      PROVE  NamedInv(b)'
  <2>1. CASE wire'[b] = wire[b]
    BY <1>1, <2>1 DEF NamedInv, Named, Outcome
  <2>2. CASE wire'[b] = <<>>
    BY <1>1, <2>2 DEF NamedInv
  <2>3. CASE wire[b] # <<>> /\ wire'[b] = Tail(wire[b])
    <3>1. \A i \in DOMAIN wire'[b] : i + 1 \in DOMAIN wire[b] /\ wire'[b][i] = wire[b][i + 1]
      BY <1>0, <2>3
    <3> QED
      BY <1>1, <3>1 DEF NamedInv, Named, Outcome
  <2> QED
    BY <1>1, <2>1, <2>2, <2>3
<1>2. ASSUME NEW f, session'[b] = session[b], wire'[b] = Append(wire[b], f),
             Named(b, f)
      PROVE  NamedInv(b)'
  <2>1. \A i \in DOMAIN wire'[b] : (i \in DOMAIN wire[b] /\ wire'[b][i] = wire[b][i]) \/ wire'[b][i] = f
    BY <1>0, <1>2
  <2> QED
    BY <1>2, <2>1 DEF NamedInv, Named, Outcome
<1>3. CASE UNCHANGED <<session, wire>>
  BY <1>3, <1>1
<1>4. ASSUME NEW a \in Ask, NEW s, Open(a, s) PROVE NamedInv(b)'
  <2>1. a = b => wire[b] = <<>>
    BY <1>4 DEF Open, Unused, OrderInv
  <2>2. CASE a = b
    BY <1>4, <2>1, <2>2 DEF Open, NamedInv
  <2>3. CASE a # b
    BY <1>4, <1>1, <2>3 DEF Open, Set, StreamType
  <2> QED
    BY <2>2, <2>3
<1>5. ASSUME NEW a \in Ask, Relay(a) PROVE NamedInv(b)'
  <2>1. CASE a = b
    <3>1. channel[b] \in Seq(ProgressFrame) /\ Head(channel[b]) \in ProgressFrame
      BY <1>5, <2>1, QueueType DEF Relay, StreamType
    <3>2. Head(channel[b]).type # "done"
      BY <3>1 DEF ProgressFrame
    <3> QED
      BY <1>5, <1>2, <2>1, <3>2 DEF Relay, Set, StreamType, Named
  <2>2. CASE a # b
    BY <1>5, <1>1, <2>2 DEF Relay, Set, StreamType
  <2> QED
    BY <2>1, <2>2
<1>6. ASSUME NEW a \in Ask, WriteDone(a) PROVE NamedInv(b)'
  <2>1. Named(b, Done(b))
    BY DEF Done, Named
  <2>2. CASE a = b
    BY <1>6, <1>2, <2>1, <2>2 DEF WriteDone, Set, StreamType
  <2>3. CASE a # b
    BY <1>6, <1>1, <2>3 DEF WriteDone, Set, StreamType
  <2> QED
    BY <2>2, <2>3
<1>7. ASSUME NEW a \in Ask, Reply(a) \/ Pump(a) \/ Step(a) \/ Finish(a) \/ Abandon(a) \/ Piece(a) \/ Fail(a)
      PROVE  UNCHANGED <<session, wire>>
  BY <1>7 DEF Reply, Pump, Step, Finish, Abandon, Piece, Fail
<1>8. Kill => UNCHANGED <<session, wire>>
  BY DEF Kill
<1>9. CASE Runtime
  BY <1>9, <1>3, <1>5, <1>6, <1>7, <1>8 DEF Runtime, Serve
<1>10. ASSUME NEW a \in Ask, TerminalAsk(a) \/ \E p \in Page : PageAsk(p, a) PROVE NamedInv(b)'
  BY <1>10, <1>4 DEF TerminalAsk, PageAsk
<1>11. ASSUME NEW a \in Ask, Forward(a) PROVE NamedInv(b)'
  <2>1. CASE a = b
    BY <1>11, <1>1, <2>1 DEF Forward, Set, StreamType
  <2>2. CASE a # b
    BY <1>11, <1>1, <2>2 DEF Forward, Set, StreamType
  <2> QED
    BY <2>1, <2>2
<1>12. CASE TerminalReads
  <2>1. question \in Ask
    BY <1>12 DEF TerminalReads, PagesType
  <2>2. CASE question = b
    BY <1>12, <1>1, <2>2 DEF TerminalReads, Set, StreamType
  <2>3. CASE question # b
    BY <1>12, <1>1, <2>1, <2>3 DEF TerminalReads, Set, StreamType
  <2> QED
    BY <2>2, <2>3
<1>13. ASSUME \/ TerminalAnswered \/ TerminalConfirm \/ TerminalNew
              \/ \E a \in Ask : ForwardEnds(a)
              \/ \E p \in Page :
                   \/ PageShows(p) \/ PageConfirm(p) \/ BeginReset(p) \/ EndReset(p)
                   \/ PageResets(p) \/ PageLeaves(p)
       PROVE  UNCHANGED <<session, wire>>
  BY <1>13 DEF TerminalAnswered, TerminalConfirm, TerminalNew, ForwardEnds, PageShows, PageConfirm,
               BeginReset, EndReset, PageResets, PageLeaves, stream
<1>14. UNCHANGED vars => UNCHANGED <<session, wire>>
  BY DEF vars, stream
<1> QED
  BY <1>3, <1>9, <1>10, <1>11, <1>12, <1>13, <1>14 DEF Next

\* Steps that neither open a request nor touch the slot.
LEMMA QuietElsewhere ==
  ASSUME QuietInv, Shapes, Forwarded' \subseteq Forwarded,
         UNCHANGED <<session, slot, resetter, retired>>,
         \A a \in Ask : task'[a] = "off" <=> task[a] = "off"
  PROVE  QuietInv'
  BY DEF QuietInv, QuietResetHolds, Session

\* A request, with the slot's conversation or the terminal's.
LEMMA OpenQuiet ==
  ASSUME QuietInv, Shapes, NEW a \in Ask, NEW s, Open(a, s),
         UNCHANGED <<slot, resetter, retired>>,
         \/ question' = question /\ s = slot /\ resetter = {}
         \/ question' = a /\ question = NoAsk
  PROVE  QuietInv'
<1> USE DEF Shapes
<1>1. /\ task[a] = "off" /\ task'[a] # "off"
      /\ \A b \in Ask : b # a => task'[b] = task[b]
  BY DEF Open, Unused, Set, StreamType
<1>2. \A b \in Forwarded' : b # a => b \in Forwarded /\ session'[b] = session[b]
  BY PageAssumption DEF Open, Set, StreamType, Forwarded, ByPage
<1>3. a \in Forwarded' => session'[a] = slot /\ slot \notin retired /\ a \notin retired
  BY <1>1 DEF Open, Set, StreamType, Forwarded, ByPage, QuietInv, QuietResetHolds
<1>4. a \in Forwarded' /\ slot \in Session => task'[slot] # "off"
  BY <1>1 DEF QuietInv, Session
<1>5. \A b \in Forwarded' : session'[b] \in Session => task'[session'[b]] # "off"
  BY <1>1, <1>2, <1>3, <1>4 DEF QuietInv, Session
<1>6. \A b \in Forwarded' : session'[b] \notin retired /\ (session'[b] = NoSession => b \notin retired)
  BY <1>2, <1>3 DEF QuietInv
<1> QED
  BY <1>1, <1>5, <1>6 DEF QuietInv, QuietResetHolds

\* Stage names the conversation of a request it forwards: nobody reset that.
LEMMA ForwardQuiet ==
  ASSUME QuietInv, Shapes, NEW a \in Ask, OrderInv(a), NamedInv(a), Forward(a)
  PROVE  QuietInv'
<1> USE DEF Shapes
<1>1. Forwarded' \subseteq Forwarded
  <2>1. question' = question /\ \A b \in Ask : b # a => reader'[b] = reader[b]
    BY DEF Forward, terminal, Set, StreamType
  <2> QED
    BY <2>1 DEF Forward, Forwarded, ByPage
<1>2. slot' = slot \/ (slot' \in {session[a], Outcome(a)} /\ slot' # NoSession)
  <2>1. wire[a] # <<>> /\ wire[a] \in Seq(ProgressFrame \cup DoneFrame)
    BY DEF Forward, StreamType
  <2>2. 1 \in DOMAIN wire[a] /\ Head(wire[a]) = wire[a][1]
    BY <2>1
  <2> QED
    BY <2>2 DEF Forward, NamedInv, Named
<1>3. a \in Forwarded /\ task[a] # "off"
  BY DEF Forward, OrderInv
<1>4. slot' # slot => slot' \notin retired /\ \A b \in Ask : task[b] = "off" => slot' # b
  <2>1. session[a] \notin retired /\ Outcome(a) \notin retired
    BY <1>3 DEF QuietInv, Outcome
  <2>2. session[a] # NoSession => session[a] \in Session /\ task[session[a]] # "off"
    BY <1>3 DEF QuietInv, StreamType
  <2> QED
    BY <1>2, <1>3, <2>1, <2>2 DEF Outcome
<1>5. UNCHANGED <<session, task, resetter, retired>>
  BY DEF Forward
<1>6. slot' \in retired => resetter # {}
  BY <1>4 DEF QuietInv, QuietResetHolds
<1> QED
  BY <1>1, <1>4, <1>5, <1>6 DEF QuietInv, QuietResetHolds, Session

\* A reset, while the slot's lock keeps everybody from reading it.
LEMMA ResetQuiet ==
  ASSUME QuietInv, Shapes, NEW p \in Page, BeginReset(p) \/ EndReset(p)
  PROVE  QuietInv'
<1> USE DEF Shapes
<1>1. UNCHANGED <<session, task, reader, question>> /\ Forwarded' = Forwarded
  BY DEF BeginReset, EndReset, stream, terminal, Forwarded, ByPage
<1>2. CASE BeginReset(p)
  <2>1. slot' = slot /\ resetter' = {p}
    BY <1>2 DEF BeginReset
  <2>2. CASE retired' = retired
    BY <1>1, <2>1, <2>2 DEF QuietInv, QuietResetHolds, Session
  <2>3. CASE Forwarded = {} /\ slot # NoSession /\ retired' = retired \cup {slot}
    BY <1>1, <2>1, <2>3 DEF QuietInv, QuietResetHolds, Session
  <2> QED
    BY <1>2, <2>2, <2>3 DEF BeginReset, Overlapped
<1>3. CASE EndReset(p)
  <2>1. slot' = NoSession /\ retired' = retired
    BY <1>3 DEF EndReset
  <2>2. \A a \in Ask : a # NoSession
    BY StreamAssumption DEF Ask
  <2> QED
    BY <1>1, <2>1, <2>2 DEF QuietInv, QuietResetHolds, Session
<1> QED
  BY <1>2, <1>3

LEMMA NextQuiet ==
  ASSUME QuietInv, Shapes, \A a \in Ask : OrderInv(a), \A a \in Ask : NamedInv(a), [Next]_vars
  PROVE  QuietInv'
<1> USE DEF Shapes
<1>1. CASE Runtime
  <2>1. UNCHANGED <<session, reader, question, slot, resetter, retired>>
    BY <1>1 DEF Runtime, Kill, Serve, Reply, Pump, Step, Finish, Relay, WriteDone, Abandon, Piece, Fail, pages, terminal
  <2>2. \A a \in Ask : task'[a] = "off" <=> task[a] = "off"
    <3>1. ASSUME NEW b \in Ask, Serve(b) \/ Piece(b) \/ Fail(b)
          PROVE \A a \in Ask : task'[a] = "off" <=> task[a] = "off"
      BY <3>1 DEF Serve, Reply, Pump, Step, Continue, Finish, Relay, WriteDone, Abandon, Piece, Fail,
                  Set, StreamType, Working
    <3>2. CASE Kill
      BY <3>2 DEF Kill, StreamType, Working
    <3> QED
      BY <1>1, <3>1, <3>2 DEF Runtime
  <2>3. Forwarded' = Forwarded
    BY <2>1 DEF Forwarded, ByPage
  <2> QED
    BY <2>1, <2>2, <2>3, QuietElsewhere
<1>2. ASSUME NEW a \in Ask, Forward(a) PROVE QuietInv'
  BY <1>2, ForwardQuiet
<1>3. ASSUME NEW a \in Ask, ForwardEnds(a) PROVE QuietInv'
  <2>1. Forwarded' \subseteq Forwarded
    BY <1>3 DEF ForwardEnds, terminal, Forwarded, ByPage, Set, StreamType
  <2> QED
    BY <1>3, <2>1, QuietElsewhere DEF ForwardEnds, pages
<1>4. ASSUME NEW a \in Ask, TerminalAsk(a) PROVE QuietInv'
  BY <1>4, OpenQuiet DEF TerminalAsk, pages
<1>5. ASSUME NEW a \in Ask, NEW p \in Page, PageAsk(p, a) PROVE QuietInv'
  BY <1>5, OpenQuiet DEF PageAsk, terminal
<1>6. ASSUME NEW p \in Page, BeginReset(p) \/ EndReset(p) PROVE QuietInv'
  BY <1>6, ResetQuiet
<1>7. ASSUME NEW p \in Page, PageShows(p) \/ PageConfirm(p) \/ PageResets(p) PROVE QuietInv'
  <2>1. UNCHANGED <<session, task, reader, question, slot, resetter, retired>>
    BY <1>7 DEF PageShows, PageConfirm, PageResets, stream, terminal
  <2> QED
    BY <2>1, QuietElsewhere DEF Forwarded, ByPage
<1>8. ASSUME NEW p \in Page, PageLeaves(p) PROVE QuietInv'
  <2>1. Forwarded' \subseteq Forwarded
    BY <1>8 DEF PageLeaves, terminal, Forwarded, ByPage, Set, StreamType
  <2>2. UNCHANGED <<session, task, slot>> /\ retired' \subseteq retired
    BY <1>8 DEF PageLeaves
  <2>3. slot \in retired' => resetter' # {}
    BY <1>8 DEF PageLeaves, QuietInv, QuietResetHolds
  <2> QED
    BY <2>1, <2>2, <2>3 DEF QuietInv, QuietResetHolds, Session
<1>9. ASSUME TerminalReads \/ TerminalConfirm \/ TerminalNew PROVE QuietInv'
  <2>1. UNCHANGED <<session, task, reader, question, slot, resetter, retired>>
    BY <1>9 DEF TerminalReads, TerminalConfirm, TerminalNew, stream, pages, terminal
  <2> QED
    BY <2>1, QuietElsewhere DEF Forwarded, ByPage
<1>10. CASE TerminalAnswered
  <2>1. Forwarded' \subseteq Forwarded
    <3>1. question \in Ask /\ reader' = Set(reader, question, "over")
      BY <1>10 DEF TerminalAnswered, PagesType
    <3> QED
      BY <3>1 DEF Forwarded, ByPage, Set, StreamType
  <2> QED
    BY <1>10, <2>1, QuietElsewhere DEF TerminalAnswered
<1>11. CASE UNCHANGED vars
  <2>1. UNCHANGED <<session, task, reader, question, slot, resetter, retired>>
    BY <1>11 DEF vars, stream, pages, terminal
  <2> QED
    BY <2>1, QuietElsewhere DEF Forwarded, ByPage
<1> QED
  BY <1>1, <1>2, <1>3, <1>4, <1>5, <1>6, <1>7, <1>8, <1>9, <1>10, <1>11 DEF Next

\* The conversation that a page resets while no page's request is under way,
\* and does not leave before the end, stays out of the slot, whoever asks while
\* the runtime is busy with it.
THEOREM QuietResetsHold == Spec => []QuietResetHolds
<1>1. Init => QuietInv /\ \A a \in Ask : NamedInv(a)
  <2>1. Init => \A a \in Ask : NamedInv(a)
    BY DEF Init, InitStream, NamedInv
  <2>2. Init => QuietInv
    <3>1. \A a \in Ask : a # NoSession
      BY StreamAssumption DEF Ask
    <3> QED
      BY <3>1 DEF Init, InitStream, QuietInv, QuietResetHolds, Forwarded
  <2> QED
    BY <2>1, <2>2
<1>2. /\ Shapes /\ (\A a \in Ask : OrderInv(a)) /\ QuietInv /\ (\A a \in Ask : NamedInv(a))
      /\ [Next]_vars
      => QuietInv' /\ (\A a \in Ask : NamedInv(a))'
  <2> SUFFICES ASSUME Shapes, \A a \in Ask : OrderInv(a), QuietInv, \A a \in Ask : NamedInv(a), [Next]_vars
               PROVE  QuietInv' /\ (\A a \in Ask : NamedInv(a))'
    OBVIOUS
  <2>1. \A a \in Ask : NamedInv(a)'
    BY NextNamed
  <2> QED
    BY <2>1, NextQuiet
<1>3. QuietInv => QuietResetHolds
  BY DEF QuietInv
<1> QED
  BY <1>1, <1>2, <1>3, ShapesAlways, OrderAlways, PTL DEF Spec

-----------------------------------------------------------------------------
(* Decisions and conversations *)

\* Requests that a console has in hand are not unused ones; what came for it
\* is a frame of the request, and nothing comes after it.
InHand == {question, choice} \cup {asking[p] : p \in Page} \cup {decision[p] : p \in Page}

BoxInv ==
  \A a \in Ask :
    /\ inbox[a] # <<>> => Named(a, inbox[a][1])
    /\ a \in Forwarded => inbox[a] = <<>>
    /\ task[a] = "off" => a \notin InHand /\ inbox[a] = <<>>

TerminalInv ==
  /\ question # NoAsk => choice = NoAsk /\ \A p \in Page : asking[p] # question
  /\ choice # NoAsk => chat = Outcome(choice)

\* While the only page asks and nothing overlaps it, Stage forwards its stream
\* and no other.
AskingInv(p) ==
  asking[p] # NoAsk /\ asking[p] \notin crossed =>
    /\ resetter = {} /\ Forwarded \subseteq {asking[p]}
    /\ inbox[asking[p]] # <<>> /\ inbox[asking[p]][1].pending
         => slot = Outcome(asking[p])

\* While it shows a decision, whatever it asks goes to the same conversation.
DecisionInv(p) ==
  decision[p] # NoAsk /\ p \notin hiding \cup resetter /\ decision[p] \notin crossed =>
    /\ slot = Outcome(decision[p])
    /\ \A a \in Forwarded : session[a] = Outcome(decision[p])

OnlyPageInv == \A p \in Page : Page = {p} => AskingInv(p) /\ DecisionInv(p)

TalkInv == BoxInv /\ TerminalInv /\ OnlyPageInv

LEMMA OutcomeIsNamed ==
  ASSUME Shapes, NEW a \in Ask
  PROVE  Outcome(a) \in Session /\ Outcome(a) # NoSession
<1>1. NoSession \notin Session
  BY StreamAssumption DEF Session, Ask
<1> QED
  BY <1>1 DEF Shapes, StreamType, Outcome, Session

LEMMA HeadIsNamed ==
  ASSUME Shapes, NEW a \in Ask, NamedInv(a), wire[a] # <<>>
  PROVE  Named(a, Head(wire[a]))
<1>1. wire[a] \in Seq(ProgressFrame \cup DoneFrame)
  BY DEF Shapes, StreamType
<1>2. 1 \in DOMAIN wire[a] /\ Head(wire[a]) = wire[a][1]
  BY <1>1
<1> QED
  BY <1>2 DEF NamedInv

\* Steps that leave what the consoles have in hand alone.
LEMMA TalkElsewhere ==
  ASSUME TalkInv, Shapes, Forwarded' \subseteq Forwarded,
         UNCHANGED <<session, slot, resetter, asking, inbox, decision, hiding, crossed, terminal>>,
         \A a \in Ask : task'[a] = "off" <=> task[a] = "off"
  PROVE  TalkInv'
<1>1. InHand' = InHand /\ \A a \in Ask : Outcome(a)' = Outcome(a)
  BY DEF InHand, terminal, Outcome
<1>2. BoxInv'
  BY <1>1 DEF TalkInv, BoxInv, Named
<1>3. TerminalInv'
  BY DEF TalkInv, TerminalInv, terminal, Outcome
<1>4. OnlyPageInv'
  BY DEF TalkInv, OnlyPageInv, AskingInv, DecisionInv, Outcome
<1> QED
  BY <1>2, <1>3, <1>4 DEF TalkInv

\* A request is made.
LEMMA OpenTalk ==
  ASSUME Shapes, NEW a \in Ask, NEW s, Open(a, s)
  PROVE  /\ task[a] = "off" /\ \A b \in Ask : task'[b] = "off" => task[b] = "off" /\ b # a
         /\ session'[a] = s /\ \A b \in Ask : b # a => session'[b] = session[b]
         /\ \A b \in Ask : b # a => reader'[b] = reader[b]
         /\ \A b \in Ask : b # a => Outcome(b)' = Outcome(b)
  BY DEF Open, Unused, Set, Shapes, StreamType, Outcome

LEMMA PageAskTalk ==
  ASSUME TalkInv, Shapes, NEW p \in Page, NEW a \in Ask, PageAsk(p, a)
  PROVE  TalkInv'
<1> USE DEF TalkInv
<1>1. /\ Open(a, slot) /\ resetter = {} /\ asking' = Set(asking, p, a)
      /\ UNCHANGED <<slot, resetter, inbox, decision, hiding, chat, question, choice>>
      /\ crossed' = IF Forwarded = {} THEN crossed ELSE crossed \cup Forwarded \cup {a}
  BY DEF PageAsk, terminal
<1>2. /\ task[a] = "off" /\ \A b \in Ask : task'[b] = "off" => task[b] = "off" /\ b # a
      /\ session'[a] = slot /\ \A b \in Ask : b # a => session'[b] = session[b]
      /\ \A b \in Ask : b # a => reader'[b] = reader[b]
      /\ \A b \in Ask : b # a => Outcome(b)' = Outcome(b)
  BY <1>1, OpenTalk
<1>3. a \notin InHand /\ inbox[a] = <<>>
  BY <1>2 DEF BoxInv
<1>4. Forwarded' \subseteq Forwarded \cup {a}
  BY <1>1, <1>2 DEF Forwarded, ByPage
<1>5. asking'[p] = a /\ \A q \in Page : q # p => asking'[q] = asking[q]
  BY <1>1 DEF Shapes, PagesType, Set
<1>6. InHand' \subseteq InHand \cup {a}
  BY <1>1, <1>5 DEF InHand
<1>7. BoxInv'
  BY <1>1, <1>2, <1>3, <1>4, <1>6 DEF BoxInv, Named
<1>8. TerminalInv'
  <2>1. choice # a /\ question # a
    BY <1>3 DEF InHand
  <2>2. choice # NoAsk => choice \in Ask
    BY DEF Shapes, PagesType
  <2> QED
    BY <1>1, <1>2, <1>5, <2>1, <2>2 DEF TerminalInv
<1>9. ASSUME Page = {p} PROVE AskingInv(p)'
  BY <1>1, <1>3, <1>4, <1>5 DEF AskingInv
<1>10. ASSUME Page = {p} PROVE DecisionInv(p)'
  <2>1. decision[p] # a /\ (decision[p] # NoAsk => decision[p] \in Ask)
    BY <1>3 DEF InHand, Shapes, PagesType
  <2>2. DecisionInv(p)
    BY <1>10 DEF OnlyPageInv
  <2> SUFFICES ASSUME decision[p] # NoAsk, p \notin hiding \cup resetter, decision[p] \notin crossed'
               PROVE  /\ slot = Outcome(decision[p])'
                      /\ \A b \in Forwarded' : session'[b] = Outcome(decision[p])'
    BY <1>1 DEF DecisionInv
  <2>3. /\ slot = Outcome(decision[p])
        /\ \A b \in Forwarded : session[b] = Outcome(decision[p])
    BY <1>1, <2>2 DEF DecisionInv
  <2>4. Outcome(decision[p])' = Outcome(decision[p])
    BY <1>1, <1>2, <2>1
  <2>5. \A b \in Forwarded' : b \in Ask
    BY DEF Forwarded
  <2> QED
    BY <1>2, <1>4, <2>3, <2>4, <2>5
<1>11. OnlyPageInv'
  BY <1>9, <1>10 DEF OnlyPageInv
<1> QED
  BY <1>7, <1>8, <1>11

LEMMA TerminalAskTalk ==
  ASSUME TalkInv, Shapes, NEW a \in Ask, TerminalAsk(a)
  PROVE  TalkInv'
<1> USE DEF TalkInv
<1>1. /\ Open(a, chat) /\ question = NoAsk /\ choice = NoAsk /\ question' = a
      /\ UNCHANGED <<slot, resetter, asking, inbox, decision, hiding, crossed, chat, choice>>
  BY DEF TerminalAsk, pages
<1>2. /\ task[a] = "off" /\ \A b \in Ask : task'[b] = "off" => task[b] = "off" /\ b # a
      /\ \A b \in Ask : b # a => session'[b] = session[b]
      /\ \A b \in Ask : b # a => reader'[b] = reader[b]
      /\ \A b \in Ask : b # a => Outcome(b)' = Outcome(b)
  BY <1>1, OpenTalk
<1>3. a \notin InHand /\ inbox[a] = <<>>
  BY <1>2 DEF BoxInv
<1>4. Forwarded' \subseteq Forwarded /\ a \notin Forwarded'
  BY <1>1, <1>2, PageAssumption DEF Forwarded, ByPage
<1>5. InHand' \subseteq InHand \cup {a}
  BY <1>1 DEF InHand
<1>6. BoxInv'
  BY <1>1, <1>2, <1>3, <1>4, <1>5 DEF BoxInv, Named
<1>7. TerminalInv'
  BY <1>1, <1>3 DEF TerminalInv, InHand
<1>8. ASSUME NEW p \in Page, Page = {p} PROVE AskingInv(p)' /\ DecisionInv(p)'
  <2>1. /\ asking[p] # a /\ decision[p] # a
        /\ asking[p] # NoAsk => asking[p] \in Ask
        /\ decision[p] # NoAsk => decision[p] \in Ask
    BY <1>3 DEF InHand, Shapes, PagesType
  <2>2. AskingInv(p) /\ DecisionInv(p)
    BY <1>8 DEF OnlyPageInv
  <2>3. AskingInv(p)'
    BY <1>1, <1>2, <1>4, <2>1, <2>2 DEF AskingInv
  <2>4. \A b \in Forwarded' : b \in Forwarded /\ session'[b] = session[b]
    BY <1>2, <1>4 DEF Forwarded
  <2>5. DecisionInv(p)'
    BY <1>1, <1>2, <2>1, <2>2, <2>4 DEF DecisionInv
  <2> QED
    BY <2>3, <2>5
<1> QED
  BY <1>6, <1>7, <1>8 DEF OnlyPageInv

\* A frame passes Stage.
LEMMA ForwardTalk ==
  ASSUME TalkInv, Shapes, NEW a \in Ask, NamedInv(a), OrderInv(a), Forward(a)
  PROVE  TalkInv'
<1> USE DEF TalkInv
<1>0. PICK frame : frame = Head(wire[a])
  OBVIOUS
<1>1. /\ a \in Forwarded /\ wire[a] # <<>>
      /\ UNCHANGED <<session, task, resetter, asking, decision, hiding, crossed, chat, question, choice>>
      /\ slot' = IF frame.type = "done" /\ frame.session # NoSession THEN frame.session ELSE slot
      /\ reader' = Set(reader, a, CASE reader[a] = "left" -> "closed"
                                     [] frame.type = "done" -> "over"
                                     [] OTHER -> "reading")
      /\ inbox' = IF reader[a] = "reading" /\ frame.type = "done"
                  THEN Set(inbox, a, <<frame>>) ELSE inbox
  BY <1>0 DEF Forward, terminal
<1>2. Named(a, frame)
  BY <1>0, <1>1, HeadIsNamed
<1>3. Outcome(a) # NoSession /\ inbox[a] = <<>>
  BY <1>1, OutcomeIsNamed DEF BoxInv
<1>4. /\ Forwarded' \subseteq Forwarded
      /\ reader[a] = "reading" /\ frame.type = "done" => a \notin Forwarded'
  BY <1>1 DEF Forwarded, ByPage, Set, Shapes, StreamType
<1>5. /\ \A b \in Ask : b # a => inbox'[b] = inbox[b]
      /\ \/ inbox'[a] = <<>>
         \/ inbox'[a] = <<frame>> /\ a \notin Forwarded' /\ frame.type = "done"
  BY <1>1, <1>3, <1>4 DEF Set, Shapes, PagesType
<1>6. InHand' = InHand /\ \A b \in Ask : Outcome(b)' = Outcome(b)
  BY <1>1 DEF InHand, Outcome
<1>7. task[a] # "off"
  BY <1>1 DEF Forwarded, OrderInv
<1>8. BoxInv'
  <2> SUFFICES ASSUME NEW b \in Ask
               PROVE  /\ inbox'[b] # <<>> => Named(b, inbox[b][1])'
                      /\ b \in Forwarded' => inbox'[b] = <<>>
                      /\ task'[b] = "off" => b \notin InHand' /\ inbox'[b] = <<>>
    BY DEF BoxInv
  <2>1. CASE b # a
    BY <1>1, <1>4, <1>5, <1>6, <2>1 DEF BoxInv, Named
  <2>2. CASE b = a
    <3>1. inbox'[a] # <<>> => inbox'[a][1] = frame
      BY <1>5
    <3>2. inbox'[a] # <<>> => Named(a, inbox[a][1])'
      BY <1>2, <3>1, <1>1, <1>6 DEF Named
    <3> QED
      BY <1>1, <1>5, <1>7, <2>2, <3>2
  <2> QED
    BY <2>1, <2>2
<1>9. TerminalInv'
  BY <1>1, <1>6 DEF TerminalInv, Outcome
<1>10. ASSUME NEW p \in Page, Page = {p} PROVE AskingInv(p)'
  <2> SUFFICES ASSUME asking[p] # NoAsk, asking[p] \notin crossed
               PROVE  /\ resetter = {} /\ Forwarded' \subseteq {asking[p]}
                      /\ inbox'[asking[p]] # <<>> /\ inbox'[asking[p]][1].pending
                           => slot' = Outcome(asking[p])'
    BY <1>1 DEF AskingInv
  <2>1. resetter = {} /\ Forwarded \subseteq {asking[p]}
    BY <1>10 DEF OnlyPageInv, AskingInv
  <2>2. asking[p] = a
    BY <1>1, <2>1
  <2>3. inbox'[a] # <<>> /\ inbox'[a][1].pending => slot' = Outcome(a)
    <3> SUFFICES ASSUME inbox'[a] # <<>>, inbox'[a][1].pending PROVE slot' = Outcome(a)
      OBVIOUS
    <3>1. frame.type = "done" /\ frame.pending
      BY <1>5
    <3>2. frame.session = Outcome(a)
      BY <1>2, <3>1 DEF Named
    <3> QED
      BY <1>1, <1>3, <3>1, <3>2
  <2> QED
    BY <1>1, <1>4, <1>6, <2>1, <2>2, <2>3
<1>11. ASSUME NEW p \in Page, Page = {p} PROVE DecisionInv(p)'
  <2> SUFFICES ASSUME decision[p] # NoAsk, p \notin hiding \cup resetter, decision[p] \notin crossed
               PROVE  /\ slot' = Outcome(decision[p])'
                      /\ \A b \in Forwarded' : session'[b] = Outcome(decision[p])'
    BY <1>1 DEF DecisionInv
  <2>1. /\ slot = Outcome(decision[p])
        /\ \A b \in Forwarded : session[b] = Outcome(decision[p])
    BY <1>11 DEF OnlyPageInv, DecisionInv
  <2>2. decision[p] \in Ask
    BY DEF Shapes, PagesType
  <2>3. Outcome(decision[p]) # NoSession
    BY <2>2, OutcomeIsNamed
  <2>4. Outcome(a) = session[a]
    BY <1>1, <2>1, <2>3 DEF Outcome
  <2>5. slot' = slot
    BY <1>1, <1>2, <2>1, <2>4 DEF Named
  <2> QED
    BY <1>1, <1>4, <1>6, <2>1, <2>2, <2>5
<1> QED
  BY <1>8, <1>9, <1>10, <1>11 DEF OnlyPageInv

\* Steps that change what the consoles have in hand, and no stream.
LEMMA PageShowsTalk ==
  ASSUME TalkInv, Shapes, NEW p \in Page, PageShows(p)
  PROVE  TalkInv'
<1> USE DEF TalkInv
<1> DEFINE a == asking[p]
<1>1. /\ a # NoAsk /\ reader[a] = "over"
      /\ decision' = IF inbox[a] # <<>> /\ inbox[a][1].pending THEN Set(decision, p, a) ELSE decision
      /\ inbox' = Set(inbox, a, <<>>) /\ asking' = Set(asking, p, NoAsk)
      /\ UNCHANGED <<session, task, reader, slot, resetter, hiding, crossed, chat, question, choice>>
  BY DEF PageShows, stream, terminal
<1>2. a \in Ask
  BY <1>1 DEF Shapes, PagesType
<1>3. /\ asking'[p] = NoAsk /\ \A q \in Page : q # p => asking'[q] = asking[q]
      /\ \A q \in Page : q # p => decision'[q] = decision[q]
      /\ \/ decision'[p] = decision[p]
         \/ decision'[p] = a /\ inbox[a] # <<>> /\ inbox[a][1].pending
      /\ inbox'[a] = <<>> /\ \A b \in Ask : b # a => inbox'[b] = inbox[b]
  BY <1>1 DEF Set, Shapes, PagesType
<1>4. a \in InHand
  BY DEF InHand
<1> HIDE DEF a
<1>5. Forwarded' = Forwarded /\ a \notin Forwarded /\ \A b \in Ask : Outcome(b)' = Outcome(b)
  BY <1>1 DEF Forwarded, ByPage, Outcome
<1>6. InHand' \subseteq InHand \cup {NoAsk}
  BY <1>1, <1>3, <1>4 DEF InHand
<1>7. BoxInv'
  BY <1>1, <1>3, <1>5, <1>6, PageAssumption DEF BoxInv, Named
<1>8. TerminalInv'
  BY <1>1, <1>3 DEF TerminalInv, Outcome
<1>9. ASSUME NEW q \in Page, Page = {q} PROVE AskingInv(q)' /\ DecisionInv(q)'
  <2>1. q = p /\ AskingInv(p) /\ DecisionInv(p)
    BY <1>9 DEF OnlyPageInv
  <2>2. AskingInv(p)'
    BY <1>3 DEF AskingInv
  <2>3. CASE decision'[p] = decision[p]
    <3>1. decision[p] # NoAsk => decision[p] \in Ask
      BY DEF Shapes, PagesType
    <3> QED
      BY <1>1, <1>3, <1>5, <2>1, <2>2, <2>3, <3>1 DEF DecisionInv
  <2>4. CASE decision'[p] = a /\ inbox[a] # <<>> /\ inbox[a][1].pending
    <3>1. a \notin crossed => Forwarded = {} /\ slot = Outcome(a)
      BY <1>1, <1>5, <2>1, <2>4 DEF AskingInv, a
    <3> QED
      BY <1>1, <1>2, <1>5, <2>1, <2>2, <2>4, <3>1 DEF DecisionInv
  <2> QED
    BY <1>3, <2>1, <2>2, <2>3, <2>4
<1> QED
  BY <1>7, <1>8, <1>9 DEF OnlyPageInv

\* A page confirms, is told of its reset, or is left.
LEMMA PageDropsTalk ==
  ASSUME TalkInv, Shapes, NEW p \in Page,
         PageConfirm(p) \/ PageResets(p) \/ PageLeaves(p)
  PROVE  TalkInv'
<1> USE DEF TalkInv
<1>1. /\ UNCHANGED <<session, task, slot, crossed, chat, question, choice>>
      /\ resetter' \subseteq resetter
      /\ decision' = Set(decision, p, NoAsk)
      /\ asking' = asking \/ asking' = Set(asking, p, NoAsk)
      /\ hiding' = hiding \/ hiding' = hiding \ {p}
  BY DEF PageConfirm, PageResets, PageLeaves, stream, terminal
<1>2. /\ decision'[p] = NoAsk /\ \A q \in Page : q # p => decision'[q] = decision[q]
      /\ asking'[p] \in {asking[p], NoAsk} /\ \A q \in Page : q # p => asking'[q] = asking[q]
  BY <1>1 DEF Set, Shapes, PagesType
<1>3. /\ Forwarded' \subseteq Forwarded
      /\ \A b \in Ask : inbox'[b] \in {inbox[b], <<>>}
      /\ asking'[p] = NoAsk \/ inbox' = inbox
  BY <1>1 DEF PageConfirm, PageResets, PageLeaves, stream, Forwarded, ByPage, Set, Shapes,
              PagesType, StreamType
<1>4. InHand' \subseteq InHand \cup {NoAsk} /\ \A b \in Ask : Outcome(b)' = Outcome(b)
  BY <1>1, <1>2 DEF InHand, Outcome
<1>5. BoxInv'
  BY <1>1, <1>3, <1>4, PageAssumption DEF BoxInv, Named
<1>6. TerminalInv'
  BY <1>1, <1>2 DEF TerminalInv, Outcome
<1>7. ASSUME NEW q \in Page, Page = {q} PROVE AskingInv(q)' /\ DecisionInv(q)'
  <2>1. q = p /\ AskingInv(p)
    BY <1>7 DEF OnlyPageInv
  <2>2. asking[p] # NoAsk => asking[p] \in Ask
    BY DEF Shapes, PagesType
  <2>3. AskingInv(p)'
    BY <1>1, <1>2, <1>3, <1>4, <2>1, <2>2 DEF AskingInv
  <2>4. DecisionInv(p)'
    BY <1>2 DEF DecisionInv
  <2> QED
    BY <2>1, <2>3, <2>4
<1> QED
  BY <1>5, <1>6, <1>7 DEF OnlyPageInv

\* A reset overlaps whatever the only page asks, and hides what it shows.
LEMMA ResetTalk ==
  ASSUME TalkInv, Shapes, NEW p \in Page, BeginReset(p) \/ EndReset(p)
  PROVE  TalkInv'
<1> USE DEF TalkInv
<1>1. /\ UNCHANGED <<session, task, reader, asking, inbox, decision, chat, question, choice>>
      /\ \/ resetter' = {p} /\ crossed' = crossed \cup Overlapped
         \/ resetter # {} /\ p \in hiding' /\ crossed' = crossed
  BY DEF BeginReset, EndReset, stream, terminal
<1>2. /\ Forwarded' = Forwarded /\ InHand' = InHand
      /\ \A b \in Ask : Outcome(b)' = Outcome(b)
  BY <1>1 DEF Forwarded, ByPage, InHand, Outcome
<1>3. BoxInv'
  BY <1>1, <1>2 DEF BoxInv, Named
<1>4. TerminalInv'
  BY <1>1 DEF TerminalInv, Outcome
<1>5. ASSUME NEW q \in Page, Page = {q} PROVE AskingInv(q)' /\ DecisionInv(q)'
  <2>1. q = p /\ AskingInv(p)
    BY <1>5 DEF OnlyPageInv
  <2>2. asking[p] # NoAsk => asking[p] \in Overlapped
    BY DEF Overlapped
  <2>3. asking'[p] # NoAsk => asking'[p] \in crossed'
    BY <1>1, <2>1, <2>2 DEF AskingInv
  <2>4. p \in hiding' \cup resetter'
    BY <1>1
  <2> QED
    BY <2>1, <2>3, <2>4 DEF AskingInv, DecisionInv
<1> QED
  BY <1>3, <1>4, <1>5 DEF OnlyPageInv

\* The terminal takes what came for its question, or puts it aside.
LEMMA TerminalTalk ==
  ASSUME TalkInv, Shapes, \A a \in Ask : NamedInv(a), \A a \in Ask : OrderInv(a),
         TerminalReads \/ TerminalAnswered \/ TerminalConfirm \/ TerminalNew
  PROVE  TalkInv'
<1> USE DEF TalkInv
<1>1. UNCHANGED <<session, task, slot, resetter, asking, decision, hiding, crossed>>
  BY DEF TerminalReads, TerminalAnswered, TerminalConfirm, TerminalNew, stream, pages
<1>2. \A b \in Ask : Outcome(b)' = Outcome(b)
  BY <1>1 DEF Outcome
<1>3. CASE TerminalReads
  <2>1. /\ question \in Ask /\ wire[question] # <<>>
        /\ UNCHANGED <<reader, chat, question, choice>>
        /\ \/ inbox' = inbox
           \/ inbox' = Set(inbox, question, <<Head(wire[question])>>)
    BY <1>3 DEF TerminalReads, Shapes, PagesType, terminal
  <2>2. /\ Forwarded' = Forwarded /\ question \notin Forwarded
        /\ InHand' = InHand /\ question \in InHand
    BY <1>1, <2>1 DEF Forwarded, ByPage, InHand
  <2>3. PICK f : f = Head(wire[question])
    OBVIOUS
  <2>4. Named(question, f)
    BY <2>1, <2>3, HeadIsNamed
  <2>5. /\ \A b \in Ask : b # question => inbox'[b] = inbox[b]
        /\ inbox'[question] \in {inbox[question], <<f>>}
    BY <2>1, <2>3 DEF Set, Shapes, PagesType
  <2>6. inbox'[question] # <<>> => Named(question, inbox'[question][1])
    BY <2>1, <2>4, <2>5 DEF BoxInv
  <2>7. BoxInv'
    BY <1>1, <1>2, <2>1, <2>2, <2>5, <2>6 DEF BoxInv, Named
  <2>8. TerminalInv'
    BY <1>1, <2>1 DEF TerminalInv, Outcome
  <2>9. ASSUME NEW p \in Page, Page = {p} PROVE AskingInv(p)' /\ DecisionInv(p)'
    <3>1. AskingInv(p) /\ DecisionInv(p) /\ asking[p] # question
      BY <2>1, <2>9, PageAssumption DEF OnlyPageInv, TerminalInv
    <3>2. /\ asking[p] # NoAsk => asking[p] \in Ask
          /\ decision[p] # NoAsk => decision[p] \in Ask
      BY DEF Shapes, PagesType
    <3> QED
      BY <1>1, <1>2, <2>2, <2>5, <3>1, <3>2 DEF AskingInv, DecisionInv
  <2> QED
    BY <2>7, <2>8, <2>9 DEF OnlyPageInv
<1>4. CASE TerminalAnswered
  <2>0. PICK a : a = question
    OBVIOUS
  <2> DEFINE ok == inbox[a] # <<>> /\ inbox[a][1].ok
  <2>1. /\ a \in Ask /\ question' = NoAsk
        /\ chat' = IF ok THEN inbox[a][1].session ELSE chat
        /\ choice' = IF ok /\ inbox[a][1].pending THEN a ELSE choice
        /\ reader' = Set(reader, a, "over") /\ inbox' = Set(inbox, a, <<>>)
    BY <1>4, <2>0 DEF TerminalAnswered, Shapes, PagesType
  <2>2. choice = NoAsk /\ (ok => inbox[a][1].session = Outcome(a))
    <3>1. choice = NoAsk
      BY <2>0, <2>1, PageAssumption DEF TerminalInv
    <3>2. inbox[a] # <<>> => inbox[a][1].type = "done" /\ Named(a, inbox[a][1])
      <4>1. inbox[a] \in Seq(DoneFrame) /\ (inbox[a] # <<>> => Named(a, inbox[a][1]))
        BY <2>1 DEF BoxInv, Shapes, PagesType
      <4>2. inbox[a] # <<>> => inbox[a][1] \in DoneFrame
        BY <4>1
      <4> QED
        BY <4>1, <4>2 DEF DoneFrame
    <3> QED
      BY <3>1, <3>2 DEF Named
  <2>3. InHand' \subseteq InHand \cup {NoAsk}
    <3>1. a \in InHand
      BY <2>0 DEF InHand
    <3> QED
      BY <1>1, <2>1, <3>1 DEF InHand
  <2>4. Forwarded' \subseteq Forwarded
    BY <2>0, <2>1 DEF Forwarded, ByPage, Set, Shapes, StreamType
  <2>5. inbox'[a] = <<>> /\ \A b \in Ask : b # a => inbox'[b] = inbox[b]
    BY <2>1 DEF Set, Shapes, PagesType
  <2>6. BoxInv'
    BY <1>1, <1>2, <2>3, <2>4, <2>5, PageAssumption DEF BoxInv, Named
  <2>7. TerminalInv'
    <3>1. choice' # NoAsk => ok /\ choice' = a
      BY <2>1, <2>2
    <3>2. Outcome(a)' = Outcome(a)
      BY <1>2, <2>1
    <3>3. choice' # NoAsk => chat' = Outcome(choice)'
      BY <2>1, <2>2, <3>1, <3>2
    <3> QED
      BY <2>1, <3>3 DEF TerminalInv
  <2>8. ASSUME NEW p \in Page, Page = {p} PROVE AskingInv(p)' /\ DecisionInv(p)'
    <3>1. AskingInv(p) /\ DecisionInv(p) /\ asking[p] # a
      BY <2>0, <2>1, <2>8, PageAssumption DEF OnlyPageInv, TerminalInv
    <3>2. /\ asking[p] # NoAsk => asking[p] \in Ask
          /\ decision[p] # NoAsk => decision[p] \in Ask
      BY DEF Shapes, PagesType
    <3> QED
      BY <1>1, <1>2, <2>4, <2>5, <3>1, <3>2 DEF AskingInv, DecisionInv
  <2> QED
    BY <2>6, <2>7, <2>8 DEF OnlyPageInv
<1>5. CASE TerminalConfirm \/ TerminalNew
  <2>1. UNCHANGED <<reader, inbox, question>> /\ choice' = NoAsk
    BY <1>5 DEF TerminalConfirm, TerminalNew, stream, pages
  <2>2. Forwarded' = Forwarded /\ InHand' \subseteq InHand \cup {NoAsk}
    BY <1>1, <2>1 DEF Forwarded, ByPage, InHand
  <2>3. BoxInv'
    BY <1>1, <1>2, <2>1, <2>2, PageAssumption DEF BoxInv, Named
  <2>4. TerminalInv'
    BY <1>1, <2>1 DEF TerminalInv
  <2>5. OnlyPageInv'
    BY <1>1, <1>2, <2>1, <2>2 DEF OnlyPageInv, AskingInv, DecisionInv, Shapes, PagesType
  <2> QED
    BY <2>3, <2>4, <2>5
<1> QED
  BY <1>3, <1>4, <1>5

LEMMA NextTalk ==
  ASSUME TalkInv, Shapes, \A a \in Ask : OrderInv(a), \A a \in Ask : NamedInv(a), [Next]_vars
  PROVE  TalkInv'
<1> USE DEF Shapes
<1>1. CASE Runtime
  <2>1. UNCHANGED <<session, reader, pages, terminal>>
    BY <1>1 DEF Runtime, Kill, Serve, Reply, Pump, Step, Finish, Relay, WriteDone, Abandon, Piece, Fail, pages, terminal
  <2>2. \A a \in Ask : task'[a] = "off" <=> task[a] = "off"
    <3>1. ASSUME NEW b \in Ask, Serve(b) \/ Piece(b) \/ Fail(b)
          PROVE \A a \in Ask : task'[a] = "off" <=> task[a] = "off"
      BY <3>1 DEF Serve, Reply, Pump, Step, Continue, Finish, Relay, WriteDone, Abandon, Piece, Fail,
                  Set, StreamType, Working
    <3>2. CASE Kill
      BY <3>2 DEF Kill, StreamType, Working
    <3> QED
      BY <1>1, <3>1, <3>2 DEF Runtime
  <2>3. Forwarded' = Forwarded
    BY <2>1 DEF Forwarded, ByPage, terminal
  <2> QED
    BY <2>1, <2>2, <2>3, TalkElsewhere DEF pages
<1>2. ASSUME NEW a \in Ask, Forward(a) PROVE TalkInv'
  BY <1>2, ForwardTalk
<1>3. ASSUME NEW a \in Ask, ForwardEnds(a) PROVE TalkInv'
  <2>1. Forwarded' \subseteq Forwarded
    BY <1>3 DEF ForwardEnds, terminal, Forwarded, ByPage, Set, StreamType
  <2> QED
    BY <1>3, <2>1, TalkElsewhere DEF ForwardEnds, pages
<1>4. ASSUME NEW a \in Ask, TerminalAsk(a) PROVE TalkInv'
  BY <1>4, TerminalAskTalk
<1>5. ASSUME NEW a \in Ask, NEW p \in Page, PageAsk(p, a) PROVE TalkInv'
  BY <1>5, PageAskTalk
<1>6. ASSUME NEW p \in Page, BeginReset(p) \/ EndReset(p) PROVE TalkInv'
  BY <1>6, ResetTalk
<1>7. ASSUME NEW p \in Page, PageShows(p) PROVE TalkInv'
  BY <1>7, PageShowsTalk
<1>8. ASSUME NEW p \in Page, PageConfirm(p) \/ PageResets(p) \/ PageLeaves(p) PROVE TalkInv'
  BY <1>8, PageDropsTalk
<1>9. ASSUME TerminalReads \/ TerminalAnswered \/ TerminalConfirm \/ TerminalNew PROVE TalkInv'
  BY <1>9, TerminalTalk
<1>10. CASE UNCHANGED vars
  <2>1. UNCHANGED <<session, task, reader, pages, terminal>>
    BY <1>10 DEF vars, stream
  <2> QED
    BY <2>1, TalkElsewhere DEF Forwarded, ByPage, pages, terminal
<1> QED
  BY <1>1, <1>2, <1>3, <1>4, <1>5, <1>6, <1>7, <1>8, <1>9, <1>10 DEF Next

LEMMA TalkAlways == Spec => []TalkInv
<1>1. Init => TalkInv /\ \A a \in Ask : NamedInv(a)
  <2>1. Init => \A a \in Ask : NamedInv(a)
    BY DEF Init, InitStream, NamedInv
  <2>2. Init => BoxInv
    BY PageAssumption DEF Init, InitStream, BoxInv, InHand, Forwarded
  <2>3. Init => TerminalInv /\ OnlyPageInv
    BY DEF Init, TerminalInv, OnlyPageInv, AskingInv, DecisionInv
  <2> QED
    BY <2>1, <2>2, <2>3 DEF TalkInv
<1>2. /\ Shapes /\ (\A a \in Ask : OrderInv(a)) /\ TalkInv /\ (\A a \in Ask : NamedInv(a))
      /\ [Next]_vars
      => TalkInv' /\ (\A a \in Ask : NamedInv(a))'
  <2> SUFFICES ASSUME Shapes, \A a \in Ask : OrderInv(a), TalkInv, \A a \in Ask : NamedInv(a), [Next]_vars
               PROVE  TalkInv' /\ (\A a \in Ask : NamedInv(a))'
    OBVIOUS
  <2>1. \A a \in Ask : NamedInv(a)'
    BY NextNamed
  <2> QED
    BY <2>1, NextTalk
<1> QED
  BY <1>1, <1>2, ShapesAlways, OrderAlways, PTL DEF Spec

\* A decision goes to the conversation that asked for it: the terminal's
\* always, the only page's unless another request or a reset overlapped it.
THEOREM DecisionsStayInTheirTalk == Spec => []DecisionOfThisTalk
<1>1. TalkInv => DecisionOfThisTalk
  BY DEF TalkInv, TerminalInv, OnlyPageInv, DecisionInv, DecisionOfThisTalk
<1> QED
  BY <1>1, TalkAlways, PTL
-----------------------------------------------------------------------------
(* The last frame gets to who waits for it. *)

\* A request is in the hands of one who asked, whose end of its stream is open
\* or has come to its end.
HandsInv ==
  /\ \A p, q \in Page : asking[p] = asking[q] /\ asking[p] # NoAsk => p = q
  /\ \A p \in Page : asking[p] # NoAsk => reader[asking[p]] \in {"reading", "over"}
  /\ question # NoAsk => reader[question] = "reading"

\* What the runtime has written is an outcome that stays, and it is not lost.
DeliveredInv(a) ==
  handler[a] = "finished" =>
    /\ task[a] \in Gone
    /\ Awaited(a) => OnItsWay(a) \/ Delivered(a)

\* Who takes the first frame of an ordered stream takes the last one when it
\* is the outcome, and otherwise leaves it where it is.
LEMMA TakingFirst ==
  ASSUME NEW w \in Seq(Frame), w # <<>>, Ordered(w), Last(w).type = "done"
  PROVE  \/ Head(w).type = "done" /\ Tail(w) = <<>> /\ Head(w) = Last(w)
         \/ Head(w).type # "done" /\ Tail(w) # <<>> /\ Last(Tail(w)) = Last(w)
<1>0. Tail(w) \in Seq(Frame) /\ Len(Tail(w)) = Len(w) - 1 /\ Head(w) = w[1]
  OBVIOUS
<1>1. PICK t \in Seq(Frame) : t = Tail(w)
  BY <1>0
<1>2. /\ Len(w) \in Nat \ {0} /\ Head(w) = w[1] /\ Len(t) = Len(w) - 1
      /\ t = <<>> <=> Len(t) = 0
      /\ \A i \in 1..Len(t) : t[i] = w[i + 1]
  <2>1. Len(w) \in Nat \ {0} /\ Head(w) = w[1] /\ Len(t) = Len(w) - 1
    BY <1>0, <1>1
  <2>2. t = <<>> <=> Len(t) = 0
    OBVIOUS
  <2>3. \A i \in 1..Len(t) : Tail(w)[i] = w[i + 1]
    BY <2>1
  <2> QED
    BY <1>1, <2>1, <2>2, <2>3
<1>3. CASE Len(w) = 1
  BY <1>1, <1>2, <1>3 DEF Last
<1>4. CASE Len(w) > 1
  <2>1. w[1].type = "progress"
    <3>1. 1 \in DOMAIN w /\ Len(w) \in DOMAIN w
      BY <1>2
    <3> QED
      BY <1>4, <3>1 DEF Ordered, Before
  <2>2. Len(t) \in 1..Len(t) /\ Len(t) + 1 = Len(w)
    BY <1>2, <1>4
  <2>3. t[Len(t)] = w[Len(w)]
    BY <1>2, <2>2
  <2> QED
    BY <1>1, <1>2, <1>4, <2>1, <2>3 DEF Last
<1> QED
  BY <1>2, <1>3, <1>4

\* Who waits for an outcome that neither moves nor changes still finds it.
LEMMA DeliveredElsewhere ==
  ASSUME NEW b \in Ask, DeliveredInv(b),
         handler'[b] = "finished" => handler[b] = "finished",
         task[b] \in Gone => /\ task'[b] = task[b] /\ session'[b] = session[b]
                             /\ pending'[b] = pending[b] /\ events'[b] = events[b],
         handler'[b] = "finished" /\ Awaited(b)' =>
           Awaited(b) /\ wire'[b] = wire[b] /\ inbox'[b] = inbox[b]
  PROVE  DeliveredInv(b)'
<1> SUFFICES ASSUME handler'[b] = "finished"
             PROVE  task'[b] \in Gone /\ (Awaited(b)' => OnItsWay(b)' \/ Delivered(b)')
  BY DEF DeliveredInv
<1>1. task[b] \in Gone /\ (Awaited(b) => OnItsWay(b) \/ Delivered(b))
  BY DEF DeliveredInv
<1>2. Done(b)' = Done(b)
  BY <1>1 DEF Done, Outcome
<1> QED
  BY <1>1, <1>2 DEF OnItsWay, Delivered

\* What a finished request came to, no step changes; and only WriteDone
\* finishes one.
LEMMA OutcomeStays ==
  ASSUME Shapes, [Next]_vars, NEW b \in Ask
  PROVE  /\ task[b] \in Gone => /\ task'[b] = task[b] /\ session'[b] = session[b]
                                /\ pending'[b] = pending[b] /\ events'[b] = events[b]
         /\ handler'[b] = "finished" => handler[b] = "finished" \/ WriteDone(b)
<1> USE DEF Shapes, StreamType, Set, Gone, Working
<1>1. ASSUME NEW a \in Ask, Reply(a) \/ Pump(a) \/ Step(a) \/ Finish(a) \/ Piece(a) \/ Fail(a)
      PROVE  /\ handler' = handler /\ session' = session
             /\ task[b] \in Gone => /\ task'[b] = task[b]
                                    /\ pending'[b] = pending[b] /\ events'[b] = events[b]
  BY <1>1 DEF Reply, Pump, Step, Continue, Finish, Piece, Fail
<1>2. ASSUME NEW a \in Ask, Relay(a) \/ WriteDone(a) \/ Abandon(a)
      PROVE  /\ UNCHANGED <<task, session, pending, events>>
             /\ handler'[b] = "finished" => handler[b] = "finished" \/ WriteDone(b)
  BY <1>2 DEF Relay, WriteDone, Abandon
<1>3. Kill => /\ UNCHANGED <<session, pending, events>>
              /\ task[b] \in Gone => task'[b] = task[b]
              /\ handler'[b] = "finished" => handler[b] = "finished"
  BY DEF Kill
<1>4. ASSUME NEW a \in Ask, NEW s, Open(a, s)
      PROVE  /\ task[b] \in Gone => task'[b] = task[b] /\ session'[b] = session[b]
             /\ UNCHANGED <<pending, events>>
             /\ handler'[b] = "finished" => handler[b] = "finished"
  BY <1>4 DEF Open, Unused
<1>5. ASSUME \/ TerminalReads \/ TerminalAnswered \/ TerminalConfirm \/ TerminalNew
             \/ \E a \in Ask : Forward(a) \/ ForwardEnds(a)
             \/ \E p \in Page :
                  \/ PageShows(p) \/ PageConfirm(p) \/ BeginReset(p) \/ EndReset(p)
                  \/ PageResets(p) \/ PageLeaves(p)
      PROVE  UNCHANGED <<task, session, pending, events, handler>>
  BY <1>5 DEF TerminalReads, TerminalAnswered, TerminalConfirm, TerminalNew, Forward, ForwardEnds,
              PageShows, PageConfirm, BeginReset, EndReset, PageResets, PageLeaves, stream
<1>6. UNCHANGED vars => UNCHANGED <<task, session, pending, events, handler>>
  BY DEF vars, stream
<1>7. CASE Runtime
  BY <1>1, <1>2, <1>3, <1>7 DEF Runtime, Serve
<1>8. CASE \E a \in Ask : TerminalAsk(a) \/ \E p \in Page : PageAsk(p, a)
  BY <1>4, <1>8 DEF TerminalAsk, PageAsk
<1> QED
  BY <1>5, <1>6, <1>7, <1>8 DEF Next

LEMMA NextHands ==
  ASSUME Shapes, TalkInv, HandsInv, [Next]_vars
  PROVE  HandsInv'
<1> USE DEF Set
<1>0. /\ asking \in [Page -> Ask \cup {NoAsk}] /\ question \in Ask \cup {NoAsk} /\ NoAsk \notin Ask
      /\ reader \in [Ask -> {"off", "reading", "left", "closed", "over"}]
  BY PageAssumption DEF Shapes, StreamType, PagesType
<1>1. CASE UNCHANGED <<asking, question, reader>>
  BY <1>1 DEF HandsInv
<1>2. ASSUME NEW p \in Page, NEW a \in Ask, PageAsk(p, a) PROVE HandsInv'
  <2>1. /\ asking'[p] = a /\ \A q \in Page : q # p => asking'[q] = asking[q]
        /\ reader'[a] = "reading" /\ \A b \in Ask : b # a => reader'[b] = reader[b]
        /\ question' = question
    BY <1>0, <1>2 DEF PageAsk, Open, terminal
  <2>2. question # a /\ \A q \in Page : asking[q] # a
    BY <1>2, OpenTalk DEF PageAsk, TalkInv, BoxInv, InHand
  <2> QED
    BY <1>0, <2>1, <2>2 DEF HandsInv
<1>3. ASSUME NEW a \in Ask, TerminalAsk(a) PROVE HandsInv'
  <2>1. /\ asking' = asking /\ question' = a
        /\ reader'[a] = "reading" /\ \A b \in Ask : b # a => reader'[b] = reader[b]
    BY <1>0, <1>3 DEF TerminalAsk, Open, pages
  <2>2. \A q \in Page : asking[q] # a
    BY <1>3, OpenTalk DEF TerminalAsk, TalkInv, BoxInv, InHand
  <2> QED
    BY <1>0, <2>1, <2>2 DEF HandsInv
<1>4. ASSUME NEW a \in Ask, Forward(a) \/ ForwardEnds(a) PROVE HandsInv'
  <2>1. /\ UNCHANGED <<asking, question>> /\ a # question
        /\ \A b \in Ask : b # a => reader'[b] = reader[b]
        /\ reader'[a] \in {"reading", "over"} \/ reader[a] = "left"
    BY <1>0, <1>4 DEF Forward, ForwardEnds, Forwarded, ByPage, pages, terminal
  <2> QED
    BY <1>0, <2>1 DEF HandsInv
<1>5. ASSUME NEW p \in Page, PageShows(p) PROVE HandsInv'
  <2>1. /\ UNCHANGED <<reader, question>>
        /\ asking'[p] = NoAsk /\ \A q \in Page : q # p => asking'[q] = asking[q]
    BY <1>0, <1>5 DEF PageShows, stream, terminal
  <2> QED
    BY <1>0, <2>1 DEF HandsInv
<1>6. ASSUME NEW p \in Page, PageLeaves(p) PROVE HandsInv'
  <2>1. /\ question' = question
        /\ asking'[p] = NoAsk /\ \A q \in Page : q # p => asking'[q] = asking[q]
        /\ \A b \in Ask : b # asking[p] => reader'[b] = reader[b]
        /\ reader' = reader \/ asking[p] # NoAsk
    BY <1>0, <1>6 DEF PageLeaves, terminal
  <2>2. question # NoAsk => question # asking[p]
    BY DEF TalkInv, TerminalInv
  <2> QED
    BY <1>0, <2>1, <2>2 DEF HandsInv
<1>7. CASE TerminalAnswered
  <2>1. /\ asking' = asking /\ question' = NoAsk
        /\ \A b \in Ask : reader'[b] \in {reader[b], "over"}
    BY <1>0, <1>7 DEF TerminalAnswered
  <2> QED
    BY <1>0, <2>1 DEF HandsInv
<1>8. ASSUME \/ TerminalReads \/ TerminalConfirm \/ TerminalNew \/ Runtime \/ UNCHANGED vars
             \/ \E p \in Page : PageConfirm(p) \/ BeginReset(p) \/ EndReset(p) \/ PageResets(p)
      PROVE  UNCHANGED <<asking, question, reader>>
  BY <1>8 DEF TerminalReads, TerminalConfirm, TerminalNew, Runtime, Kill, Serve, Piece, Fail, Reply,
              Pump, Step, Finish, Relay, WriteDone, Abandon, PageConfirm, BeginReset, EndReset,
              PageResets, vars, stream, pages, terminal
<1> QED
  BY <1>1, <1>2, <1>3, <1>4, <1>5, <1>6, <1>7, <1>8 DEF Next

\* What WriteDone writes is the outcome, and it is the last on the wire.
LEMMA WrittenIsOnItsWay ==
  ASSUME Shapes, NEW b \in Ask, WriteDone(b)
  PROVE  task'[b] \in Gone /\ OnItsWay(b)'
<1>1. wire[b] \in Seq(Frame) /\ wire'[b] = Append(wire[b], Done(b)) /\ task' = task
  BY DEF WriteDone, Set, Shapes, StreamType, Frame
<1>2. Done(b)' = Done(b)
  BY DEF WriteDone, Done, Outcome
<1>3. PICK d : d = Done(b)
  OBVIOUS
<1>4. wire'[b] # <<>> /\ Last(wire'[b]) = d
  BY <1>1, <1>3 DEF Last
<1> QED
  BY <1>1, <1>2, <1>3, <1>4 DEF WriteDone, OnItsWay

\* A console that waits takes the first frame: progress leaves the outcome on
\* the wire, the outcome itself is then in its hands.
LEMMA TakenIsDelivered ==
  ASSUME Shapes, NEW b \in Ask, OrderInv(b), DeliveredInv(b), wire[b] # <<>>, Awaited(b),
         UNCHANGED <<handler, session, task, pending, events>>,
         wire'[b] = Tail(wire[b]),
         inbox'[b] = IF Head(wire[b]).type = "done" THEN <<Head(wire[b])>> ELSE inbox[b]
  PROVE  DeliveredInv(b)'
<1> SUFFICES ASSUME handler[b] = "finished"
             PROVE  task[b] \in Gone /\ (OnItsWay(b)' \/ Delivered(b)')
  BY DEF DeliveredInv
<1>1. task[b] \in Gone /\ OnItsWay(b)
  BY DEF DeliveredInv, Delivered
<1>2. Done(b)' = Done(b) /\ Done(b).type = "done"
  BY DEF Done, Outcome
<1> DEFINE w == wire[b]
<1>3. w \in Seq(Frame) /\ w # <<>> /\ Ordered(w)
  BY OrderedParts DEF Shapes, StreamType, Frame, OrderInv, Flow
<1>4. Last(w) = Done(b)
  BY <1>1 DEF OnItsWay
<1> HIDE DEF w
<1>5. \/ Head(w).type = "done" /\ Tail(w) = <<>> /\ Head(w) = Last(w)
      \/ Head(w).type # "done" /\ Tail(w) # <<>> /\ Last(Tail(w)) = Last(w)
  BY <1>2, <1>3, <1>4, TakingFirst
<1>6. wire'[b] = Tail(w) /\ inbox'[b] = IF Head(w).type = "done" THEN <<Head(w)>> ELSE inbox[b]
  BY DEF w
<1> QED
  BY <1>1, <1>2, <1>4, <1>5, <1>6 DEF OnItsWay, Delivered

LEMMA NextDelivered ==
  ASSUME Shapes, TalkInv, HandsInv, [Next]_vars, NEW b \in Ask, OrderInv(b), DeliveredInv(b)
  PROVE  DeliveredInv(b)'
<1> USE DEF Shapes, StreamType, PagesType, Set
<1>1. /\ task[b] \in Gone => /\ task'[b] = task[b] /\ session'[b] = session[b]
                             /\ pending'[b] = pending[b] /\ events'[b] = events[b]
      /\ handler'[b] = "finished" => handler[b] = "finished" \/ WriteDone(b)
  BY OutcomeStays
<1>2. CASE WriteDone(b)
  BY <1>2, WrittenIsOnItsWay DEF DeliveredInv
<1> SUFFICES ASSUME ~WriteDone(b) PROVE DeliveredInv(b)'
  BY <1>2
<1>3. ASSUME handler'[b] = "finished" /\ Awaited(b)' =>
               Awaited(b) /\ wire'[b] = wire[b] /\ inbox'[b] = inbox[b]
      PROVE  DeliveredInv(b)'
  BY <1>1, <1>3, DeliveredElsewhere
<1>4. CASE Runtime
  <2>1. UNCHANGED <<asking, question, inbox>>
    BY <1>4 DEF Runtime, pages, terminal
  <2>2. handler'[b] = "finished" => wire'[b] = wire[b]
    BY <1>4 DEF Runtime, Kill, Serve, Piece, Fail, Reply, Pump, Step, Finish, Relay, WriteDone, Abandon
  <2> QED
    BY <1>3, <2>1, <2>2 DEF Awaited
<1>5. ASSUME NEW a \in Ask, TerminalAsk(a) \/ \E p \in Page : PageAsk(p, a) PROVE DeliveredInv(b)'
  <2>1. CASE a = b
    <3>1. handler'[b] = "serving"
      BY <1>5, <2>1 DEF TerminalAsk, PageAsk, Open
    <3> QED
      BY <3>1 DEF DeliveredInv
  <2>2. CASE a # b
    <3>1. Awaited(b)' => Awaited(b)
      BY <1>5, <2>2 DEF TerminalAsk, PageAsk, Awaited, pages, terminal
    <3>2. wire' = wire /\ inbox' = inbox
      BY <1>5 DEF TerminalAsk, PageAsk, Open, pages
    <3> QED
      BY <1>3, <3>1, <3>2
  <2> QED
    BY <2>1, <2>2
<1>6. ASSUME NEW a \in Ask, Forward(a) PROVE DeliveredInv(b)'
  <2>1. Awaited(b)' = Awaited(b) /\ UNCHANGED <<handler, session, task, pending, events>>
    BY <1>6 DEF Forward, Awaited, terminal
  <2>2. CASE a # b
    <3>1. wire'[b] = wire[b] /\ inbox'[b] = inbox[b]
      BY <1>6, <2>2 DEF Forward
    <3> QED
      BY <1>3, <2>1, <3>1
  <2>3. CASE a = b /\ reader[b] = "left"
    <3>1. ~Awaited(b)
      BY <1>6, <2>3, PageAssumption DEF Forward, Forwarded, ByPage, HandsInv, Awaited
    <3> QED
      BY <1>3, <2>1, <3>1
  <2>4. CASE a = b /\ reader[b] # "left" /\ ~Awaited(b)
    BY <1>3, <2>1, <2>4
  <2>5. CASE a = b /\ reader[b] # "left" /\ Awaited(b)
    <3>1. PICK f : f = Head(wire[b])
      OBVIOUS
    <3>2. /\ wire[b] # <<>> /\ reader[b] = "reading" /\ wire'[b] = Tail(wire[b])
          /\ inbox' = IF f.type = "done" THEN Set(inbox, b, <<f>>) ELSE inbox
      BY <1>6, <2>5, <3>1 DEF Forward, Forwarded
    <3>3. inbox'[b] = IF f.type = "done" THEN <<f>> ELSE inbox[b]
      BY <3>2
    <3> QED
      BY <2>1, <2>5, <3>1, <3>2, <3>3, TakenIsDelivered
  <2> QED
    BY <2>2, <2>3, <2>4, <2>5
<1>7. CASE TerminalReads
  <2>1. /\ Awaited(b)' = Awaited(b) /\ UNCHANGED <<handler, session, task, pending, events>>
        /\ question \in Ask
    BY <1>7 DEF TerminalReads, Awaited, terminal
  <2>2. CASE question # b
    <3>1. wire'[b] = wire[b] /\ inbox'[b] = inbox[b]
      BY <1>7, <2>1, <2>2 DEF TerminalReads
    <3> QED
      BY <1>3, <2>1, <3>1
  <2>3. CASE question = b
    <3>1. PICK f : f = Head(wire[b])
      OBVIOUS
    <3>2. /\ wire[b] # <<>> /\ wire'[b] = Tail(wire[b])
          /\ inbox' = IF f.type = "done" THEN Set(inbox, b, <<f>>) ELSE inbox
      BY <1>7, <2>3, <3>1 DEF TerminalReads
    <3>3. inbox'[b] = IF f.type = "done" THEN <<f>> ELSE inbox[b]
      BY <3>2
    <3>4. Awaited(b)
      BY <2>3 DEF Awaited
    <3> QED
      BY <2>1, <3>1, <3>2, <3>3, <3>4, TakenIsDelivered
  <2> QED
    BY <2>2, <2>3
<1>8. ASSUME NEW p \in Page, PageShows(p) \/ PageLeaves(p) PROVE DeliveredInv(b)'
  <2>1. /\ UNCHANGED <<question, wire>>
        /\ asking'[p] = NoAsk /\ \A q \in Page : q # p => asking'[q] = asking[q]
        /\ b # asking[p] => inbox'[b] = inbox[b]
    BY <1>8, PageAssumption DEF PageShows, PageLeaves, stream, terminal
  <2>2. asking[p] = b => ~Awaited(b)'
    <3> SUFFICES ASSUME asking[p] = b PROVE ~Awaited(b)'
      OBVIOUS
    <3>1. b # NoAsk
      BY PageAssumption
    <3>2. question # b /\ \A q \in Page : asking[q] = b => q = p
      BY <3>1 DEF HandsInv, TalkInv, TerminalInv
    <3>3. question' # b /\ \A q \in Page : asking'[q] # b
      BY <2>1, <3>1, <3>2
    <3> QED
      BY <3>3 DEF Awaited
  <2>3. Awaited(b)' => Awaited(b)
    BY <2>1, PageAssumption DEF Awaited
  <2> QED
    BY <1>3, <2>1, <2>2, <2>3
<1>9. CASE TerminalAnswered
  <2>1. /\ question' = NoAsk /\ asking' = asking /\ wire' = wire
        /\ b # question => inbox'[b] = inbox[b]
    BY <1>9 DEF TerminalAnswered
  <2>2. question = b => ~Awaited(b)'
    BY <2>1, PageAssumption DEF Awaited, TalkInv, TerminalInv
  <2>3. Awaited(b)' => Awaited(b)
    BY <2>1, PageAssumption DEF Awaited
  <2> QED
    BY <1>3, <2>1, <2>2, <2>3
<1>10. ASSUME \/ TerminalConfirm \/ TerminalNew \/ UNCHANGED vars
              \/ \E a \in Ask : ForwardEnds(a)
              \/ \E p \in Page : PageConfirm(p) \/ BeginReset(p) \/ EndReset(p) \/ PageResets(p)
       PROVE  DeliveredInv(b)'
  <2>1. UNCHANGED <<asking, question, wire, inbox>>
    BY <1>10 DEF TerminalConfirm, TerminalNew, ForwardEnds, PageConfirm, BeginReset, EndReset,
                 PageResets, vars, stream, pages, terminal
  <2> QED
    BY <1>3, <2>1 DEF Awaited
<1> QED
  BY <1>4, <1>5, <1>6, <1>7, <1>8, <1>9, <1>10 DEF Next

\* What the full channel dropped is in the done frame of a request that
\* succeeds, and what the runtime has written of an outcome is on its way to
\* who waits for it, or there.
THEOREM OutcomesTellAll == Spec => []DoneTellsAll
<1>1. Init => HandsInv /\ \A a \in Ask : DeliveredInv(a)
  BY DEF Init, InitStream, HandsInv, DeliveredInv
<1>2. /\ Shapes /\ TalkInv /\ (\A a \in Ask : OrderInv(a)) /\ HandsInv /\ (\A a \in Ask : DeliveredInv(a))
      /\ [Next]_vars
      => HandsInv' /\ (\A a \in Ask : DeliveredInv(a))'
  <2> SUFFICES ASSUME Shapes, TalkInv, \A a \in Ask : OrderInv(a), HandsInv,
                      \A a \in Ask : DeliveredInv(a), [Next]_vars
               PROVE  HandsInv' /\ (\A a \in Ask : DeliveredInv(a))'
    OBVIOUS
  <2>1. \A a \in Ask : DeliveredInv(a)'
    BY NextDelivered
  <2> QED
    BY <2>1, NextHands
<1>3. ListedInv /\ (\A a \in Ask : DeliveredInv(a)) => DoneTellsAll
  BY DEF ListedInv, DeliveredInv, DoneTellsAll, Done
<1> QED
  BY <1>1, <1>2, <1>3, ShapesAlways, OrderAlways, TalkAlways, ListedAlways, PTL DEF Spec
=============================================================================
