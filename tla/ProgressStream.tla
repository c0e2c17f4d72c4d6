--------------------------- MODULE ProgressStream ---------------------------
(***************************************************************************)
(* A streamed diagnose on its way from the model to a console              *)
(* (saaios-runtime handle_diagnose_stream, ai-runtime's delta pump).       *)
(*                                                                         *)
(* The provider puts the pieces of a reply into an unbounded queue; a pump *)
(* task moves them into a bounded channel, into which the request's task   *)
(* puts its own events; both drop what finds the channel full or closed.   *)
(* The connection's handler writes what it takes from the channel to the   *)
(* socket, waiting for the console to read, and writes the "done" frame    *)
(* when everybody who could put something into the channel is gone.        *)
(***************************************************************************)
EXTENDS Naturals, Sequences

CONSTANTS
  MaxAsks,      \* bound on the diagnoses ever asked for
  NoSession,    \* a console without a conversation
  Rounds,       \* model replies in one request (max_tool_iters)
  MaxPieces,    \* bound on the pieces waiting in the unbounded queue
  ChannelRoom,  \* capacity of the progress channel (64)
  WireRoom      \* frames the socket buffers

ASSUME StreamAssumption ==
  /\ {MaxAsks, Rounds, ChannelRoom, WireRoom} \subseteq Nat \ {0}
  /\ MaxPieces \in Nat
  /\ NoSession \notin 1..MaxAsks

Ask == 1..MaxAsks

\* A conversation has the name of the request that opened it.
Session == Ask

VARIABLES
  session,  \* the conversation the console sent with the request
  task,     \* the request's task in the runtime
  round,    \* the model reply it is at
  pieces,   \* the unbounded queue of the reply's pieces, which a pump empties
  events,   \* what the outcome will list as progress
  pending,  \* does the outcome ask for a confirmation?
  channel, handler,
  wire,     \* frames written to the socket and not read
  reader    \* the console's end

stream == <<session, task, round, pieces, events, pending, channel, handler, wire, reader>>

Unused(a) == task[a] = "off" /\ \A b \in Ask : b < a => task[b] # "off"
Working == {"completing", "draining", "finishing"}
Gone == {"ended", "failed"}

InitStream ==
  /\ session = [a \in Ask |-> NoSession]
  /\ task = [a \in Ask |-> "off"]
  /\ round = [a \in Ask |-> 0]
  /\ pieces = [a \in Ask |-> <<>>]
  /\ events = [a \in Ask |-> <<>>]
  /\ pending = [a \in Ask |-> FALSE]
  /\ channel = [a \in Ask |-> <<>>]
  /\ handler = [a \in Ask |-> "off"]
  /\ wire = [a \in Ask |-> <<>>]
  /\ reader = [a \in Ask |-> "off"]

Set(f, a, v) == [f EXCEPT ![a] = v]
-----------------------------------------------------------------------------
Progress(kind, n) == [type |-> "progress", kind |-> kind, round |-> n]

\* The last frame.  A request that failed gives the console its own session
\* back; one that succeeded lists its events, whatever was dropped on the way.
Outcome(a) == IF session[a] = NoSession THEN a ELSE session[a]
Done(a) ==
  IF task[a] = "ended"
  THEN [type |-> "done", ok |-> TRUE, session |-> Outcome(a),
        pending |-> pending[a], progress |-> events[a]]
  ELSE [type |-> "done", ok |-> FALSE, session |-> session[a],
        pending |-> FALSE, progress |-> <<>>]

\* Mutant: an unbounded channel.
EmitUnbounded(a, e) ==
  channel' = IF handler[a] = "serving" THEN Set(channel, a, Append(channel[a], e)) ELSE channel

\* emit_progress: try_send.
Emit(a, e) ==
  channel' = IF handler[a] = "serving" /\ Len(channel[a]) < ChannelRoom
             THEN Set(channel, a, Append(channel[a], e))
             ELSE channel
-----------------------------------------------------------------------------
(* The request: its task and its pump. *)

\* A console connects and sends a request; the model is asked, with a
\* queue and a pump that ends when the queue is empty and closed.
Open(a, s) ==
  /\ Unused(a)
  /\ session' = Set(session, a, s)
  /\ task' = Set(task, a, "completing")
  /\ round' = Set(round, a, 1)
  /\ handler' = Set(handler, a, "serving")
  /\ reader' = Set(reader, a, "reading")
  /\ UNCHANGED <<pieces, events, pending, channel, wire>>

Piece(a) ==
  /\ task[a] = "completing" /\ Len(pieces[a]) < MaxPieces
  /\ pieces' = Set(pieces, a, Append(pieces[a], Progress("delta", round[a])))
  /\ UNCHANGED <<session, task, round, events, pending, channel, handler, wire, reader>>

\* The reply is complete: the queue gets nothing more.
Reply(a) ==
  /\ task[a] = "completing"
  /\ task' = Set(task, a, "draining")
  /\ UNCHANGED <<session, round, pieces, events, pending, channel, handler, wire, reader>>

Pump(a) ==
  /\ pieces[a] # <<>>
  /\ pieces' = Set(pieces, a, Tail(pieces[a]))
  /\ Emit(a, Head(pieces[a]))
  /\ UNCHANGED <<session, task, round, events, pending, handler, wire, reader>>

\* The model is asked again, with a new queue, or not.
Continue(a) ==
  \/ /\ round[a] < Rounds
     /\ task' = Set(task, a, "completing")
     /\ round' = Set(round, a, round[a] + 1)
  \/ /\ task' = Set(task, a, "finishing")
     /\ UNCHANGED round

\* Mutant: the task does not wait for the pump.
StepUnpumped(a) ==
  /\ task[a] = "draining"
  /\ events' = Set(events, a, Append(events[a], round[a]))
  /\ Emit(a, Progress("step", round[a]))
  /\ Continue(a)
  /\ UNCHANGED <<session, pieces, pending, handler, wire, reader>>

\* Mutant: only what could be sent is listed in the outcome.
StepListedIfSent(a) ==
  /\ task[a] = "draining" /\ pieces[a] = <<>>
  /\ Emit(a, Progress("step", round[a]))
  /\ events' = IF channel' # channel THEN Set(events, a, Append(events[a], round[a])) ELSE events
  /\ Continue(a)
  /\ UNCHANGED <<session, pieces, pending, handler, wire, reader>>

\* The pump has moved everything: now the reply's own events, which are its
\* assistant text, calls, verdicts and results.
Step(a) ==
  /\ task[a] = "draining" /\ pieces[a] = <<>>
  /\ events' = Set(events, a, Append(events[a], round[a]))
  /\ Emit(a, Progress("step", round[a]))
  /\ Continue(a)
  /\ UNCHANGED <<session, pieces, pending, handler, wire, reader>>

\* The request is completed or asks for a confirmation.
Finish(a) ==
  /\ task[a] = "finishing"
  /\ task' = Set(task, a, "ended")
  /\ \E asks \in BOOLEAN : pending' = Set(pending, a, asks)
  /\ events' = Set(events, a, Append(events[a], round[a] + 1))
  /\ Emit(a, Progress("step", round[a] + 1))
  /\ UNCHANGED <<session, round, pieces, handler, wire, reader>>

\* Refused, timed out, or an error of the provider or the audit log.  What the
\* pump has not moved yet it still moves.
Fail(a) ==
  /\ task[a] \in Working
  /\ task' = Set(task, a, "failed")
  /\ UNCHANGED <<session, round, pieces, events, pending, channel, handler, wire, reader>>
-----------------------------------------------------------------------------
(* The connection's handler. *)

Relay(a) ==
  /\ handler[a] = "serving" /\ channel[a] # <<>>
  /\ reader[a] \in {"reading", "left"} /\ Len(wire[a]) < WireRoom
  /\ channel' = Set(channel, a, Tail(channel[a]))
  /\ wire' = Set(wire, a, Append(wire[a], Head(channel[a])))
  /\ UNCHANGED <<session, task, round, pieces, events, pending, handler, reader>>

\* Every sender is gone: the request is joined and its outcome written.
WriteDone(a) ==
  /\ handler[a] = "serving" /\ channel[a] = <<>>
  /\ task[a] \in Gone /\ pieces[a] = <<>>
  /\ reader[a] \in {"reading", "left"} /\ Len(wire[a]) < WireRoom
  /\ handler' = Set(handler, a, "finished")
  /\ wire' = Set(wire, a, Append(wire[a], Done(a)))
  /\ UNCHANGED <<session, task, round, pieces, events, pending, channel, reader>>

\* A write fails, the console has hung up: the request goes on without.
Abandon(a) ==
  /\ handler[a] = "serving" /\ reader[a] = "closed"
  /\ channel[a] # <<>> \/ (task[a] \in Gone /\ pieces[a] = <<>>)
  /\ handler' = Set(handler, a, "gone")
  /\ channel' = Set(channel, a, <<>>)
  /\ UNCHANGED <<session, task, round, pieces, events, pending, wire, reader>>

\* The runtime is killed and started again: consoles see the connection end.
Kill ==
  /\ \E a \in Ask : handler[a] = "serving" \/ task[a] \in Working
  /\ task' = [a \in Ask |-> IF task[a] \in Working THEN "failed" ELSE task[a]]
  /\ handler' = [a \in Ask |-> IF handler[a] = "serving" THEN "gone" ELSE handler[a]]
  /\ pieces' = [a \in Ask |-> <<>>]
  /\ channel' = [a \in Ask |-> <<>>]
  /\ UNCHANGED <<session, round, events, pending, wire, reader>>

\* What the runtime does for `a` by itself: the model may answer or fail.
Serve(a) ==
  \/ Reply(a) \/ Pump(a) \/ Step(a) \/ Finish(a)
  \/ Relay(a) \/ WriteDone(a) \/ Abandon(a)
=============================================================================
