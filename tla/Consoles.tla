------------------------------ MODULE Consoles ------------------------------
(***************************************************************************)
(* The two consoles of the runtime: the web Stage (crates/console-web and  *)
(* its page, static/app.js) and the terminal console (crates/console-tui). *)
(*                                                                         *)
(* Stage keeps the conversation in one slot for all pages.  A request      *)
(* reads the slot when it is asked, and its forwarding task writes it when *)
(* the done frame passes; a reset holds the slot's lock for as long as the *)
(* runtime takes to reset the conversation.  A page shows the decision     *)
(* that a done frame asks for; what it confirms goes to the conversation   *)
(* in the slot.  The terminal does one thing at a time and keeps the       *)
(* conversation itself.                                                    *)
(***************************************************************************)
EXTENDS ProgressStream

CONSTANTS Page, NoAsk

ASSUME PageAssumption == NoAsk \notin Ask

VARIABLES
  slot,      \* Stage's conversation
  resetter,  \* the pages whose reset holds the slot's lock: at most one
  asking,    \* what each page is busy with
  inbox,     \* the done frame each request's console has and has not handled
  decision,  \* the request whose confirmation each page shows
  hiding,    \* pages whose reset is done and whose answer is on its way
  chat,      \* the terminal's conversation
  question,  \* what the terminal is busy with
  choice,    \* the request whose confirmation the terminal waits for
  crossed,   \* requests of pages overlapped by a reset or another's (history)
  retired    \* conversations whose reset began while no page asked anything
             \* and was not cut off (history)

pages == <<slot, resetter, asking, inbox, decision, hiding, crossed, retired>>
terminal == <<chat, question, choice>>
vars == <<stream, pages, terminal>>

Init ==
  /\ InitStream
  /\ slot = NoSession /\ resetter = {} /\ crossed = {} /\ retired = {}
  /\ asking = [p \in Page |-> NoAsk] /\ decision = [p \in Page |-> NoAsk]
  /\ hiding = {}
  /\ inbox = [a \in Ask |-> <<>>]
  /\ chat = NoSession /\ question = NoAsk /\ choice = NoAsk

\* Requests that Stage forwards, those of pages that have left among them.
ByPage(a) == a # question
Forwarded == {a \in Ask : reader[a] \in {"reading", "left"} /\ ByPage(a)}
Overlapped == Forwarded \cup ({asking[p] : p \in Page} \ {NoAsk})

\* Mutant: only a done frame ends a stream.
EndedByDone(a) == handler[a] = "finished" /\ wire[a] = <<>>

Ended(a) == handler[a] \in {"finished", "gone"} /\ wire[a] = <<>>
-----------------------------------------------------------------------------
(* A page. *)

\* Mutant: the slot is read without its lock.
PageAskUnlocked(p, a) ==
  /\ asking[p] = NoAsk
  /\ Open(a, slot)
  /\ asking' = Set(asking, p, a)
  /\ crossed' = IF Forwarded = {} THEN crossed ELSE crossed \cup Forwarded \cup {a}
  /\ UNCHANGED <<slot, resetter, inbox, decision, hiding, retired, terminal>>

\* ask, and api_diagnose_stream with the slot's conversation.
PageAsk(p, a) ==
  /\ asking[p] = NoAsk
  /\ resetter = {}
  /\ Open(a, slot)
  /\ asking' = Set(asking, p, a)
  /\ crossed' = IF Forwarded = {} THEN crossed ELSE crossed \cup Forwarded \cup {a}
  /\ UNCHANGED <<slot, resetter, inbox, decision, hiding, retired, terminal>>

\* forward_diagnose_stream hands a frame on; the page of a request that left
\* is found gone only now, after the slot was written.
Forward(a) ==
  /\ a \in Forwarded /\ wire[a] # <<>>
  /\ LET frame == Head(wire[a])
         names == frame.type = "done" /\ frame.session # NoSession
     IN /\ names => resetter = {}
        /\ slot' = IF names THEN frame.session ELSE slot
        /\ reader' = Set(reader, a, CASE reader[a] = "left" -> "closed"
                                      [] frame.type = "done" -> "over"
                                      [] OTHER -> "reading")
        /\ inbox' = IF reader[a] = "reading" /\ frame.type = "done"
                    THEN Set(inbox, a, <<frame>>) ELSE inbox
        /\ wire' = Set(wire, a, IF reader[a] = "left" THEN <<>> ELSE Tail(wire[a]))
  /\ UNCHANGED <<session, task, round, pieces, events, pending, channel, handler>>
  /\ UNCHANGED <<resetter, asking, decision, hiding, crossed, retired, terminal>>

\* The runtime's end of the stream is closed before a done frame.
ForwardEnds(a) ==
  /\ a \in Forwarded /\ Ended(a)
  /\ reader' = Set(reader, a, "over")
  /\ UNCHANGED <<session, task, round, pieces, events, pending, channel, handler, wire>>
  /\ UNCHANGED <<pages, terminal>>

\* handleFrame shows the decision of the done frame, and the page is not busy
\* any more.
PageShows(p) ==
  LET a == asking[p] IN
  /\ a # NoAsk
  /\ reader[a] = "over"
  /\ decision' = IF inbox[a] # <<>> /\ inbox[a][1].pending
                 THEN Set(decision, p, a) ELSE decision
  /\ inbox' = Set(inbox, a, <<>>)
  /\ asking' = Set(asking, p, NoAsk)
  /\ UNCHANGED <<stream, slot, resetter, hiding, crossed, retired, terminal>>

\* confirm hides the decision and sends it with the slot's conversation.
PageConfirm(p) ==
  /\ decision[p] # NoAsk
  /\ resetter = {}
  /\ decision' = Set(decision, p, NoAsk)
  /\ UNCHANGED <<stream, slot, resetter, asking, inbox, hiding, crossed, retired, terminal>>

\* api_chat_reset takes the lock and asks the runtime.
BeginReset(p) ==
  /\ resetter = {} /\ p \notin hiding
  /\ resetter' = {p}
  /\ crossed' = crossed \cup Overlapped
  /\ retired' = IF Overlapped = {} /\ slot # NoSession THEN retired \cup {slot} ELSE retired
  /\ UNCHANGED <<stream, slot, asking, inbox, decision, hiding, terminal>>

EndReset(p) ==
  /\ p \in resetter
  /\ slot' = NoSession /\ resetter' = {} /\ hiding' = hiding \cup {p}
  /\ UNCHANGED <<stream, asking, inbox, decision, crossed, retired, terminal>>

\* Mutant: the page goes on showing the decision.
PageResetsShowing(p) ==
  /\ p \in hiding
  /\ hiding' = hiding \ {p}
  /\ UNCHANGED <<stream, slot, resetter, asking, inbox, decision, crossed, retired, terminal>>

\* The answer of the reset reaches the page.
PageResets(p) ==
  /\ p \in hiding
  /\ hiding' = hiding \ {p}
  /\ decision' = Set(decision, p, NoAsk)
  /\ UNCHANGED <<stream, slot, resetter, asking, inbox, crossed, retired, terminal>>

\* The page is closed or loaded anew.  Its own reset is dropped with its
\* connection, where it waits for the runtime: the lock is free again and the
\* slot is not cleared.
PageLeaves(p) ==
  LET a == asking[p] IN
  /\ resetter' = resetter \ {p}
  /\ retired' = IF p \in resetter THEN retired \ {slot} ELSE retired
  /\ asking' = Set(asking, p, NoAsk) /\ decision' = Set(decision, p, NoAsk)
  /\ hiding' = hiding \ {p}
  /\ reader' = IF a # NoAsk /\ reader[a] = "reading" THEN Set(reader, a, "left") ELSE reader
  /\ inbox' = IF a # NoAsk THEN Set(inbox, a, <<>>) ELSE inbox
  /\ UNCHANGED <<session, task, round, pieces, events, pending, channel, handler, wire>>
  /\ UNCHANGED <<slot, crossed, terminal>>
-----------------------------------------------------------------------------
(* The terminal. *)

\* Enter with a text; while a confirmation waits, Enter does nothing.
TerminalAsk(a) ==
  /\ question = NoAsk /\ choice = NoAsk
  /\ Open(a, chat)
  /\ question' = a
  /\ UNCHANGED <<pages, chat, choice>>

\* request_stream reads to the end before anything is shown.
TerminalReads ==
  /\ question # NoAsk /\ wire[question] # <<>>
  /\ LET frame == Head(wire[question])
     IN inbox' = IF frame.type = "done" THEN Set(inbox, question, <<frame>>) ELSE inbox
  /\ wire' = Set(wire, question, Tail(wire[question]))
  /\ UNCHANGED <<session, task, round, pieces, events, pending, channel, handler, reader>>
  /\ UNCHANGED <<slot, resetter, asking, decision, hiding, crossed, retired, terminal>>

\* What diagnose does with the answer; an error changes nothing.
TerminalAnswered ==
  /\ question # NoAsk /\ Ended(question)
  /\ LET a == question
         ok == inbox[a] # <<>> /\ inbox[a][1].ok
     IN /\ chat' = IF ok THEN inbox[a][1].session ELSE chat
        /\ choice' = IF ok /\ inbox[a][1].pending THEN a ELSE choice
        /\ reader' = Set(reader, a, "over")
        /\ inbox' = Set(inbox, a, <<>>)
  /\ question' = NoAsk
  /\ UNCHANGED <<session, task, round, pieces, events, pending, channel, handler, wire>>
  /\ UNCHANGED <<slot, resetter, asking, decision, hiding, crossed, retired>>

\* y, s or n: the choice is taken before the request is sent, and lost with it.
TerminalConfirm ==
  /\ question = NoAsk /\ choice # NoAsk
  /\ choice' = NoAsk
  /\ UNCHANGED <<stream, pages, chat, question>>

\* /new, or q and a new start.
TerminalNew ==
  /\ question = NoAsk /\ choice = NoAsk
  /\ chat' = NoSession
  /\ UNCHANGED <<stream, pages, question, choice>>
-----------------------------------------------------------------------------
Runtime ==
  /\ Kill \/ \E a \in Ask : Serve(a) \/ Piece(a) \/ Fail(a)
  /\ UNCHANGED <<pages, terminal>>

Next ==
  \/ Runtime
  \/ \E a \in Ask : Forward(a) \/ ForwardEnds(a) \/ TerminalAsk(a) \/ \E p \in Page : PageAsk(p, a)
  \/ \E p \in Page :
       \/ PageShows(p) \/ PageConfirm(p) \/ BeginReset(p) \/ EndReset(p)
       \/ PageResets(p) \/ PageLeaves(p)
  \/ TerminalReads \/ TerminalAnswered \/ TerminalConfirm \/ TerminalNew

Spec == Init /\ [][Next]_vars
=============================================================================
