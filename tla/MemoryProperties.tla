-------------------------- MODULE MemoryProperties --------------------------
(***************************************************************************)
(* What the store of local facts promises, and for how long.               *)
(***************************************************************************)
EXTENDS MemoryStore

\* Shapes of the state, and that the mutex has one owner with something to
\* write (MemoryStore.file: Mutex<File>).
TypeOK ==
  /\ lines \in Seq(Text) /\ Len(lines) <= MaxLines
  /\ tail \in Text \cup {NoText}
  /\ line \in Text \cup {NoText}
  /\ owner \in SUBSET Client
  /\ fact \in [Client -> Document \cup {NoFact}]
  /\ answer \in [Client -> [status : Status, facts : SUBSET Document]]
  /\ faulty \in BOOLEAN
  /\ forgotten \in SUBSET Key
  /\ (line = NoText) = (owner = {})
  /\ \A c, d \in owner : c = d
  /\ \A c \in owner : fact[c] # NoFact
-----------------------------------------------------------------------------
(* The file as an abstract store: the lines that are settled, a document     *)
(* without its newline among them once nobody is writing it any more.        *)

Cut == tail \in Document /\ line = NoText

Health ==
  IF \/ \E i \in DOMAIN lines : lines[i] = Garbage
     \/ line = Garbage
     \/ tail = Garbage /\ line = NoText
  THEN "lost"
  ELSE IF Cut THEN "cut" ELSE "good"

Settled == IF Cut THEN Append(lines, tail) ELSE lines

ValueIn(log, k) ==
  LET places == {i \in DOMAIN log : log[i].key = k}
  IN IF places = {} THEN Absent
     ELSE LET last == CHOOSE i \in places : \A j \in places : j <= i
          IN IF log[last].deleted THEN Absent ELSE log[last].value

Store ==
  [k \in Key |-> IF Health = "lost" THEN Absent ELSE ValueIn(Settled, k)]

Facts == INSTANCE KeyFacts WITH store <- Store, health <- Health

\* The append-only file is a store of one fact per key: a step of it changes
\* one key at most, takes effect at once or, if it is interrupted, perhaps, and
\* everything is gone for good only after an interrupted write.
ImplementsFacts == Facts!Spec

\* The file is unreadable for good only if an append was interrupted: appends
\* of several clients never mix on a line, whatever their order.
UnreadableOnlyAfterFault == Health = "lost" => faulty

\* A client is told that the store cannot be read only if a write was
\* interrupted before, or if somebody is writing right now (reads take no
\* lock): the second kind passes.
ReadErrorsExplained ==
  [][\A c \in Client :
       answer'[c].status = "unreadable" /\ answer'[c] # answer[c]
         => faulty \/ owner # {}]_vars

\* What a client was told is forgotten is in no answer and no prompt until
\* somebody remembers the key again, also if another client remembered it
\* between the reading and the writing of the forget, or the process was
\* restarted in between.
ForgottenStaysForgotten ==
  Readable => \A f \in Latest : f.key \notin forgotten
=============================================================================
