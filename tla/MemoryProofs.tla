---------------------------- MODULE MemoryProofs ----------------------------
(***************************************************************************)
(* The store of local facts, for any number of clients, keys and values    *)
(* and a file of any length: its lines never mix without a fault, what is  *)
(* forgotten stays so, and the file implements a store of one fact per     *)
(* key.  The invariant says what the file may look like while a line is    *)
(* being written and after a write that did not end.                       *)
(***************************************************************************)
EXTENDS MemoryProperties, TLAPS, FiniteSetTheorems, WellFoundedInduction

Clean == \A i \in DOMAIN lines : lines[i] # Garbage

Busy == {c \in Client : ~Idle(c)}

\* The appends under way find room for their lines.
RoomInv == Len(lines) + Cardinality(Busy) <= MaxLines

\* What is seen of a line is its beginning or all of it, and the line is what
\* its owner has to write unless it was glued to an unended one; without a
\* fault every line is a document, and nothing is left unended.
FileInv ==
  /\ line # NoText => tail \in Partial(line)
  /\ \A c \in owner : line \in Document => line = fact[c]
  /\ ~faulty => /\ Clean /\ line # Garbage
                /\ line = NoText => tail = NoText

\* A forgotten key has a tombstone behind each of its facts, and nobody is
\* writing a fact of it.
ForgottenInv ==
  /\ Clean => \A i \in DOMAIN lines :
       lines[i].key \in forgotten /\ ~lines[i].deleted
         => \E j \in DOMAIN lines : j > i /\ lines[j].key = lines[i].key
  /\ tail \in Document => tail.deleted \/ tail.key \notin forgotten
  /\ line \in Document => line.deleted \/ line.key \notin forgotten

IInv == TypeOK /\ RoomInv /\ FileInv /\ ForgottenInv
-----------------------------------------------------------------------------
(* Types. *)

\* The states that TLC and the proofs start from.
LEMMA InitIInv == Init => IInv
<1> SUFFICES ASSUME Init PROVE IInv
  OBVIOUS
<1> USE FactAssumption, TextAssumption
<1>1. TypeOK
  <2>1. answer \in [Client -> [status : Status, facts : SUBSET Document]]
    BY DEF Init, Status
  <2>2. lines \in Seq(Text) /\ Len(lines) <= MaxLines
    BY DEF Init
  <2>3. fact \in [Client -> Document \cup {NoFact}]
    BY DEF Init
  <2>4. /\ tail \in Text \cup {NoText} /\ line \in Text \cup {NoText}
        /\ owner \in SUBSET Client /\ faulty \in BOOLEAN /\ forgotten \in SUBSET Key
        /\ line = NoText /\ owner = {}
    BY DEF Init
  <2> QED
    BY <2>1, <2>2, <2>3, <2>4 DEF TypeOK
<1>2. Busy = {}
  BY DEF Busy, Idle, Init
<1>3. RoomInv
  BY <1>2, FS_EmptySet DEF RoomInv, Init
<1>4. FileInv /\ ForgottenInv
  BY DEF FileInv, ForgottenInv, Clean, Init
<1> QED
  BY <1>1, <1>3, <1>4 DEF IInv

\* What a glued line is.
LEMMA GluedLine ==
  ASSUME NEW t, NEW d \in Document
  PROVE  /\ LineWith(t, d) \in Text
         /\ LineWith(t, d) # NoText
         /\ LineWith(t, d) \in Document => t = NoText /\ LineWith(t, d) = d
         /\ t = NoText => LineWith(t, d) = d
         /\ t # NoText => LineWith(t, d) = Garbage
  BY TextAssumption DEF LineWith, Text

\* Room is kept: whoever starts an append finds it, and whoever ends one adds
\* a line at most.
LEMMA RoomStep ==
  ASSUME TypeOK, RoomInv, [Next]_vars
  PROVE  RoomInv'
<1> USE FactAssumption
<1>1. IsFiniteSet(Busy) /\ Cardinality(Busy) \in Nat /\ Len(lines) \in Nat
  BY FS_Subset, FS_CardinalityType DEF Busy, TypeOK
<1>2. CASE UNCHANGED vars
  BY <1>2 DEF vars, RoomInv, Busy, Idle
<1>3. ASSUME UNCHANGED <<lines, fact>> PROVE RoomInv'
  BY <1>3 DEF RoomInv, Busy, Idle
<1>4. ASSUME NEW c \in Client, NEW f \in Document, Idle(c), Room,
             lines' = lines, fact' = [fact EXCEPT ![c] = f]
      PROVE  RoomInv'
  <2>1. Busy' = Busy \cup {c} /\ c \notin Busy
    BY <1>4 DEF Busy, Idle, TypeOK
  <2>2. Cardinality(Busy') = Cardinality(Busy) + 1
    BY <2>1, <1>1, FS_AddElement
  <2> QED
    BY <2>2, <1>1, <1>4 DEF RoomInv, Room, Busy
<1>5. ASSUME NEW c \in Client, ~Idle(c), fact' = [fact EXCEPT ![c] = NoFact],
             \/ lines' = lines
             \/ lines' = Append(lines, line) /\ line \in Text
      PROVE  RoomInv'
  <2>1. Busy' = Busy \ {c} /\ c \in Busy
    BY <1>5 DEF Busy, Idle, TypeOK
  <2>2. Cardinality(Busy') = Cardinality(Busy) - 1
    BY <2>1, <1>1, FS_RemoveElement
  <2>3. Len(lines') \in Nat /\ Len(lines') <= Len(lines) + 1
    BY <1>5 DEF TypeOK
  <2> QED
    BY <2>2, <2>3, <1>1 DEF RoomInv
<1>6. ASSUME NEW c \in Client, Operation(c) PROVE RoomInv'
  <2>1. ASSUME NEW k \in Key, NEW v \in Value, Remember(c, k, v) PROVE RoomInv'
    BY <2>1, <1>4 DEF Remember, file
  <2>2. ASSUME NEW k \in Key, Forget(c, k) PROVE RoomInv'
    <3>1. CASE UNCHANGED fact
      BY <2>2, <3>1, <1>3 DEF Forget, file
    <3>2. CASE \E f \in Latest : fact' = [fact EXCEPT ![c] = [f EXCEPT !.deleted = TRUE]]
      <4>1. PICK f \in Latest : fact' = [fact EXCEPT ![c] = [f EXCEPT !.deleted = TRUE]]
        BY <3>2
      <4>2. CASE Readable
        <5>1. f \in Document
          BY <4>2 DEF Latest, Log, Documents, Readable, Parses, TypeOK, Text
        <5>2. [f EXCEPT !.deleted = TRUE] \in Document
          BY <5>1
        <5> QED
          BY <4>1, <5>2, <2>2, <1>4 DEF Forget, file
      <4>3. CASE ~Readable
        BY <4>3, <2>2, <1>3 DEF Forget, file
      <4> QED
        BY <4>2, <4>3
    <3> QED
      BY <2>2, <3>1, <3>2 DEF Forget
  <2>3. ASSUME NEW k \in Key, Recall(c, k) PROVE RoomInv'
    BY <2>3, <1>3 DEF Recall, file
  <2>4. CASE Recent(c)
    BY <2>4, <1>3 DEF Recent, file
  <2> QED
    BY <1>6, <2>1, <2>2, <2>3, <2>4 DEF Operation, ToolCall
<1>7. ASSUME NEW c \in Client, BeginAppend(c) PROVE RoomInv'
  BY <1>7, <1>3 DEF BeginAppend
<1>8. ASSUME NEW c \in Client, EndAppend(c) PROVE RoomInv'
  BY <1>8, <1>5 DEF EndAppend, TypeOK, Idle
<1>9. ASSUME NEW c \in Client, FailAppend(c) PROVE RoomInv'
  BY <1>9, <1>5 DEF FailAppend, TypeOK, Idle
<1>10. ASSUME NEW c \in Client, FailUnwritten(c) PROVE RoomInv'
  BY <1>10, <1>5 DEF FailUnwritten, file
<1>11. CASE Restart
  <2>1. Busy' = {}
    BY <1>11 DEF Restart, Busy, Idle
  <2> QED
    BY <2>1, <1>1, <1>11, FS_EmptySet DEF RoomInv, Restart
<1> QED
  BY <1>2, <1>6, <1>7, <1>8, <1>9, <1>10, <1>11 DEF Next

\* A step keeps the types, and the mutex has one owner with a fact to write.
LEMMA TypeStep ==
  ASSUME TypeOK, RoomInv, [Next]_vars
  PROVE  TypeOK'
<1> USE FactAssumption, TextAssumption
<1>1. Len(lines') <= MaxLines \/ lines' = lines
  <2>1. CASE lines' # lines
    <3>1. RoomInv'
      BY RoomStep
    <3>2. IsFiniteSet(Busy') /\ Cardinality(Busy') \in Nat
      BY FS_Subset, FS_CardinalityType DEF Busy
    <3>3. Len(lines') \in Nat
      <4>1. PICK c \in Client : EndAppend(c)
        BY <2>1 DEF Next, vars, file, Operation, ToolCall, Remember, Forget, Recall, Recent,
                    BeginAppend, FailAppend, FailUnwritten, Restart
      <4>2. lines' = Append(lines, line) /\ lines \in Seq(Text) /\ line \in Text
        BY <4>1 DEF EndAppend, TypeOK
      <4> QED
        BY <4>2
    <3> QED
      BY <3>1, <3>2, <3>3 DEF RoomInv
  <2> QED
    BY <2>1
<1>2. CASE UNCHANGED vars
  BY <1>2 DEF vars, TypeOK
<1>3. ASSUME NEW c \in Client, NEW status \in Status, NEW shown \in SUBSET Document,
             Answer(c, status, shown)
      PROVE  answer' \in [Client -> [status : Status, facts : SUBSET Document]]
  BY <1>3 DEF Answer, TypeOK
<1>4. Readable => Latest \subseteq Document
  BY DEF Readable, Parses, Latest, Log, Documents, TypeOK, Text
<1>5. {"ok", "missing", "failed", "unreadable"} \subseteq Status
  BY DEF Status
<1>6. ASSUME NEW c \in Client, NEW k \in Key, NEW v \in Value, Remember(c, k, v) PROVE TypeOK'
  <2>1. [key |-> k, value |-> v, deleted |-> FALSE] \in Document
    OBVIOUS
  <2>2. owner' = owner /\ c \notin owner
    BY <1>6 DEF Remember, file, Idle, TypeOK
  <2> QED
    BY <1>6, <2>1, <2>2 DEF Remember, file, TypeOK
<1>7. ASSUME NEW c \in Client, NEW k \in Key, Forget(c, k) PROVE TypeOK'
  <2>0. c \notin owner
    BY <1>7 DEF Forget, Idle, TypeOK
  <2>1. CASE UNCHANGED fact /\ \E status \in {"missing", "unreadable"} : Answer(c, status, {})
    BY <1>7, <2>1, <1>3, <1>5 DEF Forget, file, TypeOK
  <2>2. CASE /\ Readable
             /\ \E f \in Latest : fact' = [fact EXCEPT ![c] = [f EXCEPT !.deleted = TRUE]]
             /\ UNCHANGED answer
    <3>1. PICK d \in Document : fact' = [fact EXCEPT ![c] = d]
      BY <2>2, <1>4
    <3> QED
      BY <1>7, <2>0, <2>2, <3>1 DEF Forget, file, TypeOK
  <2> QED
    BY <1>7, <2>1, <2>2 DEF Forget
<1>8. ASSUME NEW c \in Client, NEW k \in Key, Recall(c, k) PROVE TypeOK'
  <2>1. answer' \in [Client -> [status : Status, facts : SUBSET Document]]
    BY <1>8, <1>3, <1>4, <1>5 DEF Recall
  <2> QED
    BY <1>8, <2>1 DEF Recall, file, TypeOK
<1>9. ASSUME NEW c \in Client, Recent(c) PROVE TypeOK'
  <2>1. answer' \in [Client -> [status : Status, facts : SUBSET Document]]
    <3>1. CASE Readable
      <4>1. PICK shown \in ListRecent(Limit) : Answer(c, "ok", shown)
        BY <1>9, <3>1 DEF Recent
      <4>2. shown \subseteq Document
        BY <3>1, <1>4 DEF ListRecent
      <4> QED
        BY <4>1, <4>2, <1>3, <1>5
    <3>2. CASE ~Readable
      BY <1>9, <3>2, <1>3, <1>5 DEF Recent
    <3> QED
      BY <3>1, <3>2
  <2> QED
    BY <1>9, <2>1 DEF Recent, file, TypeOK
<1>10. ASSUME NEW c \in Client, BeginAppend(c) PROVE TypeOK'
  <2>1. fact[c] \in Document /\ fact[c] # NoFact
    BY <1>10 DEF BeginAppend, Idle, TypeOK
  <2>2. line' \in Text /\ line' # NoText /\ tail' \in Text
    BY <1>10, <2>1, GluedLine DEF BeginAppend, Partial, Text
  <2>3. forgotten' \in SUBSET Key
    BY <1>10, <2>1 DEF BeginAppend, TypeOK
  <2> QED
    BY <1>10, <2>1, <2>2, <2>3 DEF BeginAppend, TypeOK
<1>11. ASSUME NEW c \in Client, EndAppend(c) PROVE TypeOK'
  <2>1. line \in Text /\ lines' \in Seq(Text)
    BY <1>11 DEF EndAppend, TypeOK
  <2>2. fact[c] \in Document
    BY <1>11 DEF EndAppend, TypeOK
  <2>3. answer' \in [Client -> [status : Status, facts : SUBSET Document]]
    BY <1>11, <2>2, <1>3, <1>5 DEF EndAppend
  <2>4. forgotten' \in SUBSET Key
    BY <1>11, <2>2 DEF EndAppend, TypeOK
  <2>5. Len(lines') <= MaxLines
    BY <1>1, <2>1 DEF TypeOK
  <2>6. fact' \in [Client -> Document \cup {NoFact}]
    BY <1>11 DEF EndAppend, TypeOK
  <2> QED
    BY <1>11, <2>1, <2>3, <2>4, <2>5, <2>6 DEF EndAppend, TypeOK
<1>12. ASSUME NEW c \in Client, FailAppend(c) PROVE TypeOK'
  <2>1. answer' \in [Client -> [status : Status, facts : SUBSET Document]]
    BY <1>12, <1>3, <1>5 DEF FailAppend
  <2>2. fact' \in [Client -> Document \cup {NoFact}]
    BY <1>12 DEF FailAppend, TypeOK
  <2> QED
    BY <1>12, <2>1, <2>2 DEF FailAppend, TypeOK
<1>13. ASSUME NEW c \in Client, FailUnwritten(c) PROVE TypeOK'
  <2>1. answer' \in [Client -> [status : Status, facts : SUBSET Document]]
    BY <1>13, <1>3, <1>5 DEF FailUnwritten
  <2>2. fact' \in [Client -> Document \cup {NoFact}]
    BY <1>13 DEF FailUnwritten, TypeOK
  <2> QED
    BY <1>13, <2>1, <2>2 DEF FailUnwritten, file, TypeOK
<1>14. CASE Restart
  <2>1. answer' \in [Client -> [status : Status, facts : SUBSET Document]]
    BY <1>14 DEF Restart, Status
  <2>2. fact' \in [Client -> Document \cup {NoFact}]
    BY <1>14 DEF Restart
  <2> QED
    BY <1>14, <2>1, <2>2 DEF Restart, TypeOK
<1> QED
  BY <1>2, <1>6, <1>7, <1>8, <1>9, <1>10, <1>11, <1>12, <1>13, <1>14 DEF Next, Operation, ToolCall

\* What a step does with the file: it begins, ends or abandons an append.
LEMMA FileCases ==
  ASSUME TypeOK, [Next]_vars
  PROVE  \/ UNCHANGED <<file, faulty, forgotten>>
         \/ \E c \in Client : BeginAppend(c) \/ EndAppend(c)
         \/ /\ line' = NoText /\ owner' = {} /\ UNCHANGED <<lines, tail, forgotten>>
            /\ line # NoText /\ faulty'
  BY DEF Next, vars, file, Operation, ToolCall, Remember, Forget, Recall, Recent,
         FailAppend, FailUnwritten, Restart, TypeOK

\* Taken and released by one client at a time, the mutex keeps lines apart.
LEMMA FileStep ==
  ASSUME TypeOK, FileInv, [Next]_vars
  PROVE  FileInv'
<1> USE TextAssumption, FactAssumption
<1>1. CASE UNCHANGED <<file, faulty, forgotten>>
  <2>1. ASSUME NEW c \in owner PROVE fact'[c] = fact[c] \/ line' = NoText
    BY <1>1 DEF Next, vars, file, Operation, ToolCall, Remember, Forget, Recall, Recent, BeginAppend,
                EndAppend, FailAppend, FailUnwritten, Restart, TypeOK, Idle
  <2> QED
    BY <1>1, <2>1 DEF FileInv, Clean, file
<1>2. ASSUME NEW c \in Client, BeginAppend(c) PROVE FileInv'
  <2>1. fact[c] \in Document
    BY <1>2 DEF BeginAppend, Idle, TypeOK
  <2>2. /\ line' \in Text /\ line' # NoText /\ tail' \in Partial(line')
        /\ line' \in Document => line' = fact[c]
    BY <1>2, <2>1, GluedLine DEF BeginAppend
  <2>3. ~faulty' => line' # Garbage /\ Clean'
    <3>1. ~faulty => tail = NoText
      BY <1>2 DEF BeginAppend, FileInv, TypeOK
    <3> QED
      BY <1>2, <2>1, <3>1, GluedLine DEF BeginAppend, FileInv, Clean
  <2> QED
    BY <1>2, <2>2, <2>3 DEF BeginAppend, FileInv
<1>3. ASSUME NEW c \in Client, EndAppend(c) PROVE FileInv'
  <2>1. ~faulty' => Clean'
    <3> SUFFICES ASSUME ~faulty', NEW i \in DOMAIN lines' PROVE lines'[i] # Garbage
      BY DEF Clean
    <3>1. Clean /\ line # Garbage
      BY <1>3 DEF EndAppend, FileInv
    <3>2. lines \in Seq(Text) /\ line \in Text /\ lines' = Append(lines, line)
      BY <1>3 DEF EndAppend, TypeOK
    <3> QED
      BY <3>1, <3>2 DEF Clean
  <2> QED
    BY <1>3, <2>1 DEF EndAppend, FileInv
<1>4. CASE /\ line' = NoText /\ owner' = {} /\ UNCHANGED <<lines, tail, forgotten>>
           /\ line # NoText /\ faulty'
  BY <1>4 DEF FileInv
<1> QED
  BY <1>1, <1>2, <1>3, <1>4, FileCases

\* A tombstone is the last line of its key until somebody writes the key again.
LEMMA ForgottenStep ==
  ASSUME TypeOK, FileInv, ForgottenInv, [Next]_vars
  PROVE  ForgottenInv'
<1> USE TextAssumption, FactAssumption
<1>1. CASE UNCHANGED <<file, faulty, forgotten>>
  BY <1>1 DEF ForgottenInv, Clean, file
<1>2. ASSUME NEW c \in Client, BeginAppend(c) PROVE ForgottenInv'
  <2>1. fact[c] \in Document
    BY <1>2 DEF BeginAppend, Idle, TypeOK
  <2>2. line' \in Document => line' = fact[c]
    BY <1>2, <2>1, GluedLine DEF BeginAppend
  <2>3. tail' \in Document => tail' = line'
    BY <1>2 DEF BeginAppend, Partial
  <2>4. forgotten' \subseteq forgotten /\ (fact[c].deleted \/ fact[c].key \notin forgotten')
    BY <1>2 DEF BeginAppend
  <2>5. lines' = lines
    BY <1>2 DEF BeginAppend
  <2> QED
    BY <2>2, <2>3, <2>4, <2>5 DEF ForgottenInv, Clean
<1>3. ASSUME NEW c \in Client, EndAppend(c) PROVE ForgottenInv'
  <2>1. lines \in Seq(Text) /\ line \in Text /\ lines' = Append(lines, line)
    BY <1>3 DEF EndAppend, TypeOK
  <2>2. tail' = NoText /\ line' = NoText
    BY <1>3 DEF EndAppend
  <2>3. ASSUME Clean', NEW i \in DOMAIN lines', lines'[i].key \in forgotten', ~lines'[i].deleted
        PROVE  \E j \in DOMAIN lines' : j > i /\ lines'[j].key = lines'[i].key
    <3> DEFINE n == Len(lines) + 1
    <3>1. n \in DOMAIN lines' /\ lines'[n] = line /\ DOMAIN lines' = DOMAIN lines \cup {n}
      BY <2>1
    <3>2. Clean /\ line \in Document
      BY <2>1, <2>3, <3>1 DEF Clean, Text
    <3>3. line = fact[c]
      BY <1>3, <3>2 DEF EndAppend, FileInv
    <3>4. i # n
      <4> SUFFICES ASSUME i = n PROVE FALSE
        OBVIOUS
      <4>1. ~fact[c].deleted /\ fact[c].key \in forgotten
        BY <1>3, <2>3, <3>1, <3>3 DEF EndAppend
      <4> QED
        BY <4>1, <3>2, <3>3 DEF ForgottenInv
    <3>5. i \in DOMAIN lines /\ lines'[i] = lines[i] /\ i \in Nat /\ i < n
      BY <2>1, <3>1, <3>4
    <3>6. CASE line.key = lines[i].key
      BY <3>1, <3>5, <3>6
    <3>7. CASE line.key # lines[i].key
      <4>1. lines[i].key \in forgotten
        BY <1>3, <2>3, <3>3, <3>5, <3>7 DEF EndAppend
      <4>2. PICK j \in DOMAIN lines : j > i /\ lines[j].key = lines[i].key
        BY <4>1, <2>3, <3>2, <3>5 DEF ForgottenInv
      <4> QED
        BY <2>1, <3>1, <3>5, <4>2
    <3> QED
      BY <3>6, <3>7
  <2> QED
    BY <2>2, <2>3 DEF ForgottenInv
<1>4. CASE /\ line' = NoText /\ owner' = {} /\ UNCHANGED <<lines, tail, forgotten>>
           /\ line # NoText /\ faulty'
  BY <1>4 DEF ForgottenInv, Clean
<1> QED
  BY <1>1, <1>2, <1>3, <1>4, FileCases

LEMMA StepIInv == IInv /\ [Next]_vars => IInv'
  BY TypeStep, RoomStep, FileStep, ForgottenStep DEF IInv

\* Every reachable state satisfies the invariant that the theorems below rest on.
THEOREM Invariant == Spec => []IInv
  BY InitIInv, StepIInv, PTL DEF Spec

\* The shape of the state, the size of the file and the one owner of the mutex.
THEOREM Typing == Spec => []TypeOK
  BY Invariant, PTL DEF IInv

\* However many clients append, the store is lost only after a fault.
THEOREM LostOnlyAfterFault == Spec => []UnreadableOnlyAfterFault
<1>1. IInv => UnreadableOnlyAfterFault
  BY TextAssumption DEF IInv, FileInv, Clean, UnreadableOnlyAfterFault, Health
<1> QED
  BY <1>1, Invariant, PTL

\* A client that cannot read has a fault or a writer to blame.
THEOREM ErrorsExplained == Spec => ReadErrorsExplained
<1>1. ASSUME IInv, [Next]_vars, NEW c \in Client,
             answer'[c].status = "unreadable", answer'[c] # answer[c]
      PROVE  faulty \/ owner # {}
  <2>1. ~Readable
    <3> SUFFICES ASSUME Readable PROVE FALSE
      OBVIOUS
    <3>1. \A d \in Client : \A status : \A shown :
            Answer(d, status, shown) /\ status # "unreadable"
              => answer'[c] = answer[c] \/ answer'[c].status # "unreadable"
      BY DEF Answer, IInv, TypeOK
    <3>2. CASE UNCHANGED answer
      BY <3>2, <1>1
    <3>3. CASE Restart
      BY <3>3, <1>1 DEF Restart
    <3>4. CASE \E d \in Client : \E status, shown : Answer(d, status, shown) /\ status # "unreadable"
      BY <3>4, <3>1, <1>1
    <3>5. ASSUME NEW d \in Client, Operation(d) \/ EndAppend(d) \/ FailAppend(d) \/ FailUnwritten(d)
          PROVE  UNCHANGED answer \/ \E status, shown : Answer(d, status, shown) /\ status # "unreadable"
      <4>1. CASE Recent(d)
        BY <4>1 DEF Recent
      <4>2. ASSUME NEW k \in Key, Recall(d, k) PROVE Answer(d, "ok", {f \in Latest : f.key = k})
        BY <4>2 DEF Recall
      <4>3. ASSUME NEW k \in Key, Forget(d, k) PROVE UNCHANGED answer \/ Answer(d, "missing", {})
        BY <4>3 DEF Forget
      <4>4. CASE EndAppend(d) \/ FailAppend(d) \/ FailUnwritten(d)
        BY <4>4 DEF EndAppend, FailAppend, FailUnwritten
      <4>5. ASSUME NEW k \in Key, NEW v \in Value, Remember(d, k, v) PROVE UNCHANGED answer
        BY <4>5 DEF Remember
      <4>6. "ok" # "unreadable" /\ "missing" # "unreadable"
        OBVIOUS
      <4> QED
        BY <3>5, <4>1, <4>2, <4>3, <4>4, <4>5, <4>6 DEF Operation, ToolCall
    <3> QED
      BY <1>1, <3>2, <3>3, <3>4, <3>5 DEF Next, vars, BeginAppend
  <2>2. ~faulty => line # NoText
    BY <1>1, <2>1, TextAssumption DEF IInv, FileInv, Clean, Readable, Parses
  <2> QED
    BY <1>1, <2>2 DEF IInv, TypeOK
<1>2. IInv /\ [Next]_vars
        => [\A c \in Client :
              answer'[c].status = "unreadable" /\ answer'[c] # answer[c]
                => faulty \/ owner # {}]_vars
  BY <1>1
<1> QED
  BY <1>2, Invariant, PTL DEF Spec, ReadErrorsExplained

\* What is forgotten is served again only after it was remembered again.
THEOREM ForgottenForGood == Spec => []ForgottenStaysForgotten
<1>1. ASSUME IInv PROVE ForgottenStaysForgotten
  <2> SUFFICES ASSUME Readable, NEW i \in DOMAIN Log, ~Log[i].deleted,
                      \A later \in DOMAIN Log : later > i => Log[later].key # Log[i].key,
                      Log[i].key \in forgotten
               PROVE  FALSE
    BY DEF ForgottenStaysForgotten, Latest
  <2>1. Clean /\ lines \in Seq(Text) /\ tail \in Document \cup {NoText}
    BY <1>1 DEF Readable, Parses, Clean, IInv, TypeOK, Text
  <2>2. CASE tail = NoText
    BY <1>1, <2>1, <2>2 DEF Log, Documents, IInv, ForgottenInv
  <2>3. CASE tail \in Document
    <3>1. Log = Append(lines, tail)
      BY <2>3, TextAssumption DEF Log, Documents
    <3>2. i # Len(lines) + 1
      BY <1>1, <2>1, <2>3, <3>1 DEF IInv, ForgottenInv
    <3>3. i \in DOMAIN lines /\ Log[i] = lines[i]
      BY <2>1, <3>1, <3>2
    <3>4. PICK j \in DOMAIN lines : j > i /\ lines[j].key = lines[i].key
      BY <1>1, <2>1, <3>3 DEF IInv, ForgottenInv
    <3>5. j \in DOMAIN Log /\ Log[j] = lines[j]
      BY <2>1, <3>1, <3>4
    <3> QED
      BY <3>3, <3>4, <3>5
  <2> QED
    BY <2>1, <2>2, <2>3
<1> QED
  BY <1>1, Invariant, PTL
-----------------------------------------------------------------------------
(* The file implements the store of one fact per key. *)

\* Of finitely many places one is the last.
LEMMA LastPlace ==
  ASSUME NEW n \in Nat, NEW S \in SUBSET (1..n), S # {}
  PROVE  \E i \in S : \A j \in S : j <= i
<1> DEFINE T == {n - i : i \in S}
<1>0. \A i \in S : i \in Nat /\ i <= n
  OBVIOUS
<1>1. T \subseteq Nat /\ T # {}
  <2>1. \A i \in S : n - i \in Nat
    BY <1>0
  <2>2. PICK i \in S : TRUE
    OBVIOUS
  <2>3. n - i \in T
    BY <2>2
  <2> QED
    BY <2>1, <2>3
<1>2. PICK x \in T : \A y \in T : ~ (<<y, x>> \in OpToRel(<, Nat))
  BY <1>1, NatLessThanWellFounded, WFMin, Zenon
<1>3. \A y \in T : ~ (y < x)
  BY <1>1, <1>2 DEF OpToRel
<1>4. PICK i \in S : x = n - i
  OBVIOUS
<1>5. \A j \in S : n - j \in T
  OBVIOUS
<1>6. \A j \in S : ~ (n - j < n - i)
  BY <1>3, <1>4, <1>5
<1>7. \A j \in S : j <= i
  BY <1>0, <1>6
<1> QED
  BY <1>7

\* The value of a key is the one at its last place.
LEMMA ValueAt ==
  ASSUME NEW log, NEW k, NEW last,
         {i \in DOMAIN log : log[i].key = k} # {},
         last = CHOOSE i \in {p \in DOMAIN log : log[p].key = k} :
                  \A j \in {p \in DOMAIN log : log[p].key = k} : j <= i
  PROVE  ValueIn(log, k) = IF log[last].deleted THEN Absent ELSE log[last].value
  BY DEF ValueIn

\* A line at the end decides about its key, and about no other.
LEMMA ValueInAppend ==
  ASSUME NEW log \in Seq(Document), NEW d \in Document, NEW k \in Key
  PROVE  ValueIn(Append(log, d), k) =
           IF d.key = k THEN IF d.deleted THEN Absent ELSE d.value
           ELSE ValueIn(log, k)
<1> DEFINE n == Len(log) + 1
           longer == Append(log, d)
           places == {i \in DOMAIN log : log[i].key = k}
           places2 == {i \in DOMAIN longer : longer[i].key = k}
<1>1. /\ longer[n] = d /\ n \in DOMAIN longer /\ n \in Nat
      /\ DOMAIN longer = DOMAIN log \cup {n}
      /\ \A i \in DOMAIN log : longer[i] = log[i] /\ i \in Nat /\ i < n
  OBVIOUS
<1>2. CASE d.key = k
  <2>1. n \in places2 /\ \A j \in places2 : j <= n
    BY <1>1, <1>2
  <2>2. \A i \in places2 : (\A j \in places2 : j <= i) => i = n
    BY <1>1, <2>1
  <2> HIDE DEF n, longer, places2
  <2>3. (CHOOSE i \in places2 : \A j \in places2 : j <= i) = n
    BY <2>1, <2>2
  <2>4. places2 # {}
    BY <2>1
  <2> QED
    BY <1>1, <1>2, <2>3, <2>4 DEF ValueIn, longer, places2
<1>3. CASE d.key # k
  <2>1. places2 = places
    BY <1>1, <1>3
  <2>2. CASE places = {}
    BY <2>1, <2>2, <1>3 DEF ValueIn
  <2>3. CASE places # {}
    <3>1. places \in SUBSET (1..Len(log)) /\ Len(log) \in Nat
      OBVIOUS
    <3>2. \E i \in places : \A j \in places : j <= i
      BY <2>3, <3>1, LastPlace
    <3> DEFINE last == CHOOSE i \in places : \A j \in places : j <= i
    <3>3. last \in places
      BY <3>2
    <3>4. longer[last] = log[last]
      BY <3>3, <1>1
    <3>5. ValueIn(log, k) = IF log[last].deleted THEN Absent ELSE log[last].value
      BY <2>3 DEF ValueIn
    <3>6. ValueIn(longer, k) = IF longer[last].deleted THEN Absent ELSE longer[last].value
      <4>1. places2 # {} /\ (CHOOSE i \in places2 : \A j \in places2 : j <= i) = last
        BY <2>1, <2>3
      <4> HIDE DEF longer, last
      <4> QED
        BY <4>1, ValueAt
    <3> QED
      BY <1>3, <3>4, <3>5, <3>6
  <2> QED
    BY <2>2, <2>3
<1> QED
  BY <1>2, <1>3

\* What makes the store lost.
Lost ==
  \/ \E i \in DOMAIN lines : lines[i] = Garbage
  \/ line = Garbage
  \/ tail = Garbage /\ line = NoText

LEMMA HealthOfLost ==
  /\ Health = "lost" <=> Lost
  /\ ~Lost => Health = IF Cut THEN "cut" ELSE "good"
  BY DEF Health, Lost

LEMMA HealthOfLostNext ==
  /\ Health' = "lost" <=> Lost'
  /\ ~Lost' => Health' = IF Cut' THEN "cut" ELSE "good"
  BY DEF Health, Lost

\* Once it is lost, it stays lost.
LEMMA LostForGood == IInv /\ [Next]_vars /\ Lost => Lost'
<1> SUFFICES ASSUME IInv, [Next]_vars, Lost PROVE Lost'
  OBVIOUS
<1> USE TextAssumption DEF Lost
<1>1. CASE UNCHANGED <<file, faulty, forgotten>>
  BY <1>1 DEF file
<1>2. ASSUME NEW c \in Client, BeginAppend(c) PROVE Lost'
  <2>1. line = NoText /\ (tail = Garbage => line' = Garbage)
    BY <1>2 DEF BeginAppend, LineWith, IInv, TypeOK
  <2> QED
    BY <1>2, <2>1 DEF BeginAppend
<1>3. ASSUME NEW c \in Client, EndAppend(c) PROVE Lost'
  <2>1. lines \in Seq(Text) /\ line \in Text /\ lines' = Append(lines, line)
    BY <1>3 DEF EndAppend, IInv, TypeOK
  <2>2. \A i \in DOMAIN lines : i \in DOMAIN lines' /\ lines'[i] = lines[i]
    BY <2>1
  <2>3. Len(lines) + 1 \in DOMAIN lines' /\ lines'[Len(lines) + 1] = line
    BY <2>1
  <2>4. line # NoText
    BY <2>1 DEF Text
  <2> QED
    BY <2>2, <2>3, <2>4
<1>4. CASE /\ line' = NoText /\ owner' = {} /\ UNCHANGED <<lines, tail, forgotten>>
           /\ line # NoText /\ faulty'
  BY <1>4 DEF IInv, FileInv, Partial
<1> QED
  BY <1>1, <1>2, <1>3, <1>4, FileCases DEF IInv

LEMMA StoreOfLost == Lost => Store = Facts!Empty
  BY HealthOfLost DEF Store, Facts!Empty

LEMMA StoreOfLostNext == Lost' => Store' = Facts!Empty
  BY HealthOfLostNext DEF Store, Facts!Empty

\* An append that is complete changes its key.
LEMMA StoreChanges ==
  ASSUME NEW log \in Seq(Document), NEW d \in Document,
         ~Lost, Settled = log, ~Lost', Settled' = Append(log, d)
  PROVE  Facts!Change
<1> DEFINE v == IF d.deleted THEN Absent ELSE d.value
<1> USE FactAssumption
<1>1. d.key \in Key /\ v \in Value \cup {Absent}
  OBVIOUS
<1>2. Store = [k \in Key |-> ValueIn(log, k)]
  BY HealthOfLost DEF Store
<1>3. Store' = [k \in Key |-> ValueIn(Append(log, d), k)]
  BY HealthOfLostNext DEF Store
<1>4. Store' = [k \in Key |-> IF d.key = k THEN v ELSE ValueIn(log, k)]
  BY <1>3, ValueInAppend
<1>5. Store' = [Store EXCEPT ![d.key] = v]
  BY <1>1, <1>2, <1>4
<1> QED
  BY <1>1, <1>5 DEF Facts!Change

\* Every step of the file is a step of the abstract store, or none.
LEMMA FactsStep == IInv /\ [Next]_vars => [Facts!Next]_(Facts!facts)
<1> SUFFICES ASSUME IInv, [Next]_vars PROVE Facts!Next \/ UNCHANGED <<Store, Health>>
  BY DEF Facts!facts
<1> USE TextAssumption
<1>1. CASE UNCHANGED <<file, faulty, forgotten>>
  BY <1>1 DEF Store, Health, Settled, Cut, file
<1>2. CASE Lost
  <2>1. Lost'
    BY <1>2, LostForGood
  <2> QED
    BY <1>2, <2>1, HealthOfLost, HealthOfLostNext, StoreOfLost, StoreOfLostNext
<1>3. CASE ~Lost /\ Lost'
  <2>1. Facts!Lose
    BY <1>3, HealthOfLost, HealthOfLostNext, StoreOfLostNext DEF Facts!Lose
  <2> QED
    BY <2>1 DEF Facts!Next
<1>4. CASE ~Lost /\ ~Lost'
  <2>0. lines \in Seq(Document)
    <3>1. lines \in Seq(Text) /\ \A i \in DOMAIN lines : lines[i] # Garbage
      BY <1>4 DEF Lost, IInv, TypeOK
    <3> QED
      BY <3>1 DEF Text
  <2>1. ASSUME NEW c \in Client, BeginAppend(c) PROVE UNCHANGED <<Store, Health>>
    <3>1. line = NoText /\ line' # Garbage
      BY <2>1, <1>4 DEF BeginAppend, Lost, IInv, TypeOK
    <3>2. fact[c] \in Document
      BY <2>1 DEF BeginAppend, Idle, IInv, TypeOK
    <3>3. tail = NoText /\ line' # NoText
      BY <2>1, <3>1, <3>2, GluedLine DEF BeginAppend
    <3>4. ~Cut /\ ~Cut' /\ lines' = lines
      BY <3>1, <3>3, <2>1 DEF Cut, BeginAppend
    <3>5. Settled' = Settled /\ Health' = "good" /\ Health = "good"
      BY <1>4, <3>4, HealthOfLost, HealthOfLostNext DEF Settled
    <3> QED
      BY <3>5 DEF Store
  <2>2. ASSUME NEW c \in Client, EndAppend(c) PROVE Facts!RememberOrForget
    <3>1. line \in Document /\ lines' = Append(lines, line)
      BY <2>2, <1>4 DEF EndAppend, Lost, IInv, TypeOK, Text
    <3>2. ~Cut /\ ~Cut'
      BY <2>2, <3>1 DEF EndAppend, Cut
    <3>3. Settled = lines /\ Settled' = Append(lines, line)
      BY <3>1, <3>2 DEF Settled
    <3>4. Facts!Change
      BY <1>4, <2>0, <3>1, <3>3, StoreChanges
    <3> QED
      BY <3>2, <3>4, <1>4, HealthOfLost, HealthOfLostNext DEF Facts!RememberOrForget
  <2>3. CASE /\ line' = NoText /\ owner' = {} /\ UNCHANGED <<lines, tail, forgotten>>
             /\ line # NoText /\ faulty'
    <3>1. tail' = line /\ line \in Document /\ tail = line
      BY <2>3, <1>4 DEF Lost, IInv, TypeOK, FileInv, Partial, Text
    <3>2. ~Cut /\ Cut'
      BY <2>3, <3>1 DEF Cut
    <3>3. Settled = lines /\ Settled' = Append(lines, line)
      BY <2>3, <3>1, <3>2 DEF Settled
    <3>4. Facts!Change
      BY <1>4, <2>0, <3>1, <3>3, StoreChanges
    <3>5. Facts!Interrupt
      BY <3>2, <3>4, <1>4, HealthOfLost, HealthOfLostNext DEF Facts!Interrupt
    <3> QED
      BY <3>5 DEF Facts!Next
  <2> QED
    BY <1>1, <2>1, <2>2, <2>3, FileCases DEF Facts!Next, IInv
<1> QED
  BY <1>2, <1>3, <1>4

LEMMA FactsInit == Init => Facts!Init
<1> SUFFICES ASSUME Init PROVE Facts!Init
  OBVIOUS
<1>1. ~Lost /\ ~Cut /\ Settled = <<>>
  BY TextAssumption DEF Init, Lost, Cut, Settled
<1>2. \A k \in Key : ValueIn(<<>>, k) = Absent
  BY DEF ValueIn
<1>3. Store = Facts!Empty
  BY <1>1, <1>2, HealthOfLost DEF Store, Facts!Empty
<1> QED
  BY <1>1, <1>3, HealthOfLost DEF Facts!Init

\* The file and its lock-free readers are a store of one fact per key, which an
\* interrupted write may or may not change, and can lose.
THEOREM FileImplementsFacts == Spec => ImplementsFacts
<1>1. Init => Facts!Init
  BY FactsInit
<1>2. IInv /\ [Next]_vars => [Facts!Next]_(Facts!facts)
  BY FactsStep
<1> QED
  BY <1>1, <1>2, Invariant, PTL DEF Spec, ImplementsFacts, Facts!Spec
=============================================================================
