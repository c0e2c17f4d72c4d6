----------------------------- MODULE JsonLines ------------------------------
(***************************************************************************)
(* A file of one JSON document per line, as the memory store and the audit *)
(* log keep it: appended to under a mutex, read without it.  `lines` are   *)
(* the texts that a newline ends, `tail` is what follows the last newline. *)
(* Garbage stands for a text that does not parse: the beginning of a       *)
(* document, or two documents on one line.                                 *)
(***************************************************************************)
EXTENDS Naturals, Sequences

CONSTANTS
  Document,  \* what is stored, one per line
  Garbage,   \* a text that is no document
  NoText     \* an empty tail

ASSUME TextAssumption ==
  Garbage \notin Document /\ NoText \notin Document /\ Garbage # NoText

Text == Document \cup {Garbage}

\* read_all parses every line, the unended one too; one failure fails it all.
Parses(lines, tail) ==
  /\ \A i \in DOMAIN lines : lines[i] # Garbage
  /\ tail # Garbage

\* The documents read_all returns.
Documents(lines, tail) == IF tail = NoText THEN lines ELSE Append(lines, tail)

\* Mutant: a document is written over an unended line.
LineOver(tail, doc) == doc

\* The line that writing `doc` makes of the tail it finds.
LineWith(tail, doc) == IF tail = NoText THEN doc ELSE Garbage

\* What can be seen of a line while it is written: its beginning, or all of it
\* but the newline.
Partial(line) == {Garbage, line}
=============================================================================
