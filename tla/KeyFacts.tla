------------------------------ MODULE KeyFacts ------------------------------
(***************************************************************************)
(* What a store of local facts promises (docs/platform-0.3-memory.md):     *)
(* one fact per key, the latest; remember replaces it, forget removes it.  *)
(* An interrupted write may or may not take effect.  From then on the      *)
(* store is on its last legs: it serves what it has until the next write,  *)
(* and then nothing any more.                                              *)
(***************************************************************************)
CONSTANTS Key, Value, Absent

VARIABLES
  store,  \* the fact of each key, or Absent
  health  \* "good", "cut": the last write was interrupted, or "lost"

facts == <<store, health>>

Empty == [k \in Key |-> Absent]

Init == store = Empty /\ health = "good"

\* One key gets a new value, or none.
Change == \E k \in Key, v \in Value \cup {Absent} : store' = [store EXCEPT ![k] = v]

RememberOrForget == health = "good" /\ Change /\ health' = "good"

\* A write is interrupted when all of it is there but the end of the line.
Interrupt == health = "good" /\ Change /\ health' = "cut"

\* A write is interrupted half-way, or follows an interrupted one.
Lose == health # "lost" /\ health' = "lost" /\ store' = Empty

Next == RememberOrForget \/ Interrupt \/ Lose

Spec == Init /\ [][Next]_facts
=============================================================================
