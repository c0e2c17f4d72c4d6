---------------------------- MODULE MemoryStore -----------------------------
(***************************************************************************)
(* The store of local facts (crates/memory-store): an append-only file of  *)
(* facts and tombstones, shared by the handlers of client connections, the *)
(* memory.* tools and the prompt of every diagnose.                        *)
(*                                                                         *)
(* An append holds the mutex; everything that reads does so without it, at *)
(* any moment of someone else's append.  A write may fail half-way (disk   *)
(* full), and the process may be killed at any moment.  Timestamps and ids *)
(* are left out: which facts a limited list leaves out is any choice.      *)
(***************************************************************************)
EXTENDS JsonLines, FiniteSets

CONSTANTS
  Client,   \* connections, tools and requests that use the store
  Key, Value, Absent,
  NoFact,   \* a client that has nothing to write
  Limit,    \* how many facts a limited list has (12 in the prompt)
  MaxLines  \* bound on the lines ever started (not in the code)

ASSUME FactAssumption ==
  /\ IsFiniteSet(Client)
  /\ Document = [key : Key, value : Value, deleted : BOOLEAN]
  /\ NoFact \notin Document
  /\ Absent \notin Value
  /\ Limit \in Nat \ {0}
  /\ MaxLines \in Nat

VARIABLES
  lines, tail,  \* the file
  line,         \* what the line being written will be; NoText: mutex free
  owner,        \* the clients in the middle of an append: at most one
  fact,         \* what each client is about to append or appending
  answer,       \* the last answer each client got
  faulty,       \* an append has been interrupted or has failed (history)
  forgotten     \* keys forgotten and not remembered since (history)

vars == <<lines, tail, line, owner, fact, answer, faulty, forgotten>>
file == <<lines, tail, line, owner>>

Status == {"none", "ok", "missing", "failed", "unreadable"}
-----------------------------------------------------------------------------
(* Reading: everything is computed from what read_all returns now. *)

Readable == Parses(lines, tail)
Log == Documents(lines, tail)

\* Mutant: deleted facts are left out before the latest per key is taken.
LatestOfUndeleted ==
  {Log[i] : i \in {j \in DOMAIN Log :
     /\ ~Log[j].deleted
     /\ \A later \in DOMAIN Log :
          later > j => Log[later].key # Log[j].key \/ Log[later].deleted}}

\* latest_by_key: the last line of each key counts, and not if it is a
\* tombstone.
Latest ==
  {Log[i] : i \in {j \in DOMAIN Log :
     /\ ~Log[j].deleted
     /\ \A later \in DOMAIN Log : later > j => Log[later].key # Log[j].key}}

\* list_recent: no more than `limit` of them.
ListRecent(limit) ==
  {shown \in SUBSET Latest :
     Cardinality(shown) = IF Cardinality(Latest) < limit
                          THEN Cardinality(Latest) ELSE limit}

Answer(c, status, shown) ==
  answer' = [answer EXCEPT ![c] = [status |-> status, facts |-> shown]]
-----------------------------------------------------------------------------
Init ==
  /\ lines = <<>> /\ tail = NoText /\ line = NoText /\ owner = {}
  /\ fact = [c \in Client |-> NoFact]
  /\ answer = [c \in Client |-> [status |-> "none", facts |-> {}]]
  /\ faulty = FALSE
  /\ forgotten = {}

Idle(c) == fact[c] = NoFact

\* Bound: the file and the appends under way stay below MaxLines.
Room == Len(lines) + Cardinality({c \in Client : ~Idle(c)}) < MaxLines

\* remember, called by the UDS handler or the memory.remember tool.
Remember(c, k, v) ==
  /\ Idle(c) /\ Room
  /\ fact' = [fact EXCEPT ![c] = [key |-> k, value |-> v, deleted |-> FALSE]]
  /\ UNCHANGED <<file, answer, faulty, forgotten>>

\* forget reads without the mutex; what it found becomes the tombstone.
Forget(c, k) ==
  /\ Idle(c) /\ Room
  /\ \/ ~Readable /\ Answer(c, "unreadable", {}) /\ UNCHANGED fact
     \/ /\ Readable /\ \A f \in Latest : f.key # k
        /\ Answer(c, "missing", {})
        /\ UNCHANGED fact
     \/ /\ Readable
        /\ \E f \in Latest :
             /\ f.key = k
             /\ fact' = [fact EXCEPT ![c] = [f EXCEPT !.deleted = TRUE]]
        /\ UNCHANGED answer
  /\ UNCHANGED <<file, faulty, forgotten>>

\* Mutant: append does not take the mutex.
BeginAppendUnlocked(c) ==
  /\ ~Idle(c)
  /\ c \notin owner
  /\ owner' = {c}
  /\ line' = LineWith(tail, fact[c])
  /\ tail' \in Partial(line')
  /\ forgotten' = IF fact[c].deleted THEN forgotten ELSE forgotten \ {fact[c].key}
  /\ UNCHANGED <<lines, fact, answer, faulty>>

\* append takes the mutex and starts writing.
BeginAppend(c) ==
  /\ ~Idle(c)
  /\ owner = {}
  /\ owner' = {c}
  /\ line' = LineWith(tail, fact[c])
  /\ tail' \in Partial(line')
  /\ forgotten' = IF fact[c].deleted THEN forgotten ELSE forgotten \ {fact[c].key}
  /\ UNCHANGED <<lines, fact, answer, faulty>>

\* Mutant: the newline is forgotten.
EndAppendUnended(c) ==
  /\ c \in owner
  /\ tail' = line
  /\ line' = NoText /\ owner' = {}
  /\ fact' = [fact EXCEPT ![c] = NoFact]
  /\ Answer(c, "ok", {})
  /\ UNCHANGED <<lines, faulty, forgotten>>

\* The newline is written; the mutex is released and the client answered.
EndAppend(c) ==
  /\ c \in owner
  /\ lines' = Append(lines, line)
  /\ tail' = NoText /\ line' = NoText /\ owner' = {}
  /\ fact' = [fact EXCEPT ![c] = NoFact]
  /\ Answer(c, "ok", IF fact[c].deleted THEN {} ELSE {fact[c]})
  /\ forgotten' = IF fact[c].deleted THEN forgotten \cup {fact[c].key} ELSE forgotten
  /\ UNCHANGED faulty

\* Mutant: the failing writer keeps the mutex.
FailAppendHolding(c) ==
  /\ c \in owner
  /\ line' = NoText
  /\ fact' = [fact EXCEPT ![c] = NoFact]
  /\ Answer(c, "failed", {})
  /\ faulty' = TRUE
  /\ UNCHANGED <<lines, tail, owner, forgotten>>

\* write_all fails half-way: what was written stays in the file.
FailAppend(c) ==
  /\ c \in owner
  /\ line' = NoText /\ owner' = {}
  /\ fact' = [fact EXCEPT ![c] = NoFact]
  /\ Answer(c, "failed", {})
  /\ faulty' = TRUE
  /\ UNCHANGED <<lines, tail, forgotten>>

\* write_all fails before the first byte.
FailUnwritten(c) ==
  /\ ~Idle(c) /\ owner = {}
  /\ fact' = [fact EXCEPT ![c] = NoFact]
  /\ Answer(c, "failed", {})
  /\ UNCHANGED <<file, faulty, forgotten>>

\* recall with a query (here: the facts of one key): no limit.
Recall(c, k) ==
  /\ Idle(c)
  /\ IF Readable THEN Answer(c, "ok", {f \in Latest : f.key = k})
     ELSE Answer(c, "unreadable", {})
  /\ UNCHANGED <<file, fact, faulty, forgotten>>

\* recall without a query, the memory tail and the facts in a prompt.  A
\* prompt that cannot be given its facts is sent without.
Recent(c) ==
  /\ Idle(c)
  /\ IF Readable THEN \E shown \in ListRecent(Limit) : Answer(c, "ok", shown)
     ELSE Answer(c, "unreadable", {})
  /\ UNCHANGED <<file, fact, faulty, forgotten>>

\* The process is killed and started again: the file stays as it is.
Restart ==
  /\ line' = NoText /\ owner' = {}
  /\ fact' = [c \in Client |-> NoFact]
  /\ answer' = [c \in Client |-> [status |-> "none", facts |-> {}]]
  /\ faulty' = (faulty \/ owner # {})
  /\ UNCHANGED <<lines, tail, forgotten>>

\* What the tools memory.remember, memory.forget and memory.recall do.
ToolCall(c) ==
  \E k \in Key :
    \/ \E v \in Value : Remember(c, k, v)
    \/ Forget(c, k)
    \/ Recall(c, k)

\* The operations of a connection are the same and the tail.
Operation(c) == ToolCall(c) \/ Recent(c)

Next ==
  \/ \E c \in Client :
       Operation(c) \/ BeginAppend(c) \/ EndAppend(c) \/ FailAppend(c) \/ FailUnwritten(c)
  \/ Restart

Spec == Init /\ [][Next]_vars
=============================================================================
