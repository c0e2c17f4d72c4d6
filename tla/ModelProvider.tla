--------------------------- MODULE ModelProvider ----------------------------
(***************************************************************************)
(* The completions of a request (crates/model-provider, called from the    *)
(* loop of crates/ai-runtime): for each, the providers of a chain are      *)
(* asked one after the other until one answers; all of them and the tools  *)
(* between them share the request's time.  A streaming provider sends      *)
(* lines that arrive in chunks of any size; complete lines are parsed as   *)
(* they come, and the pieces of text go to the console at once.            *)
(*                                                                         *)
(* A line is two cells, its beginning and its end with the newline; a      *)
(* chunk is some of the cells to come.  A chunk that ends in the middle of *)
(* a character damages what that line says: text, a name or arguments.     *)
(* Time is counted in ticks; what takes less than one takes none.          *)
(***************************************************************************)
EXTENDS Integers, Sequences

CONSTANTS
  Provider, Mock,  \* the providers on the network, and the built-in one
  Word,            \* pieces of text, names and pieces of arguments
  MaxCall,         \* the largest index of a tool call
  Scripts,         \* what a provider may send: sequences of lines
  Damaged,         \* a piece whose character was split
  HttpTimeout,     \* a provider's own timeout (60 s)
  MaxIters         \* completions of a request (max_tool_iters)

Line == [kind : {"text", "name", "args", "noise"}, index : 0..MaxCall, value : Word]

ASSUME ProviderAssumption ==
  /\ Mock \notin Provider
  /\ HttpTimeout \in Nat \ {0} /\ MaxIters \in Nat \ {0} /\ MaxCall \in Nat
  /\ Scripts # {} /\ Scripts \subseteq Seq(Line)

\* A damaged character is some text.
ASSUME DamagedAssumption == Damaged # ""

VARIABLES
  chain,      \* the providers, first one first
  streaming,  \* does anybody want the pieces?
  at,         \* the place of the one being asked; 0: none
  budget, clock, since,  \* the request's time: allowed, taken, taken by this one
  iter,       \* the completion of the request
  slow, idle, \* providers that took time, and the time of the tools (history)
  script, arrived, split,  \* the stream: its lines, its cells so far, and
                           \* whether they end inside a character
  text, calls,  \* what is parsed of it; the mock's words so far
  cut,        \* the stream was over before its last line
  shown,      \* the pieces of this completion given to the console, with their places
  outcome     \* "idle", "asking", "ok", "error" or "timed_out"

times == <<clock, since, iter, slow, idle>>
stream == <<script, arrived, split, text, calls, cut>>
call == <<streaming, at, times, stream, shown, outcome>>

NoCalls == [n \in 0..MaxCall |-> [name |-> "", args |-> <<>>]]
Asked == chain[at]
Waiting == outcome = "asking"
More == outcome = "ok" /\ calls # NoCalls /\ iter < MaxIters
-----------------------------------------------------------------------------
(* What the lines of a stream say, and what the parser makes of them. *)

\* Empty pieces and names say nothing.
Says(line) == line.value # ""

Telling(lines, kind) == {i \in DOMAIN lines : lines[i].kind = kind /\ Says(lines[i])}
OfCall(lines, kind, n) == {i \in Telling(lines, kind) : lines[i].index = n}

\* What the chosen ones of the first k lines say, for every k.
Said(lines, chosen) ==
  LET upto[k \in 0..Len(lines)] ==
        IF k = 0 THEN <<>>
        ELSE IF k \in chosen THEN Append(upto[k - 1], lines[k].value)
        ELSE upto[k - 1]
  IN upto

Texts(lines) == Said(lines, Telling(lines, "text"))[Len(lines)]

\* The calls that the first k lines name, with the arguments they give.
CallsUpTo(lines, k) ==
  [n \in 0..MaxCall |->
    LET names == Said(lines, OfCall(lines, "name", n))[k]
    IN [name |-> IF names = <<>> THEN "" ELSE names[Len(names)],
        args |-> Said(lines, OfCall(lines, "args", n))[k]]]

\* The non-streaming answer.
CallsOf(lines) == CallsUpTo(lines, Len(lines))

\* tool_acc: names are replaced, fragments of arguments are appended.
Accumulated(acc, l) ==
  CASE ~Says(l) -> acc
    [] Says(l) /\ l.kind = "name" -> [acc EXCEPT ![l.index] = [name |-> l.value, args |-> @.args]]
    [] Says(l) /\ l.kind = "args" -> [acc EXCEPT ![l.index] = [name |-> @.name, args |-> Append(@.args, l.value)]]
    [] OTHER -> acc

\* A stream's calls without a name are left out; a document's are not.
Named(acc) == [n \in 0..MaxCall |-> IF acc[n].name = "" THEN NoCalls[n] ELSE acc[n]]

\* The calls after each of the lines.
Accumulation(lines) ==
  LET after[k \in 0..Len(lines)] ==
        IF k = 0 THEN calls ELSE Accumulated(after[k - 1], lines[k])
  IN after

\* Mutant: what is left of a line is forgotten with its chunk.
CompletedInChunk(from, to) == SubSeq(script, ((from + 1) \div 2) + 1, to \div 2)

\* line_buf: the lines that are complete after `to` cells and were not before.
Completed(from, to) == SubSeq(script, (from \div 2) + 1, to \div 2)

\* from_utf8_lossy of two halves of a character.
Joined(lines) ==
  IF split /\ lines # <<>> /\ Says(lines[1]) THEN [lines EXCEPT ![1].value = Damaged]
  ELSE lines
-----------------------------------------------------------------------------
InitCall ==
  /\ streaming = FALSE /\ at = 0
  /\ clock = 0 /\ since = 0 /\ iter = 0 /\ slow = 0 /\ idle = 0
  /\ script = <<>> /\ arrived = 0 /\ split = FALSE
  /\ text = <<>> /\ calls = NoCalls /\ cut = FALSE
  /\ shown = <<>> /\ outcome = "idle"

\* Mutant: what a provider said is kept for the next one's answer.
PostKeeping(place) ==
  /\ at' = place /\ since' = 0
  /\ script' \in Scripts
  /\ arrived' = 0 /\ split' = FALSE
  /\ cut' = FALSE
  /\ UNCHANGED <<text, calls>>

\* The place-th provider is sent the request; it will answer with a script.
Post(place) ==
  /\ at' = place /\ since' = 0
  /\ script' \in Scripts
  /\ arrived' = 0 /\ split' = FALSE
  /\ text' = <<>> /\ calls' = NoCalls /\ cut' = FALSE

Answered(said, asked) ==
  /\ text' = said /\ calls' = asked
  /\ outcome' = "ok"
  /\ UNCHANGED <<streaming, at, times, script, arrived, split, shown>>

\* A request: its time begins with its first completion.
Complete ==
  /\ outcome # "asking" /\ chain # <<>>
  /\ streaming' \in BOOLEAN
  /\ Post(1)
  /\ clock' = 0 /\ iter' = 1 /\ slow' = 0 /\ idle' = 0
  /\ shown' = <<>> /\ outcome' = "asking"

\* After the tools of an answer the model is asked again.
NextCompletion ==
  /\ More
  /\ Post(1)
  /\ iter' = iter + 1
  /\ shown' = <<>> /\ outcome' = "asking"
  /\ UNCHANGED <<streaming, clock, slow, idle>>

\* A chunk arrives: its complete lines are parsed, their text is sent on.
Chunk ==
  /\ Waiting /\ streaming /\ Asked # Mock
  /\ \E to \in (arrived + 1)..(2 * Len(script)) :
       LET lines == Joined(Completed(arrived, to))
           pieces == Texts(lines)
       IN /\ arrived' = to
          /\ split' \in IF to % 2 = 1 THEN BOOLEAN ELSE {FALSE}
          /\ text' = text \o pieces
          /\ calls' = Accumulation(lines)[Len(lines)]
          /\ shown' = shown \o [i \in DOMAIN pieces |-> [place |-> at, piece |-> pieces[i]]]
  /\ UNCHANGED <<streaming, at, times, script, cut, outcome>>

\* The stream is over: what was parsed is the answer, also if the server
\* stopped early.
StreamEnds ==
  /\ Waiting /\ streaming /\ Asked # Mock
  /\ cut' = (arrived < 2 * Len(script))
  /\ Answered(text, Named(calls))

\* Without a console the answer is one document.
Whole ==
  /\ Waiting /\ ~streaming /\ Asked # Mock
  /\ Answered(Texts(script), CallsOf(script))
  /\ UNCHANGED cut

\* The mock sends the words of its answer one by one, with pauses.
MockWord ==
  /\ Waiting /\ streaming /\ Asked = Mock
  /\ Len(text) < Len(Texts(script))
  /\ LET word == Texts(script)[Len(text) + 1]
     IN /\ text' = Append(text, word)
        /\ shown' = Append(shown, [place |-> at, piece |-> word])
  /\ UNCHANGED <<streaming, at, times, script, arrived, split, calls, cut, outcome>>

MockAnswers ==
  /\ Waiting /\ Asked = Mock
  /\ streaming => text = Texts(script)
  /\ Answered(Texts(script), CallsOf(script))
  /\ UNCHANGED cut

\* The next one of the chain is asked, or the last one's error returned.  What
\* was shown stays shown.
PassOver ==
  /\ IF at < Len(chain) THEN Post(at + 1) /\ UNCHANGED outcome
     ELSE outcome' = "error" /\ UNCHANGED <<at, since, stream>>
  /\ UNCHANGED <<streaming, clock, iter, slow, idle, shown>>

\* No connection, an error status, a broken stream, an answer without message.
ProviderFails == Waiting /\ Asked # Mock /\ PassOver

\* The one that is asked takes its time, before its answer or in the middle of
\* it: the mock's pauses are short.
Tick ==
  /\ Waiting /\ clock < budget
  /\ since < IF Asked = Mock THEN 1 ELSE HttpTimeout
  /\ clock' = clock + 1 /\ since' = since + 1
  /\ slow' = IF since = 0 THEN slow + 1 ELSE slow
  /\ UNCHANGED <<streaming, at, iter, idle, stream, shown, outcome>>

\* So do the tools, within the same time.
ToolsTake ==
  /\ More /\ clock < budget
  /\ clock' = clock + 1 /\ idle' = idle + 1
  /\ UNCHANGED <<streaming, at, since, iter, slow, stream, shown, outcome>>

\* The HTTP client's own timeout is an error like any other.
HttpTimesOut == Waiting /\ Asked # Mock /\ since >= HttpTimeout /\ PassOver

\* The request's timeout drops everything.
RequestTimesOut ==
  /\ Waiting \/ More
  /\ clock >= budget
  /\ outcome' = "timed_out"
  /\ UNCHANGED <<streaming, at, times, stream, shown>>

CallStep ==
  \/ Complete \/ NextCompletion \/ Chunk \/ StreamEnds \/ Whole \/ MockWord \/ MockAnswers
  \/ ProviderFails \/ Tick \/ ToolsTake \/ HttpTimesOut \/ RequestTimesOut
=============================================================================
