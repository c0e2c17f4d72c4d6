------------------------- MODULE StartupProperties --------------------------
(***************************************************************************)
(* What the settings and the chain of providers promise.                   *)
(***************************************************************************)
EXTENDS Startup

\* Shapes of the state; a request always has some time.
TypeOK ==
  /\ settings \in Resolved
  /\ phase \in {"start", "demo", "opened", "built", "serving", "exited"}
  /\ tools \in {"none", "mock", "real"}
  /\ workers \subseteq {"feed", "automation", "auto_diagnose", "telemetry"}
  /\ contacted \subseteq Provider
  /\ chain \in Seq(Provider \cup {Mock}) /\ budget \in Nat
  /\ phase \in {"built", "serving"} => budget >= 1
  /\ streaming \in BOOLEAN /\ split \in BOOLEAN /\ cut \in BOOLEAN
  /\ at \in 0..Len(chain) /\ clock \in 0..budget /\ since \in 0..HttpTimeout
  /\ iter \in 0..MaxIters /\ slow \in 0..clock /\ idle \in 0..clock
  /\ script \in Scripts \cup {<<>>} /\ arrived \in 0..(2 * Len(script))
  /\ outcome \in {"idle", "asking", "ok", "error", "timed_out"}

\* Who asks for the mock, by --mock, SAAIOS_MOCK, SAAIOS_MODE=mock, the planner
\* on the command line or in the file, never has a word sent to a model on the
\* network, whatever else names a provider.
MockStaysOffline ==
  MockAsked(env, cli) \/ file.mock_planner => contacted = {}

\* With provider "auto" a completion never ends in an error: the mock at the end
\* of the chain answers.  A request runs out of time only if the tools and the
\* own timeouts of the providers that took time, in all its completions, are
\* enough to use it up.
AutoAnswers ==
  settings.provider_kind = "auto" =>
    /\ outcome # "error"
    /\ outcome = "timed_out" => budget <= HttpTimeout * slow + idle

\* However the stream is cut into chunks, the answer is what the lines say: all
\* of it when the stream came to its end, its beginning when the server stopped
\* early; a character that two chunks share is damaged, nothing else.
SameOrDamaged(got, said) ==
  \A i \in DOMAIN got : got[i] = said[i] \/ got[i] = Damaged

Agrees(got, said) == Len(got) = Len(said) /\ SameOrDamaged(got, said)

SameCalls(got, said) ==
  \A n \in 0..MaxCall :
    /\ said[n].name = "" <=> got[n].name = ""
    /\ said[n].name # "" => /\ got[n].name \in {said[n].name, Damaged}
                           /\ Agrees(got[n].args, said[n].args)

ReplyAsSent ==
  outcome = "ok" =>
    /\ Len(text) <= Len(Texts(script))
    /\ SameOrDamaged(text, Texts(script))
    /\ ~cut => Len(text) = Len(Texts(script)) /\ SameCalls(calls, CallsOf(script))

\* What the console shows last is the answer: pieces of providers that failed
\* half-way come before it, and none of them is part of it.
OwnPiecesLast ==
  LET before == Len(shown) - Len(text)
  IN /\ before >= 0
     /\ \A i \in DOMAIN text : shown[before + i] = [place |-> at, piece |-> text[i]]
     /\ \A i \in 1..before : shown[i].place < at
     /\ \A i, j \in DOMAIN shown : i < j => shown[i].place <= shown[j].place

AnswerShownLast == outcome = "ok" /\ streaming => OwnPiecesLast

\* The unit starts the runtime with SAAIOS_MOCK=true and nothing else that names
\* a provider; its comment says "override provider in toml": the runtime serves
\* with the mock alone just when the file says so.
ByUnit == cli.mock /\ cli.provider = Unset /\ ~cli.mock_planner /\ ~env.mode_mock

ProviderInFileCounts ==
  ByUnit /\ ~file.mock_planner /\ phase = "serving" =>
    (chain = <<Mock>> <=> file.provider = "mock")
=============================================================================
