------------------------------ MODULE Startup -------------------------------
(***************************************************************************)
(* The runtime's main (saaios-runtime main.rs): from the settings to the   *)
(* tools, the files, the model provider, the workers and the socket, and   *)
(* from there to completions.  Every step may end the process.             *)
(***************************************************************************)
EXTENDS Settings, ModelProvider

CONSTANTS
  Remote, Local,       \* the two providers on the network
  Files, Envs, Clis    \* the configurations looked at

ASSUME StartupAssumption ==
  /\ Provider = {Remote, Local} /\ Remote # Local
  /\ Files \subseteq ConfigFile /\ Envs \subseteq Environment /\ Clis \subseteq CliOverrides

VARIABLES
  file, env, cli,  \* what the process is started with
  settings,
  phase,      \* how far main has come
  tools,      \* "none", "mock" or "real": the adapters behind the tools
  workers,    \* the background tasks
  contacted   \* providers that were ever sent a request (history)

main == <<file, env, cli, settings, phase, tools, workers, contacted>>
vars == <<main, chain, budget, call>>

Init ==
  /\ file \in Files /\ env \in Envs /\ cli \in Clis
  /\ settings = Resolve(file, env, cli)
  /\ phase = "start" /\ tools = "none" /\ workers = {} /\ contacted = {}
  /\ chain = <<>> /\ budget = 0
  /\ InitCall

Exit ==
  /\ phase' = "exited"
  /\ UNCHANGED <<file, env, cli, settings, tools, workers, contacted, chain, budget, call>>

\* The tools and the files; memory or audit log may fail to open.
Open ==
  /\ phase = "start"
  /\ \/ /\ tools' = IF settings.real_linux THEN "real" ELSE "mock"
        /\ phase' = IF settings.mock_planner THEN "demo" ELSE "opened"
        /\ UNCHANGED <<file, env, cli, settings, workers, contacted, chain, budget, call>>
     \/ Exit

\* The one-shot demo of the mock planner.
Demo ==
  /\ phase = "demo"
  /\ \/ /\ phase' = "opened"
        /\ UNCHANGED <<file, env, cli, settings, tools, workers, contacted, chain, budget, call>>
     \/ Exit

KindUsed == IF settings.mock_planner THEN "mock" ELSE settings.provider_kind

\* Mutant: the mock is no part of the automatic chain.
AutoChainWithoutMock(healthy) ==
  (IF healthy THEN <<Local>> ELSE <<>>) \o (IF settings.keys THEN <<Remote>> ELSE <<>>)

\* Local if it is healthy now, remote if its address and key are known, mock.
AutoChain(healthy) ==
  (IF healthy THEN <<Local>> ELSE <<>>) \o (IF settings.keys THEN <<Remote>> ELSE <<>>) \o <<Mock>>

Built(providers, asked) ==
  /\ phase' = "built"
  /\ chain' = providers
  /\ contacted' = contacted \cup asked
  /\ budget' = settings.timeout
  /\ UNCHANGED <<file, env, cli, settings, tools, workers, call>>

\* build_provider; the health check of a local provider is only asked for.
BuildProvider ==
  /\ phase = "opened"
  /\ \/ KindUsed = "mock" /\ Built(<<Mock>>, {})
     \/ KindUsed = "local" /\ Built(<<Local>>, {Local})
     \/ KindUsed = "remote" /\ settings.keys /\ Built(<<Remote>>, {})
     \/ KindUsed = "remote" /\ ~settings.keys /\ Exit
     \/ KindUsed = "auto" /\ \E healthy \in BOOLEAN : Built(AutoChain(healthy), {Local})
     \/ KindUsed = Typo /\ Exit

Started ==
  {"feed"}
  \cup (IF settings.automation THEN {"automation"} ELSE {})
  \cup (IF settings.auto_diagnose THEN {"auto_diagnose"} ELSE {})
  \cup (IF settings.telemetry THEN {"telemetry"} ELSE {})

\* The workers are started, then the socket is bound, which may fail.
Serve ==
  /\ phase = "built"
  /\ \/ /\ workers' = Started
        /\ phase' = "serving"
        /\ UNCHANGED <<file, env, cli, settings, tools, contacted, chain, budget, call>>
     \/ Exit

\* Requests of consoles and workers, one completion at a time.
Completion ==
  /\ phase = "serving"
  /\ CallStep
  /\ contacted' = IF at' = 0 THEN contacted ELSE contacted \cup ({chain[at']} \ {Mock})
  /\ UNCHANGED <<file, env, cli, settings, phase, tools, workers, chain, budget>>

Next == Open \/ Demo \/ BuildProvider \/ Serve \/ Completion

Spec == Init /\ [][Next]_vars
=============================================================================
