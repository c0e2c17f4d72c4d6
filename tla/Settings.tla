------------------------------ MODULE Settings ------------------------------
(***************************************************************************)
(* How the runtime's settings come about (crates/config): the defaults,    *)
(* the file, the environment, the command line.  Paths, addresses and      *)
(* model names are left out; of the provider's address and key it matters  *)
(* whether both are there.  clap reads SAAIOS_PROVIDER and SAAIOS_MOCK     *)
(* into the command line's options.                                        *)
(***************************************************************************)
EXTENDS Integers

CONSTANTS
  Unset,  \* an option that is not given
  Typo    \* a provider that is none

Kind == {"mock", "remote", "local", "auto"}

ASSUME OptionAssumption == Unset \notin Kind \cup Nat /\ Typo \notin Kind \cup {Unset}

ConfigFile ==
  [provider : Kind \cup {Typo}, keys : BOOLEAN, real_linux : BOOLEAN,
   mock_planner : BOOLEAN, memory : BOOLEAN, automation : BOOLEAN,
   auto_diagnose : BOOLEAN, telemetry : {"auto", "on", "off"}, timeout : Nat]

Environment == [mode_mock : BOOLEAN, keys : BOOLEAN, telemetry : {Unset, "on", "off"}]

CliOverrides ==
  [provider : Kind \cup {Typo, Unset}, mock : BOOLEAN, mock_planner : BOOLEAN,
   real_linux : BOOLEAN, no_memory : BOOLEAN, no_automation : BOOLEAN,
   auto_diagnose : BOOLEAN, no_auto_diagnose : BOOLEAN,
   telemetry : BOOLEAN, no_telemetry : BOOLEAN, timeout : Nat \cup {Unset}]

Defaults ==
  [provider |-> "auto", keys |-> FALSE, real_linux |-> FALSE, mock_planner |-> FALSE,
   memory |-> TRUE, automation |-> TRUE, auto_diagnose |-> FALSE,
   telemetry |-> "auto", timeout |-> 30]

Given(option, otherwise) == IF option = Unset THEN otherwise ELSE option

\* Mutant: a budget of zero is taken as it is.
AtLeastNothing(n) == n

AtLeastOne(n) == IF n < 1 THEN 1 ELSE n

\* Mock was asked for in a way that is stronger than any provider's name.
MockAsked(env, cli) == cli.mock \/ cli.mock_planner \/ env.mode_mock

\* Mutant: the command line's provider is the last word.
ProviderByName(file, env, cli) == Given(cli.provider, file.provider)

ProviderKind(file, env, cli) ==
  IF MockAsked(env, cli) THEN "mock" ELSE Given(cli.provider, file.provider)

\* The command line, else the environment, else the file; "auto" is on with
\* the real adapters.
TelemetryEnabled(file, env, cli) ==
  /\ ~cli.no_telemetry
  /\ \/ cli.telemetry
     \/ env.telemetry = "on"
     \/ /\ env.telemetry = Unset
        /\ \/ file.telemetry = "on"
           \/ file.telemetry = "auto" /\ (file.real_linux \/ cli.real_linux)

Resolve(file, env, cli) ==
  [real_linux |-> file.real_linux \/ cli.real_linux,
   mock_planner |-> file.mock_planner \/ cli.mock_planner \/ env.mode_mock,
   provider_kind |-> ProviderKind(file, env, cli),
   keys |-> file.keys \/ env.keys,
   timeout |-> AtLeastOne(Given(cli.timeout, file.timeout)),
   memory |-> file.memory /\ ~cli.no_memory,
   automation |-> file.automation /\ ~cli.no_automation,
   auto_diagnose |-> (file.auto_diagnose \/ cli.auto_diagnose) /\ ~cli.no_auto_diagnose,
   telemetry |-> TelemetryEnabled(file, env, cli)]

Resolved ==
  [real_linux : BOOLEAN, mock_planner : BOOLEAN, provider_kind : Kind \cup {Typo},
   keys : BOOLEAN, timeout : Nat \ {0}, memory : BOOLEAN, automation : BOOLEAN,
   auto_diagnose : BOOLEAN, telemetry : BOOLEAN]
=============================================================================
