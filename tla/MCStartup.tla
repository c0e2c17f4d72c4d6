----------------------------- MODULE MCStartup ------------------------------
(* Files, environments and command lines that differ in what decides about    *)
(* tools and provider; a request time shorter and longer than the provider's  *)
(* own; replies with text and a call in pieces, with a call that has no name  *)
(* and with pieces that say nothing.                                          *)
EXTENDS StartupProperties

CONSTANTS remote, local

MCProvider == {remote, local}

MCWord == {"", "a", "b", "x", "y", "kill"}

l(kind, index, value) == [kind |-> kind, index |-> index, value |-> value]
MCScripts ==
  {<<l("text", 0, "a"), l("noise", 0, ""), l("text", 0, "b")>>,
   <<l("text", 0, "a"), l("name", 0, "kill"), l("args", 0, "x"), l("args", 0, "y")>>,
   <<l("name", 0, "kill"), l("name", 0, ""), l("text", 0, "")>>,
   <<l("args", 0, "x")>>}

MCFiles ==
  {[Defaults EXCEPT !.provider = p, !.keys = k, !.real_linux = k, !.mock_planner = m, !.timeout = t] :
     p \in {"auto", "remote", "local"}, k \in BOOLEAN, m \in BOOLEAN, t \in {0, 3, 5}}

MCEnvs == {[mode_mock |-> m, keys |-> FALSE, telemetry |-> Unset] : m \in BOOLEAN}

NoOverrides ==
  [provider |-> Unset, mock |-> FALSE, mock_planner |-> FALSE, real_linux |-> FALSE,
   no_memory |-> FALSE, no_automation |-> FALSE, auto_diagnose |-> FALSE,
   no_auto_diagnose |-> FALSE, telemetry |-> FALSE, no_telemetry |-> FALSE, timeout |-> Unset]

MCClis ==
  {[NoOverrides EXCEPT !.mock = m, !.provider = p, !.timeout = t] :
     m \in BOOLEAN, p \in {Unset, "local", "remote", Typo}, t \in {Unset, 2}}
  \cup {[NoOverrides EXCEPT !.mock_planner = TRUE, !.provider = "auto", !.auto_diagnose = TRUE,
                            !.no_automation = TRUE, !.telemetry = TRUE]}
=============================================================================
