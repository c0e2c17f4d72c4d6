---------------------------- MODULE MCAutomation ----------------------------
(***************************************************************************)
(* A small instance of the automation loop for TLC: a rule that emits on a *)
(* hot sample; one that diagnoses on any sample, on what the first emits   *)
(* and, if the engine let it, on a failed diagnose; and a bus that holds   *)
(* fewer envelopes than the run publishes.                                 *)
(***************************************************************************)
EXTENDS AutomationProperties

MCRules ==
  <<[trigger |-> {"hot"}, action |-> "ping", cooldown |-> 2],
    [trigger |-> {"hot", "warm", "ping", "AutomationDiagnoseFailed"},
     action |-> "AutomationAutoDiagnose", cooldown |-> 1]>>
=============================================================================
