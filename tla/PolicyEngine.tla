---------------------------- MODULE PolicyEngine ----------------------------
(***************************************************************************)
(* The policy engine (crates/policy-engine) as pure operators: what it     *)
(* decides for a tool call, given the set of tools that hold a session     *)
(* grant.  A call keeps the parts of the JSON arguments the engine looks   *)
(* at: the pid a kill request names (0 when absent) and which suspicious   *)
(* phrase, if any, the serialised arguments contain.                       *)
(***************************************************************************)
EXTENDS Naturals

CONSTANTS
  ToolSpec,  \* registered tool name -> [risk, requires_confirmation]
  Call       \* the calls a model or a client may name

RiskLevel == {"low", "medium", "high", "critical"}
PolicyVerdict == {"allow", "deny", "ask_user"}

\* "shared": a phrase both injection heuristics look for; "policy_only":
\* "drop privileges", which only the policy engine's copy of the list has.
Phrase == {"none", "shared", "policy_only"}

Registered == DOMAIN ToolSpec

ASSUME CallAssumption ==
  \A call \in Call :
    call.tool \in STRING /\ call.pid \in Nat /\ call.phrase \in Phrase

ASSUME ToolSpecAssumption ==
  \A tool \in Registered :
    ToolSpec[tool] \in [risk : RiskLevel, requires_confirmation : BOOLEAN]
-----------------------------------------------------------------------------
HardDenied == {"storage.format", "system.poweroff", "process.kill_init"}

InjectionGuarded == {"process.kill_request", "system.reboot_request"}

LooksLikeInjection(call) == call.phrase \in {"shared", "policy_only"}

\* What no grant and no confirmation can override.
AlwaysDenied(call) ==
  \/ call.tool \in HardDenied
  \/ LooksLikeInjection(call) /\ call.tool \in InjectionGuarded
  \/ call.tool = "process.kill_request" /\ call.pid <= 1

NeedsConfirmation(tool) ==
  \/ ToolSpec[tool].requires_confirmation
  \/ ToolSpec[tool].risk \in {"high", "critical"}

\* Mutant: the session grant is looked up before the pid and phrase guards.
DecideGrantFirst(call, grants) ==
  IF call.tool \in grants THEN "allow"
  ELSE IF AlwaysDenied(call) THEN "deny"
  ELSE IF NeedsConfirmation(call.tool) THEN "ask_user" ELSE "allow"

\* PolicyEngine::decide for a registered tool.
Decide(call, grants) ==
  IF AlwaysDenied(call) THEN "deny"
  ELSE IF call.tool \in grants \/ ~NeedsConfirmation(call.tool)
       THEN "allow" ELSE "ask_user"
=============================================================================
