------------------------------- MODULE Replay -------------------------------
(***************************************************************************)
(* The dry-run replay of the audit log (crates/audit-log, replay): what is *)
(* told of a chain of records with one correlation_id, which is a          *)
(* request's, followed by a confirmation's that answers its pending call.  *)
(* A text is told from another by the place of its record.                 *)
(***************************************************************************)
EXTENDS AiRuntimeProperties

\* Mutant: the list of the replay does not follow the tools.
DangerousOfOld == {"system.reboot_request", "storage.format"}

\* Listed by name in the replay: the registry and its risks are not asked.
Dangerous == {"process.kill_request", "system.reboot_request", "storage.format"}

\* What register_default_tools registers: one tool needs a confirmation.
ASSUME RegistryAssumption ==
  \A tool \in Registered : NeedsConfirmation(tool) => tool = "process.kill_request"

Places(records, kind) == {i \in DOMAIN records : records[i].kind = kind}

WouldInvoke(records) ==
  {records[i].call : i \in {j \in Places(records, "tool_call") :
                              records[j].call.tool \in Dangerous}}

AskedFor(records) ==
  {i \in Places(records, "policy_decision") : records[i].note = "ask_user"}

\* The last diagnosis, else the first text of the model, else none: 0.
Summary(records) ==
  LET told == Places(records, "diagnose_result")
      said == Places(records, "assistant_message")
  IN IF told # {} THEN CHOOSE i \in told : \A j \in told : j <= i
     ELSE IF said # {} THEN CHOOSE i \in said : \A j \in said : i <= j
     ELSE 0

\* A confirmation stays pending in the report when it has been answered.
Report(records) ==
  [steps |-> [i \in DOMAIN records |->
     [kind |-> records[i].kind,
      side_effect |-> records[i].kind = "tool_call" /\ records[i].call.tool \in Dangerous]],
   side_effects |-> WouldInvoke(records),
   not_executed |-> AskedFor(records),
   summary |-> Summary(records),
   pending |-> Places(records, "confirmation_request") # {}]

\* The call a request waits for a confirmation of.
PendingCall(r) == IF pc[r] = "pending" THEN {LastRecord(r).call} ELSE {}

\* Confirmations of that call, with the request's correlation_id.
AnswersTo(r) == {c \in Confirm : trail[c] # <<>> /\ trail[c][1].call \in PendingCall(r)}

Risky(calls) == {calls[i] : i \in {j \in DOMAIN calls : NeedsConfirmation(calls[j].tool)}}

\* "Dangerous calls are listed under side_effects_avoided" (docs/appliance.md):
\* of a request and the confirmation that answers it, the replay names every
\* call that needed a confirmation and ran, under a grant or confirmed, and the
\* step it stands for; what it says was not executed by the request itself was
\* not; it tells of a pending confirmation if the request asked for one, and
\* of the diagnosis if there is one.
ReplayTruthful ==
  \A r \in Request :
    LET own == Report(trail[r])
    IN /\ Risky(ran[r]) \subseteq own.side_effects
       /\ \A call \in Risky(ran[r]) :
            \E i \in DOMAIN own.steps : own.steps[i].side_effect /\ trail[r][i].call = call
       /\ \A i \in own.not_executed : \A j \in ResultsOnRecord(r) : j < i
       /\ pc[r] \in {"ok", "pending"} =>
            /\ own.pending = (pc[r] = "pending")
            /\ pc[r] = "ok" => own.summary = Len(trail[r])
       /\ \A c \in AnswersTo(r) :
            LET both == Report(trail[r] \o trail[c])
            IN both.pending /\ Risky(ran[c]) \subseteq both.side_effects
=============================================================================
