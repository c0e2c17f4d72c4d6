----------------------------- MODULE MCAiRuntime ----------------------------
(***************************************************************************)
(* Small instances of the request orchestrator for TLC.  Pids are narrowed *)
(* modulo 4 instead of 2^32; pid 5 stands for the pids above 2^32 whose    *)
(* low bits are those of init, pid 3 for the runtime's own.                *)
(***************************************************************************)
EXTENDS Replay, TLC

MCToolSpec ==
  ("system.metrics" :> [risk |-> "low", requires_confirmation |-> FALSE]) @@
  ("system.disk" :> [risk |-> "low", requires_confirmation |-> FALSE]) @@
  ("process.kill_request" :> [risk |-> "high", requires_confirmation |-> TRUE])

MCYielding == {"system.metrics"}

CallTo(tool) == [tool |-> tool, pid |-> 0, phrase |-> "none"]
Kill(pid) == [CallTo("process.kill_request") EXCEPT !.pid = pid]

Metrics == CallTo("system.metrics")
Disk == CallTo("system.disk")
PowerOff == CallTo("system.poweroff")
Suspicious == [Kill(2) EXCEPT !.phrase = "policy_only"]

Says(calls) == [text |-> TRUE, calls |-> calls]
Calls(calls) == [text |-> FALSE, calls |-> calls]

\* Authority: every kind of verdict, for requests and for confirmations.
AuthorityCall ==
  {Metrics, Kill(1), Kill(2), Kill(5), PowerOff, Suspicious}
AuthorityReply ==
  {Says(<<>>), Calls(<<Metrics>>), Calls(<<Kill(2)>>), Calls(<<Kill(5)>>),
   Calls(<<Kill(1), Kill(2)>>), Says(<<PowerOff, Metrics>>)}

\* Chats: what matters is who reads and writes a session when.
ChatCall == {Metrics, Disk, Kill(2)}
ChatReply == {Says(<<>>), Calls(<<Disk>>), Calls(<<Kill(2)>>)}
=============================================================================
