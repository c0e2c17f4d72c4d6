------------------------------ MODULE ABSlots -------------------------------
(***************************************************************************)
(* The A/B slots of the appliance (deploy/ab, systemd units, ab_status.rs).*)
(* Each script does several steps on the files; the power may be cut       *)
(* between any two.  The service runs the binary that install.sh put into  *)
(* /usr/local/bin, whatever slot is current.                               *)
(***************************************************************************)
EXTENDS Naturals, FiniteSets

CONSTANTS
  Build,    \* binaries that may be installed
  Working,  \* those of them that become healthy when started
  Shipped,  \* the one of them in /usr/local/bin
  None, Torn  \* a slot without binary, with half of one

Slot == {"A", "B"}

VARIABLES
  binary,      \* <slot>/bin/saaios-runtime
  bootOk,      \* the slots with a BOOT_OK file
  current, currentSlot,  \* the link and the file that name the active slot
  running,     \* the binary of the service, or None
  installing, switching, marking,  \* where each script is
  started      \* binaries that were started and became healthy (history)

files == <<binary, bootOk, current, currentSlot>>
scripts == <<installing, switching, marking>>
vars == <<files, running, scripts, started>>

Idle == [step |-> "idle"]

Init ==
  /\ binary = [s \in Slot |-> IF s = "A" THEN Shipped ELSE None]
  /\ bootOk = {} /\ current = "A" /\ currentSlot = "A"
  /\ running = Shipped
  /\ installing = Idle /\ switching = Idle /\ marking = Idle
  /\ started = {Shipped} \cap Working

Healthy == running \in Working

\* read_current_slot and boot-ok.sh alike: the link, else the file.
ActiveSlot == IF current # None THEN current ELSE currentSlot

\* systemd starts ExecStart=/usr/local/bin/saaios-runtime.
StartService ==
  /\ running' = Shipped
  /\ started' = started \cup ({Shipped} \cap Working)
-----------------------------------------------------------------------------
(* install-slot.sh: the binary is written, then BOOT_OK removed. *)

InstallStart(s, b) ==
  /\ installing = Idle
  /\ installing' = [step |-> "copied", slot |-> s, build |-> b]
  /\ binary' = [binary EXCEPT ![s] = Torn]
  /\ UNCHANGED <<bootOk, current, currentSlot, running, switching, marking, started>>

InstallCopied ==
  /\ installing.step = "copied"
  /\ binary' = [binary EXCEPT ![installing.slot] = installing.build]
  /\ installing' = [installing EXCEPT !.step = "clearing"]
  /\ UNCHANGED <<bootOk, current, currentSlot, running, switching, marking, started>>

InstallClears ==
  /\ installing.step = "clearing"
  /\ bootOk' = bootOk \ {installing.slot}
  /\ installing' = Idle
  /\ UNCHANGED <<binary, current, currentSlot, running, switching, marking, started>>
-----------------------------------------------------------------------------
(* switch.sh: check, link, file, BOOT_OK, restart.  A half-copied binary is  *)
(* not executable yet.                                                       *)

SwitchStart(s, force) ==
  /\ switching = Idle
  /\ binary[s] \in Build
  /\ current \in {None, s} \/ force \/ current \in bootOk
  /\ switching' = [step |-> "linking", slot |-> s]
  /\ UNCHANGED <<files, running, installing, marking, started>>

SwitchStep(from, to) ==
  /\ switching.step = from
  /\ switching' = IF to = "idle" THEN Idle ELSE [switching EXCEPT !.step = to]

SwitchLinks ==
  /\ SwitchStep("linking", "naming")
  /\ current' = switching.slot
  /\ UNCHANGED <<binary, bootOk, currentSlot, running, installing, marking, started>>

SwitchNames ==
  /\ SwitchStep("naming", "clearing")
  /\ currentSlot' = switching.slot
  /\ UNCHANGED <<binary, bootOk, current, running, installing, marking, started>>

SwitchClears ==
  /\ SwitchStep("clearing", "restarting")
  /\ bootOk' = bootOk \ {switching.slot}
  /\ UNCHANGED <<binary, current, currentSlot, running, installing, marking, started>>

SwitchRestarts ==
  /\ SwitchStep("restarting", "idle")
  /\ StartService
  /\ UNCHANGED <<files, installing, marking>>
-----------------------------------------------------------------------------
(* boot-ok.sh: the slot is read first, then health is waited for. *)

MarkStart ==
  /\ marking = Idle
  /\ marking' = [step |-> "waiting", slot |-> ActiveSlot]
  /\ UNCHANGED <<files, running, installing, switching, started>>

MarkWrites ==
  /\ marking.step = "waiting" /\ Healthy
  /\ bootOk' = bootOk \cup {marking.slot}
  /\ marking' = Idle
  /\ UNCHANGED <<binary, current, currentSlot, running, installing, switching, started>>

MarkGivesUp ==
  /\ marking.step = "waiting"
  /\ marking' = Idle
  /\ UNCHANGED <<files, running, installing, switching, started>>

\* The power is cut and comes back: scripts are where they were for good, the
\* service is started and the oneshot boot-ok.sh with it.
PowerCut ==
  /\ installing' = Idle /\ switching' = Idle
  /\ marking' = [step |-> "waiting", slot |-> ActiveSlot]
  /\ StartService
  /\ UNCHANGED files

Next ==
  \/ \E s \in Slot : (\E b \in Build : InstallStart(s, b)) \/ \E f \in BOOLEAN : SwitchStart(s, f)
  \/ InstallCopied \/ InstallClears
  \/ SwitchLinks \/ SwitchNames \/ SwitchClears \/ SwitchRestarts
  \/ MarkStart \/ MarkWrites \/ MarkGivesUp
  \/ PowerCut

Spec == Init /\ [][Next]_vars
-----------------------------------------------------------------------------
\* What the status reports of a slot (read_ab_status).
Status(s) ==
  [active |-> ActiveSlot = s, binary_present |-> binary[s] # None, boot_ok |-> s \in bootOk]

\* BOOT_OK is for "the active A/B slot ... after a healthy start"
\* (boot-ok.sh:2), and a "new install clears" it (install-slot.sh:29): while
\* nothing is being installed, a slot reported as boot_ok holds a binary that
\* has been started and was healthy.
BootOkMeansHealthyStart ==
  installing = Idle => \A s \in Slot : Status(s).boot_ok => binary[s] \in started
=============================================================================
