------------------------------ MODULE TlsGate ------------------------------
(***************************************************************************)
(* The TLS gate of the native update smoke: the runner trusts a temporary  *)
(* certificate authority, a root helper listens on port 443, and the       *)
(* update hostname is routed to it, so that a published Desktop asks the   *)
(* helper for the Stable manifest.  The helper holds that one request      *)
(* until the routing is restored, then answers it with the candidate.      *)
(*                                                                         *)
(* update-smoke-tls-gate.mjs (the order and the finally block),            *)
(* update-smoke-tls-system-adapter.mjs (hosts file, trust store, helper    *)
(* process) and update-smoke-tls-gate-server.mjs (the helper).             *)
(***************************************************************************)
EXTENDS Naturals, Sequences

VARIABLES
    gate,      \* the locals of withUpdateSmokeTlsGate
    hosts,     \* the runner's hosts file
    trust,     \* what the system's trust store holds of the temporary CA
    saved,     \* originalHosts: the adapter holds the bytes to restore
    helper,    \* the helper process
    commands,  \* its stdin: commands sent and not yet read
    events,    \* its stdout: events emitted and not yet read
    observed   \* the events read that nobody has waited for yet

gateVars == <<gate, hosts, trust, saved, helper, commands, events, observed>>
systemVars == <<hosts, trust, saved>>
helperVars == <<helper, commands, events, observed>>

GateSteps == {"idle", "identity", "trust", "serve", "ready", "abort", "route", "open",
              "restore", "close", "closing", "untrust", "remove", "ended"}
Events == {"ready", "request", "released"}

\* A hosts file may already name the update hostname before the smoke starts.
GateInit ==
    /\ gate = [at |-> "idle", routing |-> FALSE, trusted |-> FALSE, serving |-> FALSE,
               released |-> FALSE, failed |-> FALSE, unclean |-> FALSE]
    /\ hosts \in {"original", "mapped"}
    /\ trust = "absent"
    /\ saved = FALSE
    /\ helper = [life |-> "none", holds |-> FALSE, answered |-> FALSE, code |-> 0]
    /\ commands = << >>
    /\ events = << >>
    /\ observed = {}

\* What a bounded system command may do: succeed, fail without effect, or fail
\* (a timeout, an output beyond the bound) after it took effect.
CommandOutcomes ==
    {[done |-> TRUE, ok |-> TRUE], [done |-> FALSE, ok |-> FALSE], [done |-> TRUE, ok |-> FALSE]}

At(step) == gate.at = step
GoTo(step) == gate' = [gate EXCEPT !.at = step]
\* An exception in the try block: the finally block begins.
Throw == gate' = [gate EXCEPT !.at = "restore", !.failed = TRUE]

-----------------------------------------------------------------------------
(* The helper process. *)

StartGateChild ==
    /\ helper' = [helper EXCEPT !.life = "booting"]
    /\ UNCHANGED <<commands, events, observed>>

\* Port 443 is taken exclusively; a port in use, or files that cannot be read,
\* end the helper with a nonzero code.
HelperListens ==
    /\ helper.life = "booting"
    /\ \/ /\ helper' = [helper EXCEPT !.life = "listening"]
          /\ events' = Append(events, "ready")
       \/ /\ helper' = [helper EXCEPT !.life = "dead", !.code = 1]
          /\ UNCHANGED events
    /\ UNCHANGED <<gate, systemVars, commands, observed>>

HelperIsFree == helper.life = "listening" /\ ~helper.holds /\ ~helper.answered

\* A GET of the exact path: the first one is held, any other gets 409.
HoldRequest ==
    /\ helper' = IF HelperIsFree THEN [helper EXCEPT !.holds = TRUE] ELSE helper
    /\ events' = IF HelperIsFree THEN Append(events, "request") ELSE events

\* A release is out of order unless a request is held: the exception ends the helper.
HelperReleases ==
    /\ helper.life = "listening" /\ commands # << >> /\ Head(commands) = "release"
    /\ commands' = Tail(commands)
    /\ IF helper.holds /\ ~helper.answered
       THEN /\ helper' = [helper EXCEPT !.holds = FALSE, !.answered = TRUE]
            /\ events' = Append(events, "released")
       ELSE /\ helper' = [helper EXCEPT !.life = "dead", !.code = 1]
            /\ UNCHANGED events

HelperCloses ==
    /\ helper.life = "listening" /\ commands # << >> /\ Head(commands) = "close"
    /\ commands' = Tail(commands)
    /\ helper' = [helper EXCEPT !.life = "dead", !.holds = FALSE]
    /\ UNCHANGED <<gate, systemVars, events, observed>>

HelperCrashes ==
    /\ helper.life \in {"booting", "listening"}
    /\ helper' = [helper EXCEPT !.life = "dead", !.holds = FALSE, !.code = 1]
    /\ UNCHANGED <<gate, systemVars, commands, events, observed>>

ObserveEvent ==
    /\ events # << >>
    /\ events' = Tail(events)
    /\ observed' = observed \cup {Head(events)}
    /\ UNCHANGED <<gate, systemVars, helper, commands>>

\* waitFor: an event already observed is taken at once, a later one when it is
\* read; a helper that exits, or a wait beyond its deadline, rejects the wait.
Await(event) ==
    /\ event \in observed
    /\ observed' = observed \ {event}

\* The helper's process group is killed; the kill may leave a member behind.
KillHelper ==
    \/ helper' = [helper EXCEPT !.life = "dead", !.holds = FALSE,
                                !.code = IF helper.life = "dead" THEN @ ELSE 1]
    \/ helper.life # "dead" /\ UNCHANGED helper

-----------------------------------------------------------------------------
(* Setting the gate up. *)

ValidateGateConfig ==
    /\ At("idle")
    /\ GoTo("identity")
    /\ UNCHANGED <<systemVars, helperVars>>

CreateTlsIdentity ==
    /\ At("identity")
    /\ GoTo("trust") \/ Throw
    /\ UNCHANGED <<systemVars, helperVars>>

\* A failed installation is undone; a failure to undo it is not reported.
InstallCertificateAuthority ==
    /\ At("trust")
    /\ \E install \in CommandOutcomes, undo \in CommandOutcomes :
        IF install.ok
        THEN /\ trust' = "installed"
             /\ gate' = [gate EXCEPT !.at = "serve", !.trusted = TRUE]
        ELSE /\ trust' = IF install.done /\ ~undo.done THEN "installed" ELSE trust
             /\ Throw
    /\ UNCHANGED <<hosts, saved, helperVars>>

StartHttpsGate ==
    /\ At("serve")
    /\ GoTo("ready")
    /\ StartGateChild
    /\ UNCHANGED systemVars

HelperIsReady ==
    /\ At("ready")
    /\ Await("ready")
    /\ gate' = [gate EXCEPT !.at = "route", !.serving = TRUE]
    /\ UNCHANGED <<systemVars, helper, commands, events>>

HelperIsNotReady ==
    /\ At("ready")
    /\ GoTo("abort")
    /\ UNCHANGED <<systemVars, helperVars>>

\* stop(false) of a helper that never became ready.
AbortHelper ==
    /\ At("abort")
    /\ KillHelper
    /\ Throw
    /\ UNCHANGED <<systemVars, commands, events, observed>>

\* A hosts file that names the hostname already is refused.
AcceptsMapping(file) == file = "original"

\* The original bytes are kept before the file is written, and routingInstalled
\* is set after: a write that took effect and failed leaves the file routed.
RouteHostname ==
    /\ At("route")
    /\ IF AcceptsMapping(hosts)
       THEN \E write \in CommandOutcomes :
              /\ hosts' = IF write.done THEN "routed" ELSE hosts
              /\ saved' = TRUE
              /\ IF write.ok THEN gate' = [gate EXCEPT !.at = "open", !.routing = TRUE] ELSE Throw
       ELSE saved' = TRUE /\ Throw /\ UNCHANGED hosts
    /\ UNCHANGED <<trust, helperVars>>

-----------------------------------------------------------------------------
(* What the gate offers the action it runs. *)

\* The file is read again and compared: the restoration counts only when the
\* original bytes are back.
RestoreHostname(write) ==
    /\ hosts' = IF write.done THEN "original" ELSE hosts
    /\ saved' = ~(write.ok /\ write.done)

RestoreRouting(write) ==
    IF gate.routing
    THEN /\ RestoreHostname(write)
         /\ IF write.ok THEN gate' = [gate EXCEPT !.routing = FALSE] ELSE Throw
    ELSE UNCHANGED <<gate, hosts, saved>>

MayRelease == ~gate.routing /\ ~gate.released

SendRelease ==
    /\ MayRelease
    /\ commands' = Append(commands, "release")
    /\ UNCHANGED <<helper, events, observed>>

ManifestReleased ==
    /\ Await("released")
    /\ gate' = [gate EXCEPT !.released = TRUE]
    /\ UNCHANGED <<helper, commands, events>>

-----------------------------------------------------------------------------
(* The finally block: every part is tried, whatever the others did. *)

CleanRouting ==
    /\ At("restore")
    /\ \/ /\ gate.routing
          /\ \E write \in CommandOutcomes :
               /\ RestoreHostname(write)
               /\ gate' = [gate EXCEPT !.at = "close", !.unclean = @ \/ ~write.ok]
       \/ /\ ~gate.routing
          /\ GoTo("close")
          /\ UNCHANGED <<hosts, saved>>
    /\ UNCHANGED <<trust, helperVars>>

\* close(): the control channel first.
CloseHelper ==
    /\ At("close")
    /\ IF gate.serving
       THEN /\ GoTo("closing")
            /\ commands' = IF helper.life = "dead" THEN commands ELSE Append(commands, "close")
       ELSE GoTo("untrust") /\ UNCHANGED commands
    /\ UNCHANGED <<systemVars, helper, events, observed>>

\* A helper that exited with a nonzero code is a cleanup failure.
HelperStopped ==
    /\ At("closing")
    /\ helper.life = "dead"
    /\ gate' = [gate EXCEPT !.at = "untrust", !.unclean = @ \/ helper.code # 0]
    /\ UNCHANGED <<systemVars, helperVars>>

\* The channel did not end it in time: its process group is told to end, which
\* a helper that listens may heed with code 0, and killed.
ForceHelper ==
    /\ At("closing")
    /\ helper.life # "dead"
    /\ \/ /\ helper.life = "listening"
          /\ helper' = [helper EXCEPT !.life = "dead", !.holds = FALSE]
          /\ GoTo("untrust")
       \/ /\ KillHelper
          /\ gate' = [gate EXCEPT !.at = "untrust", !.unclean = TRUE]
    /\ UNCHANGED <<systemVars, commands, events, observed>>

\* mutant of RemoveCertificateAuthority: a removal that fails is not reported.
RemoveCertificateAuthorityQuietly ==
    /\ At("untrust")
    /\ GoTo("remove")
    /\ \E remove \in CommandOutcomes :
        trust' = IF gate.trusted /\ remove.done THEN "absent" ELSE trust
    /\ UNCHANGED <<hosts, saved, helperVars>>

RemoveCertificateAuthority ==
    /\ At("untrust")
    /\ \/ /\ gate.trusted
          /\ \E remove \in CommandOutcomes :
               /\ trust' = IF remove.done THEN "absent" ELSE trust
               /\ gate' = [gate EXCEPT !.at = "remove", !.unclean = @ \/ ~remove.ok]
       \/ ~gate.trusted /\ GoTo("remove") /\ UNCHANGED trust
    /\ UNCHANGED <<hosts, saved, helperVars>>

RemoveDirectory ==
    /\ At("remove")
    /\ \E gone \in BOOLEAN : gate' = [gate EXCEPT !.at = "ended", !.unclean = @ \/ ~gone]
    /\ UNCHANGED <<systemVars, helperVars>>

GateStep ==
    \/ CreateTlsIdentity \/ InstallCertificateAuthority \/ StartHttpsGate
    \/ HelperIsReady \/ HelperIsNotReady \/ AbortHelper \/ RouteHostname
    \/ CleanRouting \/ CloseHelper \/ HelperStopped \/ ForceHelper
    \/ RemoveCertificateAuthority \/ RemoveDirectory

HelperStep == HelperListens \/ HelperCloses \/ HelperCrashes \/ ObserveEvent

GateTypeOK ==
    /\ gate \in [at : GateSteps, routing : BOOLEAN, trusted : BOOLEAN, serving : BOOLEAN,
                 released : BOOLEAN, failed : BOOLEAN, unclean : BOOLEAN]
    /\ hosts \in {"original", "mapped", "routed"}
    /\ trust \in {"absent", "installed"}
    /\ saved \in BOOLEAN
    /\ helper \in [life : {"none", "booting", "listening", "dead"}, holds : BOOLEAN,
                   answered : BOOLEAN, code : {0, 1}]
    /\ commands \in Seq({"release", "close"})
    /\ events \in Seq(Events)
    /\ observed \subseteq Events
=============================================================================
