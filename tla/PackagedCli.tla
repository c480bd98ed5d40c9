------------------------------ MODULE PackagedCli ------------------------------
(***************************************************************************)
(* The CLI that the desktop ships: the closure it is packaged in, the Node *)
(* that runs it, the probe that tries it at the fixed port, and the        *)
(* supervisor that owns it when the desktop runs.  They do not run at the  *)
(* same time; a behaviour follows one of them.                             *)
(***************************************************************************)
EXTENDS LockedJobs, RuntimeClosure, CliSupervisor

VARIABLE program

packagedVars == <<vars, closureVars, supervisorVars, program>>

\* Of what is not followed, one initial state stands for all.
PackagedCliInit ==
    /\ program \in {"script", "build", "desktop"}
    /\ Init /\ ClosureInit /\ SupervisorInit
    /\ program # "script" => job = "node" /\ destination = "missing" /\ cache = "missing"
    /\ program # "build" => inputs = CHOOSE v \in Versions : TRUE
    /\ program # "desktop" => system = "unix"

RunsScript ==
    /\ program = "script" /\ Next
    /\ UNCHANGED <<closureVars, supervisorVars, program>>

Builds ==
    /\ program = "build" /\ ClosureNext
    /\ UNCHANGED <<vars, supervisorVars, program>>

RunsDesktop ==
    /\ program = "desktop" /\ SupervisorNext
    /\ UNCHANGED <<vars, closureVars, program>>

PackagedCliNext == RunsScript \/ Builds \/ RunsDesktop

PackagedCliSpec == PackagedCliInit /\ [][PackagedCliNext]_packagedVars
=============================================================================
