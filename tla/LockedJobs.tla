----------------------------- MODULE LockedJobs -----------------------------
(***************************************************************************)
(* The two jobs that share the directory lock's code, each with a lock of  *)
(* its own: the installation of the official Node and the probe of the     *)
(* fixed port.  A behaviour follows the processes of one job.              *)
(***************************************************************************)
EXTENDS OfficialNode, FixedPortProbe

VARIABLE job

vars == <<lockVars, nodeVars, probeVars, job>>

Init ==
    /\ job \in {"node", "probe"}
    /\ LockInit(IF job = "node" THEN "arrive" ELSE "enter")
    /\ NodeInit /\ ProbeInit
    /\ job = "node" => platform = "posix"
    /\ job = "probe" => destination = "missing" /\ cache = "missing"

InstallsNode ==
    /\ job = "node"
    /\ \E p \in Processes :
        \/ LockStep(p) /\ UNCHANGED nodeVars
        \/ Dies(p) /\ UNCHANGED nodeVars
        \/ NodeStep(p)
    /\ UNCHANGED <<probeVars, job>>

ProbesPort ==
    /\ job = "probe"
    /\ \E p \in Processes :
        \/ LockStep(p) /\ UNCHANGED probeVars
        \/ ProbeDies(p)
        \/ ProbeStep(p)
    /\ UNCHANGED <<nodeVars, job>>
    /\ StartIsOver'

TimePasses ==
    /\ LockAges
    /\ UNCHANGED <<nodeVars, probeVars, job>>
    /\ StartIsOver'

Next == InstallsNode \/ ProbesPort \/ TimePasses

Spec == Init /\ [][Next]_vars
=============================================================================
