-------------------------------- MODULE OwnedCli --------------------------------
(***************************************************************************)
(* What the desktop lifecycle relies on about one CLI: a tree that runs is *)
(* handed to whoever asked for it, an exit has one reason for good, and a  *)
(* stop that reports success leaves nothing of the tree.  These are the    *)
(* changes that DesktopLifecycle makes to cli, requested and reason.       *)
(* CliSupervisor implements it (ImplementsOwnedCli).                       *)
(***************************************************************************)
VARIABLES
    tree,      \* absent, running, lingering without its leader, gone
    handed,    \* what the spawn has returned: pending, cli, nothing
    reason,    \* of the leader's exit, once somebody has looked
    stopped    \* a stop has reported success

vars == <<tree, handed, reason, stopped>>

Reasons == {"Requested", "Unexpected", "StaleGeneration"}

Init ==
    /\ tree = "absent"
    /\ handed = "pending"
    /\ reason = "none"
    /\ stopped = FALSE

Create ==
    /\ handed = "pending" /\ tree = "absent"
    /\ tree' = "running"
    /\ handed' \in {"pending", "cli"}
    /\ UNCHANGED <<reason, stopped>>

HandOver ==
    /\ handed = "pending" /\ tree # "absent"
    /\ handed' = "cli"
    /\ UNCHANGED <<tree, reason, stopped>>

\* Nothing that the spawn has left behind has ever run.
SpawnFails ==
    /\ handed = "pending" /\ tree = "absent"
    /\ handed' = "nothing"
    /\ UNCHANGED <<tree, reason, stopped>>

LeaderExits ==
    /\ tree = "running"
    /\ tree' \in {"lingering", "gone"}
    /\ UNCHANGED <<handed, reason, stopped>>

DescendantsExit ==
    /\ tree = "lingering"
    /\ tree' = "gone"
    /\ UNCHANGED <<handed, reason, stopped>>

Classify ==
    /\ tree \in {"lingering", "gone"}
    /\ reason = "none" /\ reason' \in Reasons
    /\ UNCHANGED <<tree, handed, stopped>>

StopSucceeds ==
    /\ handed = "cli" /\ tree = "gone"
    /\ reason' \in IF reason = "none" THEN Reasons ELSE {reason}
    /\ stopped' = TRUE
    /\ UNCHANGED <<tree, handed>>

Next ==
    \/ Create \/ HandOver \/ SpawnFails
    \/ LeaderExits \/ DescendantsExit \/ Classify \/ StopSucceeds

Spec == Init /\ [][Next]_vars
=============================================================================
