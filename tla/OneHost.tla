-------------------------------- MODULE OneHost --------------------------------
(***************************************************************************)
(* What the desktop lifecycle promises about the one Host it owns, without *)
(* its threads, gates, generations and pages: which states it may publish  *)
(* in which order, and how they are tied to the CLI tree that really runs. *)
(* DesktopLifecycle implements it (ImplementsOneHost).                     *)
(***************************************************************************)
CONSTANT Hosts        \* the CLI trees that may ever be created

VARIABLES
    shown,            \* the lifecycle state the user sees
    unclean,          \* the last failure shown was a failed cleanup
    trees             \* the CLI trees that are alive

vars == <<shown, unclean, trees>>

Init ==
    /\ shown = "Starting"
    /\ unclean = FALSE
    /\ trees = {}

\* A Host is only ever created where there is none.
CreateHost(h) ==
    /\ trees = {}
    /\ trees' = {h}
    /\ UNCHANGED <<shown, unclean>>

\* It ends by itself or is stopped; either way the whole tree goes.
HostEnds ==
    /\ trees' = {}
    /\ UNCHANGED <<shown, unclean>>

\* A replacement attempt is announced after the old tree is reclaimed.
Restart ==
    /\ shown = "Stopping"
    /\ trees = {}
    /\ shown' = "Starting"
    /\ UNCHANGED <<unclean, trees>>

Wait ==
    /\ shown = "Starting"
    /\ shown' = "WaitingForClient"
    /\ UNCHANGED <<unclean, trees>>

Prolong ==
    /\ shown = "WaitingForClient"
    /\ shown' = "ProlongedStartup"
    /\ UNCHANGED <<unclean, trees>>

\* Ready is said of a Host that is there.
BecomeReady ==
    /\ shown \in {"WaitingForClient", "ProlongedStartup"}
    /\ trees # {}
    /\ shown' = "Ready"
    /\ UNCHANGED <<unclean, trees>>

\* A failure leaves no Host behind, or says that it may have.
Fail ==
    /\ shown # "Failed"
    /\ shown' = "Failed"
    /\ unclean' \in BOOLEAN
    /\ unclean' \/ trees = {}
    /\ UNCHANGED trees

Stop ==
    /\ shown' = "Stopping"
    /\ UNCHANGED <<unclean, trees>>

Next ==
    \/ \E h \in Hosts : CreateHost(h)
    \/ HostEnds \/ Restart \/ Wait \/ Prolong \/ BecomeReady \/ Fail \/ Stop

Spec == Init /\ [][Next]_vars
=============================================================================
