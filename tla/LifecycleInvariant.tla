-------------------------- MODULE LifecycleInvariant --------------------------
(***************************************************************************)
(* Why DesktopLifecycle is safe: what each gate holder, thread and tree    *)
(* may assume of the others.  The conjunctions below are inductive         *)
(* (LifecycleControlProofs, LifecycleTreeProofs).                          *)
(***************************************************************************)
EXTENDS DesktopLifecycle

Creating == {"spawned", "discarding"}
BeforeWaiting == {"gate", "spawned", "publishing"}
Watching == {"probing", "announcing", "monitoring"}
Failing == {"clearing", "failing", "cleanupFailing"}
RetryHolding == {"taken", "stopping", "restarting", "starting", "failing"}
RetryBusy == RetryHolding \cup {"cleanup"}

Untouched == \A g \in Generations : attempt[g] = "none"
NoLiveTree == \A g \in Generations : ~TreeLive(g)

\* lifecycle_gate: whoever is inside is the one gateHolder names.
GateDiscipline ==
    /\ \A g \in Generations : attempt[g] \in Creating => gateHolder = "attempt"
    /\ \A g, h \in Generations :
           attempt[g] \in Creating /\ attempt[h] \in Creating => g = h
    /\ retry \in RetryHolding => gateHolder = "retry"
    /\ leaving # None => gateHolder = "leaving"
    /\ shutdown \in {"taken", "stopping"} => gateHolder = "shutdown"

\* The Retry thread: it works on a generation that has no attempt yet; that of a
\* Retry that failed never has one, hence no Host to take back.
RetryCoherent ==
    /\ IF retry \in {"taken", "stopping"} THEN retryCli \in Generations ELSE retryCli = None
    /\ retry = "requested" => retrying
    /\ retry # "idle" => ~Untouched
    /\ retry \in RetryHolding \ {"failing"} => slot = None
    /\ retry \in RetryBusy =>
           /\ snapshot = "Stopping"
           /\ cleanupGeneration \in Generations
           /\ ~shuttingDown =>
                  cleanupGeneration = generation /\ attempt[generation] = "none"
    /\ leaving # None =>
           leaving <= generation /\ attempt[leaving] = "none" /\ hostGeneration # leaving

\* The shutdown thread: once it is past the gate the slot stays empty, and no
\* Retry is left that could fill it.
ShutdownCoherent ==
    /\ shuttingDown <=> shutdown # "none"
    /\ IF shutdown \in {"taken", "stopping"}
       THEN shutdownCli \in Generations ELSE shutdownCli = None
    /\ NothingStoredAfterShutdownTook
    /\ shutdown \in {"reclaimed", "cleanupFailed"} => retry \notin {"taken", "stopping"}
    /\ exit = "ok" => shutdown = "reclaimed"
    /\ ~shuttingDown =>
           \A g \in Generations : attempt[g] \notin {"discarding", "leaked"}

\* An attempt exists only for an opened generation; a CLI, a stop request or a
\* classified exit only for a generation that has an attempt.
AttemptCoherent ==
    /\ \A g \in Generations : attempt[g] = "none" =>
           /\ slot # g /\ retryCli # g /\ shutdownCli # g
           /\ cli[g] = "none" /\ ~requested[g] /\ reason[g] = "none"
    /\ \A g \in Generations : g > generation => attempt[g] = "none"
    /\ Untouched => snapshot \in {"Starting", "Stopping"}

\* Until shutdown, the published state says how far the current attempt is, and
\* no exit of its CLI has been excused.
StateMatchesAttempt ==
    ~shuttingDown =>
           /\ \A g \in Generations : attempt[g] \in BeforeWaiting =>
                  g = generation /\ snapshot = "Starting"
           /\ \A g \in Generations : attempt[g] \in {"gate", "spawned"} => slot = None
           /\ snapshot = "Starting" /\ generation # 0 =>
                  attempt[generation] \in BeforeWaiting \cup Failing
           /\ snapshot \in Waiting \cup {"Ready"} =>
                  attempt[generation] \in Watching \cup {"aborting", "stopping"} \cup Failing
           /\ snapshot = "Failed" => attempt[generation] \in {"none", "done"}
           /\ snapshot = "Stopping" => retry \in RetryBusy
           /\ generation = 0 => snapshot = "Starting"
           /\ generation # 0 /\ attempt[generation] \in BeforeWaiting \cup Watching =>
                  ~requested[generation] /\ reason[generation] \in {"none", "Unexpected"}

ControlInv ==
    /\ TypeOK
    /\ GateDiscipline
    /\ RetryCoherent
    /\ ShutdownCoherent
    /\ AttemptCoherent
    /\ StateMatchesAttempt

\* Where a new attempt may be started, and where one has failed, nothing lives, nor
\* does a tree that is being taken out of the slot.
NothingLivesBelow ==
    /\ ~shuttingDown /\ generation # 0 /\ attempt[generation] # "none" =>
           /\ \A g \in Generations : TreeLive(g) => g = generation
           /\ attempt[generation] \in {"gate", "clearing", "failing"} => NoLiveTree
    /\ ~shuttingDown /\ retry = "restarting" => NoLiveTree
    /\ retry = "starting" => NoLiveTree
    /\ \A g \in Generations : attempt[g] = "clearing" => cli[g] = "gone"

\* After the shutdown thread has been at the gate no attempt creates a CLI.
NothingCreatedAfterShutdownTook ==
    shutdown \in {"taken", "stopping", "reclaimed", "cleanupFailed"} =>
        \A g \in Generations : attempt[g] \notin Creating

TreeInv ==
    /\ SingleHost
    /\ LiveTreeHasOwner
    /\ NothingLivesBelow
    /\ FailedIsReclaimed
    /\ NothingCreatedAfterShutdownTook
-----------------------------------------------------------------------------
(* Pages: the page of a Host comes at most once, as a task in mainQueue, then *)
(* as mainTask, as the last of the pending navigations and as the committed   *)
(* page; a failure that would bring the startup page takes hostGeneration     *)
(* back first.                                                                *)

\* The Host of g has not been announced.
Early == {"gate", "spawned", "discarding", "publishing", "probing", "announcing"}

Unannounced(g) ==
    /\ \A i \in 1..Len(mainQueue) : mainQueue[i].gen # g
    /\ \A i \in 1..Len(pending) : pending[i].url # g
    /\ mainTask.gen # g /\ page # g /\ hostGeneration # g

PagesOpened ==
    /\ \A i \in 1..Len(mainQueue) : mainQueue[i].gen <= generation
    /\ \A i \in 1..Len(pending) : pending[i].url <= generation
    /\ mainTask # NoTask => mainTask.gen = generation
    /\ page <= generation

TokensCoherent ==
    /\ hostGeneration \in {None, generation}
    /\ navigationGeneration \in {None, hostGeneration}
    /\ loadGeneration \in {None, navigationGeneration}
    /\ mainTask.to = "host" => loadGeneration = None

NotQueued == \A i \in 1..Len(mainQueue) : mainQueue[i].gen # generation

QueuedOnce ==
    \A i, j \in 1..Len(mainQueue) :
        mainQueue[i].gen = generation /\ mainQueue[j].gen = generation => i = j

HostPageComesOnce ==
    hostGeneration # None =>
        /\ \A i \in 1..Len(mainQueue) :
               mainQueue[i].gen = generation => mainQueue[i].to = "host"
        /\ mainTask.to # "startup"
        /\ QueuedOnce
        /\ mainTask # NoTask => NotQueued
        /\ \A i \in 1..Len(pending) : pending[i].url = generation =>
               i = Len(pending) /\ NotQueued /\ mainTask = NoTask
        /\ page = generation => pending = <<>> /\ NotQueued /\ mainTask = NoTask

ReadyInv ==
    /\ ReadyShowsCurrentHost
    /\ snapshot = "Ready" => generation # 0

PageInv ==
    /\ PagesOpened
    /\ TokensCoherent
    /\ \A g \in Generations : attempt[g] \in Early => Unannounced(g)
    /\ HostPageComesOnce
    /\ ReadyInv
=============================================================================
