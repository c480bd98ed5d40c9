------------------------ MODULE MCDesktopLifecycleLive ------------------------
(***************************************************************************)
(* DesktopLifecycle under the fairness the code's scheduling justifies:    *)
(* every thread that can move does, every stop ends (both its waits have a *)
(* deadline), the main thread runs what is posted to it, the 30 second     *)
(* timer of a running poll loop fires, and the packaged startup page, a    *)
(* local asset, loads.  Nothing is assumed of the CLI, of the network, of  *)
(* the user, or of how long a Host page takes to load.                     *)
(***************************************************************************)
EXTENDS DesktopLifecycle

\* What the thread of an attempt does without waiting for the CLI or a fault.
AttemptProgress(g) ==
    \/ SpawnCli(g) \/ SpawnFails(g) \/ SpawnCancelled(g)
    \/ StoreCli(g) \/ DiscardCli(g) \/ DiscardEnds(g)
    \/ PublishWaiting(g) \/ ProlongStartup(g)
    \/ SetReadyHostOrigin(g) \/ AnnounceDeadCli(g)
    \/ ObserveExit(g) \/ Superseded(g)
    \/ AbortBegin(g) \/ AbortEnds(g) \/ ClearProcess(g) \/ ReportFailure(g)

\* The attempts whose thread exists and is not over.
RunningAttempts == {g \in Generations : attempt[g] \notin {"none", "done", "leaked"}}

\* A load in front of another navigation ends one way or the other.
OvertakenLoadEnds ==
    /\ pending # <<>>
    /\ Len(pending) > 1 \/ Head(pending).url = None
    /\ StartPage \/ DropNavigation

\* No step here can be repeated for ever (each consumes a generation, a posted
\* task, a navigation or a program point), so fairness of the union is fairness of
\* each: a behaviour stops only where none of them is enabled.
Progress ==
    /\ AppRuns
    /\ \/ Setup
       \/ \E g \in RunningAttempts : AttemptProgress(g)
       \/ (retry # "idle" \/ gateHolder = "leaving") /\ RetryStep
       \/ shutdown # "none" /\ ShutdownStep
       \/ (mainQueue # <<>> \/ mainTask # NoTask) /\ MainStep
       \/ pending # <<>> /\ (DecideNavigation \/ OvertakenLoadEnds)
       \/ page = None /\ FinishPage

FairSpec == Spec /\ WF_vars(Progress)

(* A shutdown that was asked for ends the process: no gate, stop lock or      *)
(* thread it waits for is held for ever.                                      *)
ShutdownCompletes == []<>(~shuttingDown \/ exit # "none")

(* A Retry in progress ends, in a new attempt or in a published failure, and  *)
(* its thread leaves lifecycle_gate.                                          *)
RetryCompletes == []<>((retry = "idle" /\ gateHolder # "leaving") \/ exit # "none")

(* Starting is left: the attempt waits for the gate only as long as the stop  *)
(* in front of it takes, and every outcome of the spawn is published.         *)
StartingResolves == []<>(snapshot # "Starting" \/ shuttingDown)

(* The user is told when the leader of the current generation is gone, in     *)
(* the waiting states as in Ready (wait_for_readiness, the monitor loop).     *)
ExitIsReported ==
    []<>(\A g \in Generations : IsCurrent(g) /\ LeaderExited(g) => snapshot = "Failed")

(* A failed attempt brings back the startup page, where Retry is, over a Host *)
(* page being loaded or already shown (fail_attempt, navigate_to_startup).    *)
FailureShowsStartupPage ==
    []<>(snapshot = "Failed" => page = None \/ shuttingDown)

(* docs/tauri-migration.md:34: Prolonged startup exposes Retry.  Asked here   *)
(* only while this generation's Host has not become ready: the page in the    *)
(* window should then be the startup page, the only one that offers Retry.    *)
ProlongedOffersRetry ==
    []<>(snapshot = "ProlongedStartup" /\ hostGeneration = None
             => page = None \/ shuttingDown)
=============================================================================
