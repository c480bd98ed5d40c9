----------------------------- MODULE UpdateRuntime -----------------------------
(***************************************************************************)
(* The running updater (app_update/tauri_adapter.rs, and the updater's     *)
(* part of the shutdown in main.rs): the controller of UpdateController,   *)
(* the staging repository through the promises of StagedSlot, the check    *)
(* and download tasks that take turns at the operation gate, the timers,   *)
(* the user's menu and buttons, the shutdown thread that may install what  *)
(* is staged, and the end of the process at any moment.                    *)
(*                                                                         *)
(* A task's last dispatch and its release of the gate are one step: only   *)
(* tasks that wait for the gate could tell them apart.                     *)
(***************************************************************************)
EXTENDS UpdateController

VARIABLES
    application,  \* the version installed on this machine
    boot,         \* how far the process has come: down, opened, reconciled, running
    repository,   \* the staging repository could be opened
    pending,      \* pending: the version of the Update the last check has found
    gate,         \* the task that holds operation_gate, and its program point
    shutdown,     \* program point of the thread that request_shutdown spawns
    held, onDisk, confirmed, lazy     \* the staging repository, see StagedSlot

Slot == INSTANCE StagedSlot WITH running <- current

slotVars == <<held, onDisk, confirmed>>
processVars == <<boot, repository, pending, gate, shutdown>>
vars == <<controllerVars, processVars, application, slotVars, lazy>>

NoTask == -1
Free == [task |-> NoTask, at |-> "free"]
Holds(task, point) == gate.task = task /\ gate.at = point
AtPoint(task, point) == [task |-> task, at |-> point]
GatePoints == {"free", "asked", "found", "discarded", "kept", "streaming", "staged", "unstaged"}

\* The shutdown thread asks has_staged twice, each time the repository first and
\* the snapshot second, and then keeps the repository locked while it installs.
ShutdownPoints == {"none", "stopping", "sawSlot", "allowed", "sawSlotAgain",
                   "locking", "verified", "installed", "done"}
Locked == shutdown \in {"verified", "installed"}

TypeOK ==
    /\ ControllerTypeOK
    /\ application \in Versions
    /\ boot \in {"down", "opened", "reconciled", "running"}
    /\ repository \in BOOLEAN
    /\ pending \in Versions \cup {None}
    /\ gate \in [task : TaskIds \cup {NoTask}, at : GatePoints]
    /\ shutdown \in ShutdownPoints
    /\ held \in Versions \cup {None}
    /\ onDisk \in (SUBSET (Versions \cup {None})) \ {{}}
    /\ confirmed \in BOOLEAN
    /\ lazy \in BOOLEAN

\* Tasks that wait for the gate or hold it.
Operations == Len(queue) + (IF gate = Free THEN 0 ELSE 1)
\* Bound: the user and the clock start something only when there is room.
Room == Operations + retryTimers < MaxActivities

Reset ==   \* what a process that ends takes with it
    /\ current' = None
    /\ phase' = Show("Idle", None, FALSE)
    /\ currentRelease' = None
    /\ stagedVersion' = None
    /\ operationActive' = FALSE
    /\ pendingRetry' = NoRetry
    /\ queue' = <<>>
    /\ retryTimers' = 0
    /\ checkArmed' = FALSE
    /\ boot' = "down"
    /\ repository' = FALSE
    /\ pending' = None
    /\ gate' = Free
    /\ shutdown' = "none"
    /\ UNCHANGED automaticDownload

Init ==
    /\ current = None
    /\ phase = Show("Idle", None, FALSE)
    /\ currentRelease = None
    /\ stagedVersion = None
    /\ operationActive = FALSE
    /\ pendingRetry = NoRetry
    /\ automaticDownload = TRUE
    /\ queue = <<>>
    /\ retryTimers = 0
    /\ checkArmed = FALSE
    /\ application = 1
    /\ boot = "down"
    /\ repository = FALSE
    /\ pending = None
    /\ gate = Free
    /\ shutdown = "none"
    /\ Slot!Init /\ lazy     \* an eager file system does nothing a lazy one may not

-----------------------------------------------------------------------------
\* TauriUpdateRuntime::new, and the Ready that setup dispatches

OpenRepository ==
    /\ boot = "down"
    /\ boot' = "opened"
    /\ \/ Slot!Open /\ repository' = TRUE
       \/ UNCHANGED <<slotVars, repository>>     \* no configuration, or open fails
    /\ UNCHANGED <<controllerVars, pending, gate, shutdown, application, lazy>>

\* The result of reconcile_current_version is not looked at.
ReconcileCurrentVersion ==
    /\ boot = "opened"
    /\ boot' = "reconciled"
    /\ IF held # None /\ application >= held
       THEN Slot!Clear \/ Slot!ClearFails
       ELSE UNCHANGED slotVars
    /\ UNCHANGED <<controllerVars, repository, pending, gate, shutdown, application, lazy>>

Start ==
    /\ boot = "reconciled"
    /\ boot' = "running"
    /\ StartWith(application, held)
    /\ UNCHANGED <<repository, pending, gate, shutdown, application, slotVars, lazy>>

-----------------------------------------------------------------------------
\* check_stable

\* Steps of a task and of the controller leave these alone.
TaskFrame == UNCHANGED <<boot, repository, shutdown, application, lazy>>
TakesGate(task) == gate = Free /\ queue # <<>> /\ Head(queue) = task /\ queue' = Tail(queue)
ReleasesGate == gate' = Free /\ UNCHANGED pending /\ TaskFrame

BeginCheck ==
    /\ TakesGate(CheckTask)
    /\ gate' = AtPoint(CheckTask, "asked")
    /\ UNCHANGED <<current, phase, releaseVars, operationActive, pendingRetry,
                   automaticDownload, retryTimers, checkArmed, pending, slotVars>>
    /\ TaskFrame

CheckFindsNothing ==
    /\ Holds(CheckTask, "asked")
    /\ NothingNewer
    /\ ReleasesGate
    /\ UNCHANGED slotVars

\* A lost connection may be tried again; a missing signature may not.
CheckFails(retryable) ==
    /\ Holds(CheckTask, "asked")
    /\ AcceptFailure("check", retryable)
    /\ ReleasesGate
    /\ UNCHANGED slotVars

\* The updater plugin reports releases newer than the application only.
CheckFinds(v) ==
    /\ Holds(CheckTask, "asked")
    /\ v > current
    /\ pending' = v
    /\ gate' = AtPoint(CheckTask, "found")
    /\ UNCHANGED <<controllerVars, slotVars>>
    /\ TaskFrame

\* prepare_checked_release: an older package makes room before the release is shown.
PrepareCheckedRelease ==
    /\ Holds(CheckTask, "found")
    /\ ~Locked
    /\ IF repository /\ held # None /\ pending > held
       THEN \/ Slot!Clear /\ gate' = AtPoint(CheckTask, "discarded")
            \/ Slot!ClearFails /\ gate' = AtPoint(CheckTask, "kept")
       ELSE /\ gate' = AtPoint(CheckTask, IF repository THEN "discarded" ELSE "kept")
            /\ UNCHANGED slotVars
    /\ UNCHANGED <<controllerVars, pending>>
    /\ TaskFrame

ReportRelease ==
    /\ \/ Holds(CheckTask, "discarded") /\ CheckSucceeded(pending)
       \/ Holds(CheckTask, "kept") /\ StagingDiscardFailed
    /\ ReleasesGate
    /\ UNCHANGED slotVars

-----------------------------------------------------------------------------
\* download_pending

\* The check that followed has replaced the Update: the task ends without a word.
SkipDownload(v) ==
    /\ TakesGate(v)
    /\ pending # v
    /\ UNCHANGED <<current, phase, releaseVars, operationActive, pendingRetry,
                   automaticDownload, retryTimers, checkArmed, pending, gate, slotVars>>
    /\ TaskFrame

BeginDownload(v) ==
    /\ TakesGate(v)
    /\ pending = v
    /\ phase' = DownloadingPhase
    /\ gate' = AtPoint(v, "streaming")
    /\ UNCHANGED <<current, releaseVars, operationActive, pendingRetry,
                   automaticDownload, retryTimers, checkArmed, pending, slotVars>>
    /\ TaskFrame

DownloadAdvances(v) ==
    /\ Holds(v, "streaming")
    /\ Downloading
    /\ UNCHANGED <<pending, gate, slotVars>>
    /\ TaskFrame

\* mutant of DownloadFails: the task ends without a report.
DownloadFailsSilently(v, retryable) ==
    /\ Holds(v, "streaming")
    /\ UNCHANGED controllerVars
    /\ ReleasesGate
    /\ UNCHANGED slotVars

\* Before the package is complete: a lost connection, a refusal, a full disk.
DownloadFails(v, retryable) ==
    /\ Holds(v, "streaming")
    /\ AcceptFailure("download", retryable)
    /\ ReleasesGate
    /\ UNCHANGED slotVars

StageDownload(v) ==
    /\ Holds(v, "streaming")
    /\ ~Locked
    /\ \/ repository /\ Slot!Stage(v) /\ gate' = AtPoint(v, "staged")
       \/ repository /\ Slot!StageFails(v) /\ gate' = AtPoint(v, "unstaged")
       \/ /\ ~repository \/ ~Slot!Admits(v)
          /\ gate' = AtPoint(v, "unstaged")
          /\ UNCHANGED slotVars
    /\ UNCHANGED <<controllerVars, pending>>
    /\ TaskFrame

ReportDownload(v) ==
    /\ \/ Holds(v, "staged") /\ DownloadSucceeded
       \/ Holds(v, "unstaged") /\ AcceptFailure("download", FALSE)
    /\ ReleasesGate
    /\ UNCHANGED slotVars

-----------------------------------------------------------------------------
\* Timers, menu and buttons

InputFrame == UNCHANGED <<processVars, application, slotVars, lazy>>
Running == boot = "running"

RetryTimerFires == Running /\ RetryDue /\ InputFrame
CheckTimerFires == Running /\ (operationActive \/ Room) /\ PeriodicCheckDue /\ InputFrame
UserChecks == Running /\ Room /\ ManualCheck /\ InputFrame
UserRetries == Running /\ Room /\ UserRetry /\ InputFrame
UserTogglesAutomaticDownload ==
    Running /\ Room /\ SetAutomaticDownload(~automaticDownload) /\ InputFrame

-----------------------------------------------------------------------------
\* request_shutdown, from has_staged to the exit

ShutdownFrame == UNCHANGED <<controllerVars, boot, repository, pending, gate, lazy>>

\* Also what app_update_restart does once has_staged has let it.
RequestShutdown ==
    /\ Running
    /\ shutdown = "none"
    /\ shutdown' = "stopping"
    /\ ShutdownFrame
    /\ UNCHANGED <<application, slotVars>>

\* A look that finds nothing, like every failure below, leads to the exit: the
\* process may end at any point (ProcessEnds).
NextAfterSlot == [stopping |-> "sawSlot", allowed |-> "sawSlotAgain"]
LookAtRepository ==
    /\ shutdown \in DOMAIN NextAfterSlot
    /\ held # None
    /\ shutdown' = NextAfterSlot[shutdown]
    /\ ShutdownFrame
    /\ UNCHANGED <<application, slotVars>>

NextAfterPhase == [sawSlot |-> "allowed", sawSlotAgain |-> "locking"]
LookAtSnapshot ==
    /\ shutdown \in DOMAIN NextAfterPhase
    /\ phase.is = "Staged"
    /\ shutdown' = NextAfterPhase[shutdown]
    /\ ShutdownFrame
    /\ UNCHANGED <<application, slotVars>>

\* A package that is not the one that was signed is cleared, and not installed.
VerifyForInstall ==
    /\ shutdown = "locking"
    /\ held # None
    /\ \/ shutdown' = "verified" /\ UNCHANGED slotVars
       \/ shutdown' = "done" /\ (Slot!Clear \/ Slot!ClearFails)
    /\ ShutdownFrame
    /\ UNCHANGED application

\* macOS and Linux: the application is replaced in place.
InstallPackage ==
    /\ shutdown = "verified"
    /\ application' = held
    /\ shutdown' = "installed"
    /\ ShutdownFrame
    /\ UNCHANGED slotVars

CompleteInstall ==
    /\ shutdown = "installed"
    /\ shutdown' = "done"
    /\ Slot!Clear \/ Slot!ClearFails
    /\ ShutdownFrame
    /\ UNCHANGED application

\* The exit of the shutdown thread, a kill, a crash.
ProcessEnds ==
    /\ boot # "down"
    /\ Reset
    /\ Slot!Stop
    /\ UNCHANGED <<application, lazy>>

\* Windows: the installer that was started goes on when the process is gone.
InstallerTakesOver ==
    /\ shutdown = "verified"
    /\ application' = held
    /\ Reset
    /\ Slot!Stop
    /\ UNCHANGED lazy

-----------------------------------------------------------------------------
\* What happens around the application

\* The user installs a release by hand while the application does not run.
InstallByHand(v) ==
    /\ boot = "down"
    /\ v > application
    /\ application' = v
    /\ UNCHANGED <<controllerVars, processVars, slotVars, lazy>>

PackageDamaged ==
    /\ Slot!Damage
    /\ UNCHANGED <<controllerVars, processVars, application, lazy>>

-----------------------------------------------------------------------------
TaskStep ==
    \/ BeginCheck \/ CheckFindsNothing \/ PrepareCheckedRelease \/ ReportRelease
    \/ \E retryable \in BOOLEAN : CheckFails(retryable)
    \/ \E v \in Versions :
          \/ CheckFinds(v)
          \/ SkipDownload(v) \/ BeginDownload(v) \/ StageDownload(v) \/ ReportDownload(v)
          \/ \E retryable \in BOOLEAN : DownloadFails(v, retryable)

Next ==
    \/ OpenRepository \/ ReconcileCurrentVersion \/ Start
    \/ TaskStep \/ \E v \in Versions : DownloadAdvances(v)
    \/ RetryTimerFires \/ CheckTimerFires
    \/ UserChecks \/ UserRetries \/ UserTogglesAutomaticDownload
    \/ RequestShutdown \/ LookAtRepository \/ LookAtSnapshot \/ VerifyForInstall
    \/ InstallPackage \/ CompleteInstall \/ ProcessEnds \/ InstallerTakesOver
    \/ \E v \in Versions : InstallByHand(v)
    \/ PackageDamaged

\* A task that has been spawned goes on, since requests and reads time out; timers
\* fire; every path of the shutdown thread ends in app.exit.
Fairness ==
    /\ WF_vars(TaskStep)
    /\ WF_vars(CheckTimerFires)
    /\ WF_vars(RetryTimerFires)
    /\ WF_vars(shutdown # "none" /\ ProcessEnds)

Spec == Init /\ [][Next]_vars
FairSpec == Spec /\ Fairness

-----------------------------------------------------------------------------
\* A busy snapshot is true: a check or a download that it announces is waiting or
\* under way, so the user is never left with a spinner nobody will end (mod.rs
\* start_check, start_download against the tasks of tauri_adapter.rs).
BusyPhaseIsTrue ==
    /\ phase.is = "Checking" => gate.task = CheckTask \/ \E i \in DOMAIN queue : queue[i] = CheckTask
    /\ phase.is = "Downloading" => Operations > 0

\* The server has gone back to a release older than the staged one, the download of
\* that release has failed, and a retry has asked for the staged one instead: its
\* task ends without a word, as pending names the other release (SkipDownload).
Superseded ==
    /\ pendingRetry.operation = "download"
    /\ currentRelease = stagedVersion
    /\ pending < stagedVersion

\* An operation the controller counts as active has a task that will report, a lost
\* report would refuse every later check; a retry of what is staged already is the
\* only one that loses it (mod.rs operation_in_flight, retry).
ActiveOperationHasTask == operationActive => Operations > 0 \/ Superseded

\* mod.rs, of operation_in_flight: it tells whether a real check or download takes
\* up the single operation slot.  A retry of what is staged already refutes it, and
\* with it the slot is taken for good.
ActiveOperationIsReal == operationActive => Operations > 0

\* What the user is told is ready to install is what the repository would install,
\* or it would install nothing (mod.rs accept_check_result and finish_download
\* against staging.rs; main.rs app_update_restart).  Once the shutdown thread is
\* through with the package, nobody is left to install anything.
ShownStagedIsHeld ==
    phase.is = "Staged" /\ shutdown # "done" => held \in {None, phase.version}

\* Nothing the updater does replaces the application by the same or an older
\* release, whatever is found on the disk at the start (mod.rs handle RecoverStaged,
\* staging.rs reconcile_current_version, tauri_adapter.rs install_staged).
NoDowngrade == [][application' # application => application' > application]_vars

\* While the process runs on, every operation ends but for a retry of what is staged
\* already: the slot of the controller is free again and again (tauri_adapter.rs
\* check_stable, download_pending).
OperationEnds == []<>(~operationActive \/ Superseded)

\* While the process runs on and the user leaves the updater alone, it goes on
\* asking for releases, unless such a retry keeps it from it (mod.rs
\* schedule_next_check).
UserActs == UserChecks \/ UserRetries \/ UserTogglesAutomaticDownload
ChecksGoOn ==
    <>[]Running /\ <>[][~UserActs]_vars => []<>(gate.task = CheckTask \/ Superseded)
=============================================================================
