----------------------------- MODULE UpdateProofs -----------------------------
(***************************************************************************)
(* The updater for every number of releases and of tasks and timers alive  *)
(* at once: types, what a busy phase and an active operation promise, that *)
(* what is shown as staged is what the repository holds, and that no       *)
(* installation replaces the application by an older release.              *)
(***************************************************************************)
EXTENDS UpdateRuntime, TLAPS

USE ConstantsAssumption DEF Versions, None, NoTask, CheckTask, TaskIds

-----------------------------------------------------------------------------
(* The strengthening. *)

Waits(task) == \E i \in DOMAIN queue : queue[i] = task
CheckPending == gate.task = CheckTask \/ Waits(CheckTask)

\* The check at the gate has replaced pending, and the controller does not know yet.
Reporting == gate.at \in {"found", "discarded", "kept"}

\* What a task leaves behind takes its place, so that only inputs need room.
CountInv == Operations + retryTimers <= MaxActivities

\* The application is replaced at the end of a process only, and a process that is
\* not up has nothing under way.
ProcessInv ==
    /\ boot = "running" <=> current # None
    /\ current # None /\ shutdown \notin {"installed", "done"} => application = current
    /\ boot = "down" => held = None
    /\ boot # "running" =>
          /\ phase.is = "Idle" /\ ~operationActive
          /\ currentRelease = None /\ stagedVersion = None /\ pending = None
          /\ queue = <<>> /\ gate = Free /\ retryTimers = 0 /\ ~checkArmed
          /\ shutdown = "none"

\* Which program points belong to which task, and what pending is there.
GateInv ==
    /\ gate.task = NoTask => gate = Free
    /\ gate.task = CheckTask => gate.at = "asked" \/ Reporting
    /\ gate.task \in Versions =>
          gate.at \in {"streaming", "staged", "unstaged"} /\ pending = gate.task
    /\ pending # None => pending > current
    /\ Reporting => pending # None

\* How the two releases the controller remembers relate to the one that is pending:
\* a release newer than the staged one makes the controller forget the staged one.
ReleaseInv ==
    /\ stagedVersion # None => stagedVersion > current /\ currentRelease \in {None, stagedVersion}
    /\ ~Reporting /\ stagedVersion # None => pending <= stagedVersion
    /\ ~Reporting /\ currentRelease # None => currentRelease \in {pending, stagedVersion}

\* What a phase says of the tasks and of what is staged.
PhaseInv ==
    /\ phase.is = "Checking" => CheckPending
    /\ phase.is = "Downloading" => gate.task \in Versions /\ currentRelease # None
    /\ phase.is \in {"Available", "FailedCheck", "FailedDownload"} => stagedVersion = None
    /\ phase.is = "Staged" => stagedVersion # None /\ phase.version = stagedVersion

\* A download that will not be skipped is one of the release that is pending.
ActiveInv ==
    operationActive => CheckPending \/ gate.task \in Versions \/ Waits(pending) \/ Superseded

\* The controller's staged version against the repository's, until the shutdown
\* thread has cleared the repository without telling the controller.
HeldInv ==
    shutdown # "done" =>
        /\ stagedVersion # None =>
              \/ held = stagedVersion
              \/ gate.at = "discarded" /\ held = None /\ pending > stagedVersion
        /\ gate.at = "staged" => stagedVersion = None /\ held = pending

\* What may be installed, once the shutdown thread has seen the phase Staged: what an
\* earlier version has left is not held then, and cannot come back.
InstallInv ==
    /\ shutdown \in {"allowed", "sawSlotAgain", "locking"} => held = None \/ held > current
    /\ shutdown = "verified" => held > current

IInv == /\ TypeOK /\ CountInv /\ ProcessInv /\ GateInv /\ ReleaseInv
        /\ PhaseInv /\ ActiveInv /\ HeldInv /\ InstallInv

-----------------------------------------------------------------------------
(* The queue at the gate. *)

LEMMA SpawnAdds ==
  ASSUME queue \in Seq(TaskIds), NEW task \in TaskIds, Spawn(task)
  PROVE  /\ queue' \in Seq(TaskIds) /\ Len(queue') = Len(queue) + 1 /\ Waits(task)'
         /\ \A t \in TaskIds : Waits(t) => Waits(t)'
<1>1. queue' \in Seq(TaskIds) /\ Len(queue') = Len(queue) + 1
  BY DEF Spawn
<1>2. \A i \in DOMAIN queue : i \in DOMAIN queue' /\ queue'[i] = queue[i]
  BY <1>1 DEF Spawn
<1>3. Len(queue') \in DOMAIN queue' /\ queue'[Len(queue')] = task
  BY <1>1 DEF Spawn
<1> QED
  BY <1>1, <1>2, <1>3 DEF Waits

LEMMA TakeRemoves ==
  ASSUME queue \in Seq(TaskIds), NEW task \in TaskIds, TakesGate(task)
  PROVE  /\ queue' \in Seq(TaskIds) /\ Len(queue') = Len(queue) - 1 /\ gate = Free
         /\ \A t \in TaskIds : Waits(t) => t = task \/ Waits(t)'
<1>1. /\ queue' \in Seq(TaskIds) /\ Len(queue') = Len(queue) - 1 /\ gate = Free
      /\ queue[1] = task
  BY DEF TakesGate
<1>2. ASSUME NEW i \in DOMAIN queue, i # 1
      PROVE  i - 1 \in DOMAIN queue' /\ queue'[i - 1] = queue[i]
  BY <1>1, <1>2 DEF TakesGate
<1> QED
  BY <1>1, <1>2 DEF Waits

-----------------------------------------------------------------------------
(* The disjuncts of Next, in groups. *)

BootStep == OpenRepository \/ ReconcileCurrentVersion \/ Start

CheckStep ==
    \/ BeginCheck \/ CheckFindsNothing \/ PrepareCheckedRelease \/ ReportRelease
    \/ \E retryable \in BOOLEAN : CheckFails(retryable)
    \/ \E v \in Versions : CheckFinds(v)

DownloadStep(v) ==
    \/ SkipDownload(v) \/ BeginDownload(v) \/ DownloadAdvances(v)
    \/ StageDownload(v) \/ ReportDownload(v)
    \/ \E retryable \in BOOLEAN : DownloadFails(v, retryable)

InputStep ==
    RetryTimerFires \/ CheckTimerFires \/ UserChecks \/ UserRetries \/ UserTogglesAutomaticDownload

ShutdownStep ==
    \/ RequestShutdown \/ LookAtRepository \/ LookAtSnapshot \/ VerifyForInstall
    \/ InstallPackage \/ CompleteInstall

OutsideStep ==
    \/ ProcessEnds \/ InstallerTakesOver \/ PackageDamaged
    \/ \E v \in Versions : InstallByHand(v)

LEMMA NextIs ==
  ASSUME Next
  PROVE  \/ BootStep \/ CheckStep \/ InputStep \/ ShutdownStep \/ OutsideStep
         \/ \E v \in Versions : DownloadStep(v)
  BY DEF Next, TaskStep, BootStep, CheckStep, DownloadStep, InputStep, ShutdownStep, OutsideStep

\* What the repository may do in any step.
LEMMA SlotTyped ==
  ASSUME TypeOK, NEW v \in Versions,
         \/ Slot!Open \/ Slot!Clear \/ Slot!ClearFails \/ Slot!Stage(v) \/ Slot!StageFails(v)
         \/ Slot!Stop \/ Slot!Damage \/ UNCHANGED slotVars
  PROVE  /\ held' \in Versions \cup {None}
         /\ onDisk' \in (SUBSET (Versions \cup {None})) \ {{}}
         /\ confirmed' \in BOOLEAN
  BY DEF TypeOK, slotVars, Slot!Open, Slot!Clear, Slot!ClearFails, Slot!Stage, Slot!StageFails,
     Slot!Stop, Slot!Damage, Slot!Admits

-----------------------------------------------------------------------------
(* Counts and types. *)

LEMMA HeldGate ==
  ASSUME NEW task \in TaskIds, NEW point
  PROVE  (Holds(task, point) => gate # Free) /\ AtPoint(task, point) # Free
<1>1. Free.task = -1 /\ AtPoint(task, point).task = task /\ task # -1
  BY DEF Free, AtPoint
<1> QED
  BY <1>1 DEF Holds

LEMMA CountPreserved ==
  ASSUME IInv, Next
  PROVE  /\ queue' \in Seq(TaskIds) /\ retryTimers' \in Nat
         /\ Len(queue') + (IF gate' = Free THEN 0 ELSE 1) + retryTimers' <= MaxActivities
<1> DEFINE busy == IF gate = Free THEN 0 ELSE 1
<1>1. /\ queue \in Seq(TaskIds) /\ Len(queue) \in Nat /\ retryTimers \in Nat
      /\ MaxActivities \in Nat \ {0}
      /\ Len(queue) + busy + retryTimers <= MaxActivities
      /\ Room => Len(queue) + busy + retryTimers < MaxActivities
      /\ currentRelease \in TaskIds /\ pending \in TaskIds
  BY DEF IInv, TypeOK, ControllerTypeOK, CountInv, Operations, Room
<1>2. CASE BootStep
  <2>1. CASE OpenRepository \/ ReconcileCurrentVersion
    BY <1>1, <2>1 DEF OpenRepository, ReconcileCurrentVersion, controllerVars, effectVars
  <2>2. CASE Start
    <3>1. gate' = Free /\ queue' = <<0>> /\ retryTimers' = 0
      BY <2>2 DEF Start, StartWith, IInv, ProcessInv
    <3> QED
      BY <1>1, <3>1
  <2> QED
    BY <1>2, <2>1, <2>2 DEF BootStep
<1>3. CASE CheckStep
  <2>1. CASE BeginCheck
    <3>1. queue' \in Seq(TaskIds) /\ Len(queue') = Len(queue) - 1 /\ gate = Free
      BY <1>1, <2>1, TakeRemoves DEF BeginCheck
    <3>2. gate' # Free /\ retryTimers' = retryTimers
      BY <2>1, HeldGate DEF BeginCheck
    <3> QED
      BY <1>1, <3>1, <3>2
  <2>2. CASE CheckFindsNothing \/ \E retryable \in BOOLEAN : CheckFails(retryable)
    <3>1. gate # Free /\ gate' = Free /\ queue' = queue
      BY <2>2, HeldGate DEF CheckFindsNothing, CheckFails, NothingNewer, AcceptFailure,
         ReleasesGate, effectVars
    <3>2. retryTimers' \in {retryTimers, retryTimers + 1}
      BY <2>2 DEF CheckFindsNothing, CheckFails, NothingNewer, AcceptFailure, effectVars
    <3> QED
      BY <1>1, <3>1, <3>2
  <2>3. CASE PrepareCheckedRelease \/ \E v \in Versions : CheckFinds(v)
    <3>1. gate # Free
      BY <2>3, HeldGate DEF PrepareCheckedRelease, CheckFinds
    <3>2. queue' = queue /\ retryTimers' = retryTimers
      BY <2>3 DEF PrepareCheckedRelease, CheckFinds, controllerVars, effectVars
    <3> QED
      BY <1>1, <3>1, <3>2
  <2>4. CASE ReportRelease
    <3>1. gate # Free /\ gate' = Free
      BY <2>4, HeldGate DEF ReportRelease, ReleasesGate
    <3>2. retryTimers' = retryTimers /\ (queue' = queue \/ Spawn(pending))
      BY <2>4 DEF ReportRelease, CheckSucceeded, StagingDiscardFailed, effectVars
    <3> QED
      BY <1>1, <3>1, <3>2, SpawnAdds
  <2> QED
    BY <1>3, <2>1, <2>2, <2>3, <2>4 DEF CheckStep
<1>4. ASSUME NEW v \in Versions, DownloadStep(v)
      PROVE  /\ queue' \in Seq(TaskIds) /\ retryTimers' \in Nat
             /\ Len(queue') + (IF gate' = Free THEN 0 ELSE 1) + retryTimers' <= MaxActivities
  <2>1. CASE SkipDownload(v) \/ BeginDownload(v)
    <3>1. queue' \in Seq(TaskIds) /\ Len(queue') = Len(queue) - 1 /\ gate = Free
      BY <1>1, <2>1, TakeRemoves DEF SkipDownload, BeginDownload
    <3>2. retryTimers' = retryTimers
      BY <2>1 DEF SkipDownload, BeginDownload
    <3> QED
      BY <1>1, <3>1, <3>2
  <2>2. CASE DownloadAdvances(v) \/ StageDownload(v)
    <3>1. gate # Free
      BY <2>2, HeldGate DEF DownloadAdvances, StageDownload
    <3>2. queue' = queue /\ retryTimers' = retryTimers
      BY <2>2 DEF DownloadAdvances, StageDownload, Downloading, controllerVars, effectVars
    <3> QED
      BY <1>1, <3>1, <3>2
  <2>3. CASE ReportDownload(v) \/ \E retryable \in BOOLEAN : DownloadFails(v, retryable)
    <3>1. gate # Free /\ gate' = Free /\ queue' = queue
      BY <2>3, HeldGate DEF ReportDownload, DownloadFails, DownloadSucceeded, AcceptFailure,
         ReleasesGate, effectVars
    <3>2. retryTimers' \in {retryTimers, retryTimers + 1}
      BY <2>3 DEF ReportDownload, DownloadFails, DownloadSucceeded, AcceptFailure, effectVars
    <3> QED
      BY <1>1, <3>1, <3>2
  <2> QED
    BY <1>4, <2>1, <2>2, <2>3 DEF DownloadStep
<1>5. CASE InputStep
  <2>1. gate' = gate
    BY <1>5 DEF InputStep, RetryTimerFires, CheckTimerFires, UserChecks, UserRetries,
       UserTogglesAutomaticDownload, InputFrame, processVars
  <2>2. CASE RetryTimerFires
    <3>1. retryTimers > 0 /\ retryTimers' = retryTimers - 1
      BY <2>2 DEF RetryTimerFires, RetryDue
    <3>2. queue' = queue \/ Spawn(CheckTask) \/ Spawn(currentRelease)
      BY <2>2 DEF RetryTimerFires, RetryDue
    <3> QED
      BY <1>1, <2>1, <3>1, <3>2, SpawnAdds
  <2>3. CASE CheckTimerFires \/ UserChecks \/ UserRetries \/ UserTogglesAutomaticDownload
    <3>1. retryTimers' = retryTimers
      BY <2>3 DEF CheckTimerFires, UserChecks, UserRetries, UserTogglesAutomaticDownload,
         PeriodicCheckDue, ManualCheck, UserRetry, SetAutomaticDownload
    <3>2. queue' = queue \/ (Room /\ (Spawn(CheckTask) \/ Spawn(currentRelease)))
      BY <2>3 DEF CheckTimerFires, UserChecks, UserRetries, UserTogglesAutomaticDownload,
         PeriodicCheckDue, ManualCheck, UserRetry, SetAutomaticDownload, StartCheck
    <3> QED
      BY <1>1, <2>1, <3>1, <3>2, SpawnAdds
  <2> QED
    BY <1>5, <2>2, <2>3 DEF InputStep
<1>6. CASE ShutdownStep
  <2>1. UNCHANGED <<gate, queue, retryTimers>>
    BY <1>6 DEF ShutdownStep, RequestShutdown, LookAtRepository, LookAtSnapshot,
       VerifyForInstall, InstallPackage, CompleteInstall, ShutdownFrame, controllerVars, effectVars
  <2> QED
    BY <1>1, <2>1
<1>7. CASE OutsideStep
  <2>1. CASE ProcessEnds \/ InstallerTakesOver
    <3>1. gate' = Free /\ queue' = <<>> /\ retryTimers' = 0
      BY <2>1 DEF ProcessEnds, InstallerTakesOver, Reset
    <3> QED
      BY <1>1, <3>1
  <2>2. CASE PackageDamaged \/ \E v \in Versions : InstallByHand(v)
    <3>1. UNCHANGED <<gate, queue, retryTimers>>
      BY <2>2 DEF PackageDamaged, InstallByHand, controllerVars, effectVars, processVars
    <3> QED
      BY <1>1, <3>1
  <2> QED
    BY <1>7, <2>1, <2>2 DEF OutsideStep
<1> QED
  BY <1>2, <1>3, <1>4, <1>5, <1>6, <1>7, NextIs

Phases == [is : Kinds, version : Versions \cup {None}, retryable : BOOLEAN]
Retries == [operation : {"none", "check", "download"}, count : 0..MaxAutomaticRetries]

LEMMA ShownIsTyped ==
  /\ \A v \in Versions \cup {None} :
        /\ Show("Staged", v, FALSE) \in Phases /\ Show("Available", v, FALSE) \in Phases
        /\ Show("Downloading", v, FALSE) \in Phases
  /\ Show("Checking", None, FALSE) \in Phases /\ Show("UpToDate", None, FALSE) \in Phases
  /\ Show("Idle", None, FALSE) \in Phases /\ Show("FailedCheck", None, FALSE) \in Phases
  /\ \A operation : \A retryable \in BOOLEAN : Show(FailureOf(operation), None, retryable) \in Phases
  /\ NoRetry \in Retries
<1>1. \A kind \in Kinds, v \in Versions \cup {None}, retryable \in BOOLEAN :
         Show(kind, v, retryable) \in Phases
  BY DEF Show, Phases
<1>2. {"Checking", "Downloading", "Idle", "UpToDate", "Available", "Staged", "FailedCheck",
       "FailedDownload"} = Kinds
  BY DEF Kinds, Busy
<1>3. NoRetry \in Retries
  BY DEF NoRetry, Retries, MaxAutomaticRetries
<1> QED
  BY <1>1, <1>2, <1>3 DEF FailureOf

LEMMA ReleasesTyped ==
  ASSUME IInv, Next
  PROVE  /\ current' \in Versions \cup {None}
         /\ currentRelease' \in Versions \cup {None}
         /\ stagedVersion' \in Versions \cup {None}
<1>1. /\ current \in Versions \cup {None} /\ currentRelease \in Versions \cup {None}
      /\ stagedVersion \in Versions \cup {None} /\ pending \in Versions \cup {None}
      /\ application \in Versions /\ held \in Versions \cup {None}
  BY DEF IInv, TypeOK, ControllerTypeOK
<1>2. \/ UNCHANGED <<current, currentRelease, stagedVersion>>
      \/ current' = application /\ stagedVersion' \in {held, None} /\ currentRelease' = stagedVersion'
      \/ current' = current /\ stagedVersion' = None /\ currentRelease' \in {None, pending}
      \/ current' = current /\ stagedVersion' \in {stagedVersion, currentRelease}
            /\ currentRelease' \in {None, currentRelease}
      \/ current' = None /\ stagedVersion' = None /\ currentRelease' = None
  <2>1. CASE BootStep
    BY <2>1 DEF BootStep, OpenRepository, ReconcileCurrentVersion, Start, StartWith,
       controllerVars, releaseVars
  <2>2. CASE CheckStep
    BY <2>2 DEF CheckStep, BeginCheck, CheckFindsNothing, CheckFails, CheckFinds,
       PrepareCheckedRelease, ReportRelease, NothingNewer, AcceptFailure, CheckSucceeded,
       StagingDiscardFailed, controllerVars, releaseVars
  <2>3. ASSUME NEW v \in Versions, DownloadStep(v)
        PROVE  \/ UNCHANGED <<current, currentRelease, stagedVersion>>
               \/ /\ UNCHANGED <<current, currentRelease>>
                  /\ stagedVersion' \in {stagedVersion, currentRelease}
    BY <2>3 DEF DownloadStep, SkipDownload, BeginDownload, DownloadAdvances, StageDownload,
       ReportDownload, DownloadFails, Downloading, DownloadSucceeded, AcceptFailure,
       controllerVars, releaseVars
  <2>4. CASE InputStep
    BY <2>4 DEF InputStep, RetryTimerFires, CheckTimerFires, UserChecks, UserRetries,
       UserTogglesAutomaticDownload, RetryDue, PeriodicCheckDue, ManualCheck, UserRetry,
       SetAutomaticDownload, releaseVars
  <2>5. CASE ShutdownStep
    BY <2>5 DEF ShutdownStep, RequestShutdown, LookAtRepository, LookAtSnapshot, VerifyForInstall,
       InstallPackage, CompleteInstall, ShutdownFrame, controllerVars, releaseVars
  <2>6. CASE OutsideStep
    BY <2>6 DEF OutsideStep, ProcessEnds, InstallerTakesOver, PackageDamaged, InstallByHand, Reset,
       controllerVars, releaseVars
  <2> QED
    BY <2>1, <2>2, <2>3, <2>4, <2>5, <2>6, NextIs
<1> QED
  BY <1>1, <1>2

LEMMA FlagsTyped ==
  ASSUME IInv, Next
  PROVE  operationActive' \in BOOLEAN /\ automaticDownload' \in BOOLEAN /\ checkArmed' \in BOOLEAN
<1>1. operationActive \in BOOLEAN /\ automaticDownload \in BOOLEAN /\ checkArmed \in BOOLEAN
  BY DEF IInv, TypeOK, ControllerTypeOK
<1>2. /\ operationActive' \in {operationActive, automaticDownload, TRUE, FALSE}
      /\ automaticDownload' \in {automaticDownload, ~automaticDownload, TRUE}
      /\ checkArmed' \in {checkArmed, TRUE, FALSE}
  <2>1. CASE BootStep
    BY <2>1 DEF BootStep, OpenRepository, ReconcileCurrentVersion, Start, StartWith,
       controllerVars, effectVars
  <2>2. CASE CheckStep
    BY <2>2 DEF CheckStep, BeginCheck, CheckFindsNothing, CheckFails, CheckFinds,
       PrepareCheckedRelease, ReportRelease, NothingNewer, AcceptFailure, CheckSucceeded,
       StagingDiscardFailed, controllerVars, effectVars
  <2>3. ASSUME NEW v \in Versions, DownloadStep(v)
        PROVE  operationActive' \in {operationActive, FALSE} /\ UNCHANGED <<automaticDownload, checkArmed>>
    BY <2>3 DEF DownloadStep, SkipDownload, BeginDownload, DownloadAdvances, StageDownload,
       ReportDownload, DownloadFails, Downloading, DownloadSucceeded, AcceptFailure,
       controllerVars, effectVars
  <2>4. CASE InputStep
    BY <2>4 DEF InputStep, RetryTimerFires, CheckTimerFires, UserChecks, UserRetries,
       UserTogglesAutomaticDownload, RetryDue, PeriodicCheckDue, ManualCheck, UserRetry,
       SetAutomaticDownload, StartCheck
  <2>5. CASE ShutdownStep
    BY <2>5 DEF ShutdownStep, RequestShutdown, LookAtRepository, LookAtSnapshot, VerifyForInstall,
       InstallPackage, CompleteInstall, ShutdownFrame, controllerVars, effectVars
  <2>6. CASE OutsideStep
    BY <2>6 DEF OutsideStep, ProcessEnds, InstallerTakesOver, PackageDamaged, InstallByHand, Reset,
       controllerVars, effectVars
  <2> QED
    BY <2>1, <2>2, <2>3, <2>4, <2>5, <2>6, NextIs
<1> QED
  BY <1>1, <1>2

LEMMA FailureTyped ==
  ASSUME TypeOK, NEW operation \in {"check", "download"}, NEW retryable \in BOOLEAN,
         AcceptFailure(operation, retryable)
  PROVE  phase' \in Phases /\ pendingRetry' \in Retries
<1>1. pendingRetry \in Retries /\ stagedVersion \in Versions \cup {None}
  BY DEF TypeOK, ControllerTypeOK, Retries
<1>2. pendingRetry' \in Retries
  BY <1>1 DEF AcceptFailure, Retries, MaxAutomaticRetries
<1>3. phase' \in Phases
  BY <1>1, ShownIsTyped DEF AcceptFailure
<1> QED
  BY <1>2, <1>3

LEMMA ShownPreserved ==
  ASSUME IInv, Next
  PROVE  phase' \in Phases /\ pendingRetry' \in Retries
<1>1. /\ TypeOK /\ phase \in Phases /\ pendingRetry \in Retries
      /\ currentRelease \in Versions \cup {None} /\ stagedVersion \in Versions \cup {None}
      /\ pending \in Versions \cup {None} /\ NoRetry \in Retries
  BY ShownIsTyped DEF IInv, TypeOK, ControllerTypeOK, Phases, Retries
<1>2. DownloadingPhase \in Phases
  BY <1>1, ShownIsTyped DEF DownloadingPhase
<1>3. CASE BootStep
  BY <1>1, <1>3, ShownIsTyped DEF BootStep, OpenRepository, ReconcileCurrentVersion, Start,
     StartWith, controllerVars
<1>4. CASE CheckStep
  <2>1. CASE BeginCheck \/ PrepareCheckedRelease \/ \E v \in Versions : CheckFinds(v)
    BY <1>1, <2>1 DEF BeginCheck, PrepareCheckedRelease, CheckFinds, controllerVars
  <2>2. CASE CheckFindsNothing \/ ReportRelease
    BY <1>1, <2>2, ShownIsTyped DEF CheckFindsNothing, ReportRelease, NothingNewer,
       CheckSucceeded, StagingDiscardFailed
  <2>3. CASE \E retryable \in BOOLEAN : CheckFails(retryable)
    BY <1>1, <2>3, FailureTyped DEF CheckFails
  <2> QED
    BY <1>4, <2>1, <2>2, <2>3 DEF CheckStep
<1>5. ASSUME NEW v \in Versions, DownloadStep(v)
      PROVE  phase' \in Phases /\ pendingRetry' \in Retries
  <2>1. CASE SkipDownload(v) \/ StageDownload(v) \/ BeginDownload(v) \/ DownloadAdvances(v)
    BY <1>1, <1>2, <2>1 DEF SkipDownload, StageDownload, BeginDownload, DownloadAdvances,
       Downloading, controllerVars
  <2>2. CASE ReportDownload(v) /\ DownloadSucceeded
    BY <1>1, <2>2, ShownIsTyped DEF DownloadSucceeded
  <2>3. CASE \E retryable \in BOOLEAN : AcceptFailure("download", retryable)
    BY <1>1, <2>3, FailureTyped
  <2> QED
    BY <1>5, <2>1, <2>2, <2>3 DEF DownloadStep, ReportDownload, DownloadFails
<1>6. CASE InputStep
  <2>1. phase' \in {phase, Show("Checking", None, FALSE)} /\ pendingRetry' \in {pendingRetry, NoRetry}
    BY <1>6 DEF InputStep, RetryTimerFires, CheckTimerFires, UserChecks, UserRetries,
       UserTogglesAutomaticDownload, RetryDue, PeriodicCheckDue, ManualCheck, UserRetry,
       SetAutomaticDownload, StartCheck
  <2> QED
    BY <1>1, <2>1, ShownIsTyped
<1>7. CASE ShutdownStep
  BY <1>1, <1>7 DEF ShutdownStep, RequestShutdown, LookAtRepository, LookAtSnapshot,
     VerifyForInstall, InstallPackage, CompleteInstall, ShutdownFrame, controllerVars
<1>8. CASE OutsideStep
  BY <1>1, <1>8, ShownIsTyped DEF OutsideStep, ProcessEnds, InstallerTakesOver, PackageDamaged,
     InstallByHand, Reset, controllerVars
<1> QED
  BY <1>3, <1>4, <1>5, <1>6, <1>7, <1>8, NextIs

LEMMA ProcessTyped ==
  ASSUME IInv, Next
  PROVE  /\ application' \in Versions
         /\ boot' \in {"down", "opened", "reconciled", "running"}
         /\ repository' \in BOOLEAN
         /\ pending' \in Versions \cup {None}
         /\ gate' \in [task : TaskIds \cup {NoTask}, at : GatePoints]
         /\ shutdown' \in ShutdownPoints
<1>1. /\ TypeOK /\ Free \in [task : TaskIds \cup {NoTask}, at : GatePoints]
      /\ \A v \in Versions : v \in TaskIds
      /\ \A t \in TaskIds, p \in GatePoints :
            AtPoint(t, p) \in [task : TaskIds \cup {NoTask}, at : GatePoints]
  BY DEF IInv, Free, AtPoint, GatePoints
<1>2. {"asked", "found", "discarded", "kept", "streaming", "staged", "unstaged"} \subseteq GatePoints
  BY DEF GatePoints
<1>3. CASE BootStep
  BY <1>1, <1>3 DEF BootStep, OpenRepository, ReconcileCurrentVersion, Start, TypeOK
<1>4. CASE CheckStep
  <2>1. UNCHANGED <<application, boot, repository, shutdown>>
    BY <1>4 DEF CheckStep, BeginCheck, CheckFindsNothing, CheckFails, CheckFinds, TaskFrame,
       PrepareCheckedRelease, ReportRelease, ReleasesGate
  <2>2. pending' \in Versions \cup {None}
    BY <1>1, <1>4 DEF TypeOK, CheckStep, BeginCheck, CheckFindsNothing, CheckFails, CheckFinds,
       PrepareCheckedRelease, ReportRelease, ReleasesGate
  <2>3. gate' = Free \/ \E p \in GatePoints : gate' = AtPoint(CheckTask, p)
    BY <1>2, <1>4 DEF CheckStep, BeginCheck, CheckFindsNothing, CheckFails, CheckFinds,
       PrepareCheckedRelease, ReportRelease, ReleasesGate
  <2> QED
    BY <1>1, <2>1, <2>2, <2>3 DEF TypeOK
<1>5. ASSUME NEW v \in Versions, DownloadStep(v)
      PROVE  /\ UNCHANGED <<application, boot, repository, shutdown, pending>>
             /\ gate' \in {gate, Free} \/ \E p \in GatePoints : gate' = AtPoint(v, p)
  BY <1>2, <1>5 DEF DownloadStep, SkipDownload, BeginDownload, DownloadAdvances, StageDownload,
     ReportDownload, DownloadFails, TaskFrame, ReleasesGate
<1>6. CASE InputStep
  BY <1>1, <1>6 DEF TypeOK, InputStep, RetryTimerFires, CheckTimerFires, UserChecks, UserRetries,
     UserTogglesAutomaticDownload, InputFrame, processVars
<1>7. CASE ShutdownStep
  <2>1. UNCHANGED <<boot, repository, pending, gate>> /\ application' \in {application, held}
    BY <1>7 DEF ShutdownStep, RequestShutdown, LookAtRepository, LookAtSnapshot,
       VerifyForInstall, InstallPackage, CompleteInstall, ShutdownFrame
  <2>2. shutdown' \in ShutdownPoints
    BY <1>7 DEF ShutdownStep, RequestShutdown, LookAtRepository, LookAtSnapshot, ShutdownPoints,
       VerifyForInstall, InstallPackage, CompleteInstall, NextAfterSlot, NextAfterPhase
  <2>3. application' # application => held > current /\ current \in Versions \cup {None}
    BY <1>7 DEF ShutdownStep, RequestShutdown, LookAtRepository, LookAtSnapshot, TypeOK,
       VerifyForInstall, InstallPackage, CompleteInstall, IInv, InstallInv, ControllerTypeOK
  <2> QED
    BY <1>1, <2>1, <2>2, <2>3 DEF TypeOK
<1>8. CASE OutsideStep
  <2>1. CASE ProcessEnds \/ InstallerTakesOver
    <3>1. application' = application \/ (application' = held /\ held > current /\ current \in Versions \cup {None})
      BY <2>1 DEF ProcessEnds, InstallerTakesOver, IInv, InstallInv, TypeOK, ControllerTypeOK
    <3>2. gate' = Free /\ boot' = "down" /\ repository' = FALSE /\ pending' = None /\ shutdown' = "none"
      BY <2>1 DEF ProcessEnds, InstallerTakesOver, Reset
    <3>3. application' \in Versions
      BY <1>1, <3>1 DEF TypeOK
    <3> QED
      BY <1>1, <3>2, <3>3 DEF ShutdownPoints
  <2>2. CASE PackageDamaged \/ \E v \in Versions : InstallByHand(v)
    BY <1>1, <2>2 DEF PackageDamaged, InstallByHand, processVars, TypeOK
  <2> QED
    BY <1>8, <2>1, <2>2 DEF OutsideStep
<1> QED
  BY <1>1, <1>3, <1>4, <1>5, <1>6, <1>7, <1>8, NextIs DEF TypeOK

LEMMA RepositoryTyped ==
  ASSUME IInv, Next
  PROVE  /\ held' \in Versions \cup {None}
         /\ onDisk' \in (SUBSET (Versions \cup {None})) \ {{}}
         /\ confirmed' \in BOOLEAN
         /\ lazy' \in BOOLEAN
<1>1. TypeOK /\ 1 \in Versions
  BY DEF IInv
<1>2. \/ UNCHANGED slotVars
      \/ Slot!Open \/ Slot!Clear \/ Slot!ClearFails \/ Slot!Stop \/ Slot!Damage
      \/ \E v \in Versions : Slot!Stage(v) \/ Slot!StageFails(v)
  <2>1. CASE BootStep \/ CheckStep
    BY <2>1 DEF BootStep, OpenRepository, ReconcileCurrentVersion, Start, CheckStep, BeginCheck,
       CheckFindsNothing, CheckFails, CheckFinds, PrepareCheckedRelease, ReportRelease
  <2>2. ASSUME NEW v \in Versions, DownloadStep(v)
        PROVE  UNCHANGED slotVars \/ Slot!Stage(v) \/ Slot!StageFails(v)
    BY <2>2 DEF DownloadStep, SkipDownload, BeginDownload, DownloadAdvances, StageDownload,
       ReportDownload, DownloadFails
  <2>3. CASE InputStep \/ ShutdownStep
    BY <2>3 DEF InputStep, RetryTimerFires, CheckTimerFires, UserChecks, UserRetries,
       UserTogglesAutomaticDownload, InputFrame, ShutdownStep, RequestShutdown, LookAtRepository,
       LookAtSnapshot, VerifyForInstall, InstallPackage, CompleteInstall
  <2>4. CASE OutsideStep
    BY <2>4 DEF OutsideStep, ProcessEnds, InstallerTakesOver, PackageDamaged, InstallByHand
  <2> QED
    BY <2>1, <2>2, <2>3, <2>4, NextIs
<1>3. lazy' = lazy
  BY DEF Next, OpenRepository, ReconcileCurrentVersion, Start, TaskStep, BeginCheck,
     CheckFindsNothing, CheckFails, CheckFinds, PrepareCheckedRelease, ReportRelease, SkipDownload,
     BeginDownload, DownloadAdvances, StageDownload, ReportDownload, DownloadFails, TaskFrame,
     ReleasesGate, RetryTimerFires, CheckTimerFires, UserChecks, UserRetries, InputFrame,
     UserTogglesAutomaticDownload, RequestShutdown, LookAtRepository, LookAtSnapshot,
     VerifyForInstall, InstallPackage, CompleteInstall, ShutdownFrame, ProcessEnds,
     InstallerTakesOver, InstallByHand, PackageDamaged
<1> QED
  BY <1>1, <1>2, <1>3, SlotTyped DEF TypeOK

LEMMA TypesPreserved ==
  ASSUME IInv, Next
  PROVE  TypeOK' /\ CountInv'
<1>1. MaxActivities \in Nat
  OBVIOUS
<1>2. /\ queue' \in Seq(TaskIds) /\ retryTimers' \in 0..MaxActivities /\ Len(queue') <= MaxActivities
      /\ CountInv'
  BY <1>1, CountPreserved DEF CountInv, Operations
<1>3. ControllerTypeOK'
  BY <1>2, ReleasesTyped, FlagsTyped, ShownPreserved DEF ControllerTypeOK, Phases, Retries
<1> QED
  BY <1>2, <1>3, ProcessTyped, RepositoryTyped DEF TypeOK

-----------------------------------------------------------------------------
(* The process and the gate. *)

LEMMA GateFields ==
  /\ Free.task = NoTask /\ Free.at = "free"
  /\ \A task, point : AtPoint(task, point).task = task /\ AtPoint(task, point).at = point
  BY DEF Free, AtPoint

\* Only Start and the end of the process change these.
LEMMA RunsOn ==
  ASSUME IInv, Next
  PROVE  \/ BootStep \/ ProcessEnds \/ InstallerTakesOver
         \/ (\E v \in Versions : InstallByHand(v)) \/ PackageDamaged
         \/ boot = "running" /\ UNCHANGED <<boot, current, repository>>
<1>1. CASE CheckStep
  <2>1. gate # Free \/ queue # <<>>
    BY <1>1, HeldGate DEF CheckStep, BeginCheck, CheckFindsNothing, CheckFails, CheckFinds,
       PrepareCheckedRelease, ReportRelease, TakesGate
  <2>2. UNCHANGED <<boot, current, repository>>
    BY <1>1 DEF CheckStep, BeginCheck, CheckFindsNothing, CheckFails, CheckFinds, TaskFrame,
       PrepareCheckedRelease, ReportRelease, ReleasesGate, NothingNewer, AcceptFailure,
       CheckSucceeded, StagingDiscardFailed, controllerVars
  <2> QED
    BY <2>1, <2>2 DEF IInv, ProcessInv, TypeOK
<1>2. ASSUME NEW v \in Versions, DownloadStep(v)
      PROVE  boot = "running" /\ UNCHANGED <<boot, current, repository>>
  <2>1. gate # Free \/ queue # <<>>
    BY <1>2, HeldGate DEF DownloadStep, SkipDownload, BeginDownload, DownloadAdvances,
       StageDownload, ReportDownload, DownloadFails, TakesGate
  <2>2. UNCHANGED <<boot, current, repository>>
    BY <1>2 DEF DownloadStep, SkipDownload, BeginDownload, DownloadAdvances, StageDownload,
       ReportDownload, DownloadFails, TaskFrame, ReleasesGate, Downloading, AcceptFailure,
       DownloadSucceeded, controllerVars
  <2> QED
    BY <2>1, <2>2 DEF IInv, ProcessInv, TypeOK
<1>3. CASE InputStep
  BY <1>3 DEF InputStep, RetryTimerFires, CheckTimerFires, UserChecks, UserRetries, Running,
     UserTogglesAutomaticDownload, RetryDue, PeriodicCheckDue, ManualCheck, UserRetry,
     SetAutomaticDownload, InputFrame, processVars
<1>4. CASE ShutdownStep
  <2>1. boot = "running" \/ shutdown # "none"
    BY <1>4 DEF ShutdownStep, RequestShutdown, Running, LookAtRepository, NextAfterSlot,
       LookAtSnapshot, NextAfterPhase, VerifyForInstall, InstallPackage, CompleteInstall
  <2>2. UNCHANGED <<boot, current, repository>>
    BY <1>4 DEF ShutdownStep, RequestShutdown, LookAtRepository, LookAtSnapshot, VerifyForInstall,
       InstallPackage, CompleteInstall, ShutdownFrame, controllerVars
  <2> QED
    BY <2>1, <2>2 DEF IInv, ProcessInv, TypeOK
<1> QED
  BY <1>1, <1>2, <1>3, <1>4, NextIs DEF OutsideStep

LEMMA ProcessPreserved ==
  ASSUME IInv, Next
  PROVE  ProcessInv'
<1>1. TypeOK /\ ProcessInv /\ InstallInv
  BY DEF IInv
<1>2. CASE boot = "running" /\ UNCHANGED <<boot, current>>
  <2>1. application' = application \/ shutdown' = "installed" \/ boot = "down"
    BY <1>2, NextIs DEF BootStep, CheckStep, DownloadStep, InputStep, ShutdownStep, OutsideStep,
       OpenRepository, ReconcileCurrentVersion, Start, BeginCheck, CheckFindsNothing, CheckFails,
       CheckFinds, PrepareCheckedRelease, ReportRelease, TaskFrame, ReleasesGate, SkipDownload,
       BeginDownload, DownloadAdvances, StageDownload, ReportDownload, DownloadFails,
       RetryTimerFires, CheckTimerFires, UserChecks, UserRetries, UserTogglesAutomaticDownload,
       InputFrame, RequestShutdown, LookAtRepository, LookAtSnapshot, VerifyForInstall,
       InstallPackage, CompleteInstall, ProcessEnds, InstallerTakesOver, InstallByHand,
       PackageDamaged, Reset, processVars
  <2>2. shutdown \in {"installed", "done"} => shutdown' \in {"installed", "done"}
    BY <1>2, NextIs DEF BootStep, CheckStep, DownloadStep, InputStep, ShutdownStep, OutsideStep,
       OpenRepository, ReconcileCurrentVersion, Start, BeginCheck, CheckFindsNothing, CheckFails,
       CheckFinds, PrepareCheckedRelease, ReportRelease, TaskFrame, ReleasesGate, SkipDownload,
       BeginDownload, DownloadAdvances, StageDownload, ReportDownload, DownloadFails,
       RetryTimerFires, CheckTimerFires, UserChecks, UserRetries, UserTogglesAutomaticDownload,
       InputFrame, RequestShutdown, LookAtRepository, LookAtSnapshot, VerifyForInstall,
       InstallPackage, CompleteInstall, ProcessEnds, InstallerTakesOver, InstallByHand,
       PackageDamaged, Reset, processVars, NextAfterSlot, NextAfterPhase
  <2> QED
    BY <1>1, <1>2, <2>1, <2>2 DEF ProcessInv
<1>3. CASE BootStep
  <2>1. CASE Start
    BY <1>1, <2>1 DEF Start, StartWith, ProcessInv, TypeOK
  <2>2. CASE OpenRepository \/ ReconcileCurrentVersion
    BY <1>1, <2>2 DEF OpenRepository, ReconcileCurrentVersion, controllerVars, releaseVars, effectVars,
       ProcessInv, TypeOK
  <2> QED
    BY <1>3, <2>1, <2>2 DEF BootStep
<1>4. CASE ProcessEnds \/ InstallerTakesOver
  BY <1>4 DEF ProcessEnds, InstallerTakesOver, Reset, Slot!Stop, ProcessInv, Show
<1>5. CASE PackageDamaged \/ \E v \in Versions : InstallByHand(v)
  <2>1. /\ UNCHANGED controllerVars /\ UNCHANGED processVars /\ held' = held
        /\ application' = application \/ boot = "down"
    BY <1>5 DEF PackageDamaged, InstallByHand, Slot!Damage, slotVars
  <2> QED
    BY <1>1, <2>1 DEF ProcessInv, controllerVars, releaseVars, effectVars, processVars
<1> QED
  BY <1>2, <1>3, <1>4, <1>5, RunsOn

LEMMA GatePreserved ==
  ASSUME IInv, Next
  PROVE  GateInv'
<1>1. TypeOK /\ ProcessInv /\ GateInv /\ NoTask \notin TaskIds
  BY DEF IInv
<1>2. pending \in Versions \cup {None} /\ gate.task \in TaskIds \cup {NoTask}
  BY <1>1 DEF TypeOK
<1>3. CASE UNCHANGED <<gate, pending, current>>
  BY <1>1, <1>3 DEF GateInv, Reporting
<1>4. CASE gate' = Free /\ (pending' = None \/ UNCHANGED <<pending, current>>)
  BY <1>1, <1>4, GateFields DEF GateInv, Reporting
<1>5. CASE BootStep
  <2>1. gate = Free /\ pending = None /\ UNCHANGED <<gate, pending>>
    BY <1>1, <1>5 DEF BootStep, OpenRepository, ReconcileCurrentVersion, Start, ProcessInv
  <2> QED
    BY <2>1, <1>4
<1>6. CASE CheckStep
  <2>1. CASE BeginCheck
    BY <1>1, <2>1, GateFields DEF BeginCheck, GateInv, Reporting
  <2>2. CASE CheckFindsNothing \/ ReportRelease \/ \E retryable \in BOOLEAN : CheckFails(retryable)
    BY <1>4, <2>2 DEF CheckFindsNothing, CheckFails, ReportRelease, ReleasesGate, NothingNewer,
       AcceptFailure, CheckSucceeded, StagingDiscardFailed
  <2>3. CASE \E v \in Versions : CheckFinds(v)
    BY <2>3, GateFields DEF CheckFinds, GateInv, Reporting, controllerVars
  <2>4. CASE PrepareCheckedRelease
    <3>1. gate' = AtPoint(CheckTask, "discarded") \/ gate' = AtPoint(CheckTask, "kept")
      BY <2>4 DEF PrepareCheckedRelease
    <3> QED
      BY <1>1, <2>4, <3>1, GateFields DEF PrepareCheckedRelease, GateInv, Reporting, Holds, controllerVars
  <2> QED
    BY <1>6, <2>1, <2>2, <2>3, <2>4 DEF CheckStep
<1>7. ASSUME NEW v \in Versions, DownloadStep(v) PROVE GateInv'
  <2>1. CASE SkipDownload(v) \/ DownloadAdvances(v)
    BY <1>3, <2>1 DEF SkipDownload, DownloadAdvances, Downloading
  <2>2. CASE BeginDownload(v)
    BY <1>1, <2>2, GateFields DEF BeginDownload, GateInv, Reporting
  <2>3. CASE StageDownload(v)
    <3>1. gate' = AtPoint(v, "staged") \/ gate' = AtPoint(v, "unstaged")
      BY <2>3 DEF StageDownload
    <3> QED
      BY <1>1, <2>3, <3>1, GateFields DEF StageDownload, GateInv, Reporting, Holds, controllerVars
  <2>4. CASE ReportDownload(v) \/ \E retryable \in BOOLEAN : DownloadFails(v, retryable)
    BY <1>4, <2>4 DEF ReportDownload, DownloadFails, ReleasesGate, DownloadSucceeded, AcceptFailure
  <2> QED
    BY <1>7, <2>1, <2>2, <2>3, <2>4 DEF DownloadStep
<1>8. CASE InputStep
  BY <1>3, <1>8 DEF InputStep, RetryTimerFires, CheckTimerFires, UserChecks, UserRetries,
     UserTogglesAutomaticDownload, RetryDue, PeriodicCheckDue, ManualCheck, UserRetry,
     SetAutomaticDownload, InputFrame, processVars
<1>9. CASE ShutdownStep
  BY <1>3, <1>9 DEF ShutdownStep, RequestShutdown, LookAtRepository, LookAtSnapshot,
     VerifyForInstall, InstallPackage, CompleteInstall, ShutdownFrame, controllerVars
<1>10. CASE OutsideStep
  BY <1>3, <1>4, <1>10 DEF OutsideStep, ProcessEnds, InstallerTakesOver, PackageDamaged,
     InstallByHand, Reset, controllerVars, processVars
<1> QED
  BY <1>5, <1>6, <1>7, <1>8, <1>9, <1>10, NextIs

-----------------------------------------------------------------------------
(* The releases and the phases. *)

LEMMA ReleasePreserved ==
  ASSUME IInv, Next
  PROVE  ReleaseInv'
<1>1. /\ TypeOK /\ ProcessInv /\ GateInv /\ ReleaseInv /\ GateInv'
      /\ {current, pending, stagedVersion, currentRelease, held} \subseteq Versions \cup {None}
      /\ application \in Versions
  BY GatePreserved DEF IInv, TypeOK, ControllerTypeOK
<1>2. CASE UNCHANGED <<stagedVersion, currentRelease, pending, current>> /\ (Reporting => Reporting')
  BY <1>1, <1>2 DEF ReleaseInv
<1>3. CASE BootStep
  <2>1. CASE Start
    <3>1. pending = None /\ pending' = None /\ current' = application
      BY <1>1, <2>1 DEF Start, StartWith, ProcessInv
    <3>2. stagedVersion' = (IF held > application THEN held ELSE None) /\ currentRelease' = stagedVersion'
      BY <2>1 DEF Start, StartWith
    <3> QED
      BY <1>1, <3>1, <3>2 DEF ReleaseInv
  <2>2. CASE OpenRepository \/ ReconcileCurrentVersion
    BY <1>2, <2>2 DEF OpenRepository, ReconcileCurrentVersion, controllerVars, releaseVars, Reporting
  <2> QED
    BY <1>3, <2>1, <2>2 DEF BootStep
<1>4. CASE CheckStep
  <2>1. CASE BeginCheck
    BY <1>2, <2>1, TakeRemoves, GateFields DEF BeginCheck, releaseVars, Reporting, TakesGate
  <2>2. CASE CheckFindsNothing
    BY <1>1, <2>2, GateFields DEF CheckFindsNothing, NothingNewer, Holds, ReleasesGate, Reporting, ReleaseInv
  <2>3. CASE \E retryable \in BOOLEAN : CheckFails(retryable)
    BY <1>2, <2>3, GateFields DEF CheckFails, AcceptFailure, Holds, ReleasesGate, Reporting, releaseVars
  <2>4. CASE \E v \in Versions : CheckFinds(v)
    <3>1. Reporting' /\ UNCHANGED <<stagedVersion, currentRelease, current>>
      BY <2>4, GateFields DEF CheckFinds, Reporting, controllerVars, releaseVars
    <3> QED
      BY <1>1, <3>1 DEF ReleaseInv
  <2>5. CASE PrepareCheckedRelease
    <3>1. gate' = AtPoint(CheckTask, "discarded") \/ gate' = AtPoint(CheckTask, "kept")
      BY <2>5 DEF PrepareCheckedRelease
    <3> QED
      BY <1>2, <2>5, <3>1, GateFields DEF PrepareCheckedRelease, Reporting, controllerVars, releaseVars
  <2>6. CASE ReportRelease
    <3>1. pending' = pending /\ pending # None /\ pending > current
      BY <1>1, <2>6 DEF ReportRelease, ReleasesGate, Holds, GateInv, Reporting
    <3>2. CASE CheckSucceeded(pending)
      <4>1. CASE pending <= stagedVersion
        <5>1. UNCHANGED <<current, stagedVersion, currentRelease>>
          BY <3>2, <4>1 DEF CheckSucceeded, releaseVars
        <5>2. stagedVersion # None
          BY <1>1, <3>1, <4>1
        <5> QED
          BY <1>1, <3>1, <4>1, <5>1, <5>2 DEF ReleaseInv
      <4>2. CASE ~(pending <= stagedVersion)
        <5>1. stagedVersion' = None /\ currentRelease' = pending
          BY <3>2, <4>2 DEF CheckSucceeded
        <5> QED
          BY <3>1, <5>1 DEF ReleaseInv
      <4> QED
        BY <4>1, <4>2
    <3>3. CASE StagingDiscardFailed
      BY <3>3 DEF StagingDiscardFailed, ReleaseInv
    <3> QED
      BY <2>6, <3>2, <3>3 DEF ReportRelease
  <2> QED
    BY <1>4, <2>1, <2>2, <2>3, <2>4, <2>5, <2>6 DEF CheckStep
<1>5. ASSUME NEW v \in Versions, DownloadStep(v) PROVE ReleaseInv'
  <2>1. CASE SkipDownload(v) \/ DownloadAdvances(v)
    BY <1>2, <2>1 DEF SkipDownload, DownloadAdvances, Downloading, releaseVars, Reporting
  <2>2. CASE BeginDownload(v)
    BY <1>2, <2>2, GateFields DEF BeginDownload, releaseVars, Reporting, TakesGate
  <2>3. CASE StageDownload(v)
    BY <1>2, <2>3 DEF StageDownload, Holds, controllerVars, releaseVars, Reporting
  <2>4. CASE (ReportDownload(v) \/ \E retryable \in BOOLEAN : DownloadFails(v, retryable))
               /\ UNCHANGED releaseVars
    BY <1>2, <2>4 DEF ReportDownload, DownloadFails, Holds, ReleasesGate, DownloadSucceeded,
       AcceptFailure, releaseVars, Reporting
  <2>5. CASE ReportDownload(v) /\ Holds(v, "staged") /\ DownloadSucceeded
    <3>1. ~Reporting /\ pending' = pending /\ current' = current /\ currentRelease' = currentRelease
      BY <2>5 DEF ReportDownload, ReleasesGate, Holds, Reporting, DownloadSucceeded
    <3>2. stagedVersion' = IF currentRelease # None THEN currentRelease ELSE stagedVersion
      BY <2>5 DEF DownloadSucceeded
    <3> QED
      BY <1>1, <3>1, <3>2 DEF ReleaseInv, GateInv
  <2> QED
    BY <1>5, <2>1, <2>2, <2>3, <2>4, <2>5
    DEF DownloadStep, ReportDownload, DownloadFails, AcceptFailure, releaseVars
<1>6. CASE InputStep
  BY <1>2, <1>6 DEF InputStep, RetryTimerFires, CheckTimerFires, UserChecks, UserRetries,
     UserTogglesAutomaticDownload, RetryDue, PeriodicCheckDue, ManualCheck, UserRetry,
     SetAutomaticDownload, InputFrame, processVars, releaseVars, Reporting
<1>7. CASE ShutdownStep
  BY <1>2, <1>7 DEF ShutdownStep, RequestShutdown, LookAtRepository, LookAtSnapshot, Reporting,
     VerifyForInstall, InstallPackage, CompleteInstall, ShutdownFrame, controllerVars, releaseVars
<1>8. CASE OutsideStep
  <2>1. CASE ProcessEnds \/ InstallerTakesOver
    BY <2>1 DEF ProcessEnds, InstallerTakesOver, Reset, ReleaseInv
  <2>2. CASE PackageDamaged \/ \E v \in Versions : InstallByHand(v)
    BY <1>2, <2>2 DEF PackageDamaged, InstallByHand, controllerVars, processVars, releaseVars, Reporting
  <2> QED
    BY <1>8, <2>1, <2>2 DEF OutsideStep
<1> QED
  BY <1>3, <1>4, <1>5, <1>6, <1>7, <1>8, NextIs

\* A check that has been asked for is not lost to anything else.
LEMMA CheckGoesOn ==
  ASSUME IInv, CheckPending,
         \/ InputStep \/ ShutdownStep \/ PackageDamaged
         \/ \E v \in Versions : DownloadStep(v) \/ InstallByHand(v)
  PROVE  CheckPending'
<1>1. /\ queue \in Seq(TaskIds) /\ currentRelease \in TaskIds /\ CheckTask \in TaskIds
      /\ \A v \in Versions : v # CheckTask /\ v \in TaskIds
  BY DEF IInv, TypeOK, ControllerTypeOK
<1>2. CASE UNCHANGED <<gate, queue>>
  BY <1>2 DEF CheckPending, Waits
<1>3. CASE gate' = gate /\ \E t \in TaskIds : Spawn(t)
  BY <1>1, <1>3, SpawnAdds DEF CheckPending
<1>4. ASSUME NEW v \in Versions, DownloadStep(v) PROVE CheckPending'
  <2>1. CASE SkipDownload(v) \/ BeginDownload(v)
    <3>1. gate = Free /\ TakesGate(v)
      BY <1>1, <2>1, TakeRemoves DEF SkipDownload, BeginDownload
    <3> QED
      BY <1>1, <3>1, TakeRemoves, GateFields DEF CheckPending
  <2>2. CASE DownloadAdvances(v) \/ StageDownload(v) \/ ReportDownload(v)
             \/ \E retryable \in BOOLEAN : DownloadFails(v, retryable)
    <3>1. gate.task = v /\ queue' = queue
      BY <2>2 DEF DownloadAdvances, StageDownload, ReportDownload, DownloadFails, Holds, Downloading,
         DownloadSucceeded, AcceptFailure, controllerVars, effectVars
    <3> QED
      BY <1>1, <3>1 DEF CheckPending, Waits
  <2> QED
    BY <1>4, <2>1, <2>2 DEF DownloadStep
<1>5. CASE InputStep
  <2>1. gate' = gate
    BY <1>5 DEF InputStep, RetryTimerFires, CheckTimerFires, UserChecks, UserRetries,
       UserTogglesAutomaticDownload, InputFrame, processVars
  <2>2. queue' = queue \/ Spawn(CheckTask) \/ Spawn(currentRelease)
    BY <1>5 DEF InputStep, RetryTimerFires, CheckTimerFires, UserChecks, UserRetries, StartCheck,
       UserTogglesAutomaticDownload, RetryDue, PeriodicCheckDue, ManualCheck, UserRetry,
       SetAutomaticDownload
  <2> QED
    BY <1>1, <1>2, <1>3, <2>1, <2>2
<1>6. CASE ShutdownStep
  BY <1>2, <1>6 DEF ShutdownStep, RequestShutdown, LookAtRepository, LookAtSnapshot,
     VerifyForInstall, InstallPackage, CompleteInstall, ShutdownFrame, controllerVars, effectVars
<1>7. CASE PackageDamaged \/ \E v \in Versions : InstallByHand(v)
  BY <1>2, <1>7 DEF PackageDamaged, InstallByHand, controllerVars, processVars, effectVars
<1> QED
  BY <1>4, <1>5, <1>6, <1>7

LEMMA PhasePreserved ==
  ASSUME IInv, Next
  PROVE  PhaseInv'
<1>1. /\ TypeOK /\ ProcessInv /\ GateInv /\ ReleaseInv /\ PhaseInv
      /\ queue \in Seq(TaskIds) /\ CheckTask \in TaskIds
      /\ {pending, stagedVersion, currentRelease, held} \subseteq Versions \cup {None}
  BY DEF IInv, TypeOK, ControllerTypeOK
<1> DEFINE Shows(kind, version) == phase'.is = kind /\ phase'.version = version
<1>3. CASE UNCHANGED <<phase, stagedVersion, currentRelease, gate>> /\ (CheckPending => CheckPending')
  BY <1>1, <1>3 DEF PhaseInv
<1>4. CASE Shows("Checking", None) /\ Waits(CheckTask)'
  BY <1>4 DEF PhaseInv, CheckPending
<1>5. CASE Shows("UpToDate", None) \/ Shows("Idle", None)
  BY <1>5 DEF PhaseInv
<1>6. CASE /\ Shows("Staged", stagedVersion') /\ stagedVersion' # None
  BY <1>6 DEF PhaseInv
<1>7. CASE /\ phase'.is \in {"Available", "FailedCheck", "FailedDownload"} /\ stagedVersion' = None
  BY <1>7 DEF PhaseInv
<1>8. ASSUME NEW operation, NEW retryable, AcceptFailure(operation, retryable)
      PROVE  PhaseInv'
  <2>1. CASE stagedVersion # None
    BY <1>6, <1>8, <2>1 DEF AcceptFailure, releaseVars, Show
  <2>2. CASE stagedVersion = None
    BY <1>7, <1>8, <2>2 DEF AcceptFailure, releaseVars, FailureOf, Show
  <2> QED
    BY <2>1, <2>2
<1>9. CASE BootStep
  <2>1. CASE Start
    BY <2>1 DEF Start, StartWith, PhaseInv, CheckPending, Waits, Show
  <2>2. CASE OpenRepository \/ ReconcileCurrentVersion
    BY <1>3, <2>2 DEF OpenRepository, ReconcileCurrentVersion, controllerVars, releaseVars, effectVars,
       CheckPending, Waits
  <2> QED
    BY <1>9, <2>1, <2>2 DEF BootStep
<1>10. CASE CheckStep
  <2>1. CASE BeginCheck \/ PrepareCheckedRelease \/ \E v \in Versions : CheckFinds(v)
    <3>1. UNCHANGED <<phase, stagedVersion, currentRelease>> /\ gate'.task = CheckTask
      BY <2>1, GateFields DEF BeginCheck, PrepareCheckedRelease, CheckFinds, releaseVars, controllerVars
    <3>2. gate.task = CheckTask \/ gate = Free
      BY <1>1, <2>1, TakeRemoves DEF BeginCheck, PrepareCheckedRelease, CheckFinds, Holds
    <3>3. gate.task \notin Versions
      BY <3>2, GateFields
    <3> QED
      BY <1>1, <3>1, <3>3 DEF PhaseInv, CheckPending
  <2>2. CASE CheckFindsNothing
    BY <1>5, <2>2 DEF CheckFindsNothing, NothingNewer, Show
  <2>3. CASE \E retryable \in BOOLEAN : CheckFails(retryable)
    BY <1>8, <2>3 DEF CheckFails
  <2>4. CASE ReportRelease
    <3>1. CASE CheckSucceeded(pending)
      <4>1. pending # None
        BY <1>1, <2>4 DEF ReportRelease, Holds, GateInv, Reporting
      <4>2. CASE pending <= stagedVersion
        <5>1. Shows("Staged", stagedVersion) /\ stagedVersion' = stagedVersion
          BY <3>1, <4>2 DEF CheckSucceeded, releaseVars, Show
        <5> QED
          BY <1>1, <1>6, <4>1, <4>2, <5>1
      <4>3. CASE ~(pending <= stagedVersion)
        BY <1>7, <3>1, <4>3 DEF CheckSucceeded, Show
      <4> QED
        BY <4>2, <4>3
    <3>2. CASE StagingDiscardFailed
      BY <1>7, <3>2 DEF StagingDiscardFailed, Show
    <3> QED
      BY <2>4, <3>1, <3>2 DEF ReportRelease
  <2> QED
    BY <1>10, <2>1, <2>2, <2>3, <2>4 DEF CheckStep
<1>11. ASSUME NEW v \in Versions, DownloadStep(v) PROVE PhaseInv'
  <2>1. CheckPending => CheckPending'
    BY <1>11, CheckGoesOn
  <2>2. CASE SkipDownload(v) \/ StageDownload(v)
    <3>1. UNCHANGED <<phase, stagedVersion, currentRelease>>
      BY <2>2 DEF SkipDownload, StageDownload, controllerVars, releaseVars
    <3>2. gate' = gate \/ gate'.task = v
      BY <2>2, GateFields DEF SkipDownload, StageDownload
    <3> QED
      BY <1>1, <2>1, <3>1, <3>2 DEF PhaseInv
  <2>3. CASE BeginDownload(v) \/ DownloadAdvances(v)
    <3>1. UNCHANGED <<stagedVersion, currentRelease>> /\ gate'.task = v /\ phase' = DownloadingPhase
      BY <2>3, GateFields DEF BeginDownload, DownloadAdvances, Downloading, releaseVars, Holds
    <3>2. CASE currentRelease # None
      BY <3>1, <3>2 DEF DownloadingPhase, PhaseInv, Show
    <3>3. CASE currentRelease = None
      BY <1>1, <2>1, <3>1, <3>3 DEF DownloadingPhase, PhaseInv
    <3> QED
      BY <3>2, <3>3
  <2>4. CASE \E retryable \in BOOLEAN : AcceptFailure("download", retryable)
    BY <1>8, <2>4
  <2>5. CASE DownloadSucceeded
    <3>1. CASE currentRelease # None
      BY <1>6, <2>5, <3>1 DEF DownloadSucceeded, Show
    <3>2. CASE currentRelease = None
      <4>1. phase.is # "Downloading" /\ UNCHANGED <<phase, stagedVersion, currentRelease>>
        BY <1>1, <2>5, <3>2 DEF DownloadSucceeded, PhaseInv
      <4> QED
        BY <1>1, <2>1, <4>1 DEF PhaseInv
    <3> QED
      BY <3>1, <3>2
  <2> QED
    BY <1>11, <2>2, <2>3, <2>4, <2>5 DEF DownloadStep, ReportDownload, DownloadFails
<1>12. CASE InputStep
  <2>1. UNCHANGED <<gate, stagedVersion, currentRelease>>
    BY <1>12 DEF InputStep, RetryTimerFires, CheckTimerFires, UserChecks, UserRetries,
       UserTogglesAutomaticDownload, RetryDue, PeriodicCheckDue, ManualCheck, UserRetry,
       SetAutomaticDownload, releaseVars, InputFrame, processVars
  <2>2. phase' = phase \/ (Spawn(CheckTask) /\ Shows("Checking", None))
    BY <1>12 DEF InputStep, RetryTimerFires, CheckTimerFires, UserChecks, UserRetries, StartCheck,
       UserTogglesAutomaticDownload, RetryDue, PeriodicCheckDue, ManualCheck, UserRetry,
       SetAutomaticDownload, Show
  <2>3. CheckPending => CheckPending'
    BY <1>12, CheckGoesOn
  <2> QED
    BY <1>1, <1>3, <1>4, <2>1, <2>2, <2>3, SpawnAdds
<1>13. CASE ShutdownStep \/ PackageDamaged \/ \E v \in Versions : InstallByHand(v)
  <2>1. UNCHANGED <<phase, stagedVersion, currentRelease, gate>>
    BY <1>13 DEF ShutdownStep, RequestShutdown, LookAtRepository, LookAtSnapshot,
       VerifyForInstall, InstallPackage, CompleteInstall, ShutdownFrame, PackageDamaged,
       InstallByHand, controllerVars, processVars, releaseVars
  <2>2. CheckPending => CheckPending'
    BY <1>13, CheckGoesOn
  <2> QED
    BY <1>3, <2>1, <2>2
<1>14. CASE ProcessEnds \/ InstallerTakesOver
  BY <1>5, <1>14 DEF ProcessEnds, InstallerTakesOver, Reset, Show
<1> QED
  BY <1>9, <1>10, <1>11, <1>12, <1>13, <1>14, NextIs DEF OutsideStep

-----------------------------------------------------------------------------
(* The active operation. *)

LEMMA ActivePreserved ==
  ASSUME IInv, Next
  PROVE  ActiveInv'
<1>1. /\ TypeOK /\ ProcessInv /\ GateInv /\ ReleaseInv /\ PhaseInv /\ ActiveInv
      /\ queue \in Seq(TaskIds) /\ CheckTask \in TaskIds
      /\ pending \in TaskIds /\ stagedVersion \in TaskIds /\ currentRelease \in TaskIds
      /\ \A v \in Versions : v \in TaskIds /\ v # CheckTask
  BY DEF IInv, TypeOK, ControllerTypeOK
<1>2. CASE ~operationActive'
  BY <1>2 DEF ActiveInv
<1>3. CASE CheckPending'
  BY <1>3 DEF ActiveInv
<1>4. ASSUME UNCHANGED <<operationActive, gate, pending, pendingRetry, currentRelease, stagedVersion>>,
             CheckPending => CheckPending', Waits(pending) => Waits(pending)'
      PROVE  ActiveInv'
  BY <1>1, <1>4 DEF ActiveInv, Superseded, Waits
<1>5. ASSUME currentRelease # None, Spawn(currentRelease),
             UNCHANGED <<gate, pending, currentRelease>>
      PROVE  \/ CheckPending' \/ Waits(pending)'
             \/ currentRelease = stagedVersion /\ pending < stagedVersion
  <2>1. Waits(currentRelease)'
    BY <1>1, <1>5, SpawnAdds
  <2>2. CASE Reporting
    <3>1. gate.task = CheckTask
      BY <1>1, <2>2, GateFields DEF GateInv, Reporting, TypeOK
    <3> QED
      BY <1>5, <3>1 DEF CheckPending
  <2>3. CASE ~Reporting
    <3>1. CASE currentRelease = pending
      BY <1>5, <2>1, <3>1 DEF Waits
    <3>2. CASE currentRelease = stagedVersion /\ currentRelease # pending
      BY <1>1, <1>5, <2>3, <3>2 DEF ReleaseInv
    <3> QED
      BY <1>1, <1>5, <2>3, <3>1, <3>2 DEF ReleaseInv
  <2> QED
    BY <2>2, <2>3
<1>6. CASE BootStep
  <2>1. CASE Start
    BY <2>1 DEF Start, StartWith, ActiveInv, CheckPending, Waits
  <2>2. CASE OpenRepository \/ ReconcileCurrentVersion
    BY <1>1, <1>2, <2>2 DEF OpenRepository, ReconcileCurrentVersion, controllerVars, ProcessInv
  <2> QED
    BY <1>6, <2>1, <2>2 DEF BootStep
<1>7. CASE CheckStep
  <2>1. CASE BeginCheck \/ PrepareCheckedRelease \/ \E v \in Versions : CheckFinds(v)
    BY <1>3, <2>1, GateFields DEF BeginCheck, PrepareCheckedRelease, CheckFinds, CheckPending
  <2>2. CASE CheckFindsNothing \/ \E retryable \in BOOLEAN : CheckFails(retryable)
    BY <1>2, <2>2 DEF CheckFindsNothing, NothingNewer, CheckFails, AcceptFailure
  <2>3. CASE ReportRelease
    <3>1. ~operationActive' \/ Spawn(pending)
      BY <2>3 DEF ReportRelease, CheckSucceeded, StagingDiscardFailed
    <3>2. pending' = pending
      BY <2>3 DEF ReportRelease, ReleasesGate
    <3>3. CASE Spawn(pending)
      BY <1>1, <3>2, <3>3, SpawnAdds DEF ActiveInv, Waits
    <3> QED
      BY <1>2, <3>1, <3>3
  <2> QED
    BY <1>7, <2>1, <2>2, <2>3 DEF CheckStep
<1>8. ASSUME NEW v \in Versions, DownloadStep(v) PROVE ActiveInv'
  <2>1. CASE SkipDownload(v)
    <3>1. UNCHANGED <<operationActive, gate, pending, pendingRetry, currentRelease, stagedVersion>>
      BY <2>1 DEF SkipDownload, releaseVars
    <3>2. Waits(pending) => Waits(pending)'
      <4>1. TakesGate(v) /\ pending # v /\ pending' = pending
        BY <2>1 DEF SkipDownload
      <4> QED
        BY <1>1, <4>1, TakeRemoves DEF Waits
    <3>3. CheckPending => CheckPending'
      BY <1>8, CheckGoesOn
    <3> QED
      BY <1>4, <3>1, <3>2, <3>3
  <2>2. CASE BeginDownload(v) \/ DownloadAdvances(v) \/ StageDownload(v)
    <3>1. gate'.task = v
      BY <2>2, GateFields DEF BeginDownload, DownloadAdvances, StageDownload, Holds
    <3> QED
      BY <3>1 DEF ActiveInv
  <2>3. CASE ReportDownload(v) \/ \E retryable \in BOOLEAN : DownloadFails(v, retryable)
    BY <1>2, <2>3 DEF ReportDownload, DownloadFails, DownloadSucceeded, AcceptFailure
  <2> QED
    BY <1>8, <2>1, <2>2, <2>3 DEF DownloadStep
<1>9. CASE InputStep
  <2>1. UNCHANGED <<gate, pending, currentRelease, stagedVersion>>
    BY <1>9 DEF InputStep, RetryTimerFires, CheckTimerFires, UserChecks, UserRetries,
       UserTogglesAutomaticDownload, RetryDue, PeriodicCheckDue, ManualCheck, UserRetry,
       SetAutomaticDownload, releaseVars, InputFrame, processVars
  <2>2. CASE Spawn(CheckTask)
    BY <1>1, <1>3, <2>2, SpawnAdds DEF CheckPending
  <2>3. CASE /\ currentRelease # None /\ Spawn(currentRelease)
             /\ \/ stagedVersion = None
                \/ pendingRetry'.operation = "download"
    <3>1. CASE CheckPending' \/ Waits(pending)'
      BY <3>1 DEF ActiveInv
    <3>2. CASE currentRelease = stagedVersion /\ pending < stagedVersion
      BY <1>1, <2>1, <2>3, <3>2 DEF ActiveInv, Superseded
    <3> QED
      BY <1>5, <2>1, <2>3, <3>1, <3>2
  <2>4. CASE UNCHANGED <<operationActive, queue>> /\ (pendingRetry' = pendingRetry \/ stagedVersion = None)
    <3>1. (CheckPending => CheckPending') /\ (Waits(pending) => Waits(pending)')
      BY <2>1, <2>4 DEF CheckPending, Waits
    <3>2. CASE pendingRetry' = pendingRetry
      BY <1>4, <2>1, <2>4, <3>1, <3>2
    <3>3. CASE stagedVersion = None
      <4>1. ~Superseded
        BY <1>1, <3>3 DEF Superseded
      <4> QED
        BY <1>1, <2>1, <2>4, <3>1, <4>1 DEF ActiveInv
    <3> QED
      BY <2>4, <3>2, <3>3
  <2>5. CASE RetryTimerFires
    BY <2>2, <2>3, <2>4, <2>5 DEF RetryTimerFires, RetryDue
  <2>6. CASE CheckTimerFires \/ UserChecks
    BY <2>2, <2>4, <2>6 DEF CheckTimerFires, UserChecks, PeriodicCheckDue, ManualCheck, StartCheck
  <2>7. CASE UserRetries
    <3>1. stagedVersion = None
      BY <1>1, <2>7 DEF UserRetries, UserRetry, PhaseInv
    <3> QED
      BY <2>2, <2>3, <2>4, <2>7, <3>1 DEF UserRetries, UserRetry, StartCheck
  <2>8. CASE UserTogglesAutomaticDownload
    <3>1. phase.is = "Available" => stagedVersion = None
      BY <1>1 DEF PhaseInv
    <3> QED
      BY <2>3, <2>4, <2>8, <3>1 DEF UserTogglesAutomaticDownload, SetAutomaticDownload
  <2> QED
    BY <1>9, <2>5, <2>6, <2>7, <2>8 DEF InputStep
<1>10. CASE ShutdownStep \/ PackageDamaged \/ \E v \in Versions : InstallByHand(v)
  <2>1. UNCHANGED <<operationActive, gate, pending, pendingRetry, currentRelease, stagedVersion, queue>>
    BY <1>10 DEF ShutdownStep, RequestShutdown, LookAtRepository, LookAtSnapshot,
       VerifyForInstall, InstallPackage, CompleteInstall, ShutdownFrame, PackageDamaged,
       InstallByHand, controllerVars, processVars, releaseVars, effectVars
  <2> QED
    BY <1>4, <2>1 DEF CheckPending, Waits
<1>11. CASE ProcessEnds \/ InstallerTakesOver
  BY <1>2, <1>11 DEF ProcessEnds, InstallerTakesOver, Reset
<1> QED
  BY <1>6, <1>7, <1>8, <1>9, <1>10, <1>11, NextIs DEF OutsideStep

-----------------------------------------------------------------------------
(* What is held, and what may be installed. *)

\* Nothing comes after the end of the shutdown thread but the exit.
LEMMA DoneIsLast ==
  ASSUME Next, shutdown = "done"
  PROVE  shutdown' = "done" \/ ProcessEnds \/ InstallerTakesOver
  BY NextIs DEF BootStep, CheckStep, DownloadStep, InputStep, ShutdownStep, OutsideStep,
     OpenRepository, ReconcileCurrentVersion, Start, BeginCheck, CheckFindsNothing, CheckFails,
     CheckFinds, PrepareCheckedRelease, ReportRelease, TaskFrame, ReleasesGate, SkipDownload,
     BeginDownload, DownloadAdvances, StageDownload, ReportDownload, DownloadFails,
     RetryTimerFires, CheckTimerFires, UserChecks, UserRetries, UserTogglesAutomaticDownload,
     InputFrame, RequestShutdown, LookAtRepository, LookAtSnapshot, VerifyForInstall,
     InstallPackage, CompleteInstall, InstallByHand, PackageDamaged,
     processVars, NextAfterSlot, NextAfterPhase

LEMMA HeldPreserved ==
  ASSUME IInv, Next
  PROVE  HeldInv'
<1>1. /\ TypeOK /\ ProcessInv /\ GateInv /\ ReleaseInv /\ HeldInv
      /\ {pending, stagedVersion, currentRelease, held} \subseteq Nat
  BY DEF IInv, TypeOK, ControllerTypeOK
<1>2. CASE ProcessEnds \/ InstallerTakesOver
  BY <1>2, GateFields DEF ProcessEnds, InstallerTakesOver, Reset, HeldInv
<1>3. CASE shutdown' = "done"
  BY <1>3 DEF HeldInv
<1>4. ASSUME shutdown # "done", UNCHANGED <<stagedVersion, held, pending>>,
             \/ gate' = gate
             \/ gate.at \notin {"discarded", "staged"} /\ gate'.at # "staged"
      PROVE  HeldInv'
  BY <1>1, <1>4 DEF HeldInv
<1>5. CASE BootStep /\ shutdown # "done"
  <2>1. CASE Start
    <3>1. /\ stagedVersion' = (IF held > application THEN held ELSE None) /\ held' = held
          /\ gate' = Free
      BY <1>1, <2>1 DEF Start, StartWith, slotVars, ProcessInv
    <3> QED
      BY <3>1, GateFields DEF HeldInv
  <2>2. CASE OpenRepository \/ ReconcileCurrentVersion
    <3>1. stagedVersion' = None /\ gate' = Free
      BY <1>1, <2>2 DEF OpenRepository, ReconcileCurrentVersion, controllerVars, releaseVars, ProcessInv
    <3> QED
      BY <3>1, GateFields DEF HeldInv
  <2> QED
    BY <1>5, <2>1, <2>2 DEF BootStep
<1>6. CASE CheckStep /\ shutdown # "done"
  <2>1. CASE BeginCheck
    <3>1. gate = Free /\ gate'.at = "asked" /\ UNCHANGED <<stagedVersion, held, pending>>
      BY <2>1, GateFields DEF BeginCheck, TakesGate, releaseVars, slotVars
    <3> QED
      BY <1>4, <1>6, <3>1, GateFields
  <2>2. CASE CheckFindsNothing \/ \E retryable \in BOOLEAN : CheckFails(retryable)
    <3>1. gate.at = "asked" /\ gate' = Free /\ UNCHANGED <<stagedVersion, held, pending>>
      BY <2>2 DEF CheckFindsNothing, CheckFails, NothingNewer, AcceptFailure, releaseVars, slotVars,
         Holds, ReleasesGate
    <3> QED
      BY <1>4, <1>6, <3>1, GateFields
  <2>3. CASE \E v \in Versions : CheckFinds(v)
    <3>1. gate.at = "asked" /\ gate'.at = "found" /\ UNCHANGED <<stagedVersion, held>>
      BY <2>3, GateFields DEF CheckFinds, Holds, controllerVars, releaseVars, slotVars
    <3> QED
      BY <1>1, <1>6, <3>1 DEF HeldInv
  <2>4. CASE PrepareCheckedRelease
    <3>1. gate.at = "found" /\ UNCHANGED <<stagedVersion, pending>>
      BY <2>4 DEF PrepareCheckedRelease, Holds, controllerVars, releaseVars
    <3>2. CASE held' = held
      <4>1. gate'.at # "staged"
        BY <2>4, GateFields DEF PrepareCheckedRelease
      <4> QED
        BY <1>4, <1>6, <3>1, <3>2, <4>1
    <3>3. CASE held' # held
      <4>1. held' = None /\ pending > held /\ gate'.at = "discarded"
        BY <2>4, <3>3, GateFields DEF PrepareCheckedRelease, Slot!Clear, Slot!ClearFails, slotVars
      <4> QED
        BY <1>1, <1>6, <3>1, <4>1 DEF HeldInv
    <3> QED
      BY <3>2, <3>3
  <2>5. CASE ReportRelease
    <3>1. gate' = Free /\ UNCHANGED <<pending, held>>
      BY <2>5 DEF ReportRelease, ReleasesGate, slotVars
    <3>2. stagedVersion' = None \/ (stagedVersion' = stagedVersion /\ pending <= stagedVersion)
      BY <2>5 DEF ReportRelease, CheckSucceeded, StagingDiscardFailed, releaseVars
    <3> QED
      BY <1>1, <1>6, <3>1, <3>2, GateFields DEF HeldInv
  <2> QED
    BY <1>6, <2>1, <2>2, <2>3, <2>4, <2>5 DEF CheckStep
<1>7. ASSUME NEW v \in Versions, DownloadStep(v), shutdown # "done" PROVE HeldInv'
  <2>1. CASE SkipDownload(v) \/ DownloadAdvances(v)
    BY <1>4, <1>7, <2>1 DEF SkipDownload, DownloadAdvances, Downloading, releaseVars, slotVars
  <2>2. CASE BeginDownload(v)
    <3>1. gate = Free /\ gate'.at = "streaming" /\ UNCHANGED <<stagedVersion, held, pending>>
      BY <2>2, GateFields DEF BeginDownload, TakesGate, releaseVars, slotVars
    <3> QED
      BY <1>4, <1>7, <3>1, GateFields
  <2>3. CASE StageDownload(v)
    <3>1. /\ gate.at = "streaming" /\ pending = v /\ ~Reporting
          /\ UNCHANGED <<stagedVersion, pending>>
      BY <1>1, <2>3 DEF StageDownload, Holds, controllerVars, releaseVars, GateInv, Reporting
    <3>2. CASE stagedVersion = None
      <4>1. gate'.at = "staged" => held' = v
        BY <2>3, GateFields DEF StageDownload, Slot!Stage
      <4> QED
        BY <3>1, <3>2, <4>1 DEF HeldInv
    <3>3. CASE stagedVersion # None
      <4>1. held = stagedVersion /\ v <= held
        BY <1>1, <1>7, <3>1, <3>3 DEF HeldInv, ReleaseInv
      <4>2. ~Slot!Admits(v)
        BY <1>1, <3>3, <4>1 DEF Slot!Admits
      <4>3. gate'.at = "unstaged" /\ held' = held
        BY <2>3, <4>2, GateFields DEF StageDownload, Slot!Stage, Slot!StageFails, slotVars
      <4> QED
        BY <1>4, <1>7, <3>1, <4>3
    <3> QED
      BY <3>2, <3>3
  <2>4. CASE \E retryable \in BOOLEAN : DownloadFails(v, retryable) \/ (ReportDownload(v) /\ Holds(v, "unstaged"))
    <3>1. gate.at \in {"streaming", "unstaged"} /\ gate' = Free /\ UNCHANGED <<held, pending>>
      BY <2>4 DEF DownloadFails, ReportDownload, ReleasesGate, Holds, slotVars
    <3>2. stagedVersion' = stagedVersion
      BY <2>4 DEF DownloadFails, ReportDownload, AcceptFailure, releaseVars, Holds
    <3> QED
      BY <1>4, <1>7, <3>1, <3>2, GateFields
  <2>5. CASE ReportDownload(v) /\ Holds(v, "staged")
    <3>1. /\ stagedVersion = None /\ held = pending /\ ~Reporting
          /\ gate' = Free /\ UNCHANGED <<held, pending>> /\ DownloadSucceeded
      BY <1>1, <1>7, <2>5 DEF ReportDownload, ReleasesGate, Holds, slotVars, HeldInv, Reporting
    <3>2. stagedVersion' \in {None, pending}
      BY <1>1, <3>1 DEF DownloadSucceeded, ReleaseInv
    <3> QED
      BY <3>1, <3>2, GateFields DEF HeldInv
  <2> QED
    BY <1>7, <2>1, <2>2, <2>3, <2>4, <2>5 DEF DownloadStep, ReportDownload
<1>8. CASE (InputStep \/ ShutdownStep \/ PackageDamaged \/ \E v \in Versions : InstallByHand(v))
           /\ shutdown # "done" /\ shutdown' # "done"
  <2>1. UNCHANGED <<gate, pending, stagedVersion>>
    BY <1>8 DEF InputStep, RetryTimerFires, CheckTimerFires, UserChecks, UserRetries,
       UserTogglesAutomaticDownload, RetryDue, PeriodicCheckDue, ManualCheck, UserRetry,
       SetAutomaticDownload, InputFrame, ShutdownStep, RequestShutdown, LookAtRepository,
       LookAtSnapshot, VerifyForInstall, InstallPackage, CompleteInstall, ShutdownFrame,
       PackageDamaged, InstallByHand, controllerVars, processVars, releaseVars
  <2>2. held' = held
    BY <1>8 DEF InputStep, RetryTimerFires, CheckTimerFires, UserChecks, UserRetries,
       UserTogglesAutomaticDownload, InputFrame, ShutdownStep, RequestShutdown, LookAtRepository,
       LookAtSnapshot, VerifyForInstall, InstallPackage, CompleteInstall, PackageDamaged,
       InstallByHand, slotVars, Slot!Damage
  <2> QED
    BY <1>4, <1>8, <2>1, <2>2
<1> QED
  BY <1>2, <1>3, <1>5, <1>6, <1>7, <1>8, NextIs, DoneIsLast DEF OutsideStep

LEMMA InstallPreserved ==
  ASSUME IInv, Next
  PROVE  InstallInv'
<1>1. /\ TypeOK /\ ProcessInv /\ GateInv /\ ReleaseInv /\ PhaseInv /\ HeldInv /\ InstallInv
      /\ {pending, stagedVersion, held, current} \subseteq Nat
  BY DEF IInv, TypeOK, ControllerTypeOK
<1>2. CASE shutdown' = "none"
  BY <1>2 DEF InstallInv
<1>3. CASE UNCHANGED <<shutdown, held, current>>
  BY <1>1, <1>3 DEF InstallInv
<1>4. CASE UNCHANGED <<shutdown, current>> /\ ~Locked /\ (held' \in {held, None} \/ held' > current)
  BY <1>1, <1>4 DEF InstallInv, Locked
<1>5. CASE BootStep
  BY <1>1, <1>2, <1>5 DEF BootStep, OpenRepository, ReconcileCurrentVersion, Start, ProcessInv
<1>6. CASE CheckStep
  <2>1. UNCHANGED <<shutdown, current>>
    BY <1>6 DEF CheckStep, BeginCheck, CheckFindsNothing, CheckFails, CheckFinds, TaskFrame,
       PrepareCheckedRelease, ReportRelease, ReleasesGate, NothingNewer, AcceptFailure,
       CheckSucceeded, StagingDiscardFailed, controllerVars
  <2>2. CASE PrepareCheckedRelease
    BY <1>4, <2>1, <2>2 DEF PrepareCheckedRelease, Slot!Clear, Slot!ClearFails, slotVars
  <2>3. held' = held \/ PrepareCheckedRelease
    BY <1>6 DEF CheckStep, BeginCheck, CheckFindsNothing, CheckFails, CheckFinds, ReportRelease, slotVars
  <2> QED
    BY <1>3, <2>1, <2>2, <2>3
<1>7. ASSUME NEW v \in Versions, DownloadStep(v) PROVE InstallInv'
  <2>1. UNCHANGED <<shutdown, current>>
    BY <1>7 DEF DownloadStep, SkipDownload, BeginDownload, DownloadAdvances, StageDownload,
       ReportDownload, DownloadFails, TaskFrame, ReleasesGate, Downloading, AcceptFailure,
       DownloadSucceeded, controllerVars
  <2>2. CASE StageDownload(v)
    <3>1. v > current
      BY <1>1, <2>2 DEF StageDownload, Holds, GateInv
    <3>2. ~Locked /\ (held' \in {held, None} \/ held' > current)
      BY <2>2, <3>1 DEF StageDownload, Slot!Stage, Slot!StageFails, slotVars
    <3> QED
      BY <1>4, <2>1, <3>2
  <2>3. held' = held \/ StageDownload(v)
    BY <1>7 DEF DownloadStep, SkipDownload, BeginDownload, DownloadAdvances, ReportDownload,
       DownloadFails, slotVars
  <2> QED
    BY <1>3, <2>1, <2>2, <2>3
<1>8. CASE InputStep
  BY <1>3, <1>8 DEF InputStep, RetryTimerFires, CheckTimerFires, UserChecks, UserRetries,
     UserTogglesAutomaticDownload, RetryDue, PeriodicCheckDue, ManualCheck, UserRetry,
     SetAutomaticDownload, InputFrame, processVars, slotVars
<1>9. CASE ShutdownStep
  <2>1. CASE RequestShutdown \/ InstallPackage \/ CompleteInstall
    BY <2>1 DEF RequestShutdown, InstallPackage, CompleteInstall, InstallInv
  <2>2. CASE LookAtRepository \/ LookAtSnapshot
    <3>1. UNCHANGED <<held, current>>
      BY <2>2 DEF LookAtRepository, LookAtSnapshot, ShutdownFrame, controllerVars, slotVars
    <3>2. \/ shutdown = "stopping" /\ shutdown' = "sawSlot"
          \/ shutdown = "allowed" /\ shutdown' = "sawSlotAgain"
          \/ shutdown = "sawSlotAgain" /\ shutdown' = "locking"
          \/ shutdown = "sawSlot" /\ shutdown' = "allowed" /\ phase.is = "Staged"
      BY <2>2 DEF LookAtRepository, LookAtSnapshot, NextAfterSlot, NextAfterPhase
    <3>3. CASE shutdown = "sawSlot" /\ shutdown' = "allowed" /\ phase.is = "Staged"
      <4>1. stagedVersion # None /\ stagedVersion > current /\ held \in {None, stagedVersion}
        BY <1>1, <3>3 DEF PhaseInv, ReleaseInv, HeldInv
      <4> QED
        BY <3>1, <3>3, <4>1 DEF InstallInv
    <3> QED
      BY <1>1, <3>1, <3>2, <3>3 DEF InstallInv
  <2>3. CASE VerifyForInstall
    BY <1>1, <2>3 DEF VerifyForInstall, ShutdownFrame, controllerVars, slotVars, InstallInv
  <2> QED
    BY <1>9, <2>1, <2>2, <2>3 DEF ShutdownStep
<1>10. CASE OutsideStep
  BY <1>2, <1>3, <1>10 DEF OutsideStep, ProcessEnds, InstallerTakesOver, PackageDamaged,
     InstallByHand, Reset, controllerVars, processVars, slotVars, Slot!Damage
<1> QED
  BY <1>5, <1>6, <1>7, <1>8, <1>9, <1>10, NextIs

-----------------------------------------------------------------------------
(* The invariant. *)

LEMMA InitImplies ==
  ASSUME Init
  PROVE  IInv
<1>1. TypeOK
  <2>1. /\ Show("Idle", None, FALSE) \in Phases /\ NoRetry \in Retries
        /\ Free \in [task : TaskIds \cup {NoTask}, at : GatePoints]
    BY ShownIsTyped DEF Free, GatePoints
  <2>2. ControllerTypeOK
    <3>1. phase \in Phases /\ pendingRetry \in Retries
      BY <2>1 DEF Init
    <3>2. queue \in Seq(TaskIds) /\ Len(queue) <= MaxActivities /\ retryTimers \in 0..MaxActivities
      BY DEF Init
    <3>3. /\ {current, currentRelease, stagedVersion} \subseteq {None}
          /\ {operationActive, automaticDownload, checkArmed} \subseteq BOOLEAN
      BY DEF Init
    <3> QED
      BY <3>1, <3>2, <3>3 DEF ControllerTypeOK, Phases, Retries
  <2>3. /\ held \in Versions \cup {None} /\ confirmed \in BOOLEAN /\ lazy \in BOOLEAN
        /\ onDisk \in (SUBSET (Versions \cup {None})) \ {{}}
    BY DEF Init, Slot!Init
  <2>4. /\ application \in Versions /\ boot = "down" /\ repository = FALSE /\ pending = None
        /\ gate = Free /\ shutdown \in ShutdownPoints
    BY DEF Init, ShutdownPoints
  <2> QED
    BY <2>1, <2>2, <2>3, <2>4 DEF TypeOK
<1>2. CountInv
  BY DEF Init, CountInv, Operations
<1>3. ProcessInv /\ GateInv /\ ReleaseInv
  BY GateFields DEF Init, Slot!Init, ProcessInv, GateInv, ReleaseInv, Reporting, Show
<1>4. PhaseInv /\ ActiveInv /\ HeldInv /\ InstallInv
  BY GateFields DEF Init, PhaseInv, ActiveInv, HeldInv, InstallInv, Show
<1> QED
  BY <1>1, <1>2, <1>3, <1>4 DEF IInv

LEMMA StutterPreserves ==
  ASSUME IInv, UNCHANGED vars
  PROVE  IInv'
<1>1. UNCHANGED <<current, phase, currentRelease, stagedVersion, operationActive, pendingRetry,
                  automaticDownload, queue, retryTimers, checkArmed, application, boot,
                  repository, pending, gate, shutdown, held, onDisk, confirmed, lazy>>
  BY DEF vars, controllerVars, releaseVars, effectVars, processVars, slotVars
<1>2. TypeOK' /\ CountInv'
  BY <1>1 DEF IInv, TypeOK, ControllerTypeOK, CountInv, Operations
<1>3. ProcessInv' /\ GateInv' /\ ReleaseInv'
  BY <1>1 DEF IInv, ProcessInv, GateInv, ReleaseInv, Reporting
<1>4. (CheckPending => CheckPending') /\ (Waits(pending) => Waits(pending)')
  BY <1>1 DEF CheckPending, Waits
<1>5. PhaseInv'
  BY <1>1, <1>4 DEF IInv, PhaseInv
<1>6. ActiveInv'
  BY <1>1, <1>4 DEF IInv, ActiveInv, Superseded
<1>7. HeldInv' /\ InstallInv'
  BY <1>1 DEF IInv, HeldInv, InstallInv
<1> QED
  BY <1>2, <1>3, <1>5, <1>6, <1>7 DEF IInv

LEMMA Invariant == Spec => []IInv
<1>1. Init => IInv
  BY InitImplies
<1>2. IInv /\ [Next]_vars => IInv'
  <2>1. IInv /\ Next => IInv'
    BY TypesPreserved, ProcessPreserved, GatePreserved, ReleasePreserved, PhasePreserved,
       ActivePreserved, HeldPreserved, InstallPreserved DEF IInv
  <2> QED
    BY <2>1, StutterPreserves
<1> QED
  BY <1>1, <1>2, PTL DEF Spec

-----------------------------------------------------------------------------
(* The theorems. *)

\* The controller, the gate and the repository hold what their types say, and the
\* queue and the timers stay within the room the inputs ask for.
THEOREM UpdaterTypeCorrect == Spec => []TypeOK
<1>1. IInv => TypeOK
  BY DEF IInv
<1> QED
  BY <1>1, Invariant, PTL

\* A snapshot that says checking has a check at the gate or waiting for it, and one
\* that says downloading a download at the gate: no spinner without a task that will
\* end it (mod.rs start_check, start_download; tauri_adapter.rs check_stable).
THEOREM BusyPhaseHasTask == Spec => []BusyPhaseIsTrue
<1>1. IInv => BusyPhaseIsTrue
  <2>1. ASSUME IInv, gate.task \in Versions
        PROVE  Operations > 0
    <3>1. gate # Free
      BY <2>1, GateFields
    <3>2. Len(queue) \in Nat
      BY <2>1 DEF IInv, TypeOK, ControllerTypeOK
    <3> QED
      BY <3>1, <3>2 DEF Operations
  <2> QED
    BY <2>1 DEF IInv, PhaseInv, BusyPhaseIsTrue, CheckPending, Waits
<1> QED
  BY <1>1, Invariant, PTL

\* The operation slot is taken by a task that waits or runs, or by the retry of a
\* release that is staged already: nothing else loses the report that frees it
\* (mod.rs operation_in_flight, retry; tauri_adapter.rs download_pending).
THEOREM ActiveOperationIsCarried == Spec => []ActiveOperationHasTask
<1>1. IInv => ActiveOperationHasTask
  <2>1. ASSUME IInv, NEW task, Waits(task) \/ gate.task \in TaskIds
        PROVE  Operations > 0
    <3>1. gate = Free \/ gate # Free
      OBVIOUS
    <3>2. queue \in Seq(TaskIds) /\ Len(queue) \in Nat
      BY <2>1 DEF IInv, TypeOK, ControllerTypeOK
    <3>3. gate # Free \/ Len(queue) > 0
      BY <2>1, <3>2, GateFields DEF Waits
    <3> QED
      BY <3>2, <3>3 DEF Operations
  <2>2. ASSUME IInv, operationActive
        PROVE  Operations > 0 \/ Superseded
    <3>1. CASE CheckPending
      BY <2>1, <2>2, <3>1 DEF CheckPending
    <3>2. CASE gate.task \in Versions
      BY <2>1, <2>2, <3>2
    <3>3. CASE Waits(pending)
      BY <2>1, <2>2, <3>3
    <3> QED
      BY <2>2, <3>1, <3>2, <3>3 DEF IInv, ActiveInv
  <2> QED
    BY <2>2 DEF ActiveOperationHasTask
<1> QED
  BY <1>1, Invariant, PTL

\* What the user is told is ready is what the repository would install, or nothing
\* would be installed (mod.rs accept_check_result, finish_download; staging.rs).
THEOREM StagedIsWhatIsHeld == Spec => []ShownStagedIsHeld
<1>1. IInv => ShownStagedIsHeld
  BY DEF IInv, PhaseInv, HeldInv, ShownStagedIsHeld
<1> QED
  BY <1>1, Invariant, PTL

\* The application is replaced by a newer release only, whatever an earlier version
\* of it has left in the staging directory and whatever the repository loses between
\* the two looks of the shutdown thread (main.rs request_shutdown; tauri_adapter.rs
\* install_staged; staging.rs reconcile_current_version).
THEOREM NeverDowngrades == Spec => NoDowngrade
<1>1. ASSUME IInv, Next, application' # application
      PROVE  application' > application
  <2>1. \/ application' = held /\ shutdown = "verified"
        \/ \E v \in Versions : application' = v /\ v > application
    BY <1>1 DEF Next, OpenRepository, ReconcileCurrentVersion, Start, TaskStep, BeginCheck,
       CheckFindsNothing, CheckFails, CheckFinds, PrepareCheckedRelease, ReportRelease, SkipDownload,
       BeginDownload, DownloadAdvances, StageDownload, ReportDownload, DownloadFails, TaskFrame,
       ReleasesGate, RetryTimerFires, CheckTimerFires, UserChecks, UserRetries, InputFrame,
       UserTogglesAutomaticDownload, RequestShutdown, LookAtRepository, LookAtSnapshot,
       VerifyForInstall, InstallPackage, CompleteInstall, ShutdownFrame, ProcessEnds,
       InstallerTakesOver, InstallByHand, PackageDamaged
  <2>2. shutdown = "verified" => application = current /\ held > current
    BY <1>1 DEF IInv, TypeOK, ProcessInv, InstallInv
  <2> QED
    BY <2>1, <2>2
<1>2. IInv /\ [Next]_vars => [application' # application => application' > application]_vars
  BY <1>1
<1> QED
  BY <1>2, Invariant, PTL DEF Spec, NoDowngrade
=============================================================================
