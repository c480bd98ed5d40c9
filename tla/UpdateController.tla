---------------------------- MODULE UpdateController ----------------------------
(***************************************************************************)
(* The update state machine (app_update/mod.rs): what each input does to   *)
(* the controller and which effects it asks for.  handle runs under the    *)
(* controller's lock, so an input is one step; the effects of an input are *)
(* added to the tasks and timers of the runtime in that step               *)
(* (execute_effect spawns them, and the gate lets them in in that order).  *)
(***************************************************************************)
EXTENDS Integers, Sequences

CONSTANTS
    MaxVersion,     \* bound: releases are numbered 1..MaxVersion
    MaxActivities   \* bound on the tasks and retry timers alive at once

ASSUME ConstantsAssumption ==
    /\ MaxVersion \in Nat \ {0}
    /\ MaxActivities \in Nat \ {0}

Versions == 1..MaxVersion
None == 0
CheckTask == 0                       \* a task is a check, or the download of a version
TaskIds == {CheckTask} \cup Versions
MaxAutomaticRetries == 3

VARIABLES
    current,            \* current_version of the running process, None when down
    phase,              \* snapshot.state
    currentRelease,     \* current_release
    stagedVersion,      \* staged_version
    operationActive,    \* operation_active
    pendingRetry,       \* pending_retry
    automaticDownload,  \* snapshot.automatic_download, persistent
    \* effects that have been executed
    queue,              \* spawned tasks, in the order in which they reach the gate
    retryTimers,        \* armed ScheduleRetry timers
    checkArmed          \* the ScheduleCheck timer is armed

releaseVars == <<currentRelease, stagedVersion>>
effectVars == <<queue, retryTimers, checkArmed>>
controllerVars == <<current, phase, releaseVars, operationActive, pendingRetry,
                    automaticDownload, effectVars>>

\* The version is the one the user is shown; retryable only tells failures apart.
Show(kind, version, retryable) ==
    [is |-> kind, version |-> version, retryable |-> retryable]
Busy == {"Checking", "Downloading"}
Kinds == Busy \cup
    {"Idle", "UpToDate", "Available", "Staged", "FailedCheck", "FailedDownload"}
FailureOf(operation) == IF operation = "check" THEN "FailedCheck" ELSE "FailedDownload"
NoRetry == [operation |-> "none", count |-> 0]

ControllerTypeOK ==
    /\ current \in Versions \cup {None}
    /\ phase \in [is : Kinds, version : Versions \cup {None}, retryable : BOOLEAN]
    /\ currentRelease \in Versions \cup {None}
    /\ stagedVersion \in Versions \cup {None}
    /\ operationActive \in BOOLEAN
    /\ pendingRetry \in [operation : {"none", "check", "download"}, count : 0..MaxAutomaticRetries]
    /\ automaticDownload \in BOOLEAN
    /\ queue \in Seq(TaskIds) /\ Len(queue) <= MaxActivities
    /\ retryTimers \in 0..MaxActivities
    /\ checkArmed \in BOOLEAN

-----------------------------------------------------------------------------
\* Effects

Spawn(task) == queue' = Append(queue, task)

\* start_check, without the part that renews the six hour timer.
StartCheck ==
    /\ operationActive' = TRUE
    /\ phase' = Show("Checking", None, FALSE)
    /\ pendingRetry' = NoRetry
    /\ Spawn(CheckTask)

-----------------------------------------------------------------------------
\* Inputs: one operator each.

\* mutant of StartWith: what was found is taken without a look at the version.
StartWithAny(version, found) ==
    /\ current' = version
    /\ stagedVersion' = found
    /\ currentRelease' = stagedVersion'
    /\ operationActive' = TRUE
    /\ phase' = Show("Checking", None, FALSE)
    /\ pendingRetry' = NoRetry
    /\ queue' = <<CheckTask>>
    /\ retryTimers' = 0
    /\ checkArmed' = TRUE
    /\ automaticDownload' \in {automaticDownload, TRUE}

\* RecoverStaged and then Ready, at the start of the process, where nothing has
\* happened yet that could refuse either.
StartWith(version, found) ==
    /\ current' = version
    /\ stagedVersion' = IF found > version THEN found ELSE None
    /\ currentRelease' = stagedVersion'
    /\ operationActive' = TRUE
    /\ phase' = Show("Checking", None, FALSE)
    /\ pendingRetry' = NoRetry
    /\ queue' = <<CheckTask>>
    /\ retryTimers' = 0
    /\ checkArmed' = TRUE
    /\ automaticDownload' \in {automaticDownload, TRUE}   \* a lost preference is the default

\* mutant of PeriodicCheckDue: a busy controller lets the timer go.
PeriodicCheckDueDropped ==
    /\ checkArmed
    /\ checkArmed' = ~operationActive
    /\ IF operationActive
       THEN UNCHANGED <<operationActive, phase, pendingRetry, queue>>
       ELSE StartCheck
    /\ UNCHANGED <<current, releaseVars, automaticDownload, retryTimers>>

\* The timer that fired is replaced by a new one whether a check starts or not.
PeriodicCheckDue ==
    /\ checkArmed
    /\ checkArmed' = TRUE
    /\ IF operationActive
       THEN UNCHANGED <<operationActive, phase, pendingRetry, queue>>
       ELSE StartCheck
    /\ UNCHANGED <<current, releaseVars, automaticDownload, retryTimers>>

ManualCheck ==
    /\ ~operationActive
    /\ StartCheck
    /\ UNCHANGED <<current, releaseVars, automaticDownload, retryTimers, checkArmed>>

\* CheckSucceeded with no release, or one that is not newer than the application.
NothingNewer ==
    /\ pendingRetry' = NoRetry
    /\ operationActive' = FALSE
    /\ currentRelease' = None
    /\ phase' = Show("UpToDate", None, FALSE)
    /\ UNCHANGED <<current, stagedVersion, automaticDownload, effectVars>>

\* mutant of CheckSucceeded: the staged version is not looked at.
CheckSucceededAnew(v) ==
    /\ v > current
    /\ pendingRetry' = NoRetry
    /\ phase' = Show("Available", v, FALSE)
    /\ stagedVersion' = stagedVersion
    /\ currentRelease' = v
    /\ operationActive' = automaticDownload
    /\ IF automaticDownload THEN Spawn(v) ELSE UNCHANGED queue
    /\ UNCHANGED <<current, automaticDownload, retryTimers, checkArmed>>

\* CheckSucceeded with a newer release: what is staged wins unless it is older.
CheckSucceeded(v) ==
    /\ v > current
    /\ pendingRetry' = NoRetry
    /\ IF v <= stagedVersion
       THEN /\ phase' = Show("Staged", stagedVersion, FALSE)
            /\ operationActive' = FALSE
            /\ UNCHANGED <<releaseVars, queue>>
       ELSE /\ phase' = Show("Available", v, FALSE)
            /\ stagedVersion' = None
            /\ currentRelease' = v
            /\ operationActive' = automaticDownload
            /\ IF automaticDownload THEN Spawn(v) ELSE UNCHANGED queue
    /\ UNCHANGED <<current, automaticDownload, retryTimers, checkArmed>>

\* CheckFailed, DownloadFailed
AcceptFailure(operation, retryable) ==
    LET prior == IF pendingRetry.operation = operation THEN pendingRetry.count ELSE 0
        again == retryable /\ prior < MaxAutomaticRetries
    IN  /\ operationActive' = FALSE
        /\ pendingRetry' = [operation |-> operation, count |-> IF again THEN prior + 1 ELSE prior]
        /\ retryTimers' = IF again THEN retryTimers + 1 ELSE retryTimers
        /\ phase' = IF stagedVersion # None
                    THEN Show("Staged", stagedVersion, FALSE)
                    ELSE Show(FailureOf(operation), None, retryable)
        /\ UNCHANGED <<current, releaseVars, automaticDownload, queue, checkArmed>>

StagingDiscardFailed ==
    /\ operationActive' = FALSE
    /\ stagedVersion' = None
    /\ currentRelease' = None
    /\ pendingRetry' = NoRetry
    /\ phase' = Show("FailedCheck", None, FALSE)
    /\ UNCHANGED <<current, automaticDownload, effectVars>>

\* The preference could be saved; otherwise the input changes nothing.
SetAutomaticDownload(enabled) ==
    /\ automaticDownload' = enabled
    /\ IF enabled /\ phase.is = "Available" /\ currentRelease # None
       THEN operationActive' = TRUE /\ Spawn(currentRelease)
       ELSE UNCHANGED <<operationActive, queue>>
    /\ UNCHANGED <<current, phase, releaseVars, pendingRetry, retryTimers, checkArmed>>

\* DownloadStarted and every DownloadAdvanced
DownloadingPhase ==
    IF currentRelease # None THEN Show("Downloading", currentRelease, FALSE) ELSE phase
Downloading ==
    /\ phase' = DownloadingPhase
    /\ UNCHANGED <<current, releaseVars, operationActive, pendingRetry,
                   automaticDownload, effectVars>>

\* mutant of DownloadSucceeded: the operation stays active.
DownloadSucceededActive ==
    /\ pendingRetry' = NoRetry
    /\ IF currentRelease # None
       THEN /\ stagedVersion' = currentRelease
            /\ phase' = Show("Staged", currentRelease, FALSE)
       ELSE UNCHANGED <<stagedVersion, phase>>
    /\ UNCHANGED <<current, currentRelease, operationActive, automaticDownload, effectVars>>

DownloadSucceeded ==
    /\ operationActive' = FALSE
    /\ pendingRetry' = NoRetry
    /\ IF currentRelease # None
       THEN /\ stagedVersion' = currentRelease
            /\ phase' = Show("Staged", currentRelease, FALSE)
       ELSE UNCHANGED <<stagedVersion, phase>>
    /\ UNCHANGED <<current, currentRelease, automaticDownload, effectVars>>

\* The timer fires against whatever the controller has recorded by now.
RetryDue ==
    /\ retryTimers > 0
    /\ retryTimers' = retryTimers - 1
    /\ CASE pendingRetry.operation = "check" ->
              /\ operationActive' = TRUE
              /\ phase' = Show("Checking", None, FALSE)
              /\ Spawn(CheckTask)
         [] pendingRetry.operation = "download" /\ currentRelease # None ->
              /\ operationActive' = TRUE
              /\ Spawn(currentRelease)
              /\ UNCHANGED phase
         [] OTHER -> UNCHANGED <<operationActive, phase, queue>>
    /\ UNCHANGED <<current, releaseVars, pendingRetry, automaticDownload, checkArmed>>

\* The Retry button; the timers that are armed stay armed.
UserRetry ==
    /\ phase.is \in {"FailedCheck", "FailedDownload"}
    /\ phase.retryable
    /\ IF phase.is = "FailedCheck"
       THEN StartCheck
       ELSE /\ pendingRetry' = NoRetry
            /\ IF currentRelease # None
               THEN operationActive' = TRUE /\ Spawn(currentRelease)
               ELSE UNCHANGED <<operationActive, queue>>
            /\ UNCHANGED phase
    /\ UNCHANGED <<current, releaseVars, automaticDownload, retryTimers, checkArmed>>
=============================================================================
