--------------------------- MODULE StagingRepository ---------------------------
(***************************************************************************)
(* The staging repository (app_update/staging.rs) at the granularity of    *)
(* its file operations, each of which may fail, with the process or the    *)
(* machine stopping between any two of them.                               *)
(*                                                                         *)
(* The two files that recovery reads are modelled.  The temporary files    *)
(* are not: they are removed before they are used, a file is renamed into  *)
(* place only after its contents have been flushed, and nothing reads one  *)
(* after a restart.                                                        *)
(***************************************************************************)
EXTENDS PlatformInstaller

Files == {"package", "metadata"}
Contents == Applications       \* Torn: no signature matches

VARIABLES
    running,       \* the version of the running process, or None
    entries,       \* the two files as the process sees them: version or None
    durable,       \* the same after a power loss that loses what is not synced
    staged,        \* StagingRepository.staged, in memory
    op, at,        \* the operation under way and its next step
    candidate,     \* the version being staged, or None
    sure,          \* no recovery has failed since the last that went to its end
    confirmed      \* the last stage or clear has gone to its end

files == <<entries, durable>>
program == <<op, at>>
answer == <<sure, confirmed>>
vars == <<platform, installerVars, running, files, staged, program, candidate, answer>>

SyncPoints == {"syncPackage", "syncMetadata"}
StagePoints == {"fill", "publishPackage", "publishMetadata"} \cup SyncPoints
Points == StagePoints \cup
    {"none", "recover", "removeMetadata", "removePackage", "sync", "reconcile"}

TypeOK ==
    /\ InstallerTypeOK
    /\ running \in Versions \cup {None}
    /\ entries \in [Files -> Contents]
    /\ durable \in [Files -> Contents]
    /\ staged \in Versions \cup {None}
    /\ op \in {"down", "closed", "idle", "open", "stage", "clear", "install"}
    /\ at \in Points
    /\ candidate \in Versions \cup {None}
    /\ sure \in BOOLEAN
    /\ confirmed \in BOOLEAN

-----------------------------------------------------------------------------
\* What a start makes of the two files: metadata of version v carries the
\* signature that only the package of version v matches.
Recoverable(dir) ==
    IF dir["package"] = dir["metadata"] /\ dir["metadata"] \in Versions
    THEN dir["metadata"] ELSE None

\* After a power loss each file is the one seen last or the one synced last.
Leftovers == {dir \in [Files -> Contents] :
                  \A f \in Files : dir[f] \in {entries[f], durable[f]}}

Goto(o, p) == op' = o /\ at' = p
GoIdle == Goto("idle", "none")

\* mutant of SyncDirectory: the directory is not synced.
SyncDirectorySkipped == UNCHANGED durable

\* A move on Windows is written through; there is nothing left to sync.
SyncDirectory ==
    IF platform = "windows" THEN UNCHANGED durable ELSE durable' = entries

\* atomic_replace_file, of a temporary whose contents have been flushed.
Publish(f, v) ==
    /\ entries' = [entries EXCEPT ![f] = v]
    /\ durable' = IF platform = "windows" THEN [durable EXCEPT ![f] = v] ELSE durable

-----------------------------------------------------------------------------
\* open, reconcile_current_version

StartProcess ==
    /\ op = "down"
    /\ application \in Versions
    /\ running' = application
    /\ Goto("open", "recover")
    /\ UNCHANGED <<platform, installerVars, files, staged, candidate, answer>>

\* The directory or a temporary file is in the way: the runtime does without.
OpenFails ==
    /\ op = "open"
    /\ at = "recover"
    /\ Goto("closed", "none")
    /\ UNCHANGED <<platform, installerVars, running, files, staged, candidate, answer>>

\* recover_metadata finds a pair that verifies, and can read it.
Recover ==
    /\ op \in {"open", "stage"}
    /\ at = "recover"
    /\ Recoverable(entries) # None
    /\ staged' = Recoverable(entries)
    /\ sure' = TRUE
    /\ candidate' = None
    /\ UNCHANGED confirmed
    /\ IF op = "open" THEN Goto("open", "reconcile") ELSE GoIdle
    /\ UNCHANGED <<platform, installerVars, running, files>>

\* A file is missing, cannot be read, or does not verify: both are removed.
RecoverNothing ==
    /\ op \in {"open", "stage"}
    /\ at = "recover"
    /\ Goto(op, "removeMetadata")
    /\ UNCHANGED <<platform, installerVars, running, files, staged, candidate, answer>>

\* mutant of Reconcile: the version that was staged itself is overlooked.
ReconcileOlderOnly ==
    /\ op = "open"
    /\ at = "reconcile"
    /\ IF running > staged THEN Goto("clear", "removeMetadata") ELSE GoIdle
    /\ UNCHANGED <<platform, installerVars, running, files, staged, candidate, answer>>

\* The new process is what was staged, or newer: the package has been used.
Reconcile ==
    /\ op = "open"
    /\ at = "reconcile"
    /\ IF running >= staged THEN Goto("clear", "removeMetadata") ELSE GoIdle
    /\ UNCHANGED <<platform, installerVars, running, files, staged, candidate, answer>>

-----------------------------------------------------------------------------
\* removal, by recover_metadata and by clear

RemoveMetadata ==
    /\ at = "removeMetadata"
    /\ entries' = [entries EXCEPT !["metadata"] = None]
    /\ Goto(op, "removePackage")
    /\ UNCHANGED <<platform, installerVars, running, durable, staged, candidate, answer>>

RemovePackage ==
    /\ at = "removePackage"
    /\ entries' = [entries EXCEPT !["package"] = None]
    /\ IF op = "clear"
       THEN Goto("clear", "sync") /\ UNCHANGED <<staged, candidate, sure>>
       ELSE GoIdle /\ staged' = None /\ candidate' = None /\ sure' = TRUE
    /\ UNCHANGED <<platform, installerVars, running, durable, confirmed>>

\* An open that cannot clean up leaves no repository; a stage or a clear that
\* cannot leaves the answer as it was.
RemoveFails ==
    /\ at \in {"removeMetadata", "removePackage"}
    /\ IF op = "open" THEN Goto("closed", "none") ELSE GoIdle
    /\ sure' = (sure /\ op # "stage")
    /\ candidate' = None
    /\ UNCHANGED <<platform, installerVars, running, files, staged, confirmed>>

\* clear: staged is emptied at the very end.
ClearEnds ==
    /\ at = "sync"
    /\ SyncDirectory
    /\ staged' = None
    /\ confirmed' = TRUE
    /\ GoIdle
    /\ UNCHANGED <<platform, installerVars, running, entries, candidate, sure>>

ClearEndFails ==
    /\ at = "sync"
    /\ GoIdle
    /\ UNCHANGED <<platform, installerVars, running, files, staged, candidate, answer>>

-----------------------------------------------------------------------------
\* stage

\* The updater offers releases newer than the running application.
BeginStage(v) ==
    /\ op = "idle"
    /\ v > running
    /\ staged = None \/ v > staged
    /\ candidate' = v
    /\ Goto("stage", "fill")
    /\ confirmed' = FALSE
    /\ UNCHANGED <<platform, installerVars, running, files, staged, sure>>

\* The old temporary file cannot be removed: nothing has been touched.
StageRefused ==
    /\ at = "fill"
    /\ candidate' = None
    /\ GoIdle
    /\ UNCHANGED <<platform, installerVars, running, files, staged, answer>>

\* The stream is complete, flushed, and matches the signature.
FillPackage ==
    /\ at = "fill"
    /\ Goto("stage", "publishPackage")
    /\ UNCHANGED <<platform, installerVars, running, files, staged, candidate, answer>>

PublishPackage ==
    /\ at = "publishPackage"
    /\ Publish("package", candidate)
    /\ Goto("stage", "syncPackage")
    /\ UNCHANGED <<platform, installerVars, running, staged, candidate, answer>>

SyncPackage ==
    /\ at = "syncPackage"
    /\ SyncDirectory
    /\ Goto("stage", "publishMetadata")
    /\ UNCHANGED <<platform, installerVars, running, entries, staged, candidate, answer>>

PublishMetadata ==
    /\ at = "publishMetadata"
    /\ Publish("metadata", candidate)
    /\ Goto("stage", "syncMetadata")
    /\ UNCHANGED <<platform, installerVars, running, staged, candidate, answer>>

StageEnds ==
    /\ at = "syncMetadata"
    /\ SyncDirectory
    /\ staged' = candidate
    /\ candidate' = None
    /\ confirmed' = TRUE
    /\ GoIdle
    /\ UNCHANGED <<platform, installerVars, running, entries, sure>>

\* mutant of StageStepFails: the error is returned without looking at the disk.
StageStepFailsBlindly ==
    /\ at \in StagePoints
    /\ at \in SyncPoints => platform # "windows"
    /\ candidate' = None
    /\ GoIdle
    /\ UNCHANGED <<platform, installerVars, running, files, staged, answer>>

\* Any step of stage failed, the stream and the signature included.
StageStepFails ==
    /\ at \in StagePoints
    /\ at \in SyncPoints => platform # "windows"
    /\ Goto("stage", "recover")
    /\ UNCHANGED <<platform, installerVars, running, files, staged, candidate, answer>>

-----------------------------------------------------------------------------
\* discard_if_older_than, verify_for_install, complete_install

DiscardOlder(v) ==
    /\ op = "idle"
    /\ staged # None
    /\ v > staged
    /\ Goto("clear", "removeMetadata")
    /\ confirmed' = FALSE
    /\ UNCHANGED <<platform, installerVars, running, files, staged, candidate, sure>>

\* The package no longer matches the signature in memory: it is cleared.
VerifyFails ==
    /\ op = "idle"
    /\ staged # None
    /\ Goto("clear", "removeMetadata")
    /\ confirmed' = FALSE
    /\ UNCHANGED <<platform, installerVars, running, files, staged, candidate, sure>>

\* The package still matches.  A setup program or a privileged shell that is at work
\* keeps a second installation from being started (a bound of this model).
BeginInstall ==
    /\ op = "idle"
    /\ staged # None /\ installing = None
    /\ entries["package"] = staged
    /\ BeginInstaller(staged)
    /\ Goto("install", "none")
    /\ confirmed' = FALSE
    /\ UNCHANGED <<platform, running, files, staged, candidate, sure>>

InstallGoesOn ==
    /\ InstallerStep(entries["package"])
    /\ UNCHANGED <<running, files, staged, program, candidate, answer>>

\* The package is cleared after a success; on Windows, by the next start.
CompleteInstall ==
    /\ InstallerReturns
    /\ IF step = "done" /\ platform # "windows"
       THEN Goto("clear", "removeMetadata") ELSE GoIdle
    /\ UNCHANGED <<platform, running, files, staged, candidate, answer>>

-----------------------------------------------------------------------------
\* The process and the machine

Down ==
    /\ Goto("down", "none")
    /\ running' = None
    /\ staged' = None
    /\ candidate' = None
    /\ sure' = TRUE
    /\ confirmed' = FALSE
    /\ UNCHANGED platform

ProcessEnds ==
    /\ op # "down"
    /\ Down
    /\ InstallerStops
    /\ UNCHANGED files

PowerLoss ==
    /\ op # "down"
    /\ Down
    /\ InstallerCutOff
    /\ entries' \in Leftovers
    /\ durable' = entries'

\* The package file is damaged, also between its verification and its use.
DamagePackage ==
    /\ op \in {"idle", "down", "install"}
    /\ entries["package"] \in Versions
    /\ entries' = [entries EXCEPT !["package"] = Torn]
    /\ durable' = [durable EXCEPT !["package"] = Torn]
    /\ confirmed' = FALSE
    /\ UNCHANGED <<platform, installerVars, running, staged, program, candidate, sure>>

\* A setup program at work, or a user without an application.
WithoutProcess ==
    /\ op = "down"
    /\ SetupRuns \/ RepairByHand
    /\ UNCHANGED <<running, files, staged, program, candidate, answer>>

\* The privileged shell, whether or not a process waits for it.
ShellGoesOn ==
    /\ ShellStep \/ ShellIsOver
    /\ UNCHANGED <<platform, running, files, staged, program, candidate, answer>>

-----------------------------------------------------------------------------
Init ==
    /\ InstallerInit
    /\ running = None
    /\ entries = [f \in Files |-> None]
    /\ durable = [f \in Files |-> None]
    /\ staged = None
    /\ op = "down"
    /\ at = "none"
    /\ candidate = None
    /\ sure = TRUE
    /\ confirmed = FALSE

Next ==
    \/ StartProcess \/ OpenFails \/ Recover \/ RecoverNothing \/ Reconcile
    \/ RemoveMetadata \/ RemovePackage \/ RemoveFails \/ ClearEnds \/ ClearEndFails
    \/ \E v \in Versions : BeginStage(v) \/ DiscardOlder(v)
    \/ StageRefused \/ FillPackage \/ PublishPackage \/ SyncPackage
    \/ PublishMetadata \/ StageEnds \/ StageStepFails
    \/ VerifyFails \/ BeginInstall \/ InstallGoesOn \/ CompleteInstall
    \/ ProcessEnds \/ PowerLoss \/ DamagePackage \/ WithoutProcess \/ ShellGoesOn

Spec == Init /\ [][Next]_vars

-----------------------------------------------------------------------------
(* Between operations the disk never holds a package that the next start      *)
(* would recover and that the open repository does not answer with: a failed  *)
(* stage is followed by a recovery, so that a package that has got through    *)
(* after all is not hidden.  Only a recovery that itself fails to remove what *)
(* it rejects breaks this, until the next start.                              *)
NothingHidden ==
    op = "idle" /\ sure => Recoverable(entries) \in {None, staged}

(* There is always an application to go back to, at its path or in the        *)
(* directory that replace_with_rollback's caller keeps, through every failing *)
(* step, crash and loss of power (install_linux_appimage,                     *)
(* install_windows_nsis).  On macOS exactly two steps leave none: a rollback, *)
(* whose failure is ignored and whose directory is dropped                    *)
(* (install_macos_app), and the rm of the privileged shell.                   *)
ApplicationIsKept ==
    [][HasApplication => \/ HasApplication'
                         \/ platform = "macos" /\ (Rollback \/ ShellRemoves)]_vars

\* The repository answers with a package the running application is not older than.
AnswersStale ==
    op \in {"idle", "stage", "install"} /\ staged # None /\ staged <= running

(* A package that has been installed, or overtaken, is answered as staged, to *)
(* be installed once more, only after a removal that has failed: however the  *)
(* process that installed it ended, the next one finds out at its start       *)
(* (reconcile_current_version), and a recovery after a failed stage brings    *)
(* none back.                                                                 *)
StaleOnlyAfterFailedRemoval ==
    [][AnswersStale' => AnswersStale \/ op = "clear"]_vars

Slot == INSTANCE StagedSlot WITH
    held <- staged,
    onDisk <- {Recoverable(dir) : dir \in Leftovers},
    lazy <- platform = "windows"

(* The repository keeps the promise of the slot: a package answered as staged *)
(* survives a kill or a power loss, only the package being staged can appear, *)
(* and a start answers with a package that is there and verifies.             *)
ImplementsStagedSlot == Slot!Spec
=============================================================================
