----------------------------- MODULE StagingProofs -----------------------------
(***************************************************************************)
(* The staging repository for every number of releases, on every platform: *)
(* types, what the answer hides and brings back, the application during an *)
(* installation,                                                           *)
(* and that the file operations implement the slot.                        *)
(***************************************************************************)
EXTENDS StagingRepository, TLAPS

USE ConstantsAssumption DEF Versions, None, Torn, Applications, Files, Contents

-----------------------------------------------------------------------------
(* The strengthening. *)

Removing == {"removeMetadata", "removePackage"}

\* Which step belongs to which operation, and what a version being staged is.
PointsInv ==
    /\ op \in {"down", "closed", "idle", "install"} => at = "none"
    /\ op = "open" => at \in {"recover", "reconcile"} \cup Removing
    /\ op = "stage" => at \in StagePoints \cup {"recover"} \cup Removing
    /\ op = "clear" => at \in {"sync"} \cup Removing
    /\ op = "stage" => candidate \in Versions /\ (staged = None \/ candidate > staged)
    /\ op \in {"down", "closed"} \/ (op = "open" /\ at # "reconcile") => staged = None
    /\ op \in {"clear", "install"} \/ at = "reconcile" => staged # None
    /\ op \notin {"idle"} => confirmed = FALSE

\* What the files hold between two steps.
FilesInv ==
    /\ entries["metadata"] # Torn /\ durable["metadata"] # Torn
    /\ at \in {"removePackage", "sync"} => entries["metadata"] = None
    /\ at = "sync" => entries["package"] = None
    /\ at \in {"syncPackage", "publishMetadata", "syncMetadata"} => entries["package"] = candidate
    /\ at = "syncMetadata" => entries["metadata"] = candidate
    /\ sure /\ (op \in {"idle", "clear", "install"} \/ at \in {"fill", "reconcile"}) =>
          Recoverable(entries) \in {None, staged}

\* Moves are written through, so that only a removal can be undone.
WindowsInv ==
    platform = "windows" =>
        /\ \A f \in Files : entries[f] \in {None, durable[f]}
        /\ staged # None /\ at # "syncMetadata" => durable["metadata"] = staged

\* Which step of an installation belongs to which operation and platform, and what it
\* has in hand.
InstallerInv ==
    /\ op # "install" => step \in {"none", "returned"}
    /\ op = "install" => step \notin {"none", "returned"} /\ entries["package"] # None
    /\ step \in {"moveAside", "authorize", "moveIn", "postReplace", "rollback"} => installing # None
    /\ step \in {"moveIn", "rollback", "postReplace"} => aside # None
    /\ step = "postReplace" => application # None /\ platform = "linux"
    /\ step \in {"moveAside", "moveIn", "rollback"} => platform # "windows"
    /\ step = "authorize" => shell # "none"
    /\ shell # "none" =>
          platform = "macos" /\ installing # None /\ step \in {"none", "authorize"}

\* Once the directory has been looked through, it holds only what is answered as
\* staged and what this process was given to stage, which is newer than the process.
OursInv ==
    /\ op = "stage" => candidate > running
    /\ op \in {"idle", "stage", "clear", "install"} \/ at = "reconcile" =>
          \A f \in Files : entries[f] \in {None, Torn, staged} \/ entries[f] > running

IInv == TypeOK /\ PointsInv /\ FilesInv /\ WindowsInv /\ OursInv /\ InstallerInv

-----------------------------------------------------------------------------
(* Recoverable. *)

LEMMA RecoverableIs ==
  ASSUME NEW dir \in [Files -> Contents]
  PROVE  /\ Recoverable(dir) \in Versions \cup {None}
         /\ \A v \in Versions : Recoverable(dir) = v <=> dir["package"] = v /\ dir["metadata"] = v
  BY DEF Recoverable

\* What the next start may recover, of files as seen and as durable.
OnDiskOf(seen, kept) ==
    {Recoverable(dir) : dir \in {d \in [Files -> Contents] :
                                    \A f \in Files : d[f] \in {seen[f], kept[f]}}}

OnDisk == {Recoverable(dir) : dir \in Leftovers}

LEMMA OnDiskUnfolds ==
  /\ OnDisk = OnDiskOf(entries, durable)
  /\ OnDisk' = OnDiskOf(entries', durable')
  BY DEF OnDisk, OnDiskOf, Leftovers

Directories == [Files -> Contents]

LEMMA OnDiskSeen ==
  ASSUME NEW seen \in Directories, NEW kept \in Directories
  PROVE  /\ Recoverable(seen) \in OnDiskOf(seen, kept)
         /\ OnDiskOf(seen, kept) \subseteq Versions \cup {None}
  BY RecoverableIs DEF OnDiskOf, Directories

\* A version may be recovered exactly if both files may hold it.
LEMMA OnDiskIs ==
  ASSUME NEW seen \in Directories, NEW kept \in Directories, NEW v \in Versions
  PROVE  v \in OnDiskOf(seen, kept) <=>
            v \in {seen["package"], kept["package"]} /\ v \in {seen["metadata"], kept["metadata"]}
<1>1. ASSUME v \in OnDiskOf(seen, kept)
      PROVE  v \in {seen["package"], kept["package"]} /\ v \in {seen["metadata"], kept["metadata"]}
  <2>1. PICK dir \in Directories :
            v = Recoverable(dir) /\ \A f \in Files : dir[f] \in {seen[f], kept[f]}
    BY <1>1 DEF OnDiskOf, Directories
  <2>2. dir["package"] = v /\ dir["metadata"] = v
    BY <2>1, RecoverableIs DEF Directories
  <2> QED
    BY <2>1, <2>2
<1>2. ASSUME v \in {seen["package"], kept["package"]}, v \in {seen["metadata"], kept["metadata"]}
      PROVE  v \in OnDiskOf(seen, kept)
  <2> DEFINE dir == [f \in Files |-> v]
  <2>1. dir \in Directories /\ dir["package"] = v /\ dir["metadata"] = v
    BY DEF Directories
  <2>2. \A f \in Files : dir[f] \in {seen[f], kept[f]}
    BY <1>2
  <2>3. Recoverable(dir) = v
    BY <2>1, RecoverableIs DEF Directories
  <2>4. dir \in {d \in [Files -> Contents] : \A f \in Files : d[f] \in {seen[f], kept[f]}}
    BY <2>1, <2>2 DEF Directories
  <2> QED
    BY <2>3, <2>4 DEF OnDiskOf
<1> QED
  BY <1>1, <1>2

FilesTyped == entries \in Directories /\ durable \in Directories

\* Steps that only write c, remove, or let what was seen become durable.
LEMMA OnDiskGrows ==
  ASSUME FilesTyped, FilesTyped', NEW c \in Versions \cup {None},
         \A f \in Files : /\ entries'[f] \in {entries[f], durable[f], None, c}
                          /\ durable'[f] \in {entries[f], durable[f], None, c}
  PROVE  OnDisk' \in (SUBSET (OnDisk \cup {None, c})) \ {{}}
<1>1. ASSUME NEW v \in OnDisk', v # None, v # c PROVE v \in OnDisk
  <2>1. v \in Versions
    BY <1>1, OnDiskUnfolds, OnDiskSeen DEF FilesTyped
  <2>2. /\ v \in {entries'["package"], durable'["package"]}
        /\ v \in {entries'["metadata"], durable'["metadata"]}
    BY <1>1, <2>1, OnDiskUnfolds, OnDiskIs DEF FilesTyped
  <2>3. /\ v \in {entries["package"], durable["package"]}
        /\ v \in {entries["metadata"], durable["metadata"]}
    BY <1>1, <2>2
  <2> QED
    BY <2>1, <2>3, OnDiskUnfolds, OnDiskIs DEF FilesTyped
<1>2. OnDisk' # {}
  BY OnDiskUnfolds, OnDiskSeen DEF FilesTyped
<1> QED
  BY <1>1, <1>2

\* Files of which nothing else is left.
LEMMA OnDiskSynced ==
  ASSUME NEW seen \in Directories, NEW v \in Versions \cup {None}, Recoverable(seen) = v
  PROVE  OnDiskOf(seen, seen) = {v}
<1>1. ASSUME NEW dir \in Directories, \A f \in Files : dir[f] \in {seen[f], seen[f]}
      PROVE  Recoverable(dir) = v
  BY <1>1 DEF Directories, Recoverable
<1>2. OnDiskOf(seen, seen) \subseteq {v}
  BY <1>1 DEF OnDiskOf, Directories
<1> QED
  BY <1>2, OnDiskSeen

-----------------------------------------------------------------------------
(* The actions, by what they touch: the files, the program, the installer. *)

USE DEF Goto, GoIdle

OpenStep == StartProcess \/ OpenFails \/ Recover \/ RecoverNothing \/ Reconcile
RemoveStep == RemoveMetadata \/ RemovePackage \/ RemoveFails \/ ClearEnds \/ ClearEndFails
StageStep ==
    \/ StageRefused \/ FillPackage \/ PublishPackage \/ SyncPackage
    \/ PublishMetadata \/ StageEnds \/ StageStepFails
BeginStep == VerifyFails \/ \E v \in Versions : BeginStage(v) \/ DiscardOlder(v)
InstallStep == BeginInstall \/ InstallGoesOn \/ CompleteInstall
OutsideStep ==
    ProcessEnds \/ PowerLoss \/ DamagePackage \/ WithoutProcess \/ ShellGoesOn

LEMMA NextIs ==
  ASSUME Next
  PROVE  OpenStep \/ RemoveStep \/ StageStep \/ BeginStep \/ InstallStep \/ OutsideStep
  BY DEF Next, OpenStep, RemoveStep, StageStep, BeginStep, InstallStep, OutsideStep

\* Only these two groups touch the installer.
LEMMA InstallerRests ==
  ASSUME OpenStep \/ RemoveStep \/ StageStep \/ BeginStep
  PROVE  UNCHANGED <<platform, application, aside, installing, step, shell>>
  BY DEF OpenStep, RemoveStep, StageStep, BeginStep, installerVars, StartProcess, OpenFails,
     Recover, RecoverNothing, Reconcile, RemoveMetadata, RemovePackage, RemoveFails, ClearEnds,
     ClearEndFails, StageRefused, FillPackage, PublishPackage, SyncPackage, PublishMetadata,
     StageEnds, StageStepFails, BeginStage, DiscardOlder, VerifyFails

LEMMA PlatformStays ==
  ASSUME Next
  PROVE  platform' = platform
<1>1. CASE InstallStep
  BY <1>1 DEF InstallStep, BeginInstall, InstallGoesOn, CompleteInstall, InstallerStep
<1>2. CASE OutsideStep
  BY <1>2 DEF OutsideStep, ProcessEnds, PowerLoss, Down, DamagePackage, WithoutProcess,
     SetupRuns, RepairByHand, ShellGoesOn
<1> QED
  BY <1>1, <1>2, NextIs, InstallerRests

-----------------------------------------------------------------------------
(* Types. *)

LEMMA StepTyped ==
  ASSUME IInv, InstallerStep(entries["package"])
  PROVE  InstallerTypeOK'
<1>1. InstallerTypeOK /\ platform' = platform /\ entries["package"] \in Applications
  BY DEF IInv, TypeOK, InstallerStep
<1> QED
  BY <1>1 DEF InstallerTypeOK, InstallerStep, UnpackPackage, GoesTo, MoveAside, MoveIn, PostReplace,
     Rollback, KeepsBackup, ShellAnswers, SpawnSetup

LEMMA OutsideTyped ==
  ASSUME IInv, OutsideStep, platform' = platform
  PROVE  InstallerTypeOK'
<1>1. InstallerTypeOK
  BY DEF IInv, TypeOK
<1>2. CASE ProcessEnds \/ PowerLoss
  BY <1>1, <1>2 DEF ProcessEnds, PowerLoss, InstallerStops, InstallerCutOff, InstallerTypeOK
<1>3. CASE DamagePackage
  BY <1>1, <1>3 DEF DamagePackage, installerVars, InstallerTypeOK
<1>4. CASE WithoutProcess
  BY <1>1, <1>4 DEF WithoutProcess, SetupRuns, RepairByHand, InstallerTypeOK
<1>5. CASE ShellGoesOn
  BY <1>1, <1>5 DEF ShellGoesOn, ShellStep, ShellRemoves, ShellMoves, ShellIsOver, InstallerTypeOK
<1> QED
  BY <1>2, <1>3, <1>4, <1>5 DEF OutsideStep

LEMMA FilesStayTyped ==
  ASSUME IInv, Next
  PROVE  entries' \in Directories /\ durable' \in Directories
<1>1. /\ entries \in Directories /\ durable \in Directories
      /\ staged \in Versions \cup {None}
      /\ op = "stage" => candidate \in Versions
  BY DEF IInv, TypeOK, PointsInv, Directories
<1>2. CASE OpenStep \/ BeginStep
  BY <1>1, <1>2 DEF OpenStep, BeginStep, files, StartProcess, OpenFails, Recover, RecoverNothing,
     Reconcile, BeginStage, DiscardOlder, VerifyFails
<1>3. CASE RemoveStep
  BY <1>1, <1>3 DEF RemoveStep, RemoveMetadata, RemovePackage, RemoveFails, ClearEnds,
     ClearEndFails, files, SyncDirectory, Directories
<1>4. CASE StageStep
  <2>1. at \in StagePoints => op = "stage"
    BY DEF IInv, TypeOK, PointsInv, StagePoints, SyncPoints, Removing
  <2>2. candidate \in Contents \/ UNCHANGED files \/ SyncPackage \/ StageEnds
    BY <1>1, <1>4, <2>1 DEF StageStep, StageRefused, FillPackage, PublishPackage, SyncPackage,
       PublishMetadata, StageEnds, StageStepFails, files, StagePoints
  <2> QED
    BY <1>1, <1>4, <2>2 DEF StageStep, StageRefused, FillPackage, PublishPackage, SyncPackage,
       PublishMetadata, StageEnds, StageStepFails, files, SyncDirectory, Publish, Directories
<1>5. CASE InstallStep
  BY <1>1, <1>5 DEF InstallStep, BeginInstall, InstallGoesOn, CompleteInstall, files
<1>6. CASE OutsideStep
  <2>1. CASE ProcessEnds \/ WithoutProcess \/ ShellGoesOn
    BY <1>1, <2>1 DEF ProcessEnds, WithoutProcess, ShellGoesOn, files
  <2>2. CASE PowerLoss
    BY <1>1, <2>2 DEF PowerLoss, Leftovers, Directories
  <2>3. CASE DamagePackage
    BY <1>1, <2>3 DEF DamagePackage, Directories
  <2> QED
    BY <1>6, <2>1, <2>2, <2>3 DEF OutsideStep
<1> QED
  BY <1>2, <1>3, <1>4, <1>5, <1>6, NextIs

LEMMA TypesPreserved ==
  ASSUME IInv, Next
  PROVE  TypeOK'
<1>1. TypeOK /\ InstallerTypeOK /\ entries \in Directories
  BY DEF IInv, TypeOK, Directories
<1>2. entries' \in Directories /\ durable' \in Directories /\ platform' = platform
  BY FilesStayTyped, PlatformStays
<1>3. Recoverable(entries) \in Versions \cup {None}
  BY <1>1, RecoverableIs DEF Directories
<1>4. CASE OpenStep \/ RemoveStep \/ StageStep \/ BeginStep
  <2>1. InstallerTypeOK'
    BY <1>1, <1>4, InstallerRests DEF InstallerTypeOK
  <2>2. CASE OpenStep
    BY <1>1, <1>2, <1>3, <2>1, <2>2 DEF TypeOK, Directories, Points, StagePoints, OpenStep, answer,
       StartProcess, OpenFails, Recover, RecoverNothing, Reconcile, InstallerTypeOK
  <2>3. CASE RemoveStep
    BY <1>1, <1>2, <2>1, <2>3 DEF TypeOK, Directories, Points, StagePoints, RemoveStep, answer,
       RemoveMetadata, RemovePackage, RemoveFails, ClearEnds, ClearEndFails
  <2>4. CASE StageStep
    BY <1>1, <1>2, <2>1, <2>4 DEF TypeOK, Directories, Points, StagePoints, SyncPoints, StageStep,
       StageRefused, FillPackage, PublishPackage, SyncPackage, PublishMetadata, StageEnds,
       StageStepFails, answer
  <2>5. CASE BeginStep
    BY <1>1, <1>2, <2>1, <2>5 DEF TypeOK, Directories, Points, StagePoints, BeginStep,
       BeginStage, DiscardOlder, VerifyFails
  <2> QED
    BY <1>4, <2>2, <2>3, <2>4, <2>5
<1>5. CASE InstallStep
  <2>1. InstallerTypeOK'
    <3>1. CASE BeginInstall
      BY <1>1, <3>1 DEF BeginInstall, BeginInstaller, InstallerTypeOK, TypeOK
    <3>2. CASE InstallGoesOn
      BY <3>2, StepTyped DEF InstallGoesOn
    <3>3. CASE CompleteInstall
      BY <1>1, <3>3 DEF CompleteInstall, InstallerReturns, InstallerTypeOK
    <3> QED
      BY <1>5, <3>1, <3>2, <3>3 DEF InstallStep
  <2> QED
    BY <1>1, <1>2, <1>5, <2>1 DEF TypeOK, Directories, Points, InstallStep, BeginInstall,
       InstallGoesOn, CompleteInstall, answer, program
<1>6. CASE OutsideStep
  <2>1. InstallerTypeOK'
    BY <1>2, <1>6, OutsideTyped
  <2> QED
    BY <1>1, <1>2, <1>6, <2>1 DEF TypeOK, Directories, Points, OutsideStep, ProcessEnds, PowerLoss,
       Down, DamagePackage, WithoutProcess, ShellGoesOn, answer, program
<1> QED
  BY <1>4, <1>5, <1>6, NextIs

-----------------------------------------------------------------------------
(* The other parts of the invariant. *)

LEMMA PointsPreserved ==
  ASSUME IInv, Next
  PROVE  PointsInv'
<1>1. TypeOK /\ PointsInv /\ InstallerInv
  BY DEF IInv
<1>2. Recoverable(entries) \in Versions \cup {None}
  BY <1>1, RecoverableIs DEF TypeOK
<1>3. CASE OpenStep
  BY <1>1, <1>2, <1>3 DEF TypeOK, PointsInv, Removing, StagePoints, SyncPoints, OpenStep, answer,
     StartProcess, OpenFails, Recover, RecoverNothing, Reconcile
<1>4. CASE RemoveStep
  BY <1>1, <1>4 DEF TypeOK, PointsInv, Removing, StagePoints, SyncPoints, RemoveStep, answer,
     RemoveMetadata, RemovePackage, RemoveFails, ClearEnds, ClearEndFails
<1>5. CASE StageStep
  BY <1>1, <1>5 DEF TypeOK, PointsInv, Removing, StagePoints, SyncPoints, StageStep, answer,
     StageRefused, FillPackage, PublishPackage, SyncPackage, PublishMetadata, StageEnds, StageStepFails
<1>6. CASE BeginStep
  BY <1>1, <1>6 DEF TypeOK, PointsInv, Removing, StagePoints, SyncPoints, BeginStep,
     BeginStage, DiscardOlder, VerifyFails
<1>7. CASE InstallStep
  <2>1. CASE BeginInstall
    BY <1>1, <2>1 DEF PointsInv, Removing, BeginInstall
  <2>2. CASE InstallGoesOn
    BY <1>1, <2>2 DEF PointsInv, InstallGoesOn, program, answer
  <2>3. CASE CompleteInstall
    <3>1. op = "install"
      BY <1>1, <2>3 DEF InstallerInv, CompleteInstall, InstallerReturns
    <3>2. step = "done" => staged # None
      BY <1>1, <3>1 DEF PointsInv, InstallerInv
    <3> QED
      BY <1>1, <2>3, <3>1, <3>2 DEF PointsInv, Removing, CompleteInstall, answer
  <2> QED
    BY <1>7, <2>1, <2>2, <2>3 DEF InstallStep
<1>8. CASE OutsideStep
  BY <1>1, <1>8 DEF TypeOK, PointsInv, Removing, StagePoints, SyncPoints, OutsideStep, ProcessEnds,
     PowerLoss, Down, DamagePackage, WithoutProcess, ShellGoesOn, answer, program
<1> QED
  BY <1>3, <1>4, <1>5, <1>6, <1>7, <1>8, NextIs

LEMMA FilesPreserved ==
  ASSUME IInv, Next
  PROVE  FilesInv'
<1>1. TypeOK /\ PointsInv /\ FilesInv /\ InstallerInv
  BY DEF IInv
<1>2. entries \in Directories /\ durable \in Directories
  BY <1>1 DEF TypeOK, Directories
<1>3. CASE OpenStep
  BY <1>1, <1>2, <1>3 DEF TypeOK, PointsInv, FilesInv, Recoverable, Removing, StagePoints,
     SyncPoints, OpenStep, files, answer, StartProcess, OpenFails, Recover, RecoverNothing, Reconcile
<1>4. CASE RemoveStep
  <2>1. CASE RemoveMetadata
    BY <1>1, <1>2, <2>1 DEF PointsInv, FilesInv, Recoverable, Removing, Directories,
       StagePoints, SyncPoints, RemoveMetadata
  <2>2. CASE RemovePackage
    BY <1>1, <1>2, <2>2 DEF PointsInv, FilesInv, Recoverable, Removing, Directories,
       StagePoints, SyncPoints, RemovePackage
  <2>3. CASE RemoveFails
    BY <1>1, <1>2, <2>3 DEF TypeOK, PointsInv, FilesInv, Removing, StagePoints, SyncPoints,
       RemoveFails, files
  <2>4. CASE ClearEnds
    BY <1>1, <1>2, <2>4 DEF PointsInv, FilesInv, Recoverable, Removing, Directories, StagePoints,
       SyncPoints, ClearEnds, SyncDirectory
  <2>5. CASE ClearEndFails
    BY <1>1, <1>2, <2>5 DEF TypeOK, PointsInv, FilesInv, Recoverable, Removing, StagePoints,
       SyncPoints, ClearEndFails, files, answer
  <2> QED
    BY <1>4, <2>1, <2>2, <2>3, <2>4, <2>5 DEF RemoveStep
<1>5. CASE StageStep
  <2>1. at \in StagePoints => op = "stage" /\ candidate \in Versions
    BY <1>1 DEF TypeOK, PointsInv, StagePoints, SyncPoints, Removing
  <2>2. CASE StageRefused \/ FillPackage \/ StageStepFails
    BY <1>1, <2>1, <2>2 DEF FilesInv, StageRefused, FillPackage, StageStepFails, StagePoints,
       SyncPoints, files, answer
  <2>3. CASE PublishPackage \/ PublishMetadata
    BY <1>1, <1>2, <2>1, <2>3 DEF FilesInv, PublishPackage, PublishMetadata, Publish, StagePoints,
       SyncPoints, Directories
  <2>4. CASE SyncPackage
    BY <1>1, <2>1, <2>4 DEF FilesInv, SyncPackage, SyncDirectory, StagePoints, SyncPoints
  <2>5. CASE StageEnds
    BY <1>1, <2>1, <2>5 DEF FilesInv, Recoverable, StageEnds, SyncDirectory, StagePoints, SyncPoints
  <2> QED
    BY <1>5, <2>2, <2>3, <2>4, <2>5 DEF StageStep
<1>6. CASE BeginStep
  BY <1>1, <1>6 DEF PointsInv, FilesInv, Removing, StagePoints, SyncPoints, BeginStep,
     BeginStage, DiscardOlder, VerifyFails, files
<1>7. CASE InstallStep
  <2>1. CASE BeginInstall
    BY <1>1, <2>1 DEF FilesInv, BeginInstall, files
  <2>2. CASE InstallGoesOn
    BY <1>1, <2>2 DEF FilesInv, InstallGoesOn, files, program, answer
  <2>3. CASE CompleteInstall
    BY <1>1, <2>3 DEF FilesInv, InstallerInv, CompleteInstall, InstallerReturns, files, answer
  <2> QED
    BY <1>7, <2>1, <2>2, <2>3 DEF InstallStep
<1>8. CASE OutsideStep
  <2>1. CASE ProcessEnds
    BY <1>1, <2>1 DEF FilesInv, ProcessEnds, Down, files
  <2>2. CASE PowerLoss
    BY <1>1, <1>2, <2>2 DEF FilesInv, PowerLoss, Down, Leftovers, Directories
  <2>3. CASE DamagePackage
    BY <1>1, <1>2, <2>3 DEF FilesInv, PointsInv, Recoverable, DamagePackage, Directories, program
  <2>4. CASE WithoutProcess \/ ShellGoesOn
    BY <1>1, <2>4 DEF FilesInv, PointsInv, WithoutProcess, ShellGoesOn, files, program, answer
  <2> QED
    BY <1>8, <2>1, <2>2, <2>3, <2>4 DEF OutsideStep
<1> QED
  BY <1>3, <1>4, <1>5, <1>6, <1>7, <1>8, NextIs

LEMMA WindowsPreserved ==
  ASSUME IInv, Next
  PROVE  WindowsInv'
<1>1. TypeOK /\ PointsInv /\ FilesInv /\ WindowsInv /\ InstallerInv
  BY DEF IInv
<1>2. entries \in Directories /\ durable \in Directories /\ platform' = platform
  BY <1>1, PlatformStays DEF TypeOK, Directories
<1> SUFFICES ASSUME platform = "windows"
             PROVE  /\ \A f \in Files : entries'[f] \in {None, durable'[f]}
                    /\ staged' # None /\ at' # "syncMetadata" => durable'["metadata"] = staged'
  BY <1>2 DEF WindowsInv
<1>3. CASE OpenStep
  BY <1>1, <1>2, <1>3 DEF WindowsInv, PointsInv, Recoverable, StagePoints, SyncPoints, Removing,
     OpenStep, files, StartProcess, OpenFails, Recover, RecoverNothing, Reconcile
<1>4. CASE RemoveStep
  <2>1. at # "syncMetadata"
    BY <1>4 DEF RemoveStep, RemoveMetadata, RemovePackage, RemoveFails, ClearEnds, ClearEndFails
  <2> QED
    BY <1>1, <1>2, <1>4, <2>1 DEF WindowsInv, Directories, RemoveStep, RemoveMetadata, RemovePackage,
       RemoveFails, ClearEnds, ClearEndFails, SyncDirectory, files
<1>5. CASE StageStep
  <2>1. at \in StagePoints => candidate \in Versions
    BY <1>1 DEF TypeOK, PointsInv, StagePoints, SyncPoints, Removing
  <2>2. CASE StageRefused \/ FillPackage \/ StageStepFails
    BY <1>1, <2>2 DEF WindowsInv, StageRefused, FillPackage, StageStepFails, SyncPoints, files
  <2>3. CASE PublishPackage \/ PublishMetadata
    BY <1>1, <1>2, <2>3 DEF WindowsInv, PublishPackage, PublishMetadata, Publish, Directories
  <2>4. CASE SyncPackage
    BY <1>1, <2>4 DEF WindowsInv, SyncPackage, SyncDirectory
  <2>5. CASE StageEnds
    BY <1>1, <2>1, <2>5 DEF WindowsInv, FilesInv, StageEnds, SyncDirectory, StagePoints, SyncPoints
  <2> QED
    BY <1>5, <2>2, <2>3, <2>4, <2>5 DEF StageStep
<1>6. CASE BeginStep
  BY <1>1, <1>6 DEF PointsInv, WindowsInv, BeginStep, BeginStage, DiscardOlder, VerifyFails, files
<1>7. CASE InstallStep
  BY <1>1, <1>7 DEF PointsInv, WindowsInv, InstallerInv, InstallStep, BeginInstall, InstallGoesOn,
     CompleteInstall, InstallerReturns, files, program
<1>8. CASE OutsideStep
  <2>1. CASE ProcessEnds \/ PowerLoss
    BY <1>1, <2>1 DEF WindowsInv, ProcessEnds, PowerLoss, Down, files
  <2>2. CASE DamagePackage
    BY <1>1, <1>2, <2>2 DEF WindowsInv, PointsInv, DamagePackage, Directories, program
  <2>3. CASE WithoutProcess \/ ShellGoesOn
    BY <1>1, <2>3 DEF WindowsInv, WithoutProcess, ShellGoesOn, files, program
  <2> QED
    BY <1>8, <2>1, <2>2, <2>3 DEF OutsideStep
<1> QED
  BY <1>3, <1>4, <1>5, <1>6, <1>7, <1>8, NextIs

LEMMA OursPreserved ==
  ASSUME IInv, Next
  PROVE  OursInv'
<1>1. TypeOK /\ PointsInv /\ FilesInv /\ OursInv /\ entries \in Directories
  BY DEF IInv, TypeOK, Directories
<1>2. running \in Nat
  BY <1>1 DEF TypeOK
<1>3. CASE OpenStep
  <2>1. CASE Recover
    <3>1. /\ staged' \in Versions /\ UNCHANGED <<entries, running>>
          /\ entries["package"] = staged' /\ entries["metadata"] = staged'
      BY <1>1, <2>1, RecoverableIs DEF Recover, Directories, files
    <3>2. op' # "stage"
      BY <2>1 DEF Recover
    <3> QED
      BY <3>1, <3>2 DEF OursInv
  <2>2. CASE StartProcess \/ OpenFails \/ RecoverNothing \/ Reconcile
    BY <1>1, <2>2 DEF OursInv, StartProcess, OpenFails, RecoverNothing, Reconcile, files
  <2> QED
    BY <1>3, <2>1, <2>2 DEF OpenStep
<1>4. CASE RemoveStep
  <2>1. CASE RemoveMetadata \/ RemoveFails \/ ClearEndFails
    BY <1>1, <2>1 DEF TypeOK, OursInv, PointsInv, Removing, RemoveMetadata, RemoveFails, ClearEndFails,
       files, Directories
  <2>2. CASE RemovePackage \/ ClearEnds
    <3>1. \A f \in Files : entries'[f] = None
      BY <1>1, <2>2 DEF FilesInv, RemovePackage, ClearEnds, Directories
    <3>2. op' # "stage"
      BY <1>1, <2>2 DEF PointsInv, RemovePackage, ClearEnds
    <3> QED
      BY <3>1, <3>2 DEF OursInv
  <2> QED
    BY <1>4, <2>1, <2>2 DEF RemoveStep
<1>5. CASE StageStep
  <2>1. op = "stage"
    BY <1>1, <1>5 DEF TypeOK, PointsInv, StagePoints, SyncPoints, Removing, StageStep, StageRefused,
       FillPackage, PublishPackage, SyncPackage, PublishMetadata, StageEnds, StageStepFails
  <2>2. CASE StageEnds
    <3>1. entries' = entries /\ \A f \in Files : entries[f] = staged'
      BY <1>1, <2>2 DEF FilesInv, StageEnds
    <3> QED
      BY <2>2, <3>1 DEF OursInv, StageEnds
  <2>3. CASE StageRefused \/ FillPackage \/ SyncPackage \/ StageStepFails
    BY <1>1, <2>1, <2>3 DEF OursInv, StageRefused, FillPackage, SyncPackage, StageStepFails, files
  <2>4. CASE PublishPackage \/ PublishMetadata
    BY <1>1, <2>1, <2>4 DEF OursInv, PublishPackage, PublishMetadata, Publish, Directories
  <2> QED
    BY <1>5, <2>2, <2>3, <2>4 DEF StageStep
<1>6. CASE BeginStep
  BY <1>1, <1>6 DEF OursInv, BeginStep, BeginStage, DiscardOlder, VerifyFails, files
<1>7. CASE InstallStep
  <2>1. CASE BeginInstall
    BY <1>1, <2>1 DEF OursInv, BeginInstall, files
  <2>2. CASE InstallGoesOn
    BY <1>1, <2>2 DEF OursInv, InstallGoesOn, files, program
  <2>3. CASE CompleteInstall
    <3>1. op = "install"
      BY <2>3 DEF IInv, InstallerInv, CompleteInstall, InstallerReturns
    <3> QED
      BY <1>1, <2>3, <3>1 DEF OursInv, CompleteInstall, files
  <2> QED
    BY <1>7, <2>1, <2>2, <2>3 DEF InstallStep
<1>8. CASE OutsideStep
  <2>1. CASE Down
    BY <2>1 DEF Down, OursInv
  <2>2. CASE DamagePackage
    BY <1>1, <2>2 DEF OursInv, DamagePackage, program, Directories
  <2>3. CASE WithoutProcess \/ ShellGoesOn
    BY <1>1, <2>3 DEF OursInv, WithoutProcess, ShellGoesOn, files, program
  <2> QED
    BY <1>8, <2>1, <2>2, <2>3 DEF OutsideStep, ProcessEnds, PowerLoss
<1> QED
  BY <1>3, <1>4, <1>5, <1>6, <1>7, <1>8, NextIs

LEMMA InstallerPreserved ==
  ASSUME IInv, Next
  PROVE  InstallerInv'
<1>1. TypeOK /\ InstallerTypeOK /\ PointsInv /\ InstallerInv /\ entries \in Directories
  BY DEF IInv, TypeOK, Directories
<1>2. platform' = platform
  BY PlatformStays
<1>3. CASE OpenStep \/ RemoveStep \/ StageStep \/ BeginStep
  <2>1. UNCHANGED <<platform, application, aside, installing, step, shell>>
    BY <1>3, InstallerRests
  <2>2. op # "install" /\ op' # "install"
    BY <1>1, <1>3 DEF TypeOK, PointsInv, OpenStep, RemoveStep, StageStep, BeginStep, StartProcess,
       OpenFails, Recover, RecoverNothing, Reconcile, RemoveMetadata, RemovePackage, RemoveFails,
       ClearEnds, ClearEndFails, StageRefused, FillPackage, PublishPackage, SyncPackage,
       PublishMetadata, StageEnds, StageStepFails, BeginStage, DiscardOlder, VerifyFails,
       StagePoints, SyncPoints
  <2> QED
    BY <1>1, <2>1, <2>2 DEF InstallerInv
<1>4. CASE InstallStep
  <2>1. CASE BeginInstall
    BY <1>1, <1>2, <2>1 DEF InstallerInv, BeginInstall, BeginInstaller, files
  <2>2. CASE InstallGoesOn
    <3>1. op = "install" /\ op' = op /\ entries' = entries
      BY <1>1, <2>2 DEF InstallerInv, InstallGoesOn, program, files, InstallerStep, UnpackPackage,
         MoveAside, MoveIn, PostReplace, Rollback, ShellAnswers, SpawnSetup
    <3>2. CASE UnpackPackage(entries["package"])
      BY <1>1, <1>2, <3>1, <3>2 DEF InstallerInv, UnpackPackage, GoesTo
    <3>3. CASE MoveAside
      BY <1>1, <1>2, <3>1, <3>3 DEF InstallerInv, MoveAside, GoesTo
    <3>4. CASE MoveIn
      BY <1>1, <1>2, <3>1, <3>4 DEF InstallerInv, MoveIn, GoesTo
    <3>5. CASE PostReplace
      BY <1>1, <1>2, <3>1, <3>5 DEF InstallerInv, PostReplace, GoesTo
    <3>6. CASE Rollback
      BY <1>1, <1>2, <3>1, <3>6 DEF InstallerInv, Rollback
    <3>7. CASE ShellAnswers
      BY <1>1, <1>2, <3>1, <3>7 DEF InstallerInv, ShellAnswers
    <3>8. CASE SpawnSetup
      BY <1>1, <1>2, <3>1, <3>8 DEF InstallerInv, SpawnSetup, GoesTo
    <3> QED
      BY <2>2, <3>2, <3>3, <3>4, <3>5, <3>6, <3>7, <3>8 DEF InstallGoesOn, InstallerStep
  <2>3. CASE CompleteInstall
    BY <1>1, <1>2, <2>3 DEF InstallerInv, CompleteInstall, InstallerReturns
  <2> QED
    BY <1>4, <2>1, <2>2, <2>3 DEF InstallStep
<1>5. CASE OutsideStep
  <2>1. CASE ProcessEnds
    BY <1>1, <1>2, <2>1 DEF InstallerInv, ProcessEnds, Down, InstallerStops
  <2>2. CASE PowerLoss
    BY <1>1, <1>2, <2>2 DEF InstallerInv, PowerLoss, Down, InstallerCutOff
  <2>3. CASE DamagePackage
    BY <1>1, <1>2, <2>3 DEF InstallerInv, DamagePackage, installerVars, program, Directories
  <2>4. CASE WithoutProcess
    BY <1>1, <1>2, <2>4 DEF InstallerInv, WithoutProcess, SetupRuns, RepairByHand, program, files
  <2>5. CASE ShellGoesOn
    BY <1>1, <1>2, <2>5 DEF InstallerInv, ShellGoesOn, ShellStep, ShellRemoves, ShellMoves,
       ShellIsOver, program, files
  <2> QED
    BY <1>5, <2>1, <2>2, <2>3, <2>4, <2>5 DEF OutsideStep
<1> QED
  BY <1>3, <1>4, <1>5, NextIs

LEMMA InitImplies ==
  ASSUME Init
  PROVE  IInv
<1>1. TypeOK
  <2>1. 1 \in Versions
    OBVIOUS
  <2>2. InstallerTypeOK
    BY <2>1 DEF Init, InstallerInit, InstallerTypeOK
  <2>3. entries \in [Files -> Contents] /\ durable \in [Files -> Contents]
    BY DEF Init
  <2>4. sure \in BOOLEAN /\ confirmed \in BOOLEAN
    BY DEF Init
  <2> QED
    BY <2>2, <2>3, <2>4 DEF Init, TypeOK, Points
<1>2. entries = [f \in Files |-> None] /\ durable = entries
  BY DEF Init
<1>3. PointsInv /\ FilesInv /\ WindowsInv
  <2>1. \A f \in Files : entries[f] = None /\ durable[f] = None
    BY <1>2
  <2>2. PointsInv
    BY DEF Init, PointsInv
  <2>3. FilesInv
    BY <2>1 DEF Init, FilesInv, Recoverable
  <2>4. WindowsInv
    BY <2>1 DEF Init, WindowsInv
  <2> QED
    BY <2>2, <2>3, <2>4
<1>4. OursInv
  BY DEF Init, OursInv
<1>5. InstallerInv
  BY DEF Init, InstallerInit, InstallerInv
<1> QED
  BY <1>1, <1>3, <1>4, <1>5 DEF IInv

LEMMA NextPreserves ==
  ASSUME IInv, [Next]_vars
  PROVE  IInv'
<1>1. CASE Next
  BY <1>1, TypesPreserved, PointsPreserved, FilesPreserved, WindowsPreserved, OursPreserved,
     InstallerPreserved
  DEF IInv
<1>2. CASE UNCHANGED vars
  BY <1>2 DEF vars, installerVars, files, program, answer, IInv, TypeOK, InstallerTypeOK, PointsInv,
     FilesInv, WindowsInv, OursInv, InstallerInv, Recoverable
<1> QED
  BY <1>1, <1>2

-----------------------------------------------------------------------------
(* The slot: what each step does to what is held and to what may be found. *)

SlotRests == UNCHANGED <<staged, OnDisk, confirmed>>

LEMMA SlotStage ==
  ASSUME NEW v \in Versions, staged = None \/ v > staged,
         staged' = v, OnDisk' = {v}, confirmed' = TRUE
  PROVE  Slot!Next
  BY DEF Slot!Next, Slot!Stage, Slot!Admits, OnDisk

LEMMA SlotStageFails ==
  ASSUME NEW v \in Versions, staged = None \/ v > staged, confirmed' = FALSE,
         OnDisk' \in (SUBSET (OnDisk \cup {None, v})) \ {{}},
         staged' = staged \/ (staged' \in OnDisk' /\ (staged' = None \/ staged' > running))
  PROVE  Slot!Next
  BY DEF Slot!Next, Slot!StageFails, Slot!Admits, OnDisk

LEMMA SlotClear ==
  ASSUME staged # None, staged' = None, confirmed' = TRUE,
         \/ OnDisk' = {None}
         \/ platform = "windows" /\ OnDisk' = {None, staged}
  PROVE  Slot!Next
  BY DEF Slot!Next, Slot!Clear, OnDisk

LEMMA SlotClearFails ==
  ASSUME OnDisk' \in (SUBSET (OnDisk \cup {None})) \ {{}}, confirmed' = FALSE, staged' = staged
  PROVE  Slot!Next
  BY DEF Slot!Next, Slot!ClearFails, OnDisk

LEMMA SlotStop ==
  ASSUME staged' = None, OnDisk' \in (SUBSET OnDisk) \ {{}}, confirmed' = FALSE
  PROVE  Slot!Next
  BY DEF Slot!Next, Slot!Stop, OnDisk

LEMMA SlotOpen ==
  ASSUME staged = None, confirmed' = FALSE, staged' \in OnDisk',
         OnDisk' \in (SUBSET (OnDisk \cup {None})) \ {{}}
  PROVE  Slot!Next
  BY DEF Slot!Next, Slot!Open, OnDisk

LEMMA SlotDamage ==
  ASSUME OnDisk' = {None}, confirmed' = FALSE, staged' = staged
  PROVE  Slot!Next
  BY DEF Slot!Next, Slot!Damage, OnDisk

LEMMA OnDiskRests ==
  ASSUME UNCHANGED files
  PROVE  OnDisk' = OnDisk
  BY DEF files, OnDisk, Leftovers

-----------------------------------------------------------------------------
(* Every step is one of the slot. *)

LEMMA StepsTyped ==
  ASSUME IInv, Next
  PROVE  /\ TypeOK /\ PointsInv /\ FilesInv /\ WindowsInv /\ OursInv /\ InstallerInv
         /\ FilesTyped /\ FilesTyped' /\ entries \in Directories /\ durable \in Directories
         /\ OnDisk # {} /\ Recoverable(entries) \in OnDisk
         /\ OnDisk' # {} /\ Recoverable(entries') \in OnDisk'
<1>1. FilesTyped
  BY DEF IInv, TypeOK, FilesTyped, Directories
<1>2. FilesTyped'
  BY FilesStayTyped DEF FilesTyped
<1> QED
  BY <1>1, <1>2, OnDiskUnfolds, OnDiskSeen DEF IInv, FilesTyped

LEMMA OpenImplements ==
  ASSUME IInv, Next, OpenStep
  PROVE  Slot!Next \/ SlotRests
<1>1. PointsInv /\ Recoverable(entries) \in OnDisk /\ OnDisk # {} /\ OnDisk' = OnDisk
  BY StepsTyped, OnDiskRests DEF OpenStep, StartProcess, OpenFails, Recover, RecoverNothing, Reconcile
<1>2. CASE StartProcess \/ OpenFails \/ RecoverNothing \/ Reconcile
  BY <1>1, <1>2 DEF SlotRests, StartProcess, OpenFails, RecoverNothing, Reconcile, answer
<1>3. CASE Recover /\ op = "open"
  <2>1. staged = None /\ confirmed' = FALSE
    BY <1>1, <1>3 DEF PointsInv, Recover
  <2> QED
    BY <1>1, <1>3, <2>1, SlotOpen DEF Recover
<1>4. CASE Recover /\ op = "stage"
  <2>1. candidate \in Versions /\ (staged = None \/ candidate > staged) /\ confirmed' = FALSE
    BY <1>1, <1>4 DEF PointsInv, Recover
  <2>2. staged' = staged \/ staged' > running
    <3>1. staged' \in Versions /\ entries["package"] = staged'
      BY <1>4, StepsTyped, RecoverableIs DEF Recover, Directories
    <3> QED
      BY <1>4, <3>1, StepsTyped DEF OursInv
  <2> QED
    BY <1>1, <1>4, <2>1, <2>2, SlotStageFails DEF Recover
<1> QED
  BY <1>2, <1>3, <1>4 DEF OpenStep, Recover

LEMMA RemoveImplements ==
  ASSUME IInv, Next, RemoveStep
  PROVE  Slot!Next \/ SlotRests
<1>1. /\ TypeOK /\ PointsInv /\ FilesInv /\ WindowsInv /\ FilesTyped /\ FilesTyped'
      /\ OnDisk' # {} /\ Recoverable(entries') \in OnDisk'
  BY StepsTyped
<1>2. entries \in Directories /\ durable \in Directories
  BY <1>1 DEF FilesTyped
<1>3. CASE RemoveMetadata \/ RemovePackage
  <2>1. \A f \in Files : /\ entries'[f] \in {entries[f], durable[f], None}
                         /\ durable'[f] \in {entries[f], durable[f], None}
    BY <1>2, <1>3 DEF RemoveMetadata, RemovePackage, Directories
  <2>2. OnDisk' \in (SUBSET (OnDisk \cup {None})) \ {{}}
    BY <1>1, <2>1, OnDiskGrows
  <2>3. op \in {"open", "stage", "clear"} /\ confirmed' = FALSE
    BY <1>1, <1>3 DEF TypeOK, PointsInv, RemoveMetadata, RemovePackage, answer
  <2>4. CASE RemoveMetadata \/ op = "clear"
    BY <1>3, <2>2, <2>3, <2>4, SlotClearFails DEF RemoveMetadata, RemovePackage
  <2>5. CASE RemovePackage /\ op # "clear"
    <3>1. entries'["package"] = None
      BY <1>2, <2>5 DEF RemovePackage, Directories
    <3>2. None \in OnDisk' /\ staged' = None
      BY <1>1, <2>5, <3>1 DEF Recoverable, RemovePackage
    <3>3. CASE op = "open"
      <4>1. staged = None
        BY <1>1, <2>5, <3>3 DEF PointsInv, RemovePackage
      <4> QED
        BY <2>2, <2>3, <3>2, <4>1, SlotOpen
    <3>4. CASE op = "stage"
      <4>1. candidate \in Versions /\ (staged = None \/ candidate > staged)
        BY <1>1, <3>4 DEF PointsInv
      <4>2. OnDisk' \in (SUBSET (OnDisk \cup {None, candidate})) \ {{}}
        BY <2>2
      <4> QED
        BY <2>3, <3>2, <4>1, <4>2, SlotStageFails
    <3> QED
      BY <2>3, <2>5, <3>3, <3>4
  <2> QED
    BY <1>3, <2>4, <2>5
<1>4. CASE RemoveFails \/ ClearEndFails
  BY <1>4, OnDiskRests DEF SlotRests, RemoveFails, ClearEndFails, answer
<1>5. CASE ClearEnds
  <2>1. /\ op = "clear" /\ staged # None
        /\ entries["package"] = None /\ entries["metadata"] = None /\ entries' = entries
    BY <1>1, <1>5 DEF TypeOK, PointsInv, FilesInv, Removing, StagePoints, SyncPoints, ClearEnds
  <2>2. Recoverable(entries) = None
    BY <2>1 DEF Recoverable
  <2>3. CASE platform # "windows"
    <3>1. durable' = entries
      BY <1>5, <2>3 DEF ClearEnds, SyncDirectory
    <3>2. OnDisk' = {None}
      BY <1>2, <2>1, <2>2, <3>1, OnDiskUnfolds, OnDiskSynced
    <3> QED
      BY <1>5, <2>1, <3>2, SlotClear DEF ClearEnds
  <2>4. CASE platform = "windows"
    <3>1. durable' = durable /\ durable["metadata"] = staged
      BY <1>1, <1>5, <2>1, <2>4 DEF ClearEnds, SyncDirectory, WindowsInv
    <3>2. OnDisk' \subseteq {None, staged}
      <4>1. ASSUME NEW v \in OnDisk', v # None PROVE v = staged
        <5>1. v \in Versions
          BY <1>1, <4>1, OnDiskUnfolds, OnDiskSeen DEF FilesTyped
        <5>2. v \in {entries'["metadata"], durable'["metadata"]}
          BY <1>1, <4>1, <5>1, OnDiskUnfolds, OnDiskIs DEF FilesTyped
        <5> QED
          BY <2>1, <3>1, <4>1, <5>2
      <4> QED
        BY <4>1
    <3>3. None \in OnDisk'
      BY <1>1, <2>1, <2>2
    <3>4. OnDisk' = {None} \/ OnDisk' = {None, staged}
      BY <3>2, <3>3
    <3> QED
      BY <1>5, <2>1, <2>4, <3>4, SlotClear DEF ClearEnds
  <2> QED
    BY <2>3, <2>4
<1> QED
  BY <1>3, <1>4, <1>5 DEF RemoveStep

LEMMA StageImplements ==
  ASSUME IInv, Next, StageStep
  PROVE  Slot!Next \/ SlotRests
<1>1. /\ TypeOK /\ PointsInv /\ FilesInv /\ WindowsInv /\ FilesTyped /\ FilesTyped'
  BY StepsTyped
<1>2. entries \in Directories /\ durable \in Directories
  BY <1>1 DEF FilesTyped
<1>3. op = "stage"
  BY <1>1 DEF TypeOK, PointsInv, StagePoints, SyncPoints, Removing, StageStep, StageRefused,
     FillPackage, PublishPackage, SyncPackage, PublishMetadata, StageEnds, StageStepFails
<1>4. candidate \in Versions /\ (staged = None \/ candidate > staged) /\ confirmed = FALSE
  BY <1>1, <1>3 DEF PointsInv
<1>5. CASE StageRefused \/ FillPackage \/ StageStepFails
  BY <1>5, OnDiskRests DEF SlotRests, StageRefused, FillPackage, StageStepFails, answer
<1>6. CASE PublishPackage \/ PublishMetadata \/ SyncPackage
  <2>1. \A f \in Files : /\ entries'[f] \in {entries[f], durable[f], None, candidate}
                         /\ durable'[f] \in {entries[f], durable[f], None, candidate}
    BY <1>2, <1>6 DEF PublishPackage, PublishMetadata, SyncPackage, Publish, SyncDirectory, Directories
  <2>2. OnDisk' \in (SUBSET (OnDisk \cup {None, candidate})) \ {{}}
    BY <1>1, <1>4, <2>1, OnDiskGrows
  <2> QED
    BY <1>4, <1>6, <2>2, SlotStageFails DEF PublishPackage, PublishMetadata, SyncPackage, answer
<1>7. CASE StageEnds
  <2>1. /\ entries["package"] = candidate /\ entries["metadata"] = candidate
        /\ entries' = entries
    BY <1>1, <1>7 DEF FilesInv, StageEnds
  <2>2. Recoverable(entries) = candidate
    BY <1>2, <1>4, <2>1, RecoverableIs DEF Directories
  <2>3. durable' = entries
    <3>1. CASE platform # "windows"
      BY <1>7, <3>1 DEF StageEnds, SyncDirectory
    <3>2. CASE platform = "windows"
      <4>1. \A f \in Files : durable[f] = entries[f]
        BY <1>1, <1>4, <2>1, <3>2 DEF WindowsInv
      <4>2. durable = entries
        BY <1>2, <4>1 DEF Directories
      <4> QED
        BY <1>7, <3>2, <4>2 DEF StageEnds, SyncDirectory
    <3> QED
      BY <3>1, <3>2
  <2>4. OnDisk' = {candidate}
    BY <1>2, <1>4, <2>1, <2>2, <2>3, OnDiskUnfolds, OnDiskSynced
  <2> QED
    BY <1>4, <1>7, <2>4, SlotStage DEF StageEnds
<1> QED
  BY <1>5, <1>6, <1>7 DEF StageStep

LEMMA BeginImplements ==
  ASSUME IInv, Next, BeginStep \/ InstallStep
  PROVE  Slot!Next \/ SlotRests
<1>1. OnDisk' = OnDisk /\ OnDisk # {}
  BY StepsTyped, OnDiskRests DEF BeginStep, InstallStep, BeginStage, DiscardOlder, VerifyFails,
     BeginInstall, InstallGoesOn, CompleteInstall
<1>2. CASE confirmed' = FALSE /\ staged' = staged
  BY <1>1, <1>2, SlotClearFails
<1>3. CASE InstallGoesOn \/ CompleteInstall
  BY <1>1, <1>3 DEF SlotRests, InstallGoesOn, CompleteInstall, answer
<1> QED
  BY <1>2, <1>3 DEF BeginStep, InstallStep, BeginStage, DiscardOlder, VerifyFails, BeginInstall

LEMMA OutsideImplements ==
  ASSUME IInv, Next, OutsideStep
  PROVE  Slot!Next \/ SlotRests
<1>1. FilesTyped /\ FilesTyped' /\ OnDisk # {} /\ OnDisk' # {}
  BY StepsTyped
<1>2. CASE ProcessEnds
  BY <1>1, <1>2, OnDiskRests, SlotStop DEF ProcessEnds, Down
<1>3. CASE PowerLoss
  <2>1. entries' \in Leftovers /\ durable' = entries'
    BY <1>3 DEF PowerLoss
  <2>2. OnDisk' = {Recoverable(entries')}
    BY <1>1, <2>1, OnDiskUnfolds, OnDiskSynced, RecoverableIs DEF FilesTyped, Directories
  <2>3. OnDisk' \in (SUBSET OnDisk) \ {{}}
    BY <2>1, <2>2 DEF OnDisk
  <2> QED
    BY <1>3, <2>3, SlotStop DEF PowerLoss, Down
<1>4. CASE DamagePackage
  <2>1. entries'["package"] = Torn /\ durable'["package"] = Torn
    BY <1>1, <1>4 DEF DamagePackage, FilesTyped, Directories
  <2>2. ASSUME NEW v \in OnDisk' PROVE v = None
    <3>1. v \in Versions \cup {None}
      BY <1>1, <2>2, OnDiskUnfolds, OnDiskSeen DEF FilesTyped
    <3>2. CASE v \in Versions
      BY <1>1, <2>1, <2>2, <3>2, OnDiskUnfolds, OnDiskIs DEF FilesTyped
    <3> QED
      BY <3>1, <3>2
  <2>3. OnDisk' = {None}
    BY <1>1, <2>2
  <2> QED
    BY <1>4, <2>3, SlotDamage DEF DamagePackage
<1>5. CASE WithoutProcess \/ ShellGoesOn
  BY <1>5, OnDiskRests DEF SlotRests, WithoutProcess, ShellGoesOn, answer
<1> QED
  BY <1>2, <1>3, <1>4, <1>5 DEF OutsideStep

LEMMA StepImplements ==
  ASSUME IInv, [Next]_vars
  PROVE  [Slot!Next /\ UNCHANGED (platform = "windows")]_(Slot!vars)
<1>1. CASE Next
  <2>1. Slot!Next \/ SlotRests
    BY <1>1, NextIs, OpenImplements, RemoveImplements, StageImplements, BeginImplements,
       OutsideImplements
  <2>2. (platform = "windows")' = (platform = "windows")
    BY <1>1, PlatformStays
  <2> QED
    BY <2>1, <2>2 DEF SlotRests, OnDisk, Slot!vars
<1>2. CASE UNCHANGED vars
  <2>1. UNCHANGED <<platform, staged, confirmed>> /\ UNCHANGED files
    BY <1>2 DEF vars, answer, files
  <2> QED
    BY <2>1, OnDiskRests DEF OnDisk, Slot!vars
<1> QED
  BY <1>1, <1>2

-----------------------------------------------------------------------------
(* The theorems. *)

LEMMA Invariant == Spec => []IInv
<1> QED
  BY InitImplies, NextPreserves, PTL DEF Spec

\* Every variable of the repository and of the installers keeps its type.
THEOREM StagingTypeCorrect == Spec => []TypeOK
<1>1. IInv => TypeOK
  BY DEF IInv
<1> QED
  BY <1>1, Invariant, PTL

(* Between operations the next start would recover what the repository answers *)
(* with, or nothing, for any number of releases and whatever steps have failed *)
(* (recovery after a failed stage).                                            *)
THEOREM NothingStaysHidden == Spec => []NothingHidden
<1>1. IInv => NothingHidden
  BY DEF IInv, FilesInv, NothingHidden
<1> QED
  BY <1>1, Invariant, PTL

(* Through every step of an installation and every failure, crash and loss of *)
(* power an application remains to go back to, except through the failed      *)
(* rollback of a Mac and the rm of its privileged shell                       *)
(* (replace_with_rollback and its callers, install_macos_with_authorization). *)
THEOREM ApplicationStays == Spec => ApplicationIsKept
<1>1. ASSUME IInv, [Next]_vars
      PROVE  [HasApplication => \/ HasApplication'
                                \/ platform = "macos" /\ (Rollback \/ ShellRemoves)]_vars
  <2> SUFFICES ASSUME HasApplication
               PROVE  HasApplication' \/ (platform = "macos" /\ (Rollback \/ ShellRemoves))
    OBVIOUS
  <2>1. InstallerInv /\ InstallerTypeOK
    BY <1>1 DEF IInv, TypeOK
  <2>2. CASE OpenStep \/ RemoveStep \/ StageStep \/ BeginStep
    BY <2>2, InstallerRests DEF HasApplication
  <2>3. CASE InstallStep
    <3>1. CASE BeginInstall \/ CompleteInstall
      BY <3>1 DEF BeginInstall, BeginInstaller, CompleteInstall, InstallerReturns, HasApplication
    <3>2. CASE UnpackPackage(entries["package"]) \/ ShellAnswers \/ SpawnSetup
      BY <3>2 DEF UnpackPackage, ShellAnswers, SpawnSetup, GoesTo, HasApplication
    <3>3. CASE MoveAside \/ MoveIn \/ PostReplace
      BY <2>1, <3>3 DEF InstallerInv, MoveAside, MoveIn, PostReplace, GoesTo, HasApplication
    <3>4. CASE Rollback
      <4>1. platform \in {"linux", "macos"}
        BY <2>1, <3>4 DEF InstallerInv, InstallerTypeOK, Rollback
      <4> QED
        BY <2>1, <3>4, <4>1 DEF InstallerInv, Rollback, KeepsBackup, HasApplication
    <3> QED
      BY <2>3, <3>1, <3>2, <3>3, <3>4 DEF InstallStep, InstallGoesOn, InstallerStep
  <2>4. CASE OutsideStep
    <3>1. CASE ProcessEnds \/ PowerLoss \/ DamagePackage
      BY <3>1 DEF ProcessEnds, PowerLoss, DamagePackage, InstallerStops, InstallerCutOff,
         installerVars, HasApplication
    <3>2. CASE WithoutProcess
      BY <3>2 DEF WithoutProcess, SetupRuns, RepairByHand, HasApplication
    <3>3. CASE ShellGoesOn
      <4>1. ShellRemoves => platform = "macos"
        BY <2>1 DEF InstallerInv, ShellRemoves
      <4>2. ShellMoves \/ ShellIsOver => HasApplication'
        BY <2>1 DEF InstallerInv, ShellMoves, ShellIsOver, HasApplication
      <4> QED
        BY <3>3, <4>1, <4>2 DEF ShellGoesOn, ShellStep
    <3> QED
      BY <2>4, <3>1, <3>2, <3>3 DEF OutsideStep
  <2>5. CASE UNCHANGED vars
    BY <2>5 DEF vars, installerVars, HasApplication
  <2> QED
    BY <1>1, <2>2, <2>3, <2>4, <2>5, NextIs
<1> QED
  BY <1>1, Invariant, PTL DEF Spec, ApplicationIsKept

(* A package that is not newer than the running application comes to be       *)
(* answered as staged only by the end of a removal that has failed, however   *)
(* the process that installed it ended (reconcile_current_version, and the    *)
(* recovery after a failed stage).                                            *)
THEOREM StaleIsFoundOut == Spec => StaleOnlyAfterFailedRemoval
<1>1. ASSUME IInv, [Next]_vars
      PROVE  [AnswersStale' => AnswersStale \/ op = "clear"]_vars
  <2> SUFFICES ASSUME AnswersStale', op # "clear"
               PROVE  AnswersStale
    OBVIOUS
  <2>1. TypeOK /\ PointsInv /\ FilesInv /\ OursInv /\ InstallerInv /\ entries \in Directories
    BY <1>1 DEF IInv, TypeOK, Directories
  <2>2. running \in Nat
    BY <2>1 DEF TypeOK
  <2>3. /\ op' \in {"idle", "stage", "install"} /\ staged' # None
        /\ staged' <= running'
    BY DEF AnswersStale
  <2>4. CASE Recover
    <3>1. op = "stage" /\ running' = running
      BY <2>3, <2>4 DEF Recover
    <3>2. staged' \in Versions /\ entries["package"] = staged'
      BY <2>1, <2>4, RecoverableIs DEF Recover, Directories
    <3>3. staged' = staged
      BY <2>1, <2>2, <2>3, <3>1, <3>2 DEF OursInv
    <3> QED
      BY <2>3, <3>1, <3>3 DEF AnswersStale
  <2>5. CASE StartProcess \/ OpenFails \/ RecoverNothing \/ Reconcile
    BY <2>1, <2>2, <2>3, <2>5 DEF TypeOK, AnswersStale, StartProcess, OpenFails, RecoverNothing,
       Reconcile
  <2>6. CASE RemoveStep
    BY <2>1, <2>3, <2>6 DEF TypeOK, PointsInv, Removing, StagePoints, SyncPoints, AnswersStale,
       RemoveStep, RemoveMetadata, RemovePackage, RemoveFails, ClearEnds, ClearEndFails
  <2>7. CASE StageStep
    <3>1. op = "stage"
      BY <2>1, <2>7 DEF TypeOK, PointsInv, StagePoints, SyncPoints, Removing, StageStep, StageRefused,
         FillPackage, PublishPackage, SyncPackage, PublishMetadata, StageEnds, StageStepFails
    <3>2. CASE StageEnds
      BY <2>1, <2>2, <2>3, <3>1, <3>2 DEF TypeOK, OursInv, StageEnds
    <3>3. (staged' = staged /\ running' = running) \/ StageEnds
      BY <2>7 DEF StageStep, StageRefused, FillPackage, PublishPackage, SyncPackage,
         PublishMetadata, StageStepFails
    <3> QED
      BY <2>3, <3>1, <3>2, <3>3 DEF AnswersStale
  <2>8. CASE BeginStep
    BY <2>3, <2>8 DEF AnswersStale, BeginStep, BeginStage, DiscardOlder, VerifyFails
  <2>9. CASE InstallStep
    <3>1. CompleteInstall => op = "install"
      BY <2>1 DEF InstallerInv, CompleteInstall, InstallerReturns
    <3> QED
      BY <2>3, <2>9, <3>1 DEF AnswersStale, InstallStep, BeginInstall, InstallGoesOn,
         CompleteInstall, program
  <2>10. CASE OutsideStep
    BY <2>3, <2>10 DEF AnswersStale, OutsideStep, ProcessEnds, PowerLoss, Down, DamagePackage,
       WithoutProcess, ShellGoesOn, program
  <2>11. CASE UNCHANGED vars
    BY <2>11 DEF AnswersStale, vars, program
  <2> QED
    BY <1>1, <2>4, <2>5, <2>6, <2>7, <2>8, <2>9, <2>10, <2>11, NextIs DEF OpenStep
<1> QED
  BY <1>1, Invariant, PTL DEF Spec, StaleOnlyAfterFailedRemoval

(* The file operations, each of which may fail, with the process or the      *)
(* machine stopping between any two, implement the slot the updater relies   *)
(* on, for any number of releases and on every platform.                     *)
THEOREM RepositoryImplementsSlot == Spec => ImplementsStagedSlot
<1>1. Init => Slot!Init
  <2>1. ASSUME Init PROVE OnDisk = {None}
    <3>1. entries \in Directories /\ durable = entries /\ entries["package"] = None
      BY <2>1 DEF Init, Directories
    <3>2. Recoverable(entries) = None
      BY <3>1 DEF Recoverable
    <3> QED
      BY <3>1, <3>2, OnDiskUnfolds, OnDiskSynced
  <2> QED
    BY <2>1 DEF Init, Slot!Init, OnDisk
<1>2. ASSUME IInv, [Next]_vars
      PROVE  [Slot!Next /\ UNCHANGED (platform = "windows")]_(Slot!vars)
  BY <1>2, StepImplements
<1> QED
  BY <1>1, <1>2, Invariant, PTL DEF Spec, ImplementsStagedSlot, Slot!Spec
=============================================================================
