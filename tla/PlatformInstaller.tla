--------------------------- MODULE PlatformInstaller ---------------------------
(***************************************************************************)
(* The installers of app_update/tauri_adapter.rs: how a verified package   *)
(* takes the place of the installed application.  On Linux the AppImage is *)
(* moved aside, replaced, and moved back if that fails; on macOS the same  *)
(* is done with the bundle, or a privileged shell does it; on Windows a    *)
(* setup program is started and works when the process is gone.            *)
(*                                                                         *)
(* The package is opened by its path after it has been verified; unpacking *)
(* it is a step that may fail.  The renames of an installation are taken   *)
(* to survive a loss of power in the order in which they were made.        *)
(***************************************************************************)
EXTENDS Integers

CONSTANTS
    MaxVersion,    \* bound: releases are numbered 1..MaxVersion
    Platforms      \* those of one run, out of linux, macos and windows

ASSUME ConstantsAssumption ==
    /\ MaxVersion \in Nat \ {0}
    /\ Platforms \subseteq {"linux", "macos", "windows"}

Versions == 1..MaxVersion
None == 0
Torn == -1             \* a damaged package, or what was made of one
Applications == Versions \cup {None, Torn}

VARIABLES
    platform,      \* of this installation
    application,   \* what is at the path of the application: a version, or None
    aside,         \* the application the last installation moved away, or None
    installing,    \* what is being installed, or None
    step,          \* program point of PlatformInstaller::install
    shell          \* macOS: the privileged shell, which outlives the process

installerVars == <<application, aside, installing, step, shell>>

InstallerTypeOK ==
    /\ platform \in Platforms
    /\ application \in Applications
    /\ aside \in Applications
    /\ installing \in Applications
    /\ step \in {"none", "unpack", "moveAside", "authorize", "moveIn", "postReplace",
                 "rollback", "spawn", "done", "failed", "returned"}
    /\ shell \in {"none", "asked", "removed", "succeeded", "failed"}

InstallerInit ==
    /\ platform \in Platforms
    /\ application = 1
    /\ aside = None
    /\ installing = None
    /\ step = "none"
    /\ shell = "none"

\* Only the shutdown thread installs, once: the process ends when it has.
BeginInstaller(v) ==
    /\ step = "none"
    /\ installing' = v
    /\ step' = "unpack"
    /\ UNCHANGED <<application, aside, shell>>

GoesTo(point) == step' = point /\ UNCHANGED <<application, aside, installing, shell>>

\* The file at the path of the package is what is unpacked, or copied unread.
UnpackPackage(package) ==
    /\ step = "unpack"
    /\ \/ /\ installing' = package
          /\ step' = IF platform = "windows" THEN "spawn" ELSE "moveAside"
          /\ UNCHANGED <<application, aside, shell>>
       \/ GoesTo("failed")

\* On macOS a refusal leads to the dialog for administrator rights.
MoveAside ==
    /\ step = "moveAside"
    /\ \/ /\ application # None
          /\ aside' = application /\ application' = None
          /\ step' = "moveIn"
          /\ UNCHANGED <<installing, shell>>
       \/ /\ application # None /\ platform = "macos"
          /\ step' = "authorize" /\ shell' = "asked"
          /\ UNCHANGED <<application, aside, installing>>
       \/ GoesTo("failed")

\* The temporary directory goes with what is in it when the installer returns.
MoveIn ==
    /\ step = "moveIn"
    /\ \/ /\ application' = installing
          /\ IF platform = "linux"
             THEN step' = "postReplace" /\ UNCHANGED aside
             ELSE step' = "done" /\ aside' = None
          /\ UNCHANGED <<installing, shell>>
       \/ GoesTo("rollback")

\* Linux: the new AppImage is made executable.
PostReplace ==
    /\ step = "postReplace"
    /\ \/ step' = "done" /\ aside' = None /\ UNCHANGED <<application, installing, shell>>
       \/ GoesTo("rollback")

\* mutant of KeepsBackup: the temporary directory is always dropped.
DropsBackup == FALSE

\* After a rollback that failed, Linux keeps the temporary directory.
KeepsBackup == platform = "linux"

Rollback ==
    /\ step = "rollback"
    /\ \/ application' = aside /\ aside' = None
       \/ UNCHANGED application /\ aside' = IF KeepsBackup THEN aside ELSE None
    /\ step' = "failed"
    /\ UNCHANGED <<installing, shell>>

\* install_macos_with_authorization: rm -rf of the application ...
ShellRemoves ==
    /\ shell = "asked"
    /\ \/ shell' = "removed" /\ application' = None
       \/ shell' = "failed" /\ application' \in {application, None}
    /\ UNCHANGED <<aside, installing, step>>

\* ... and, if that went well, mv of the new one.
ShellMoves ==
    /\ shell = "removed"
    /\ \/ shell' = "succeeded" /\ application' = installing
       \/ shell' = "failed" /\ UNCHANGED application
    /\ UNCHANGED <<aside, installing, step>>

ShellStep == ShellRemoves \/ ShellMoves

ShellAnswers ==
    /\ step = "authorize"
    /\ shell \in {"succeeded", "failed"}
    /\ step' = IF shell = "succeeded" THEN "done" ELSE "failed"
    /\ shell' = "none"
    /\ UNCHANGED <<application, aside, installing>>

\* The process that waited for the shell has ended before it.
ShellIsOver ==
    /\ step = "none"
    /\ shell \in {"succeeded", "failed"}
    /\ shell' = "none"
    /\ installing' = None
    /\ UNCHANGED <<application, aside, step>>

\* Windows: the setup program has a copy of the package of its own.
SpawnSetup ==
    /\ step = "spawn"
    /\ GoesTo("done") \/ GoesTo("failed")

InstallerStep(package) ==
    /\ \/ UnpackPackage(package) \/ MoveAside \/ MoveIn \/ PostReplace \/ Rollback
       \/ ShellAnswers \/ SpawnSetup
    /\ UNCHANGED platform

HandedOver == platform = "windows" /\ step \in {"none", "done", "returned"}

\* The installer has returned to install_verified_offline.
InstallerReturns ==
    /\ step \in {"done", "failed"}
    /\ step' = "returned"
    /\ installing' = IF HandedOver THEN installing ELSE None
    /\ UNCHANGED <<application, aside, shell>>

\* The process ends: its temporary files stay, and the shell goes on.
InstallerStops ==
    /\ step' = "none"
    /\ installing' = IF HandedOver \/ shell # "none" THEN installing ELSE None
    /\ UNCHANGED <<application, aside, shell>>

\* The machine stops, and the shell with it.
InstallerCutOff ==
    /\ step' = "none"
    /\ shell' = "none"
    /\ installing' = IF HandedOver THEN installing ELSE None
    /\ UNCHANGED <<application, aside>>

\* The setup program, which ends a process that is in its way.
SetupRuns ==
    /\ platform = "windows" /\ installing # None
    /\ application' \in {installing, application}
    /\ installing' = None
    /\ UNCHANGED <<platform, aside, step, shell>>

\* The user puts a release where no application starts, or what was kept.
RepairByHand ==
    /\ application \notin Versions
    /\ shell = "none"
    /\ application' \in Versions
    /\ aside' = None
    /\ UNCHANGED <<platform, installing, step, shell>>

\* There is an application to go back to: at its path, or moved aside.
HasApplication == application # None \/ aside # None
=============================================================================
