---------------------------- MODULE NativeSmoke ----------------------------
(***************************************************************************)
(* One native update smoke on one hosted runner: the driver installs the   *)
(* previous Stable, lets it find, stage and install the candidate through  *)
(* the TLS gate, starts the updated installation itself, and reports an    *)
(* observation only when every step and every cleanup succeeded.           *)
(*                                                                         *)
(* native-update-smoke-driver.mjs (the order), native-update-platform-     *)
(* adapter.mjs and native-update-processes.mjs (what each step looks at).  *)
(* The Desktop under test is the other side: its steps are free to go      *)
(* wrong in the ways the driver looks for.                                 *)
(***************************************************************************)
EXTENDS TlsGate

CONSTANT Targets   \* the targets of the runner: "windows", "linux", "macos"

VARIABLES
    target,     \* the runner's target
    driver,     \* where the driver is, and what it remembers
    desktop,    \* the Desktop process of the exact installation
    host,       \* the Host: the version that serves the fixed port, or a process that
                \* is alive and serves no longer
    installed,  \* the installation on disk
    staged,     \* the staged metadata and package
    check,      \* the update check of the running Desktop
    witness     \* what held when the updated Desktop was found ready

driverVars == <<driver, witness>>
productVars == <<desktop, host, installed, staged, check>>
smokeVars == <<gateVars, target, driverVars, productVars>>

Versions == {"baseline", "candidate"}
Nothing == "none"
NoInstallation == [version |-> Nothing, inPlace |-> TRUE, sound |-> TRUE]
Unwitnessed == [installed |-> NoInstallation, own |-> FALSE, host |-> Nothing]
DriverSteps == {"idle", "runner", "install", "inspect", "gate", "look", "spawn", "ready",
                "request", "restore", "release", "released", "staged", "close", "closed",
                "updated", "quiet", "look again", "spawn again", "ready again", "host again",
                "reconcile", "inspect again", "leave", "cleanup", "report"}
\* The steps the gate's action runs: an exception in one of them reaches the gate.
InsideGate == {"look", "spawn", "ready", "request", "restore", "release", "released",
               "staged", "close", "closed", "updated", "quiet", "look again",
               "spawn again", "ready again", "host again", "reconcile", "inspect again"}

SmokeInit ==
    /\ GateInit
    /\ target \in Targets
    /\ witness = Unwitnessed
    /\ driver = [at |-> "idle", inputs |-> FALSE, known |-> FALSE, overtaken |-> FALSE,
                 failed |-> FALSE]
    /\ desktop = [life |-> "off", version |-> "baseline", own |-> FALSE]
    /\ host = Nothing
    /\ installed = NoInstallation
    /\ staged = Nothing
    /\ check = Nothing

DriverAt(step) == driver.at = step
Proceed(step) == driver' = [driver EXCEPT !.at = step]
Fail == driver' = [driver EXCEPT !.at = "cleanup", !.failed = TRUE]

\* A process of the exact installed executable exists.
DesktopRuns == desktop.life # "off"
\* The fixed Host answers a request.
HostAnswers == host \in Versions
RequireHostPortFree == ~HostAnswers
\* The hosted Windows session has no WebView: its Host is not waited for.
RequiresHostReadiness == target # "windows"

-----------------------------------------------------------------------------
(* What the driver reads of an installation. *)

\* The tree holds the official Node, the published closure, the Desktop
\* packages and the trusted endpoint and key.
InspectInstalledRuntimeTree == installed.version # Nothing /\ installed.sound

VersionAtBaselinePath == IF installed.inPlace THEN installed.version ELSE "baseline"
\* The only current-user uninstall record carries the version, wherever it points.
InspectWindows(version) == installed.version = version
\* Info.plist of the application at the known path, its signature and architecture.
InspectMac(version) == VersionAtBaselinePath = version /\ installed.sound
\* The AppImage at the known path has the version's digest.
InspectLinuxAppImage(version) == VersionAtBaselinePath = version

Inspected(version) ==
    CASE target = "windows" -> InspectWindows(version)
      [] target = "macos"   -> InspectMac(version)
      [] OTHER              -> InspectLinuxAppImage(version)

\* mutant of SameInstallationLocation: the updated installation may be anywhere.
AnyInstallationLocation == TRUE

\* The registry may name another directory; the other targets are looked at in place.
SameInstallationLocation == installed.inPlace

-----------------------------------------------------------------------------
(* Outside the gate: preparing the runner and the previous Stable. *)

StartSmoke ==
    /\ DriverAt("idle")
    /\ \E sound \in BOOLEAN : driver' = [driver EXCEPT !.at = "runner", !.inputs = sound]
    /\ UNCHANGED <<gateVars, target, productVars, witness>>

AssertRunner ==
    /\ DriverAt("runner")
    /\ Proceed("install") \/ Fail
    /\ UNCHANGED <<gateVars, target, productVars, witness>>

\* The downloaded packages match the digests, the manifest and the public key.
VerifyInputs == driver.inputs

\* An installer that ran and was never found by the inspection leaves an
\* installation the driver does not know of.
InstallBaseline ==
    /\ DriverAt("install")
    /\ IF VerifyInputs
       THEN \E install \in CommandOutcomes, sound \in BOOLEAN :
              /\ installed' = IF install.done
                              THEN [version |-> "baseline", inPlace |-> TRUE, sound |-> sound]
                              ELSE installed
              /\ IF install.ok
                 THEN driver' = [driver EXCEPT !.at = "inspect", !.known = TRUE]
                 ELSE Fail
       ELSE Fail /\ UNCHANGED installed
    /\ UNCHANGED <<gateVars, target, desktop, host, staged, check, witness>>

InspectBaselineRuntime ==
    /\ DriverAt("inspect")
    /\ IF InspectInstalledRuntimeTree
       THEN Proceed("gate") /\ ValidateGateConfig
       ELSE Fail /\ UNCHANGED gateVars
    /\ UNCHANGED <<target, productVars, witness>>

SetUpGate ==
    /\ DriverAt("gate")
    /\ GateStep
    /\ IF gate'.at = "open" THEN Proceed("look")
       ELSE IF gate'.failed THEN Proceed("leave")
       ELSE UNCHANGED driver
    /\ UNCHANGED <<target, productVars, witness>>

-----------------------------------------------------------------------------
(* The Desktop under test. *)

DesktopStarts ==
    /\ desktop.life = "starting"
    /\ desktop' = [desktop EXCEPT !.life = "running"]
    \* A start reconciles a staging record that its version consumed, or should.
    /\ \E left \in {Nothing, staged} : staged' = IF desktop.version = "candidate" THEN left ELSE staged
    /\ UNCHANGED <<gateVars, target, driverVars, host, installed, check>>

HostStarts ==
    /\ desktop.life = "running" /\ ~HostAnswers
    /\ host' = desktop.version
    /\ UNCHANGED <<gateVars, target, driverVars, desktop, installed, staged, check>>

\* The automatic check resolves the update hostname through the hosts file.
DesktopChecks ==
    /\ desktop.life = "running" /\ desktop.version = "baseline" /\ check = Nothing
    /\ IF hosts = "routed" /\ trust = "installed" /\ HelperIsFree
       THEN HoldRequest /\ check' = "asking"
       ELSE check' = "failed" /\ UNCHANGED <<helper, events>>
    /\ UNCHANGED <<gate, systemVars, commands, observed, target, driverVars,
                   desktop, host, installed, staged>>

ManifestServed ==
    /\ HelperReleases
    /\ check' = IF helper'.answered /\ check = "asking" THEN "told" ELSE check
    /\ UNCHANGED <<gate, systemVars, observed, target, driverVars,
                   desktop, host, installed, staged>>

\* A request that is never answered, or whose helper is gone, fails.
CheckFails ==
    /\ check \in {"asking", "told"}
    /\ check' = "failed"
    /\ UNCHANGED <<gateVars, target, driverVars, desktop, host, installed, staged>>

\* The package comes from the real hostname: a routed one cannot serve it.
DesktopDownloads ==
    /\ check = "told" /\ desktop.life = "running"
    /\ IF hosts = "routed"
       THEN check' = "failed" /\ UNCHANGED staged
       ELSE \E package \in {"candidate", "other"} : check' = "done" /\ staged' = package
    /\ UNCHANGED <<gateVars, target, driverVars, desktop, host, installed>>

DesktopExits(life) ==
    /\ desktop' = [desktop EXCEPT !.life = life]
    /\ host' \in {host, Nothing}

\* Windows installs after the process is gone; the others before it ends.
InstallsAsync == target = "windows"

DesktopCloses ==
    /\ desktop.life = "closing"
    /\ IF staged # Nothing /\ ~InstallsAsync
       THEN desktop' = [desktop EXCEPT !.life = "installing"] /\ UNCHANGED host
       ELSE DesktopExits("off")
    /\ UNCHANGED <<gateVars, target, driverVars, installed, staged, check>>

DesktopCrashes ==
    /\ desktop.life \in {"starting", "running", "closing"}
    /\ DesktopExits("off")
    /\ UNCHANGED <<gateVars, target, driverVars, installed, staged, check>>

\* The installation replaces the old one, lands elsewhere, or leaves it be.
Replacements ==
    [version : {"candidate"}, inPlace : BOOLEAN, sound : BOOLEAN] \cup {installed}

InstallEnds ==
    /\ \/ desktop.life = "installing"
       \/ InstallsAsync /\ desktop.life = "off" /\ staged # Nothing
                        /\ installed.version = "baseline" /\ check = "done"
    /\ installed' \in Replacements
    /\ staged' = IF InstallsAsync \/ installed' = installed THEN staged ELSE Nothing
    /\ check' = Nothing
    /\ IF desktop.life = "installing" THEN DesktopExits("off") ELSE UNCHANGED <<desktop, host>>
    /\ UNCHANGED <<gateVars, target, driverVars>>

Launched(own) == [life |-> "starting", version |-> installed.version, own |-> own]

\* After a normal close the Desktop should stay closed; an installer that
\* starts it again is what the driver looks for.
DesktopRelaunches ==
    /\ desktop.life = "off" /\ installed.version = "candidate"
    /\ desktop' = Launched(FALSE)
    /\ driver' = [driver EXCEPT !.overtaken = @ \/ driver.at \in {"spawn again", "ready again"}]
    /\ UNCHANGED <<gateVars, target, witness, host, installed, staged, check>>

\* The Host process ends, or stops serving and stays.
HostStopsServing ==
    /\ host # Nothing
    /\ host' \in {Nothing, "silent"}
    /\ host' # host
    /\ UNCHANGED <<gateVars, target, driverVars, desktop, installed, staged, check>>

\* Once the action is over the driver looks at the Desktop no more: only what
\* passes between it and the helper is followed.
DesktopStep ==
    \/ /\ driver.at \in InsideGate
       /\ \/ DesktopStarts \/ HostStarts \/ CheckFails \/ DesktopDownloads
          \/ DesktopCloses \/ DesktopCrashes \/ InstallEnds \/ DesktopRelaunches
          \/ HostStopsServing
    \/ DesktopChecks \/ ManifestServed

-----------------------------------------------------------------------------
(* The gate's action: the steps of the smoke itself. *)

\* Every wait has a deadline and every command may fail: the action throws.
ActionFails ==
    /\ driver.at \in InsideGate
    /\ driver' = [driver EXCEPT !.at = "leave", !.failed = TRUE]
    /\ Throw
    /\ UNCHANGED <<systemVars, helperVars, target, productVars, witness>>

\* launch() first requires the Host port free and no running Desktop.
LaunchLooks(here, next) ==
    /\ DriverAt(here)
    /\ RequireHostPortFree
    /\ ~DesktopRuns
    /\ Proceed(next)
    /\ UNCHANGED <<gateVars, target, productVars, witness>>

\* A Desktop that is there already keeps its single instance: the new one ends.
LaunchSpawns(here, next) ==
    /\ DriverAt(here)
    /\ desktop' = IF DesktopRuns THEN desktop ELSE Launched(TRUE)
    /\ Proceed(next)
    /\ UNCHANGED <<gateVars, target, host, installed, staged, check, witness>>

\* The updater configuration logged for that version by the only process of
\* the installation.
ConfigurationIdentity(version) == desktop.life = "running" /\ desktop.version = version

Ready(version) ==
    /\ ConfigurationIdentity(version)
    /\ RequiresHostReadiness => HostAnswers

WaitForReady ==
    /\ DriverAt("ready") /\ Ready("baseline")
    /\ Proceed("request")
    /\ UNCHANGED <<gateVars, target, productVars, witness>>

WaitForRequest ==
    /\ DriverAt("request") /\ Await("request")
    /\ Proceed("restore")
    /\ UNCHANGED <<gate, systemVars, helper, commands, events, target, productVars, witness>>

RestoreRealRouting ==
    /\ DriverAt("restore")
    /\ \E write \in CommandOutcomes : RestoreRouting(write)
    /\ IF gate'.failed
       THEN driver' = [driver EXCEPT !.at = "leave", !.failed = TRUE]
       ELSE Proceed("release")
    /\ UNCHANGED <<trust, helperVars, target, productVars, witness>>

ReleaseManifest ==
    /\ DriverAt("release") /\ SendRelease
    /\ Proceed("released")
    /\ UNCHANGED <<gate, systemVars, target, productVars, witness>>

AwaitReleased ==
    /\ DriverAt("released") /\ ManifestReleased
    /\ Proceed("staged")
    /\ UNCHANGED <<systemVars, target, productVars, witness>>

\* The staged metadata and the complete package bytes are the candidate's.
VerifyStagedCandidate == staged = "candidate"

WaitForStaged ==
    /\ DriverAt("staged") /\ check = "done" /\ VerifyStagedCandidate
    /\ Proceed("close")
    /\ UNCHANGED <<gateVars, target, productVars, witness>>

RequestNormalClose ==
    /\ DriverAt("close") /\ desktop.life = "running"
    /\ desktop' = [desktop EXCEPT !.life = "closing"]
    /\ Proceed("closed")
    /\ UNCHANGED <<gateVars, target, host, installed, staged, check, witness>>

\* The saved process tree of the Host listener is gone; Windows saved none.
HostTreeGone == RequiresHostReadiness => host = Nothing

\* No process, no Host, and the staging consumed where the installation is synchronous.
WaitForNormalClose ==
    /\ DriverAt("closed")
    /\ ~DesktopRuns /\ HostTreeGone /\ ~HostAnswers
    /\ InstallsAsync \/ staged = Nothing
    /\ Proceed("updated")
    /\ UNCHANGED <<gateVars, target, productVars, witness>>

InspectUpdatedInstallation ==
    /\ DriverAt("updated")
    /\ Inspected("candidate") /\ SameInstallationLocation
    /\ Proceed("quiet")
    /\ UNCHANGED <<gateVars, target, productVars, witness>>

AssertNotRelaunched ==
    /\ DriverAt("quiet")
    /\ ~DesktopRuns /\ ~HostAnswers
    /\ Proceed("look again")
    /\ UNCHANGED <<gateVars, target, productVars, witness>>

\* The updated launch is waited for in three steps, between which the Desktop
\* goes on: its identity, its Host, and the staging record, which it reconciles.
IdentifyUpdated ==
    /\ DriverAt("ready again") /\ ConfigurationIdentity("candidate")
    /\ witness' = [installed |-> installed, own |-> desktop.own, host |-> Nothing]
    /\ Proceed("host again")
    /\ UNCHANGED <<gateVars, target, productVars>>

WaitForUpdatedHost ==
    /\ DriverAt("host again") /\ (RequiresHostReadiness => HostAnswers)
    /\ witness' = [witness EXCEPT !.host = host]
    /\ Proceed("reconcile")
    /\ UNCHANGED <<gateVars, target, productVars>>

AwaitReconciled ==
    /\ DriverAt("reconcile") /\ staged = Nothing
    /\ Proceed("inspect again")
    /\ UNCHANGED <<gateVars, target, productVars, witness>>

\* Both runtime inspections must hold: the action returns its result.
InspectUpdatedRuntime ==
    /\ DriverAt("inspect again")
    /\ InspectInstalledRuntimeTree
    /\ GoTo("restore")
    /\ Proceed("leave")
    /\ UNCHANGED <<systemVars, helperVars, target, productVars, witness>>

LaunchStep ==
    \/ LaunchLooks("look", "spawn")
    \/ LaunchSpawns("spawn", "ready")
    \/ LaunchLooks("look again", "spawn again")
    \/ LaunchSpawns("spawn again", "ready again")

ActionStep ==
    \/ LaunchStep
    \/ WaitForReady \/ WaitForRequest \/ RestoreRealRouting \/ ReleaseManifest
    \/ AwaitReleased \/ WaitForStaged \/ RequestNormalClose \/ WaitForNormalClose
    \/ InspectUpdatedInstallation \/ AssertNotRelaunched
    \/ IdentifyUpdated \/ WaitForUpdatedHost \/ AwaitReconciled
    \/ InspectUpdatedRuntime \/ ActionFails

-----------------------------------------------------------------------------
(* Leaving: the gate's finally block, the adapter's cleanup, the report. *)

LeaveGate ==
    /\ DriverAt("leave")
    /\ IF At("ended")
       THEN /\ driver' = [driver EXCEPT !.at = "cleanup",
                                        !.failed = @ \/ gate.failed \/ gate.unclean]
            /\ UNCHANGED gateVars
       ELSE GateStep /\ UNCHANGED driver
    /\ UNCHANGED <<target, productVars, witness>>

\* Only processes whose ids a launch recorded are killed, and a signal or a
\* taskkill that fails is swallowed: the Desktop or its Host may stay.
CleanupLaunch ==
    /\ desktop' \in {desktop, [desktop EXCEPT !.life = "off"]}
    /\ host' \in {host, Nothing}

\* Only an installation the driver knows of is uninstalled.
UninstallBaseline(uninstall) ==
    installed' = IF uninstall.done /\ (driver.known \/ target # "windows")
                 THEN NoInstallation ELSE installed

Cleanup ==
    /\ DriverAt("cleanup")
    /\ CleanupLaunch
    /\ \E uninstall \in CommandOutcomes :
        /\ UninstallBaseline(uninstall)
        /\ driver' = [driver EXCEPT !.at = "report", !.failed = @ \/ ~uninstall.ok]
    /\ staged' = Nothing
    /\ UNCHANGED <<gateVars, target, check, witness>>

SmokeStep ==
    \/ StartSmoke \/ AssertRunner \/ InstallBaseline \/ InspectBaselineRuntime
    \/ SetUpGate \/ ActionStep \/ LeaveGate \/ Cleanup
    \/ DesktopStep
    \/ HelperStep /\ UNCHANGED <<target, driverVars, productVars>>

\* The driver returns its result: the smoke's document follows.
SmokeSucceeded == driver.at = "report" /\ ~driver.failed

NativeSmokeTypeOK ==
    /\ GateTypeOK
    /\ target \in Targets
    /\ driver \in [at : DriverSteps, inputs : BOOLEAN, known : BOOLEAN,
                  overtaken : BOOLEAN, failed : BOOLEAN]
    /\ desktop \in [life : {"off", "starting", "running", "closing", "installing"},
                    version : Versions, own : BOOLEAN]
    /\ host \in Versions \cup {Nothing, "silent"}
    /\ installed \in [version : Versions \cup {Nothing}, inPlace : BOOLEAN, sound : BOOLEAN]
    /\ staged \in {Nothing, "candidate", "other"}
    /\ check \in {Nothing, "asking", "told", "done", "failed"}

(***************************************************************************)
(* A smoke that reports success is true: when the driver found the updated *)
(* Desktop ready, the candidate's sound installation stood where the       *)
(* baseline had been, the running Desktop was the one the driver started   *)
(* (or one that started after it had looked for the last time), and the    *)
(* Host that answered was the candidate's.  The Desktop under test may     *)
(* install elsewhere or not at all, restart by itself, crash, leave its    *)
(* Host behind (native-update-smoke-driver.mjs, waitForNormalClose to the  *)
(* second waitForReady of native-update-platform-adapter.mjs).             *)
(***************************************************************************)
EvidenceIsTrue ==
    SmokeSucceeded =>
        /\ witness.installed = [version |-> "candidate", inPlace |-> TRUE, sound |-> TRUE]
        /\ witness.own \/ driver.overtaken
        /\ RequiresHostReadiness => witness.host = "candidate"

(***************************************************************************)
(* The manifest leaves the gate only while the original hosts file is in   *)
(* place, so the package comes from the real host; and a smoke that        *)
(* reports success, or a gate that ended without a failure, has the hosts  *)
(* file restored, the temporary authority removed and its helper gone      *)
(* (withUpdateSmokeTlsGate and its finally block).                         *)
(***************************************************************************)
RunnerIsRestored ==
    /\ helper.answered => hosts = "original"
    /\ (At("ended") /\ ~gate.failed /\ ~gate.unclean) \/ SmokeSucceeded
       => /\ hosts = "original" /\ trust = "absent"
          /\ helper.life = "dead" /\ ~saved
=============================================================================
