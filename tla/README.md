# Verification of dsh-desktop

dsh-desktop wraps a published `dsh` CLI in a Tauri window. The shell starts the
CLI on a fixed port of the loopback interface, waits until it serves the
harness page, shows that page, restarts the CLI on request, reclaims its whole
process tree before anything else may use the port, and updates itself from a
signed Stable channel. The modules here are written from the code under `src/`;
this file says which part is modelled where, what the TLC runs and the proofs
show, and what is left.

Paths below are relative to `src/`; `main.rs`, `lifecycle.rs`,
`cli_supervisor.rs` and `app_update/` are under `src-tauri/src/`
(`app_update` in `desktop_capabilities/`).

## 1. Inventory

### Desktop lifecycle (`main.rs`, `lifecycle.rs`)

*State.* `RuntimeState`: the published snapshot and last error, `generation`,
`shutting_down`, `retrying`, the process slot, the host origin with the
generation it belongs to, the WebView's navigation and load tokens; three
gates: `lifecycle_gate` (who may create or take the CLI),
`generation_event_gate` (one lifecycle transition at a time) and
`navigation_operation_gate` (no new generation while a page is being sent to
the window).

*Operations.* `start_attempt` and its thread `run_attempt` (spawn, publish,
probe for readiness, set the host origin, post a navigation, monitor the CLI,
report failure), `abort_attempt`, `request_retry` and its thread,
`request_shutdown` and its thread, the navigation tasks the main thread runs,
and the WebView callbacks `on_navigation`, `Started` and `Finished`.

*Interaction.* All of them run on threads of their own and meet in
`RuntimeState`; the CLI may die at any moment; the WebView answers late, in its
own order, or never.

*Hard.* A generation can be overtaken at every point, in particular between the
creation of a CLI and its entry in the slot; a stop can fail and is bounded by
two deadlines; the stop that Retry, shutdown and abort make of the same CLI;
late page events of an old generation with the same URL.

*Correct when* there is never a second Host, no CLI tree is without an owner,
Failed and an orderly exit mean that the tree is gone, Ready means that the
window shows the running Host, every waiting state is left, and shutdown ends.

### CLI supervisor (`cli_supervisor.rs`)

*State.* One `CliProcess` per attempt: the child behind a lock, its process group or
Job, `requested_generation`, the first observed status, the reason of its exit once
classified, a lock of stops. *Operations.* `spawn_owned_command_with_graceful_action`
(create suspended, take ownership, resume, or undo); `stop` of `lifecycle.rs`
(`request_graceful_stop`, a bounded wait, `force_kill_tree`, a bounded wait, the reap);
`try_exit`, from any thread. *Hard.* The first observer of an exit classifies it for
good; the leader may be gone while a descendant lives; a thread that asks the CLI to
end meets one that sees it end; a child that could not be owned. *Correct when* an exit
is called requested exactly if a living CLI was asked to end, and a stop that reports
success leaves no process of the tree.

### Update controller (`app_update/mod.rs`)

*State.* The update phase with its version, `operation_active`, the current
release, the staged version, the pending retry, the automatic download
preference. *Operations.* One input each for recovery at start, Ready, manual
and periodic checks, the results of a check and of a download, progress, a
failed discard, the preference, and manual and automatic retry; outputs are
effects. *Hard.* Timers that fire late; inputs of an operation that is over.
*Correct when* one operation runs at a time, a retry repeats what failed, a
staged update is never forgotten, and no older version is offered.

### Update runtime (`app_update/tauri_adapter.rs`)

*State.* The controller, the `pending` update a check found, the staging
repository, an operation gate held across a whole check or download, a publish
gate. *Operations.* `dispatch` and the async tasks of the effects, `has_staged`,
`install_staged`. *Hard.* Tasks queued at the gate with what was true when they
were created; early returns without an answer to the controller; installation
from the shutdown thread while a check discards the package. *Correct when*
every started operation is answered, snapshots are published in order, and what
is installed is the package the user was shown.

### Staging repository and installers (`app_update/staging.rs`, `tauri_adapter.rs`)

*State.* A package file, its metadata, two temporary files, and the metadata in
memory; the installed application and what an installer moved aside. *Operations.*
`open`, `stage`, `verify_for_install`, `complete_install`, `reconcile_current_version`,
`discard_if_older_than`; per platform the installation: `replace_with_rollback` of an
AppImage or of a bundle, the privileged move of macOS, the setup program of Windows.
*Hard.* A crash or a failing file operation between any two steps. *Correct when* what
is recovered after a crash is a package that verifies against its own metadata, a
failure loses no package but the one being replaced, and an application to go back to
is kept, except where section 3 says otherwise.

### Windows and plugins (front end)

The startup page (`src/startup/controller.ts`), the update window
(`src/update/controller.ts`), the capability bridge
(`packages/desktop-capabilities`) and the update indicator
(`packages/desktop-update-client`). *State.* The snapshot each shows, its subscription,
the buttons that wait for a call. *Operations.* Subscribe, query, event, Retry, Restart,
observers that come and go. *Interaction.* Snapshots reach a page both as events and as
the answer to a query; commands go back. *Hard.* The answer of the query may be older
than an event; subscription and release are asynchronous. *Correct when* what is shown
is never replaced by something older, one subscription is there while somebody observes,
and a button is enabled again after every outcome.

### Release promotion (`scripts/promote-stable-release.mjs`, `verify-update-smoke-evidence.mjs`)

*State.* Immutable objects per version, one mutable channel manifest, a lock object,
the evidence of the smokes. *Operations.* `prepareStableCandidate`, the two
verifications of the evidence, `finalizeStableCandidate`. *Hard.* Two promotions at once,
a promotion that stops half way and is run again, an answer that is lost. *Correct when*
the channel only ever moves to a complete release that was smoke-tested as an upgrade of
exactly what it replaces.

### Native update smoke (`scripts/native-update-*.mjs`, `update-smoke-tls-*.mjs`)

*State.* The runner's hosts file and trust store, a helper process with its two pipes,
the Desktop under test with its Host, installation and staged package. *Operations.* The
driver's sequence, and the gate with its `finally`. *Hard.* Every command can fail, the
clean-up included; the Desktop is free to do the wrong thing. *Correct when* success is
reported only of an update that happened, and leaves the runner as it was.

### Build-time lock, official Node, fixed-port probe (`scripts/ensure-official-node.mjs`, `smoke-dsh-cli.mjs`)

*State.* A lock directory with an owner file, Node's archive and installation, the port,
a work directory, the process tree of the CLI under probe. *Hard.* Every file operation
is by path: what was read may be gone when it is acted on; owners die, and their CLI
lives on. *Correct when* one process is inside, a probe accepts its own CLI's page only,
and an installed Node stays installed.

### Runtime closure (`scripts/runtime-closure.mjs`)

*State.* A cache with a marker (the hash of its inputs), a temporary copy, and
`dist/node_modules`. *Hard.* A build killed at any step, and a cache that outlives the
build that made it. *Correct when* a build that ends well ships what its inputs say.

### Not stateful, or not ours

Navigation URL classes and the HTTP readiness parser are pure algorithms. The rest of the
build, packaging and end-to-end scripts is sequential I/O. The Windows process
backend is a set of Win32 calls whose outcomes appear in the models.

`PROJECT.json` lists every component with its status and, under `hazards`, each
place in the code that a test would hardly reach, with the properties that
cover it, or why none does.

## 2. Plan

| order | modules | contents | state |
|---|---|---|---|
| 1 | `DesktopLifecycle`, `OneHost` | threads, gates, CLI, WebView; the abstract promise | done |
| 2 | `LifecycleInvariant`, `LifecycleControlProofs`, `LifecycleTreeProofs` | inductive invariants and proofs | done |
| 3 | `StagingRepository` with `PlatformInstaller`, implementing `StagedSlot` | files, crashes, failing operations, installers | done |
| 4 | `StagingProofs` | every property of 3 | done |
| 5 | `UpdateController`, `UpdateRuntime` | inputs and effects; tasks, timers, gate, staging, installation at exit | done; `UpdateProofs` |
| 6 | `NativeUpdates`, `CapabilityBridge`, `UpdateWindow`, `StartupPage`, `FrontEnd` | publication and the pages | done; `FrontEndProofs` |
| 7 | `StableChannel`, `TlsGate`, `NativeSmoke`, `StableRelease` | promotion and the smoke it rests on | done; `StableReleaseProofs` |
| 8 | `DirectoryLock`, `OfficialNode`, `FixedPortProbe`, `LockedJobs` | build-time processes that meet | done; `LockedJobsProofs` |
| 9 | `CliSupervisor` implementing `OwnedCli` | the steps inside a spawn and a stop | done; `PackagedCliProofs` |
| 10 | `RuntimeClosure`, `PackagedCli` | the cache of the closure; the composition of 8, 9 and 10 | done; `PackagedCliProofs` |
| 11 | proofs about 1, 5, 6, the smoke of 7 and all of 8 | the properties that were only model-checked | done |
| 12 | `ReadinessProbe`, `NavigationPolicy` | algorithms against reference definitions | open |

Every invariant, action property and refinement that a passing run checks is stated by a
theorem, under the hypotheses that section 5 names. To come: liveness of the pages under
fairness of the WebView's event loop (for TLC), and the two algorithms of row 12.

## 3. What is modelled now

### `DesktopLifecycle`

One action per step of a thread between two points at which another thread can
intervene; the comment of `PROJECT.json`'s `map` gives the lines of each.

| code | model |
|---|---|
| `run_attempt` of generation g | `attempt[g]`: gate, spawned, discarding, publishing, probing, announcing, monitoring, aborting, stopping, clearing, failing, cleanupFailing, done, leaked |
| `request_retry` and its thread | `retry`, `retryCli`, `cleanupGeneration`; `leaving`, what a Retry that failed has still to post |
| `request_shutdown` and its thread | `shutdown`, `shutdownCli`, `exit` |
| process slot (`Option<Arc<CliProcess>>`) | `slot`, the generation of the CLI |
| a CLI and its tree | `cli[g]`: running, lingering (leader gone, a descendant alive), gone |
| `requested_generation`, `classified_reason`, `stop_lock` | `requested`, `reason`, `stopLock` |
| `lifecycle_gate` | `gateHolder` |
| `navigation_operation_gate` | held exactly while `mainTask # NoTask` |
| `generation_event_gate` | one action per section |
| `run_on_main_thread` | `mainQueue`, `mainTask` |
| the WebView | `pending` (navigations not committed), `page`, `finished` |

Why a section under `generation_event_gate` may be one action: while a thread
holds it, only `shutting_down`, the slot and the CLI can be changed by others
(everything else is written under the gate), and every section reads those
before its first write. The reads and the writes can therefore be moved next to
each other without changing what any other thread sees. A Retry that fails takes three
steps: its thread publishes Failed with `retrying` already false (`main.rs:1605-1608`),
then posts the startup navigation, then lets `lifecycle_gate` go, and a second Retry may
be accepted in between (`RetryFails`, `LeaverPosts`, `LeaverLeaves`). What
`OneRetryAtATime` claims is what holds then: the first thread has put its CLI back, and
the second has none in its hands before it has the gate. `abort_attempt` lets `stop_lock`
go (`AbortEnds`) and then clears the slot (`ClearProcess`). An attempt posts the startup
navigation in the step of its failure section, as the last thing its thread does: posted
later it would be the same task, or one already superseded. A Retry that succeeds opens
the generation and lets the gate go in one step: the new attempt waits for the gate, and
Starting refuses a Retry. The branch of `spawn_direct_cli` for an occupied slot is merged
into `DiscardCli`.

Inputs are any time a user, a signal, the CLI or the WebView can act: a CLI's
leader may exit at any moment and leave descendants or not, a stop succeeds or
fails, a navigation is refused (`NavigateMayFail`), a load is superseded,
fails, or stays away for ever, and the terminal signal may come before `setup`.

Left out: poisoned mutexes (the code treats them as errors); the second terminal
signal of a development build (exit 130) and the exit code 130 rule of it; fields
only diagnostics read; the installation of a staged update at exit (in
`UpdateRuntime`); a `try_wait` that fails inside a stop, which kills the tree without
having asked it to end (in `CliSupervisor`). The
Retry command is accepted from any state of the main thread, which is more than
the code allows.

### `OneHost`

The abstract specification: which states may be shown in which order, and how
they are tied to the trees that are alive. A CLI is created only where none is
alive; Ready needs a live one; Failed without the cleanup error needs none.
`DesktopLifecycle` implements it (`ImplementsOneHost`), with the refinement mapping
`shown <- snapshot`, `unclean <- lastError = "CleanupFailed"`, `trees <- LiveTrees`.

### `LifecycleInvariant`

`ControlInv` (which thread may be where, given the gate, the slot and the published
state), `TreeInv` (which trees may be alive then) and `PageInv` (which page may still come
to the window, and what of it a failure takes back).

### `CliSupervisor` and `OwnedCli`

One CLI, and any number of threads: `Stoppers` (its own attempt, Retry, shutdown) run
`stop_process`, `Observers` (the monitor, the page callbacks) run `try_exit`.

| code | model |
|---|---|
| `spawn_owned_command…` and its undo | `spawn`: create, attach, resume, and the branches that terminate or give up |
| the child, its group or Job | `leader`, `descendants`, `killed` |
| the child lock, `stop_lock` | `childLock`, `stopLock` |
| `requested_generation`, `observed_status`, `classified_reason` | `requested`, `observed`, `reason` |
| a thread's way through `stop` or `try_exit` | `pc`, `seen` |

The child lock is held by `request_graceful_stop` from its look at the leader to the
signal; locks that one step takes and gives back are not modelled. A leader that is not
reaped keeps its pid, so a pid that is used again is not a case. Poisoned mutexes are
left out. `asked` and `answered` are history: whether a stop really found the leader
alive, and whether the leader ended after that.

`OwnedCli` is what `DesktopLifecycle` takes for granted about a CLI: a tree
runs only once it is handed over, an exit is classified once, a stop that reports
success leaves nothing. `CliSupervisor` implements it (`ImplementsOwnedCli`). A spawn that
fails leaves at most a suspended child, which has run nothing and holds no port: it is
no tree of `OwnedCli`. This settles what `AttachMayFail` of `DesktopLifecycle` leaves
open: there such a child is counted as a tree outside the slot.

### `StagingRepository` and `StagedSlot`

Every operation of `staging.rs` step by step: `op` is the operation under way and
`at` its next file step. `entries` is the directory as the process sees it,
`durable` what a loss of power leaves of it at least; on Unix `sync_directory` makes
them agree, on Windows the write-through move does and removals are lazy. A file's
contents are reduced to the version they belong to, `None`, or `Torn` for a package
that no signature matches: the package and the metadata verify together exactly
when they name the same version. Each step may fail, the process may end and
power may be lost between any two, and the package may be damaged from outside.

`PlatformInstaller` is the step `install` of that repository in detail. `application` is
what stands at the application's path, `aside` what was moved away, `step` the program
point of the installer of `platform`, `shell` the privileged shell of macOS. On Linux the
AppImage is moved aside, the new one moved in, and moved back if that fails; macOS does
the same with the bundle, or, refused, lets a shell with administrator rights do it, whose
`rm -rf` and `mv` are two steps (`ShellRemoves`, `ShellMoves`) and which goes on when the
process that asked for it ends; on Windows a setup program is started, external to the
code, and works when the process is gone. Verification and use of the package are two
steps: the file is opened again by its path (`UnpackPackage`), and it may be damaged in
between (`DamagePackage`), so that what is installed may be damaged (`Torn`) although what
was verified was not. That gap is the code's, and no property says that only a verified
package is installed. Unpacking may fail; renames are taken to become durable in the order
in which they were made; no second installation begins while a setup program or a
privileged shell is still at work (a bound of the model); the user who installs by hand
after a failure is `RepairByHand`.

`ApplicationIsKept` is about steps: none takes away the last application, at its path or
aside, except two on macOS, a rollback that fails (the temporary directory that holds the
old application is dropped with it) and the `rm` of the privileged shell, after which there
is no application until the `mv`, though nothing has failed. The comment at
`tauri_adapter.rs:162` speaks of a directory to roll back from; on these two paths there
is none. `StaleOnlyAfterFailedRemoval` is about versions: a package
that the running application has overtaken, or is, is answered as staged only after a
removal that failed.

`StagedSlot` is what the updater relies on: `held` is the answer of `snapshot()`,
`onDisk` the set of versions (or none) that the next start may recover.
`ImplementsStagedSlot` is the refinement, with `onDisk` mapped to what each
combination of seen and synced files would give. In words: a package
answered as staged survives a kill or a power loss; a failing stage can
lose the package it replaces and can keep the new one, and nothing else appears; a
start answers with a package that is there and verifies.

### `UpdateController` and `UpdateRuntime`

`UpdateController` has one operator per input of `handle`; `handle` runs under the
publish gate and the controller's lock, so an input is one step. Its effects become
part of the state: `queue` (tasks that were spawned), `retryTimers` and `checkArmed`.

| code | model |
|---|---|
| `UpdateState` | `phase`, with the version shown and, for a failure, `retryable` |
| `operation_gate` | `gate`: the task inside and its program point |
| tasks of `CheckStable`, `StartDownload` | members of `queue`: `CheckTask`, or the version to download |
| `pending` | `pending`, the version of the last release found |
| staging repository | `held`, `onDisk`, `confirmed`, `lazy` of `StagedSlot`; `repository` when it could be opened |
| the thread of `request_shutdown` | `shutdown`, from the two calls of `has_staged`, each with two reads, to the exit |
| `current_version`, the installed application | `current`, `application` |

The tokio gate is fair, and tasks are taken to reach it in the order in which they
were spawned. Even so `operation_active` can stay set with nothing under way: when the
server has gone back to an older release, the download of that release has failed, and a
retry asks for the staged release instead, the task ends without a word
(`SkipDownload`), for `pending` names the other one. `Superseded` is exactly that
situation, and `ActiveOperationHasTask`, `OperationEnds` and `ChecksGoOn` except it and
nothing else. It takes five tasks and timers to come about (`update_stuck`).

A task's last dispatch and its release of the gate are one step, for only waiting
tasks could see the difference. The end of the process is possible everywhere and
stands also for the exits of the shutdown thread. The repository is taken to be
lazy: that allows everything an eager one does. The stop of the CLI before the
installation is the business of `DesktopLifecycle`, and the inside of the installation,
one step here, that of `PlatformInstaller`. A discard that
comes between the shutdown thread's `has_staged` and its installation makes the
installation fail and the exit code 1 (`tauri_adapter.rs:1121`); nothing is lost, what the
code should be is said nowhere, and no property is about it.

### `NativeUpdates`, `CapabilityBridge`, `UpdateWindow`, `StartupPage`, `FrontEnd`

`NativeUpdates` is the publishing side: a transition numbers a snapshot (`native`) and
its emission is a second step under the same publish gate (`unsent`), so a query may be
answered with a snapshot that is still to be emitted. A Retry that reaches the controller
is always followed by a snapshot with a new number (`RetryDispatched`): a check that begins
is shown as such, a download that is tried again shows the same failure until its task
begins, and a Retry that comes too late publishes what was there (`mod.rs:280-283`,
`:480-485`). The window tells snapshots apart by their number, and this is what gives the
button back; a controller that published changes only would leave it disabled.

| code | model |
|---|---|
| `connect`, `activate`, `deactivate`, `observe` of the bridge | `connection`, `activation`, `unlisten`, `listeners`, `fresh`, `observing` |
| `acceptNative` | `accepted`, `snapshot` of every source |
| `initialize`, and a page outside the application | `facade` |
| the update window's `renderedSequence` and page | `rendered`, `disabled`, `query`, `reply`, `subscription` |
| a call of `api.retry` or `api.restart` | counted by how far it has come: sent, allowed, refused |
| the startup page's `retryInFlight`, `retry.disabled` | `retryInFlight`, `retryEnabled` |
| events that were emitted and not handled | the three inboxes |

Every await is a point where events, clicks, observers and disposals come in between.
`StartupPage` takes its snapshots from a lifecycle that moves as `OneHost` lets it; they
carry no sequence number, `life.order` is there for the properties only. The
three pages share nothing but the native side: `FrontEnd` follows one of them per
behaviour.

What the code does lose is named, not hidden: `missed` is set when an event of the update
window falls between the answer of its query and the grant of its listener, `abandoned`
when an activation fails or loses its listener to the disposal of the observers before
it, `shownFrom` when the startup page shows the answer of its query, which may be older
than an event it replaces: `EventsAreRendered` is about what an event has shown, and says
nothing of that case. A second Prolonged startup after a Retry leaves Retry
disabled (`controller.ts:33`); `FailureCanBeRetried` is about failures.

### `StableChannel`, `TlsGate`, `NativeSmoke`, `StableRelease`

`StableChannel`: each workflow run (`run[r]`: its step, its attempt, the Stable it read,
whether its preparation has succeeded) publishes its packages and its manifest, gets one
document of evidence per required target, verifies the documents twice, takes `promotion.lock`, compares, replaces,
reads back and releases. `stored` is the bucket's immutable part, `stable` the channel's
manifest, `promotions` the history of what replaced what, on which documents. An answer
of the bucket may be lost after its effect; a run may stop at any step and be started
again up to `MaxAttempts` times, with all its jobs, or, once its candidate is prepared,
with those that failed; an operator may remove the lock of a run that has
stopped, or set Stable back.

`TlsGate` has one action per await of `withUpdateSmokeTlsGate` and its `finally`; `hosts`,
`trust` and `saved` are the system adapter's state, `helper`, `commands`, `events` and
`observed` the helper process and its pipes. `NativeSmoke` adds the driver's
sequence, the wait for the updated Desktop in its three looks (its identity, its Host, its
staging record) between which the Desktop goes on, and, on the other side, the Desktop
under test, which may install elsewhere or not at all, restart by itself, crash, or leave its Host behind. `witness` records what was
true at the look that satisfied the driver. `StableRelease` follows, per behaviour, the
runs, for which a smoke is two steps, or one runner, where it is all of them.

The models name what the scripts do not detect. `RouteHostname` can fail after the hosts
file was written, and then it stays routed and nobody reports it
(`update-smoke-tls-system-adapter.mjs:335-347`); a failed installation of the authority
whose undo fails is not reported either (`:298-308`); a Windows baseline that was
installed but not found by the inspection is not uninstalled; the clean-up kills only
recorded process ids and swallows what fails (`native-update-platform-adapter.mjs:508-524`),
so that the Desktop or its Host may stay; a Desktop that starts by itself
after the driver's last look is not told from the driver's own (`overtaken`).
`RunnerIsRestored` is therefore about smokes that report success and gates that report no
failure. `prepareStableCandidate` only requires versions to differ; that Stable moves
forward comes from the evidence (`isNewer`). The kind of a document is left out.

### `DirectoryLock`, `OfficialNode`, `FixedPortProbe`, `LockedJobs`

`DirectoryLock` is `withDirectoryLock`: `lock` is the directory with its owner file and
whether its time is stale, `at[p]` the step of a process. Each file operation is a step
on whatever directory is at the path. `OfficialNode` and `FixedPortProbe` are the two
jobs under such a lock, each with a lock of its own; `LockedJobs` follows the processes of
one. `cli[p]` is the tree that a probe started (leader, rest, listening, killed),
`controller[p]` the Job's controller on Windows.

An owner may be held up for any time, so that its lock gets stale while it lives; owners
die anywhere, any number of processes wait. Two history variables say what a directory is
moved aside for: `judged`, the processes that have read in this very directory that its
owner is gone, and `astray`, that some process has moved aside a directory of a living
process which it had not read. The second is the race of `lock_steal`; the properties that
depend on one holder speak of behaviours up to that moment.

Taken for granted: a heartbeat's read and `utimes` are one step, and one that failed,
which the code throws once the action and the release are over (lines 162 and 223), ends a
process that holds nothing any more, as `done` does; a lock is
seen stale minutes after its last heartbeat, so that the CLI of a dead probe is either
serving or gone by then (`StartIsOver`); SIGKILL is delivered, and a killed tree runs no
code though its port is freed later; a process that has ended with a failure is gone; pids
are not used again.

### `RuntimeClosure`

Builds of one workspace run one after another, each killed at any step or not. `cached`
says for each part of the closure which version of the inputs it was installed from,
`marker` the hash in `closure.json`, `temporary` the copy beside the destination,
`shipped` what is packaged. The verification looks at the parts in `Checked` only. A
removal or a copy that is cut short leaves any subset. Two cases the marker cannot tell
are recorded in the history variable `misleading`: a removal of the cache that is cut short
(`runtime-closure.mjs:535`) can leave the marker with a part of the tree, and inputs that
change between the hash (`:583`) and the installation (`:536-552`) get the wrong hash.
Copying manifests and private packages is one step with the installation; the temporary
directory of a killed build has a unique name and is never read.

### `PackagedCli`

The CLI the desktop ships from its sources to its end: `RuntimeClosure` packages it,
`LockedJobs` installs the Node that runs it and tries it at the port, `CliSupervisor`
owns it. The three do not run at the same time, and a behaviour follows one of them.

## 4. Runs

| run | question | states |
|---|---|---|
| `lifecycle_safety` | one Host, no orphan, honest Ready and Failed, one Retry with something to stop, the refinement of `OneHost` | 769,603 |
| `lifecycle_progress` | a shutdown ends, a Retry ends, Starting is left, an exit is reported, a failure brings back the startup page; children that cannot be owned included | 804,960 |
| `lifecycle_prolonged` | violation: Prolonged startup without a page that has Retry | |
| `lifecycle_exit` | violation: exit with 0 and the tree alive | |
| `staging` | every file step, failure and crash implements the slot; nothing staged is hidden; nothing overtaken comes back; there is an application to go back to | 608,233 |
| `update_safety` | a busy phase and an active operation have a task, what is shown as staged is held, no downgrade | 1,823,717 |
| `update_progress` | operations end, checks go on | 53,544 |
| `update_stuck` | violation: the operation slot is taken with nothing under way | |
| `front_end` | each page ends with the state of the native side, subscriptions follow observers, buttons come back | 3,222,736 |
| `release` | Stable moves only to what was smoke-tested against it; evidence is true; the runner is restored | 749,175 |
| `packaged_cli` | one holder, a probe's page is its own, Node stays, as long as no waiter has gone astray; nothing runs in what is removed, the closure fits, a reason is true, the refinement of `OwnedCli` | 779,823 |
| `lock_steal` | violation: two holders of one directory lock | |

Each passing run checks only properties that a plausible change of the code breaks; the
`mutants` of `PROJECT.json` are such changes, one for each property. The type predicates of
all parts, `ControlInv`, `TreeInv` and `PageInv`, `NothingStoredAfterShutdownTook` and
`SignalsOwnLeader` are proved for all constants and are not in a configuration.

*Bounds.* `MaxGeneration` stands for the unbounded counter: start, Retry and
shutdown each open a generation. With four of them, TLC sees a first attempt, two
Retries, and a shutdown, or a Retry that overlaps the shutdown with both of
their attempts open; no property relates more than three generations (the one
working, the one it overtook, the one overtaking both). The bound is in the
guards of `RequestRetry` and `RequestShutdown` (`CommittedGenerations`), where the
environment acts, never in a step the program must be able to take; a run may
therefore rest in Ready or Failed with the bound used up, which is why deadlock
is not checked. Symmetry is not used: generations are ordered.

`MaxVersion = 4` for staging: the application, a package, one that replaces it, and
one that replaces that, on each of the three platforms. `MaxVersion = 3` for the updater: the
application, a staged release and a newer one, with the server free to go back to the older.
`MaxActivities = 3` bounds tasks and retry timers alive at once, in the guards of the
user's and the clock's actions only: two overlapping operations and a timer, or three
tasks, at the gate. The liveness run has two releases and two activities. `update_stuck`
needs `MaxActivities = 5`, so its specification `OneProcessSpec` keeps to one process, with
a repository that opens and a user who only checks and retries: behaviours of
`UpdateRuntime` all the same. The counterexample has 46 states.

`front_end`: four kinds of snapshot are enough, for the pages only tell a failure, a
staged update and the rest apart, and a Retry leads to a check or to the same failure; `MaxSequence = 4` lets an answer, an event on its way,
and two later ones meet; three sources observe, so that one can come while another goes
and a third stays; two calls of a button are open at a time; six changes of the lifecycle
are a failure, a Retry and a second failure. `release`: two runs with two attempts each,
and a Stable older than both; two required targets, so that evidence can be incomplete;
three platforms of a runner. `packaged_cli`: three processes, of which two may die, each
with its lock, its CLI or its half-made installation left behind, so that two waiters meet
at the lock of a dead one, and a second death follows the first; any owner may be held up
past the stale limit. What is said of the lock ends where a waiter goes astray, and TLC
stops there (`OnTrack`); `StoppedBeforeRemoval` has no such limit and is proved without
it. Two versions of the
inputs and three parts, one of which is checked, are a cache that is right, wrong or
incomplete unseen. Two threads stop the CLI, for the stop lock and for a stop of what was
stopped, while one looks for its exit. Processes are symmetric, and so are the stoppers:
no property names one, and no liveness is checked there. `lock_steal` has three
processes and one death, and follows only behaviours in which no living owner is held up
(`OwnersKeepUp`): the race needs no sleeping machine.

`lifecycle_progress`, `lifecycle_prolonged` and `lifecycle_exit` have
`NavigateMayFail = FALSE`: a startup navigation that the WebView refuses is retried by
nobody, and `FailureShowsStartupPage` says nothing of it. `lifecycle_safety` has it `TRUE`.

Deadlock is not checked where the system may rest: the lifecycle in Ready, a page with
nothing to show, a run that has promoted, a build that is done, a CLI that is
gone.

*Fairness.* `MCDesktopLifecycleLive` assumes weak fairness of the steps the
program's own threads take, of the end of a stop (each of its two waits has a
deadline), of the 30 second timer of a running poll loop, and of the load of the
packaged startup page. Nothing is assumed of the CLI, the network, the user or the
load of a Host page. One condition over the union is enough: each of these steps
uses up a generation, a posted task, a load or a program point, so none can be
taken for ever at the expense of another.

`UpdateRuntime` assumes weak fairness of the step of the task at the gate (requests
and reads have timeouts), of the two kinds of timers, and of the exit of the shutdown
thread. `ChecksGoOn` is stated for a user who leaves the updater alone from some time
on: by retrying a failing download for ever the user can keep the controller busy at
every six hour signal.

*The four disagreements.*

- `lifecycle_prolonged`: a load of the previous generation's page that commits after
  Retry replaces the startup page. The next attempt reaches Prolonged startup, which
  is said to expose Retry, with no page that could show it.
- `lifecycle_exit`: when a CLI that shutdown has overtaken cannot be stopped by its
  own thread (`main.rs:1103`), the application exits with 0. On Windows the Job
  closes with the process; elsewhere the tree lives on. `OrderlyExitReclaims` is the
  statement that holds: such a discard is the only way.
- `update_stuck`: `retry` (`app_update/mod.rs:458`) looks neither at `operation_active`
  nor at `staged_version`, and a manual check leaves an armed timer armed. Operations
  that overlap this way wait at the gate, find and stage release 3, and find
  release 2 again; a download of 2 that is still waiting fails and is recorded. The next
  timer asks for `current_release`, which is 3, while `pending` is 2: `download_pending`
  (`tauri_adapter.rs:956`) returns without a word, `operation_active` stays set, and
  every later check, manual or periodic, is refused until the application restarts.
  `mod.rs:355` says the flag tells whether a real operation has the slot, `mod.rs:360`
  that checking never stops for good, and `app_update/tests.rs:98` that no trigger
  starts an overlapping operation. Apart from this state (`Superseded`) an active
  operation has a task.
- `lock_steal`: a waiter renames the lock directory by its path
  (`ensure-official-node.mjs:203`), whichever directory is there by then. Two waiters
  judge the lock of a dead process stale; the first moves it aside and takes the lock
  anew, and the second moves that one aside and takes it too. `OneHolderUnlessAstray` is
  the statement that holds: this slip is the only way, whatever dies or is held up.

Two more are described only. `tauri_adapter.rs:162` says that `install_macos_app` replaces
the application with a directory to roll back from; its privileged path has none, for its
shell runs `rm -rf` on the application and then `mv` (`:224-243`), and in between, or when
the `mv` fails, no application is left. `ApplicationIsKept` is the statement that holds.
And the 30 second test is inside the poll loop
(`lifecycle.rs:104`): once HTTP answers nothing bounds the page load, while
`docs/tauri-migration.md:34` includes the load in the bounded wait. `StartingResolves`
therefore says how Starting is left, and nothing is said of Waiting for client.

## 5. Proofs

**Lifecycle** (`LifecycleControlProofs`, `LifecycleTreeProofs`). For every `MaxGeneration`,
both values of `NavigateMayFail`, and, except where
noted, both values of `AttachMayFail`:

- `ControlInvariant`: `Spec => []ControlInv`, and from it `TypeCorrect`,
  `NothingStored`, `OneRetry` and `Responsible`;
- `ReadyIsTrue`: `Spec => []ReadyShowsCurrentHost`, from `PageInv`;
- `TreeInvariant`: `Spec => []TreeInv` and from it `OneTree`, `TreeOwned`,
  `FailureReclaims`, `ExitLeavesOnlyDiscards`; these and `Implementation`
  (`Spec => ImplementsOneHost`) assume `AttachMayFail = FALSE`.

The argument. None of the safety properties is inductive: that the slot is free
when a CLI is created depends on who holds `lifecycle_gate`, on where the Retry
thread is, and on whether the shutdown thread has been at the gate.
`GateDiscipline` says that the holder of the gate is the one thread inside;
`RetryCoherent` and `ShutdownCoherent` say what each of the two threads holds and
that they exclude each other; `AttemptCoherent` ties trees and exits to attempts;
`StateMatchesAttempt` ties the published state to the program point of the current
attempt. `ControlInv` is inductive without a word about which trees live. `TreeInv` is
inductive relative to it: nothing lives when a new attempt is opened, because
Retry opens one only after a confirmed stop with the slot empty, and nothing is
created after the shutdown thread has taken the gate. The refinement then follows
step by step.

That Ready shows the page of the running Host is about the order of what was posted and
what is loading. `PageInv`: before a Host is announced nothing anywhere names its
generation; the page of a Host comes once, as a posted task, then as the task of the
main thread, then as the last of the pending navigations, then as the committed page
(`HostPageComesOnce`); the three tokens follow each other (`TokensCoherent`); and a failure
takes `hostGeneration` back before it posts the startup page, so that Ready, which asks
for the tokens, cannot be reached behind it.

The assumption. With `AttachMayFail` a child that can neither be owned nor
terminated is left outside the slot, the attempt fails with `CleanupFailed`, and a
Retry creates a second CLI: `SingleHost` is false there. The child is still
suspended, has run nothing and has no port, which `CliSupervisor` shows.

**Staging** (`StagingProofs`), for every number of versions and any set of platforms:
`StagingTypeCorrect`, `NothingStaysHidden`, `ApplicationStays` (that no step but the two
named takes the last application away), `StaleIsFoundOut` and
`RepositoryImplementsSlot`. The invariant is `IInv`: `TypeOK`; `PointsInv`, which
operation may be at which program point; `FilesInv`, what the directory, its durable part
and the memory say of each other there; `WindowsInv`, the write-through order of Windows;
`OursInv`, that what is staged while this application runs is newer than it;
`InstallerInv`, where the application and the one aside may be at each step of the
installer and of the privileged shell. The refinement is proved
step by step: a failing or interrupted operation may only leave states that one of
the operations of the slot allows.

**Updater** (`UpdateProofs`), for every number of releases and of tasks and timers alive:
`UpdaterTypeCorrect`, `BusyPhaseHasTask`, `ActiveOperationIsCarried`, `StagedIsWhatIsHeld` and
`NeverDowngrades`. A controller that only sees reports cannot know what the gate and the
repository do meanwhile, so the invariant says it: `GateInv`, which task is at which
program point and what `pending` is there; `PhaseInv` and `ActiveInv`, which task,
waiting or at the gate, will bring the report that a phase waits for; `HeldInv`, how
`staged_version`, the version shown and `held` can differ while a download replaces the
package or a check discards it; `ReleaseInv`, how the two releases the controller
remembers relate to the pending one; `InstallInv`, that what is held is newer than the
application once the shutdown thread has seen Staged; `CountInv` and `ProcessInv`, the room
for effects and what survives a process. `Superseded` appears in
`ActiveOperationIsCarried` because it must.

**Pages** (`FrontEndProofs`), for any kinds of snapshot, any observers and any numbers of
changes and calls: `FrontEndTypeCorrect`, `EventsArriveInOrder`, `SubscriptionIsForObservers`,
`IndicatorIsLatest`, `WindowIsLatest`, `NoButtonIsStuck`, `LifeEventsAreRendered` and
`FailuresCanBeRetried`. `NativeInv` says that at most the newest snapshot is still to be
emitted. For each page, what it has accepted, what is in its inbox and what an answer on
its way carries are then the newest snapshot or older ones, and if the newest is in none
of them, it is still to be emitted or the page has named its loss (`missed`,
`abandoned`, `shownFrom`). `BridgeInv` adds that there is one listener at most and who
waits for it.

**Promotion and smoke** (`StableReleaseProofs`), for all runs, versions, targets and numbers
of attempts: `ChannelTypeCorrect`, `PromotionIsTested`, `SmokeTypeCorrect`, `EvidenceAlwaysTrue`
and `RunnerAlwaysRestored`. A run that replaces Stable has compared it with what it read
while holding the lock, so the invariant says what a run between `compare` and `replace`
knows of `stable`, and that evidence, once verified, is about the baseline the run
recorded. For the smoke, `SmokeInv` follows the driver: its step tells where the gate is
(`GateFollowsDriver`), what of the system is changed there (`GateHolds`) and what is still
to be given back (`GateGivesBack`); once Desktop is seen closed, only the candidate
runs and nothing installs any more (`DesktopInv`), which is what the witness of the last
look is worth (`WitnessInv`).

**Lock, Node, probe** (`LockedJobsProofs`), for any finite set of processes, any number of
deaths, owners held up or not, any number of waiters; no hypothesis. `RemovalIsSafe` needs
nothing of the lock: a directory is removed only on a confirmed stop, and that leaves a
tree that is gone or killed. `LockIsExclusive` says that two are inside only after a waiter
has gone astray, `InstalledNodeStays` and `PagesAreOwn` that an installed Node stays and a
page is the probe's own as long as none has; what two holders then do to each other is not
claimed. The invariant is `astray` or: `LockInv`, that the directory belongs to
the one process past the lock, and that the owner of a directory in which somebody has
read that its owner is gone is at its end; `NodeInv`, that only the process that found no
executable under the lock is on its way to install one; `PageInv`, that past
`CheckPort` no other probe's tree listens or comes to listen, and that a tree left behind
with its lock listens or is killed by the time that lock is stale. `astray` is never taken
back, which is why a step may go wrong once and the invariant need not say how.

**Supervisor and closure** (`PackagedCliProofs`). For any number of threads, on both
systems: `SupervisorTypeCorrect`, `ReasonAlwaysTrue`, `SignalReachesOwnLeader` and
`SupervisorImplementsCli`. `SupervisorInv` adds to the types: `PointsInv` and `LockInv`
(who is where in a stop, and who holds the two locks then); `ExitInv` (a leader is not
reaped while a thread is between its look and its signal, and from then on `requested` tells
whether the exit was asked for); `SpawnInv` (until it is handed over nothing of the tree
runs unowned). For all versions and parts: `ShippedAlwaysFits`. `MarkerInv` says that a
marker which is not misleading is about the whole cache; `StepsInv` carries that through
copy and replacement.

TLC found each inductive invariant to hold on the instance of the run it belongs to before
it was proved. No theorem assumes more of a constant than the `ASSUME` of its module and
the hypotheses named here; what section 3 takes for granted of the environment is in the
guards of the actions, and the theorems are about the specifications with those guards.

Model-checked only: liveness (`ShutdownCompletes`, `RetryCompletes`, `StartingResolves`,
`ExitIsReported`, `FailureShowsStartupPage`, `OperationEnds`, `ChecksGoOn`), since fairness and
ENABLED are out of the prover's reach, and the four violations. Induction over data is out
of its reach too; nothing here needs it.

## 6. Not modelled

- The HTTP readiness parser (`main.rs:593`), a pure function of bytes, and the URL
  classes of the navigation policy: algorithms without state, whose answers are inputs
  of `DesktopLifecycle`.
- Unpacking of archives, AppleScript, command lines, Win32 calls and console attachment:
  steps that may fail.
- `verify-tauri-artifact`, `run-e2e`, `run-tauri`, icons and the other build scripts, and
  `tag-release` and `reconcile-draft-release`: they end or throw, and share no state with
  another actor that a model would add to.
- The second terminal signal of a development build (exit 130), poisoned mutexes,
  diagnostics, progress texts and release notes.
