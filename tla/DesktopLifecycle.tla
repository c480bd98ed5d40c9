--------------------------- MODULE DesktopLifecycle ---------------------------
(***************************************************************************)
(* The lifecycle of the one published CLI tree the Tauri shell owns        *)
(* (src-tauri/src/main.rs): start, readiness, WebView navigation, crash,   *)
(* Retry and shutdown, run by one thread per start attempt, the Retry and  *)
(* shutdown threads and the main thread, which share RuntimeState.         *)
(*                                                                         *)
(* Granularity.  A section run under generation_event_gate is one action:  *)
(* the only state another thread can change meanwhile is shutting_down,    *)
(* the process slot and the CLI itself, and every section reads them       *)
(* before it writes.  lifecycle_gate and a CLI's stop_lock, which are held *)
(* for seconds, are variables; navigation_operation_gate is held exactly   *)
(* while the main thread is inside a navigation task (mainTask).           *)
(***************************************************************************)
EXTENDS Integers, Sequences

CONSTANTS
    MaxGeneration,   \* bound: RuntimeState.generation is a u64 in the code
    AttachMayFail,   \* Windows: a child that was created may not enter its Job
    NavigateMayFail  \* the window may refuse a navigate call

ASSUME ConstantsAssumption ==
    /\ MaxGeneration \in Nat \ {0, 1}
    /\ AttachMayFail \in BOOLEAN
    /\ NavigateMayFail \in BOOLEAN

Generations == 1..MaxGeneration
None == 0                \* Option::None of a generation, and "no CLI"

VARIABLES
    \* RuntimeState
    snapshot,              \* snapshot.state: the published LifecycleState
    lastError,             \* last_error, as CleanupFailed or any other code
    generation,            \* generation
    shuttingDown,          \* shutting_down
    retrying,              \* retrying
    slot,                  \* process: generation of the stored CLI, or None
    hostGeneration,        \* host_generation (host_origin is set with it)
    navigationGeneration,  \* webview_navigation_generation and its url
    loadGeneration,        \* webview_load_generation and its url
    gateHolder,            \* lifecycle_gate: who holds it
    \* the CLI trees, one per attempt
    cli,                   \* leader and tree of the CLI of each generation
    requested,             \* CliProcess.requested_generation is set
    reason,                \* CliProcess.classified_reason
    stopLock,              \* generations whose CliProcess.stop_lock is held
    \* threads
    attempt,               \* the run_attempt thread of each generation
    retry,                 \* the thread request_retry spawns
    retryCli,              \* the CLI that thread took from the slot
    cleanupGeneration,     \* the generation it publishes a failed cleanup for
    leaving,               \* what a Retry thread that failed has still to post
    shutdown,              \* the thread request_shutdown spawns
    shutdownCli,           \* the CLI that thread took from the slot
    exit,                  \* how the process ended
    \* main thread and WebView
    mainQueue,             \* navigation tasks posted by run_on_main_thread
    mainTask,              \* the navigation task between its gate and navigate
    page,                  \* committed page: None is the startup page
    finished,              \* the committed page has emitted Finished
    pending                \* navigations the WebView has not committed yet

tokens == <<hostGeneration, navigationGeneration, loadGeneration>>
lifecycle == <<snapshot, lastError, generation, tokens>>
flags == <<shuttingDown, retrying>>
cliVars == <<cli, requested, reason, stopLock>>
retryVars == <<retry, retryCli, cleanupGeneration, leaving>>
shutdownVars == <<shutdown, shutdownCli, exit>>
webVars == <<mainTask, page, finished, pending>>
controlVars == <<retryVars, shutdownVars>>
uiVars == <<mainQueue, webVars>>
vars == <<lifecycle, flags, slot, gateHolder, cliVars, attempt, controlVars, uiVars>>

LifecycleStates ==
    {"Starting", "WaitingForClient", "ProlongedStartup", "Ready", "Failed", "Stopping"}
AppRuns == exit = "none"   \* app.exit ends every thread
Waiting == {"WaitingForClient", "ProlongedStartup"}
CliStates ==     \* lingering: the leader has exited, a descendant has not
    {"none", "running", "lingering", "gone"}
AttemptStates ==
    {"none", "gate", "spawned", "discarding", "publishing", "probing",
     "announcing", "monitoring", "aborting", "stopping", "clearing",
     "failing", "cleanupFailing", "done", "leaked"}
Reasons == {"none", "Requested", "Stale", "Unexpected"}
Tasks == [to : {"host", "startup"}, gen : Generations]
NoTask == [to |-> "none", gen |-> None]
Loads == [url : 0..MaxGeneration, allowed : BOOLEAN]

TypeOK ==
    /\ snapshot \in LifecycleStates
    /\ lastError \in {"none", "CleanupFailed", "other"}
    /\ generation \in 0..MaxGeneration
    /\ shuttingDown \in BOOLEAN
    /\ retrying \in BOOLEAN
    /\ slot \in 0..MaxGeneration
    /\ hostGeneration \in 0..MaxGeneration
    /\ navigationGeneration \in 0..MaxGeneration
    /\ loadGeneration \in 0..MaxGeneration
    /\ gateHolder \in {"free", "attempt", "retry", "leaving", "shutdown"}
    /\ cli \in [Generations -> CliStates]
    /\ requested \in [Generations -> BOOLEAN]
    /\ reason \in [Generations -> Reasons]
    /\ stopLock \in SUBSET Generations
    /\ attempt \in [Generations -> AttemptStates]
    /\ retry \in {"idle", "requested", "cleanup", "taken", "stopping",
                  "restarting", "starting", "failing"}
    /\ retryCli \in 0..MaxGeneration
    /\ cleanupGeneration \in 0..MaxGeneration
    /\ leaving \in 0..MaxGeneration
    /\ shutdown \in {"none", "requested", "cleanup", "taken", "stopping",
                     "reclaimed", "cleanupFailed"}
    /\ shutdownCli \in 0..MaxGeneration
    /\ exit \in {"none", "ok", "error"}
    /\ mainQueue \in Seq(Tasks)
    /\ mainTask \in Tasks \cup {NoTask}
    /\ page \in 0..MaxGeneration
    /\ finished \in BOOLEAN
    /\ pending \in Seq(Loads)

-----------------------------------------------------------------------------
\* Reads

\* mutant of IsCurrent: the generation comparison is lost.
IsCurrentAnyGeneration(g) == ~shuttingDown

IsCurrent(g) == ~shuttingDown /\ generation = g

LeaderExited(g) == cli[g] \in {"lingering", "gone"}
TreeLive(g) == cli[g] \in {"running", "lingering"}

CurrentCliIsAlive(g) == IsCurrent(g) /\ slot = g /\ cli[g] = "running"

\* bound: generations opened, or still to be opened by what has been requested.
CommittedGenerations ==
    generation
    + (IF \A g \in Generations : attempt[g] = "none" THEN 1 ELSE 0)
    + (IF retry = "requested" THEN 2
       ELSE IF retry \in {"cleanup", "taken", "stopping", "restarting", "starting"} THEN 1
       ELSE 0)
    + (IF shutdown = "requested" THEN 1 ELSE 0)

\* mutant of RetryAllowed: Retry is also offered while stopping.
RetryAllowedWhileStopping ==
    snapshot \in {"Failed", "ProlongedStartup", "Stopping"}

RetryAllowed == snapshot \in {"Failed", "ProlongedStartup"}

\* mutant of GateFree: lifecycle_gate is not taken.
GateNotTaken == TRUE

GateFree == gateHolder = "free"

\* The first observation of an exit classifies it, for good.
Classified(g) ==
    CASE reason[g] # "none" -> reason[g]
      [] requested[g]       -> "Requested"
      [] generation # g     -> "Stale"
      [] OTHER              -> "Unexpected"

\* mutant of ExitRequiresFailure: only a crash after Ready is a failure.
ExitRequiresFailureAfterReady(g) ==
    generation = g /\ Classified(g) = "Unexpected" /\ snapshot = "Ready"

ExitRequiresFailure(g) == generation = g /\ Classified(g) = "Unexpected"

-----------------------------------------------------------------------------
\* Calls that change state, shared by the handlers below

TryExit(g) ==
    reason' = IF LeaderExited(g) THEN [reason EXCEPT ![g] = Classified(g)] ELSE reason

\* current_cli_is_alive queries the CLI only when the slot holds that generation.
QueryAlive(g) ==
    IF IsCurrent(g) /\ slot = g THEN TryExit(g) ELSE UNCHANGED reason

ResetHostObservation ==
    /\ hostGeneration' = None
    /\ navigationGeneration' = None
    /\ loadGeneration' = None

\* A section that opens a new generation also needs navigation_operation_gate.
OpenGeneration(state) ==
    /\ mainTask = NoTask
    /\ generation < MaxGeneration
    /\ generation' = generation + 1
    /\ ResetHostObservation
    /\ snapshot' = state
    /\ UNCHANGED lastError

StartAttempt ==
    /\ OpenGeneration("Starting")
    /\ attempt' = [attempt EXCEPT ![generation + 1] = "gate"]

\* The section of fail_attempt.
PublishFailed(g, code) ==
    IF IsCurrent(g)
    THEN /\ ResetHostObservation
         /\ lastError' = code
         /\ snapshot' = "Failed"
         /\ UNCHANGED generation
    ELSE UNCHANGED lifecycle

\* mutant of FailAttempt: the window is left where it is.
FailAttemptInPlace(g, code) == PublishFailed(g, code) /\ UNCHANGED mainQueue

\* An attempt posts the startup navigation right after the section, as its last
\* step: posted later it would be the same task, or one already superseded.
FailAttempt(g, code) ==
    /\ PublishFailed(g, code)
    /\ mainQueue' = IF IsCurrent(g)
                    THEN Append(mainQueue, [to |-> "startup", gen |-> g])
                    ELSE mainQueue

\* stop_process under the stop lock: a leader already gone is only classified,
\* a running one is marked as asked to stop before it is signalled.
StopBegin(g) ==
    /\ g \notin stopLock
    /\ stopLock' = stopLock \cup {g}
    /\ IF LeaderExited(g)
       THEN TryExit(g) /\ UNCHANGED requested
       ELSE requested' = [requested EXCEPT ![g] = TRUE] /\ UNCHANGED reason
    /\ UNCHANGED cli

\* mutant of StopSucceeds: has_exited asks for the leader only.
StopSucceedsOnLeaderExit(g) ==
    /\ stopLock' = stopLock \ {g}
    /\ cli' = [cli EXCEPT ![g] = IF @ = "running" THEN "gone" ELSE @]
    /\ reason' = [reason EXCEPT ![g] = Classified(g)]
    /\ UNCHANGED requested

\* The whole tree went within the graceful or the forced deadline.
StopSucceeds(g) ==
    /\ stopLock' = stopLock \ {g}
    /\ cli' = [cli EXCEPT ![g] = "gone"]
    /\ reason' = [reason EXCEPT ![g] = Classified(g)]
    /\ UNCHANGED requested

\* mutant of StopFails: an early return keeps the stop lock.
StopFailsLocked(g) == UNCHANGED cliVars

\* The kill or a query failed, or the tree outlived both deadlines.
StopFails(g) ==
    /\ stopLock' = stopLock \ {g}
    /\ UNCHANGED <<cli, reason, requested>>

-----------------------------------------------------------------------------
\* The CLI (external): it may exit at any time, its descendants after it

LeaderExits(g) ==
    /\ AppRuns
    /\ cli[g] = "running"
    /\ \E left \in {"lingering", "gone"} : cli' = [cli EXCEPT ![g] = left]
    /\ UNCHANGED <<lifecycle, flags, slot, gateHolder, requested, reason, stopLock,
                   attempt, controlVars, uiVars>>

DescendantsExit(g) ==
    /\ AppRuns
    /\ cli[g] = "lingering"
    /\ cli' = [cli EXCEPT ![g] = "gone"]
    /\ UNCHANGED <<lifecycle, flags, slot, gateHolder, requested, reason, stopLock,
                   attempt, controlVars, uiVars>>

-----------------------------------------------------------------------------
\* run_attempt: the thread of one generation

Goto(g, pc) == attempt' = [attempt EXCEPT ![g] = pc]

\* setup's call of start_attempt; a terminal signal may already have come.
Setup ==
    /\ AppRuns
    /\ \A g \in Generations : attempt[g] = "none"
    /\ StartAttempt
    /\ UNCHANGED <<flags, slot, gateHolder, cliVars, controlVars, uiVars>>

SpawnCli(g) ==
    /\ AppRuns
    /\ attempt[g] = "gate"
    /\ GateFree
    /\ IsCurrent(g)
    /\ gateHolder' = "attempt"
    /\ cli' = [cli EXCEPT ![g] = "running"]
    /\ Goto(g, "spawned")
    /\ UNCHANGED <<lifecycle, flags, slot, requested, reason, stopLock, controlVars,
                   uiVars>>

\* mutant of SpawnFails: the spawn error is dropped.
SpawnFailsSilently(g) ==
    /\ AppRuns
    /\ attempt[g] = "gate"
    /\ GateFree
    /\ IsCurrent(g)
    /\ Goto(g, "done")
    /\ UNCHANGED <<lifecycle, flags, slot, gateHolder, cliVars, controlVars, uiVars>>

\* No plan, a port conflict or a failed spawn: no CLI exists.
SpawnFails(g) ==
    /\ AppRuns
    /\ attempt[g] = "gate"
    /\ GateFree
    /\ IsCurrent(g)
    /\ Goto(g, "failing")
    /\ UNCHANGED <<lifecycle, flags, slot, gateHolder, cliVars, controlVars, uiVars>>

\* The child exists, cannot be owned, and cannot be terminated either.
SpawnCleanupFails(g) ==
    /\ AppRuns
    /\ AttachMayFail
    /\ attempt[g] = "gate"
    /\ GateFree
    /\ IsCurrent(g)
    /\ cli' = [cli EXCEPT ![g] = "running"]
    /\ Goto(g, "cleanupFailing")
    /\ UNCHANGED <<lifecycle, flags, slot, gateHolder, requested, reason, stopLock,
                   controlVars, uiVars>>

SpawnCancelled(g) ==
    /\ AppRuns
    /\ attempt[g] = "gate"
    /\ GateFree
    /\ ~IsCurrent(g)
    /\ Goto(g, "done")
    /\ UNCHANGED <<lifecycle, flags, slot, gateHolder, cliVars, controlVars, uiVars>>

StoreCli(g) ==
    /\ AppRuns
    /\ attempt[g] = "spawned"
    /\ IsCurrent(g)
    /\ slot = None
    /\ slot' = g
    /\ gateHolder' = "free"
    /\ Goto(g, "publishing")
    /\ UNCHANGED <<lifecycle, flags, cliVars, controlVars, uiVars>>

\* The generation moved on while the CLI was being created, or the slot is taken.
DiscardCli(g) ==
    /\ AppRuns
    /\ attempt[g] = "spawned"
    /\ ~IsCurrent(g) \/ slot # None
    /\ StopBegin(g)
    /\ Goto(g, "discarding")
    /\ UNCHANGED <<lifecycle, flags, slot, gateHolder, controlVars, uiVars>>

\* A failed stop of a CLI that is no longer wanted is ignored.
DiscardEnds(g) ==
    /\ AppRuns
    /\ attempt[g] = "discarding"
    /\ \/ StopSucceeds(g) /\ Goto(g, "failing")
       \/ StopFails(g) /\ Goto(g, IF IsCurrent(g) THEN "cleanupFailing" ELSE "leaked")
    /\ gateHolder' = "free"
    /\ UNCHANGED <<lifecycle, flags, slot, controlVars, uiVars>>

PublishWaiting(g) ==
    /\ AppRuns
    /\ attempt[g] = "publishing"
    /\ IsCurrent(g)
    /\ snapshot' = "WaitingForClient"
    /\ Goto(g, "probing")
    /\ UNCHANGED <<lastError, generation, tokens, flags, slot, gateHolder, cliVars,
                   controlVars, uiVars>>

\* Thirty seconds have passed and the poll loop is still running.
ProlongStartup(g) ==
    /\ AppRuns
    /\ attempt[g] = "probing"
    /\ IsCurrent(g)
    /\ snapshot = "WaitingForClient"
    /\ snapshot' = "ProlongedStartup"
    /\ UNCHANGED <<lastError, generation, tokens, flags, slot, gateHolder, cliVars,
                   attempt, controlVars, uiVars>>

\* The probe read a complete HTML answer and the CLI is still there.
ProbeReady(g) ==
    /\ AppRuns
    /\ attempt[g] = "probing"
    /\ IsCurrent(g)
    /\ cli[g] = "running"
    /\ Goto(g, "announcing")
    /\ UNCHANGED <<lifecycle, flags, slot, gateHolder, cliVars, controlVars, uiVars>>

SetReadyHostOrigin(g) ==
    /\ AppRuns
    /\ attempt[g] = "announcing"
    /\ CurrentCliIsAlive(g)
    /\ hostGeneration' = g
    /\ mainQueue' = Append(mainQueue, [to |-> "host", gen |-> g])
    /\ Goto(g, "monitoring")
    /\ UNCHANGED <<snapshot, lastError, generation, navigationGeneration,
                   loadGeneration, flags, slot, gateHolder, cliVars, controlVars,
                   webVars>>

AnnounceDeadCli(g) ==
    /\ AppRuns
    /\ attempt[g] = "announcing"
    /\ IsCurrent(g)
    /\ ~CurrentCliIsAlive(g)
    /\ QueryAlive(g)
    /\ Goto(g, "aborting")
    /\ UNCHANGED <<lifecycle, flags, slot, gateHolder, cli, requested, stopLock,
                   controlVars, uiVars>>

\* wait_for_readiness or the monitor loop sees the leader gone.
ObserveExit(g) ==
    /\ AppRuns
    /\ attempt[g] \in {"probing", "monitoring"}
    /\ IsCurrent(g)
    /\ LeaderExited(g)
    /\ TryExit(g)
    /\ Goto(g, IF ExitRequiresFailure(g) THEN "aborting" ELSE "done")
    /\ UNCHANGED <<lifecycle, flags, slot, gateHolder, cli, requested, stopLock,
                   controlVars, uiVars>>

\* The exit status cannot be queried: abort with the CLI possibly alive.
ObserveError(g) ==
    /\ AppRuns
    /\ attempt[g] \in {"probing", "announcing", "monitoring"}
    /\ IsCurrent(g)
    /\ Goto(g, "aborting")
    /\ UNCHANGED <<lifecycle, flags, slot, gateHolder, cliVars, controlVars, uiVars>>

\* Retry or shutdown superseded this attempt; whoever did it reclaims the CLI.
Superseded(g) ==
    /\ AppRuns
    /\ attempt[g] \in {"publishing", "probing", "announcing", "monitoring"}
    /\ ~IsCurrent(g)
    /\ Goto(g, "done")
    /\ UNCHANGED <<lifecycle, flags, slot, gateHolder, cliVars, controlVars, uiVars>>

\* abort_attempt does not hold the lifecycle gate.
AbortBegin(g) ==
    /\ AppRuns
    /\ attempt[g] = "aborting"
    /\ StopBegin(g)
    /\ Goto(g, "stopping")
    /\ UNCHANGED <<lifecycle, flags, slot, gateHolder, controlVars, uiVars>>

\* mutant of AbortEnds: the slot is cleared whatever the stop said.
AbortEndsClearing(g) ==
    /\ AppRuns
    /\ attempt[g] = "stopping"
    /\ StopSucceeds(g) \/ StopFails(g)
    /\ Goto(g, "clearing")
    /\ UNCHANGED <<lifecycle, flags, slot, gateHolder, controlVars, uiVars>>

AbortEnds(g) ==
    /\ AppRuns
    /\ attempt[g] = "stopping"
    /\ \/ StopSucceeds(g) /\ Goto(g, "clearing")
       \/ StopFails(g) /\ Goto(g, "cleanupFailing")
    /\ UNCHANGED <<lifecycle, flags, slot, gateHolder, controlVars, uiVars>>

\* clear_process: Retry or shutdown may have taken the CLI meanwhile.
ClearProcess(g) ==
    /\ AppRuns
    /\ attempt[g] = "clearing"
    /\ slot' = IF slot = g THEN None ELSE slot
    /\ Goto(g, "failing")
    /\ UNCHANGED <<lifecycle, flags, gateHolder, cliVars, controlVars, uiVars>>

ReportFailure(g) ==
    /\ AppRuns
    /\ \/ attempt[g] = "failing" /\ FailAttempt(g, "other")
       \/ attempt[g] = "cleanupFailing" /\ FailAttempt(g, "CleanupFailed")
    /\ Goto(g, "done")
    /\ UNCHANGED <<flags, slot, gateHolder, cliVars, controlVars, webVars>>

AttemptStep(g) ==
    \/ SpawnCli(g) \/ SpawnFails(g) \/ SpawnCleanupFails(g) \/ SpawnCancelled(g)
    \/ StoreCli(g) \/ DiscardCli(g) \/ DiscardEnds(g)
    \/ PublishWaiting(g) \/ ProlongStartup(g) \/ ProbeReady(g)
    \/ SetReadyHostOrigin(g) \/ AnnounceDeadCli(g)
    \/ ObserveExit(g) \/ ObserveError(g) \/ Superseded(g)
    \/ AbortBegin(g) \/ AbortEnds(g) \/ ClearProcess(g) \/ ReportFailure(g)

-----------------------------------------------------------------------------
\* request_retry and its thread

RequestRetry ==
    /\ AppRuns
    /\ page = None
    /\ RetryAllowed
    /\ ~shuttingDown
    /\ ~retrying
    /\ CommittedGenerations + 2 <= MaxGeneration
    /\ retrying' = TRUE
    /\ retry' = "requested"
    /\ UNCHANGED <<lifecycle, shuttingDown, slot, gateHolder, cliVars, attempt,
                   retryCli, cleanupGeneration, leaving, shutdownVars, uiVars>>

\* Under both gates the state is read again.
BeginRetryCleanup ==
    /\ AppRuns
    /\ retry = "requested"
    /\ RetryAllowed
    /\ OpenGeneration("Stopping")
    /\ cleanupGeneration' = generation + 1
    /\ retry' = "cleanup"
    /\ UNCHANGED <<flags, slot, gateHolder, cliVars, attempt, retryCli, leaving,
                   shutdownVars, uiVars>>

AbandonRetry ==
    /\ AppRuns
    /\ retry = "requested"
    /\ mainTask = NoTask
    /\ ~RetryAllowed
    /\ retrying' = FALSE
    /\ retry' = "idle"
    /\ UNCHANGED <<lifecycle, shuttingDown, slot, gateHolder, cliVars, attempt,
                   retryCli, cleanupGeneration, leaving, shutdownVars, uiVars>>

TakeForRetry ==
    /\ AppRuns
    /\ retry = "cleanup"
    /\ GateFree
    /\ gateHolder' = "retry"
    /\ retryCli' = slot
    /\ slot' = None
    /\ IF slot = None
       THEN retry' = "restarting" /\ retrying' = FALSE
       ELSE retry' = "taken" /\ UNCHANGED retrying
    /\ UNCHANGED <<lifecycle, shuttingDown, cliVars, attempt, cleanupGeneration,
                   leaving, shutdownVars, uiVars>>

RetryStopBegin ==
    /\ AppRuns
    /\ retry = "taken"
    /\ StopBegin(retryCli)
    /\ retry' = "stopping"
    /\ UNCHANGED <<lifecycle, flags, slot, gateHolder, attempt, retryCli,
                   cleanupGeneration, leaving, shutdownVars, uiVars>>

\* Only a confirmed reclaim leads to a new attempt; otherwise the CLI goes back.
RetryStopEnds ==
    /\ AppRuns
    /\ retry = "stopping"
    /\ \/ /\ StopSucceeds(retryCli)
          /\ retry' = "restarting"
          /\ UNCHANGED slot
       \/ /\ StopFails(retryCli)
          /\ retry' = "failing"
          /\ slot' = retryCli
    /\ retryCli' = None
    /\ retrying' = FALSE
    /\ UNCHANGED <<lifecycle, shuttingDown, gateHolder, attempt, cleanupGeneration,
                   leaving, shutdownVars, uiVars>>

\* mutant of RetryRestarts: the gate outlives a Retry that meets a shutdown.
RetryRestartsHoldingGate ==
    /\ AppRuns
    /\ retry = "restarting"
    /\ IF shuttingDown
       THEN retry' = "idle" /\ cleanupGeneration' = None
       ELSE retry' = "starting" /\ UNCHANGED cleanupGeneration
    /\ UNCHANGED <<lifecycle, flags, slot, gateHolder, cliVars, attempt, retryCli,
                   leaving, shutdownVars, uiVars>>

RetryRestarts ==
    /\ AppRuns
    /\ retry = "restarting"
    /\ IF shuttingDown
       THEN retry' = "idle" /\ gateHolder' = "free" /\ cleanupGeneration' = None
       ELSE retry' = "starting" /\ UNCHANGED <<gateHolder, cleanupGeneration>>
    /\ UNCHANGED <<lifecycle, flags, slot, cliVars, attempt, retryCli, leaving,
                   shutdownVars, uiVars>>

\* start_attempt reads shutting_down no more.  The gate is let go right after it:
\* meanwhile the new attempt waits for the gate, and Starting refuses a Retry.
RetryStarts ==
    /\ AppRuns
    /\ retry = "starting"
    /\ StartAttempt
    /\ retry' = "idle"
    /\ cleanupGeneration' = None
    /\ gateHolder' = "free"
    /\ UNCHANGED <<flags, slot, cliVars, retryCli, leaving, shutdownVars, uiVars>>

\* The thread still holds lifecycle_gate when it publishes the failure, and when
\* the user, who sees it, asks for another Retry.
RetryFails ==
    /\ AppRuns
    /\ retry = "failing"
    /\ PublishFailed(cleanupGeneration, "CleanupFailed")
    /\ leaving' = IF IsCurrent(cleanupGeneration) THEN cleanupGeneration ELSE None
    /\ gateHolder' = "leaving"
    /\ retry' = "idle"
    /\ cleanupGeneration' = None
    /\ UNCHANGED <<flags, slot, cliVars, attempt, retryCli, shutdownVars, uiVars>>

LeaverPosts ==
    /\ AppRuns
    /\ leaving # None
    /\ mainQueue' = Append(mainQueue, [to |-> "startup", gen |-> leaving])
    /\ leaving' = None
    /\ UNCHANGED <<lifecycle, flags, slot, gateHolder, cliVars, attempt, retry, retryCli,
                   cleanupGeneration, shutdownVars, webVars>>

LeaverLeaves ==
    /\ AppRuns
    /\ gateHolder = "leaving"
    /\ leaving = None
    /\ gateHolder' = "free"
    /\ UNCHANGED <<lifecycle, flags, slot, cliVars, attempt, retryVars, shutdownVars,
                   uiVars>>

RetryStep ==
    \/ BeginRetryCleanup \/ AbandonRetry \/ TakeForRetry \/ RetryStopBegin
    \/ RetryStopEnds \/ RetryRestarts \/ RetryStarts \/ RetryFails
    \/ LeaverPosts \/ LeaverLeaves

-----------------------------------------------------------------------------
\* request_shutdown and its thread

RequestShutdown ==
    /\ AppRuns
    /\ ~shuttingDown
    /\ CommittedGenerations + 1 <= MaxGeneration
    /\ shuttingDown' = TRUE
    /\ shutdown' = "requested"
    /\ UNCHANGED <<lifecycle, retrying, slot, gateHolder, cliVars, attempt, retryVars,
                   shutdownCli, exit, uiVars>>

BeginShutdown ==
    /\ AppRuns
    /\ shutdown = "requested"
    /\ OpenGeneration("Stopping")
    /\ shutdown' = "cleanup"
    /\ UNCHANGED <<flags, slot, gateHolder, cliVars, attempt, retryVars, shutdownCli,
                   exit, uiVars>>

TakeForShutdown ==
    /\ AppRuns
    /\ shutdown = "cleanup"
    /\ GateFree
    /\ shutdownCli' = slot
    /\ slot' = None
    /\ IF slot = None
       THEN shutdown' = "reclaimed" /\ UNCHANGED gateHolder
       ELSE shutdown' = "taken" /\ gateHolder' = "shutdown"
    /\ UNCHANGED <<lifecycle, flags, cliVars, attempt, retryVars, exit, uiVars>>

ShutdownStopBegin ==
    /\ AppRuns
    /\ shutdown = "taken"
    /\ StopBegin(shutdownCli)
    /\ shutdown' = "stopping"
    /\ UNCHANGED <<lifecycle, flags, slot, gateHolder, attempt, retryVars, shutdownCli,
                   exit, uiVars>>

ShutdownStopEnds ==
    /\ AppRuns
    /\ shutdown = "stopping"
    /\ \/ StopSucceeds(shutdownCli) /\ shutdown' = "reclaimed"
       \/ StopFails(shutdownCli) /\ shutdown' = "cleanupFailed"
    /\ shutdownCli' = None
    /\ gateHolder' = "free"
    /\ UNCHANGED <<lifecycle, flags, slot, attempt, retryVars, exit, uiVars>>

\* app.exit(0) or app.exit(1); no staged update is installed in this module.
ExitApp ==
    /\ AppRuns
    /\ \/ shutdown = "reclaimed" /\ exit' = "ok"
       \/ shutdown = "cleanupFailed" /\ exit' = "error"
    /\ UNCHANGED <<lifecycle, flags, slot, gateHolder, cliVars, attempt, retryVars,
                   shutdown, shutdownCli, uiVars>>

ShutdownStep ==
    \/ BeginShutdown \/ TakeForShutdown \/ ShutdownStopBegin \/ ShutdownStopEnds \/ ExitApp

-----------------------------------------------------------------------------
\* The main thread: posted navigation tasks

TakeHostTask ==
    /\ AppRuns
    /\ mainTask = NoTask
    /\ mainQueue # <<>>
    /\ Head(mainQueue).to = "host"
    /\ LET g == Head(mainQueue).gen IN
       IF hostGeneration = g /\ CurrentCliIsAlive(g)
       THEN /\ navigationGeneration' = g
            /\ loadGeneration' = None
            /\ mainTask' = Head(mainQueue)
            /\ UNCHANGED reason
       ELSE /\ IF hostGeneration = g THEN QueryAlive(g) ELSE UNCHANGED reason
            /\ UNCHANGED <<navigationGeneration, loadGeneration, mainTask>>
    /\ mainQueue' = Tail(mainQueue)
    /\ UNCHANGED <<snapshot, lastError, generation, hostGeneration, flags, slot,
                   gateHolder, cli, requested, stopLock, attempt, controlVars, page,
                   finished, pending>>

TakeStartupTask ==
    /\ AppRuns
    /\ mainTask = NoTask
    /\ mainQueue # <<>>
    /\ Head(mainQueue).to = "startup"
    /\ IF IsCurrent(Head(mainQueue).gen)
       THEN ResetHostObservation /\ mainTask' = Head(mainQueue)
       ELSE UNCHANGED <<tokens, mainTask>>
    /\ mainQueue' = Tail(mainQueue)
    /\ UNCHANGED <<snapshot, lastError, generation, flags, slot, gateHolder, cliVars,
                   attempt, controlVars, page, finished, pending>>

\* window.navigate, after the event gate is dropped.
Navigate ==
    /\ AppRuns
    /\ mainTask # NoTask
    /\ pending' = Append(pending, [url |-> IF mainTask.to = "host" THEN mainTask.gen ELSE None,
                                   allowed |-> FALSE])
    /\ mainTask' = NoTask
    /\ UNCHANGED <<lifecycle, flags, slot, gateHolder, cliVars, attempt, controlVars,
                   mainQueue, page, finished>>

\* A refused host navigation takes its token back, without the event gate.
NavigateFails ==
    /\ AppRuns
    /\ NavigateMayFail
    /\ mainTask # NoTask
    /\ navigationGeneration' = IF mainTask.to = "host" THEN None ELSE navigationGeneration
    /\ mainTask' = NoTask
    /\ UNCHANGED <<snapshot, lastError, generation, hostGeneration, loadGeneration,
                   flags, slot, gateHolder, cliVars, attempt, controlVars, mainQueue,
                   page, finished, pending>>

MainStep == TakeHostTask \/ TakeStartupTask \/ Navigate \/ NavigateFails

-----------------------------------------------------------------------------
\* The WebView (external) and the callbacks it runs on the main thread

\* on_navigation: the startup page always, the Host while its origin is known.
DecideNavigation ==
    /\ AppRuns
    /\ mainTask = NoTask
    /\ \E i \in 1..Len(pending) :
        /\ ~pending[i].allowed
        /\ \A j \in 1..(i - 1) : pending[j].allowed
        /\ pending' = IF pending[i].url = None \/ hostGeneration # None
                      THEN [pending EXCEPT ![i].allowed = TRUE]
                      ELSE SubSeq(pending, 1, i - 1) \o SubSeq(pending, i + 1, Len(pending))
    /\ UNCHANGED <<lifecycle, flags, slot, gateHolder, cliVars, attempt, controlVars,
                   mainQueue, mainTask, page, finished>>

\* A load is superseded by a later navigation, or fails before it commits.
DropNavigation ==
    /\ AppRuns
    /\ pending # <<>>
    /\ Head(pending).allowed
    /\ Len(pending) > 1 \/ Head(pending).url # None
    /\ pending' = Tail(pending)
    /\ UNCHANGED <<lifecycle, flags, slot, gateHolder, cliVars, attempt, controlVars,
                   mainQueue, mainTask, page, finished>>

\* The page commits, and Started runs begin_client_page_load.
StartPage ==
    /\ AppRuns
    /\ mainTask = NoTask
    /\ pending # <<>>
    /\ Head(pending).allowed
    /\ page' = Head(pending).url
    /\ finished' = FALSE
    /\ pending' = Tail(pending)
    /\ IF page' # None /\ page' = navigationGeneration /\ navigationGeneration = generation
       THEN /\ loadGeneration' = IF CurrentCliIsAlive(generation)
                                 THEN generation ELSE loadGeneration
            /\ QueryAlive(generation)
       ELSE UNCHANGED <<loadGeneration, reason>>
    /\ UNCHANGED <<snapshot, lastError, generation, hostGeneration,
                   navigationGeneration, flags, slot, gateHolder, cli, requested,
                   stopLock, attempt, controlVars, mainQueue, mainTask>>

\* mutant of IsCurrentHostPage: any Finished counts once the Host is ready.
IsAnyPageOfReadyHost ==
    /\ hostGeneration = generation
    /\ CurrentCliIsAlive(generation)
    /\ snapshot \in Waiting

IsCurrentHostPage ==
    /\ hostGeneration = generation
    /\ loadGeneration = generation
    /\ CurrentCliIsAlive(generation)
    /\ snapshot \in Waiting
    /\ page = loadGeneration

\* Finished runs mark_client_page_loaded, which always queries the CLI.
FinishPage ==
    /\ AppRuns
    /\ mainTask = NoTask
    /\ ~finished
    /\ finished' = TRUE
    /\ IF IsCurrentHostPage
       THEN /\ snapshot' = "Ready"
            /\ navigationGeneration' = None
            /\ loadGeneration' = None
       ELSE UNCHANGED <<snapshot, navigationGeneration, loadGeneration>>
    /\ IF generation \in Generations THEN QueryAlive(generation) ELSE UNCHANGED reason
    /\ UNCHANGED <<lastError, generation, hostGeneration, flags, slot, gateHolder, cli,
                   requested, stopLock, attempt, controlVars, mainQueue, mainTask, page,
                   pending>>

WebViewStep == DecideNavigation \/ DropNavigation \/ StartPage \/ FinishPage

-----------------------------------------------------------------------------
Init ==
    /\ snapshot = "Starting"
    /\ lastError = "none"
    /\ generation = 0
    /\ shuttingDown = FALSE
    /\ retrying = FALSE
    /\ slot = None
    /\ hostGeneration = None
    /\ navigationGeneration = None
    /\ loadGeneration = None
    /\ gateHolder = "free"
    /\ cli = [g \in Generations |-> "none"]
    /\ requested = [g \in Generations |-> FALSE]
    /\ reason = [g \in Generations |-> "none"]
    /\ stopLock = {}
    /\ attempt = [g \in Generations |-> "none"]
    /\ retry = "idle"
    /\ retryCli = None
    /\ cleanupGeneration = None
    /\ leaving = None
    /\ shutdown = "none"
    /\ shutdownCli = None
    /\ exit = "none"
    /\ mainQueue = <<>>
    /\ mainTask = NoTask
    /\ page = None
    /\ finished = TRUE
    /\ pending = <<>>

\* What is left when the process has ended: its children.
Exited == ~AppRuns /\ UNCHANGED vars

Next ==
    \/ Setup
    \/ \E g \in Generations : AttemptStep(g) \/ LeaderExits(g) \/ DescendantsExit(g)
    \/ RequestRetry \/ RetryStep
    \/ RequestShutdown \/ ShutdownStep
    \/ MainStep \/ WebViewStep
    \/ Exited

Spec == Init /\ [][Next]_vars

-----------------------------------------------------------------------------
\* Safety

(* Two generations never have a live process tree at once: the fixed port    *)
(* and the user's Harness Home have one owner, whatever Retry, crash and      *)
(* shutdown do to each other (lifecycle_gate in spawn_direct_cli and          *)
(* request_retry).                                                            *)
SingleHost ==
    \A g, h \in Generations : TreeLive(g) /\ TreeLive(h) => g = h

(* A live tree is in the slot, or in the hands of exactly the thread that is  *)
(* creating or stopping it; otherwise its stop was tried and failed during    *)
(* shutdown.  The slot is emptied by four pieces of code that race.           *)
LiveTreeHasOwner ==
    \A g \in Generations : TreeLive(g) =>
        \/ slot = g
        \/ attempt[g] \in {"spawned", "discarding"}
        \/ retryCli = g
        \/ shutdownCli = g
        \/ shutdown = "cleanupFailed"
        \/ attempt[g] = "leaked"

(* A failure that is not reported as CleanupFailed leaves no process behind:  *)
(* abort_attempt publishes Failed only after the tree is confirmed gone.      *)
FailedIsReclaimed ==
    snapshot = "Failed" /\ lastError # "CleanupFailed"
        => \A g \in Generations : ~TreeLive(g)

(* Ready is published for the page the user is looking at, of the CLI of the  *)
(* current generation, and stays true of it: a late Started or Finished, a    *)
(* late navigation task or a startup-page navigation of an older generation   *)
(* never makes or leaves another page behind a Ready.                         *)
ReadyShowsCurrentHost ==
    snapshot = "Ready" =>
        /\ hostGeneration = generation
        /\ page = generation
        /\ finished

(* Until shutdown, a generation in a state that waits for its CLI has a       *)
(* thread that will notice the CLI's end, and Stopping has the thread that    *)
(* will leave it: no early return of run_attempt or request_retry strands the *)
(* user in a state without Retry.                                             *)
SomeoneIsResponsible ==
    ~shuttingDown =>
        /\ snapshot \in Waiting \cup {"Ready"} =>
               attempt[generation] \notin {"none", "gate", "spawned", "done", "leaked"}
        /\ snapshot = "Starting" /\ generation # 0 =>
               attempt[generation] \notin {"none", "done", "leaked"}
        /\ snapshot = "Stopping" => retry \notin {"idle", "requested"}

(* request_retry resets retrying and publishes the failure of a Retry while   *)
(* its thread still holds lifecycle_gate, so that a second Retry may be        *)
(* accepted before the first thread is over.  By then the first has put its    *)
(* CLI back and has nothing left to stop or to start, and the second has no    *)
(* CLI in its hands before the first has let the gate go.                      *)
OneRetryAtATime ==
    /\ ~retrying /\ ~shuttingDown /\ RetryAllowed => retry = "idle"
    /\ retryCli # None => gateHolder = "retry"

(* Once shutdown has emptied the slot nothing is stored again: a late attempt *)
(* or a Retry whose stop failed cannot hide a CLI behind shutdown's back.     *)
NothingStoredAfterShutdownTook ==
    shutdown \notin {"none", "requested", "cleanup"} => slot = None

(* An orderly exit leaves a live tree only when the stop of a CLI that was    *)
(* being created while shutdown began has failed.                             *)
OrderlyExitReclaims ==
    exit = "ok" => \A g \in Generations : TreeLive(g) => attempt[g] = "leaked"

(* request_shutdown: "请求应用退出，并保证 CLI 进程树被回收" (request exit and   *)
(* guarantee that the CLI process tree is reclaimed), or exit with an error.  *)
ExitReclaims ==
    exit = "ok" => \A g \in Generations : ~TreeLive(g)

LiveTrees == {g \in Generations : TreeLive(g)}

Promise == INSTANCE OneHost WITH
    Hosts <- Generations,
    shown <- snapshot,
    unclean <- lastError = "CleanupFailed",
    trees <- LiveTrees

(* The threads together keep the promise: whatever interleaves, a CLI is      *)
(* created only where none is alive ("旧进程回收完成前绝不启动新 Host",          *)
(* request_retry), the published states follow the state machine, Ready is    *)
(* published of a live CLI only, and a failure that is not CleanupFailed      *)
(* leaves nothing behind.                                                     *)
ImplementsOneHost == Promise!Spec
=============================================================================
