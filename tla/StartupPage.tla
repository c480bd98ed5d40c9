------------------------------ MODULE StartupPage ------------------------------
(***************************************************************************)
(* The startup page (src/startup): snapshots of the desktop lifecycle have *)
(* no sequence numbers here, and Retry is guarded by retryInFlight.        *)
(* The lifecycle is the one of OneHost; it publishes under its event gate, *)
(* so a change and its emission are one step.                              *)
(***************************************************************************)
EXTENDS Integers, Sequences

CONSTANT MaxChanges     \* bound: lifecycle changes after the page has loaded

ASSUME ChangesAssumption == MaxChanges \in Nat

VARIABLES
    life,             \* the lifecycle snapshot: how many came before it, and its state
    stopping,         \* request_shutdown was called
    listening,        \* the listener is registered
    asked,            \* getSnapshot: asked, answered, done, failed
    told,             \* what it was answered with
    startupInbox,     \* events on their way to the listener
    shown,            \* what was rendered last
    shownFrom,        \* history: what brought it: nothing, answer, event
    retryInFlight,    \* retryInFlight
    retryEnabled,     \* not retry.disabled
    startupCalls      \* calls of api.retry, by how far they have come

startupVars == <<life, stopping, listening, asked, told, startupInbox, shown,
                 shownFrom, retryInFlight, retryEnabled, startupCalls>>

LifeStates == {"starting", "waiting", "prolonged", "ready", "failed", "stopping"}
Life(order, state) == [order |-> order, state |-> state]
Recovery == {"failed", "prolonged"}
Retries == {"sent", "allowed", "refused"}
Outstanding == startupCalls["sent"] + startupCalls["allowed"] + startupCalls["refused"]
MaxRetries == 2       \* bound: calls of api.retry at a time

\* What the page has when its script has run.
PageLoaded ==
    [listening |-> FALSE, asked |-> "asked", told |-> Life(-1, "starting"),
     shown |-> Life(-1, "starting"), shownFrom |-> "nothing"]

StartupInit ==
    /\ life \in [order : {0}, state : LifeStates \ {"stopping"}]
    /\ stopping = FALSE
    /\ listening = FALSE
    /\ asked = "asked"
    /\ told = PageLoaded.told
    /\ startupInbox = <<>>
    /\ shown = PageLoaded.shown
    /\ shownFrom = "nothing"
    /\ retryInFlight = FALSE
    /\ retryEnabled = TRUE
    /\ startupCalls = [s \in Retries |-> 0]

-----------------------------------------------------------------------------
\* The lifecycle, as OneHost lets it go on.
Follows(from) ==
    CASE from = "starting" -> {"waiting", "failed"}
      [] from = "waiting" -> {"prolonged", "ready", "failed"}
      [] from = "prolonged" -> {"ready", "failed"}
      [] from = "ready" -> {"failed"}
      [] from = "stopping" -> {"starting", "failed"}
      [] OTHER -> {}

Shows(state) ==
    /\ life.order < MaxChanges
    /\ life' = Life(life.order + 1, state)
    /\ startupInbox' = IF listening THEN Append(startupInbox, life') ELSE startupInbox

LifecycleMoves ==
    /\ ~stopping
    /\ \E state \in Follows(life.state) : Shows(state)
    /\ UNCHANGED <<stopping, listening, asked, told, shown, shownFrom, retryInFlight,
                   retryEnabled, startupCalls>>

\* request_shutdown refuses every Retry before it publishes Stopping.
ShutdownBegins ==
    /\ ~stopping
    /\ stopping' = TRUE
    /\ UNCHANGED <<life, listening, asked, told, startupInbox, shown, shownFrom,
                   retryInFlight, retryEnabled, startupCalls>>

ShutdownShows ==
    /\ stopping
    /\ life.state # "stopping"
    /\ Shows("stopping")
    /\ UNCHANGED <<stopping, listening, asked, told, shown, shownFrom, retryInFlight,
                   retryEnabled, startupCalls>>

-----------------------------------------------------------------------------
\* mutant of RenderLife: only Ready ends a Retry.
RenderLifeReadyOnly(s) ==
    LET inFlight == retryInFlight /\ s.state # "ready"
    IN  /\ shown' = s
        /\ retryInFlight' = inFlight
        /\ retryEnabled' = (s.state \in Recovery /\ ~inFlight)

\* mutant of RenderLife: nothing is rendered while a Retry is under way.
RenderLifeUnlessRetrying(s) ==
    IF retryInFlight /\ s.state \in Recovery
    THEN UNCHANGED <<shown, retryInFlight, retryEnabled>>
    ELSE /\ shown' = s
         /\ retryInFlight' = (retryInFlight /\ s.state \notin {"failed", "ready"})
         /\ retryEnabled' = (s.state \in Recovery)

\* render
RenderLife(s) ==
    LET inFlight == retryInFlight /\ s.state \notin {"failed", "ready"}
    IN  /\ shown' = s
        /\ retryInFlight' = inFlight
        /\ retryEnabled' = (s.state \in Recovery /\ ~inFlight)

ListenerRegistered ==
    /\ ~listening
    /\ listening' = TRUE
    /\ UNCHANGED <<life, stopping, asked, told, startupInbox, shown, shownFrom,
                   retryInFlight, retryEnabled, startupCalls>>

LifeArrives ==
    /\ startupInbox # <<>>
    /\ startupInbox' = Tail(startupInbox)
    /\ RenderLife(Head(startupInbox))
    /\ shownFrom' = "event"
    /\ UNCHANGED <<life, stopping, listening, asked, told, startupCalls>>

StartupSnapshot ==
    /\ asked = "asked"
    /\ asked' = "answered"
    /\ told' = life
    /\ UNCHANGED <<life, stopping, listening, startupInbox, shown, shownFrom,
                   retryInFlight, retryEnabled, startupCalls>>

StartupSnapshotFails ==
    /\ asked = "asked"
    /\ asked' = "failed"
    /\ UNCHANGED <<life, stopping, listening, told, startupInbox, shown, shownFrom,
                   retryInFlight, retryEnabled, startupCalls>>

\* The answer is rendered whatever has been rendered before it.
AnswerArrives ==
    /\ asked = "answered"
    /\ asked' = "done"
    /\ RenderLife(told)
    /\ shownFrom' = "answer"
    /\ UNCHANGED <<life, stopping, listening, told, startupInbox, startupCalls>>

ClickStartupRetry ==
    /\ retryEnabled
    /\ shown.state \in Recovery     \* the buttons are hidden otherwise
    /\ Outstanding < MaxRetries
    /\ retryInFlight' = TRUE
    /\ retryEnabled' = FALSE
    /\ startupCalls' = [startupCalls EXCEPT !["sent"] = @ + 1]
    /\ UNCHANGED <<life, stopping, listening, asked, told, startupInbox, shown, shownFrom>>

\* startup_retry looks at the snapshot, request_retry looks again.
StartupRetry ==
    /\ startupCalls["sent"] > 0
    /\ startupCalls' = [startupCalls EXCEPT !["sent"] = @ - 1,
           ![IF life.state \in Recovery THEN "allowed" ELSE "refused"] = @ + 1]
    /\ UNCHANGED <<life, stopping, listening, asked, told, startupInbox, shown,
                   shownFrom, retryInFlight, retryEnabled>>

RequestRetry ==
    /\ startupCalls["allowed"] > 0
    /\ startupCalls' = [startupCalls EXCEPT !["allowed"] = @ - 1]
    /\ IF life.state \in Recovery /\ ~stopping
       THEN Shows("stopping")
       ELSE UNCHANGED <<life, startupInbox>>
    /\ UNCHANGED <<stopping, listening, asked, told, shown, shownFrom, retryInFlight,
                   retryEnabled>>

RetryRejected ==
    /\ startupCalls["refused"] > 0
    /\ startupCalls' = [startupCalls EXCEPT !["refused"] = @ - 1]
    /\ retryInFlight' = FALSE
    /\ retryEnabled' = TRUE
    /\ UNCHANGED <<life, stopping, listening, asked, told, startupInbox, shown, shownFrom>>

\* navigate_to_startup after a failure: the page begins anew.
StartupReloads ==
    /\ life.state = "failed"
    /\ listening' = FALSE
    /\ asked' = "asked"
    /\ told' = PageLoaded.told
    /\ startupInbox' = <<>>
    /\ shown' = PageLoaded.shown
    /\ shownFrom' = "nothing"
    /\ retryInFlight' = FALSE
    /\ retryEnabled' = TRUE
    /\ startupCalls' = [s \in Retries |-> 0]
    /\ UNCHANGED <<life, stopping>>

StartupNext ==
    \/ LifecycleMoves \/ ShutdownBegins \/ ShutdownShows
    \/ ListenerRegistered \/ LifeArrives
    \/ StartupSnapshot \/ StartupSnapshotFails \/ AnswerArrives
    \/ ClickStartupRetry \/ StartupRetry \/ RequestRetry \/ RetryRejected
    \/ StartupReloads

-----------------------------------------------------------------------------
Lives == [order : -1..MaxChanges, state : LifeStates]

StartupTypeOK ==
    /\ life \in Lives
    /\ {stopping, listening, retryInFlight, retryEnabled} \subseteq BOOLEAN
    /\ asked \in {"asked", "answered", "done", "failed"}
    /\ told \in Lives
    /\ \A i \in 1..Len(startupInbox) : startupInbox[i] \in Lives
    /\ shown \in Lives
    /\ shownFrom \in {"nothing", "answer", "event"}
    /\ startupCalls \in [Retries -> 0..MaxRetries]

(* What an event has brought stays until a newer event, and then it is the   *)
(* state the lifecycle is in; only the answer of the query, which carries no *)
(* order, can put an older one in its place (controller.ts:30-38, 49-50).    *)
EventsAreRendered ==
    shownFrom = "event" /\ startupInbox = <<>> => shown = life

(* A failure that is shown can be retried: retryInFlight of an earlier Retry *)
(* never outlives it, and a Retry that was not carried out gives the button  *)
(* back, whatever happened between the click and the call (controller.ts:33, *)
(* 39-47; main.rs:1787).                                                     *)
FailureCanBeRetried ==
    /\ shown = life
    /\ shown.state = "failed"
    /\ Outstanding = 0
    /\ ~stopping
    => retryEnabled
=============================================================================
