------------------------------ MODULE UpdateWindow ------------------------------
(***************************************************************************)
(* The update window (src/update): it asks for the listener and for the    *)
(* snapshot at the same time, renders what is newer than what it shows,    *)
(* and sends Retry and Restart to the native side, which may refuse.       *)
(***************************************************************************)
EXTENDS NativeUpdates, FiniteSets

CONSTANT MaxCalls     \* bound: calls of one kind at a time

ASSUME CallsAssumption == MaxCalls \in Nat

VARIABLES
    subscription,     \* onSnapshot: requested, granted
    query,            \* getSnapshot: asked, answered, done, failed
    reply,            \* what it was answered with
    windowInbox,      \* events on their way to the listener
    rendered,         \* renderedSequence and what was rendered
    disabled,         \* the buttons that wait for their call
    retryCalls,       \* calls of api.retry, by how far they have come
    restartCalls,     \* calls of api.restart, likewise
    leaving,          \* request_shutdown was called: the application ends
    missed            \* history: what neither the answer nor an event has told the page

windowVars == <<subscription, query, reply, windowInbox, rendered, disabled,
                retryCalls, restartCalls, leaving, missed>>

Buttons == {"retry", "restart"}
CallStates == {"sent", "allowed", "refused"}
NoCalls == [s \in CallStates |-> 0]
Pending(calls) == calls["sent"] + calls["allowed"] + calls["refused"]

\* Which button the rendered state offers; "failed" may be retried.
Offers(button) ==
    rendered.kind = (IF button = "retry" THEN "failed" ELSE "staged")

WindowInit ==
    /\ subscription = "requested"
    /\ query = "asked"
    /\ reply = Nothing
    /\ windowInbox = <<>>
    /\ rendered = Nothing
    /\ disabled = {}
    /\ retryCalls = NoCalls
    /\ restartCalls = NoCalls
    /\ leaving = FALSE
    /\ missed = FALSE

-----------------------------------------------------------------------------
\* mutant of Render: older snapshots are rendered too.
RenderAny(s) == rendered' = s /\ disabled' = {}

\* render: strictly newer snapshots only; both buttons are usable again.
Render(s) ==
    IF s.sequence > rendered.sequence
    THEN rendered' = s /\ disabled' = {}
    ELSE UNCHANGED <<rendered, disabled>>

SubscriptionGranted ==
    /\ subscription = "requested"
    /\ subscription' = "granted"
    /\ UNCHANGED <<query, reply, windowInbox, rendered, disabled, retryCalls,
                   restartCalls, leaving, missed, nativeVars>>

\* A rejected listen is not looked at: the window shows what it was answered.
\* The answer of app_update_snapshot is computed, and arrives later.
QueryAnswered ==
    /\ query = "asked"
    /\ query' = "answered"
    /\ reply' = native
    /\ UNCHANGED <<subscription, windowInbox, rendered, disabled, retryCalls,
                   restartCalls, leaving, missed, nativeVars>>

QueryReturns ==
    /\ query = "answered"
    /\ query' = "done"
    /\ Render(reply)
    /\ UNCHANGED <<subscription, reply, windowInbox, retryCalls, restartCalls,
                   leaving, missed, nativeVars>>

QueryFails ==
    /\ query = "asked"
    /\ query' = "failed"
    /\ UNCHANGED <<subscription, reply, windowInbox, rendered, disabled, retryCalls,
                   restartCalls, leaving, missed, nativeVars>>

SnapshotArrives ==
    /\ windowInbox # <<>>
    /\ windowInbox' = Tail(windowInbox)
    /\ Render(Head(windowInbox))
    /\ UNCHANGED <<subscription, query, reply, retryCalls, restartCalls, leaving,
                   missed, nativeVars>>

\* An event that nobody listens to is lost; it matters if the answer is older.
EmitToWindow ==
    /\ Emit(windowInbox, subscription = "granted")
    /\ missed' = (missed \/ (/\ subscription = "requested"
                             /\ query # "asked"
                             /\ \E s \in unsent : s.sequence > reply.sequence))
    /\ UNCHANGED <<subscription, query, reply, rendered, disabled, retryCalls,
                   restartCalls, leaving>>

-----------------------------------------------------------------------------
\* Retry and Restart

Moves(calls, from, to) == [calls EXCEPT ![from] = @ - 1, ![to] = @ + 1]
Ends(calls, from) == [calls EXCEPT ![from] = @ - 1]

ClickRetry ==
    /\ Offers("retry")
    /\ "retry" \notin disabled
    /\ Pending(retryCalls) < MaxCalls
    /\ disabled' = disabled \cup {"retry"}
    /\ retryCalls' = [retryCalls EXCEPT !["sent"] = @ + 1]
    /\ UNCHANGED <<subscription, query, reply, windowInbox, rendered, restartCalls,
                   leaving, missed, nativeVars>>

\* app_update_retry looks at the snapshot ...
RetryJudged ==
    /\ retryCalls["sent"] > 0
    /\ retryCalls' = Moves(retryCalls, "sent",
                           IF native.kind = "failed" THEN "allowed" ELSE "refused")
    /\ UNCHANGED <<subscription, query, reply, windowInbox, rendered, disabled,
                   restartCalls, leaving, missed, nativeVars>>

\* What UserRetry makes of the state: a check begins and is shown; a download that is
\* tried again shows the failure until it begins, and a retry that comes too late
\* changes nothing.
RetryLeadsTo(kind) == kind = native.kind \/ (native.kind = "failed" /\ kind = "checking")

\* mutant of RetryDispatched: what has not changed is not published.
RetryDispatchedQuietly(kind) ==
    /\ retryCalls["allowed"] > 0
    /\ retryCalls' = Ends(retryCalls, "allowed")
    /\ RetryLeadsTo(kind)
    /\ IF kind = native.kind THEN UNCHANGED nativeVars ELSE Publish(kind)
    /\ UNCHANGED <<subscription, query, reply, windowInbox, rendered, disabled,
                   restartCalls, leaving, missed>>

\* ... and dispatches: whatever the controller does, a newer snapshot is published.
RetryDispatched(kind) ==
    /\ retryCalls["allowed"] > 0
    /\ retryCalls' = Ends(retryCalls, "allowed")
    /\ RetryLeadsTo(kind)
    /\ Publish(kind)
    /\ UNCHANGED <<subscription, query, reply, windowInbox, rendered, disabled,
                   restartCalls, leaving, missed>>

RetryRefused ==
    /\ retryCalls["refused"] > 0
    /\ retryCalls' = Ends(retryCalls, "refused")
    /\ disabled' = disabled \ {"retry"}
    /\ UNCHANGED <<subscription, query, reply, windowInbox, rendered, restartCalls,
                   leaving, missed, nativeVars>>

ClickRestart ==
    /\ Offers("restart")
    /\ "restart" \notin disabled
    /\ Pending(restartCalls) < MaxCalls
    /\ disabled' = disabled \cup {"restart"}
    /\ restartCalls' = [restartCalls EXCEPT !["sent"] = @ + 1]
    /\ UNCHANGED <<subscription, query, reply, windowInbox, rendered, retryCalls,
                   leaving, missed, nativeVars>>

\* has_staged may say no of a state that shows staged: the package may be gone.
RestartJudged ==
    /\ restartCalls["sent"] > 0
    /\ \/ /\ native.kind = "staged"
          /\ leaving' = TRUE
          /\ restartCalls' = Ends(restartCalls, "sent")
       \/ restartCalls' = Moves(restartCalls, "sent", "refused") /\ UNCHANGED leaving
    /\ UNCHANGED <<subscription, query, reply, windowInbox, rendered, disabled,
                   retryCalls, missed, nativeVars>>

RestartRefused ==
    /\ restartCalls["refused"] > 0
    /\ restartCalls' = Ends(restartCalls, "refused")
    /\ disabled' = disabled \ {"restart"}
    /\ UNCHANGED <<subscription, query, reply, windowInbox, rendered, retryCalls,
                   leaving, missed, nativeVars>>

\* later: the window is closed, and opened again from the footer or the menu.
CloseAndReopen ==
    /\ retryCalls' = NoCalls
    /\ restartCalls' = NoCalls
    /\ subscription' = "requested"
    /\ query' = "asked"
    /\ reply' = Nothing
    /\ windowInbox' = <<>>
    /\ rendered' = Nothing
    /\ disabled' = {}
    /\ missed' = FALSE
    /\ UNCHANGED <<leaving, nativeVars>>

PublishToWindow(kind) == Publish(kind) /\ UNCHANGED windowVars

WindowNext ==
    \/ \E k \in Kinds : PublishToWindow(k) \/ RetryDispatched(k)
    \/ EmitToWindow \/ SnapshotArrives
    \/ SubscriptionGranted \/ QueryAnswered \/ QueryReturns \/ QueryFails
    \/ ClickRetry \/ RetryJudged \/ RetryRefused
    \/ ClickRestart \/ RestartJudged \/ RestartRefused
    \/ CloseAndReopen

-----------------------------------------------------------------------------
WindowTypeOK ==
    /\ subscription \in {"requested", "granted"}
    /\ query \in {"asked", "answered", "done", "failed"}
    /\ reply \in Snapshots \cup {Nothing}
    /\ \A i \in 1..Len(windowInbox) : windowInbox[i] \in Snapshots
    /\ rendered \in Snapshots \cup {Nothing}
    /\ disabled \subseteq Buttons
    /\ retryCalls \in [CallStates -> 0..MaxCalls]
    /\ restartCalls \in [CallStates -> 0..MaxCalls]
    /\ leaving \in BOOLEAN
    /\ missed \in BOOLEAN

\* Nothing is on its way between the updater and the window.
WindowQuiet ==
    /\ query \in {"done", "failed"}
    /\ subscription = "granted"
    /\ windowInbox = <<>>
    /\ unsent = {}

(* The window ends with the updater's state however the answer of the query  *)
(* and the events are ordered, unless an event was emitted after the answer  *)
(* was computed and before the listener was registered, or the query failed  *)
(* (controller.ts:66-68, 133-134).                                           *)
WindowShowsLatest ==
    WindowQuiet /\ query = "done" /\ ~missed => rendered = native

(* A button does not stay disabled when its calls are answered and nothing is *)
(* on its way: a refused call gives it back, and one that was accepted, or    *)
(* came too late, is followed by a snapshot newer than the one it was clicked *)
(* in, even where the state is the same failure, or ends the application      *)
(* (controller.ts:76-78, 119-129; mod.rs:280-283, 480-485).                   *)
ButtonsComeBack ==
    /\ WindowQuiet /\ ~missed /\ Pending(retryCalls) = 0 => "retry" \notin disabled
    /\ WindowQuiet /\ Pending(restartCalls) = 0 /\ ~leaving => "restart" \notin disabled
=============================================================================
