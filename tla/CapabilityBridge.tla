---------------------------- MODULE CapabilityBridge ----------------------------
(***************************************************************************)
(* The update capability of the Host page (desktop-capabilities:           *)
(* tauri-adapter.ts) with the footer indicators that observe it            *)
(* (desktop-update-client).  Every await is a point where events,          *)
(* observers and disposals interleave with a connection under way.         *)
(***************************************************************************)
EXTENDS NativeUpdates, FiniteSets

CONSTANT Observers      \* bound: the update sources that ever observe the capability

VARIABLES
    facade,        \* the page's capability: creating, ready, rejected, unavailable
    connection,    \* the awaits of connect: idle, listening, granted, reading, answered
    activation,    \* activation: observe's connection is under way
    unlisten,      \* unlisten is set
    listeners,     \* how many native listeners are registered
    bridgeInbox,   \* emitted to a registered listener, not yet handled
    answer,        \* the answer of readSnapshot on its way
    accepted,      \* sequence and snapshot
    fresh, observing,   \* the sources that have yet to observe, and those that do
    snapshot,      \* the snapshot of every source
    abandoned      \* history: the last activation failed, or lost its listener on the way

connectionVars == <<connection, activation, unlisten, listeners, bridgeInbox, answer>>
sourceVars == <<fresh, observing, snapshot>>
bridgeVars == <<facade, connectionVars, accepted, sourceVars, abandoned>>

Connections == {"idle", "listening", "granted", "reading", "answered"}

\* normalizeNativeState: what the client is told of a native state.
Normalized(kind) == IF kind \in {"idle", "checking", "up_to_date"} THEN "none" ELSE kind
Visible == {"unavailable", "none"} \cup {Normalized(k) : k \in Kinds}

\* createUpdatePresentation: whether the footer shows an action, and of which tone.
Presentation(shown) == IF shown \in {"unavailable", "none"} THEN "hidden" ELSE shown

\* apply creates the capability first; a page outside the application has none.
BridgeInit ==
    /\ \/ facade = "creating" /\ connection = "listening"
       \/ facade = "unavailable" /\ connection = "idle"
    /\ activation = FALSE
    /\ unlisten = FALSE
    /\ listeners = 0
    /\ bridgeInbox = <<>>
    /\ answer = Nothing
    /\ accepted = Nothing
    /\ fresh = Observers
    /\ observing = {}
    /\ snapshot = [o \in Observers |-> "unavailable"]
    /\ abandoned = FALSE

-----------------------------------------------------------------------------
\* mutant of AcceptNative: the sequence is not compared.
AcceptAny(s) ==
    /\ accepted' = s
    /\ snapshot' = [o \in Observers |->
                       IF o \in observing THEN Normalized(s.kind) ELSE snapshot[o]]

\* acceptNative: strictly newer snapshots only, handed to every observer at once.
AcceptNative(s) ==
    IF s.sequence > accepted.sequence
    THEN /\ accepted' = s
         /\ snapshot' = [o \in Observers |->
                            IF o \in observing THEN Normalized(s.kind) ELSE snapshot[o]]
    ELSE UNCHANGED <<accepted, snapshot>>

\* deactivate: events that are still on their way are handled by nobody.
Deactivate ==
    /\ unlisten' = FALSE
    /\ listeners' = IF unlisten THEN listeners - 1 ELSE listeners
    /\ bridgeInbox' = IF unlisten THEN <<>> ELSE bridgeInbox

\* mutant of Settle: an activation that nobody waits for any more keeps listening.
SettleKeepsListening(success) ==
    /\ connection' = "idle"
    /\ activation' = FALSE
    /\ answer' = Nothing
    /\ IF facade = "creating" \/ ~success
       THEN Deactivate
       ELSE UNCHANGED <<unlisten, listeners, bridgeInbox>>
    /\ facade' = IF facade = "creating"
                 THEN (IF success THEN "ready" ELSE "rejected") ELSE facade

\* connect has returned or thrown: initialize and activate go on.
Settle(success) ==
    /\ connection' = "idle"
    /\ activation' = FALSE
    /\ answer' = Nothing
    /\ IF facade = "creating" \/ ~success \/ observing = {}
       THEN Deactivate
       ELSE UNCHANGED <<unlisten, listeners, bridgeInbox>>
    /\ facade' = IF facade = "creating"
                 THEN (IF success THEN "ready" ELSE "rejected") ELSE facade

\* Registered by the native side; events count from here.
ListenGranted ==
    /\ connection = "listening"
    /\ connection' = "granted"
    /\ listeners' = listeners + 1
    /\ UNCHANGED <<facade, activation, unlisten, bridgeInbox, answer, accepted,
                   sourceVars, abandoned, nativeVars>>

ListenFails ==
    /\ connection = "listening"
    /\ Settle(FALSE)
    /\ abandoned' = TRUE
    /\ UNCHANGED <<accepted, sourceVars, nativeVars>>

\* The await of listenSnapshot returns: the snapshot is read after it.
RequestSnapshot ==
    /\ connection = "granted"
    /\ connection' = "reading"
    /\ unlisten' = TRUE
    /\ UNCHANGED <<facade, activation, listeners, bridgeInbox, answer, accepted,
                   sourceVars, abandoned, nativeVars>>

AnswerRead ==
    /\ connection = "reading"
    /\ connection' = "answered"
    /\ answer' = native
    /\ UNCHANGED <<facade, activation, unlisten, listeners, bridgeInbox, accepted,
                   sourceVars, abandoned, nativeVars>>

ReadFails ==
    /\ connection = "reading"
    /\ Settle(FALSE)
    /\ abandoned' = TRUE
    /\ UNCHANGED <<accepted, sourceVars, nativeVars>>

ReadReturns ==
    /\ connection = "answered"
    /\ AcceptNative(answer)
    /\ Settle(TRUE)
    /\ abandoned' = (abandoned \/ ~unlisten)
    /\ UNCHANGED <<fresh, observing, nativeVars>>

\* The listener's callback, from the registration until it is undone.
EventArrives ==
    /\ bridgeInbox # <<>>
    /\ AcceptNative(Head(bridgeInbox))
    /\ bridgeInbox' = Tail(bridgeInbox)
    /\ UNCHANGED <<facade, connection, activation, unlisten, listeners, answer,
                   fresh, observing, abandoned, nativeVars>>

EmitToBridge ==
    /\ Emit(bridgeInbox, listeners > 0)
    /\ UNCHANGED <<facade, connection, activation, unlisten, listeners, answer,
                   accepted, sourceVars, abandoned>>

-----------------------------------------------------------------------------
\* observe starts activate up to its first await; one that is under way is joined.
Activate ==
    IF unlisten \/ activation
    THEN UNCHANGED <<connection, activation, abandoned>>
    ELSE /\ connection' = "listening"
         /\ activation' = TRUE
         /\ abandoned' = FALSE

\* applyWithCapability, once apply has been given a capability.
StartsObserving(o) ==
    /\ o \in fresh
    /\ fresh' = fresh \ {o}
    /\ observing' = observing \cup {o}

\* createUpdateSnapshotSource: the current snapshot is delivered at once.
Observe(o) ==
    /\ facade = "ready"
    /\ StartsObserving(o)
    /\ snapshot' = [snapshot EXCEPT ![o] = Normalized(accepted.kind)]
    /\ Activate
    /\ UNCHANGED <<facade, unlisten, listeners, bridgeInbox, answer, accepted, nativeVars>>

ObserveUnavailable(o) ==
    /\ facade = "unavailable"
    /\ StartsObserving(o)
    /\ snapshot' = [snapshot EXCEPT ![o] = "unavailable"]
    /\ UNCHANGED <<facade, connectionVars, accepted, abandoned, nativeVars>>

\* The source's dispose; the last one releases the native listener.
Dispose(o) ==
    /\ o \in observing
    /\ observing' = observing \ {o}
    /\ IF observing' = {}
       THEN Deactivate
       ELSE UNCHANGED <<unlisten, listeners, bridgeInbox>>
    /\ UNCHANGED <<facade, connection, activation, answer, accepted, fresh, snapshot,
                   abandoned, nativeVars>>

PublishToBridge(kind) == Publish(kind) /\ UNCHANGED bridgeVars

BridgeNext ==
    \/ \E k \in Kinds : PublishToBridge(k)
    \/ EmitToBridge \/ EventArrives
    \/ ListenGranted \/ ListenFails \/ RequestSnapshot
    \/ AnswerRead \/ ReadFails \/ ReadReturns
    \/ \E o \in Observers : Observe(o) \/ ObserveUnavailable(o) \/ Dispose(o)

-----------------------------------------------------------------------------
BridgeTypeOK ==
    /\ facade \in {"creating", "ready", "rejected", "unavailable"}
    /\ connection \in Connections
    /\ activation \in BOOLEAN
    /\ unlisten \in BOOLEAN
    /\ listeners \in 0..2
    /\ \A i \in 1..Len(bridgeInbox) : bridgeInbox[i] \in Snapshots
    /\ answer \in Snapshots \cup {Nothing}
    /\ accepted \in Snapshots \cup {Nothing}
    /\ fresh \subseteq Observers
    /\ observing \subseteq Observers \ fresh
    /\ snapshot \in [Observers -> Visible]
    /\ abandoned \in BOOLEAN

(* The native subscription follows the observers, however they come and go   *)
(* while a connection is being made: when none is, the listener registered   *)
(* is the one unlisten releases, and it is there exactly if somebody         *)
(* observes - unless the activation an observer joined failed, or had lost   *)
(* its listener to the disposal of the observers before it                   *)
(* (tauri-adapter.ts:48-56 and 71-98).                                       *)
SubscriptionFollowsObservers ==
    ~activation /\ connection = "idle" =>
        /\ listeners = (IF unlisten THEN 1 ELSE 0)
        /\ unlisten => observing # {}
        /\ observing # {} => unlisten \/ abandoned \/ facade = "unavailable"

(* Once nothing is on its way, the footer of every source that observes with *)
(* a subscription presents the state the updater is really in: no event and  *)
(* no answer between them leaves an older one (tauri-adapter.ts:39-45).      *)
IndicatorShowsLatest ==
    unlisten /\ connection = "idle" /\ bridgeInbox = <<>> /\ unsent = {} =>
        \A o \in observing :
            Presentation(snapshot[o]) = Presentation(Normalized(native.kind))
=============================================================================
