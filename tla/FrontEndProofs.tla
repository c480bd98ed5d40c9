----------------------------- MODULE FrontEndProofs -----------------------------
(***************************************************************************)
(* What the three pages show, for any kinds of snapshot, any numbers of    *)
(* changes, calls and observers: events reach them in order, each of them  *)
(* ends with the state of the native side, the native subscription follows *)
(* the observers, and the buttons come back.                               *)
(***************************************************************************)
EXTENDS FrontEnd, TLAPS

-----------------------------------------------------------------------------
(* The strengthening: the native side. *)

\* The publish gate: at most the newest snapshot has still to be emitted.
NativeInv == NativeTypeOK /\ unsent \in {{}, {native}}

\* What a page has is the newest snapshot or an older one.
Known(s) == s.sequence < native.sequence \/ s = native

Has(inbox, s) == \E i \in 1..Len(inbox) : inbox[i] = s
InboxInv(inbox) ==
    /\ inbox \in Seq(Snapshots) /\ Ascending(inbox)
    /\ \A s \in Snapshots : Has(inbox, s) => Known(s) /\ (unsent # {} => s # native)

-----------------------------------------------------------------------------
(* The strengthening: the capability bridge. *)

\* One listener at most: registered for the connection under way, or for those who
\* observe; an event is on its way to a registered listener only.
ListenerInv ==
    /\ connection \in {"listening", "granted"} => ~unlisten
    /\ listeners = (IF unlisten \/ connection = "granted" THEN 1 ELSE 0)
    /\ listeners = 0 => bridgeInbox = <<>>
    /\ connection = "answered" => answer \in Snapshots

\* Who waits for the connection, and who is left without one.
ObserverInv ==
    /\ activation <=> connection # "idle" /\ facade # "creating"
    /\ facade = "creating" => connection # "idle" /\ observing = {}
    /\ facade \in {"rejected", "unavailable"} => connection = "idle" /\ ~unlisten
    /\ facade = "rejected" => observing = {}
    /\ connection = "idle" /\ unlisten => observing # {}
    /\ connection = "idle" /\ observing # {} =>
          unlisten \/ abandoned \/ facade = "unavailable"

\* From the answer on, the newest snapshot is there, or on its way.
LatestInv ==
    /\ unlisten /\ connection \in {"idle", "answered"} =>
          \/ native \in unsent
          \/ accepted = native
          \/ Has(bridgeInbox, native)
          \/ connection = "answered" /\ answer = native
    /\ facade # "unavailable" => \A o \in observing : snapshot[o] = Normalized(accepted.kind)

BridgeInv ==
    /\ BridgeTypeOK /\ InboxInv(bridgeInbox) /\ Known(accepted) /\ Known(answer)
    /\ ListenerInv /\ ObserverInv /\ LatestInv

-----------------------------------------------------------------------------
(* The strengthening: the update window. *)

\* The newest snapshot is shown or on its way as an event.
EventDue == native \in unsent \/ Has(windowInbox, native) \/ rendered = native

\* Whom the window has its snapshots from.
RenderInv ==
    /\ windowInbox # <<>> => subscription = "granted"
    /\ query \in {"answered", "done"} => reply \in Snapshots
    /\ query \in {"asked", "failed"} => reply = Nothing
    /\ query = "done" => rendered.sequence >= reply.sequence
    /\ query \in {"answered", "done"} /\ ~missed => EventDue \/ reply = native
    /\ query \in {"asked", "failed"} /\ (windowInbox # <<>> \/ rendered # Nothing) =>
          subscription = "granted" /\ EventDue

\* A disabled button has a call, or the state that offered it is over, or the
\* application ends.
CallInv ==
    /\ Pending(retryCalls) <= MaxCalls /\ Pending(restartCalls) <= MaxCalls
    /\ "retry" \in disabled =>
          rendered.kind = "failed" /\ (Pending(retryCalls) > 0 \/ rendered # native)
    /\ "restart" \in disabled => Pending(restartCalls) > 0 \/ leaving

WindowInv ==
    /\ WindowTypeOK /\ InboxInv(windowInbox) /\ Known(rendered) /\ Known(reply)
    /\ RenderInv /\ CallInv

-----------------------------------------------------------------------------
(* The strengthening: the startup page. *)

\* Events are all there from the first one on, and the last is the state now.
LifeInv ==
    /\ startupInbox \in Seq(Lives)
    /\ startupInbox # <<>> => listening /\ startupInbox[Len(startupInbox)] = life
    /\ shownFrom = "event" => listening
    /\ EventsAreRendered
    /\ shown.order <= life.order /\ told.order <= life.order
    /\ \A i \in 1..Len(startupInbox) : startupInbox[i].order <= life.order

\* A failure that cannot be retried has a call, or is over.
RetryInv ==
    /\ Outstanding <= MaxRetries
    /\ ~retryEnabled /\ shown.state = "failed" => Outstanding > 0 \/ shown # life \/ stopping

StartupInv == StartupTypeOK /\ LifeInv /\ RetryInv

-----------------------------------------------------------------------------
(* The strengthening: the application. *)

IInv ==
    /\ page \in Pages
    /\ NativeInv /\ BridgeInv /\ WindowInv /\ StartupInv
    /\ page # "bridge" => BridgeInit
    /\ page # "window" => WindowInit

-----------------------------------------------------------------------------
(* Inboxes and the publish gate. *)

LEMMA AppendFits ==
  ASSUME NEW q \in Seq(Snapshots), Ascending(q), NEW s \in Snapshots,
         \A i \in 1..Len(q) : q[i].sequence < s.sequence
  PROVE  /\ Append(q, s) \in Seq(Snapshots) /\ Ascending(Append(q, s))
         /\ \A t : Has(Append(q, s), t) <=> Has(q, t) \/ t = s
<1>1. /\ Append(q, s) \in Seq(Snapshots) /\ Len(Append(q, s)) = Len(q) + 1 /\ Len(q) \in Nat
      /\ Append(q, s)[Len(q) + 1] = s
      /\ \A i \in 1..Len(q) : Append(q, s)[i] = q[i]
  OBVIOUS
<1>2. \A i \in 1..Len(Append(q, s)) : i \in 1..Len(q) \/ i = Len(q) + 1
  BY <1>1
<1>3. Ascending(Append(q, s))
  <2>1. ASSUME NEW i \in 1..Len(Append(q, s)), NEW j \in 1..Len(Append(q, s)), i < j
        PROVE  Append(q, s)[i].sequence < Append(q, s)[j].sequence
    <3>1. i \in 1..Len(q)
      BY <1>1, <2>1
    <3>2. CASE j \in 1..Len(q)
      BY <1>1, <2>1, <3>1, <3>2 DEF Ascending
    <3>3. CASE j = Len(q) + 1
      BY <1>1, <3>1, <3>3
    <3> QED
      BY <1>2, <3>2, <3>3
  <2> QED
    BY <2>1 DEF Ascending
<1>4. ASSUME NEW t PROVE Has(Append(q, s), t) <=> Has(q, t) \/ t = s
  <2>1. Len(q) + 1 \in 1..Len(Append(q, s)) /\ \A i \in 1..Len(q) : i \in 1..Len(Append(q, s))
    BY <1>1
  <2> QED
    BY <1>1, <1>2, <2>1 DEF Has
<1> QED
  BY <1>1, <1>3, <1>4

LEMMA TailFits ==
  ASSUME NEW q \in Seq(Snapshots), Ascending(q), q # <<>>
  PROVE  /\ Tail(q) \in Seq(Snapshots) /\ Ascending(Tail(q))
         /\ Head(q) \in Snapshots /\ Has(q, Head(q))
         /\ \A t : Has(Tail(q), t) => Has(q, t)
         /\ \A t : Has(q, t) => t = Head(q) \/ Has(Tail(q), t)
<1>1. /\ Tail(q) \in Seq(Snapshots) /\ Len(Tail(q)) = Len(q) - 1 /\ Len(q) \in Nat /\ Len(q) > 0
      /\ Head(q) = q[1] /\ Head(q) \in Snapshots
      /\ \A i \in 1..Len(Tail(q)) : Tail(q)[i] = q[i + 1]
  OBVIOUS
<1>2. Ascending(Tail(q))
  <2>1. ASSUME NEW i \in 1..Len(Tail(q)), NEW j \in 1..Len(Tail(q)), i < j
        PROVE  q[i + 1].sequence < q[j + 1].sequence
    <3>1. i + 1 \in 1..Len(q) /\ j + 1 \in 1..Len(q) /\ i + 1 < j + 1
      BY <1>1, <2>1
    <3> QED
      BY <3>1 DEF Ascending
  <2> QED
    BY <1>1, <2>1 DEF Ascending
<1>3. \A t : Has(Tail(q), t) => Has(q, t)
  <2>1. \A i \in 1..Len(Tail(q)) : i + 1 \in 1..Len(q)
    BY <1>1
  <2> QED
    BY <1>1, <2>1 DEF Has
<1>4. \A t : Has(q, t) => t = Head(q) \/ Has(Tail(q), t)
  <2>1. \A i \in 1..Len(q) : i = 1 \/ (i - 1 \in 1..Len(Tail(q)) /\ Tail(q)[i - 1] = q[i])
    BY <1>1
  <2> QED
    BY <1>1, <2>1 DEF Has
<1>5. Has(q, Head(q))
  BY <1>1 DEF Has
<1> QED
  BY <1>1, <1>2, <1>3, <1>4, <1>5

LEMMA EmptyFits == <<>> \in Seq(Snapshots) /\ Ascending(<<>>) /\ \A t : ~Has(<<>>, t)
  BY DEF Ascending, Has

\* Sequence numbers are numbers, and nothing has been shown with one yet.
LEMMA SequencesAreNumbers ==
  /\ Nothing.sequence = -1 /\ Nothing.kind = "idle" /\ Nothing \notin Snapshots
  /\ \A s \in Snapshots : s.sequence \in 0..MaxSequence /\ s.sequence \in Nat /\ s.kind \in Kinds
  BY UpdatesAssumption DEF Nothing, Snapshot, Snapshots

LEMMA PublishMoves ==
  ASSUME NativeInv, NEW kind \in Kinds, Publish(kind)
  PROVE  /\ NativeInv' /\ unsent = {} /\ unsent' = {native'} /\ native'.kind = kind
         /\ native' \in Snapshots
         /\ \A s \in Snapshots \cup {Nothing} :
               Known(s) => s.sequence < native'.sequence /\ s # native'
<1>1. native \in Snapshots /\ native.sequence \in Nat /\ MaxSequence \in Nat
  BY SequencesAreNumbers, UpdatesAssumption DEF NativeInv, NativeTypeOK
<1>2. /\ native' = [sequence |-> native.sequence + 1, kind |-> kind]
      /\ unsent = {} /\ unsent' = {native'} /\ native.sequence < MaxSequence
  BY DEF Publish, Snapshot
<1>3. native'.sequence = native.sequence + 1 /\ native'.kind = kind /\ native' \in Snapshots
  BY <1>1, <1>2 DEF Snapshots
<1>4. \A s \in Snapshots \cup {Nothing} : Known(s) => s.sequence < native'.sequence /\ s # native'
  <2>1. \A s \in Snapshots \cup {Nothing} : s.sequence \in Int
    BY SequencesAreNumbers
  <2>2. ASSUME NEW s \in Snapshots \cup {Nothing}, Known(s)
        PROVE  s.sequence <= native.sequence
    BY <1>1, <2>1, <2>2 DEF Known
  <2> QED
    BY <1>1, <1>3, <2>1, <2>2
<1> QED
  BY <1>2, <1>3, <1>4 DEF NativeInv, NativeTypeOK

\* What an inbox holds is older than what is published now, and fits in front of it.
LEMMA InboxAfterPublish ==
  ASSUME NativeInv, NEW kind \in Kinds, Publish(kind), NEW q, InboxInv(q)
  PROVE  /\ q \in Seq(Snapshots) /\ Ascending(q)
         /\ \A s \in Snapshots : Has(q, s) => s.sequence < native'.sequence /\ s # native'
  BY PublishMoves DEF InboxInv

LEMMA EmittedFits ==
  ASSUME NativeInv, native \in unsent, NEW q, InboxInv(q)
  PROVE  /\ Append(q, native) \in Seq(Snapshots) /\ Ascending(Append(q, native))
         /\ \A t : Has(Append(q, native), t) <=> Has(q, t) \/ t = native
<1>1. native \in Snapshots /\ q \in Seq(Snapshots)
  BY DEF NativeInv, NativeTypeOK, InboxInv
<1>2. \A i \in 1..Len(q) : q[i] \in Snapshots /\ Has(q, q[i])
  BY <1>1 DEF Has
<1>3. \A i \in 1..Len(q) : q[i].sequence < native.sequence
  BY <1>2 DEF InboxInv, Known
<1> QED
  BY <1>1, <1>3, AppendFits DEF InboxInv

-----------------------------------------------------------------------------
(* The capability bridge. *)

\* acceptNative never goes back, and hands what it takes to every observer.
LEMMA AcceptKeeps ==
  ASSUME NativeInv, BridgeTypeOK, Known(accepted), NEW s \in Snapshots, Known(s), AcceptNative(s)
  PROVE  /\ accepted' \in {accepted, s} /\ snapshot' \in [Observers -> Visible]
         /\ s = native \/ accepted = native => accepted' = native
         /\ (\A o \in observing : snapshot[o] = Normalized(accepted.kind))
               => \A o \in observing : snapshot'[o] = Normalized(accepted'.kind)
<1>1. /\ s.sequence \in Int /\ accepted.sequence \in Int /\ native.sequence \in Int
      /\ Normalized(s.kind) \in Visible
  BY SequencesAreNumbers DEF BridgeTypeOK, NativeInv, NativeTypeOK, Visible
<1>2. CASE s.sequence > accepted.sequence
  <2>1. /\ accepted' = s
        /\ snapshot' = [o \in Observers |->
                           IF o \in observing THEN Normalized(s.kind) ELSE snapshot[o]]
    BY <1>2 DEF AcceptNative
  <2>2. accepted # native
    BY <1>1, <1>2 DEF Known
  <2>3. observing \subseteq Observers /\ snapshot \in [Observers -> Visible]
    BY DEF BridgeTypeOK
  <2> QED
    BY <1>1, <2>1, <2>2, <2>3
<1>3. CASE ~(s.sequence > accepted.sequence)
  <2>1. accepted' = accepted /\ snapshot' = snapshot
    BY <1>3 DEF AcceptNative
  <2>2. s = native => accepted = native
    BY <1>1, <1>3 DEF Known
  <2> QED
    BY <2>1, <2>2 DEF BridgeTypeOK
<1> QED
  BY <1>2, <1>3

\* The steps of a connection under way, and those that end one.
ConnectStep == ListenGranted \/ RequestSnapshot \/ AnswerRead
SettleStep == ListenFails \/ ReadFails \/ ReadReturns
SourceStep == \E o \in Observers : Observe(o) \/ ObserveUnavailable(o) \/ Dispose(o)
PublishStep == \E k \in Kinds : PublishToBridge(k)

LEMMA BridgeNextIs ==
  ASSUME BridgeNext
  PROVE  PublishStep \/ EmitToBridge \/ EventArrives \/ ConnectStep \/ SettleStep \/ SourceStep
  BY DEF BridgeNext, PublishStep, ConnectStep, SettleStep, SourceStep

LEMMA NativeKept ==
  ASSUME NativeInv, BridgeNext
  PROVE  NativeInv' /\ (PublishStep \/ EmitToBridge \/ UNCHANGED nativeVars)
<1>1. CASE PublishStep
  BY <1>1, PublishMoves DEF PublishStep, PublishToBridge
<1>2. CASE EmitToBridge
  BY <1>2 DEF EmitToBridge, Emit, NativeInv, NativeTypeOK
<1>3. CASE EventArrives \/ ConnectStep \/ SettleStep \/ SourceStep
  <2>1. UNCHANGED nativeVars
    BY <1>3 DEF EventArrives, ConnectStep, SettleStep, SourceStep, ListenGranted, RequestSnapshot,
       AnswerRead, ListenFails, ReadFails, ReadReturns, Observe, ObserveUnavailable, Dispose
  <2> QED
    BY <2>1 DEF nativeVars, NativeInv, NativeTypeOK
<1> QED
  BY <1>1, <1>2, <1>3, BridgeNextIs

\* An emission takes the newest snapshot from the gate to a registered listener.
LEMMA EmitToBridgeIs ==
  ASSUME NativeInv, BridgeInv, EmitToBridge
  PROVE  /\ native \in unsent /\ unsent' = {} /\ native' = native
         /\ bridgeInbox' = (IF listeners > 0 THEN Append(bridgeInbox, native) ELSE bridgeInbox)
         /\ UNCHANGED <<facade, connection, activation, unlisten, listeners, answer,
                        accepted, fresh, observing, snapshot, abandoned>>
  BY DEF EmitToBridge, Emit, NativeInv, sourceVars

LEMMA BridgeInboxKept ==
  ASSUME NativeInv, BridgeInv, BridgeNext
  PROVE  InboxInv(bridgeInbox)'
<1>1. /\ bridgeInbox \in Seq(Snapshots) /\ Ascending(bridgeInbox) /\ InboxInv(bridgeInbox)
      /\ \A s \in Snapshots : Has(bridgeInbox, s) => Known(s) /\ (unsent # {} => s # native)
  BY DEF BridgeInv, InboxInv
<1>2. CASE PublishStep
  <2> PICK k \in Kinds : Publish(k) /\ bridgeInbox' = bridgeInbox
    BY <1>2 DEF PublishStep, PublishToBridge, bridgeVars, connectionVars
  <2> QED
    BY <1>1, InboxAfterPublish DEF InboxInv, Known
<1>3. CASE EmitToBridge
  <2>1. CASE bridgeInbox' = bridgeInbox
    BY <1>1, <1>3, <2>1, EmitToBridgeIs DEF InboxInv, Known
  <2>2. CASE bridgeInbox' = Append(bridgeInbox, native)
    BY <1>1, <1>3, <2>2, EmitToBridgeIs, EmittedFits DEF InboxInv, Known
  <2> QED
    BY <1>3, <2>1, <2>2, EmitToBridgeIs
<1>4. CASE UNCHANGED nativeVars /\ bridgeInbox' \in {bridgeInbox, <<>>}
  BY <1>1, <1>4, EmptyFits DEF InboxInv, Known, nativeVars
<1>5. CASE EventArrives
  BY <1>1, <1>5, TailFits DEF EventArrives, InboxInv, Known, nativeVars
<1>6. CASE ConnectStep \/ SettleStep \/ SourceStep
  BY <1>4, <1>6 DEF ConnectStep, SettleStep, SourceStep, ListenGranted, RequestSnapshot,
     AnswerRead, ListenFails, ReadFails, ReadReturns, Observe, ObserveUnavailable, Dispose,
     Settle, Deactivate, connectionVars
<1> QED
  BY <1>2, <1>3, <1>5, <1>6, BridgeNextIs

LEMMA AnswersKept ==
  ASSUME NativeInv, BridgeInv, BridgeNext
  PROVE  /\ Known(accepted)' /\ Known(answer)'
         /\ accepted' \in Snapshots \cup {Nothing} /\ answer' \in Snapshots \cup {Nothing}
         /\ snapshot' \in [Observers -> Visible]
<1>1. /\ BridgeTypeOK /\ Known(accepted) /\ Known(answer) /\ native \in Snapshots
      /\ accepted \in Snapshots \cup {Nothing} /\ answer \in Snapshots \cup {Nothing}
      /\ snapshot \in [Observers -> Visible] /\ Nothing.sequence < native.sequence
  BY SequencesAreNumbers DEF BridgeInv, BridgeTypeOK, NativeInv, NativeTypeOK
<1>2. CASE PublishStep
  <2> PICK k \in Kinds : Publish(k) /\ UNCHANGED <<accepted, answer, snapshot>>
    BY <1>2 DEF PublishStep, PublishToBridge, bridgeVars, connectionVars, sourceVars
  <2> QED
    BY <1>1, PublishMoves DEF Known
<1>3. CASE EmitToBridge
  BY <1>1, <1>3, EmitToBridgeIs DEF Known
<1>4. CASE EventArrives
  <2>1. Head(bridgeInbox) \in Snapshots /\ Known(Head(bridgeInbox))
    BY <1>4, TailFits DEF EventArrives, BridgeInv, InboxInv
  <2> QED
    BY <1>1, <1>4, <2>1, AcceptKeeps DEF EventArrives, Known, nativeVars
<1>5. CASE ConnectStep
  BY <1>1, <1>5 DEF ConnectStep, ListenGranted, RequestSnapshot, AnswerRead, Known, nativeVars,
     sourceVars
<1>6. CASE SettleStep
  <2>1. answer' = Nothing /\ UNCHANGED nativeVars
    BY <1>6 DEF SettleStep, ListenFails, ReadFails, ReadReturns, Settle
  <2>2. CASE UNCHANGED <<accepted, snapshot>>
    BY <1>1, <2>1, <2>2 DEF Known, nativeVars
  <2>3. CASE ReadReturns
    BY <1>1, <2>1, <2>3, AcceptKeeps DEF ReadReturns, BridgeInv, ListenerInv, Known, nativeVars
  <2> QED
    BY <1>6, <2>2, <2>3 DEF SettleStep, ListenFails, ReadFails, sourceVars
<1>7. CASE SourceStep
  <2>1. UNCHANGED <<accepted, answer, native>>
    BY <1>7 DEF SourceStep, Observe, ObserveUnavailable, Dispose, nativeVars, connectionVars
  <2>2. Normalized(accepted.kind) \in Visible /\ "unavailable" \in Visible
    BY <1>1, SequencesAreNumbers DEF Visible, Normalized
  <2>3. snapshot' \in [Observers -> Visible]
    BY <1>1, <1>7, <2>2 DEF SourceStep, Observe, ObserveUnavailable, Dispose
  <2> QED
    BY <1>1, <2>1, <2>3 DEF Known
<1> QED
  BY <1>2, <1>3, <1>4, <1>5, <1>6, <1>7, BridgeNextIs

LEMMA ListenerKept ==
  ASSUME NativeInv, BridgeInv, BridgeNext
  PROVE  ListenerInv'
<1>1. /\ ListenerInv /\ ObserverInv /\ native \in Snapshots /\ unlisten \in BOOLEAN
      /\ bridgeInbox = <<>> \/ listeners = 1
  BY DEF BridgeInv, NativeInv, NativeTypeOK, ListenerInv, BridgeTypeOK
<1>2. CASE UNCHANGED <<connection, unlisten, listeners, answer>> /\ (listeners = 0 => bridgeInbox' = <<>>)
  BY <1>1, <1>2 DEF ListenerInv
<1>3. CASE PublishStep
  BY <1>1, <1>2, <1>3 DEF PublishStep, PublishToBridge, bridgeVars, connectionVars
<1>4. CASE EmitToBridge \/ EventArrives
  BY <1>1, <1>2, <1>4, EmitToBridgeIs DEF EventArrives
<1>5. CASE ConnectStep
  BY <1>1, <1>5 DEF ConnectStep, ListenGranted, RequestSnapshot, AnswerRead, ListenerInv
<1>6. CASE SettleStep
  <2>1. /\ connection' = "idle" /\ connection # "granted"
        /\ Deactivate \/ UNCHANGED <<unlisten, listeners, bridgeInbox>>
    BY <1>6 DEF SettleStep, ListenFails, ReadFails, ReadReturns, Settle
  <2> QED
    BY <1>1, <2>1 DEF ListenerInv, Deactivate
<1>7. CASE SourceStep
  <2>1. CASE \E o \in Observers : Observe(o) \/ ObserveUnavailable(o)
    <3>1. UNCHANGED <<unlisten, listeners, bridgeInbox, answer>>
      BY <2>1 DEF Observe, ObserveUnavailable, connectionVars
    <3>2. connection' = connection \/ (connection' = "listening" /\ connection = "idle" /\ ~unlisten)
      BY <1>1, <2>1 DEF Observe, ObserveUnavailable, Activate, connectionVars, ObserverInv
    <3> QED
      BY <1>1, <3>1, <3>2 DEF ListenerInv
  <2>2. CASE \E o \in Observers : Dispose(o)
    <3>1. UNCHANGED <<connection, answer>>
      BY <2>2 DEF Dispose
    <3>2. Deactivate \/ UNCHANGED <<unlisten, listeners, bridgeInbox>>
      BY <2>2 DEF Dispose
    <3> QED
      BY <1>1, <3>1, <3>2 DEF ListenerInv, Deactivate
  <2> QED
    BY <1>7, <2>1, <2>2 DEF SourceStep
<1> QED
  BY <1>3, <1>4, <1>5, <1>6, <1>7, BridgeNextIs

LEMMA ObserverKept ==
  ASSUME NativeInv, BridgeInv, BridgeNext
  PROVE  ObserverInv'
<1>1. ListenerInv /\ ObserverInv /\ BridgeTypeOK
  BY DEF BridgeInv
<1>2. CASE UNCHANGED <<facade, connection, activation, unlisten, observing, abandoned>>
  BY <1>1, <1>2 DEF ObserverInv
<1>3. CASE PublishStep \/ EmitToBridge \/ EventArrives
  BY <1>2, <1>3 DEF PublishStep, PublishToBridge, bridgeVars, connectionVars, sourceVars,
     EmitToBridge, EventArrives
<1>4. CASE ConnectStep
  <2>1. connection # "idle" /\ connection' # "idle"
    BY <1>4 DEF ConnectStep, ListenGranted, RequestSnapshot, AnswerRead
  <2>2. UNCHANGED <<facade, activation, observing, abandoned>>
    BY <1>4 DEF ConnectStep, ListenGranted, RequestSnapshot, AnswerRead, sourceVars
  <2> QED
    BY <1>1, <2>1, <2>2 DEF ObserverInv
<1>5. CASE SettleStep
  <2>1. /\ connection # "idle" /\ connection' = "idle" /\ activation' = FALSE
        /\ observing' = observing
    BY <1>5 DEF SettleStep, ListenFails, ReadFails, ReadReturns, Settle, sourceVars
  <2>2. PICK success \in BOOLEAN :
           Settle(success) /\ abandoned' = (abandoned \/ ~success \/ ~unlisten)
    BY <1>1, <1>5 DEF SettleStep, ListenFails, ReadFails, ReadReturns, BridgeTypeOK
  <2>3. CASE facade = "creating"
    BY <1>1, <2>1, <2>2, <2>3 DEF Settle, Deactivate, ObserverInv
  <2>4. CASE facade = "ready"
    BY <1>1, <2>1, <2>2, <2>4 DEF Settle, Deactivate, ObserverInv
  <2> QED
    BY <1>1, <2>1, <2>3, <2>4 DEF ObserverInv, BridgeTypeOK
<1>6. CASE SourceStep
  <2>1. ASSUME NEW o \in Observers, Observe(o) PROVE ObserverInv'
    <3>1. /\ facade = "ready" /\ facade' = "ready" /\ o \in observing' /\ unlisten' = unlisten
          /\ Activate
      BY <2>1 DEF Observe, StartsObserving
    <3> QED
      BY <1>1, <3>1 DEF Activate, ObserverInv
  <2>2. ASSUME NEW o \in Observers, ObserveUnavailable(o) PROVE ObserverInv'
    <3>1. /\ facade = "unavailable" /\ UNCHANGED <<facade, connection, activation, unlisten>>
          /\ o \in observing'
      BY <2>2 DEF ObserveUnavailable, StartsObserving, connectionVars
    <3> QED
      BY <1>1, <3>1 DEF ObserverInv
  <2>3. ASSUME NEW o \in Observers, Dispose(o) PROVE ObserverInv'
    <3>1. /\ UNCHANGED <<facade, connection, activation, abandoned>> /\ o \in observing
          /\ observing' \subseteq observing
          /\ IF observing' = {} THEN unlisten' = FALSE ELSE unlisten' = unlisten
      BY <2>3 DEF Dispose, Deactivate
    <3> QED
      BY <1>1, <3>1 DEF ObserverInv
  <2> QED
    BY <1>6, <2>1, <2>2, <2>3 DEF SourceStep
<1> QED
  BY <1>3, <1>4, <1>5, <1>6, BridgeNextIs

LEMMA LatestKept ==
  ASSUME NativeInv, BridgeInv, BridgeNext
  PROVE  LatestInv'
<1>1. /\ BridgeTypeOK /\ ListenerInv /\ ObserverInv /\ LatestInv /\ Known(accepted)
      /\ native \in Snapshots
  BY DEF BridgeInv, NativeInv, NativeTypeOK
<1>2. CASE PublishStep
  <2>1. native' \in unsent' /\ UNCHANGED <<unlisten, connection, facade, observing, snapshot, accepted>>
    BY <1>2, PublishMoves DEF PublishStep, PublishToBridge, bridgeVars, connectionVars, sourceVars
  <2> QED
    BY <1>1, <2>1 DEF LatestInv
<1>3. CASE EmitToBridge
  <2>1. UNCHANGED <<unlisten, connection, facade, observing, snapshot, accepted, answer, native>>
    BY <1>3, EmitToBridgeIs
  <2>2. unlisten => bridgeInbox' = Append(bridgeInbox, native)
    BY <1>1, <1>3, EmitToBridgeIs DEF ListenerInv
  <2>3. Has(Append(bridgeInbox, native), native)
    BY <1>3, EmitToBridgeIs, EmittedFits DEF BridgeInv
  <2> QED
    BY <1>1, <2>1, <2>2, <2>3 DEF LatestInv
<1>4. CASE EventArrives
  <2>1. /\ UNCHANGED <<unlisten, connection, facade, observing, answer, native, unsent>>
        /\ bridgeInbox' = Tail(bridgeInbox) /\ AcceptNative(Head(bridgeInbox))
    BY <1>4 DEF EventArrives, nativeVars
  <2>2. /\ Head(bridgeInbox) \in Snapshots /\ Known(Head(bridgeInbox))
        /\ Has(bridgeInbox, native) => native = Head(bridgeInbox) \/ Has(bridgeInbox', native)
    BY <1>4, <2>1, TailFits DEF EventArrives, BridgeInv, InboxInv
  <2>3. native = Head(bridgeInbox) \/ accepted = native => accepted' = native
    BY <1>1, <2>1, <2>2, AcceptKeeps
  <2>4. (\A o \in observing : snapshot[o] = Normalized(accepted.kind))
           => \A o \in observing : snapshot'[o] = Normalized(accepted'.kind)
    BY <1>1, <2>1, <2>2, AcceptKeeps
  <2> QED
    BY <1>1, <2>1, <2>2, <2>3, <2>4 DEF LatestInv
<1>5. CASE ConnectStep
  <2>1. UNCHANGED <<facade, observing, snapshot, accepted, native, unsent, bridgeInbox>>
    BY <1>5 DEF ConnectStep, ListenGranted, RequestSnapshot, AnswerRead, sourceVars, nativeVars
  <2>2. connection' \in {"idle", "answered"} => connection' = "answered" /\ answer' = native
    BY <1>5 DEF ConnectStep, ListenGranted, RequestSnapshot, AnswerRead
  <2> QED
    BY <1>1, <2>1, <2>2 DEF LatestInv
<1>6. CASE ListenFails \/ ReadFails
  <2>1. /\ UNCHANGED <<observing, snapshot, accepted, native, unsent>> /\ unlisten' = FALSE
        /\ facade' \in {facade, "rejected"} /\ connection # "idle"
    BY <1>6 DEF ListenFails, ReadFails, Settle, Deactivate, sourceVars, nativeVars
  <2> QED
    BY <1>1, <2>1 DEF LatestInv, ObserverInv
<1>7. CASE ReadReturns
  <2>1. /\ UNCHANGED <<observing, native, unsent>> /\ connection = "answered"
        /\ AcceptNative(answer) /\ facade # "unavailable"
        /\ unlisten' => unlisten /\ bridgeInbox' = bridgeInbox
    BY <1>1, <1>7 DEF ReadReturns, Settle, Deactivate, nativeVars, ObserverInv
  <2>2. answer \in Snapshots /\ Known(answer)
    BY <1>1, <2>1 DEF ListenerInv, BridgeInv
  <2>3. answer = native \/ accepted = native => accepted' = native
    BY <1>1, <2>1, <2>2, AcceptKeeps
  <2>4. (\A o \in observing : snapshot[o] = Normalized(accepted.kind))
           => \A o \in observing : snapshot'[o] = Normalized(accepted'.kind)
    BY <1>1, <2>1, <2>2, AcceptKeeps
  <2> QED
    BY <1>1, <2>1, <2>3, <2>4 DEF LatestInv
<1>8. CASE SourceStep
  <2>1. UNCHANGED <<facade, accepted, answer, native, unsent>>
    BY <1>8 DEF SourceStep, Observe, ObserveUnavailable, Dispose, nativeVars, connectionVars
  <2>2. unlisten' /\ connection' \in {"idle", "answered"}
           => UNCHANGED <<unlisten, connection, bridgeInbox>>
    BY <1>1, <1>8 DEF SourceStep, Observe, ObserveUnavailable, Dispose, Deactivate, Activate,
       connectionVars, BridgeTypeOK
  <2>3. ASSUME facade # "unavailable", NEW q \in observing'
        PROVE  snapshot'[q] = Normalized(accepted.kind)
    <3>1. CASE \E o \in Observers : Observe(o)
      <4> PICK o \in Observers : /\ observing' = observing \cup {o}
                                 /\ snapshot' = [snapshot EXCEPT ![o] = Normalized(accepted.kind)]
        BY <3>1 DEF Observe, StartsObserving
      <4> QED
        BY <1>1, <2>3 DEF LatestInv, BridgeTypeOK
    <3>2. CASE \E o \in Observers : Dispose(o)
      BY <1>1, <2>3, <3>2 DEF Dispose, LatestInv
    <3> QED
      BY <1>8, <2>3, <3>1, <3>2 DEF SourceStep, ObserveUnavailable
  <2> QED
    BY <1>1, <2>1, <2>2, <2>3 DEF LatestInv
<1> QED
  BY <1>2, <1>3, <1>4, <1>5, <1>6, <1>7, <1>8, BridgeNextIs DEF SettleStep

LEMMA BridgeKept ==
  ASSUME NativeInv, BridgeInv, BridgeNext
  PROVE  BridgeInv'
<1>1. BridgeTypeOK /\ ListenerInv /\ ListenerInv'
  BY ListenerKept DEF BridgeInv
<1>2. /\ facade' \in {"creating", "ready", "rejected", "unavailable"}
      /\ connection' \in Connections /\ activation' \in BOOLEAN /\ unlisten' \in BOOLEAN
      /\ abandoned' \in BOOLEAN
  <2>1. CASE PublishStep \/ EmitToBridge \/ EventArrives
    BY <1>1, <2>1 DEF BridgeTypeOK, PublishStep, PublishToBridge, bridgeVars, connectionVars,
       EmitToBridge, EventArrives
  <2>2. CASE ConnectStep \/ SettleStep
    BY <1>1, <2>2 DEF BridgeTypeOK, ConnectStep, SettleStep, ListenGranted, RequestSnapshot,
       AnswerRead, ListenFails, ReadFails, ReadReturns, Settle, Deactivate, Connections
  <2>3. CASE SourceStep
    BY <1>1, <2>3 DEF BridgeTypeOK, SourceStep, Observe, ObserveUnavailable, Dispose, Activate,
       Deactivate, Connections, connectionVars
  <2> QED
    BY <2>1, <2>2, <2>3, BridgeNextIs
<1>3. fresh' \subseteq Observers /\ observing' \subseteq Observers \ fresh'
  <2>1. CASE SourceStep
    BY <1>1, <2>1 DEF BridgeTypeOK, SourceStep, Observe, ObserveUnavailable, Dispose, StartsObserving
  <2>2. CASE UNCHANGED <<fresh, observing>>
    BY <1>1, <2>2 DEF BridgeTypeOK
  <2> QED
    BY <2>1, <2>2, BridgeNextIs DEF PublishStep, PublishToBridge, bridgeVars, sourceVars,
       EmitToBridge, EventArrives, ConnectStep, SettleStep, ListenGranted, RequestSnapshot,
       AnswerRead, ListenFails, ReadFails, ReadReturns
<1>4. listeners' \in 0..2
  BY <1>1 DEF ListenerInv
<1>5. \A i \in 1..Len(bridgeInbox') : bridgeInbox'[i] \in Snapshots
  BY BridgeInboxKept DEF InboxInv
<1>6. BridgeTypeOK'
  BY <1>2, <1>3, <1>4, <1>5, AnswersKept DEF BridgeTypeOK
<1> QED
  BY <1>1, <1>6, BridgeInboxKept, AnswersKept, ObserverKept, LatestKept DEF BridgeInv

\* A page that is not followed is as it begins, whatever the native side publishes.
LEMMA BridgeBegins ==
  ASSUME NativeInv, BridgeInit
  PROVE  BridgeInv
<1>1. Known(Nothing) /\ Nothing \in Snapshots \cup {Nothing} /\ "unavailable" \in Visible
  BY SequencesAreNumbers DEF Known, NativeInv, NativeTypeOK, Visible
<1>2. InboxInv(bridgeInbox)
  BY EmptyFits DEF BridgeInit, InboxInv
<1>3. BridgeTypeOK
  <2>1. snapshot \in [Observers -> Visible] /\ listeners \in 0..2
    BY <1>1 DEF BridgeInit
  <2>2. \A i \in 1..Len(bridgeInbox) : bridgeInbox[i] \in Snapshots
    BY DEF BridgeInit
  <2>3. fresh \subseteq Observers /\ observing \subseteq Observers \ fresh
    BY DEF BridgeInit
  <2> QED
    BY <1>1, <2>1, <2>2, <2>3 DEF BridgeInit, BridgeTypeOK, Connections
<1>4. ListenerInv /\ ObserverInv /\ LatestInv
  BY DEF BridgeInit, ListenerInv, ObserverInv, LatestInv
<1> QED
  BY <1>1, <1>2, <1>3, <1>4 DEF BridgeInv, BridgeInit

-----------------------------------------------------------------------------
(* The update window. *)

WindowPublishStep == \E k \in Kinds : PublishToWindow(k)
DispatchStep == \E k \in Kinds : RetryDispatched(k)
QueryStep == SubscriptionGranted \/ QueryAnswered \/ QueryReturns \/ QueryFails
ButtonStep ==
    \/ ClickRetry \/ RetryJudged \/ RetryRefused
    \/ ClickRestart \/ RestartJudged \/ RestartRefused

LEMMA WindowNextIs ==
  ASSUME WindowNext
  PROVE  \/ WindowPublishStep \/ DispatchStep \/ EmitToWindow \/ SnapshotArrives
         \/ QueryStep \/ ButtonStep \/ CloseAndReopen
  BY DEF WindowNext, WindowPublishStep, DispatchStep, QueryStep, ButtonStep

\* What the native side does, told apart by whether it publishes.
LEMMA WindowNative ==
  ASSUME NativeInv, WindowNext
  PROVE  /\ NativeInv'
         /\ \/ EmitToWindow
            \/ UNCHANGED nativeVars
            \/ /\ \E k \in Kinds : Publish(k)
               /\ UNCHANGED <<subscription, query, reply, windowInbox, rendered, missed>>
<1>1. CASE WindowPublishStep \/ DispatchStep
  <2>1. \/ UNCHANGED nativeVars
        \/ /\ \E k \in Kinds : Publish(k)
           /\ UNCHANGED <<subscription, query, reply, windowInbox, rendered, missed>>
    BY <1>1 DEF WindowPublishStep, DispatchStep, PublishToWindow, RetryDispatched, windowVars
  <2>2. CASE UNCHANGED nativeVars
    BY <2>2 DEF nativeVars, NativeInv, NativeTypeOK
  <2> QED
    BY <2>1, <2>2, PublishMoves
<1>2. CASE EmitToWindow
  BY <1>2 DEF EmitToWindow, Emit, NativeInv, NativeTypeOK
<1>3. CASE SnapshotArrives \/ QueryStep \/ ButtonStep \/ CloseAndReopen
  <2>1. UNCHANGED nativeVars
    BY <1>3 DEF SnapshotArrives, QueryStep, ButtonStep, CloseAndReopen, SubscriptionGranted,
       QueryAnswered, QueryReturns, QueryFails, ClickRetry, RetryJudged, RetryRefused,
       ClickRestart, RestartJudged, RestartRefused
  <2> QED
    BY <2>1 DEF nativeVars, NativeInv, NativeTypeOK
<1> QED
  BY <1>1, <1>2, <1>3, WindowNextIs

LEMMA EmitToWindowIs ==
  ASSUME NativeInv, EmitToWindow
  PROVE  /\ native \in unsent /\ unsent' = {} /\ native' = native
         /\ windowInbox' = (IF subscription = "granted" THEN Append(windowInbox, native)
                            ELSE windowInbox)
         /\ missed' = (missed \/ (/\ subscription = "requested" /\ query # "asked"
                                  /\ native.sequence > reply.sequence))
         /\ UNCHANGED <<subscription, query, reply, rendered, disabled, retryCalls,
                        restartCalls, leaving>>
<1>1. native \in unsent /\ unsent = {native}
  BY DEF EmitToWindow, Emit, NativeInv
<1> QED
  BY <1>1 DEF EmitToWindow, Emit

LEMMA RenderKeeps ==
  ASSUME NativeInv, WindowTypeOK, Known(rendered), NEW s \in Snapshots, Known(s), Render(s)
  PROVE  /\ rendered' \in {rendered, s} /\ rendered' # Nothing
         /\ s = native \/ rendered = native => rendered' = native
         /\ rendered'.sequence >= s.sequence /\ rendered'.sequence >= rendered.sequence
         /\ disabled' = {} \/ UNCHANGED <<rendered, disabled>>
<1>1. /\ s.sequence \in Nat /\ rendered.sequence \in Int /\ native.sequence \in Int
      /\ s # Nothing /\ Nothing.sequence = -1
  BY SequencesAreNumbers DEF WindowTypeOK, NativeInv, NativeTypeOK
<1>2. CASE s.sequence > rendered.sequence
  BY <1>1, <1>2 DEF Render, Known
<1>3. CASE ~(s.sequence > rendered.sequence)
  BY <1>1, <1>3 DEF Render, Known
<1> QED
  BY <1>2, <1>3

LEMMA WindowInboxKept ==
  ASSUME NativeInv, WindowInv, WindowNext
  PROVE  InboxInv(windowInbox)'
<1>1. /\ windowInbox \in Seq(Snapshots) /\ Ascending(windowInbox) /\ InboxInv(windowInbox)
      /\ \A s \in Snapshots : Has(windowInbox, s) => Known(s) /\ (unsent # {} => s # native)
  BY DEF WindowInv, InboxInv
<1>2. CASE (\E k \in Kinds : Publish(k)) /\ windowInbox' = windowInbox
  <2> PICK k \in Kinds : Publish(k)
    BY <1>2
  <2> QED
    BY <1>1, <1>2, InboxAfterPublish DEF InboxInv, Known
<1>3. CASE EmitToWindow
  <2>1. CASE windowInbox' = windowInbox
    BY <1>1, <1>3, <2>1, EmitToWindowIs DEF InboxInv, Known
  <2>2. CASE windowInbox' = Append(windowInbox, native)
    BY <1>1, <1>3, <2>2, EmitToWindowIs, EmittedFits DEF InboxInv, Known
  <2> QED
    BY <1>3, <2>1, <2>2, EmitToWindowIs
<1>4. CASE UNCHANGED nativeVars /\ windowInbox' \in {windowInbox, <<>>}
  BY <1>1, <1>4, EmptyFits DEF InboxInv, Known, nativeVars
<1>5. CASE SnapshotArrives
  BY <1>1, <1>5, TailFits DEF SnapshotArrives, InboxInv, Known, nativeVars
<1>6. CASE UNCHANGED nativeVars /\ ~SnapshotArrives
  <2>1. windowInbox' \in {windowInbox, <<>>}
    BY <1>6, WindowNextIs DEF WindowPublishStep, DispatchStep, PublishToWindow, RetryDispatched,
       windowVars, QueryStep, ButtonStep, CloseAndReopen, SubscriptionGranted, QueryAnswered,
       QueryReturns, QueryFails, ClickRetry, RetryJudged, RetryRefused, ClickRestart,
       RestartJudged, RestartRefused, EmitToWindow, Emit, nativeVars
  <2> QED
    BY <1>4, <1>6, <2>1
<1> QED
  BY <1>2, <1>3, <1>5, <1>6, WindowNative

\* Calls are sent, move on and end one at a time.
LEMMA CallSent ==
  ASSUME NEW calls \in [CallStates -> 0..MaxCalls], Pending(calls) < MaxCalls,
         NEW next, next = [calls EXCEPT !["sent"] = @ + 1]
  PROVE  /\ next \in [CallStates -> 0..MaxCalls]
         /\ Pending(next) <= MaxCalls /\ Pending(next) > 0
<1>1. /\ calls["sent"] \in 0..MaxCalls /\ calls["allowed"] \in 0..MaxCalls
      /\ calls["refused"] \in 0..MaxCalls /\ MaxCalls \in Nat
  BY CallsAssumption DEF CallStates
<1>2. /\ next["sent"] = calls["sent"] + 1 /\ next["allowed"] = calls["allowed"]
      /\ next["refused"] = calls["refused"]
  BY DEF CallStates
<1>3. calls["sent"] + 1 \in 0..MaxCalls
  BY <1>1 DEF Pending
<1>4. next \in [CallStates -> 0..MaxCalls]
  BY <1>1, <1>3 DEF CallStates
<1> QED
  BY <1>1, <1>2, <1>4 DEF Pending

LEMMA CallMoved ==
  ASSUME NEW calls \in [CallStates -> 0..MaxCalls], Pending(calls) <= MaxCalls,
         calls["sent"] > 0, NEW to \in {"allowed", "refused"},
         NEW next, next = Moves(calls, "sent", to)
  PROVE  next \in [CallStates -> 0..MaxCalls] /\ Pending(next) = Pending(calls)
<1>1. /\ calls["sent"] \in 0..MaxCalls /\ calls["allowed"] \in 0..MaxCalls
      /\ calls["refused"] \in 0..MaxCalls /\ MaxCalls \in Nat
  BY CallsAssumption DEF CallStates
<1>2. /\ next["sent"] = calls["sent"] - 1 /\ next[to] = calls[to] + 1
      /\ \A other \in {"allowed", "refused"} \ {to} : next[other] = calls[other]
  BY DEF CallStates, Moves
<1>3. calls["sent"] - 1 \in 0..MaxCalls /\ calls[to] + 1 \in 0..MaxCalls
  BY <1>1 DEF Pending
<1>4. next \in [CallStates -> 0..MaxCalls]
  BY <1>1, <1>3 DEF CallStates, Moves
<1> QED
  BY <1>1, <1>2, <1>4 DEF Pending

LEMMA CallEnded ==
  ASSUME NEW calls \in [CallStates -> 0..MaxCalls], Pending(calls) <= MaxCalls,
         NEW from \in CallStates, calls[from] > 0, NEW next, next = Ends(calls, from)
  PROVE  next \in [CallStates -> 0..MaxCalls] /\ Pending(next) <= MaxCalls
<1>1. /\ calls["sent"] \in 0..MaxCalls /\ calls["allowed"] \in 0..MaxCalls
      /\ calls["refused"] \in 0..MaxCalls /\ MaxCalls \in Nat /\ calls[from] \in 0..MaxCalls
  BY CallsAssumption DEF CallStates
<1>2. next[from] = calls[from] - 1 /\ \A other \in CallStates \ {from} : next[other] = calls[other]
  BY DEF Ends
<1>3. calls[from] - 1 \in 0..MaxCalls
  BY <1>1
<1>4. next \in [CallStates -> 0..MaxCalls]
  BY <1>1, <1>3 DEF Ends
<1> QED
  BY <1>1, <1>2, <1>4 DEF Pending, CallStates

LEMMA NoCallsFit == NoCalls \in [CallStates -> 0..MaxCalls] /\ Pending(NoCalls) = 0 /\ 0 <= MaxCalls
<1>1. MaxCalls \in Nat /\ 0 \in 0..MaxCalls /\ 0 <= MaxCalls
  BY CallsAssumption
<1> QED
  BY <1>1 DEF NoCalls, CallStates, Pending

\* Only a click, a call on its way, its end and a new page touch the calls.
LEMMA CallsKept ==
  ASSUME WindowInv, WindowNext
  PROVE  /\ retryCalls' \in [CallStates -> 0..MaxCalls] /\ Pending(retryCalls') <= MaxCalls
         /\ restartCalls' \in [CallStates -> 0..MaxCalls] /\ Pending(restartCalls') <= MaxCalls
<1>1. /\ retryCalls \in [CallStates -> 0..MaxCalls] /\ Pending(retryCalls) <= MaxCalls
      /\ restartCalls \in [CallStates -> 0..MaxCalls] /\ Pending(restartCalls) <= MaxCalls
  BY DEF WindowInv, WindowTypeOK, CallInv
<1>2. CASE UNCHANGED <<retryCalls, restartCalls>>
  BY <1>1, <1>2
<1>3. CASE WindowPublishStep \/ EmitToWindow \/ SnapshotArrives \/ QueryStep
  BY <1>2, <1>3 DEF WindowPublishStep, PublishToWindow, windowVars, EmitToWindow, SnapshotArrives,
     QueryStep, SubscriptionGranted, QueryAnswered, QueryReturns, QueryFails
<1>4. CASE DispatchStep \/ RetryRefused
  <2>1. PICK from \in CallStates : retryCalls[from] > 0 /\ retryCalls' = Ends(retryCalls, from)
    BY <1>4 DEF DispatchStep, RetryDispatched, RetryRefused, CallStates
  <2>2. restartCalls' = restartCalls
    BY <1>4 DEF DispatchStep, RetryDispatched, RetryRefused
  <2> QED
    BY <1>1, <2>1, <2>2, CallEnded
<1>5. CASE ClickRetry
  BY <1>1, <1>5, CallSent DEF ClickRetry
<1>6. CASE RetryJudged
  <2>1. PICK to \in {"allowed", "refused"} : retryCalls' = Moves(retryCalls, "sent", to)
    BY <1>6 DEF RetryJudged
  <2>2. retryCalls["sent"] > 0 /\ restartCalls' = restartCalls
    BY <1>6 DEF RetryJudged
  <2> QED
    BY <1>1, <2>1, <2>2, CallMoved
<1>7. CASE ClickRestart
  BY <1>1, <1>7, CallSent DEF ClickRestart
<1>8. CASE RestartJudged \/ RestartRefused
  <2>1. retryCalls' = retryCalls
    BY <1>8 DEF RestartJudged, RestartRefused
  <2>2. CASE \E from \in CallStates : restartCalls[from] > 0 /\ restartCalls' = Ends(restartCalls, from)
    BY <1>1, <2>1, <2>2, CallEnded
  <2>3. CASE restartCalls["sent"] > 0 /\ restartCalls' = Moves(restartCalls, "sent", "refused")
    BY <1>1, <2>1, <2>3, CallMoved
  <2> QED
    BY <1>8, <2>2, <2>3 DEF RestartJudged, RestartRefused, CallStates
<1>9. CASE CloseAndReopen
  BY <1>9, NoCallsFit DEF CloseAndReopen
<1> QED
  BY <1>3, <1>4, <1>5, <1>6, <1>7, <1>8, <1>9, WindowNextIs DEF ButtonStep

\* A page that renders has what it renders from the query or from an event.
LEMMA ShownKept ==
  ASSUME NativeInv, WindowInv, WindowNext
  PROVE  /\ Known(rendered)' /\ Known(reply)'
         /\ rendered' \in Snapshots \cup {Nothing} /\ reply' \in Snapshots \cup {Nothing}
<1>1. /\ WindowTypeOK /\ Known(rendered) /\ Known(reply) /\ native \in Snapshots
      /\ rendered \in Snapshots \cup {Nothing} /\ reply \in Snapshots \cup {Nothing}
      /\ Nothing.sequence < native.sequence
  BY SequencesAreNumbers DEF WindowInv, WindowTypeOK, NativeInv, NativeTypeOK
<1>2. CASE (\E k \in Kinds : Publish(k)) /\ UNCHANGED <<rendered, reply>>
  <2> PICK k \in Kinds : Publish(k)
    BY <1>2
  <2> QED
    BY <1>1, <1>2, PublishMoves DEF Known
<1>3. CASE EmitToWindow
  BY <1>1, <1>3, EmitToWindowIs DEF Known
<1>4. CASE SnapshotArrives
  <2>1. Head(windowInbox) \in Snapshots /\ Known(Head(windowInbox))
    BY <1>4, TailFits DEF SnapshotArrives, WindowInv, InboxInv
  <2>2. Render(Head(windowInbox)) /\ reply' = reply /\ native' = native
    BY <1>4 DEF SnapshotArrives, nativeVars
  <2>3. rendered' \in {rendered, Head(windowInbox)}
    BY <1>1, <2>1, <2>2, RenderKeeps
  <2> QED
    BY <1>1, <2>1, <2>2, <2>3 DEF Known
<1>5. CASE QueryReturns
  <2>1. reply \in Snapshots /\ Render(reply) /\ reply' = reply /\ native' = native
    BY <1>5 DEF QueryReturns, WindowInv, RenderInv, nativeVars
  <2>2. rendered' \in {rendered, reply}
    BY <1>1, <2>1, RenderKeeps
  <2> QED
    BY <1>1, <2>1, <2>2 DEF Known
<1>6. CASE UNCHANGED nativeVars /\ rendered' \in {rendered, Nothing} /\ reply' \in {reply, native, Nothing}
  BY <1>1, <1>6 DEF Known, nativeVars
<1>7. CASE QueryStep \/ ButtonStep \/ CloseAndReopen
  BY <1>5, <1>6, <1>7 DEF QueryStep, ButtonStep, CloseAndReopen, SubscriptionGranted,
     QueryAnswered, QueryFails, ClickRetry, RetryJudged, RetryRefused, ClickRestart,
     RestartJudged, RestartRefused
<1>8. CASE WindowPublishStep \/ DispatchStep
  BY <1>2, <1>6, <1>8 DEF WindowPublishStep, DispatchStep, PublishToWindow, RetryDispatched, windowVars
<1> QED
  BY <1>3, <1>4, <1>7, <1>8, WindowNextIs

\* The newest snapshot stays due until it is rendered.
LEMMA DueKept ==
  ASSUME NativeInv, WindowInv, WindowNext, EventDue, subscription = "granted"
  PROVE  EventDue' \/ CloseAndReopen
<1>1. WindowTypeOK /\ Known(rendered) /\ InboxInv(windowInbox) /\ native \in Snapshots
  BY DEF WindowInv, NativeInv, NativeTypeOK
<1>2. CASE \E k \in Kinds : Publish(k)
  BY <1>2, PublishMoves DEF EventDue
<1>3. CASE EmitToWindow
  <2>1. windowInbox' = Append(windowInbox, native) /\ native' = native
    BY <1>3, EmitToWindowIs
  <2>2. Has(windowInbox', native')
    BY <1>1, <1>3, <2>1, EmitToWindowIs, EmittedFits
  <2> QED
    BY <2>2 DEF EventDue
<1>4. CASE SnapshotArrives
  <2>1. /\ UNCHANGED <<native, unsent>> /\ windowInbox' = Tail(windowInbox)
        /\ Render(Head(windowInbox)) /\ windowInbox # <<>>
    BY <1>4 DEF SnapshotArrives, nativeVars
  <2>2. /\ Head(windowInbox) \in Snapshots /\ Known(Head(windowInbox))
        /\ Has(windowInbox, native) => native = Head(windowInbox) \/ Has(windowInbox', native)
    BY <1>1, <2>1, TailFits DEF InboxInv
  <2>3. native = Head(windowInbox) \/ rendered = native => rendered' = native
    BY <1>1, <2>1, <2>2, RenderKeeps
  <2> QED
    BY <2>1, <2>2, <2>3 DEF EventDue
<1>5. CASE QueryReturns
  <2>1. UNCHANGED <<native, unsent, windowInbox>> /\ Render(reply) /\ reply \in Snapshots
    BY <1>5 DEF QueryReturns, nativeVars, WindowInv, RenderInv
  <2>2. rendered = native => rendered' = native
    BY <1>1, <2>1, RenderKeeps DEF WindowInv
  <2> QED
    BY <2>1, <2>2 DEF EventDue
<1>6. CASE UNCHANGED <<native, unsent, windowInbox, rendered>>
  BY <1>6 DEF EventDue
<1>7. CASE QueryStep \/ ButtonStep
  BY <1>5, <1>6, <1>7 DEF QueryStep, ButtonStep, SubscriptionGranted, QueryAnswered, QueryFails,
     ClickRetry, RetryJudged, RetryRefused, ClickRestart, RestartJudged, RestartRefused, nativeVars
<1>8. CASE WindowPublishStep \/ DispatchStep
  BY <1>2, <1>6, <1>8 DEF WindowPublishStep, DispatchStep, PublishToWindow, RetryDispatched,
     windowVars, nativeVars
<1> QED
  BY <1>3, <1>4, <1>7, <1>8, WindowNextIs

LEMMA RenderKept ==
  ASSUME NativeInv, WindowInv, WindowNext
  PROVE  RenderInv'
<1>1. /\ WindowTypeOK /\ RenderInv /\ Known(rendered) /\ Known(reply) /\ InboxInv(windowInbox)
      /\ native \in Snapshots /\ native.sequence \in Int
      /\ reply.sequence \in Int /\ rendered.sequence \in Int
  BY SequencesAreNumbers DEF WindowInv, WindowTypeOK, NativeInv, NativeTypeOK
<1>2. CASE (\E k \in Kinds : Publish(k)) /\ UNCHANGED <<subscription, query, reply, windowInbox, rendered, missed>>
  <2>1. EventDue'
    BY <1>2, PublishMoves DEF EventDue
  <2> QED
    BY <1>1, <1>2, <2>1 DEF RenderInv
<1>3. CASE EmitToWindow
  <2>1. UNCHANGED <<subscription, query, reply, rendered, native>>
    BY <1>3, EmitToWindowIs
  <2>2. CASE subscription = "granted"
    <3>1. EventDue'
      <4>1. windowInbox' = Append(windowInbox, native) /\ Has(Append(windowInbox, native), native)
        BY <1>1, <1>3, <2>2, EmitToWindowIs, EmittedFits
      <4> QED
        BY <2>1, <4>1 DEF EventDue
    <3> QED
      BY <1>1, <2>1, <2>2, <3>1 DEF RenderInv
  <2>3. CASE subscription = "requested"
    <3>1. /\ windowInbox' = <<>> /\ windowInbox = <<>>
          /\ missed' = (missed \/ (query # "asked" /\ native.sequence > reply.sequence))
      BY <1>1, <1>3, <2>3, EmitToWindowIs DEF RenderInv
    <3>2. ~missed' /\ query \in {"answered", "done"} => reply = native
      BY <1>1, <3>1 DEF Known
    <3> QED
      BY <1>1, <2>1, <2>3, <3>1, <3>2 DEF RenderInv
  <2> QED
    BY <1>1, <2>2, <2>3 DEF WindowTypeOK
<1>4. CASE SnapshotArrives
  <2>1. /\ UNCHANGED <<subscription, query, reply, missed, native, unsent>>
        /\ windowInbox # <<>> /\ subscription = "granted" /\ Render(Head(windowInbox))
    BY <1>1, <1>4 DEF SnapshotArrives, nativeVars, RenderInv
  <2>2. Head(windowInbox) \in Snapshots /\ Known(Head(windowInbox))
    BY <1>1, <2>1, TailFits DEF InboxInv
  <2>3. rendered'.sequence >= rendered.sequence /\ rendered'.sequence \in Int
    BY <1>1, <2>1, <2>2, RenderKeeps, SequencesAreNumbers
  <2>4. EventDue => EventDue'
    BY <1>4, <2>1, DueKept DEF SnapshotArrives, CloseAndReopen
  <2> QED
    BY <1>1, <2>1, <2>3, <2>4 DEF RenderInv
<1>5. CASE SubscriptionGranted \/ QueryAnswered \/ QueryFails \/ ButtonStep
  <2>1. UNCHANGED <<windowInbox, rendered, missed, native, unsent>> /\ subscription' \in {subscription, "granted"}
    BY <1>5 DEF SubscriptionGranted, QueryAnswered, QueryFails, ButtonStep, ClickRetry, RetryJudged,
       RetryRefused, ClickRestart, RestartJudged, RestartRefused, nativeVars
  <2>2. \/ UNCHANGED <<query, reply>>
        \/ query' = "answered" /\ reply' = native
        \/ query = "asked" /\ query' = "failed" /\ reply' = reply
    BY <1>5 DEF SubscriptionGranted, QueryAnswered, QueryFails, ButtonStep, ClickRetry, RetryJudged,
       RetryRefused, ClickRestart, RestartJudged, RestartRefused
  <2>3. EventDue' = EventDue
    BY <2>1 DEF EventDue
  <2> QED
    BY <1>1, <2>1, <2>2, <2>3 DEF RenderInv
<1>6. CASE QueryReturns
  <2>1. /\ UNCHANGED <<subscription, reply, windowInbox, missed, native, unsent>>
        /\ query = "answered" /\ query' = "done" /\ Render(reply) /\ reply \in Snapshots
    BY <1>1, <1>6 DEF QueryReturns, nativeVars, RenderInv
  <2>2. rendered'.sequence >= reply.sequence /\ (reply = native \/ rendered = native => rendered' = native)
    BY <1>1, <2>1, RenderKeeps
  <2> QED
    BY <1>1, <2>1, <2>2 DEF RenderInv, EventDue
<1>7. CASE CloseAndReopen
  BY <1>7 DEF CloseAndReopen, RenderInv
<1>8. CASE WindowPublishStep \/ DispatchStep
  BY <1>2, <1>8 DEF WindowPublishStep, DispatchStep, PublishToWindow, RetryDispatched, windowVars
<1> QED
  BY <1>3, <1>4, <1>5, <1>6, <1>7, <1>8, WindowNextIs DEF QueryStep

\* The Retry button waits for a call or for the end of the failure, the Restart
\* button for a call or for the end of the application.
LEMMA ButtonsKept ==
  ASSUME NativeInv, WindowInv, WindowNext
  PROVE  CallInv' /\ disabled' \subseteq Buttons
<1>1. /\ WindowTypeOK /\ CallInv /\ Known(rendered) /\ native \in Snapshots
      /\ rendered \in Snapshots \cup {Nothing} /\ disabled \subseteq Buttons
      /\ Pending(retryCalls) <= MaxCalls /\ Pending(restartCalls) <= MaxCalls
      /\ retryCalls \in [CallStates -> 0..MaxCalls] /\ restartCalls \in [CallStates -> 0..MaxCalls]
  BY DEF WindowInv, WindowTypeOK, NativeInv, NativeTypeOK, CallInv
<1>2. Pending(retryCalls') <= MaxCalls /\ Pending(restartCalls') <= MaxCalls
  BY CallsKept
<1>3. CASE disabled' = {}
  BY <1>2, <1>3 DEF CallInv
<1>4. CASE UNCHANGED <<disabled, rendered, retryCalls, restartCalls, leaving, native>>
  BY <1>1, <1>4 DEF CallInv
<1>5. CASE WindowPublishStep
  <2>1. PICK k \in Kinds : Publish(k) /\ UNCHANGED <<disabled, rendered, retryCalls, restartCalls, leaving>>
    BY <1>5 DEF WindowPublishStep, PublishToWindow, windowVars
  <2>2. rendered' # native'
    BY <1>1, <2>1, PublishMoves
  <2> QED
    BY <1>1, <2>1, <2>2 DEF CallInv
<1>6. CASE DispatchStep
  <2>1. UNCHANGED <<disabled, rendered, restartCalls, leaving>>
    BY <1>6 DEF DispatchStep, RetryDispatched
  <2>2. \E k \in Kinds : Publish(k)
    BY <1>6 DEF DispatchStep, RetryDispatched
  <2>3. "retry" \in disabled => rendered' # native'
    BY <1>1, <2>1, <2>2, PublishMoves DEF CallInv
  <2> QED
    BY <1>1, <1>2, <2>1, <2>3 DEF CallInv
<1>7. CASE SnapshotArrives \/ QueryReturns
  <2>1. disabled' = {} \/ UNCHANGED <<disabled, rendered>>
    BY <1>7 DEF SnapshotArrives, QueryReturns, Render
  <2>2. UNCHANGED <<retryCalls, restartCalls, leaving, native>>
    BY <1>7 DEF SnapshotArrives, QueryReturns, nativeVars
  <2> QED
    BY <1>3, <1>4, <2>1, <2>2
<1>8. CASE EmitToWindow \/ SubscriptionGranted \/ QueryAnswered \/ QueryFails
  BY <1>4, <1>8 DEF EmitToWindow, Emit, SubscriptionGranted, QueryAnswered, QueryFails, nativeVars
<1>9. CASE ClickRetry
  <2>1. /\ rendered.kind = "failed" /\ UNCHANGED <<rendered, restartCalls, leaving, native>>
        /\ disabled' = disabled \cup {"retry"}
    BY <1>9 DEF ClickRetry, Offers, nativeVars
  <2>2. Pending(retryCalls') > 0
    BY <1>1, <1>9, CallSent DEF ClickRetry
  <2> QED
    BY <1>1, <1>2, <2>1, <2>2 DEF CallInv, Buttons
<1>10. CASE RetryJudged
  <2>1. UNCHANGED <<disabled, rendered, restartCalls, leaving, native>> /\ retryCalls["sent"] > 0
    BY <1>10 DEF RetryJudged, nativeVars
  <2>2. PICK to \in {"allowed", "refused"} : retryCalls' = Moves(retryCalls, "sent", to)
    BY <1>10 DEF RetryJudged
  <2>3. Pending(retryCalls') = Pending(retryCalls)
    BY <1>1, <2>1, <2>2, CallMoved
  <2> QED
    BY <1>1, <2>1, <2>3 DEF CallInv
<1>11. CASE RetryRefused
  <2>1. disabled' = disabled \ {"retry"} /\ UNCHANGED <<rendered, restartCalls, leaving, native>>
    BY <1>11 DEF RetryRefused, nativeVars
  <2> QED
    BY <1>1, <1>2, <2>1 DEF CallInv
<1>12. CASE ClickRestart
  <2>1. disabled' = disabled \cup {"restart"} /\ UNCHANGED <<rendered, retryCalls, leaving, native>>
    BY <1>12 DEF ClickRestart, nativeVars
  <2>2. Pending(restartCalls') > 0
    BY <1>1, <1>12, CallSent DEF ClickRestart
  <2> QED
    BY <1>1, <1>2, <2>1, <2>2 DEF CallInv, Buttons
<1>13. CASE RestartJudged
  <2>1. UNCHANGED <<disabled, rendered, retryCalls, native>> /\ restartCalls["sent"] > 0
    BY <1>13 DEF RestartJudged, nativeVars
  <2>2. CASE leaving'
    BY <1>1, <1>2, <2>1, <2>2 DEF CallInv
  <2>3. CASE restartCalls' = Moves(restartCalls, "sent", "refused") /\ leaving' = leaving
    <3>1. Pending(restartCalls') = Pending(restartCalls)
      BY <1>1, <2>1, <2>3, CallMoved
    <3> QED
      BY <1>1, <2>1, <2>3, <3>1 DEF CallInv
  <2> QED
    BY <1>13, <2>2, <2>3 DEF RestartJudged
<1>14. CASE RestartRefused
  <2>1. disabled' = disabled \ {"restart"} /\ UNCHANGED <<rendered, retryCalls, leaving, native>>
    BY <1>14 DEF RestartRefused, nativeVars
  <2> QED
    BY <1>1, <1>2, <2>1 DEF CallInv
<1>15. CASE CloseAndReopen
  BY <1>3, <1>15 DEF CloseAndReopen
<1> QED
  BY <1>5, <1>6, <1>7, <1>8, <1>9, <1>10, <1>11, <1>12, <1>13, <1>14, <1>15, WindowNextIs
     DEF QueryStep, ButtonStep

LEMMA WindowKept ==
  ASSUME NativeInv, WindowInv, WindowNext
  PROVE  WindowInv'
<1>1. WindowTypeOK
  BY DEF WindowInv
<1>2. /\ subscription' \in {"requested", "granted"} /\ leaving' \in BOOLEAN /\ missed' \in BOOLEAN
      /\ query' \in {"asked", "answered", "done", "failed"}
  <2>1. CASE WindowPublishStep \/ DispatchStep \/ EmitToWindow \/ SnapshotArrives \/ CloseAndReopen
    BY <1>1, <2>1, EmitToWindowIs DEF WindowTypeOK, WindowPublishStep, DispatchStep, PublishToWindow,
       RetryDispatched, windowVars, SnapshotArrives, CloseAndReopen
  <2>2. CASE QueryStep \/ ButtonStep
    BY <1>1, <2>2 DEF WindowTypeOK, QueryStep, ButtonStep, SubscriptionGranted, QueryAnswered,
       QueryReturns, QueryFails, ClickRetry, RetryJudged, RetryRefused, ClickRestart, RestartJudged,
       RestartRefused
  <2> QED
    BY <2>1, <2>2, WindowNextIs
<1>3. \A i \in 1..Len(windowInbox') : windowInbox'[i] \in Snapshots
  BY WindowInboxKept DEF InboxInv
<1>4. WindowTypeOK'
  BY <1>2, <1>3, ShownKept, CallsKept, ButtonsKept DEF WindowTypeOK
<1> QED
  BY <1>4, WindowInboxKept, ShownKept, RenderKept, ButtonsKept DEF WindowInv

LEMMA WindowBegins ==
  ASSUME NativeInv, WindowInit
  PROVE  WindowInv
<1>1. Known(Nothing) /\ Nothing \in Snapshots \cup {Nothing}
  BY SequencesAreNumbers DEF Known, NativeInv, NativeTypeOK
<1>2. InboxInv(windowInbox)
  BY EmptyFits DEF WindowInit, InboxInv
<1>3. WindowTypeOK
  <2>1. retryCalls \in [CallStates -> 0..MaxCalls] /\ restartCalls \in [CallStates -> 0..MaxCalls]
    BY NoCallsFit DEF WindowInit
  <2>2. \A i \in 1..Len(windowInbox) : windowInbox[i] \in Snapshots
    BY DEF WindowInit
  <2>3. reply \in Snapshots \cup {Nothing} /\ rendered \in Snapshots \cup {Nothing}
    BY <1>1 DEF WindowInit
  <2> QED
    BY <2>1, <2>2, <2>3 DEF WindowInit, WindowTypeOK
<1>4. RenderInv /\ CallInv
  BY NoCallsFit DEF WindowInit, RenderInv, CallInv
<1> QED
  BY <1>1, <1>2, <1>3, <1>4 DEF WindowInv, WindowInit

-----------------------------------------------------------------------------
(* The startup page. *)

LEMMA LivesAre ==
  /\ MaxRetries = 2 /\ MaxChanges \in Nat
  /\ \A s \in Lives : s.order \in Int /\ s.order <= MaxChanges /\ s.state \in LifeStates
  /\ PageLoaded.told \in Lives /\ PageLoaded.shown \in Lives
  /\ PageLoaded.told.order = -1 /\ PageLoaded.shown.order = -1
<1>1. MaxChanges \in Nat /\ -1 \in -1..MaxChanges /\ "starting" \in LifeStates
  BY ChangesAssumption DEF LifeStates
<1>2. \A s \in Lives : s.order \in -1..MaxChanges /\ s.state \in LifeStates
  BY DEF Lives
<1>3. PageLoaded.told = [order |-> -1, state |-> "starting"] /\ PageLoaded.shown = PageLoaded.told
  BY DEF PageLoaded, Life
<1>4. PageLoaded.told \in Lives /\ PageLoaded.told.order = -1
  BY <1>1, <1>3 DEF Lives
<1> QED
  BY <1>1, <1>2, <1>3, <1>4 DEF MaxRetries

LEMMA AppendLife ==
  ASSUME NEW q \in Seq(Lives), NEW s \in Lives
  PROVE  /\ Append(q, s) \in Seq(Lives) /\ Append(q, s) # <<>>
         /\ Append(q, s)[Len(Append(q, s))] = s
         /\ \A i \in 1..Len(Append(q, s)) :
               Append(q, s)[i] = s \/ \E j \in 1..Len(q) : Append(q, s)[i] = q[j]
<1>1. /\ Append(q, s) \in Seq(Lives) /\ Len(Append(q, s)) = Len(q) + 1 /\ Len(q) \in Nat
      /\ Append(q, s)[Len(q) + 1] = s
      /\ \A i \in 1..Len(q) : Append(q, s)[i] = q[i]
  OBVIOUS
<1>2. \A i \in 1..Len(Append(q, s)) : i \in 1..Len(q) \/ i = Len(q) + 1
  BY <1>1
<1>3. Append(q, s) # <<>>
  BY <1>1
<1> QED
  BY <1>1, <1>2, <1>3

LEMMA TailLife ==
  ASSUME NEW q \in Seq(Lives), q # <<>>
  PROVE  /\ Tail(q) \in Seq(Lives) /\ Head(q) \in Lives /\ \E j \in 1..Len(q) : Head(q) = q[j]
         /\ Tail(q) = <<>> => Head(q) = q[Len(q)]
         /\ Tail(q) # <<>> => Tail(q)[Len(Tail(q))] = q[Len(q)]
         /\ \A i \in 1..Len(Tail(q)) : \E j \in 1..Len(q) : Tail(q)[i] = q[j]
<1>1. /\ Tail(q) \in Seq(Lives) /\ Len(Tail(q)) = Len(q) - 1 /\ Len(q) \in Nat /\ Len(q) > 0
      /\ Head(q) = q[1] /\ Head(q) \in Lives
      /\ \A i \in 1..Len(Tail(q)) : Tail(q)[i] = q[i + 1]
  OBVIOUS
<1>2. \A i \in 1..Len(Tail(q)) : i + 1 \in 1..Len(q)
  BY <1>1
<1>3. Tail(q) = <<>> => Len(q) = 1
  <2>1. Len(<<>>) = 0
    OBVIOUS
  <2>2. Tail(q) = <<>> => Len(Tail(q)) = Len(<<>>)
    BY Zenon
  <2> QED
    BY <1>1, <2>1, <2>2
<1>4. Tail(q) # <<>> => Len(Tail(q)) \in 1..Len(Tail(q)) /\ Len(Tail(q)) + 1 = Len(q)
  BY <1>1
<1> QED
  BY <1>1, <1>2, <1>3, <1>4

\* A change of the lifecycle is newer than everything the page has, and reaches a
\* listener as the last event.
LEMMA ShowsMoves ==
  ASSUME StartupInv, NEW state \in LifeStates, Shows(state)
  PROVE  /\ life' \in Lives /\ life'.state = state /\ life.order < life'.order
         /\ startupInbox' \in Seq(Lives)
         /\ listening => startupInbox' # <<>> /\ startupInbox'[Len(startupInbox')] = life'
         /\ ~listening => startupInbox' = <<>>
         /\ \A i \in 1..Len(startupInbox') : startupInbox'[i].order <= life'.order
<1>1. /\ life \in Lives /\ life.order \in -1..MaxChanges /\ MaxChanges \in Nat
      /\ startupInbox \in Seq(Lives) /\ (startupInbox # <<>> => listening)
      /\ \A i \in 1..Len(startupInbox) : startupInbox[i].order <= life.order /\ startupInbox[i] \in Lives
  BY LivesAre DEF StartupInv, StartupTypeOK, LifeInv, Lives
<1>2. life.order < MaxChanges /\ life' = [order |-> life.order + 1, state |-> state]
  BY DEF Shows, Life
<1>3. life' \in Lives /\ life'.state = state /\ life'.order = life.order + 1
  BY <1>1, <1>2 DEF Lives
<1>4. startupInbox' = IF listening THEN Append(startupInbox, life') ELSE startupInbox
  BY DEF Shows
<1>5. \A s \in Lives : s.order \in Int
  BY LivesAre
<1>6. CASE listening
  <2>1. \A i \in 1..Len(startupInbox') :
           startupInbox'[i] = life' \/ \E j \in 1..Len(startupInbox) : startupInbox'[i] = startupInbox[j]
    BY <1>1, <1>3, <1>4, <1>6, AppendLife
  <2>2. ASSUME NEW i \in 1..Len(startupInbox') PROVE startupInbox'[i].order <= life'.order
    <3>1. CASE startupInbox'[i] = life'
      BY <1>1, <1>3, <3>1
    <3>2. ASSUME NEW j \in 1..Len(startupInbox), startupInbox'[i] = startupInbox[j]
          PROVE  startupInbox'[i].order <= life'.order
      <4>1. startupInbox[j].order \in Int /\ startupInbox[j].order <= life.order
        BY <1>1, <1>5
      <4> QED
        BY <1>1, <1>3, <3>2, <4>1
    <3> QED
      BY <2>1, <3>1, <3>2
  <2> QED
    BY <1>1, <1>3, <1>4, <1>6, <2>2, AppendLife
<1>7. CASE ~listening
  BY <1>1, <1>3, <1>4, <1>7
<1> QED
  BY <1>6, <1>7

\* What may follow a state is a state.
LEMMA FollowsStates ==
  ASSUME NEW from PROVE Follows(from) \subseteq LifeStates
  BY DEF Follows, LifeStates

\* The steps in which the lifecycle publishes, and those in which the page renders.
ChangeStep ==
    /\ \E state \in LifeStates : Shows(state)
    /\ UNCHANGED <<stopping, listening, asked, told, shown, shownFrom, retryEnabled>>
RenderStep == LifeArrives \/ AnswerArrives
PageStep ==
    \/ ShutdownBegins \/ ListenerRegistered \/ StartupSnapshot \/ StartupSnapshotFails
    \/ ClickStartupRetry \/ StartupRetry \/ RetryRejected
    \/ RequestRetry /\ UNCHANGED <<life, startupInbox>>

LEMMA StartupNextIs ==
  ASSUME StartupNext
  PROVE  ChangeStep \/ RenderStep \/ PageStep \/ StartupReloads
<1>1. ASSUME LifecycleMoves PROVE ChangeStep
  BY <1>1, FollowsStates DEF LifecycleMoves, ChangeStep
<1>2. ASSUME ShutdownShows PROVE ChangeStep
  BY <1>2 DEF ShutdownShows, ChangeStep, LifeStates
<1>3. ASSUME RequestRetry PROVE ChangeStep \/ PageStep
  BY <1>3 DEF RequestRetry, ChangeStep, PageStep, LifeStates
<1> QED
  BY <1>1, <1>2, <1>3 DEF StartupNext, RenderStep, PageStep

LEMMA OutstandingIs ==
  ASSUME StartupTypeOK
  PROVE  /\ startupCalls["sent"] \in 0..MaxRetries /\ startupCalls["allowed"] \in 0..MaxRetries
         /\ startupCalls["refused"] \in 0..MaxRetries /\ MaxRetries = 2
         /\ Outstanding \in Nat
  BY DEF StartupTypeOK, Retries, MaxRetries, Outstanding

\* Calls of Retry are counted like those of the update window.
LEMMA RetryClicked ==
  ASSUME StartupInv, ClickStartupRetry
  PROVE  startupCalls' \in [Retries -> 0..MaxRetries] /\ Outstanding' <= MaxRetries /\ Outstanding' > 0
<1>1. /\ startupCalls["sent"] \in 0..2 /\ startupCalls["allowed"] \in 0..2
      /\ startupCalls["refused"] \in 0..2 /\ startupCalls \in [Retries -> 0..2]
  BY DEF StartupInv, StartupTypeOK, Retries, MaxRetries
<1>2. startupCalls' = [startupCalls EXCEPT !["sent"] = @ + 1] /\ Outstanding < 2
  BY DEF ClickStartupRetry, MaxRetries
<1>3. /\ startupCalls'["sent"] = startupCalls["sent"] + 1
      /\ startupCalls'["allowed"] = startupCalls["allowed"]
      /\ startupCalls'["refused"] = startupCalls["refused"]
  BY <1>1, <1>2 DEF Retries
<1>4. startupCalls["sent"] + 1 \in 0..2
  BY <1>1, <1>2 DEF Outstanding
<1>5. startupCalls' \in [Retries -> 0..2]
  BY <1>1, <1>2, <1>4 DEF Retries
<1> QED
  BY <1>1, <1>2, <1>3, <1>5 DEF Outstanding, MaxRetries

LEMMA RetryMoved ==
  ASSUME StartupInv, StartupRetry
  PROVE  startupCalls' \in [Retries -> 0..MaxRetries] /\ Outstanding' = Outstanding
<1>1. /\ startupCalls["sent"] \in 0..2 /\ startupCalls["allowed"] \in 0..2
      /\ startupCalls["refused"] \in 0..2 /\ startupCalls \in [Retries -> 0..2]
      /\ Outstanding <= 2 /\ startupCalls["sent"] > 0
  BY DEF StartupInv, StartupTypeOK, Retries, MaxRetries, RetryInv, StartupRetry
<1>2. PICK to \in {"allowed", "refused"} :
         startupCalls' = [startupCalls EXCEPT !["sent"] = @ - 1, ![to] = @ + 1]
  BY DEF StartupRetry
<1>3. /\ startupCalls'["sent"] = startupCalls["sent"] - 1
      /\ startupCalls'[to] = startupCalls[to] + 1
      /\ \A other \in {"allowed", "refused"} \ {to} : startupCalls'[other] = startupCalls[other]
  BY <1>1, <1>2 DEF Retries
<1>4. startupCalls["sent"] - 1 \in 0..2 /\ startupCalls[to] + 1 \in 0..2
  BY <1>1 DEF Outstanding
<1>5. startupCalls' \in [Retries -> 0..2]
  BY <1>1, <1>2, <1>4 DEF Retries
<1> QED
  BY <1>1, <1>3, <1>5 DEF Outstanding, MaxRetries

LEMMA RetryEnded ==
  ASSUME StartupInv, RequestRetry \/ RetryRejected
  PROVE  startupCalls' \in [Retries -> 0..MaxRetries] /\ Outstanding' <= MaxRetries
<1>1. /\ startupCalls["sent"] \in 0..2 /\ startupCalls["allowed"] \in 0..2
      /\ startupCalls["refused"] \in 0..2 /\ startupCalls \in [Retries -> 0..2]
      /\ Outstanding <= 2
  BY DEF StartupInv, StartupTypeOK, Retries, MaxRetries, RetryInv
<1>2. PICK from \in {"allowed", "refused"} :
         startupCalls[from] > 0 /\ startupCalls' = [startupCalls EXCEPT ![from] = @ - 1]
  BY DEF RequestRetry, RetryRejected
<1>3. /\ startupCalls'[from] = startupCalls[from] - 1
      /\ \A other \in Retries \ {from} : startupCalls'[other] = startupCalls[other]
  BY <1>1, <1>2 DEF Retries
<1>4. startupCalls[from] - 1 \in 0..2
  BY <1>1, <1>2
<1>5. startupCalls' \in [Retries -> 0..2]
  BY <1>1, <1>2, <1>4 DEF Retries
<1> QED
  BY <1>1, <1>3, <1>5 DEF Outstanding, Retries, MaxRetries

LEMMA StartupCallsKept ==
  ASSUME StartupInv, StartupNext
  PROVE  startupCalls' \in [Retries -> 0..MaxRetries] /\ Outstanding' <= MaxRetries
<1>1. startupCalls \in [Retries -> 0..MaxRetries] /\ Outstanding <= MaxRetries
  BY DEF StartupInv, StartupTypeOK, RetryInv
<1>2. CASE UNCHANGED startupCalls
  BY <1>1, <1>2 DEF Outstanding
<1>3. CASE StartupReloads
  BY <1>3 DEF StartupReloads, Outstanding, Retries, MaxRetries
<1> QED
  BY <1>1, <1>2, <1>3, RetryClicked, RetryMoved, RetryEnded DEF StartupNext, LifecycleMoves,
     ShutdownBegins, ShutdownShows, ListenerRegistered, LifeArrives, StartupSnapshot,
     StartupSnapshotFails, AnswerArrives

\* RenderLife leaves a failure with its buttons.
LEMMA RenderLifeIs ==
  ASSUME NEW s, RenderLife(s)
  PROVE  /\ shown' = s
         /\ s.state = "failed" => retryEnabled' = TRUE
  BY DEF RenderLife, Recovery

LEMMA LifeKept ==
  ASSUME StartupInv, StartupNext
  PROVE  LifeInv' /\ life' \in Lives /\ told' \in Lives /\ shown' \in Lives
<1>1. /\ life \in Lives /\ told \in Lives /\ shown \in Lives /\ startupInbox \in Seq(Lives)
      /\ LifeInv /\ life.order \in Int /\ told.order \in Int /\ shown.order \in Int
  BY LivesAre DEF StartupInv, StartupTypeOK, LifeInv
<1>2. CASE ChangeStep
  <2>1. PICK state \in LifeStates : Shows(state)
    BY <1>2 DEF ChangeStep
  <2>2. UNCHANGED <<listening, told, shown, shownFrom>>
    BY <1>2 DEF ChangeStep
  <2>3. /\ life' \in Lives /\ life.order < life'.order /\ startupInbox' \in Seq(Lives)
        /\ listening => startupInbox' # <<>> /\ startupInbox'[Len(startupInbox')] = life'
        /\ ~listening => startupInbox' = <<>>
        /\ \A i \in 1..Len(startupInbox') : startupInbox'[i].order <= life'.order
    BY <2>1, ShowsMoves
  <2>4. life'.order \in Int /\ shown.order <= life'.order /\ told.order <= life'.order
    BY <1>1, <2>3, LivesAre DEF LifeInv
  <2>5. EventsAreRendered'
    BY <1>1, <2>2, <2>3 DEF LifeInv, EventsAreRendered
  <2> QED
    BY <1>1, <2>2, <2>3, <2>4, <2>5 DEF LifeInv
<1>3. CASE LifeArrives
  <2>1. /\ UNCHANGED <<life, listening, told>> /\ startupInbox # <<>> /\ listening
        /\ startupInbox' = Tail(startupInbox) /\ shown' = Head(startupInbox) /\ shownFrom' = "event"
    BY <1>1, <1>3, RenderLifeIs DEF LifeArrives, LifeInv
  <2>2. /\ startupInbox' \in Seq(Lives) /\ shown' \in Lives
        /\ \E j \in 1..Len(startupInbox) : shown' = startupInbox[j]
        /\ startupInbox' = <<>> => shown' = startupInbox[Len(startupInbox)]
        /\ startupInbox' # <<>> => startupInbox'[Len(startupInbox')] = startupInbox[Len(startupInbox)]
        /\ \A i \in 1..Len(startupInbox') : \E j \in 1..Len(startupInbox) : startupInbox'[i] = startupInbox[j]
    BY <1>1, <2>1, TailLife
  <2>3. /\ startupInbox[Len(startupInbox)] = life
        /\ \A i \in 1..Len(startupInbox) : startupInbox[i].order <= life.order
    BY <1>1, <2>1 DEF LifeInv
  <2>4. EventsAreRendered'
    BY <2>1, <2>2, <2>3 DEF EventsAreRendered
  <2>5. \A i \in 1..Len(startupInbox') : startupInbox'[i].order <= life'.order
    BY <2>1, <2>2, <2>3
  <2>6. shown'.order <= life'.order /\ told'.order <= life'.order
    BY <1>1, <2>1, <2>2, <2>3 DEF LifeInv
  <2> QED
    BY <1>1, <2>1, <2>2, <2>3, <2>4, <2>5, <2>6 DEF LifeInv
<1>4. CASE AnswerArrives
  <2>1. UNCHANGED <<life, listening, told, startupInbox>> /\ shown' = told /\ shownFrom' = "answer"
    BY <1>4, RenderLifeIs DEF AnswerArrives
  <2> QED
    BY <1>1, <2>1 DEF LifeInv, EventsAreRendered
<1>5. CASE PageStep
  <2>1. /\ UNCHANGED <<life, startupInbox, shown, shownFrom>>
        /\ (listening => listening') /\ told' \in {told, life}
    BY <1>5 DEF PageStep, ShutdownBegins, ListenerRegistered, StartupSnapshot, StartupSnapshotFails,
       ClickStartupRetry, StartupRetry, RequestRetry, RetryRejected
  <2>2. EventsAreRendered' /\ told'.order <= life'.order
    BY <1>1, <2>1 DEF LifeInv, EventsAreRendered
  <2>3. /\ startupInbox' # <<>> => listening' /\ startupInbox'[Len(startupInbox')] = life'
        /\ \A i \in 1..Len(startupInbox') : startupInbox'[i].order <= life'.order
        /\ shown'.order <= life'.order
        /\ shownFrom' = "event" => listening'
    BY <1>1, <2>1 DEF LifeInv
  <2> QED
    BY <1>1, <2>1, <2>2, <2>3 DEF LifeInv
<1>6. CASE StartupReloads
  <2>1. /\ life' = life /\ listening' = FALSE /\ told' = PageLoaded.told /\ startupInbox' = <<>>
        /\ shown' = PageLoaded.shown /\ shownFrom' = "nothing"
    BY <1>6 DEF StartupReloads
  <2>2. life.order >= -1
    BY <1>1 DEF Lives
  <2>3. EventsAreRendered' /\ shown'.order <= life'.order /\ told'.order <= life'.order
    BY <1>1, <2>1, <2>2, LivesAre DEF EventsAreRendered
  <2>4. <<>> \in Seq(Lives) /\ \A i \in 1..Len(<<>>) : FALSE
    OBVIOUS
  <2> QED
    BY <1>1, <2>1, <2>3, <2>4, LivesAre DEF LifeInv
<1> QED
  BY <1>2, <1>3, <1>4, <1>5, <1>6, StartupNextIs DEF RenderStep

\* A failure whose button is disabled has a call, is over, or the application ends.
LEMMA RetryKept ==
  ASSUME StartupInv, StartupNext
  PROVE  RetryInv'
<1>1. /\ RetryInv /\ shown.order <= life.order /\ life.order \in Int /\ shown.order \in Int
      /\ Outstanding \in Nat
  BY LivesAre, OutstandingIs DEF StartupInv, StartupTypeOK, LifeInv
<1>2. Outstanding' <= MaxRetries
  BY StartupCallsKept
<1>3. CASE ChangeStep
  <2>1. PICK state \in LifeStates : Shows(state)
    BY <1>3 DEF ChangeStep
  <2>2. life' \in Lives /\ life.order < life'.order /\ shown' = shown
    BY <1>3, <2>1, ShowsMoves DEF ChangeStep
  <2>3. life'.order \in Int
    BY <2>2, LivesAre
  <2>4. shown' # life'
    BY <1>1, <2>2, <2>3
  <2> QED
    BY <1>2, <2>4 DEF RetryInv
<1>4. CASE RenderStep
  <2>1. shown'.state = "failed" => retryEnabled' = TRUE
    BY <1>4, RenderLifeIs DEF RenderStep, LifeArrives, AnswerArrives
  <2> QED
    BY <1>2, <2>1 DEF RetryInv
<1>5. CASE ShutdownBegins \/ StartupReloads \/ RetryRejected
  <2>1. stopping' = TRUE \/ retryEnabled' = TRUE
    BY <1>5 DEF ShutdownBegins, StartupReloads, RetryRejected
  <2> QED
    BY <1>2, <2>1 DEF RetryInv
<1>6. CASE ListenerRegistered \/ StartupSnapshot \/ StartupSnapshotFails
  <2>1. UNCHANGED <<startupCalls, life, stopping, shown, retryEnabled>>
    BY <1>6 DEF ListenerRegistered, StartupSnapshot, StartupSnapshotFails
  <2>2. Outstanding' = Outstanding
    BY <2>1 DEF Outstanding
  <2> QED
    BY <1>1, <2>1, <2>2 DEF RetryInv
<1>7. CASE ClickStartupRetry
  BY <1>2, <1>7, RetryClicked DEF RetryInv
<1>8. CASE StartupRetry
  <2>1. UNCHANGED <<life, stopping, shown, retryEnabled>>
    BY <1>8 DEF StartupRetry
  <2> QED
    BY <1>1, <1>8, <2>1, RetryMoved DEF RetryInv
<1>9. CASE RequestRetry /\ UNCHANGED <<life, startupInbox>>
  <2>1. UNCHANGED <<life, stopping, shown, retryEnabled>>
    BY <1>9 DEF RequestRetry
  <2>2. life.state # "failed" \/ stopping
    <3>1. SUFFICES ASSUME life.state = "failed", ~stopping PROVE FALSE
      OBVIOUS
    <3>2. Shows("stopping")
      BY <1>9, <3>1 DEF RequestRetry, Recovery
    <3>3. life.order < life'.order
      BY <3>2, ShowsMoves DEF LifeStates
    <3> QED
      BY <1>1, <1>9, <3>3
  <2>3. shown.state = "failed" => shown # life \/ stopping
    BY <2>2
  <2> QED
    BY <1>2, <2>1, <2>3 DEF RetryInv
<1> QED
  BY <1>3, <1>4, <1>5, <1>6, <1>7, <1>8, <1>9, StartupNextIs DEF PageStep

LEMMA StartupKept ==
  ASSUME StartupInv, StartupNext
  PROVE  StartupInv'
<1>1. StartupTypeOK
  BY DEF StartupInv
<1>2. asked' \in {"asked", "answered", "done", "failed"} /\ shownFrom' \in {"nothing", "answer", "event"}
  BY <1>1 DEF StartupTypeOK, StartupNext, LifecycleMoves, ShutdownBegins, ShutdownShows,
     ListenerRegistered, LifeArrives, StartupSnapshot, StartupSnapshotFails, AnswerArrives,
     ClickStartupRetry, StartupRetry, RequestRetry, RetryRejected, StartupReloads
<1>3. {stopping, listening, retryInFlight, retryEnabled}' \subseteq BOOLEAN
  <2>1. stopping \in BOOLEAN /\ listening \in BOOLEAN /\ retryInFlight \in BOOLEAN /\ retryEnabled \in BOOLEAN
    BY <1>1 DEF StartupTypeOK
  <2>2. stopping' \in BOOLEAN /\ listening' \in BOOLEAN
    BY <2>1 DEF StartupNext, LifecycleMoves, ShutdownBegins, ShutdownShows,
       ListenerRegistered, LifeArrives, StartupSnapshot, StartupSnapshotFails, AnswerArrives,
       ClickStartupRetry, StartupRetry, RequestRetry, RetryRejected, StartupReloads
  <2>3. retryInFlight' \in BOOLEAN /\ retryEnabled' \in BOOLEAN
    BY <2>1 DEF StartupNext, LifecycleMoves, ShutdownBegins, ShutdownShows, RenderLife,
       ListenerRegistered, LifeArrives, StartupSnapshot, StartupSnapshotFails, AnswerArrives,
       ClickStartupRetry, StartupRetry, RequestRetry, RetryRejected, StartupReloads
  <2> QED
    BY <2>2, <2>3
<1>4. \A i \in 1..Len(startupInbox') : startupInbox'[i] \in Lives
  BY LifeKept DEF LifeInv
<1>5. StartupTypeOK'
  BY <1>2, <1>3, <1>4, LifeKept, StartupCallsKept DEF StartupTypeOK
<1> QED
  BY <1>5, LifeKept, RetryKept DEF StartupInv

LEMMA StartupBegins ==
  ASSUME StartupInit
  PROVE  StartupInv
<1>1. /\ life \in Lives /\ life.order = 0 /\ life.order >= -1
  <2>1. MaxChanges \in Nat /\ 0 \in -1..MaxChanges
    BY ChangesAssumption
  <2> QED
    BY <2>1 DEF StartupInit, Lives
<1>2. startupCalls \in [Retries -> 0..MaxRetries] /\ Outstanding <= MaxRetries
  BY DEF StartupInit, Retries, MaxRetries, Outstanding
<1>3. <<>> \in Seq(Lives) /\ \A i \in 1..Len(<<>>) : <<>>[i] \in Lives /\ <<>>[i].order <= life.order
  OBVIOUS
<1>4. told \in Lives /\ shown \in Lives /\ told.order = -1 /\ shown.order = -1
  BY LivesAre DEF StartupInit
<1>5. StartupTypeOK
  BY <1>1, <1>2, <1>3, <1>4 DEF StartupInit, StartupTypeOK
<1>6. LifeInv
  BY <1>1, <1>3, <1>4 DEF StartupInit, LifeInv, EventsAreRendered
<1>7. RetryInv
  BY <1>2 DEF StartupInit, RetryInv
<1> QED
  BY <1>5, <1>6, <1>7 DEF StartupInv

-----------------------------------------------------------------------------
(* The application. *)

LEMMA Begins ==
  ASSUME Init PROVE IInv
<1>1. NativeInv
  <2>1. 0 \in 0..MaxSequence
    BY UpdatesAssumption
  <2> QED
    BY <2>1 DEF Init, NativeInit, NativeInv, NativeTypeOK, Snapshots
<1> QED
  BY <1>1, BridgeBegins, WindowBegins, StartupBegins DEF Init, IInv

LEMMA Stutters ==
  ASSUME IInv, UNCHANGED vars PROVE IInv'
<1>1. NativeInv'
  BY DEF IInv, NativeInv, NativeTypeOK, vars, nativeVars
<1>2. StartupInv'
  BY DEF IInv, vars, startupVars, StartupInv, StartupTypeOK, LifeInv, RetryInv, Outstanding,
     EventsAreRendered
<1>3. BridgeInv'
  <2>1. UNCHANGED <<nativeVars, bridgeVars>>
    BY DEF vars
  <2> QED
    BY <2>1 DEF IInv, nativeVars, bridgeVars, connectionVars, sourceVars, BridgeInv, BridgeTypeOK,
       InboxInv, Known, ListenerInv, ObserverInv, LatestInv
<1>4. WindowInv'
  <2>1. UNCHANGED <<nativeVars, windowVars>>
    BY DEF vars
  <2> QED
    BY <2>1 DEF IInv, nativeVars, windowVars, WindowInv, WindowTypeOK, InboxInv, Known, RenderInv,
       CallInv, EventDue, Pending
<1>5. page' = page /\ (BridgeInit => BridgeInit') /\ (WindowInit => WindowInit')
  BY DEF vars, bridgeVars, connectionVars, sourceVars, windowVars, BridgeInit, WindowInit
<1> QED
  BY <1>1, <1>2, <1>3, <1>4, <1>5 DEF IInv

LEMMA Step ==
  ASSUME IInv, Next PROVE IInv'
<1>1. CASE BridgeStep
  <2>1. NativeInv' /\ BridgeInv' /\ page' = page /\ page = "bridge"
    BY <1>1, NativeKept, BridgeKept DEF BridgeStep, IInv
  <2>2. WindowInit'
    BY <1>1 DEF BridgeStep, IInv, windowVars, WindowInit
  <2>3. WindowInv'
    <3>1. (NativeInv /\ WindowInit => WindowInv)'
      BY WindowBegins, PTL
    <3> QED
      BY <2>1, <2>2, <3>1
  <2>4. StartupInv'
    BY <1>1 DEF BridgeStep, IInv, startupVars, StartupInv, StartupTypeOK, LifeInv, RetryInv, Outstanding,
     EventsAreRendered
  <2> QED
    BY <2>1, <2>2, <2>3, <2>4 DEF IInv
<1>2. CASE WindowStep
  <2>1. NativeInv' /\ WindowInv' /\ page' = page /\ page = "window"
    BY <1>2, WindowNative, WindowKept DEF WindowStep, IInv
  <2>2. BridgeInit'
    BY <1>2 DEF WindowStep, IInv, bridgeVars, connectionVars, sourceVars, BridgeInit
  <2>3. BridgeInv'
    <3>1. (NativeInv /\ BridgeInit => BridgeInv)'
      BY BridgeBegins, PTL
    <3> QED
      BY <2>1, <2>2, <3>1
  <2>4. StartupInv'
    BY <1>2 DEF WindowStep, IInv, startupVars, StartupInv, StartupTypeOK, LifeInv, RetryInv, Outstanding,
     EventsAreRendered
  <2> QED
    BY <2>1, <2>2, <2>3, <2>4 DEF IInv
<1>3. CASE StartupStep
  <2>1. StartupInv' /\ page' = page /\ page = "startup"
    BY <1>3, StartupKept DEF StartupStep, IInv
  <2>2. NativeInv'
    BY <1>3 DEF StartupStep, IInv, nativeVars, NativeInv, NativeTypeOK
  <2>3. BridgeInit' /\ WindowInit'
    BY <1>3 DEF StartupStep, IInv, bridgeVars, connectionVars, sourceVars, BridgeInit, windowVars, WindowInit
  <2>4. BridgeInv' /\ WindowInv'
    <3>1. (NativeInv /\ BridgeInit => BridgeInv)' /\ (NativeInv /\ WindowInit => WindowInv)'
      BY BridgeBegins, WindowBegins, PTL
    <3> QED
      BY <2>2, <2>3, <3>1
  <2> QED
    BY <2>1, <2>2, <2>3, <2>4 DEF IInv
<1> QED
  BY <1>1, <1>2, <1>3 DEF Next

LEMMA Invariant == Spec => []IInv
<1>1. Init => IInv
  BY Begins
<1>2. IInv /\ [Next]_vars => IInv'
  BY Step, Stutters
<1> QED
  BY <1>1, <1>2, PTL DEF Spec

(* Every field of every page stays in its type (CapabilityBridge,            *)
(* UpdateWindow, StartupPage).                                               *)
THEOREM FrontEndTypeCorrect == Spec => []TypeOK
<1>1. IInv => TypeOK
  BY DEF IInv, TypeOK, NativeInv, BridgeInv, WindowInv, StartupInv
<1> QED
  BY <1>1, Invariant, PTL

(* Events reach the pages in the order of their sequence numbers, because    *)
(* the publish gate is held from a transition to its emission                *)
(* (tauri_adapter.rs:636-646).                                               *)
THEOREM EventsArriveInOrder == Spec => []EventsInOrder
<1>1. IInv => EventsInOrder
  BY DEF IInv, BridgeInv, WindowInv, InboxInv, EventsInOrder
<1> QED
  BY <1>1, Invariant, PTL

(* However observers come and go while the connection is set up, one native  *)
(* subscription at most is there, and only for somebody who observes         *)
(* (tauri-adapter.ts:48-56 and 71-98).                                       *)
THEOREM SubscriptionIsForObservers == Spec => []SubscriptionFollowsObservers
<1>1. IInv => SubscriptionFollowsObservers
  BY DEF IInv, BridgeInv, ListenerInv, ObserverInv, SubscriptionFollowsObservers
<1> QED
  BY <1>1, Invariant, PTL

(* When nothing is on its way, every observer of the update indicator has    *)
(* the updater's state, whatever the order of the answer and the events      *)
(* (tauri-adapter.ts:39-45).                                                 *)
THEOREM IndicatorIsLatest == Spec => []IndicatorShowsLatest
<1>1. IInv => IndicatorShowsLatest
  <2>1. \A s : ~Has(<<>>, s)
    BY EmptyFits
  <2> QED
    BY <2>1 DEF IInv, BridgeInv, ListenerInv, ObserverInv, LatestInv, IndicatorShowsLatest
<1> QED
  BY <1>1, Invariant, PTL

\* A quiet window whose query was answered shows the newest snapshot.
LEMMA QuietWindow ==
  ASSUME IInv, WindowQuiet, query = "done", ~missed
  PROVE  rendered = native
<1>1. EventDue \/ reply = native
  BY DEF IInv, WindowInv, RenderInv
<1>2. ~Has(windowInbox, native) /\ native \notin unsent
  BY EmptyFits DEF WindowQuiet
<1>3. CASE reply = native
  <2>1. rendered.sequence >= native.sequence /\ Known(rendered)
    BY <1>3 DEF IInv, WindowInv, RenderInv
  <2>2. rendered.sequence \in Int /\ native.sequence \in Int
    BY SequencesAreNumbers DEF IInv, WindowInv, WindowTypeOK, NativeInv, NativeTypeOK
  <2> QED
    BY <2>1, <2>2 DEF Known
<1> QED
  BY <1>1, <1>2, <1>3 DEF EventDue

(* The update window ends with the updater's state, unless an event fell     *)
(* between the answer and the listener or the query failed                   *)
(* (controller.ts:66-68, 133-134).                                           *)
THEOREM WindowIsLatest == Spec => []WindowShowsLatest
<1>1. IInv => WindowShowsLatest
  BY QuietWindow DEF WindowShowsLatest
<1> QED
  BY <1>1, Invariant, PTL

(* No button of the update window stays disabled once its calls are answered *)
(* and nothing is on its way: Retry was given back, or what its call         *)
(* published, be it the same failure, enables it again; Restart was given    *)
(* back, or the application ends (controller.ts:76-78, 119-129,              *)
(* mod.rs:280-283, 480-485).                                                 *)
THEOREM NoButtonIsStuck == Spec => []ButtonsComeBack
<1>1. IInv => ButtonsComeBack
  <2>1. ASSUME IInv, WindowQuiet, ~missed, Pending(retryCalls) = 0 PROVE "retry" \notin disabled
    <3>1. SUFFICES ASSUME "retry" \in disabled PROVE FALSE
      OBVIOUS
    <3>2. rendered.kind = "failed" /\ rendered # native
      BY <2>1, <3>1 DEF IInv, WindowInv, CallInv
    <3>3. rendered # Nothing
      BY <3>2, SequencesAreNumbers
    <3>4. query = "failed" => EventDue
      BY <2>1, <3>3 DEF IInv, WindowInv, RenderInv
    <3>5. ~EventDue
      BY <2>1, <3>2, EmptyFits DEF WindowQuiet, EventDue
    <3>6. query = "done" => rendered = native
      BY <2>1, QuietWindow
    <3> QED
      BY <2>1, <3>2, <3>4, <3>5, <3>6 DEF WindowQuiet
  <2>2. ASSUME IInv, WindowQuiet, Pending(restartCalls) = 0, ~leaving PROVE "restart" \notin disabled
    BY <2>2 DEF IInv, WindowInv, CallInv
  <2> QED
    BY <2>1, <2>2 DEF ButtonsComeBack
<1> QED
  BY <1>1, Invariant, PTL

(* What an event has brought the startup page stays until a newer event, and *)
(* is then the state of the lifecycle (controller.ts:30-38, 49-50).          *)
THEOREM LifeEventsAreRendered == Spec => []EventsAreRendered
<1>1. IInv => EventsAreRendered
  BY DEF IInv, StartupInv, LifeInv
<1> QED
  BY <1>1, Invariant, PTL

(* A failure the startup page shows can be retried, whatever happened        *)
(* between an earlier click and its call (controller.ts:33, 39-47;           *)
(* main.rs:1787).                                                            *)
THEOREM FailuresCanBeRetried == Spec => []FailureCanBeRetried
<1>1. IInv => FailureCanBeRetried
  <2>1. StartupTypeOK /\ Outstanding = 0 => ~(Outstanding > 0) /\ retryEnabled \in BOOLEAN
    BY OutstandingIs DEF StartupTypeOK
  <2> QED
    BY <2>1 DEF IInv, StartupInv, RetryInv, FailureCanBeRetried
<1> QED
  BY <1>1, Invariant, PTL
=============================================================================
