----------------------------- MODULE NativeUpdates -----------------------------
(***************************************************************************)
(* What the pages see of the updater: the snapshot that                    *)
(* app_update_snapshot answers with, and the snapshots that                *)
(* transition_and_publish emits to every window.  A transition and its     *)
(* emission are two steps under one publish gate: a page may be answered   *)
(* with a snapshot that has still to be emitted.                           *)
(***************************************************************************)
EXTENDS Integers, Sequences

CONSTANTS
    Kinds,          \* the states of this instance, among NativeKinds
    MaxSequence     \* bound: the last sequence number

NativeKinds == {"idle", "checking", "up_to_date", "available", "downloading",
                "staged", "failed"}

ASSUME UpdatesAssumption ==
    /\ Kinds \subseteq NativeKinds
    /\ "failed" \in Kinds
    /\ MaxSequence \in Nat

VARIABLES
    native,     \* the controller's snapshot
    unsent      \* what the holders of the publish gate have still to emit

nativeVars == <<native, unsent>>

Snapshot(sequence, kind) == [sequence |-> sequence, kind |-> kind]
Snapshots == [sequence : 0..MaxSequence, kind : Kinds]

\* A page compares sequence numbers with the -1 it starts from.
Nothing == Snapshot(-1, "idle")

\* A page that is loaded later has missed what was before.
NativeInit ==
    /\ native \in [sequence : {0}, kind : Kinds]
    /\ unsent = {}

\* mutant of Publish: transitions do not take turns at the publish gate.
PublishWithoutGate(kind) ==
    /\ native.sequence < MaxSequence
    /\ native' = Snapshot(native.sequence + 1, kind)
    /\ unsent' = unsent \cup {native'}

Publish(kind) ==
    /\ unsent = {}
    /\ native.sequence < MaxSequence
    /\ native' = Snapshot(native.sequence + 1, kind)
    /\ unsent' = {native'}

\* app.emit, to a page whose listener is registered or not.
Emit(inbox, registered) ==
    \E snapshot \in unsent :
        /\ unsent' = unsent \ {snapshot}
        /\ inbox' = IF registered THEN Append(inbox, snapshot) ELSE inbox
        /\ UNCHANGED native

\* Events reach a page in the order of their sequence numbers.
Ascending(inbox) ==
    \A i, j \in 1..Len(inbox) : i < j => inbox[i].sequence < inbox[j].sequence

NativeTypeOK == native \in Snapshots /\ unsent \subseteq Snapshots
=============================================================================
