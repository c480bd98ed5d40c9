-------------------------------- MODULE FrontEnd --------------------------------
(***************************************************************************)
(* The pages of the application, one per behaviour: they share nothing but *)
(* what the native side publishes, and none of them reads another.         *)
(***************************************************************************)
EXTENDS CapabilityBridge, UpdateWindow, StartupPage

CONSTANT Pages        \* the pages that are followed

ASSUME PagesAssumption == Pages \subseteq {"bridge", "window", "startup"}

VARIABLE page

vars == <<page, nativeVars, bridgeVars, windowVars, startupVars>>

\* The pages that are not followed stay as they begin.
Init ==
    /\ page \in Pages
    /\ NativeInit /\ (page = "startup" => native.kind = "idle")
    /\ BridgeInit
    /\ WindowInit
    /\ StartupInit /\ (page # "startup" => life.state = "starting")

BridgeStep == page = "bridge" /\ BridgeNext /\ UNCHANGED <<page, windowVars, startupVars>>
WindowStep == page = "window" /\ WindowNext /\ UNCHANGED <<page, bridgeVars, startupVars>>
StartupStep ==
    page = "startup" /\ StartupNext /\ UNCHANGED <<page, nativeVars, bridgeVars, windowVars>>

Next == BridgeStep \/ WindowStep \/ StartupStep

Spec == Init /\ [][Next]_vars

TypeOK ==
    /\ page \in Pages
    /\ NativeTypeOK /\ BridgeTypeOK /\ WindowTypeOK /\ StartupTypeOK

(* Transitions of concurrent tasks are emitted in the order of their         *)
(* sequence numbers: the publish gate is held from the one to the other      *)
(* (tauri_adapter.rs:636-646).                                               *)
EventsInOrder == Ascending(bridgeInbox) /\ Ascending(windowInbox)
=============================================================================
