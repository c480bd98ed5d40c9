--------------------------- MODULE StableRelease ---------------------------
(***************************************************************************)
(* The release pipeline: the promotion runs on the Stable channel, and the *)
(* native smoke on one of their runners.  The two meet in one value only,  *)
(* the document of a target: a run has it when the driver of that target   *)
(* reported success.  A behaviour follows the runs, which take a smoke in  *)
(* two steps (its download of Stable and its document), or one runner.     *)
(***************************************************************************)
EXTENDS StableChannel, NativeSmoke

VARIABLE followed

vars == <<channelVars, smokeVars, followed>>

Init ==
    /\ ChannelInit /\ SmokeInit
    /\ followed \in {"runs", "runner"}

PromotionsGoOn ==
    /\ followed = "runs" /\ PromotionStep
    /\ UNCHANGED <<smokeVars, followed>>

SmokeGoesOn ==
    /\ followed = "runner" /\ SmokeStep
    /\ UNCHANGED <<channelVars, followed>>

Next == PromotionsGoOn \/ SmokeGoesOn

Spec == Init /\ [][Next]_vars

TypeOK ==
    /\ ChannelTypeOK
    /\ NativeSmokeTypeOK
=============================================================================
