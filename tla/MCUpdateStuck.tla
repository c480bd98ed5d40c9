----------------------------- MODULE MCUpdateStuck -----------------------------
(***************************************************************************)
(* Instance for TLC: one process of the application, with a repository     *)
(* that opens, whose user only asks for checks and retries.  These are     *)
(* behaviours of UpdateRuntime; the other steps are left out to reach, with *)
(* five tasks and timers alive, what takes some forty steps.               *)
(***************************************************************************)
EXTENDS UpdateRuntime

OneProcess ==
    \/ OpenRepository /\ repository'
    \/ ReconcileCurrentVersion \/ Start
    \/ TaskStep \/ RetryTimerFires \/ CheckTimerFires \/ UserChecks \/ UserRetries

OneProcessSpec == Init /\ [][OneProcess]_vars
=============================================================================
