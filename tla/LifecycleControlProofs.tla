----------------------- MODULE LifecycleControlProofs -----------------------
(***************************************************************************)
(* What holds of DesktopLifecycle for every number of generations and      *)
(* whatever a CLI, a spawn or the window does: the types, who is inside    *)
(* lifecycle_gate, what the published state says about the threads, and    *)
(* that Ready stands for the page the user looks at.                       *)
(***************************************************************************)
EXTENDS LifecycleInvariant, SequenceTheorems, TLAPS

USE ConstantsAssumption
    DEF AppRuns, lifecycle, tokens, flags, cliVars, retryVars, shutdownVars, webVars,
        controlVars, uiVars, Generations, None

-----------------------------------------------------------------------------
\* Types.  The calls shared by the handlers first.

CliTyped ==
    /\ cli \in [Generations -> CliStates]
    /\ requested \in [Generations -> BOOLEAN]
    /\ reason \in [Generations -> Reasons]
    /\ stopLock \in SUBSET Generations

PublishedTyped ==
    /\ snapshot \in LifecycleStates
    /\ lastError \in {"none", "CleanupFailed", "other"}
    /\ hostGeneration \in 0..MaxGeneration
    /\ navigationGeneration \in 0..MaxGeneration
    /\ loadGeneration \in 0..MaxGeneration
    /\ generation \in 0..MaxGeneration
    /\ mainQueue \in Seq(Tasks)

(* Observing an exit (CliProcess::try_exit) records one of the three reasons. *)
LEMMA TryExitTyped ==
  ASSUME TypeOK, NEW g \in Generations, TryExit(g)
  PROVE  reason' \in [Generations -> Reasons]
  BY DEF TypeOK, TryExit, Classified, Reasons

(* current_cli_is_alive records a reason only for a CLI that has one.         *)
LEMMA QueryAliveTyped ==
  ASSUME TypeOK, NEW g \in Generations, QueryAlive(g)
  PROVE  reason' \in [Generations -> Reasons]
  BY TryExitTyped DEF TypeOK, QueryAlive

(* Beginning a stop keeps the CLI's record well typed.                        *)
LEMMA StopBeginTyped ==
  ASSUME TypeOK, NEW g \in Generations, StopBegin(g)
  PROVE  CliTyped'
  BY TryExitTyped DEF TypeOK, StopBegin, CliTyped

(* So does a stop that reclaimed the tree ...                                 *)
LEMMA StopSucceedsTyped ==
  ASSUME TypeOK, NEW g \in Generations, StopSucceeds(g)
  PROVE  CliTyped'
  BY DEF TypeOK, StopSucceeds, CliTyped, Reasons, CliStates, Classified

(* ... and one that did not.                                                  *)
LEMMA StopFailsTyped ==
  ASSUME TypeOK, NEW g \in Generations, StopFails(g)
  PROVE  CliTyped'
  BY DEF TypeOK, StopFails, CliTyped

(* A startup navigation is a task of a generation that exists.                *)
LEMMA PostTyped ==
  ASSUME TypeOK, NEW g \in Generations,
         mainQueue' = Append(mainQueue, [to |-> "startup", gen |-> g])
  PROVE  mainQueue' \in Seq(Tasks)
<1>1. [to |-> "startup", gen |-> g] \in Tasks
  BY DEF Tasks
<1> QED
  BY <1>1, AppendProperties DEF TypeOK

(* Publishing a failure keeps what is published well typed ...                *)
LEMMA PublishFailedTyped ==
  ASSUME TypeOK, NEW g \in Generations, NEW code \in {"CleanupFailed", "other"},
         PublishFailed(g, code), mainQueue' \in Seq(Tasks)
  PROVE  PublishedTyped'
  BY DEF TypeOK, PublishedTyped, PublishFailed, ResetHostObservation, LifecycleStates

(* ... and so does fail_attempt, which posts a task for that generation.      *)
LEMMA FailAttemptTyped ==
  ASSUME TypeOK, NEW g \in Generations, NEW code \in {"CleanupFailed", "other"},
         FailAttempt(g, code)
  PROVE  PublishedTyped'
<1>1. mainQueue' \in Seq(Tasks)
  BY PostTyped DEF TypeOK, FailAttempt
<1> QED
  BY <1>1, PublishFailedTyped DEF FailAttempt

(* Every step of every thread keeps TypeOK; the Retry and the shutdown thread *)
(* hold a CLI wherever they are about to stop one.                            *)
LEMMA TypesKept ==
  ASSUME ControlInv, [Next]_vars
  PROVE  TypeOK'
<1> USE DEF ControlInv, TypeOK, AttemptStates, LifecycleStates, CliStates
<1>1. CASE Setup
  BY <1>1 DEF Setup, OpenGeneration, StartAttempt, ResetHostObservation
<1>2. ASSUME NEW g \in Generations, SpawnCli(g) PROVE TypeOK'
  BY <1>2 DEF SpawnCli, Goto
<1>3. ASSUME NEW g \in Generations, SpawnFails(g) PROVE TypeOK'
  BY <1>3 DEF SpawnFails, Goto
<1>4. ASSUME NEW g \in Generations, SpawnCleanupFails(g) PROVE TypeOK'
  BY <1>4 DEF SpawnCleanupFails, Goto
<1>5. ASSUME NEW g \in Generations, SpawnCancelled(g) PROVE TypeOK'
  BY <1>5 DEF SpawnCancelled, Goto
<1>6. ASSUME NEW g \in Generations, StoreCli(g) PROVE TypeOK'
  BY <1>6 DEF StoreCli, Goto
<1>7. ASSUME NEW g \in Generations, DiscardCli(g) PROVE TypeOK'
  <2>1. CliTyped'
    BY <1>7, StopBeginTyped DEF DiscardCli
  <2> QED
    BY <1>7, <2>1 DEF DiscardCli, Goto, CliTyped
<1>8. ASSUME NEW g \in Generations, DiscardEnds(g) PROVE TypeOK'
  <2>1. CliTyped'
    BY <1>8, StopSucceedsTyped, StopFailsTyped DEF DiscardEnds
  <2> QED
    BY <1>8, <2>1 DEF DiscardEnds, Goto, CliTyped
<1>9. ASSUME NEW g \in Generations, PublishWaiting(g) PROVE TypeOK'
  BY <1>9 DEF PublishWaiting, Goto
<1>10. ASSUME NEW g \in Generations, ProlongStartup(g) PROVE TypeOK'
  BY <1>10 DEF ProlongStartup
<1>11. ASSUME NEW g \in Generations, ProbeReady(g) PROVE TypeOK'
  BY <1>11 DEF ProbeReady, Goto
<1>12. ASSUME NEW g \in Generations, SetReadyHostOrigin(g) PROVE TypeOK'
  BY <1>12 DEF SetReadyHostOrigin, Goto, Tasks
<1>13. ASSUME NEW g \in Generations, AnnounceDeadCli(g) PROVE TypeOK'
  <2>1. reason' \in [Generations -> Reasons]
    BY <1>13, QueryAliveTyped DEF AnnounceDeadCli
  <2> QED
    BY <1>13, <2>1 DEF AnnounceDeadCli, Goto
<1>14. ASSUME NEW g \in Generations, ObserveExit(g) PROVE TypeOK'
  <2>1. reason' \in [Generations -> Reasons]
    BY <1>14, TryExitTyped DEF ObserveExit
  <2>2. attempt' \in [Generations -> AttemptStates]
    BY <1>14 DEF ObserveExit, Goto
  <2>3. UNCHANGED <<lifecycle, flags, slot, gateHolder, cli, requested, stopLock,
                    controlVars, uiVars>>
    BY <1>14 DEF ObserveExit
  <2> QED
    BY <2>1, <2>2, <2>3
<1>15. ASSUME NEW g \in Generations, ObserveError(g) PROVE TypeOK'
  BY <1>15 DEF ObserveError, Goto
<1>16. ASSUME NEW g \in Generations, Superseded(g) PROVE TypeOK'
  BY <1>16 DEF Superseded, Goto
<1>17. ASSUME NEW g \in Generations, AbortBegin(g) PROVE TypeOK'
  <2>1. CliTyped'
    BY <1>17, StopBeginTyped DEF AbortBegin
  <2> QED
    BY <1>17, <2>1 DEF AbortBegin, Goto, CliTyped
<1>18. ASSUME NEW g \in Generations, AbortEnds(g) PROVE TypeOK'
  <2>1. CliTyped'
    BY <1>18, StopSucceedsTyped, StopFailsTyped DEF AbortEnds
  <2>2. attempt' \in [Generations -> AttemptStates]
    BY <1>18 DEF AbortEnds, Goto
  <2>3. UNCHANGED <<lifecycle, flags, slot, gateHolder, controlVars, uiVars>>
    BY <1>18 DEF AbortEnds
  <2> HIDE DEF AttemptStates, LifecycleStates, CliStates
  <2> QED
    BY <2>1, <2>2, <2>3 DEF CliTyped
<1>19. ASSUME NEW g \in Generations, ReportFailure(g) PROVE TypeOK'
  <2>1. PublishedTyped'
    BY <1>19, FailAttemptTyped DEF ReportFailure
  <2> QED
    BY <1>19, <2>1 DEF ReportFailure, Goto, PublishedTyped
<1>20. ASSUME NEW g \in Generations, LeaderExits(g) PROVE TypeOK'
  BY <1>20 DEF LeaderExits
<1>21. ASSUME NEW g \in Generations, DescendantsExit(g) PROVE TypeOK'
  BY <1>21 DEF DescendantsExit
<1>22. CASE RequestRetry
  BY <1>22 DEF RequestRetry
<1>23. CASE BeginRetryCleanup
  BY <1>23 DEF BeginRetryCleanup, OpenGeneration, ResetHostObservation
<1>24. CASE AbandonRetry
  <2>1. retrying' \in BOOLEAN
    BY <1>24 DEF AbandonRetry
  <2> QED
    BY <1>24, <2>1 DEF AbandonRetry
<1>25. CASE TakeForRetry
  <2>1. retrying' \in BOOLEAN
    BY <1>25 DEF TakeForRetry
  <2>2. slot' \in 0..MaxGeneration /\ retryCli' \in 0..MaxGeneration
    BY <1>25 DEF TakeForRetry
  <2>3. retry' \in {"restarting", "taken"} /\ gateHolder' = "retry"
    BY <1>25 DEF TakeForRetry
  <2>4. UNCHANGED <<lifecycle, shuttingDown, cliVars, attempt, cleanupGeneration,
                    leaving, shutdownVars, uiVars>>
    BY <1>25 DEF TakeForRetry
  <2> QED
    BY <2>1, <2>2, <2>3, <2>4
<1>26. CASE RetryStopBegin
  <2>1. retryCli \in Generations
    BY <1>26 DEF RetryStopBegin, RetryCoherent
  <2>2. CliTyped'
    BY <1>26, <2>1, StopBeginTyped DEF RetryStopBegin
  <2> QED
    BY <1>26, <2>2 DEF RetryStopBegin, CliTyped
<1>27. CASE RetryStopEnds
  <2>1. retryCli \in Generations
    BY <1>27 DEF RetryStopEnds, RetryCoherent
  <2>2. CliTyped'
    BY <1>27, <2>1, StopSucceedsTyped, StopFailsTyped DEF RetryStopEnds
  <2>3. retrying' \in BOOLEAN
    BY <1>27 DEF RetryStopEnds
  <2>4. slot' \in 0..MaxGeneration /\ retryCli' \in 0..MaxGeneration
    BY <1>27 DEF RetryStopEnds
  <2>5. retry' \in {"restarting", "failing"}
    BY <1>27 DEF RetryStopEnds
  <2>6. UNCHANGED <<lifecycle, shuttingDown, gateHolder, attempt, cleanupGeneration,
                    leaving, shutdownVars, uiVars>>
    BY <1>27 DEF RetryStopEnds
  <2> QED
    BY <2>2, <2>3, <2>4, <2>5, <2>6 DEF CliTyped
<1>28. CASE RetryRestarts
  BY <1>28 DEF RetryRestarts
<1>29. CASE RetryStarts
  BY <1>29 DEF RetryStarts, OpenGeneration, StartAttempt, ResetHostObservation
<1>30. CASE RetryFails
  <2>1. cleanupGeneration \in Generations
    BY <1>30 DEF RetryFails, RetryCoherent, RetryBusy, RetryHolding
  <2>2. PublishedTyped'
    BY <1>30, <2>1, PublishFailedTyped DEF RetryFails
  <2> QED
    BY <1>30, <2>2 DEF RetryFails, PublishedTyped
<1>31. CASE RequestShutdown
  BY <1>31 DEF RequestShutdown
<1>32. CASE BeginShutdown
  BY <1>32 DEF BeginShutdown, OpenGeneration, ResetHostObservation
<1>33. CASE TakeForShutdown
  BY <1>33 DEF TakeForShutdown
<1>34. CASE ShutdownStopBegin
  <2>1. shutdownCli \in Generations
    BY <1>34 DEF ShutdownStopBegin, ShutdownCoherent
  <2>2. CliTyped'
    BY <1>34, <2>1, StopBeginTyped DEF ShutdownStopBegin
  <2> QED
    BY <1>34, <2>2 DEF ShutdownStopBegin, CliTyped
<1>35. CASE ShutdownStopEnds
  <2>1. shutdownCli \in Generations
    BY <1>35 DEF ShutdownStopEnds, ShutdownCoherent
  <2>2. CliTyped'
    BY <1>35, <2>1, StopSucceedsTyped, StopFailsTyped DEF ShutdownStopEnds
  <2> QED
    BY <1>35, <2>2 DEF ShutdownStopEnds, CliTyped
<1>36. CASE ExitApp
  BY <1>36 DEF ExitApp
<1>37. CASE TakeHostTask
  <2>1. Head(mainQueue) \in Tasks /\ Tail(mainQueue) \in Seq(Tasks)
    BY <1>37, HeadTailProperties DEF TakeHostTask
  <2>2. Head(mainQueue).gen \in Generations
    BY <2>1 DEF Tasks
  <2>3. reason' \in [Generations -> Reasons]
    BY <1>37, <2>2, QueryAliveTyped DEF TakeHostTask
  <2>4. mainTask' \in Tasks \cup {NoTask}
    BY <1>37, <2>1 DEF TakeHostTask
  <2>5. navigationGeneration' \in 0..MaxGeneration /\ loadGeneration' \in 0..MaxGeneration
    BY <1>37, <2>2 DEF TakeHostTask
  <2>6. mainQueue' \in Seq(Tasks)
    BY <1>37, <2>1 DEF TakeHostTask
  <2>7. UNCHANGED <<snapshot, lastError, generation, hostGeneration, flags, slot,
                    gateHolder, cli, requested, stopLock, attempt, controlVars, page,
                    finished, pending>>
    BY <1>37 DEF TakeHostTask
  <2> QED
    BY <2>3, <2>4, <2>5, <2>6, <2>7
<1>38. CASE TakeStartupTask
  <2>1. Head(mainQueue) \in Tasks /\ Tail(mainQueue) \in Seq(Tasks)
    BY <1>38, HeadTailProperties DEF TakeStartupTask
  <2> QED
    BY <1>38, <2>1 DEF TakeStartupTask, ResetHostObservation
<1>39. CASE Navigate
  <2>1. [url |-> IF mainTask.to = "host" THEN mainTask.gen ELSE None,
         allowed |-> FALSE] \in Loads
    BY DEF Tasks, NoTask, Loads
  <2>2. pending' \in Seq(Loads)
    BY <1>39, <2>1, AppendProperties DEF Navigate
  <2> QED
    BY <1>39, <2>2 DEF Navigate
<1>40. CASE NavigateFails
  BY <1>40 DEF NavigateFails
<1>41. CASE DecideNavigation
  <2>1. pending' \in Seq(Loads)
    <3>1. PICK i \in 1..Len(pending) :
            pending' = IF pending[i].url = None \/ hostGeneration # None
                       THEN [pending EXCEPT ![i].allowed = TRUE]
                       ELSE SubSeq(pending, 1, i - 1) \o SubSeq(pending, i + 1, Len(pending))
      BY <1>41 DEF DecideNavigation
    <3>2. [pending EXCEPT ![i].allowed = TRUE] \in Seq(Loads)
      <4>1. pending[i] \in Loads
        BY ElementOfSeq
      <4>2. [pending[i] EXCEPT !.allowed = TRUE] \in Loads
        BY <4>1 DEF Loads
      <4> QED
        BY <4>2, ExceptSeq
    <3>3. SubSeq(pending, 1, i - 1) \o SubSeq(pending, i + 1, Len(pending)) \in Seq(Loads)
      <4>1. Len(pending) \in Nat
        BY LenProperties
      <4>2. \A j \in 1..Len(pending) : pending[j] \in Loads
        BY ElementOfSeq
      <4>3. SubSeq(pending, 1, i - 1) \in Seq(Loads)
        BY <4>1, <4>2, SubSeqProperties
      <4>4. SubSeq(pending, i + 1, Len(pending)) \in Seq(Loads)
        BY <4>1, <4>2, SubSeqProperties
      <4> QED
        BY <4>3, <4>4, ConcatProperties
    <3> QED
      BY <3>1, <3>2, <3>3
  <2>2. UNCHANGED <<lifecycle, flags, slot, gateHolder, cliVars, attempt, controlVars,
                    mainQueue, mainTask, page, finished>>
    BY <1>41 DEF DecideNavigation
  <2> QED
    BY <2>1, <2>2
<1>42. CASE DropNavigation
  <2>1. pending' \in Seq(Loads)
    BY <1>42, HeadTailProperties DEF DropNavigation
  <2> QED
    BY <1>42, <2>1 DEF DropNavigation
<1>43. CASE StartPage
  <2>1. Head(pending) \in Loads /\ Tail(pending) \in Seq(Loads)
    BY <1>43, HeadTailProperties DEF StartPage
  <2>2. page' \in 0..MaxGeneration /\ pending' \in Seq(Loads)
    BY <1>43, <2>1 DEF StartPage, Loads
  <2>3. reason' \in [Generations -> Reasons]
    BY <1>43, <2>2, QueryAliveTyped DEF StartPage
  <2>4. finished' \in BOOLEAN
    BY <1>43 DEF StartPage
  <2>5. loadGeneration' \in 0..MaxGeneration
    BY <1>43 DEF StartPage
  <2>6. UNCHANGED <<snapshot, lastError, generation, hostGeneration,
                    navigationGeneration, flags, slot, gateHolder, cli, requested,
                    stopLock, attempt, controlVars, mainQueue, mainTask>>
    BY <1>43 DEF StartPage
  <2> QED
    BY <2>2, <2>3, <2>4, <2>5, <2>6
<1>44. CASE FinishPage
  <2>1. reason' \in [Generations -> Reasons]
    BY <1>44, QueryAliveTyped DEF FinishPage
  <2>2. snapshot' \in LifecycleStates
    BY <1>44 DEF FinishPage
  <2>3. navigationGeneration' \in 0..MaxGeneration /\ loadGeneration' \in 0..MaxGeneration
    BY <1>44 DEF FinishPage
  <2>4. /\ finished' = TRUE
        /\ UNCHANGED <<lastError, generation, hostGeneration, flags, slot, gateHolder,
                       cli, requested, stopLock, attempt, controlVars, mainQueue,
                       mainTask, page, pending>>
    BY <1>44 DEF FinishPage
  <2> QED
    BY <2>1, <2>2, <2>3, <2>4
<1>45. CASE UNCHANGED vars
  BY <1>45 DEF vars
<1>46. ASSUME NEW g \in Generations, ClearProcess(g) PROVE TypeOK'
  BY <1>46 DEF ClearProcess, Goto
<1>47. CASE LeaverPosts
  <2>1. leaving \in Generations
    BY <1>47 DEF LeaverPosts
  <2>2. mainQueue' \in Seq(Tasks)
    BY <1>47, <2>1, PostTyped DEF LeaverPosts
  <2>3. /\ leaving' = 0
        /\ UNCHANGED <<lifecycle, flags, slot, gateHolder, cliVars, attempt, retry,
                       retryCli, cleanupGeneration, shutdownVars, webVars>>
    BY <1>47 DEF LeaverPosts
  <2> QED
    BY <2>2, <2>3
<1>48. CASE LeaverLeaves
  BY <1>48 DEF LeaverLeaves
<1> QED
  BY <1>1, <1>2, <1>3, <1>4, <1>5, <1>6, <1>7, <1>8, <1>9, <1>10, <1>11, <1>12,
     <1>13, <1>14, <1>15, <1>16, <1>17, <1>18, <1>19, <1>20, <1>21, <1>22, <1>23, <1>24,
     <1>25, <1>26, <1>27, <1>28, <1>29, <1>30, <1>31, <1>32, <1>33, <1>34, <1>35, <1>36,
     <1>37, <1>38, <1>39, <1>40, <1>41, <1>42, <1>43, <1>44, <1>45, <1>46,
     <1>47, <1>48
     DEF Next, AttemptStep, RetryStep, ShutdownStep, MainStep, WebViewStep, Exited

-----------------------------------------------------------------------------
\* A stop and an observation concern one CLI.

OthersUntouched(g) ==
    \A h \in Generations \ {g} :
        cli'[h] = cli[h] /\ requested'[h] = requested[h] /\ reason'[h] = reason[h]

(* The stop lock, the request mark and the classified reason are the CLI's    *)
(* own (CliProcess): beginning a stop leaves every other CLI as it was.       *)
LEMMA StopBeginLocal ==
  ASSUME TypeOK, NEW g \in Generations, StopBegin(g)
  PROVE  OthersUntouched(g) /\ UNCHANGED cli
  BY DEF TypeOK, StopBegin, TryExit, OthersUntouched

(* Neither end of a stop touches another CLI.                                 *)
LEMMA StopEndsLocal ==
  ASSUME TypeOK, NEW g \in Generations, StopSucceeds(g) \/ StopFails(g)
  PROVE  OthersUntouched(g)
  BY DEF TypeOK, StopSucceeds, StopFails, OthersUntouched

(* Nor does an observation of an exit, or a query of the current CLI.         *)
LEMMA ObservationLocal ==
  ASSUME TypeOK, NEW g \in Generations, TryExit(g) \/ QueryAlive(g),
         UNCHANGED <<cli, requested>>
  PROVE  OthersUntouched(g)
  BY DEF TypeOK, TryExit, QueryAlive, OthersUntouched

(* A CLI that has no attempt has not run, so nothing is observed of it.       *)
LEMMA NothingToObserve ==
  ASSUME ControlInv, NEW g \in Generations, attempt[g] = "none",
         TryExit(g) \/ QueryAlive(g)
  PROVE  UNCHANGED reason
  BY DEF ControlInv, AttemptCoherent, TryExit, QueryAlive, LeaderExited

(* What the current attempt has seen of its CLI so far excuses no exit: an    *)
(* exit observed now is Unexpected.                                           *)
LEMMA ObservedIsUnexpected ==
  ASSUME TypeOK, NEW g \in Generations, generation = g, ~requested[g],
         reason[g] \in {"none", "Unexpected"},
         TryExit(g) \/ QueryAlive(g)
  PROVE  reason'[g] \in {"none", "Unexpected"} /\ Classified(g) = "Unexpected"
  BY DEF TypeOK, TryExit, QueryAlive, Classified

(* Before setup has started the first attempt nothing is stored or marked.    *)
LEMMA UntouchedIsEmpty ==
  ASSUME ControlInv, Untouched
  PROVE  /\ slot = None
         /\ \A g \in Generations : ~requested[g] /\ reason[g] = "none"
<1>1. \A g \in Generations : slot # g /\ ~requested[g] /\ reason[g] = "none"
  BY DEF ControlInv, AttemptCoherent, Untouched
<1>2. slot \in 0..MaxGeneration
  BY DEF ControlInv, TypeOK
<1> QED
  BY <1>1, <1>2

-----------------------------------------------------------------------------
(* Whoever is between taking and leaving lifecycle_gate is alone there: the   *)
(* section of spawn_direct_cli, the Retry thread or the shutdown thread.      *)
LEMMA GateKept ==
  ASSUME ControlInv, [Next]_vars
  PROVE  GateDiscipline'
<1> USE DEF ControlInv, TypeOK, GateDiscipline, Creating, RetryHolding, GateFree
<1>1. CASE Setup
  BY <1>1 DEF Setup, OpenGeneration, StartAttempt, ResetHostObservation
<1>2. ASSUME NEW g \in Generations, SpawnCli(g) PROVE GateDiscipline'
  BY <1>2 DEF SpawnCli, Goto
<1>3. ASSUME NEW g \in Generations, SpawnFails(g) PROVE GateDiscipline'
  BY <1>3 DEF SpawnFails, Goto
<1>4. ASSUME NEW g \in Generations, SpawnCleanupFails(g) PROVE GateDiscipline'
  BY <1>4 DEF SpawnCleanupFails, Goto
<1>5. ASSUME NEW g \in Generations, SpawnCancelled(g) PROVE GateDiscipline'
  BY <1>5 DEF SpawnCancelled, Goto
<1>6. ASSUME NEW g \in Generations, StoreCli(g) PROVE GateDiscipline'
  BY <1>6 DEF StoreCli, Goto
<1>7. ASSUME NEW g \in Generations, DiscardCli(g) PROVE GateDiscipline'
  BY <1>7 DEF DiscardCli, Goto
<1>8. ASSUME NEW g \in Generations, DiscardEnds(g) PROVE GateDiscipline'
  BY <1>8 DEF DiscardEnds, Goto
<1>9. ASSUME NEW g \in Generations, PublishWaiting(g) PROVE GateDiscipline'
  BY <1>9 DEF PublishWaiting, Goto
<1>10. ASSUME NEW g \in Generations, ProlongStartup(g) PROVE GateDiscipline'
  BY <1>10 DEF ProlongStartup
<1>11. ASSUME NEW g \in Generations, ProbeReady(g) PROVE GateDiscipline'
  BY <1>11 DEF ProbeReady, Goto
<1>12. ASSUME NEW g \in Generations, SetReadyHostOrigin(g) PROVE GateDiscipline'
  BY <1>12 DEF SetReadyHostOrigin, Goto
<1>13. ASSUME NEW g \in Generations, AnnounceDeadCli(g) PROVE GateDiscipline'
  BY <1>13 DEF AnnounceDeadCli, Goto
<1>14. ASSUME NEW g \in Generations, ObserveExit(g) PROVE GateDiscipline'
  BY <1>14 DEF ObserveExit, Goto
<1>15. ASSUME NEW g \in Generations, ObserveError(g) PROVE GateDiscipline'
  BY <1>15 DEF ObserveError, Goto
<1>16. ASSUME NEW g \in Generations, Superseded(g) PROVE GateDiscipline'
  BY <1>16 DEF Superseded, Goto
<1>17. ASSUME NEW g \in Generations, AbortBegin(g) PROVE GateDiscipline'
  BY <1>17 DEF AbortBegin, Goto
<1>18. ASSUME NEW g \in Generations, AbortEnds(g) PROVE GateDiscipline'
  BY <1>18 DEF AbortEnds, Goto
<1>19. ASSUME NEW g \in Generations, ReportFailure(g) PROVE GateDiscipline'
  BY <1>19 DEF ReportFailure, Goto, FailAttempt, PublishFailed, ResetHostObservation
<1>20. ASSUME NEW g \in Generations, LeaderExits(g) PROVE GateDiscipline'
  BY <1>20 DEF LeaderExits
<1>21. ASSUME NEW g \in Generations, DescendantsExit(g) PROVE GateDiscipline'
  BY <1>21 DEF DescendantsExit
<1>22. CASE RequestRetry
  BY <1>22 DEF RequestRetry
<1>23. CASE BeginRetryCleanup
  BY <1>23 DEF BeginRetryCleanup, OpenGeneration, ResetHostObservation
<1>24. CASE AbandonRetry
  BY <1>24 DEF AbandonRetry
<1>25. CASE TakeForRetry
  BY <1>25 DEF TakeForRetry
<1>26. CASE RetryStopBegin
  BY <1>26 DEF RetryStopBegin
<1>27. CASE RetryStopEnds
  BY <1>27 DEF RetryStopEnds
<1>28. CASE RetryRestarts
  BY <1>28 DEF RetryRestarts
<1>29. CASE RetryStarts
  BY <1>29 DEF RetryStarts, OpenGeneration, StartAttempt, ResetHostObservation
<1>30. CASE RetryFails
  BY <1>30 DEF RetryFails, PublishFailed, ResetHostObservation
<1>31. CASE RequestShutdown
  BY <1>31 DEF RequestShutdown
<1>32. CASE BeginShutdown
  BY <1>32 DEF BeginShutdown, OpenGeneration, ResetHostObservation
<1>33. CASE TakeForShutdown
  BY <1>33 DEF TakeForShutdown
<1>34. CASE ShutdownStopBegin
  BY <1>34 DEF ShutdownStopBegin
<1>35. CASE ShutdownStopEnds
  BY <1>35 DEF ShutdownStopEnds
<1>36. CASE ExitApp
  BY <1>36 DEF ExitApp
<1>37. CASE TakeHostTask
  BY <1>37 DEF TakeHostTask
<1>38. CASE TakeStartupTask
  BY <1>38 DEF TakeStartupTask, ResetHostObservation
<1>39. CASE Navigate
  BY <1>39 DEF Navigate, NoTask
<1>40. CASE NavigateFails
  BY <1>40 DEF NavigateFails
<1>41. CASE DecideNavigation
  BY <1>41 DEF DecideNavigation
<1>42. CASE DropNavigation
  BY <1>42 DEF DropNavigation
<1>43. CASE StartPage
  BY <1>43 DEF StartPage
<1>44. CASE FinishPage
  BY <1>44 DEF FinishPage
<1>45. CASE UNCHANGED vars
  BY <1>45 DEF vars
<1>46. ASSUME NEW g \in Generations, ClearProcess(g) PROVE GateDiscipline'
  BY <1>46 DEF ClearProcess, Goto
<1>47. CASE LeaverPosts
  BY <1>47 DEF LeaverPosts
<1>48. CASE LeaverLeaves
  BY <1>48 DEF LeaverLeaves
<1> QED
  BY <1>1, <1>2, <1>3, <1>4, <1>5, <1>6, <1>7, <1>8, <1>9, <1>10, <1>11, <1>12, <1>13,
     <1>14, <1>15, <1>16, <1>17, <1>18, <1>19, <1>20, <1>21, <1>22, <1>23, <1>24,
     <1>25, <1>26, <1>27, <1>28, <1>29, <1>30, <1>31, <1>32, <1>33, <1>34, <1>35,
     <1>36, <1>37, <1>38, <1>39, <1>40, <1>41, <1>42, <1>43, <1>44, <1>45, <1>46,
     <1>47, <1>48 DEF Next,
     AttemptStep, RetryStep, ShutdownStep, MainStep, WebViewStep, Exited

(* The Retry thread works on a generation without attempt, with an empty slot *)
(* until its own stop fails, and nothing it relies on changes under it.       *)
LEMMA RetryKept ==
  ASSUME ControlInv, [Next]_vars
  PROVE  RetryCoherent'
<1> USE DEF ControlInv, TypeOK, GateDiscipline, RetryCoherent, ShutdownCoherent,
         AttemptCoherent, Creating, BeforeWaiting, Watching, Failing, RetryHolding,
         RetryBusy, StateMatchesAttempt, GateFree, RetryAllowed, IsCurrent,
         IsCurrentHostPage, Untouched, Waiting
<1>1. CASE Setup
  BY <1>1 DEF Setup, OpenGeneration, StartAttempt, ResetHostObservation
<1>2. ASSUME NEW g \in Generations, SpawnCli(g) PROVE RetryCoherent'
  BY <1>2 DEF SpawnCli, Goto
<1>3. ASSUME NEW g \in Generations, SpawnFails(g) PROVE RetryCoherent'
  BY <1>3 DEF SpawnFails, Goto
<1>4. ASSUME NEW g \in Generations, SpawnCleanupFails(g) PROVE RetryCoherent'
  BY <1>4 DEF SpawnCleanupFails, Goto
<1>5. ASSUME NEW g \in Generations, SpawnCancelled(g) PROVE RetryCoherent'
  BY <1>5 DEF SpawnCancelled, Goto
<1>6. ASSUME NEW g \in Generations, StoreCli(g) PROVE RetryCoherent'
  BY <1>6 DEF StoreCli, Goto
<1>7. ASSUME NEW g \in Generations, DiscardCli(g) PROVE RetryCoherent'
  BY <1>7 DEF DiscardCli, Goto
<1>8. ASSUME NEW g \in Generations, DiscardEnds(g) PROVE RetryCoherent'
  BY <1>8 DEF DiscardEnds, Goto
<1>9. ASSUME NEW g \in Generations, PublishWaiting(g) PROVE RetryCoherent'
  BY <1>9 DEF PublishWaiting, Goto
<1>10. ASSUME NEW g \in Generations, ProlongStartup(g) PROVE RetryCoherent'
  BY <1>10 DEF ProlongStartup
<1>11. ASSUME NEW g \in Generations, ProbeReady(g) PROVE RetryCoherent'
  BY <1>11 DEF ProbeReady, Goto
<1>12. ASSUME NEW g \in Generations, SetReadyHostOrigin(g) PROVE RetryCoherent'
  BY <1>12 DEF SetReadyHostOrigin, Goto
<1>13. ASSUME NEW g \in Generations, AnnounceDeadCli(g) PROVE RetryCoherent'
  BY <1>13 DEF AnnounceDeadCli, Goto
<1>14. ASSUME NEW g \in Generations, ObserveExit(g) PROVE RetryCoherent'
  BY <1>14 DEF ObserveExit, Goto
<1>15. ASSUME NEW g \in Generations, ObserveError(g) PROVE RetryCoherent'
  BY <1>15 DEF ObserveError, Goto
<1>16. ASSUME NEW g \in Generations, Superseded(g) PROVE RetryCoherent'
  BY <1>16 DEF Superseded, Goto
<1>17. ASSUME NEW g \in Generations, AbortBegin(g) PROVE RetryCoherent'
  BY <1>17 DEF AbortBegin, Goto
<1>18. ASSUME NEW g \in Generations, AbortEnds(g) PROVE RetryCoherent'
  BY <1>18 DEF AbortEnds, Goto
<1>19. ASSUME NEW g \in Generations, ReportFailure(g) PROVE RetryCoherent'
  BY <1>19 DEF ReportFailure, Goto, FailAttempt, PublishFailed, ResetHostObservation
<1>20. ASSUME NEW g \in Generations, LeaderExits(g) PROVE RetryCoherent'
  BY <1>20 DEF LeaderExits
<1>21. ASSUME NEW g \in Generations, DescendantsExit(g) PROVE RetryCoherent'
  BY <1>21 DEF DescendantsExit
<1>22. CASE RequestRetry
  BY <1>22 DEF RequestRetry
<1>23. CASE BeginRetryCleanup
  BY <1>23 DEF BeginRetryCleanup, OpenGeneration, ResetHostObservation
<1>24. CASE AbandonRetry
  BY <1>24 DEF AbandonRetry
<1>25. CASE TakeForRetry
  BY <1>25 DEF TakeForRetry
<1>26. CASE RetryStopBegin
  BY <1>26 DEF RetryStopBegin
<1>27. CASE RetryStopEnds
  BY <1>27 DEF RetryStopEnds
<1>28. CASE RetryRestarts
  BY <1>28 DEF RetryRestarts
<1>29. CASE RetryStarts
  BY <1>29 DEF RetryStarts, OpenGeneration, StartAttempt, ResetHostObservation
<1>30. CASE RetryFails
  BY <1>30 DEF RetryFails, PublishFailed, ResetHostObservation
<1>31. CASE RequestShutdown
  BY <1>31 DEF RequestShutdown
<1>32. CASE BeginShutdown
  BY <1>32 DEF BeginShutdown, OpenGeneration, ResetHostObservation
<1>33. CASE TakeForShutdown
  BY <1>33 DEF TakeForShutdown
<1>34. CASE ShutdownStopBegin
  BY <1>34 DEF ShutdownStopBegin
<1>35. CASE ShutdownStopEnds
  BY <1>35 DEF ShutdownStopEnds
<1>36. CASE ExitApp
  BY <1>36 DEF ExitApp
<1>37. CASE TakeHostTask
  BY <1>37 DEF TakeHostTask
<1>38. CASE TakeStartupTask
  BY <1>38 DEF TakeStartupTask, ResetHostObservation
<1>39. CASE Navigate
  BY <1>39 DEF Navigate, NoTask
<1>40. CASE NavigateFails
  BY <1>40 DEF NavigateFails
<1>41. CASE DecideNavigation
  BY <1>41 DEF DecideNavigation
<1>42. CASE DropNavigation
  BY <1>42 DEF DropNavigation
<1>43. CASE StartPage
  BY <1>43 DEF StartPage
<1>44. CASE FinishPage
  BY <1>44 DEF FinishPage
<1>45. CASE UNCHANGED vars
  BY <1>45 DEF vars
<1>46. ASSUME NEW g \in Generations, ClearProcess(g) PROVE RetryCoherent'
  BY <1>46 DEF ClearProcess, Goto
<1>47. CASE LeaverPosts
  BY <1>47 DEF LeaverPosts
<1>48. CASE LeaverLeaves
  BY <1>48 DEF LeaverLeaves
<1> QED
  BY <1>1, <1>2, <1>3, <1>4, <1>5, <1>6, <1>7, <1>8, <1>9, <1>10, <1>11, <1>12, <1>13,
     <1>14, <1>15, <1>16, <1>17, <1>18, <1>19, <1>20, <1>21, <1>22, <1>23, <1>24,
     <1>25, <1>26, <1>27, <1>28, <1>29, <1>30, <1>31, <1>32, <1>33, <1>34, <1>35,
     <1>36, <1>37, <1>38, <1>39, <1>40, <1>41, <1>42, <1>43, <1>44, <1>45, <1>46,
     <1>47, <1>48 DEF Next,
     AttemptStep, RetryStep, ShutdownStep, MainStep, WebViewStep, Exited

(* Once the shutdown thread has been at the gate, no thread is left that      *)
(* could store a CLI; before it, no attempt has to discard one.               *)
LEMMA ShutdownKept ==
  ASSUME ControlInv, [Next]_vars
  PROVE  ShutdownCoherent'
<1> USE DEF ControlInv, TypeOK, GateDiscipline, RetryCoherent, ShutdownCoherent,
         AttemptCoherent, Creating, BeforeWaiting, Watching, Failing, RetryHolding,
         RetryBusy, StateMatchesAttempt, GateFree, IsCurrent,
         NothingStoredAfterShutdownTook
<1>1. CASE Setup
  BY <1>1 DEF Setup, OpenGeneration, StartAttempt, ResetHostObservation
<1>2. ASSUME NEW g \in Generations, SpawnCli(g) PROVE ShutdownCoherent'
  BY <1>2 DEF SpawnCli, Goto
<1>3. ASSUME NEW g \in Generations, SpawnFails(g) PROVE ShutdownCoherent'
  BY <1>3 DEF SpawnFails, Goto
<1>4. ASSUME NEW g \in Generations, SpawnCleanupFails(g) PROVE ShutdownCoherent'
  BY <1>4 DEF SpawnCleanupFails, Goto
<1>5. ASSUME NEW g \in Generations, SpawnCancelled(g) PROVE ShutdownCoherent'
  BY <1>5 DEF SpawnCancelled, Goto
<1>6. ASSUME NEW g \in Generations, StoreCli(g) PROVE ShutdownCoherent'
  BY <1>6 DEF StoreCli, Goto
<1>7. ASSUME NEW g \in Generations, DiscardCli(g) PROVE ShutdownCoherent'
  BY <1>7 DEF DiscardCli, Goto
<1>8. ASSUME NEW g \in Generations, DiscardEnds(g) PROVE ShutdownCoherent'
  BY <1>8 DEF DiscardEnds, Goto
<1>9. ASSUME NEW g \in Generations, PublishWaiting(g) PROVE ShutdownCoherent'
  BY <1>9 DEF PublishWaiting, Goto
<1>10. ASSUME NEW g \in Generations, ProlongStartup(g) PROVE ShutdownCoherent'
  BY <1>10 DEF ProlongStartup
<1>11. ASSUME NEW g \in Generations, ProbeReady(g) PROVE ShutdownCoherent'
  BY <1>11 DEF ProbeReady, Goto
<1>12. ASSUME NEW g \in Generations, SetReadyHostOrigin(g) PROVE ShutdownCoherent'
  BY <1>12 DEF SetReadyHostOrigin, Goto
<1>13. ASSUME NEW g \in Generations, AnnounceDeadCli(g) PROVE ShutdownCoherent'
  BY <1>13 DEF AnnounceDeadCli, Goto
<1>14. ASSUME NEW g \in Generations, ObserveExit(g) PROVE ShutdownCoherent'
  BY <1>14 DEF ObserveExit, Goto
<1>15. ASSUME NEW g \in Generations, ObserveError(g) PROVE ShutdownCoherent'
  BY <1>15 DEF ObserveError, Goto
<1>16. ASSUME NEW g \in Generations, Superseded(g) PROVE ShutdownCoherent'
  BY <1>16 DEF Superseded, Goto
<1>17. ASSUME NEW g \in Generations, AbortBegin(g) PROVE ShutdownCoherent'
  BY <1>17 DEF AbortBegin, Goto
<1>18. ASSUME NEW g \in Generations, AbortEnds(g) PROVE ShutdownCoherent'
  BY <1>18 DEF AbortEnds, Goto
<1>19. ASSUME NEW g \in Generations, ReportFailure(g) PROVE ShutdownCoherent'
  BY <1>19 DEF ReportFailure, Goto, FailAttempt, PublishFailed, ResetHostObservation
<1>20. ASSUME NEW g \in Generations, LeaderExits(g) PROVE ShutdownCoherent'
  BY <1>20 DEF LeaderExits
<1>21. ASSUME NEW g \in Generations, DescendantsExit(g) PROVE ShutdownCoherent'
  BY <1>21 DEF DescendantsExit
<1>22. CASE RequestRetry
  BY <1>22 DEF RequestRetry
<1>23. CASE BeginRetryCleanup
  BY <1>23 DEF BeginRetryCleanup, OpenGeneration, ResetHostObservation
<1>24. CASE AbandonRetry
  BY <1>24 DEF AbandonRetry
<1>25. CASE TakeForRetry
  BY <1>25 DEF TakeForRetry
<1>26. CASE RetryStopBegin
  BY <1>26 DEF RetryStopBegin
<1>27. CASE RetryStopEnds
  BY <1>27 DEF RetryStopEnds
<1>28. CASE RetryRestarts
  BY <1>28 DEF RetryRestarts
<1>29. CASE RetryStarts
  BY <1>29 DEF RetryStarts, OpenGeneration, StartAttempt, ResetHostObservation
<1>30. CASE RetryFails
  BY <1>30 DEF RetryFails, PublishFailed, ResetHostObservation
<1>31. CASE RequestShutdown
  BY <1>31 DEF RequestShutdown
<1>32. CASE BeginShutdown
  BY <1>32 DEF BeginShutdown, OpenGeneration, ResetHostObservation
<1>33. CASE TakeForShutdown
  BY <1>33 DEF TakeForShutdown
<1>34. CASE ShutdownStopBegin
  BY <1>34 DEF ShutdownStopBegin
<1>35. CASE ShutdownStopEnds
  BY <1>35 DEF ShutdownStopEnds
<1>36. CASE ExitApp
  BY <1>36 DEF ExitApp
<1>37. CASE TakeHostTask
  BY <1>37 DEF TakeHostTask
<1>38. CASE TakeStartupTask
  BY <1>38 DEF TakeStartupTask, ResetHostObservation
<1>39. CASE Navigate
  BY <1>39 DEF Navigate, NoTask
<1>40. CASE NavigateFails
  BY <1>40 DEF NavigateFails
<1>41. CASE DecideNavigation
  BY <1>41 DEF DecideNavigation
<1>42. CASE DropNavigation
  BY <1>42 DEF DropNavigation
<1>43. CASE StartPage
  BY <1>43 DEF StartPage
<1>44. CASE FinishPage
  BY <1>44 DEF FinishPage
<1>45. CASE UNCHANGED vars
  BY <1>45 DEF vars
<1>46. ASSUME NEW g \in Generations, ClearProcess(g) PROVE ShutdownCoherent'
  BY <1>46 DEF ClearProcess, Goto
<1>47. CASE LeaverPosts
  BY <1>47 DEF LeaverPosts
<1>48. CASE LeaverLeaves
  BY <1>48 DEF LeaverLeaves
<1> QED
  BY <1>1, <1>2, <1>3, <1>4, <1>5, <1>6, <1>7, <1>8, <1>9, <1>10, <1>11, <1>12, <1>13,
     <1>14, <1>15, <1>16, <1>17, <1>18, <1>19, <1>20, <1>21, <1>22, <1>23, <1>24,
     <1>25, <1>26, <1>27, <1>28, <1>29, <1>30, <1>31, <1>32, <1>33, <1>34, <1>35,
     <1>36, <1>37, <1>38, <1>39, <1>40, <1>41, <1>42, <1>43, <1>44, <1>45, <1>46,
     <1>47, <1>48 DEF Next,
     AttemptStep, RetryStep, ShutdownStep, MainStep, WebViewStep, Exited

(* A CLI, a stop request and a reason belong to a generation that has been    *)
(* given an attempt, and attempts only to generations that were opened.       *)
LEMMA AttemptKept ==
  ASSUME ControlInv, [Next]_vars
  PROVE  AttemptCoherent'
<1> USE DEF ControlInv, TypeOK, GateDiscipline, RetryCoherent, ShutdownCoherent,
         AttemptCoherent, Creating, BeforeWaiting, Watching, Failing, RetryHolding,
         RetryBusy, GateFree, RetryAllowed, IsCurrent, LeaderExited,
         IsCurrentHostPage, CurrentCliIsAlive, Untouched, Waiting
<1>1. CASE Setup
  BY <1>1 DEF Setup, OpenGeneration, StartAttempt, ResetHostObservation
<1>2. ASSUME NEW g \in Generations, SpawnCli(g) PROVE AttemptCoherent'
  BY <1>2 DEF SpawnCli, Goto
<1>3. ASSUME NEW g \in Generations, SpawnFails(g) PROVE AttemptCoherent'
  BY <1>3 DEF SpawnFails, Goto
<1>4. ASSUME NEW g \in Generations, SpawnCleanupFails(g) PROVE AttemptCoherent'
  BY <1>4 DEF SpawnCleanupFails, Goto
<1>5. ASSUME NEW g \in Generations, SpawnCancelled(g) PROVE AttemptCoherent'
  BY <1>5 DEF SpawnCancelled, Goto
<1>6. ASSUME NEW g \in Generations, StoreCli(g) PROVE AttemptCoherent'
  BY <1>6 DEF StoreCli, Goto
<1>7. ASSUME NEW g \in Generations, DiscardCli(g) PROVE AttemptCoherent'
  BY <1>7, StopBeginLocal DEF DiscardCli, Goto, OthersUntouched
<1>8. ASSUME NEW g \in Generations, DiscardEnds(g) PROVE AttemptCoherent'
  <2>1. OthersUntouched(g)
    BY <1>8, StopEndsLocal DEF DiscardEnds
  <2>2. /\ attempt[g] = "discarding"
        /\ \E pc \in AttemptStates \ {"none"} : attempt' = [attempt EXCEPT ![g] = pc]
    BY <1>8 DEF DiscardEnds, Goto, AttemptStates
  <2>3. UNCHANGED <<snapshot, generation, slot, retryCli, shutdownCli>>
    BY <1>8 DEF DiscardEnds
  <2> QED
    BY <2>1, <2>2, <2>3 DEF OthersUntouched
<1>9. ASSUME NEW g \in Generations, PublishWaiting(g) PROVE AttemptCoherent'
  BY <1>9 DEF PublishWaiting, Goto
<1>10. ASSUME NEW g \in Generations, ProlongStartup(g) PROVE AttemptCoherent'
  BY <1>10 DEF ProlongStartup
<1>11. ASSUME NEW g \in Generations, ProbeReady(g) PROVE AttemptCoherent'
  BY <1>11 DEF ProbeReady, Goto
<1>12. ASSUME NEW g \in Generations, SetReadyHostOrigin(g) PROVE AttemptCoherent'
  BY <1>12 DEF SetReadyHostOrigin, Goto
<1>13. ASSUME NEW g \in Generations, AnnounceDeadCli(g) PROVE AttemptCoherent'
  BY <1>13, ObservationLocal DEF AnnounceDeadCli, Goto, OthersUntouched
<1>14. ASSUME NEW g \in Generations, ObserveExit(g) PROVE AttemptCoherent'
  BY <1>14, ObservationLocal DEF ObserveExit, Goto, OthersUntouched
<1>15. ASSUME NEW g \in Generations, ObserveError(g) PROVE AttemptCoherent'
  BY <1>15 DEF ObserveError, Goto
<1>16. ASSUME NEW g \in Generations, Superseded(g) PROVE AttemptCoherent'
  BY <1>16 DEF Superseded, Goto
<1>17. ASSUME NEW g \in Generations, AbortBegin(g) PROVE AttemptCoherent'
  BY <1>17, StopBeginLocal DEF AbortBegin, Goto, OthersUntouched
<1>18. ASSUME NEW g \in Generations, AbortEnds(g) PROVE AttemptCoherent'
  <2>1. OthersUntouched(g)
    BY <1>18, StopEndsLocal DEF AbortEnds
  <2>2. /\ attempt[g] = "stopping"
        /\ \E pc \in Failing : attempt' = [attempt EXCEPT ![g] = pc]
        /\ slot' \in {slot, None}
    BY <1>18 DEF AbortEnds, Goto
  <2>3. UNCHANGED <<snapshot, generation, retryCli, shutdownCli>>
    BY <1>18 DEF AbortEnds
  <2> QED
    BY <2>1, <2>2, <2>3 DEF OthersUntouched
<1>19. ASSUME NEW g \in Generations, ReportFailure(g) PROVE AttemptCoherent'
  BY <1>19 DEF ReportFailure, Goto, FailAttempt, PublishFailed, ResetHostObservation
<1>20. ASSUME NEW g \in Generations, LeaderExits(g) PROVE AttemptCoherent'
  BY <1>20 DEF LeaderExits
<1>21. ASSUME NEW g \in Generations, DescendantsExit(g) PROVE AttemptCoherent'
  BY <1>21 DEF DescendantsExit
<1>22. CASE RequestRetry
  BY <1>22 DEF RequestRetry
<1>23. CASE BeginRetryCleanup
  BY <1>23 DEF BeginRetryCleanup, OpenGeneration, ResetHostObservation
<1>24. CASE AbandonRetry
  BY <1>24 DEF AbandonRetry
<1>25. CASE TakeForRetry
  BY <1>25 DEF TakeForRetry
<1>26. CASE RetryStopBegin
  BY <1>26, StopBeginLocal DEF RetryStopBegin, OthersUntouched
<1>27. CASE RetryStopEnds
  BY <1>27, StopEndsLocal DEF RetryStopEnds, OthersUntouched
<1>28. CASE RetryRestarts
  BY <1>28 DEF RetryRestarts
<1>29. CASE RetryStarts
  BY <1>29 DEF RetryStarts, OpenGeneration, StartAttempt, ResetHostObservation
<1>30. CASE RetryFails
  BY <1>30 DEF RetryFails, PublishFailed, ResetHostObservation
<1>31. CASE RequestShutdown
  BY <1>31 DEF RequestShutdown
<1>32. CASE BeginShutdown
  BY <1>32 DEF BeginShutdown, OpenGeneration, ResetHostObservation
<1>33. CASE TakeForShutdown
  BY <1>33 DEF TakeForShutdown
<1>34. CASE ShutdownStopBegin
  BY <1>34, StopBeginLocal DEF ShutdownStopBegin, OthersUntouched
<1>35. CASE ShutdownStopEnds
  BY <1>35, StopEndsLocal DEF ShutdownStopEnds, OthersUntouched
<1>36. CASE ExitApp
  BY <1>36 DEF ExitApp
<1>37. CASE TakeHostTask
  BY <1>37 DEF TakeHostTask, QueryAlive, TryExit
<1>38. CASE TakeStartupTask
  BY <1>38 DEF TakeStartupTask, ResetHostObservation
<1>39. CASE Navigate
  BY <1>39 DEF Navigate, NoTask
<1>40. CASE NavigateFails
  BY <1>40 DEF NavigateFails
<1>41. CASE DecideNavigation
  BY <1>41 DEF DecideNavigation
<1>42. CASE DropNavigation
  BY <1>42 DEF DropNavigation
<1>43. CASE StartPage
  BY <1>43 DEF StartPage, QueryAlive, TryExit
<1>44. CASE FinishPage
  BY <1>44 DEF FinishPage, QueryAlive, TryExit
<1>45. CASE UNCHANGED vars
  BY <1>45 DEF vars
<1>46. ASSUME NEW g \in Generations, ClearProcess(g) PROVE AttemptCoherent'
  BY <1>46 DEF ClearProcess, Goto
<1>47. CASE LeaverPosts
  BY <1>47 DEF LeaverPosts
<1>48. CASE LeaverLeaves
  BY <1>48 DEF LeaverLeaves
<1> QED
  BY <1>1, <1>2, <1>3, <1>4, <1>5, <1>6, <1>7, <1>8, <1>9, <1>10, <1>11, <1>12, <1>13,
     <1>14, <1>15, <1>16, <1>17, <1>18, <1>19, <1>20, <1>21, <1>22, <1>23, <1>24,
     <1>25, <1>26, <1>27, <1>28, <1>29, <1>30, <1>31, <1>32, <1>33, <1>34, <1>35,
     <1>36, <1>37, <1>38, <1>39, <1>40, <1>41, <1>42, <1>43, <1>44, <1>45, <1>46,
     <1>47, <1>48 DEF Next,
     AttemptStep, RetryStep, ShutdownStep, MainStep, WebViewStep, Exited

(* Until shutdown, every published state has a thread of the current attempt  *)
(* or the Retry thread behind it.                                             *)
LEMMA StateKept ==
  ASSUME ControlInv, [Next]_vars
  PROVE  StateMatchesAttempt'
<1> USE DEF ControlInv, TypeOK, GateDiscipline, RetryCoherent, ShutdownCoherent,
         AttemptCoherent, Creating, BeforeWaiting, Watching, Failing, RetryHolding,
         RetryBusy, StateMatchesAttempt, GateFree, RetryAllowed, IsCurrent,
         LeaderExited, IsCurrentHostPage, CurrentCliIsAlive, Untouched, Waiting
<1>1. CASE Setup
  <2>1. Untouched /\ UNCHANGED <<shuttingDown, slot, requested, reason>>
    BY <1>1 DEF Setup
  <2>2. /\ generation + 1 \in Generations
        /\ attempt' = [attempt EXCEPT ![generation + 1] = "gate"]
        /\ generation' = generation + 1
        /\ snapshot' = "Starting"
    BY <1>1 DEF Setup, StartAttempt, OpenGeneration
  <2>3. slot = None
    BY <2>1, UntouchedIsEmpty
  <2>4. ~requested[generation + 1] /\ reason[generation + 1] = "none"
    BY <2>1, <2>2
  <2> QED
    BY <2>1, <2>2, <2>3, <2>4
<1>2. ASSUME NEW g \in Generations, SpawnCli(g) PROVE StateMatchesAttempt'
  BY <1>2 DEF SpawnCli, Goto
<1>3. ASSUME NEW g \in Generations, SpawnFails(g) PROVE StateMatchesAttempt'
  BY <1>3 DEF SpawnFails, Goto
<1>4. ASSUME NEW g \in Generations, SpawnCleanupFails(g) PROVE StateMatchesAttempt'
  BY <1>4 DEF SpawnCleanupFails, Goto
<1>5. ASSUME NEW g \in Generations, SpawnCancelled(g) PROVE StateMatchesAttempt'
  BY <1>5 DEF SpawnCancelled, Goto
<1>6. ASSUME NEW g \in Generations, StoreCli(g) PROVE StateMatchesAttempt'
  BY <1>6 DEF StoreCli, Goto
<1>7. ASSUME NEW g \in Generations, DiscardCli(g) PROVE StateMatchesAttempt'
  BY <1>7, StopBeginLocal DEF DiscardCli, Goto, OthersUntouched
<1>8. ASSUME NEW g \in Generations, DiscardEnds(g) PROVE StateMatchesAttempt'
  BY <1>8, StopEndsLocal DEF DiscardEnds, Goto, OthersUntouched
<1>9. ASSUME NEW g \in Generations, PublishWaiting(g) PROVE StateMatchesAttempt'
  BY <1>9 DEF PublishWaiting, Goto
<1>10. ASSUME NEW g \in Generations, ProlongStartup(g) PROVE StateMatchesAttempt'
  BY <1>10 DEF ProlongStartup
<1>11. ASSUME NEW g \in Generations, ProbeReady(g) PROVE StateMatchesAttempt'
  BY <1>11 DEF ProbeReady, Goto
<1>12. ASSUME NEW g \in Generations, SetReadyHostOrigin(g) PROVE StateMatchesAttempt'
  BY <1>12 DEF SetReadyHostOrigin, Goto
<1>13. ASSUME NEW g \in Generations, AnnounceDeadCli(g) PROVE StateMatchesAttempt'
  BY <1>13, ObservationLocal DEF AnnounceDeadCli, Goto, OthersUntouched
<1>14. ASSUME NEW g \in Generations, ObserveExit(g) PROVE StateMatchesAttempt'
  <2> SUFFICES ASSUME ~shuttingDown PROVE StateMatchesAttempt'
    BY <1>14 DEF ObserveExit
  <2>1. OthersUntouched(g)
    BY <1>14, ObservationLocal DEF ObserveExit
  <2>2. generation = g /\ attempt[g] \in Watching
    BY <1>14 DEF ObserveExit
  <2>3. Classified(g) = "Unexpected"
    BY <1>14, <2>2, ObservedIsUnexpected DEF ObserveExit
  <2>4. attempt' = [attempt EXCEPT ![g] = "aborting"]
    BY <1>14, <2>2, <2>3 DEF ObserveExit, Goto, ExitRequiresFailure
  <2>5. UNCHANGED <<snapshot, generation, slot, retry, requested>>
    BY <1>14 DEF ObserveExit
  <2> QED
    BY <2>1, <2>2, <2>4, <2>5 DEF OthersUntouched
<1>15. ASSUME NEW g \in Generations, ObserveError(g) PROVE StateMatchesAttempt'
  BY <1>15 DEF ObserveError, Goto
<1>16. ASSUME NEW g \in Generations, Superseded(g) PROVE StateMatchesAttempt'
  BY <1>16 DEF Superseded, Goto
<1>17. ASSUME NEW g \in Generations, AbortBegin(g) PROVE StateMatchesAttempt'
  BY <1>17, StopBeginLocal DEF AbortBegin, Goto, OthersUntouched
<1>18. ASSUME NEW g \in Generations, AbortEnds(g) PROVE StateMatchesAttempt'
  BY <1>18, StopEndsLocal DEF AbortEnds, Goto, OthersUntouched
<1>19. ASSUME NEW g \in Generations, ReportFailure(g) PROVE StateMatchesAttempt'
  BY <1>19 DEF ReportFailure, Goto, FailAttempt, PublishFailed, ResetHostObservation
<1>20. ASSUME NEW g \in Generations, LeaderExits(g) PROVE StateMatchesAttempt'
  BY <1>20 DEF LeaderExits
<1>21. ASSUME NEW g \in Generations, DescendantsExit(g) PROVE StateMatchesAttempt'
  BY <1>21 DEF DescendantsExit
<1>22. CASE RequestRetry
  BY <1>22 DEF RequestRetry
<1>23. CASE BeginRetryCleanup
  BY <1>23 DEF BeginRetryCleanup, OpenGeneration, ResetHostObservation
<1>24. CASE AbandonRetry
  BY <1>24 DEF AbandonRetry
<1>25. CASE TakeForRetry
  BY <1>25 DEF TakeForRetry
<1>26. CASE RetryStopBegin
  BY <1>26, StopBeginLocal DEF RetryStopBegin, OthersUntouched
<1>27. CASE RetryStopEnds
  BY <1>27, StopEndsLocal DEF RetryStopEnds, OthersUntouched
<1>28. CASE RetryRestarts
  BY <1>28 DEF RetryRestarts
<1>29. CASE RetryStarts
  BY <1>29 DEF RetryStarts, OpenGeneration, StartAttempt, ResetHostObservation
<1>30. CASE RetryFails
  BY <1>30 DEF RetryFails, PublishFailed, ResetHostObservation
<1>31. CASE RequestShutdown
  BY <1>31 DEF RequestShutdown
<1>32. CASE BeginShutdown
  BY <1>32 DEF BeginShutdown, OpenGeneration, ResetHostObservation
<1>33. CASE TakeForShutdown
  BY <1>33 DEF TakeForShutdown
<1>34. CASE ShutdownStopBegin
  BY <1>34, StopBeginLocal DEF ShutdownStopBegin, OthersUntouched
<1>35. CASE ShutdownStopEnds
  BY <1>35, StopEndsLocal DEF ShutdownStopEnds, OthersUntouched
<1>36. CASE ExitApp
  BY <1>36 DEF ExitApp
<1>37. CASE TakeHostTask
  BY <1>37 DEF TakeHostTask, QueryAlive, TryExit, Classified
<1>38. CASE TakeStartupTask
  BY <1>38 DEF TakeStartupTask, ResetHostObservation
<1>39. CASE Navigate
  BY <1>39 DEF Navigate, NoTask
<1>40. CASE NavigateFails
  BY <1>40 DEF NavigateFails
<1>41. CASE DecideNavigation
  BY <1>41 DEF DecideNavigation
<1>42. CASE DropNavigation
  BY <1>42 DEF DropNavigation
<1>43. CASE StartPage
  BY <1>43 DEF StartPage, QueryAlive, TryExit, Classified
<1>44. CASE FinishPage
  BY <1>44 DEF FinishPage, QueryAlive, TryExit, Classified
<1>45. CASE UNCHANGED vars
  BY <1>45 DEF vars
<1>46. ASSUME NEW g \in Generations, ClearProcess(g) PROVE StateMatchesAttempt'
  BY <1>46 DEF ClearProcess, Goto
<1>47. CASE LeaverPosts
  BY <1>47 DEF LeaverPosts
<1>48. CASE LeaverLeaves
  BY <1>48 DEF LeaverLeaves
<1> QED
  BY <1>1, <1>2, <1>3, <1>4, <1>5, <1>6, <1>7, <1>8, <1>9, <1>10, <1>11, <1>12, <1>13,
     <1>14, <1>15, <1>16, <1>17, <1>18, <1>19, <1>20, <1>21, <1>22, <1>23, <1>24,
     <1>25, <1>26, <1>27, <1>28, <1>29, <1>30, <1>31, <1>32, <1>33, <1>34, <1>35,
     <1>36, <1>37, <1>38, <1>39, <1>40, <1>41, <1>42, <1>43, <1>44, <1>45, <1>46,
     <1>47, <1>48 DEF Next,
     AttemptStep, RetryStep, ShutdownStep, MainStep, WebViewStep, Exited

-----------------------------------------------------------------------------
\* The invariant, and what follows from it.

(* setup has not opened a generation yet: nothing is held, stored or asked.   *)
LEMMA ControlInit == Init => ControlInv
<1> SUFFICES ASSUME Init PROVE ControlInv
  OBVIOUS
<1>1. TypeOK
  <2>1. mainQueue \in Seq(Tasks) /\ pending \in Seq(Loads)
    BY DEF Init
  <2>2. /\ cli \in [Generations -> CliStates]
        /\ requested \in [Generations -> BOOLEAN]
        /\ reason \in [Generations -> Reasons]
        /\ attempt \in [Generations -> AttemptStates]
    BY DEF Init, CliStates, Reasons, AttemptStates
  <2>3. shuttingDown \in BOOLEAN /\ retrying \in BOOLEAN /\ finished \in BOOLEAN
    BY DEF Init
  <2> QED
    BY <2>1, <2>2, <2>3 DEF Init, TypeOK, LifecycleStates
<1>2. GateDiscipline /\ RetryCoherent /\ ShutdownCoherent /\ AttemptCoherent
  BY DEF Init, GateDiscipline, RetryCoherent, ShutdownCoherent, AttemptCoherent,
         NothingStoredAfterShutdownTook, Creating, RetryHolding, RetryBusy
<1>3. StateMatchesAttempt
  BY DEF Init, StateMatchesAttempt, BeforeWaiting, Waiting
<1> QED
  BY <1>1, <1>2, <1>3 DEF ControlInv

(* The control invariant holds of every behaviour, also where a created child *)
(* can be neither attached nor terminated and the window refuses to navigate. *)
THEOREM ControlInvariant == Spec => []ControlInv
<1>1. ASSUME ControlInv, [Next]_vars PROVE ControlInv'
  BY <1>1, TypesKept, GateKept, RetryKept, ShutdownKept, AttemptKept, StateKept
     DEF ControlInv
<1> QED
  BY ControlInit, <1>1, PTL DEF Spec

(* Every variable keeps its type for every number of generations.             *)
THEOREM TypeCorrect == Spec => []TypeOK
<1>1. ControlInv => TypeOK
  BY DEF ControlInv
<1> QED
  BY <1>1, ControlInvariant, PTL

(* Once shutdown has emptied the slot nothing is stored again, by a late      *)
(* attempt or by a Retry whose stop failed.                                   *)
THEOREM NothingStored == Spec => []NothingStoredAfterShutdownTook
<1>1. ControlInv => NothingStoredAfterShutdownTook
  BY DEF ControlInv, ShutdownCoherent
<1> QED
  BY <1>1, ControlInvariant, PTL

(* A second Retry, which may be accepted while the thread of a failed one     *)
(* still holds lifecycle_gate, finds that thread with nothing left to stop or *)
(* to start, and holds no CLI before it has the gate (request_retry).         *)
THEOREM OneRetry == Spec => []OneRetryAtATime
<1>1. ControlInv /\ ~retrying /\ ~shuttingDown /\ RetryAllowed => retry = "idle"
  <2> SUFFICES ASSUME ControlInv, ~retrying, ~shuttingDown, RetryAllowed
               PROVE  retry = "idle"
    OBVIOUS
  <2>1. retry # "requested"
    BY DEF ControlInv, RetryCoherent
  <2>2. retry \notin RetryBusy
    BY DEF ControlInv, RetryCoherent, RetryAllowed
  <2> QED
    BY <2>1, <2>2 DEF ControlInv, TypeOK, RetryBusy, RetryHolding
<1>2. ControlInv /\ retryCli # None => gateHolder = "retry"
  BY DEF ControlInv, RetryCoherent, GateDiscipline, RetryHolding
<1>3. ControlInv => OneRetryAtATime
  BY <1>1, <1>2 DEF OneRetryAtATime
<1> QED
  BY <1>3, ControlInvariant, PTL

(* No early return of run_attempt or request_retry strands the user in a      *)
(* state that nobody is left to change.                                       *)
THEOREM Responsible == Spec => []SomeoneIsResponsible
<1>1. ControlInv => SomeoneIsResponsible
  BY DEF ControlInv, StateMatchesAttempt, SomeoneIsResponsible, BeforeWaiting, Failing,
         Watching, RetryBusy, RetryHolding
<1> QED
  BY <1>1, ControlInvariant, PTL

-----------------------------------------------------------------------------
(* The page behind Ready (PageInv).  Most steps leave the pages alone.        *)

\* What the attempts do: nobody comes to announce a Host who has announced it.
NoneEarlier == \A g \in Generations : attempt'[g] \in Early => attempt[g] \in Early

LEMMA PagesUntouched ==
  ASSUME PageInv, NoneEarlier, UNCHANGED <<generation, tokens, uiVars>>,
         snapshot' = "Ready" => snapshot = "Ready"
  PROVE  PageInv'
<1>1. PagesOpened' /\ TokensCoherent' /\ ReadyInv'
  BY DEF PageInv, PagesOpened, TokensCoherent, ReadyInv, ReadyShowsCurrentHost
<1>2. HostPageComesOnce'
  BY DEF PageInv, HostPageComesOnce, NotQueued, QueuedOnce
<1>3. ASSUME NEW g \in Generations, attempt'[g] \in Early PROVE Unannounced(g)'
  BY <1>3 DEF PageInv, NoneEarlier, Unannounced
<1> QED
  BY <1>1, <1>2, <1>3 DEF PageInv

\* A new generation has no page: every task and navigation is of an older one.
LEMMA PagesOfOldGeneration ==
  ASSUME TypeOK, PageInv, NEW state \in {"Starting", "Stopping"}, OpenGeneration(state),
         UNCHANGED uiVars,
         \A g \in Generations : attempt'[g] \in Early => attempt[g] \in Early \/ g = generation + 1
  PROVE  PageInv'
<1>1. /\ generation \in Nat /\ generation' = generation + 1 /\ mainTask = NoTask /\ mainTask' = NoTask
      /\ hostGeneration' = 0 /\ navigationGeneration' = 0 /\ loadGeneration' = 0
      /\ mainQueue' = mainQueue /\ pending' = pending /\ page' = page
      /\ snapshot' # "Ready"
  BY DEF TypeOK, OpenGeneration, ResetHostObservation
<1>2. /\ \A i \in 1..Len(mainQueue) : mainQueue[i].gen \in Nat /\ mainQueue[i].gen <= generation
      /\ \A i \in 1..Len(pending) : pending[i].url \in Nat /\ pending[i].url <= generation
      /\ page \in Nat /\ page <= generation
  <2>1. /\ \A i \in 1..Len(mainQueue) : mainQueue[i] \in Tasks
        /\ \A i \in 1..Len(pending) : pending[i] \in Loads
    BY ElementOfSeq DEF TypeOK
  <2> QED
    BY <2>1 DEF Tasks, Loads, TypeOK, PageInv, PagesOpened
<1>3. NoTask.gen = 0 /\ NoTask.to = "none"
  BY DEF NoTask
<1>4. PagesOpened'
  BY <1>1, <1>2 DEF PagesOpened
<1>5. TokensCoherent' /\ HostPageComesOnce' /\ ReadyInv'
  BY <1>1 DEF TokensCoherent, HostPageComesOnce, ReadyInv, ReadyShowsCurrentHost
<1>6. ASSUME NEW g \in Generations, attempt'[g] \in Early PROVE Unannounced(g)'
  <2>1. CASE g = generation + 1
    BY <1>1, <1>2, <1>3, <2>1 DEF Unannounced
  <2>2. CASE attempt[g] \in Early
    BY <1>1, <1>3, <2>2 DEF PageInv, Unannounced
  <2> QED
    BY <1>6, <2>1, <2>2
<1> QED
  BY <1>4, <1>5, <1>6 DEF PageInv

\* A failure of the current generation takes hostGeneration back before it asks
\* for the startup page.
LEMMA PagesOfFailure ==
  ASSUME TypeOK, PageInv, NEW g \in Generations, NEW code \in {"CleanupFailed", "other"},
         FailAttempt(g, code), IsCurrent(g) => attempt'[g] \notin Early,
         NoneEarlier, UNCHANGED webVars
  PROVE  PageInv'
<1>1. CASE ~IsCurrent(g)
  BY <1>1, PagesUntouched DEF FailAttempt, PublishFailed
<1>2. CASE IsCurrent(g)
  <2> DEFINE task == [to |-> "startup", gen |-> g]
  <2>1. /\ generation = g /\ generation' = generation /\ snapshot' = "Failed"
        /\ hostGeneration' = 0 /\ navigationGeneration' = 0 /\ loadGeneration' = 0
        /\ mainQueue' = Append(mainQueue, task)
    BY <1>2 DEF FailAttempt, PublishFailed, IsCurrent, ResetHostObservation
  <2>2. task \in Tasks /\ task.gen = g
    BY DEF Tasks
  <2>3. mainQueue \in Seq(Tasks)
    BY DEF TypeOK
  <2> HIDE DEF task
  <2>4. /\ Len(mainQueue) \in Nat /\ Len(mainQueue') = Len(mainQueue) + 1
        /\ \A i \in 1..Len(mainQueue) : mainQueue'[i] = mainQueue[i]
        /\ mainQueue'[Len(mainQueue) + 1] = task
    BY <2>1, <2>2, <2>3, AppendProperties, LenProperties
  <2>5. PagesOpened'
    BY <2>1, <2>2, <2>4 DEF PageInv, PagesOpened, TypeOK
  <2>6. TokensCoherent' /\ HostPageComesOnce' /\ ReadyInv'
    BY <2>1 DEF TokensCoherent, HostPageComesOnce, ReadyInv, ReadyShowsCurrentHost
  <2>7. ASSUME NEW h \in Generations, attempt'[h] \in Early PROVE Unannounced(h)'
    <3>1. Unannounced(h) /\ h # g
      BY <1>2, <2>7 DEF PageInv, NoneEarlier
    <3> QED
      BY <2>1, <2>2, <2>4, <3>1 DEF Unannounced
  <2> QED
    BY <2>5, <2>6, <2>7 DEF PageInv
<1> QED
  BY <1>1, <1>2

\* A Retry that fails takes hostGeneration back too, and asks for the startup page
\* in a later step.
LEMMA PagesOfFailedRetry ==
  ASSUME TypeOK, PageInv, NEW g, NEW code, PublishFailed(g, code),
         UNCHANGED <<attempt, uiVars>>
  PROVE  PageInv'
<1>1. CASE ~IsCurrent(g)
  BY <1>1, PagesUntouched DEF PublishFailed, NoneEarlier
<1>2. CASE IsCurrent(g)
  <2>1. /\ generation' = generation /\ snapshot' = "Failed"
        /\ hostGeneration' = 0 /\ navigationGeneration' = 0 /\ loadGeneration' = 0
    BY <1>2 DEF PublishFailed, ResetHostObservation
  <2>2. PagesOpened'
    BY <2>1 DEF PageInv, PagesOpened
  <2>3. TokensCoherent' /\ HostPageComesOnce' /\ ReadyInv'
    BY <2>1 DEF TokensCoherent, HostPageComesOnce, ReadyInv, ReadyShowsCurrentHost
  <2>4. ASSUME NEW h \in Generations, attempt'[h] \in Early PROVE Unannounced(h)'
    BY <2>1, <2>4 DEF PageInv, Unannounced
  <2> QED
    BY <2>2, <2>3, <2>4 DEF PageInv
<1> QED
  BY <1>1, <1>2

\* The startup page it asks for is that of a generation without attempt.
LEMMA PagesOfLeaver ==
  ASSUME ControlInv, PageInv, LeaverPosts
  PROVE  PageInv'
<1> DEFINE task == [to |-> "startup", gen |-> leaving]
<1>1. /\ leaving \in Generations /\ leaving <= generation
      /\ attempt[leaving] = "none" /\ hostGeneration # leaving
  BY DEF LeaverPosts, ControlInv, TypeOK, RetryCoherent
<1>2. /\ mainQueue' = Append(mainQueue, task)
      /\ UNCHANGED <<lifecycle, attempt, webVars>>
  BY DEF LeaverPosts
<1>3. task \in Tasks /\ task.gen = leaving /\ mainQueue \in Seq(Tasks)
  BY <1>1 DEF Tasks, ControlInv, TypeOK
<1> HIDE DEF task
<1>4. /\ Len(mainQueue) \in Nat /\ Len(mainQueue') = Len(mainQueue) + 1
      /\ \A i \in 1..Len(mainQueue) : mainQueue'[i] = mainQueue[i]
      /\ mainQueue'[Len(mainQueue) + 1] = task
  BY <1>2, <1>3, AppendProperties, LenProperties
<1>5. PagesOpened'
  BY <1>1, <1>2, <1>3, <1>4 DEF PageInv, PagesOpened
<1>6. TokensCoherent' /\ ReadyInv'
  BY <1>2 DEF PageInv, TokensCoherent, ReadyInv, ReadyShowsCurrentHost
<1>7. ASSUME NEW h \in Generations, attempt'[h] \in Early PROVE Unannounced(h)'
  <2>1. Unannounced(h) /\ h # leaving
    BY <1>1, <1>2, <1>7 DEF PageInv, Early
  <2> QED
    BY <1>2, <1>3, <1>4, <2>1 DEF Unannounced
<1>8. ASSUME hostGeneration # None PROVE HostPageComesOnce'
  <2>1. HostPageComesOnce /\ hostGeneration = generation /\ leaving # generation
    BY <1>1, <1>8 DEF PageInv, TokensCoherent
  <2>2. \A i \in 1..Len(mainQueue') :
            mainQueue'[i].gen = generation =>
                i \in 1..Len(mainQueue) /\ mainQueue'[i] = mainQueue[i]
    BY <1>3, <1>4, <2>1
  <2>3. QueuedOnce'
    BY <1>2, <1>8, <2>1, <2>2 DEF HostPageComesOnce, QueuedOnce
  <2>4. NotQueued => NotQueued'
    BY <1>2, <2>2 DEF NotQueued
  <2>5. \A i \in 1..Len(mainQueue') :
            mainQueue'[i].gen = generation' => mainQueue'[i].to = "host"
    BY <1>2, <1>8, <2>1, <2>2 DEF HostPageComesOnce
  <2> QED
    BY <1>2, <1>8, <2>1, <2>3, <2>4, <2>5 DEF HostPageComesOnce
<1>9. HostPageComesOnce'
  BY <1>2, <1>8 DEF HostPageComesOnce
<1> QED
  BY <1>5, <1>6, <1>7, <1>9 DEF PageInv

\* set_ready_host_origin posts the one task of its Host.
LEMMA PagesOfAnnouncement ==
  ASSUME TypeOK, PageInv, NEW g \in Generations, SetReadyHostOrigin(g)
  PROVE  PageInv'
<1> DEFINE task == [to |-> "host", gen |-> g]
<1>1. /\ generation = g /\ generation' = g /\ hostGeneration' = g /\ snapshot' = snapshot
      /\ UNCHANGED <<navigationGeneration, loadGeneration, webVars>>
      /\ mainQueue' = Append(mainQueue, task) /\ attempt[g] = "announcing"
      /\ attempt' = [attempt EXCEPT ![g] = "monitoring"]
  BY DEF SetReadyHostOrigin, CurrentCliIsAlive, IsCurrent, Goto
<1>2. task \in Tasks /\ task.gen = g /\ task.to = "host"
  BY DEF Tasks
<1>3. mainQueue \in Seq(Tasks)
  BY DEF TypeOK
<1> HIDE DEF task
<1>4. /\ Len(mainQueue) \in Nat /\ Len(mainQueue') = Len(mainQueue) + 1
      /\ \A i \in 1..Len(mainQueue) : mainQueue'[i] = mainQueue[i]
      /\ mainQueue'[Len(mainQueue) + 1] = task
  BY <1>1, <1>2, <1>3, AppendProperties, LenProperties
<1>5. Unannounced(g)
  BY <1>1 DEF PageInv, Early
<1>6. mainTask = NoTask /\ NoTask.to = "none"
  BY <1>1, <1>5 DEF PageInv, PagesOpened, Unannounced, NoTask
<1>7. PagesOpened'
  <2>1. \A i \in 1..Len(mainQueue') : mainQueue'[i].gen <= g
    BY <1>1, <1>2, <1>4 DEF PageInv, PagesOpened
  <2>2. generation' = g /\ pending' = pending /\ page' = page /\ mainTask' = NoTask
    BY <1>1, <1>6
  <2> QED
    BY <1>1, <2>1, <2>2 DEF PageInv, PagesOpened
<1>8. hostGeneration = 0 /\ navigationGeneration = 0 /\ loadGeneration = 0
  BY <1>1, <1>5 DEF PageInv, TokensCoherent, Unannounced
<1>9. TokensCoherent'
  BY <1>1, <1>6, <1>8 DEF TokensCoherent
<1>10. HostPageComesOnce'
  <2>1. \A i \in 1..Len(mainQueue') :
            mainQueue'[i].gen = g => i = Len(mainQueue) + 1 /\ mainQueue'[i].to = "host"
    BY <1>2, <1>4, <1>5 DEF Unannounced
  <2>2. /\ \A i \in 1..Len(pending') : pending'[i].url # g
        /\ page' # g /\ mainTask' = NoTask
    BY <1>1, <1>5, <1>6 DEF Unannounced
  <2>3. generation' = g
    BY <1>1
  <2>4. QueuedOnce'
    BY <2>1, <2>3 DEF QueuedOnce
  <2> QED
    BY <1>6, <2>1, <2>2, <2>3, <2>4 DEF HostPageComesOnce
<1>11. snapshot' # "Ready"
  BY <1>1, <1>8 DEF PageInv, ReadyInv, ReadyShowsCurrentHost
<1>12. ReadyInv'
  BY <1>11 DEF ReadyInv, ReadyShowsCurrentHost
<1>13. ASSUME NEW h \in Generations, attempt'[h] \in Early PROVE Unannounced(h)'
  <2>1. h # g /\ attempt[h] \in Early
    BY <1>1, <1>13 DEF TypeOK, Early
  <2>2. Unannounced(h)
    BY <2>1 DEF PageInv
  <2> QED
    BY <1>1, <1>2, <1>4, <2>1, <2>2 DEF Unannounced
<1> QED
  BY <1>7, <1>9, <1>10, <1>12, <1>13 DEF PageInv

-----------------------------------------------------------------------------
(* The main thread and the WebView.                                           *)

\* A task leaves the queue, and becomes mainTask or is dropped.
LEMMA QueueAdvances ==
  ASSUME TypeOK, mainQueue # <<>>, mainQueue' = Tail(mainQueue)
  PROVE  /\ mainQueue[1] = Head(mainQueue) /\ Head(mainQueue) \in Tasks
         /\ Len(mainQueue) \in Nat \ {0} /\ Len(mainQueue') = Len(mainQueue) - 1
         /\ \A i \in 1..Len(mainQueue') : i + 1 \in 1..Len(mainQueue) /\ mainQueue'[i] = mainQueue[i + 1]
<1>1. mainQueue \in Seq(Tasks)
  BY DEF TypeOK
<1>2. Len(mainQueue) \in Nat \ {0}
  BY <1>1, LenProperties, EmptySeq
<1>3. /\ Head(mainQueue) \in Tasks /\ Len(mainQueue') = Len(mainQueue) - 1
      /\ \A i \in 1..Len(mainQueue') : mainQueue'[i] = mainQueue[i + 1]
  BY <1>1, HeadTailProperties
<1>4. mainQueue[1] = Head(mainQueue)
  BY <1>1
<1> QED
  BY <1>2, <1>3, <1>4

LEMMA PagesOfHostTask ==
  ASSUME TypeOK, PageInv, TakeHostTask
  PROVE  PageInv'
<1> DEFINE task == Head(mainQueue)
<1>1. /\ mainTask = NoTask /\ mainQueue # <<>> /\ mainQueue' = Tail(mainQueue) /\ task.to = "host"
      /\ UNCHANGED <<snapshot, generation, hostGeneration, attempt, page, finished, pending>>
  BY DEF TakeHostTask
<1>2. /\ mainQueue[1] = task /\ task \in Tasks /\ Len(mainQueue) \in Nat \ {0}
      /\ Len(mainQueue') = Len(mainQueue) - 1
      /\ \A i \in 1..Len(mainQueue') : i + 1 \in 1..Len(mainQueue) /\ mainQueue'[i] = mainQueue[i + 1]
  BY <1>1, QueueAdvances
<1>3. \/ /\ hostGeneration = task.gen /\ generation = task.gen /\ mainTask' = task
         /\ navigationGeneration' = task.gen /\ loadGeneration' = None
      \/ UNCHANGED <<navigationGeneration, loadGeneration, mainTask>>
  BY DEF TakeHostTask, CurrentCliIsAlive, IsCurrent
<1> HIDE DEF task
<1>4. ReadyInv'
  BY <1>1 DEF PageInv, ReadyInv, ReadyShowsCurrentHost
<1>5. task.gen \in Generations /\ generation \in Nat
  BY <1>2 DEF Tasks, TypeOK
<1>6. PagesOpened'
  BY <1>1, <1>2, <1>3 DEF PageInv, PagesOpened
<1>7. TokensCoherent'
  BY <1>1, <1>3, <1>5 DEF PageInv, TokensCoherent, NoTask
<1>8. ASSUME NEW g \in Generations, attempt'[g] \in Early PROVE Unannounced(g)'
  <2>1. Unannounced(g)
    BY <1>1, <1>8 DEF PageInv
  <2>2. mainTask'.gen # g
    BY <1>1, <1>2, <1>3, <2>1 DEF Unannounced
  <2> QED
    BY <1>1, <1>2, <2>1, <2>2 DEF Unannounced
<1>9. ASSUME hostGeneration # None PROVE HostPageComesOnce'
  <2>1. HostPageComesOnce /\ 1 \in 1..Len(mainQueue)
    BY <1>2 DEF PageInv
  <2>2. QueuedOnce /\ QueuedOnce'
    BY <1>1, <1>2, <1>9, <2>1 DEF HostPageComesOnce, QueuedOnce
  <2>3. NotQueued => NotQueued'
    BY <1>1, <1>2 DEF NotQueued
  <2>4. \A i \in 1..Len(mainQueue') :
            mainQueue'[i].gen = generation' => mainQueue'[i].to = "host"
    BY <1>1, <1>2, <1>9, <2>1 DEF HostPageComesOnce
  <2>5. mainTask'.to # "startup"
    BY <1>1, <1>3 DEF NoTask
  <2>6. CASE mainTask' = NoTask
    BY <1>1, <1>9, <2>1, <2>2, <2>3, <2>4, <2>5, <2>6 DEF HostPageComesOnce
  <2>7. CASE mainTask' # NoTask
    <3>1. mainQueue[1].gen = generation
      BY <1>1, <1>2, <1>3, <2>7
    <3>2. ~NotQueued /\ NotQueued'
      BY <1>1, <1>2, <2>1, <2>2, <3>1 DEF QueuedOnce, NotQueued
    <3>3. /\ \A i \in 1..Len(pending') : pending'[i].url # generation'
          /\ page' # generation'
      BY <1>1, <1>9, <2>1, <3>2 DEF HostPageComesOnce
    <3> QED
      BY <2>2, <2>4, <2>5, <3>2, <3>3 DEF HostPageComesOnce
  <2> QED
    BY <2>6, <2>7
<1>10. HostPageComesOnce'
  <2>1. CASE hostGeneration = None
    BY <1>1, <2>1 DEF HostPageComesOnce
  <2> QED
    BY <1>9, <2>1
<1> QED
  BY <1>4, <1>6, <1>7, <1>8, <1>10 DEF PageInv

\* The startup page of the current generation is asked for after its failure only.
LEMMA PagesOfStartupTask ==
  ASSUME TypeOK, PageInv, TakeStartupTask
  PROVE  PageInv'
<1> DEFINE task == Head(mainQueue)
<1>1. /\ mainTask = NoTask /\ mainQueue # <<>> /\ mainQueue' = Tail(mainQueue) /\ task.to = "startup"
      /\ UNCHANGED <<snapshot, generation, attempt, page, finished, pending>>
  BY DEF TakeStartupTask
<1>2. /\ mainQueue[1] = task /\ task \in Tasks /\ Len(mainQueue) \in Nat \ {0}
      /\ Len(mainQueue') = Len(mainQueue) - 1
      /\ \A i \in 1..Len(mainQueue') : i + 1 \in 1..Len(mainQueue) /\ mainQueue'[i] = mainQueue[i + 1]
  BY <1>1, QueueAdvances
<1>3. \/ /\ generation = task.gen /\ mainTask' = task
         /\ hostGeneration' = None /\ navigationGeneration' = None /\ loadGeneration' = None
      \/ UNCHANGED <<tokens, mainTask>>
  BY DEF TakeStartupTask, IsCurrent, ResetHostObservation
<1> HIDE DEF task
<1>4. mainTask' = task => hostGeneration = None
  <2>1. 1 \in 1..Len(mainQueue) /\ task # NoTask
    BY <1>1, <1>2 DEF NoTask
  <2>2. mainTask' = task => mainQueue[1].gen = generation /\ mainQueue[1].to = "startup"
    BY <1>1, <1>2, <1>3, <2>1
  <2> QED
    BY <2>1, <2>2 DEF PageInv, HostPageComesOnce
<1>5. task.gen \in Generations /\ generation \in Nat
  BY <1>2 DEF Tasks, TypeOK
<1>6. PagesOpened'
  BY <1>1, <1>2, <1>3 DEF PageInv, PagesOpened
<1>7. hostGeneration' = hostGeneration
  BY <1>3, <1>4
<1>8. ReadyInv'
  BY <1>1, <1>7 DEF PageInv, ReadyInv, ReadyShowsCurrentHost
<1>9. TokensCoherent'
  BY <1>1, <1>3, <1>7 DEF PageInv, TokensCoherent, NoTask
<1>10. ASSUME NEW g \in Generations, attempt'[g] \in Early PROVE Unannounced(g)'
  <2>1. Unannounced(g)
    BY <1>1, <1>10 DEF PageInv
  <2>2. mainTask'.gen # g
    BY <1>1, <1>2, <1>3, <2>1 DEF Unannounced
  <2> QED
    BY <1>1, <1>2, <1>7, <2>1, <2>2 DEF Unannounced
<1>11. ASSUME hostGeneration # None PROVE HostPageComesOnce'
  <2>1. HostPageComesOnce /\ mainTask' = NoTask /\ NoTask.to = "none"
    BY <1>1, <1>3, <1>4, <1>11 DEF PageInv, NoTask
  <2>2. QueuedOnce'
    BY <1>1, <1>2, <1>11, <2>1 DEF HostPageComesOnce, QueuedOnce
  <2>3. NotQueued => NotQueued'
    BY <1>1, <1>2 DEF NotQueued
  <2>4. \A i \in 1..Len(mainQueue') :
            mainQueue'[i].gen = generation' => mainQueue'[i].to = "host"
    BY <1>1, <1>2, <1>11, <2>1 DEF HostPageComesOnce
  <2> QED
    BY <1>1, <1>11, <2>1, <2>2, <2>3, <2>4 DEF HostPageComesOnce
<1>12. HostPageComesOnce'
  <2>1. CASE hostGeneration = None
    BY <1>7, <2>1 DEF HostPageComesOnce
  <2> QED
    BY <1>11, <2>1
<1> QED
  BY <1>6, <1>8, <1>9, <1>10, <1>12 DEF PageInv

\* window.navigate makes the task of the Host the last pending navigation.
LEMMA PagesOfNavigation ==
  ASSUME TypeOK, PageInv, Navigate
  PROVE  PageInv'
<1> DEFINE url == IF mainTask.to = "host" THEN mainTask.gen ELSE None
           load == [url |-> url, allowed |-> FALSE]
<1>1. /\ mainTask # NoTask /\ mainTask' = NoTask /\ pending' = Append(pending, load)
      /\ UNCHANGED <<snapshot, generation, tokens, attempt, mainQueue, page, finished>>
  BY DEF Navigate
<1>2. mainTask \in Tasks /\ generation \in Nat /\ mainTask.gen = generation
  BY <1>1 DEF TypeOK, PageInv, PagesOpened
<1>3. url \in 0..MaxGeneration /\ url \in {None, generation} /\ (mainTask.to = "host" => url = generation)
  BY <1>2 DEF Tasks
<1>4. load \in Loads /\ load.url = url
  BY <1>3 DEF Loads
<1>5. pending \in Seq(Loads)
  BY DEF TypeOK
<1> HIDE DEF url, load
<1>6. /\ Len(pending) \in Nat /\ Len(pending') = Len(pending) + 1
      /\ \A i \in 1..Len(pending) : pending'[i] = pending[i]
      /\ pending'[Len(pending) + 1] = load
  BY <1>1, <1>4, <1>5, AppendProperties, LenProperties
<1>7. ReadyInv'
  BY <1>1 DEF PageInv, ReadyInv, ReadyShowsCurrentHost
<1>8. PagesOpened'
  <2>1. \A i \in 1..Len(pending') : pending'[i].url <= generation
    BY <1>2, <1>3, <1>4, <1>6 DEF PageInv, PagesOpened
  <2> QED
    BY <1>1, <2>1 DEF PageInv, PagesOpened
<1>9. TokensCoherent'
  BY <1>1 DEF PageInv, TokensCoherent, NoTask
<1>10. ASSUME NEW g \in Generations, attempt'[g] \in Early PROVE Unannounced(g)'
  <2>1. Unannounced(g) /\ g # generation
    BY <1>1, <1>2, <1>10 DEF PageInv, Unannounced
  <2>2. \A i \in 1..Len(pending') : pending'[i].url # g
    BY <1>3, <1>4, <1>6, <2>1 DEF Unannounced
  <2>3. mainTask'.gen # g
    BY <1>1 DEF NoTask
  <2> QED
    BY <1>1, <2>1, <2>2, <2>3 DEF Unannounced
<1>11. ASSUME hostGeneration # None PROVE HostPageComesOnce'
  <2>1. HostPageComesOnce /\ NotQueued /\ NoTask.to = "none" /\ mainTask.to = "host" /\ url = generation
    BY <1>1, <1>2, <1>3, <1>11 DEF PageInv, HostPageComesOnce, NoTask, Tasks
  <2>2. NotQueued' /\ QueuedOnce'
    BY <1>1, <2>1 DEF NotQueued, QueuedOnce
  <2>3. page' # generation' /\ \A i \in 1..Len(pending) : pending[i].url # generation
    BY <1>1, <1>11, <2>1 DEF HostPageComesOnce
  <2>4. \A i \in 1..Len(pending') : pending'[i].url = generation => i = Len(pending')
    BY <1>6, <2>3
  <2>5. \A i \in 1..Len(mainQueue') : mainQueue'[i].gen = generation' => mainQueue'[i].to = "host"
    BY <1>1, <1>11, <2>1 DEF HostPageComesOnce
  <2> QED
    BY <1>1, <2>1, <2>2, <2>3, <2>4, <2>5 DEF HostPageComesOnce
<1>12. HostPageComesOnce'
  <2>1. CASE hostGeneration = None
    BY <1>1, <2>1 DEF HostPageComesOnce
  <2> QED
    BY <1>11, <2>1
<1> QED
  BY <1>7, <1>8, <1>9, <1>10, <1>12 DEF PageInv

LEMMA PagesOfRefusedNavigation ==
  ASSUME TypeOK, PageInv, NavigateFails
  PROVE  PageInv'
<1>1. /\ mainTask # NoTask /\ mainTask' = NoTask
      /\ navigationGeneration' \in {None, navigationGeneration}
      /\ navigationGeneration' # navigationGeneration => mainTask.to = "host"
      /\ UNCHANGED <<snapshot, generation, hostGeneration, loadGeneration, attempt, mainQueue,
                     page, finished, pending>>
  BY DEF NavigateFails
<1>2. NoTask.to = "none" /\ NoTask.gen = 0
  BY DEF NoTask
<1>3. PagesOpened' /\ ReadyInv'
  BY <1>1 DEF PageInv, PagesOpened, ReadyInv, ReadyShowsCurrentHost
<1>4. TokensCoherent'
  BY <1>1, <1>2 DEF PageInv, TokensCoherent
<1>5. ASSUME NEW g \in Generations, attempt'[g] \in Early PROVE Unannounced(g)'
  BY <1>1, <1>2, <1>5 DEF PageInv, Unannounced
<1>6. HostPageComesOnce'
  BY <1>1, <1>2 DEF PageInv, HostPageComesOnce, NotQueued, QueuedOnce
<1> QED
  BY <1>3, <1>4, <1>5, <1>6 DEF PageInv

\* The pending navigations after a step: what is left of them, in their order.
PendingShrinks ==
    /\ Len(pending) \in Nat /\ Len(pending') \in Nat
    /\ \A k \in 1..Len(pending') : \E j \in 1..Len(pending) :
            /\ pending'[k].url = pending[j].url
            /\ j = Len(pending) => k = Len(pending')

LEMMA PagesOfPending ==
  ASSUME TypeOK, PageInv, PendingShrinks, pending = <<>> => pending' = <<>>,
         UNCHANGED <<snapshot, generation, tokens, attempt, mainQueue, mainTask, page, finished>>
  PROVE  PageInv'
<1>1. PagesOpened' /\ TokensCoherent' /\ ReadyInv'
  BY DEF PageInv, PagesOpened, TokensCoherent, ReadyInv, ReadyShowsCurrentHost, PendingShrinks
<1>2. ASSUME NEW g \in Generations, attempt'[g] \in Early PROVE Unannounced(g)'
  BY <1>2 DEF PageInv, Unannounced, PendingShrinks
<1>3. HostPageComesOnce'
  <2>1. NotQueued' = NotQueued /\ QueuedOnce' = QueuedOnce
    BY DEF NotQueued, QueuedOnce
  <2> QED
    BY <2>1 DEF PageInv, HostPageComesOnce, PendingShrinks
<1> QED
  BY <1>1, <1>2, <1>3 DEF PageInv

\* A sequence without its i-th element.
LEMMA RemovedAt ==
  ASSUME NEW S, NEW s \in Seq(S), NEW i \in 1..Len(s)
  PROVE  LET t == SubSeq(s, 1, i - 1) \o SubSeq(s, i + 1, Len(s)) IN
         /\ Len(t) = Len(s) - 1
         /\ \A k \in 1..(Len(s) - 1) : t[k] = IF k <= i - 1 THEN s[k] ELSE s[k + 1]
<1>1. Len(s) \in Nat /\ i \in Int /\ \A k \in 1..Len(s) : s[k] \in S
  BY LenProperties, ElementOfSeq
<1> DEFINE before == SubSeq(s, 1, i - 1)
           after == SubSeq(s, i + 1, Len(s))
<1>2. \A k \in 1..(i - 1) : s[k] \in S
  BY <1>1
<1>3. \A k \in (i + 1)..Len(s) : s[k] \in S
  BY <1>1
<1>4. /\ before \in Seq(S) /\ Len(before) = IF 1 <= i - 1 THEN (i - 1) - 1 + 1 ELSE 0
      /\ \A k \in 1..((i - 1) - 1 + 1) : before[k] = s[1 + k - 1]
  BY <1>1, <1>2, SubSeqProperties
<1>5. /\ after \in Seq(S) /\ Len(after) = IF i + 1 <= Len(s) THEN Len(s) - (i + 1) + 1 ELSE 0
      /\ \A k \in 1..(Len(s) - (i + 1) + 1) : after[k] = s[(i + 1) + k - 1]
  BY <1>1, <1>3, SubSeqProperties
<1> DEFINE t == before \o after
<1> HIDE DEF before, after
<1>7. /\ Len(before) = i - 1 /\ \A k \in 1..(i - 1) : before[k] = s[k]
  BY <1>1, <1>4
<1>8. /\ Len(after) = Len(s) - i /\ \A k \in 1..(Len(s) - i) : after[k] = s[i + k]
  BY <1>1, <1>5
<1>9. /\ Len(t) = Len(before) + Len(after)
      /\ \A k \in 1..(Len(before) + Len(after)) :
              t[k] = IF k <= Len(before) THEN before[k] ELSE after[k - Len(before)]
  BY <1>4, <1>5, ConcatProperties
<1> HIDE DEF t
<1> DEFINE n == Len(s)
           b == Len(before)
           a == Len(after)
<1>10. n \in Nat /\ i \in 1..n /\ b = i - 1 /\ a = n - i
  BY <1>1, <1>7, <1>8
<1>11. /\ \A k \in 1..(i - 1) : before[k] = s[k]
       /\ \A k \in 1..(n - i) : after[k] = s[i + k]
  BY <1>7, <1>8
<1>12. /\ Len(t) = b + a
       /\ \A k \in 1..(b + a) : t[k] = IF k <= b THEN before[k] ELSE after[k - b]
  BY <1>9
<1>13. Len(t) = n - 1
  <2> HIDE DEF n, a, b
  <2> QED
    BY <1>10, <1>12
<1>14. ASSUME NEW k \in 1..(n - 1)
       PROVE  t[k] = IF k <= i - 1 THEN s[k] ELSE s[k + 1]
  <2> HIDE DEF n, a, b
  <2>1. k \in Int /\ 1 <= k /\ k <= n - 1 /\ b + a = n - 1 /\ i \in Int /\ n \in Int
    BY <1>10
  <2>2. t[k] = IF k <= b THEN before[k] ELSE after[k - b]
    BY <1>12, <2>1
  <2>3. CASE k <= i - 1
    <3>1. k \in 1..(i - 1) /\ k <= b
      BY <1>10, <2>1, <2>3
    <3> QED
      BY <1>11, <2>2, <2>3, <3>1
  <2>4. CASE ~(k <= i - 1)
    <3>1. ~(k <= b) /\ k - b \in 1..(n - i) /\ i + (k - b) = k + 1
      BY <1>10, <2>1, <2>4
    <3>2. t[k] = after[k - b]
      BY <2>2, <3>1
    <3>3. after[k - b] = s[i + (k - b)]
      BY <1>11, <3>1
    <3> QED
      BY <2>4, <3>1, <3>2, <3>3
  <2> QED
    BY <2>3, <2>4
<1> QED
  BY <1>13, <1>14 DEF t, before, after

LEMMA PagesOfDecision ==
  ASSUME TypeOK, PageInv, DecideNavigation
  PROVE  PageInv'
<1>1. UNCHANGED <<snapshot, generation, tokens, attempt, mainQueue, mainTask, page, finished>>
  BY DEF DecideNavigation
<1>2. PICK i \in 1..Len(pending) :
        pending' = IF pending[i].url = None \/ hostGeneration # None
                   THEN [pending EXCEPT ![i].allowed = TRUE]
                   ELSE SubSeq(pending, 1, i - 1) \o SubSeq(pending, i + 1, Len(pending))
  BY DEF DecideNavigation
<1>3. pending \in Seq(Loads) /\ Len(pending) \in Nat /\ pending # <<>>
  BY <1>2, LenProperties, EmptySeq DEF TypeOK
<1>4. \A j \in 1..Len(pending) : pending[j] \in Loads
  BY <1>3, ElementOfSeq
<1>5. CASE pending' = [pending EXCEPT ![i].allowed = TRUE]
  <2>1. pending' = [pending EXCEPT ![i] = [pending[i] EXCEPT !.allowed = TRUE]]
    BY <1>5
  <2>2. [pending[i] EXCEPT !.allowed = TRUE] \in Loads
          /\ [pending[i] EXCEPT !.allowed = TRUE].url = pending[i].url
    BY <1>4 DEF Loads
  <2>3. Len(pending') = Len(pending) /\ \A k \in 1..Len(pending) : pending'[k].url = pending[k].url
    BY <1>2, <1>3, <2>1, <2>2, ExceptSeq
  <2>4. PendingShrinks
    BY <1>3, <2>3 DEF PendingShrinks
  <2> QED
    BY <1>1, <1>3, <2>4, PagesOfPending
<1>6. CASE pending' = SubSeq(pending, 1, i - 1) \o SubSeq(pending, i + 1, Len(pending))
  <2>1. /\ Len(pending') = Len(pending) - 1
        /\ \A k \in 1..(Len(pending) - 1) :
                pending'[k] = IF k <= i - 1 THEN pending[k] ELSE pending[k + 1]
    BY <1>2, <1>3, <1>6, RemovedAt
  <2>6. PendingShrinks
    <3>1. ASSUME NEW k \in 1..Len(pending')
          PROVE  \E j \in 1..Len(pending) :
                    pending'[k] = pending[j] /\ (j = Len(pending) => k = Len(pending'))
      <4>1. /\ k \in Int /\ i \in Int /\ 1 <= k /\ k <= Len(pending) - 1
            /\ 1 <= i /\ i <= Len(pending)
        BY <1>2, <1>3, <2>1, <3>1
      <4>2. k \in 1..(Len(pending) - 1)
        BY <1>3, <4>1
      <4>3. pending'[k] = IF k <= i - 1 THEN pending[k] ELSE pending[k + 1]
        BY <2>1, <4>2
      <4>4. CASE k <= i - 1
        <5>1. k \in 1..Len(pending) /\ k # Len(pending) /\ pending'[k] = pending[k]
          BY <1>3, <4>1, <4>3, <4>4
        <5> QED
          BY <5>1
      <4>5. CASE ~(k <= i - 1)
        <5>1. k + 1 \in 1..Len(pending) /\ pending'[k] = pending[k + 1]
          BY <1>3, <4>1, <4>3, <4>5
        <5>2. k + 1 = Len(pending) => k = Len(pending')
          BY <1>3, <2>1, <4>1
        <5> QED
          BY <5>1, <5>2
      <4> QED
        BY <4>4, <4>5
    <3> QED
      BY <1>3, <2>1, <3>1 DEF PendingShrinks
  <2> QED
    BY <1>1, <1>3, <2>6, PagesOfPending
<1> QED
  BY <1>2, <1>5, <1>6

LEMMA NextIndex ==
  ASSUME NEW m \in Nat, NEW n, n = m - 1, NEW i \in 1..n
  PROVE  i + 1 \in 1..m /\ (i + 1 = m => i = n)
OBVIOUS

\* The first pending navigation goes.
LEMMA PendingAdvances ==
  ASSUME TypeOK, pending # <<>>, pending' = Tail(pending)
  PROVE  /\ pending[1] = Head(pending) /\ Head(pending) \in Loads
         /\ Len(pending) \in Nat \ {0} /\ Len(pending') = Len(pending) - 1
         /\ \A i \in 1..Len(pending') : i + 1 \in 1..Len(pending) /\ pending'[i] = pending[i + 1]
         /\ pending' \in Seq(Loads) /\ PendingShrinks
<1>1. pending \in Seq(Loads)
  BY DEF TypeOK
<1>2. Len(pending) \in Nat \ {0}
  BY <1>1, LenProperties, EmptySeq
<1>3. /\ Head(pending) \in Loads /\ Len(pending') = Len(pending) - 1 /\ pending' \in Seq(Loads)
      /\ \A i \in 1..Len(pending') : pending'[i] = pending[i + 1]
  BY <1>1, HeadTailProperties
<1>4. pending[1] = Head(pending)
  BY <1>1
<1>5. \A i \in 1..Len(pending') : i + 1 \in 1..Len(pending) /\ (i + 1 = Len(pending) => i = Len(pending'))
  BY <1>2, <1>3, NextIndex
<1>6. Len(pending) \in Nat /\ Len(pending') \in Nat
  BY <1>2, <1>3
<1>7. PendingShrinks
  BY <1>3, <1>5, <1>6 DEF PendingShrinks
<1> QED
  BY <1>2, <1>3, <1>4, <1>5, <1>7

LEMMA PagesOfDrop ==
  ASSUME TypeOK, PageInv, DropNavigation
  PROVE  PageInv'
  BY PendingAdvances, PagesOfPending DEF DropNavigation

\* The page that commits is the first pending one; the Host's is also the last.
LEMMA PagesOfStart ==
  ASSUME TypeOK, PageInv, StartPage
  PROVE  PageInv'
<1>1. /\ mainTask = NoTask /\ pending # <<>> /\ pending' = Tail(pending)
      /\ page' = Head(pending).url
      /\ UNCHANGED <<snapshot, generation, hostGeneration, navigationGeneration, attempt,
                     mainQueue, mainTask>>
  BY DEF StartPage
<1>2. /\ pending[1] = Head(pending) /\ Head(pending) \in Loads
      /\ Len(pending) \in Nat \ {0} /\ Len(pending') = Len(pending) - 1
      /\ \A i \in 1..Len(pending') : i + 1 \in 1..Len(pending) /\ pending'[i] = pending[i + 1]
      /\ pending' \in Seq(Loads)
  BY <1>1, PendingAdvances
<1>3. \/ loadGeneration' = loadGeneration
      \/ loadGeneration' = generation /\ navigationGeneration = generation
  BY DEF StartPage
<1>4. 1 \in 1..Len(pending) /\ NoTask.to = "none"
  BY <1>2 DEF NoTask
<1>5. PagesOpened'
  BY <1>1, <1>2, <1>4 DEF PageInv, PagesOpened
<1>6. TokensCoherent'
  BY <1>1, <1>3, <1>4 DEF PageInv, TokensCoherent
<1>7. ASSUME NEW g \in Generations, attempt'[g] \in Early PROVE Unannounced(g)'
  <2>1. Unannounced(g)
    BY <1>1, <1>7 DEF PageInv
  <2>2. page' # g /\ \A i \in 1..Len(pending') : pending'[i].url # g
    BY <1>1, <1>2, <1>4, <2>1 DEF Unannounced
  <2> QED
    BY <1>1, <2>1, <2>2 DEF Unannounced
<1>8. ASSUME hostGeneration # None PROVE HostPageComesOnce'
  <2>1. HostPageComesOnce /\ generation' = generation
    BY <1>1, <1>8 DEF PageInv
  <2>2. NotQueued' = NotQueued /\ QueuedOnce' = QueuedOnce
    BY <1>1 DEF NotQueued, QueuedOnce
  <2>3. ASSUME page' = generation PROVE pending' = <<>> /\ NotQueued
    <3>1. pending[1].url = generation
      BY <1>1, <1>2, <2>3
    <3>2. Len(pending) = 1 /\ NotQueued
      BY <1>4, <1>8, <2>1, <3>1 DEF HostPageComesOnce
    <3> QED
      BY <1>2, <3>2, EmptySeq
  <2>4. \A i \in 1..Len(pending') : pending'[i].url = generation => i = Len(pending') /\ NotQueued
    BY <1>2, <1>8, <2>1 DEF HostPageComesOnce
  <2>5. QueuedOnce
    BY <1>8, <2>1 DEF HostPageComesOnce
  <2>6. \A i \in 1..Len(mainQueue') : mainQueue'[i].gen = generation' => mainQueue'[i].to = "host"
    BY <1>1, <1>8, <2>1 DEF HostPageComesOnce
  <2> QED
    BY <1>1, <1>4, <2>2, <2>3, <2>4, <2>5, <2>6 DEF HostPageComesOnce
<1>9. HostPageComesOnce'
  <2>1. CASE hostGeneration = None
    BY <1>1, <2>1 DEF HostPageComesOnce
  <2> QED
    BY <1>8, <2>1
<1>10. snapshot # "Ready"
  BY <1>1 DEF PageInv, ReadyInv, ReadyShowsCurrentHost, TokensCoherent, HostPageComesOnce
<1>11. ReadyInv'
  BY <1>1, <1>10 DEF ReadyInv, ReadyShowsCurrentHost
<1> QED
  BY <1>5, <1>6, <1>7, <1>9, <1>11 DEF PageInv

\* Ready is said of the page that has just finished.
LEMMA PagesOfFinish ==
  ASSUME ControlInv, PageInv, FinishPage
  PROVE  PageInv'
<1>1. /\ finished' = TRUE
      /\ UNCHANGED <<generation, hostGeneration, attempt, mainQueue, mainTask, page, pending>>
      /\ \/ IsCurrentHostPage /\ navigationGeneration' = None /\ loadGeneration' = None
         \/ UNCHANGED <<snapshot, navigationGeneration, loadGeneration>>
  BY DEF FinishPage
<1>2. IsCurrentHostPage => hostGeneration = generation /\ page = generation /\ generation # 0
  BY DEF IsCurrentHostPage, CurrentCliIsAlive, IsCurrent, Waiting, ControlInv, StateMatchesAttempt
<1>3. ReadyInv'
  BY <1>1, <1>2 DEF PageInv, ReadyInv, ReadyShowsCurrentHost
<1>4. PagesOpened' /\ TokensCoherent'
  BY <1>1 DEF PageInv, PagesOpened, TokensCoherent
<1>5. ASSUME NEW g \in Generations, attempt'[g] \in Early PROVE Unannounced(g)'
  BY <1>1, <1>5 DEF PageInv, Unannounced
<1>6. HostPageComesOnce'
  BY <1>1 DEF PageInv, HostPageComesOnce, NotQueued, QueuedOnce
<1> QED
  BY <1>3, <1>4, <1>5, <1>6 DEF PageInv

\* An attempt that is not about to announce its Host, or comes nearer to it.
LEMMA AttemptNoneEarlier ==
  ASSUME TypeOK, NEW g \in Generations, NEW pc, attempt' = [attempt EXCEPT ![g] = pc],
         pc \in Early => attempt[g] \in Early
  PROVE  NoneEarlier
  BY DEF TypeOK, NoneEarlier

LEMMA AttemptKeepsPages ==
  ASSUME ControlInv, PageInv, NEW g \in Generations, AttemptStep(g)
  PROVE  PageInv'
<1>1. TypeOK
  BY DEF ControlInv
<1>2. CASE SpawnCli(g) \/ SpawnFails(g) \/ SpawnCleanupFails(g) \/ SpawnCancelled(g)
  <2>1. PICK pc \in {"spawned", "failing", "cleanupFailing", "done"} :
            attempt' = [attempt EXCEPT ![g] = pc] /\ attempt[g] = "gate"
    BY <1>2 DEF SpawnCli, SpawnFails, SpawnCleanupFails, SpawnCancelled, Goto
  <2>2. NoneEarlier
    BY <1>1, <2>1, AttemptNoneEarlier DEF Early
  <2>3. UNCHANGED <<lifecycle, uiVars>>
    BY <1>2 DEF SpawnCli, SpawnFails, SpawnCleanupFails, SpawnCancelled
  <2> QED
    BY <2>2, <2>3, PagesUntouched
<1>3. CASE StoreCli(g) \/ DiscardCli(g) \/ DiscardEnds(g)
  <2>1. PICK pc \in {"publishing", "discarding", "failing", "cleanupFailing", "leaked"} :
            attempt' = [attempt EXCEPT ![g] = pc] /\ attempt[g] \in {"spawned", "discarding"}
    BY <1>3 DEF StoreCli, DiscardCli, DiscardEnds, Goto
  <2>2. NoneEarlier
    BY <1>1, <2>1, AttemptNoneEarlier DEF Early
  <2>3. UNCHANGED <<lifecycle, uiVars>>
    BY <1>3 DEF StoreCli, DiscardCli, DiscardEnds
  <2> QED
    BY <2>2, <2>3, PagesUntouched
<1>4. CASE PublishWaiting(g) \/ ProlongStartup(g) \/ ProbeReady(g)
  <2>1. NoneEarlier
    BY <1>1, <1>4, AttemptNoneEarlier DEF PublishWaiting, ProlongStartup, ProbeReady, Goto, Early, NoneEarlier
  <2>2. UNCHANGED <<generation, tokens, uiVars>> /\ (snapshot' = "Ready" => snapshot = "Ready")
    BY <1>4 DEF PublishWaiting, ProlongStartup, ProbeReady
  <2> QED
    BY <2>1, <2>2, PagesUntouched
<1>5. CASE SetReadyHostOrigin(g)
  BY <1>1, <1>5, PagesOfAnnouncement
<1>6. CASE AnnounceDeadCli(g) \/ ObserveExit(g) \/ ObserveError(g) \/ Superseded(g)
  <2>1. PICK pc \in {"aborting", "done"} : attempt' = [attempt EXCEPT ![g] = pc]
    BY <1>6 DEF AnnounceDeadCli, ObserveExit, ObserveError, Superseded, Goto
  <2>2. NoneEarlier
    BY <1>1, <2>1, AttemptNoneEarlier DEF Early
  <2>3. UNCHANGED <<lifecycle, uiVars>>
    BY <1>6 DEF AnnounceDeadCli, ObserveExit, ObserveError, Superseded
  <2> QED
    BY <2>2, <2>3, PagesUntouched
<1>7. CASE AbortBegin(g) \/ AbortEnds(g) \/ ClearProcess(g)
  <2>1. PICK pc \in {"stopping", "clearing", "failing", "cleanupFailing"} :
            attempt' = [attempt EXCEPT ![g] = pc]
    BY <1>7 DEF AbortBegin, AbortEnds, ClearProcess, Goto
  <2>2. NoneEarlier
    BY <1>1, <2>1, AttemptNoneEarlier DEF Early
  <2>3. UNCHANGED <<lifecycle, uiVars>>
    BY <1>7 DEF AbortBegin, AbortEnds, ClearProcess
  <2> QED
    BY <2>2, <2>3, PagesUntouched
<1>8. CASE ReportFailure(g)
  <2>1. attempt' = [attempt EXCEPT ![g] = "done"] /\ UNCHANGED webVars
    BY <1>8 DEF ReportFailure, Goto
  <2>2. NoneEarlier /\ attempt'[g] \notin Early
    BY <1>1, <2>1, AttemptNoneEarlier DEF Early, TypeOK
  <2>3. FailAttempt(g, "other") \/ FailAttempt(g, "CleanupFailed")
    BY <1>8 DEF ReportFailure
  <2> QED
    BY <1>1, <2>1, <2>2, <2>3, PagesOfFailure
<1> QED
  BY <1>2, <1>3, <1>4, <1>5, <1>6, <1>7, <1>8 DEF AttemptStep

LEMMA RetryKeepsPages ==
  ASSUME ControlInv, PageInv, RetryStep
  PROVE  PageInv'
<1>1. TypeOK
  BY DEF ControlInv
<1>2. CASE BeginRetryCleanup
  BY <1>1, <1>2, PagesOfOldGeneration DEF BeginRetryCleanup
<1>3. CASE RetryStarts
  <2>1. /\ OpenGeneration("Starting") /\ UNCHANGED uiVars
        /\ attempt' = [attempt EXCEPT ![generation + 1] = "gate"]
    BY <1>3 DEF RetryStarts, StartAttempt
  <2>2. \A g \in Generations : attempt'[g] \in Early => attempt[g] \in Early \/ g = generation + 1
    BY <1>1, <2>1 DEF TypeOK
  <2> QED
    BY <1>1, <2>1, <2>2, PagesOfOldGeneration
<1>4. CASE RetryFails
  BY <1>1, <1>4, PagesOfFailedRetry DEF RetryFails
<1>5. CASE AbandonRetry \/ TakeForRetry \/ RetryStopBegin \/ RetryStopEnds \/ RetryRestarts
  <2>1. UNCHANGED <<lifecycle, attempt, uiVars>>
    BY <1>5 DEF AbandonRetry, TakeForRetry, RetryStopBegin, RetryStopEnds, RetryRestarts
  <2> QED
    BY <2>1, PagesUntouched DEF NoneEarlier
<1>6. CASE LeaverPosts
  BY <1>6, PagesOfLeaver
<1>7. CASE LeaverLeaves
  BY <1>7, PagesUntouched DEF LeaverLeaves, NoneEarlier
<1> QED
  BY <1>2, <1>3, <1>4, <1>5, <1>6, <1>7 DEF RetryStep

LEMMA PagesKept ==
  ASSUME ControlInv, PageInv, [Next]_vars
  PROVE  PageInv'
<1>1. TypeOK
  BY DEF ControlInv
<1>2. CASE Setup
  <2>1. /\ OpenGeneration("Starting") /\ UNCHANGED uiVars
        /\ attempt' = [attempt EXCEPT ![generation + 1] = "gate"]
    BY <1>2 DEF Setup, StartAttempt
  <2>2. \A g \in Generations : attempt'[g] \in Early => attempt[g] \in Early \/ g = generation + 1
    BY <1>1, <2>1 DEF TypeOK
  <2> QED
    BY <1>1, <2>1, <2>2, PagesOfOldGeneration
<1>3. ASSUME NEW g \in Generations, AttemptStep(g) \/ LeaderExits(g) \/ DescendantsExit(g)
      PROVE  PageInv'
  <2>1. LeaderExits(g) \/ DescendantsExit(g) => UNCHANGED <<lifecycle, attempt, uiVars>>
    BY DEF LeaderExits, DescendantsExit
  <2> QED
    BY <1>3, <2>1, AttemptKeepsPages, PagesUntouched DEF NoneEarlier
<1>4. CASE RequestRetry \/ RequestShutdown
  <2>1. UNCHANGED <<lifecycle, attempt, uiVars>>
    BY <1>4 DEF RequestRetry, RequestShutdown
  <2> QED
    BY <2>1, PagesUntouched DEF NoneEarlier
<1>5. CASE RetryStep
  BY <1>5, RetryKeepsPages
<1>6. CASE ShutdownStep
  <2>1. CASE BeginShutdown
    BY <1>1, <2>1, PagesOfOldGeneration DEF BeginShutdown
  <2>2. CASE TakeForShutdown \/ ShutdownStopBegin \/ ShutdownStopEnds \/ ExitApp
    <3>1. UNCHANGED <<lifecycle, attempt, uiVars>>
      BY <2>2 DEF TakeForShutdown, ShutdownStopBegin, ShutdownStopEnds, ExitApp
    <3> QED
      BY <3>1, PagesUntouched DEF NoneEarlier
  <2> QED
    BY <1>6, <2>1, <2>2 DEF ShutdownStep
<1>7. CASE MainStep
  BY <1>1, <1>7, PagesOfHostTask, PagesOfStartupTask, PagesOfNavigation, PagesOfRefusedNavigation
     DEF MainStep
<1>8. CASE WebViewStep
  BY <1>1, <1>8, PagesOfDecision, PagesOfDrop, PagesOfStart, PagesOfFinish DEF WebViewStep
<1>9. CASE UNCHANGED vars
  BY <1>9, PagesUntouched DEF vars, NoneEarlier
<1> QED
  BY <1>2, <1>3, <1>4, <1>5, <1>6, <1>7, <1>8, <1>9 DEF Next, Exited

(* Ready is published for the page the user looks at, of the CLI of the       *)
(* current generation, and stays true of it: no late page event, task or      *)
(* navigation puts another page behind it, for every number of generations    *)
(* and with a window that may refuse to navigate (mark_client_page_loaded).   *)
THEOREM ReadyIsTrue == Spec => []ReadyShowsCurrentHost
<1>1. Init => PageInv
  <2> SUFFICES ASSUME Init PROVE PageInv
    OBVIOUS
  <2>1. Len(mainQueue) = 0 /\ Len(pending) = 0 /\ NoTask.to = "none"
    BY EmptySeq DEF Init, NoTask
  <2>2. PagesOpened /\ TokensCoherent
    BY <2>1 DEF Init, PagesOpened, TokensCoherent
  <2>3. \A g \in Generations : attempt[g] \notin Early
    BY DEF Init, Early
  <2>4. HostPageComesOnce /\ ReadyInv
    BY DEF Init, HostPageComesOnce, ReadyInv, ReadyShowsCurrentHost
  <2> QED
    BY <2>2, <2>3, <2>4 DEF PageInv
<1>2. ControlInv /\ PageInv /\ [Next]_vars => PageInv'
  BY PagesKept
<1>3. PageInv => ReadyShowsCurrentHost
  BY DEF PageInv, ReadyInv
<1> QED
  BY ControlInvariant, <1>1, <1>2, <1>3, PTL DEF Spec
=============================================================================
