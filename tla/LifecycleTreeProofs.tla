------------------------- MODULE LifecycleTreeProofs -------------------------
(***************************************************************************)
(* At most one Host: what holds of the CLI trees when a CLI that is        *)
(* created is always attached to its owner or terminated (AttachMayFail =  *)
(* FALSE: Unix, and Windows while the Job object works), and that          *)
(* DesktopLifecycle then implements OneHost.                               *)
(***************************************************************************)
EXTENDS LifecycleControlProofs

USE ConstantsAssumption
    DEF AppRuns, lifecycle, tokens, flags, cliVars, retryVars, shutdownVars, webVars,
        controlVars, uiVars, Generations, None

-----------------------------------------------------------------------------
\* The tree invariant, one conjunct at a time.

(* A stop that succeeds ends one tree; one that fails leaves them all.        *)
LEMMA StopEndsTrees ==
  ASSUME TypeOK, NEW g \in Generations
  PROVE  /\ StopSucceeds(g) => cli' = [cli EXCEPT ![g] = "gone"]
         /\ StopFails(g) => cli' = cli
  BY DEF StopSucceeds, StopFails

(* Only spawn_direct_cli adds a tree, and only where none lives.              *)
LEMMA SingleKept ==
  ASSUME AttachMayFail = FALSE, ControlInv, TreeInv, [Next]_vars
  PROVE  SingleHost'
<1> USE DEF ControlInv, TreeInv, TypeOK, GateDiscipline, RetryCoherent,
         ShutdownCoherent, AttemptCoherent, StateMatchesAttempt, Creating,
         BeforeWaiting, Watching, Failing, RetryHolding, RetryBusy, GateFree,
         IsCurrent, TreeLive, SingleHost, NoLiveTree, NothingLivesBelow
<1>1. CASE Setup
  BY <1>1 DEF Setup, OpenGeneration, StartAttempt, ResetHostObservation
<1>2. ASSUME NEW g \in Generations, SpawnCli(g) PROVE SingleHost'
  BY <1>2 DEF SpawnCli, Goto
<1>3. ASSUME NEW g \in Generations, SpawnFails(g) PROVE SingleHost'
  BY <1>3 DEF SpawnFails, Goto
<1>4. ASSUME NEW g \in Generations, SpawnCleanupFails(g) PROVE SingleHost'
  BY <1>4 DEF SpawnCleanupFails, Goto
<1>5. ASSUME NEW g \in Generations, SpawnCancelled(g) PROVE SingleHost'
  BY <1>5 DEF SpawnCancelled, Goto
<1>6. ASSUME NEW g \in Generations, StoreCli(g) PROVE SingleHost'
  BY <1>6 DEF StoreCli, Goto
<1>7. ASSUME NEW g \in Generations, DiscardCli(g) PROVE SingleHost'
  BY <1>7 DEF DiscardCli, Goto, StopBegin
<1>8. ASSUME NEW g \in Generations, DiscardEnds(g) PROVE SingleHost'
  BY <1>8, StopEndsTrees DEF DiscardEnds, Goto
<1>9. ASSUME NEW g \in Generations, PublishWaiting(g) PROVE SingleHost'
  BY <1>9 DEF PublishWaiting, Goto
<1>10. ASSUME NEW g \in Generations, ProlongStartup(g) PROVE SingleHost'
  BY <1>10 DEF ProlongStartup
<1>11. ASSUME NEW g \in Generations, ProbeReady(g) PROVE SingleHost'
  BY <1>11 DEF ProbeReady, Goto
<1>12. ASSUME NEW g \in Generations, SetReadyHostOrigin(g) PROVE SingleHost'
  BY <1>12 DEF SetReadyHostOrigin, Goto
<1>13. ASSUME NEW g \in Generations, AnnounceDeadCli(g) PROVE SingleHost'
  BY <1>13 DEF AnnounceDeadCli, Goto
<1>14. ASSUME NEW g \in Generations, ObserveExit(g) PROVE SingleHost'
  BY <1>14 DEF ObserveExit, Goto
<1>15. ASSUME NEW g \in Generations, ObserveError(g) PROVE SingleHost'
  BY <1>15 DEF ObserveError, Goto
<1>16. ASSUME NEW g \in Generations, Superseded(g) PROVE SingleHost'
  BY <1>16 DEF Superseded, Goto
<1>17. ASSUME NEW g \in Generations, AbortBegin(g) PROVE SingleHost'
  BY <1>17 DEF AbortBegin, Goto, StopBegin
<1>18. ASSUME NEW g \in Generations, AbortEnds(g) PROVE SingleHost'
  <2>1. cli' = [cli EXCEPT ![g] = "gone"] \/ cli' = cli
    BY <1>18, StopEndsTrees DEF AbortEnds
  <2> QED
    BY <2>1
<1>19. ASSUME NEW g \in Generations, ReportFailure(g) PROVE SingleHost'
  BY <1>19 DEF ReportFailure, Goto, FailAttempt, PublishFailed, ResetHostObservation
<1>20. ASSUME NEW g \in Generations, LeaderExits(g) PROVE SingleHost'
  BY <1>20 DEF LeaderExits
<1>21. ASSUME NEW g \in Generations, DescendantsExit(g) PROVE SingleHost'
  BY <1>21 DEF DescendantsExit
<1>22. CASE RequestRetry
  BY <1>22 DEF RequestRetry
<1>23. CASE BeginRetryCleanup
  BY <1>23 DEF BeginRetryCleanup, OpenGeneration, ResetHostObservation
<1>24. CASE AbandonRetry
  BY <1>24 DEF AbandonRetry
<1>25. CASE TakeForRetry
  BY <1>25 DEF TakeForRetry
<1>26. CASE RetryStopBegin
  BY <1>26 DEF RetryStopBegin, StopBegin
<1>27. CASE RetryStopEnds
  <2>1. retryCli \in Generations
    BY <1>27 DEF RetryStopEnds
  <2>2. cli' = [cli EXCEPT ![retryCli] = "gone"] \/ cli' = cli
    BY <1>27, <2>1, StopEndsTrees DEF RetryStopEnds
  <2>3. SingleHost /\ cli \in [Generations -> CliStates]
    OBVIOUS
  <2> HIDE DEF ControlInv, TreeInv, TypeOK
  <2> QED
    BY <2>1, <2>2, <2>3
<1>28. CASE RetryRestarts
  BY <1>28 DEF RetryRestarts
<1>29. CASE RetryStarts
  BY <1>29 DEF RetryStarts, OpenGeneration, StartAttempt, ResetHostObservation
<1>30. CASE RetryFails
  BY <1>30 DEF RetryFails, PublishFailed, ResetHostObservation
<1>31. CASE RequestShutdown
  BY <1>31 DEF RequestShutdown
<1>32. CASE BeginShutdown
  BY <1>32 DEF BeginShutdown, OpenGeneration, ResetHostObservation
<1>33. CASE TakeForShutdown
  BY <1>33 DEF TakeForShutdown
<1>34. CASE ShutdownStopBegin
  BY <1>34 DEF ShutdownStopBegin, StopBegin
<1>35. CASE ShutdownStopEnds
  BY <1>35, StopEndsTrees DEF ShutdownStopEnds
<1>36. CASE ExitApp
  BY <1>36 DEF ExitApp
<1>37. CASE TakeHostTask
  BY <1>37 DEF TakeHostTask
<1>38. CASE TakeStartupTask
  BY <1>38 DEF TakeStartupTask, ResetHostObservation
<1>39. CASE Navigate
  BY <1>39 DEF Navigate, NoTask
<1>40. CASE NavigateFails
  BY <1>40 DEF NavigateFails
<1>41. CASE DecideNavigation
  BY <1>41 DEF DecideNavigation
<1>42. CASE DropNavigation
  BY <1>42 DEF DropNavigation
<1>43. CASE StartPage
  BY <1>43 DEF StartPage
<1>44. CASE FinishPage
  BY <1>44 DEF FinishPage
<1>45. CASE UNCHANGED vars
  BY <1>45 DEF vars
<1>46. ASSUME NEW g \in Generations, ClearProcess(g) PROVE SingleHost'
  BY <1>46 DEF ClearProcess, Goto
<1>47. CASE LeaverPosts
  BY <1>47 DEF LeaverPosts
<1>48. CASE LeaverLeaves
  BY <1>48 DEF LeaverLeaves
<1> QED
  BY <1>1, <1>2, <1>3, <1>4, <1>5, <1>6, <1>7, <1>8, <1>9, <1>10, <1>11, <1>12, <1>13,
     <1>14, <1>15, <1>16, <1>17, <1>18, <1>19, <1>20, <1>21, <1>22, <1>23, <1>24,
     <1>25, <1>26, <1>27, <1>28, <1>29, <1>30, <1>31, <1>32, <1>33, <1>34, <1>35,
     <1>36, <1>37, <1>38, <1>39, <1>40, <1>41, <1>42, <1>43, <1>44, <1>45, <1>46,
     <1>47, <1>48 DEF Next,
     AttemptStep, RetryStep, ShutdownStep, MainStep, WebViewStep, Exited

(* Whoever empties the slot has the tree in hand, until it is gone or a       *)
(* shutdown has given it up.                                                  *)
LEMMA OwnerKept ==
  ASSUME AttachMayFail = FALSE, ControlInv, TreeInv, [Next]_vars
  PROVE  LiveTreeHasOwner'
<1> USE DEF ControlInv, TreeInv, TypeOK, GateDiscipline, RetryCoherent,
         ShutdownCoherent, AttemptCoherent, StateMatchesAttempt, Creating,
         BeforeWaiting, Watching, Failing, RetryHolding, RetryBusy, GateFree,
         IsCurrent, TreeLive, SingleHost, LiveTreeHasOwner,
         NothingStoredAfterShutdownTook
<1>1. CASE Setup
  BY <1>1 DEF Setup, OpenGeneration, StartAttempt, ResetHostObservation
<1>2. ASSUME NEW g \in Generations, SpawnCli(g) PROVE LiveTreeHasOwner'
  BY <1>2 DEF SpawnCli, Goto
<1>3. ASSUME NEW g \in Generations, SpawnFails(g) PROVE LiveTreeHasOwner'
  BY <1>3 DEF SpawnFails, Goto
<1>4. ASSUME NEW g \in Generations, SpawnCleanupFails(g) PROVE LiveTreeHasOwner'
  BY <1>4 DEF SpawnCleanupFails, Goto
<1>5. ASSUME NEW g \in Generations, SpawnCancelled(g) PROVE LiveTreeHasOwner'
  BY <1>5 DEF SpawnCancelled, Goto
<1>6. ASSUME NEW g \in Generations, StoreCli(g) PROVE LiveTreeHasOwner'
  BY <1>6 DEF StoreCli, Goto
<1>7. ASSUME NEW g \in Generations, DiscardCli(g) PROVE LiveTreeHasOwner'
  BY <1>7 DEF DiscardCli, Goto, StopBegin
<1>8. ASSUME NEW g \in Generations, DiscardEnds(g) PROVE LiveTreeHasOwner'
  BY <1>8, StopEndsTrees DEF DiscardEnds, Goto
<1>9. ASSUME NEW g \in Generations, PublishWaiting(g) PROVE LiveTreeHasOwner'
  BY <1>9 DEF PublishWaiting, Goto
<1>10. ASSUME NEW g \in Generations, ProlongStartup(g) PROVE LiveTreeHasOwner'
  BY <1>10 DEF ProlongStartup
<1>11. ASSUME NEW g \in Generations, ProbeReady(g) PROVE LiveTreeHasOwner'
  BY <1>11 DEF ProbeReady, Goto
<1>12. ASSUME NEW g \in Generations, SetReadyHostOrigin(g) PROVE LiveTreeHasOwner'
  BY <1>12 DEF SetReadyHostOrigin, Goto
<1>13. ASSUME NEW g \in Generations, AnnounceDeadCli(g) PROVE LiveTreeHasOwner'
  BY <1>13 DEF AnnounceDeadCli, Goto
<1>14. ASSUME NEW g \in Generations, ObserveExit(g) PROVE LiveTreeHasOwner'
  BY <1>14 DEF ObserveExit, Goto
<1>15. ASSUME NEW g \in Generations, ObserveError(g) PROVE LiveTreeHasOwner'
  BY <1>15 DEF ObserveError, Goto
<1>16. ASSUME NEW g \in Generations, Superseded(g) PROVE LiveTreeHasOwner'
  BY <1>16 DEF Superseded, Goto
<1>17. ASSUME NEW g \in Generations, AbortBegin(g) PROVE LiveTreeHasOwner'
  BY <1>17 DEF AbortBegin, Goto, StopBegin
<1>18. ASSUME NEW g \in Generations, AbortEnds(g) PROVE LiveTreeHasOwner'
  BY <1>18, StopEndsTrees DEF AbortEnds, Goto
<1>19. ASSUME NEW g \in Generations, ReportFailure(g) PROVE LiveTreeHasOwner'
  BY <1>19 DEF ReportFailure, Goto, FailAttempt, PublishFailed, ResetHostObservation
<1>20. ASSUME NEW g \in Generations, LeaderExits(g) PROVE LiveTreeHasOwner'
  BY <1>20 DEF LeaderExits
<1>21. ASSUME NEW g \in Generations, DescendantsExit(g) PROVE LiveTreeHasOwner'
  BY <1>21 DEF DescendantsExit
<1>22. CASE RequestRetry
  BY <1>22 DEF RequestRetry
<1>23. CASE BeginRetryCleanup
  BY <1>23 DEF BeginRetryCleanup, OpenGeneration, ResetHostObservation
<1>24. CASE AbandonRetry
  BY <1>24 DEF AbandonRetry
<1>25. CASE TakeForRetry
  BY <1>25 DEF TakeForRetry
<1>26. CASE RetryStopBegin
  BY <1>26 DEF RetryStopBegin, StopBegin
<1>27. CASE RetryStopEnds
  BY <1>27, StopEndsTrees DEF RetryStopEnds
<1>28. CASE RetryRestarts
  BY <1>28 DEF RetryRestarts
<1>29. CASE RetryStarts
  BY <1>29 DEF RetryStarts, OpenGeneration, StartAttempt, ResetHostObservation
<1>30. CASE RetryFails
  BY <1>30 DEF RetryFails, PublishFailed, ResetHostObservation
<1>31. CASE RequestShutdown
  BY <1>31 DEF RequestShutdown
<1>32. CASE BeginShutdown
  BY <1>32 DEF BeginShutdown, OpenGeneration, ResetHostObservation
<1>33. CASE TakeForShutdown
  BY <1>33 DEF TakeForShutdown
<1>34. CASE ShutdownStopBegin
  BY <1>34 DEF ShutdownStopBegin, StopBegin
<1>35. CASE ShutdownStopEnds
  BY <1>35, StopEndsTrees DEF ShutdownStopEnds
<1>36. CASE ExitApp
  BY <1>36 DEF ExitApp
<1>37. CASE TakeHostTask
  BY <1>37 DEF TakeHostTask
<1>38. CASE TakeStartupTask
  BY <1>38 DEF TakeStartupTask, ResetHostObservation
<1>39. CASE Navigate
  BY <1>39 DEF Navigate, NoTask
<1>40. CASE NavigateFails
  BY <1>40 DEF NavigateFails
<1>41. CASE DecideNavigation
  BY <1>41 DEF DecideNavigation
<1>42. CASE DropNavigation
  BY <1>42 DEF DropNavigation
<1>43. CASE StartPage
  BY <1>43 DEF StartPage
<1>44. CASE FinishPage
  BY <1>44 DEF FinishPage
<1>45. CASE UNCHANGED vars
  BY <1>45 DEF vars
<1>46. ASSUME NEW g \in Generations, ClearProcess(g) PROVE LiveTreeHasOwner'
  <2>1. ~TreeLive(g)
    BY <1>46 DEF ClearProcess, NothingLivesBelow
  <2>2. \A h \in Generations : h # g => (slot' = h <=> slot = h)
    BY <1>46 DEF ClearProcess
  <2>3. /\ \A h \in Generations : h # g => attempt'[h] = attempt[h]
        /\ UNCHANGED <<cli, retryCli, shutdownCli, shutdown>>
    BY <1>46 DEF ClearProcess, Goto
  <2> QED
    BY <2>1, <2>2, <2>3
<1>47. CASE LeaverPosts
  BY <1>47 DEF LeaverPosts
<1>48. CASE LeaverLeaves
  BY <1>48 DEF LeaverLeaves
<1> QED
  BY <1>1, <1>2, <1>3, <1>4, <1>5, <1>6, <1>7, <1>8, <1>9, <1>10, <1>11, <1>12, <1>13,
     <1>14, <1>15, <1>16, <1>17, <1>18, <1>19, <1>20, <1>21, <1>22, <1>23, <1>24,
     <1>25, <1>26, <1>27, <1>28, <1>29, <1>30, <1>31, <1>32, <1>33, <1>34, <1>35,
     <1>36, <1>37, <1>38, <1>39, <1>40, <1>41, <1>42, <1>43, <1>44, <1>45, <1>46,
     <1>47, <1>48 DEF Next,
     AttemptStep, RetryStep, ShutdownStep, MainStep, WebViewStep, Exited

(* A Retry reaches its new attempt, and an attempt its plain failure, only    *)
(* with every tree gone.                                                      *)
LEMMA BelowKept ==
  ASSUME AttachMayFail = FALSE, ControlInv, TreeInv, [Next]_vars
  PROVE  NothingLivesBelow'
<1> USE DEF ControlInv, TreeInv, TypeOK, GateDiscipline, RetryCoherent,
         ShutdownCoherent, AttemptCoherent, StateMatchesAttempt, Creating,
         BeforeWaiting, Watching, Failing, RetryHolding, RetryBusy, GateFree,
         IsCurrent, TreeLive, SingleHost, LiveTreeHasOwner, NoLiveTree,
         NothingLivesBelow, Untouched, RetryAllowed
<1>1. CASE Setup
  BY <1>1 DEF Setup, OpenGeneration, StartAttempt, ResetHostObservation
<1>2. ASSUME NEW g \in Generations, SpawnCli(g) PROVE NothingLivesBelow'
  BY <1>2 DEF SpawnCli, Goto
<1>3. ASSUME NEW g \in Generations, SpawnFails(g) PROVE NothingLivesBelow'
  BY <1>3 DEF SpawnFails, Goto
<1>4. ASSUME NEW g \in Generations, SpawnCleanupFails(g) PROVE NothingLivesBelow'
  BY <1>4 DEF SpawnCleanupFails, Goto
<1>5. ASSUME NEW g \in Generations, SpawnCancelled(g) PROVE NothingLivesBelow'
  BY <1>5 DEF SpawnCancelled, Goto
<1>6. ASSUME NEW g \in Generations, StoreCli(g) PROVE NothingLivesBelow'
  BY <1>6 DEF StoreCli, Goto
<1>7. ASSUME NEW g \in Generations, DiscardCli(g) PROVE NothingLivesBelow'
  BY <1>7 DEF DiscardCli, Goto, StopBegin
<1>8. ASSUME NEW g \in Generations, DiscardEnds(g) PROVE NothingLivesBelow'
  BY <1>8, StopEndsTrees DEF DiscardEnds, Goto
<1>9. ASSUME NEW g \in Generations, PublishWaiting(g) PROVE NothingLivesBelow'
  BY <1>9 DEF PublishWaiting, Goto
<1>10. ASSUME NEW g \in Generations, ProlongStartup(g) PROVE NothingLivesBelow'
  BY <1>10 DEF ProlongStartup
<1>11. ASSUME NEW g \in Generations, ProbeReady(g) PROVE NothingLivesBelow'
  BY <1>11 DEF ProbeReady, Goto
<1>12. ASSUME NEW g \in Generations, SetReadyHostOrigin(g) PROVE NothingLivesBelow'
  BY <1>12 DEF SetReadyHostOrigin, Goto
<1>13. ASSUME NEW g \in Generations, AnnounceDeadCli(g) PROVE NothingLivesBelow'
  BY <1>13 DEF AnnounceDeadCli, Goto
<1>14. ASSUME NEW g \in Generations, ObserveExit(g) PROVE NothingLivesBelow'
  BY <1>14 DEF ObserveExit, Goto
<1>15. ASSUME NEW g \in Generations, ObserveError(g) PROVE NothingLivesBelow'
  BY <1>15 DEF ObserveError, Goto
<1>16. ASSUME NEW g \in Generations, Superseded(g) PROVE NothingLivesBelow'
  BY <1>16 DEF Superseded, Goto
<1>17. ASSUME NEW g \in Generations, AbortBegin(g) PROVE NothingLivesBelow'
  BY <1>17 DEF AbortBegin, Goto, StopBegin
<1>18. ASSUME NEW g \in Generations, AbortEnds(g) PROVE NothingLivesBelow'
  <2>1. \/ cli' = [cli EXCEPT ![g] = "gone"] /\ attempt' = [attempt EXCEPT ![g] = "clearing"]
        \/ cli' = cli /\ attempt' = [attempt EXCEPT ![g] = "cleanupFailing"]
    BY <1>18, StopEndsTrees DEF AbortEnds, Goto
  <2>2. UNCHANGED <<shuttingDown, generation, retry>> /\ attempt[g] = "stopping"
    BY <1>18 DEF AbortEnds
  <2> QED
    BY <2>1, <2>2
<1>19. ASSUME NEW g \in Generations, ReportFailure(g) PROVE NothingLivesBelow'
  BY <1>19 DEF ReportFailure, Goto, FailAttempt, PublishFailed, ResetHostObservation
<1>20. ASSUME NEW g \in Generations, LeaderExits(g) PROVE NothingLivesBelow'
  BY <1>20 DEF LeaderExits
<1>21. ASSUME NEW g \in Generations, DescendantsExit(g) PROVE NothingLivesBelow'
  BY <1>21 DEF DescendantsExit
<1>22. CASE RequestRetry
  BY <1>22 DEF RequestRetry
<1>23. CASE BeginRetryCleanup
  BY <1>23 DEF BeginRetryCleanup, OpenGeneration, ResetHostObservation
<1>24. CASE AbandonRetry
  BY <1>24 DEF AbandonRetry
<1>25. CASE TakeForRetry
  BY <1>25 DEF TakeForRetry
<1>26. CASE RetryStopBegin
  BY <1>26 DEF RetryStopBegin, StopBegin
<1>27. CASE RetryStopEnds
  BY <1>27, StopEndsTrees DEF RetryStopEnds
<1>28. CASE RetryRestarts
  BY <1>28 DEF RetryRestarts
<1>29. CASE RetryStarts
  BY <1>29 DEF RetryStarts, OpenGeneration, StartAttempt, ResetHostObservation
<1>30. CASE RetryFails
  BY <1>30 DEF RetryFails, PublishFailed, ResetHostObservation
<1>31. CASE RequestShutdown
  BY <1>31 DEF RequestShutdown
<1>32. CASE BeginShutdown
  BY <1>32 DEF BeginShutdown, OpenGeneration, ResetHostObservation
<1>33. CASE TakeForShutdown
  BY <1>33 DEF TakeForShutdown
<1>34. CASE ShutdownStopBegin
  BY <1>34 DEF ShutdownStopBegin, StopBegin
<1>35. CASE ShutdownStopEnds
  BY <1>35, StopEndsTrees DEF ShutdownStopEnds
<1>36. CASE ExitApp
  BY <1>36 DEF ExitApp
<1>37. CASE TakeHostTask
  BY <1>37 DEF TakeHostTask
<1>38. CASE TakeStartupTask
  BY <1>38 DEF TakeStartupTask, ResetHostObservation
<1>39. CASE Navigate
  BY <1>39 DEF Navigate, NoTask
<1>40. CASE NavigateFails
  BY <1>40 DEF NavigateFails
<1>41. CASE DecideNavigation
  BY <1>41 DEF DecideNavigation
<1>42. CASE DropNavigation
  BY <1>42 DEF DropNavigation
<1>43. CASE StartPage
  BY <1>43 DEF StartPage
<1>44. CASE FinishPage
  BY <1>44 DEF FinishPage
<1>45. CASE UNCHANGED vars
  BY <1>45 DEF vars
<1>46. ASSUME NEW g \in Generations, ClearProcess(g) PROVE NothingLivesBelow'
  BY <1>46 DEF ClearProcess, Goto
<1>47. CASE LeaverPosts
  BY <1>47 DEF LeaverPosts
<1>48. CASE LeaverLeaves
  BY <1>48 DEF LeaverLeaves
<1> QED
  BY <1>1, <1>2, <1>3, <1>4, <1>5, <1>6, <1>7, <1>8, <1>9, <1>10, <1>11, <1>12, <1>13,
     <1>14, <1>15, <1>16, <1>17, <1>18, <1>19, <1>20, <1>21, <1>22, <1>23, <1>24,
     <1>25, <1>26, <1>27, <1>28, <1>29, <1>30, <1>31, <1>32, <1>33, <1>34, <1>35,
     <1>36, <1>37, <1>38, <1>39, <1>40, <1>41, <1>42, <1>43, <1>44, <1>45, <1>46,
     <1>47, <1>48 DEF Next,
     AttemptStep, RetryStep, ShutdownStep, MainStep, WebViewStep, Exited

(* Failed without CleanupFailed is published with every tree gone, and no     *)
(* tree is created while it is shown.                                         *)
LEMMA FailedKept ==
  ASSUME AttachMayFail = FALSE, ControlInv, TreeInv, [Next]_vars
  PROVE  FailedIsReclaimed'
<1> USE DEF ControlInv, TreeInv, TypeOK, GateDiscipline, RetryCoherent,
         ShutdownCoherent, AttemptCoherent, StateMatchesAttempt, Creating,
         BeforeWaiting, Watching, Failing, RetryHolding, RetryBusy, GateFree,
         IsCurrent, TreeLive, NoLiveTree, NothingLivesBelow, FailedIsReclaimed,
         IsCurrentHostPage, Waiting
<1>1. CASE Setup
  BY <1>1 DEF Setup, OpenGeneration, StartAttempt, ResetHostObservation
<1>2. ASSUME NEW g \in Generations, SpawnCli(g) PROVE FailedIsReclaimed'
  BY <1>2 DEF SpawnCli, Goto
<1>3. ASSUME NEW g \in Generations, SpawnFails(g) PROVE FailedIsReclaimed'
  BY <1>3 DEF SpawnFails, Goto
<1>4. ASSUME NEW g \in Generations, SpawnCleanupFails(g) PROVE FailedIsReclaimed'
  BY <1>4 DEF SpawnCleanupFails, Goto
<1>5. ASSUME NEW g \in Generations, SpawnCancelled(g) PROVE FailedIsReclaimed'
  BY <1>5 DEF SpawnCancelled, Goto
<1>6. ASSUME NEW g \in Generations, StoreCli(g) PROVE FailedIsReclaimed'
  BY <1>6 DEF StoreCli, Goto
<1>7. ASSUME NEW g \in Generations, DiscardCli(g) PROVE FailedIsReclaimed'
  BY <1>7 DEF DiscardCli, Goto, StopBegin
<1>8. ASSUME NEW g \in Generations, DiscardEnds(g) PROVE FailedIsReclaimed'
  BY <1>8, StopEndsTrees DEF DiscardEnds, Goto
<1>9. ASSUME NEW g \in Generations, PublishWaiting(g) PROVE FailedIsReclaimed'
  BY <1>9 DEF PublishWaiting, Goto
<1>10. ASSUME NEW g \in Generations, ProlongStartup(g) PROVE FailedIsReclaimed'
  BY <1>10 DEF ProlongStartup
<1>11. ASSUME NEW g \in Generations, ProbeReady(g) PROVE FailedIsReclaimed'
  BY <1>11 DEF ProbeReady, Goto
<1>12. ASSUME NEW g \in Generations, SetReadyHostOrigin(g) PROVE FailedIsReclaimed'
  BY <1>12 DEF SetReadyHostOrigin, Goto
<1>13. ASSUME NEW g \in Generations, AnnounceDeadCli(g) PROVE FailedIsReclaimed'
  BY <1>13 DEF AnnounceDeadCli, Goto
<1>14. ASSUME NEW g \in Generations, ObserveExit(g) PROVE FailedIsReclaimed'
  BY <1>14 DEF ObserveExit, Goto
<1>15. ASSUME NEW g \in Generations, ObserveError(g) PROVE FailedIsReclaimed'
  BY <1>15 DEF ObserveError, Goto
<1>16. ASSUME NEW g \in Generations, Superseded(g) PROVE FailedIsReclaimed'
  BY <1>16 DEF Superseded, Goto
<1>17. ASSUME NEW g \in Generations, AbortBegin(g) PROVE FailedIsReclaimed'
  BY <1>17 DEF AbortBegin, Goto, StopBegin
<1>18. ASSUME NEW g \in Generations, AbortEnds(g) PROVE FailedIsReclaimed'
  BY <1>18, StopEndsTrees DEF AbortEnds, Goto
<1>19. ASSUME NEW g \in Generations, ReportFailure(g) PROVE FailedIsReclaimed'
  BY <1>19 DEF ReportFailure, Goto, FailAttempt, PublishFailed, ResetHostObservation
<1>20. ASSUME NEW g \in Generations, LeaderExits(g) PROVE FailedIsReclaimed'
  BY <1>20 DEF LeaderExits
<1>21. ASSUME NEW g \in Generations, DescendantsExit(g) PROVE FailedIsReclaimed'
  BY <1>21 DEF DescendantsExit
<1>22. CASE RequestRetry
  BY <1>22 DEF RequestRetry
<1>23. CASE BeginRetryCleanup
  BY <1>23 DEF BeginRetryCleanup, OpenGeneration, ResetHostObservation
<1>24. CASE AbandonRetry
  BY <1>24 DEF AbandonRetry
<1>25. CASE TakeForRetry
  BY <1>25 DEF TakeForRetry
<1>26. CASE RetryStopBegin
  BY <1>26 DEF RetryStopBegin, StopBegin
<1>27. CASE RetryStopEnds
  BY <1>27, StopEndsTrees DEF RetryStopEnds
<1>28. CASE RetryRestarts
  BY <1>28 DEF RetryRestarts
<1>29. CASE RetryStarts
  BY <1>29 DEF RetryStarts, OpenGeneration, StartAttempt, ResetHostObservation
<1>30. CASE RetryFails
  BY <1>30 DEF RetryFails, PublishFailed, ResetHostObservation
<1>31. CASE RequestShutdown
  BY <1>31 DEF RequestShutdown
<1>32. CASE BeginShutdown
  BY <1>32 DEF BeginShutdown, OpenGeneration, ResetHostObservation
<1>33. CASE TakeForShutdown
  BY <1>33 DEF TakeForShutdown
<1>34. CASE ShutdownStopBegin
  BY <1>34 DEF ShutdownStopBegin, StopBegin
<1>35. CASE ShutdownStopEnds
  BY <1>35, StopEndsTrees DEF ShutdownStopEnds
<1>36. CASE ExitApp
  BY <1>36 DEF ExitApp
<1>37. CASE TakeHostTask
  BY <1>37 DEF TakeHostTask
<1>38. CASE TakeStartupTask
  BY <1>38 DEF TakeStartupTask, ResetHostObservation
<1>39. CASE Navigate
  BY <1>39 DEF Navigate, NoTask
<1>40. CASE NavigateFails
  BY <1>40 DEF NavigateFails
<1>41. CASE DecideNavigation
  BY <1>41 DEF DecideNavigation
<1>42. CASE DropNavigation
  BY <1>42 DEF DropNavigation
<1>43. CASE StartPage
  BY <1>43 DEF StartPage
<1>44. CASE FinishPage
  BY <1>44 DEF FinishPage
<1>45. CASE UNCHANGED vars
  BY <1>45 DEF vars
<1>46. ASSUME NEW g \in Generations, ClearProcess(g) PROVE FailedIsReclaimed'
  BY <1>46 DEF ClearProcess, Goto
<1>47. CASE LeaverPosts
  BY <1>47 DEF LeaverPosts
<1>48. CASE LeaverLeaves
  BY <1>48 DEF LeaverLeaves
<1> QED
  BY <1>1, <1>2, <1>3, <1>4, <1>5, <1>6, <1>7, <1>8, <1>9, <1>10, <1>11, <1>12, <1>13,
     <1>14, <1>15, <1>16, <1>17, <1>18, <1>19, <1>20, <1>21, <1>22, <1>23, <1>24,
     <1>25, <1>26, <1>27, <1>28, <1>29, <1>30, <1>31, <1>32, <1>33, <1>34, <1>35,
     <1>36, <1>37, <1>38, <1>39, <1>40, <1>41, <1>42, <1>43, <1>44, <1>45, <1>46,
     <1>47, <1>48 DEF Next,
     AttemptStep, RetryStep, ShutdownStep, MainStep, WebViewStep, Exited

(* spawn_direct_cli reads shutting_down under the gate, so it creates nothing *)
(* after the shutdown thread has been there.                                  *)
LEMMA CreatedKept ==
  ASSUME ControlInv, TreeInv, [Next]_vars
  PROVE  NothingCreatedAfterShutdownTook'
<1> USE DEF ControlInv, TreeInv, TypeOK, GateDiscipline, RetryCoherent,
         ShutdownCoherent, AttemptCoherent, StateMatchesAttempt, Creating,
         BeforeWaiting, Watching, Failing, RetryHolding, RetryBusy, GateFree,
         IsCurrent, TreeLive, NothingCreatedAfterShutdownTook
<1>1. CASE Setup
  BY <1>1 DEF Setup, OpenGeneration, StartAttempt, ResetHostObservation
<1>2. ASSUME NEW g \in Generations, SpawnCli(g) PROVE NothingCreatedAfterShutdownTook'
  BY <1>2 DEF SpawnCli, Goto
<1>3. ASSUME NEW g \in Generations, SpawnFails(g) PROVE NothingCreatedAfterShutdownTook'
  BY <1>3 DEF SpawnFails, Goto
<1>4. ASSUME NEW g \in Generations, SpawnCleanupFails(g) PROVE NothingCreatedAfterShutdownTook'
  BY <1>4 DEF SpawnCleanupFails, Goto
<1>5. ASSUME NEW g \in Generations, SpawnCancelled(g) PROVE NothingCreatedAfterShutdownTook'
  BY <1>5 DEF SpawnCancelled, Goto
<1>6. ASSUME NEW g \in Generations, StoreCli(g) PROVE NothingCreatedAfterShutdownTook'
  BY <1>6 DEF StoreCli, Goto
<1>7. ASSUME NEW g \in Generations, DiscardCli(g) PROVE NothingCreatedAfterShutdownTook'
  BY <1>7 DEF DiscardCli, Goto
<1>8. ASSUME NEW g \in Generations, DiscardEnds(g) PROVE NothingCreatedAfterShutdownTook'
  BY <1>8 DEF DiscardEnds, Goto
<1>9. ASSUME NEW g \in Generations, PublishWaiting(g) PROVE NothingCreatedAfterShutdownTook'
  BY <1>9 DEF PublishWaiting, Goto
<1>10. ASSUME NEW g \in Generations, ProlongStartup(g) PROVE NothingCreatedAfterShutdownTook'
  BY <1>10 DEF ProlongStartup
<1>11. ASSUME NEW g \in Generations, ProbeReady(g) PROVE NothingCreatedAfterShutdownTook'
  BY <1>11 DEF ProbeReady, Goto
<1>12. ASSUME NEW g \in Generations, SetReadyHostOrigin(g) PROVE NothingCreatedAfterShutdownTook'
  BY <1>12 DEF SetReadyHostOrigin, Goto
<1>13. ASSUME NEW g \in Generations, AnnounceDeadCli(g) PROVE NothingCreatedAfterShutdownTook'
  BY <1>13 DEF AnnounceDeadCli, Goto
<1>14. ASSUME NEW g \in Generations, ObserveExit(g) PROVE NothingCreatedAfterShutdownTook'
  BY <1>14 DEF ObserveExit, Goto
<1>15. ASSUME NEW g \in Generations, ObserveError(g) PROVE NothingCreatedAfterShutdownTook'
  BY <1>15 DEF ObserveError, Goto
<1>16. ASSUME NEW g \in Generations, Superseded(g) PROVE NothingCreatedAfterShutdownTook'
  BY <1>16 DEF Superseded, Goto
<1>17. ASSUME NEW g \in Generations, AbortBegin(g) PROVE NothingCreatedAfterShutdownTook'
  BY <1>17 DEF AbortBegin, Goto
<1>18. ASSUME NEW g \in Generations, AbortEnds(g) PROVE NothingCreatedAfterShutdownTook'
  BY <1>18 DEF AbortEnds, Goto
<1>19. ASSUME NEW g \in Generations, ReportFailure(g) PROVE NothingCreatedAfterShutdownTook'
  BY <1>19 DEF ReportFailure, Goto, FailAttempt, PublishFailed, ResetHostObservation
<1>20. ASSUME NEW g \in Generations, LeaderExits(g) PROVE NothingCreatedAfterShutdownTook'
  BY <1>20 DEF LeaderExits
<1>21. ASSUME NEW g \in Generations, DescendantsExit(g) PROVE NothingCreatedAfterShutdownTook'
  BY <1>21 DEF DescendantsExit
<1>22. CASE RequestRetry
  BY <1>22 DEF RequestRetry
<1>23. CASE BeginRetryCleanup
  BY <1>23 DEF BeginRetryCleanup, OpenGeneration, ResetHostObservation
<1>24. CASE AbandonRetry
  BY <1>24 DEF AbandonRetry
<1>25. CASE TakeForRetry
  BY <1>25 DEF TakeForRetry
<1>26. CASE RetryStopBegin
  BY <1>26 DEF RetryStopBegin
<1>27. CASE RetryStopEnds
  BY <1>27 DEF RetryStopEnds
<1>28. CASE RetryRestarts
  BY <1>28 DEF RetryRestarts
<1>29. CASE RetryStarts
  BY <1>29 DEF RetryStarts, OpenGeneration, StartAttempt, ResetHostObservation
<1>30. CASE RetryFails
  BY <1>30 DEF RetryFails, PublishFailed, ResetHostObservation
<1>31. CASE RequestShutdown
  BY <1>31 DEF RequestShutdown
<1>32. CASE BeginShutdown
  BY <1>32 DEF BeginShutdown, OpenGeneration, ResetHostObservation
<1>33. CASE TakeForShutdown
  BY <1>33 DEF TakeForShutdown
<1>34. CASE ShutdownStopBegin
  BY <1>34 DEF ShutdownStopBegin
<1>35. CASE ShutdownStopEnds
  BY <1>35 DEF ShutdownStopEnds
<1>36. CASE ExitApp
  BY <1>36 DEF ExitApp
<1>37. CASE TakeHostTask
  BY <1>37 DEF TakeHostTask
<1>38. CASE TakeStartupTask
  BY <1>38 DEF TakeStartupTask, ResetHostObservation
<1>39. CASE Navigate
  BY <1>39 DEF Navigate, NoTask
<1>40. CASE NavigateFails
  BY <1>40 DEF NavigateFails
<1>41. CASE DecideNavigation
  BY <1>41 DEF DecideNavigation
<1>42. CASE DropNavigation
  BY <1>42 DEF DropNavigation
<1>43. CASE StartPage
  BY <1>43 DEF StartPage
<1>44. CASE FinishPage
  BY <1>44 DEF FinishPage
<1>45. CASE UNCHANGED vars
  BY <1>45 DEF vars
<1>46. ASSUME NEW g \in Generations, ClearProcess(g) PROVE NothingCreatedAfterShutdownTook'
  BY <1>46 DEF ClearProcess, Goto
<1>47. CASE LeaverPosts
  BY <1>47 DEF LeaverPosts
<1>48. CASE LeaverLeaves
  BY <1>48 DEF LeaverLeaves
<1> QED
  BY <1>1, <1>2, <1>3, <1>4, <1>5, <1>6, <1>7, <1>8, <1>9, <1>10, <1>11, <1>12, <1>13,
     <1>14, <1>15, <1>16, <1>17, <1>18, <1>19, <1>20, <1>21, <1>22, <1>23, <1>24,
     <1>25, <1>26, <1>27, <1>28, <1>29, <1>30, <1>31, <1>32, <1>33, <1>34, <1>35,
     <1>36, <1>37, <1>38, <1>39, <1>40, <1>41, <1>42, <1>43, <1>44, <1>45, <1>46,
     <1>47, <1>48 DEF Next,
     AttemptStep, RetryStep, ShutdownStep, MainStep, WebViewStep, Exited

(* No tree exists before setup.                                               *)
LEMMA TreeInit == Init => TreeInv
  BY DEF Init, TreeInv, SingleHost, LiveTreeHasOwner, NothingLivesBelow, NoLiveTree,
         FailedIsReclaimed, NothingCreatedAfterShutdownTook, TreeLive, Creating

(* The tree invariant holds of every behaviour.                               *)
THEOREM TreeInvariant ==
  ASSUME AttachMayFail = FALSE
  PROVE  Spec => []TreeInv
<1>1. ASSUME ControlInv, TreeInv, [Next]_vars PROVE TreeInv'
  BY <1>1, SingleKept, OwnerKept, BelowKept, FailedKept, CreatedKept DEF TreeInv
<1> QED
  BY TreeInit, ControlInvariant, <1>1, PTL DEF Spec

(* Two generations never have a live process tree at once, whatever Retry,    *)
(* crash and shutdown do to each other.                                       *)
THEOREM OneTree ==
  ASSUME AttachMayFail = FALSE
  PROVE  Spec => []SingleHost
<1>1. TreeInv => SingleHost
  BY DEF TreeInv
<1> QED
  BY <1>1, TreeInvariant, PTL

(* A live tree is always in the slot or in the hands of the thread that       *)
(* creates or stops it, unless its stop failed during shutdown.               *)
THEOREM TreeOwned ==
  ASSUME AttachMayFail = FALSE
  PROVE  Spec => []LiveTreeHasOwner
<1>1. TreeInv => LiveTreeHasOwner
  BY DEF TreeInv
<1> QED
  BY <1>1, TreeInvariant, PTL

(* A failure that is not reported as CleanupFailed leaves nothing alive.      *)
THEOREM FailureReclaims ==
  ASSUME AttachMayFail = FALSE
  PROVE  Spec => []FailedIsReclaimed
<1>1. TreeInv => FailedIsReclaimed
  BY DEF TreeInv
<1> QED
  BY <1>1, TreeInvariant, PTL

(* An orderly exit leaves at most a CLI whose discard failed while shutdown   *)
(* was waiting for the gate.                                                  *)
THEOREM ExitLeavesOnlyDiscards ==
  ASSUME AttachMayFail = FALSE
  PROVE  Spec => []OrderlyExitReclaims
<1>1. ControlInv /\ TreeInv => OrderlyExitReclaims
  <2> SUFFICES ASSUME ControlInv, TreeInv, exit = "ok",
                      NEW g \in Generations, TreeLive(g)
               PROVE  attempt[g] = "leaked"
    BY DEF OrderlyExitReclaims
  <2>1. shutdown = "reclaimed"
    BY DEF ControlInv, ShutdownCoherent
  <2>2. slot # g /\ retryCli # g /\ shutdownCli # g
    BY <2>1 DEF ControlInv, ShutdownCoherent, NothingStoredAfterShutdownTook,
                RetryCoherent
  <2>3. attempt[g] \notin Creating
    BY <2>1 DEF TreeInv, NothingCreatedAfterShutdownTook
  <2> QED
    BY <2>1, <2>2, <2>3 DEF TreeInv, LiveTreeHasOwner, Creating
<1> QED
  BY <1>1, ControlInvariant, TreeInvariant, PTL

-----------------------------------------------------------------------------
\* The promise, one kind of step at a time.

PromiseStep == [Promise!Next]_(Promise!vars)

(* A step that publishes nothing and leaves every CLI alone is a stutter.     *)
LEMMA QuietStep ==
  ASSUME UNCHANGED <<snapshot, lastError, cli>>
  PROVE  PromiseStep
  BY DEF PromiseStep, Promise!vars, LiveTrees, TreeLive

(* The end of a leader, of its descendants or of a stopped tree is the end of *)
(* the one Host, or invisible where something of the tree is left.            *)
LEMMA TreeEndsStep ==
  ASSUME SingleHost, TypeOK, NEW g \in Generations,
         UNCHANGED <<snapshot, lastError>>,
         \/ cli' = [cli EXCEPT ![g] = "gone"]
         \/ TreeLive(g) /\ cli' = [cli EXCEPT ![g] = "lingering"]
  PROVE  PromiseStep
<1>1. CASE LiveTrees' = LiveTrees
  BY <1>1 DEF PromiseStep, Promise!vars
<1>2. CASE LiveTrees' # LiveTrees
  <2>1. TreeLive(g) /\ cli' = [cli EXCEPT ![g] = "gone"]
    BY <1>2 DEF LiveTrees, TreeLive, TypeOK
  <2>2. LiveTrees' = {}
    BY <2>1 DEF SingleHost, LiveTrees, TreeLive, TypeOK
  <2> QED
    BY <2>2 DEF PromiseStep, Promise!Next, Promise!HostEnds
<1> QED
  BY <1>1, <1>2

(* A stop ends with the tree gone, or with every tree as it was.              *)
LEMMA StopEndsStep ==
  ASSUME SingleHost, TypeOK, NEW g \in Generations,
         UNCHANGED <<snapshot, lastError>>, StopSucceeds(g) \/ StopFails(g)
  PROVE  PromiseStep
  BY StopEndsTrees, TreeEndsStep, QuietStep

(* A new attempt is announced in Starting, or after Stopping with nothing     *)
(* alive.                                                                     *)
LEMMA StartStep ==
  ASSUME snapshot \in {"Starting", "Stopping"}, snapshot = "Stopping" => NoLiveTree,
         snapshot' = "Starting", UNCHANGED <<lastError, cli>>
  PROVE  PromiseStep
<1>1. CASE snapshot = "Starting"
  BY <1>1, QuietStep
<1>2. CASE snapshot = "Stopping"
  BY <1>2 DEF PromiseStep, Promise!Next, Promise!Restart, LiveTrees, TreeLive, NoLiveTree
<1> QED
  BY <1>1, <1>2

(* Stopping may be published at any time.                                     *)
LEMMA StopStep ==
  ASSUME snapshot' = "Stopping", UNCHANGED <<lastError, cli>>
  PROVE  PromiseStep
  BY DEF PromiseStep, Promise!Next, Promise!Stop, LiveTrees, TreeLive

(* fail_attempt publishes Failed of a generation that has not failed yet, and *)
(* where something may live, as CleanupFailed.                                *)
LEMMA FailStep ==
  ASSUME NEW g, NEW code \in {"CleanupFailed", "other"}, PublishFailed(g, code),
         IsCurrent(g) => snapshot # "Failed",
         IsCurrent(g) /\ code = "other" => NoLiveTree,
         UNCHANGED cli
  PROVE  PromiseStep
<1>1. CASE IsCurrent(g)
  <2>1. snapshot' = "Failed" /\ lastError' = code
    BY <1>1 DEF PublishFailed
  <2>2. UNCHANGED LiveTrees
    BY DEF LiveTrees, TreeLive
  <2>3. (lastError' = "CleanupFailed") \/ LiveTrees = {}
    BY <1>1, <2>1 DEF LiveTrees, NoLiveTree, TreeLive
  <2>4. Promise!Fail
    BY <1>1, <2>1, <2>2, <2>3 DEF Promise!Fail
  <2> QED
    BY <2>4 DEF PromiseStep, Promise!Next
<1>2. CASE ~IsCurrent(g)
  BY <1>2, QuietStep DEF PublishFailed
<1> QED
  BY <1>1, <1>2

(* Every step of every thread, of the CLI and of the WebView is a step of the *)
(* promise or invisible to it.                                                *)
LEMMA StepImplements ==
  ASSUME AttachMayFail = FALSE, ControlInv, TreeInv, [Next]_vars
  PROVE  PromiseStep
<1> USE DEF ControlInv, TreeInv, TypeOK
<1>1. CASE Setup
  <2>1. Untouched /\ snapshot' = "Starting" /\ UNCHANGED <<lastError, cli>>
    BY <1>1 DEF Setup, StartAttempt, OpenGeneration, Untouched
  <2>2. snapshot \in {"Starting", "Stopping"} /\ NoLiveTree
    BY <2>1 DEF AttemptCoherent, NoLiveTree, TreeLive, Untouched
  <2> QED
    BY <2>1, <2>2, StartStep
<1>2. ASSUME NEW g \in Generations, SpawnCli(g) PROVE PromiseStep
  <2>1. NoLiveTree
    BY <1>2 DEF SpawnCli, IsCurrent, NothingLivesBelow
  <2>2. LiveTrees = {} /\ LiveTrees' = {g}
    BY <1>2, <2>1 DEF SpawnCli, NoLiveTree, LiveTrees, TreeLive
  <2> QED
    BY <1>2, <2>2 DEF SpawnCli, PromiseStep, Promise!Next, Promise!CreateHost
<1>3. ASSUME NEW g \in Generations, SpawnFails(g) PROVE PromiseStep
  BY <1>3, QuietStep DEF SpawnFails
<1>4. ASSUME NEW g \in Generations, SpawnCleanupFails(g) PROVE PromiseStep
  BY <1>4 DEF SpawnCleanupFails
<1>5. ASSUME NEW g \in Generations, SpawnCancelled(g) PROVE PromiseStep
  BY <1>5, QuietStep DEF SpawnCancelled
<1>6. ASSUME NEW g \in Generations, StoreCli(g) PROVE PromiseStep
  BY <1>6, QuietStep DEF StoreCli
<1>7. ASSUME NEW g \in Generations, DiscardCli(g) PROVE PromiseStep
  BY <1>7, QuietStep DEF DiscardCli, StopBegin
<1>8. ASSUME NEW g \in Generations, DiscardEnds(g) PROVE PromiseStep
  BY <1>8, StopEndsStep DEF DiscardEnds
<1>9. ASSUME NEW g \in Generations, PublishWaiting(g) PROVE PromiseStep
  <2>1. snapshot = "Starting"
    BY <1>9 DEF PublishWaiting, IsCurrent, StateMatchesAttempt, BeforeWaiting
  <2> QED
    BY <1>9, <2>1 DEF PublishWaiting, PromiseStep, Promise!Next, Promise!Wait, LiveTrees,
                      TreeLive
<1>10. ASSUME NEW g \in Generations, ProlongStartup(g) PROVE PromiseStep
  BY <1>10 DEF ProlongStartup, PromiseStep, Promise!Next, Promise!Prolong, LiveTrees,
              TreeLive
<1>11. ASSUME NEW g \in Generations, ProbeReady(g) PROVE PromiseStep
  BY <1>11, QuietStep DEF ProbeReady
<1>12. ASSUME NEW g \in Generations, SetReadyHostOrigin(g) PROVE PromiseStep
  BY <1>12, QuietStep DEF SetReadyHostOrigin
<1>13. ASSUME NEW g \in Generations, AnnounceDeadCli(g) PROVE PromiseStep
  BY <1>13, QuietStep DEF AnnounceDeadCli
<1>14. ASSUME NEW g \in Generations, ObserveExit(g) PROVE PromiseStep
  BY <1>14, QuietStep DEF ObserveExit
<1>15. ASSUME NEW g \in Generations, ObserveError(g) PROVE PromiseStep
  BY <1>15, QuietStep DEF ObserveError
<1>16. ASSUME NEW g \in Generations, Superseded(g) PROVE PromiseStep
  BY <1>16, QuietStep DEF Superseded
<1>17. ASSUME NEW g \in Generations, AbortBegin(g) PROVE PromiseStep
  BY <1>17, QuietStep DEF AbortBegin, StopBegin
<1>18. ASSUME NEW g \in Generations, AbortEnds(g) PROVE PromiseStep
  BY <1>18, StopEndsStep DEF AbortEnds
<1>19. ASSUME NEW g \in Generations, ReportFailure(g) PROVE PromiseStep
  <2>1. IsCurrent(g) => snapshot # "Failed"
    BY <1>19 DEF ReportFailure, IsCurrent, StateMatchesAttempt
  <2>2. IsCurrent(g) /\ attempt[g] = "failing" => NoLiveTree
    BY <1>19 DEF IsCurrent, NothingLivesBelow
  <2> QED
    BY <1>19, <2>1, <2>2, FailStep DEF ReportFailure, FailAttempt
<1>20. ASSUME NEW g \in Generations, LeaderExits(g) PROVE PromiseStep
  BY <1>20, TreeEndsStep DEF LeaderExits, TreeLive
<1>21. ASSUME NEW g \in Generations, DescendantsExit(g) PROVE PromiseStep
  BY <1>21, TreeEndsStep DEF DescendantsExit
<1>22. CASE RequestRetry
  BY <1>22, QuietStep DEF RequestRetry
<1>23. CASE BeginRetryCleanup
  BY <1>23, StopStep DEF BeginRetryCleanup, OpenGeneration
<1>24. CASE AbandonRetry
  BY <1>24, QuietStep DEF AbandonRetry
<1>25. CASE TakeForRetry
  BY <1>25, QuietStep DEF TakeForRetry
<1>26. CASE RetryStopBegin
  BY <1>26, QuietStep DEF RetryStopBegin, StopBegin
<1>27. CASE RetryStopEnds
  BY <1>27, StopEndsStep DEF RetryStopEnds, RetryCoherent
<1>28. CASE RetryRestarts
  BY <1>28, QuietStep DEF RetryRestarts
<1>29. CASE RetryStarts
  <2>1. snapshot' = "Starting" /\ UNCHANGED <<lastError, cli>>
    BY <1>29 DEF RetryStarts, StartAttempt, OpenGeneration
  <2>2. snapshot = "Stopping" /\ NoLiveTree
    BY <1>29 DEF RetryStarts, RetryCoherent, RetryBusy, RetryHolding, NothingLivesBelow
  <2> QED
    BY <2>1, <2>2, StartStep
<1>30. CASE RetryFails
  <2>1. snapshot = "Stopping"
    BY <1>30 DEF RetryFails, RetryCoherent, RetryBusy, RetryHolding
  <2> QED
    BY <1>30, <2>1, FailStep DEF RetryFails
<1>31. CASE RequestShutdown
  BY <1>31, QuietStep DEF RequestShutdown
<1>32. CASE BeginShutdown
  BY <1>32, StopStep DEF BeginShutdown, OpenGeneration
<1>33. CASE TakeForShutdown
  BY <1>33, QuietStep DEF TakeForShutdown
<1>34. CASE ShutdownStopBegin
  BY <1>34, QuietStep DEF ShutdownStopBegin, StopBegin
<1>35. CASE ShutdownStopEnds
  BY <1>35, StopEndsStep DEF ShutdownStopEnds, ShutdownCoherent
<1>36. CASE ExitApp
  BY <1>36, QuietStep DEF ExitApp
<1>37. CASE TakeHostTask
  BY <1>37, QuietStep DEF TakeHostTask
<1>38. CASE TakeStartupTask
  BY <1>38, QuietStep DEF TakeStartupTask
<1>39. CASE Navigate
  BY <1>39, QuietStep DEF Navigate
<1>40. CASE NavigateFails
  BY <1>40, QuietStep DEF NavigateFails
<1>41. CASE DecideNavigation
  BY <1>41, QuietStep DEF DecideNavigation
<1>42. CASE DropNavigation
  BY <1>42, QuietStep DEF DropNavigation
<1>43. CASE StartPage
  BY <1>43, QuietStep DEF StartPage
<1>44. CASE FinishPage
  <2>1. CASE IsCurrentHostPage
    <3>1. snapshot \in Waiting /\ ~shuttingDown /\ cli[generation] = "running"
      BY <2>1 DEF IsCurrentHostPage, CurrentCliIsAlive, IsCurrent
    <3>2. generation \in Generations
      BY <3>1 DEF StateMatchesAttempt, Waiting
    <3>3. LiveTrees # {}
      BY <3>1, <3>2 DEF LiveTrees, TreeLive
    <3>4. snapshot' = "Ready" /\ UNCHANGED <<lastError, cli, LiveTrees>>
      BY <1>44, <2>1 DEF FinishPage, LiveTrees, TreeLive
    <3> QED
      BY <3>1, <3>3, <3>4 DEF PromiseStep, Promise!Next, Promise!BecomeReady, Waiting
  <2>2. CASE ~IsCurrentHostPage
    BY <1>44, <2>2, QuietStep DEF FinishPage
  <2> QED
    BY <2>1, <2>2
<1>45. CASE UNCHANGED vars
  BY <1>45, QuietStep DEF vars
<1>46. ASSUME NEW g \in Generations, ClearProcess(g) PROVE PromiseStep
  BY <1>46, QuietStep DEF ClearProcess
<1>47. CASE LeaverPosts
  BY <1>47, QuietStep DEF LeaverPosts
<1>48. CASE LeaverLeaves
  BY <1>48, QuietStep DEF LeaverLeaves
<1> QED
  BY <1>1, <1>2, <1>3, <1>4, <1>5, <1>6, <1>7, <1>8, <1>9, <1>10, <1>11, <1>12, <1>13,
     <1>14, <1>15, <1>16, <1>17, <1>18, <1>19, <1>20, <1>21, <1>22, <1>23, <1>24,
     <1>25, <1>26, <1>27, <1>28, <1>29, <1>30, <1>31, <1>32, <1>33, <1>34, <1>35,
     <1>36, <1>37, <1>38, <1>39, <1>40, <1>41, <1>42, <1>43, <1>44, <1>45, <1>46,
     <1>47, <1>48 DEF Next,
     AttemptStep, RetryStep, ShutdownStep, MainStep, WebViewStep, Exited

(* The lifecycle implements OneHost: what the user is told and the trees that *)
(* run change together only as the promise allows.                            *)
THEOREM Implementation ==
  ASSUME AttachMayFail = FALSE
  PROVE  Spec => ImplementsOneHost
<1>1. Init => Promise!Init
  BY DEF Init, Promise!Init, LiveTrees, TreeLive
<1>2. ASSUME ControlInv, TreeInv, [Next]_vars PROVE [Promise!Next]_(Promise!vars)
  BY <1>2, StepImplements DEF PromiseStep
<1> QED
  BY <1>1, <1>2, ControlInvariant, TreeInvariant, PTL
     DEF Spec, ImplementsOneHost, Promise!Spec
=============================================================================
