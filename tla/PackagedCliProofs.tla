--------------------------- MODULE PackagedCliProofs ---------------------------
(***************************************************************************)
(* The CLI that the desktop ships: what a build packages fits its inputs,  *)
(* for any parts, any versions and whichever parts are checked, and the    *)
(* supervisor keeps its promises whatever threads stop the CLI and look    *)
(* for its exit.                                                           *)
(***************************************************************************)
EXTENDS RuntimeClosure, CliSupervisor, TLAPS

-----------------------------------------------------------------------------
(* The closure.  The argument follows it on its way: the marker tells what *)
(* the cache holds, the copy is of the cache that was found good, and the  *)
(* destination is the copy.                                                *)

InstalledFrom(v) == [p \in Parts |-> v]

TypesInv ==
    /\ inputs \in Versions /\ hashed \in Versions
    /\ marker \in Versions \cup {Missing}
    /\ {cached, temporary, shipped} \subseteq Trees
    /\ step \in {"idle", "look", "clear", "mark", "copy", "copy again", "replace",
                 "replace again", "discard"}
    /\ built \in BOOLEAN /\ misleading \in BOOLEAN

\* The marker, while nothing has made it misleading.
MarkerInv == marker # Missing /\ ~misleading => cached = InstalledFrom(marker)

\* What each step takes from the ones before.
StepsInv ==
    /\ step \in {"mark", "copy", "copy again"} =>
        Verified(cached) /\ (misleading \/ cached = InstalledFrom(hashed))
    /\ step = "mark" => marker = Missing
    /\ step \in {"replace", "replace again"} =>
        Verified(temporary) /\ (misleading \/ temporary = InstalledFrom(hashed))
    /\ built => step = "idle"

ClosureInv == TypesInv /\ MarkerInv /\ StepsInv /\ ShippedFitsInputs

\* An interrupted copy or removal leaves a tree.
LEMMA PartialTreesAreTrees ==
    ASSUME NEW tree \in Trees
    PROVE  PartialTrees(tree) \subseteq Trees
  BY DEF PartialTrees, Trees

\* What was installed from one version is a tree with everything in it.
LEMMA InstalledIsVerified ==
    ASSUME NEW v \in Versions
    PROVE  InstalledFrom(v) \in Trees /\ Verified(InstalledFrom(v))
  BY ClosureAssumption DEF InstalledFrom, Trees, Verified

LEMMA ClosureInvariant == ClosureSpec => []ClosureInv
<1> USE DEF ClosureInv
<1>1. ClosureInit => ClosureInv
  BY DEF ClosureInit, TypesInv, MarkerInv, StepsInv, ShippedFitsInputs, Nothing, Trees
<1>2. ClosureInv /\ [ClosureNext]_closureVars => ClosureInv'
  <2> SUFFICES ASSUME ClosureInv, [ClosureNext]_closureVars PROVE ClosureInv'
    OBVIOUS
  <2> USE DEF TypesInv, MarkerInv, StepsInv, ShippedFitsInputs, InstalledFrom, Verified
  <2>1. CASE EditInputs
    BY <2>1 DEF EditInputs
  <2>2. CASE HashInputs
    BY <2>2 DEF HashInputs
  <2>3. CASE LookAtCache
    BY <2>3, ClosureAssumption DEF LookAtCache, Reusable
  <2>4. CASE ClearCache
    <3>1. cached' \in Trees
      BY <2>4, PartialTreesAreTrees DEF ClearCache
    <3> QED
      BY <2>4, <3>1 DEF ClearCache
  <2>5. CASE InstallClosure
    <3>1. InstalledFrom(inputs) \in Trees /\ Verified(InstalledFrom(inputs))
      BY InstalledIsVerified
    <3>2. cached' \in Trees
      BY <2>5, <3>1, PartialTreesAreTrees DEF InstallClosure
    <3> QED
      BY <2>5, <3>1, <3>2 DEF InstallClosure
  <2>6. CASE WriteMarker
    BY <2>6 DEF WriteMarker
  <2>7. CASE Materialize
    <3>1. temporary' \in Trees
      BY <2>7, PartialTreesAreTrees DEF Materialize
    <3> QED
      BY <2>7, <3>1 DEF Materialize
  <2>8. CASE ClearDestination
    <3>1. shipped' \in Trees
      BY <2>8, PartialTreesAreTrees DEF ClearDestination
    <3> QED
      BY <2>8, <3>1 DEF ClearDestination
  <2>9. CASE PutInPlace
    <3>1. CASE shipped' = temporary /\ temporary' = Nothing /\ built' = TRUE /\ step' = "idle"
      BY <2>9, <3>1 DEF PutInPlace, Nothing, Trees
    <3>2. CASE UNCHANGED <<shipped, temporary, built>>
      BY <2>9, <3>2 DEF PutInPlace
    <3> QED
      BY <2>9, <3>1, <3>2 DEF PutInPlace
  <2>10. CASE DiscardTemporary
    BY <2>10 DEF DiscardTemporary, Nothing, Trees
  <2>11. CASE BuildIsKilled
    BY <2>11 DEF BuildIsKilled, Nothing, Trees
  <2>12. CASE UNCHANGED closureVars
    BY <2>12 DEF closureVars
  <2> QED
    BY <2>1, <2>2, <2>3, <2>4, <2>5, <2>6, <2>7, <2>8, <2>9, <2>10, <2>11, <2>12
       DEF ClosureNext
<1> QED
  BY <1>1, <1>2, PTL DEF ClosureSpec

(***************************************************************************)
(* Whatever is killed and whenever the inputs change, a build that ends    *)
(* well has packaged what was installed from the inputs it hashed, unless  *)
(* the marker was made misleading (prepareRuntimeClosure).                 *)
(***************************************************************************)
THEOREM ShippedAlwaysFits == ClosureSpec => []ShippedFitsInputs
  BY ClosureInvariant, PTL DEF ClosureInv

-----------------------------------------------------------------------------
(* The supervisor.  Three facts carry the argument: a stop that holds the  *)
(* child lock keeps the leader from being reaped (LockInv); once somebody  *)
(* has reaped it, nobody is between looking at it and recording the        *)
(* request, so requested_generation tells whether the exit was asked for   *)
(* (ExitInv); and until a spawn hands the CLI over, nothing of it runs     *)
(* unless it is owned (SpawnInv).                                          *)

USE ThreadsAssumption DEF Threads

\* A stop that has looked and holds the child lock; whoever has seen the exit.
Holding == {"ask", "signal", "look again"}
Observing == {"exited", "exited late", "reap", "report", "classify"} \cup Queries

PointsInv ==
    /\ \A t \in Stoppers : pc[t] \in StopPoints
    /\ \A t \in Observers : pc[t] \in {"idle", "try", "classify"}
    /\ \A t \in Threads : pc[t] # "idle" => spawn = "cli"

LockInv ==
    /\ \A t \in Stoppers : pc[t] \in Holding <=> childLock = t
    /\ childLock # Nobody => asked /\ leader \in {"running", "exited"}

ExitInv ==
    /\ leader = "reaped" <=> observed
    /\ requested => asked
    /\ asked => requested \/ (childLock # Nobody /\ pc[childLock] = "ask")
    /\ answered <=> LeaderExited /\ asked
    /\ \A t \in Threads : pc[t] \in Observing => observed
    /\ \A t \in Stoppers : pc[t] \in {"reap", "report"} => ~descendants
    /\ reason # "none" => observed /\ (reason = "Requested" <=> answered)

SpawnInv ==
    /\ spawn = "create" => leader = "none"
    /\ spawn = "attach" =>
        IF system = "unix" THEN leader \in {"running", "exited"} ELSE leader = "suspended"
    /\ spawn = "resume" => leader = "suspended"
    /\ spawn \in {"create", "attach", "resume"} => ~killed
    /\ spawn \in {"discard", "terminate", "await discarded"} => leader \in {"suspended", "discarded"}
    /\ spawn \in {"failed", "unclean"} => leader \in {"none", "suspended", "discarded"}
    /\ spawn \in {"cli", "dropped"} => leader \in {"running", "exited", "reaped"}

SupervisorInv == SupervisorTypeOK /\ PointsInv /\ LockInv /\ ExitInv /\ SpawnInv

(***************************************************************************)
(* Whoever has seen the exit classifies it as what it was: by then nobody  *)
(* is between looking and asking (try_exit, classify_exit_with_code).      *)
(***************************************************************************)
LEMMA ClassificationIsTrue ==
    ASSUME SupervisorInv, NEW t \in Threads, pc[t] \in Observing, Classify(t)
    PROVE  /\ reason' # "none"
           /\ reason' \in {"Requested", "Unexpected", "StaleGeneration"}
           /\ reason' = "Requested" <=> answered
<1>1. observed /\ leader = "reaped"
  BY DEF SupervisorInv, ExitInv
<1>2. (requested <=> answered) /\ requested \in BOOLEAN /\ interrupted \in BOOLEAN
  BY <1>1 DEF SupervisorInv, SupervisorTypeOK, LockInv, ExitInv, LeaderExited
<1>3. CASE reason # "none"
  BY <1>3 DEF SupervisorInv, SupervisorTypeOK, ExitInv, Classify
<1>4. CASE reason = "none"
  BY <1>2, <1>4 DEF Classify, ReasonSeenBy
<1> QED
  BY <1>3, <1>4

\* The steps of spawn_owned_command keep the invariant.
LEMMA SpawnKeeps ==
    ASSUME SupervisorInv, SpawnStep, UNCHANGED <<exitVars, ownVars, threadVars, superseded>>
    PROVE  SupervisorInv'
<1> USE DEF SupervisorInv, SupervisorTypeOK, PointsInv, LockInv, ExitInv, SpawnInv, Holding, Observing,
        StopPoints, Polls, Queries, LeaderExited,
        treeVars, exitVars, ownVars, threadVars
<1>1. CASE Create
  BY <1>1 DEF Create, CreateProcess
<1>2. CASE Attach
  BY <1>2 DEF Attach
<1>3. CASE ResumeInitialThread
  BY <1>3 DEF ResumeInitialThread
<1>4. CASE DiscardOwnedChild
  BY <1>4 DEF DiscardOwnedChild
<1>5. CASE TerminateUnownedChild
  BY <1>5 DEF TerminateUnownedChild
<1>6. CASE AwaitDiscarded
  BY <1>6 DEF AwaitDiscarded
<1>7. CASE OwnerDrops
  BY <1>7 DEF OwnerDrops
<1> QED
  BY <1>1, <1>2, <1>3, <1>4, <1>5, <1>6, <1>7 DEF SpawnStep

\* The steps of the processes keep it.
LEMMA TreeKeeps ==
    ASSUME SupervisorInv, TreeStep, UNCHANGED <<exitVars, ownVars, threadVars, spawn, superseded>>
    PROVE  SupervisorInv'
<1> USE DEF SupervisorInv, SupervisorTypeOK, PointsInv, LockInv, ExitInv, SpawnInv, Holding, Observing,
        StopPoints, Polls, Queries, LeaderExited,
        treeVars, exitVars, ownVars, threadVars
<1>1. CASE CliLeaderForks
  BY <1>1 DEF CliLeaderForks
<1>2. CASE CliLeaderExits
  BY <1>2 DEF CliLeaderExits
<1>3. CASE CliDescendantsExit
  <2>1. SupervisorTypeOK'
    BY <1>3 DEF CliDescendantsExit
  <2>2. PointsInv' /\ LockInv' /\ SpawnInv'
    BY <1>3 DEF CliDescendantsExit
  <2>3. ExitInv'
    BY <1>3 DEF CliDescendantsExit
  <2> QED
    BY <2>1, <2>2, <2>3
<1>4. CASE SuspendedEnds
  BY <1>4 DEF SuspendedEnds
<1> QED
  BY <1>1, <1>2, <1>3, <1>4 DEF TreeStep

\* The steps of a stop keep it.
LEMMA StopKeeps ==
    ASSUME SupervisorInv, NEW t \in Stoppers, StopStep(t), UNCHANGED <<spawn, superseded>>
    PROVE  SupervisorInv'
<1> USE DEF SupervisorInv, SupervisorTypeOK, PointsInv, LockInv, ExitInv, SpawnInv, Holding, Observing,
        StopPoints, Polls, Queries, LeaderExited,
        treeVars, exitVars, ownVars, threadVars, ThreadAt, Continues
<1>1. CASE BeginStop(t)
  BY <1>1 DEF BeginStop
<1>2. CASE WithStopLock(t)
  BY <1>2 DEF WithStopLock
<1>3. CASE LookBeforeAsking(t)
  <2>1. CASE ObserveChildStatus /\ Continues(t, "exited") /\ UNCHANGED <<asked, childLock>>
    BY <1>3, <2>1 DEF LookBeforeAsking, ObserveChildStatus
  <2>2. CASE /\ leader = "running"
             /\ asked' = TRUE /\ childLock' = t
             /\ Continues(t, "ask")
             /\ UNCHANGED <<leader, observed>>
    <3>1. childLock = Nobody /\ t # Nobody /\ ~observed /\ ~answered
      BY <1>3, <2>2 DEF LookBeforeAsking
    <3>2. SupervisorTypeOK' /\ PointsInv' /\ SpawnInv'
      BY <1>3, <2>2 DEF LookBeforeAsking
    <3>3. LockInv'
      BY <1>3, <2>2, <3>1 DEF LookBeforeAsking
    <3>4. ExitInv'
      BY <1>3, <2>2, <3>1 DEF LookBeforeAsking
    <3> QED
      BY <3>2, <3>3, <3>4
  <2>3. CASE Continues(t, "kill") /\ UNCHANGED <<leader, observed, asked, childLock>>
    BY <1>3, <2>3 DEF LookBeforeAsking
  <2> QED
    BY <1>3, <2>1, <2>2, <2>3 DEF LookBeforeAsking
<1>4. CASE Ask(t)
  BY <1>4 DEF Ask
<1>5. CASE GracefulAction(t)
  <2>1. CASE Continues(t, "poll") /\ childLock' = Nobody
    BY <1>5, <2>1 DEF GracefulAction
  <2>2. CASE Continues(t, "look again") /\ UNCHANGED childLock
    <3>1. requested
      BY <1>5 DEF GracefulAction
    <3> QED
      BY <1>5, <2>2, <3>1 DEF GracefulAction
  <2> QED
    BY <1>5, <2>1, <2>2 DEF GracefulAction
<1>6. CASE LookAfterFailure(t)
  <2>1. CASE ObserveChildStatus /\ Continues(t, "exited late")
    BY <1>6, <2>1 DEF LookAfterFailure, ObserveChildStatus
  <2>2. CASE Continues(t, "kill") /\ UNCHANGED <<leader, observed>>
    BY <1>6, <2>2 DEF LookAfterFailure
  <2> QED
    BY <1>6, <2>1, <2>2 DEF LookAfterFailure
<1>7. CASE ClassifyInRequest(t)
  <2>1. /\ reason' # "none" /\ reason' \in {"Requested", "Unexpected", "StaleGeneration"}
        /\ reason' = "Requested" <=> answered
    BY <1>7, ClassificationIsTrue DEF ClassifyInRequest
  <2> QED
    BY <1>7, <2>1 DEF ClassifyInRequest
<1>8. CASE PollLeader(t)
  BY <1>8 DEF PollLeader, ObserveChildStatus, QueryOf
<1>9. CASE QueryTree(t)
  BY <1>9 DEF QueryTree, PollOf, TreeHasExited
<1>10. CASE GraceIsOver(t)
  BY <1>10 DEF GraceIsOver
<1>11. CASE ForceKillTree(t)
  BY <1>11 DEF ForceKillTree
<1>12. CASE StopFails(t)
  BY <1>12 DEF StopFails
<1>13. CASE Reap(t)
  BY <1>13 DEF Reap, ObserveChildStatus
<1>14. CASE StopSucceeds(t)
  <2>1. /\ reason' # "none" /\ reason' \in {"Requested", "Unexpected", "StaleGeneration"}
        /\ reason' = "Requested" <=> answered
    BY <1>14, ClassificationIsTrue DEF StopSucceeds
  <2> QED
    BY <1>14, <2>1 DEF StopSucceeds
<1> QED
  BY <1>1, <1>2, <1>3, <1>4, <1>5, <1>6, <1>7, <1>8, <1>9, <1>10, <1>11, <1>12, <1>13, <1>14 DEF StopStep

\* The steps of an observer keep it.
LEMMA TryExitKeeps ==
    ASSUME SupervisorInv, NEW t \in Observers, TryExitStep(t), UNCHANGED <<spawn, superseded>>
    PROVE  SupervisorInv'
<1> USE DEF SupervisorInv, SupervisorTypeOK, PointsInv, LockInv, ExitInv, SpawnInv, Holding, Observing,
        StopPoints, Polls, Queries, LeaderExited,
        treeVars, exitVars, ownVars, threadVars, ThreadAt, Continues
<1>1. CASE BeginTryExit(t)
  BY <1>1 DEF BeginTryExit
<1>2. CASE NoExitSeen(t)
  BY <1>2 DEF NoExitSeen
<1>3. CASE ExitSeen(t)
  BY <1>3 DEF ExitSeen, ObserveChildStatus
<1>4. CASE TryExitEnds(t)
  <2>1. /\ reason' # "none" /\ reason' \in {"Requested", "Unexpected", "StaleGeneration"}
        /\ reason' = "Requested" <=> answered
    BY <1>4, ClassificationIsTrue DEF TryExitEnds
  <2> QED
    BY <1>4, <2>1 DEF TryExitEnds
<1> QED
  BY <1>1, <1>2, <1>3, <1>4 DEF TryExitStep

LEMMA SupervisorInvariant == SupervisorSpec => []SupervisorInv
<1>1. SupervisorInit => SupervisorInv
  BY DEF SupervisorInit, SupervisorInv, SupervisorTypeOK, PointsInv, LockInv, ExitInv, SpawnInv,
         Holding, Observing, StopPoints, Polls, Queries, LeaderExited
<1>2. SupervisorInv /\ [SupervisorNext]_supervisorVars => SupervisorInv'
  <2> SUFFICES ASSUME SupervisorInv, [SupervisorNext]_supervisorVars PROVE SupervisorInv'
    OBVIOUS
  <2>1. CASE SpawnStep
    BY <2>1, SpawnKeeps DEF SpawnStep
  <2>2. CASE TreeStep
    BY <2>2, TreeKeeps DEF TreeStep
  <2>3. CASE ThreadStep
    BY <2>3, StopKeeps, TryExitKeeps DEF ThreadStep
  <2>4. CASE Supersede \/ UNCHANGED supervisorVars
    <3>1. /\ UNCHANGED <<treeVars, exitVars, ownVars, threadVars, spawn>>
          /\ superseded' \in BOOLEAN
      BY <2>4 DEF Supersede, supervisorVars, SupervisorInv, SupervisorTypeOK
    <3>2. SupervisorTypeOK'
      BY <3>1 DEF SupervisorInv, SupervisorTypeOK, treeVars, exitVars, ownVars, threadVars
    <3>3. PointsInv' /\ LockInv' /\ SpawnInv'
      BY <3>1 DEF SupervisorInv, PointsInv, LockInv, SpawnInv, treeVars, exitVars, ownVars,
                  threadVars
    <3>4. ExitInv'
      BY <3>1 DEF SupervisorInv, ExitInv, LeaderExited, treeVars, exitVars, ownVars, threadVars
    <3> QED
      BY <3>2, <3>3, <3>4 DEF SupervisorInv
  <2> QED
    BY <2>1, <2>2, <2>3, <2>4 DEF SupervisorNext
<1> QED
  BY <1>1, <1>2, PTL DEF SupervisorSpec

(***************************************************************************)
(* The program points and the state of the CLI keep their types.           *)
(***************************************************************************)
THEOREM SupervisorTypeCorrect == SupervisorSpec => []SupervisorTypeOK
  BY SupervisorInvariant, PTL DEF SupervisorInv

(***************************************************************************)
(* However many threads stop the CLI or look for its exit, in whatever     *)
(* order: the exit is called Requested exactly if a stop found the leader  *)
(* alive before it (request_graceful_stop, try_exit).                      *)
(***************************************************************************)
THEOREM ReasonAlwaysTrue == SupervisorSpec => []ReasonIsTrue
  BY SupervisorInvariant, PTL DEF SupervisorInv, ExitInv, ReasonIsTrue

(***************************************************************************)
(* The signal of a stop never goes to a pid that was reaped, and reap      *)
(* never waits for a leader that runs (request_graceful_stop, reap).       *)
(***************************************************************************)
THEOREM SignalReachesOwnLeader == SupervisorSpec => []SignalsOwnLeader
<1>1. SupervisorInv => SignalsOwnLeader
  BY DEF SupervisorInv, SupervisorTypeOK, LockInv, ExitInv, SignalsOwnLeader, Holding, Observing
<1> QED
  BY <1>1, SupervisorInvariant, PTL

\* A spawn creates, hands over, or fails and has left nothing that ran.
LEMMA SpawnImplements ==
    ASSUME SupervisorInv, SpawnStep, UNCHANGED <<exitVars, ownVars, threadVars, superseded>>
    PROVE  [Cli!Next]_(Cli!vars)
<1> USE DEF Tree, Handed, LeaderExited, treeVars, exitVars, ownVars, threadVars
<1>1. CASE Create
  BY <1>1 DEF Create, CreateProcess, SupervisorInv, SpawnInv, Cli!Next, Cli!Create, Cli!SpawnFails, Cli!vars
<1>2. CASE Attach
  BY <1>2 DEF Attach, SupervisorInv, SpawnInv, Cli!Next, Cli!HandOver, Cli!vars
<1>3. CASE ResumeInitialThread
  BY <1>3 DEF ResumeInitialThread, SupervisorInv, SpawnInv, Cli!Next, Cli!Create, Cli!vars
<1>4. CASE DiscardOwnedChild
  BY <1>4 DEF DiscardOwnedChild, SupervisorInv, SpawnInv, Cli!Next, Cli!SpawnFails, Cli!vars
<1>5. CASE TerminateUnownedChild
  BY <1>5 DEF TerminateUnownedChild, SupervisorInv, SpawnInv, Cli!Next, Cli!SpawnFails, Cli!vars
<1>6. CASE AwaitDiscarded
  BY <1>6 DEF AwaitDiscarded, SupervisorInv, SpawnInv, Cli!Next, Cli!SpawnFails, Cli!vars
<1>7. CASE OwnerDrops
  BY <1>7 DEF OwnerDrops, Cli!vars
<1> QED
  BY <1>1, <1>2, <1>3, <1>4, <1>5, <1>6, <1>7 DEF SpawnStep

\* The tree ends from its leader on.
LEMMA TreeImplements ==
    ASSUME SupervisorInv, TreeStep, UNCHANGED <<exitVars, ownVars, threadVars, spawn, superseded>>
    PROVE  [Cli!Next]_(Cli!vars)
<1> USE DEF Tree, Handed, LeaderExited, treeVars, exitVars, ownVars, threadVars
<1>1. CASE CliLeaderForks
  BY <1>1 DEF CliLeaderForks, Cli!vars
<1>2. CASE CliLeaderExits
  BY <1>2 DEF CliLeaderExits, Cli!Next, Cli!LeaderExits
<1>3. CASE CliDescendantsExit
  BY <1>3 DEF CliDescendantsExit, Cli!Next, Cli!DescendantsExit, Cli!vars
<1>4. CASE SuspendedEnds
  BY <1>4 DEF SuspendedEnds, Cli!vars
<1> QED
  BY <1>1, <1>2, <1>3, <1>4 DEF TreeStep

\* A stop classifies, and reports success when the tree is gone.
LEMMA StopImplements ==
    ASSUME SupervisorInv, NEW t \in Stoppers, StopStep(t), UNCHANGED <<spawn, superseded>>
    PROVE  [Cli!Next]_(Cli!vars)
<1> USE DEF Tree, Handed, LeaderExited, treeVars, exitVars, ownVars, threadVars, ThreadAt, Continues
<1>1. CASE BeginStop(t)
  BY <1>1 DEF BeginStop, Cli!vars
<1>2. CASE WithStopLock(t)
  BY <1>2 DEF WithStopLock, Cli!vars
<1>3. CASE LookBeforeAsking(t)
  BY <1>3 DEF LookBeforeAsking, ObserveChildStatus, Cli!vars
<1>4. CASE Ask(t)
  BY <1>4 DEF Ask, Cli!vars
<1>5. CASE GracefulAction(t)
  BY <1>5 DEF GracefulAction, Cli!vars
<1>6. CASE LookAfterFailure(t)
  BY <1>6 DEF LookAfterFailure, ObserveChildStatus, Cli!vars
<1>7. CASE ClassifyInRequest(t)
  <2>1. reason' \in Cli!Reasons /\ (reason # "none" => reason' = reason)
    BY <1>7, ClassificationIsTrue DEF ClassifyInRequest, Observing, Classify, Cli!Reasons
  <2>2. leader = "reaped"
    BY <1>7 DEF ClassifyInRequest, SupervisorInv, SupervisorTypeOK, PointsInv, ExitInv, Observing
  <2> QED
    BY <1>7, <2>1, <2>2 DEF ClassifyInRequest, Cli!Next, Cli!Classify, Cli!vars
<1>8. CASE PollLeader(t)
  BY <1>8 DEF PollLeader, ObserveChildStatus, Cli!vars
<1>9. CASE QueryTree(t)
  BY <1>9 DEF QueryTree, Cli!vars
<1>10. CASE GraceIsOver(t)
  BY <1>10 DEF GraceIsOver, Cli!vars
<1>11. CASE ForceKillTree(t)
  BY <1>11 DEF ForceKillTree, Cli!vars
<1>12. CASE StopFails(t)
  BY <1>12 DEF StopFails, Cli!vars
<1>13. CASE Reap(t)
  BY <1>13 DEF Reap, ObserveChildStatus, Cli!vars
<1>14. CASE StopSucceeds(t)
  <2>1. reason' \in Cli!Reasons /\ (reason # "none" => reason' = reason)
    BY <1>14, ClassificationIsTrue DEF StopSucceeds, Observing, Classify, Cli!Reasons
  <2>2. leader = "reaped" /\ ~descendants /\ spawn = "cli"
    BY <1>14 DEF StopSucceeds, SupervisorInv, SupervisorTypeOK, PointsInv, ExitInv, Observing
  <2> QED
    BY <1>14, <2>1, <2>2 DEF StopSucceeds, Cli!Next, Cli!StopSucceeds, Cli!Reasons, SupervisorInv, SupervisorTypeOK
<1> QED
  BY <1>1, <1>2, <1>3, <1>4, <1>5, <1>6, <1>7, <1>8, <1>9, <1>10, <1>11, <1>12, <1>13, <1>14 DEF StopStep

\* An observer classifies.
LEMMA TryExitImplements ==
    ASSUME SupervisorInv, NEW t \in Observers, TryExitStep(t), UNCHANGED <<spawn, superseded>>
    PROVE  [Cli!Next]_(Cli!vars)
<1> USE DEF Tree, Handed, LeaderExited, treeVars, exitVars, ownVars, threadVars, ThreadAt, Continues
<1>1. CASE BeginTryExit(t)
  BY <1>1 DEF BeginTryExit, Cli!vars
<1>2. CASE NoExitSeen(t)
  BY <1>2 DEF NoExitSeen, Cli!vars
<1>3. CASE ExitSeen(t)
  BY <1>3 DEF ExitSeen, ObserveChildStatus, Cli!vars
<1>4. CASE TryExitEnds(t)
  <2>1. reason' \in Cli!Reasons /\ (reason # "none" => reason' = reason)
    BY <1>4, ClassificationIsTrue DEF TryExitEnds, Observing, Classify, Cli!Reasons
  <2>2. leader = "reaped"
    BY <1>4 DEF TryExitEnds, SupervisorInv, SupervisorTypeOK, PointsInv, ExitInv, Observing
  <2> QED
    BY <1>4, <2>1, <2>2 DEF TryExitEnds, Cli!Next, Cli!Classify, Cli!vars
<1> QED
  BY <1>1, <1>2, <1>3, <1>4 DEF TryExitStep

(***************************************************************************)
(* Every behaviour of the supervisor is one of the CLI that the lifecycle  *)
(* relies on (spawn_owned_command, stop, try_exit).                        *)
(***************************************************************************)
THEOREM SupervisorImplementsCli == SupervisorSpec => ImplementsOwnedCli
<1>1. SupervisorInit => Cli!Init
  BY DEF SupervisorInit, Cli!Init, Tree, Handed, LeaderExited
<1>2. SupervisorInv /\ [SupervisorNext]_supervisorVars => [Cli!Next]_(Cli!vars)
  <2> SUFFICES ASSUME SupervisorInv, [SupervisorNext]_supervisorVars
               PROVE  [Cli!Next]_(Cli!vars)
    OBVIOUS
  <2>1. CASE SpawnStep
    BY <2>1, SpawnImplements DEF SpawnStep
  <2>2. CASE TreeStep
    BY <2>2, TreeImplements DEF TreeStep
  <2>3. CASE ThreadStep
    BY <2>3, StopImplements, TryExitImplements DEF ThreadStep
  <2>4. CASE Supersede \/ UNCHANGED supervisorVars
    BY <2>4 DEF Supersede, supervisorVars, Cli!vars, Tree, Handed, LeaderExited,
                treeVars, exitVars
  <2> QED
    BY <2>1, <2>2, <2>3, <2>4 DEF SupervisorNext
<1> QED
  BY <1>1, <1>2, SupervisorInvariant, PTL DEF SupervisorSpec, ImplementsOwnedCli, Cli!Spec
=============================================================================
