-------------------------- MODULE LockedJobsProofs --------------------------
(***************************************************************************)
(* The two jobs under the directory lock, for every finite set of          *)
(* processes, any number of deaths, and owners held up or not.             *)
(*                                                                         *)
(* StoppedBeforeRemoval needs nothing of the lock: the removal of a work   *)
(* directory rests on the probe's own steps.  The rest needs one holder at *)
(* a time, which the lock gives until a waiter goes astray: moves aside,   *)
(* without having read in it that its owner is gone, the directory of a    *)
(* living process.  That the code lets it is what the run of               *)
(* MCLockSteal.cfg shows; that nothing else lets two processes in is what  *)
(* is proved here, so the invariants below hold as long as astray is       *)
(* FALSE, and astray stays TRUE once it is.                                *)
(***************************************************************************)
EXTENDS LockedJobs, FiniteSetTheorems, TLAPS

Steps ==
    Waiting \cup Leaving \cup Ended
        \cup {"inside", "prepare", "spawn", "look", "fetch", "stop", "await tree",
              "force", "force at last", "await killed", "await killed at last",
              "closed", "closed at last", "remove",
              "fetch", "unpack", "move aside", "place", "roll back", "clear"}

Trees == [leader : BOOLEAN, alive : BOOLEAN, listens : BOOLEAN, killed : BOOLEAN]

\* What the proof needs to know of the types.
ProbeTyped ==
    /\ at \in [Processes -> Steps]
    /\ cli \in [Processes -> Trees]
    /\ controller \in [Processes -> BOOLEAN]
    /\ work \in [Processes -> {"none", "made", "removed"}]

\* Nothing of the tree runs, or what is left of it runs no code.
Stopped(p) == ~cli[p].alive \/ cli[p].killed

\* The steps that are reached only with the stop confirmed.
Confirmed == {"closed", "closed at last", "remove"}

(* The strengthening: a Job without its controller is over, the steps before  *)
(* the removal are reached with the tree stopped, and after the removal the   *)
(* probe does nothing but leave, so that nothing is started again.            *)
StopInvOf(p) ==
    /\ Windows /\ ~controller[p] => Stopped(p)
    /\ at[p] \in Confirmed => Stopped(p)
    /\ work[p] = "removed" => Stopped(p) /\ at[p] \in Leaving \cup Ended

StopInv == \A p \in Processes : StopInvOf(p)

IInv == ProbeTyped /\ StopInv

USE DEF GoesTo, At, DirectoryStays, DirectoryGoes, lockVars, nodeVars, probeVars, Windows

-----------------------------------------------------------------------------
(* A step that changes nothing of the trees and the directories, and neither  *)
(* enters the confirmed steps nor comes back from the end.                    *)
Elsewhere(p) ==
    /\ UNCHANGED probeVars
    /\ \/ UNCHANGED at
       \/ \E s \in Steps \ Confirmed :
            /\ at' = [at EXCEPT ![p] = s]
            /\ at[p] \in Leaving \cup Ended => s \in Leaving \cup Ended

LEMMA ElsewherePreserves ==
  ASSUME IInv, NEW p \in Processes, Elsewhere(p)
  PROVE  IInv'
  BY DEF IInv, ProbeTyped, StopInv, StopInvOf, Stopped, Elsewhere

LEMMA LockStepElsewhere ==
  ASSUME IInv, NEW p \in Processes, LockStep(p), UNCHANGED probeVars
  PROVE  Elsewhere(p)
<1> USE DEF Steps, Confirmed, Waiting, Leaving, Ended, Elsewhere
<1>1. CASE MakeDirectory(p)
  BY <1>1 DEF MakeDirectory
<1>2. CASE WriteOwner(p)
  BY <1>2 DEF WriteOwner
<1>3. CASE LookAtAge(p)
  BY <1>3 DEF LookAtAge
<1>4. CASE JudgeOwner(p)
  BY <1>4 DEF JudgeOwner
<1>5. CASE Steal(p)
  BY <1>5 DEF Steal
<1>6. CASE Retry(p)
  BY <1>6 DEF Retry
<1>7. CASE Heartbeat(p)
  BY <1>7 DEF Heartbeat
<1>8. CASE ReadOwner(p)
  BY <1>8 DEF ReadOwner
<1>9. CASE DropDirectory(p)
  BY <1>9 DEF DropDirectory
<1> QED
  BY <1>1, <1>2, <1>3, <1>4, <1>5, <1>6, <1>7, <1>8, <1>9 DEF LockStep

LEMMA NodeStepElsewhere ==
  ASSUME IInv, NEW p \in Processes, NodeStep(p), UNCHANGED probeVars
  PROVE  Elsewhere(p)
<1> USE DEF Steps, Confirmed, Waiting, Leaving, Ended, Elsewhere
<1>1. CASE LookFirst(p)
  BY <1>1 DEF LookFirst
<1>2. CASE LookAgain(p)
  BY <1>2 DEF LookAgain
<1>3. CASE EnsureCachedArchive(p)
  BY <1>3 DEF EnsureCachedArchive
<1>4. CASE Unpack(p)
  BY <1>4 DEF Unpack
<1>5. CASE MoveAside(p)
  BY <1>5 DEF MoveAside
<1>6. CASE Place(p)
  BY <1>6 DEF Place
<1>7. CASE RollBack(p)
  BY <1>7 DEF RollBack
<1>8. CASE Clear(p)
  BY <1>8 DEF Clear
<1> QED
  BY <1>1, <1>2, <1>3, <1>4, <1>5, <1>6, <1>7, <1>8 DEF NodeStep

-----------------------------------------------------------------------------
(* A step of one probe: what it does to that probe is what there is to show.  *)
Local(p) ==
    /\ UNCHANGED platform
    /\ \E s \in Steps : at' = [at EXCEPT ![p] = s]
    /\ \E t \in Trees : cli' = [cli EXCEPT ![p] = t]
    /\ \E c \in BOOLEAN : controller' = [controller EXCEPT ![p] = c]
    /\ \E w \in {"none", "made", "removed"} : work' = [work EXCEPT ![p] = w]

LEMMA LocalPreserves ==
  ASSUME IInv, NEW p \in Processes, Local(p), StopInvOf(p)'
  PROVE  IInv'
<1>1. ProbeTyped'
  BY DEF IInv, ProbeTyped, Local
<1>2. ASSUME NEW q \in Processes, q # p PROVE StopInvOf(q)'
  <2>1. /\ at'[q] = at[q] /\ cli'[q] = cli[q]
        /\ controller'[q] = controller[q] /\ work'[q] = work[q]
    BY <1>2 DEF IInv, ProbeTyped, Local
  <2> QED
    BY <2>1 DEF IInv, StopInv, StopInvOf, Stopped, Local
<1> QED
  BY <1>1, <1>2 DEF IInv, StopInv, StopInvOf

LEMMA SameIsLocal ==
  ASSUME ProbeTyped, NEW p \in Processes
  PROVE  /\ UNCHANGED at => \E s \in Steps : at' = [at EXCEPT ![p] = s]
         /\ UNCHANGED cli => \E t \in Trees : cli' = [cli EXCEPT ![p] = t]
         /\ UNCHANGED controller =>
                \E c \in BOOLEAN : controller' = [controller EXCEPT ![p] = c]
         /\ UNCHANGED work =>
                \E w \in {"none", "made", "removed"} : work' = [work EXCEPT ![p] = w]
<1>1. /\ at = [at EXCEPT ![p] = at[p]] /\ at[p] \in Steps
      /\ cli = [cli EXCEPT ![p] = cli[p]] /\ cli[p] \in Trees
      /\ controller = [controller EXCEPT ![p] = controller[p]] /\ controller[p] \in BOOLEAN
      /\ work = [work EXCEPT ![p] = work[p]] /\ work[p] \in {"none", "made", "removed"}
  BY DEF ProbeTyped
<1> QED
  BY <1>1

-----------------------------------------------------------------------------
(* The trees change of themselves: what is stopped stays stopped.             *)
LEMMA CliStepPreserves ==
  ASSUME IInv, NEW p \in Processes, CliStep(p)
  PROVE  IInv'
<1>1. cli[p] \in Trees /\ ProbeTyped /\ StopInvOf(p)
  BY DEF IInv, ProbeTyped, StopInv, StopInvOf
<1>2. CASE CliListens(p)
  <2>1. [cli[p] EXCEPT !.listens = TRUE] \in Trees
    BY <1>1 DEF Trees
  <2>2. Local(p)
    BY <1>1, <1>2, <2>1, SameIsLocal DEF CliListens, Local
  <2>3. StopInvOf(p)'
    BY <1>1, <1>2 DEF CliListens, StopInvOf, Stopped, ProbeTyped, Trees
  <2> QED
    BY <2>2, <2>3, LocalPreserves
<1>3. CASE LeaderExits(p)
  <2>1. PICK held \in {cli[p].listens, FALSE} :
            cli' = [cli EXCEPT ![p] = [cli[p] EXCEPT !.leader = FALSE, !.listens = held]]
    BY <1>3 DEF LeaderExits
  <2>2. [cli[p] EXCEPT !.leader = FALSE, !.listens = held] \in Trees
    BY <1>1 DEF Trees
  <2>3. Local(p)
    BY <1>1, <1>3, <2>1, <2>2, SameIsLocal DEF LeaderExits, Local
  <2>4. StopInvOf(p)'
    BY <1>1, <1>3, <2>1 DEF LeaderExits, StopInvOf, Stopped, ProbeTyped, Trees
  <2> QED
    BY <2>3, <2>4, LocalPreserves
<1>4. CASE DescendantsExit(p)
  <2>1. NoTree \in Trees
    BY DEF NoTree, Trees
  <2>2. Local(p)
    BY <1>1, <1>4, <2>1, SameIsLocal DEF DescendantsExit, Local
  <2>3. StopInvOf(p)'
    BY <1>1, <1>4 DEF DescendantsExit, StopInvOf, Stopped, ProbeTyped, NoTree
  <2> QED
    BY <2>2, <2>3, LocalPreserves
<1>5. CASE ControllerExits(p)
  <2>1. Killed(cli[p]) \in Trees /\ (Killed(cli[p]).alive => Killed(cli[p]).killed)
    BY <1>1 DEF Killed, Trees
  <2>2. cli' = [cli EXCEPT ![p] = Killed(cli[p])]
    BY <1>5 DEF ControllerExits
  <2>3. Local(p)
    BY <1>1, <1>5, <2>1, <2>2, SameIsLocal DEF ControllerExits, Local
  <2>4. StopInvOf(p)'
    BY <1>1, <1>5, <2>1, <2>2 DEF ControllerExits, StopInvOf, Stopped, ProbeTyped
  <2> QED
    BY <2>3, <2>4, LocalPreserves
<1> QED
  BY <1>2, <1>3, <1>4, <1>5 DEF CliStep

LEMMA ProbeStepPreserves ==
  ASSUME IInv, NEW p \in Processes, ProbeStep(p)
  PROVE  IInv'
<1>1. ProbeTyped /\ StopInvOf(p) /\ cli[p] \in Trees
  BY DEF IInv, ProbeTyped, StopInv, StopInvOf
<1>2. Killed(cli[p]) \in Trees /\ (Killed(cli[p]).alive => Killed(cli[p]).killed)
  BY <1>1 DEF Killed, Trees
<1> USE DEF Steps, Confirmed, Waiting, Leaving, Ended
<1>3. CASE CheckPort(p)
  <2>1. Local(p)
    BY <1>1, <1>3, SameIsLocal DEF CheckPort, Local
  <2>2. StopInvOf(p)'
    BY <1>1, <1>3 DEF CheckPort, StopInvOf, Stopped, ProbeTyped
  <2> QED
    BY <2>1, <2>2, LocalPreserves
<1>4. CASE MaterializeDesktopUpdatePatch(p)
  <2>1. Local(p)
    BY <1>1, <1>4, SameIsLocal DEF MaterializeDesktopUpdatePatch, Local
  <2>2. StopInvOf(p)'
    BY <1>1, <1>4 DEF MaterializeDesktopUpdatePatch, StopInvOf, Stopped, ProbeTyped
  <2> QED
    BY <2>1, <2>2, LocalPreserves
<1>5. CASE SpawnOwnedCli(p)
  <2> DEFINE tree == [NoTree EXCEPT !.leader = TRUE, !.alive = TRUE]
  <2>1. tree \in Trees
    BY DEF NoTree, Trees
  <2>2. Local(p)
    BY <1>1, <1>5, <2>1, SameIsLocal DEF SpawnOwnedCli, Local
  <2>3. StopInvOf(p)'
    BY <1>1, <1>5 DEF SpawnOwnedCli, StopInvOf, Stopped, ProbeTyped
  <2> QED
    BY <2>2, <2>3, LocalPreserves
<1>6. CASE LookAtChild(p)
  <2>1. Local(p)
    BY <1>1, <1>6, SameIsLocal DEF LookAtChild, Local
  <2>2. StopInvOf(p)'
    BY <1>1, <1>6 DEF LookAtChild, StopInvOf, Stopped, ProbeTyped
  <2> QED
    BY <2>1, <2>2, LocalPreserves
<1>7. CASE FetchPage(p)
  <2>1. Local(p)
    BY <1>1, <1>7, SameIsLocal DEF FetchPage, Local, RequireHtmlResponse
  <2>2. StopInvOf(p)'
    BY <1>1, <1>7 DEF FetchPage, StopInvOf, Stopped, ProbeTyped, RequireHtmlResponse
  <2> QED
    BY <2>1, <2>2, LocalPreserves
<1>8. CASE StopCliProcess(p)
  <2>1. Local(p)
    BY <1>1, <1>8, SameIsLocal DEF StopCliProcess, Local
  <2>2. StopInvOf(p)'
    BY <1>1, <1>8 DEF StopCliProcess, StopInvOf, Stopped, ProbeTyped, ProcessTreeHasExited
  <2> QED
    BY <2>1, <2>2, LocalPreserves
<1>9. CASE AwaitTree(p)
  <2>1. Local(p)
    BY <1>1, <1>9, SameIsLocal DEF AwaitTree, Local
  <2>2. StopInvOf(p)'
    BY <1>1, <1>9 DEF AwaitTree, StopInvOf, Stopped, ProbeTyped, ProcessTreeHasExited
  <2> QED
    BY <2>1, <2>2, LocalPreserves
<1>10. CASE TerminateProcessTree(p)
  <2>1. Local(p)
    BY <1>1, <1>10, <1>2, SameIsLocal DEF TerminateProcessTree, Local, Forcing, Awaiting, Closing
  <2>2. StopInvOf(p)'
    BY <1>1, <1>10, <1>2 DEF TerminateProcessTree, StopInvOf, Stopped, ProbeTyped, Forcing, Awaiting, Closing
  <2> QED
    BY <2>1, <2>2, LocalPreserves
<1>11. CASE AwaitKilled(p)
  <2>1. Local(p)
    BY <1>1, <1>11, SameIsLocal DEF AwaitKilled, Local, Closing
  <2>2. StopInvOf(p)'
    BY <1>1, <1>11 DEF AwaitKilled, StopInvOf, Stopped, ProbeTyped, Closing, ProcessTreeHasExited
  <2> QED
    BY <2>1, <2>2, LocalPreserves
<1>12. CASE WaitForListenerClosed(p)
  <2>1. Local(p)
    BY <1>1, <1>12, SameIsLocal DEF WaitForListenerClosed, Local
  <2>2. StopInvOf(p)'
    BY <1>1, <1>12 DEF WaitForListenerClosed, StopInvOf, Stopped, ProbeTyped
  <2> QED
    BY <2>1, <2>2, LocalPreserves
<1>13. CASE RemoveWorkDirectory(p)
  <2>1. Local(p)
    BY <1>1, <1>13, SameIsLocal DEF RemoveWorkDirectory, Local
  <2>2. StopInvOf(p)'
    BY <1>1, <1>13 DEF RemoveWorkDirectory, StopInvOf, Stopped, ProbeTyped
  <2> QED
    BY <2>1, <2>2, LocalPreserves
<1>14. CASE CliStep(p)
  BY <1>14, CliStepPreserves
<1> QED
  BY <1>3, <1>4, <1>5, <1>6, <1>7, <1>8, <1>9, <1>10, <1>11, <1>12, <1>13, <1>14 DEF ProbeStep

LEMMA ProbeDiesPreserves ==
  ASSUME IInv, NEW p \in Processes, ProbeDies(p)
  PROVE  IInv'
<1>1. ProbeTyped /\ StopInvOf(p) /\ cli[p] \in Trees
  BY DEF IInv, ProbeTyped, StopInv, StopInvOf
<1>2. Killed(cli[p]) \in Trees /\ (Killed(cli[p]).alive => Killed(cli[p]).killed)
  BY <1>1 DEF Killed, Trees
<1>3. cli' = [cli EXCEPT ![p] = IF Windows THEN Killed(cli[p]) ELSE cli[p]]
  BY DEF ProbeDies
<1>4. Local(p)
  BY <1>1, <1>2, <1>3, SameIsLocal DEF ProbeDies, Dies, Local, Steps, Ended
<1>5. StopInvOf(p)'
  BY <1>1, <1>2, <1>3 DEF ProbeDies, Dies, Wants, StopInvOf, Stopped, ProbeTyped, Confirmed, Ended
<1> QED
  BY <1>4, <1>5, LocalPreserves

LEMMA NextPreserves ==
  ASSUME IInv, [Next]_vars
  PROVE  IInv'
<1>1. CASE InstallsNode
  <2>1. PICK p \in Processes : LockStep(p) \/ Dies(p) \/ NodeStep(p)
    BY <1>1 DEF InstallsNode
  <2>2. UNCHANGED probeVars
    BY <1>1 DEF InstallsNode
  <2>3. Dies(p) => Elsewhere(p)
    BY <2>2 DEF Dies, Elsewhere, Steps, Confirmed, Ended
  <2> QED
    BY <2>1, <2>2, <2>3, LockStepElsewhere, NodeStepElsewhere, ElsewherePreserves
<1>2. CASE ProbesPort
  <2>1. PICK p \in Processes : (LockStep(p) /\ UNCHANGED probeVars) \/ ProbeDies(p) \/ ProbeStep(p)
    BY <1>2 DEF ProbesPort
  <2> QED
    BY <2>1, LockStepElsewhere, ElsewherePreserves, ProbeDiesPreserves, ProbeStepPreserves
<1>3. CASE TimePasses
  BY <1>3 DEF TimePasses, LockAges, IInv, ProbeTyped, StopInv, StopInvOf, Stopped
<1>4. CASE UNCHANGED vars
  BY <1>4 DEF vars, IInv, ProbeTyped, StopInv, StopInvOf, Stopped
<1> QED
  BY <1>1, <1>2, <1>3, <1>4 DEF Next

LEMMA Begins ==
  ASSUME Init
  PROVE  IInv
  BY DEF Init, LockInit, ProbeInit, NoTree, IInv, ProbeTyped, StopInv, StopInvOf, Stopped, Trees,
     Steps, Confirmed, Waiting

(* No work directory is removed while a process of the probe's tree can       *)
(* write there (probeDirectDshWeb: cleanupConfirmed).                         *)
THEOREM RemovalIsSafe == Spec => []StoppedBeforeRemoval
<1>1. Init => IInv
  BY Begins
<1>2. IInv /\ [Next]_vars => IInv'
  BY NextPreserves
<1>3. IInv => StoppedBeforeRemoval
  BY DEF IInv, StopInv, StopInvOf, Stopped, StoppedBeforeRemoval
<1> QED
  BY <1>1, <1>2, <1>3, PTL DEF Spec

-----------------------------------------------------------------------------
(* Mutual exclusion.  The one directory there is belongs to the process       *)
(* inside, or on its way in, and what has been read of its owner stays true:  *)
(* who is gone does not come back, and with another directory the reading is  *)
(* forgotten.                                                                 *)

Past(p) == at[p] \notin Waiting \cup Ended

LockTyped ==
    /\ at \in [Processes -> Steps]
    /\ lock.by \subseteq Processes /\ \A p, q \in lock.by : p = q
    /\ lock.written \in BOOLEAN /\ lock.stale \in BOOLEAN
    /\ lock = [by |-> lock.by, written |-> lock.written, stale |-> lock.stale]
    /\ lock.by = {} => lock = NoLock

HolderInv(p) ==
    /\ At(p, "own") => lock.by = {p} /\ ~lock.written
    /\ Past(p) => lock.by = {p} /\ lock.written
    /\ at[p] \in Waiting \ {"own"} => p \notin lock.by

JudgedInv == judged # {} => lock.by # {} /\ \A q \in lock.by : Gone(q)

LockInv == LockTyped /\ JudgedInv /\ \A p \in Processes : HolderInv(p)

-----------------------------------------------------------------------------
(* The official Node: whoever has found no executable under the lock is the   *)
(* only one to install one.                                                   *)

Installing == {"fetch", "unpack", "move aside"}

NodeInv ==
    /\ destination \in Destinations /\ aside \in [Processes -> Destinations]
    /\ job = "probe" => destination = "missing"
    /\ \A p \in Processes : at[p] \in Installing => destination # "whole"

-----------------------------------------------------------------------------
(* The fixed port: a tree that a probe left behind with its lock listens, and *)
(* is found by CheckPort, or is killed and answers no more.                   *)

TreeOK(p) == cli[p].leader \/ cli[p].listens => cli[p].alive

Started == {"look", "fetch", "stop", "await tree", "force", "force at last",
            "await killed", "await killed at last"} \cup Confirmed
Quiet(p) == cli[p].leader \/ cli[p].listens => cli[p].killed

Settled(p) == cli[p].leader => cli[p].listens \/ cli[p].killed

TreeInv(p) ==
    /\ TreeOK(p)
    /\ job = "node" => cli[p] = NoTree
    /\ at[p] \in Waiting \cup {"inside", "prepare", "spawn"} => cli[p] = NoTree
    /\ at[p] \in Leaving \cup {"done", "failed", "await killed", "await killed at last"} => Stopped(p)
    /\ At(p, "dead") /\ p \notin lock.by => Settled(p)

\* Past CheckPort no tree of another probe listens or comes to listen.
PortInv(p) ==
    /\ at[p] \in Started \cup {"prepare", "spawn"} => \A q \in Processes \ {p} : Quiet(q)
    /\ page[p] \subseteq {p}

PageInv ==
    /\ page \in [Processes -> SUBSET Processes]
    /\ StartIsOver
    /\ \A p \in Processes : TreeInv(p) /\ PortInv(p)

-----------------------------------------------------------------------------
(* Who steps onward: inside the lock and out of it, or among the waiters that *)
(* have no directory of their own, or to an end.                              *)
Onward(p) ==
    /\ UNCHANGED lock
    /\ Wants(p)
    /\ \E s \in Steps :
        /\ at' = [at EXCEPT ![p] = s]
        /\ \/ s \in Ended
           \/ Past(p) /\ s \notin Waiting
           \/ at[p] \in Waiting \ {"own"} /\ s \in Waiting \ {"own"}

\* A waiter without a directory of its own waits on, or gives up.
LEMMA WaitingIsOnward ==
  ASSUME NEW p \in Processes, at[p] \in Waiting \ {"own"}, UNCHANGED lock,
         NEW s \in (Waiting \ {"own"}) \cup Ended, at' = [at EXCEPT ![p] = s]
  PROVE  Onward(p)
<1>1. s \in Steps
  BY DEF Steps
<1>2. Wants(p)
  BY DEF Wants, Waiting, Ended
<1> QED
  BY <1>1, <1>2 DEF Onward

\* Nobody who is gone steps.
LEMMA GoneStays ==
  ASSUME LockInv, NEW p \in Processes, Wants(p), NEW s \in Steps, at' = [at EXCEPT ![p] = s],
         NEW q \in Processes, Gone(q)
  PROVE  Gone(q)'
  BY DEF LockInv, LockTyped, Wants, Gone, Ended

LEMMA OnwardKeepsLock ==
  ASSUME LockInv, NEW p \in Processes, Onward(p), UNCHANGED judged \/ JudgedInv'
  PROVE  LockInv'
<1>1. LockTyped /\ JudgedInv /\ Wants(p)
  BY DEF LockInv, Onward
<1>2. PICK s \in Steps :
        /\ at' = [at EXCEPT ![p] = s]
        /\ \/ s \in Ended
           \/ Past(p) /\ s \notin Waiting
           \/ at[p] \in Waiting \ {"own"} /\ s \in Waiting \ {"own"}
  BY DEF Onward
<1>3. lock' = lock /\ at'[p] = s /\ at' \in [Processes -> Steps]
      /\ \A q \in Processes \ {p} : at'[q] = at[q]
  BY <1>1, <1>2 DEF LockTyped, Onward
<1>4. LockTyped'
  BY <1>1, <1>3 DEF LockTyped
<1>5. JudgedInv'
  <2>1. SUFFICES ASSUME judged' = judged PROVE JudgedInv'
    OBVIOUS
  <2>2. ASSUME NEW q \in lock.by, Gone(q) PROVE Gone(q)'
    BY <1>1, <1>2, <2>2, GoneStays DEF LockTyped
  <2> QED
    BY <1>1, <1>3, <2>1, <2>2 DEF JudgedInv
<1>6. HolderInv(p)'
  <2>1. HolderInv(p)
    BY DEF LockInv
  <2> QED
    BY <1>2, <1>3, <2>1 DEF HolderInv, Past, Waiting, Ended
<1>7. ASSUME NEW q \in Processes \ {p} PROVE HolderInv(q)'
  <2>1. HolderInv(q) /\ at'[q] = at[q]
    BY <1>3, <1>7 DEF LockInv
  <2> QED
    BY <1>3, <2>1 DEF HolderInv, Past
<1> QED
  BY <1>4, <1>5, <1>6, <1>7 DEF LockInv

\* The directory is the holder's: nobody else holds it or waits for its file.
LEMMA HolderIsAlone ==
  ASSUME LockInv, NEW p \in Processes, lock.by = {p} \/ lock.by = {}, NEW q \in Processes \ {p}
  PROVE  at[q] # "own" /\ ~Past(q)
  BY DEF LockInv, HolderInv

\* Of a process that is on its way in, or inside, nobody has read that it is gone.
LEMMA LiveOwnerIsUnjudged ==
  ASSUME LockInv, NEW p \in lock.by, ~Gone(p)
  PROVE  judged = {}
  BY DEF LockInv, JudgedInv

LEMMA NewLock ==
  /\ NoLock.by = {} /\ NoLock.written = FALSE /\ NoLock.stale = FALSE
  /\ NoLock = [by |-> NoLock.by, written |-> NoLock.written, stale |-> NoLock.stale]
  BY DEF NoLock

\* A directory goes, and nobody is on its way in or inside.
LEMMA GoneDirectoryKeepsLock ==
  ASSUME LockInv, NEW p \in Processes, NEW s \in Steps \ {"own"}, DirectoryGoes,
         at' = [at EXCEPT ![p] = s], s \in Waiting \cup Ended,
         \A q \in Processes \ {p} : at[q] # "own" /\ ~Past(q)
  PROVE  LockInv'
<1>1. /\ at' \in [Processes -> Steps] /\ at'[p] = s
      /\ \A q \in Processes \ {p} : at'[q] = at[q]
      /\ lock' = NoLock /\ lock'.by = {} /\ judged' = {}
  BY NewLock DEF LockInv, LockTyped
<1>2. LockTyped' /\ JudgedInv'
  BY <1>1, NewLock DEF LockTyped, JudgedInv
<1>3. HolderInv(p)' /\ \A q \in Processes \ {p} : HolderInv(q)'
  BY <1>1 DEF HolderInv, Past
<1> QED
  BY <1>2, <1>3 DEF LockInv

LEMMA MakeKeepsLock ==
  ASSUME LockInv, NEW p \in Processes, MakeDirectory(p)
  PROVE  LockInv'
<1>1. LockTyped /\ JudgedInv /\ at[p] = "enter" /\ judged' = judged
  BY DEF LockInv, MakeDirectory
<1>2. CASE lock # NoLock
  <2>1. Onward(p)
    BY <1>1, <1>2 DEF MakeDirectory, Onward, Wants, Steps, Waiting, Ended
  <2> QED
    BY <1>1, <2>1, OnwardKeepsLock
<1>3. CASE lock = NoLock
  <2>1. /\ lock' = [by |-> {p}, written |-> FALSE, stale |-> FALSE]
        /\ at' = [at EXCEPT ![p] = "own"]
    BY <1>3 DEF MakeDirectory
  <2>2. /\ at' \in [Processes -> Steps] /\ at'[p] = "own"
        /\ \A q \in Processes \ {p} : at'[q] = at[q]
        /\ lock'.by = {p} /\ lock'.written = FALSE
    BY <1>1, <2>1 DEF LockTyped, Steps, Waiting
  <2>3. LockTyped' /\ JudgedInv'
    BY <1>1, <1>3, <2>1, <2>2, NewLock DEF LockTyped, JudgedInv
  <2>4. HolderInv(p)'
    BY <2>1, <2>2 DEF HolderInv, Past, Waiting, Ended
  <2>5. ASSUME NEW q \in Processes \ {p} PROVE HolderInv(q)'
    <3>1. at[q] # "own" /\ ~Past(q)
      BY <1>3, HolderIsAlone, NewLock
    <3> QED
      BY <2>2, <3>1 DEF HolderInv, Past
  <2> QED
    BY <2>3, <2>4, <2>5 DEF LockInv
<1> QED
  BY <1>2, <1>3

\* The owner of a directory without a file writes it, or the directory goes.
LEMMA WriteKeepsLock ==
  ASSUME LockInv, NEW p \in Processes, WriteOwner(p)
  PROVE  LockInv'
<1>1. LockTyped /\ at[p] = "own" /\ lock.by = {p} /\ lock.written = FALSE /\ judged = {}
  <2>1. LockTyped /\ at[p] = "own" /\ lock.by = {p} /\ lock.written = FALSE
    BY DEF LockInv, HolderInv, LockTyped, WriteOwner
  <2> QED
    BY <2>1, LiveOwnerIsUnjudged DEF Gone
<1>2. \A q \in Processes \ {p} : at[q] # "own" /\ ~Past(q)
  BY <1>1, HolderIsAlone
<1>3. CASE /\ lock' = [by |-> {p}, written |-> TRUE, stale |-> FALSE]
           /\ at' = [at EXCEPT ![p] = "inside"] /\ judged' = judged
  <2>1. /\ at' \in [Processes -> Steps] /\ at'[p] = "inside"
        /\ \A q \in Processes \ {p} : at'[q] = at[q]
        /\ lock'.by = {p} /\ lock'.written = TRUE
    BY <1>1, <1>3 DEF LockTyped, Steps
  <2>2. LockTyped' /\ JudgedInv'
    BY <1>1, <1>3, <2>1 DEF LockTyped, JudgedInv
  <2>3. HolderInv(p)'
    BY <2>1 DEF HolderInv, Past, Waiting, Ended
  <2>4. \A q \in Processes \ {p} : HolderInv(q)'
    BY <1>2, <2>1 DEF HolderInv, Past
  <2> QED
    BY <2>2, <2>3, <2>4 DEF LockInv
<1>4. CASE DirectoryGoes /\ at' = [at EXCEPT ![p] = "failed"]
  <2>1. "failed" \in Steps \ {"own"} /\ "failed" \in Ended
    BY DEF Steps, Ended
  <2> QED
    BY <1>2, <1>4, <2>1, GoneDirectoryKeepsLock
<1> QED
  BY <1>1, <1>3, <1>4 DEF WriteOwner

LEMMA LookKeepsLock ==
  ASSUME LockInv, NEW p \in Processes, LookAtAge(p)
  PROVE  LockInv'
<1>1. at[p] = "conflict" /\ \E s \in {"judge", "retry"} : at' = [at EXCEPT ![p] = s]
  BY DEF LookAtAge
<1>2. Onward(p) /\ judged' = judged
  BY <1>1, WaitingIsOnward DEF LookAtAge, Waiting
<1> QED
  BY <1>2, OnwardKeepsLock

\* Who is judged gone by the file is gone.
LEMMA JudgeKeepsLock ==
  ASSUME LockInv, NEW p \in Processes, JudgeOwner(p)
  PROVE  LockInv'
<1>1. LockTyped /\ JudgedInv
  BY DEF LockInv
<1>2. Onward(p)
  BY DEF JudgeOwner, Onward, Wants, Steps, Waiting, Ended
<1>3. CASE judged' = judged
  BY <1>2, <1>3, OnwardKeepsLock
<1>4. CASE judged' # judged
  <2>1. lock.written /\ ~LockOwnerProcessIsAlive /\ lock' = lock
    BY <1>4 DEF JudgeOwner
  <2>2. PICK o \in lock.by : Gone(o)
    BY <2>1 DEF LockOwnerProcessIsAlive
  <2>3. \A q \in lock.by : Gone(q)'
    BY <1>1, <1>2, <2>2, GoneStays DEF LockTyped, Onward
  <2>4. JudgedInv'
    BY <2>1, <2>2, <2>3 DEF JudgedInv
  <2> QED
    BY <1>2, <2>4, OnwardKeepsLock
<1> QED
  BY <1>3, <1>4

\* Whom a waiter on track robs is gone: it has read so, or sees nobody alive robbed.
LEMMA StealKeepsLock ==
  ASSUME LockInv, ~astray', NEW p \in Processes, Steal(p)
  PROVE  LockInv'
<1>1. LockTyped /\ JudgedInv /\ at[p] = "steal"
  BY DEF LockInv, Steal
<1>2. CASE UNCHANGED <<lock, judged>> /\ at' = [at EXCEPT ![p] = "retry"]
  <2>1. Onward(p)
    BY <1>1, <1>2, WaitingIsOnward DEF Waiting
  <2> QED
    BY <1>2, <2>1, OnwardKeepsLock
<1>3. CASE DirectoryGoes /\ at' = [at EXCEPT ![p] = "enter"] /\ ~GoesAstray(p)
  <2>1. \A q \in lock.by : Gone(q)
    BY <1>1, <1>3 DEF GoesAstray, JudgedInv
  <2>2. ASSUME NEW q \in Processes \ {p} PROVE at[q] # "own" /\ ~Past(q)
    <3>1. SUFFICES ASSUME at[q] = "own" \/ Past(q) PROVE FALSE
      OBVIOUS
    <3>2. q \in lock.by
      BY <3>1 DEF LockInv, HolderInv
    <3> QED
      BY <2>1, <3>1, <3>2 DEF Gone, Past, Ended
  <2>3. "enter" \in Steps \ {"own"} /\ "enter" \in Waiting
    BY DEF Steps, Waiting
  <2> QED
    BY <1>3, <2>2, <2>3, GoneDirectoryKeepsLock
<1> QED
  BY <1>2, <1>3 DEF Steal

LEMMA HeartbeatKeepsLock ==
  ASSUME LockInv, NEW p \in Processes, Heartbeat(p)
  PROVE  LockInv'
<1>1. /\ LockTyped /\ JudgedInv /\ at' = at /\ judged' = judged
      /\ lock' = [lock EXCEPT !.stale = FALSE]
  BY DEF LockInv, Heartbeat
<1>2. /\ lock' = [by |-> lock.by, written |-> lock.written, stale |-> FALSE]
      /\ lock'.by = lock.by /\ lock'.written = lock.written /\ lock'.stale = FALSE
  BY <1>1 DEF LockTyped
<1>3. LockTyped' /\ JudgedInv'
  <2>1. lock.by = {} => lock' = NoLock
    BY <1>1, <1>2, NewLock DEF LockTyped
  <2> QED
    BY <1>1, <1>2, <2>1 DEF LockTyped, JudgedInv, Gone
<1>4. ASSUME NEW q \in Processes PROVE HolderInv(q)'
  <2>1. HolderInv(q)
    BY DEF LockInv
  <2> QED
    BY <1>1, <1>2, <2>1 DEF HolderInv, Past
<1> QED
  BY <1>3, <1>4 DEF LockInv

\* Only the owner gets as far as dropping its directory.
LEMMA DropKeepsLock ==
  ASSUME LockInv, NEW p \in Processes, DropDirectory(p)
  PROVE  LockInv'
<1>1. LockTyped /\ at[p] = "drop" /\ lock.by = {p}
  BY DEF LockInv, HolderInv, DropDirectory, Past, Waiting, Ended
<1>2. CASE UNCHANGED <<lock, judged>> /\ at' = [at EXCEPT ![p] = "failed"]
  <2>1. Onward(p)
    BY <1>1, <1>2 DEF Onward, Wants, Steps, Waiting, Ended
  <2> QED
    BY <1>2, <2>1, OnwardKeepsLock
<1>3. CASE DirectoryGoes /\ at' = [at EXCEPT ![p] = "done"]
  <2>1. \A q \in Processes \ {p} : at[q] # "own" /\ ~Past(q)
    BY <1>1, HolderIsAlone
  <2>2. "done" \in Steps \ {"own"} /\ "done" \in Ended
    BY DEF Steps, Ended
  <2> QED
    BY <1>3, <2>1, <2>2, GoneDirectoryKeepsLock
<1> QED
  BY <1>2, <1>3 DEF DropDirectory

\* Inside the lock a step leads on, out of it, or nowhere.
LEMMA InsideIsOnward ==
  ASSUME NEW p \in Processes, Past(p), UNCHANGED lock, NEW s \in Steps \ Waiting,
         at' = [at EXCEPT ![p] = s]
  PROVE  Onward(p)
  BY DEF Onward, Past, Wants

LEMMA LockStepKeepsLock ==
  ASSUME LockInv, ~astray', NEW p \in Processes, LockStep(p)
  PROVE  LockInv'
<1>1. CASE Retry(p)
  <2>1. Onward(p) /\ judged' = judged
    BY <1>1 DEF Retry, Onward, Wants, Steps, Waiting, Ended
  <2> QED
    BY <2>1, OnwardKeepsLock
<1>2. CASE ReadOwner(p)
  <2>1. Past(p) /\ lock' = lock /\ \E s \in {"drop", "done"} : at' = [at EXCEPT ![p] = s]
    BY <1>2 DEF ReadOwner, Past, Waiting, Ended
  <2>2. {"drop", "done"} \subseteq Steps \ Waiting
    BY DEF Steps, Leaving, Waiting, Ended
  <2>3. Onward(p) /\ judged' = judged
    BY <1>2, <2>1, <2>2, InsideIsOnward DEF ReadOwner
  <2> QED
    BY <2>3, OnwardKeepsLock
<1> QED
  BY <1>1, <1>2, MakeKeepsLock, WriteKeepsLock, LookKeepsLock, JudgeKeepsLock, StealKeepsLock,
     HeartbeatKeepsLock, DropKeepsLock DEF LockStep

LEMMA AgingKeepsLock ==
  ASSUME LockInv, LockAges
  PROVE  LockInv'
<1>1. /\ LockTyped /\ JudgedInv /\ at' = at /\ judged' = judged
      /\ lock' = [lock EXCEPT !.stale = TRUE]
  BY DEF LockInv, LockAges
<1>2. /\ lock' = [by |-> lock.by, written |-> lock.written, stale |-> TRUE]
      /\ lock'.by = lock.by /\ lock'.written = lock.written
  BY <1>1 DEF LockTyped
<1>3. lock.by # {}
  BY <1>1 DEF LockAges, LockTyped
<1>4. LockTyped' /\ JudgedInv'
  BY <1>1, <1>2, <1>3 DEF LockTyped, JudgedInv, Gone
<1>5. ASSUME NEW q \in Processes PROVE HolderInv(q)'
  <2>1. HolderInv(q)
    BY DEF LockInv
  <2> QED
    BY <1>1, <1>2, <2>1 DEF HolderInv, Past
<1> QED
  BY <1>4, <1>5 DEF LockInv

-----------------------------------------------------------------------------
(* The jobs step onward, and otherwise leave the lock alone.                  *)

LEMMA NodeStepOnward ==
  ASSUME NEW p \in Processes, NodeStep(p)
  PROVE  Onward(p) /\ UNCHANGED <<judged, astray>>
<1>1. CASE LookFirst(p)
  <2>1. at[p] = "arrive" /\ \E s \in {"done", "enter"} : at' = [at EXCEPT ![p] = s]
    BY <1>1 DEF LookFirst
  <2> QED
    BY <1>1, <2>1, WaitingIsOnward DEF LookFirst, Waiting, Ended
<1>2. CASE LookAgain(p) \/ EnsureCachedArchive(p) \/ Unpack(p) \/ MoveAside(p)
  <2>1. Past(p) /\ lock' = lock /\ judged' = judged /\ astray' = astray
    BY <1>2 DEF LookAgain, EnsureCachedArchive, Unpack, MoveAside, Past, Waiting, Ended
  <2>2. \E s \in {"release", "fetch", "unpack", "move aside", "place"} : at' = [at EXCEPT ![p] = s]
    BY <1>2 DEF LookAgain, EnsureCachedArchive, Unpack, MoveAside
  <2>3. {"release", "fetch", "unpack", "move aside", "place"} \subseteq Steps \ Waiting
    BY DEF Steps, Waiting, Leaving
  <2> QED
    BY <2>1, <2>2, <2>3, InsideIsOnward
<1>3. CASE Place(p) \/ RollBack(p) \/ Clear(p)
  <2>1. Past(p) /\ lock' = lock /\ judged' = judged /\ astray' = astray
    BY <1>3 DEF Place, RollBack, Clear, Past, Waiting, Ended
  <2>2. \E s \in {"release", "clear", "roll back"} : at' = [at EXCEPT ![p] = s]
    BY <1>3 DEF Place, RollBack, Clear
  <2>3. {"release", "clear", "roll back"} \subseteq Steps \ Waiting
    BY DEF Steps, Waiting, Leaving
  <2> QED
    BY <2>1, <2>2, <2>3, InsideIsOnward
<1> QED
  BY <1>1, <1>2, <1>3 DEF NodeStep

LEMMA ProbeStepOnward ==
  ASSUME NEW p \in Processes, ProbeStep(p)
  PROVE  \/ Onward(p) /\ UNCHANGED <<judged, astray>>
         \/ CliStep(p) /\ UNCHANGED lockVars
<1> DEFINE Targets == {"prepare", "spawn", "look", "fetch", "stop", "await tree", "force",
                       "force at last", "await killed", "await killed at last", "closed",
                       "closed at last", "remove", "release"}
<1> DEFINE Kept == Past(p) /\ lock' = lock /\ judged' = judged /\ astray' = astray
<1>1. Targets \subseteq Steps \ Waiting
  BY DEF Steps, Waiting, Leaving
<1>2. ASSUME \/ CheckPort(p) \/ MaterializeDesktopUpdatePatch(p) \/ SpawnOwnedCli(p)
             \/ LookAtChild(p) \/ FetchPage(p) \/ StopCliProcess(p)
      PROVE  Kept /\ \E s \in Targets : at' = [at EXCEPT ![p] = s]
  <2>1. Kept
    BY <1>2 DEF CheckPort, MaterializeDesktopUpdatePatch, SpawnOwnedCli, LookAtChild, FetchPage,
       StopCliProcess, Past, Waiting, Ended
  <2> QED
    BY <1>2, <2>1 DEF CheckPort, MaterializeDesktopUpdatePatch, SpawnOwnedCli, LookAtChild, FetchPage,
       RequireHtmlResponse, StopCliProcess
<1>3. ASSUME \/ AwaitTree(p) \/ TerminateProcessTree(p) \/ AwaitKilled(p)
             \/ WaitForListenerClosed(p) \/ RemoveWorkDirectory(p)
      PROVE  Kept /\ \E s \in Targets : at' = [at EXCEPT ![p] = s]
  <2>1. Kept
    BY <1>3 DEF AwaitTree, TerminateProcessTree, Forcing, AwaitKilled, WaitForListenerClosed,
       RemoveWorkDirectory, Past, Waiting, Ended
  <2> QED
    BY <1>3, <2>1 DEF AwaitTree, TerminateProcessTree, Awaiting, Closing, AwaitKilled,
       WaitForListenerClosed, RemoveWorkDirectory
<1>4. ASSUME CliStep(p) PROVE UNCHANGED lockVars
  BY <1>4 DEF CliStep, CliListens, LeaderExits, DescendantsExit, ControllerExits
<1>5. ASSUME Kept /\ \E s \in Targets : at' = [at EXCEPT ![p] = s]
      PROVE  Onward(p) /\ UNCHANGED <<judged, astray>>
  BY <1>1, <1>5, InsideIsOnward
<1> QED
  BY <1>2, <1>3, <1>4, <1>5 DEF ProbeStep

LEMMA DiesOnward ==
  ASSUME NEW p \in Processes, Dies(p)
  PROVE  Onward(p) /\ UNCHANGED <<judged, astray>>
  BY DEF Dies, Onward, Steps, Ended

LEMMA LockKept ==
  ASSUME LockInv, ~astray', [Next]_vars
  PROVE  LockInv'
<1>1. CASE InstallsNode
  <2>1. PICK p \in Processes : LockStep(p) \/ Dies(p) \/ NodeStep(p)
    BY <1>1 DEF InstallsNode
  <2> QED
    BY <2>1, LockStepKeepsLock, DiesOnward, NodeStepOnward, OnwardKeepsLock
<1>2. CASE ProbesPort
  <2>1. PICK p \in Processes : LockStep(p) \/ Dies(p) \/ ProbeStep(p)
    BY <1>2 DEF ProbesPort, ProbeDies
  <2>2. CASE UNCHANGED lockVars
    BY <2>2 DEF LockInv, LockTyped, JudgedInv, HolderInv, Past, Gone
  <2> QED
    BY <2>1, <2>2, LockStepKeepsLock, DiesOnward, ProbeStepOnward, OnwardKeepsLock
<1>3. CASE TimePasses
  BY <1>3, AgingKeepsLock DEF TimePasses
<1>4. CASE UNCHANGED vars
  BY <1>4 DEF vars, LockInv, LockTyped, JudgedInv, HolderInv, Past, Gone
<1> QED
  BY <1>1, <1>2, <1>3, <1>4 DEF Next

\* Who has gone astray has: no step takes it back.
LEMMA AstrayStays ==
  ASSUME astray, [Next]_vars
  PROVE  astray'
<1>1. ASSUME NEW p \in Processes, LockStep(p) PROVE astray'
  BY <1>1 DEF LockStep, MakeDirectory, WriteOwner, LookAtAge, JudgeOwner, Steal, Retry, Heartbeat,
     ReadOwner, DropDirectory
<1>2. CASE InstallsNode
  BY <1>1, <1>2, NodeStepOnward, DiesOnward DEF InstallsNode
<1>3. CASE ProbesPort
  BY <1>1, <1>3, ProbeStepOnward, DiesOnward DEF ProbesPort, ProbeDies
<1>4. CASE TimePasses
  BY <1>4 DEF TimePasses, LockAges
<1> QED
  BY <1>2, <1>3, <1>4 DEF Next, vars

LEMMA LockBegins ==
  ASSUME Init
  PROVE  LockInv
<1>1. lock = NoLock /\ judged = {} /\ \A p \in Processes : at[p] \in {"arrive", "enter"}
  BY DEF Init, LockInit
<1>2. at \in [Processes -> Steps]
  BY DEF Init, LockInit, Steps, Waiting
<1>3. LockTyped /\ JudgedInv
  BY <1>1, <1>2, NewLock DEF LockTyped, JudgedInv
<1>4. \A p \in Processes : HolderInv(p)
  BY <1>1, NewLock DEF HolderInv, Past, Waiting
<1> QED
  BY <1>3, <1>4 DEF LockInv

(* At most one process is inside the lock, however owners die, are held up    *)
(* past the stale limit, fail to write their name or leave their directory    *)
(* behind, until a waiter moves aside, without having read that its owner is  *)
(* gone, the directory of a living process (withDirectoryLock).               *)
THEOREM LockIsExclusive == Spec => []OneHolderUnlessAstray
<1> DEFINE I == astray \/ LockInv
<1>1. Init => I
  BY LockBegins
<1>2. I /\ [Next]_vars => I'
  BY LockKept, AstrayStays
<1>3. I => OneHolderUnlessAstray
  BY DEF LockInv, HolderInv, OneHolderUnlessAstray, OneHolder, Inside, Past
<1> QED
  BY <1>1, <1>2, <1>3, PTL DEF Spec

-----------------------------------------------------------------------------
(* The official Node.                                                         *)

LEMMA NodeKept ==
  ASSUME LockInv, NodeInv, [Next]_vars
  PROVE  NodeInv' /\ (IsFile => IsFile')
<1>1. /\ destination \in Destinations /\ aside \in [Processes -> Destinations] /\ LockTyped
      /\ \A p \in Processes : at[p] \in Installing => destination # "whole"
      /\ job = "probe" => destination = "missing"
  BY DEF NodeInv, LockInv
<1>2. ASSUME NEW p \in Processes, LockStep(p) \/ Dies(p)
      PROVE  \A q \in Processes : at'[q] \in Installing => at[q] \in Installing
  <2>1. \E s \in Waiting \cup Leaving \cup Ended \cup {"inside"} :
           at' = [at EXCEPT ![p] = s] \/ at' = at
    BY <1>2 DEF LockStep, MakeDirectory, WriteOwner, LookAtAge, JudgeOwner, Steal, Retry, Heartbeat,
       ReadOwner, DropDirectory, Dies, Waiting, Leaving, Ended
  <2> QED
    BY <1>1, <2>1 DEF LockTyped, Waiting, Leaving, Ended, Installing
<1>3. CASE InstallsNode
  <2>1. PICK p \in Processes :
          \/ (LockStep(p) \/ Dies(p)) /\ UNCHANGED nodeVars
          \/ NodeStep(p)
    BY <1>3 DEF InstallsNode
  <2>2. job = "node" /\ job' = job
    BY <1>3 DEF InstallsNode
  <2>3. CASE (LockStep(p) \/ Dies(p)) /\ UNCHANGED nodeVars
    BY <1>1, <1>2, <2>2, <2>3 DEF NodeInv, IsFile
  <2>4. CASE LookFirst(p) \/ LookAgain(p) \/ EnsureCachedArchive(p) \/ Unpack(p)
    <3>1. destination' = destination /\ aside' = aside
      BY <2>4 DEF LookFirst, LookAgain, EnsureCachedArchive, Unpack
    <3>2. \E s \in {"done", "enter", "release", "fetch", "unpack", "move aside"} :
             at' = [at EXCEPT ![p] = s]
      BY <2>4 DEF LookFirst, LookAgain, EnsureCachedArchive, Unpack
    <3>3. at'[p] \in Installing => destination # "whole"
      BY <1>1, <2>4 DEF LookFirst, LookAgain, EnsureCachedArchive, Unpack, LockTyped, Installing, IsFile
    <3> QED
      BY <1>1, <2>2, <3>1, <3>2, <3>3 DEF NodeInv, IsFile, LockTyped
  <2>5. CASE MoveAside(p) \/ Place(p) \/ RollBack(p) \/ Clear(p)
    <3>1. Past(p)
      BY <2>5 DEF MoveAside, Place, RollBack, Clear, Past, Waiting, Ended
    <3>2. ASSUME NEW q \in Processes \ {p} PROVE at[q] \notin Installing
      <4>1. ~Past(q)
        BY <3>1 DEF LockInv, HolderInv
      <4> QED
        BY <4>1 DEF Past, Installing, Waiting, Ended
    <3>3. \E s \in {"place", "release", "clear", "roll back"} : at' = [at EXCEPT ![p] = s]
      BY <2>5 DEF MoveAside, Place, RollBack, Clear
    <3>4. \A q \in Processes : at'[q] \notin Installing
      BY <1>1, <3>2, <3>3 DEF LockTyped, Installing
    <3>5. destination' \in Destinations /\ aside' \in [Processes -> Destinations]
      BY <1>1, <2>5 DEF MoveAside, Place, RollBack, Clear, Destinations
    <3>6. destination = "whole" => destination' = "whole"
      BY <1>1, <2>5 DEF MoveAside, Place, RollBack, Clear, Installing, PathExists
    <3> QED
      BY <2>2, <3>4, <3>5, <3>6 DEF NodeInv, IsFile
  <2> QED
    BY <2>1, <2>3, <2>4, <2>5 DEF NodeStep
<1>4. CASE ProbesPort
  <2>1. destination = "missing" /\ destination' = "missing" /\ job' = job /\ aside' = aside
    BY <1>1, <1>4 DEF ProbesPort
  <2> QED
    BY <1>1, <2>1 DEF NodeInv, IsFile, Destinations
<1>5. CASE TimePasses
  BY <1>1, <1>5 DEF TimePasses, LockAges, NodeInv, IsFile
<1>6. CASE UNCHANGED vars
  BY <1>1, <1>6 DEF vars, NodeInv, IsFile
<1> QED
  BY <1>3, <1>4, <1>5, <1>6 DEF Next

LEMMA NodeBegins ==
  ASSUME Init
  PROVE  NodeInv
<1>1. \A p \in Processes : at[p] \notin Installing
  BY DEF Init, LockInit, Installing
<1> QED
  BY <1>1 DEF Init, NodeInit, NodeInv, Destinations

(* A Node that is installed stays installed, whoever else installs one, fails,*)
(* dies or recovers the lock, until a waiter goes astray (ensureOfficialNode, *)
(* installArchive).                                                           *)
THEOREM InstalledNodeStays == Spec => NodeStaysInstalled
<1> DEFINE I == astray \/ (LockInv /\ NodeInv)
<1>1. Init => I
  BY LockBegins, NodeBegins
<1>2. I /\ [Next]_vars => I'
  BY LockKept, NodeKept, AstrayStays
<1>3. I /\ [Next]_vars => [IsFile => IsFile' \/ astray]_<<lockVars, nodeVars>>
  BY NodeKept
<1> QED
  BY <1>1, <1>2, <1>3, PTL DEF Spec, NodeStaysInstalled

-----------------------------------------------------------------------------
(* The fixed port.                                                            *)

Watched == Started \cup {"prepare", "spawn"}

LEMMA WatchedIsPast ==
  /\ \A p \in Processes : at[p] \in Watched => Past(p)
  /\ \A p \in Processes : (at[p] \in Watched)' => Past(p)'
  BY DEF Watched, Started, Confirmed, Past, Waiting, Ended

\* What one process does keeps the others, if its tree stays quiet or it is the one
\* inside.
LEMMA OneKeepsPages ==
  ASSUME IInv, LockInv, PageInv, StartIsOver', NEW p \in Processes, job' = job,
         \A q \in Processes \ {p} :
             at'[q] = at[q] /\ cli'[q] = cli[q] /\ page'[q] = page[q]
                /\ (At(q, "dead") /\ q \in lock.by /\ q \notin lock'.by => Settled(q)),
         Past(p) \/ (Quiet(p) => Quiet(p)'),
         page' \in [Processes -> SUBSET Processes], TreeInv(p)', PortInv(p)'
  PROVE  PageInv'
<1>1. ASSUME NEW q \in Processes \ {p} PROVE TreeInv(q)'
  <2>1. /\ TreeInv(q) /\ at'[q] = at[q] /\ cli'[q] = cli[q]
        /\ At(q, "dead") /\ q \in lock.by /\ q \notin lock'.by => Settled(q)
    BY DEF PageInv
  <2> QED
    BY <2>1 DEF TreeInv, TreeOK, Stopped, Settled
<1>2. ASSUME NEW q \in Processes \ {p} PROVE PortInv(q)'
  <2>1. PortInv(q) /\ at'[q] = at[q] /\ page'[q] = page[q]
    BY DEF PageInv
  <2>2. ASSUME at[q] \in Watched PROVE \A r \in Processes \ {q} : Quiet(r)'
    <3>1. ~Past(p)
      BY <2>2, WatchedIsPast DEF LockInv, HolderInv
    <3>2. Quiet(p)'
      BY <2>1, <2>2, <3>1 DEF PortInv, Watched
    <3>3. ASSUME NEW r \in Processes \ {p, q} PROVE Quiet(r)'
      <4>1. Quiet(r) /\ cli'[r] = cli[r]
        BY <2>1, <2>2, <3>3 DEF PortInv, Watched
      <4> QED
        BY <4>1 DEF Quiet
    <3> QED
      BY <3>2, <3>3
  <2> QED
    BY <2>1, <2>2 DEF PortInv, Watched
<1> QED
  BY <1>1, <1>2 DEF PageInv

\* A lock step moves a process that has no tree yet, or whose tree is stopped.
LEMMA LockStepKeepsPages ==
  ASSUME IInv, LockInv, PageInv, StartIsOver', NEW p \in Processes, LockStep(p),
         UNCHANGED probeVars, job' = job
  PROVE  PageInv'
<1>1. /\ cli' = cli /\ page' = page /\ at \in [Processes -> Steps] /\ TreeInv(p) /\ PortInv(p)
      /\ page \in [Processes -> SUBSET Processes] /\ cli[p] \in Trees /\ HolderInv(p)
  BY DEF probeVars, LockInv, LockTyped, PageInv, IInv, ProbeTyped
<1>2. CASE Heartbeat(p)
  <2>1. at' = at /\ lock'.by = lock.by
    BY <1>2 DEF Heartbeat, LockInv, LockTyped
  <2> QED
    BY <1>1, <2>1 DEF PageInv, TreeInv, TreeOK, Settled, Stopped, PortInv, Quiet
<1>3. CASE ~Heartbeat(p)
  <2>1. PICK s \in Waiting \cup Leaving \cup {"done", "failed", "inside"} :
          /\ at' = [at EXCEPT ![p] = s]
          /\ at[p] \in Waiting \/ (at[p] \in Leaving /\ s \in Leaving \cup {"done", "failed"})
    BY <1>3 DEF LockStep, MakeDirectory, WriteOwner, LookAtAge, JudgeOwner, Steal, Retry,
       ReadOwner, DropDirectory, Waiting, Leaving
  <2>2. at'[p] = s /\ \A q \in Processes \ {p} : at'[q] = at[q]
    BY <1>1, <2>1
  <2>3. ASSUME NEW q \in Processes \ {p}, at[q] = "dead", q \in lock.by, q \notin lock'.by
        PROVE  Settled(q)
    <3>1. lock # NoLock /\ lock' # lock /\ lock.by # {p}
      <4>1. lock.by # {} /\ at[p] # "dead"
        BY <2>1, <2>3 DEF Waiting, Leaving
      <4> QED
        BY <2>3, <4>1, NewLock
    <3>2. Steal(p)
      <4>1. at[p] \notin {"own", "release", "drop"}
        BY <1>1, <3>1 DEF HolderInv, Past, Waiting, Ended
      <4> QED
        BY <1>3, <3>1, <4>1 DEF LockStep, MakeDirectory, WriteOwner, LookAtAge, JudgeOwner, Retry,
           ReadOwner, DropDirectory
    <3>3. SeenStale
      BY <3>2 DEF Steal, SeenStale
    <3> QED
      BY <2>3, <3>3 DEF PageInv, StartIsOver, Settled
  <2>4. TreeInv(p)'
    <3>1. at[p] \in Waiting => cli[p] = NoTree
      BY <1>1 DEF TreeInv
    <3>2. at[p] \in Leaving => Stopped(p)
      BY <1>1 DEF TreeInv
    <3>3. cli[p] = NoTree => Stopped(p)
      BY DEF NoTree, Stopped
    <3> QED
      BY <1>1, <2>1, <2>2, <3>1, <3>2, <3>3 DEF TreeInv, TreeOK, Stopped, Leaving, Waiting
  <2>5. PortInv(p)'
    BY <1>1, <2>1, <2>2 DEF PortInv, Started, Confirmed, Waiting, Leaving
  <2> QED
    BY <1>1, <2>2, <2>3, <2>4, <2>5, OneKeepsPages DEF Quiet
<1> QED
  BY <1>2, <1>3

\* A step of a probe or of its tree is about that probe only.
LEMMA ProbeStepIsLocal ==
  ASSUME IInv, PageInv, NEW p \in Processes, ProbeStep(p) \/ ProbeDies(p)
  PROVE  /\ lock' = lock /\ page' \in [Processes -> SUBSET Processes]
         /\ \A q \in Processes \ {p} :
                at'[q] = at[q] /\ cli'[q] = cli[q] /\ page'[q] = page[q]
<1>1. /\ page \in [Processes -> SUBSET Processes] /\ at \in [Processes -> Steps]
      /\ cli \in [Processes -> Trees]
  BY DEF PageInv, IInv, ProbeTyped
<1>2. CheckPort(p) \/ MaterializeDesktopUpdatePatch(p) \/ LookAtChild(p) \/ StopCliProcess(p) =>
          lock' = lock /\ page' = page /\ cli' = cli
  BY DEF CheckPort, MaterializeDesktopUpdatePatch, LookAtChild, StopCliProcess
<1>3. CheckPort(p) \/ MaterializeDesktopUpdatePatch(p) \/ LookAtChild(p) \/ StopCliProcess(p) =>
          \A q \in Processes \ {p} : at'[q] = at[q]
  BY <1>1 DEF CheckPort, MaterializeDesktopUpdatePatch, LookAtChild, StopCliProcess
<1>4. AwaitTree(p) \/ AwaitKilled(p) \/ WaitForListenerClosed(p) \/ RemoveWorkDirectory(p) =>
          lock' = lock /\ page' = page /\ cli' = cli
  BY DEF AwaitTree, AwaitKilled, WaitForListenerClosed, RemoveWorkDirectory
<1>5. AwaitTree(p) \/ AwaitKilled(p) \/ WaitForListenerClosed(p) \/ RemoveWorkDirectory(p) =>
          \A q \in Processes \ {p} : at'[q] = at[q]
  BY <1>1 DEF AwaitTree, AwaitKilled, WaitForListenerClosed, RemoveWorkDirectory
<1>6. SpawnOwnedCli(p) \/ TerminateProcessTree(p) \/ ProbeDies(p) =>
          lock' = lock /\ page' = page /\ \A q \in Processes \ {p} : at'[q] = at[q] /\ cli'[q] = cli[q]
  BY <1>1 DEF SpawnOwnedCli, TerminateProcessTree, ProbeDies, Dies
<1>7. CliStep(p) =>
          lock' = lock /\ page' = page /\ at' = at /\ \A q \in Processes \ {p} : cli'[q] = cli[q]
  BY <1>1 DEF CliStep, CliListens, LeaderExits, DescendantsExit, ControllerExits
<1>8. ASSUME FetchPage(p)
      PROVE  /\ lock' = lock /\ cli' = cli /\ \A q \in Processes \ {p} : at'[q] = at[q]
             /\ page' = page \/ \E q \in Processes : page' = [page EXCEPT ![p] = {q}]
  BY <1>1, <1>8 DEF FetchPage, RequireHtmlResponse
<1>9. FetchPage(p) => /\ page' \in [Processes -> SUBSET Processes]
                      /\ \A q \in Processes \ {p} : page'[q] = page[q]
  BY <1>1, <1>8
<1> QED
  BY <1>1, <1>2, <1>3, <1>4, <1>5, <1>6, <1>7, <1>8, <1>9 DEF ProbeStep

LEMMA KilledTree ==
  ASSUME NEW t \in Trees
  PROVE  /\ Killed(t).leader = t.leader /\ Killed(t).alive = t.alive
         /\ Killed(t).listens = t.listens /\ Killed(t).killed = t.alive
         /\ t = NoTree => Killed(t) = NoTree
<1>1. /\ Killed(t) \in Trees
      /\ Killed(t).leader = t.leader /\ Killed(t).alive = t.alive
      /\ Killed(t).listens = t.listens /\ Killed(t).killed = t.alive
  BY DEF Killed, Trees
<1>2. ASSUME t = NoTree PROVE Killed(t) = NoTree
  <2>1. NoTree \in Trees /\ ~t.leader /\ ~t.alive /\ ~t.listens
    BY <1>2 DEF NoTree, Trees
  <2>2. Killed(t) \in Trees /\ ~Killed(t).leader /\ ~Killed(t).alive /\ ~Killed(t).listens
          /\ ~Killed(t).killed
    BY <1>1, <2>1
  <2>3. Killed(t) = [leader |-> FALSE, alive |-> FALSE, listens |-> FALSE, killed |-> FALSE]
    BY <2>2 DEF Trees
  <2> QED
    BY <2>3 DEF NoTree
<1> QED
  BY <1>1, <1>2

LEMMA ProbeDiesKeepsPages ==
  ASSUME IInv, LockInv, PageInv, StartIsOver', NEW p \in Processes, ProbeDies(p), job = "probe", job' = job
  PROVE  PageInv'
<1>1. /\ at \in [Processes -> Steps] /\ cli \in [Processes -> Trees] /\ cli[p] \in Trees
      /\ TreeInv(p) /\ PortInv(p) /\ HolderInv(p)
  BY DEF IInv, ProbeTyped, PageInv, LockInv
<1>2. /\ at'[p] = "dead" /\ lock' = lock /\ page' = page /\ Wants(p)
      /\ cli'[p] \in {cli[p], Killed(cli[p])}
  BY <1>1 DEF ProbeDies, Dies
<1>3. /\ cli'[p].leader = cli[p].leader /\ cli'[p].alive = cli[p].alive
      /\ cli'[p].listens = cli[p].listens
      /\ cli'[p].killed = cli[p].killed \/ cli'[p].killed = cli[p].alive
      /\ cli[p] = NoTree => cli'[p] = NoTree
  BY <1>1, <1>2, KilledTree
<1>4. TreeInv(p)'
  <2>1. p \notin lock.by => cli[p] = NoTree
    BY <1>1, <1>2 DEF HolderInv, Past, Wants, TreeInv, Waiting
  <2>2. p \notin lock.by => Settled(p)'
    BY <1>3, <2>1 DEF Settled, NoTree
  <2> QED
    BY <1>1, <1>2, <1>3, <2>2 DEF TreeInv, TreeOK, Waiting, Leaving
<1>5. PortInv(p)'
  BY <1>1, <1>2 DEF PortInv, Started, Confirmed
<1>6. Quiet(p) => Quiet(p)'
  BY <1>1, <1>3 DEF Quiet, TreeInv, TreeOK
<1> QED
  BY <1>2, <1>4, <1>5, <1>6, ProbeStepIsLocal, OneKeepsPages

\* A tree listens on a free port only while its leader runs.
LEMMA CliStepKeepsPages ==
  ASSUME IInv, LockInv, PageInv, StartIsOver', NEW p \in Processes, CliStep(p), job = "probe", job' = job
  PROVE  PageInv'
<1>1. /\ at \in [Processes -> Steps] /\ cli \in [Processes -> Trees] /\ cli[p] \in Trees
      /\ TreeInv(p) /\ PortInv(p)
  BY DEF IInv, ProbeTyped, PageInv
<1>2. at' = at /\ lock' = lock /\ page' = page
  BY DEF CliStep, CliListens, LeaderExits, DescendantsExit, ControllerExits, lockVars
<1>3. TreeInv(p)' /\ (Quiet(p) => Quiet(p)')
  <2>1. CASE CliListens(p)
    <3>1. cli'[p] = [cli[p] EXCEPT !.listens = TRUE] /\ cli[p].leader /\ ~cli[p].killed
      BY <1>1, <2>1 DEF CliListens
    <3>2. /\ cli'[p].leader /\ cli'[p].listens /\ cli'[p].alive = cli[p].alive
          /\ cli'[p].killed = cli[p].killed /\ cli[p] # NoTree
      BY <1>1, <3>1 DEF Trees, NoTree
    <3> QED
      BY <1>1, <1>2, <3>1, <3>2 DEF TreeInv, TreeOK, Settled, Stopped, Quiet
  <2>2. CASE LeaderExits(p)
    <3>1. PICK held \in {cli[p].listens, FALSE} :
              cli'[p] = [cli[p] EXCEPT !.leader = FALSE, !.listens = held]
      BY <1>1, <2>2 DEF LeaderExits
    <3>2. /\ ~cli'[p].leader /\ (cli'[p].listens => cli[p].listens)
          /\ cli'[p].alive = cli[p].alive /\ cli'[p].killed = cli[p].killed
      BY <1>1, <3>1 DEF Trees
    <3>3. cli[p] # NoTree
      BY <2>2 DEF LeaderExits, NoTree
    <3> QED
      BY <1>1, <1>2, <3>2, <3>3 DEF TreeInv, TreeOK, Settled, Stopped, Quiet
  <2>3. CASE DescendantsExit(p)
    <3>1. cli'[p] = NoTree
      BY <1>1, <2>3 DEF DescendantsExit
    <3>2. ~cli'[p].leader /\ ~cli'[p].listens /\ ~cli'[p].alive
      BY <3>1 DEF NoTree
    <3> QED
      BY <1>1, <1>2, <3>1, <3>2 DEF TreeInv, TreeOK, Settled, Stopped, Quiet
  <2>4. CASE ControllerExits(p)
    <3>1. cli'[p] = Killed(cli[p])
      BY <1>1, <2>4 DEF ControllerExits
    <3>2. /\ cli'[p].leader = cli[p].leader /\ cli'[p].alive = cli[p].alive
          /\ cli'[p].listens = cli[p].listens /\ cli'[p].killed = cli[p].alive
          /\ cli[p] = NoTree => cli'[p] = NoTree
      BY <1>1, <3>1, KilledTree
    <3> QED
      BY <1>1, <1>2, <3>2 DEF TreeInv, TreeOK, Settled, Stopped, Quiet
  <2> QED
    BY <2>1, <2>2, <2>3, <2>4 DEF CliStep
<1>4. PortInv(p)'
  <2>1. \A q \in Processes \ {p} : cli'[q] = cli[q]
    BY ProbeStepIsLocal DEF ProbeStep
  <2> QED
    BY <1>1, <1>2, <2>1 DEF PortInv, Quiet
<1> QED
  BY <1>2, <1>3, <1>4, ProbeStepIsLocal, OneKeepsPages DEF ProbeStep

\* When the port is free, no other probe's tree listens or comes to listen.
LEMMA FreePortStays ==
  ASSUME IInv, LockInv, PageInv, NEW p \in Processes, Past(p), ~ListenerAcceptsConnections,
         NEW q \in Processes \ {p}
  PROVE  Quiet(q)
<1>1. /\ cli[q].listens = FALSE /\ cli[q] \in Trees /\ TreeInv(q) /\ at[q] \in Steps
  BY DEF ListenerAcceptsConnections, IInv, ProbeTyped, Trees, PageInv
<1>2. ~Past(q) /\ q \notin lock.by
  BY DEF LockInv, HolderInv
<1>3. CASE at[q] \in Waiting
  <2>1. cli[q] = NoTree
    BY <1>1, <1>3 DEF TreeInv
  <2> QED
    BY <2>1 DEF Quiet, NoTree
<1>4. CASE at[q] \in {"done", "failed"}
  <2>1. Stopped(q) /\ TreeOK(q)
    BY <1>1, <1>4 DEF TreeInv
  <2> QED
    BY <1>1, <2>1 DEF Quiet, TreeOK, Stopped
<1>5. CASE at[q] = "dead"
  <2>1. Settled(q)
    BY <1>1, <1>2, <1>5 DEF TreeInv
  <2> QED
    BY <1>1, <2>1 DEF Quiet, Settled
<1> QED
  BY <1>2, <1>3, <1>4, <1>5 DEF Past, Ended

\* A step of a probe that leaves its tree and its page alone.
LEMMA SameTreeKeepsPages ==
  ASSUME IInv, LockInv, PageInv, StartIsOver', NEW p \in Processes, ProbeStep(p),
         job = "probe", job' = job, Past(p), cli' = cli, page' = page,
         TreeInv(p)', PortInv(p)'
  PROVE  PageInv'
  BY ProbeStepIsLocal, OneKeepsPages DEF PageInv

\* The steps before the CLI is started.
LEMMA PrepareKeepsPages ==
  ASSUME IInv, LockInv, PageInv, StartIsOver', NEW p \in Processes,
         CheckPort(p) \/ MaterializeDesktopUpdatePatch(p), job = "probe", job' = job
  PROVE  PageInv'
<1>1. /\ at \in [Processes -> Steps] /\ cli \in [Processes -> Trees] /\ TreeInv(p) /\ PortInv(p)
      /\ at[p] \in {"inside", "prepare"} /\ cli' = cli /\ page' = page /\ lock' = lock
  BY DEF IInv, ProbeTyped, PageInv, CheckPort, MaterializeDesktopUpdatePatch
<1>2. Past(p)
  BY <1>1 DEF Past, Waiting, Ended
<1>3. cli[p] = NoTree /\ cli'[p] = NoTree /\ TreeOK(p)' /\ Stopped(p)'
  <2>1. cli[p] = NoTree /\ cli'[p] = NoTree
    BY <1>1 DEF TreeInv
  <2> QED
    BY <2>1 DEF TreeOK, Stopped, NoTree
<1>4. /\ at'[p] \in {"prepare", "spawn", "release"}
      /\ at'[p] # "release" => ~ListenerAcceptsConnections \/ at[p] = "prepare"
  BY <1>1 DEF CheckPort, MaterializeDesktopUpdatePatch
<1>5. TreeInv(p)'
  BY <1>1, <1>3, <1>4 DEF TreeInv
<1>6. PortInv(p)'
  <2>1. ASSUME at'[p] # "release", NEW q \in Processes \ {p} PROVE Quiet(q)'
    <3>1. Quiet(q)
      BY <1>1, <1>2, <1>4, <2>1, FreePortStays DEF PortInv
    <3> QED
      BY <1>1, <3>1 DEF Quiet
  <2> QED
    BY <1>1, <1>4, <2>1 DEF PortInv, Started, Confirmed
<1> QED
  BY <1>1, <1>2, <1>5, <1>6, SameTreeKeepsPages DEF ProbeStep

\* The CLI is started while every other tree is quiet.
LEMMA SpawnKeepsPages ==
  ASSUME IInv, LockInv, PageInv, StartIsOver', NEW p \in Processes, SpawnOwnedCli(p),
         job = "probe", job' = job
  PROVE  PageInv'
<1>1. /\ at \in [Processes -> Steps] /\ cli \in [Processes -> Trees] /\ TreeInv(p) /\ PortInv(p)
      /\ at[p] = "spawn" /\ page' = page /\ at'[p] \in {"look", "release"}
  BY DEF IInv, ProbeTyped, PageInv, SpawnOwnedCli
<1>2. Past(p)
  BY <1>1 DEF Past, Waiting, Ended
<1>3. ASSUME at'[p] = "look" PROVE TreeInv(p)'
  <2>1. cli'[p] = [NoTree EXCEPT !.leader = TRUE, !.alive = TRUE]
    BY <1>1, <1>3 DEF SpawnOwnedCli
  <2>2. TreeOK(p)'
    BY <2>1 DEF TreeOK, NoTree
  <2> QED
    BY <1>1, <1>3, <2>2 DEF TreeInv, Waiting, Leaving
<1>4. ASSUME at'[p] = "release" PROVE TreeInv(p)'
  <2>1. cli' = cli
    BY <1>1, <1>4 DEF SpawnOwnedCli
  <2>2. cli'[p] = NoTree
    BY <1>1, <2>1 DEF TreeInv
  <2>3. TreeOK(p)' /\ Stopped(p)'
    BY <2>2 DEF TreeOK, NoTree, Stopped
  <2> QED
    BY <1>4, <2>2, <2>3 DEF TreeInv
<1>5. TreeInv(p)'
  BY <1>1, <1>3, <1>4
<1>6. \A q \in Processes \ {p} : at'[q] = at[q] /\ cli'[q] = cli[q]
  BY ProbeStepIsLocal DEF ProbeStep
<1>7. PortInv(p)'
  BY <1>1, <1>6 DEF PortInv, Quiet
<1> QED
  BY <1>2, <1>5, <1>7, ProbeStepIsLocal, OneKeepsPages DEF ProbeStep

\* Who answers at the port is the probe's own tree: every other one is quiet.
LEMMA FetchKeepsPages ==
  ASSUME IInv, LockInv, PageInv, StartIsOver', NEW p \in Processes, FetchPage(p),
         job = "probe", job' = job
  PROVE  PageInv'
<1>1. /\ at \in [Processes -> Steps] /\ cli \in [Processes -> Trees] /\ TreeInv(p) /\ PortInv(p)
      /\ page \in [Processes -> SUBSET Processes]
      /\ at[p] = "fetch" /\ cli' = cli
  BY DEF IInv, ProbeTyped, PageInv, FetchPage
<1>2. at'[p] \in {"stop", "look", "force at last"}
  BY <1>1 DEF FetchPage, RequireHtmlResponse
<1>3. Past(p)
  BY <1>1 DEF Past, Waiting, Ended
<1>4. page'[p] \subseteq {p}
  <2>1. \A q \in Processes \ {p} : Quiet(q)
    BY <1>1 DEF PortInv, Started
  <2>2. \A q \in Processes : cli[q].listens /\ ~cli[q].killed => q = p
    BY <2>1 DEF Quiet
  <2>3. page' = page \/ \E q \in Processes :
            cli[q].listens /\ ~cli[q].killed /\ page' = [page EXCEPT ![p] = {q}]
    BY DEF FetchPage, RequireHtmlResponse
  <2> QED
    BY <1>1, <2>2, <2>3 DEF PortInv
<1>5. TreeInv(p)'
  BY <1>1, <1>2 DEF TreeInv, TreeOK, Waiting, Leaving
<1>6. PortInv(p)'
  BY <1>1, <1>2, <1>4 DEF PortInv, Quiet, Started
<1> QED
  BY <1>1, <1>3, <1>5, <1>6, ProbeStepIsLocal, OneKeepsPages DEF ProbeStep

\* The steps that look at the tree or wait for it.
LEMMA WaitKeepsPages ==
  ASSUME IInv, LockInv, PageInv, StartIsOver', NEW p \in Processes,
         \/ LookAtChild(p) \/ StopCliProcess(p) \/ AwaitTree(p) \/ AwaitKilled(p)
         \/ WaitForListenerClosed(p) \/ RemoveWorkDirectory(p),
         job = "probe", job' = job
  PROVE  PageInv'
<1>1. /\ at \in [Processes -> Steps] /\ cli \in [Processes -> Trees] /\ TreeInv(p) /\ PortInv(p)
      /\ page \in [Processes -> SUBSET Processes] /\ StopInvOf(p)
  BY DEF IInv, ProbeTyped, PageInv, StopInv
<1>2. cli' = cli /\ page' = page
  BY DEF LookAtChild, StopCliProcess, AwaitTree, AwaitKilled, WaitForListenerClosed, RemoveWorkDirectory
<1>3. at[p] \in Started
  BY DEF LookAtChild, StopCliProcess, AwaitTree, AwaitKilled, WaitForListenerClosed,
     RemoveWorkDirectory, Started, Confirmed
<1>4. /\ at'[p] \in Started \cup {"release"}
      /\ at'[p] = "release" => at[p] \in Confirmed \cup {"await killed at last"}
      /\ at'[p] \notin {"await killed", "await killed at last"}
  BY <1>1 DEF LookAtChild, StopCliProcess, AwaitTree, AwaitKilled, WaitForListenerClosed,
     RemoveWorkDirectory, Started, Confirmed, Closing
<1>5. Past(p)
  BY <1>3, WatchedIsPast DEF Watched
<1>6. at'[p] = "release" => Stopped(p)'
  BY <1>1, <1>2, <1>4 DEF TreeInv, StopInvOf, Stopped
<1>7. TreeInv(p)'
  BY <1>1, <1>2, <1>4, <1>6 DEF TreeInv, TreeOK, Waiting, Leaving, Started, Confirmed
<1>8. PortInv(p)'
  BY <1>1, <1>2, <1>3 DEF PortInv, Quiet
<1> QED
  BY <1>2, <1>5, <1>7, <1>8, SameTreeKeepsPages DEF ProbeStep

\* A forced stop leaves a tree that runs nothing.
LEMMA TerminateKeepsPages ==
  ASSUME IInv, LockInv, PageInv, StartIsOver', NEW p \in Processes, TerminateProcessTree(p),
         job = "probe", job' = job
  PROVE  PageInv'
<1>1. /\ at \in [Processes -> Steps] /\ cli \in [Processes -> Trees] /\ cli[p] \in Trees
      /\ TreeInv(p) /\ PortInv(p) /\ page' = page /\ cli'[p] = Killed(cli[p])
  BY DEF IInv, ProbeTyped, PageInv, TerminateProcessTree
<1>2. at[p] \in Started /\ at'[p] \in Started
  BY <1>1 DEF TerminateProcessTree, Forcing, Awaiting, Closing, Started, Confirmed
<1>3. Past(p)
  BY <1>2, WatchedIsPast DEF Watched
<1>4. TreeOK(p)' /\ Stopped(p)'
  BY <1>1, KilledTree DEF TreeInv, TreeOK, Stopped
<1>5. TreeInv(p)'
  BY <1>2, <1>4 DEF TreeInv, Waiting, Started, Confirmed
<1>6. \A q \in Processes \ {p} : cli'[q] = cli[q]
  BY ProbeStepIsLocal DEF ProbeStep
<1>7. PortInv(p)'
  BY <1>1, <1>2, <1>6 DEF PortInv, Quiet
<1> QED
  BY <1>3, <1>5, <1>7, ProbeStepIsLocal, OneKeepsPages DEF ProbeStep

LEMMA ProbeStepKeepsPages ==
  ASSUME IInv, LockInv, PageInv, StartIsOver', NEW p \in Processes, ProbeStep(p),
         job = "probe", job' = job
  PROVE  PageInv'
  BY PrepareKeepsPages, SpawnKeepsPages, FetchKeepsPages, WaitKeepsPages, TerminateKeepsPages,
     CliStepKeepsPages DEF ProbeStep

LEMMA PagesKept ==
  ASSUME IInv, LockInv, PageInv, [Next]_vars
  PROVE  PageInv'
<1>1. /\ at \in [Processes -> Steps] /\ cli \in [Processes -> Trees]
      /\ page \in [Processes -> SUBSET Processes] /\ \A p \in Processes : TreeInv(p) /\ PortInv(p)
  BY DEF IInv, ProbeTyped, PageInv
<1>2. CASE InstallsNode
  <2>1. /\ cli' = cli /\ page' = page /\ \A p \in Processes : cli[p] = NoTree
        /\ job' = job
    BY <1>1, <1>2 DEF InstallsNode, TreeInv
  <2>2. \A p \in Processes : TreeOK(p)' /\ Stopped(p)' /\ Quiet(p)' /\ Settled(p)'
    BY <2>1 DEF TreeOK, Stopped, Quiet, Settled, NoTree
  <2>3. StartIsOver'
    BY <2>2 DEF StartIsOver, Settled
  <2> QED
    BY <1>1, <2>1, <2>2, <2>3 DEF PageInv, TreeInv, PortInv
<1>3. CASE ProbesPort
  <2>1. /\ StartIsOver' /\ job = "probe" /\ job' = job
        /\ \E p \in Processes : (LockStep(p) /\ UNCHANGED probeVars) \/ ProbeDies(p) \/ ProbeStep(p)
    BY <1>3 DEF ProbesPort
  <2> QED
    BY <2>1, LockStepKeepsPages, ProbeDiesKeepsPages, ProbeStepKeepsPages
<1>4. CASE TimePasses
  <2>1. /\ StartIsOver' /\ job' = job /\ at' = at /\ cli' = cli /\ page' = page
        /\ lock'.by = lock.by
    BY <1>4 DEF TimePasses, LockAges, LockInv, LockTyped
  <2> QED
    BY <1>1, <2>1 DEF PageInv, TreeInv, TreeOK, Stopped, Settled, PortInv, Quiet
<1>5. CASE UNCHANGED vars
  BY <1>1, <1>5 DEF vars, PageInv, TreeInv, TreeOK, Stopped, Settled, PortInv, Quiet, StartIsOver, SeenStale
<1> QED
  BY <1>2, <1>3, <1>4, <1>5 DEF Next

LEMMA PagesBegin ==
  ASSUME Init
  PROVE  PageInv
<1>1. /\ page \in [Processes -> SUBSET Processes]
      /\ \A p \in Processes : cli[p] = NoTree /\ page[p] = {} /\ at[p] \in {"arrive", "enter"}
  BY DEF Init, LockInit, ProbeInit
<1>2. \A p \in Processes : TreeOK(p) /\ Stopped(p) /\ Settled(p)
  BY <1>1 DEF TreeOK, Stopped, Settled, NoTree
<1>3. \A p \in Processes : at[p] \notin Watched
  BY <1>1 DEF Watched, Started, Confirmed
<1> QED
  BY <1>1, <1>2, <1>3 DEF PageInv, TreeInv, PortInv, StartIsOver, Settled, Watched

(* A probe accepts the page of its own CLI only, whichever other one died,    *)
(* was left running or was killed, until a waiter goes astray                 *)
(* (probeDirectDshWeb).                                                       *)
THEOREM PagesAreOwn == Spec => []PageIsOwn
<1> DEFINE I == IInv /\ (astray \/ (LockInv /\ PageInv))
<1>1. Init => I
  BY Begins, LockBegins, PagesBegin
<1>2. I /\ [Next]_vars => I'
  BY NextPreserves, LockKept, PagesKept, AstrayStays
<1>3. I => PageIsOwn
  BY DEF PageInv, PortInv, PageIsOwn
<1> QED
  BY <1>1, <1>2, <1>3, PTL DEF Spec
=============================================================================
