-------------------------- MODULE FixedPortProbe ---------------------------
(***************************************************************************)
(* The probe of a packaged dsh CLI on the fixed port, under the directory  *)
(* lock: the port must be free, the CLI is started as an owned process     *)
(* tree, its page is fetched, the tree is stopped, and the work directory  *)
(* is removed only when the stop is confirmed (smoke-dsh-cli.mjs).  On     *)
(* POSIX the tree is a process group; on Windows it belongs to a Job       *)
(* object that a controller process holds, and ends with it.               *)
(***************************************************************************)
EXTENDS DirectoryLock

VARIABLES
    platform,    \* "posix" or "windows"
    cli,         \* the process tree each probe started
    controller,  \* whether its Job controller runs (Windows)
    page,        \* whose page each probe accepted
    work         \* each probe's work directory

probeVars == <<platform, cli, controller, page, work>>

\* The tree: whether its leader lives, whether any process of it lives, whether
\* it listens on the port, whether it was killed and runs no code any more.
NoTree == [leader |-> FALSE, alive |-> FALSE, listens |-> FALSE, killed |-> FALSE]

ProbeInit ==
    /\ platform \in {"posix", "windows"}
    /\ cli = [p \in Processes |-> NoTree]
    /\ controller = [p \in Processes |-> FALSE]
    /\ page = [p \in Processes |-> {}]
    /\ work = [p \in Processes |-> "none"]

Windows == platform = "windows"
ListenerAcceptsConnections == \E q \in Processes : cli[q].listens

-----------------------------------------------------------------------------
(* The processes that a probe started. *)

\* A second listener on the port is refused.
CliListens(p) ==
    /\ cli[p].leader /\ ~cli[p].killed /\ ~ListenerAcceptsConnections
    /\ cli' = [cli EXCEPT ![p].listens = TRUE]
    /\ UNCHANGED <<lockVars, platform, controller, page, work>>

\* The leader ends before its descendants, and the listener with it unless one
\* of them holds it too.
LeaderExits(p) ==
    /\ cli[p].leader
    /\ \E held \in {cli[p].listens, FALSE} :
          cli' = [cli EXCEPT ![p] = [@ EXCEPT !.leader = FALSE, !.listens = held]]
    /\ UNCHANGED <<lockVars, platform, controller, page, work>>

DescendantsExit(p) ==
    /\ cli[p].alive /\ ~cli[p].leader
    /\ cli' = [cli EXCEPT ![p] = NoTree]
    /\ UNCHANGED <<lockVars, platform, controller, page, work>>

\* A tree that is killed runs nothing; its ports and files are freed later.
Killed(tree) == [tree EXCEPT !.killed = tree.alive]

ControllerExits(p) ==
    /\ controller[p]
    /\ controller' = [controller EXCEPT ![p] = FALSE]
    /\ cli' = [cli EXCEPT ![p] = Killed(@)]
    /\ UNCHANGED <<lockVars, platform, page, work>>

CliStep(p) == CliListens(p) \/ LeaderExits(p) \/ DescendantsExit(p) \/ ControllerExits(p)

-----------------------------------------------------------------------------
(* The probe. *)

\* mutant of CheckPort: the lock is taken for proof enough that the port is free.
TrustLock(p) ==
    /\ At(p, "inside")
    /\ GoesTo(p, "prepare") /\ work' = [work EXCEPT ![p] = "made"]
    /\ DirectoryStays /\ UNCHANGED <<platform, cli, controller, page>>

CheckPort(p) ==
    /\ At(p, "inside")
    /\ IF ListenerAcceptsConnections
       THEN GoesTo(p, "release") /\ UNCHANGED work
       ELSE GoesTo(p, "prepare") /\ work' = [work EXCEPT ![p] = "made"]
    /\ DirectoryStays /\ UNCHANGED <<platform, cli, controller, page>>

\* The patch the CLI is started with is checked and written in the work directory;
\* one that is not the trusted one, or no regular file, ends the probe.
MaterializeDesktopUpdatePatch(p) ==
    /\ At(p, "prepare")
    /\ GoesTo(p, "spawn") \/ GoesTo(p, "release")
    /\ DirectoryStays /\ UNCHANGED probeVars

\* The controller reports READY once the suspended CLI is in its Job; one that
\* does not in time is killed, and what it started with it.
SpawnOwnedCli(p) ==
    /\ At(p, "spawn")
    /\ \/ /\ cli' = [cli EXCEPT ![p] = [NoTree EXCEPT !.leader = TRUE, !.alive = TRUE]]
          /\ controller' = [controller EXCEPT ![p] = Windows]
          /\ GoesTo(p, "look")
       \/ GoesTo(p, "release") /\ UNCHANGED <<cli, controller>>
    /\ DirectoryStays /\ UNCHANGED <<platform, page, work>>

\* A request is answered by a controller that runs, or fails by its deadline.
RequestSucceeds(p) == controller[p]

\* What the child process of the probe is: the CLI, or the controller.
ChildExited(p) == IF Windows THEN ~controller[p] ELSE ~cli[p].leader

\* mutant of ProcessTreeHasExited: the exit of the child is taken for the tree's.
LeaderHasExited(p) == ~cli[p].leader

\* The process group exists no more, or the Job counts no process; a controller
\* that is gone took its Job along.
ProcessTreeHasExited(p) == ~cli[p].alive \/ (Windows /\ ~controller[p])

LookAtChild(p) ==
    /\ At(p, "look")
    /\ GoesTo(p, IF ChildExited(p) \/ (Windows /\ ProcessTreeHasExited(p))
                 THEN "force at last" ELSE "fetch")
    /\ DirectoryStays /\ UNCHANGED probeVars

\* An answer that is no page ends the probe.
RequireHtmlResponse(p, q) ==
    \/ page' = [page EXCEPT ![p] = {q}] /\ GoesTo(p, "stop")
    \/ UNCHANGED page /\ GoesTo(p, "force at last")

\* Whoever listens answers; a connection that fails is tried again until the deadline.
FetchPage(p) ==
    /\ At(p, "fetch")
    /\ \/ \E q \in Processes : cli[q].listens /\ ~cli[q].killed /\ RequireHtmlResponse(p, q)
       \/ UNCHANGED page /\ (GoesTo(p, "look") \/ GoesTo(p, "force at last"))
    /\ DirectoryStays /\ UNCHANGED <<platform, cli, controller, work>>

\* SIGTERM to the leader, or STOP through the controller: either may be in vain.
\* A tree that is gone already leaves the listener to be waited for; a controller
\* that does not tell fails the probe.
StopCliProcess(p) ==
    /\ At(p, "stop")
    /\ \/ GoesTo(p, IF ProcessTreeHasExited(p) THEN "closed" ELSE "await tree")
       \/ Windows /\ GoesTo(p, "force at last")
    /\ DirectoryStays /\ UNCHANGED probeVars

\* The controller is told to exit; an answer that is late or lost forces the stop.
AwaitTree(p) ==
    /\ At(p, "await tree")
    /\ \/ /\ ProcessTreeHasExited(p)
          /\ controller' = [controller EXCEPT ![p] = FALSE]
          /\ GoesTo(p, "closed")
       \/ GoesTo(p, "force") /\ UNCHANGED controller
    /\ DirectoryStays /\ UNCHANGED <<platform, cli, page, work>>

\* A stop is forced in stopCliProcess, and at last for a probe that failed.
Forcing == {"force", "force at last"}
Awaiting(step) == IF step = "force" THEN "await killed" ELSE "await killed at last"
Closing(step) == IF step \in {"force", "await killed"} THEN "closed" ELSE "closed at last"

\* SIGKILL to the group, or FORCE; a controller that does not do it in time is
\* killed itself, and its Job with it.
TerminateProcessTree(p) ==
    /\ at[p] \in Forcing
    /\ cli' = [cli EXCEPT ![p] = Killed(@)]
    /\ \/ /\ Windows => RequestSucceeds(p)
          /\ GoesTo(p, Awaiting(at[p])) /\ UNCHANGED controller
       \/ /\ Windows
          /\ controller' = [controller EXCEPT ![p] = FALSE]
          /\ GoesTo(p, Closing(at[p]))
    /\ DirectoryStays /\ UNCHANGED <<platform, page, work>>

\* A tree that outlives the deadline fails the stop, then the cleanup.
AwaitKilled(p) ==
    /\ at[p] \in {"await killed", "await killed at last"}
    /\ \/ /\ ProcessTreeHasExited(p)
          /\ controller' = [controller EXCEPT ![p] = FALSE]
          /\ GoesTo(p, Closing(at[p]))
       \/ /\ GoesTo(p, IF At(p, "await killed") THEN "force at last" ELSE "release")
          /\ UNCHANGED controller
    /\ DirectoryStays /\ UNCHANGED <<platform, cli, page, work>>

\* A listener that stays fails the probe, then the cleanup.
WaitForListenerClosed(p) ==
    /\ at[p] \in {"closed", "closed at last"}
    /\ \/ ~ListenerAcceptsConnections /\ GoesTo(p, "remove")
       \/ GoesTo(p, IF At(p, "closed") THEN "force at last" ELSE "release")
    /\ DirectoryStays /\ UNCHANGED probeVars

RemoveWorkDirectory(p) ==
    /\ At(p, "remove")
    /\ work' = [work EXCEPT ![p] = "removed"]
    /\ GoesTo(p, "release")
    /\ DirectoryStays /\ UNCHANGED <<platform, cli, controller, page>>

ProbeStep(p) ==
    \/ CheckPort(p) \/ MaterializeDesktopUpdatePatch(p) \/ SpawnOwnedCli(p)
    \/ LookAtChild(p) \/ FetchPage(p) \/ StopCliProcess(p) \/ AwaitTree(p) \/ TerminateProcessTree(p)
    \/ AwaitKilled(p) \/ WaitForListenerClosed(p) \/ RemoveWorkDirectory(p) \/ CliStep(p)

\* A probe that dies leaves its process group behind; on Windows its controller
\* reads the end of its input and exits.
ProbeDies(p) ==
    /\ Dies(p)
    /\ controller' = [controller EXCEPT ![p] = FALSE]
    /\ cli' = [cli EXCEPT ![p] = IF Windows THEN Killed(@) ELSE @]
    /\ UNCHANGED <<platform, page, work>>

\* A lock is stale, or has been seen to be, minutes after the last heartbeat of its
\* owner: the CLI of an owner that is dead by then listens or is gone.
SeenStale == lock.stale \/ \E q \in Processes : at[q] \in {"judge", "steal"}

StartIsOver ==
    SeenStale => \A p \in Processes :
        at[p] = "dead" /\ cli[p].leader => cli[p].listens \/ cli[p].killed

(***************************************************************************)
(* The page a probe accepts is its own CLI's: no probe is satisfied by the *)
(* CLI of another one, whichever died, was held up, was left running, or   *)
(* was killed and still holds the port (probeDirectDshWeb: the lock, the   *)
(* port that must be free first, and the forced stop), as long as no       *)
(* waiter has gone astray: two inside can both find the port free.         *)
(***************************************************************************)
PageIsOwn == astray \/ \A p \in Processes : page[p] \subseteq {p}

(***************************************************************************)
(* A work directory is removed only when no process of the probe's tree    *)
(* can write there any more, descendants that outlive their leader         *)
(* included (probeDirectDshWeb: cleanupConfirmed).                         *)
(***************************************************************************)
StoppedBeforeRemoval ==
    \A p \in Processes : work[p] = "removed" => ~cli[p].alive \/ cli[p].killed
=============================================================================
