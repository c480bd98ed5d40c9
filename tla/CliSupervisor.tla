----------------------------- MODULE CliSupervisor -----------------------------
(***************************************************************************)
(* One CLI of the application (cli_supervisor.rs, stop_process of          *)
(* lifecycle.rs): how its process tree is created and taken over, how      *)
(* threads stop it and look for its exit at the same time, and how the     *)
(* exit gets its reason.  On Unix the tree is a process group; on Windows  *)
(* the leader is created suspended, put in a Job and resumed.              *)
(*                                                                         *)
(* A lock that is held over one step only is not modelled.  The child lock *)
(* is held over several by request_graceful_stop.                          *)
(***************************************************************************)
CONSTANTS
    Stoppers,     \* threads that stop the CLI: its attempt, Retry, shutdown
    Observers,    \* threads that look for its exit: monitor, page callbacks
    Nobody

ASSUME ThreadsAssumption ==
    /\ Stoppers \cap Observers = {}
    /\ Nobody \notin Stoppers \cup Observers

Threads == Stoppers \cup Observers

VARIABLES
    system,        \* unix or windows
    spawn,         \* program point of spawn_owned_command, or what it returned
    leader,        \* none, suspended, discarded, running, exited, reaped
    descendants,   \* processes of the tree besides its leader are alive
    killed,        \* the tree was killed: it ends without running any further
    interrupted,   \* the leader's exit code is 130
    superseded,    \* the lifecycle has a newer generation
    childLock,     \* who holds the lock of the child
    stopLock,      \* who holds the lock of stops
    requested,     \* requested_generation is set
    observed,      \* observed_status is set
    reason,        \* classified_reason
    pc,            \* program point of each thread
    seen,          \* whether the generation a thread was called with is newer
    stopped,       \* a stop has reported success
    asked,         \* history: a stop found the leader alive, to ask it to end
    answered       \* history: the leader exited after that

treeVars == <<system, leader, descendants, killed, interrupted, answered>>
exitVars == <<requested, observed, reason, stopped, asked>>
ownVars == <<childLock, stopLock>>
threadVars == <<pc, seen>>
supervisorVars == <<treeVars, exitVars, ownVars, threadVars, spawn, superseded>>

SupervisorInit ==
    /\ system \in {"unix", "windows"}
    /\ spawn = "create"
    /\ leader = "none"
    /\ descendants = FALSE /\ killed = FALSE /\ interrupted = FALSE /\ superseded = FALSE
    /\ childLock = Nobody /\ stopLock = Nobody
    /\ requested = FALSE /\ observed = FALSE /\ stopped = FALSE
    /\ asked = FALSE /\ answered = FALSE
    /\ reason = "none"
    /\ pc = [t \in Threads |-> "idle"]
    /\ seen = [t \in Threads |-> FALSE]

LeaderExited == leader \in {"exited", "reaped"}
TreeHasExited == LeaderExited /\ ~descendants

-----------------------------------------------------------------------------
\* spawn_owned_command_with_graceful_action

\* mutant of CreateProcess: the process runs before it is owned.
CreateRunningProcess == leader' = "running"

\* The port is free, and the process is created; on Windows it is suspended.
CreateProcess == leader' = IF system = "windows" THEN "suspended" ELSE "running"

Create ==
    /\ spawn = "create"
    /\ \/ CreateProcess /\ spawn' = "attach"
       \/ spawn' = "failed" /\ UNCHANGED leader
    /\ UNCHANGED <<system, descendants, killed, interrupted, answered>>

\* The process group was made with the process; a Job may be refused.
Attach ==
    /\ spawn = "attach"
    /\ IF system = "unix" THEN spawn' = "cli" ELSE spawn' \in {"resume", "terminate"}
    /\ UNCHANGED treeVars

ResumeInitialThread ==
    /\ spawn = "resume"
    /\ \/ leader' = "running" /\ spawn' = "cli"
       \/ spawn' = "discard" /\ UNCHANGED leader
    /\ UNCHANGED <<system, descendants, killed, interrupted, answered>>

\* The Job ends at the return, for it is closed there.
DiscardOwnedChild ==
    /\ spawn = "discard"
    /\ spawn' \in {"await discarded", "unclean"}
    /\ killed' = TRUE
    /\ UNCHANGED <<system, leader, descendants, interrupted, answered>>

\* A child that is in no Job and cannot be terminated stays suspended.
TerminateUnownedChild ==
    /\ spawn = "terminate"
    /\ \/ spawn' = "await discarded" /\ killed' = TRUE
       \/ spawn' = "unclean" /\ UNCHANGED killed
    /\ UNCHANGED <<system, leader, descendants, interrupted, answered>>

AwaitDiscarded ==
    /\ spawn = "await discarded"
    /\ \/ leader = "discarded" /\ spawn' = "failed"
       \/ spawn' = "unclean"
    /\ UNCHANGED treeVars

\* The last reference is dropped; on Windows the Job is closed with it.
OwnerDrops ==
    /\ spawn = "cli" /\ \A t \in Threads : pc[t] = "idle"
    /\ spawn' = "dropped"
    /\ killed' = (killed \/ system = "windows")
    /\ UNCHANGED <<system, leader, descendants, interrupted, answered>>

SpawnStep ==
    /\ \/ Create \/ Attach \/ ResumeInitialThread \/ DiscardOwnedChild
       \/ TerminateUnownedChild \/ AwaitDiscarded \/ OwnerDrops
    /\ UNCHANGED <<exitVars, ownVars, threadVars, superseded>>

-----------------------------------------------------------------------------
\* The CLI (external)

CliLeaderForks ==
    /\ leader = "running" /\ ~killed
    /\ descendants' = TRUE
    /\ UNCHANGED <<system, leader, killed, interrupted, answered>>

CliLeaderExits ==
    /\ leader = "running"
    /\ leader' = "exited"
    /\ interrupted' \in IF killed THEN {FALSE} ELSE BOOLEAN
    /\ answered' = asked
    /\ UNCHANGED <<system, descendants, killed>>

CliDescendantsExit ==
    /\ descendants
    /\ descendants' = FALSE
    /\ UNCHANGED <<system, leader, killed, interrupted, answered>>

SuspendedEnds ==
    /\ leader = "suspended" /\ killed
    /\ leader' = "discarded"
    /\ UNCHANGED <<system, descendants, killed, interrupted, answered>>

TreeStep ==
    /\ CliLeaderForks \/ CliLeaderExits \/ CliDescendantsExit \/ SuspendedEnds
    /\ UNCHANGED <<exitVars, ownVars, threadVars, spawn, superseded>>

-----------------------------------------------------------------------------
ThreadAt(t, point) == pc[t] = point
Continues(t, point) == pc' = [pc EXCEPT ![t] = point]

\* try_wait under the child lock, and the status kept.
ObserveChildStatus ==
    /\ LeaderExited
    /\ observed' = TRUE
    /\ leader' = "reaped"

\* classify_exit_with_code, by the generation the thread was called with.
ReasonSeenBy(t) ==
    IF requested THEN "Requested"
    ELSE IF seen[t] /\ ~interrupted THEN "StaleGeneration"
    ELSE "Unexpected"

\* The first classification stands.
Classify(t) == reason' = IF reason = "none" THEN ReasonSeenBy(t) ELSE reason

-----------------------------------------------------------------------------
\* stop

\* stop_cli reads the generation and then waits for its turn.
BeginStop(t) ==
    /\ spawn = "cli" /\ ThreadAt(t, "idle")
    /\ Continues(t, "stop")
    /\ seen' = [seen EXCEPT ![t] = superseded]
    /\ UNCHANGED <<treeVars, exitVars, ownVars>>

WithStopLock(t) ==
    /\ ThreadAt(t, "stop") /\ stopLock = Nobody
    /\ stopLock' = t
    /\ Continues(t, "look")
    /\ UNCHANGED <<treeVars, exitVars, childLock, seen>>

\* mutant of LookBeforeAsking: the request is recorded before the look.
LookAfterAsking(t) ==
    /\ ThreadAt(t, "look") /\ childLock = Nobody
    /\ \/ ObserveChildStatus /\ Continues(t, "exited") /\ UNCHANGED <<asked, childLock>>
       \/ /\ leader = "running"
          /\ asked' = TRUE /\ childLock' = t
          /\ Continues(t, "ask")
          /\ UNCHANGED <<leader, observed>>
       \/ Continues(t, "kill") /\ UNCHANGED <<leader, observed, asked, childLock>>
    /\ requested' = TRUE
    /\ UNCHANGED <<system, descendants, killed, interrupted, answered, reason, stopped,
                   stopLock, seen>>

\* request_graceful_stop: a leader that has exited is not asked; a look may fail.
LookBeforeAsking(t) ==
    /\ ThreadAt(t, "look") /\ childLock = Nobody
    /\ \/ ObserveChildStatus /\ Continues(t, "exited") /\ UNCHANGED <<asked, childLock>>
       \/ /\ leader = "running"
          /\ asked' = TRUE /\ childLock' = t
          /\ Continues(t, "ask")
          /\ UNCHANGED <<leader, observed>>
       \/ Continues(t, "kill") /\ UNCHANGED <<leader, observed, asked, childLock>>
    /\ UNCHANGED <<system, descendants, killed, interrupted, answered, requested, reason,
                   stopped, stopLock, seen>>

Ask(t) ==
    /\ ThreadAt(t, "ask")
    /\ requested' = TRUE
    /\ Continues(t, "signal")
    /\ UNCHANGED <<treeVars, observed, reason, stopped, asked, ownVars, seen>>

\* SIGTERM to the leader, Ctrl+C to its console: it may or may not obey.
GracefulAction(t) ==
    /\ ThreadAt(t, "signal")
    /\ \/ Continues(t, "poll") /\ childLock' = Nobody
       \/ Continues(t, "look again") /\ UNCHANGED childLock
    /\ UNCHANGED <<treeVars, exitVars, stopLock, seen>>

LookAfterFailure(t) ==
    /\ ThreadAt(t, "look again")
    /\ childLock' = Nobody
    /\ \/ ObserveChildStatus /\ Continues(t, "exited late")
       \/ Continues(t, "kill") /\ UNCHANGED <<leader, observed>>
    /\ UNCHANGED <<system, descendants, killed, interrupted, answered, requested, reason,
                   stopped, asked, stopLock, seen>>

\* try_exit within request_graceful_stop.
ClassifyInRequest(t) ==
    /\ \/ ThreadAt(t, "exited") /\ Continues(t, "poll")
       \/ ThreadAt(t, "exited late") /\ Continues(t, "kill")
    /\ Classify(t)
    /\ UNCHANGED <<treeVars, requested, observed, stopped, asked, ownVars, seen>>

\* wait_until_exited, for the graceful deadline and for the forced one.
Polls == {"poll", "poll killed"}
Queries == {"query", "query killed"}
QueryOf(point) == IF point = "poll" THEN "query" ELSE "query killed"
PollOf(point) == IF point = "query" THEN "poll" ELSE "poll killed"

PollLeader(t) ==
    /\ pc[t] \in Polls
    /\ observed \/ childLock = Nobody
    /\ ObserveChildStatus
    /\ Continues(t, QueryOf(pc[t]))
    /\ UNCHANGED <<system, descendants, killed, interrupted, answered, requested, reason,
                   stopped, asked, ownVars, seen>>

QueryTree(t) ==
    /\ pc[t] \in Queries
    /\ Continues(t, IF TreeHasExited THEN "reap" ELSE PollOf(pc[t]))
    /\ UNCHANGED <<treeVars, exitVars, ownVars, seen>>

\* The graceful deadline has passed, or a query failed.
GraceIsOver(t) ==
    /\ pc[t] \in {"poll", "query"}
    /\ Continues(t, "kill")
    /\ UNCHANGED <<treeVars, exitVars, ownVars, seen>>

ForceKillTree(t) ==
    /\ ThreadAt(t, "kill")
    /\ killed' = TRUE
    /\ Continues(t, "poll killed")
    /\ UNCHANGED <<system, leader, descendants, interrupted, answered, exitVars,
                   ownVars, seen>>

\* The kill or a query failed, or the tree is there after the forced deadline.
StopFails(t) ==
    /\ pc[t] \in {"kill", "poll killed", "query killed"}
    /\ stopLock' = Nobody
    /\ Continues(t, "idle")
    /\ UNCHANGED <<treeVars, exitVars, childLock, seen>>

\* Waits for the leader, with the child lock, if nobody has its status.
Reap(t) ==
    /\ ThreadAt(t, "reap")
    /\ ObserveChildStatus
    /\ Continues(t, "report")
    /\ UNCHANGED <<system, descendants, killed, interrupted, answered, requested, reason,
                   stopped, asked, ownVars, seen>>

StopSucceeds(t) ==
    /\ ThreadAt(t, "report")
    /\ Classify(t)
    /\ stopped' = TRUE
    /\ stopLock' = Nobody
    /\ Continues(t, "idle")
    /\ UNCHANGED <<treeVars, requested, observed, asked, childLock, seen>>

StopStep(t) ==
    \/ BeginStop(t) \/ WithStopLock(t) \/ LookBeforeAsking(t) \/ Ask(t)
    \/ GracefulAction(t) \/ LookAfterFailure(t) \/ ClassifyInRequest(t)
    \/ PollLeader(t) \/ QueryTree(t) \/ GraceIsOver(t) \/ ForceKillTree(t)
    \/ StopFails(t) \/ Reap(t) \/ StopSucceeds(t)

-----------------------------------------------------------------------------
\* try_exit of the monitor and of the page callbacks

BeginTryExit(t) ==
    /\ spawn = "cli" /\ ThreadAt(t, "idle")
    /\ Continues(t, "try")
    /\ seen' = [seen EXCEPT ![t] = superseded]
    /\ UNCHANGED <<treeVars, exitVars, ownVars>>

\* The leader is alive, or the look fails.
NoExitSeen(t) ==
    /\ ThreadAt(t, "try")
    /\ Continues(t, "idle")
    /\ UNCHANGED <<treeVars, exitVars, ownVars, seen>>

ExitSeen(t) ==
    /\ ThreadAt(t, "try")
    /\ observed \/ childLock = Nobody
    /\ ObserveChildStatus
    /\ Continues(t, "classify")
    /\ UNCHANGED <<system, descendants, killed, interrupted, answered, requested, reason,
                   stopped, asked, ownVars, seen>>

TryExitEnds(t) ==
    /\ ThreadAt(t, "classify")
    /\ Classify(t)
    /\ Continues(t, "idle")
    /\ UNCHANGED <<treeVars, requested, observed, stopped, asked, ownVars, seen>>

TryExitStep(t) == BeginTryExit(t) \/ NoExitSeen(t) \/ ExitSeen(t) \/ TryExitEnds(t)

\* Retry or shutdown opens a new generation.
Supersede ==
    /\ ~superseded /\ superseded' = TRUE
    /\ UNCHANGED <<treeVars, exitVars, ownVars, threadVars, spawn>>

ThreadStep ==
    /\ (\E t \in Stoppers : StopStep(t)) \/ (\E t \in Observers : TryExitStep(t))
    /\ UNCHANGED <<spawn, superseded>>

SupervisorNext == SpawnStep \/ TreeStep \/ ThreadStep \/ Supersede

SupervisorSpec == SupervisorInit /\ [][SupervisorNext]_supervisorVars

-----------------------------------------------------------------------------
StopPoints == {"idle", "stop", "look", "ask", "signal", "look again", "exited", "exited late",
               "kill", "reap", "report"} \cup Polls \cup Queries

SupervisorTypeOK ==
    /\ system \in {"unix", "windows"}
    /\ spawn \in {"create", "attach", "resume", "discard", "terminate", "await discarded",
                  "cli", "dropped", "failed", "unclean"}
    /\ leader \in {"none", "suspended", "discarded", "running", "exited", "reaped"}
    /\ {descendants, killed, interrupted, superseded} \subseteq BOOLEAN
    /\ {requested, observed, stopped, asked, answered} \subseteq BOOLEAN
    /\ childLock \in Stoppers \cup {Nobody} /\ stopLock \in Stoppers \cup {Nobody}
    /\ reason \in {"none", "Requested", "Unexpected", "StaleGeneration"}
    /\ pc \in [Threads -> StopPoints \cup {"try", "classify"}]
    /\ seen \in [Threads -> BOOLEAN]

(***************************************************************************)
(* An exit is called Requested exactly if the leader was alive when a stop *)
(* looked at it to ask it to end: an exit before is never hidden as one    *)
(* that was wanted, and one that was asked for never shown as a failure,   *)
(* whichever thread observes it, and whatever the action of the stop came  *)
(* to (request_graceful_stop and try_exit under the child lock).           *)
(***************************************************************************)
ReasonIsTrue == reason # "none" => (reason = "Requested" <=> answered)

(***************************************************************************)
(* The signal goes to the leader's own pid: it is not reaped between the   *)
(* look and the action (request_graceful_stop keeps the child lock), and   *)
(* reap never waits for a leader that runs.                                *)
(***************************************************************************)
SignalsOwnLeader ==
    \A t \in Stoppers :
        /\ pc[t] \in {"ask", "signal", "look again"} => leader \in {"running", "exited"}
        /\ pc[t] = "reap" => observed

Tree ==
    IF leader = "running" THEN "running"
    ELSE IF ~LeaderExited THEN "absent"
    ELSE IF descendants THEN "lingering" ELSE "gone"

Handed ==
    IF spawn \in {"cli", "dropped"} THEN "cli"
    ELSE IF spawn \in {"failed", "unclean"} THEN "nothing"
    ELSE "pending"

Cli == INSTANCE OwnedCli WITH tree <- Tree, handed <- Handed

(***************************************************************************)
(* The supervisor keeps what the lifecycle relies on: a spawn that fails,  *)
(* CleanupFailed included, leaves nothing that runs or ever will, a reason *)
(* is given once and stands, and a stop reports success only when the      *)
(* whole tree is gone (spawn_owned_command, stop).                         *)
(***************************************************************************)
ImplementsOwnedCli == Cli!Spec
=============================================================================
