--------------------------- MODULE DirectoryLock ---------------------------
(***************************************************************************)
(* The lock directory that serialises build-time processes of one machine: *)
(* mkdir takes it, a file in it names its owner, a heartbeat keeps it      *)
(* fresh, and a waiter moves a stale one aside when its owner is no longer *)
(* alive.  Every file operation is a step, for what a process has read may *)
(* no longer hold when it acts on it (ensure-official-node.mjs,            *)
(* withDirectoryLock).  Every operation is by path: it meets whatever      *)
(* directory is there.                                                     *)
(***************************************************************************)
EXTENDS Naturals, FiniteSets

CONSTANTS
    Processes,     \* the processes that want the lock
    MaxDeaths      \* bound: how many of them die

ASSUME LockAssumption == IsFiniteSet(Processes) /\ MaxDeaths \in Nat

VARIABLES
    lock,     \* the lock directory
    at,       \* the step each process is at
    judged,   \* history: who has read in this very directory that its owner is gone
    astray    \* history: a directory has been moved aside unread, of a living process

lockVars == <<lock, at, judged, astray>>

NoLock == [by |-> {}, written |-> FALSE, stale |-> FALSE]

Waiting == {"arrive", "enter", "own", "conflict", "judge", "steal", "retry"}
Leaving == {"release", "drop"}
Ended == {"done", "failed", "dead"}

LockInit(first) ==
    /\ lock = NoLock
    /\ at = [p \in Processes |-> first]
    /\ judged = {}
    /\ astray = FALSE

At(p, step) == at[p] = step
GoesTo(p, step) == at' = [at EXCEPT ![p] = step]

\* The directory is left as it is, or is gone and with it what was read in it.
DirectoryStays == UNCHANGED <<lock, judged, astray>>
DirectoryGoes == lock' = NoLock /\ judged' = {}

-----------------------------------------------------------------------------
(* Taking the lock. *)

MakeDirectory(p) ==
    /\ At(p, "enter")
    /\ IF lock = NoLock
       THEN lock' = [by |-> {p}, written |-> FALSE, stale |-> FALSE] /\ GoesTo(p, "own")
       ELSE UNCHANGED lock /\ GoesTo(p, "conflict")
    /\ UNCHANGED <<judged, astray>>

\* The file is created exclusively.  A failure removes the directory that is
\* there; that the file exists already counts as a conflict.
WriteOwner(p) ==
    /\ At(p, "own")
    /\ \/ /\ lock # NoLock /\ ~lock.written
          /\ lock' = [by |-> {p}, written |-> TRUE, stale |-> FALSE]
          /\ GoesTo(p, "inside")
          /\ UNCHANGED judged
       \/ /\ DirectoryGoes
          /\ GoesTo(p, IF lock.written THEN "conflict" ELSE "failed")
    /\ UNCHANGED astray

LookAtAge(p) ==
    /\ At(p, "conflict")
    /\ GoesTo(p, IF lock.stale THEN "judge" ELSE "retry")
    /\ DirectoryStays

\* mutant of LockOwnerProcessIsAlive: an owner is believed dead.
NobodyIsAlive == FALSE

Gone(q) == at[q] \in {"dead", "failed"}

\* The owner file names a process that exists.
LockOwnerProcessIsAlive == lock.written /\ \A q \in lock.by : ~Gone(q)

\* Without the file nothing has been read of an owner.
JudgeOwner(p) ==
    /\ At(p, "judge")
    /\ IF LockOwnerProcessIsAlive
       THEN GoesTo(p, "retry") /\ UNCHANGED judged
       ELSE GoesTo(p, "steal") /\ judged' = IF lock.written THEN judged \cup {p} ELSE judged
    /\ UNCHANGED <<lock, astray>>

\* p moves aside what it has not read, or has read before somebody else made it
\* anew, and a living process has made it.
GoesAstray(p) == p \notin judged /\ \E q \in lock.by : ~Gone(q)

\* The directory is renamed and removed, and the lock is tried at once; one that
\* is gone, or in use, is waited for.
Steal(p) ==
    /\ At(p, "steal")
    /\ \/ /\ lock # NoLock
          /\ DirectoryGoes /\ GoesTo(p, "enter")
          /\ astray' = (astray \/ GoesAstray(p))
       \/ DirectoryStays /\ GoesTo(p, "retry")

Retry(p) ==
    /\ At(p, "retry")
    /\ GoesTo(p, "enter") \/ GoesTo(p, "failed")
    /\ DirectoryStays

-----------------------------------------------------------------------------
(* Holding and releasing it. *)

\* Only a directory that still names the caller is refreshed.
Heartbeat(p) ==
    /\ at[p] \notin Waiting \cup Leaving \cup Ended
    /\ lock.written /\ lock.by = {p} /\ lock.stale
    /\ lock' = [lock EXCEPT !.stale = FALSE]
    /\ UNCHANGED <<at, judged, astray>>

ReadOwner(p) ==
    /\ At(p, "release")
    /\ GoesTo(p, IF lock.written /\ lock.by = {p} THEN "drop" ELSE "done")
    /\ DirectoryStays

\* A rename that fails leaves the directory to whoever finds its owner gone.
DropDirectory(p) ==
    /\ At(p, "drop")
    /\ \/ DirectoryGoes /\ GoesTo(p, "done")
       \/ UNCHANGED <<lock, judged>> /\ GoesTo(p, "failed")
    /\ UNCHANGED astray

Wants(p) == at[p] \notin Ended

\* The clock: a directory gets old when its owner is dead, or held up for long.
LockAges ==
    /\ lock # NoLock /\ ~lock.stale
    /\ lock' = [lock EXCEPT !.stale = TRUE]
    /\ UNCHANGED <<at, judged, astray>>

Dies(p) ==
    /\ Wants(p)
    /\ Cardinality({q \in Processes : at[q] = "dead"}) < MaxDeaths
    /\ GoesTo(p, "dead")
    /\ DirectoryStays

LockStep(p) ==
    \/ MakeDirectory(p) \/ WriteOwner(p) \/ LookAtAge(p) \/ JudgeOwner(p) \/ Steal(p)
    \/ Retry(p) \/ Heartbeat(p) \/ ReadOwner(p) \/ DropDirectory(p)

Inside(p) == at[p] \notin Waiting \cup Leaving \cup Ended

(***************************************************************************)
(* At most one process is inside the lock: what withDirectoryLock says of  *)
(* itself (ensure-official-node.mjs:166).                                  *)
(***************************************************************************)
OneHolder == \A p, q \in Processes : Inside(p) /\ Inside(q) => p = q

(***************************************************************************)
(* Two processes are inside only after the one slip the run lock_steal     *)
(* shows: a waiter that has moved aside the directory of a living process  *)
(* without having read in it that its owner is gone.  Whoever has read     *)
(* that takes the lock of nobody, and no owner that is held up, no file    *)
(* that fails, no release and no death lets two in                         *)
(* (lockOwnerProcessIsAlive, releaseDirectoryLock, withDirectoryLock).     *)
(***************************************************************************)
OneHolderUnlessAstray == astray \/ OneHolder
=============================================================================
