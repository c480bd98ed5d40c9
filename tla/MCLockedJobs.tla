---------------------------- MODULE MCLockedJobs ----------------------------
\* Instance for TLC: three processes, of which some may die.  Nothing tells one
\* process from another, and the property is about single states.
EXTENDS LockedJobs, TLC

CONSTANTS p1, p2, p3

Symmetry == Permutations(Processes)

\* The run lock_steal needs no owner that is held up: only what dead processes
\* have left gets old.
OwnersKeepUp == lock.stale => \A q \in lock.by : Gone(q)
=============================================================================
