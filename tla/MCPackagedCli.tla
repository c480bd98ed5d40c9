---------------------------- MODULE MCPackagedCli ----------------------------
\* Instance for TLC: three processes of a script, of which two may die; a
\* closure of three parts and two versions of its inputs; a CLI that two
\* threads stop while a third one looks for its exit.  Nothing tells one
\* process from another, nor one stopping thread from the other; the
\* refinement mentions neither, and the other properties are about single
\* states or steps.
EXTENDS PackagedCli, TLC

CONSTANTS p1, p2, p3, entry, worker, asset, v1, v2, retry, shutdown, monitor

Symmetry == Permutations(Processes) \cup Permutations(Stoppers)

\* What is said of the lock ends where a waiter goes astray.
OnTrack == ~astray
=============================================================================
