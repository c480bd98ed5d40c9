------------------------------ MODULE StagedSlot ------------------------------
(***************************************************************************)
(* What the staging repository promises the updater: one slot for a        *)
(* verified package, what it answers now, and what the next start of the   *)
(* application may find however this one ends.  StagingRepository, with    *)
(* its files, crashes and failing file operations, implements it.          *)
(***************************************************************************)
EXTENDS Integers

CONSTANTS
    Versions,    \* release versions, ordered as numbers
    None         \* no package

VARIABLES
    held,        \* the version the open repository answers with, or None
    onDisk,      \* the versions, or None, that the next start may recover
    confirmed,   \* the last stage or clear has gone to its end
    lazy,        \* this file system may undo a removal when power is lost
    running      \* the version of the application that has the repository open

vars == <<held, onDisk, confirmed, lazy>>

Init ==
    /\ held = None
    /\ onDisk = {None}
    /\ confirmed = FALSE
    /\ lazy \in BOOLEAN

\* The slot takes a newer package only.
Admits(v) == held = None \/ v > held

\* Once staged is answered, the package survives whatever happens next.
Stage(v) ==
    /\ Admits(v)
    /\ held' = v
    /\ onDisk' = {v}
    /\ confirmed' = TRUE

\* A failure may lose the package that was being replaced, and may keep the new
\* one; the repository goes on answering as before or with what it has recovered,
\* which is nothing, or a package that has been handed to this process: what
\* earlier versions of the application have left was taken or removed when it started.
StageFails(v) ==
    /\ Admits(v)
    /\ onDisk' \in (SUBSET (onDisk \cup {None, v})) \ {{}}
    /\ held' \in {held} \cup {w \in onDisk' : w = None \/ w > running}
    /\ confirmed' = FALSE

\* A cleared package is gone for good, but for a file system that is lazy.
Clear ==
    /\ held # None
    /\ \/ onDisk' = {None}
       \/ lazy /\ onDisk' = {None, held}
    /\ held' = None
    /\ confirmed' = TRUE

ClearFails ==
    /\ onDisk' \in (SUBSET (onDisk \cup {None})) \ {{}}
    /\ confirmed' = FALSE
    /\ UNCHANGED held

\* The process ends, in an orderly way or not.
Stop ==
    /\ held' = None
    /\ onDisk' \in (SUBSET onDisk) \ {{}}
    /\ confirmed' = FALSE

\* A start answers with what it has found.
Open ==
    /\ held = None
    /\ onDisk' \in (SUBSET (onDisk \cup {None})) \ {{}}
    /\ held' \in onDisk'
    /\ confirmed' = FALSE

\* The package file is damaged from outside.
Damage ==
    /\ onDisk' = {None}
    /\ confirmed' = FALSE
    /\ UNCHANGED held

Next ==
    \/ \E v \in Versions : Stage(v) \/ StageFails(v)
    \/ Clear \/ ClearFails \/ Stop \/ Open \/ Damage

Spec == Init /\ [][Next /\ UNCHANGED lazy]_vars
=============================================================================
