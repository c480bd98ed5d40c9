---------------------------- MODULE OfficialNode ----------------------------
(***************************************************************************)
(* The installation of the official Node under the directory lock: a       *)
(* present executable is used at once; else, holding the lock, the archive *)
(* is cached and checked, unpacked beside its destination and renamed into *)
(* it, what was there before being moved aside (ensure-official-node.mjs,  *)
(* ensureOfficialNode, ensureCachedArchive, installArchive).               *)
(***************************************************************************)
EXTENDS DirectoryLock

VARIABLES
    destination,  \* resources/node/<target>: missing, without its executable, whole
    cache,        \* the cached archive
    aside         \* what each process has moved aside, or missing

nodeVars == <<destination, cache, aside>>

Destinations == {"missing", "husk", "whole"}
Archives == {"missing", "damaged", "official"}

NodeInit ==
    /\ destination \in Destinations
    /\ cache \in {"missing", "damaged"}
    /\ aside = [p \in Processes |-> "missing"]

IsFile == destination = "whole"
PathExists == destination # "missing"

\* Before the lock is asked for.
LookFirst(p) ==
    /\ At(p, "arrive")
    /\ GoesTo(p, IF IsFile THEN "done" ELSE "enter")
    /\ DirectoryStays /\ UNCHANGED nodeVars

\* mutant of LookAgain: what was installed while waiting is not looked at.
LookNoMore(p) ==
    /\ At(p, "inside")
    /\ GoesTo(p, "fetch")
    /\ DirectoryStays /\ UNCHANGED nodeVars

LookAgain(p) ==
    /\ At(p, "inside")
    /\ GoesTo(p, IF IsFile THEN "release" ELSE "fetch")
    /\ DirectoryStays /\ UNCHANGED nodeVars

\* A cached archive that does not have the pinned digest is removed, and another
\* one is downloaded beside it; only a download with the digest gets its name.
EnsureCachedArchive(p) ==
    /\ At(p, "fetch")
    /\ \/ cache' = "official" /\ GoesTo(p, "unpack")
       \/ /\ cache # "official"
          /\ cache' = "missing" /\ GoesTo(p, "release")
    /\ DirectoryStays /\ UNCHANGED <<destination, aside>>

\* Unpacking and copying happen in directories of their own; either may fail.
Unpack(p) ==
    /\ At(p, "unpack")
    /\ GoesTo(p, "move aside") \/ GoesTo(p, "release")
    /\ DirectoryStays /\ UNCHANGED nodeVars

MoveAside(p) ==
    /\ At(p, "move aside")
    /\ \/ /\ PathExists
          /\ destination' = "missing" /\ aside' = [aside EXCEPT ![p] = destination]
          /\ GoesTo(p, "place")
       \/ /\ ~PathExists
          /\ GoesTo(p, "place")
          /\ UNCHANGED <<destination, aside>>
       \/ GoesTo(p, "release") /\ UNCHANGED <<destination, aside>>
    /\ DirectoryStays /\ UNCHANGED cache

\* The rename gives the destination its whole content, or fails: over a directory
\* that is not empty it must.
Place(p) ==
    /\ At(p, "place")
    /\ \/ ~IsFile /\ destination' = "whole" /\ GoesTo(p, "clear")
       \/ UNCHANGED destination /\ GoesTo(p, IF IsFile THEN "clear" ELSE "roll back")
    /\ DirectoryStays /\ UNCHANGED <<cache, aside>>

\* What was moved aside is put back if the place is free.
RollBack(p) ==
    /\ At(p, "roll back")
    /\ destination' \in IF PathExists THEN {destination} ELSE {destination, aside[p]}
    /\ GoesTo(p, "clear")
    /\ DirectoryStays /\ UNCHANGED <<cache, aside>>

Clear(p) ==
    /\ At(p, "clear")
    /\ aside' = [aside EXCEPT ![p] = "missing"]
    /\ GoesTo(p, "release")
    /\ DirectoryStays /\ UNCHANGED <<destination, cache>>

NodeStep(p) ==
    \/ LookFirst(p) \/ LookAgain(p) \/ EnsureCachedArchive(p) \/ Unpack(p)
    \/ MoveAside(p) \/ Place(p) \/ RollBack(p) \/ Clear(p)

(***************************************************************************)
(* A Node that is installed stays: the path ensureOfficialNode answered    *)
(* names an executable from then on, whoever else installs, fails, dies,   *)
(* is held up or recovers the lock of a dead process (the second look      *)
(* under the lock and the renames of installArchive), as long as no waiter *)
(* has gone astray: two inside can move each other's Node away.            *)
(***************************************************************************)
NodeStaysInstalled == [][IsFile => IsFile' \/ astray]_<<lockVars, nodeVars>>
=============================================================================
