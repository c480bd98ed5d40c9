----------------------------- MODULE RuntimeClosure -----------------------------
(***************************************************************************)
(* The dependency closure that a build packages (runtime-closure.mjs): it  *)
(* is installed in a cache, which a later build with the same inputs takes *)
(* again, copied beside its place and put there.  Builds of one workspace  *)
(* run one after another; each may be killed at any step, and files may    *)
(* change meanwhile.  What a file is made from is the version of the       *)
(* inputs: package.json, the lock file and the private packages.           *)
(***************************************************************************)
CONSTANTS
    Versions,     \* of the inputs
    Parts,        \* of the closure
    Checked,      \* the parts verifyRuntimeClosure looks at
    Missing       \* no file, or no marker

ASSUME ClosureAssumption ==
    /\ Checked \subseteq Parts
    /\ Missing \notin Versions

VARIABLES
    inputs,       \* the version in the workspace
    marker,       \* the hash in closure.json of the cache
    cached,       \* what each part in the cache was installed from
    temporary,    \* the copy beside the destination
    shipped,      \* dist/node_modules
    step,         \* of the build that runs
    hashed,       \* inputs when that build computed its hash
    built,        \* the last build has ended well
    misleading    \* history: the marker is not about what the cache holds

closureVars == <<inputs, marker, cached, temporary, shipped, step, hashed, built, misleading>>

Trees == [Parts -> Versions \cup {Missing}]
Nothing == [p \in Parts |-> Missing]

\* The subsets of a tree, as an interrupted copy or removal leaves them.
PartialTrees(tree) == {[p \in Parts |-> IF p \in kept THEN tree[p] ELSE Missing] :
                         kept \in SUBSET Parts}

ClosureInit ==
    /\ inputs \in Versions
    /\ marker = Missing /\ cached = Nothing
    /\ temporary = Nothing /\ shipped = Nothing
    /\ step = "idle" /\ hashed = inputs
    /\ built = FALSE /\ misleading = FALSE

EditInputs ==
    /\ inputs' \in Versions \ {inputs}
    /\ UNCHANGED <<marker, cached, temporary, shipped, step, hashed, built, misleading>>

\* verifyRuntimeClosure: the entries, assets and manifests are there.
Verified(tree) == \A p \in Checked : tree[p] # Missing

\* mutant of Reusable: whatever was installed last is taken.
ReusableIfComplete == Verified(cached)

Reusable == marker = hashed /\ Verified(cached)

HashInputs ==
    /\ step = "idle"
    /\ hashed' = inputs
    /\ built' = FALSE
    /\ step' = "look"
    /\ UNCHANGED <<inputs, marker, cached, temporary, shipped, misleading>>

LookAtCache ==
    /\ step = "look"
    /\ step' = IF Reusable THEN "copy" ELSE "clear"
    /\ UNCHANGED <<inputs, marker, cached, temporary, shipped, hashed, built, misleading>>

\* rm removes entry by entry, the marker in no order with the others.
ClearCache ==
    /\ step = "clear"
    /\ \/ /\ marker' = Missing /\ UNCHANGED cached
       \/ /\ cached' \in PartialTrees(cached) \ {cached} /\ UNCHANGED marker
    /\ misleading' = (marker' # Missing)
    /\ UNCHANGED <<inputs, temporary, shipped, step, hashed, built>>

InstallClosure ==
    /\ step = "clear" /\ marker = Missing /\ cached = Nothing
    /\ \/ /\ cached' = [p \in Parts |-> inputs]
          /\ step' = "mark"
       \/ /\ cached' \in PartialTrees([p \in Parts |-> inputs])
          /\ step' = "idle"
    /\ misleading' = (inputs # hashed)
    /\ UNCHANGED <<inputs, marker, temporary, shipped, hashed, built>>

WriteMarker ==
    /\ step = "mark"
    /\ marker' = hashed
    /\ step' = "copy"
    /\ UNCHANGED <<inputs, cached, temporary, shipped, hashed, built, misleading>>

\* materializeVerifiedNodeModules: in parallel, and one by one if that fails.
Materialize ==
    /\ step \in {"copy", "copy again"}
    /\ \/ /\ Verified(cached)
          /\ temporary' = cached
          /\ step' = "replace"
       \/ /\ temporary' \in PartialTrees(cached)
          /\ step' = IF step = "copy" THEN "copy again" ELSE "discard"
    /\ UNCHANGED <<inputs, marker, cached, shipped, hashed, built, misleading>>

ClearDestination ==
    /\ step \in {"replace", "replace again"}
    /\ shipped' \in PartialTrees(shipped) \ {shipped}
    /\ UNCHANGED <<inputs, marker, cached, temporary, step, hashed, built, misleading>>

\* renameDirectory: it is tried twice.
PutInPlace ==
    /\ step \in {"replace", "replace again"} /\ shipped = Nothing
    /\ \/ /\ shipped' = temporary /\ temporary' = Nothing
          /\ built' = TRUE
          /\ step' = "idle"
       \/ /\ step' = IF step = "replace" THEN "replace again" ELSE "discard"
          /\ UNCHANGED <<shipped, temporary, built>>
    /\ UNCHANGED <<inputs, marker, cached, hashed, misleading>>

DiscardTemporary ==
    /\ step = "discard"
    /\ temporary' = Nothing
    /\ step' = "idle"
    /\ UNCHANGED <<inputs, marker, cached, shipped, hashed, built, misleading>>

\* Whatever the build was about stays; its temporary directory has a name
\* that no other build uses.
BuildIsKilled ==
    /\ step # "idle"
    /\ step' = "idle"
    /\ temporary' = Nothing
    /\ UNCHANGED <<inputs, marker, cached, shipped, hashed, built, misleading>>

ClosureNext ==
    \/ EditInputs \/ HashInputs \/ LookAtCache \/ ClearCache \/ InstallClosure
    \/ WriteMarker \/ Materialize \/ ClearDestination \/ PutInPlace
    \/ DiscardTemporary \/ BuildIsKilled

ClosureSpec == ClosureInit /\ [][ClosureNext]_closureVars

(***************************************************************************)
(* A build that ends well has packaged a closure with all that is checked, *)
(* and every part of it was installed from the inputs the build hashed,    *)
(* though it came from the cache of a build before, after builds that were *)
(* killed at any step.  The exceptions are the two the marker cannot tell: *)
(* it outlives a removal that was cut short, and the inputs were changed   *)
(* between the hash and the installation (ensureRuntimeCache).             *)
(***************************************************************************)
ShippedFitsInputs ==
    built => /\ Verified(shipped)
             /\ \/ misleading
                \/ shipped = [p \in Parts |-> hashed]
=============================================================================
