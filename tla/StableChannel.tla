--------------------------- MODULE StableChannel ---------------------------
(***************************************************************************)
(* Promotion of releases to the Stable channel of the OSS bucket.  A run   *)
(* publishes the immutable objects of its release and an isolated          *)
(* candidate manifest, has the candidate smoke-tested against the Stable   *)
(* it read, verifies the evidence twice, and only then, holding the        *)
(* promotion lock, replaces the Stable manifest.                           *)
(*                                                                         *)
(* promote-stable-release.mjs, verify-update-smoke-evidence.mjs and the    *)
(* jobs of promote-stable.yml.  A run that fails or is killed stops where  *)
(* it is; it may be run again.  The bucket is external.                    *)
(***************************************************************************)
EXTENDS Naturals, FiniteSets

CONSTANTS
    Runs,             \* promotion runs, one per published release
    Initial,          \* the manifest Stable names at the start
    Version,          \* the version of each manifest
    RequiredTargets,  \* the targets that need evidence
    MaxAttempts       \* bound: how often a run is started

Manifests == Runs \cup {Initial}   \* a run's manifest is named by the run

ASSUME ChannelAssumption ==
    /\ Initial \notin Runs
    /\ Version \in [Manifests -> Nat]
    /\ RequiredTargets # {}
    /\ MaxAttempts \in Nat \ {0}

VARIABLES
    stable,      \* the manifest channels/stable/latest.json holds
    stored,      \* each run's immutable objects: its packages, its manifest
    lock,        \* the owner written in promotion.lock, or nobody
    run,         \* each run: the step it is at, its attempt, the Stable it read,
                 \* and whether its job prepare-candidate has succeeded
    runner,      \* the Stable the runner of a run's target has downloaded
    evidence,    \* each run's evidence artifact
    promotions   \* history: what replaced what, on which evidence

channelVars == <<stable, stored, lock, run, runner, evidence, promotions>>

Nobody == << >>
Idle == << >>
Parts == {"packages", "manifest"}
Steps == {"idle", "packages", "recheck packages", "manifest", "recheck manifest", "smoke",
          "aggregate", "readmit", "acquire", "compare", "reread", "replace", "readback",
          "release", "promoted", "failed"}
\* The steps a run takes as the owner of the lock.
Holding == {"compare", "reread", "replace", "readback", "release"}

Documents == [target : RequiredTargets, candidate : Runs, baseline : Manifests,
              stale : BOOLEAN, intact : BOOLEAN]

Promotions == [by : Runs, over : Manifests, documents : SUBSET Documents, whole : BOOLEAN]

ChannelInit ==
    /\ stable = Initial
    /\ stored = [r \in Runs |-> [part \in Parts |-> "absent"]]
    /\ lock = Nobody
    /\ run = [r \in Runs |-> [at |-> "idle", attempt |-> 1, seen |-> Initial,
                          prepared |-> FALSE]]
    /\ runner = [r \in Runs |-> [t \in RequiredTargets |-> Idle]]
    /\ evidence = [r \in Runs |-> {}]
    /\ promotions = {}

RunAt(r, step) == run[r].at = step
\* The smokes begin when the job prepare-candidate has succeeded.
RunGoesTo(r, step) ==
    run' = [run EXCEPT ![r].at = step, ![r].prepared = @ \/ step = "smoke"]
RunFails(r) == RunGoesTo(r, "failed")
Owner(r) == <<r, run[r].attempt>>

-----------------------------------------------------------------------------
(* Evidence. *)

Newer(candidate, baseline) == Version[candidate] > Version[baseline]

VerifyDocument(document, candidate, baseline) ==
    /\ document.target \in RequiredTargets
    /\ document.candidate = candidate
    /\ document.baseline = baseline
    /\ Newer(document.candidate, document.baseline)
    /\ ~document.stale

\* Exactly one document of each target, all of one baseline.
VerifyEvidenceSet(documents, candidate, baseline) ==
    /\ \A document \in documents : VerifyDocument(document, candidate, baseline)
    /\ {document.target : document \in documents} = RequiredTargets
    /\ Cardinality(documents) = Cardinality(RequiredTargets)
    /\ \A first, second \in documents : first.baseline = second.baseline

\* Every file matches its checksum.
VerifyEvidenceDirectory(documents, candidate, baseline) ==
    /\ \A document \in documents : document.intact
    /\ VerifyEvidenceSet(documents, candidate, baseline)

-----------------------------------------------------------------------------
(* Job prepare-candidate. *)

\* What a target's package and signature in the release turn out to be.
ReadTargetArtifact == {"missing", "unverified", "verified"}

BuildReleaseBundle(artifacts) == \A t \in RequiredTargets : artifacts[t] = "verified"

\* The current Stable is read first; its version must differ from the release's.
\* The packages and their signatures are verified before anything is written.
PrepareStableCandidate(r) ==
    /\ RunAt(r, "idle")
    /\ \E artifacts \in [RequiredTargets -> ReadTargetArtifact] :
        IF BuildReleaseBundle(artifacts) /\ Version[stable] # Version[r]
        THEN run' = [run EXCEPT ![r].at = "packages", ![r].seen = stable]
        ELSE RunFails(r)
    /\ UNCHANGED <<stable, stored, lock, runner, evidence, promotions>>

\* An object is read in full, and compared with the bytes it must have.
ReadObject(r, part) == stored[r][part] = "whole"

\* An object that is there is reused only if its bytes are the same; a missing
\* one is copied, and a copy may have left anything, whatever it answered.
EnsureObject(r, part, here, next) ==
    /\ RunAt(r, here)
    /\ CASE ReadObject(r, part)         -> RunGoesTo(r, next) /\ UNCHANGED stored
         [] stored[r][part] = "damaged" -> RunFails(r) /\ UNCHANGED stored
         [] OTHER -> \E copy \in {"absent", "whole", "damaged"} :
              /\ stored' = [stored EXCEPT ![r][part] = copy]
              /\ RunGoesTo(r, next) \/ RunFails(r)
    /\ UNCHANGED <<stable, lock, runner, evidence, promotions>>

\* After the copies every object is read back and compared.
RecheckObjects(r, part, here, next) ==
    /\ RunAt(r, here)
    /\ IF ReadObject(r, part) THEN RunGoesTo(r, next) ELSE RunFails(r)
    /\ UNCHANGED <<stable, stored, lock, runner, evidence, promotions>>

PublishImmutableObjects(r) ==
    \/ EnsureObject(r, "packages", "packages", "recheck packages")
    \/ RecheckObjects(r, "packages", "recheck packages", "manifest")
    \/ EnsureObject(r, "manifest", "manifest", "recheck manifest")
    \/ RecheckObjects(r, "manifest", "recheck manifest", "smoke")

-----------------------------------------------------------------------------
(* Job native-update-smoke: the assets and the documents of a target. *)

\* A smoke downloads Stable itself, at its own time: the version must be the one
\* the candidate was prepared against, the digests those of the URLs.
PrepareUpdateSmokeAsset(r, t) ==
    /\ RunAt(r, "smoke") /\ runner[r][t] = Idle
    /\ IF Version[stable] = Version[run[r].seen] /\ \A part \in Parts : ReadObject(r, part)
       THEN runner' = [runner EXCEPT ![r][t] = stable] /\ UNCHANGED run
       ELSE RunFails(r) /\ UNCHANGED runner
    /\ UNCHANGED <<stable, stored, lock, evidence, promotions>>

Document(r, t, intact) ==
    [target |-> t, candidate |-> r, baseline |-> runner[r][t], stale |-> FALSE, intact |-> intact]

Recorded(r) == {document.target : document \in evidence[r]}

\* A smoke that succeeded has its document verified before it is written; the
\* run goes on when the last target has its own.
RunNativeUpdateSmoke(r, t) ==
    /\ RunAt(r, "smoke") /\ runner[r][t] # Idle /\ t \notin Recorded(r)
    /\ \E intact \in BOOLEAN :
        IF VerifyDocument(Document(r, t, intact), r, runner[r][t])
        THEN /\ evidence' = [evidence EXCEPT ![r] = @ \cup {Document(r, t, intact)}]
             /\ IF Recorded(r) \cup {t} = RequiredTargets
                THEN RunGoesTo(r, "aggregate") ELSE UNCHANGED run
        ELSE RunFails(r) /\ UNCHANGED evidence
    /\ UNCHANGED <<stable, stored, lock, runner, promotions>>

\* Evidence is accepted for 24 hours: it may be too old when it is verified.
EvidenceAges(r) ==
    /\ run[r].at \in {"aggregate", "readmit"}
    /\ evidence' = [evidence EXCEPT ![r] = {[document EXCEPT !.stale = TRUE] : document \in @}]
    /\ UNCHANGED <<stable, stored, lock, run, runner, promotions>>

-----------------------------------------------------------------------------
(* Jobs aggregate-evidence and promote-stable. *)

AdmitEvidence(r, here, next) ==
    /\ RunAt(r, here)
    /\ IF VerifyEvidenceDirectory(evidence[r], r, run[r].seen)
       THEN RunGoesTo(r, next) ELSE RunFails(r)
    /\ UNCHANGED <<stable, stored, lock, runner, evidence, promotions>>

\* AppendObject at position 0 creates the lock, or conflicts.
StorageAcquires(owner) == lock = Nobody /\ lock' = owner

\* mutant of AcquirePromotionLock: the lock is written whoever holds it.
OverwritePromotionLock(r) ==
    /\ RunAt(r, "acquire")
    /\ lock' = Owner(r) /\ RunGoesTo(r, "compare")
    /\ UNCHANGED <<stable, stored, runner, evidence, promotions>>

\* The answer, or the read that confirms the owner, may be lost after the lock
\* was created.
AcquirePromotionLock(r) ==
    /\ RunAt(r, "acquire")
    /\ \/ StorageAcquires(Owner(r)) /\ (RunGoesTo(r, "compare") \/ RunFails(r))
       \/ UNCHANGED lock /\ RunFails(r)
    /\ UNCHANGED <<stable, stored, runner, evidence, promotions>>

CompareStable(r) ==
    /\ RunAt(r, "compare")
    /\ IF stable = run[r].seen THEN RunGoesTo(r, "reread") ELSE RunFails(r)
    /\ UNCHANGED <<stable, stored, lock, runner, evidence, promotions>>

RereadCandidate(r) ==
    /\ RunAt(r, "reread")
    /\ IF ReadObject(r, "manifest") THEN RunGoesTo(r, "replace") ELSE RunFails(r)
    /\ UNCHANGED <<stable, stored, lock, runner, evidence, promotions>>

\* The write may fail with or without effect; the lock stays in either case.
ReplaceStable(r) ==
    /\ RunAt(r, "replace")
    /\ \/ /\ stable' = r
          /\ promotions' = promotions \cup
                {[by |-> r, over |-> stable, documents |-> evidence[r],
                  whole |-> \A part \in Parts : stored[r][part] = "whole"]}
          /\ RunGoesTo(r, "readback") \/ RunFails(r)
       \/ UNCHANGED <<stable, promotions>> /\ RunFails(r)
    /\ UNCHANGED <<stored, lock, runner, evidence>>

ReadBackStable(r) ==
    /\ RunAt(r, "readback")
    /\ IF stable = r THEN RunGoesTo(r, "release") ELSE RunFails(r)
    /\ UNCHANGED <<stable, stored, lock, runner, evidence, promotions>>

\* Only the owner that is still written there deletes the lock.
StorageReleases(owner) == lock = owner /\ lock' = Nobody

ReleasePromotionLock(r) ==
    /\ RunAt(r, "release")
    /\ \/ StorageReleases(Owner(r)) /\ (RunGoesTo(r, "promoted") \/ RunFails(r))
       \/ UNCHANGED lock /\ RunFails(r)
    /\ UNCHANGED <<stable, stored, runner, evidence, promotions>>

\* A command fails, a job is cancelled, the runner dies.
RunStops(r) ==
    /\ run[r].at \notin {"idle", "promoted", "failed"}
    /\ RunFails(r)
    /\ UNCHANGED <<stable, stored, lock, runner, evidence, promotions>>

\* A failed run is started again: all of its jobs, or the failed ones with the
\* candidate prepared and the documents written in an earlier attempt.
RunAgain(r) ==
    /\ RunAt(r, "failed") /\ run[r].attempt < MaxAttempts
    /\ \/ /\ run' = [run EXCEPT ![r].at = "idle", ![r].attempt = @ + 1, ![r].prepared = FALSE]
          /\ evidence' = [evidence EXCEPT ![r] = {}]
          /\ runner' = [runner EXCEPT ![r] = [t \in RequiredTargets |-> Idle]]
       \/ /\ run[r].prepared
          /\ LET next == IF Recorded(r) = RequiredTargets THEN "readmit" ELSE "smoke" IN
             run' = [run EXCEPT ![r].at = next, ![r].attempt = @ + 1]
          /\ runner' = [runner EXCEPT ![r] =
                          [t \in RequiredTargets |-> IF t \in Recorded(r) THEN @[t] ELSE Idle]]
          /\ UNCHANGED evidence
    /\ UNCHANGED <<stable, stored, lock, promotions>>

-----------------------------------------------------------------------------
(* The administrator, outside the code: the runbook of the release.        *)

NoWriter == \A r \in Runs : run[r].at \notin Holding

\* A left lock is removed after confirming that no writer is active.
AdministratorUnlocks ==
    /\ lock # Nobody /\ NoWriter
    /\ lock' = Nobody
    /\ UNCHANGED <<stable, stored, run, runner, evidence, promotions>>

\* A bad release is withdrawn by restoring what it replaced.
AdministratorRestores ==
    /\ lock = Nobody /\ NoWriter
    /\ \E p \in promotions : p.by = stable /\ stable' = p.over
    /\ UNCHANGED <<stored, lock, run, runner, evidence, promotions>>

PromotionStep ==
    \/ \E r \in Runs :
        \/ PrepareStableCandidate(r) \/ PublishImmutableObjects(r)
        \/ \E t \in RequiredTargets :
            PrepareUpdateSmokeAsset(r, t) \/ RunNativeUpdateSmoke(r, t)
        \/ AdmitEvidence(r, "aggregate", "readmit") \/ AdmitEvidence(r, "readmit", "acquire")
        \/ AcquirePromotionLock(r) \/ CompareStable(r) \/ RereadCandidate(r)
        \/ ReplaceStable(r) \/ ReadBackStable(r) \/ ReleasePromotionLock(r)
        \/ EvidenceAges(r) \/ RunStops(r) \/ RunAgain(r)
    \/ AdministratorUnlocks \/ AdministratorRestores

ChannelTypeOK ==
    /\ stable \in Manifests
    /\ stored \in [Runs -> [Parts -> {"absent", "whole", "damaged"}]]
    /\ lock \in {Nobody} \cup (Runs \X (1..MaxAttempts))
    /\ run \in [Runs -> [at : Steps, attempt : 1..MaxAttempts, seen : Manifests,
                     prepared : BOOLEAN]]
    /\ runner \in [Runs -> [RequiredTargets -> Manifests \cup {Idle}]]
    /\ evidence \in [Runs -> SUBSET Documents]
    /\ promotions \subseteq Promotions

(***************************************************************************)
(* Every promotion replaced exactly the manifest its candidate was smoke-  *)
(* tested as an upgrade of, on complete evidence of every target, with all *)
(* objects of the candidate published, and moved Stable to a newer         *)
(* version: finalizeStableCandidate under the lock, after the two          *)
(* verifications of the evidence (promote-stable-release.mjs,              *)
(* promote-stable.yml), for every pair of runs, attempt, lost answer,      *)
(* removed lock and restored manifest.                                     *)
(***************************************************************************)
StableFollowsSmoke ==
    \A p \in promotions :
        /\ p.whole
        /\ {document.target : document \in p.documents} = RequiredTargets
        /\ \A document \in p.documents : document.baseline = p.over /\ document.candidate = p.by
        /\ Newer(p.by, p.over)
=============================================================================
