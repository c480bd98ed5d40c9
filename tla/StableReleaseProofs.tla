------------------------ MODULE StableReleaseProofs ------------------------
(***************************************************************************)
(* The channel for every number of runs, attempts and targets and every    *)
(* assignment of versions: its types, and StableFollowsSmoke.  The smoke   *)
(* on every target of a runner: its types, EvidenceIsTrue and              *)
(* RunnerIsRestored.                                                       *)
(***************************************************************************)
EXTENDS StableRelease, SequenceTheorems, TLAPS

USE ChannelAssumption DEF RunAt, RunGoesTo, RunFails, ReadObject

-----------------------------------------------------------------------------
(* The strengthening.  A run that took the lock is the one written there, so  *)
(* at most one run holds it; what it compared Stable with stays; and what the *)
(* run was admitted with is what it promotes.                                 *)

\* The steps at which all objects of the run have been found whole.
Published == {"smoke", "aggregate", "readmit", "acquire"} \cup Holding

Verified(r) ==
    /\ {document.target : document \in evidence[r]} = RequiredTargets
    /\ \A document \in evidence[r] :
        document.baseline = run[r].seen /\ document.candidate = r
    /\ Newer(r, run[r].seen)

Whole(r) == \A part \in Parts : stored[r][part] = "whole"

RunInv(r) ==
    /\ run[r].at \in Holding => lock = Owner(r)
    /\ run[r].at \in {"reread", "replace"} => stable = run[r].seen
    /\ run[r].at \in {"acquire"} \cup Holding => Verified(r)
    /\ run[r].at \in {"manifest", "recheck manifest"} => stored[r]["packages"] = "whole"
    /\ run[r].at \in Published \/ run[r].prepared => Whole(r)

IInv ==
    /\ ChannelTypeOK
    /\ \A r \in Runs : RunInv(r)
    /\ StableFollowsSmoke

-----------------------------------------------------------------------------
(* Types, one lemma for the steps that only move a run. *)

RunStates == [at : Steps, attempt : 1..MaxAttempts, seen : Manifests, prepared : BOOLEAN]

LEMMA MoveTyped ==
  ASSUME ChannelTypeOK, NEW r \in Runs, NEW step \in Steps, RunGoesTo(r, step)
  PROVE  /\ run' \in [Runs -> RunStates]
         /\ run'[r].at = step /\ run'[r].seen = run[r].seen
         /\ run'[r].prepared = (run[r].prepared \/ step = "smoke")
         /\ run'[r].attempt = run[r].attempt
         /\ \A s \in Runs \ {r} : run'[s] = run[s]
<1>1. run \in [Runs -> RunStates]
  BY DEF ChannelTypeOK, RunStates
<1> DEFINE ready == run[r].prepared \/ step = "smoke"
<1>2. run' = [run EXCEPT ![r] = [run[r] EXCEPT !.at = step, !.prepared = ready]]
  BY DEF RunGoesTo
<1>b. ready \in BOOLEAN
  OBVIOUS
<1> HIDE DEF ready
<1>3. [run[r] EXCEPT !.at = step, !.prepared = ready] \in RunStates
  BY <1>1, <1>b DEF RunStates
<1>4. /\ run'[r] = [run[r] EXCEPT !.at = step, !.prepared = ready]
      /\ \A s \in Runs \ {r} : run'[s] = run[s]
  BY <1>1, <1>2
<1>5. run[r] \in RunStates
  BY <1>1
<1>6. /\ run'[r].at = step /\ run'[r].seen = run[r].seen
      /\ run'[r].attempt = run[r].attempt /\ run'[r].prepared = ready
  BY <1>4, <1>5 DEF RunStates
<1> QED
  BY <1>1, <1>2, <1>3, <1>4, <1>6 DEF ready

LEMMA OwnersDiffer ==
  ASSUME NEW r \in Runs, NEW s \in Runs
  PROVE  /\ Owner(r) # Nobody
         /\ Owner(r) = Owner(s) => r = s
  BY DEF Owner, Nobody

-----------------------------------------------------------------------------
(* What a step of run r leaves alone of the others. *)

OthersUntouched(r) ==
    /\ \A s \in Runs \ {r} :
        run'[s] = run[s] /\ evidence'[s] = evidence[s] /\ stored'[s] = stored[s]
    /\ stable' = stable \/ run[r].at \in Holding
    /\ lock' = lock \/ lock = Nobody \/ lock = Owner(r)

LEMMA OthersKeep ==
  ASSUME IInv, NEW r \in Runs, OthersUntouched(r), NEW s \in Runs, s # r
  PROVE  RunInv(s)'
<1>1. RunInv(s) /\ RunInv(r)
  BY DEF IInv
<1>2. /\ run'[s] = run[s] /\ evidence'[s] = evidence[s] /\ stored'[s] = stored[s]
  BY DEF OthersUntouched
<1>3. run[s].at \in Holding => lock' = lock /\ run[r].at \notin Holding
  BY <1>1, OwnersDiffer DEF RunInv, OthersUntouched
<1>4. run[s].at \in Holding => stable' = stable
  BY <1>3 DEF OthersUntouched
<1>5. Verified(s) => Verified(s)'
  BY <1>2 DEF Verified
<1>6. Whole(s) => Whole(s)'
  BY <1>2 DEF Whole
<1>7. Owner(s)' = Owner(s)
  BY <1>2 DEF Owner
<1> QED
  BY <1>1, <1>2, <1>3, <1>4, <1>5, <1>6, <1>7 DEF RunInv, Holding, Published

\* A step of r that promotes nothing.
LEMMA QuietStep ==
  ASSUME IInv, NEW r \in Runs, OthersUntouched(r), ChannelTypeOK', RunInv(r)',
         promotions' = promotions
  PROVE  IInv'
<1>1. ASSUME NEW s \in Runs PROVE RunInv(s)'
  BY <1>1, OthersKeep
<1> QED
  BY <1>1 DEF IInv, StableFollowsSmoke

LockMoves(r) ==
    \/ lock' = lock
    \/ lock = Nobody /\ lock' = Owner(r)
    \/ lock = Owner(r) /\ lock' = Nobody

\* A step that only moves a run, and perhaps the lock.
LEMMA MoveStep ==
  ASSUME IInv, NEW r \in Runs, NEW step \in Steps, RunGoesTo(r, step), LockMoves(r),
         UNCHANGED <<stable, stored, runner, evidence, promotions>>,
         step \in Holding => lock' = Owner(r),
         step \in {"reread", "replace"} => stable = run[r].seen,
         step \in {"acquire"} \cup Holding => Verified(r),
         step \in {"manifest", "recheck manifest"} => stored[r]["packages"] = "whole",
         step \in Published => Whole(r)
  PROVE  IInv'
<1>1. ChannelTypeOK /\ RunInv(r)
  BY DEF IInv
<1>2. /\ run' \in [Runs -> RunStates]
      /\ run'[r].at = step /\ run'[r].seen = run[r].seen
      /\ run'[r].attempt = run[r].attempt
      /\ run'[r].prepared => run[r].prepared \/ step \in Published
      /\ \A s \in Runs \ {r} : run'[s] = run[s]
  BY <1>1, MoveTyped DEF Published
<1>3. Owner(r) \in Runs \X (1..MaxAttempts) /\ Owner(r)' = Owner(r)
  BY <1>1, <1>2 DEF Owner, ChannelTypeOK
<1>4. lock' \in {Nobody} \cup (Runs \X (1..MaxAttempts))
  BY <1>1, <1>3 DEF ChannelTypeOK, LockMoves
<1>5. ChannelTypeOK'
  BY <1>1, <1>2, <1>4 DEF ChannelTypeOK, RunStates
<1>6. OthersUntouched(r)
  BY <1>2 DEF OthersUntouched, LockMoves
<1>7. (Verified(r) => Verified(r)') /\ (Whole(r) => Whole(r)')
  BY <1>2 DEF Verified, Whole
<1>8. RunInv(r)'
  BY <1>1, <1>2, <1>3, <1>7 DEF RunInv
<1> QED
  BY <1>5, <1>6, <1>8, QuietStep

\* A run that stops, whatever happened to the lock, keeps the rest.
LEMMA FailStep ==
  ASSUME IInv, NEW r \in Runs, RunFails(r), LockMoves(r),
         UNCHANGED <<stable, stored, runner, evidence, promotions>>
  PROVE  IInv'
<1>1. "failed" \in Steps /\ "failed" \notin Published \cup {"manifest", "recheck manifest"}
  BY DEF Steps, Published, Holding
<1> QED
  BY <1>1, MoveStep DEF Published

-----------------------------------------------------------------------------
(* Job prepare-candidate. *)

LEMMA PreparePreserves ==
  ASSUME IInv, NEW r \in Runs, PrepareStableCandidate(r)
  PROVE  IInv'
<1>1. ChannelTypeOK /\ RunInv(r)
  BY DEF IInv
<1>2. CASE RunFails(r)
  BY <1>2, FailStep DEF PrepareStableCandidate, LockMoves
<1>3. CASE run' = [run EXCEPT ![r].at = "packages", ![r].seen = stable]
  <2>1. run' = [run EXCEPT ![r] = [run[r] EXCEPT !.at = "packages", !.seen = stable]]
    BY <1>3
  <2>3. run \in [Runs -> RunStates] /\ stable \in Manifests
    BY <1>1 DEF ChannelTypeOK, RunStates
  <2>2. [run[r] EXCEPT !.at = "packages", !.seen = stable] \in RunStates
    <3>1. run[r] \in RunStates /\ "packages" \in Steps
      BY <2>3 DEF Steps
    <3> QED
      BY <2>3, <3>1 DEF RunStates
  <2>4. /\ run' \in [Runs -> RunStates] /\ run'[r].at = "packages"
        /\ run'[r].prepared = run[r].prepared
    BY <2>1, <2>2, <2>3 DEF RunStates
  <2>5. \A s \in Runs \ {r} : run'[s] = run[s]
    BY <2>1, <2>3
  <2>6. ChannelTypeOK'
    BY <1>1, <2>4 DEF ChannelTypeOK, RunStates, PrepareStableCandidate
  <2>7. OthersUntouched(r)
    BY <2>5 DEF OthersUntouched, PrepareStableCandidate
  <2>8. RunInv(r)'
    BY <1>1, <2>4 DEF RunInv, Published, Holding, Whole, PrepareStableCandidate
  <2> QED
    BY <2>6, <2>7, <2>8, QuietStep DEF PrepareStableCandidate
<1> QED
  BY <1>2, <1>3 DEF PrepareStableCandidate

LEMMA EnsurePreserves ==
  ASSUME IInv, NEW r \in Runs, NEW part \in Parts, NEW here, NEW next \in Steps,
         EnsureObject(r, part, here, next),
         \/ part = "packages" /\ here = "packages" /\ next = "recheck packages"
         \/ part = "manifest" /\ here = "manifest" /\ next = "recheck manifest"
  PROVE  IInv'
<1>1. ChannelTypeOK /\ RunInv(r)
  BY DEF IInv
<1>2. part = "manifest" => stored[r]["packages"] = "whole"
  BY <1>1 DEF EnsureObject, RunInv
<1>3. next \notin Published
  BY DEF Published, Holding
<1>4. CASE UNCHANGED stored
  BY <1>2, <1>3, <1>4, MoveStep, FailStep DEF EnsureObject, LockMoves, Published
<1>5. CASE \E copy \in {"absent", "whole", "damaged"} :
              /\ ~ReadObject(r, part)
              /\ stored' = [stored EXCEPT ![r][part] = copy]
              /\ RunGoesTo(r, next) \/ RunFails(r)
  <2>1. PICK copy \in {"absent", "whole", "damaged"} :
              stored' = [stored EXCEPT ![r][part] = copy]
    BY <1>5
  <2>2. PICK step \in {next, "failed"} : RunGoesTo(r, step)
    BY <1>5
  <2>3. step \in Steps
    BY <2>2 DEF Steps
  <2>4. /\ run' \in [Runs -> RunStates]
        /\ run'[r].at = step
        /\ run'[r].prepared = run[r].prepared
        /\ \A s \in Runs \ {r} : run'[s] = run[s]
    <3>1. step # "smoke"
      BY <2>2
    <3>2. run \in [Runs -> RunStates] /\ run[r] \in RunStates
      BY <1>1 DEF ChannelTypeOK, RunStates
    <3>3. run[r].prepared \in BOOLEAN
      BY <3>2 DEF RunStates
    <3>4. run'[r].prepared = (run[r].prepared \/ step = "smoke")
      BY <1>1, <2>2, <2>3, MoveTyped
    <3>5. run'[r].prepared = run[r].prepared
      BY <3>1, <3>3, <3>4
    <3> QED
      BY <1>1, <2>2, <2>3, <3>5, MoveTyped
  <2>5. stored' \in [Runs -> [Parts -> {"absent", "whole", "damaged"}]]
    BY <1>1, <2>1 DEF ChannelTypeOK
  <2>6. /\ \A s \in Runs \ {r} : stored'[s] = stored[s]
        /\ part = "manifest" => stored'[r]["packages"] = stored[r]["packages"]
    <3>1. stored' = [stored EXCEPT ![r] = [stored[r] EXCEPT ![part] = copy]]
      BY <2>1
    <3>2. stored \in [Runs -> [Parts -> {"absent", "whole", "damaged"}]]
      BY <1>1 DEF ChannelTypeOK
    <3>3. /\ stored'[r] = [stored[r] EXCEPT ![part] = copy]
          /\ \A s \in Runs \ {r} : stored'[s] = stored[s]
      BY <3>1, <3>2
    <3>4. stored[r] \in [Parts -> {"absent", "whole", "damaged"}] /\ "packages" \in Parts
      BY <3>2 DEF Parts
    <3> QED
      BY <3>3, <3>4
  <2>7. ChannelTypeOK'
    BY <1>1, <2>4, <2>5 DEF ChannelTypeOK, RunStates, EnsureObject
  <2>8. OthersUntouched(r)
    BY <2>4, <2>6 DEF OthersUntouched, EnsureObject
  <2>9. ~run[r].prepared
    BY <1>1, <1>5 DEF RunInv, Whole, ReadObject
  <2>10. RunInv(r)'
    BY <1>2, <1>3, <2>2, <2>4, <2>6, <2>9 DEF RunInv, Published, Holding, EnsureObject
  <2> QED
    BY <2>7, <2>8, <2>10, QuietStep DEF EnsureObject
<1> QED
  BY <1>4, <1>5 DEF EnsureObject

LEMMA PublishPreserves ==
  ASSUME IInv, NEW r \in Runs, PublishImmutableObjects(r)
  PROVE  IInv'
<1>1. RunInv(r) /\ ChannelTypeOK
  BY DEF IInv
<1>2. /\ {"recheck packages", "manifest", "recheck manifest", "smoke"} \subseteq Steps
      /\ {"packages", "manifest"} \subseteq Parts
  BY DEF Steps, Parts
<1>3. CASE EnsureObject(r, "packages", "packages", "recheck packages")
  BY <1>2, <1>3, EnsurePreserves
<1>4. CASE EnsureObject(r, "manifest", "manifest", "recheck manifest")
  BY <1>2, <1>4, EnsurePreserves
<1>5. CASE RecheckObjects(r, "packages", "recheck packages", "manifest")
  <2>1. CASE RunFails(r)
    BY <1>5, <2>1, FailStep DEF RecheckObjects, LockMoves
  <2>2. CASE ReadObject(r, "packages") /\ RunGoesTo(r, "manifest")
    BY <1>2, <1>5, <2>2, MoveStep DEF RecheckObjects, LockMoves, Published, Holding
  <2> QED
    BY <1>5, <2>1, <2>2 DEF RecheckObjects
<1>6. CASE RecheckObjects(r, "manifest", "recheck manifest", "smoke")
  <2>1. CASE RunFails(r)
    BY <1>6, <2>1, FailStep DEF RecheckObjects, LockMoves
  <2>2. CASE ReadObject(r, "manifest") /\ RunGoesTo(r, "smoke")
    <3>1. Whole(r)
      BY <1>1, <1>6, <2>2 DEF RunInv, Whole, Parts, RecheckObjects
    <3> QED
      BY <1>2, <1>6, <2>2, <3>1, MoveStep DEF RecheckObjects, LockMoves, Holding
  <2> QED
    BY <1>6, <2>1, <2>2 DEF RecheckObjects
<1> QED
  BY <1>3, <1>4, <1>5, <1>6 DEF PublishImmutableObjects

-----------------------------------------------------------------------------
(* Job native-update-smoke. *)

\* A step of the smoke that touches what r's runner and documents are.
LEMMA SmokeStepKeeps ==
  ASSUME IInv, NEW r \in Runs, RunAt(r, "smoke"),
         run' = run \/ RunFails(r) \/ RunGoesTo(r, "aggregate"),
         runner' \in [Runs -> [RequiredTargets -> Manifests \cup {Idle}]],
         evidence' \in [Runs -> SUBSET Documents],
         \A s \in Runs \ {r} : evidence'[s] = evidence[s],
         UNCHANGED <<stable, stored, lock, promotions>>
  PROVE  IInv'
<1>1. ChannelTypeOK /\ RunInv(r)
  BY DEF IInv
<1>2. /\ run' \in [Runs -> RunStates]
      /\ run'[r].at \in {"smoke", "failed", "aggregate"}
      /\ \A s \in Runs \ {r} : run'[s] = run[s]
  <2>1. {"failed", "aggregate"} \subseteq Steps
    BY DEF Steps
  <2> QED
    BY <1>1, <2>1, MoveTyped DEF ChannelTypeOK, RunStates
<1>3. ChannelTypeOK'
  BY <1>1, <1>2 DEF ChannelTypeOK, RunStates
<1>4. OthersUntouched(r)
  BY <1>2 DEF OthersUntouched
<1>5. Whole(r) /\ Whole(r)'
  BY <1>1 DEF RunInv, Published, Whole
<1>6. RunInv(r)'
  BY <1>2, <1>5 DEF RunInv, Holding
<1> QED
  BY <1>3, <1>4, <1>6, QuietStep

LEMMA AssetPreserves ==
  ASSUME IInv, NEW r \in Runs, NEW t \in RequiredTargets, PrepareUpdateSmokeAsset(r, t)
  PROVE  IInv'
<1>1. ChannelTypeOK
  BY DEF IInv
<1>2. runner' \in [Runs -> [RequiredTargets -> Manifests \cup {Idle}]]
  <2>1. runner \in [Runs -> [RequiredTargets -> Manifests \cup {Idle}]]
    BY <1>1 DEF ChannelTypeOK
  <2>2. [runner[r] EXCEPT ![t] = stable] \in [RequiredTargets -> Manifests \cup {Idle}]
    BY <1>1, <2>1 DEF ChannelTypeOK
  <2>3. \/ runner' = runner
        \/ runner' = [runner EXCEPT ![r] = [runner[r] EXCEPT ![t] = stable]]
    BY DEF PrepareUpdateSmokeAsset
  <2> QED
    BY <2>1, <2>2, <2>3
<1>3. evidence' \in [Runs -> SUBSET Documents]
  BY <1>1 DEF ChannelTypeOK, PrepareUpdateSmokeAsset
<1> QED
  BY <1>2, <1>3, SmokeStepKeeps DEF PrepareUpdateSmokeAsset

LEMMA SmokePreserves ==
  ASSUME IInv, NEW r \in Runs, NEW t \in RequiredTargets, RunNativeUpdateSmoke(r, t)
  PROVE  IInv'
<1>1. ChannelTypeOK
  BY DEF IInv
<1>2. runner' \in [Runs -> [RequiredTargets -> Manifests \cup {Idle}]]
  BY <1>1 DEF ChannelTypeOK, RunNativeUpdateSmoke
<1>3. ASSUME NEW intact \in BOOLEAN PROVE Document(r, t, intact) \in Documents
  <2>1. runner[r][t] \in Manifests
    BY <1>1 DEF ChannelTypeOK, RunNativeUpdateSmoke
  <2> QED
    BY <2>1 DEF Document, Documents
<1>4. /\ evidence' \in [Runs -> SUBSET Documents]
      /\ \A s \in Runs \ {r} : evidence'[s] = evidence[s]
  <2>1. evidence \in [Runs -> SUBSET Documents]
    BY <1>1 DEF ChannelTypeOK
  <2>2. PICK more \in SUBSET Documents :
            evidence' = evidence \/ evidence' = [evidence EXCEPT ![r] = evidence[r] \cup more]
    <3>1. PICK intact \in BOOLEAN :
            \/ evidence' = evidence
            \/ evidence' = [evidence EXCEPT ![r] = evidence[r] \cup {Document(r, t, intact)}]
      BY DEF RunNativeUpdateSmoke
    <3>2. {Document(r, t, intact)} \in SUBSET Documents
      BY <1>3
    <3> QED
      BY <3>1, <3>2
  <2>3. evidence[r] \cup more \in SUBSET Documents
    BY <2>1
  <2> QED
    BY <2>1, <2>2, <2>3
<1> QED
  BY <1>2, <1>4, SmokeStepKeeps DEF RunNativeUpdateSmoke

LEMMA AgesPreserves ==
  ASSUME IInv, NEW r \in Runs, EvidenceAges(r)
  PROVE  IInv'
<1>1. ChannelTypeOK /\ RunInv(r)
  BY DEF IInv
<1>2. {[document EXCEPT !.stale = TRUE] : document \in evidence[r]} \in SUBSET Documents
  <2>1. ASSUME NEW document \in Documents
        PROVE  [document EXCEPT !.stale = TRUE] \in Documents
    BY DEF Documents
  <2>2. evidence[r] \in SUBSET Documents
    BY <1>1 DEF ChannelTypeOK
  <2> QED
    BY <2>1, <2>2
<1>3. /\ evidence' \in [Runs -> SUBSET Documents]
      /\ \A s \in Runs \ {r} : evidence'[s] = evidence[s]
  BY <1>1, <1>2 DEF ChannelTypeOK, EvidenceAges
<1>4. ChannelTypeOK'
  BY <1>1, <1>3 DEF ChannelTypeOK, EvidenceAges
<1>5. OthersUntouched(r)
  BY <1>3 DEF OthersUntouched, EvidenceAges
<1>6. Whole(r)'
  BY <1>1 DEF RunInv, Published, Whole, EvidenceAges
<1>7. RunInv(r)'
  BY <1>1, <1>6 DEF RunInv, Holding, EvidenceAges
<1> QED
  BY <1>4, <1>5, <1>7, QuietStep DEF EvidenceAges

-----------------------------------------------------------------------------
(* Jobs aggregate-evidence and promote-stable. *)

LEMMA AdmitPreserves ==
  ASSUME IInv, NEW r \in Runs,
         \/ AdmitEvidence(r, "aggregate", "readmit")
         \/ AdmitEvidence(r, "readmit", "acquire")
  PROVE  IInv'
<1>1. ChannelTypeOK /\ RunInv(r)
  BY DEF IInv
<1>2. CASE RunFails(r)
  BY <1>2, FailStep DEF AdmitEvidence, LockMoves
<1>3. Whole(r)
  BY <1>1 DEF RunInv, Published, AdmitEvidence
<1>4. CASE RunGoesTo(r, "readmit")
  <2>1. "readmit" \in Steps
    BY DEF Steps
  <2> QED
    BY <1>3, <1>4, <2>1, MoveStep DEF AdmitEvidence, LockMoves, Holding
<1>5. CASE VerifyEvidenceDirectory(evidence[r], r, run[r].seen) /\ RunGoesTo(r, "acquire")
  <2>1. /\ {document.target : document \in evidence[r]} = RequiredTargets
        /\ \A document \in evidence[r] :
              document.baseline = run[r].seen /\ document.candidate = r
        /\ \A document \in evidence[r] : Newer(r, run[r].seen)
    BY <1>5 DEF VerifyEvidenceDirectory, VerifyEvidenceSet, VerifyDocument
  <2>2. PICK document \in evidence[r] : TRUE
    BY <2>1
  <2>3. Verified(r)
    BY <2>1, <2>2 DEF Verified
  <2>4. "acquire" \in Steps
    BY DEF Steps
  <2> QED
    BY <1>3, <1>5, <2>3, <2>4, MoveStep DEF AdmitEvidence, LockMoves, Holding
<1> QED
  BY <1>2, <1>4, <1>5 DEF AdmitEvidence

LEMMA AcquirePreserves ==
  ASSUME IInv, NEW r \in Runs, AcquirePromotionLock(r)
  PROVE  IInv'
<1>1. RunInv(r)
  BY DEF IInv
<1>2. CASE RunFails(r)
  BY <1>2, FailStep DEF AcquirePromotionLock, StorageAcquires, LockMoves
<1>3. CASE StorageAcquires(Owner(r)) /\ RunGoesTo(r, "compare")
  <2>1. Whole(r) /\ Verified(r)
    BY <1>1 DEF RunInv, Published, AcquirePromotionLock
  <2>2. "compare" \in Steps
    BY DEF Steps
  <2> QED
    BY <1>3, <2>1, <2>2, MoveStep DEF AcquirePromotionLock, StorageAcquires, LockMoves
<1> QED
  BY <1>2, <1>3 DEF AcquirePromotionLock

\* What a run that holds the lock may rely on.
LEMMA HolderRelies ==
  ASSUME IInv, NEW r \in Runs, run[r].at \in Holding
  PROVE  /\ lock = Owner(r) /\ Verified(r) /\ Whole(r)
         /\ {"reread", "replace", "readback", "release", "promoted"} \subseteq Steps
  BY DEF IInv, RunInv, Published, Steps

LEMMA LockedStepsPreserve ==
  ASSUME IInv, NEW r \in Runs,
         CompareStable(r) \/ RereadCandidate(r) \/ ReadBackStable(r) \/ ReleasePromotionLock(r)
  PROVE  IInv'
<1>1. run[r].at \in Holding /\ RunInv(r)
  BY DEF IInv, CompareStable, RereadCandidate, ReadBackStable, ReleasePromotionLock, Holding
<1>2. /\ lock = Owner(r) /\ Verified(r) /\ Whole(r)
      /\ {"reread", "replace", "readback", "release", "promoted"} \subseteq Steps
  BY <1>1, HolderRelies
<1>3. CASE RunFails(r)
  BY <1>3, FailStep
  DEF CompareStable, RereadCandidate, ReadBackStable, ReleasePromotionLock, StorageReleases, LockMoves
<1>4. CASE CompareStable(r) /\ stable = run[r].seen /\ RunGoesTo(r, "reread")
  BY <1>2, <1>4, MoveStep DEF CompareStable, LockMoves
<1>5. CASE RereadCandidate(r) /\ RunGoesTo(r, "replace")
  BY <1>1, <1>2, <1>5, MoveStep DEF RereadCandidate, LockMoves, RunInv
<1>6. CASE ReadBackStable(r) /\ RunGoesTo(r, "release")
  BY <1>2, <1>6, MoveStep DEF ReadBackStable, LockMoves
<1>7. CASE /\ ReleasePromotionLock(r) /\ StorageReleases(Owner(r))
           /\ RunGoesTo(r, "promoted")
  BY <1>2, <1>7, MoveStep DEF ReleasePromotionLock, StorageReleases, LockMoves, Published, Holding
<1> QED
  BY <1>3, <1>4, <1>5, <1>6, <1>7
  DEF CompareStable, RereadCandidate, ReadBackStable, ReleasePromotionLock

LEMMA ReplacePreserves ==
  ASSUME IInv, NEW r \in Runs, ReplaceStable(r)
  PROVE  IInv'
<1>1. ChannelTypeOK /\ RunInv(r) /\ StableFollowsSmoke
  BY DEF IInv
<1>2. run[r].at \in Holding /\ stable = run[r].seen
  BY <1>1 DEF ReplaceStable, Holding, RunInv
<1>3. lock = Owner(r) /\ Verified(r) /\ Whole(r)
  BY <1>2, HolderRelies
<1>4. CASE UNCHANGED <<stable, promotions>> /\ RunFails(r)
  BY <1>4, FailStep DEF ReplaceStable, LockMoves
<1>5. CASE /\ stable' = r
           /\ promotions' = promotions \cup
                {[by |-> r, over |-> stable, documents |-> evidence[r],
                  whole |-> \A part \in Parts : stored[r][part] = "whole"]}
           /\ RunGoesTo(r, "readback") \/ RunFails(r)
  <2> DEFINE new == [by |-> r, over |-> stable, documents |-> evidence[r],
                     whole |-> \A part \in Parts : stored[r][part] = "whole"]
  <2>1. new \in Promotions
    BY <1>1 DEF Promotions, ChannelTypeOK
  <2>2. /\ new.whole
        /\ {document.target : document \in new.documents} = RequiredTargets
        /\ \A document \in new.documents :
              document.baseline = new.over /\ document.candidate = new.by
        /\ Newer(new.by, new.over)
    BY <1>2, <1>3 DEF Verified, Whole
  <2>3. StableFollowsSmoke'
    <3>1. promotions' = promotions \cup {new}
      BY <1>5
    <3>2. ASSUME NEW p \in promotions'
          PROVE  /\ p.whole
                 /\ {document.target : document \in p.documents} = RequiredTargets
                 /\ \A document \in p.documents :
                       document.baseline = p.over /\ document.candidate = p.by
                 /\ Newer(p.by, p.over)
      <4>1. CASE p \in promotions
        BY <1>1, <4>1 DEF StableFollowsSmoke
      <4>2. CASE p = new
        BY <2>2, <4>2
      <4> HIDE DEF new
      <4> QED
        BY <3>1, <3>2, <4>1, <4>2
    <3> QED
      BY <3>2 DEF StableFollowsSmoke, Newer
  <2>4. PICK step \in {"readback", "failed"} : RunGoesTo(r, step)
    BY <1>5
  <2>5. step \in Steps
    BY <2>4 DEF Steps
  <2>6. /\ run' \in [Runs -> RunStates]
        /\ run'[r].at = step /\ run'[r].seen = run[r].seen
        /\ run'[r].attempt = run[r].attempt
        /\ \A s \in Runs \ {r} : run'[s] = run[s]
    BY <1>1, <2>4, <2>5, MoveTyped
  <2>7. ChannelTypeOK'
    <3>1. promotions' \subseteq Promotions
      BY <1>1, <1>5, <2>1 DEF ChannelTypeOK
    <3>2. stable' \in Manifests
      BY <1>5 DEF Manifests
    <3> QED
      BY <1>1, <2>6, <3>1, <3>2 DEF ChannelTypeOK, RunStates, ReplaceStable
  <2>8. OthersUntouched(r)
    BY <1>2, <2>6 DEF OthersUntouched, ReplaceStable
  <2>9. Owner(r)' = Owner(r) /\ Verified(r)' /\ Whole(r)'
    BY <1>3, <2>6 DEF Owner, Verified, Whole, ReplaceStable
  <2>10. RunInv(r)'
    BY <1>3, <2>4, <2>6, <2>9 DEF RunInv, ReplaceStable
  <2>11. ASSUME NEW s \in Runs PROVE RunInv(s)'
    BY <2>8, <2>10, <2>11, OthersKeep
  <2> QED
    BY <2>3, <2>7, <2>11 DEF IInv
<1> QED
  BY <1>4, <1>5 DEF ReplaceStable

LEMMA StopPreserves ==
  ASSUME IInv, NEW r \in Runs, RunStops(r)
  PROVE  IInv'
  BY FailStep DEF RunStops, LockMoves

LEMMA AgainPreserves ==
  ASSUME IInv, NEW r \in Runs, RunAgain(r)
  PROVE  IInv'
<1>1. ChannelTypeOK /\ RunInv(r)
  BY DEF IInv
<1>2. run \in [Runs -> RunStates] /\ run[r] \in RunStates
  BY <1>1 DEF ChannelTypeOK, RunStates
<1>3. run[r].attempt + 1 \in 1..MaxAttempts
  BY <1>2 DEF RunAgain, RunStates
<1>4. PICK next \in {"idle", "readmit", "smoke"} :
          /\ run' = [run EXCEPT ![r] = [run[r] EXCEPT
                        !.at = next, !.attempt = run[r].attempt + 1,
                        !.prepared = run[r].prepared /\ next # "idle"]]
          /\ \/ next = "idle" /\ evidence' = [evidence EXCEPT ![r] = {}]
             \/ next # "idle" /\ run[r].prepared /\ UNCHANGED evidence
  <2>1. CASE /\ run' = [run EXCEPT ![r].at = "idle", ![r].attempt = @ + 1, ![r].prepared = FALSE]
             /\ evidence' = [evidence EXCEPT ![r] = {}]
    BY <2>1
  <2>2. CASE /\ run[r].prepared /\ UNCHANGED evidence
             /\ \E next \in {"readmit", "smoke"} :
                  run' = [run EXCEPT ![r].at = next, ![r].attempt = @ + 1]
    <3>1. PICK next \in {"readmit", "smoke"} :
              run' = [run EXCEPT ![r] = [run[r] EXCEPT !.at = next, !.attempt = run[r].attempt + 1]]
      BY <2>2
    <3>2. [run[r] EXCEPT !.at = next, !.attempt = run[r].attempt + 1]
            = [run[r] EXCEPT !.at = next, !.attempt = run[r].attempt + 1,
                             !.prepared = run[r].prepared /\ next # "idle"]
      BY <1>2, <2>2 DEF RunStates
    <3> QED
      BY <2>2, <3>1, <3>2
  <2> QED
    BY <2>1, <2>2 DEF RunAgain
<1> DEFINE again == [run[r] EXCEPT !.at = next, !.attempt = run[r].attempt + 1,
                                   !.prepared = run[r].prepared /\ next # "idle"]
<1>5. run' = [run EXCEPT ![r] = again]
  BY <1>4
<1>6. again \in RunStates
  <2>1. next \in Steps
    BY DEF Steps
  <2> QED
    BY <1>2, <1>3, <2>1 DEF RunStates
<1>7. /\ run' \in [Runs -> RunStates]
      /\ run'[r].at = next /\ run'[r].prepared = (run[r].prepared /\ next # "idle")
      /\ \A s \in Runs \ {r} : run'[s] = run[s]
  BY <1>2, <1>5, <1>6 DEF RunStates
<1>8. /\ evidence' \in [Runs -> SUBSET Documents]
      /\ \A s \in Runs \ {r} : evidence'[s] = evidence[s]
      /\ next = "idle" => evidence'[r] = {}
  BY <1>1, <1>4 DEF ChannelTypeOK
<1>9. runner' \in [Runs -> [RequiredTargets -> Manifests \cup {Idle}]]
  <2>1. ASSUME NEW kept \in SUBSET RequiredTargets
        PROVE  [t \in RequiredTargets |-> IF t \in kept THEN runner[r][t] ELSE Idle]
                 \in [RequiredTargets -> Manifests \cup {Idle}]
    BY <1>1 DEF ChannelTypeOK
  <2>2. PICK mine \in [RequiredTargets -> Manifests \cup {Idle}] :
            runner' = [runner EXCEPT ![r] = mine]
    <3>1. CASE runner' = [runner EXCEPT ![r] = [t \in RequiredTargets |-> Idle]]
      BY <3>1
    <3>2. CASE runner' = [runner EXCEPT ![r] =
                 [t \in RequiredTargets |-> IF t \in Recorded(r) THEN @[t] ELSE Idle]]
      <4>1. runner' = [runner EXCEPT ![r] =
                 [t \in RequiredTargets |-> IF t \in Recorded(r) THEN runner[r][t] ELSE Idle]]
        BY <3>2
      <4>2. [t \in RequiredTargets |-> IF t \in Recorded(r) THEN runner[r][t] ELSE Idle]
              \in [RequiredTargets -> Manifests \cup {Idle}]
        BY <1>1 DEF ChannelTypeOK
      <4> QED
        BY <4>1, <4>2
    <3> QED
      BY <3>1, <3>2 DEF RunAgain
  <2> QED
    BY <1>1, <2>2 DEF ChannelTypeOK
<1>10. ChannelTypeOK'
  BY <1>1, <1>7, <1>8, <1>9 DEF ChannelTypeOK, RunStates, RunAgain
<1>11. OthersUntouched(r)
  BY <1>7, <1>8 DEF OthersUntouched, RunAgain
<1>12. run[r].prepared => Whole(r)'
  BY <1>1 DEF RunInv, Whole, RunAgain
<1>13. RunInv(r)'
  BY <1>4, <1>7, <1>8, <1>12 DEF RunInv, Published, Holding
<1> QED
  BY <1>10, <1>11, <1>13, QuietStep DEF RunAgain

-----------------------------------------------------------------------------
(* The administrator acts only while no run holds the lock. *)

LEMMA AdministratorPreserves ==
  ASSUME IInv, AdministratorUnlocks \/ AdministratorRestores
  PROVE  IInv'
<1>1. ChannelTypeOK
  BY DEF IInv
<1>2. UNCHANGED <<run, stored, runner, evidence, promotions>> /\ NoWriter
  BY DEF AdministratorUnlocks, AdministratorRestores
<1>3. stable' \in Manifests
  BY <1>1 DEF AdministratorUnlocks, AdministratorRestores, ChannelTypeOK, Promotions
<1>4. lock' \in {Nobody} \cup (Runs \X (1..MaxAttempts))
  BY <1>1 DEF AdministratorUnlocks, AdministratorRestores, ChannelTypeOK
<1>5. ChannelTypeOK'
  BY <1>1, <1>2, <1>3, <1>4 DEF ChannelTypeOK
<1>6. ASSUME NEW r \in Runs PROVE RunInv(r)'
  <2>1. RunInv(r) /\ run[r].at \notin Holding
    BY <1>2 DEF IInv, NoWriter
  <2>2. (Verified(r) => Verified(r)') /\ (Whole(r) => Whole(r)')
    BY <1>2 DEF Verified, Whole
  <2> QED
    BY <1>2, <2>1, <2>2 DEF RunInv, Holding
<1> QED
  BY <1>2, <1>5, <1>6 DEF IInv, StableFollowsSmoke

-----------------------------------------------------------------------------
(* The specification. *)

LEMMA InitImplies ==
  ASSUME ChannelInit
  PROVE  IInv
<1>1. ChannelTypeOK
  <2>1. "idle" \in Steps /\ 1 \in 1..MaxAttempts /\ Initial \in Manifests
    BY DEF Steps, Manifests
  <2> QED
    BY <2>1 DEF ChannelInit, ChannelTypeOK
<1>2. ASSUME NEW r \in Runs PROVE RunInv(r)
  BY DEF ChannelInit, RunInv, Published, Holding
<1> QED
  BY <1>1, <1>2 DEF IInv, ChannelInit, StableFollowsSmoke

LEMMA PromotionStepPreserves ==
  ASSUME IInv, PromotionStep
  PROVE  IInv'
<1>1. ASSUME NEW r \in Runs,
         \/ PrepareStableCandidate(r) \/ PublishImmutableObjects(r)
         \/ \E t \in RequiredTargets :
            PrepareUpdateSmokeAsset(r, t) \/ RunNativeUpdateSmoke(r, t)
         \/ AdmitEvidence(r, "aggregate", "readmit") \/ AdmitEvidence(r, "readmit", "acquire")
         \/ AcquirePromotionLock(r) \/ CompareStable(r) \/ RereadCandidate(r)
         \/ ReplaceStable(r) \/ ReadBackStable(r) \/ ReleasePromotionLock(r)
         \/ EvidenceAges(r) \/ RunStops(r) \/ RunAgain(r)
      PROVE IInv'
  BY <1>1, PreparePreserves, PublishPreserves, AssetPreserves, SmokePreserves,
     AdmitPreserves, AcquirePreserves, LockedStepsPreserve, ReplacePreserves,
     AgesPreserves, StopPreserves, AgainPreserves
<1> QED
  BY <1>1, AdministratorPreserves DEF PromotionStep

LEMMA NextPreserves ==
  ASSUME IInv, [Next]_vars
  PROVE  IInv'
<1>1. CASE PromotionsGoOn
  BY <1>1, PromotionStepPreserves DEF PromotionsGoOn
<1>2. CASE UNCHANGED channelVars
  <2>1. UNCHANGED <<stable, stored, lock, run, runner, evidence, promotions>>
    BY <1>2 DEF channelVars
  <2>2. ASSUME NEW r \in Runs PROVE RunInv(r)'
    <3>1. Owner(r)' = Owner(r) /\ (Verified(r) => Verified(r)') /\ (Whole(r) => Whole(r)')
      BY <2>1 DEF Owner, Verified, Whole
    <3> QED
      BY <2>1, <3>1 DEF IInv, RunInv
  <2> QED
    BY <2>1, <2>2 DEF IInv, ChannelTypeOK, StableFollowsSmoke
<1> QED
  BY <1>1, <1>2 DEF Next, SmokeGoesOn, vars

(***************************************************************************)
(* The channel's objects, lock, runs and evidence stay in their types, for *)
(* every number of runs, attempts and targets (promote-stable-release.mjs, *)
(* promote-stable.yml).                                                    *)
(***************************************************************************)
THEOREM ChannelTypeCorrect == Spec => []ChannelTypeOK
<1>1. Init => IInv
  BY InitImplies DEF Init
<1>2. IInv /\ [Next]_vars => IInv'
  BY NextPreserves
<1>3. IInv => ChannelTypeOK
  BY DEF IInv
<1> QED
  BY <1>1, <1>2, <1>3, PTL DEF Spec

(***************************************************************************)
(* Whatever the runs, their attempts, the lost answers, the removed locks  *)
(* and the restored manifests, a promotion replaces exactly the manifest   *)
(* that its candidate was smoke-tested over, on complete evidence, by a    *)
(* whole and newer release (finalizeStableCandidate under the lock).       *)
(***************************************************************************)
THEOREM PromotionIsTested == Spec => []StableFollowsSmoke
<1>1. Init => IInv
  BY InitImplies DEF Init
<1>2. IInv /\ [Next]_vars => IInv'
  BY NextPreserves
<1>3. IInv => StableFollowsSmoke
  BY DEF IInv
<1> QED
  BY <1>1, <1>2, <1>3, PTL DEF Spec

-----------------------------------------------------------------------------
(* The smoke.  The driver's step tells where the gate is, and with it what   *)
(* the runner still has to give back; once the driver has seen the Desktop   *)
(* closed, the Desktop that runs is the candidate and nothing installs.      *)

Before == {"idle", "runner", "install", "inspect"}
SettingUp == {"identity", "trust", "serve", "ready", "abort", "route"}
Leaving == {"restore", "close", "closing", "untrust", "remove", "ended"}
Routed == {"look", "spawn", "ready", "request", "restore"}
Closed == {"updated", "quiet", "look again", "spawn again", "ready again", "host again",
           "reconcile", "inspect again"}
\* The steps after the updated Desktop has been identified.
Identified == {"host again", "reconcile", "inspect again"}

GateFollowsDriver ==
    /\ driver.at \in Before => gate.at = "idle" /\ ~gate.failed
    /\ driver.at = "gate" => gate.at \in SettingUp /\ ~gate.failed
    /\ driver.at \in InsideGate => gate.at = "open" /\ ~gate.failed
    /\ driver.at = "leave" => gate.at \in Leaving
    /\ driver.at \in {"cleanup", "report"} =>
           /\ gate.at \in {"idle", "ended"}
           /\ ~driver.failed => gate.at = "ended" /\ ~gate.failed /\ ~gate.unclean

\* What the gate has put in place, and what the finally block has taken back.
GateHolds ==
    /\ gate.at \in {"serve", "ready", "route", "open"} => gate.trusted
    /\ gate.at \in {"route", "open"} => gate.serving
    /\ driver.at \in Routed => gate.routing
    /\ driver.at \in InsideGate \ Routed => ~gate.routing /\ hosts = "original" /\ ~saved

GateGivesBack ==
    gate.at \in Leaving /\ ~gate.failed =>
        /\ ~gate.routing /\ hosts = "original" /\ ~saved /\ gate.serving /\ gate.trusted
        /\ gate.at \in {"untrust", "remove", "ended"} /\ ~gate.unclean => helper.life = "dead"
        /\ gate.at \in {"remove", "ended"} /\ ~gate.unclean => trust = "absent"

\* A release is sent when the hosts file is restored, which is not routed again.
ReleaseSent == \E i \in 1..Len(commands) : commands[i] = "release"

ReleaseIsLate ==
    helper.answered \/ ReleaseSent =>
        hosts = "original" /\ gate.at \notin SettingUp \cup {"idle"}

DesktopInv ==
    /\ driver.at \in InsideGate \cup {"gate"} => installed.version # Nothing
    /\ driver.at \in Closed =>
        /\ desktop.life \notin {"closing", "installing"}
        /\ desktop.life # "off" => desktop.version = "candidate"
        /\ target # "windows" => host # "baseline"
    /\ driver.at \in Closed \ {"updated"} => installed.version = "candidate" /\ installed.inPlace
    /\ driver.at = "spawn again" /\ DesktopRuns => driver.overtaken
    /\ driver.at = "ready again" /\ DesktopRuns => desktop.own \/ driver.overtaken

WitnessedHost ==
    /\ witness.own \/ driver.overtaken
    /\ RequiresHostReadiness => witness.host = "candidate"

Witnesses == [installed : {installed}, own : BOOLEAN, host : Versions \cup {Nothing, "silent"}]

WitnessInv ==
    /\ driver.at \in Identified =>
        /\ witness \in Witnesses
        /\ witness.own \/ driver.overtaken
    /\ driver.at \in Identified \ {"host again"} => WitnessedHost
    /\ driver.at \in {"leave", "cleanup", "report"} /\ ~driver.failed
         /\ (driver.at = "leave" => ~gate.failed) =>
        /\ witness.installed = [version |-> "candidate", inPlace |-> TRUE, sound |-> TRUE]
        /\ WitnessedHost

SmokeInv ==
    /\ NativeSmokeTypeOK
    /\ GateFollowsDriver
    /\ GateHolds
    /\ GateGivesBack
    /\ ReleaseIsLate
    /\ DesktopInv
    /\ WitnessInv

HIDE ChannelAssumption DEF RunAt, RunGoesTo, RunFails, ReadObject

USE DEF At, DriverAt, gateVars, systemVars, helperVars, driverVars, productVars, smokeVars

\* What the Desktop and the helper do leaves the driver's place and the gate alone,
\* and a helper that is gone stays gone.
Background ==
    /\ driver'.at = driver.at /\ driver'.failed = driver.failed
    /\ driver.overtaken => driver'.overtaken
    /\ UNCHANGED <<gate, systemVars, target, witness>>
    /\ helper.life = "dead" => helper'.life = "dead"

LEMMA DesktopIsBackground ==
  ASSUME NativeSmokeTypeOK, DesktopStep
  PROVE  Background
<1>1. CASE DesktopRelaunches
  BY <1>1 DEF DesktopRelaunches, Background, NativeSmokeTypeOK
<1>2. CASE DesktopStarts \/ HostStarts \/ CheckFails \/ DesktopDownloads
             \/ DesktopCloses \/ DesktopCrashes \/ InstallEnds \/ HostStopsServing
  BY <1>2 DEF DesktopStarts, HostStarts, CheckFails, DesktopDownloads, DesktopCloses,
     DesktopCrashes, InstallEnds, HostStopsServing, Background
<1>3. CASE DesktopChecks
  BY <1>3 DEF DesktopChecks, HoldRequest, Background, NativeSmokeTypeOK, GateTypeOK
<1>4. CASE ManifestServed
  BY <1>4 DEF ManifestServed, HelperReleases, Background, NativeSmokeTypeOK, GateTypeOK
<1> QED
  BY <1>1, <1>2, <1>3, <1>4 DEF DesktopStep

LEMMA HelperIsBackground ==
  ASSUME NativeSmokeTypeOK, HelperStep, UNCHANGED <<target, driverVars, productVars>>
  PROVE  Background
BY DEF HelperStep, HelperListens, HelperCloses, HelperCrashes, ObserveEvent, Background,
   NativeSmokeTypeOK, GateTypeOK

-----------------------------------------------------------------------------
(* Types. *)

PipesTyped ==
    /\ helper \in [life : {"none", "booting", "listening", "dead"}, holds : BOOLEAN,
                   answered : BOOLEAN, code : {0, 1}]
    /\ commands \in Seq({"release", "close"})
    /\ events \in Seq(Events)
    /\ observed \subseteq Events

GateTyped ==
    /\ gate \in [at : GateSteps, routing : BOOLEAN, trusted : BOOLEAN, serving : BOOLEAN,
                 released : BOOLEAN, failed : BOOLEAN, unclean : BOOLEAN]
    /\ hosts \in {"original", "mapped", "routed"}
    /\ trust \in {"absent", "installed"}
    /\ saved \in BOOLEAN

DriverTyped ==
    driver \in [at : DriverSteps, inputs : BOOLEAN, known : BOOLEAN,
                overtaken : BOOLEAN, failed : BOOLEAN]

ProductTyped ==
    /\ desktop \in [life : {"off", "starting", "running", "closing", "installing"},
                    version : Versions, own : BOOLEAN]
    /\ host \in Versions \cup {Nothing, "silent"}
    /\ installed \in [version : Versions \cup {Nothing}, inPlace : BOOLEAN, sound : BOOLEAN]
    /\ staged \in {Nothing, "candidate", "other"}
    /\ check \in {Nothing, "asking", "told", "done", "failed"}

LEMMA TypesAre ==
  NativeSmokeTypeOK <=> PipesTyped /\ GateTyped /\ target \in Targets /\ DriverTyped /\ ProductTyped
BY DEF NativeSmokeTypeOK, GateTypeOK, PipesTyped, GateTyped, DriverTyped, ProductTyped

\* The records of the gate and of the driver after a step.
LEMMA GateRecord ==
  ASSUME GateTyped, NEW step \in GateSteps
  PROVE  LET Gates == [at : GateSteps, routing : BOOLEAN, trusted : BOOLEAN, serving : BOOLEAN,
                       released : BOOLEAN, failed : BOOLEAN, unclean : BOOLEAN]
         IN  /\ [gate EXCEPT !.at = step] \in Gates
             /\ [gate EXCEPT !.at = step, !.failed = TRUE] \in Gates
             /\ [gate EXCEPT !.at = step, !.trusted = TRUE] \in Gates
             /\ [gate EXCEPT !.at = step, !.serving = TRUE] \in Gates
             /\ [gate EXCEPT !.at = step, !.routing = TRUE] \in Gates
             /\ \A b \in BOOLEAN : [gate EXCEPT !.at = step, !.unclean = b] \in Gates
             /\ [gate EXCEPT !.routing = FALSE] \in Gates
             /\ [gate EXCEPT !.released = TRUE] \in Gates
BY DEF GateTyped

LEMMA DriverRecord ==
  ASSUME DriverTyped, NEW step \in DriverSteps
  PROVE  LET Drivers == [at : DriverSteps, inputs : BOOLEAN, known : BOOLEAN,
                         overtaken : BOOLEAN, failed : BOOLEAN]
         IN  /\ [driver EXCEPT !.at = step] \in Drivers
             /\ \A b \in BOOLEAN : [driver EXCEPT !.at = step, !.failed = b] \in Drivers
             /\ \A b \in BOOLEAN : [driver EXCEPT !.at = step, !.inputs = b] \in Drivers
             /\ [driver EXCEPT !.at = step, !.known = TRUE] \in Drivers
             /\ \A b \in BOOLEAN : [driver EXCEPT !.overtaken = b] \in Drivers
BY DEF DriverTyped

LEMMA Moves ==
  ASSUME DriverTyped
  PROVE  /\ \A step \in DriverSteps : Proceed(step) => DriverTyped'
         /\ Fail => DriverTyped'
<1>1. "cleanup" \in DriverSteps
  BY DEF DriverSteps
<1> HIDE DEF DriverTyped
<1>2. ASSUME NEW step \in DriverSteps, Proceed(step) PROVE DriverTyped'
  <2>1. driver' = [driver EXCEPT !.at = step]
    BY <1>2 DEF Proceed
  <2> QED
    BY <2>1, DriverRecord DEF DriverTyped
<1>3. ASSUME Fail PROVE DriverTyped'
  <2>1. driver' = [driver EXCEPT !.at = "cleanup", !.failed = TRUE]
    BY <1>3 DEF Fail
  <2> QED
    BY <1>1, <2>1, DriverRecord DEF DriverTyped
<1> QED
  BY <1>2, <1>3

LEMMA GateMoves ==
  ASSUME GateTyped, UNCHANGED systemVars
  PROVE  /\ \A step \in GateSteps : GoTo(step) => GateTyped'
         /\ Throw => GateTyped'
         /\ UNCHANGED gate => GateTyped'
<1>1. "restore" \in GateSteps
  BY DEF GateSteps
<1>2. ASSUME NEW step \in GateSteps, GoTo(step) PROVE GateTyped'
  <2>1. gate' = [gate EXCEPT !.at = step]
    BY <1>2 DEF GoTo
  <2> QED
    BY <2>1, GateRecord DEF GateTyped
<1>3. ASSUME Throw PROVE GateTyped'
  <2>1. gate' = [gate EXCEPT !.at = "restore", !.failed = TRUE]
    BY <1>3 DEF Throw
  <2> QED
    BY <1>1, <2>1, GateRecord DEF GateTyped
<1> QED
  BY <1>2, <1>3 DEF GateTyped

LEMMA AppendTyped ==
  ASSUME NEW S, NEW s \in Seq(S), NEW x \in S
  PROVE  Append(s, x) \in Seq(S)
BY AppendProperties

LEMMA TailTyped ==
  ASSUME NEW S, NEW s \in Seq(S), s # << >>
  PROVE  Tail(s) \in Seq(S) /\ Head(s) \in S
BY HeadTailProperties

LEMMA HelperTyped ==
  ASSUME PipesTyped,
         \/ HelperStep
         \/ HelperReleases /\ UNCHANGED observed
         \/ HoldRequest /\ UNCHANGED <<commands, observed>>
  PROVE  PipesTyped'
<1> USE DEF PipesTyped
<1>1. Append(events, "ready") \in Seq(Events) /\ Append(events, "request") \in Seq(Events)
        /\ Append(events, "released") \in Seq(Events)
  BY AppendTyped DEF Events
<1>2. events # << >> => Tail(events) \in Seq(Events) /\ Head(events) \in Events
  BY TailTyped
<1>3. commands # << >> => Tail(commands) \in Seq({"release", "close"})
  BY TailTyped
<1>4. CASE HelperListens
  BY <1>1, <1>4 DEF HelperListens
<1>5. CASE HelperCloses
  BY <1>3, <1>5 DEF HelperCloses
<1>6. CASE HelperCrashes
  BY <1>6 DEF HelperCrashes
<1>7. CASE ObserveEvent
  BY <1>2, <1>7 DEF ObserveEvent
<1>8. CASE HelperReleases /\ UNCHANGED observed
  BY <1>1, <1>3, <1>8 DEF HelperReleases
<1>9. CASE HoldRequest /\ UNCHANGED <<commands, observed>>
  BY <1>1, <1>9 DEF HoldRequest
<1> QED
  BY <1>4, <1>5, <1>6, <1>7, <1>8, <1>9 DEF HelperStep

\* What writing the original bytes back leaves.
LEMMA Restores ==
  ASSUME NEW write \in CommandOutcomes, RestoreHostname(write)
  PROVE  /\ hosts' \in {hosts, "original"} /\ saved' \in BOOLEAN
         /\ write.ok => hosts' = "original" /\ ~saved'
<1>1. \/ write.done = TRUE /\ write.ok = TRUE
      \/ write.done = FALSE /\ write.ok = FALSE
      \/ write.done = TRUE /\ write.ok = FALSE
  BY DEF CommandOutcomes
<1>2. saved' = ~(write.ok /\ write.done) /\ hosts' = IF write.done THEN "original" ELSE hosts
  BY DEF RestoreHostname
<1>3. (~(write.ok /\ write.done)) \in BOOLEAN
  OBVIOUS
<1> QED
  BY <1>1, <1>2, <1>3

LEMMA GateStepTyped ==
  ASSUME PipesTyped, GateTyped, GateStep
  PROVE  PipesTyped' /\ GateTyped'
<1> DEFINE Gates == [at : GateSteps, routing : BOOLEAN, trusted : BOOLEAN, serving : BOOLEAN,
                     released : BOOLEAN, failed : BOOLEAN, unclean : BOOLEAN]
<1>s. /\ "trust" \in GateSteps /\ "serve" \in GateSteps /\ "ready" \in GateSteps
      /\ "abort" \in GateSteps /\ "route" \in GateSteps /\ "open" \in GateSteps
      /\ "restore" \in GateSteps /\ "close" \in GateSteps /\ "closing" \in GateSteps
      /\ "untrust" \in GateSteps /\ "remove" \in GateSteps /\ "ended" \in GateSteps
  BY DEF GateSteps
<1>t. Throw => gate' \in Gates
  <2>1. "restore" \in GateSteps
    BY <1>s
  <2> QED
    BY <2>1 DEF Throw, GateTyped
<1>g. \A step \in GateSteps : GoTo(step) => gate' \in Gates
  BY GateRecord DEF GoTo
<1>u. ASSUME NEW step \in GateSteps, NEW u, gate' = [gate EXCEPT !.at = step, !.unclean = gate.unclean \/ u]
      PROVE  gate' \in Gates
  <2>1. (gate.unclean \/ u) \in BOOLEAN
    OBVIOUS
  <2> QED
    BY <1>u, <2>1, GateRecord
<1>v. gate' = [gate EXCEPT !.at = "serve", !.trusted = TRUE] => gate' \in Gates
  <2>1. "serve" \in GateSteps
    BY <1>s
  <2> QED
    BY <2>1 DEF GateTyped
<1>w. gate' = [gate EXCEPT !.at = "open", !.routing = TRUE] => gate' \in Gates
  <2>1. "open" \in GateSteps
    BY <1>s
  <2> QED
    BY <2>1 DEF GateTyped
<1>x. gate' = [gate EXCEPT !.at = "untrust", !.unclean = TRUE] => gate' \in Gates
  <2>1. "untrust" \in GateSteps
    BY <1>s
  <2> QED
    BY <2>1 DEF GateTyped
<1> HIDE DEF Gates
<1>p. UNCHANGED helperVars => PipesTyped'
  BY DEF PipesTyped
<1>y. ASSUME gate' \in Gates, UNCHANGED systemVars PROVE GateTyped'
  BY <1>y DEF GateTyped, Gates
<1>2. CASE CreateTlsIdentity \/ HelperIsNotReady
  BY <1>2, <1>s, <1>t, <1>g, <1>p, <1>y DEF CreateTlsIdentity, HelperIsNotReady
<1>3. CASE InstallCertificateAuthority
  <2>1. gate' \in Gates
    BY <1>3, <1>t, <1>v DEF InstallCertificateAuthority
  <2>2. trust' \in {"absent", "installed"}
    BY <1>3 DEF InstallCertificateAuthority, GateTyped
  <2> QED
    BY <1>3, <1>p, <2>1, <2>2 DEF InstallCertificateAuthority, GateTyped, Gates
<1>4. CASE StartHttpsGate
  <2>1. PipesTyped'
    BY <1>4 DEF StartHttpsGate, StartGateChild, PipesTyped
  <2> QED
    BY <1>4, <1>s, <1>g, <1>y, <2>1 DEF StartHttpsGate
<1>5. CASE HelperIsReady
  <2>1. PipesTyped'
    BY <1>5 DEF HelperIsReady, Await, PipesTyped
  <2>2. gate' \in Gates
    BY <1>5, <1>s, GateRecord DEF HelperIsReady, Gates
  <2> QED
    BY <1>5, <1>y, <2>1, <2>2 DEF HelperIsReady
<1>7. CASE AbortHelper
  <2>1. PipesTyped'
    BY <1>7 DEF AbortHelper, KillHelper, PipesTyped
  <2> QED
    BY <1>7, <1>t, <1>y, <2>1 DEF AbortHelper
<1>8. CASE RouteHostname
  <2>1. gate' \in Gates
    BY <1>8, <1>t, <1>w DEF RouteHostname
  <2>2. hosts' \in {"original", "mapped", "routed"} /\ saved' \in BOOLEAN /\ trust' = trust
    BY <1>8 DEF RouteHostname, GateTyped
  <2> QED
    BY <1>8, <1>p, <2>1, <2>2 DEF RouteHostname, GateTyped, Gates
<1>9. CASE CleanRouting
  <2>1. gate' \in Gates
    BY <1>9, <1>s, <1>g, <1>u DEF CleanRouting
  <2>2. hosts' \in {"original", "mapped", "routed"} /\ saved' \in BOOLEAN /\ trust' = trust
    BY <1>9, Restores DEF CleanRouting, GateTyped
  <2> QED
    BY <1>9, <1>p, <2>1, <2>2 DEF CleanRouting, GateTyped, Gates
<1>10. CASE CloseHelper
  <2>1. Append(commands, "close") \in Seq({"release", "close"})
    BY AppendTyped DEF PipesTyped
  <2>2. PipesTyped'
    BY <1>10, <2>1 DEF CloseHelper, PipesTyped
  <2> QED
    BY <1>10, <1>s, <1>g, <1>y, <2>2 DEF CloseHelper
<1>11. CASE HelperStopped
  <2>1. gate' \in Gates
    BY <1>11, <1>s, <1>u DEF HelperStopped
  <2> QED
    BY <1>11, <1>p, <1>y, <2>1 DEF HelperStopped
<1>12. CASE ForceHelper
  <2>1. PipesTyped'
    BY <1>12 DEF ForceHelper, KillHelper, PipesTyped
  <2>2. gate' \in Gates
    BY <1>12, <1>s, <1>g, <1>x DEF ForceHelper
  <2> QED
    BY <1>12, <1>y, <2>1, <2>2 DEF ForceHelper
<1>13. CASE RemoveCertificateAuthority
  <2>1. gate' \in Gates
    BY <1>13, <1>s, <1>g, <1>u DEF RemoveCertificateAuthority
  <2>2. trust' \in {"absent", "installed"}
    BY <1>13 DEF RemoveCertificateAuthority, GateTyped
  <2> QED
    BY <1>13, <1>p, <2>1, <2>2 DEF RemoveCertificateAuthority, GateTyped, Gates
<1>14. CASE RemoveDirectory
  <2>1. gate' \in Gates
    BY <1>14, <1>s, <1>u DEF RemoveDirectory
  <2> QED
    BY <1>14, <1>p, <1>y, <2>1 DEF RemoveDirectory
<1> QED
  BY <1>2, <1>3, <1>4, <1>5, <1>7, <1>8, <1>9, <1>10, <1>11, <1>12, <1>13, <1>14 DEF GateStep

LEMMA DesktopTyped ==
  ASSUME PipesTyped, GateTyped, DriverTyped, ProductTyped, DesktopStep
  PROVE  PipesTyped' /\ GateTyped' /\ DriverTyped' /\ ProductTyped' /\ target' = target
<1>1. CASE DesktopChecks
  <2>1. PipesTyped'
    <3>1. HoldRequest \/ UNCHANGED <<helper, events>>
      BY <1>1 DEF DesktopChecks
    <3> QED
      BY <1>1, <3>1, HelperTyped DEF DesktopChecks, PipesTyped
  <2> QED
    BY <1>1, <2>1 DEF DesktopChecks, GateTyped, DriverTyped, ProductTyped
<1>2. CASE ManifestServed
  <2>1. PipesTyped'
    BY <1>2, HelperTyped DEF ManifestServed
  <2> QED
    BY <1>2, <2>1 DEF ManifestServed, GateTyped, DriverTyped, ProductTyped
<1>3. CASE DesktopRelaunches
  <2>1. (driver.overtaken \/ driver.at \in {"spawn again", "ready again"}) \in BOOLEAN
          /\ driver.at \in DriverSteps
    BY DEF DriverTyped
  <2>2. DriverTyped'
    BY <1>3, <2>1, DriverRecord DEF DesktopRelaunches, DriverTyped
  <2>3. ProductTyped'
    BY <1>3 DEF DesktopRelaunches, Launched, ProductTyped, Versions
  <2>4. UNCHANGED <<gateVars, target>>
    BY <1>3 DEF DesktopRelaunches
  <2> QED
    BY <2>2, <2>3, <2>4 DEF PipesTyped, GateTyped
<1>4. CASE DesktopStarts \/ HostStarts \/ CheckFails \/ DesktopDownloads \/ HostStopsServing
  <2>1. UNCHANGED <<gateVars, target, driverVars>>
    BY <1>4 DEF DesktopStarts, HostStarts, CheckFails, DesktopDownloads, HostStopsServing
  <2>2. ProductTyped'
    BY <1>4 DEF DesktopStarts, HostStarts, CheckFails, DesktopDownloads, HostStopsServing,
       ProductTyped, Versions, Nothing
  <2> QED
    BY <2>1, <2>2 DEF PipesTyped, GateTyped, DriverTyped
<1>5. CASE DesktopCloses \/ DesktopCrashes
  <2>1. UNCHANGED <<gateVars, target, driverVars>>
    BY <1>5 DEF DesktopCloses, DesktopCrashes
  <2>2. ProductTyped'
    BY <1>5 DEF DesktopCloses, DesktopCrashes, DesktopExits, ProductTyped, Versions, Nothing
  <2> QED
    BY <2>1, <2>2 DEF PipesTyped, GateTyped, DriverTyped
<1>6. CASE InstallEnds
  BY <1>6 DEF InstallEnds, Replacements, DesktopExits,
     PipesTyped, GateTyped, DriverTyped, ProductTyped, Versions, Nothing
<1> QED
  BY <1>1, <1>2, <1>3, <1>4, <1>5, <1>6 DEF DesktopStep

LEMMA ActionTyped ==
  ASSUME PipesTyped, GateTyped, DriverTyped, ProductTyped, DesktopInv, ActionStep
  PROVE  PipesTyped' /\ GateTyped' /\ DriverTyped' /\ ProductTyped' /\ target' = target
<1>s. /\ InsideGate \cup {"leave"} \subseteq DriverSteps
      /\ "restore" \in GateSteps
  BY DEF DriverSteps, InsideGate, GateSteps
<1>l. \A s \in {"spawn", "ready", "request", "restore", "release", "released", "staged", "close",
                "closed", "updated", "quiet", "look again", "spawn again", "ready again",
                "host again", "reconcile", "inspect again", "leave"} : Proceed(s) => DriverTyped'
  BY <1>s, Moves DEF InsideGate
<1>m. driver' = [driver EXCEPT !.at = "leave", !.failed = TRUE] => DriverTyped'
  BY <1>s, DriverRecord DEF DriverTyped
<1>g. UNCHANGED gateVars => PipesTyped' /\ GateTyped'
  BY DEF PipesTyped, GateTyped
<1>p. UNCHANGED helperVars => PipesTyped'
  BY DEF PipesTyped
<1>q. UNCHANGED productVars => ProductTyped'
  BY DEF ProductTyped
<1>1. CASE LaunchLooks("look", "spawn") \/ LaunchLooks("look again", "spawn again")
  BY <1>1, <1>l, <1>g, <1>q DEF LaunchLooks
<1>2. CASE LaunchSpawns("spawn", "ready") \/ LaunchSpawns("spawn again", "ready again")
  <2>1. installed.version \in Versions
    BY <1>2 DEF LaunchSpawns, DesktopInv, InsideGate, ProductTyped
  <2>2. ProductTyped'
    <3>1. /\ \/ desktop' = desktop
             \/ desktop' = [life |-> "starting", version |-> installed.version, own |-> TRUE]
          /\ UNCHANGED <<host, installed, staged, check>>
      BY <1>2 DEF LaunchSpawns, Launched
    <3>2. desktop \in [life : {"off", "starting", "running", "closing", "installing"},
                       version : Versions, own : BOOLEAN]
      BY DEF ProductTyped
    <3>3. desktop' \in [life : {"off", "starting", "running", "closing", "installing"},
                        version : Versions, own : BOOLEAN]
      <4>1. CASE desktop' = desktop
        BY <3>2, <4>1
      <4>2. CASE desktop' = [life |-> "starting", version |-> installed.version, own |-> TRUE]
        BY <2>1, <4>2
      <4> QED
        BY <3>1, <4>1, <4>2
    <3> QED
      BY <3>1, <3>3 DEF ProductTyped
  <2> QED
    BY <1>2, <1>l, <1>g, <2>2 DEF LaunchSpawns
<1>4. CASE RestoreRealRouting
  <2>1. /\ GateTyped'
        /\ driver' = [driver EXCEPT !.at = "leave", !.failed = TRUE] \/ Proceed("release")
    <3>1. PICK write \in CommandOutcomes : RestoreRouting(write)
      BY <1>4 DEF RestoreRealRouting
    <3>2. gate' = gate \/ gate' = [gate EXCEPT !.routing = FALSE] \/ Throw
      BY <3>1 DEF RestoreRouting
    <3>3. hosts' \in {hosts, "original"} /\ saved' \in BOOLEAN
      BY <3>1, Restores DEF RestoreRouting, GateTyped
    <3>4. gate' \in [at : GateSteps, routing : BOOLEAN, trusted : BOOLEAN, serving : BOOLEAN,
                     released : BOOLEAN, failed : BOOLEAN, unclean : BOOLEAN]
      <4>1. CASE gate' = gate
        BY <4>1 DEF GateTyped
      <4>2. CASE gate' = [gate EXCEPT !.routing = FALSE]
        BY <1>s, <4>2, GateRecord
      <4>3. CASE gate' = [gate EXCEPT !.at = "restore", !.failed = TRUE]
        BY <1>s, <4>3, GateRecord
      <4> QED
        BY <3>2, <4>1, <4>2, <4>3 DEF Throw
    <3> QED
      BY <1>4, <3>3, <3>4 DEF RestoreRealRouting, GateTyped
  <2> QED
    BY <1>4, <1>l, <1>m, <1>p, <1>q, <2>1 DEF RestoreRealRouting
<1>5. CASE ReleaseManifest
  <2>1. Append(commands, "release") \in Seq({"release", "close"})
    BY AppendTyped DEF PipesTyped
  <2> QED
    BY <1>5, <1>l, <1>q, <2>1 DEF ReleaseManifest, SendRelease, PipesTyped, GateTyped
<1>6. CASE AwaitReleased \/ WaitForRequest
  <2>1. PipesTyped'
    BY <1>6 DEF AwaitReleased, ManifestReleased, WaitForRequest, Await, PipesTyped
  <2>2. GateTyped'
    <3>1. [gate EXCEPT !.released = TRUE] \in [at : GateSteps, routing : BOOLEAN,
             trusted : BOOLEAN, serving : BOOLEAN, released : BOOLEAN, failed : BOOLEAN,
             unclean : BOOLEAN]
      BY <1>s, GateRecord
    <3> QED
      BY <1>6, <3>1 DEF AwaitReleased, ManifestReleased, WaitForRequest, GateTyped
  <2> QED
    BY <1>6, <1>l, <1>q, <2>1, <2>2 DEF AwaitReleased, WaitForRequest
<1>7. CASE RequestNormalClose
  <2>1. ProductTyped'
    BY <1>7 DEF RequestNormalClose, ProductTyped
  <2> QED
    BY <1>7, <1>l, <1>g, <2>1 DEF RequestNormalClose
<1>8. CASE WaitForReady \/ WaitForStaged \/ WaitForNormalClose \/ InspectUpdatedInstallation
             \/ AssertNotRelaunched \/ IdentifyUpdated \/ WaitForUpdatedHost \/ AwaitReconciled
  BY <1>8, <1>l, <1>g, <1>q DEF WaitForReady, WaitForStaged, WaitForNormalClose,
     InspectUpdatedInstallation, AssertNotRelaunched, IdentifyUpdated, WaitForUpdatedHost,
     AwaitReconciled
<1>9. CASE InspectUpdatedRuntime \/ ActionFails
  BY <1>9, <1>s, <1>l, <1>m, <1>p, <1>q, GateMoves DEF InspectUpdatedRuntime, ActionFails
<1> QED
  BY <1>1, <1>2, <1>4, <1>5, <1>6, <1>7, <1>8, <1>9 DEF ActionStep, LaunchStep

LEMMA SmokeTyped ==
  ASSUME SmokeInv, SmokeStep
  PROVE  NativeSmokeTypeOK'
<1>1. PipesTyped /\ GateTyped /\ target \in Targets /\ DriverTyped /\ ProductTyped /\ DesktopInv
  BY TypesAre DEF SmokeInv
<1>2. PipesTyped' /\ GateTyped' /\ DriverTyped' /\ ProductTyped' /\ target' = target
  <2>1. CASE DesktopStep
    BY <1>1, <2>1, DesktopTyped
  <2>2. CASE HelperStep /\ UNCHANGED <<target, driverVars, productVars>>
    <3>1. PipesTyped'
      BY <1>1, <2>2, HelperTyped
    <3>2. UNCHANGED <<gate, systemVars>>
      BY <2>2 DEF HelperStep, HelperListens, HelperCloses, HelperCrashes, ObserveEvent
    <3> QED
      BY <1>1, <2>2, <3>1, <3>2 DEF GateTyped, DriverTyped, ProductTyped
  <2>3. CASE ActionStep
    BY <1>1, <2>3, ActionTyped
  <2>4. CASE SetUpGate \/ LeaveGate
    <3>1. PipesTyped' /\ GateTyped'
      <4>1. GateStep \/ UNCHANGED gateVars
        BY <2>4 DEF SetUpGate, LeaveGate
      <4> QED
        BY <1>1, <4>1, GateStepTyped DEF PipesTyped, GateTyped
    <3>2. DriverTyped'
      <4>1. \/ Proceed("look") \/ Proceed("leave") \/ UNCHANGED driver
            \/ driver' = [driver EXCEPT !.at = "cleanup",
                                        !.failed = driver.failed \/ gate.failed \/ gate.unclean]
        BY <2>4 DEF SetUpGate, LeaveGate
      <4>2. "look" \in DriverSteps /\ "leave" \in DriverSteps /\ "cleanup" \in DriverSteps
        BY DEF DriverSteps
      <4>3. (driver.failed \/ gate.failed \/ gate.unclean) \in BOOLEAN
        OBVIOUS
      <4>4. [driver EXCEPT !.at = "cleanup", !.failed = driver.failed \/ gate.failed \/ gate.unclean]
              \in [at : DriverSteps, inputs : BOOLEAN, known : BOOLEAN, overtaken : BOOLEAN,
                   failed : BOOLEAN]
        BY <1>1, <4>2, <4>3, DriverRecord
      <4> QED
        BY <1>1, <4>1, <4>2, <4>4, Moves DEF DriverTyped
    <3> QED
      BY <1>1, <2>4, <3>1, <3>2 DEF SetUpGate, LeaveGate, ProductTyped
  <2>5. CASE StartSmoke \/ AssertRunner \/ InspectBaselineRuntime
    <3>1. DriverTyped'
      <4>1. "runner" \in DriverSteps /\ "install" \in DriverSteps /\ "gate" \in DriverSteps
        BY DEF DriverSteps
      <4>2. ASSUME NEW b \in BOOLEAN, driver' = [driver EXCEPT !.at = "runner", !.inputs = b]
            PROVE  DriverTyped'
        <5>1. [driver EXCEPT !.at = "runner", !.inputs = b]
                \in [at : DriverSteps, inputs : BOOLEAN, known : BOOLEAN, overtaken : BOOLEAN,
                     failed : BOOLEAN]
          BY <1>1, <4>1, DriverRecord
        <5> QED
          BY <4>2, <5>1 DEF DriverTyped
      <4>3. CASE StartSmoke
        BY <4>2, <4>3 DEF StartSmoke
      <4>4. CASE AssertRunner
        BY <1>1, <4>1, <4>4, Moves DEF AssertRunner
      <4>5. CASE InspectBaselineRuntime
        BY <1>1, <4>1, <4>5, Moves DEF InspectBaselineRuntime
      <4> QED
        BY <2>5, <4>3, <4>4, <4>5
    <3>2. GateTyped'
      <4>1. "identity" \in GateSteps
        BY DEF GateSteps
      <4> QED
        BY <1>1, <2>5, <4>1, GateMoves
           DEF StartSmoke, AssertRunner, InspectBaselineRuntime, ValidateGateConfig
    <3> QED
      BY <1>1, <2>5, <3>1, <3>2 DEF StartSmoke, AssertRunner, InspectBaselineRuntime,
         ValidateGateConfig, PipesTyped, ProductTyped
  <2>6. CASE InstallBaseline
    <3>1. DriverTyped'
      <4>1. "inspect" \in DriverSteps
        BY DEF DriverSteps
      <4>2. driver' = [driver EXCEPT !.at = "inspect", !.known = TRUE] => DriverTyped'
        BY <1>1, <4>1, DriverRecord DEF DriverTyped
      <4> QED
        BY <1>1, <2>6, <4>2, Moves DEF InstallBaseline
    <3>2. ProductTyped'
      <4>1. installed' = installed \/ \E sound \in BOOLEAN :
               installed' = [version |-> "baseline", inPlace |-> TRUE, sound |-> sound]
        BY <2>6 DEF InstallBaseline
      <4>2. installed' \in [version : Versions \cup {Nothing}, inPlace : BOOLEAN, sound : BOOLEAN]
        <5>1. installed \in [version : Versions \cup {Nothing}, inPlace : BOOLEAN, sound : BOOLEAN]
          BY <1>1 DEF ProductTyped
        <5>2. CASE installed' = installed
          BY <5>1, <5>2
        <5>3. ASSUME NEW sound \in BOOLEAN,
                     installed' = [version |-> "baseline", inPlace |-> TRUE, sound |-> sound]
              PROVE  installed' \in [version : Versions \cup {Nothing}, inPlace : BOOLEAN,
                                     sound : BOOLEAN]
          BY <5>3 DEF Versions
        <5> QED
          BY <4>1, <5>2, <5>3
      <4> QED
        BY <1>1, <2>6, <4>2 DEF InstallBaseline, ProductTyped
    <3> QED
      BY <1>1, <2>6, <3>1, <3>2 DEF InstallBaseline, PipesTyped, GateTyped
  <2>7. CASE Cleanup
    <3>1. DriverTyped'
      <4>1. PICK uninstall \in CommandOutcomes :
              driver' = [driver EXCEPT !.at = "report", !.failed = driver.failed \/ ~uninstall.ok]
        BY <2>7 DEF Cleanup
      <4>2. "report" \in DriverSteps /\ (driver.failed \/ ~uninstall.ok) \in BOOLEAN
        BY DEF DriverSteps
      <4> QED
        BY <1>1, <4>1, <4>2, DriverRecord DEF DriverTyped
    <3>2. ProductTyped'
      BY <1>1, <2>7 DEF Cleanup, CleanupLaunch, UninstallBaseline, NoInstallation,
         ProductTyped, Versions, Nothing
    <3> QED
      BY <1>1, <2>7, <3>1, <3>2 DEF Cleanup, PipesTyped, GateTyped
  <2> QED
    BY <2>1, <2>2, <2>3, <2>4, <2>5, <2>6, <2>7 DEF SmokeStep
<1> QED
  BY <1>1, <1>2 DEF NativeSmokeTypeOK, GateTypeOK, PipesTyped, GateTyped, DriverTyped, ProductTyped

-----------------------------------------------------------------------------
(* The gate. *)

LEMMA DriverMoves ==
  ASSUME DriverTyped
  PROVE  /\ \A step : Proceed(step) => driver'.at = step /\ driver'.failed = driver.failed
                                       /\ driver'.overtaken = driver.overtaken
         /\ Fail => driver'.at = "cleanup" /\ driver'.failed
BY DEF DriverTyped, Proceed, Fail

\* Nothing that the Desktop or the helper does disturbs what the gate holds.
LEMMA GateInBackground ==
  ASSUME GateFollowsDriver, GateHolds, GateGivesBack, Background
  PROVE  GateFollowsDriver' /\ GateHolds' /\ GateGivesBack'
BY DEF Background, GateFollowsDriver, GateHolds, GateGivesBack

\* The commands after one was read are commands that were sent before.
LEMMA ReleaseRead ==
  ASSUME commands \in Seq({"release", "close"}), commands # << >>, commands' = Tail(commands)
  PROVE  /\ ReleaseSent' => ReleaseSent
         /\ Head(commands) = "release" => ReleaseSent
<1>1. /\ Len(commands) \in Nat /\ Len(commands) > 0 /\ Head(commands) = commands[1]
      /\ Len(Tail(commands)) = Len(commands) - 1
      /\ \A i \in 1..Len(Tail(commands)) : Tail(commands)[i] = commands[i + 1]
  BY HeadTailProperties, LenProperties, EmptySeq
<1>2. ASSUME NEW i \in 1..Len(Tail(commands)) PROVE i + 1 \in 1..Len(commands)
  BY <1>1
<1>3. 1 \in 1..Len(commands)
  BY <1>1
<1> QED
  BY <1>1, <1>2, <1>3 DEF ReleaseSent

LEMMA ReleaseKeptByClose ==
  ASSUME commands \in Seq({"release", "close"}), commands' = Append(commands, "close"), ReleaseSent'
  PROVE  ReleaseSent
<1>1. /\ Len(commands) \in Nat /\ Len(Append(commands, "close")) = Len(commands) + 1
      /\ Append(commands, "close")[Len(commands) + 1] = "close"
      /\ \A i \in 1..Len(commands) : Append(commands, "close")[i] = commands[i]
  BY AppendProperties, LenProperties
<1>2. PICK i \in 1..(Len(commands) + 1) : Append(commands, "close")[i] = "release"
  BY <1>1 DEF ReleaseSent
<1>3. i \in 1..Len(commands) \/ i = Len(commands) + 1
  BY <1>1
<1> QED
  BY <1>1, <1>2, <1>3 DEF ReleaseSent

\* The helper answers what was released, once: nobody else sends a release.
LEMMA ReleaseInBackground ==
  ASSUME PipesTyped, ReleaseIsLate, Background, DesktopStep \/ HelperStep
  PROVE  ReleaseIsLate'
<1>1. helper'.answered \/ ReleaseSent' => helper.answered \/ ReleaseSent
  <2>1. CASE UNCHANGED helperVars
    BY <2>1 DEF ReleaseSent
  <2>2. CASE DesktopChecks
    <3>1. commands' = commands /\ helper'.answered = helper.answered
      BY <2>2 DEF DesktopChecks, HoldRequest, PipesTyped
    <3> QED
      BY <3>1 DEF ReleaseSent
  <2>3. CASE HelperReleases
    BY <2>3, ReleaseRead DEF HelperReleases, PipesTyped
  <2>4. CASE HelperCloses
    <3>1. helper'.answered = helper.answered
      BY <2>4 DEF HelperCloses, PipesTyped
    <3> QED
      BY <2>4, <3>1, ReleaseRead DEF HelperCloses, PipesTyped
  <2>5. CASE HelperListens \/ HelperCrashes \/ ObserveEvent
    <3>1. commands' = commands /\ helper'.answered = helper.answered
      BY <2>5 DEF HelperListens, HelperCrashes, ObserveEvent, PipesTyped
    <3> QED
      BY <3>1 DEF ReleaseSent
  <2> QED
    BY <2>1, <2>2, <2>3, <2>4, <2>5 DEF DesktopStep, HelperStep, ManifestServed,
       DesktopStarts, HostStarts, CheckFails, DesktopDownloads, DesktopCloses, DesktopCrashes,
       InstallEnds, DesktopRelaunches, HostStopsServing
<1> QED
  BY <1>1 DEF ReleaseIsLate, Background

\* Setting the gate up: it fails, or holds at each step what the next one relies on.
LEMMA GateSetsUp ==
  ASSUME PipesTyped, GateTyped, GateStep, gate.at \in SettingUp, ~gate.failed,
         gate.at \in {"serve", "ready", "route"} => gate.trusted,
         gate.at = "route" => gate.serving
  PROVE  /\ \/ gate'.at \in SettingUp /\ ~gate'.failed
            \/ gate'.at = "restore" /\ gate'.failed
            \/ gate'.at = "open" /\ ~gate'.failed /\ gate'.routing
         /\ gate'.at \in {"serve", "ready", "route", "open"} => gate'.trusted
         /\ gate'.at \in {"route", "open"} => gate'.serving
         /\ commands' = commands /\ helper'.answered = helper.answered
<1> USE DEF GateTyped, SettingUp, GoTo, Throw
<1>1. CASE CreateTlsIdentity
  BY <1>1 DEF CreateTlsIdentity
<1>2. CASE InstallCertificateAuthority
  BY <1>2 DEF InstallCertificateAuthority
<1>3. CASE StartHttpsGate
  BY <1>3 DEF StartHttpsGate, StartGateChild, PipesTyped
<1>4. CASE HelperIsReady
  BY <1>4 DEF HelperIsReady
<1>5. CASE HelperIsNotReady
  BY <1>5 DEF HelperIsNotReady
<1>6. CASE AbortHelper
  BY <1>6 DEF AbortHelper, KillHelper, PipesTyped
<1>7. CASE RouteHostname
  BY <1>7 DEF RouteHostname
<1> QED
  BY <1>1, <1>2, <1>3, <1>4, <1>5, <1>6, <1>7 DEF GateStep, CleanRouting, CloseHelper,
     HelperStopped, ForceHelper, RemoveCertificateAuthority, RemoveDirectory

\* The finally block: what it does not report it has given back.
LEMMA GateLeaves ==
  ASSUME PipesTyped, GateTyped, GateStep, gate.at \in Leaving, GateGivesBack
  PROVE  /\ gate'.at \in Leaving /\ GateGivesBack'
         /\ gate'.failed = gate.failed
         /\ hosts' \in {hosts, "original"} /\ helper'.answered = helper.answered
         /\ commands' = commands \/ commands' = Append(commands, "close")
<1> USE DEF GateTyped, Leaving, GoTo, GateGivesBack
<1>1. CASE CleanRouting
  <2>1. gate'.at = "close" /\ gate'.failed = gate.failed /\ UNCHANGED <<trust, helperVars>>
    BY <1>1 DEF CleanRouting
  <2>2. hosts' \in {hosts, "original"}
    BY <1>1, Restores DEF CleanRouting
  <2>3. CASE gate.failed
    BY <1>1, <2>1, <2>2, <2>3
  <2>4. CASE ~gate.failed
    <3>1. ~gate.routing
      BY <1>1, <2>4 DEF CleanRouting
    <3>2. gate' = [gate EXCEPT !.at = "close"] /\ UNCHANGED <<hosts, saved>>
      BY <1>1, <3>1 DEF CleanRouting
    <3> QED
      BY <1>1, <2>1, <2>4, <3>2 DEF CleanRouting
  <2> QED
    BY <2>3, <2>4
<1>2. CASE CloseHelper
  BY <1>2 DEF CloseHelper
<1>3. CASE HelperStopped
  BY <1>3 DEF HelperStopped
<1>4. CASE ForceHelper
  BY <1>4 DEF ForceHelper, KillHelper, PipesTyped
<1>5. CASE RemoveCertificateAuthority
  <2>1. /\ gate.at = "untrust" /\ gate'.at = "remove" /\ UNCHANGED <<hosts, saved, helperVars>>
        /\ gate'.failed = gate.failed /\ gate'.routing = gate.routing
        /\ gate'.serving = gate.serving /\ gate'.trusted = gate.trusted
    BY <1>5 DEF RemoveCertificateAuthority
  <2>2. gate.trusted /\ ~gate'.unclean => ~gate.unclean /\ trust' = "absent"
    <3>1. ASSUME gate.trusted, ~gate'.unclean, NEW remove \in CommandOutcomes,
                 trust' = IF remove.done THEN "absent" ELSE trust,
                 gate' = [gate EXCEPT !.at = "remove", !.unclean = gate.unclean \/ ~remove.ok]
          PROVE  ~gate.unclean /\ trust' = "absent"
      <4>1. ~(gate.unclean \/ ~remove.ok)
        BY <3>1
      <4>2. remove.ok
        BY <4>1
      <4>3. remove.done = TRUE
        BY <4>2 DEF CommandOutcomes
      <4> QED
        BY <3>1, <4>1, <4>3
    <3> QED
      BY <1>5, <3>1 DEF RemoveCertificateAuthority
  <2> QED
    BY <2>1, <2>2
<1>6. CASE RemoveDirectory
  BY <1>6 DEF RemoveDirectory
<1> QED
  BY <1>1, <1>2, <1>3, <1>4, <1>5, <1>6 DEF GateStep, CreateTlsIdentity,
     InstallCertificateAuthority, StartHttpsGate, HelperIsReady, HelperIsNotReady,
     AbortHelper, RouteHostname

\* A step of the driver inside the gate's action that leaves the gate alone.
LEMMA GateStays ==
  ASSUME GateFollowsDriver, GateHolds, GateGivesBack, ReleaseIsLate,
         driver.at \in InsideGate, driver'.at \in InsideGate, UNCHANGED <<gate, systemVars>>,
         driver.at \in Routed <=> driver'.at \in Routed,
         helper'.answered = helper.answered, commands' = commands
  PROVE  GateFollowsDriver' /\ GateHolds' /\ GateGivesBack' /\ ReleaseIsLate'
<1>1. gate.at = "open" /\ ~gate.failed /\ "open" \notin Leaving
  BY DEF GateFollowsDriver, Leaving
<1>2. driver'.at \notin Before \cup {"gate", "leave", "cleanup", "report"}
  BY DEF InsideGate, Before
<1>3. GateFollowsDriver'
  BY <1>1, <1>2 DEF GateFollowsDriver
<1>4. GateHolds'
  BY DEF GateHolds
<1>5. GateGivesBack'
  BY <1>1 DEF GateGivesBack
<1>6. ReleaseIsLate'
  BY DEF ReleaseIsLate, ReleaseSent
<1> QED
  BY <1>3, <1>4, <1>5, <1>6

\* The driver enters the finally block, with a failure or after its last inspection.
LEMMA GateClosing ==
  ASSUME GateTyped, GateFollowsDriver, GateHolds, ReleaseIsLate,
         driver.at \in InsideGate, driver'.at = "leave",
         \/ Throw
         \/ GoTo("restore") /\ driver.at \notin Routed /\ UNCHANGED systemVars,
         hosts' \in {hosts, "original"}, helper'.answered = helper.answered, commands' = commands
  PROVE  GateFollowsDriver' /\ GateHolds' /\ GateGivesBack' /\ ReleaseIsLate'
<1>1. gate.at = "open" /\ ~gate.failed /\ gate.trusted /\ gate.serving
  BY DEF GateFollowsDriver, GateHolds
<1>2. /\ gate'.at = "restore" /\ gate'.routing = gate.routing /\ gate'.trusted = gate.trusted
      /\ gate'.serving = gate.serving
      /\ ~gate'.failed => driver.at \notin Routed /\ UNCHANGED systemVars
  BY DEF Throw, GoTo, GateTyped
<1>3. GateFollowsDriver'
  BY <1>2 DEF GateFollowsDriver, Before, InsideGate, Leaving
<1>4. GateHolds'
  BY <1>2 DEF GateHolds, Routed, InsideGate
<1>5. GateGivesBack'
  BY <1>1, <1>2 DEF GateGivesBack, GateHolds
<1>6. ReleaseIsLate'
  BY <1>2 DEF ReleaseIsLate, ReleaseSent, SettingUp
<1> QED
  BY <1>3, <1>4, <1>5, <1>6

LEMMA GateInAction ==
  ASSUME SmokeInv, ActionStep
  PROVE  GateFollowsDriver' /\ GateHolds' /\ GateGivesBack' /\ ReleaseIsLate'
<1>1. PipesTyped /\ GateTyped /\ DriverTyped
  BY TypesAre DEF SmokeInv
<1>2. GateFollowsDriver /\ GateHolds /\ GateGivesBack /\ ReleaseIsLate
  BY DEF SmokeInv
<1>m. \A step : Proceed(step) => driver'.at = step
  BY <1>1, DriverMoves
<1>3. CASE \/ LaunchStep \/ WaitForReady \/ WaitForRequest \/ WaitForStaged \/ RequestNormalClose
           \/ WaitForNormalClose \/ InspectUpdatedInstallation \/ AssertNotRelaunched
           \/ IdentifyUpdated \/ WaitForUpdatedHost \/ AwaitReconciled
  <2>1. /\ driver.at \in InsideGate /\ driver'.at \in InsideGate
        /\ driver.at \in Routed <=> driver'.at \in Routed
    BY <1>3, <1>m DEF LaunchStep, LaunchLooks, LaunchSpawns, WaitForReady, WaitForRequest,
       WaitForStaged, RequestNormalClose, WaitForNormalClose, InspectUpdatedInstallation,
       AssertNotRelaunched, IdentifyUpdated, WaitForUpdatedHost, AwaitReconciled, InsideGate,
       Routed
  <2>2. UNCHANGED <<gate, systemVars, helper, commands>>
    BY <1>3 DEF LaunchStep, LaunchLooks, LaunchSpawns, WaitForReady, WaitForRequest,
       WaitForStaged, RequestNormalClose, WaitForNormalClose, InspectUpdatedInstallation,
       AssertNotRelaunched, IdentifyUpdated, WaitForUpdatedHost, AwaitReconciled
  <2> QED
    BY <1>2, <2>1, <2>2, GateStays
<1>4. CASE RestoreRealRouting
  <2>1. PICK write \in CommandOutcomes : RestoreRouting(write)
    BY <1>4 DEF RestoreRealRouting
  <2>2. driver.at = "restore" /\ gate.routing /\ gate.at = "open" /\ ~gate.failed
    BY <1>2, <1>4 DEF RestoreRealRouting, GateFollowsDriver, GateHolds, InsideGate, Routed
  <2>3. UNCHANGED helperVars
    BY <1>4 DEF RestoreRealRouting
  <2>4. RestoreHostname(write) /\ IF write.ok THEN gate' = [gate EXCEPT !.routing = FALSE] ELSE Throw
    BY <2>1, <2>2 DEF RestoreRouting
  <2>5. CASE ~write.ok
    <3>1. Throw /\ gate'.failed
      BY <1>1, <2>4, <2>5 DEF Throw, GateTyped
    <3>2. driver'.at = "leave"
      BY <1>1, <1>4, <3>1 DEF RestoreRealRouting, DriverTyped
    <3> QED
      BY <1>1, <1>2, <2>2, <2>3, <2>4, <3>1, <3>2, Restores, GateClosing DEF InsideGate
  <2>6. CASE write.ok
    <3>1. gate' = [gate EXCEPT !.routing = FALSE] /\ hosts' = "original" /\ ~saved'
      BY <2>4, <2>6, Restores
    <3>2. /\ gate'.at = "open" /\ ~gate'.failed /\ ~gate'.routing
          /\ gate'.trusted = gate.trusted /\ gate'.serving = gate.serving
      BY <1>1, <2>2, <3>1 DEF GateTyped
    <3>3. driver'.at = "release"
      BY <1>4, <1>m, <3>2 DEF RestoreRealRouting
    <3>4. GateFollowsDriver' /\ GateGivesBack'
      BY <3>2, <3>3 DEF GateFollowsDriver, GateGivesBack, Before, InsideGate, Leaving
    <3>5. GateHolds'
      BY <1>2, <2>2, <3>1, <3>2, <3>3 DEF GateHolds, Routed
    <3>6. ReleaseIsLate'
      BY <3>1, <3>2 DEF ReleaseIsLate, SettingUp
    <3> QED
      BY <3>4, <3>5, <3>6
  <2> QED
    BY <2>5, <2>6
<1>5. CASE ReleaseManifest
  <2>1. driver.at = "release" /\ driver'.at = "released" /\ UNCHANGED <<gate, systemVars, helper>>
    BY <1>5, <1>m DEF ReleaseManifest, SendRelease
  <2>2. gate.at = "open" /\ ~gate.failed /\ hosts = "original"
    BY <1>2, <2>1 DEF GateFollowsDriver, GateHolds, InsideGate, Routed
  <2>3. GateFollowsDriver' /\ GateGivesBack'
    BY <2>1, <2>2 DEF GateFollowsDriver, GateGivesBack, Before, InsideGate, Leaving
  <2>4. GateHolds'
    BY <1>2, <2>1 DEF GateHolds, Routed, InsideGate
  <2>5. ReleaseIsLate'
    BY <2>1, <2>2 DEF ReleaseIsLate, SettingUp
  <2> QED
    BY <2>3, <2>4, <2>5
<1>6. CASE AwaitReleased
  <2>1. driver.at = "released" /\ driver'.at = "staged" /\ UNCHANGED <<systemVars, helper, commands>>
    BY <1>6, <1>m DEF AwaitReleased, ManifestReleased
  <2>2. gate.at = "open" /\ ~gate.failed /\ hosts = "original"
    BY <1>2, <2>1 DEF GateFollowsDriver, GateHolds, InsideGate, Routed
  <2>3. /\ gate'.at = "open" /\ ~gate'.failed /\ gate'.routing = gate.routing
        /\ gate'.trusted = gate.trusted /\ gate'.serving = gate.serving
    BY <1>1, <1>6, <2>2 DEF AwaitReleased, ManifestReleased, GateTyped
  <2>4. GateFollowsDriver' /\ GateGivesBack'
    BY <2>1, <2>3 DEF GateFollowsDriver, GateGivesBack, Before, InsideGate, Leaving
  <2>5. GateHolds'
    BY <1>2, <2>1, <2>2, <2>3 DEF GateHolds, Routed, InsideGate
  <2>6. ReleaseIsLate'
    BY <2>1, <2>2, <2>3 DEF ReleaseIsLate, SettingUp
  <2> QED
    BY <2>4, <2>5, <2>6
<1>7. CASE InspectUpdatedRuntime
  <2>1. /\ driver.at = "inspect again" /\ driver'.at = "leave" /\ GoTo("restore")
        /\ UNCHANGED <<systemVars, helper, commands>>
    BY <1>7, <1>m DEF InspectUpdatedRuntime
  <2> QED
    BY <1>1, <1>2, <2>1, GateClosing DEF InsideGate, Routed
<1>8. CASE ActionFails
  <2>1. /\ driver.at \in InsideGate /\ driver'.at = "leave" /\ Throw
        /\ UNCHANGED <<systemVars, helper, commands>>
    BY <1>1, <1>8 DEF ActionFails, DriverTyped
  <2> QED
    BY <1>1, <1>2, <2>1, GateClosing
<1> QED
  BY <1>3, <1>4, <1>5, <1>6, <1>7, <1>8 DEF ActionStep

\* Before the gate: its place is idle, and nothing has been sent.
LEMMA GateIdles ==
  ASSUME GateFollowsDriver, GateHolds, GateGivesBack, ReleaseIsLate, UNCHANGED gateVars,
         driver.at \in Before,
         driver'.at \in Before \/ (driver'.at = "cleanup" /\ driver'.failed)
  PROVE  GateFollowsDriver' /\ GateHolds' /\ GateGivesBack' /\ ReleaseIsLate'
<1>1. gate.at = "idle" /\ ~gate.failed
  BY DEF GateFollowsDriver
<1>2. GateFollowsDriver'
  BY <1>1 DEF GateFollowsDriver, Before, InsideGate
<1>3. GateHolds'
  BY <1>1 DEF GateHolds, Before, Routed, InsideGate
<1>4. GateGivesBack' /\ ReleaseIsLate'
  BY DEF GateGivesBack, ReleaseIsLate, ReleaseSent
<1> QED
  BY <1>2, <1>3, <1>4

LEMMA GateBegins ==
  ASSUME GateTyped, GateFollowsDriver, ReleaseIsLate, driver.at = "inspect", driver'.at = "gate",
         gate' = [gate EXCEPT !.at = "identity"],
         helper' = helper, commands' = commands
  PROVE  GateFollowsDriver' /\ GateHolds' /\ GateGivesBack' /\ ReleaseIsLate'
<1>1. gate.at = "idle" /\ gate'.at = "identity" /\ ~gate'.failed
  BY DEF GateFollowsDriver, Before, GateTyped
<1>2. ~helper.answered /\ ~ReleaseSent
  BY <1>1 DEF ReleaseIsLate
<1>3. GateFollowsDriver' /\ GateGivesBack'
  BY <1>1 DEF GateFollowsDriver, GateGivesBack, Before, InsideGate, SettingUp, Leaving
<1>4. GateHolds'
  BY <1>1 DEF GateHolds, Routed, InsideGate
<1>5. ReleaseIsLate'
  BY <1>2 DEF ReleaseIsLate, ReleaseSent
<1> QED
  BY <1>3, <1>4, <1>5

LEMMA GateKept ==
  ASSUME SmokeInv, SmokeStep
  PROVE  GateFollowsDriver' /\ GateHolds' /\ GateGivesBack' /\ ReleaseIsLate'
<1>1. NativeSmokeTypeOK /\ PipesTyped /\ GateTyped /\ DriverTyped
  BY TypesAre DEF SmokeInv
<1>2. GateFollowsDriver /\ GateHolds /\ GateGivesBack /\ ReleaseIsLate
  BY DEF SmokeInv
<1>m. /\ \A step : Proceed(step) => driver'.at = step /\ driver'.failed = driver.failed
      /\ Fail => driver'.at = "cleanup" /\ driver'.failed
  BY <1>1, DriverMoves
<1>3. CASE DesktopStep \/ (HelperStep /\ UNCHANGED <<target, driverVars, productVars>>)
  BY <1>1, <1>2, <1>3, DesktopIsBackground, HelperIsBackground, GateInBackground, ReleaseInBackground
<1>4. CASE ActionStep
  BY <1>4, GateInAction
<1>5. CASE SetUpGate
  <2>1. gate.at \in SettingUp /\ ~gate.failed /\ driver.at = "gate" /\ GateStep
    BY <1>2, <1>5 DEF SetUpGate, GateFollowsDriver
  <2>2. ~helper.answered /\ ~ReleaseSent
    BY <1>2, <2>1 DEF ReleaseIsLate
  <2>3. /\ \/ gate'.at \in SettingUp /\ ~gate'.failed
           \/ gate'.at = "restore" /\ gate'.failed
           \/ gate'.at = "open" /\ ~gate'.failed /\ gate'.routing
        /\ gate'.at \in {"serve", "ready", "route", "open"} => gate'.trusted
        /\ gate'.at \in {"route", "open"} => gate'.serving
        /\ commands' = commands /\ helper'.answered = helper.answered
    BY <1>1, <1>2, <2>1, GateSetsUp DEF GateHolds
  <2>4. /\ gate'.at = "open" => driver'.at = "look"
        /\ gate'.at # "open" => driver'.at = IF gate'.failed THEN "leave" ELSE "gate"
    BY <1>5, <1>m, <2>1 DEF SetUpGate
  <2>5. ReleaseIsLate'
    BY <2>2, <2>3 DEF ReleaseIsLate, ReleaseSent
  <2>6. GateFollowsDriver' /\ GateGivesBack'
    BY <2>3, <2>4 DEF GateFollowsDriver, GateGivesBack, Before, InsideGate, SettingUp, Leaving
  <2>7. GateHolds'
    BY <2>3, <2>4 DEF GateHolds, Routed, InsideGate, SettingUp
  <2> QED
    BY <2>5, <2>6, <2>7
<1>6. CASE LeaveGate
  <2>1. gate.at \in Leaving /\ driver.at = "leave"
    BY <1>2, <1>6 DEF LeaveGate, GateFollowsDriver
  <2>2. CASE gate.at = "ended"
    <3>1. /\ driver' = [driver EXCEPT !.at = "cleanup",
                                      !.failed = driver.failed \/ gate.failed \/ gate.unclean]
          /\ UNCHANGED gateVars
      BY <1>6, <2>2 DEF LeaveGate
    <3>2. driver'.at = "cleanup" /\ driver'.failed = (driver.failed \/ gate.failed \/ gate.unclean)
      BY <1>1, <3>1 DEF DriverTyped
    <3>3. ~driver'.failed => ~gate.failed /\ ~gate.unclean
      BY <3>2
    <3>4. GateFollowsDriver'
      BY <2>2, <3>1, <3>2, <3>3 DEF GateFollowsDriver, Before, InsideGate
    <3>5. GateHolds' /\ GateGivesBack' /\ ReleaseIsLate'
      BY <1>2, <2>2, <3>1, <3>2 DEF GateHolds, GateGivesBack, ReleaseIsLate, ReleaseSent,
         Routed, InsideGate
    <3> QED
      BY <3>4, <3>5
  <2>3. CASE gate.at # "ended"
    <3>1. GateStep /\ driver' = driver
      BY <1>6, <2>3 DEF LeaveGate
    <3>2. /\ gate'.at \in Leaving /\ GateGivesBack' /\ hosts' \in {hosts, "original"}
          /\ helper'.answered = helper.answered
          /\ commands' = commands \/ commands' = Append(commands, "close")
      BY <1>1, <1>2, <2>1, <3>1, GateLeaves
    <3>3. ReleaseSent' => ReleaseSent
      BY <1>1, <3>2, ReleaseKeptByClose DEF ReleaseSent, PipesTyped
    <3>4. ReleaseIsLate'
      BY <1>2, <3>2, <3>3 DEF ReleaseIsLate, Leaving, SettingUp
    <3>5. GateFollowsDriver' /\ GateHolds'
      BY <2>1, <3>1, <3>2 DEF GateFollowsDriver, GateHolds, Before, Routed, InsideGate, Leaving
    <3> QED
      BY <3>2, <3>4, <3>5
  <2> QED
    BY <2>2, <2>3
<1>7. CASE InspectBaselineRuntime
  <2>1. CASE InspectInstalledRuntimeTree
    <3>1. Proceed("gate") /\ ValidateGateConfig
      BY <1>7, <2>1 DEF InspectBaselineRuntime
    <3>2. driver'.at = "gate" /\ gate' = [gate EXCEPT !.at = "identity"] /\ driver.at = "inspect"
            /\ UNCHANGED <<systemVars, helper, commands>>
      BY <1>7, <1>m, <3>1 DEF InspectBaselineRuntime, ValidateGateConfig, GoTo
    <3> QED
      BY <1>1, <1>2, <3>2, GateBegins
  <2>2. CASE ~InspectInstalledRuntimeTree
    <3>1. driver.at = "inspect" /\ driver'.at = "cleanup" /\ driver'.failed /\ UNCHANGED gateVars
      BY <1>7, <1>m, <2>2 DEF InspectBaselineRuntime
    <3> QED
      BY <1>2, <3>1, GateIdles DEF Before
  <2> QED
    BY <2>1, <2>2
<1>8. CASE StartSmoke \/ AssertRunner \/ InstallBaseline
  <2>1. /\ driver.at \in Before /\ UNCHANGED gateVars
        /\ driver'.at \in Before \/ (driver'.at = "cleanup" /\ driver'.failed)
    <3>1. CASE StartSmoke
      BY <1>1, <3>1 DEF StartSmoke, Before, DriverTyped
    <3>2. CASE AssertRunner
      BY <1>m, <3>2 DEF AssertRunner, Before
    <3>3. CASE InstallBaseline
      <4>1. \/ driver' = [driver EXCEPT !.at = "inspect", !.known = TRUE] \/ Fail
        BY <3>3 DEF InstallBaseline
      <4>2. driver.at \in Before /\ UNCHANGED gateVars
        BY <3>3 DEF InstallBaseline, Before
      <4> QED
        BY <1>1, <1>m, <4>1, <4>2 DEF Before, DriverTyped
    <3> QED
      BY <1>8, <3>1, <3>2, <3>3
  <2> QED
    BY <1>2, <2>1, GateIdles
<1>9. CASE Cleanup
  <2>1. /\ driver.at = "cleanup" /\ driver'.at = "report" /\ UNCHANGED gateVars
        /\ ~driver'.failed => ~driver.failed
    BY <1>1, <1>9 DEF Cleanup, DriverTyped
  <2>2. GateFollowsDriver'
    BY <1>2, <2>1 DEF GateFollowsDriver, Before, InsideGate
  <2>3. GateHolds' /\ GateGivesBack' /\ ReleaseIsLate'
    BY <1>2, <2>1 DEF GateHolds, GateGivesBack, ReleaseIsLate, ReleaseSent, Routed, InsideGate
  <2> QED
    BY <2>2, <2>3
<1> QED
  BY <1>3, <1>4, <1>5, <1>6, <1>7, <1>8, <1>9 DEF SmokeStep

-----------------------------------------------------------------------------
(* The Desktop and what the driver has seen of it. *)

LEMMA DesktopInBackground ==
  ASSUME DriverTyped, ProductTyped, DesktopInv, WitnessInv, DesktopStep
  PROVE  DesktopInv' /\ WitnessInv'
<1> USE DEF DesktopInv, DesktopRuns, Nothing
<1>w. ASSUME driver'.at = driver.at, driver'.failed = driver.failed,
             driver.overtaken => driver'.overtaken, UNCHANGED <<gate, target, witness>>,
             driver.at \in Identified => installed' = installed
      PROVE  WitnessInv'
  BY <1>w DEF WitnessInv, Witnesses, WitnessedHost, RequiresHostReadiness
<1>1. CASE DesktopChecks \/ ManifestServed
  <2>1. UNCHANGED <<gate, target, driverVars, desktop, host, installed>>
    BY <1>1 DEF DesktopChecks, ManifestServed
  <2> QED
    BY <1>w, <2>1
<1>2. CASE CheckFails \/ DesktopDownloads
  <2>1. UNCHANGED <<gate, target, driverVars, desktop, host, installed>>
    BY <1>2 DEF CheckFails, DesktopDownloads
  <2> QED
    BY <1>w, <2>1
<1>3. CASE DesktopStarts
  <2>1. /\ desktop.life = "starting" /\ desktop' = [desktop EXCEPT !.life = "running"]
        /\ UNCHANGED <<gate, target, driverVars, host, installed>>
    BY <1>3 DEF DesktopStarts
  <2>2. desktop'.life = "running" /\ desktop'.version = desktop.version /\ desktop'.own = desktop.own
    BY <2>1 DEF ProductTyped
  <2> QED
    BY <1>w, <2>1, <2>2
<1>4. CASE HostStarts \/ HostStopsServing
  <2>1. /\ host' \in {desktop.version, "none", "silent"}
        /\ host' = desktop.version => desktop.life = "running" \/ host' \in {"none", "silent"}
        /\ UNCHANGED <<gate, target, driverVars, desktop, installed>>
    BY <1>4 DEF HostStarts, HostStopsServing
  <2> QED
    BY <1>w, <2>1
<1>5. CASE DesktopCloses \/ DesktopCrashes
  <2>1. /\ host' \in {host, "none"} /\ UNCHANGED <<gate, target, driverVars, installed>>
        /\ \/ desktop' = [desktop EXCEPT !.life = "off"]
           \/ desktop.life = "closing" /\ desktop' = [desktop EXCEPT !.life = "installing"]
    BY <1>5 DEF DesktopCloses, DesktopCrashes, DesktopExits
  <2>2. desktop'.life = "off" \/ (desktop.life = "closing" /\ desktop'.life = "installing")
    BY <2>1 DEF ProductTyped
  <2>3. desktop.life = "closing" => driver.at \notin Closed
    OBVIOUS
  <2> QED
    BY <1>w, <2>1, <2>2, <2>3 DEF Closed
<1>6. CASE InstallEnds
  <2>1. /\ UNCHANGED <<gate, target, driverVars>>
        /\ desktop.life = "installing" \/ (target = "windows" /\ installed.version = "baseline")
        /\ host' \in {host, "none"}
        /\ desktop' = desktop \/ desktop' = [desktop EXCEPT !.life = "off"]
        /\ installed' = installed \/ installed'.version = "candidate"
    BY <1>6 DEF InstallEnds, InstallsAsync, DesktopExits, Replacements
  <2>2. /\ driver.at \notin Closed \ {"updated"}
        /\ driver.at = "updated" => target = "windows"
    BY <2>1 DEF Closed
  <2>3. desktop' = desktop \/ desktop'.life = "off"
    BY <2>1 DEF ProductTyped
  <2>4. DesktopInv'
    BY <2>1, <2>2, <2>3 DEF Closed
  <2>5. driver.at \notin Identified
    BY <2>2 DEF Closed, Identified
  <2> QED
    BY <1>w, <2>1, <2>4, <2>5
<1>7. CASE DesktopRelaunches
  <2>1. /\ desktop' = [life |-> "starting", version |-> "candidate", own |-> FALSE]
        /\ UNCHANGED <<gate, target, witness, host, installed>>
    BY <1>7 DEF DesktopRelaunches, Launched
  <2>2. /\ driver'.at = driver.at /\ driver'.failed = driver.failed
        /\ driver.overtaken => driver'.overtaken
        /\ driver.at \in {"spawn again", "ready again"} => driver'.overtaken
    BY <1>7 DEF DesktopRelaunches, DriverTyped
  <2>3. DesktopInv'
    BY <2>1, <2>2
  <2> QED
    BY <1>w, <2>1, <2>2, <2>3
<1> QED
  BY <1>1, <1>2, <1>3, <1>4, <1>5, <1>6, <1>7 DEF DesktopStep

\* Where the driver does not reach the witnessed steps, the witness is not asked.
LEMMA NotWitnessed ==
  ASSUME driver'.at \notin {"host again", "reconcile", "inspect again", "leave", "cleanup", "report"}
  PROVE  WitnessInv'
BY DEF WitnessInv, Identified

LEMMA DesktopInAction ==
  ASSUME SmokeInv, ActionStep
  PROVE  DesktopInv' /\ WitnessInv'
<1>1. PipesTyped /\ GateTyped /\ DriverTyped /\ ProductTyped
  BY TypesAre DEF SmokeInv
<1>2. DesktopInv /\ WitnessInv
  BY DEF SmokeInv
<1>m. \A step : Proceed(step) => driver'.at = step /\ driver'.failed = driver.failed
                                 /\ driver'.overtaken = driver.overtaken
  BY <1>1, DriverMoves
\* Until the Desktop is seen closed nothing is asked of it.
<1>e. ASSUME driver.at \in InsideGate, driver'.at \in InsideGate \ Closed,
             installed' = installed
      PROVE  DesktopInv' /\ WitnessInv'
  BY <1>2, <1>e, NotWitnessed DEF DesktopInv, Closed, Identified, InsideGate
<1>l. ASSUME driver'.at = "leave", driver'.failed \/ gate'.failed PROVE DesktopInv' /\ WitnessInv'
  BY <1>l DEF DesktopInv, WitnessInv, InsideGate, Closed, Identified
<1>3. CASE \/ LaunchLooks("look", "spawn") \/ LaunchSpawns("spawn", "ready") \/ WaitForReady
           \/ WaitForRequest \/ ReleaseManifest \/ AwaitReleased \/ WaitForStaged \/ RequestNormalClose
  <2>1. driver.at \in InsideGate /\ driver'.at \in InsideGate \ Closed /\ installed' = installed
    <3>1. \/ driver.at = "look" /\ driver'.at = "spawn"
          \/ driver.at = "spawn" /\ driver'.at = "ready"
          \/ driver.at = "ready" /\ driver'.at = "request"
          \/ driver.at = "request" /\ driver'.at = "restore"
          \/ driver.at = "release" /\ driver'.at = "released"
          \/ driver.at = "released" /\ driver'.at = "staged"
          \/ driver.at = "staged" /\ driver'.at = "close"
          \/ driver.at = "close" /\ driver'.at = "closed"
      BY <1>m, <1>3 DEF LaunchLooks, LaunchSpawns, WaitForReady, WaitForRequest, ReleaseManifest,
         AwaitReleased, WaitForStaged, RequestNormalClose
    <3>2. installed' = installed
      BY <1>3 DEF LaunchLooks, LaunchSpawns, WaitForReady, WaitForRequest, ReleaseManifest,
         AwaitReleased, WaitForStaged, RequestNormalClose
    <3> QED
      BY <3>1, <3>2 DEF InsideGate, Closed
  <2> QED
    BY <1>e, <2>1
<1>4. CASE RestoreRealRouting
  <2>1. driver.at = "restore" /\ installed' = installed
          /\ (gate'.failed \/ driver'.at = "release") /\ (gate'.failed => driver'.at = "leave")
    BY <1>1, <1>m, <1>4 DEF RestoreRealRouting, DriverTyped
  <2> QED
    BY <1>e, <1>l, <2>1 DEF InsideGate, Closed
<1>5. CASE WaitForNormalClose
  <2>1. /\ driver.at = "closed" /\ driver'.at = "updated" /\ UNCHANGED <<target, productVars>>
        /\ desktop.life = "off" /\ (target # "windows" => host = "none")
    BY <1>m, <1>5 DEF WaitForNormalClose, DesktopRuns, HostTreeGone, RequiresHostReadiness, Nothing
  <2>2. DesktopInv'
    BY <1>2, <2>1 DEF DesktopInv, InsideGate
  <2> QED
    BY <2>1, <2>2, NotWitnessed
<1>6. CASE InspectUpdatedInstallation
  <2>1. /\ driver.at = "updated" /\ driver'.at = "quiet" /\ UNCHANGED <<target, productVars>>
        /\ Inspected("candidate") /\ installed.inPlace
    BY <1>m, <1>6 DEF InspectUpdatedInstallation, SameInstallationLocation
  <2>2. installed.version = "candidate"
    BY <2>1 DEF Inspected, InspectWindows, InspectMac, InspectLinuxAppImage, VersionAtBaselinePath
  <2>3. DesktopInv'
    BY <1>2, <2>1, <2>2 DEF DesktopInv, InsideGate, Closed
  <2> QED
    BY <2>1, <2>3, NotWitnessed
<1>7. CASE AssertNotRelaunched \/ LaunchLooks("look again", "spawn again")
  <2>1. /\ driver.at \in {"quiet", "look again"} /\ driver'.at \in {"look again", "spawn again"}
        /\ UNCHANGED <<target, productVars>> /\ desktop.life = "off"
    BY <1>m, <1>7 DEF AssertNotRelaunched, LaunchLooks, DesktopRuns
  <2>2. DesktopInv'
    BY <1>2, <2>1 DEF DesktopInv, InsideGate, Closed, DesktopRuns
  <2> QED
    BY <2>1, <2>2, NotWitnessed
<1>8. CASE LaunchSpawns("spawn again", "ready again")
  <2>1. /\ driver.at = "spawn again" /\ driver'.at = "ready again"
        /\ driver'.overtaken = driver.overtaken /\ UNCHANGED <<target, host, installed>>
        /\ IF DesktopRuns THEN desktop' = desktop
           ELSE desktop' = [life |-> "starting", version |-> installed.version, own |-> TRUE]
    BY <1>m, <1>8 DEF LaunchSpawns, Launched
  <2>2. installed.version = "candidate" /\ (DesktopRuns => driver.overtaken)
    BY <1>2, <2>1 DEF DesktopInv, Closed
  <2>3. DesktopInv'
    <3>1. CASE DesktopRuns
      BY <1>2, <2>1, <2>2, <3>1 DEF DesktopInv, InsideGate, Closed, DesktopRuns
    <3>2. CASE ~DesktopRuns
      <4>1. desktop'.life = "starting" /\ desktop'.version = "candidate" /\ desktop'.own
        <5>1. desktop' = [life |-> "starting", version |-> installed.version, own |-> TRUE]
          BY <2>1, <3>2
        <5>2. desktop'.own = TRUE
          BY <5>1
        <5> QED
          BY <2>2, <5>1, <5>2
      <4>2. /\ installed.version # Nothing /\ installed.inPlace
            /\ target # "windows" => host # "baseline"
        BY <1>2, <2>1 DEF DesktopInv, InsideGate, Closed
      <4> QED
        BY <2>1, <2>2, <4>1, <4>2 DEF DesktopInv, DesktopRuns
    <3> QED
      BY <3>1, <3>2
  <2> QED
    BY <2>1, <2>3, NotWitnessed
<1>9. CASE IdentifyUpdated
  <2>1. /\ driver.at = "ready again" /\ driver'.at = "host again"
        /\ driver'.overtaken = driver.overtaken /\ UNCHANGED <<target, productVars>>
        /\ witness' = [installed |-> installed, own |-> desktop.own, host |-> Nothing]
        /\ desktop.life = "running"
    BY <1>m, <1>9 DEF IdentifyUpdated, ConfigurationIdentity
  <2>2. DesktopInv'
    BY <1>2, <2>1 DEF DesktopInv, InsideGate, Closed, DesktopRuns
  <2>3. desktop.own \/ driver.overtaken
    BY <1>2, <2>1 DEF DesktopInv, DesktopRuns
  <2>4. witness' \in Witnesses' /\ witness'.own = desktop.own
    BY <1>1, <2>1 DEF Witnesses, ProductTyped
  <2>5. WitnessInv'
    BY <2>1, <2>3, <2>4 DEF WitnessInv, Identified
  <2> QED
    BY <2>2, <2>5
<1>10. CASE WaitForUpdatedHost
  <2>1. /\ driver.at = "host again" /\ driver'.at = "reconcile"
        /\ driver'.overtaken = driver.overtaken /\ UNCHANGED <<target, productVars>>
        /\ witness' = [witness EXCEPT !.host = host]
        /\ target # "windows" => host \in {"baseline", "candidate"}
    BY <1>m, <1>10 DEF WaitForUpdatedHost, RequiresHostReadiness, HostAnswers, Versions
  <2>2. DesktopInv'
    BY <1>2, <2>1 DEF DesktopInv, InsideGate, Closed
  <2>3. target # "windows" => host = "candidate"
    BY <1>2, <2>1 DEF DesktopInv, Closed
  <2>4. witness \in Witnesses /\ (witness.own \/ driver.overtaken)
    BY <1>2, <2>1 DEF WitnessInv, Identified
  <2>5. witness' \in Witnesses' /\ witness'.own = witness.own /\ witness'.host = host
    BY <1>1, <2>1, <2>4 DEF Witnesses, ProductTyped
  <2>6. WitnessInv'
    BY <2>1, <2>3, <2>4, <2>5 DEF WitnessInv, WitnessedHost, Identified, RequiresHostReadiness
  <2> QED
    BY <2>2, <2>6
<1>11. CASE AwaitReconciled
  <2>1. /\ driver.at = "reconcile" /\ driver'.at = "inspect again"
        /\ driver'.overtaken = driver.overtaken
        /\ UNCHANGED <<target, productVars, witness>>
    BY <1>m, <1>11 DEF AwaitReconciled
  <2>2. DesktopInv'
    BY <1>2, <2>1 DEF DesktopInv, InsideGate, Closed
  <2>3. WitnessInv'
    BY <1>2, <2>1 DEF WitnessInv, Witnesses, WitnessedHost, Identified, RequiresHostReadiness
  <2> QED
    BY <2>2, <2>3
<1>12. CASE InspectUpdatedRuntime
  <2>1. /\ driver.at = "inspect again" /\ driver'.at = "leave" /\ driver'.overtaken = driver.overtaken
        /\ UNCHANGED <<target, productVars, witness>> /\ installed.sound
    BY <1>m, <1>12 DEF InspectUpdatedRuntime, InspectInstalledRuntimeTree
  <2>2. installed.version = "candidate" /\ installed.inPlace
    BY <1>2, <2>1 DEF DesktopInv, Closed
  <2>3. installed = [version |-> "candidate", inPlace |-> TRUE, sound |-> TRUE]
    BY <1>1, <2>1, <2>2 DEF ProductTyped
  <2>4. witness.installed = installed /\ WitnessedHost
    BY <1>2, <2>1 DEF WitnessInv, Witnesses, Identified
  <2>5. WitnessInv'
    BY <2>1, <2>3, <2>4 DEF WitnessInv, WitnessedHost, Identified, RequiresHostReadiness
  <2>6. DesktopInv'
    BY <2>1 DEF DesktopInv, InsideGate, Closed
  <2> QED
    BY <2>5, <2>6
<1>13. CASE ActionFails
  <2>1. driver'.at = "leave" /\ driver'.failed
    BY <1>1, <1>13 DEF ActionFails, DriverTyped
  <2> QED
    BY <1>l, <2>1
<1> QED
  BY <1>3, <1>4, <1>5, <1>6, <1>7, <1>8, <1>9, <1>10, <1>11,
     <1>12, <1>13 DEF ActionStep, LaunchStep

LEMMA DesktopKept ==
  ASSUME SmokeInv, SmokeStep
  PROVE  DesktopInv' /\ WitnessInv'
<1>1. PipesTyped /\ GateTyped /\ DriverTyped /\ ProductTyped
  BY TypesAre DEF SmokeInv
<1>2. DesktopInv /\ WitnessInv /\ GateFollowsDriver /\ GateHolds
  BY DEF SmokeInv
<1>m. /\ \A step : Proceed(step) => driver'.at = step /\ driver'.failed = driver.failed
                                    /\ driver'.overtaken = driver.overtaken
      /\ Fail => driver'.at = "cleanup" /\ driver'.failed
  BY <1>1, DriverMoves
\* Outside the gate and at its ends nothing is asked of the Desktop.
<1>o. ASSUME driver'.at \notin InsideGate \cup {"gate"} PROVE DesktopInv'
  BY <1>o DEF DesktopInv, InsideGate, Closed
<1>f. ASSUME driver'.at = "cleanup", driver'.failed PROVE DesktopInv' /\ WitnessInv'
  BY <1>f, <1>o DEF WitnessInv, Identified, InsideGate
<1>3. CASE DesktopStep
  BY <1>1, <1>2, <1>3, DesktopInBackground
<1>4. CASE HelperStep /\ UNCHANGED <<target, driverVars, productVars>>
  <2>1. gate' = gate
    BY <1>4 DEF HelperStep, HelperListens, HelperCloses, HelperCrashes, ObserveEvent
  <2>2. DesktopInv'
    BY <1>2, <1>4 DEF DesktopInv, DesktopRuns
  <2>3. WitnessInv'
    BY <1>2, <1>4, <2>1 DEF WitnessInv, Witnesses, Identified, WitnessedHost, RequiresHostReadiness
  <2> QED
    BY <2>2, <2>3
<1>5. CASE ActionStep
  BY <1>5, DesktopInAction
<1>6. CASE SetUpGate
  <2>1. /\ driver.at = "gate" /\ GateStep /\ installed' = installed /\ gate.at \in SettingUp
        /\ ~gate.failed
        /\ driver'.at \in {"look", "gate"} \/ (driver'.at = "leave" /\ gate'.failed)
    BY <1>2, <1>6, <1>m DEF SetUpGate, GateFollowsDriver
  <2>2. DesktopInv'
    BY <1>2, <2>1 DEF DesktopInv, InsideGate, Closed
  <2>3. WitnessInv'
    BY <2>1 DEF WitnessInv, Identified
  <2> QED
    BY <2>2, <2>3
<1>7. CASE LeaveGate
  <2>1. UNCHANGED <<target, productVars, witness>> /\ driver.at = "leave"
    BY <1>7 DEF LeaveGate
  <2>2. CASE gate.at = "ended"
    <3>1. driver' = [driver EXCEPT !.at = "cleanup",
                                   !.failed = driver.failed \/ gate.failed \/ gate.unclean]
      BY <1>7, <2>2 DEF LeaveGate
    <3>2. /\ driver'.at = "cleanup" /\ driver'.overtaken = driver.overtaken
          /\ driver'.failed = (driver.failed \/ gate.failed \/ gate.unclean)
      BY <1>1, <3>1 DEF DriverTyped
    <3>3. ~driver'.failed => ~driver.failed /\ ~gate.failed
      BY <3>2
    <3>4. WitnessInv'
      BY <1>2, <2>1, <3>2, <3>3 DEF WitnessInv, Identified, WitnessedHost, RequiresHostReadiness
    <3> QED
      BY <1>o, <3>2, <3>4 DEF InsideGate
  <2>3. CASE gate.at # "ended"
    <3>1. GateStep /\ driver' = driver
      BY <1>7, <2>3 DEF LeaveGate
    <3>2. gate.at \in Leaving /\ GateGivesBack
      BY <1>2, <2>1 DEF SmokeInv, GateFollowsDriver
    <3>3. gate'.failed = gate.failed
      BY <1>1, <3>1, <3>2, GateLeaves
    <3>4. WitnessInv'
      BY <1>2, <2>1, <3>1, <3>3 DEF WitnessInv, Identified, WitnessedHost, RequiresHostReadiness
    <3> QED
      BY <1>o, <2>1, <3>1, <3>4 DEF InsideGate
  <2> QED
    BY <2>2, <2>3
<1>8. CASE InspectBaselineRuntime
  <2>1. CASE InspectInstalledRuntimeTree
    <3>1. driver'.at = "gate" /\ installed' = installed /\ installed.version # "none"
      BY <1>8, <1>m, <2>1 DEF InspectBaselineRuntime, InspectInstalledRuntimeTree, Nothing
    <3> QED
      BY <3>1, NotWitnessed DEF DesktopInv, Closed, Nothing
  <2>2. CASE ~InspectInstalledRuntimeTree
    <3>1. driver'.at = "cleanup" /\ driver'.failed
      BY <1>8, <1>m, <2>2 DEF InspectBaselineRuntime
    <3> QED
      BY <1>f, <3>1
  <2> QED
    BY <2>1, <2>2
<1>9. CASE StartSmoke \/ AssertRunner \/ InstallBaseline
  <2>1. \/ driver'.at \in {"runner", "install", "inspect"}
        \/ driver'.at = "cleanup" /\ driver'.failed
    <3>1. CASE StartSmoke
      BY <1>1, <3>1 DEF StartSmoke, DriverTyped
    <3>2. CASE AssertRunner
      BY <1>m, <3>2 DEF AssertRunner
    <3>3. CASE InstallBaseline
      <4>1. driver' = [driver EXCEPT !.at = "inspect", !.known = TRUE] \/ Fail
        BY <3>3 DEF InstallBaseline
      <4> QED
        BY <1>1, <1>m, <4>1 DEF DriverTyped
    <3> QED
      BY <1>9, <3>1, <3>2, <3>3
  <2> QED
    BY <1>o, <1>f, <2>1, NotWitnessed DEF InsideGate
<1>10. CASE Cleanup
  <2>1. PICK uninstall \in CommandOutcomes :
          driver' = [driver EXCEPT !.at = "report", !.failed = driver.failed \/ ~uninstall.ok]
    BY <1>10 DEF Cleanup
  <2>2. /\ driver'.at = "report" /\ driver'.overtaken = driver.overtaken
        /\ driver'.failed = (driver.failed \/ ~uninstall.ok)
    BY <1>1, <2>1 DEF DriverTyped
  <2>3. driver.at = "cleanup" /\ UNCHANGED <<target, witness>>
    BY <1>10 DEF Cleanup
  <2>4. ~driver'.failed => ~driver.failed
    BY <2>2
  <2>5. WitnessInv'
    BY <1>2, <2>2, <2>3, <2>4 DEF WitnessInv, Identified, WitnessedHost, RequiresHostReadiness
  <2> QED
    BY <1>o, <2>2, <2>5 DEF InsideGate
<1> QED
  BY <1>3, <1>4, <1>5, <1>6, <1>7, <1>8, <1>9, <1>10 DEF SmokeStep

-----------------------------------------------------------------------------
(* The theorems about the smoke. *)

LEMMA SmokeBegins == Init => SmokeInv
<1> SUFFICES ASSUME SmokeInit PROVE SmokeInv
  BY DEF Init
<1>1. commands \in Seq({"release", "close"}) /\ events \in Seq(Events) /\ Len(commands) = 0
  BY EmptySeq DEF SmokeInit, GateInit
<1>2. NativeSmokeTypeOK
  BY <1>1 DEF SmokeInit, GateInit, NativeSmokeTypeOK, GateTypeOK, GateSteps, DriverSteps,
     Versions, Nothing, NoInstallation
<1>3. driver.at = "idle" /\ gate.at = "idle" /\ ~gate.failed /\ ~helper.answered
  BY DEF SmokeInit, GateInit
<1>4. GateFollowsDriver /\ GateHolds /\ GateGivesBack
  BY <1>3 DEF GateFollowsDriver, GateHolds, GateGivesBack, Before, InsideGate, Routed, Leaving
<1>5. ReleaseIsLate
  BY <1>1, <1>3 DEF ReleaseIsLate, ReleaseSent
<1>6. DesktopInv /\ WitnessInv
  BY <1>3 DEF DesktopInv, WitnessInv, Identified, InsideGate, Closed
<1> QED
  BY <1>2, <1>4, <1>5, <1>6 DEF SmokeInv

LEMMA SmokeKept ==
  ASSUME SmokeInv, [Next]_vars
  PROVE  SmokeInv'
<1>1. CASE SmokeGoesOn
  BY <1>1, SmokeTyped, GateKept, DesktopKept DEF SmokeGoesOn, SmokeInv
<1>2. CASE UNCHANGED smokeVars
  <2>1. NativeSmokeTypeOK'
    BY <1>2 DEF SmokeInv, NativeSmokeTypeOK, GateTypeOK
  <2>2. GateFollowsDriver' /\ GateHolds' /\ GateGivesBack' /\ ReleaseIsLate'
    BY <1>2 DEF SmokeInv, GateFollowsDriver, GateHolds, GateGivesBack, ReleaseIsLate, ReleaseSent
  <2>3. DesktopInv' /\ WitnessInv'
    BY <1>2 DEF SmokeInv, DesktopInv, DesktopRuns, WitnessInv, Witnesses, Identified, WitnessedHost,
       RequiresHostReadiness
  <2> QED
    BY <2>1, <2>2, <2>3 DEF SmokeInv
<1> QED
  BY <1>1, <1>2 DEF Next, PromotionsGoOn, vars

(***************************************************************************)
(* What the smoke keeps of the gate, the helper, the Desktop and the       *)
(* installation stays in its types on every target                         *)
(* (native-update-smoke-driver.mjs, update-smoke-tls-gate.mjs).            *)
(***************************************************************************)
THEOREM SmokeTypeCorrect == Spec => []NativeSmokeTypeOK
<1>1. SmokeInv => NativeSmokeTypeOK
  BY DEF SmokeInv
<1> QED
  BY SmokeBegins, SmokeKept, <1>1, PTL DEF Spec

(***************************************************************************)
(* A smoke that reports success saw the candidate where the baseline had   *)
(* been, started by the driver or after its last look, and the candidate's *)
(* Host, whatever the Desktop, the helper and the commands did             *)
(* (native-update-smoke-driver.mjs, native-update-platform-adapter.mjs).   *)
(***************************************************************************)
THEOREM EvidenceAlwaysTrue == Spec => []EvidenceIsTrue
<1>1. SmokeInv => EvidenceIsTrue
  BY DEF SmokeInv, WitnessInv, Identified, WitnessedHost, EvidenceIsTrue, SmokeSucceeded
<1> QED
  BY SmokeBegins, SmokeKept, <1>1, PTL DEF Spec

(***************************************************************************)
(* The manifest leaves the gate only while the hosts file is the original, *)
(* and a gate that ends without a failure has given everything back        *)
(* (withUpdateSmokeTlsGate and its finally block).                         *)
(***************************************************************************)
THEOREM RunnerAlwaysRestored == Spec => []RunnerIsRestored
<1>1. SmokeInv => RunnerIsRestored
  <2> SUFFICES ASSUME SmokeInv PROVE RunnerIsRestored
    OBVIOUS
  <2>1. SmokeSucceeded => At("ended") /\ ~gate.failed /\ ~gate.unclean
    BY DEF SmokeInv, GateFollowsDriver, SmokeSucceeded
  <2>2. At("ended") /\ ~gate.failed /\ ~gate.unclean =>
          hosts = "original" /\ trust = "absent" /\ helper.life = "dead" /\ ~saved
    BY DEF SmokeInv, GateGivesBack, Leaving
  <2> QED
    BY <2>1, <2>2 DEF SmokeInv, ReleaseIsLate, RunnerIsRestored
<1> QED
  BY SmokeBegins, SmokeKept, <1>1, PTL DEF Spec
=============================================================================
