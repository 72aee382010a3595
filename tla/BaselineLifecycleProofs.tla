----------------------- MODULE BaselineLifecycleProofs -----------------------
(***************************************************************************)
(* Theorems about BaselineLifecycle for any models, candidates, benchmark  *)
(* runs, observations and bounds.                                          *)
(*                                                                         *)
(* Documents are never compared with a set of all documents: a store holds *)
(* SOME set of them, and what is known of a document is said by a          *)
(* predicate on its fields (IsReview ... IsRecovery), which the gate that  *)
(* makes it establishes and the gate that takes it relies on.              *)
(***************************************************************************)
EXTENDS BaselineLifecycle, SequenceTheorems, TLAPS

MaybeModel == Models \cup {None}

OrchestrationIn(E) == [stage : 0 .. 13, learning : SUBSET LearningKinds,
                       evidence : [StageNames -> SUBSET E]]

RecordIn(E) == [kind : {"bootstrap", "canonicalization", "rollback"},
                model : Models, previous : MaybeModel, rollback : MaybeModel,
                evidence : SUBSET E]

WatchIn(E) == [stage : 0 .. 6, baseline : Nat, model : MaybeModel,
               evidence : [Stages -> SUBSET E]]

-----------------------------------------------------------------------------
(* The stages.                                                              *)

LEMMA Names ==
    /\ {"plan_verified", "execution_verified", "dataset_curated",
        "training_completed", "model_registered", "promotion_reviewed",
        "activation_requested", "activation_recorded",
        "shadow_health_reviewed", "canonical_reviewed",
        "canonicalization_recorded", "post_canonical_stability_reviewed",
        "baseline_registered"} \subseteq StageNames
    /\ Len(StageName) = 13
    /\ DOMAIN StageName = 1 .. 13
<1>1. DOMAIN StageName = 1 .. 13 /\ Len(StageName) = 13
  BY DEF StageName
<1>2. \A i \in 1 .. 13 : StageName[i] \in StageNames
  BY <1>1 DEF StageNames
<1> QED BY <1>1, <1>2 DEF StageName

LEMMA PlaceIsPlace ==
    ASSUME NEW name \in StageNames
    PROVE  Place[name] \in 1 .. 13 /\ StageName[Place[name]] = name
<1>1. PICK i \in 1 .. 13 : StageName[i] = name
  BY Names DEF StageNames
<1>2. Place[name] = CHOOSE j \in DOMAIN StageName : StageName[j] = name
  BY DEF Place
<1> QED BY <1>1, <1>2, Names

LEMMA PlaceOfStage ==
    ASSUME NEW i \in 1 .. 13
    PROVE  StageName[i] \in StageNames /\ Place[StageName[i]] = i
<1>1. StageName[i] \in StageNames
  BY Names DEF StageNames
<1>2. \A j \in 1 .. 13 : StageName[j] = StageName[i] => j = i
  BY DEF StageName
<1> QED BY <1>1, <1>2, PlaceIsPlace

-----------------------------------------------------------------------------
(* What is known of each document of a promotion.                           *)

IsReview(d) == /\ d.candidate \in Models /\ d.baseline \in Models
               /\ d.candidate # d.baseline

IsRequest(d) == /\ IsReview(d.review) /\ d.review.decision = "eligible"
                /\ d.candidate = d.review.candidate
                /\ d.current = d.review.baseline /\ d.rollback = d.current

IsActivation(d) == /\ IsRequest(d.request)
                   /\ d.candidate = d.request.candidate
                   /\ d.previous = d.request.current
                   /\ d.rollback = d.request.rollback
                   /\ d.outcome = "activated" => d.observed = d.candidate

IsShadow(d) == IsActivation(d.receipt) /\ d.receipt.outcome = "activated"

IsCanonicalReview(d) ==
    /\ IsShadow(d.shadow)
    /\ d.candidate = d.shadow.receipt.candidate
    /\ d.rollback = d.shadow.receipt.rollback
    /\ d.decision = "eligible" => /\ d.shadow.decision = "eligible"
                                  /\ d.current = d.shadow.receipt.previous
                                  /\ d.rollback = d.current

IsCanonicalization(d) ==
    /\ IsCanonicalReview(d.review) /\ d.review.decision = "eligible"
    /\ d.candidate = d.review.candidate
    /\ d.previous = d.review.current
    /\ d.rollback = d.review.rollback
    /\ d.outcome = "canonicalized" => d.observed = d.candidate

IsStability(d) ==
    IsCanonicalization(d.receipt) /\ d.receipt.outcome = "canonicalized"

\* What a stage may hold.
MayHold(c, name, d) ==
    /\ name = "model_registered" => d = c
    /\ name = "promotion_reviewed" => IsReview(d)
    /\ name = "activation_requested" => IsRequest(d)
    /\ name = "activation_recorded" => IsActivation(d)
    /\ name = "shadow_health_reviewed" => IsShadow(d)
    /\ name = "canonical_reviewed" => IsCanonicalReview(d)
    /\ name = "canonicalization_recorded" => IsCanonicalization(d)
    /\ name = "post_canonical_stability_reviewed" => IsStability(d)

OrchestrationsTyped ==
    \E E : orchestrations \in [Candidates -> OrchestrationIn(E)]

\* Every stage that is reached has a document, and one that it may have.
OrchestrationsHold ==
    \A c \in Candidates, name \in StageNames :
        /\ orchestrations[c].evidence[name] # {}
               <=> Place[name] <= orchestrations[c].stage
        /\ \A d \in orchestrations[c].evidence[name] : MayHold(c, name, d)

OrchestrationsInv == OrchestrationsTyped /\ OrchestrationsHold

LEMMA EvidenceHolds ==
    ASSUME OrchestrationsInv, NEW c \in Candidates, NEW name \in StageNames,
           Place[name] <= orchestrations[c].stage
    PROVE  /\ Evidence(c, name) \in orchestrations[c].evidence[name]
           /\ MayHold(c, name, Evidence(c, name))
<1>1. PICK d : d \in orchestrations[c].evidence[name]
  BY DEF OrchestrationsInv, OrchestrationsHold
<1>2. Evidence(c, name) \in orchestrations[c].evidence[name]
  BY <1>1 DEF Evidence
<1> QED BY <1>2 DEF OrchestrationsInv, OrchestrationsHold

\* Each document that is recorded is one its stage may hold.
LEMMA RecordKeeps ==
    ASSUME OrchestrationsInv, NEW c \in Candidates, NEW name \in StageNames,
           NEW d, Record(c, name, d), MayHold(c, name, d)
    PROVE  OrchestrationsInv'
<1> DEFINE o == orchestrations[c]
           new == [o EXCEPT !.stage = Place[name], !.evidence[name] = {d}]
<1>1. PICK E : orchestrations \in [Candidates -> OrchestrationIn(E)]
  BY DEF OrchestrationsInv, OrchestrationsTyped
<1>2. o \in OrchestrationIn(E \cup {d})
  BY <1>1 DEF OrchestrationIn
<1>3. Place[name] = o.stage + 1 /\ Place[name] \in 1 .. 13
  BY PlaceIsPlace DEF Record, IsNext
<1>4. orchestrations' = [orchestrations EXCEPT ![c] = new]
  BY <1>1 DEF Record, OrchestrationIn
<1>5. /\ new.stage = o.stage + 1 /\ new.learning = o.learning
      /\ new.evidence = [o.evidence EXCEPT ![name] = {d}]
  BY <1>2, <1>3 DEF OrchestrationIn
<1>6. new \in OrchestrationIn(E \cup {d})
  <2> DEFINE mid == [o EXCEPT !.stage = Place[name]]
             held == [o.evidence EXCEPT ![name] = {d}]
  <2>1. held \in [StageNames -> SUBSET (E \cup {d})]
    BY <1>2 DEF OrchestrationIn
  <2>2. mid \in OrchestrationIn(E \cup {d}) /\ mid.evidence = o.evidence
    BY <1>2, <1>3 DEF OrchestrationIn
  <2>3. new = [mid EXCEPT !.evidence[name] = {d}]
    OBVIOUS
  <2>4. new = [mid EXCEPT !.evidence = held]
    BY <2>2, <2>3
  <2> HIDE DEF mid, held, new
  <2> QED BY <2>1, <2>2, <2>4 DEF OrchestrationIn
<1>7. orchestrations' \in [Candidates -> OrchestrationIn(E \cup {d})]
  <2>1. \A x \in Candidates : orchestrations[x] \in OrchestrationIn(E \cup {d})
    BY <1>1 DEF OrchestrationIn
  <2> QED BY <1>1, <1>4, <1>6, <2>1
<1>8. ASSUME NEW x \in Candidates, NEW n \in StageNames
      PROVE  /\ orchestrations'[x].evidence[n] # {}
                    <=> Place[n] <= orchestrations'[x].stage
             /\ \A g \in orchestrations'[x].evidence[n] : MayHold(x, n, g)
  <2>1. CASE x # c
    <3>1. orchestrations'[x] = orchestrations[x]
      BY <1>1, <1>4, <2>1
    <3> QED BY <3>1 DEF OrchestrationsInv, OrchestrationsHold
  <2>2. CASE x = c /\ n = name
    <3>1. orchestrations'[x] = new /\ new.evidence[n] = {d}
      BY <1>1, <1>2, <1>4, <1>5, <2>2 DEF OrchestrationIn
    <3> QED BY <3>1, <1>3, <1>5, <2>2
  <2>3. CASE x = c /\ n # name
    <3>1. orchestrations'[x] = new /\ new.evidence[n] = o.evidence[n]
      BY <1>1, <1>2, <1>4, <1>5, <2>3 DEF OrchestrationIn
    <3>2. Place[n] # Place[name] /\ Place[n] \in 1 .. 13
      BY PlaceIsPlace, <2>3
    <3>3. o.stage \in Nat
      BY <1>2 DEF OrchestrationIn
    <3>4. Place[n] <= o.stage <=> Place[n] <= o.stage + 1
      BY <1>3, <3>2, <3>3
    <3> QED BY <3>1, <3>4, <1>5, <2>3 DEF OrchestrationsInv, OrchestrationsHold
  <2> QED BY <2>1, <2>2, <2>3
<1>9. OrchestrationsTyped'
  BY <1>7 DEF OrchestrationsTyped, OrchestrationIn
<1>10. OrchestrationsHold'
  BY <1>8 DEF OrchestrationsHold, MayHold
<1> QED BY <1>9, <1>10 DEF OrchestrationsInv

LEMMA AttachKeeps ==
    ASSUME OrchestrationsInv, NEW c \in Candidates,
           NEW given \in SUBSET LearningKinds, AttachLearningEvidence(c, given)
    PROVE  OrchestrationsInv'
<1> DEFINE o == orchestrations[c]
           new == [o EXCEPT !.learning = o.learning \cup given]
<1>1. PICK E : orchestrations \in [Candidates -> OrchestrationIn(E)]
  BY DEF OrchestrationsInv, OrchestrationsTyped
<1>2. orchestrations' = [orchestrations EXCEPT ![c] = new]
  BY <1>1 DEF AttachLearningEvidence, OrchestrationIn
<1>3. /\ new \in OrchestrationIn(E)
      /\ new.stage = o.stage /\ new.evidence = o.evidence
  BY <1>1 DEF OrchestrationIn
<1>4. orchestrations' \in [Candidates -> OrchestrationIn(E)]
  BY <1>1, <1>2, <1>3
<1>5. \A x \in Candidates :
          /\ orchestrations'[x].stage = orchestrations[x].stage
          /\ orchestrations'[x].evidence = orchestrations[x].evidence
  BY <1>1, <1>2, <1>3
<1>6. OrchestrationsTyped'
  BY <1>4 DEF OrchestrationsTyped, OrchestrationIn
<1>7. OrchestrationsHold'
  BY <1>5 DEF OrchestrationsInv, OrchestrationsHold
<1> QED BY <1>6, <1>7 DEF OrchestrationsInv

LEMMA EmptyHolds ==
    /\ \A E : NotStarted \in OrchestrationIn(E)
    /\ \A name \in StageNames :
           /\ NotStarted.evidence[name] = {}
           /\ ~(Place[name] <= NotStarted.stage)
BY PlaceIsPlace DEF NotStarted, NoDocument, OrchestrationIn

LEMMA StartOverKeeps ==
    ASSUME OrchestrationsInv, NEW c \in Candidates, StartOver(c)
    PROVE  OrchestrationsInv'
<1>1. PICK E : orchestrations \in [Candidates -> OrchestrationIn(E)]
  BY DEF OrchestrationsInv, OrchestrationsTyped
<1>2. orchestrations' = [orchestrations EXCEPT ![c] = NotStarted]
  BY DEF StartOver
<1>3. orchestrations' \in [Candidates -> OrchestrationIn(E)]
  BY <1>1, <1>2, EmptyHolds
<1>4. OrchestrationsTyped'
  BY <1>3 DEF OrchestrationsTyped, OrchestrationIn
<1>5. ASSUME NEW x \in Candidates, NEW n \in StageNames
      PROVE  /\ orchestrations'[x].evidence[n] # {}
                    <=> Place[n] <= orchestrations'[x].stage
             /\ \A g \in orchestrations'[x].evidence[n] : MayHold(x, n, g)
  <2>1. CASE x # c
    BY <1>1, <1>2, <2>1 DEF OrchestrationsInv, OrchestrationsHold
  <2>2. CASE x = c
    <3>1. orchestrations'[x] = NotStarted
      BY <1>1, <1>2, <2>2
    <3> QED BY <3>1, EmptyHolds
  <2> QED BY <2>1, <2>2
<1>6. OrchestrationsHold'
  BY <1>5 DEF OrchestrationsHold, MayHold
<1> QED BY <1>4, <1>6 DEF OrchestrationsInv

\* What each action records is what its stage may hold: one step per gate.
LEMMA GatesKeep ==
    ASSUME OrchestrationsInv, NEW c \in Candidates, Orchestrate(c),
           \A i \in DOMAIN records : records[i].model \in Models
    PROVE  OrchestrationsInv'
<1> DEFINE E(name) == Evidence(c, name)
<1>a. Baselines \subseteq Models
  BY DEF Baselines
<1>b. ASSUME NEW s \in StageNames, NEW n \in StageNames, IsNext(c, s),
             Place[n] <= Place[s] - 1
      PROVE  MayHold(c, n, E(n))
  <2>1. Place[n] <= orchestrations[c].stage
    <3>1. PICK S : orchestrations \in [Candidates -> OrchestrationIn(S)]
      BY DEF OrchestrationsInv, OrchestrationsTyped
    <3>2. orchestrations[c].stage \in Nat
      BY <3>1 DEF OrchestrationIn
    <3> QED BY <1>b, <3>2 DEF IsNext
  <2> QED BY <2>1, EvidenceHolds
<1>c. /\ Place["model_registered"] = 5 /\ Place["promotion_reviewed"] = 6
      /\ Place["activation_requested"] = 7 /\ Place["activation_recorded"] = 8
      /\ Place["shadow_health_reviewed"] = 9 /\ Place["canonical_reviewed"] = 10
      /\ Place["canonicalization_recorded"] = 11
      /\ Place["post_canonical_stability_reviewed"] = 12
  <2>1. \A i \in 1 .. 13 : Place[StageName[i]] = i
    BY PlaceOfStage
  <2> QED BY <2>1 DEF StageName
<1>1. CASE Prepare(c)
  <2>1. \/ Record(c, "plan_verified", "plan")
        \/ Record(c, "execution_verified", "outcome")
        \/ Record(c, "dataset_curated", "manifest")
        \/ \E outcome \in TrainingOutcome :
               Record(c, "training_completed", outcome)
    BY <1>1 DEF Prepare
  <2>2. \A n \in {"plan_verified", "execution_verified", "dataset_curated",
                  "training_completed"} : \A d :
            n \in StageNames /\ MayHold(c, n, d)
    BY Names DEF MayHold
  <2>3. \A n \in StageNames : \A d :
            Record(c, n, d) /\ MayHold(c, n, d) => OrchestrationsInv'
    BY RecordKeeps
  <2> QED BY <2>1, <2>2, <2>3
<1>2. CASE \E given \in SUBSET LearningKinds : AttachLearningEvidence(c, given)
  BY <1>2, AttachKeeps
<1>3. CASE RegisterCandidate(c)
  <2>1. Record(c, "model_registered", c)
    BY <1>3 DEF RegisterCandidate
  <2>2. MayHold(c, "model_registered", c)
    BY DEF MayHold
  <2> QED BY <2>1, <2>2, Names, RecordKeeps
<1>4. CASE \E b \in Baselines, r, s \in BenchmarkRuns : Review(c, b, r, s)
  <2>1. PICK b \in Baselines, r \in BenchmarkRuns, s \in BenchmarkRuns :
            Review(c, b, r, s)
    BY <1>4
  <2> DEFINE d == PromotionReview(E("model_registered"), b, Compare(r, s))
  <2>2. Record(c, "promotion_reviewed", d) /\ E("model_registered") # b
        /\ IsNext(c, "promotion_reviewed")
    BY <2>1 DEF Review
  <2>3. E("model_registered") = c
    BY <1>b, <1>c, <2>2, Names DEF MayHold
  <2>4. IsReview(d)
    BY <2>2, <2>3, <1>a, CandidatesAssumption DEF IsReview, PromotionReview
  <2>5. MayHold(c, "promotion_reviewed", d)
    BY <2>4 DEF MayHold
  <2> QED BY <2>2, <2>5, Names, RecordKeeps
<1>5. CASE \E b \in Baselines : Request(c, b)
  <2>1. PICK b \in Baselines : Request(c, b)
    BY <1>5
  <2> DEFINE d == ActivationRequest(E("promotion_reviewed"), b)
  <2>2. /\ Record(c, "activation_requested", d)
        /\ MayRequest(E("promotion_reviewed"), b)
        /\ IsNext(c, "activation_requested")
    BY <2>1 DEF Request
  <2>3. IsReview(E("promotion_reviewed"))
    BY <1>b, <1>c, <2>2, Names DEF MayHold
  <2>4. IsRequest(d)
    BY <2>2, <2>3 DEF IsRequest, ActivationRequest, MayRequest
  <2>5. MayHold(c, "activation_requested", d)
    BY <2>4 DEF MayHold
  <2> QED BY <2>2, <2>5, Names, RecordKeeps
<1>6. CASE \E outcome \in ActivationOutcome : Activate(c, outcome)
  <2> DEFINE q == E("activation_requested")
  <2>1. PICK outcome \in ActivationOutcome : Activate(c, outcome)
    BY <1>6
  <2>2. PICK observed \in ActivationObserves(q, outcome) :
            Record(c, "activation_recorded", ActivationReceipt(q, outcome, observed))
    BY <2>1 DEF Activate
  <2> DEFINE d == ActivationReceipt(q, outcome, observed)
  <2>3. IsRequest(q)
    BY <1>b, <1>c, <2>1, Names DEF MayHold, Activate
  <2>4. outcome = "activated" => observed = q.candidate
    BY <2>2 DEF ActivationObserves
  <2>5. IsActivation(d)
    BY <2>3, <2>4 DEF IsActivation, ActivationReceipt
  <2>6. MayHold(c, "activation_recorded", d)
    BY <2>5 DEF MayHold
  <2> QED BY <2>2, <2>6, Names, RecordKeeps
<1>7. CASE \E statuses \in Observations : CheckShadow(c, statuses)
  <2>1. PICK statuses \in Observations : CheckShadow(c, statuses)
    BY <1>7
  <2> DEFINE d == ShadowHealth(E("activation_recorded"), statuses)
  <2>2. /\ Record(c, "shadow_health_reviewed", d)
        /\ E("activation_recorded").outcome = "activated"
        /\ IsNext(c, "shadow_health_reviewed")
    BY <2>1 DEF CheckShadow
  <2>3. IsActivation(E("activation_recorded"))
    BY <1>b, <1>c, <2>2, Names DEF MayHold
  <2>4. IsShadow(d)
    BY <2>2, <2>3 DEF IsShadow, ShadowHealth
  <2>5. MayHold(c, "shadow_health_reviewed", d)
    BY <2>4 DEF MayHold
  <2> QED BY <2>2, <2>5, Names, RecordKeeps
<1>8. CASE \E b \in Baselines : ReviewCanonical(c, b)
  <2>1. PICK b \in Baselines : ReviewCanonical(c, b)
    BY <1>8
  <2> DEFINE shadow == E("shadow_health_reviewed")
             d == CanonicalReview(shadow, b)
  <2>2. Record(c, "canonical_reviewed", d) /\ IsNext(c, "canonical_reviewed")
    BY <2>1 DEF ReviewCanonical
  <2>3. IsShadow(shadow)
    BY <1>b, <1>c, <2>2, Names DEF MayHold
  <2>4. IsCanonicalReview(d)
    BY <2>3 DEF IsCanonicalReview, CanonicalReview, Decision
  <2>5. MayHold(c, "canonical_reviewed", d)
    BY <2>4 DEF MayHold
  <2> QED BY <2>2, <2>5, Names, RecordKeeps
<1>9. CASE \E outcome \in CanonicalizationOutcome : Canonicalize(c, outcome)
  <2> DEFINE review == E("canonical_reviewed")
  <2>1. PICK outcome \in CanonicalizationOutcome : Canonicalize(c, outcome)
    BY <1>9
  <2>2. PICK observed \in CanonicalObserves(review, outcome) :
            Record(c, "canonicalization_recorded",
                   CanonicalizationReceipt(review, outcome, observed))
    BY <2>1 DEF Canonicalize
  <2> DEFINE d == CanonicalizationReceipt(review, outcome, observed)
  <2>3. IsCanonicalReview(review) /\ review.decision = "eligible"
    BY <1>b, <1>c, <2>1, Names DEF MayHold, Canonicalize
  <2>4. outcome = "canonicalized" => observed = review.candidate
    BY <2>2 DEF CanonicalObserves
  <2>5. IsCanonicalization(d)
    BY <2>3, <2>4 DEF IsCanonicalization, CanonicalizationReceipt
  <2>6. MayHold(c, "canonicalization_recorded", d)
    BY <2>5 DEF MayHold
  <2> QED BY <2>2, <2>6, Names, RecordKeeps
<1>10. CASE \E rounds \in [1 .. StabilityRounds -> Round] :
               ObserveStability(c, rounds)
  <2>1. PICK rounds \in [1 .. StabilityRounds -> Round] :
            ObserveStability(c, rounds)
    BY <1>10
  <2> DEFINE d == Stability(E("canonicalization_recorded"), rounds)
  <2>2. /\ Record(c, "post_canonical_stability_reviewed", d)
        /\ E("canonicalization_recorded").outcome = "canonicalized"
        /\ IsNext(c, "post_canonical_stability_reviewed")
    BY <2>1 DEF ObserveStability
  <2>3. IsCanonicalization(E("canonicalization_recorded"))
    BY <1>b, <1>c, <2>2, Names DEF MayHold
  <2>4. IsStability(d)
    BY <2>2, <2>3 DEF IsStability, Stability
  <2>5. MayHold(c, "post_canonical_stability_reviewed", d)
    BY <2>4 DEF MayHold
  <2> QED BY <2>2, <2>5, Names, RecordKeeps
<1>11. CASE \E generation \in DOMAIN records : RecordBaseline(c, generation)
  <2>1. PICK generation \in DOMAIN records : RecordBaseline(c, generation)
    BY <1>11
  <2>2. Record(c, "baseline_registered", generation)
    BY <2>1 DEF RecordBaseline
  <2>3. MayHold(c, "baseline_registered", generation)
    BY DEF MayHold
  <2> QED BY <2>2, <2>3, Names, RecordKeeps
<1>12. CASE StartOver(c)
  BY <1>12, StartOverKeeps
<1> QED BY <1>1, <1>2, <1>3, <1>4, <1>5, <1>6, <1>7, <1>8, <1>9, <1>10, <1>11,
           <1>12 DEF Orchestrate

-----------------------------------------------------------------------------
(* An orchestration that is opened again.                                   *)

LEMMA EveryStepRecords ==
    ASSUME NEW c \in Candidates, Orchestrate(c)
    PROVE  \/ \E name \in StageNames : \E d : Record(c, name, d)
           \/ \E given \in SUBSET LearningKinds : AttachLearningEvidence(c, given)
           \/ StartOver(c)
<1> DEFINE Recorded_(n) == \E d : Record(c, n, d)
<1>1. \/ \E n \in {"plan_verified", "execution_verified", "dataset_curated",
                  "training_completed", "model_registered", "promotion_reviewed",
                  "activation_requested", "activation_recorded",
                  "shadow_health_reviewed", "canonical_reviewed",
                  "canonicalization_recorded",
                  "post_canonical_stability_reviewed",
                  "baseline_registered"} : Recorded_(n)
      \/ \E given \in SUBSET LearningKinds : AttachLearningEvidence(c, given)
      \/ StartOver(c)
  <2>1. Prepare(c) => \E n \in {"plan_verified", "execution_verified",
                                "dataset_curated", "training_completed"} :
                         Recorded_(n)
    BY DEF Prepare
  <2>2. RegisterCandidate(c) => Recorded_("model_registered")
    BY DEF RegisterCandidate
  <2>3. (\E b \in Baselines, r, s \in BenchmarkRuns : Review(c, b, r, s))
            => Recorded_("promotion_reviewed")
    BY DEF Review
  <2>4. (\E b \in Baselines : Request(c, b)) => Recorded_("activation_requested")
    BY DEF Request
  <2>5. (\E outcome \in ActivationOutcome : Activate(c, outcome))
            => Recorded_("activation_recorded")
    BY DEF Activate
  <2>6. (\E statuses \in Observations : CheckShadow(c, statuses))
            => Recorded_("shadow_health_reviewed")
    BY DEF CheckShadow
  <2>7. (\E b \in Baselines : ReviewCanonical(c, b))
            => Recorded_("canonical_reviewed")
    BY DEF ReviewCanonical
  <2>8. (\E outcome \in CanonicalizationOutcome : Canonicalize(c, outcome))
            => Recorded_("canonicalization_recorded")
    BY DEF Canonicalize
  <2>9. (\E rounds \in [1 .. StabilityRounds -> Round] :
             ObserveStability(c, rounds))
            => Recorded_("post_canonical_stability_reviewed")
    BY DEF ObserveStability
  <2>10. (\E generation \in DOMAIN records : RecordBaseline(c, generation))
             => Recorded_("baseline_registered")
    BY DEF RecordBaseline
  <2> HIDE DEF Recorded_
  <2> QED BY <2>1, <2>2, <2>3, <2>4, <2>5, <2>6, <2>7, <2>8, <2>9, <2>10
          DEF Orchestrate
<1> QED BY <1>1, Names

LEMMA RecordReloads ==
    ASSUME OrchestrationsInv, OrchestrationsInv', NEW c \in Candidates,
           NEW name \in StageNames, NEW d, Record(c, name, d)
    PROVE  OrchestrationReloads(orchestrations[c], orchestrations'[c])
<1> DEFINE o == orchestrations[c]
           new == orchestrations'[c]
<1>1. PICK E : orchestrations \in [Candidates -> OrchestrationIn(E)]
  BY DEF OrchestrationsInv, OrchestrationsTyped
<1>2. o \in OrchestrationIn(E)
  BY <1>1
<1>3. new = [o EXCEPT !.stage = Place[name], !.evidence[name] = {d}]
  BY <1>1 DEF Record
<1>4. /\ new.stage = Place[name] /\ new.learning = o.learning
      /\ new.evidence = [o.evidence EXCEPT ![name] = {d}]
  BY <1>2, <1>3 DEF OrchestrationIn
<1>5. Place[name] = o.stage + 1 /\ o.stage \in Nat /\ new.stage \in 0 .. 13
  BY <1>2, <1>4, PlaceIsPlace DEF Record, IsNext, OrchestrationIn
<1>6. \A i \in 1 .. new.stage : new.evidence[StageName[i]] # NoDocument
  <2> TAKE i \in 1 .. new.stage
  <2>1. i \in 1 .. 13
    BY <1>5
  <2>2. StageName[i] \in StageNames /\ Place[StageName[i]] <= new.stage
    BY <2>1, <1>5, PlaceOfStage
  <2> QED BY <2>2 DEF OrchestrationsInv, OrchestrationsHold, NoDocument
<1>7. \A n \in StageNames : o.evidence[n] \in {NoDocument, new.evidence[n]}
  <2> TAKE n \in StageNames
  <2>1. CASE n = name
    <3>1. ~(Place[n] <= o.stage)
      BY <1>5, <2>1
    <3>2. o.evidence[n] = {}
      BY <3>1 DEF OrchestrationsInv, OrchestrationsHold
    <3> QED BY <3>2 DEF NoDocument
  <2>2. CASE n # name
    BY <1>2, <1>4, <2>2 DEF OrchestrationIn
  <2> QED BY <2>1, <2>2
<1>8. new.stage >= o.stage
  BY <1>4, <1>5
<1> QED BY <1>4, <1>6, <1>7, <1>8 DEF OrchestrationReloads

LEMMA AttachReloads ==
    ASSUME OrchestrationsInv, NEW c \in Candidates,
           NEW given \in SUBSET LearningKinds, AttachLearningEvidence(c, given)
    PROVE  OrchestrationReloads(orchestrations[c], orchestrations'[c])
<1> DEFINE o == orchestrations[c]
           new == orchestrations'[c]
<1>1. PICK E : orchestrations \in [Candidates -> OrchestrationIn(E)]
  BY DEF OrchestrationsInv, OrchestrationsTyped
<1>2. o \in OrchestrationIn(E)
  BY <1>1
<1>3. new = [o EXCEPT !.learning = o.learning \cup given]
  BY <1>1 DEF AttachLearningEvidence
<1>4. /\ new.stage = o.stage /\ new.evidence = o.evidence
      /\ new.learning = o.learning \cup given
      /\ o.stage \in 0 .. 13
  BY <1>2, <1>3 DEF OrchestrationIn
<1>5. \A i \in 1 .. new.stage : new.evidence[StageName[i]] # NoDocument
  <2> TAKE i \in 1 .. new.stage
  <2>1. i \in 1 .. 13
    BY <1>4
  <2>2. StageName[i] \in StageNames /\ Place[StageName[i]] <= o.stage
    BY <2>1, <1>4, PlaceOfStage
  <2> QED BY <1>4, <2>2 DEF OrchestrationsInv, OrchestrationsHold, NoDocument
<1>6. new.stage >= o.stage
  BY <1>4
<1> QED BY <1>4, <1>5, <1>6 DEF OrchestrationReloads

LEMMA UntouchedReloads ==
    ASSUME OrchestrationsInv, NEW c \in Candidates,
           orchestrations'[c] = orchestrations[c]
    PROVE  OrchestrationReloads(orchestrations[c], orchestrations'[c])
<1> DEFINE o == orchestrations[c]
<1>1. PICK E : orchestrations \in [Candidates -> OrchestrationIn(E)]
  BY DEF OrchestrationsInv, OrchestrationsTyped
<1>2. o.stage \in 0 .. 13
  BY <1>1 DEF OrchestrationIn
<1>3. \A i \in 1 .. o.stage : o.evidence[StageName[i]] # NoDocument
  <2> TAKE i \in 1 .. o.stage
  <2>1. i \in 1 .. 13
    BY <1>2
  <2>2. StageName[i] \in StageNames /\ Place[StageName[i]] <= o.stage
    BY <2>1, <1>2, PlaceOfStage
  <2> QED BY <2>2 DEF OrchestrationsInv, OrchestrationsHold, NoDocument
<1>4. o.stage >= o.stage
  BY <1>2
<1> QED BY <1>3, <1>4 DEF OrchestrationReloads

LEMMA StepReloads ==
    ASSUME OrchestrationsInv, OrchestrationsInv', NEW c \in Candidates,
           Orchestrate(c)
    PROVE  \A x \in Candidates :
               \/ OrchestrationReloads(orchestrations[x], orchestrations'[x])
               \/ StartOver(x)
<1> TAKE x \in Candidates
<1>1. PICK E : orchestrations \in [Candidates -> OrchestrationIn(E)]
  BY DEF OrchestrationsInv, OrchestrationsTyped
<1>2. CASE x # c
  <2>1. orchestrations'[x] = orchestrations[x]
    BY <1>1, <1>2, EveryStepRecords
       DEF Record, AttachLearningEvidence, StartOver
  <2> QED BY <2>1, UntouchedReloads
<1>3. CASE x = c
  BY <1>3, EveryStepRecords, RecordReloads, AttachReloads
<1> QED BY <1>2, <1>3

-----------------------------------------------------------------------------
(* The registry.                                                            *)

RecordsTyped == \E E : records \in Seq(RecordIn(E))

\* What a rollback returns to is another model, since what it undoes was.
ModelsChange ==
    \A i \in DOMAIN records :
        records[i].kind = "canonicalization" =>
            records[i].model # records[i - 1].model

RegistryInv == /\ RecordsTyped
               /\ Len(records) <= MaxGenerations
               /\ RegistryReloads
               /\ EvidenceBacked
               /\ ModelsChange
               /\ RollbackReturns

LEMMA RecordWidens ==
    ASSUME NEW E, NEW F, NEW r \in RecordIn(E)
    PROVE  r \in RecordIn(E \cup F)
BY DEF RecordIn

LEMMA RecordsAppend ==
    ASSUME NEW E, records \in Seq(RecordIn(E)), NEW r \in RecordIn(E),
           records' = Append(records, r)
    PROVE  /\ records' \in Seq(RecordIn(E))
           /\ Len(records) \in Nat /\ Len(records') = Len(records) + 1
           /\ DOMAIN records = 1 .. Len(records)
           /\ DOMAIN records' = 1 .. Len(records) + 1
           /\ \A i \in 1 .. Len(records) : records'[i] = records[i]
           /\ records'[Len(records) + 1] = r
BY AppendProperties, LenProperties

\* A record may be appended when the registry accepts it after the others
\* and its evidence is what it must be.
LEMMA AppendKeeps ==
    ASSUME RegistryInv, NEW E, records \in Seq(RecordIn(E)),
           NEW r \in RecordIn(E), records' = Append(records, r),
           Len(records) < MaxGenerations,
           LoadAccepts(records'),
           r.kind = "canonicalization" => EvidenceBacked' /\ ModelsChange',
           r.kind = "rollback" => RollbackReturns'
    PROVE  RegistryInv'
<1> DEFINE n == Len(records)
<1>1. /\ records' \in Seq(RecordIn(E))
      /\ n \in Nat /\ Len(records') = n + 1
      /\ DOMAIN records = 1 .. n
      /\ DOMAIN records' = 1 .. n + 1
      /\ \A i \in 1 .. n : records'[i] = records[i]
      /\ records'[n + 1] = r
  BY RecordsAppend
<1>2. RecordsTyped'
  BY <1>1 DEF RecordsTyped, RecordIn
<1>3. Len(records') <= MaxGenerations
  BY <1>1, MaxGenerationsAssumption
<1>4. RegistryReloads'
  BY DEF RegistryReloads
<1>5. \A i \in 1 .. n : i > 1 => i - 1 \in 1 .. n
  BY <1>1
<1>6. EvidenceBacked' /\ ModelsChange'
  <2>1. CASE r.kind = "canonicalization"
    BY <2>1
  <2>2. CASE r.kind # "canonicalization"
    <3>1. ASSUME NEW i \in DOMAIN records',
                 records'[i].kind = "canonicalization"
          PROVE  /\ i \in 1 .. n /\ records'[i] = records[i]
                 /\ records'[i - 1] = records[i - 1]
      <4>1. i \in 1 .. n
        BY <1>1, <2>2, <3>1
      <4>2. i # 1
        BY <1>1, <3>1, <4>1 DEF LoadAccepts
      <4> QED BY <1>1, <1>5, <4>1, <4>2
    <3>2. EvidenceBacked'
      <4>1. ASSUME NEW i \in DOMAIN records',
                   records'[i].kind = "canonicalization"
            PROVE  \E report \in records'[i].evidence :
                       Backs(report, records'[i].model, records'[i - 1].model)
        BY <1>1, <3>1, <4>1 DEF EvidenceBacked, RegistryInv
      <4> QED BY <4>1 DEF EvidenceBacked, Backs
    <3>3. ModelsChange'
      BY <1>1, <3>1 DEF ModelsChange, RegistryInv
    <3> QED BY <3>2, <3>3
  <2> QED BY <2>1, <2>2
<1>7. RollbackReturns'
  <2>1. CASE r.kind = "rollback"
    BY <2>1
  <2>2. CASE r.kind # "rollback"
    <3>1. ASSUME NEW i \in DOMAIN records', records'[i].kind = "rollback"
          PROVE  /\ records'[i - 1].kind = "canonicalization"
                 /\ records'[i].model = records'[i - 2].model
                 /\ records'[i].model # records'[i - 1].model
                 /\ \E recovery \in records'[i].evidence :
                        Undone(recovery, i - 1, records'[i].model)
      <4>1. i \in 1 .. n /\ records[i] = records'[i]
        BY <1>1, <2>2, <3>1
      <4>2. /\ records[i - 1].kind = "canonicalization"
            /\ records[i].model = records[i - 2].model
            /\ records[i].model # records[i - 1].model
            /\ \E recovery \in records[i].evidence :
                   Undone(recovery, i - 1, records[i].model)
        BY <1>1, <3>1, <4>1 DEF RollbackReturns, RegistryInv
      <4>3. i # 1
        BY <1>1, <3>1, <4>1 DEF LoadAccepts
      <4>4. records'[i - 1] = records[i - 1] /\ i - 1 \in 1 .. n
        BY <1>1, <1>5, <4>1, <4>3
      <4>5. i - 1 # 1
        BY <1>1, <4>2, <4>4 DEF LoadAccepts
      <4>6. records'[i - 2] = records[i - 2]
        BY <1>1, <4>1, <4>4, <4>5
      <4> QED BY <4>1, <4>2, <4>4, <4>6
    <3> QED BY <3>1 DEF RollbackReturns, Undone
  <2> QED BY <2>1, <2>2
<1> QED BY <1>2, <1>3, <1>4, <1>6, <1>7 DEF RegistryInv

LEMMA AppendAccepts ==
    ASSUME RegistryInv, NEW E, records \in Seq(RecordIn(E)),
           NEW r \in RecordIn(E), records' = Append(records, r),
           records # <<>>, ValidRecord(r), r.kind # "bootstrap",
           r.previous = Current.model,
           r.kind = "canonicalization" => r.rollback = Current.model,
           r.kind = "rollback" => r.model = Current.rollback
    PROVE  LoadAccepts(records')
<1> DEFINE n == Len(records)
<1>1. /\ n \in Nat
      /\ DOMAIN records = 1 .. n /\ DOMAIN records' = 1 .. n + 1
      /\ \A i \in 1 .. n : records'[i] = records[i]
      /\ records'[n + 1] = r
  BY RecordsAppend
<1>2. n > 0
  BY <1>1, EmptySeq, LenProperties
<1>3. records[n] = Current
  BY DEF Current
<1> DEFINE Fine(i) ==
        /\ ValidRecord(records'[i])
        /\ (i = 1) <=> (records'[i].kind = "bootstrap")
        /\ i > 1 =>
               /\ records'[i].previous = records'[i - 1].model
               /\ records'[i].kind = "canonicalization" =>
                      records'[i].rollback = records'[i - 1].model
               /\ records'[i].kind = "rollback" =>
                      records'[i].model = records'[i - 1].rollback
<1>4. ASSUME NEW i \in 1 .. n
      PROVE  Fine(i)
  <2>1. i > 1 => i - 1 \in 1 .. n
    BY <1>1
  <2> QED BY <1>1, <2>1 DEF RegistryInv, RegistryReloads, LoadAccepts
<1>5. Fine(n + 1)
  <2>1. n + 1 # 1 /\ (n + 1) - 1 = n /\ n \in 1 .. n
    BY <1>1, <1>2
  <2>2. records'[(n + 1) - 1] = Current /\ records'[n + 1] = r
    BY <1>1, <1>3, <2>1
  <2> QED BY <2>1, <2>2
<1>6. \A i \in DOMAIN records' : i \in 1 .. n \/ i = n + 1
  BY <1>1
<1>7. \A i \in DOMAIN records' : Fine(i)
  BY <1>4, <1>5, <1>6
<1> QED BY <1>7 DEF LoadAccepts

LEMMA CurrentTyped ==
    ASSUME RegistryInv, NEW E, records \in Seq(RecordIn(E)), records # <<>>
    PROVE  /\ Len(records) \in Nat /\ Len(records) > 0
           /\ Len(records) \in DOMAIN records
           /\ Current \in RecordIn(E) /\ Current.model \in Models
<1>1. Len(records) \in Nat /\ Len(records) > 0 /\ DOMAIN records = 1 .. Len(records)
  BY EmptySeq, LenProperties
<1>2. Current \in RecordIn(E)
  BY <1>1, ElementOfSeq DEF Current
<1> QED BY <1>1, <1>2 DEF RecordIn

\* The first record.
LEMMA BootstrapKeeps ==
    ASSUME RegistryInv, NEW m \in Models, Bootstrap(m)
    PROVE  RegistryInv'
<1> DEFINE r == [kind |-> "bootstrap", model |-> m, previous |-> None,
                 rollback |-> None, evidence |-> {}]
<1>1. PICK E : records \in Seq(RecordIn(E))
  BY DEF RegistryInv, RecordsTyped
<1>2. r \in RecordIn(E)
  BY DEF RecordIn, MaybeModel
<1>3. records = <<>> /\ records' = <<r>> /\ records' = Append(records, r)
  BY DEF Bootstrap
<1>4. Len(records) = 0 /\ Len(records) < MaxGenerations
  BY <1>3, EmptySeq, MaxGenerationsAssumption
<1>5. DOMAIN records' = {1} /\ records'[1] = r
  BY <1>3
<1>6. r.kind = "bootstrap" /\ ValidRecord(r)
  BY DEF ValidRecord
<1>7. LoadAccepts(records')
  BY <1>5, <1>6 DEF LoadAccepts
<1> QED BY <1>1, <1>2, <1>3, <1>4, <1>6, <1>7, AppendKeeps

\* The next canonical baseline, from an orchestration's stability report.
LEMMA CanonicalizationKeeps ==
    ASSUME RegistryInv, NEW report, IsStability(report),
           RegisterCanonicalization(report)
    PROVE  RegistryInv'
<1> DEFINE receipt == report.receipt
           r == [kind |-> "canonicalization", model |-> receipt.candidate,
                 previous |-> Current.model, rollback |-> receipt.rollback,
                 evidence |-> {report}]
           n == Len(records)
<1>1. PICK E0 : records \in Seq(RecordIn(E0))
  BY DEF RegistryInv, RecordsTyped
<1> DEFINE E == E0 \cup {report}
<1>2. records \in Seq(RecordIn(E))
  <2>1. RecordIn(E0) \subseteq RecordIn(E)
    BY RecordWidens
  <2> QED BY <1>1, <2>1, SeqMonotonic
<1>3. /\ report.decision = "eligible" /\ records # <<>>
      /\ n < MaxGenerations /\ Succeeds(receipt)
      /\ records' = Append(records, r)
  BY DEF RegisterCanonicalization
<1>4. Current.model \in Models
  BY <1>2, <1>3, CurrentTyped
<1>5. Backs(report, receipt.candidate, Current.model)
  <2>1. receipt.previous = Current.model /\ receipt.rollback = Current.model
    BY <1>3 DEF Succeeds
  <2>2. /\ receipt.outcome = "canonicalized" /\ receipt.review.decision = "eligible"
        /\ IsCanonicalization(receipt)
    BY DEF IsStability, IsCanonicalization
  <2> DEFINE shadow == receipt.review.shadow
  <2>3. /\ receipt.candidate = shadow.receipt.candidate
        /\ receipt.observed = receipt.candidate
        /\ receipt.previous = shadow.receipt.previous
        /\ shadow.decision = "eligible" /\ IsShadow(shadow)
    BY <2>2 DEF IsCanonicalization, IsCanonicalReview
  <2>4. /\ shadow.receipt.outcome = "activated"
        /\ shadow.receipt.observed = shadow.receipt.candidate
        /\ shadow.receipt.request.review.candidate = shadow.receipt.candidate
        /\ shadow.receipt.request.review.baseline = shadow.receipt.previous
        /\ shadow.receipt.rollback = shadow.receipt.previous
        /\ shadow.receipt.request.review.decision = "eligible"
    BY <2>3 DEF IsShadow, IsActivation, IsRequest
  <2> QED BY <1>3, <2>1, <2>2, <2>3, <2>4 DEF Backs
<1>6. receipt.candidate \in Models /\ receipt.candidate # Current.model
  <2>1. receipt.previous = Current.model
    BY <1>3 DEF Succeeds
  <2> QED BY <2>1 DEF IsStability, IsCanonicalization, IsCanonicalReview, IsShadow,
         IsActivation, IsRequest, IsReview
<1>7. receipt.rollback = Current.model
  BY <1>3 DEF Succeeds
<1>8. r \in RecordIn(E)
  BY <1>4, <1>6, <1>7 DEF RecordIn, MaybeModel
<1>9. ValidRecord(r) /\ r.kind = "canonicalization"
  BY <1>4, <1>7, ModelsAssumption DEF ValidRecord
<1>10. LoadAccepts(records')
  BY <1>2, <1>3, <1>7, <1>8, <1>9, AppendAccepts
<1>11. EvidenceBacked' /\ ModelsChange'
  <2>1. /\ n \in Nat /\ n > 0 /\ records[n] = Current
        /\ DOMAIN records = 1 .. n /\ DOMAIN records' = 1 .. n + 1
        /\ \A i \in 1 .. n : records'[i] = records[i]
        /\ records'[n + 1] = r
    BY <1>2, <1>3, <1>8, RecordsAppend, CurrentTyped DEF Current
  <2>2. ASSUME NEW i \in DOMAIN records', records'[i].kind = "canonicalization"
        PROVE  /\ records'[i].model # records'[i - 1].model
               /\ \E g \in records'[i].evidence :
                      Backs(g, records'[i].model, records'[i - 1].model)
    <3>1. CASE i \in 1 .. n
      <4>1. i # 1
        BY <2>1, <2>2, <3>1 DEF RegistryInv, RegistryReloads, LoadAccepts
      <4>2. i - 1 \in 1 .. n
        BY <2>1, <3>1, <4>1
      <4> QED BY <2>1, <2>2, <3>1, <4>2
              DEF RegistryInv, EvidenceBacked, ModelsChange
    <3>2. CASE i = n + 1
      <4>1. i - 1 = n /\ records'[i] = r /\ records'[i - 1] = Current
        BY <2>1, <3>2
      <4>2. report \in r.evidence /\ r.model = receipt.candidate
        OBVIOUS
      <4> HIDE DEF r
      <4> QED BY <4>1, <4>2, <1>5, <1>6
    <3> QED BY <2>1, <3>1, <3>2
  <2> QED BY <2>2 DEF EvidenceBacked, ModelsChange, Backs
<1> QED BY <1>2, <1>3, <1>8, <1>9, <1>10, <1>11, AppendKeeps

-----------------------------------------------------------------------------
(* The watch, over the record r of generation g.                            *)

IsReportOf(d, g, r) ==
    d.baseline = g /\ (d.decision = "eligible" => r.rollback # None)

IsRequestOf(d, g, r) ==
    /\ d.report.decision = "eligible" /\ d.baseline = g
    /\ d.current = r.model /\ d.target = r.rollback /\ d.target # None

IsReceiptOf(d, g, r) ==
    /\ IsRequestOf(d.request, g, r)
    /\ d.from = d.request.current /\ d.to = d.request.target
    /\ d.outcome = "rolled_back" => d.observed = d.to

IsRecoveryOf(d, g, r) ==
    IsReceiptOf(d.receipt, g, r) /\ d.receipt.outcome = "rolled_back"

MayWatch(s, d, g, r) == /\ s = 2 => IsReportOf(d, g, r)
                        /\ s = 3 => IsRequestOf(d, g, r)
                        /\ s = 4 => IsReceiptOf(d, g, r)
                        /\ s = 5 => IsRecoveryOf(d, g, r)

WatchTyped == \E E : watch \in WatchIn(E)

WatchBound == watch.stage > 0 => /\ watch.baseline \in DOMAIN records
                                 /\ watch.model = records[watch.baseline].model

WatchHolds ==
    \A s \in Stages :
        /\ watch.evidence[s] # {} <=> s <= watch.stage
        /\ \A d \in watch.evidence[s] :
               MayWatch(s, d, watch.baseline, records[watch.baseline])

WatchInv == WatchTyped /\ WatchBound /\ WatchHolds

LEMMA RecordedHolds ==
    ASSUME WatchInv, NEW s \in Stages, s <= watch.stage
    PROVE  /\ Recorded(s) \in watch.evidence[s]
           /\ watch.evidence[s] # {}
           /\ MayWatch(s, Recorded(s), watch.baseline, records[watch.baseline])
<1>1. watch.evidence[s] # {}
  BY DEF WatchInv, WatchHolds
<1>2. Recorded(s) \in watch.evidence[s]
  BY <1>1 DEF Recorded
<1> QED BY <1>1, <1>2 DEF WatchInv, WatchHolds

LEMMA AdvancedShape ==
    ASSUME WatchInv, NEW E, watch \in WatchIn(E), NEW s \in Stages, NEW d,
           MayRecord(s)
    PROVE  /\ Advanced(s, d) \in WatchIn(E \cup {d})
           /\ Advanced(s, d).stage = s /\ s = watch.stage + 1
           /\ Advanced(s, d).baseline = watch.baseline
           /\ Advanced(s, d).model = watch.model
           /\ Advanced(s, d).evidence = [watch.evidence EXCEPT ![s] = {d}]
<1> DEFINE mid  == [watch EXCEPT !.stage = s]
           held == [watch.evidence EXCEPT ![s] = {d}]
<1>1. s = watch.stage + 1 /\ s \in 0 .. 6
  BY DEF MayRecord, Stages
<1>2. held \in [Stages -> SUBSET (E \cup {d})]
  BY DEF WatchIn
<1>3. /\ mid \in WatchIn(E \cup {d}) /\ mid.evidence = watch.evidence
      /\ mid.stage = s /\ mid.baseline = watch.baseline /\ mid.model = watch.model
  BY <1>1 DEF WatchIn
<1>4. Advanced(s, d) = [mid EXCEPT !.evidence[s] = {d}]
  BY DEF Advanced
<1>5. Advanced(s, d) = [mid EXCEPT !.evidence = held]
  BY <1>3, <1>4
<1> HIDE DEF mid, held
<1>6. /\ Advanced(s, d) \in WatchIn(E \cup {d})
      /\ Advanced(s, d).stage = mid.stage
      /\ Advanced(s, d).baseline = mid.baseline
      /\ Advanced(s, d).model = mid.model
      /\ Advanced(s, d).evidence = held
  BY <1>2, <1>3, <1>5 DEF WatchIn
<1> QED BY <1>1, <1>3, <1>6 DEF held

\* What is recorded is what the stage may hold.
LEMMA AdvanceKeeps ==
    ASSUME WatchInv, NEW s \in Stages, NEW d, MayRecord(s),
           MayWatch(s, d, watch.baseline, records[watch.baseline]),
           watch' = Advanced(s, d), records' = records
    PROVE  WatchInv' /\ WatchReloads(watch, watch')
<1>1. PICK E : watch \in WatchIn(E)
  BY DEF WatchInv, WatchTyped
<1>2. /\ watch' \in WatchIn(E \cup {d})
      /\ watch'.stage = s /\ s = watch.stage + 1
      /\ watch'.baseline = watch.baseline
      /\ watch'.model = watch.model
      /\ watch'.evidence = [watch.evidence EXCEPT ![s] = {d}]
  BY <1>1, AdvancedShape
<1>3. watch.stage \in 1 .. 5 /\ DOMAIN watch.evidence = Stages
  BY <1>1, <1>2 DEF WatchIn, Stages
<1>4. WatchTyped'
  BY <1>2 DEF WatchTyped, WatchIn
<1>5. WatchBound'
  BY <1>2, <1>3 DEF WatchInv, WatchBound
<1>6. ASSUME NEW t \in Stages
      PROVE  /\ watch'.evidence[t] # {} <=> t <= watch'.stage
             /\ \A g \in watch'.evidence[t] :
                    MayWatch(t, g, watch.baseline, records[watch.baseline])
             /\ t <= watch'.stage => watch'.evidence[t] # {}
             /\ watch.evidence[t] # {} => watch'.evidence[t] = watch.evidence[t]
  <2>1. CASE t = s
    <3>1. watch'.evidence[t] = {d}
      BY <1>2, <1>3, <2>1
    <3>2. watch.evidence[t] = {}
      BY <1>2, <1>3, <2>1 DEF WatchInv, WatchHolds, Stages
    <3> QED BY <1>2, <2>1, <3>1, <3>2 DEF Stages
  <2>2. CASE t # s
    <3>1. watch'.evidence[t] = watch.evidence[t]
      BY <1>2, <1>3, <2>2
    <3>2. t <= watch.stage <=> t <= watch'.stage
      BY <1>2, <1>3, <2>2 DEF Stages
    <3> QED BY <3>1, <3>2 DEF WatchInv, WatchHolds
  <2> QED BY <2>1, <2>2
<1>7. WatchHolds'
  <2>1. ASSUME NEW t \in Stages
        PROVE  /\ watch'.evidence[t] # {} <=> t <= watch'.stage
               /\ \A g \in watch'.evidence[t] :
                      MayWatch(t, g, watch'.baseline, records'[watch'.baseline])
    BY <1>2, <1>6
  <2> QED BY <2>1 DEF WatchHolds, MayWatch, IsReportOf, IsRequestOf, IsReceiptOf,
                      IsRecoveryOf
<1>8. WatchReloads(watch, watch')
  BY <1>2, <1>3, <1>6 DEF WatchReloads, NoEvidence
<1> QED BY <1>4, <1>5, <1>7, <1>8 DEF WatchInv

\* Every step of the watch that leaves the registry alone.
WatchStep ==
    \/ \E g \in DOMAIN records : Bind(g) \/ RecordRegistration(g)
    \/ \E windows \in WindowRuns : ReviewDrift(windows)
    \/ RequestRollback
    \/ \E outcome \in {"rolled_back", "failed"} : ExecuteRollback(outcome)
    \/ \E rounds \in [1 .. RecoveryRounds -> Round] : ReviewRecovery(rounds)
    \/ NewWatch

LEMMA BindKeeps ==
    ASSUME WatchInv, RegistryInv, NEW g \in DOMAIN records, Bind(g)
    PROVE  WatchInv' /\ WatchReloads(watch, watch')
<1>1. PICK E : records \in Seq(RecordIn(E))
  BY DEF RegistryInv, RecordsTyped
<1>2. PICK F : watch \in WatchIn(F)
  BY DEF WatchInv, WatchTyped
<1>3. g \in Nat /\ records[g] \in RecordIn(E)
  BY <1>1, LenProperties, ElementOfSeq
<1>4. records[g].model \in Models
  BY <1>3 DEF RecordIn
<1>5. /\ watch'.stage = 1 /\ watch'.baseline = g
      /\ watch'.model = records[g].model
      /\ watch'.evidence = [s \in Stages |-> NoEvidence]
      /\ watch' \in WatchIn({})
      /\ records' = records /\ watch.stage = 0
  <2>1. /\ records' = records /\ watch.stage = 0
        /\ watch' = [stage |-> 1, baseline |-> g, model |-> records[g].model,
                     evidence |-> [s \in Stages |-> NoEvidence]]
    BY DEF Bind, Unbound
  <2>2. [s \in Stages |-> NoEvidence] \in [Stages -> SUBSET {}]
    BY DEF NoEvidence
  <2>3. records[g].model \in MaybeModel
    BY <1>4 DEF MaybeModel
  <2> QED BY <1>3, <2>1, <2>2, <2>3 DEF WatchIn
<1>6. \A s \in Stages : watch.evidence[s] = {} /\ watch'.evidence[s] = {}
  BY <1>2, <1>5 DEF WatchInv, WatchHolds, Stages, NoEvidence, WatchIn
<1>7. WatchTyped'
  BY <1>5 DEF WatchTyped, WatchIn
<1>8. WatchBound'
  BY <1>5 DEF WatchBound
<1>9. WatchHolds'
  BY <1>5, <1>6 DEF WatchHolds, Stages
<1>10. WatchReloads(watch, watch')
  BY <1>5, <1>6 DEF WatchReloads, Stages, NoEvidence
<1> QED BY <1>7, <1>8, <1>9, <1>10 DEF WatchInv

LEMMA NewWatchKeeps ==
    ASSUME NewWatch
    PROVE  WatchInv'
<1>1. /\ watch' = Unbound /\ Unbound.stage = 0
      /\ \A s \in Stages : Unbound.evidence[s] = {}
      /\ Unbound \in WatchIn({})
  BY DEF NewWatch, Unbound, NoEvidence, WatchIn, MaybeModel
<1>2. WatchTyped'
  BY <1>1 DEF WatchTyped, WatchIn
<1>3. WatchBound'
  BY <1>1 DEF WatchBound
<1>4. WatchHolds'
  BY <1>1 DEF WatchHolds, Stages
<1> QED BY <1>2, <1>3, <1>4 DEF WatchInv

LEMMA WatchStepKeeps ==
    ASSUME WatchInv, RegistryInv, WatchStep
    PROVE  /\ WatchInv' /\ records' = records
           /\ WatchReloads(watch, watch') \/ NewWatch
<1> DEFINE g == watch.baseline
           r == records[watch.baseline]
<1>a. PICK F : watch \in WatchIn(F)
  BY DEF WatchInv, WatchTyped
<1>b. watch.stage \in 0 .. 6
  BY <1>a DEF WatchIn
<1>1. CASE \E x \in DOMAIN records : Bind(x)
  BY <1>1, BindKeeps DEF Bind
<1>2. CASE \E x \in DOMAIN records : RecordRegistration(x)
  <2>1. PICK x \in DOMAIN records : RecordRegistration(x)
    BY <1>2
  <2>2. MayRecord(6) /\ watch' = Advanced(6, records[x]) /\ records' = records
    BY <2>1 DEF RecordRegistration
  <2>3. MayWatch(6, records[x], g, r) /\ 6 \in Stages
    BY DEF MayWatch, Stages
  <2> QED BY <2>2, <2>3, AdvanceKeeps
<1>3. CASE \E windows \in WindowRuns : ReviewDrift(windows)
  <2>1. PICK windows \in WindowRuns : ReviewDrift(windows)
    BY <1>3
  <2> DEFINE d == DriftReport(g, r, windows)
  <2>2. MayRecord(2) /\ watch' = Advanced(2, d) /\ records' = records
    BY <2>1 DEF ReviewDrift
  <2>3. d.baseline = g /\ d.decision = DriftDecision(r, windows)
    BY DEF DriftReport
  <2>4. DriftDecision(r, windows) = "eligible" => r.rollback # None
    BY DEF DriftDecision
  <2>5. IsReportOf(d, g, r)
    BY <2>3, <2>4 DEF IsReportOf
  <2>6. MayWatch(2, d, g, r) /\ 2 \in Stages
    BY <2>5 DEF MayWatch, Stages
  <2> QED BY <2>2, <2>6, AdvanceKeeps
<1>4. CASE RequestRollback
  <2> DEFINE d == RollbackRequest(Recorded(2), r)
  <2>1. /\ MayRecord(3) /\ watch' = Advanced(3, d) /\ records' = records
        /\ Recorded(2).decision = "eligible"
    BY <1>4 DEF RequestRollback
  <2>2. 2 \in Stages /\ 3 \in Stages /\ 2 <= watch.stage
    BY <2>1, <1>b DEF Stages, MayRecord
  <2>3. IsReportOf(Recorded(2), g, r)
    BY <2>2, RecordedHolds DEF MayWatch
  <2>4. IsRequestOf(d, g, r)
    BY <2>1, <2>3 DEF IsRequestOf, IsReportOf, RollbackRequest
  <2>5. MayWatch(3, d, g, r)
    BY <2>4 DEF MayWatch
  <2> QED BY <2>1, <2>2, <2>5, AdvanceKeeps
<1>5. CASE \E outcome \in {"rolled_back", "failed"} : ExecuteRollback(outcome)
  <2>1. PICK outcome \in {"rolled_back", "failed"} : ExecuteRollback(outcome)
    BY <1>5
  <2>2. PICK observed \in RollbackObserves(Recorded(3), outcome) :
            watch' = Advanced(4, RollbackReceipt(Recorded(3), outcome, observed))
    BY <2>1 DEF ExecuteRollback
  <2> DEFINE d == RollbackReceipt(Recorded(3), outcome, observed)
  <2>3. MayRecord(4) /\ records' = records
    BY <2>1 DEF ExecuteRollback
  <2>4. 3 \in Stages /\ 4 \in Stages /\ 3 <= watch.stage
    BY <2>3, <1>b DEF Stages, MayRecord
  <2>5. IsRequestOf(Recorded(3), g, r)
    BY <2>4, RecordedHolds DEF MayWatch
  <2>6. outcome = "rolled_back" => observed = Recorded(3).target
    BY <2>2 DEF RollbackObserves
  <2>7. IsReceiptOf(d, g, r)
    BY <2>5, <2>6 DEF IsReceiptOf, RollbackReceipt
  <2>8. MayWatch(4, d, g, r)
    BY <2>7 DEF MayWatch
  <2> QED BY <2>2, <2>3, <2>4, <2>8, AdvanceKeeps
<1>6. CASE \E rounds \in [1 .. RecoveryRounds -> Round] : ReviewRecovery(rounds)
  <2>1. PICK rounds \in [1 .. RecoveryRounds -> Round] : ReviewRecovery(rounds)
    BY <1>6
  <2> DEFINE d == Recovery(Recorded(4), rounds)
  <2>2. /\ MayRecord(5) /\ watch' = Advanced(5, d) /\ records' = records
        /\ Recorded(4).outcome = "rolled_back"
    BY <2>1 DEF ReviewRecovery
  <2>3. 4 \in Stages /\ 5 \in Stages /\ 4 <= watch.stage
    BY <2>2, <1>b DEF Stages, MayRecord
  <2>4. IsReceiptOf(Recorded(4), g, r)
    BY <2>3, RecordedHolds DEF MayWatch
  <2>5. IsRecoveryOf(d, g, r)
    BY <2>2, <2>4 DEF IsRecoveryOf, Recovery
  <2>6. MayWatch(5, d, g, r)
    BY <2>5 DEF MayWatch
  <2> QED BY <2>2, <2>3, <2>6, AdvanceKeeps
<1>7. CASE NewWatch
  BY <1>7, NewWatchKeeps DEF NewWatch
<1> QED BY <1>1, <1>2, <1>3, <1>4, <1>5, <1>6, <1>7 DEF WatchStep

-----------------------------------------------------------------------------
(* Registrations.                                                           *)

\* A registration does not disturb a watch: the record it is bound to stays.
LEMMA AppendKeepsWatch ==
    ASSUME WatchInv, NEW E, records \in Seq(RecordIn(E)),
           NEW r \in RecordIn(E), records' = Append(records, r),
           watch' = watch
    PROVE  WatchInv'
<1>1. /\ Len(records) \in Nat
      /\ DOMAIN records = 1 .. Len(records)
      /\ DOMAIN records' = 1 .. Len(records) + 1
      /\ \A i \in 1 .. Len(records) : records'[i] = records[i]
  BY RecordsAppend
<1>2. WatchTyped'
  BY DEF WatchInv, WatchTyped, WatchIn
<1>3. WatchBound'
  BY <1>1 DEF WatchInv, WatchBound
<1>4. WatchHolds'
  <2>1. CASE watch.stage = 0
    <3>1. \A s \in Stages : watch.evidence[s] = {}
      BY <2>1 DEF WatchInv, WatchHolds, Stages
    <3> QED BY <3>1 DEF WatchInv, WatchHolds
  <2>2. CASE watch.stage # 0
    <3>1. PICK F : watch \in WatchIn(F)
      BY DEF WatchInv, WatchTyped
    <3>2. watch.stage > 0
      BY <2>2, <3>1 DEF WatchIn
    <3>3. records'[watch.baseline] = records[watch.baseline]
      BY <1>1, <3>2 DEF WatchInv, WatchBound
    <3> QED BY <3>3
            DEF WatchInv, WatchHolds, MayWatch, IsReportOf, IsRequestOf,
                IsReceiptOf, IsRecoveryOf
  <2> QED BY <2>1, <2>2
<1> QED BY <1>2, <1>3, <1>4 DEF WatchInv

\* A rollback, from the documents of the watch.
LEMMA RollbackKeeps ==
    ASSUME RegistryInv, WatchInv, RegisterWatchedRollback
    PROVE  RegistryInv' /\ WatchInv'
<1> DEFINE recovery == Recorded(5)
           receipt == recovery.receipt
           r == RollbackRecord(recovery)
           n == Len(records)
           g == watch.baseline
<1>1. PICK E0 : records \in Seq(RecordIn(E0))
  BY DEF RegistryInv, RecordsTyped
<1> DEFINE E == E0 \cup {recovery}
<1>2. records \in Seq(RecordIn(E))
  <2>1. RecordIn(E0) \subseteq RecordIn(E)
    BY RecordWidens
  <2> QED BY <1>1, <2>1, SeqMonotonic
<1>3. /\ watch.stage = 5 /\ records # <<>> /\ n < MaxGenerations
      /\ receipt.outcome = "rolled_back" /\ recovery.decision = "eligible"
      /\ Undoes(receipt) /\ records' = Append(records, r)
  BY DEF RegisterWatchedRollback, RegisterRollback
<1>4. IsRecoveryOf(recovery, g, records[g])
  BY <1>3, RecordedHolds DEF MayWatch, Stages
<1>5. /\ receipt.request.baseline = n /\ g = n
      /\ receipt.to = Current.rollback /\ receipt.to # None
      /\ receipt.observed = receipt.to
      /\ receipt.request.report.decision = "eligible"
  BY <1>3, <1>4 DEF Undoes, IsRecoveryOf, IsReceiptOf, IsRequestOf, Current
<1>6. /\ n \in Nat /\ n > 0 /\ Current = records[n] /\ DOMAIN records = 1 .. n
      /\ Current \in RecordIn(E) /\ Current.model \in Models
  BY <1>2, <1>3, CurrentTyped, LenProperties DEF Current
<1>7. receipt.to \in Models
  BY <1>5, <1>6 DEF RecordIn, MaybeModel
<1>8. /\ r.kind = "rollback" /\ r.model = receipt.to
      /\ r.previous = Current.model /\ r.rollback = None
      /\ r.evidence = {recovery} /\ r \in RecordIn(E)
  BY <1>6, <1>7 DEF RollbackRecord, RecordIn, MaybeModel
<1> HIDE DEF r
<1>9. ValidRecord(r)
  BY <1>6, <1>8, ModelsAssumption DEF ValidRecord
<1>10. LoadAccepts(records')
  BY <1>2, <1>3, <1>5, <1>8, <1>9, AppendAccepts
<1>11. Current.kind = "canonicalization" /\ Current.rollback # None
  <2>1. ValidRecord(Current) /\ Current.rollback # None
    BY <1>5, <1>6 DEF RegistryInv, RegistryReloads, LoadAccepts
  <2>2. Current.kind \in {"bootstrap", "canonicalization", "rollback"}
    BY <1>6 DEF RecordIn
  <2> QED BY <2>1, <2>2 DEF ValidRecord
<1>12. n > 1 /\ Current.rollback = records[n - 1].model
  <2>1. n # 1
    BY <1>6, <1>11 DEF RegistryInv, RegistryReloads, LoadAccepts
  <2> QED BY <1>6, <1>11, <2>1 DEF RegistryInv, RegistryReloads, LoadAccepts
<1>13. Current.model # records[n - 1].model
  BY <1>6, <1>11 DEF RegistryInv, ModelsChange
<1>14. RollbackReturns'
  <2>1. /\ DOMAIN records' = 1 .. n + 1
        /\ \A i \in 1 .. n : records'[i] = records[i]
        /\ records'[n + 1] = r
    BY <1>2, <1>3, <1>8, RecordsAppend
  <2>2. ASSUME NEW i \in DOMAIN records', records'[i].kind = "rollback"
        PROVE  /\ records'[i - 1].kind = "canonicalization"
               /\ records'[i].model = records'[i - 2].model
               /\ records'[i].model # records'[i - 1].model
               /\ \E x \in records'[i].evidence :
                      Undone(x, i - 1, records'[i].model)
    <3>1. CASE i \in 1 .. n
      <4>1. /\ records[i] = records'[i]
            /\ records[i - 1].kind = "canonicalization"
            /\ records[i].model = records[i - 2].model
            /\ records[i].model # records[i - 1].model
            /\ \E x \in records[i].evidence :
                   Undone(x, i - 1, records[i].model)
        BY <1>6, <2>1, <2>2, <3>1 DEF RollbackReturns, RegistryInv
      <4>2. i # 1
        BY <2>1, <2>2, <3>1, <1>10 DEF LoadAccepts
      <4>3. records'[i - 1] = records[i - 1] /\ i - 1 \in 1 .. n
        BY <1>6, <2>1, <3>1, <4>2
      <4>4. i - 1 # 1
        BY <2>1, <4>1, <4>3, <1>6, <1>10 DEF LoadAccepts
      <4>5. records'[i - 2] = records[i - 2]
        BY <1>6, <2>1, <3>1, <4>3, <4>4
      <4> QED BY <4>1, <4>3, <4>5
    <3>2. CASE i = n + 1
      <4>1. /\ i - 1 = n /\ i - 2 = n - 1 /\ n - 1 \in 1 .. n /\ n \in 1 .. n
        BY <1>6, <1>12, <3>2
      <4>2. /\ records'[i] = r /\ records'[i - 1] = Current
            /\ records'[i - 2] = records[n - 1]
        BY <1>6, <2>1, <3>2, <4>1
      <4>3. Undone(recovery, i - 1, receipt.to)
        BY <1>3, <1>5, <4>1 DEF Undone
      <4> QED BY <4>2, <4>3, <1>5, <1>8, <1>11, <1>12, <1>13
    <3> QED BY <2>1, <3>1, <3>2
  <2> QED BY <2>2 DEF RollbackReturns, Undone
<1>15. RegistryInv'
  BY <1>2, <1>3, <1>8, <1>9, <1>10, <1>14, AppendKeeps
<1>16. WatchInv'
  BY <1>2, <1>3, <1>8, AppendKeepsWatch DEF RegisterWatchedRollback
<1> QED BY <1>15, <1>16
\* Every step that fills the registry keeps its invariant and the watch's.
LEMMA RegisterKeeps ==
    ASSUME OrchestrationsInv, RegistryInv, WatchInv, Register,
           UNCHANGED <<orchestrations, watch>>
    PROVE  RegistryInv' /\ WatchInv'
<1>1. PICK E0 : records \in Seq(RecordIn(E0))
  BY DEF RegistryInv, RecordsTyped
<1>2. CASE \E m \in Models \ Candidates : Bootstrap(m)
  <2>1. PICK m \in Models : Bootstrap(m)
    BY <1>2
  <2> DEFINE r == [kind |-> "bootstrap", model |-> m, previous |-> None,
                   rollback |-> None, evidence |-> {}]
  <2>2. r \in RecordIn(E0)
    BY DEF RecordIn, MaybeModel
  <2>3. records' = Append(records, r)
    BY <2>1 DEF Bootstrap
  <2>4. WatchInv'
    BY <1>1, <2>2, <2>3, AppendKeepsWatch
  <2> QED BY <2>1, <2>4, BootstrapKeeps
<1>3. CASE \E c \in Candidates :
              /\ orchestrations[c].stage
                     >= Place["post_canonical_stability_reviewed"]
              /\ RegisterCanonicalization(
                     Evidence(c, "post_canonical_stability_reviewed"))
  <2>1. PICK c \in Candidates :
            /\ orchestrations[c].stage
                   >= Place["post_canonical_stability_reviewed"]
            /\ RegisterCanonicalization(
                   Evidence(c, "post_canonical_stability_reviewed"))
    BY <1>3
  <2> DEFINE report == Evidence(c, "post_canonical_stability_reviewed")
             r == [kind |-> "canonicalization",
                   model |-> report.receipt.candidate,
                   previous |-> Current.model,
                   rollback |-> report.receipt.rollback,
                   evidence |-> {report}]
  <2>2. Place["post_canonical_stability_reviewed"] <= orchestrations[c].stage
    <3>1. PICK S : orchestrations \in [Candidates -> OrchestrationIn(S)]
      BY DEF OrchestrationsInv, OrchestrationsTyped
    <3>2. orchestrations[c].stage \in 0 .. 13
      BY <3>1 DEF OrchestrationIn
    <3>3. Place["post_canonical_stability_reviewed"] \in 1 .. 13
      BY Names, PlaceIsPlace
    <3> QED BY <2>1, <3>2, <3>3
  <2>3. IsStability(report)
    BY <2>2, Names, EvidenceHolds DEF MayHold
  <2>4. RegistryInv'
    BY <2>1, <2>3, CanonicalizationKeeps
  <2>5. /\ records # <<>> /\ report.receipt.rollback = Current.model
        /\ records' = Append(records, r)
    BY <2>1 DEF RegisterCanonicalization, Succeeds
  <2>6. records \in Seq(RecordIn(E0 \cup {report}))
    <3>1. RecordIn(E0) \subseteq RecordIn(E0 \cup {report})
      BY RecordWidens
    <3> QED BY <1>1, <3>1, SeqMonotonic
  <2>7. r \in RecordIn(E0 \cup {report})
    <3>1. Current.model \in Models
      BY <1>1, <2>5, CurrentTyped
    <3>2. report.receipt.candidate \in Models
      BY <2>3 DEF IsStability, IsCanonicalization, IsCanonicalReview,
                  IsShadow, IsActivation, IsRequest, IsReview
    <3> QED BY <2>5, <3>1, <3>2 DEF RecordIn, MaybeModel
  <2> HIDE DEF r
  <2>8. WatchInv'
    BY <2>5, <2>6, <2>7, AppendKeepsWatch
  <2> QED BY <2>4, <2>8
<1> QED BY <1>2, <1>3 DEF Register
-----------------------------------------------------------------------------
(* The inductive invariant.  No conjunct is inductive alone: what a gate    *)
(* records is right because of the documents it starts from, what the       *)
(* registry takes in because of the document it is shown, and what a watch  *)
(* records because of the record it is bound to.                            *)

IInv == OrchestrationsInv /\ RegistryInv /\ WatchInv

LEMMA InitIInv == Init => IInv
<1> SUFFICES ASSUME Init PROVE IInv
  OBVIOUS
<1>1. OrchestrationsInv
  <2>1. orchestrations = [c \in Candidates |-> NotStarted]
    BY DEF Init, OrchestrationsInit
  <2>2. orchestrations \in [Candidates -> OrchestrationIn({})]
    BY <2>1, EmptyHolds
  <2>3. OrchestrationsTyped
    BY <2>2 DEF OrchestrationsTyped
  <2>4. OrchestrationsHold
    BY <2>1, EmptyHolds DEF OrchestrationsHold
  <2> QED BY <2>3, <2>4 DEF OrchestrationsInv
<1>2. RegistryInv
  <2>1. records = <<>> /\ Len(records) = 0 /\ DOMAIN records = {}
    BY EmptySeq DEF Init, RegistryInit
  <2>2. RecordsTyped
    <3>1. records \in Seq(RecordIn({}))
      BY <2>1, EmptySeq
    <3> QED BY <3>1 DEF RecordsTyped
  <2> QED BY <2>1, <2>2, MaxGenerationsAssumption
          DEF RegistryInv, RegistryReloads, LoadAccepts, EvidenceBacked,
              ModelsChange, RollbackReturns
<1>3. WatchInv
  <2>1. /\ watch = Unbound /\ Unbound.stage = 0
        /\ \A s \in Stages : Unbound.evidence[s] = {}
        /\ Unbound \in WatchIn({})
    BY DEF Init, WatchInit, Unbound, NoEvidence, WatchIn, MaybeModel
  <2>2. WatchTyped
    BY <2>1 DEF WatchTyped
  <2>3. WatchBound
    BY <2>1 DEF WatchBound
  <2>4. WatchHolds
    BY <2>1 DEF WatchHolds, Stages
  <2> QED BY <2>2, <2>3, <2>4 DEF WatchInv
<1> QED BY <1>1, <1>2, <1>3 DEF IInv

LEMMA RecordsOfModels ==
    ASSUME RegistryInv
    PROVE  \A i \in DOMAIN records :
               /\ records[i].model \in Models
               /\ records[i].previous \in MaybeModel
               /\ records[i].rollback \in MaybeModel
<1>1. PICK E : records \in Seq(RecordIn(E))
  BY DEF RegistryInv, RecordsTyped
<1>2. \A i \in DOMAIN records : records[i] \in RecordIn(E)
  BY <1>1, ElementOfSeq, LenProperties
<1> QED BY <1>2 DEF RecordIn

LEMMA UntouchedRegistry ==
    ASSUME RegistryInv, records' = records
    PROVE  RegistryInv'
<1>1. RecordsTyped'
  BY DEF RegistryInv, RecordsTyped, RecordIn
<1>2. RegistryReloads'
  BY DEF RegistryInv, RegistryReloads
<1>3. EvidenceBacked'
  BY DEF RegistryInv, EvidenceBacked, Backs
<1>4. ModelsChange' /\ RollbackReturns'
  BY DEF RegistryInv, ModelsChange, RollbackReturns, Undone
<1>5. Len(records') <= MaxGenerations
  BY DEF RegistryInv
<1> QED BY <1>1, <1>2, <1>3, <1>4, <1>5 DEF RegistryInv

LEMMA UntouchedWatch ==
    ASSUME WatchInv, records' = records, watch' = watch
    PROVE  WatchInv'
<1>1. WatchTyped'
  BY DEF WatchInv, WatchTyped, WatchIn
<1>2. WatchBound'
  BY DEF WatchInv, WatchBound
<1>3. WatchHolds'
  BY DEF WatchInv, WatchHolds, MayWatch, IsReportOf, IsRequestOf, IsReceiptOf,
         IsRecoveryOf
<1> QED BY <1>1, <1>2, <1>3 DEF WatchInv

LEMMA UntouchedOrchestrations ==
    ASSUME OrchestrationsInv, orchestrations' = orchestrations
    PROVE  OrchestrationsInv'
<1>1. OrchestrationsTyped'
  BY DEF OrchestrationsInv, OrchestrationsTyped, OrchestrationIn
<1>2. OrchestrationsHold'
  BY DEF OrchestrationsInv, OrchestrationsHold, MayHold
<1> QED BY <1>1, <1>2 DEF OrchestrationsInv

\* One case per disjunct of Next, and what it does to the three stores.
LEMMA NextIInv ==
    ASSUME IInv, [Next]_vars
    PROVE  /\ IInv'
           /\ [WatchReloads(watch, watch') \/ NewWatch]_watch
           /\ [\A x \in Candidates :
                   \/ OrchestrationReloads(orchestrations[x], orchestrations'[x])
                   \/ StartOver(x)]_orchestrations
<1> USE DEF IInv
<1>1. CASE \E c \in Candidates : Orchestrate(c) /\ UNCHANGED <<records, watch>>
  <2>1. PICK c \in Candidates : Orchestrate(c)
    BY <1>1
  <2>2. records' = records /\ watch' = watch
    BY <1>1
  <2>3. OrchestrationsInv'
    BY <2>1, GatesKeep, RecordsOfModels
  <2>4. \A x \in Candidates :
            \/ OrchestrationReloads(orchestrations[x], orchestrations'[x])
            \/ StartOver(x)
    BY <2>1, <2>3, StepReloads
  <2> QED BY <2>2, <2>3, <2>4, UntouchedRegistry, UntouchedWatch
<1>2. CASE Register /\ UNCHANGED <<orchestrations, watch>>
  BY <1>2, RegisterKeeps, UntouchedOrchestrations
<1>3. CASE WatchNext /\ UNCHANGED orchestrations
  <2>1. CASE WatchStep
    BY <1>3, <2>1, WatchStepKeeps, UntouchedRegistry, UntouchedOrchestrations
  <2>2. CASE RegisterWatchedRollback
    BY <1>3, <2>2, RollbackKeeps, UntouchedOrchestrations
       DEF RegisterWatchedRollback
  <2> QED BY <1>3, <2>1, <2>2 DEF WatchNext, WatchStep
<1>4. CASE UNCHANGED vars
  BY <1>4, UntouchedRegistry, UntouchedWatch, UntouchedOrchestrations DEF vars
<1> QED BY <1>1, <1>2, <1>3, <1>4 DEF Next

LEMMA AlwaysIInv == Spec => []IInv
<1>1. IInv /\ [Next]_vars => IInv'
  BY NextIInv
<1> QED BY <1>1, InitIInv, PTL DEF Spec

-----------------------------------------------------------------------------
(* The theorems.                                                            *)

\* Whatever models, candidates and observations there are, the stores hold
\* what their fields are for, and the models of a rollback and the baseline
\* of a watch exist.
THEOREM LifecycleTypeCorrect == Spec => []TypeOK
<1>1. IInv => TypeOK
  <2> SUFFICES ASSUME IInv PROVE TypeOK
    OBVIOUS
  <2> USE DEF IInv
  <2>1. \A c \in Candidates :
            /\ orchestrations[c].stage \in 0 .. Len(StageName)
            /\ orchestrations[c].learning \subseteq LearningKinds
            /\ DOMAIN orchestrations[c].evidence = StageNames
    <3>1. PICK E : orchestrations \in [Candidates -> OrchestrationIn(E)]
      BY DEF OrchestrationsInv, OrchestrationsTyped
    <3> QED BY <3>1, Names DEF OrchestrationIn
  <2>2. watch.stage \in 0 .. 6
    <3>1. PICK F : watch \in WatchIn(F)
      BY DEF WatchInv, WatchTyped
    <3> QED BY <3>1 DEF WatchIn
  <2>3. \A receipt \in watch.evidence[4] :
            {receipt.from, receipt.to} \subseteq Models
    <3> TAKE receipt \in watch.evidence[4]
    <3>1. IsReceiptOf(receipt, watch.baseline, records[watch.baseline])
      BY DEF WatchInv, WatchHolds, MayWatch, Stages
    <3>2. watch.stage > 0
      BY <2>2 DEF WatchInv, WatchHolds, Stages
    <3>3. watch.baseline \in DOMAIN records
      BY <3>2 DEF WatchInv, WatchBound
    <3>4. /\ receipt.from = records[watch.baseline].model
          /\ receipt.to = records[watch.baseline].rollback
          /\ receipt.to # None
      BY <3>1 DEF IsReceiptOf, IsRequestOf
    <3> QED BY <3>3, <3>4, RecordsOfModels DEF MaybeModel
  <2>4. \A i \in DOMAIN records :
            /\ records[i].model \in Models
            /\ {records[i].previous, records[i].rollback}
                   \subseteq Models \cup {None}
    BY RecordsOfModels DEF MaybeModel
  <2>5. /\ Len(records) <= MaxGenerations
        /\ watch.stage > 0 => /\ watch.baseline \in DOMAIN records
                              /\ watch.model = records[watch.baseline].model
    BY DEF RegistryInv, WatchInv, WatchBound
  <2> QED BY <2>1, <2>2, <2>3, <2>4, <2>5 DEF TypeOK
<1> QED BY <1>1, AlwaysIInv, PTL

\* A registry that BaselineRegistry opens again accepts its own journal after
\* any history of canonicalizations and rollbacks (_load_records).
THEOREM RegistryAlwaysReloads == Spec => []RegistryReloads
<1>1. IInv => RegistryReloads
  BY DEF IInv, RegistryInv
<1> QED BY <1>1, AlwaysIInv, PTL

\* Behind every canonicalized baseline stands one chain of evidence, from the
\* promotion review to the stability report, that this model may replace the
\* baseline of the generation before.
THEOREM BaselinesAreBacked == Spec => []EvidenceBacked
<1>1. IInv => EvidenceBacked
  BY DEF IInv, RegistryInv
<1> QED BY <1>1, AlwaysIInv, PTL

\* Every rollback in the registry undoes the canonicalization right before it,
\* asked for by sustained drift of exactly the baseline given up.
THEOREM RollbacksReturn == Spec => []RollbackReturns
<1>1. IInv => RollbackReturns
  BY DEF IInv, RegistryInv
<1> QED BY <1>1, AlwaysIInv, PTL

\* Whatever is registered meanwhile, each step of a watch gives a state that
\* OperationalWatchStore accepts after the one before (_load_latest).
THEOREM WatchesAlwaysReload == Spec => WatchesReload
<1>1. IInv /\ [Next]_vars => [WatchReloads(watch, watch') \/ NewWatch]_watch
  BY NextIInv
<1> QED BY <1>1, AlwaysIInv, PTL DEF Spec, WatchesReload

\* The same of every orchestration in OrchestrationStateStore: no stage is
\* skipped or regressed, and no evidence replaced.
THEOREM OrchestrationsAlwaysReload == Spec => OrchestrationsReload
<1>1. IInv /\ [Next]_vars => [KeepsOrStartsOver]_orchestrations
  BY NextIInv DEF KeepsOrStartsOver
<1> QED BY <1>1, AlwaysIInv, PTL DEF Spec, OrchestrationsReload
=============================================================================
