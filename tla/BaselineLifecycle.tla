-------------------------- MODULE BaselineLifecycle --------------------------
(***************************************************************************)
(* The host that takes trained models through evaluation, activation,      *)
(* canonicalization and registration, watches the registered baseline and  *)
(* takes it back.  Each document is built from those the orchestration     *)
(* holds and recorded there; one whose recording a crash prevents is built *)
(* again from the same sources.  Several candidates are under way at once, *)
(* and what the host believes to be the current baseline may be a record   *)
(* the registry has left behind.  What the host does to the serving        *)
(* environment is seen only by the observations the receipts hold.         *)
(***************************************************************************)
EXTENDS OperationalWatch, OrchestrationState, FiniteSets

CONSTANTS BenchmarkRuns,   \* the outcomes a run over the cases may have
          MaxLearned,      \* bound on the stage an orchestration that holds
                           \* advisory references is followed to
          MaxStuck         \* bound on the orchestrations stuck at one time

vars == <<orchestrations, records, watch>>

Init == OrchestrationsInit /\ RegistryInit /\ WatchInit

\* The models the host may take for the current baseline: it reads the
\* registry, and a registration may follow.
Baselines == {records[i].model : i \in DOMAIN records}

\* No gate and no builder goes on from what the last stage came to.
Stuck(c) ==
    LET At(name) == orchestrations[c].stage = Place[name]
    IN  \/ At("training_completed")
           /\ Evidence(c, "training_completed") # "completed"
        \/ \E name \in {"promotion_reviewed", "shadow_health_reviewed",
                        "canonical_reviewed", "post_canonical_stability_reviewed"} :
               At(name) /\ Evidence(c, name).decision = "rejected"
        \/ At("activation_recorded")
           /\ Evidence(c, "activation_recorded").outcome # "activated"
        \/ At("canonicalization_recorded")
           /\ Evidence(c, "canonicalization_recorded").outcome # "canonicalized"

-----------------------------------------------------------------------------
\* A plan is verified, its execution is verified, a data set is curated from
\* what was executed, and a training run over it ends.
Prepare(c) ==
    \/ Record(c, "plan_verified", "plan")
    \/ Record(c, "execution_verified", "outcome")
    \/ Record(c, "dataset_curated", "manifest")
    \/ \E outcome \in TrainingOutcome :
           Record(c, "training_completed", outcome)

\* ModelCandidateRegistry.register: only a completed run has a checkpoint.
RegisterCandidate(c) ==
    /\ IsNext(c, "model_registered")
    /\ Evidence(c, "training_completed") = "completed"
    /\ Record(c, "model_registered", c)

\* ModelPromotionReviewGate.review of the candidate against a baseline.
Review(c, baseline, baselineRun, candidateRun) ==
    /\ IsNext(c, "promotion_reviewed")
    /\ Evidence(c, "model_registered") # baseline
    /\ Record(c, "promotion_reviewed",
              PromotionReview(Evidence(c, "model_registered"), baseline,
                              Compare(baselineRun, candidateRun)))

\* The activation request is built, for the baseline taken to be current.
Request(c, current) ==
    /\ IsNext(c, "activation_requested")
    /\ MayRequest(Evidence(c, "promotion_reviewed"), current)
    /\ Record(c, "activation_requested",
              ActivationRequest(Evidence(c, "promotion_reviewed"), current))

\* The host's activation ends with an outcome.
Activate(c, outcome) ==
    /\ IsNext(c, "activation_recorded")
    /\ LET request == Evidence(c, "activation_requested")
       IN  \E observed \in ActivationObserves(request, outcome) :
               Record(c, "activation_recorded",
                      ActivationReceipt(request, outcome, observed))

\* The runtime checks of an activated candidate are in.
CheckShadow(c, statuses) ==
    /\ IsNext(c, "shadow_health_reviewed")
    /\ Evidence(c, "activation_recorded").outcome = "activated"
    /\ Record(c, "shadow_health_reviewed",
              ShadowHealth(Evidence(c, "activation_recorded"), statuses))

\* CanonicalBaselineReviewGate.review, told what is canonical now.
ReviewCanonical(c, current) ==
    /\ IsNext(c, "canonical_reviewed")
    /\ Record(c, "canonical_reviewed",
              CanonicalReview(Evidence(c, "shadow_health_reviewed"), current))

\* The host's change of the canonical model ends with an outcome.
Canonicalize(c, outcome) ==
    /\ IsNext(c, "canonicalization_recorded")
    /\ LET review == Evidence(c, "canonical_reviewed")
       IN  /\ review.decision = "eligible"
           /\ \E observed \in CanonicalObserves(review, outcome) :
                  Record(c, "canonicalization_recorded",
                         CanonicalizationReceipt(review, outcome, observed))

\* Enough rounds of observations of a canonicalized candidate are in.
ObserveStability(c, rounds) ==
    /\ IsNext(c, "post_canonical_stability_reviewed")
    /\ Evidence(c, "canonicalization_recorded").outcome = "canonicalized"
    /\ Len(rounds) >= StabilityRounds
    /\ Record(c, "post_canonical_stability_reviewed",
              Stability(Evidence(c, "canonicalization_recorded"), rounds))

\* The record that came of the stability report enters the orchestration.
RecordBaseline(c, generation) ==
    /\ IsNext(c, "baseline_registered")
    /\ records[generation].evidence
           = orchestrations[c].evidence["post_canonical_stability_reviewed"]
    /\ Record(c, "baseline_registered", generation)

\* The store keeps every document; only the host's own steps change it.
Orchestrate(c) ==
    \/ Prepare(c)
    \/ \E given \in SUBSET LearningKinds : AttachLearningEvidence(c, given)
    \/ RegisterCandidate(c)
    \/ \E b \in Baselines, r, s \in BenchmarkRuns : Review(c, b, r, s)
    \/ \E b \in Baselines : Request(c, b) \/ ReviewCanonical(c, b)
    \/ \E outcome \in ActivationOutcome : Activate(c, outcome)
    \/ \E statuses \in Observations : CheckShadow(c, statuses)
    \/ \E outcome \in CanonicalizationOutcome : Canonicalize(c, outcome)
    \/ \E rounds \in [1 .. StabilityRounds -> Round] :
           ObserveStability(c, rounds)
    \/ \E generation \in DOMAIN records : RecordBaseline(c, generation)
    \/ StartOver(c)

\* The registry is filled, by hand at first and from then on with what the
\* orchestrations hold.
Register ==
    \/ \E m \in Models \ Candidates : Bootstrap(m)
    \/ \E c \in Candidates :
           /\ orchestrations[c].stage
                  >= Place["post_canonical_stability_reviewed"]
           /\ RegisterCanonicalization(
                  Evidence(c, "post_canonical_stability_reviewed"))

\* What of the orchestrations is followed.
Bounds == /\ Cardinality({c \in Candidates : Stuck(c)}) <= MaxStuck
          /\ \A c \in Candidates :
                 orchestrations[c].learning # {} =>
                     orchestrations[c].stage <= MaxLearned

Next ==
    \/ /\ \E c \in Candidates : Orchestrate(c)
       /\ UNCHANGED <<records, watch>>
       /\ Bounds'
    \/ Register /\ UNCHANGED <<orchestrations, watch>>
    \/ WatchNext /\ UNCHANGED orchestrations

Spec == Init /\ [][Next]_vars

-----------------------------------------------------------------------------
\* The stores hold what their fields are for; in particular the models that
\* a rollback goes from and to, and the baseline that a watch is bound to,
\* exist (DriftWatchGate never finds a baseline without a fallback eligible).
TypeOK ==
    /\ \A c \in Candidates :
           /\ orchestrations[c].stage \in 0 .. Len(StageName)
           /\ orchestrations[c].learning \subseteq LearningKinds
           /\ DOMAIN orchestrations[c].evidence = StageNames
    /\ Len(records) <= MaxGenerations
    /\ \A i \in DOMAIN records :
           /\ records[i].model \in Models
           /\ {records[i].previous, records[i].rollback}
                  \subseteq Models \cup {None}
    /\ watch.stage \in 0 .. 6
    /\ watch.stage > 0 => /\ watch.baseline \in DOMAIN records
                          /\ watch.model = records[watch.baseline].model
    /\ \A receipt \in watch.evidence[4] : {receipt.from, receipt.to} \subseteq Models

\* A registry that is opened again at any time accepts its own journal,
\* whatever was canonicalized and taken back and in whatever order the
\* candidates came.
RegistryReloads == LoadAccepts(records)

\* One unbroken chain of evidence that a model may replace another.
Backs(report, model, previous) ==
    LET receipt    == report.receipt
        review     == receipt.review
        activation == review.shadow.receipt
        promotion  == activation.request.review
    IN  /\ {report.decision, review.decision, review.shadow.decision,
            promotion.decision} = {"eligible"}
        /\ receipt.outcome = "canonicalized"
        /\ activation.outcome = "activated"
        /\ {receipt.candidate, receipt.observed, activation.candidate,
            activation.observed, promotion.candidate} = {model}
        /\ {receipt.previous, receipt.rollback, activation.previous,
            activation.rollback, promotion.baseline} = {previous}

\* Behind every canonicalized baseline of the registry stands one chain of
\* evidence about this model and no other: it was found better than, was
\* activated over, would have gone back to and has replaced the baseline of
\* the generation before, though other candidates were promoted and rolled
\* back all the while.
EvidenceBacked ==
    \A i \in DOMAIN records :
        records[i].kind = "canonicalization" =>
            \E report \in records[i].evidence :
                Backs(report, records[i].model, records[i - 1].model)

\* Sustained drift of a generation, and a recovery that shows the model.
Undone(recovery, generation, model) ==
    /\ recovery.decision = "eligible"
    /\ recovery.receipt.observed = model
    /\ recovery.receipt.request.baseline = generation
    /\ recovery.receipt.request.report.decision = "eligible"

\* A rollback in the registry undoes the canonicalization right before it:
\* the model of the generation before that one serves again, and the host
\* was asked for it by a report of sustained drift of exactly the baseline
\* given up.  So no rollback is undone and no two follow each other.
RollbackReturns ==
    \A i \in DOMAIN records :
        records[i].kind = "rollback" =>
            /\ records[i - 1].kind = "canonicalization"
            /\ records[i].model = records[i - 2].model
            /\ records[i].model # records[i - 1].model
            /\ \E recovery \in records[i].evidence :
                   Undone(recovery, i - 1, records[i].model)

\* A watch that is opened again between any two of its steps is accepted and
\* goes on where it was: no step skips a stage, or changes the baseline or
\* the evidence that an earlier step has recorded.
WatchesReload == [][WatchReloads(watch, watch') \/ NewWatch]_watch

KeepsOrStartsOver ==
    \A c \in Candidates :
        \/ OrchestrationReloads(orchestrations[c], orchestrations'[c])
        \/ StartOver(c)

\* The same of every orchestration: "Stages cannot be skipped or regressed
\* through the host API.  Existing evidence cannot be silently replaced."
\* (docs/orchestration-activation.md:26-27)
OrchestrationsReload == [][KeepsOrStartsOver]_orchestrations
=============================================================================
