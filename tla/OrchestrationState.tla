-------------------------- MODULE OrchestrationState --------------------------
(***************************************************************************)
(* OrchestrationStateStore (orchestration_state.py): for each model under  *)
(* way, the evidence of the stages it has reached.  Every record is        *)
(* journalled as a whole state; a store that is opened again goes on from  *)
(* the last one, so `orchestrations` stands for the journal as well.       *)
(*                                                                         *)
(* The store keeps fingerprints and never looks behind them: what each     *)
(* document must be is decided by the gates and builders that make it.     *)
(***************************************************************************)
EXTENDS ModelPromotion

CONSTANTS Candidates,      \* the models that are trained
          LearningKinds    \* the advisory references a state may carry

ASSUME CandidatesAssumption == Candidates \subseteq Models

VARIABLE orchestrations   \* the latest state of the orchestration of each

StageName == <<"plan_verified", "execution_verified", "dataset_curated",
               "training_completed", "model_registered", "promotion_reviewed",
               "activation_requested", "activation_recorded",
               "shadow_health_reviewed", "canonical_reviewed",
               "canonicalization_recorded", "post_canonical_stability_reviewed",
               "baseline_registered">>

StageNames == {StageName[i] : i \in DOMAIN StageName}

\* The place of a stage in the order of _NEXT_STAGE.
Place == [name \in StageNames |->
             CHOOSE i \in DOMAIN StageName : StageName[i] = name]

NoDocument == {}

\* An orchestration before start_plan.
NotStarted == [stage |-> 0, learning |-> {},
               evidence |-> [name \in StageNames |-> NoDocument]]

OrchestrationsInit == orchestrations = [c \in Candidates |-> NotStarted]

\* The document an orchestration holds for a stage it has reached.
Evidence(c, name) ==
    CHOOSE document \in orchestrations[c].evidence[name] : TRUE

-----------------------------------------------------------------------------
\* _require_next.
IsNext(c, name) == Place[name] = orchestrations[c].stage + 1

\* start_plan and every record_*: the stage is the next one and its evidence
\* is set; _advance keeps the rest.
Record(c, name, document) ==
    /\ IsNext(c, name)
    /\ orchestrations' =
           [orchestrations EXCEPT ![c].stage = Place[name],
                                  ![c].evidence[name] = {document}]

\* Mutant of AttachLearningEvidence: a reference that is not given is
\* written as absent.
AttachAndForget(c, given) ==
    /\ orchestrations[c].stage >= Place["execution_verified"]
    /\ orchestrations' = [orchestrations EXCEPT ![c].learning = given]

\* attach_learning_evidence: what is there already must be given again.
AttachLearningEvidence(c, given) ==
    /\ orchestrations[c].stage >= Place["execution_verified"]
    /\ given # {}
    /\ orchestrations[c].learning \subseteq given
    /\ orchestrations' = [orchestrations EXCEPT ![c].learning = @ \cup given]

\* A new orchestration of the model: the old one stays in its own journal.
StartOver(c) == /\ orchestrations[c].stage > 0
                /\ orchestrations' = [orchestrations EXCEPT ![c] = NotStarted]

-----------------------------------------------------------------------------
\* _validate_state and _load_latest: a later state of the same orchestration
\* has the evidence of every stage it has reached, and has changed none.
OrchestrationReloads(old, new) ==
    /\ new.stage >= old.stage
    /\ old.learning \subseteq new.learning
    /\ \A i \in 1 .. new.stage : new.evidence[StageName[i]] # NoDocument
    /\ \A name \in StageNames :
           old.evidence[name] \in {NoDocument, new.evidence[name]}
=============================================================================
