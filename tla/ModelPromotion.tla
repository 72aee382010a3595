--------------------------- MODULE ModelPromotion ---------------------------
(***************************************************************************)
(* The documents by which a trained model becomes the canonical one:       *)
(* paired evaluation (learning_evaluation.py), promotion review            *)
(* (model_candidate.py), activation request and receipt                    *)
(* (activation_request.py, activation_receipt.py), shadow health           *)
(* (shadow_health.py), canonical review and canonicalization receipt       *)
(* (canonical_baseline.py), post-canonical stability                       *)
(* (post_canonical_stability.py).                                          *)
(*                                                                         *)
(* A document is a value.  Where the source keeps the SHA-256 fingerprint  *)
(* of the document it builds upon, the record here keeps that document; a  *)
(* `verify` that recomputes a document from its sources is then equality.  *)
(* A model id is the hash of a lineage that holds the checkpoint, so the   *)
(* pair (id, checkpoint) that the source compares is one value.            *)
(***************************************************************************)
EXTENDS Naturals, Sequences

CONSTANTS Models,           \* model candidate ids
          None,             \* no model observed, no predecessor
          CriticalCases,    \* benchmark cases of critical severity
          StabilityRounds,  \* POST_CANONICAL_MIN_ROUNDS
          Observations      \* the sets of statuses that the checks required
                            \* at one time may have between them

BenchmarkOutcome        == {"failure", "abstained", "success"}
TrainingOutcome         == {"completed", "failed", "abstained"}
ActivationOutcome       == {"activated", "rolled_back", "failed"}
CanonicalizationOutcome == {"canonicalized", "rolled_back", "failed"}
CheckStatus             == {"success", "failure", "unavailable"}

ASSUME ModelsAssumption == None \notin Models

ASSUME ObservationsAssumption == Observations \subseteq (SUBSET CheckStatus) \ {{}}

\* One round of observations: the model that was seen serving, and the
\* statuses of the checks the round must have, each exactly once.
Round == [observed : Models, statuses : Observations]

\* The decision of a gate that rejects as soon as it has a reason to.
Decision(ok) == IF ok THEN "eligible" ELSE "rejected"

-----------------------------------------------------------------------------
Rank(outcome) == CASE outcome = "failure"   -> 0
                   [] outcome = "abstained" -> 1
                   [] outcome = "success"   -> 2

\* LearningEvaluationGate.compare: two runs over the same cases.
Compare(baseline, candidate) ==
    Decision(/\ \A c \in DOMAIN baseline :
                    Rank(candidate[c]) >= Rank(baseline[c])
             /\ \A c \in CriticalCases : candidate[c] # "failure"
             /\ \E c \in DOMAIN baseline :
                    Rank(candidate[c]) > Rank(baseline[c]))

PromotionReview(candidate, baseline, comparison) ==
    [kind |-> "promotion", candidate |-> candidate, baseline |-> baseline,
     decision |-> comparison]

\* Mutant of MayRequest: any baseline may be named as the current one.
MayRequestAnyBaseline(review, current) == review.decision = "eligible"

\* ActivationRequestBuilder.build accepts the review with this baseline.
MayRequest(review, current) == /\ review.decision = "eligible"
                               /\ review.baseline = current

ActivationRequest(review, current) ==
    [review |-> review, candidate |-> review.candidate,
     current |-> current, rollback |-> current]

\* What ActivationReceiptBuilder.bind may be told was observed.
ActivationObserves(request, outcome) ==
    CASE outcome = "activated"   -> {request.candidate}
      [] outcome = "rolled_back" -> {request.rollback}
      [] outcome = "failed"      -> {None}

ActivationReceipt(request, outcome, observed) ==
    [kind |-> "activation", request |-> request, candidate |-> request.candidate,
     previous |-> request.current, rollback |-> request.rollback,
     outcome |-> outcome, observed |-> observed]

-----------------------------------------------------------------------------
\* ShadowHealthGate.evaluate of an activated receipt; the statuses are those
\* of the four required checks.
ShadowHealth(receipt, statuses) ==
    [kind |-> "shadow", receipt |-> receipt,
     decision |-> Decision(statuses = {"success"})]

\* CanonicalBaselineReviewGate.review, told that `current` is canonical.
CanonicalReview(shadow, current) ==
    LET receipt == shadow.receipt
    IN  [shadow |-> shadow, candidate |-> receipt.candidate,
         current |-> current, rollback |-> receipt.rollback,
         decision |-> Decision(/\ shadow.decision = "eligible"
                               /\ current = receipt.previous
                               /\ receipt.rollback = current)]

\* What CanonicalizationReceiptBuilder.bind may be told was observed.
CanonicalObserves(review, outcome) ==
    CASE outcome = "canonicalized" -> {review.candidate}
      [] outcome = "rolled_back"   -> {review.rollback}
      [] outcome = "failed"        -> {None, review.current}

CanonicalizationReceipt(review, outcome, observed) ==
    [kind |-> "canonicalization", review |-> review,
     candidate |-> review.candidate, previous |-> review.current,
     rollback |-> review.rollback, outcome |-> outcome, observed |-> observed]

\* PostCanonicalStabilityGate.evaluate of a canonicalized receipt.
Stability(receipt, rounds) ==
    [kind |-> "stability", receipt |-> receipt,
     decision |-> Decision(\A i \in DOMAIN rounds :
                               /\ rounds[i].observed = receipt.candidate
                               /\ rounds[i].statuses = {"success"})]
=============================================================================
