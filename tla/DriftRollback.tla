---------------------------- MODULE DriftRollback ----------------------------
(***************************************************************************)
(* The documents by which a canonical baseline is given up again: drift    *)
(* report and rollback review request (drift_watch.py), rollback execution *)
(* receipt and recovery report (rollback_recovery.py).                     *)
(*                                                                         *)
(* The baseline of a report is the generation of its record: the registry  *)
(* is append-only and its records differ, so a generation names one record *)
(* as its fingerprint does.                                                *)
(***************************************************************************)
EXTENDS ModelPromotion

CONSTANTS DriftWindows,     \* MIN_DRIFT_WINDOWS
          DegradedInARow,   \* MIN_CONSECUTIVE_DEGRADED_WINDOWS
          RecoveryRounds    \* POST_ROLLBACK_MIN_ROUNDS

\* What a window of observations can show beside a stable serving identity.
Window == SUBSET {"degraded", "unavailable", "unready"}

Degraded(windows, i) == "degraded" \in windows[i]

\* DriftWatchGate.evaluate takes no fewer windows.
EnoughWindows(windows) == Len(windows) >= DriftWindows

\* The longest streak of degraded windows reaches the minimum.
Sustained(windows) ==
    \E i \in 1 .. Len(windows) + 1 - DegradedInARow :
        \A j \in i .. i + DegradedInARow - 1 : Degraded(windows, j)

\* Mutant of DriftDecision: the fallback of the record is not looked for.
DriftDecisionWithoutFallback(record, windows) ==
    IF Sustained(windows) THEN "eligible" ELSE "observe"

\* DriftWatchGate.evaluate for a record of the registry.
DriftDecision(record, windows) ==
    LET readable == \A i \in DOMAIN windows : windows[i] \subseteq {"degraded"}
        calm     == \A i \in DOMAIN windows : ~Degraded(windows, i)
    IN  CASE readable /\ calm -> "healthy"
          [] /\ readable /\ ~calm
             /\ record.rollback # None
             /\ Sustained(windows)
             /\ Degraded(windows, Len(windows)) -> "eligible"
          [] OTHER -> "observe"

DriftReport(generation, record, windows) ==
    [kind |-> "drift", baseline |-> generation,
     decision |-> DriftDecision(record, windows)]

\* RollbackReviewRequestBuilder.build of an eligible report.
RollbackRequest(report, record) ==
    [kind |-> "request", report |-> report, baseline |-> report.baseline,
     current |-> record.model, target |-> record.rollback]

\* What RollbackExecutionReceiptBuilder.bind may be told was observed.
RollbackObserves(request, outcome) ==
    CASE outcome = "rolled_back" -> {request.target}
      [] outcome = "failed"      -> {None, request.current}

RollbackReceipt(request, outcome, observed) ==
    [kind |-> "rollback", request |-> request, from |-> request.current,
     to |-> request.target, outcome |-> outcome, observed |-> observed]

\* A recovery round that sees another model than the target raises.
Observable(receipt, rounds) ==
    \A i \in DOMAIN rounds : rounds[i].observed = receipt.to

\* PostRollbackRecoveryGate.evaluate of a successful rollback.
Recovery(receipt, rounds) ==
    [kind |-> "recovery", receipt |-> receipt,
     decision |-> Decision(\A i \in DOMAIN rounds :
                               rounds[i].statuses = {"success"})]
=============================================================================
