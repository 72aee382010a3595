-------------------------- MODULE OperationalWatch --------------------------
(***************************************************************************)
(* OperationalWatchStateStore (operational_watch.py): the evidence of one  *)
(* watch over one registered baseline, from its first observation to the   *)
(* registration of a rollback, stage by stage.  The host builds a document *)
(* and records it in the watch; a document whose recording a crash         *)
(* prevents is built again from the same sources.                          *)
(*                                                                         *)
(* Stages are numbered: 1 baseline_bound, 2 drift_reviewed,                *)
(* 3 rollback_review_requested, 4 rollback_execution_recorded,             *)
(* 5 post_rollback_recovery_reviewed, 6 rollback_baseline_registered.      *)
(***************************************************************************)
EXTENDS BaselineRegistry

CONSTANT WindowRuns   \* the sequences of observation windows a watch may see

VARIABLE watch        \* the latest state of the watch

Stages == 2 .. 6

NoEvidence == {}

\* A watch that is not bound yet.
Unbound == [stage |-> 0, baseline |-> 0, model |-> None,
            evidence |-> [s \in Stages |-> NoEvidence]]

WatchInit == watch = Unbound

Recorded(s) == CHOOSE document \in watch.evidence[s] : TRUE

\* Mutant of MayRecord: the latest stage may be recorded again.
MayRecordAgain(s) == watch.stage \in {s - 1, s}

\* _require_next.
MayRecord(s) == watch.stage + 1 = s

\* _advance.
Advanced(s, document) ==
    [watch EXCEPT !.stage = s, !.evidence[s] = {document}]

-----------------------------------------------------------------------------
\* bind_baseline, of a new watch, to a record the host has.
Bind(generation) ==
    /\ watch.stage = 0
    /\ watch' = [Unbound EXCEPT !.stage = 1, !.baseline = generation,
                                !.model = records[generation].model]
    /\ UNCHANGED records

\* record_drift_review of the report over the windows seen.
ReviewDrift(windows) ==
    /\ MayRecord(2)
    /\ EnoughWindows(windows)
    /\ watch' = Advanced(2, DriftReport(watch.baseline,
                                        records[watch.baseline], windows))
    /\ UNCHANGED records

\* record_rollback_review_request of the request for an eligible report.
RequestRollback ==
    /\ MayRecord(3)
    /\ Recorded(2).decision = "eligible"
    /\ watch' = Advanced(3, RollbackRequest(Recorded(2),
                                            records[watch.baseline]))
    /\ UNCHANGED records

\* record_rollback_execution of what the host's rollback came to.
ExecuteRollback(outcome) ==
    /\ MayRecord(4)
    /\ \E observed \in RollbackObserves(Recorded(3), outcome) :
           watch' = Advanced(4, RollbackReceipt(Recorded(3), outcome, observed))
    /\ UNCHANGED records

\* record_post_rollback_recovery, of a successful rollback only.
ReviewRecovery(rounds) ==
    /\ MayRecord(5)
    /\ Recorded(4).outcome = "rolled_back"
    /\ Len(rounds) >= RecoveryRounds
    /\ Observable(Recorded(4), rounds)
    /\ watch' = Advanced(5, Recovery(Recorded(4), rounds))
    /\ UNCHANGED records

\* register_rollback, with the documents of the watch.
RegisterWatchedRollback ==
    /\ watch.stage = 5
    /\ RegisterRollback(Recorded(5))
    /\ UNCHANGED watch

\* record_rollback_baseline_registration of a record of the registry.
RecordRegistration(generation) ==
    LET record == records[generation]
    IN  /\ MayRecord(6)
        /\ record.kind = "rollback"
        /\ record.previous = watch.model
        /\ record.evidence = watch.evidence[5]
        /\ watch' = Advanced(6, record)
        /\ UNCHANGED records

\* A new watch id: the evidence of the old watch stays in its own journal.
NewWatch == /\ watch.stage # 0
            /\ watch' = Unbound
            /\ UNCHANGED records

WatchNext ==
    \/ \E g \in DOMAIN records : Bind(g) \/ RecordRegistration(g)
    \/ \E windows \in WindowRuns : ReviewDrift(windows)
    \/ RequestRollback
    \/ \E outcome \in {"rolled_back", "failed"} : ExecuteRollback(outcome)
    \/ \E rounds \in [1 .. RecoveryRounds -> Round] : ReviewRecovery(rounds)
    \/ RegisterWatchedRollback
    \/ NewWatch

-----------------------------------------------------------------------------
\* _validate_state and _load_latest: a later state of the same watch has the
\* evidence of every stage it has reached, and has changed none.
WatchReloads(old, new) ==
    /\ new.stage >= old.stage
    /\ old.stage > 0 => /\ new.baseline = old.baseline
                        /\ new.model = old.model
    /\ \A s \in Stages : /\ s <= new.stage => new.evidence[s] # NoEvidence
                         /\ old.evidence[s] # NoEvidence =>
                                new.evidence[s] = old.evidence[s]
=============================================================================
