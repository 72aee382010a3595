-------------------------- MODULE BaselineRegistry --------------------------
(***************************************************************************)
(* BaselineRegistry (baseline_registry.py): the lineage of the canonical   *)
(* baseline of one environment, one journalled record per generation.      *)
(*                                                                         *)
(* An append writes the journal first and extends the list afterwards, so  *)
(* between two calls of its one owner the list is what is on disk, and     *)
(* `records` stands for both.                                              *)
(***************************************************************************)
EXTENDS DriftRollback

CONSTANT MaxGenerations   \* bound on the length of the registry

ASSUME MaxGenerationsAssumption == MaxGenerations \in Nat \ {0}

VARIABLE records

Current == records[Len(records)]

RegistryInit == records = <<>>

-----------------------------------------------------------------------------
\* bootstrap: the first record, with no predecessor.
Bootstrap(model) ==
    /\ records = <<>>
    /\ records' = <<[kind |-> "bootstrap", model |-> model, previous |-> None,
                     rollback |-> None, evidence |-> {}]>>

\* Mutant of Succeeds: the predecessor of the receipt may be any earlier
\* baseline.
SucceedsAnyBaseline(receipt) ==
    \E i \in DOMAIN records : /\ records[i].model = receipt.previous
                              /\ receipt.rollback = receipt.previous

\* The receipt replaces exactly the registered baseline and can go back to it.
Succeeds(receipt) == /\ receipt.previous = Current.model
                     /\ receipt.rollback = Current.model

\* register_canonicalization.
RegisterCanonicalization(report) ==
    LET receipt == report.receipt
    IN  /\ receipt.outcome = "canonicalized"
        /\ report.decision = "eligible"
        /\ records # <<>> /\ Len(records) < MaxGenerations
        /\ Succeeds(receipt)
        /\ records' = Append(records,
               [kind |-> "canonicalization", model |-> receipt.candidate,
                previous |-> Current.model, rollback |-> receipt.rollback,
                evidence |-> {report}])

\* Mutant of Undoes: the baseline of the request need not be the current one.
UndoesAnyBaseline(receipt) ==
    \E i \in DOMAIN records : records[i].model = receipt.to

\* The receipt takes the current record back to its own predecessor, which
\* the registry has had before.
Undoes(receipt) ==
    /\ receipt.request.baseline = Len(records)
    /\ Current.rollback = receipt.to
    /\ Current.previous = receipt.to
    /\ \E i \in 1 .. Len(records) - 1 : records[i].model = receipt.to

\* A rollback generation names no fallback.
RollbackRecord(recovery) ==
    [kind |-> "rollback", model |-> recovery.receipt.to,
     previous |-> Current.model, rollback |-> None, evidence |-> {recovery}]

\* register_rollback.
RegisterRollback(recovery) ==
    LET receipt == recovery.receipt
    IN  /\ records # <<>> /\ Len(records) < MaxGenerations
        /\ receipt.outcome = "rolled_back"
        /\ recovery.decision = "eligible"
        /\ Undoes(receipt)
        /\ records' = Append(records, RollbackRecord(recovery))

-----------------------------------------------------------------------------
\* _validate_record: what a record of each kind has and has not.
ValidRecord(r) ==
    CASE r.kind = "bootstrap" -> r.previous = None /\ r.rollback = None
      [] r.kind = "canonicalization" ->
             r.previous # None /\ r.rollback # None /\ r.evidence # {}
      [] r.kind = "rollback" ->
             r.previous # None /\ r.rollback = None /\ r.evidence # {}

\* _load_records: what a registry that is opened again accepts.
LoadAccepts(rs) ==
    \A i \in DOMAIN rs :
        /\ ValidRecord(rs[i])
        /\ (i = 1) <=> (rs[i].kind = "bootstrap")
        /\ i > 1 =>
               /\ rs[i].previous = rs[i - 1].model
               /\ rs[i].kind = "canonicalization" =>
                      rs[i].rollback = rs[i - 1].model
               /\ rs[i].kind = "rollback" => rs[i].model = rs[i - 1].rollback
=============================================================================
