---------------------------- MODULE CrossProject ----------------------------
(***************************************************************************)
(* CrossProjectCoordinator (app8_coordination.py), the host that executes  *)
(* its items by APP8C, and the operator graph store that keeps its events  *)
(* (app8_graph_state.py).  The coordinator executes nothing: it schedules  *)
(* an item, and accepts a receipt the host makes of what it has in its     *)
(* hands by then, whichever item and attempt that came from.  A restart    *)
(* loses coordinator and hands; tasks, branches and the store stay.        *)
(*                                                                         *)
(* The coordinator keeps nothing but the events and replays them at every  *)
(* call; here what a replay settles is kept beside them, and PlanReplays   *)
(* says that it is what replay_coordination computes.                      *)
(***************************************************************************)
EXTENDS VerifiedCycle, CoordinationReplay

CONSTANTS Plans,          \* the plans a coordinator may be given
          Results,        \* the outcomes it reports when an item is not accepted
          MaxRestarts     \* bound on restarts

ASSUME PlansAssumption == Plans \subseteq {p \in Plan : ValidPlan(p)}

ASSUME ResultsAssumption == Results \subseteq NonPass /\ MaxRestarts \in Nat

VARIABLES plan,           \* self.plan
          events,         \* self._events
          settled,        \* what the last event of an item made of it
          receipts,       \* the receipt of an accepted item
          stored,         \* the events in the graph store
          restarts        \* restarts so far

coordinatorVars == <<plan, events, settled, receipts>>
vars == <<cycleVars, coordinatorVars, stored, restarts>>

-----------------------------------------------------------------------------
(* The states of the items.                                                 *)

Waiting(i) == settled[i] = "none"

\* Items something upstream of which ended without being accepted.
Obstructed ==
    LET upto[k \in 0 .. ItemCount] ==
            IF k = 0 THEN {i \in plan.items : settled[i] \in NonPass}
            ELSE LET nearer == upto[k - 1]
                 IN nearer \cup {i \in plan.items : plan.deps[i] \cap nearer # {}}
    IN upto[ItemCount]

States ==
    LET obstructed == Obstructed
    IN [i \in plan.items |->
           IF ~Waiting(i)                                           THEN settled[i]
           ELSE IF i \in obstructed                                 THEN "blocked"
           ELSE IF \A d \in plan.deps[i] : settled[d] = "accepted"  THEN "ready"
           ELSE "pending"]

-----------------------------------------------------------------------------
(* CrossProjectCoordinator.                                                 *)

Event(type, i, receipt) == [sequence |-> Len(events) + 1, type |-> type, item |-> i,
                            receipt |-> receipt]

\* Mutant of MayStart: an item is ready once what it needs has ended.
MayStartWhenEnded(i) ==
    /\ \A j \in plan.items : settled[j] # "running"
    /\ Waiting(i) /\ \A d \in plan.deps[i] : ~Waiting(d)

\* The ready item of the first project, if nothing is running.
MayStart(i) ==
    /\ \A j \in plan.items : settled[j] # "running"
    /\ LET states == States
       IN /\ states[i] = "ready"
          /\ \A j \in plan.items : states[j] = "ready" => plan.rank[i] <= plan.rank[j]

\* schedule_next.
ScheduleNext(i) ==
    /\ job.at = "idle"
    /\ MayStart(i)
    /\ events' = Append(events, Event("scheduled", i, {}))
    /\ settled' = [settled EXCEPT ![i] = "running"]
    /\ UNCHANGED <<cycleVars, plan, receipts, stored, restarts>>

GateBinds(record, report) == /\ report.item = record.item
                             /\ report.commit = record.head
                             /\ report.artifact = record

\* The receipt from_app8c makes of the record and the report in the host's
\* hands, if it makes one.
FromApp8c(i, evidence) ==
    {[item |-> i, base |-> BaseSha, head |-> pair[1].head, evidence |-> evidence,
      source |-> "app8c_verified_cycle", artifact |-> {pair[1]}, verification |-> {pair[2]}] :
        pair \in {p \in held.implementation \X held.report :
                    /\ i \in plan.writable /\ p[1].item = i
                    /\ p[1].disposition = "verified"
                    /\ p[2].disposition = "accept"
                    /\ GateBinds(p[1], p[2])
                    /\ plan.produces[i] \subseteq evidence}}

\* from_host_verified_read_only: the host has looked at one commit.
FromHost(i, exact, evidence) ==
    IF i \notin plan.writable /\ exact = BaseSha /\ plan.produces[i] \subseteq evidence
    THEN {[item |-> i, base |-> exact, head |-> exact, evidence |-> evidence,
           source |-> "host_verified_read_only", artifact |-> {}, verification |-> {}]}
    ELSE {}

\* record_receipt, of the item that is running.
RecordReceipt(i, receipt) ==
    /\ job.at = "idle"
    /\ settled[i] = "running" /\ Binds(plan, receipt)
    /\ events' = Append(events, Event("accepted", i, {receipt}))
    /\ settled' = [settled EXCEPT ![i] = "accepted"]
    /\ receipts' = [receipts EXCEPT ![i] = {receipt}]
    /\ UNCHANGED <<cycleVars, plan, stored, restarts>>

Receive(i) == \E evidence \in SUBSET Keys :
                 \/ \E receipt \in FromApp8c(i, evidence) : RecordReceipt(i, receipt)
                 \/ \E exact \in {BaseSha, main[i]} :
                       \E receipt \in FromHost(i, exact, evidence) : RecordReceipt(i, receipt)

\* record_nonpass.
RecordNonPass(i, outcome) ==
    /\ job.at = "idle"
    /\ settled[i] = "running"
    /\ events' = Append(events, Event(outcome, i, {}))
    /\ settled' = [settled EXCEPT ![i] = outcome]
    /\ UNCHANGED <<cycleVars, plan, receipts, stored, restarts>>

-----------------------------------------------------------------------------
(* capture_coordination and restarts.                                       *)

\* Mutant of Captured: the next event is stored whatever came before it.
CapturedUnmatched == Len(stored) < Len(events)

\* What is stored are the first of the events given.
Captured == /\ Len(stored) < Len(events)
            /\ \A n \in 1 .. Len(stored) : stored[n] = events[n]

\* A capture appends event by event, and may die after any of them.
Capture == /\ job.at = "idle"
           /\ Captured
           /\ stored' = Append(stored, events[Len(stored) + 1])
           /\ UNCHANGED <<cycleVars, coordinatorVars, restarts>>

Restart == /\ restarts < MaxRestarts
           /\ restarts' = restarts + 1
           /\ events' = <<>>
           /\ settled' = [i \in Items |-> "none"]
           /\ receipts' = [i \in Items |-> {}]
           /\ job' = Idle
           /\ held' = [implementation |-> {}, validation |-> {}, critic |-> {}, report |-> {}]
           /\ task' = [i \in Items |-> [task[i] EXCEPT !.cached = FALSE]]
           /\ UNCHANGED <<made, main, branch, plan, stored>>

-----------------------------------------------------------------------------
Init == /\ CycleInit
        /\ plan \in Plans
        /\ events = <<>>
        /\ settled = [i \in Items |-> "none"]
        /\ receipts = [i \in Items |-> {}]
        /\ stored = <<>>
        /\ restarts = 0

\* The next step of the call in progress.
CallStep == \/ \E m \in Producers : RunAgent(m)
            \/ AgentFails \/ RunAgain \/ Refresh \/ RefreshFails \/ Audit
            \/ CaptureTree \/ ReadFile \/ SpecialistFails
            \/ \E n \in 1 .. MaxToolCalls : AskForTools(n)
            \/ \E v \in Answers : SpecialistAnswers(v)

CycleStep == \/ \E i \in plan.writable :
                   OthersPush(i) \/ BaseMoves(i) \/ OperatorRefresh(i) \/ Preview(i)
             \/ \E who \in Specialists : StartSpecialist(who)
             \/ EvaluateCycle
             \/ CallStep

Next == \/ CycleStep /\ UNCHANGED <<coordinatorVars, stored, restarts>>
        \/ \E i \in plan.items : ScheduleNext(i) \/ Receive(i)
        \/ \E i \in plan.items, outcome \in Results : RecordNonPass(i, outcome)
        \/ Capture
        \/ Restart

Spec == Init /\ [][Next]_vars

\* A call that has begun goes on: each of its steps returns or raises.
FairSpec == Spec /\ WF_vars(CallStep /\ UNCHANGED <<coordinatorVars, stored, restarts>>)

-----------------------------------------------------------------------------
Jobs == [at : {"idle"}]
            \cup [at : {"run"}, item : Items]
            \cup [at : {"refresh", "audit"}, item : Items, head : Commits, model : Models]
            \cup [at : {"tree"}, subject : Implementation, who : Specialists]
            \cup [at : {"turn", "tools"}, subject : Implementation, who : Specialists,
                  saw : SUBSET Commits,
                  turns : 0 .. MaxTurns, calls : 0 .. MaxToolCalls, pending : 0 .. MaxToolCalls]

\* Types, and the turn and tool-call budgets of the loop (run_budget.py:60,66).
CoordinationTypeOK ==
    /\ made \in [Items -> Commits]
    /\ main \in [Items -> Commits]
    /\ branch \in [Items -> Commits \cup {NoCommit}]
    /\ task \in [Items -> Task]
    /\ job \in Jobs
    /\ held.implementation \subseteq Implementation
    /\ \A c \in held.validation \cup held.critic : c \in Claim
    /\ \A r \in held.report : r.disposition \in {"accept", "reject", "review_required", "abstain"}
    /\ plan \in Plan
    /\ settled \in [Items -> {"none", "running", "accepted"} \cup NonPass]
    /\ restarts \in 0 .. MaxRestarts

\* The coordinator's own events always replay, and the loop over the items,
\* whatever their order, comes to the states: an item is blocked if and only if
\* something upstream of it ended without acceptance, and with all its
\* dependencies accepted it never lacks evidence.
PlanReplays ==
    ReplayPlan(plan, events) = [accepted |-> TRUE, state |-> States, receipts |-> receipts]

\* What a receipt says is so, whatever the host mixed up on the way and however
\* long ago it was (docs/app8d-cross-project-coordination.md, "Verified
\* completion receipts"): a writable item was accepted for the head of its task,
\* which is verified, and with a validator and a critic of another model who
\* passed that artifact; a read-only one is where the plan expects it.
Backed(receipt) ==
    LET i == receipt.item
    IN IF i \in plan.writable
       THEN /\ task[i].outcome = "verified_success" /\ task[i].head = receipt.head
            /\ \A record \in receipt.artifact, report \in receipt.verification :
                  \A role \in {"validation", "critic"} : \E c \in report.claims :
                      /\ c.role = role /\ c.verdict = "pass"
                      /\ c.item = i /\ c.commit = receipt.head /\ c.artifact = record
                      /\ role = "critic" => c.model # record.model
       ELSE receipt.head = BaseSha

AcceptedIsBacked ==
    \A log \in {events, stored} : \A n \in 1 .. Len(log) :
        \A receipt \in log[n].receipt : Backed(receipt)

\* No validator or critic reviews a moving target: whatever is pushed between
\* the calls of its toolset, all it was shown is of the commit it claims.
NoMovingTarget ==
    \A c \in held.validation \cup held.critic : c.saw = {c.commit}

\* A plan that says continue has something to go on with.
ContinueHasWork ==
    LET states == States
    IN PlanDisposition(states) = "continue" =>
           \E i \in plan.items : states[i] \in {"running", "ready"}

\* What the operator is shown from the store is always one legal history of the
\* plan, even when it was captured from several coordinators.
StoredReplays == ReplayPlan(plan, stored).accepted

\* While a coordinator lives no item falls back: not from ready, not from
\* blocked, not from a result.
Successors(s) == CASE s = "pending" -> {"pending", "ready", "blocked"}
                   [] s = "ready"   -> {"ready", "running"}
                   [] s = "running" -> {"running", "accepted"} \cup NonPass
                   [] OTHER         -> {s}

Advance(before, after) == \A i \in plan.items : after[i] \in Successors(before[i])

ItemsAdvance == [][restarts' = restarts => Advance(States, States')]_coordinatorVars

\* Every call of the host returns: the tool loop ends in its budget.
CallsReturn == job.at # "idle" ~> job.at = "idle"
=============================================================================
