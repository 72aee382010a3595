--------------------------- MODULE VerifiedCycle ---------------------------
(***************************************************************************)
(* Guarded execution of APP8C (app8_execution.py) in repositories that     *)
(* others work on too.  A host has one call at a time in progress: the     *)
(* bridge, which previews, runs, refreshes and audits the task of a work   *)
(* item, or a specialist, which captures the tree of a commit and loops    *)
(* over model turns and tool calls.  What the calls return stays in the    *)
(* host's hands, old and new, and the host puts any of it to the gate.     *)
(*                                                                         *)
(* The task service is seen through what the bridge uses of it (the        *)
(* protocol GuardedImplementationService): one task per work item, of      *)
(* which it keeps the outcome and the head.  A digest is what it is of.    *)
(***************************************************************************)
EXTENDS DisagreementGate

CONSTANTS Specialists,    \* [role, model, instruction] of those a host employs
          Answers,        \* the verdicts they come to
          Producers,      \* the models that implement
          Decisions,      \* the outcomes CI and validators of an exact head lead to
          MaxTurns,       \* max_model_turns of a specialist's budget
          MaxToolCalls    \* max_tool_calls

Outcomes == {"working", "review_required", "failed", "verified_success"}

ASSUME SpecialistsAssumption ==
    /\ Specialists \subseteq [role : {"validation", "critic"}, model : Critics,
                              instruction : Instructions]
    /\ Answers \subseteq Verdicts /\ Producers \subseteq Models
    /\ Decisions \subseteq Outcomes

ASSUME BudgetAssumption == MaxTurns \in Nat \ {0} /\ MaxToolCalls \in Nat \ {0}

NoCommit == 0
NoModel == 0

VARIABLES made,           \* commits made so far in the repository of an item
          main,           \* the head of its base branch
          branch,         \* the head of its feature branch
          task,           \* the task of the item, as its service sees it
          job,            \* the host's call in progress
          held            \* what the host has in its hands

cycleVars == <<made, main, branch, task, job, held>>

Task == [ran : BOOLEAN, cached : BOOLEAN, head : Commits \cup {NoCommit},
         model : Models \cup {NoModel}, outcome : Outcomes]

NoTask == [ran |-> FALSE, cached |-> FALSE, head |-> NoCommit, model |-> NoModel,
           outcome |-> "working"]

Idle == [at |-> "idle"]

\* Of each kind the last one returned, if there is one; of the reports, the
\* last that accepts: nothing can be made of another.
Held == [implementation : SUBSET Implementation, validation : SUBSET Claim,
         critic : SUBSET Claim, report : SUBSET Report]

CycleInit == /\ made = [i \in Items |-> BaseSha]
             /\ main = [i \in Items |-> BaseSha]
             /\ branch = [i \in Items |-> NoCommit]
             /\ task = [i \in Items |-> NoTask]
             /\ job = Idle
             /\ held = [implementation |-> {}, validation |-> {}, critic |-> {},
                        report |-> {}]

-----------------------------------------------------------------------------
(* The repositories and the task service.                                   *)

\* Others push to the feature branch, or work is merged to the base branch.
OthersPush(i) ==
    /\ branch[i] # NoCommit /\ made[i] < CommitCount
    /\ made' = [made EXCEPT ![i] = @ + 1]
    /\ branch' = [branch EXCEPT ![i] = made'[i]]
    /\ UNCHANGED <<main, task, job, held>>

BaseMoves(i) ==
    /\ main[i] = BaseSha /\ made[i] < CommitCount
    /\ made' = [made EXCEPT ![i] = @ + 1]
    /\ main' = [main EXCEPT ![i] = made'[i]]
    /\ UNCHANGED <<branch, task, job, held>>

\* What a refresh may make of a task that ran: a branch that has moved fails
\* it, CI and validators of the exact head decide otherwise.
Refreshed(i) ==
    IF task[i].outcome \in {"failed", "verified_success"} THEN {task[i].outcome}
    ELSE IF branch[i] # task[i].head THEN {"failed"}
    ELSE Decisions

\* A verified task whose branch has moved makes the refresh raise.
RefreshRaises(i) == task[i].outcome = "verified_success" /\ branch[i] # task[i].head

\* An operator refreshes the same task from the web page.
OperatorRefresh(i) ==
    /\ task[i].ran /\ ~RefreshRaises(i)
    /\ \E o \in Refreshed(i) : task' = [task EXCEPT ![i].outcome = o]
    /\ UNCHANGED <<made, main, branch, job, held>>

-----------------------------------------------------------------------------
(* GuardedImplementationBridge.execute.                                     *)

\* preview, and the checks on what it returns.
Preview(i) ==
    /\ job.at = "idle"
    /\ main[i] = BaseSha
    /\ job' = [at |-> "run", item |-> i]
    /\ UNCHANGED <<made, main, branch, task, held>>

\* run, of a task that has not run: the agent writes to a new branch.
RunAgent(model) ==
    LET i == job.item
    IN /\ job.at = "run" /\ ~task[i].ran /\ task[i].outcome # "failed"
       /\ made[i] < CommitCount
       /\ made' = [made EXCEPT ![i] = @ + 1]
       /\ branch' = [branch EXCEPT ![i] = made'[i]]
       /\ task' = [task EXCEPT ![i] = [ran |-> TRUE, cached |-> TRUE, head |-> made'[i],
                                       model |-> model, outcome |-> "working"]]
       /\ job' = [at |-> "refresh", item |-> i, head |-> made'[i], model |-> model]
       /\ UNCHANGED <<main, held>>

\* The agent fails, and its task for good.
AgentFails ==
    /\ job.at = "run" /\ ~task[job.item].ran
    /\ task' = [task EXCEPT ![job.item].outcome = "failed"]
    /\ job' = Idle
    /\ UNCHANGED <<made, main, branch, held>>

\* run, of a task that has: the service answers from its memory, or raises.
RunAgain ==
    LET i == job.item
    IN /\ job.at = "run" /\ task[i].ran
       /\ job' = IF task[i].cached
                 THEN [at |-> "refresh", item |-> i, head |-> task[i].head,
                       model |-> task[i].model]
                 ELSE Idle
       /\ UNCHANGED <<made, main, branch, task, held>>

\* Mutant of Disposition: what is not refused is taken for verified.
DispositionOptimistic(outcome) ==
    CASE outcome \in {"verified_success", "working"} -> "verified"
      [] outcome = "failed"                          -> "failed"
      [] outcome = "review_required"                 -> "review_required"

Disposition(outcome) ==
    CASE outcome = "verified_success" -> "verified"
      [] outcome = "failed"           -> "failed"
      [] outcome = "review_required"  -> "review_required"
      [] outcome = "working"          -> "pending"

Record(disposition) == [item |-> job.item, head |-> job.head, model |-> job.model,
                        disposition |-> disposition]

\* refresh_evidence, whose commit is the one that ran; only a verified task
\* is audited, the record of another one is returned at once.
Refresh ==
    LET i == job.item
    IN /\ job.at = "refresh" /\ ~RefreshRaises(i)
       /\ \E o \in Refreshed(i) :
             /\ task' = [task EXCEPT ![i].outcome = o]
             /\ IF Disposition(o) = "verified"
                THEN job' = [job EXCEPT !.at = "audit"] /\ UNCHANGED held
                ELSE /\ job' = Idle
                     /\ held' = [held EXCEPT !.implementation = {Record(Disposition(o))}]
       /\ UNCHANGED <<made, main, branch>>

\* It raises, or GitHub does not answer.
RefreshFails ==
    /\ job.at = "refresh"
    /\ job' = Idle
    /\ UNCHANGED <<made, main, branch, task, held>>

\* verify_current_audit: VERIFIED, or not when the journal moved under it.
Audit ==
    /\ job.at = "audit"
    /\ job' = Idle
    /\ \/ held' = [held EXCEPT !.implementation = {Record("verified")}]
       \/ UNCHANGED held
    /\ UNCHANGED <<made, main, branch, task>>

-----------------------------------------------------------------------------
(* ReadOnlySpecialistRunner.run.                                            *)

\* A host has a specialist look at the implementation it holds: on its branch,
\* at its head, about its artifact.  The first call of ExactCommitReadToolset
\* is branch_info.
StartSpecialist(who) ==
    /\ job.at = "idle"
    /\ \E record \in held.implementation :
          /\ branch[record.item] = record.head
          /\ job' = [at |-> "tree", subject |-> record, who |-> who]
    /\ UNCHANGED <<made, main, branch, task, held>>

Sitting(saw) == [at |-> "turn", subject |-> job.subject, who |-> job.who, saw |-> saw,
                 turns |-> 0, calls |-> 0, pending |-> 0]

\* Mutant of CaptureTree: the commit of the tree is not compared.
CaptureAnyTree ==
    /\ job.at = "tree"
    /\ job' = Sitting({branch[job.subject.item]})
    /\ UNCHANGED <<made, main, branch, task, held>>

\* The second is repository_tree, whose commit must be the expected one too.
CaptureTree ==
    /\ job.at = "tree"
    /\ job' = IF branch[job.subject.item] = job.subject.head
              THEN Sitting({job.subject.head}) ELSE Idle
    /\ UNCHANGED <<made, main, branch, task, held>>

\* The tool loop ends without a result: a budget of turns, calls, time or
\* bytes is used up, or the provider or the final text is not what it must be.
SpecialistFails ==
    /\ job.at \in {"turn", "tools"}
    /\ job' = Idle
    /\ UNCHANGED <<made, main, branch, task, held>>

\* Mutant of AskForTools: the calls of this turn alone are compared.
AskForToolsPerTurn(n) ==
    /\ job.at = "turn" /\ job.turns < MaxTurns
    /\ n <= MaxToolCalls
    /\ job' = [job EXCEPT !.at = "tools", !.turns = @ + 1, !.calls = @ + n, !.pending = n]
    /\ UNCHANGED <<made, main, branch, task, held>>

\* Mutant of AskForTools: nothing is taken from the budget.
AskForToolsUncounted(n) ==
    /\ job.at = "turn"
    /\ job' = [job EXCEPT !.at = "tools", !.pending = n]
    /\ UNCHANGED <<made, main, branch, task, held>>

\* A model turn that asks for n tool calls.
AskForTools(n) ==
    /\ job.at = "turn" /\ job.turns < MaxTurns
    /\ job.calls + n <= MaxToolCalls
    /\ job' = [job EXCEPT !.at = "tools", !.turns = @ + 1, !.calls = @ + n, !.pending = n]
    /\ UNCHANGED <<made, main, branch, task, held>>

\* Mutant of ReadFile: the file is read from the branch.
ReadFromBranch ==
    /\ job.at = "tools" /\ job.pending > 0
    /\ job' = [job EXCEPT !.pending = @ - 1, !.saw = @ \cup {branch[job.subject.item]},
                          !.at = IF job.pending = 1 THEN "turn" ELSE "tools"]
    /\ UNCHANGED <<made, main, branch, task, held>>

\* dispatch of a tool call: task.read_file reads at the expected commit.
ReadFile ==
    /\ job.at = "tools" /\ job.pending > 0
    /\ job' = [job EXCEPT !.pending = @ - 1, !.saw = @ \cup {job.subject.head},
                          !.at = IF job.pending = 1 THEN "turn" ELSE "tools"]
    /\ UNCHANGED <<made, main, branch, task, held>>

\* The final turn: strict JSON with a verdict.
SpecialistAnswers(verdict) ==
    /\ job.at = "turn" /\ job.turns < MaxTurns
    /\ held' = [held EXCEPT ![job.who.role] =
                  {[role |-> job.who.role, verdict |-> verdict, item |-> job.subject.item,
                    commit |-> job.subject.head, artifact |-> job.subject,
                    model |-> job.who.model, instruction |-> job.who.instruction,
                    saw |-> job.saw]}]
    /\ job' = Idle
    /\ UNCHANGED <<made, main, branch, task>>

-----------------------------------------------------------------------------
\* to_verification_claim of an implementation record.
ProducerClaim(record) ==
    [role |-> "implementation", verdict |-> "pass", item |-> record.item,
     commit |-> record.head, artifact |-> record, model |-> record.model,
     instruction |-> "item", saw |-> {}]

\* evaluate_verified_cycle, of a verified record and two claims.
EvaluateCycle ==
    /\ job.at = "idle"
    /\ \E record \in held.implementation,
          validation, critic \in held.validation \cup held.critic :
          LET report == Evaluate(ProducerClaim(record), validation, critic)
          IN /\ record.disposition = "verified"
             /\ RolesFit(ProducerClaim(record), validation, critic)
             /\ report.disposition = "accept"
             /\ held' = [held EXCEPT !.report = {report}]
    /\ UNCHANGED <<made, main, branch, task, job>>
=============================================================================
