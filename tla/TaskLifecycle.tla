---------------------------- MODULE TaskLifecycle ----------------------------
(***************************************************************************)
(* The life of one task of the guarded task service, as APP6 assembles it  *)
(* (task_execution.py and app3..app6_task_execution.py): preview, run,     *)
(* evidence refresh, review, acknowledgement, pull-request opening and     *)
(* pull-request review, each a request handled by a thread of the web      *)
(* server over a shared store that nothing locks.                          *)
(*                                                                         *)
(* A handler is cut where it lets others in: at each GitHub call and at    *)
(* each journal append.  An append itself is two steps, the check that     *)
(* append_stage makes and the moment the record joins the list that every  *)
(* view is folded from: a record waits in `pending' in between.            *)
(* EventJournal models the file under the list.                            *)
(*                                                                         *)
(* Abstractions.  A commit is a number: 0 is the base the branch starts    *)
(* from, n the n-th commit made.  The journal of the task is what          *)
(* task_view folds it to (stage, outcome and the latest event of each      *)
(* kind) and the set of favourable events it holds.  The validator results *)
(* of one refresh are their worst status, a review is its digest.          *)
(***************************************************************************)
EXTENDS Naturals

CONSTANTS Threads,         \* request threads
          Digests,         \* review digests compare evidence may have
          CompleteDigests, \* those of reviews without a truncated patch
          MaxCommits,      \* bound on the commits ever made
          MaxSnapshots,    \* bound on the evidence refreshes begun
          Crashes,         \* whether the app may die and be restarted
          Faults,          \* whether GitHub calls may raise or go unanswered
          Pushes           \* whether others may move the feature branch

ASSUME ConstantsAssumption == /\ CompleteDigests \subseteq Digests
                              /\ MaxCommits \in Nat
                              /\ MaxSnapshots \in Nat
                              /\ {Crashes, Faults, Pushes} \subseteq BOOLEAN

VARIABLES stage,           \* the last stage recorded ("NONE": no task yet)
          outcome,         \* the outcome task_view folds to
          latest,          \* latest[kind]: the last event of that kind
          recorded,        \* the favourable events the journal holds
          snapshots,       \* validator snapshots recorded so far
          expired,         \* snapshots up to this one are over 900 s old
          previewed,       \* the task is in self._previews
          created,         \* the feature branch exists on GitHub
          branch,          \* its head
          commits,         \* commits made so far
          opened,          \* the head GitHub opened a pull request at, if any
          pc,              \* pc[t]: where thread t is
          local,           \* local[t]: local variables of its handler
          pending          \* pending[t]: the event t is appending

journal == <<stage, outcome, latest, recorded, snapshots>>
github  == <<created, branch, commits, opened>>
threads == <<pc, local, pending>>
vars    == <<journal, expired, previewed, github, threads>>

-----------------------------------------------------------------------------
(* Stages, events and the fold over them. *)

Stages == {"PREVIEWED", "BRANCH_CREATED", "AGENT_RUNNING", "AGENT_COMPLETED",
           "COMMIT_BOUND", "CI_PENDING", "CI_REVIEWED", "VALIDATORS_REVIEWED",
           "VERIFIED_SUCCESS", "FAILED", "PR_OPENED"}

Outcomes == {"WORKING", "REVIEW_REQUIRED", "VERIFIED_SUCCESS", "FAILED"}

\* The stages append_stage accepts after stage s.
Allowed(s) ==
    CASE s = "NONE"                -> {"PREVIEWED"}
      [] s = "PREVIEWED"           -> {"BRANCH_CREATED", "FAILED"}
      [] s = "BRANCH_CREATED"      -> {"AGENT_RUNNING", "FAILED"}
      [] s = "AGENT_RUNNING"       -> {"AGENT_COMPLETED", "FAILED"}
      [] s = "AGENT_COMPLETED"     -> {"COMMIT_BOUND", "FAILED"}
      [] s = "COMMIT_BOUND"        -> {"CI_PENDING", "FAILED"}
      [] s = "CI_PENDING"          -> {"CI_REVIEWED", "FAILED"}
      [] s = "CI_REVIEWED"         -> {"VALIDATORS_REVIEWED", "FAILED"}
      [] s = "VALIDATORS_REVIEWED" -> {"VERIFIED_SUCCESS", "FAILED"}
      [] s = "VERIFIED_SUCCESS"    -> {"PR_OPENED"}
      [] s \in {"FAILED", "PR_OPENED"} -> {}

\* Kinds of event of which a view keeps the latest.
Kinds == {"COMMIT_BOUND", "CI_SNAPSHOT", "VALIDATOR_SNAPSHOT",
          "VALIDATOR_HEALTH_SNAPSHOT", "REVIEW_SNAPSHOT",
          "REVIEW_ACKNOWLEDGED", "PR_OPENED", "PR_REVIEW_SNAPSHOT"}

EventNames == Stages \cup Kinds \cup
              {"OUTCOME", "FAILURE", "RESUME_REQUESTED", "NONE"}

CiStates        == {"pending", "success", "failed", "unavailable"}
ValidatorStates == {"PASS", "FAIL", "UNAVAILABLE"}
HealthStates    == {"HEALTHY", "DEGRADED", "UNHEALTHY"}

\* The words a payload may hold; a digest is none of them.
Words == Outcomes \cup CiStates \cup ValidatorStates \cup HealthStates
                  \cup {"", "opened", "refreshed"}

ASSUME DigestsAssumption == Digests \cap Words = {}

\* note: the status, state, outcome or digest in the payload;
\* source: for a validator snapshot its sequence number, for a health
\* snapshot the source_sequence it was computed from.
Event == {e \in [event : EventNames, head : Nat, note : Words \cup Digests,
                  source : Nat] :
             /\ e.event = "OUTCOME" => e.note \in Outcomes
             /\ e.event = "VALIDATOR_SNAPSHOT" => e.note \in ValidatorStates}

NoEvent == [event |-> "NONE", head |-> 0, note |-> "", source |-> 0]

Ev(name, head, note) ==
    [event |-> name, head |-> head, note |-> note, source |-> 0]

\* Mutant of OutcomeAfter: only OUTCOME events set the outcome.
OutcomeOfOutcomes(e) == IF e.event = "OUTCOME" THEN e.note ELSE outcome

\* Mutant of OutcomeAfter: every stage becomes the outcome.
OutcomeOfStages(e) ==
    CASE e.event = "OUTCOME" -> e.note
      [] e.event \in Stages  -> e.event
      [] OTHER               -> outcome

\* The outcome of a view once event e is folded in.
OutcomeAfter(e) ==
    CASE e.event = "OUTCOME"                        -> e.note
      [] e.event \in {"VERIFIED_SUCCESS", "FAILED"} -> e.event
      [] OTHER                                      -> outcome

Commit == latest["COMMIT_BOUND"]
Review == latest["REVIEW_SNAPSHOT"]
Ack    == latest["REVIEW_ACKNOWLEDGED"]
Health == latest["VALIDATOR_HEALTH_SNAPSHOT"]

\* The events that speak for a task; the journal keeps every event, but only
\* these are needed to say that none of them is missing.
Favourable(e) == \/ e.event \in {"COMMIT_BOUND", "VERIFIED_SUCCESS",
                                 "REVIEW_SNAPSHOT", "REVIEW_ACKNOWLEDGED"}
                 \/ e.event = "CI_SNAPSHOT" /\ e.note = "success"
                 \/ e.event = "VALIDATOR_SNAPSHOT" /\ e.note = "PASS"
                 \/ e.event = "VALIDATOR_HEALTH_SNAPSHOT" /\ e.note = "HEALTHY"

\* Folding of e into the view, once e has its sequence number.
Fold(e) ==
    /\ stage' = IF e.event \in Stages THEN e.event ELSE stage
    /\ outcome' = OutcomeAfter(e)
    /\ latest' = IF e.event \in Kinds THEN [latest EXCEPT ![e.event] = e]
                                      ELSE latest
    /\ recorded' = IF Favourable(e)
                     THEN recorded \cup {Ev(e.event, e.head, e.note)}
                     ELSE recorded

-----------------------------------------------------------------------------
(* Handler steps. *)

\* head: commit the handler works on; from: stage it believes in; ci, status:
\* evidence it gathered; exact: branch was at head; seen: event it compared
\* against; digest: review it acknowledges; then: where _fail goes on.
NoLocals == [head |-> 0, from |-> "NONE", ci |-> "", status |-> "",
             digest |-> "", exact |-> FALSE, seen |-> NoEvent, then |-> "idle"]

Idle(t) == pc[t] = "idle" /\ pending[t] = NoEvent

At(t, label) == pc[t] = label /\ pending[t] = NoEvent

\* The handler returns or raises; either way nothing of it is left.
Return(t) == /\ pc' = [pc EXCEPT ![t] = "idle"]
             /\ local' = [local EXCEPT ![t] = NoLocals]
             /\ UNCHANGED pending

Goto(t, label, l) == /\ pc' = [pc EXCEPT ![t] = label]
                     /\ local' = [local EXCEPT ![t] = l]
                     /\ UNCHANGED pending

\* append_evidence: e is on its way to the journal.
AppendEvidence(t, e, label, l) ==
    /\ pc' = [pc EXCEPT ![t] = label]
    /\ local' = [local EXCEPT ![t] = l]
    /\ pending' = [pending EXCEPT ![t] = e]

\* append_stage: check the transition against the current stage, then append;
\* a refused transition raises out of the handler.
AppendStage(t, e, label, l) ==
    IF e.event \in Allowed(stage) THEN AppendEvidence(t, e, label, l)
                                  ELSE Return(t)

\* The record joins the list; a validator snapshot gets its number there.
Recorded(t) ==
    /\ pending[t] # NoEvent
    /\ LET e == IF pending[t].event = "VALIDATOR_SNAPSHOT"
                  THEN [pending[t] EXCEPT !.source = snapshots + 1]
                  ELSE pending[t]
       IN Fold(e)
    /\ snapshots' = IF pending[t].event = "VALIDATOR_SNAPSHOT"
                      THEN snapshots + 1 ELSE snapshots
    /\ pending' = [pending EXCEPT ![t] = NoEvent]
    /\ UNCHANGED <<expired, previewed, github, pc, local>>

-----------------------------------------------------------------------------
(* Preview and run (GuardedTaskService.preview, App3TaskService.preview and *)
(* run).                                                                    *)

\* The base branch still at the commit this task was named after is read, the
\* preview kept in memory, and the task recorded if it is new.
Preview(t) ==
    /\ Idle(t)
    /\ previewed' = TRUE
    /\ IF stage = "NONE"
         THEN AppendStage(t, Ev("PREVIEWED", 0, ""), "idle", NoLocals)
         ELSE UNCHANGED threads
    /\ UNCHANGED <<journal, expired, github>>

\* run from PREVIEWED creates the feature branch first.
RunPreviewed(t) ==
    /\ Idle(t) /\ previewed /\ stage = "PREVIEWED"
    /\ Goto(t, "create_branch", NoLocals)
    /\ UNCHANGED <<journal, expired, previewed, github>>

\* GitHub answers 201 and the branch is recorded, or refuses a ref that is
\* already there.
CreateBranch(t) ==
    /\ At(t, "create_branch")
    /\ IF created
         THEN Return(t) /\ UNCHANGED github
         ELSE /\ created' = TRUE
              /\ branch' = 0
              /\ AppendStage(t, Ev("BRANCH_CREATED", 0, ""), "begin_agent", NoLocals)
              /\ UNCHANGED <<commits, opened>>
    /\ UNCHANGED <<journal, expired, previewed>>

\* The branch is created but the answer is lost, and run raises.
CreateBranchUnanswered(t) ==
    /\ Faults
    /\ At(t, "create_branch") /\ ~created
    /\ created' = TRUE
    /\ branch' = 0
    /\ Return(t)
    /\ UNCHANGED <<journal, expired, previewed, commits, opened>>

\* A local stage of BRANCH_CREATED: the one just recorded, in the same run.
BeginAgent(t) ==
    /\ At(t, "begin_agent")
    /\ AppendStage(t, Ev("AGENT_RUNNING", 0, ""), "agent", NoLocals)
    /\ UNCHANGED <<journal, expired, previewed, github>>

\* run from BRANCH_CREATED starts the agent on the branch that is there.
RunBranchCreated(t) ==
    /\ Idle(t) /\ previewed /\ stage = "BRANCH_CREATED"
    /\ AppendStage(t, Ev("AGENT_RUNNING", 0, ""), "agent", NoLocals)
    /\ UNCHANGED <<journal, expired, previewed, github>>

\* run from AGENT_RUNNING takes the task for an interrupted one.
RunResumed(t) ==
    /\ Idle(t) /\ previewed /\ stage = "AGENT_RUNNING"
    /\ AppendEvidence(t, Ev("RESUME_REQUESTED", 0, ""), "agent", NoLocals)
    /\ UNCHANGED <<journal, expired, previewed, github>>

\* Mutant of AgentWrites: a write is not charged to the tool-call budget.
AgentWritesUncharged(t) ==
    /\ At(t, "agent")
    /\ commits' = IF commits < MaxCommits THEN commits + 1 ELSE commits
    /\ branch' \in (1 .. commits') \ {branch}
    /\ UNCHANGED <<journal, expired, previewed, created, opened, threads>>

\* In the tool loop the model writes a file: one more commit on the branch.
AgentWrites(t) ==
    /\ At(t, "agent")
    /\ commits < MaxCommits
    /\ commits' = commits + 1
    /\ branch' = commits + 1
    /\ UNCHANGED <<journal, expired, previewed, created, opened, threads>>

\* The loop ends with a final message.
AgentCompletes(t) ==
    /\ At(t, "agent")
    /\ AppendStage(t, Ev("AGENT_COMPLETED", 0, ""), "bind", NoLocals)
    /\ UNCHANGED <<journal, expired, previewed, github>>

\* The loop raises: provider error, protocol error or exhausted budget.
AgentFails(t) ==
    /\ At(t, "agent")
    /\ Goto(t, "fail", NoLocals)
    /\ UNCHANGED <<journal, expired, previewed, github>>

\* Mutant of BindHead: a run without a commit raises, but does not fail the task.
BindHeadRaises(t) ==
    /\ At(t, "bind")
    /\ IF branch = 0 THEN Return(t)
                     ELSE Goto(t, "compare", [NoLocals EXCEPT !.head = branch])
    /\ UNCHANGED <<journal, expired, previewed, github>>

\* The branch head is read: it must be a commit of its own.
BindHead(t) ==
    /\ At(t, "bind")
    /\ IF branch = 0 THEN Goto(t, "fail", NoLocals)
                     ELSE Goto(t, "compare", [NoLocals EXCEPT !.head = branch])
    /\ UNCHANGED <<journal, expired, previewed, github>>

\* Mutant of BindCommit: run returns once the commit is bound.
BindCommitReturns(t) ==
    /\ At(t, "compare")
    /\ AppendStage(t, Ev("COMMIT_BOUND", local[t].head, ""), "idle", NoLocals)
    /\ UNCHANGED <<journal, expired, previewed, github>>

\* base...head evidence names changed files, and the commit is bound.
BindCommit(t) ==
    /\ At(t, "compare")
    /\ AppendStage(t, Ev("COMMIT_BOUND", local[t].head, ""), "await_ci", local[t])
    /\ UNCHANGED <<journal, expired, previewed, github>>

\* The compare evidence is unavailable, or names no file.
BindFails(t) ==
    /\ At(t, "compare")
    /\ Goto(t, "fail", NoLocals)
    /\ UNCHANGED <<journal, expired, previewed, github>>

AwaitCi(t) ==
    /\ At(t, "await_ci")
    /\ AppendStage(t, Ev("CI_PENDING", local[t].head, ""), "idle", NoLocals)
    /\ UNCHANGED <<journal, expired, previewed, github>>

\* _fail: record the stage, or the failure where that stage is refused ...
Fail(t) ==
    /\ At(t, "fail")
    /\ stage \notin {"FAILED", "PR_OPENED"}
    /\ AppendEvidence(t, Ev(IF "FAILED" \in Allowed(stage) THEN "FAILED"
                                                           ELSE "FAILURE", 0, ""),
                      "fail_outcome", local[t])
    /\ UNCHANGED <<journal, expired, previewed, github>>

\* ... and in any case the outcome.
FailOutcome(t) ==
    /\ \/ At(t, "fail_outcome")
       \/ At(t, "fail") /\ stage \in {"FAILED", "PR_OPENED"}
    /\ AppendEvidence(t, Ev("OUTCOME", 0, "FAILED"), local[t].then, NoLocals)
    /\ UNCHANGED <<journal, expired, previewed, github>>

-----------------------------------------------------------------------------
(* Evidence refresh (App3TaskService.refresh_evidence, App6TaskService).    *)

CiStages == {"CI_PENDING", "CI_REVIEWED", "VALIDATORS_REVIEWED",
             "VERIFIED_SUCCESS"}

\* Stage and bound commit are read once, before the first GitHub call.
Refresh(t) ==
    /\ Idle(t)
    /\ stage \in CiStages
    /\ snapshots < MaxSnapshots
    /\ Goto(t, "refresh_branch",
            [NoLocals EXCEPT !.from = stage, !.head = Commit.head, !.then = "health"])
    /\ UNCHANGED <<journal, expired, previewed, github>>

\* A failed or opened task is only reported, and its health brought up to date.
RefreshSettled(t) ==
    /\ Idle(t)
    /\ stage \in {"FAILED", "PR_OPENED"}
    /\ Goto(t, "health", NoLocals)
    /\ UNCHANGED <<journal, expired, previewed, github>>

RefreshBranch(t) ==
    /\ At(t, "refresh_branch")
    /\ Goto(t, "refresh_ci", [local[t] EXCEPT !.exact = (branch = local[t].head)])
    /\ UNCHANGED <<journal, expired, previewed, github>>

\* _ci_snapshot over the exact-SHA runs: GitHub may show any state of them,
\* and an unreadable answer is a state of its own.
RefreshCi(t) ==
    /\ At(t, "refresh_ci")
    /\ \E ci \in CiStates :
           AppendEvidence(t, Ev("CI_SNAPSHOT", local[t].head, ci), "validate",
                          [local[t] EXCEPT !.ci = ci])
    /\ UNCHANGED <<journal, expired, previewed, github>>

\* The worst status of the validators: exact_commit_binding fails unless the
\* branch was at the bound commit, bounded_diff_evidence passes (BindCommit
\* bound a diff), the project validator may find anything.
WorstStatus(exact, project) == IF exact THEN project ELSE "FAIL"

RefreshValidators(t) ==
    /\ At(t, "validate")
    /\ \E project \in ValidatorStates :
           LET status == WorstStatus(local[t].exact, project)
           IN AppendEvidence(t, Ev("VALIDATOR_SNAPSHOT", local[t].head, status),
                             "decide", [local[t] EXCEPT !.status = status])
    /\ UNCHANGED <<journal, expired, previewed, github>>

Failing(l) == l.ci = "failed" \/ l.status = "FAIL"

\* A verified task only had its evidence refreshed; one whose branch has
\* moved raises, before APP6 records any health.
DecideVerified(t) ==
    /\ At(t, "decide") /\ local[t].from = "VERIFIED_SUCCESS"
    /\ IF local[t].exact THEN Goto(t, "health", NoLocals) ELSE Return(t)
    /\ UNCHANGED <<journal, expired, previewed, github>>

\* Mutant of DecideFailed: a failed refresh returns without any health.
DecideFailedReturns(t) ==
    /\ At(t, "decide") /\ local[t].from # "VERIFIED_SUCCESS"
    /\ Failing(local[t])
    /\ Goto(t, "fail", [local[t] EXCEPT !.then = "idle"])
    /\ UNCHANGED <<journal, expired, previewed, github>>

\* Failing CI or validators fail the task.
DecideFailed(t) ==
    /\ At(t, "decide") /\ local[t].from # "VERIFIED_SUCCESS"
    /\ Failing(local[t])
    /\ Goto(t, "fail", local[t])
    /\ UNCHANGED <<journal, expired, previewed, github>>

\* CI_PENDING and green CI: CI_REVIEWED.
ReviewCi(t) ==
    /\ At(t, "decide") /\ local[t].from = "CI_PENDING"
    /\ ~Failing(local[t]) /\ local[t].ci = "success"
    /\ AppendStage(t, Ev("CI_REVIEWED", local[t].head, ""), "decide",
                   [local[t] EXCEPT !.from = "CI_REVIEWED"])
    /\ UNCHANGED <<journal, expired, previewed, github>>

\* CI_REVIEWED: VALIDATORS_REVIEWED.
ReviewValidators(t) ==
    /\ At(t, "decide") /\ local[t].from = "CI_REVIEWED"
    /\ ~Failing(local[t])
    /\ AppendStage(t, Ev("VALIDATORS_REVIEWED", local[t].head, ""), "decide",
                   [local[t] EXCEPT !.from = "VALIDATORS_REVIEWED"])
    /\ UNCHANGED <<journal, expired, previewed, github>>

\* Mutant of Verified: a validator that could not be run is not asked for.
VerifiedOnCi(l) == l.from = "VALIDATORS_REVIEWED" /\ l.ci = "success"

\* VALIDATORS_REVIEWED, green CI and validators at PASS: VERIFIED_SUCCESS.
Verified(l) == l.from = "VALIDATORS_REVIEWED" /\ l.ci = "success" /\ l.status = "PASS"

Verify(t) ==
    /\ At(t, "decide") /\ Verified(local[t])
    /\ AppendStage(t, Ev("VERIFIED_SUCCESS", local[t].head, ""), "verified", local[t])
    /\ UNCHANGED <<journal, expired, previewed, github>>

VerifiedOutcome(t) ==
    /\ At(t, "verified")
    /\ AppendEvidence(t, Ev("OUTCOME", 0, "VERIFIED_SUCCESS"), "health", NoLocals)
    /\ UNCHANGED <<journal, expired, previewed, github>>

\* The outcome of a refresh that neither failed nor verified the task.
OpenOutcome(l) ==
    IF \/ l.ci = "unavailable" \/ l.status = "UNAVAILABLE"
      THEN "REVIEW_REQUIRED" ELSE "WORKING"

Undecided(t) ==
    /\ At(t, "decide") /\ ~Failing(local[t])
    /\ \/ local[t].from = "CI_PENDING" /\ local[t].ci # "success"
       \/ local[t].from = "VALIDATORS_REVIEWED" /\ ~Verified(local[t])
    /\ AppendEvidence(t, Ev("OUTCOME", 0, OpenOutcome(local[t])), "health", NoLocals)
    /\ UNCHANGED <<journal, expired, previewed, github>>

\* Mutant of HealthOf: a validator that could not be run does no harm.
HealthUnlessFailed(status) == IF status = "FAIL" THEN "UNHEALTHY" ELSE "HEALTHY"

\* _record_validator_health: the state of a validator snapshot.
HealthOf(status) == CASE status = "FAIL"        -> "UNHEALTHY"
                      [] status = "UNAVAILABLE" -> "DEGRADED"
                      [] status = "PASS"        -> "HEALTHY"

\* The latest snapshot gets a health snapshot, unless the last one is of it.
RecordHealth(t) ==
    /\ At(t, "health")
    /\ LET v == latest["VALIDATOR_SNAPSHOT"]
       IN IF v = NoEvent \/ (Health # NoEvent /\ Health.source = v.source)
            THEN Return(t)
            ELSE AppendEvidence(t, [event  |-> "VALIDATOR_HEALTH_SNAPSHOT",
                                    head   |-> v.head,
                                    note   |-> HealthOf(v.note),
                                    source |-> v.source], "idle", NoLocals)
    /\ UNCHANGED <<journal, expired, previewed, github>>

\* effective_state is FRESH_HEALTHY.
FreshHealthy == Health.note = "HEALTHY" /\ Health.source > expired

-----------------------------------------------------------------------------
(* Review and acknowledgement (App4TaskService).                            *)

\* review_bundle: the view is read, then the branch, then the compare.
ReviewBundle(t) ==
    /\ Idle(t) /\ Commit # NoEvent
    /\ Goto(t, "review_branch", [NoLocals EXCEPT !.head = Commit.head, !.seen = Review])
    /\ UNCHANGED <<journal, expired, previewed, github>>

ReviewBranch(t) ==
    /\ At(t, "review_branch")
    /\ IF branch = local[t].head THEN Goto(t, "review_compare", local[t]) ELSE Return(t)
    /\ UNCHANGED <<journal, expired, previewed, github>>

\* The digest covers base, head and files; a digest already recorded is not
\* recorded again.
ReviewCompare(t) ==
    /\ At(t, "review_compare")
    /\ \E d \in Digests :
          LET review == Ev("REVIEW_SNAPSHOT", local[t].head, d)
          IN IF local[t].seen = review THEN Return(t)
             ELSE AppendEvidence(t, review, "idle", NoLocals)
    /\ UNCHANGED <<journal, expired, previewed, github>>

Complete(review) == review.note \in CompleteDigests

\* acknowledge_review of the digest the latest review has.
Acknowledge(t) ==
    /\ Idle(t) /\ Review # NoEvent /\ Complete(Review)
    /\ Goto(t, "ack_branch",
            [NoLocals EXCEPT !.head = Review.head, !.digest = Review.note, !.seen = Ack])
    /\ UNCHANGED <<journal, expired, previewed, github>>

AckBranch(t) ==
    /\ At(t, "ack_branch")
    /\ LET ack == Ev("REVIEW_ACKNOWLEDGED", local[t].head, local[t].digest)
       IN IF branch # local[t].head \/ local[t].seen = ack
            THEN Return(t)
            ELSE AppendEvidence(t, ack, "idle", NoLocals)
    /\ UNCHANGED <<journal, expired, previewed, github>>

-----------------------------------------------------------------------------
(* Opening the pull request (App6, App4 and App3TaskService).               *)

\* Mutant of OpenGates: without APP4's acknowledgement.
OpenGatesUnacknowledged == /\ FreshHealthy
                           /\ Commit # NoEvent
                           /\ Review.head = Commit.head /\ Complete(Review)
                           /\ outcome = "VERIFIED_SUCCESS"

\* The checks made before the first GitHub call: APP6's on health, APP4's on
\* review and acknowledgement, APP3's on the outcome.
OpenGates == /\ FreshHealthy
             /\ Commit # NoEvent
             /\ Review.head = Commit.head /\ Complete(Review)
             /\ Ack.head = Commit.head /\ Ack.note = Review.note
             /\ outcome = "VERIFIED_SUCCESS"

OpenPullRequest(t) ==
    /\ Idle(t) /\ OpenGates
    /\ latest["PR_OPENED"] = NoEvent
    /\ Goto(t, "pr_branch", [NoLocals EXCEPT !.head = Commit.head])
    /\ UNCHANGED <<journal, expired, previewed, github>>

\* A pull request already recorded is returned; only its review snapshot is
\* brought back to the form the opening gives it.
OpenAgain(t) ==
    /\ Idle(t) /\ OpenGates
    /\ latest["PR_OPENED"] # NoEvent
    /\ Goto(t, "pr_snapshot", [NoLocals EXCEPT !.head = Commit.head])
    /\ UNCHANGED <<journal, expired, previewed, github>>

\* The branch must still be at the verified commit.
PrBranch(t) ==
    /\ At(t, "pr_branch")
    /\ IF branch = local[t].head THEN Goto(t, "pr_create", local[t]) ELSE Return(t)
    /\ UNCHANGED <<journal, expired, previewed, github>>

\* Mutant of PrCreate: the answer of GitHub is taken for the record of it.
PrCreateForgets(t) ==
    /\ At(t, "pr_create")
    /\ opened' = {branch}
    /\ Return(t)
    /\ UNCHANGED <<journal, expired, previewed, created, branch, commits>>

\* GitHub is asked by the name of the branch: it opens the pull request at the
\* head the branch has by then, or refuses a second one for the branch.
PrCreate(t) ==
    /\ At(t, "pr_create")
    /\ IF opened # {}
         THEN Return(t) /\ UNCHANGED opened
         ELSE opened' = {branch} /\ Goto(t, "pr_readback", local[t])
    /\ UNCHANGED <<journal, expired, previewed, created, branch, commits>>

\* It is opened but the answer is lost.
PrCreateUnanswered(t) ==
    /\ Faults
    /\ At(t, "pr_create") /\ opened = {}
    /\ opened' = {branch}
    /\ Return(t)
    /\ UNCHANGED <<journal, expired, previewed, created, branch, commits>>

\* Mutant of PrReadBack: the head read back is recorded whichever it is.
PrReadBackAnyHead(t) ==
    /\ At(t, "pr_readback")
    /\ AppendStage(t, Ev("PR_OPENED", branch, ""), "pr_snapshot", local[t])
    /\ UNCHANGED <<journal, expired, previewed, github>>

\* Its head, which follows the branch, is read back: it must be the verified
\* commit to be recorded.
PrReadBack(t) ==
    /\ At(t, "pr_readback")
    /\ IF branch = local[t].head
         THEN AppendStage(t, Ev("PR_OPENED", branch, ""), "pr_snapshot", local[t])
         ELSE Return(t)
    /\ UNCHANGED <<journal, expired, previewed, github>>

\* APP4 appends its review snapshot of the opened pull request.
PrSnapshot(t) ==
    /\ At(t, "pr_snapshot")
    /\ LET snapshot == Ev("PR_REVIEW_SNAPSHOT", local[t].head, "opened")
       IN IF latest["PR_REVIEW_SNAPSHOT"] = snapshot
            THEN Return(t) ELSE AppendEvidence(t, snapshot, "idle", NoLocals)
    /\ UNCHANGED <<journal, expired, previewed, github>>

\* refresh_pr_review: the view, then the pull request, whose head must match.
RefreshPrReview(t) ==
    /\ Idle(t) /\ latest["PR_OPENED"] # NoEvent
    /\ Goto(t, "pr_review",
            [NoLocals EXCEPT !.head = Commit.head, !.seen = latest["PR_REVIEW_SNAPSHOT"]])
    /\ UNCHANGED <<journal, expired, previewed, github>>

PrReview(t) ==
    /\ At(t, "pr_review")
    /\ LET snapshot == Ev("PR_REVIEW_SNAPSHOT", local[t].head, "refreshed")
       IN IF branch # local[t].head \/ local[t].seen = snapshot
            THEN Return(t) ELSE AppendEvidence(t, snapshot, "idle", NoLocals)
    /\ UNCHANGED <<journal, expired, previewed, github>>

-----------------------------------------------------------------------------
(* What happens around the service.                                         *)

\* Program points at a GitHub call whose error leaves the handler.
GitHubCalls == {"create_branch", "bind", "refresh_branch", "review_branch",
                "review_compare", "ack_branch", "pr_branch", "pr_create",
                "pr_readback", "pr_review"}

GitHubRaises(t) ==
    /\ Faults
    /\ pc[t] \in GitHubCalls /\ pending[t] = NoEvent
    /\ Return(t)
    /\ UNCHANGED <<journal, expired, previewed, github>>

\* Somebody else moves the feature branch: a new commit, or any earlier one.
PushByOthers ==
    /\ Pushes /\ created
    /\ \/ commits < MaxCommits /\ commits' = commits + 1 /\ branch' = commits + 1
       \/ branch' \in (0 .. commits) \ {branch} /\ UNCHANGED commits
    /\ UNCHANGED <<journal, expired, previewed, created, opened, threads>>

\* 900 seconds pass since the oldest snapshot that was still fresh.
Expire ==
    /\ expired < snapshots
    /\ expired' = expired + 1
    /\ UNCHANGED <<journal, previewed, github, threads>>

\* The app dies and is started again: previews and handlers are gone, the
\* journal is reloaded, GitHub is as it was left.
Restart ==
    /\ Crashes
    /\ previewed \/ \E t \in Threads : ~Idle(t)
    /\ previewed' = FALSE
    /\ pc' = [t \in Threads |-> "idle"]
    /\ local' = [t \in Threads |-> NoLocals]
    /\ pending' = [t \in Threads |-> NoEvent]
    /\ UNCHANGED <<journal, expired, github>>

-----------------------------------------------------------------------------
Init == /\ stage = "NONE"
        /\ outcome = "WORKING"
        /\ latest = [k \in Kinds |-> NoEvent]
        /\ recorded = {}
        /\ snapshots = 0
        /\ expired = 0
        /\ previewed = FALSE
        /\ created = FALSE
        /\ branch = 0
        /\ commits = 0
        /\ opened = {}
        /\ pc = [t \in Threads |-> "idle"]
        /\ local = [t \in Threads |-> NoLocals]
        /\ pending = [t \in Threads |-> NoEvent]

\* A request arrives.
Request(t) ==
    \/ Preview(t)
    \/ RunPreviewed(t) \/ RunBranchCreated(t) \/ RunResumed(t)
    \/ Refresh(t) \/ RefreshSettled(t)
    \/ ReviewBundle(t) \/ Acknowledge(t)
    \/ OpenPullRequest(t) \/ OpenAgain(t) \/ RefreshPrReview(t)

\* Its handler goes on.
Step(t) ==
    \/ Recorded(t)
    \/ CreateBranch(t) \/ CreateBranchUnanswered(t) \/ BeginAgent(t)
    \/ AgentWrites(t) \/ AgentCompletes(t) \/ AgentFails(t)
    \/ BindHead(t) \/ BindCommit(t) \/ BindFails(t) \/ AwaitCi(t)
    \/ Fail(t) \/ FailOutcome(t)
    \/ RefreshBranch(t) \/ RefreshCi(t) \/ RefreshValidators(t)
    \/ DecideVerified(t) \/ DecideFailed(t)
    \/ ReviewCi(t) \/ ReviewValidators(t) \/ Verify(t) \/ VerifiedOutcome(t)
    \/ Undecided(t) \/ RecordHealth(t)
    \/ ReviewBranch(t) \/ ReviewCompare(t) \/ AckBranch(t)
    \/ PrBranch(t) \/ PrCreate(t) \/ PrCreateUnanswered(t)
    \/ PrReadBack(t) \/ PrSnapshot(t) \/ PrReview(t)
    \/ GitHubRaises(t)

Next == \/ \E t \in Threads : Request(t) \/ Step(t)
        \/ PushByOthers
        \/ Expire
        \/ Restart

Spec == Init /\ [][Next]_vars

\* A thread that is not blocked gets to run, and every GitHub and model call
\* has a timeout: a handler's next step is not put off for ever.
FairSpec == Spec /\ \A t \in Threads : WF_vars(Step(t))

-----------------------------------------------------------------------------
Labels == {"idle", "create_branch", "begin_agent", "agent", "bind", "compare",
           "await_ci", "fail", "fail_outcome", "refresh_branch", "refresh_ci",
           "validate", "decide", "verified", "health", "review_branch",
           "review_compare", "ack_branch", "pr_branch", "pr_create",
           "pr_readback", "pr_snapshot", "pr_review"}

Locals == [head : Nat, from : Stages \cup {"NONE"}, ci : CiStates \cup {""},
           status : ValidatorStates \cup {""},
           digest : Digests \cup {""}, exact : BOOLEAN,
           seen : Event, then : {"idle", "health"}]

\* Types; an event is kept under its own kind, the branch is at a commit made.
TypeOK == /\ stage \in Stages \cup {"NONE"}
          /\ outcome \in Outcomes
          /\ latest \in [Kinds -> Event]
          /\ \A k \in Kinds : latest[k] = NoEvent \/ latest[k].event = k
          /\ recorded \subseteq Event
          /\ snapshots \in Nat
          /\ expired \in 0 .. snapshots
          /\ previewed \in BOOLEAN
          /\ created \in BOOLEAN
          /\ commits \in Nat
          /\ branch \in 0 .. commits
          /\ opened \subseteq 0 .. commits
          /\ pc \in [Threads -> Labels]
          /\ local \in [Threads -> Locals]
          /\ pending \in [Threads -> Event]

\* What a view shows a serial client: the outcome never disagrees with the
\* stage, in no state of any handler, whatever crashes, raises or moves.
OutcomeMatchesStage ==
    /\ outcome = "VERIFIED_SUCCESS" <=> stage \in {"VERIFIED_SUCCESS", "PR_OPENED"}
    /\ outcome = "FAILED" <=> stage = "FAILED"

\* FAILED is terminal for a task identity (docs/architecture.md): while a task
\* stays FAILED no late answer gives it another outcome.
FailedIsTerminal ==
    [][stage = "FAILED" /\ stage' = "FAILED" /\ outcome = "FAILED"
           => outcome' = "FAILED"]_vars

Quiet == \A t \in Threads : Idle(t)

\* When no request is in progress, the health the pull-request gate reads was
\* computed from the latest validator snapshot.
HealthIsCurrent ==
    Quiet => Health.source = latest["VALIDATOR_SNAPSHOT"].source

\* ... so the gate never opens on a task whose latest snapshot did not pass.
GateSeesLatest ==
    Quiet /\ OpenGates => latest["VALIDATOR_SNAPSHOT"].note = "PASS"

\* An interrupted or raised run can be resumed: from PREVIEWED the branch is
\* still to be created, and no task rests at AGENT_COMPLETED, from which
\* neither run nor refresh goes on.
RunResumable ==
    Quiet => /\ stage = "PREVIEWED" => ~created
             /\ stage # "AGENT_COMPLETED"

\* A task that run calls completed can have its evidence refreshed.
CompletedIsRefreshable == Quiet => stage # "COMMIT_BOUND"

\* Whenever nothing is under way, a pull request on GitHub is in the journal,
\* with the head GitHub opened it at, and none is in the journal alone.
PullRecorded ==
    Quiet => opened = IF stage = "PR_OPENED" THEN {latest["PR_OPENED"].head} ELSE {}

\* What the journal must hold before a pull request is opened: a bound commit,
\* a complete review of it and the acknowledgement of that very review, a
\* verified task and a healthy validator snapshot.
OpeningEvidence(log) ==
    /\ \E c \in log :
           /\ c.event = "COMMIT_BOUND"
           /\ \E d \in CompleteDigests :
                 /\ Ev("REVIEW_SNAPSHOT", c.head, d) \in log
                 /\ Ev("REVIEW_ACKNOWLEDGED", c.head, d) \in log
    /\ \E v \in log : v.event = "VERIFIED_SUCCESS"
    /\ \E h \in log : h.event = "VALIDATOR_HEALTH_SNAPSHOT"

\* Whatever request threads, crashes and others do, and however they are
\* interleaved, no pull request is opened without that evidence on record.
PullHasEvidence == opened # {} => OpeningEvidence(recorded)

\* Commit h was verified, found healthy, reviewed and acknowledged.
VerifiedHead(log, h) ==
    /\ Ev("VERIFIED_SUCCESS", h, "") \in log
    /\ Ev("VALIDATOR_HEALTH_SNAPSHOT", h, "HEALTHY") \in log
    /\ \E d \in CompleteDigests : /\ Ev("REVIEW_SNAPSHOT", h, d) \in log
                                  /\ Ev("REVIEW_ACKNOWLEDGED", h, d) \in log

PullKinds == {"PR_OPENED", "PR_REVIEW_SNAPSHOT"}

\* Requests handled one at a time: others may push between the branch check and
\* the opening, so GitHub may open a pull request at a commit nobody verified;
\* but the head the task then shows for its pull request, when it is opened and
\* at each later review, is one that was verified, found healthy, reviewed and
\* acknowledged.
PullHeadVerified ==
    \A k \in PullKinds : latest[k] # NoEvent => VerifiedHead(recorded, latest[k].head)

\* Whatever threads, crashes and others do, a head is verified only after a
\* green CI snapshot and a passing validator snapshot of that head.
VerifiedHasEvidence ==
    \A v \in recorded : v.event = "VERIFIED_SUCCESS" =>
        /\ Ev("CI_SNAPSHOT", v.head, "success") \in recorded
        /\ Ev("VALIDATOR_SNAPSHOT", v.head, "PASS") \in recorded

\* Every request returns.
RequestsReturn == \A t \in Threads : ~Idle(t) ~> Idle(t)
=============================================================================
