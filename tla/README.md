# TLA+ models and proofs of ST Music Agent Lab

ST Music Agent Lab is a single-operator Python application. An operator, at a local web page or a
command line, gives an instruction to an agent; the agent writes to a feature branch on GitHub;
the application collects CI, validator, review and acknowledgement evidence about the commit and,
when everything is on record, opens a pull request. Every fact it acts on is an event in a local
hash-chained journal. Around that core are a multi-agent supervisor (APP8) and a pipeline of
lifecycle records for models and baselines (A21-A26).

This directory holds TLA+ modules translated from the source, TLC configurations that check them
on small instances, and theorems checked by TLAPS. Paths below are relative to the repository;
`app3:212` stands for `src/st_music_agent/app3_task_execution.py:212`, and so on.

    tlc -workers 2 -config TaskLifecycleSerial.cfg MCTaskLifecycle     # a run
    tlapm TaskLifecycleProofs.tla                                      # the proofs

## 1. Inventory

### The task service (APP2-APP7)

| Part | State | Operations | Talks to |
|---|---|---|---|
| `TaskEventStore` (task_state.py) | the JSONL file; the list `_events`; nothing is locked | `_load`, `_append` (via `append_stage`, `append_evidence`), the fold `task_view` / `current_stage` | the disk; every service below |
| APP2/APP3 service (task_execution.py, app3) | `_previews` in memory; everything else is events | `preview`, `run`, `refresh_evidence`, `open_pull_request`, `_fail` | the store, the GitHub client, the tool loop |
| APP4 (app4) | events only | `review_bundle`, `acknowledge_review`, `create_revision`, gated `open_pull_request`, `refresh_pr_review` | the store, GitHub reads |
| APP5 (app5) | events only | project validator inside `refresh_evidence`, `refresh_pr_collaboration` | project repositories |
| APP6 (app6) | events only | `VALIDATOR_HEALTH_SNAPSHOT` after each refresh, the health gate of `open_pull_request`, audit bundle | the store |
| APP7 (app7) | none | `replay_task`, `verify_current_audit`, `verify_audit_export` | the store |
| `GitHubMutationClient`, executor, policy (github_write.py, tools.py, policy.py) | none locally; branch, commits and pull request on GitHub | `create_branch`, `commit_text_file`, `open_pull_request` | GitHub |
| Tool loop, run budget (tool_loop.py, run_budget.py) | counters of one run | turns, tool calls, deadline | a model provider, the write tools |
| Approval broker (approval_broker.py) | one pending approval, under a lock | request, decide, consume | the tool loop |
| Run journal (journal.py) | JSONL file, under a lock | append, `read_events` (unlocked) | the tool loop |
| Web servers (app*_web_app.py) | one service object | one *thread per request* (`ThreadingHTTPServer`) | the service, with no lock around it |

How they interact: a handler of APP6 calls APP5's, which calls APP4's, which calls APP3's (method
overriding with `super()`), and each of them reads the store, calls GitHub and appends events.
Two HTTP requests interleave at any of those points; the process can be stopped between any two.

What makes it correct: the journal loses nothing it acknowledged and can be reloaded; stage and
outcome of a task agree; a commit is verified only on green CI and passing validators *of that
commit*; opening a pull request takes a verified, healthy, reviewed and acknowledged head, and no
other head is ever put on record for it;
an interrupted run can be resumed; a pull request that exists is on record; every request returns.

### APP8, the supervisor

| Part | State | Operations |
|---|---|---|
| Simulator and replay (app8_supervision.py) | the dependency graph, the event list | `schedule_next`, `record_result`, `replay_supervision` |
| Reliability critic (app8_reliability.py) | none | decision over independent verdicts |
| Guarded execution (app8_execution.py) | none of its own; the task service's task, the host's records | `GuardedImplementationBridge.execute`, `ReadOnlySpecialistRunner.run`, `evaluate_verified_cycle` |
| Cross-project coordinator (app8_coordination.py) | plan, event list | `schedule_next`, `record_receipt`, `record_nonpass`, `replay_coordination` |
| Graph store (app8_graph_state.py) | JSONL file, list of records | register, capture, append event, `graph_view` (replay) |

What makes it correct: a node starts once, after its dependencies passed with their evidence,
inside the budget and never when a human must start it; a failure blocks exactly its
descendants; the events alone determine all of this; what is stored can always be replayed. A
specialist is shown one commit; an item is accepted only for a verified head that a validator and
an independent critic passed, whatever records of earlier attempts the host still has.

### Lifecycle records (A21-A26)

Orchestration state, operational watch, baseline registry, canonical baseline, drift watch,
rollback and recovery, training runs, model candidates, evaluations, activation requests and
receipts, shadow health, post-canonical stability, experiences, dataset export, portfolio plans.
Most are immutable documents bound to each other by digests, made by a gate or a builder; three
stores keep state, each over a journal: `OrchestrationStateStore` (the documents of one candidate,
stage by stage), `BaselineRegistry` (one record per generation of the canonical model) and
`OperationalWatchStateStore` (the documents of one watch over one generation). The host carries
documents between them. What makes them correct: a registered baseline has one unbroken chain of
evidence about itself and its predecessor, a rollback undoes exactly the baseline whose drift was
seen, and every journal is accepted when it is opened again.

### Left aside

HTML and routing, command line formatting, providers, transports, credentials, the sandbox and
workspace tools (I/O adapters without state across calls) and the music adapters (pure checks of
other projects' files). `PROJECT.json` lists each with its reason.

### Where it is hard

Threads over an unlocked store; check-then-append; evidence read before a GitHub call and used
after it; answers that arrive late or never; restarts between a GitHub effect and its record;
branches that others move, also while a specialist reads them; records and reports of several
attempts in the hands of one host; a graph derived by an in-place loop whose order could matter;
captures cut in the middle; a canonical baseline that changes while other candidates are on
their way and while it is watched. `PROJECT.json` ("hazards") has each at its line with the properties aimed at it.

## 2. Modules

    AppendLog            what an append-only log promises
      ^ refined by
    EventJournal         TaskEventStore: file, list, threads, torn writes, restarts
      EventJournalProofs
    TaskLifecycle        one task through APP2-APP6, over the list of the store
      TaskLifecycleProofs
    SupervisionReplay    graphs, derived states, replay, disposition (pure)
      < Supervision      SupervisorSimulator
          < GraphCapture App8GraphStore over that simulator, with restarts
              GraphCaptureProofs < SupervisionReplayProofs
    DisagreementGate       claims, the gate, the critic's model (pure, APP8B)
      < CoordinationReplay plans, receipts, replay, disposition (pure, APP8D)
      < VerifiedCycle      bridge and specialists over moving repositories (APP8C)
          < CrossProject   host, coordinator and graph store, with restarts
              CrossProjectProofs < CrossProjectReplayProofs
    ReplayLemmas            rounds, growing sets and passes over a graph (for both replays)
    ModelPromotion          evaluation to stability (documents)
      < OrchestrationState  OrchestrationStateStore
      < DriftRollback       drift and rollback (documents)
          < BaselineRegistry    the lineage of the canonical model
              < OperationalWatch    OperationalWatchStateStore
                  < BaselineLifecycle   the host and the three stores
                      BaselineLifecycleProofs
    MCEventJournal, MCTaskLifecycle, MCGraphCapture,
    MCCrossProject, MCBaselineLifecycle                instances for TLC

**EventJournal.** `_append` is cut in three: `Build` (read the tail of the list, make the record),
`Write` (open, write, fsync), `Remember` (extend the list, return). `WriteFails` is an `OSError`
after some bytes went out, `CrashInWrite` a stop in the middle of the line, `Crash` a stop
anywhere, `Start` is `_load`, which accepts or refuses. A hash is a fresh number per record: two
records built from the same list differ in their time stamp. A line is a record and whether it
still parses; `terminated` says whether the file ends with a newline, since a record appended to a
torn line is lost inside it. Payloads carry no structure here.

**AppendLog** is the promise: a durable extension by one record, then its publication, and a
restart that forgets nothing durable. `EventJournal` implements it with `log <- Loaded(file)`,
`view <- mem` (`LogSpec`).

**TaskLifecycle** takes one task through preview, run, refresh, review, acknowledgement, opening
and PR review as `App6TaskService` runs them. A handler is a thread with a label `pc[t]` and its
local variables `local[t]`; it is cut wherever it lets others in: at every GitHub call, at the agent
run, and at every append. An append is a check (`append_stage` reads the current stage) followed by
`Recorded`, when the record joins the list that all views fold; the event waits in `pending[t]`
in between. Commits are numbers, the branch head on GitHub is `branch`, and `opened` holds the head
at which GitHub opened a pull request, if it did. GitHub is asked by the name of the branch (app3:385),
so that is the head the branch has when the request arrives, which need not be the one `PrBranch`
found. The head of an open pull request then follows the branch: `PrReadBack` compares the head it
finds with the one the gates passed, and records what it found. The journal is the result of the fold
(`stage`, `outcome`, `latest[kind]`) and the set `recorded` of favourable events. What
correspondence there is between action and code is the "map" of `PROJECT.json`; names follow the
source (`DecideVerified`, `DecideFailed`, `ReviewCi`, `ReviewValidators`, `Verify`, ... are the
branches of `refresh_evidence`, in its order; `RecordHealth` is what APP6 adds after `super()`;
`OpenGates` is APP4's and APP6's gate, `PrBranch`, `PrCreate`, `PrReadBack` APP3's opening,
`PrSnapshot` what APP4 adds). `GitHubRaises` is a call that raises, `...Unanswered` one whose effect
happened and whose answer did not arrive. `Restart` drops threads and previews and keeps the journal
and GitHub. `Expire` is the passing of 900 seconds for health freshness.

**SupervisionReplay, Supervision.** `replay_supervision` is translated as a fold and
`_derive_nonrunning_states` as repeated in-place sweeps over the nodes in id order. The simulator
beside it keeps what each event made of its node, and *defines* ready, blocked and pending
declaratively; `ReplayAgrees` states that the two views coincide. Nodes are numbered in
id order; one budget dimension stands for the four, which are compared alike; the evidence expected
of a node is one thing, reported or not (a PASS must report all of it, so the union that the
source compares across dependencies is covered); the routed model is left out.

**GraphCapture** adds the graph store: `Register`, `Capture` (compare the stored prefix),
`CaptureEvent` (one record each), `CaptureReturns`, and `Restart`, after which the host has a new
simulator without events while the store has its history. A record is atomic here: the file below
has the shape that `EventJournal` models, written by one thread (a line torn by a crash makes
`_load` refuse the file, after which no step of this module happens).

**DisagreementGate, CoordinationReplay** are operators only. The gate is a function of three claims;
a digest is what it is a digest of, so "the same artifact" is equality of implementation records.
Plans are those `CrossProjectPlan` accepts; the loop of `_derive_coordination_states` is repeated
in-place sweeps in id order, with the evidence keys, and the disposition is the code's cascade.

**VerifiedCycle** is one call of the host at a time in `job`: `Preview`, `RunAgent` / `RunAgain`
/ `AgentFails`, `Refresh` / `RefreshFails`, `Audit` are `GuardedImplementationBridge.execute`, call by
call; `StartSpecialist` (branch_info), `CaptureTree` (repository_tree), `AskForTools`, `ReadFile`,
`SpecialistAnswers` / `SpecialistFails` are the specialist with its toolset and tool loop. Between any two of
them others push to the branch, the base moves, or the operator refreshes the task. The task service
is what the protocol `GuardedImplementationService` promises the bridge: one task per item, its head
and outcome, and an answer cached until the process stops. `saw` records the commits whose files a specialist was
shown. What calls returned stays in `held`, and `EvaluateCycle` puts any of it to the gate.

**CrossProject** adds the coordinator and the store. `Receive` makes a receipt by `from_app8c` of
any record and report held, or by `from_host_verified_read_only`. The coordinator of the code
keeps events only and replays them at every call; here what they settle is kept beside them and
`PlanReplays` states that replay agrees. `Capture` appends one stored event; `Restart` loses
coordinator and hands.

**ModelPromotion, DriftRollback** are the documents of A21-A26 and the decisions of their gates.
A document is a record that holds the documents it builds upon where the code holds their
fingerprints, so `verify`, which recomputes, is equality. **OrchestrationState**, **BaselineRegistry** and
**OperationalWatch** have one action per operation of their store, whose journal is written
before its state and is read again only by a new object: the state stands for both, and what
`_load` would accept is the predicate `LoadAccepts`, `WatchReloads`, `OrchestrationReloads`.
**BaselineLifecycle** is the host: it may take any generation, current or not, for the current
baseline, any adverse verdict may come, and registrations happen while another watch goes on.

## 3. Runs

Bounds are constants of the modules and named in the cfg files. Deadlock is not checked: a
bounded run stops when its counter is used up, and a stopped service is a legal state.

| Run | Instance | Shows |
|---|---|---|
| `EventJournalSolo` | 1 writer, 2 payloads, 5 records, crashes that leave nothing or the whole line | `TypeOK`; a restart is never refused (`RestartReconstructs`); between appends memory is the disk (`MemoryMirrorsDisk`); the journal implements the log (`LogSpec`) |
| `EventJournalFaulty` | 2 writers, 4 records, `OSError`s, all four crash leftovers | `LossDetected`: a file `_load` accepts holds every acknowledged record on its line; `AppendOnly` |
| `EventJournalRace` (violation) | 2 writers, 2 records, no fault | two appends at once write the same sequence number and the next start refuses the file |
| `TaskLifecycleSerial` | 1 thread, 2 commits, 2 refreshes, restarts, GitHub faults, pushes; 730 thousand states | `TypeOK`; `OutcomeMatchesStage` in every state of every handler; the head that PR_OPENED and each later review put on record was verified, healthy, reviewed and acknowledged (`PullHeadVerified`) |
| `TaskLifecycleThreads` | 2 threads (symmetric), 1 commit, 1 refresh, complete and truncated reviews; 1.5 million states | `VerifiedHasEvidence`, `PullHasEvidence` |
| `TaskLifecycleCalm` | 1 thread, 2 commits, 3 refreshes, no crash, fault or push, fair | `HealthIsCurrent`, `GateSeesLatest`, `RunResumable`, `CompletedIsRefreshable`, `PullRecorded`, `RequestsReturn` |
| `TaskLifecycleLateAnswer` (violation) | 2 threads | a refresh that read its stage earlier records an outcome over FAILED |
| `TaskLifecycleBranchMoves` (violation) | 1 thread, pushes | a refresh of a verified task whose branch moved raises before health is recorded |
| `TaskLifecycleCrashInRun` (violation) | 1 thread, restarts | a stop between the branch and its record, or after AGENT_COMPLETED, leaves a task that cannot be resumed |
| `GraphCapture` | all 25 acyclic graphs on 3 nodes, at most one gated node, limit 2 or 3 at cost 1 each, 6 events, event limit 5, restarts | `CaptureTypeOK`, `ReplayAgrees`, `BlockedByUpstream`, `ContinueHasWork`, `DependenciesFirst`, `StatesAdvance`, `StoredReplays`, `StoredInOrder`, `CaptureFaithful` |
| `CrossProject` | every valid plan of read-only items over 3 items and one with a writable item, 3 commits, a validator and two critics (one shares the producer's model), verdicts pass and fail, 2 turns, 1 tool call, 1 restart, fair; 165 thousand states | `CoordinationTypeOK`, `PlanReplays`, `AcceptedIsBacked`, `NoMovingTarget`, `ContinueHasWork`, `StoredReplays`, `ItemsAdvance`, `CallsReturn` |
| `BaselineLifecycle` | 2 candidates (symmetric) and a first baseline, 4 generations, one critical case, two kinds of advisory references; 250 thousand states | `TypeOK`, `RegistryReloads`, `EvidenceBacked`, `RollbackReturns`, `WatchesReload`, `OrchestrationsReload` |

Why these bounds. *Journal*: a chain defect needs two records and a third that chains to them; four
builds leave room for a torn line, a failed write, a record glued to the torn line, and one after
it. *Task*: two commits are a reviewed head and a newer one; two refreshes are an
old and a new snapshot (a third lets one expire between); a push between the branch check and the
opening, and one that moves the branch back before the read-back, are among the steps. Two threads are enough for
every check-then-act race on one task, and the theorems below hold for any number. *Graph*: three nodes
have chains, forks, joins and isolated nodes, in and against id order; the limit of two is used up
exactly; six events is every history of three nodes, one more than the store takes. *Cross-project*:
three commits are the base, a head and one that somebody else pushed; two turns are a tool
turn and an answer, one call is used up exactly; the writable item comes in a plan of two, since
items do not share repositories and the second only waits for the first. *Baselines*: four
generations are a first one, a canonicalization, its rollback and another canonicalization, or two
canonicalizations in a row and the rollback of one; `MaxStuck` leaves one candidate free when the
other has been refused, and `MaxLearned` follows advisory references through the first two
stages, after which they are carried along unread.

Fairness. `TaskLifecycleCalm` assumes `WF_vars(Step(t))`: a handler that has a next step takes it.
The web server gives each request a thread the operating system schedules, GitHub and model
calls have a timeout (transport.py:57, github_write.py:265), and the agent run ends under its turn
and call budget, which the bound on `commits` stands for. No request is assumed to arrive, so
nothing relies on the operator. The pass of `Recorded` is not fairer than the rest. `CrossProject`
assumes `WF_vars` of `CallStep`, the next step of the call in progress: the host is a program that
goes on, and each remote call returns or raises. That the tool loop ends is then due to
its budget alone: a model may ask for tools at every turn.

### What the violations say

Each quotes the document it contradicts under "findings" in `PROJECT.json`.

* **Concurrent appends** (task_state.py:258): the store is shared by request threads and has no
  lock, unlike journal.py:55 and approval_broker.py:47, which do. `LossDetected` shows what
  remains true: nothing acknowledged is lost *unnoticed*. The check of `append_stage` (line 138)
  is apart from its append as well; `VerifiedHasEvidence` and `PullHasEvidence` hold in spite of it.
* **Late answer** (app3:267): stage and commit are read once, then several GitHub calls are made.
* **Branch moves** (app3:304): for a verified task the snapshot is recorded, then `refresh_evidence`
  raises, so `App6TaskService.refresh_evidence` does not reach its health record and the
  previous health event stays the latest.
* **Crash in run** (app3:151, app3:177): resuming is not possible from every stage a stop can leave.

## 4. Proofs

The theorems of the seven proof modules hold for every value of the constants; `ReplayLemmas`
holds lemmas that two of them share. Every invariant and every action property that a passing run
checks is proved, some under the hypotheses the table names.

| Theorem | For |
|---|---|
| `TypeCorrect`, `JournalTypeCorrect` | `Spec => []TypeOK` |
| `VerifiedIsEvidenced` | `Spec => []VerifiedHasEvidence`: any threads, crashes, faults, pushes |
| `PullIsEvidenced` | `Spec => []PullHasEvidence`: the same |
| `SerialOutcome`, `SerialPullHead` | `Spec => []OutcomeMatchesStage`, `Spec => []PullHeadVerified` (the head on record for the pull request is a verified one) when requests are handled one at a time (`Serial`): any requests, failures, crashes, faults and pushes |
| `SerialFailed` | `Spec => FailedIsTerminal`, and FAILED is never left, when requests are handled one at a time |
| `CalmRefresh` | `Spec => []CompletedIsRefreshable` when, besides, the service is not stopped (`Calm`) |
| `CalmHealth`, `CalmGate` | `HealthIsCurrent`, `GateSeesLatest`: `Calm`, and nobody else pushes |
| `CalmResume` | `RunResumable`: `Calm`, and no GitHub call raises or goes unanswered |
| `CalmPull` | `PullRecorded`: `Calm`, no pushes and no faults |
| `CalmOpened` | every head in `opened` was verified, healthy, reviewed and acknowledged: `Calm` and no pushes |
| `LossIsDetected`, `JournalAppendsOnly` | any writers, failing writes, torn lines |
| `CaptureTypeCorrect` | `CaptureSpec => []CaptureTypeOK` |
| `HistoryInOrder`, `StoreInOrder`, `CaptureIsFaithful` | every set of graphs, of any number of nodes, and every result a host reports |
| `HistoryAlwaysReplays`, `BlockedExactly`, `ContinueAlwaysHasWork`, `NodesOnlyAdvance` | `ReplayAgrees`, `BlockedByUpstream`, `ContinueHasWork`, `StatesAdvance`: every graph, of any number of nodes in any id order |
| `StoreAlwaysReplays` (both replay modules) | `StoredReplays`: any captures, cut off wherever |
| `PlanAlwaysReplays`, `ContinueAlwaysHasWork`, `ItemsOnlyAdvance` (`CrossProjectReplayProofs`) | `PlanReplays`, `ContinueHasWork`, `ItemsAdvance`: every plan and every run |
| `SoloReconstructs`, `SoloMirrors`, `SoloImplementsLog` | one writer whose writes are all or nothing (`Solo`) |
| `AcceptIsUnanimous` | any three claims the gate accepts |
| `CrossProjectTypeCorrect`, `TargetsDoNotMove`, `AcceptanceIsBacked` | any plans, models, staff, budgets, pushes and restarts |
| `LifecycleTypeCorrect`, `RegistryAlwaysReloads`, `BaselinesAreBacked`, `RollbacksReturn` | any models, candidates, benchmark runs, observations, generations |
| `WatchesAlwaysReload`, `OrchestrationsAlwaysReload` | the same, of every step |

*Assumptions*: `ConstantsAssumption` in the first two modules (bounds are naturals, complete reviews
are reviews), `GraphsAssumption`, `ResultsAssumption` and `MaxAssumption` (graphs are ones
`DependencyGraph` accepts, results are outcomes, the event limit is a natural) and `DigestsAssumption` (a review digest is not one of the words a payload may hold).
`PlansAssumption`, `ResultsAssumption`, `SpecialistsAssumption`, `BudgetAssumption` and those of
`DisagreementGate` say that plans, staff and budgets are ones the constructors accept;
`ModelsAssumption`, `CandidatesAssumption`, `ObservationsAssumption` and `MaxGenerationsAssumption`
that a missing model is no model, candidates are models, and a round checks something.
`Solo` is a hypothesis of three theorems and not an assumption: without it they are false, as
`EventJournalRace` shows. So is `Serial` (there is one thread), of three
theorems: with two threads `TaskLifecycleLateAnswer` shows an outcome that leaves its stage. `Calm`
is `Serial` with one thread at least and no stop, and each `Calm...` theorem has what it needs besides:
`TaskLifecycleBranchMoves` shows `CalmHealth` false with pushes, `TaskLifecycleCrashInRun` shows
`CalmResume` false with stops, and a lost answer to `create_branch` or a raise right after
AGENT_COMPLETED refutes it with faults.

*Evidence.* `PullHasEvidence` is not inductive: between the gate and the opening lie several steps of
one thread and any steps of others. `EvidenceInv` adds what a handler *carries* (`PointOK`): a
thread at `validate` with green CI has the CI snapshot of its head on record or pending; one at
`decide` has it on record, and with a PASS the validator snapshot on record or pending; one at
`verified` a verification; one at `pr_branch` or `pr_create` all of `OpeningEvidence`. A pending
VERIFIED_SUCCESS has its evidence on record (`PendingOK`), and so has whatever `latest` and
`outcome` show (`LatestRecorded`, `OutcomeRecorded`). It holds under interference because
`recorded` only grows and each of these is monotone in it (`LongerLog`, `PendingKept`,
`PointKept`). There is one case per action in `RequestEvidence` and `StepEvidence`.

*One request at a time.* `SerialInv` says what the place of a handler tells about the view it
acts on (`Knows`: a handler at `verified` acts on a verified task whose outcome is still open) and that
the event about to be recorded is one the stage allows (`Follows`); outcome and stage then move
together, a crash between the two included. `HeadInv` adds that a task is bound to one commit,
once: before that nothing on record is about a head, and afterwards the verification, the validator
and health snapshots and what a handler carries all are about that one (`IsBound`), whatever
others push meanwhile. So the gates open for one head, and a handler carries a head with all its
evidence (`VerifiedHead`) from `pr_branch` on. The pull request itself may be opened at another one:
after a push between app3:380 and app3:385 `opened` holds a commit nobody verified, and no
invariant can say otherwise. What the service does about it is the read-back (app3:412), which
keeps that head off the record unless the branch has come back, and leaves the pull request on
GitHub unrecorded; the documents promise the check before and the read-back, no more
(docs/app3-execution-evidence.md:93-95). `PullHeadVerified` is about the record, and
`CalmOpened` about GitHub when nobody else pushes.

*Nothing stops the service.* What a handler leaves behind when it returns is `Rests`: not at COMMIT_BOUND,
at PR_OPENED only with a pull request, and, as far as the hypotheses go, not at AGENT_COMPLETED,
without a branch before BRANCH_CREATED, with current health, with a pull request only at
PR_OPENED (at the head of the bound commit, says `CalmView`). Within a handler it need not hold, so `CalmInv` has for each point at which it may
fail what will restore it (`OnItsWay`): at `decide` the health is stale and `then` leads to
`health`; at `pr_readback` the pull request exists and the stage is VERIFIED_SUCCESS, so
that PR_OPENED cannot be refused. `CalmAt` states it of the task as it will be once the pending
event is recorded (`Becomes`, `CurrentAfter`); `Judges` says that a health event on record or
pending is of a snapshot on record and agrees with it. Faults and pushes are hypotheses within
the invariant and not of it, so one induction serves all six theorems. `SerialInv` gives the stage at
each point, `HeadInv` that the branch, which nobody moves, is at the bound commit.

*Journal.* `LossInv` says that every acknowledged record, and each record between `Write` and
`Remember`, is `Kept`: on a whole line, or in a file with a line that does not parse and
never will, since a damaged line stays damaged (`FileGrows`). `Solo`: `SoloInv` says that the file
verifies, and that the list is the file, or all of it but the line just written.
`SoloImplementsLog` maps `Write` to the extension, `Remember` to the publication, and the rest
to stuttering or a restart of the log.

*Graph.* `HistoryInv` relates what the simulator knows of a node to its history: a node it does not know
of has no schedule event, and one that passed has a PASS event with evidence. So the node scheduled
next finds its dependencies behind it. `CaptureInv` adds that what is stored is the beginning of
the given history *while a capture is under way*: that is all a capture needs, and
all that survives a restart of the simulator is the order of what was stored.

*Cross-project.* `AcceptedIsBacked` speaks of the task as it is now, of a receipt that may be old. What
makes it true is `VerifiedStays`: no step, of the bridge or of others, changes the head or the outcome of a
verified task. `CycleInv` says that each record held as verified is of a task that is
(`IsVerified`), that each report held has its passes (`IsAccepting`), and that the call in progress
carries the head of the task that ran (`JobInv`) or files of its subject's commit; `LogInv` carries the
receipts over to events and store, restarts included. `AcceptIsUnanimous` turns the cardinalities of the
gate into three equalities.

*Baselines.* There is no set of all documents, since each holds others; types say that a store
holds *some* set of documents, and predicates (`IsReview`, ..., `IsRecovery`) say what a gate has
established of one. `OrchestrationsInv` gives each stage reached a document of its kind about this
candidate. `RegistryInv` adds to the properties that two successive generations have different
models (`ModelsChange`), without which a rollback could undo a rollback; `WatchInv` binds the evidence of a watch
to its baseline, which the registry may have left behind, and the registration compares. The two
action properties follow from each operation's own step, given the stages its guard allows.

*Replay.* `replay_supervision` and `replay_coordination` are loops over events with loops over nodes
inside, and the properties speak of what they compute. Induction is over sets of
naturals: what holds of round k is written as the set of those k, and the library's
well-foundedness of the naturals refutes that one is missing (`Induction`, in `ReplayLemmas`). The
argument has four parts. *The loops are rounds*: the recursive functions of the model
exist, are unique and have their types (`RoundsExist`, `RoundsAgree`). *The fixpoint ends*: the set
of nodes behind a failure grows in each round until it stands still, which it must within as many rounds as
there are nodes (`GrowthEnds`), and is then the least set closed under the edges
(`GrowthIsLeast`); `BlockedExactly` is that statement. *The order does not matter*: the sweeps assign states
in place, in id order, which may run against the edges; in an acyclic graph each sweep
settles the nodes all of whose dependencies are settled, so that after as many sweeps as nodes every
node has the one state that is consistent with its neighbours (`PassSettles`, `PassesSettle`).
*The fold keeps up*: `FoldInv` says that the replay of the events so far accepts each one and is at what the
simulator (the coordinator) has settled; a step adds one event and with it one round. Since each
round of an accepted history is accepted, so is a history that was cut: that, and that a
capture stores a beginning of the given history (`CaptureInv`, `LogInv`), is `StoredReplays`.
`ReplayInv` joins these to the earlier invariants. `ContinueHasWork` then follows by walking
up from a waiting node through waiting dependencies, which ends in an acyclic graph at
one that is ready. `StatesAdvance` and `ItemsAdvance` compare the states before and after a step node by
node: the blocked ones only grow and a result stays.

*Only model-checked*: `RequestsReturn` and `CallsReturn` (liveness under fairness). The violations
are shown by TLC only, as they must be.

## 5. Not modelled

*Task service.* `create_revision` joins two tasks, and the lineage events it appends are read by no
gate; `refresh_pr_collaboration` appends a snapshot no gate reads; the audit bundle, APP7's
replay and verification, status and recent tasks only read, with the fold and the transition
table that `TaskLifecycle` has. The wording of reports and which of several validators failed are
left out.

*Supervisor.* Events a host appends to the graph store without a simulator (the code checks their
number only), the record limit over all graphs, and a disposition for an exhausted budget, for
which `docs/app8a-supervisor-simulation.md` names none: `schedule_next` raises while the disposition
is still `continue`, so `ContinueHasWork` speaks of node states and not of the budget. In
`CrossProject`, deterministic claims, references of claims that do not pass, and a result of
`unavailable`, which the gate treats as it treats an abstention.

*Baselines.* One environment, one watch at a time; the formats of experiences, execution outcomes,
dataset exports and portfolio plans, which have no transition. A rollback makes the predecessor of
an old canonicalization receipt current again, so the registry accepts the same receipt and
stability report once more (baseline_registry.py:177), although docs/rollback-recovery.md:56-57 expects fresh
evidence of a later change: the model does the same, and no property here forbids it.

*Run journal, approval broker, I/O.* An append of the run journal is one step under a lock; two
stores opened on one path (journal.py:52) would break its chain, and the stores modelled here have
one owner each. The broker has three transitions, each one step under a lock, and nothing in `src/`
uses it. Web servers, command line, providers, transports, credentials, the sandbox, workspace tools
and music adapters keep no state across calls; `PROJECT.json` lists each.

Liveness stays with TLC: weak fairness is about ENABLED, which the provers do not have.
