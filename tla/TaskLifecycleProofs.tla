------------------------- MODULE TaskLifecycleProofs -------------------------
(***************************************************************************)
(* Type correctness of TaskLifecycle, and the two evidence invariants, for *)
(* any set of request threads, any review digests and any bounds, with     *)
(* crashes, GitHub faults and pushes by others allowed; then three         *)
(* properties that hold when requests are handled one at a time, and six   *)
(* of what such requests leave behind when the service is not stopped.     *)
(***************************************************************************)
EXTENDS TaskLifecycle, TLAPS

-----------------------------------------------------------------------------
(* Types.                                                                   *)

JournalOK == /\ stage \in Stages \cup {"NONE"}
             /\ outcome \in Outcomes
             /\ latest \in [Kinds -> Event]
             /\ \A k \in Kinds : latest[k] = NoEvent \/ latest[k].event = k
             /\ recorded \subseteq Event
             /\ snapshots \in Nat
             /\ expired \in 0 .. snapshots

GitHubOK == /\ previewed \in BOOLEAN
            /\ created \in BOOLEAN
            /\ commits \in Nat
            /\ branch \in 0 .. commits
            /\ opened \subseteq 0 .. commits

ThreadsOK == /\ pc \in [Threads -> Labels]
             /\ local \in [Threads -> Locals]
             /\ pending \in [Threads -> Event]

LEMMA TypeParts == TypeOK <=> JournalOK /\ GitHubOK /\ ThreadsOK
BY DEF TypeOK, JournalOK, GitHubOK, ThreadsOK

LEMMA NoEventType == NoEvent \in Event
BY DEF NoEvent, Event, EventNames, Words

LEMMA NoLocalsType == NoLocals \in Locals
BY NoEventType DEF NoLocals, Locals

\* Ev builds an event from a name, a commit and a note.
LEMMA EvType ==
    ASSUME NEW name \in EventNames, NEW head \in Nat, NEW note \in Words \cup Digests,
           name = "OUTCOME" => note \in Outcomes,
           name = "VALIDATOR_SNAPSHOT" => note \in ValidatorStates
    PROVE  Ev(name, head, note) \in Event
BY DEF Ev, Event

LEMMA ReturnType ==
    ASSUME ThreadsOK, NEW t \in Threads, Return(t)
    PROVE  ThreadsOK'
BY NoLocalsType DEF ThreadsOK, Return, Labels

LEMMA GotoType ==
    ASSUME ThreadsOK, NEW t \in Threads, NEW label \in Labels, NEW l \in Locals,
           Goto(t, label, l)
    PROVE  ThreadsOK'
BY DEF ThreadsOK, Goto

LEMMA AppendEvidenceType ==
    ASSUME ThreadsOK, NEW t \in Threads, NEW label \in Labels, NEW l \in Locals,
           NEW e \in Event, AppendEvidence(t, e, label, l)
    PROVE  ThreadsOK'
BY DEF ThreadsOK, AppendEvidence

LEMMA AppendStageType ==
    ASSUME ThreadsOK, NEW t \in Threads, NEW label \in Labels, NEW l \in Locals,
           NEW e \in Event, AppendStage(t, e, label, l)
    PROVE  ThreadsOK'
BY ReturnType, AppendEvidenceType DEF AppendStage

\* The thread variables alone change.
Quietly == UNCHANGED <<journal, expired, previewed, github>>

LEMMA QuietType ==
    ASSUME TypeOK, ThreadsOK', Quietly
    PROVE  TypeOK'
BY DEF TypeOK, ThreadsOK, Quietly, journal, github

\* Folding an event into the view keeps the view's type.
LEMMA RecordedType ==
    ASSUME TypeOK, NEW t \in Threads, Recorded(t)
    PROVE  TypeOK'
<1> DEFINE p == pending[t]
           e == IF p.event = "VALIDATOR_SNAPSHOT"
                  THEN [p EXCEPT !.source = snapshots + 1] ELSE p
<1>1. p \in Event /\ p # NoEvent
  BY DEF TypeOK, Recorded
<1>2. e \in Event /\ e.event = p.event /\ e.head = p.head /\ e.note = p.note
  BY <1>1 DEF Event, TypeOK
<1>3. Fold(e)
  BY DEF Recorded
<1>4. stage' \in Stages \cup {"NONE"}
  BY <1>3 DEF Fold, TypeOK
<1>5. outcome' \in Outcomes
  BY <1>2, <1>3 DEF Fold, OutcomeAfter, TypeOK, Event, Outcomes
<1>6. /\ latest' \in [Kinds -> Event]
      /\ \A k \in Kinds : latest'[k] = NoEvent \/ latest'[k].event = k
  BY <1>2, <1>3 DEF Fold, TypeOK
<1>7. recorded' \subseteq Event
  <2>1. Ev(e.event, e.head, e.note) \in Event
    BY <1>2 DEF Ev, Event
  <2> QED BY <2>1, <1>3 DEF Fold, TypeOK
<1>8. snapshots' \in Nat /\ expired' \in 0 .. snapshots'
  BY DEF Recorded, TypeOK
<1>9. pending' \in [Threads -> Event]
  BY NoEventType DEF Recorded, TypeOK
<1> QED BY <1>4, <1>5, <1>6, <1>7, <1>8, <1>9 DEF Recorded, TypeOK, github

LEMMA RequestType ==
    ASSUME TypeOK, NEW t \in Threads, Request(t)
    PROVE  TypeOK'
<1> USE TypeParts
<1> ThreadsOK OBVIOUS
<1>a. /\ Commit \in Event /\ Review \in Event /\ Ack \in Event
      /\ latest["PR_REVIEW_SNAPSHOT"] \in Event
  BY DEF TypeOK, Commit, Review, Ack, Kinds
<1>1. CASE Preview(t)
  <2>1. ThreadsOK'
    <3>1. CASE stage = "NONE"
      <4>1. AppendStage(t, Ev("PREVIEWED", 0, ""), "idle", NoLocals)
        BY <1>1, <3>1 DEF Preview
      <4>2. Ev("PREVIEWED", 0, "") \in Event
        BY EvType DEF EventNames, Stages, Words
      <4> QED BY <4>1, <4>2, AppendStageType, NoLocalsType DEF Labels
    <3>2. CASE stage # "NONE"
      BY <1>1, <3>2 DEF Preview, threads, ThreadsOK
    <3> QED BY <3>1, <3>2
  <2> QED BY <1>1, <2>1 DEF Preview, TypeOK, ThreadsOK, journal, github
<1>2. CASE RunPreviewed(t)
  <2>1. ThreadsOK' BY <1>2, GotoType, NoLocalsType DEF RunPreviewed, Labels
  <2> QED BY <1>2, <2>1, QuietType DEF RunPreviewed, Quietly
<1>3. CASE RunBranchCreated(t)
  <2>1. Ev("AGENT_RUNNING", 0, "") \in Event
    BY EvType DEF EventNames, Stages, Words
  <2>2. ThreadsOK'
    BY <1>3, <2>1, AppendStageType, NoLocalsType DEF RunBranchCreated, Labels
  <2> QED BY <1>3, <2>2, QuietType DEF RunBranchCreated, Quietly
<1>4. CASE RunResumed(t)
  <2>1. Ev("RESUME_REQUESTED", 0, "") \in Event
    BY EvType DEF EventNames, Words
  <2>2. ThreadsOK'
    BY <1>4, <2>1, AppendEvidenceType, NoLocalsType DEF RunResumed, Labels
  <2> QED BY <1>4, <2>2, QuietType DEF RunResumed, Quietly
<1>5. CASE Refresh(t)
  <2>1. [NoLocals EXCEPT !.from = stage, !.head = Commit.head, !.then = "health"]
            \in Locals
    <3>1. Commit.head \in Nat /\ stage \in Stages \cup {"NONE"}
      BY <1>a DEF Event, TypeOK
    <3> QED BY <3>1, NoLocalsType DEF Locals
  <2>2. ThreadsOK' BY <1>5, <2>1, GotoType DEF Refresh, Labels
  <2> QED BY <1>5, <2>2, QuietType DEF Refresh, Quietly
<1>6. CASE RefreshSettled(t)
  <2>1. ThreadsOK' BY <1>6, GotoType, NoLocalsType DEF RefreshSettled, Labels
  <2> QED BY <1>6, <2>1, QuietType DEF RefreshSettled, Quietly
<1>7. CASE ReviewBundle(t)
  <2>1. [NoLocals EXCEPT !.head = Commit.head, !.seen = Review] \in Locals
    BY <1>a, NoLocalsType DEF Locals, Event
  <2>2. ThreadsOK' BY <1>7, <2>1, GotoType DEF ReviewBundle, Labels
  <2> QED BY <1>7, <2>2, QuietType DEF ReviewBundle, Quietly
<1>8. CASE Acknowledge(t)
  <2>1. [NoLocals EXCEPT !.head = Review.head, !.digest = Review.note, !.seen = Ack]
            \in Locals
    <3>1. Review.note \in Digests
      BY <1>8, ConstantsAssumption DEF Acknowledge, Complete
    <3> QED BY <3>1, <1>a, NoLocalsType DEF Locals, Event
  <2>2. ThreadsOK' BY <1>8, <2>1, GotoType DEF Acknowledge, Labels
  <2> QED BY <1>8, <2>2, QuietType DEF Acknowledge, Quietly
<1>b. [NoLocals EXCEPT !.head = Commit.head] \in Locals
  BY <1>a, NoLocalsType DEF Locals, Event
<1>9. CASE OpenPullRequest(t)
  <2>1. ThreadsOK' BY <1>9, <1>b, GotoType DEF OpenPullRequest, Labels
  <2> QED BY <1>9, <2>1, QuietType DEF OpenPullRequest, Quietly
<1>10. CASE OpenAgain(t)
  <2>1. ThreadsOK' BY <1>10, <1>b, GotoType DEF OpenAgain, Labels
  <2> QED BY <1>10, <2>1, QuietType DEF OpenAgain, Quietly
<1>11. CASE RefreshPrReview(t)
  <2>1. [NoLocals EXCEPT !.head = Commit.head, !.seen = latest["PR_REVIEW_SNAPSHOT"]]
            \in Locals
    BY <1>a, NoLocalsType DEF Locals, Event
  <2>2. ThreadsOK' BY <1>11, <2>1, GotoType DEF RefreshPrReview, Labels
  <2> QED BY <1>11, <2>2, QuietType DEF RefreshPrReview, Quietly
<1> QED BY <1>1, <1>2, <1>3, <1>4, <1>5, <1>6, <1>7, <1>8, <1>9, <1>10, <1>11
        DEF Request

LEMMA StepType ==
    ASSUME TypeOK, NEW t \in Threads, Step(t)
    PROVE  TypeOK'
<1> USE TypeParts
<1> ThreadsOK OBVIOUS
<1>l. /\ local[t] \in Locals
      /\ local[t].head \in Nat
      /\ local[t].digest \in Digests \cup {""}
      /\ branch \in Nat
  <2>1. local[t] \in Locals
    BY DEF ThreadsOK
  <2>2. branch \in Nat
    BY DEF TypeOK
  <2> QED BY <2>1, <2>2 DEF Locals
<1>1. CASE Recorded(t)
  BY <1>1, RecordedType
<1>2. CASE CreateBranch(t)
  <2>1. Ev("BRANCH_CREATED", 0, "") \in Event
    BY <1>l, EvType DEF EventNames, Stages, Kinds, Words, Outcomes
  <2>2. ThreadsOK'
    BY <1>2, <2>1, <1>l, NoLocalsType, ReturnType, AppendStageType
       DEF CreateBranch, Labels
  <2>3. CASE created
    BY <1>2, <2>2, <2>3 DEF CreateBranch, TypeOK, ThreadsOK, journal, github
  <2>4. CASE ~created
    <3>0. created' = TRUE /\ branch' = 0 /\ UNCHANGED <<commits, opened, previewed>>
      BY <1>2, <2>4 DEF CreateBranch
    <3>1. GitHubOK'
      BY <3>0 DEF TypeOK, GitHubOK
    <3>2. JournalOK'
      BY <1>2 DEF CreateBranch, TypeOK, JournalOK, journal
    <3> QED BY <3>1, <3>2, <2>2 DEF TypeOK, JournalOK, GitHubOK, ThreadsOK
  <2> QED BY <2>3, <2>4
<1>3. CASE CreateBranchUnanswered(t)
  <2>1. ThreadsOK'
    BY <1>3, <1>l, NoLocalsType, ReturnType
       DEF CreateBranchUnanswered, Labels
  <2> QED BY <1>3, <2>1 DEF CreateBranchUnanswered, TypeOK, ThreadsOK, journal, github
<1>4. CASE BeginAgent(t)
  <2>1. Ev("AGENT_RUNNING", 0, "") \in Event
    BY <1>l, EvType DEF EventNames, Stages, Kinds, Words, Outcomes
  <2>2. ThreadsOK'
    BY <1>4, <2>1, <1>l, NoLocalsType, AppendStageType
       DEF BeginAgent, Labels
  <2> QED BY <1>4, <2>2, QuietType DEF BeginAgent, Quietly
<1>5. CASE AgentWrites(t)
  BY <1>5 DEF AgentWrites, TypeOK, journal, threads
<1>6. CASE AgentCompletes(t)
  <2>1. Ev("AGENT_COMPLETED", 0, "") \in Event
    BY <1>l, EvType DEF EventNames, Stages, Kinds, Words, Outcomes
  <2>2. ThreadsOK'
    BY <1>6, <2>1, <1>l, NoLocalsType, AppendStageType
       DEF AgentCompletes, Labels
  <2> QED BY <1>6, <2>2, QuietType DEF AgentCompletes, Quietly
<1>7. CASE AgentFails(t)
  <2>1. ThreadsOK'
    BY <1>7, <1>l, NoLocalsType, GotoType
       DEF AgentFails, Labels
  <2> QED BY <1>7, <2>1, QuietType DEF AgentFails, Quietly
<1>8. CASE BindHead(t)
  <2>1. [NoLocals EXCEPT !.head = branch] \in Locals
    BY <1>l, NoLocalsType DEF Locals
  <2>2. ThreadsOK'
    BY <1>8, <2>1, <1>l, NoLocalsType, GotoType
       DEF BindHead, Labels
  <2> QED BY <1>8, <2>2, QuietType DEF BindHead, Quietly
<1>9. CASE BindCommit(t)
  <2>1. Ev("COMMIT_BOUND", local[t].head, "") \in Event
    BY <1>l, EvType DEF EventNames, Stages, Kinds, Words, Outcomes
  <2>2. ThreadsOK'
    BY <1>9, <2>1, <1>l, NoLocalsType, AppendStageType
       DEF BindCommit, Labels
  <2> QED BY <1>9, <2>2, QuietType DEF BindCommit, Quietly
<1>10. CASE BindFails(t)
  <2>1. ThreadsOK'
    BY <1>10, <1>l, NoLocalsType, GotoType
       DEF BindFails, Labels
  <2> QED BY <1>10, <2>1, QuietType DEF BindFails, Quietly
<1>11. CASE AwaitCi(t)
  <2>1. Ev("CI_PENDING", local[t].head, "") \in Event
    BY <1>l, EvType DEF EventNames, Stages, Kinds, Words, Outcomes
  <2>2. ThreadsOK'
    BY <1>11, <2>1, <1>l, NoLocalsType, AppendStageType
       DEF AwaitCi, Labels
  <2> QED BY <1>11, <2>2, QuietType DEF AwaitCi, Quietly
<1>12. CASE Fail(t)
  <2>1. Ev("FAILED", 0, "") \in Event /\ Ev("FAILURE", 0, "") \in Event
    BY EvType DEF EventNames, Stages, Words
  <2>2. ThreadsOK'
    BY <1>12, <2>1, <1>l, AppendEvidenceType DEF Fail, Labels
  <2> QED BY <1>12, <2>2, QuietType DEF Fail, Quietly
<1>13. CASE FailOutcome(t)
  <2>1. Ev("OUTCOME", 0, "FAILED") \in Event
    BY EvType DEF EventNames, Words, Outcomes
  <2>2. local[t].then \in Labels
    BY <1>l DEF Locals, Labels
  <2>3. ThreadsOK'
    BY <1>13, <2>1, <2>2, NoLocalsType, AppendEvidenceType DEF FailOutcome
  <2> QED BY <1>13, <2>3, QuietType DEF FailOutcome, Quietly
<1>14. CASE RefreshBranch(t)
  <2> DEFINE l == [local[t] EXCEPT !.exact = (branch = local[t].head)]
  <2>1. l \in Locals /\ Goto(t, "refresh_ci", l)
    BY <1>14, <1>l DEF RefreshBranch, Locals
  <2> HIDE DEF l
  <2>2. ThreadsOK'
    BY <2>1, GotoType DEF Labels
  <2> QED BY <1>14, <2>2, QuietType DEF RefreshBranch, Quietly
<1>15. CASE RefreshCi(t)
  <2>1. PICK ci \in CiStates :
            AppendEvidence(t, Ev("CI_SNAPSHOT", local[t].head, ci), "validate",
                           [local[t] EXCEPT !.ci = ci])
    BY <1>15 DEF RefreshCi
  <2>2. Ev("CI_SNAPSHOT", local[t].head, ci) \in Event
    BY <1>l, EvType DEF EventNames, Kinds, Words
  <2>3. [local[t] EXCEPT !.ci = ci] \in Locals
    BY <1>l DEF Locals
  <2>4. ThreadsOK'
    BY <2>1, <2>2, <2>3, AppendEvidenceType DEF Labels
  <2> QED BY <1>15, <2>4, QuietType DEF RefreshCi, Quietly
<1>16. CASE RefreshValidators(t)
  <2>1. PICK project \in ValidatorStates :
            AppendEvidence(t, Ev("VALIDATOR_SNAPSHOT", local[t].head,
                                 WorstStatus(local[t].exact, project)), "decide",
                           [local[t] EXCEPT !.status =
                                WorstStatus(local[t].exact, project)])
    BY <1>16 DEF RefreshValidators
  <2> DEFINE status == WorstStatus(local[t].exact, project)
  <2>2. status \in ValidatorStates
    BY DEF WorstStatus, ValidatorStates
  <2>3. Ev("VALIDATOR_SNAPSHOT", local[t].head, status) \in Event
    BY <1>l, <2>2, EvType DEF EventNames, Kinds, Words
  <2>4. [local[t] EXCEPT !.status = status] \in Locals
    BY <1>l, <2>2 DEF Locals
  <2>5. ThreadsOK'
    BY <2>1, <2>3, <2>4, AppendEvidenceType DEF Labels
  <2> QED BY <1>16, <2>5, QuietType DEF RefreshValidators, Quietly
<1>17. CASE DecideVerified(t)
  <2>1. ThreadsOK'
    BY <1>17, <1>l, NoLocalsType, ReturnType, GotoType
       DEF DecideVerified, Labels
  <2> QED BY <1>17, <2>1, QuietType DEF DecideVerified, Quietly
<1>18. CASE DecideFailed(t)
  <2>1. ThreadsOK'
    BY <1>18, <1>l, NoLocalsType, GotoType
       DEF DecideFailed, Labels
  <2> QED BY <1>18, <2>1, QuietType DEF DecideFailed, Quietly
<1>19. CASE ReviewCi(t)
  <2>1. Ev("CI_REVIEWED", local[t].head, "") \in Event
    BY <1>l, EvType DEF EventNames, Stages, Kinds, Words, Outcomes
  <2>2. [local[t] EXCEPT !.from = "CI_REVIEWED"] \in Locals
    BY <1>l, NoLocalsType DEF Locals, Stages
  <2>3. ThreadsOK'
    BY <1>19, <2>1, <2>2, <1>l, NoLocalsType, AppendStageType
       DEF ReviewCi, Labels
  <2> QED BY <1>19, <2>3, QuietType DEF ReviewCi, Quietly
<1>20. CASE ReviewValidators(t)
  <2>1. Ev("VALIDATORS_REVIEWED", local[t].head, "") \in Event
    BY <1>l, EvType DEF EventNames, Stages, Kinds, Words, Outcomes
  <2>2. [local[t] EXCEPT !.from = "VALIDATORS_REVIEWED"] \in Locals
    BY <1>l, NoLocalsType DEF Locals, Stages
  <2>3. ThreadsOK'
    BY <1>20, <2>1, <2>2, <1>l, NoLocalsType, AppendStageType
       DEF ReviewValidators, Labels
  <2> QED BY <1>20, <2>3, QuietType DEF ReviewValidators, Quietly
<1>21. CASE Verify(t)
  <2>1. Ev("VERIFIED_SUCCESS", local[t].head, "") \in Event
    BY <1>l, EvType DEF EventNames, Stages, Kinds, Words, Outcomes
  <2>2. ThreadsOK'
    BY <1>21, <2>1, <1>l, NoLocalsType, AppendStageType
       DEF Verify, Labels
  <2> QED BY <1>21, <2>2, QuietType DEF Verify, Quietly
<1>22. CASE VerifiedOutcome(t)
  <2>1. Ev("OUTCOME", 0, "VERIFIED_SUCCESS") \in Event
    BY <1>l, EvType DEF EventNames, Stages, Kinds, Words, Outcomes
  <2>2. ThreadsOK'
    BY <1>22, <2>1, <1>l, NoLocalsType, AppendEvidenceType
       DEF VerifiedOutcome, Labels
  <2> QED BY <1>22, <2>2, QuietType DEF VerifiedOutcome, Quietly
<1>23. CASE Undecided(t)
  <2>1. Ev("OUTCOME", 0, OpenOutcome(local[t])) \in Event
    BY <1>l, EvType DEF EventNames, Stages, Kinds, Words, Outcomes, OpenOutcome
  <2>2. ThreadsOK'
    BY <1>23, <2>1, <1>l, NoLocalsType, AppendEvidenceType
       DEF Undecided, Labels
  <2> QED BY <1>23, <2>2, QuietType DEF Undecided, Quietly
<1>24. CASE RecordHealth(t)
  <2> DEFINE v == latest["VALIDATOR_SNAPSHOT"]
             h == [event  |-> "VALIDATOR_HEALTH_SNAPSHOT", head |-> v.head,
                   note   |-> HealthOf(v.note), source |-> v.source]
  <2>1. Return(t) \/ (v # NoEvent /\ AppendEvidence(t, h, "idle", NoLocals))
    BY <1>24 DEF RecordHealth
  <2>2. v \in Event
    BY DEF TypeOK, Kinds
  <2>3. ASSUME v # NoEvent PROVE h \in Event
    <3>1. v.note \in ValidatorStates
      BY <2>3, <2>2 DEF TypeOK, Kinds, Event
    <3>2. HealthOf(v.note) \in HealthStates
      BY <3>1 DEF HealthOf, HealthStates, ValidatorStates
    <3> QED BY <2>2, <3>2 DEF Event, EventNames, Kinds, Words
  <2>4. ThreadsOK'
    BY <2>1, <2>3, NoLocalsType, ReturnType, AppendEvidenceType DEF Labels
  <2> QED BY <1>24, <2>4, QuietType DEF RecordHealth, Quietly
<1>25. CASE ReviewBranch(t)
  <2>1. ThreadsOK'
    BY <1>25, <1>l, NoLocalsType, ReturnType, GotoType
       DEF ReviewBranch, Labels
  <2> QED BY <1>25, <2>1, QuietType DEF ReviewBranch, Quietly
<1>26. CASE ReviewCompare(t)
  <2>1. PICK d \in Digests :
            \/ Return(t)
            \/ AppendEvidence(t, Ev("REVIEW_SNAPSHOT", local[t].head, d), "idle", NoLocals)
    BY <1>26 DEF ReviewCompare
  <2>2. Ev("REVIEW_SNAPSHOT", local[t].head, d) \in Event
    BY <1>l, EvType DEF EventNames, Kinds, Words
  <2>3. ThreadsOK'
    BY <2>1, <2>2, NoLocalsType, ReturnType, AppendEvidenceType DEF Labels
  <2> QED BY <1>26, <2>3, QuietType DEF ReviewCompare, Quietly
<1>27. CASE AckBranch(t)
  <2>1. Ev("REVIEW_ACKNOWLEDGED", local[t].head, local[t].digest) \in Event
    BY <1>l, EvType DEF EventNames, Stages, Kinds, Words, Outcomes
  <2>2. ThreadsOK'
    BY <1>27, <2>1, <1>l, NoLocalsType, ReturnType, AppendEvidenceType
       DEF AckBranch, Labels
  <2> QED BY <1>27, <2>2, QuietType DEF AckBranch, Quietly
<1>28. CASE PrBranch(t)
  <2>1. ThreadsOK'
    BY <1>28, <1>l, NoLocalsType, ReturnType, GotoType
       DEF PrBranch, Labels
  <2> QED BY <1>28, <2>1, QuietType DEF PrBranch, Quietly
<1>29. CASE PrCreate(t)
  <2>1. ThreadsOK'
    BY <1>29, <1>l, NoLocalsType, ReturnType, GotoType
       DEF PrCreate, Labels
  <2> QED BY <1>29, <2>1 DEF PrCreate, TypeOK, ThreadsOK, journal, github
<1>30. CASE PrCreateUnanswered(t)
  <2>1. ThreadsOK'
    BY <1>30, <1>l, NoLocalsType, ReturnType
       DEF PrCreateUnanswered, Labels
  <2> QED BY <1>30, <2>1 DEF PrCreateUnanswered, TypeOK, ThreadsOK, journal, github
<1>31. CASE PrReadBack(t)
  <2>1. Ev("PR_OPENED", branch, "") \in Event
    BY <1>l, EvType DEF EventNames, Stages, Kinds, Words, Outcomes
  <2>2. ThreadsOK'
    BY <1>31, <2>1, <1>l, NoLocalsType, ReturnType, AppendStageType
       DEF PrReadBack, Labels
  <2> QED BY <1>31, <2>2, QuietType DEF PrReadBack, Quietly
<1>32. CASE PrSnapshot(t)
  <2>1. Ev("PR_REVIEW_SNAPSHOT", local[t].head, "opened") \in Event
    BY <1>l, EvType DEF EventNames, Stages, Kinds, Words, Outcomes
  <2>2. ThreadsOK'
    BY <1>32, <2>1, <1>l, NoLocalsType, ReturnType, AppendEvidenceType
       DEF PrSnapshot, Labels
  <2> QED BY <1>32, <2>2, QuietType DEF PrSnapshot, Quietly
<1>33. CASE PrReview(t)
  <2>1. Ev("PR_REVIEW_SNAPSHOT", local[t].head, "refreshed") \in Event
    BY <1>l, EvType DEF EventNames, Stages, Kinds, Words, Outcomes
  <2>2. ThreadsOK'
    BY <1>33, <2>1, <1>l, NoLocalsType, ReturnType, AppendEvidenceType
       DEF PrReview, Labels
  <2> QED BY <1>33, <2>2, QuietType DEF PrReview, Quietly
<1>34. CASE GitHubRaises(t)
  <2>1. ThreadsOK'
    BY <1>34, <1>l, NoLocalsType, ReturnType
       DEF GitHubRaises, Labels
  <2> QED BY <1>34, <2>1, QuietType DEF GitHubRaises, Quietly
<1> QED BY <1>1, <1>2, <1>3, <1>4, <1>5, <1>6, <1>7, <1>8, <1>9, <1>10,
        <1>11, <1>12, <1>13, <1>14, <1>15, <1>16, <1>17, <1>18, <1>19,
        <1>20, <1>21, <1>22, <1>23, <1>24, <1>25, <1>26, <1>27, <1>28,
        <1>29, <1>30, <1>31, <1>32, <1>33, <1>34
        DEF Step

\* Every step of the system preserves the types.
LEMMA NextType ==
    ASSUME TypeOK, [Next]_vars
    PROVE  TypeOK'
<1>1. CASE \E t \in Threads : Request(t) \/ Step(t)
  BY <1>1, RequestType, StepType
<1>2. CASE PushByOthers
  BY <1>2 DEF PushByOthers, TypeOK, journal, threads
<1>3. CASE Expire
  BY <1>3 DEF Expire, TypeOK, journal, github, threads
<1>4. CASE Restart
  BY <1>4, NoEventType, NoLocalsType DEF Restart, TypeOK, journal, github, Labels
<1>5. CASE UNCHANGED vars
  BY <1>5 DEF TypeOK, vars, journal, github, threads
<1> QED BY <1>1, <1>2, <1>3, <1>4, <1>5 DEF Next

\* Every reachable state has its type, whatever the threads, the digests and
\* the bounds (the view task_view folds, the handlers' locals, the branch).
THEOREM TypeCorrect == Spec => []TypeOK
<1>1. Init => TypeOK
  <2> SUFFICES ASSUME Init PROVE TypeOK
    OBVIOUS
  <2>1. JournalOK
    BY NoEventType DEF Init, JournalOK, Outcomes
  <2>2. GitHubOK
    <3>1. previewed \in BOOLEAN /\ created \in BOOLEAN /\ opened = {}
      BY Zenon DEF Init
    <3>2. commits \in Nat /\ branch \in 0 .. commits
      <4>1. commits = 0 /\ branch = 0
        BY DEF Init
      <4> QED BY <4>1
    <3> QED BY <3>1, <3>2 DEF GitHubOK
  <2>3. ThreadsOK
    BY NoEventType, NoLocalsType DEF Init, ThreadsOK, Labels
  <2> QED BY <2>1, <2>2, <2>3, TypeParts
<1>2. TypeOK /\ [Next]_vars => TypeOK'
  BY NextType
<1> QED BY <1>1, <1>2, PTL DEF Spec

-----------------------------------------------------------------------------
(* Evidence.  A handler carries evidence in local variables from the GitHub *)
(* call that found it to the append that relies on it, while other threads  *)
(* run.  The invariant says that what it carries is already on record.      *)

Green(log, head)  == Ev("CI_SNAPSHOT", head, "success") \in log
Passed(log, head) == Ev("VALIDATOR_SNAPSHOT", head, "PASS") \in log
SomeVerified(log) == \E v \in log : v.event = "VERIFIED_SUCCESS"

\* The event a handler is about to append is backed by the log.
PendingOK(log, e) ==
    /\ e.event = "VERIFIED_SUCCESS" => Green(log, e.head) /\ Passed(log, e.head)
    /\ e.event = "OUTCOME" /\ e.note = "VERIFIED_SUCCESS" => SomeVerified(log)

\* At program point p with locals l and pending event e, the evidence the
\* handler gathered is in the log, or is the pending event.
PointOK(log, p, l, e) ==
    /\ p = "validate" /\ l.ci = "success" =>
           Green(log, l.head) \/ e = Ev("CI_SNAPSHOT", l.head, "success")
    /\ p = "decide" /\ l.ci = "success" => Green(log, l.head)
    /\ p = "decide" /\ l.status = "PASS" =>
           Passed(log, l.head) \/ e = Ev("VALIDATOR_SNAPSHOT", l.head, "PASS")
    /\ p = "verified" => SomeVerified(log) \/ e.event = "VERIFIED_SUCCESS"
    /\ p \in {"pr_branch", "pr_create"} => OpeningEvidence(log)

HandlersOK == \A t \in Threads : /\ PendingOK(recorded, pending[t])
                                 /\ PointOK(recorded, pc[t], local[t], pending[t])

\* A favourable event of which the view shows the latest is on record.
LatestRecorded ==
    \A k \in Kinds : Favourable(latest[k]) =>
        Ev(k, latest[k].head, latest[k].note) \in recorded

\* A view shows VERIFIED_SUCCESS only if the task was verified.
OutcomeRecorded == outcome = "VERIFIED_SUCCESS" => SomeVerified(recorded)

EvidenceInv == /\ LatestRecorded
               /\ OutcomeRecorded
               /\ VerifiedHasEvidence
               /\ PullHasEvidence
               /\ HandlersOK

\* A longer log backs whatever a shorter one does.
LEMMA LongerLog ==
    ASSUME NEW log, NEW more, log \subseteq more
    PROVE  /\ \A h : Green(log, h) => Green(more, h)
           /\ \A h : Passed(log, h) => Passed(more, h)
           /\ SomeVerified(log) => SomeVerified(more)
           /\ OpeningEvidence(log) => OpeningEvidence(more)
<1>1. OpeningEvidence(log) => OpeningEvidence(more)
  <2> SUFFICES ASSUME OpeningEvidence(log) PROVE OpeningEvidence(more)
    OBVIOUS
  <2>1. PICK c \in log :
            /\ c.event = "COMMIT_BOUND"
            /\ \E d \in CompleteDigests :
                  /\ Ev("REVIEW_SNAPSHOT", c.head, d) \in log
                  /\ Ev("REVIEW_ACKNOWLEDGED", c.head, d) \in log
    BY DEF OpeningEvidence
  <2>2. /\ \E v \in log : v.event = "VERIFIED_SUCCESS"
        /\ \E h \in log : h.event = "VALIDATOR_HEALTH_SNAPSHOT"
    BY DEF OpeningEvidence
  <2> QED BY <2>1, <2>2 DEF OpeningEvidence
<1> QED BY <1>1 DEF Green, Passed, SomeVerified

LEMMA PendingKept ==
    ASSUME NEW log, NEW more, log \subseteq more, NEW e, PendingOK(log, e)
    PROVE  PendingOK(more, e)
BY LongerLog DEF PendingOK

LEMMA PointKept ==
    ASSUME NEW log, NEW more, log \subseteq more, NEW p, NEW l, NEW e,
           PointOK(log, p, l, e)
    PROVE  PointOK(more, p, l, e)
BY LongerLog DEF PointOK

\* Program points at which a handler carries no evidence, and events that
\* need none.
Carrying == {"validate", "decide", "verified", "pr_branch", "pr_create"}

LEMMA PlainPoint ==
    ASSUME NEW log, NEW p, p \notin Carrying, NEW l, NEW e
    PROVE  PointOK(log, p, l, e)
BY DEF PointOK, Carrying

LEMMA PlainEvent ==
    ASSUME NEW log, NEW name, NEW head, NEW note,
           name \notin {"VERIFIED_SUCCESS", "OUTCOME"}
    PROVE  PendingOK(log, Ev(name, head, note))
BY DEF PendingOK, Ev

\* The journal stays as it is while the threads move on.
JournalKept == UNCHANGED <<outcome, latest, recorded>>

LEMMA ReturnEvidence ==
    ASSUME ThreadsOK, HandlersOK, NEW t \in Threads, Return(t),
           recorded' = recorded
    PROVE  HandlersOK'
<1> SUFFICES ASSUME NEW u \in Threads
             PROVE  /\ PendingOK(recorded', pending'[u])
                    /\ PointOK(recorded', pc'[u], local'[u], pending'[u])
  BY DEF HandlersOK
<1>1. pending'[u] = pending[u] /\ PendingOK(recorded, pending[u])
  BY DEF Return, HandlersOK
<1>2. CASE u = t
  <2>1. pc'[u] \notin Carrying
    BY <1>2 DEF Return, ThreadsOK, Carrying
  <2> QED BY <1>1, <2>1, PlainPoint
<1>3. CASE u # t
  <2>1. pc'[u] = pc[u] /\ local'[u] = local[u]
    BY <1>3 DEF Return, ThreadsOK
  <2> QED BY <1>1, <2>1 DEF HandlersOK
<1> QED BY <1>2, <1>3

LEMMA GotoEvidence ==
    ASSUME ThreadsOK, HandlersOK, NEW t \in Threads, NEW label, NEW l,
           Goto(t, label, l), recorded' = recorded,
           PointOK(recorded, label, l, pending[t])
    PROVE  HandlersOK'
<1> SUFFICES ASSUME NEW u \in Threads
             PROVE  /\ PendingOK(recorded', pending'[u])
                    /\ PointOK(recorded', pc'[u], local'[u], pending'[u])
  BY DEF HandlersOK
<1>1. pending'[u] = pending[u] /\ PendingOK(recorded, pending[u])
  BY DEF Goto, HandlersOK
<1>2. CASE u = t
  <2>1. pc'[u] = label /\ local'[u] = l
    BY <1>2 DEF Goto, ThreadsOK
  <2> QED BY <1>1, <1>2, <2>1
<1>3. CASE u # t
  <2>1. pc'[u] = pc[u] /\ local'[u] = local[u]
    BY <1>3 DEF Goto, ThreadsOK
  <2> QED BY <1>1, <2>1 DEF HandlersOK
<1> QED BY <1>2, <1>3

LEMMA AppendEvidenceEvidence ==
    ASSUME ThreadsOK, HandlersOK, NEW t \in Threads, NEW label, NEW l, NEW e,
           AppendEvidence(t, e, label, l), recorded' = recorded,
           PendingOK(recorded, e), PointOK(recorded, label, l, e)
    PROVE  HandlersOK'
<1> SUFFICES ASSUME NEW u \in Threads
             PROVE  /\ PendingOK(recorded', pending'[u])
                    /\ PointOK(recorded', pc'[u], local'[u], pending'[u])
  BY DEF HandlersOK
<1>2. CASE u = t
  <2>1. pc'[u] = label /\ local'[u] = l /\ pending'[u] = e
    BY <1>2 DEF AppendEvidence, ThreadsOK
  <2> QED BY <2>1
<1>3. CASE u # t
  <2>1. pc'[u] = pc[u] /\ local'[u] = local[u] /\ pending'[u] = pending[u]
    BY <1>3 DEF AppendEvidence, ThreadsOK
  <2> QED BY <2>1 DEF HandlersOK
<1> QED BY <1>2, <1>3

LEMMA AppendStageEvidence ==
    ASSUME ThreadsOK, HandlersOK, NEW t \in Threads, NEW label, NEW l, NEW e,
           AppendStage(t, e, label, l), recorded' = recorded,
           PendingOK(recorded, e), PointOK(recorded, label, l, e)
    PROVE  HandlersOK'
BY ReturnEvidence, AppendEvidenceEvidence DEF AppendStage

\* A step that leaves the journal and the pull request alone only has to
\* look after the handlers.
LEMMA QuietEvidence ==
    ASSUME EvidenceInv, HandlersOK', JournalKept, opened' = opened
    PROVE  EvidenceInv'
<1>1. LatestRecorded' /\ OutcomeRecorded'
  BY DEF EvidenceInv, JournalKept, LatestRecorded, OutcomeRecorded, SomeVerified
<1>2. VerifiedHasEvidence' /\ PullHasEvidence'
  BY DEF EvidenceInv, JournalKept, VerifiedHasEvidence, PullHasEvidence, OpeningEvidence
<1> QED BY <1>1, <1>2 DEF EvidenceInv

\* A handler with no pending event has its evidence on record.
LEMMA NothingPending ==
    ASSUME NEW log
    PROVE  /\ PendingOK(log, NoEvent)
           /\ \A p, l : PointOK(log, p, l, NoEvent) =>
                 /\ p = "validate" /\ l.ci = "success" => Green(log, l.head)
                 /\ p = "decide" /\ l.ci = "success" => Green(log, l.head)
                 /\ p = "decide" /\ l.status = "PASS" => Passed(log, l.head)
                 /\ p = "verified" => SomeVerified(log)
<1>1. NoEvent.event = "NONE"
  BY DEF NoEvent
<1>2. \A name, head, note : Ev(name, head, note).event = name
  BY DEF Ev
<1>3. \A h : NoEvent # Ev("CI_SNAPSHOT", h, "success") /\
             NoEvent # Ev("VALIDATOR_SNAPSHOT", h, "PASS")
  BY <1>1, <1>2
<1> QED BY <1>1, <1>3 DEF PendingOK, PointOK

\* A pull request is opened by a handler that has the evidence.
LEMMA OpenedEvidence ==
    ASSUME EvidenceInv, HandlersOK', JournalKept, OpeningEvidence(recorded)
    PROVE  EvidenceInv'
<1>1. LatestRecorded' /\ OutcomeRecorded'
  BY DEF EvidenceInv, JournalKept, LatestRecorded, OutcomeRecorded, SomeVerified
<1>2. VerifiedHasEvidence' /\ PullHasEvidence'
  BY DEF EvidenceInv, JournalKept, VerifiedHasEvidence, PullHasEvidence, OpeningEvidence
<1> QED BY <1>1, <1>2 DEF EvidenceInv

\* Nor does a step that no thread takes.
LEMMA IdleEvidence ==
    ASSUME EvidenceInv, UNCHANGED journal, UNCHANGED threads, opened' = opened
    PROVE  EvidenceInv'
<1>1. HandlersOK'
  BY DEF EvidenceInv, HandlersOK, journal, threads
<1> QED BY <1>1, QuietEvidence DEF JournalKept, journal

\* Folding an event keeps the evidence: the log only grows, and the event
\* brings its own.
LEMMA RecordedEvidence ==
    ASSUME TypeOK, EvidenceInv, NEW t \in Threads, Recorded(t)
    PROVE  EvidenceInv'
<1> DEFINE p == pending[t]
           e == IF p.event = "VALIDATOR_SNAPSHOT"
                  THEN [p EXCEPT !.source = snapshots + 1] ELSE p
<1>1. /\ e \in Event /\ e.event = p.event /\ e.head = p.head /\ e.note = p.note
      /\ p \in Event /\ p # NoEvent
  BY DEF Event, TypeOK, Recorded
<1>2. /\ Fold(e)
      /\ pending' = [pending EXCEPT ![t] = NoEvent]
      /\ pc' = pc /\ local' = local /\ opened' = opened
  BY DEF Recorded, github
<1> HIDE DEF e
<1>3. recorded \subseteq recorded'
  BY <1>2 DEF Fold
<1>4. Favourable(e) => Ev(e.event, e.head, e.note) \in recorded'
  BY <1>2 DEF Fold
<1>5. PendingOK(recorded, p)
  BY DEF EvidenceInv, HandlersOK
<1>6. LatestRecorded'
  <2> SUFFICES ASSUME NEW k \in Kinds, Favourable(latest'[k])
               PROVE  Ev(k, latest'[k].head, latest'[k].note) \in recorded'
    BY DEF LatestRecorded, Favourable
  <2>1. CASE e.event = k
    <3>1. latest'[k] = e
      BY <1>2, <2>1 DEF Fold, TypeOK
    <3> QED BY <3>1, <2>1, <1>4
  <2>2. CASE e.event # k
    <3>1. latest'[k] = latest[k]
      BY <1>2, <2>2 DEF Fold, TypeOK
    <3> QED BY <3>1, <1>3 DEF EvidenceInv, LatestRecorded
  <2> QED BY <2>1, <2>2
<1>7. OutcomeRecorded'
  <2> SUFFICES ASSUME outcome' = "VERIFIED_SUCCESS" PROVE SomeVerified(recorded')
    BY DEF OutcomeRecorded
  <2>1. CASE e.event = "OUTCOME"
    <3>1. p.event = "OUTCOME" /\ p.note = "VERIFIED_SUCCESS"
      BY <1>1, <1>2, <2>1 DEF Fold, OutcomeAfter
    <3> QED BY <3>1, <1>5, <1>3, LongerLog DEF PendingOK
  <2>2. CASE e.event = "VERIFIED_SUCCESS"
    <3>1. Ev(e.event, e.head, e.note) \in recorded'
      BY <2>2, <1>4 DEF Favourable
    <3> QED BY <3>1, <2>2 DEF SomeVerified, Ev
  <2>3. CASE e.event \notin {"OUTCOME", "VERIFIED_SUCCESS"}
    <3>1. outcome' = outcome
      BY <1>2, <2>3 DEF Fold, OutcomeAfter
    <3> QED BY <3>1, <1>3, LongerLog DEF EvidenceInv, OutcomeRecorded
  <2> QED BY <2>1, <2>2, <2>3
<1>8. VerifiedHasEvidence'
  <2> SUFFICES ASSUME NEW v \in recorded', v.event = "VERIFIED_SUCCESS"
               PROVE  Green(recorded', v.head) /\ Passed(recorded', v.head)
    BY DEF VerifiedHasEvidence, Green, Passed
  <2>1. CASE v \in recorded
    <3>1. Green(recorded, v.head) /\ Passed(recorded, v.head)
      BY <2>1 DEF EvidenceInv, VerifiedHasEvidence, Green, Passed
    <3> QED BY <3>1, <1>3, LongerLog
  <2>2. CASE v \notin recorded
    <3>1. v = Ev(e.event, e.head, e.note)
      BY <1>2, <2>2 DEF Fold
    <3>2. p.event = "VERIFIED_SUCCESS" /\ p.head = v.head
      BY <3>1, <1>1 DEF Ev
    <3>3. Green(recorded, v.head) /\ Passed(recorded, v.head)
      BY <3>2, <1>5 DEF PendingOK
    <3> QED BY <3>3, <1>3, LongerLog
  <2> QED BY <2>1, <2>2
<1>9. PullHasEvidence'
  BY <1>2, <1>3, LongerLog DEF EvidenceInv, PullHasEvidence
<1>10. HandlersOK'
  <2> SUFFICES ASSUME NEW u \in Threads
               PROVE  /\ PendingOK(recorded', pending'[u])
                      /\ PointOK(recorded', pc'[u], local'[u], pending'[u])
    BY DEF HandlersOK
  <2>1. PointOK(recorded, pc[u], local[u], pending[u]) /\ PendingOK(recorded, pending[u])
    BY DEF EvidenceInv, HandlersOK
  <2>2. CASE u # t
    <3>1. pending'[u] = pending[u] /\ pc'[u] = pc[u] /\ local'[u] = local[u]
      BY <1>2, <2>2 DEF TypeOK
    <3> QED BY <3>1, <2>1, <1>3, PendingKept, PointKept
  <2>3. CASE u = t
    <3>1. pending'[u] = NoEvent /\ pc'[u] = pc[u] /\ local'[u] = local[u]
      BY <1>2, <2>3 DEF TypeOK
    <3>2. PendingOK(recorded', NoEvent)
      BY DEF PendingOK, NoEvent
    <3>3. PointOK(recorded', pc[u], local[u], pending[u])
      BY <2>1, <1>3, PointKept
    <3>4. \A h : p = Ev("CI_SNAPSHOT", h, "success") => Green(recorded', h)
      BY <1>1, <1>4 DEF Ev, Green, Favourable
    <3>5. \A h : p = Ev("VALIDATOR_SNAPSHOT", h, "PASS") => Passed(recorded', h)
      BY <1>1, <1>4 DEF Ev, Passed, Favourable
    <3>6. p.event = "VERIFIED_SUCCESS" => SomeVerified(recorded')
      BY <1>1, <1>4 DEF Ev, SomeVerified, Favourable
    <3>7. PointOK(recorded', pc[u], local[u], NoEvent)
      BY <2>3, <3>3, <3>4, <3>5, <3>6 DEF PointOK
    <3> QED BY <3>1, <3>2, <3>7
  <2> QED BY <2>2, <2>3
<1> QED BY <1>6, <1>7, <1>8, <1>9, <1>10 DEF EvidenceInv

\* What open_pull_request checks before its first GitHub call is the evidence.
LEMMA GatesRecorded ==
    ASSUME TypeOK, EvidenceInv, OpenGates
    PROVE  /\ Ev("COMMIT_BOUND", Commit.head, Commit.note) \in recorded
           /\ Ev("REVIEW_SNAPSHOT", Commit.head, Review.note) \in recorded
           /\ Ev("REVIEW_ACKNOWLEDGED", Commit.head, Review.note) \in recorded
           /\ Ev("VALIDATOR_HEALTH_SNAPSHOT", Health.head, "HEALTHY") \in recorded
<1>1. /\ Health.note = "HEALTHY" /\ Commit # NoEvent
      /\ Review.head = Commit.head /\ Review.note \in CompleteDigests
      /\ Ack.head = Commit.head /\ Ack.note = Review.note
  BY DEF OpenGates, FreshHealthy, Complete
<1>2. CompleteDigests \cap Words = {}
  BY ConstantsAssumption, DigestsAssumption
<1>3. Review # NoEvent /\ Ack # NoEvent /\ Health # NoEvent
  <2>1. NoEvent.note = "" /\ "" \in Words
    BY DEF NoEvent, Words
  <2>2. Review.note # NoEvent.note /\ Ack.note # NoEvent.note
    BY <1>1, <1>2, <2>1
  <2> QED BY <1>1, <2>1, <2>2
<1>4. /\ Commit.event = "COMMIT_BOUND"
      /\ Review.event = "REVIEW_SNAPSHOT"
      /\ Ack.event = "REVIEW_ACKNOWLEDGED"
      /\ Health.event = "VALIDATOR_HEALTH_SNAPSHOT"
  BY <1>1, <1>3 DEF TypeOK, Kinds, Commit, Review, Ack, Health
<1>5. /\ Favourable(Commit) /\ Favourable(Review) /\ Favourable(Ack)
      /\ Favourable(Health)
  BY <1>4, <1>1 DEF Favourable
<1>6. \A k \in Kinds : Favourable(latest[k]) =>
          Ev(k, latest[k].head, latest[k].note) \in recorded
  BY DEF EvidenceInv, LatestRecorded
<1> QED BY <1>6, <1>1, <1>5 DEF Commit, Review, Ack, Health, Kinds

LEMMA GatesEvidence ==
    ASSUME TypeOK, EvidenceInv, OpenGates
    PROVE  OpeningEvidence(recorded)
<1>1. \E v \in recorded : v.event = "VERIFIED_SUCCESS"
  BY DEF EvidenceInv, OutcomeRecorded, SomeVerified, OpenGates
<1>2. Review.note \in CompleteDigests
  BY DEF OpenGates, Complete
<1> QED BY <1>1, <1>2, GatesRecorded DEF OpeningEvidence, Ev


\* A new request carries no evidence, except the one that opens a pull request:
\* its gates were open.
LEMMA RequestEvidence ==
    ASSUME TypeOK, EvidenceInv, NEW t \in Threads, Request(t)
    PROVE  EvidenceInv'
<1>a. ThreadsOK /\ HandlersOK
  BY DEF TypeOK, ThreadsOK, EvidenceInv
<1>1. CASE Preview(t)
  <2>k. JournalKept /\ opened' = opened
    BY <1>1 DEF Preview, journal, github, JournalKept
  <2>h. HandlersOK'
    <3>1. CASE stage = "NONE"
      BY <1>1, <3>1, <1>a, <2>k, AppendStageEvidence, PlainPoint, PlainEvent
         DEF Preview, JournalKept, Carrying
    <3>2. CASE stage # "NONE"
      <4>1. pc' = pc /\ local' = local /\ pending' = pending /\ recorded' = recorded
        BY <1>1, <3>2 DEF Preview, threads, journal
      <4> QED BY <4>1, <1>a DEF HandlersOK
    <3> QED BY <3>1, <3>2
  <2> QED BY <2>k, <2>h, QuietEvidence
<1>2. CASE RunPreviewed(t)
  <2>k. JournalKept /\ opened' = opened
    BY <1>2 DEF RunPreviewed, journal, github, JournalKept
  <2>h. HandlersOK'
    BY <1>2, <1>a, <2>k, GotoEvidence, PlainPoint
       DEF RunPreviewed, JournalKept, Carrying
  <2> QED BY <1>2, <2>k, <2>h, QuietEvidence
<1>3. CASE RunBranchCreated(t)
  <2>k. JournalKept /\ opened' = opened
    BY <1>3 DEF RunBranchCreated, journal, github, JournalKept
  <2>h. HandlersOK'
    BY <1>3, <1>a, <2>k, AppendStageEvidence, PlainPoint, PlainEvent
       DEF RunBranchCreated, JournalKept, Carrying
  <2> QED BY <1>3, <2>k, <2>h, QuietEvidence
<1>4. CASE RunResumed(t)
  <2>k. JournalKept /\ opened' = opened
    BY <1>4 DEF RunResumed, journal, github, JournalKept
  <2>h. HandlersOK'
    BY <1>4, <1>a, <2>k, AppendEvidenceEvidence, PlainPoint, PlainEvent
       DEF RunResumed, JournalKept, Carrying
  <2> QED BY <1>4, <2>k, <2>h, QuietEvidence
<1>5. CASE Refresh(t)
  <2>k. JournalKept /\ opened' = opened
    BY <1>5 DEF Refresh, journal, github, JournalKept
  <2>h. HandlersOK'
    BY <1>5, <1>a, <2>k, GotoEvidence, PlainPoint
       DEF Refresh, JournalKept, Carrying
  <2> QED BY <1>5, <2>k, <2>h, QuietEvidence
<1>6. CASE RefreshSettled(t)
  <2>k. JournalKept /\ opened' = opened
    BY <1>6 DEF RefreshSettled, journal, github, JournalKept
  <2>h. HandlersOK'
    BY <1>6, <1>a, <2>k, GotoEvidence, PlainPoint
       DEF RefreshSettled, JournalKept, Carrying
  <2> QED BY <1>6, <2>k, <2>h, QuietEvidence
<1>7. CASE ReviewBundle(t)
  <2>k. JournalKept /\ opened' = opened
    BY <1>7 DEF ReviewBundle, journal, github, JournalKept
  <2>h. HandlersOK'
    BY <1>7, <1>a, <2>k, GotoEvidence, PlainPoint
       DEF ReviewBundle, JournalKept, Carrying
  <2> QED BY <1>7, <2>k, <2>h, QuietEvidence
<1>8. CASE Acknowledge(t)
  <2>k. JournalKept /\ opened' = opened
    BY <1>8 DEF Acknowledge, journal, github, JournalKept
  <2>h. HandlersOK'
    BY <1>8, <1>a, <2>k, GotoEvidence, PlainPoint
       DEF Acknowledge, JournalKept, Carrying
  <2> QED BY <1>8, <2>k, <2>h, QuietEvidence
<1>9. CASE OpenPullRequest(t)
  <2>k. JournalKept /\ opened' = opened
    BY <1>9 DEF OpenPullRequest, journal, github, JournalKept
  <2>1. OpeningEvidence(recorded)
    BY <1>9, GatesEvidence DEF OpenPullRequest
  <2>2. PointOK(recorded, "pr_branch", [NoLocals EXCEPT !.head = Commit.head], pending[t])
    BY <2>1 DEF PointOK
  <2>h. HandlersOK'
    BY <1>9, <1>a, <2>k, <2>2, GotoEvidence DEF OpenPullRequest, JournalKept
  <2> QED BY <2>k, <2>h, QuietEvidence
<1>10. CASE OpenAgain(t)
  <2>k. JournalKept /\ opened' = opened
    BY <1>10 DEF OpenAgain, journal, github, JournalKept
  <2>h. HandlersOK'
    BY <1>10, <1>a, <2>k, GotoEvidence, PlainPoint
       DEF OpenAgain, JournalKept, Carrying
  <2> QED BY <1>10, <2>k, <2>h, QuietEvidence
<1>11. CASE RefreshPrReview(t)
  <2>k. JournalKept /\ opened' = opened
    BY <1>11 DEF RefreshPrReview, journal, github, JournalKept
  <2>h. HandlersOK'
    BY <1>11, <1>a, <2>k, GotoEvidence, PlainPoint
       DEF RefreshPrReview, JournalKept, Carrying
  <2> QED BY <1>11, <2>k, <2>h, QuietEvidence
<1> QED BY <1>1, <1>2, <1>3, <1>4, <1>5, <1>6, <1>7, <1>8, <1>9, <1>10, <1>11
        DEF Request

\* A handler that goes on only leaves evidence behind it that is on record,
\* and takes along what it is about to rely on.
LEMMA StepEvidence ==
    ASSUME TypeOK, EvidenceInv, NEW t \in Threads, Step(t)
    PROVE  EvidenceInv'
<1>a. ThreadsOK /\ HandlersOK
  BY DEF TypeOK, ThreadsOK, EvidenceInv
<1>p. PointOK(recorded, pc[t], local[t], pending[t]) /\ PendingOK(recorded, pending[t])
  BY DEF EvidenceInv, HandlersOK
<1>l. local[t] \in Locals
  BY DEF TypeOK
<1>1. CASE Recorded(t)
  BY <1>1, RecordedEvidence
<1>2. CASE CreateBranch(t)
  <2>k. JournalKept /\ opened' = opened
    BY <1>2 DEF CreateBranch, journal, github, JournalKept
  <2>h. HandlersOK'
    <3>1. CASE created
      BY <1>2, <3>1, <1>a, <2>k, ReturnEvidence DEF CreateBranch, JournalKept
    <3>2. CASE ~created
      BY <1>2, <3>2, <1>a, <2>k, AppendStageEvidence, PlainPoint, PlainEvent
         DEF CreateBranch, JournalKept, Carrying
    <3> QED BY <3>1, <3>2
  <2> QED BY <2>k, <2>h, QuietEvidence
<1>3. CASE CreateBranchUnanswered(t)
  <2>k. JournalKept /\ opened' = opened
    BY <1>3 DEF CreateBranchUnanswered, journal, github, JournalKept
  <2>h. HandlersOK'
    BY <1>3, <1>a, <2>k, ReturnEvidence
       DEF CreateBranchUnanswered, JournalKept, Carrying
  <2> QED BY <1>3, <2>k, <2>h, QuietEvidence
<1>4. CASE BeginAgent(t)
  <2>k. JournalKept /\ opened' = opened
    BY <1>4 DEF BeginAgent, journal, github, JournalKept
  <2>h. HandlersOK'
    BY <1>4, <1>a, <2>k, AppendStageEvidence, PlainPoint, PlainEvent
       DEF BeginAgent, JournalKept, Carrying
  <2> QED BY <1>4, <2>k, <2>h, QuietEvidence
<1>5. CASE AgentWrites(t)
  <2>k. JournalKept /\ opened' = opened
    BY <1>5 DEF AgentWrites, journal, github, JournalKept
  <2>h. HandlersOK'
    BY <1>5, <1>a, <2>k DEF AgentWrites, threads, JournalKept, HandlersOK
  <2> QED BY <2>k, <2>h, QuietEvidence
<1>6. CASE AgentCompletes(t)
  <2>k. JournalKept /\ opened' = opened
    BY <1>6 DEF AgentCompletes, journal, github, JournalKept
  <2>h. HandlersOK'
    BY <1>6, <1>a, <2>k, AppendStageEvidence, PlainPoint, PlainEvent
       DEF AgentCompletes, JournalKept, Carrying
  <2> QED BY <1>6, <2>k, <2>h, QuietEvidence
<1>7. CASE AgentFails(t)
  <2>k. JournalKept /\ opened' = opened
    BY <1>7 DEF AgentFails, journal, github, JournalKept
  <2>h. HandlersOK'
    BY <1>7, <1>a, <2>k, GotoEvidence, PlainPoint
       DEF AgentFails, JournalKept, Carrying
  <2> QED BY <1>7, <2>k, <2>h, QuietEvidence
<1>8. CASE BindHead(t)
  <2>k. JournalKept /\ opened' = opened
    BY <1>8 DEF BindHead, journal, github, JournalKept
  <2>h. HandlersOK'
    BY <1>8, <1>a, <2>k, GotoEvidence, PlainPoint
       DEF BindHead, JournalKept, Carrying
  <2> QED BY <1>8, <2>k, <2>h, QuietEvidence
<1>9. CASE BindCommit(t)
  <2>k. JournalKept /\ opened' = opened
    BY <1>9 DEF BindCommit, journal, github, JournalKept
  <2>h. HandlersOK'
    BY <1>9, <1>a, <2>k, AppendStageEvidence, PlainPoint, PlainEvent
       DEF BindCommit, JournalKept, Carrying
  <2> QED BY <1>9, <2>k, <2>h, QuietEvidence
<1>10. CASE BindFails(t)
  <2>k. JournalKept /\ opened' = opened
    BY <1>10 DEF BindFails, journal, github, JournalKept
  <2>h. HandlersOK'
    BY <1>10, <1>a, <2>k, GotoEvidence, PlainPoint
       DEF BindFails, JournalKept, Carrying
  <2> QED BY <1>10, <2>k, <2>h, QuietEvidence
<1>11. CASE AwaitCi(t)
  <2>k. JournalKept /\ opened' = opened
    BY <1>11 DEF AwaitCi, journal, github, JournalKept
  <2>h. HandlersOK'
    BY <1>11, <1>a, <2>k, AppendStageEvidence, PlainPoint, PlainEvent
       DEF AwaitCi, JournalKept, Carrying
  <2> QED BY <1>11, <2>k, <2>h, QuietEvidence
<1>12. CASE Fail(t)
  <2>k. JournalKept /\ opened' = opened
    BY <1>12 DEF Fail, journal, github, JournalKept
  <2> DEFINE name == IF "FAILED" \in Allowed(stage) THEN "FAILED" ELSE "FAILURE"
  <2>1. PendingOK(recorded, Ev(name, 0, ""))
    BY PlainEvent
  <2>h. HandlersOK'
    BY <1>12, <1>a, <2>k, <2>1, AppendEvidenceEvidence, PlainPoint
       DEF Fail, JournalKept, Carrying
  <2> QED BY <2>k, <2>h, QuietEvidence
<1>13. CASE FailOutcome(t)
  <2>k. JournalKept /\ opened' = opened
    BY <1>13 DEF FailOutcome, journal, github, JournalKept
  <2>1. PendingOK(recorded, Ev("OUTCOME", 0, "FAILED"))
    BY DEF PendingOK, Ev
  <2>2. local[t].then \notin Carrying
    BY <1>l DEF Locals, Carrying
  <2>h. HandlersOK'
    BY <1>13, <1>a, <2>k, <2>1, <2>2, AppendEvidenceEvidence, PlainPoint
       DEF FailOutcome, JournalKept
  <2> QED BY <2>k, <2>h, QuietEvidence
<1>14. CASE RefreshBranch(t)
  <2>k. JournalKept /\ opened' = opened
    BY <1>14 DEF RefreshBranch, journal, github, JournalKept
  <2>h. HandlersOK'
    BY <1>14, <1>a, <2>k, GotoEvidence, PlainPoint
       DEF RefreshBranch, JournalKept, Carrying
  <2> QED BY <1>14, <2>k, <2>h, QuietEvidence
<1>15. CASE RefreshCi(t)
  <2>k. JournalKept /\ opened' = opened
    BY <1>15 DEF RefreshCi, journal, github, JournalKept
  <2>1. PICK ci \in CiStates :
            AppendEvidence(t, Ev("CI_SNAPSHOT", local[t].head, ci), "validate",
                           [local[t] EXCEPT !.ci = ci])
    BY <1>15 DEF RefreshCi
  <2>2. PointOK(recorded, "validate", [local[t] EXCEPT !.ci = ci],
                Ev("CI_SNAPSHOT", local[t].head, ci))
    BY <1>l DEF PointOK, Locals
  <2>h. HandlersOK'
    BY <1>a, <2>k, <2>1, <2>2, AppendEvidenceEvidence, PlainEvent DEF JournalKept
  <2> QED BY <2>k, <2>h, QuietEvidence
<1>16. CASE RefreshValidators(t)
  <2>k. JournalKept /\ opened' = opened
    BY <1>16 DEF RefreshValidators, journal, github, JournalKept
  <2>1. PICK project \in ValidatorStates :
            AppendEvidence(t, Ev("VALIDATOR_SNAPSHOT", local[t].head,
                                 WorstStatus(local[t].exact, project)), "decide",
                           [local[t] EXCEPT !.status =
                                WorstStatus(local[t].exact, project)])
    BY <1>16 DEF RefreshValidators
  <2> DEFINE status == WorstStatus(local[t].exact, project)
  <2>2. pc[t] = "validate" /\ pending[t] = NoEvent
    BY <1>16 DEF RefreshValidators, At
  <2>3. local[t].ci = "success" => Green(recorded, local[t].head)
    BY <2>2, <1>p, NothingPending
  <2>4. PointOK(recorded, "decide", [local[t] EXCEPT !.status = status],
                Ev("VALIDATOR_SNAPSHOT", local[t].head, status))
    BY <1>l, <2>3 DEF PointOK, Locals
  <2>h. HandlersOK'
    BY <1>a, <2>k, <2>1, <2>4, AppendEvidenceEvidence, PlainEvent DEF JournalKept
  <2> QED BY <2>k, <2>h, QuietEvidence
<1>17. CASE DecideVerified(t)
  <2>k. JournalKept /\ opened' = opened
    BY <1>17 DEF DecideVerified, journal, github, JournalKept
  <2>h. HandlersOK'
    BY <1>17, <1>a, <2>k, GotoEvidence, ReturnEvidence, PlainPoint
       DEF DecideVerified, JournalKept, Carrying
  <2> QED BY <1>17, <2>k, <2>h, QuietEvidence
<1>18. CASE DecideFailed(t)
  <2>k. JournalKept /\ opened' = opened
    BY <1>18 DEF DecideFailed, journal, github, JournalKept
  <2>h. HandlersOK'
    BY <1>18, <1>a, <2>k, GotoEvidence, PlainPoint
       DEF DecideFailed, JournalKept, Carrying
  <2> QED BY <1>18, <2>k, <2>h, QuietEvidence
<1>19. CASE ReviewCi(t)
  <2>k. JournalKept /\ opened' = opened
    BY <1>19 DEF ReviewCi, journal, github, JournalKept
  <2>1. pc[t] = "decide" /\ pending[t] = NoEvent
    BY <1>19 DEF ReviewCi, At
  <2>2. PointOK(recorded, "decide", [local[t] EXCEPT !.from = "CI_REVIEWED"],
                Ev("CI_REVIEWED", local[t].head, ""))
    <3>1. /\ local[t].ci = "success" => Green(recorded, local[t].head)
          /\ local[t].status = "PASS" => Passed(recorded, local[t].head)
      BY <2>1, <1>p, NothingPending
    <3> QED BY <3>1, <1>l DEF PointOK, Locals
  <2>h. HandlersOK'
    BY <1>19, <1>a, <2>k, <2>2, AppendStageEvidence, PlainEvent DEF ReviewCi, JournalKept
  <2> QED BY <2>k, <2>h, QuietEvidence
<1>20. CASE ReviewValidators(t)
  <2>k. JournalKept /\ opened' = opened
    BY <1>20 DEF ReviewValidators, journal, github, JournalKept
  <2>1. pc[t] = "decide" /\ pending[t] = NoEvent
    BY <1>20 DEF ReviewValidators, At
  <2>2. PointOK(recorded, "decide", [local[t] EXCEPT !.from = "VALIDATORS_REVIEWED"],
                Ev("VALIDATORS_REVIEWED", local[t].head, ""))
    <3>1. /\ local[t].ci = "success" => Green(recorded, local[t].head)
          /\ local[t].status = "PASS" => Passed(recorded, local[t].head)
      BY <2>1, <1>p, NothingPending
    <3> QED BY <3>1, <1>l DEF PointOK, Locals
  <2>h. HandlersOK'
    BY <1>20, <1>a, <2>k, <2>2, AppendStageEvidence, PlainEvent DEF ReviewValidators, JournalKept
  <2> QED BY <2>k, <2>h, QuietEvidence
<1>21. CASE Verify(t)
  <2>k. JournalKept /\ opened' = opened
    BY <1>21 DEF Verify, journal, github, JournalKept
  <2> DEFINE e == Ev("VERIFIED_SUCCESS", local[t].head, "")
  <2>1. /\ pc[t] = "decide" /\ pending[t] = NoEvent
        /\ local[t].ci = "success" /\ local[t].status = "PASS"
    BY <1>21 DEF Verify, At, Verified
  <2>2. Green(recorded, local[t].head) /\ Passed(recorded, local[t].head)
    BY <2>1, <1>p, NothingPending
  <2>3. PendingOK(recorded, e) /\ PointOK(recorded, "verified", local[t], e)
    BY <2>2 DEF PendingOK, PointOK, Ev
  <2>h. HandlersOK'
    BY <1>21, <1>a, <2>k, <2>3, AppendStageEvidence DEF Verify, JournalKept
  <2> QED BY <2>k, <2>h, QuietEvidence
<1>22. CASE VerifiedOutcome(t)
  <2>k. JournalKept /\ opened' = opened
    BY <1>22 DEF VerifiedOutcome, journal, github, JournalKept
  <2>1. pc[t] = "verified" /\ pending[t] = NoEvent
    BY <1>22 DEF VerifiedOutcome, At
  <2>2. SomeVerified(recorded)
    BY <2>1, <1>p, NothingPending
  <2>3. PendingOK(recorded, Ev("OUTCOME", 0, "VERIFIED_SUCCESS"))
    BY <2>2 DEF PendingOK, Ev
  <2>h. HandlersOK'
    BY <1>22, <1>a, <2>k, <2>3, AppendEvidenceEvidence, PlainPoint
       DEF VerifiedOutcome, JournalKept, Carrying
  <2> QED BY <2>k, <2>h, QuietEvidence
<1>23. CASE Undecided(t)
  <2>k. JournalKept /\ opened' = opened
    BY <1>23 DEF Undecided, journal, github, JournalKept
  <2>1. PendingOK(recorded, Ev("OUTCOME", 0, OpenOutcome(local[t])))
    BY DEF PendingOK, Ev, OpenOutcome
  <2>h. HandlersOK'
    BY <1>23, <1>a, <2>k, <2>1, AppendEvidenceEvidence, PlainPoint
       DEF Undecided, JournalKept, Carrying
  <2> QED BY <2>k, <2>h, QuietEvidence
<1>24. CASE RecordHealth(t)
  <2>k. JournalKept /\ opened' = opened
    BY <1>24 DEF RecordHealth, journal, github, JournalKept
  <2> DEFINE v == latest["VALIDATOR_SNAPSHOT"]
             h == [event  |-> "VALIDATOR_HEALTH_SNAPSHOT", head |-> v.head,
                   note   |-> HealthOf(v.note), source |-> v.source]
  <2>1. Return(t) \/ AppendEvidence(t, h, "idle", NoLocals)
    BY <1>24 DEF RecordHealth
  <2>2. PendingOK(recorded, h)
    BY DEF PendingOK
  <2>h. HandlersOK'
    BY <1>a, <2>k, <2>1, <2>2, ReturnEvidence, AppendEvidenceEvidence, PlainPoint
       DEF JournalKept, Carrying
  <2> QED BY <2>k, <2>h, QuietEvidence
<1>25. CASE ReviewBranch(t)
  <2>k. JournalKept /\ opened' = opened
    BY <1>25 DEF ReviewBranch, journal, github, JournalKept
  <2>h. HandlersOK'
    BY <1>25, <1>a, <2>k, GotoEvidence, ReturnEvidence, PlainPoint
       DEF ReviewBranch, JournalKept, Carrying
  <2> QED BY <1>25, <2>k, <2>h, QuietEvidence
<1>26. CASE ReviewCompare(t)
  <2>k. JournalKept /\ opened' = opened
    BY <1>26 DEF ReviewCompare, journal, github, JournalKept
  <2>1. PICK d \in Digests :
            \/ Return(t)
            \/ AppendEvidence(t, Ev("REVIEW_SNAPSHOT", local[t].head, d), "idle", NoLocals)
    BY <1>26 DEF ReviewCompare
  <2>h. HandlersOK'
    BY <1>a, <2>k, <2>1, AppendEvidenceEvidence, ReturnEvidence, PlainPoint, PlainEvent
       DEF JournalKept, Carrying
  <2> QED BY <2>k, <2>h, QuietEvidence
<1>27. CASE AckBranch(t)
  <2>k. JournalKept /\ opened' = opened
    BY <1>27 DEF AckBranch, journal, github, JournalKept
  <2>h. HandlersOK'
    BY <1>27, <1>a, <2>k, AppendEvidenceEvidence, ReturnEvidence, PlainPoint, PlainEvent
       DEF AckBranch, JournalKept, Carrying
  <2> QED BY <1>27, <2>k, <2>h, QuietEvidence
<1>28. CASE PrBranch(t)
  <2>k. JournalKept /\ opened' = opened
    BY <1>28 DEF PrBranch, journal, github, JournalKept
  <2>1. pc[t] = "pr_branch"
    BY <1>28 DEF PrBranch, At
  <2>2. PointOK(recorded, "pr_create", local[t], pending[t])
    BY <2>1, <1>p DEF PointOK
  <2>h. HandlersOK'
    BY <1>28, <1>a, <2>k, <2>2, GotoEvidence, ReturnEvidence DEF PrBranch, JournalKept
  <2> QED BY <2>k, <2>h, QuietEvidence
<1>29. CASE PrCreate(t)
  <2>k. JournalKept
    BY <1>29 DEF PrCreate, journal, JournalKept
  <2>1. pc[t] = "pr_create"
    BY <1>29 DEF PrCreate, At
  <2>2. OpeningEvidence(recorded)
    BY <2>1, <1>p DEF PointOK
  <2>h. HandlersOK'
    BY <1>29, <1>a, <2>k, GotoEvidence, ReturnEvidence, PlainPoint
       DEF PrCreate, JournalKept, Carrying
  <2> QED BY <2>k, <2>2, <2>h, OpenedEvidence
<1>30. CASE PrCreateUnanswered(t)
  <2>k. JournalKept
    BY <1>30 DEF PrCreateUnanswered, journal, JournalKept
  <2>1. pc[t] = "pr_create"
    BY <1>30 DEF PrCreateUnanswered, At
  <2>2. OpeningEvidence(recorded)
    BY <2>1, <1>p DEF PointOK
  <2>h. HandlersOK'
    BY <1>30, <1>a, <2>k, ReturnEvidence
       DEF PrCreateUnanswered, JournalKept, Carrying
  <2> QED BY <2>k, <2>2, <2>h, OpenedEvidence
<1>31. CASE PrReadBack(t)
  <2>k. JournalKept /\ opened' = opened
    BY <1>31 DEF PrReadBack, journal, github, JournalKept
  <2>h. HandlersOK'
    BY <1>31, <1>a, <2>k, AppendStageEvidence, ReturnEvidence, PlainPoint, PlainEvent
       DEF PrReadBack, JournalKept, Carrying
  <2> QED BY <1>31, <2>k, <2>h, QuietEvidence
<1>32. CASE PrSnapshot(t)
  <2>k. JournalKept /\ opened' = opened
    BY <1>32 DEF PrSnapshot, journal, github, JournalKept
  <2>h. HandlersOK'
    BY <1>32, <1>a, <2>k, AppendEvidenceEvidence, ReturnEvidence, PlainPoint, PlainEvent
       DEF PrSnapshot, JournalKept, Carrying
  <2> QED BY <1>32, <2>k, <2>h, QuietEvidence
<1>33. CASE PrReview(t)
  <2>k. JournalKept /\ opened' = opened
    BY <1>33 DEF PrReview, journal, github, JournalKept
  <2>h. HandlersOK'
    BY <1>33, <1>a, <2>k, AppendEvidenceEvidence, ReturnEvidence, PlainPoint, PlainEvent
       DEF PrReview, JournalKept, Carrying
  <2> QED BY <1>33, <2>k, <2>h, QuietEvidence
<1>34. CASE GitHubRaises(t)
  <2>k. JournalKept /\ opened' = opened
    BY <1>34 DEF GitHubRaises, journal, github, JournalKept
  <2>h. HandlersOK'
    BY <1>34, <1>a, <2>k, ReturnEvidence
       DEF GitHubRaises, JournalKept, Carrying
  <2> QED BY <1>34, <2>k, <2>h, QuietEvidence
<1> QED BY <1>1, <1>2, <1>3, <1>4, <1>5, <1>6, <1>7, <1>8, <1>9, <1>10,
        <1>11, <1>12, <1>13, <1>14, <1>15, <1>16, <1>17, <1>18, <1>19, <1>20,
        <1>21, <1>22, <1>23, <1>24, <1>25, <1>26, <1>27, <1>28, <1>29, <1>30,
        <1>31, <1>32, <1>33, <1>34
        DEF Step

LEMMA NextEvidence ==
    ASSUME TypeOK, EvidenceInv, [Next]_vars
    PROVE  EvidenceInv'
<1>1. CASE \E t \in Threads : Request(t) \/ Step(t)
  BY <1>1, RequestEvidence, StepEvidence
<1>2. CASE PushByOthers
  BY <1>2, IdleEvidence DEF PushByOthers, journal
<1>3. CASE Expire
  BY <1>3, IdleEvidence DEF Expire, journal, github
<1>4. CASE Restart
  <2>k. JournalKept /\ opened' = opened
    BY <1>4 DEF Restart, journal, github, JournalKept
  <2>h. HandlersOK'
    <3> SUFFICES ASSUME NEW u \in Threads
                 PROVE  /\ PendingOK(recorded', pending'[u])
                        /\ PointOK(recorded', pc'[u], local'[u], pending'[u])
      BY DEF HandlersOK
    <3>1. pc'[u] = "idle" /\ pending'[u] = NoEvent
      BY <1>4 DEF Restart
    <3> QED BY <3>1, PlainPoint, NothingPending DEF Carrying
  <2> QED BY <2>k, <2>h, QuietEvidence
<1>5. CASE UNCHANGED vars
  BY <1>5, IdleEvidence DEF vars, journal, github
<1> QED BY <1>1, <1>2, <1>3, <1>4, <1>5 DEF Next

LEMMA InitEvidence == Init => EvidenceInv
<1> SUFFICES ASSUME Init PROVE EvidenceInv
  OBVIOUS
<1>1. LatestRecorded
  BY DEF Init, LatestRecorded, Favourable, NoEvent
<1>2. OutcomeRecorded /\ VerifiedHasEvidence
  BY DEF Init, OutcomeRecorded, VerifiedHasEvidence
<1>3. PullHasEvidence
  BY Zenon DEF Init, PullHasEvidence
<1>4. HandlersOK
  <2> SUFFICES ASSUME NEW u \in Threads
               PROVE  /\ PendingOK(recorded, pending[u])
                      /\ PointOK(recorded, pc[u], local[u], pending[u])
    BY DEF HandlersOK
  <2>1. pc[u] = "idle" /\ pending[u] = NoEvent
    BY DEF Init
  <2> QED BY <2>1, PlainPoint, NothingPending DEF Carrying
<1> QED BY <1>1, <1>2, <1>3, <1>4 DEF EvidenceInv

LEMMA EvidenceAlways == Spec => []EvidenceInv
BY TypeCorrect, InitEvidence, NextEvidence, PTL DEF Spec

\* However requests are interleaved, restarted or raced, append_stage never
\* records VERIFIED_SUCCESS for a head without its green CI snapshot and its
\* passing validator snapshot in the journal (refresh_evidence).
THEOREM VerifiedIsEvidenced == Spec => []VerifiedHasEvidence
<1>1. EvidenceInv => VerifiedHasEvidence
  BY DEF EvidenceInv
<1> QED BY <1>1, EvidenceAlways, PTL

\* ... and open_pull_request never opens a pull request before the journal
\* holds a reviewed and acknowledged bound commit, a verification and a health
\* snapshot (the gates of APP3, APP4 and APP6 together).
THEOREM PullIsEvidenced == Spec => []PullHasEvidence
<1>1. EvidenceInv => PullHasEvidence
  BY DEF EvidenceInv
<1> QED BY <1>1, EvidenceAlways, PTL

-----------------------------------------------------------------------------
(* Requests handled one at a time.                                          *)

\* The stage once event e is recorded after stage s.
Becomes(s, e) == IF e.event \in Stages THEN e.event ELSE s

\* A stage recorded after stage s is one it allows, an outcome agrees with it.
Follows(s, e) ==
    /\ e.event \in Stages => e.event \in Allowed(s)
    /\ e.event = "OUTCOME" =>
          /\ e.note = "VERIFIED_SUCCESS" <=> s \in {"VERIFIED_SUCCESS", "PR_OPENED"}
          /\ e.note = "FAILED" <=> s = "FAILED"

\* Where a handler is tells the stage its task will be at, if no other handler
\* appends: _fail is reached from stages that may fail, and a refresh believes
\* in the stage that is.
Knows(p, l, s) ==
    /\ p = "agent" => s = "AGENT_RUNNING"
    /\ p \in {"bind", "compare"} => s = "AGENT_COMPLETED"
    /\ p = "fail" => "FAILED" \in Allowed(s) /\ s \in Stages
    /\ p = "fail_outcome" => s = "FAILED"
    /\ p \in {"refresh_branch", "refresh_ci", "validate", "decide"} =>
          s = l.from /\ s \in CiStages
    /\ p = "verified" => s = "VERIFIED_SUCCESS"

Knowing == {"agent", "bind", "compare", "fail", "fail_outcome", "refresh_branch",
            "refresh_ci", "validate", "decide", "verified"}

SerialOK(t) == /\ Follows(stage, pending[t])
               /\ Knows(pc[t], local[t], Becomes(stage, pending[t]))

SerialInv == OutcomeMatchesStage /\ \A t \in Threads : SerialOK(t)

\* One request at a time: there are no two threads.
Serial == \A t, u \in Threads : t = u

LEMMA KnowsNothing ==
    ASSUME NEW p, NEW l, NEW s, p \notin Knowing
    PROVE  Knows(p, l, s)
BY DEF Knows, Knowing

LEMMA NothingFollows ==
    ASSUME NEW s
    PROVE  Follows(s, NoEvent) /\ Becomes(s, NoEvent) = s
BY DEF Follows, Becomes, NoEvent, Stages

LEMMA EvFields ==
    ASSUME NEW name, NEW head, NEW note
    PROVE  /\ Ev(name, head, note).event = name
           /\ Ev(name, head, note).head = head
           /\ Ev(name, head, note).note = note
BY DEF Ev

\* The view stays as it is while the only thread moves on.
ViewKept == UNCHANGED <<stage, outcome>>

LEMMA OnlyThread ==
    ASSUME Serial, SerialInv, ViewKept, NEW t \in Threads, SerialOK(t)'
    PROVE  SerialInv'
<1>1. OutcomeMatchesStage'
  BY DEF SerialInv, ViewKept, OutcomeMatchesStage
<1>2. \A u \in Threads : u = t
  BY DEF Serial
<1> QED BY <1>1, <1>2 DEF SerialInv

LEMMA ReturnSerial ==
    ASSUME Serial, ThreadsOK, SerialInv, ViewKept, NEW t \in Threads, Return(t)
    PROVE  SerialInv'
<1>1. pc'[t] = "idle" /\ pending'[t] = pending[t] /\ stage' = stage
  BY DEF Return, ThreadsOK, ViewKept
<1>2. Follows(stage', pending'[t])
  BY <1>1 DEF SerialInv, SerialOK
<1>3. Knows(pc'[t], local'[t], Becomes(stage', pending'[t]))
  BY <1>1, KnowsNothing DEF Knowing
<1> QED BY <1>2, <1>3, OnlyThread DEF SerialOK

LEMMA GotoSerial ==
    ASSUME Serial, ThreadsOK, SerialInv, ViewKept, NEW t \in Threads, NEW label, NEW l,
           Goto(t, label, l), pending[t] = NoEvent, Knows(label, l, stage)
    PROVE  SerialInv'
<1>1. pc'[t] = label /\ local'[t] = l /\ pending'[t] = NoEvent /\ stage' = stage
  BY DEF Goto, ThreadsOK, ViewKept
<1>2. Follows(stage', pending'[t]) /\ Becomes(stage', pending'[t]) = stage
  BY <1>1, NothingFollows
<1> QED BY <1>1, <1>2, OnlyThread DEF SerialOK

LEMMA AppendEvidenceSerial ==
    ASSUME Serial, ThreadsOK, SerialInv, ViewKept, NEW t \in Threads, NEW label, NEW l,
           NEW e, AppendEvidence(t, e, label, l),
           Follows(stage, e), Knows(label, l, Becomes(stage, e))
    PROVE  SerialInv'
<1>1. pc'[t] = label /\ local'[t] = l /\ pending'[t] = e /\ stage' = stage
  BY DEF AppendEvidence, ThreadsOK, ViewKept
<1> QED BY <1>1, OnlyThread DEF SerialOK

LEMMA AppendStageSerial ==
    ASSUME Serial, ThreadsOK, SerialInv, ViewKept, NEW t \in Threads, NEW label, NEW l,
           NEW name \in Stages, NEW head, NEW note,
           AppendStage(t, Ev(name, head, note), label, l), Knows(label, l, name)
    PROVE  SerialInv'
<1>1. CASE name \in Allowed(stage)
  <2>1. /\ Follows(stage, Ev(name, head, note))
        /\ Becomes(stage, Ev(name, head, note)) = name
    BY <1>1, EvFields DEF Follows, Becomes, Stages
  <2>2. AppendEvidence(t, Ev(name, head, note), label, l)
    BY <1>1, EvFields DEF AppendStage
  <2> QED BY <2>1, <2>2, AppendEvidenceSerial
<1>2. CASE name \notin Allowed(stage)
  BY <1>2, ReturnSerial, EvFields DEF AppendStage
<1> QED BY <1>1, <1>2

\* Evidence that is neither a stage nor an outcome changes nothing.
LEMMA PlainEvidenceSerial ==
    ASSUME Serial, ThreadsOK, SerialInv, ViewKept, NEW t \in Threads, NEW label, NEW l,
           NEW e, AppendEvidence(t, e, label, l),
           e.event \notin Stages \cup {"OUTCOME"}, Knows(label, l, stage)
    PROVE  SerialInv'
BY AppendEvidenceSerial DEF Follows, Becomes

LEMMA IdleSerial ==
    ASSUME SerialInv, UNCHANGED journal, UNCHANGED threads
    PROVE  SerialInv'
BY DEF SerialInv, SerialOK, OutcomeMatchesStage, journal, threads

\* The fold of a record that follows the stage keeps outcome and stage in step.
LEMMA RecordedSerial ==
    ASSUME Serial, TypeOK, SerialInv, NEW t \in Threads, Recorded(t)
    PROVE  SerialInv'
<1> DEFINE p == pending[t]
           e == IF p.event = "VALIDATOR_SNAPSHOT"
                  THEN [p EXCEPT !.source = snapshots + 1] ELSE p
<1>1. p \in Event /\ SerialOK(t) /\ OutcomeMatchesStage
  BY DEF TypeOK, SerialInv
<1>2. e.event = p.event /\ e.note = p.note
  BY <1>1 DEF Event
<1>3. stage' = Becomes(stage, p) /\ outcome' = OutcomeAfter(p)
  BY <1>2 DEF Recorded, Fold, Becomes, OutcomeAfter
<1>4. Follows(stage, p)
  BY <1>1 DEF SerialOK
<1>5. OutcomeMatchesStage'
  <2>1. CASE p.event = "OUTCOME"
    BY <1>3, <1>4, <2>1 DEF OutcomeAfter, Becomes, Follows, OutcomeMatchesStage, Stages
  <2>2. CASE p.event \in Stages
    <3>1. stage' = p.event /\ stage' \in Allowed(stage) /\ stage \in Stages \cup {"NONE"}
      BY <1>3, <1>4, <2>2 DEF Becomes, Follows, TypeOK
    <3>2. outcome' = IF stage' \in {"VERIFIED_SUCCESS", "FAILED"} THEN stage' ELSE outcome
      BY <1>3, <2>2, <3>1 DEF OutcomeAfter, Stages
    <3>3. stage # "FAILED" /\ (stage' = "PR_OPENED" <=> stage = "VERIFIED_SUCCESS")
          /\ stage # "PR_OPENED"
      BY <3>1 DEF Allowed, Stages
    <3> QED BY <1>1, <3>2, <3>3 DEF OutcomeMatchesStage
  <2>3. CASE p.event \notin Stages \cup {"OUTCOME"}
    <3>1. stage' = stage /\ outcome' = outcome
      BY <1>3, <2>3 DEF OutcomeAfter, Becomes, Stages
    <3> QED BY <1>1, <3>1 DEF OutcomeMatchesStage
  <2> QED BY <2>1, <2>2, <2>3
<1>6. pending'[t] = NoEvent /\ pc' = pc /\ local' = local
  BY DEF Recorded, TypeOK
<1>7. SerialOK(t)'
  <2>1. Knows(pc[t], local[t], Becomes(stage, p))
    BY <1>1 DEF SerialOK
  <2> QED BY <1>3, <1>6, <2>1, NothingFollows DEF SerialOK
<1>8. \A u \in Threads : u = t
  BY DEF Serial
<1> QED BY <1>5, <1>7, <1>8 DEF SerialInv


LEMMA RequestSerial ==
    ASSUME Serial, TypeOK, SerialInv, NEW t \in Threads, Request(t)
    PROVE  SerialInv'
<1>a. ThreadsOK /\ stage \in Stages \cup {"NONE"}
  BY DEF TypeOK, ThreadsOK
<1>1. CASE Preview(t)
  <2>k. ViewKept
    BY <1>1 DEF Preview, journal, ViewKept
  <2>1. CASE stage = "NONE"
    <3>1. AppendStage(t, Ev("PREVIEWED", 0, ""), "idle", NoLocals)
      BY <1>1, <2>1 DEF Preview
    <3>2. Knows("idle", NoLocals, "PREVIEWED")
      BY KnowsNothing DEF Knowing
    <3> QED BY <1>a, <2>k, <3>1, <3>2, AppendStageSerial DEF Stages
  <2>2. CASE stage # "NONE"
    BY <1>1, <2>2, IdleSerial DEF Preview
  <2> QED BY <2>1, <2>2
<1>2. CASE RunPreviewed(t)
  <2>k. ViewKept
    BY <1>2 DEF RunPreviewed, journal, ViewKept
  <2> QED BY <1>2, <1>a, <2>k, GotoSerial, KnowsNothing DEF RunPreviewed, Idle, At, Knowing
<1>3. CASE RunBranchCreated(t)
  <2>k. ViewKept
    BY <1>3 DEF RunBranchCreated, journal, ViewKept
  <2>1. Knows("agent", NoLocals, "AGENT_RUNNING")
    BY DEF Knows
  <2>2. AppendStage(t, Ev("AGENT_RUNNING", 0, ""), "agent", NoLocals)
    BY <1>3 DEF RunBranchCreated
  <2> QED BY <1>a, <2>k, <2>1, <2>2, AppendStageSerial DEF Stages
<1>4. CASE RunResumed(t)
  <2>k. ViewKept
    BY <1>4 DEF RunResumed, journal, ViewKept
  <2>1. Knows("agent", NoLocals, stage)
    BY <1>4 DEF RunResumed, Knows
  <2> DEFINE e == Ev("RESUME_REQUESTED", 0, "")
  <2>2. AppendEvidence(t, e, "agent", NoLocals)
    BY <1>4 DEF RunResumed
  <2>3. e.event \notin Stages \cup {"OUTCOME"}
    BY DEF Ev, Stages
  <2> HIDE DEF e
  <2> QED BY <1>a, <2>k, <2>1, <2>2, <2>3, PlainEvidenceSerial
<1>5. CASE Refresh(t)
  <2>k. ViewKept
    BY <1>5 DEF Refresh, journal, ViewKept
  <2> DEFINE l == [NoLocals EXCEPT !.from = stage, !.head = Commit.head, !.then = "health"]
  <2>1. l.from = stage
    BY DEF NoLocals
  <2>2. Knows("refresh_branch", l, stage)
    BY <1>5, <2>1 DEF Refresh, Knows
  <2>3. Goto(t, "refresh_branch", l) /\ pending[t] = NoEvent
    BY <1>5 DEF Refresh, Idle
  <2> HIDE DEF l
  <2> QED BY <1>a, <2>k, <2>2, <2>3, GotoSerial
<1>6. CASE RefreshSettled(t)
  <2>k. ViewKept
    BY <1>6 DEF RefreshSettled, journal, ViewKept
  <2> QED BY <1>6, <1>a, <2>k, GotoSerial, KnowsNothing DEF RefreshSettled, Idle, At, Knowing
<1>7. CASE ReviewBundle(t)
  <2>k. ViewKept
    BY <1>7 DEF ReviewBundle, journal, ViewKept
  <2> QED BY <1>7, <1>a, <2>k, GotoSerial, KnowsNothing DEF ReviewBundle, Idle, At, Knowing
<1>8. CASE Acknowledge(t)
  <2>k. ViewKept
    BY <1>8 DEF Acknowledge, journal, ViewKept
  <2> QED BY <1>8, <1>a, <2>k, GotoSerial, KnowsNothing DEF Acknowledge, Idle, At, Knowing
<1>9. CASE OpenPullRequest(t)
  <2>k. ViewKept
    BY <1>9 DEF OpenPullRequest, journal, ViewKept
  <2> QED BY <1>9, <1>a, <2>k, GotoSerial, KnowsNothing DEF OpenPullRequest, Idle, At, Knowing
<1>10. CASE OpenAgain(t)
  <2>k. ViewKept
    BY <1>10 DEF OpenAgain, journal, ViewKept
  <2> QED BY <1>10, <1>a, <2>k, GotoSerial, KnowsNothing DEF OpenAgain, Idle, At, Knowing
<1>11. CASE RefreshPrReview(t)
  <2>k. ViewKept
    BY <1>11 DEF RefreshPrReview, journal, ViewKept
  <2> QED BY <1>11, <1>a, <2>k, GotoSerial, KnowsNothing DEF RefreshPrReview, Idle, At, Knowing
<1> QED BY <1>1, <1>2, <1>3, <1>4, <1>5, <1>6, <1>7, <1>8, <1>9, <1>10, <1>11 DEF Request

LEMMA StepSerial ==
    ASSUME Serial, TypeOK, SerialInv, NEW t \in Threads, Step(t)
    PROVE  SerialInv'
<1>a. ThreadsOK /\ stage \in Stages \cup {"NONE"} /\ local[t] \in Locals
  BY DEF TypeOK, ThreadsOK
\* Between two appends the handler knows the stage that is.
<1>b. pending[t] = NoEvent => Knows(pc[t], local[t], stage)
  BY NothingFollows DEF SerialInv, SerialOK
<1>1. CASE Recorded(t)
  BY <1>1, RecordedSerial
<1>2. CASE CreateBranch(t)
  <2>k. ViewKept
    BY <1>2 DEF CreateBranch, journal, ViewKept
  <2>1. CASE created
    BY <1>2, <2>1, <1>a, <2>k, ReturnSerial DEF CreateBranch
  <2>2. CASE ~created
    <3>1. AppendStage(t, Ev("BRANCH_CREATED", 0, ""), "begin_agent", NoLocals)
      BY <1>2, <2>2 DEF CreateBranch
    <3>2. Knows("begin_agent", NoLocals, "BRANCH_CREATED")
      BY KnowsNothing DEF Knowing
    <3> QED BY <1>a, <2>k, <3>1, <3>2, AppendStageSerial DEF Stages
  <2> QED BY <2>1, <2>2
<1>3. CASE CreateBranchUnanswered(t)
  <2>k. ViewKept
    BY <1>3 DEF CreateBranchUnanswered, journal, ViewKept
  <2> QED BY <1>3, <1>a, <2>k, ReturnSerial DEF CreateBranchUnanswered
<1>4. CASE BeginAgent(t)
  <2>k. ViewKept
    BY <1>4 DEF BeginAgent, journal, ViewKept
  <2>1. Knows("agent", NoLocals, "AGENT_RUNNING")
    BY DEF Knows
  <2>2. AppendStage(t, Ev("AGENT_RUNNING", 0, ""), "agent", NoLocals)
    BY <1>4 DEF BeginAgent
  <2> QED BY <1>a, <2>k, <2>1, <2>2, AppendStageSerial DEF Stages
<1>5. CASE AgentWrites(t)
  BY <1>5, IdleSerial DEF AgentWrites
<1>6. CASE AgentCompletes(t)
  <2>k. ViewKept
    BY <1>6 DEF AgentCompletes, journal, ViewKept
  <2>1. Knows("bind", NoLocals, "AGENT_COMPLETED")
    BY DEF Knows
  <2>2. AppendStage(t, Ev("AGENT_COMPLETED", 0, ""), "bind", NoLocals)
    BY <1>6 DEF AgentCompletes
  <2> QED BY <1>a, <2>k, <2>1, <2>2, AppendStageSerial DEF Stages
<1>7. CASE AgentFails(t)
  <2>k. ViewKept
    BY <1>7 DEF AgentFails, journal, ViewKept
  <2>1. Knows("fail", NoLocals, stage)
    BY <1>7, <1>b DEF AgentFails, At, Knows, Allowed, Stages
  <2> QED BY <1>7, <1>a, <2>k, <2>1, GotoSerial DEF AgentFails, At
<1>8. CASE BindHead(t)
  <2>k. ViewKept
    BY <1>8 DEF BindHead, journal, ViewKept
  <2>1. stage = "AGENT_COMPLETED"
    BY <1>8, <1>b DEF BindHead, At, Knows
  <2>2. /\ Knows("fail", NoLocals, stage)
        /\ \A l : Knows("compare", l, stage)
    BY <2>1 DEF Knows, Allowed, Stages
  <2> QED BY <1>8, <1>a, <2>k, <2>2, GotoSerial DEF BindHead, At
<1>9. CASE BindCommit(t)
  <2>k. ViewKept
    BY <1>9 DEF BindCommit, journal, ViewKept
  <2>1. Knows("await_ci", local[t], "COMMIT_BOUND")
    BY KnowsNothing DEF Knowing
  <2>2. AppendStage(t, Ev("COMMIT_BOUND", local[t].head, ""), "await_ci", local[t])
    BY <1>9 DEF BindCommit
  <2> QED BY <1>a, <2>k, <2>1, <2>2, AppendStageSerial DEF Stages
<1>10. CASE BindFails(t)
  <2>k. ViewKept
    BY <1>10 DEF BindFails, journal, ViewKept
  <2>1. Knows("fail", NoLocals, stage)
    BY <1>10, <1>b DEF BindFails, At, Knows, Allowed, Stages
  <2> QED BY <1>10, <1>a, <2>k, <2>1, GotoSerial DEF BindFails, At
<1>11. CASE AwaitCi(t)
  <2>k. ViewKept
    BY <1>11 DEF AwaitCi, journal, ViewKept
  <2>1. Knows("idle", NoLocals, "CI_PENDING")
    BY KnowsNothing DEF Knowing
  <2>2. AppendStage(t, Ev("CI_PENDING", local[t].head, ""), "idle", NoLocals)
    BY <1>11 DEF AwaitCi
  <2> QED BY <1>a, <2>k, <2>1, <2>2, AppendStageSerial DEF Stages
<1>12. CASE Fail(t)
  <2>k. ViewKept
    BY <1>12 DEF Fail, journal, ViewKept
  <2>1. "FAILED" \in Allowed(stage)
    BY <1>12, <1>b DEF Fail, At, Knows
  <2>2. AppendStage(t, Ev("FAILED", 0, ""), "fail_outcome", local[t])
    <3>1. AppendEvidence(t, Ev("FAILED", 0, ""), "fail_outcome", local[t])
      BY <1>12, <2>1 DEF Fail
    <3>2. Ev("FAILED", 0, "").event = "FAILED"
      BY DEF Ev
    <3> QED BY <2>1, <3>1, <3>2 DEF AppendStage
  <2>3. Knows("fail_outcome", local[t], "FAILED")
    BY DEF Knows
  <2> QED BY <1>a, <2>k, <2>2, <2>3, AppendStageSerial DEF Stages
<1>13. CASE FailOutcome(t)
  <2>k. ViewKept
    BY <1>13 DEF FailOutcome, journal, ViewKept
  <2>1. stage = "FAILED"
    BY <1>13, <1>b DEF FailOutcome, At, Knows, Allowed
  <2>2. Follows(stage, Ev("OUTCOME", 0, "FAILED"))
    BY <2>1, EvFields DEF Follows, Stages
  <2>3. local[t].then \notin Knowing
    BY <1>a DEF Locals, Knowing
  <2> QED BY <1>13, <1>a, <2>k, <2>2, <2>3, AppendEvidenceSerial, KnowsNothing DEF FailOutcome
<1>14. CASE RefreshBranch(t)
  <2>k. ViewKept
    BY <1>14 DEF RefreshBranch, journal, ViewKept
  <2> DEFINE l == [local[t] EXCEPT !.exact = (branch = local[t].head)]
  <2>1. l.from = local[t].from
    BY <1>a DEF Locals
  <2>2. Knows("refresh_ci", l, stage)
    BY <1>14, <1>b, <2>1 DEF RefreshBranch, At, Knows
  <2>3. Goto(t, "refresh_ci", l) /\ pending[t] = NoEvent
    BY <1>14 DEF RefreshBranch, At
  <2> HIDE DEF l
  <2> QED BY <1>a, <2>k, <2>2, <2>3, GotoSerial
<1>15. CASE RefreshCi(t)
  <2>k. ViewKept
    BY <1>15 DEF RefreshCi, journal, ViewKept
  <2>1. PICK ci \in CiStates :
            AppendEvidence(t, Ev("CI_SNAPSHOT", local[t].head, ci), "validate",
                           [local[t] EXCEPT !.ci = ci])
    BY <1>15 DEF RefreshCi
  <2> DEFINE l == [local[t] EXCEPT !.ci = ci]
  <2>2. l.from = local[t].from
    BY <1>a DEF Locals
  <2>3. Knows("validate", l, stage)
    BY <1>15, <1>b, <2>2 DEF RefreshCi, At, Knows
  <2> HIDE DEF l
  <2> QED BY <1>a, <2>k, <2>1, <2>3, PlainEvidenceSerial, EvFields DEF l, Stages
<1>16. CASE RefreshValidators(t)
  <2>k. ViewKept
    BY <1>16 DEF RefreshValidators, journal, ViewKept
  <2>1. PICK status :
            AppendEvidence(t, Ev("VALIDATOR_SNAPSHOT", local[t].head, status), "decide",
                           [local[t] EXCEPT !.status = status])
    BY <1>16 DEF RefreshValidators
  <2> DEFINE l == [local[t] EXCEPT !.status = status]
  <2>2. l.from = local[t].from
    BY <1>a DEF Locals
  <2>3. Knows("decide", l, stage)
    BY <1>16, <1>b, <2>2 DEF RefreshValidators, At, Knows
  <2> HIDE DEF l
  <2> QED BY <1>a, <2>k, <2>1, <2>3, PlainEvidenceSerial, EvFields DEF l, Stages
<1>17. CASE DecideVerified(t)
  <2>k. ViewKept
    BY <1>17 DEF DecideVerified, journal, ViewKept
  <2> QED BY <1>17, <1>a, <2>k, GotoSerial, ReturnSerial, KnowsNothing DEF DecideVerified, At, Knowing
<1>18. CASE DecideFailed(t)
  <2>k. ViewKept
    BY <1>18 DEF DecideFailed, journal, ViewKept
  <2>1. stage \in CiStages \ {"VERIFIED_SUCCESS"}
    BY <1>18, <1>b DEF DecideFailed, At, Knows
  <2>2. Knows("fail", local[t], stage)
    BY <2>1 DEF CiStages, Knows, Allowed, Stages
  <2> QED BY <1>18, <1>a, <2>k, <2>2, GotoSerial DEF DecideFailed, At
<1>19. CASE ReviewCi(t)
  <2>k. ViewKept
    BY <1>19 DEF ReviewCi, journal, ViewKept
  <2> DEFINE l == [local[t] EXCEPT !.from = "CI_REVIEWED"]
  <2>1. l.from = "CI_REVIEWED"
    BY <1>a DEF Locals
  <2>2. Knows("decide", l, "CI_REVIEWED")
    BY <2>1 DEF Knows, CiStages
  <2>3. AppendStage(t, Ev("CI_REVIEWED", local[t].head, ""), "decide", l)
    BY <1>19 DEF ReviewCi
  <2> HIDE DEF l
  <2> QED BY <1>a, <2>k, <2>2, <2>3, AppendStageSerial DEF Stages
<1>20. CASE ReviewValidators(t)
  <2>k. ViewKept
    BY <1>20 DEF ReviewValidators, journal, ViewKept
  <2> DEFINE l == [local[t] EXCEPT !.from = "VALIDATORS_REVIEWED"]
  <2>1. l.from = "VALIDATORS_REVIEWED"
    BY <1>a DEF Locals
  <2>2. Knows("decide", l, "VALIDATORS_REVIEWED")
    BY <2>1 DEF Knows, CiStages
  <2>3. AppendStage(t, Ev("VALIDATORS_REVIEWED", local[t].head, ""), "decide", l)
    BY <1>20 DEF ReviewValidators
  <2> HIDE DEF l
  <2> QED BY <1>a, <2>k, <2>2, <2>3, AppendStageSerial DEF Stages
<1>21. CASE Verify(t)
  <2>k. ViewKept
    BY <1>21 DEF Verify, journal, ViewKept
  <2>1. Knows("verified", local[t], "VERIFIED_SUCCESS")
    BY DEF Knows
  <2>2. AppendStage(t, Ev("VERIFIED_SUCCESS", local[t].head, ""), "verified", local[t])
    BY <1>21 DEF Verify
  <2> QED BY <1>a, <2>k, <2>1, <2>2, AppendStageSerial DEF Stages
<1>22. CASE VerifiedOutcome(t)
  <2>k. ViewKept
    BY <1>22 DEF VerifiedOutcome, journal, ViewKept
  <2>1. stage = "VERIFIED_SUCCESS"
    BY <1>22, <1>b DEF VerifiedOutcome, At, Knows
  <2>2. Follows(stage, Ev("OUTCOME", 0, "VERIFIED_SUCCESS"))
    BY <2>1, EvFields DEF Follows, Stages
  <2> QED BY <1>22, <1>a, <2>k, <2>2, AppendEvidenceSerial, KnowsNothing
          DEF VerifiedOutcome, Knowing
<1>23. CASE Undecided(t)
  <2>k. ViewKept
    BY <1>23 DEF Undecided, journal, ViewKept
  <2>1. stage \in {"CI_PENDING", "VALIDATORS_REVIEWED"}
    BY <1>23, <1>b DEF Undecided, At, Knows
  <2>2. OpenOutcome(local[t]) \in {"REVIEW_REQUIRED", "WORKING"}
    BY DEF OpenOutcome
  <2>3. Follows(stage, Ev("OUTCOME", 0, OpenOutcome(local[t])))
    BY <2>1, <2>2, EvFields DEF Follows, Stages
  <2> QED BY <1>23, <1>a, <2>k, <2>3, AppendEvidenceSerial, KnowsNothing
          DEF Undecided, Knowing
<1>24. CASE RecordHealth(t)
  <2>k. ViewKept
    BY <1>24 DEF RecordHealth, journal, ViewKept
  <2> DEFINE v == latest["VALIDATOR_SNAPSHOT"]
             e == [event |-> "VALIDATOR_HEALTH_SNAPSHOT", head |-> v.head,
                   note |-> HealthOf(v.note), source |-> v.source]
  <2>1. Return(t) \/ AppendEvidence(t, e, "idle", NoLocals)
    BY <1>24 DEF RecordHealth
  <2>2. e.event \notin Stages \cup {"OUTCOME"}
    BY DEF Stages
  <2> HIDE DEF e
  <2> QED BY <1>a, <2>k, <2>1, <2>2, ReturnSerial, PlainEvidenceSerial, KnowsNothing DEF Knowing
<1>25. CASE ReviewBranch(t)
  <2>k. ViewKept
    BY <1>25 DEF ReviewBranch, journal, ViewKept
  <2> QED BY <1>25, <1>a, <2>k, GotoSerial, ReturnSerial, KnowsNothing DEF ReviewBranch, At, Knowing
<1>26. CASE ReviewCompare(t)
  <2>k. ViewKept
    BY <1>26 DEF ReviewCompare, journal, ViewKept
  <2> QED BY <1>26, <1>a, <2>k, PlainEvidenceSerial, ReturnSerial, KnowsNothing, EvFields DEF ReviewCompare, Stages, Knowing
<1>27. CASE AckBranch(t)
  <2>k. ViewKept
    BY <1>27 DEF AckBranch, journal, ViewKept
  <2> QED BY <1>27, <1>a, <2>k, PlainEvidenceSerial, ReturnSerial, KnowsNothing, EvFields DEF AckBranch, Stages, Knowing
<1>28. CASE PrBranch(t)
  <2>k. ViewKept
    BY <1>28 DEF PrBranch, journal, ViewKept
  <2> QED BY <1>28, <1>a, <2>k, GotoSerial, ReturnSerial, KnowsNothing DEF PrBranch, At, Knowing
<1>29. CASE PrCreate(t)
  <2>k. ViewKept
    BY <1>29 DEF PrCreate, journal, ViewKept
  <2> QED BY <1>29, <1>a, <2>k, GotoSerial, ReturnSerial, KnowsNothing DEF PrCreate, At, Knowing
<1>30. CASE PrCreateUnanswered(t)
  <2>k. ViewKept
    BY <1>30 DEF PrCreateUnanswered, journal, ViewKept
  <2> QED BY <1>30, <1>a, <2>k, ReturnSerial DEF PrCreateUnanswered
<1>31. CASE PrReadBack(t)
  <2>k. ViewKept
    BY <1>31 DEF PrReadBack, journal, ViewKept
  <2>1. \/ Return(t)
        \/ AppendStage(t, Ev("PR_OPENED", branch, ""), "pr_snapshot", local[t])
    BY <1>31 DEF PrReadBack
  <2>2. Knows("pr_snapshot", local[t], "PR_OPENED")
    BY KnowsNothing DEF Knowing
  <2> QED BY <1>a, <2>k, <2>1, <2>2, AppendStageSerial, ReturnSerial DEF Stages
<1>32. CASE PrSnapshot(t)
  <2>k. ViewKept
    BY <1>32 DEF PrSnapshot, journal, ViewKept
  <2> QED BY <1>32, <1>a, <2>k, PlainEvidenceSerial, ReturnSerial, KnowsNothing, EvFields DEF PrSnapshot, Stages, Knowing
<1>33. CASE PrReview(t)
  <2>k. ViewKept
    BY <1>33 DEF PrReview, journal, ViewKept
  <2> QED BY <1>33, <1>a, <2>k, PlainEvidenceSerial, ReturnSerial, KnowsNothing, EvFields DEF PrReview, Stages, Knowing
<1>34. CASE GitHubRaises(t)
  <2>k. ViewKept
    BY <1>34 DEF GitHubRaises, journal, ViewKept
  <2> QED BY <1>34, <1>a, <2>k, ReturnSerial DEF GitHubRaises
<1> QED
  BY <1>1, <1>2, <1>3, <1>4, <1>5, <1>6, <1>7, <1>8, <1>9, <1>10,
     <1>11, <1>12, <1>13, <1>14, <1>15, <1>16, <1>17, <1>18, <1>19, <1>20,
     <1>21, <1>22, <1>23, <1>24, <1>25, <1>26, <1>27, <1>28, <1>29, <1>30,
     <1>31, <1>32, <1>33, <1>34 DEF Step

LEMMA NextSerial ==
    ASSUME Serial, TypeOK, SerialInv, [Next]_vars
    PROVE  SerialInv'
<1>1. CASE \E t \in Threads : Request(t) \/ Step(t)
  BY <1>1, RequestSerial, StepSerial
<1>2. CASE PushByOthers
  BY <1>2, IdleSerial DEF PushByOthers
<1>3. CASE Expire
  BY <1>3, IdleSerial DEF Expire
<1>4. CASE Restart
  <2>1. stage' = stage /\ outcome' = outcome
    BY <1>4 DEF Restart, journal
  <2>2. \A t \in Threads : pc'[t] = "idle" /\ pending'[t] = NoEvent
    BY <1>4 DEF Restart
  <2>3. \A t \in Threads : SerialOK(t)'
    BY <2>2, NothingFollows, KnowsNothing DEF SerialOK, Knowing
  <2> QED BY <2>1, <2>3 DEF SerialInv, OutcomeMatchesStage
<1>5. CASE UNCHANGED vars
  BY <1>5, IdleSerial DEF vars
<1> QED BY <1>1, <1>2, <1>3, <1>4, <1>5 DEF Next

LEMMA InitSerial == Init => SerialInv
<1> SUFFICES ASSUME Init PROVE SerialInv
  OBVIOUS
<1>1. \A t \in Threads : SerialOK(t)
  BY NothingFollows, KnowsNothing DEF Init, SerialOK, Knowing
<1> QED BY <1>1 DEF Init, SerialInv, OutcomeMatchesStage

LEMMA SerialAlways ==
    ASSUME Serial
    PROVE  Spec => []SerialInv
BY TypeCorrect, InitSerial, NextSerial, PTL DEF Spec

\* When requests are handled one at a time, the outcome a view folds to agrees
\* with the stage in every state of every handler (task_view, append_stage and
\* _fail), whatever crashes, raises or is pushed meanwhile.
THEOREM SerialOutcome ==
    ASSUME Serial
    PROVE  Spec => []OutcomeMatchesStage
<1>1. SerialInv => OutcomeMatchesStage
  BY DEF SerialInv
<1> QED BY <1>1, SerialAlways, PTL

\* Only a record that joins the list moves a task.
LEMMA StageMoves ==
    ASSUME Next, stage' # stage
    PROVE  \E t \in Threads : Recorded(t)
<1>1. CASE \E t \in Threads : Request(t)
  BY <1>1 DEF Request, Preview, RunPreviewed, RunBranchCreated, RunResumed, Refresh,
       RefreshSettled, ReviewBundle, Acknowledge, OpenPullRequest, OpenAgain,
       RefreshPrReview, journal
<1>2. CASE \E t \in Threads : Step(t)
  <2>1. PICK t \in Threads : Step(t)
    BY <1>2
  <2>2. ~Recorded(t) => UNCHANGED journal
    BY <2>1 DEF Step, CreateBranch, CreateBranchUnanswered, BeginAgent, AgentWrites,
         AgentCompletes, AgentFails, BindHead, BindCommit, BindFails, AwaitCi, Fail,
         FailOutcome, RefreshBranch, RefreshCi, RefreshValidators, DecideVerified,
         DecideFailed, ReviewCi, ReviewValidators, Verify, VerifiedOutcome, Undecided,
         RecordHealth, ReviewBranch, ReviewCompare, AckBranch, PrBranch, PrCreate,
         PrCreateUnanswered, PrReadBack, PrSnapshot, PrReview, GitHubRaises
  <2> QED BY <2>2 DEF journal
<1>3. CASE PushByOthers \/ Expire \/ Restart
  BY <1>3 DEF PushByOthers, Expire, Restart, journal
<1> QED BY <1>1, <1>2, <1>3 DEF Next

\* No answer that arrives late gives a failed task another outcome, if requests
\* are handled one at a time, and no stage follows FAILED (append_stage): FAILED
\* is terminal, through crashes, resumed runs and refreshes.
THEOREM SerialFailed ==
    ASSUME Serial
    PROVE  Spec => FailedIsTerminal /\ [][stage = "FAILED" => stage' = "FAILED"]_vars
<1>1. OutcomeMatchesStage' =>
         [stage = "FAILED" /\ stage' = "FAILED" /\ outcome = "FAILED"
             => outcome' = "FAILED"]_vars
  BY DEF OutcomeMatchesStage
<1>2. ASSUME TypeOK, SerialInv, [Next]_vars
      PROVE  [stage = "FAILED" => stage' = "FAILED"]_vars
  <2> SUFFICES ASSUME Next, stage = "FAILED", stage' # stage PROVE FALSE
    BY <1>2 DEF vars, journal
  <2>1. PICK t \in Threads : Recorded(t)
    BY StageMoves
  <2>2. pending[t] \in Event /\ Follows(stage, pending[t])
    BY <1>2 DEF TypeOK, SerialInv, SerialOK
  <2>3. stage' = Becomes(stage, pending[t])
    BY <2>1, <2>2 DEF Recorded, Fold, Becomes, Event
  <2>4. pending[t].event \in Allowed("FAILED")
    BY <2>2, <2>3 DEF Follows, Becomes
  <2> QED BY <2>4 DEF Allowed
<1> QED BY <1>1, <1>2, SerialOutcome, SerialAlways, TypeCorrect, PTL DEF Spec, FailedIsTerminal

-----------------------------------------------------------------------------
(* The head.  While requests are handled one at a time a task is bound to   *)
(* one commit, and every verdict the view shows is about it.                *)

\* head is the one the task is bound to.
IsBound(head) == Commit # NoEvent /\ head = Commit.head

Unbound == {"NONE", "PREVIEWED", "BRANCH_CREATED", "AGENT_RUNNING", "AGENT_COMPLETED"}

BoundStages == CiStages \cup {"COMMIT_BOUND", "PR_OPENED"}

Snapshots == {"VALIDATOR_SNAPSHOT", "VALIDATOR_HEALTH_SNAPSHOT"}

\* What is on record.
HeadView ==
    /\ stage \in Unbound => Commit = NoEvent
    /\ stage \in BoundStages => Commit # NoEvent
    /\ Commit # NoEvent => Commit.head \in 1 .. commits
    /\ \A v \in recorded : v.event = "VERIFIED_SUCCESS" =>
           IsBound(v.head) /\ v = Ev("VERIFIED_SUCCESS", v.head, "")
    /\ \A k \in Snapshots : latest[k] # NoEvent => IsBound(latest[k].head)
    /\ opened # {} => VerifiedHead(recorded, Commit.head)
    /\ PullHeadVerified

\* What is about to be recorded.
HeadPending(e) ==
    /\ e.event = "COMMIT_BOUND" => e.head \in 1 .. commits
    /\ e.event = "VERIFIED_SUCCESS" => IsBound(e.head) /\ e.note = ""
    /\ e.event \in Snapshots => IsBound(e.head)
    /\ e.event \in PullKinds => VerifiedHead(recorded, e.head)

\* Where a handler is about the pull request of a head.
PullLabels == {"pr_branch", "pr_create", "pr_readback", "pr_snapshot", "pr_review"}

\* What a handler carries.
HeadPoint(p, l) ==
    /\ p = "compare" => l.head \in 1 .. commits
    /\ p \in {"refresh_branch", "refresh_ci", "validate", "decide"} => IsBound(l.head)
    /\ p \in PullLabels => VerifiedHead(recorded, l.head)

HeadLabels == {"compare", "refresh_branch", "refresh_ci", "validate", "decide",
               "pr_branch", "pr_create", "pr_readback", "pr_snapshot", "pr_review"}

HeadEvents == {"COMMIT_BOUND", "VERIFIED_SUCCESS", "VALIDATOR_SNAPSHOT",
               "VALIDATOR_HEALTH_SNAPSHOT", "PR_OPENED", "PR_REVIEW_SNAPSHOT"}

HeadOK(t) == HeadPending(pending[t]) /\ HeadPoint(pc[t], local[t])

HeadInv == HeadView /\ \A t \in Threads : HeadOK(t)

LEMMA PlainHeadPoint ==
    ASSUME NEW p, NEW l, p \notin HeadLabels
    PROVE  HeadPoint(p, l)
BY DEF HeadPoint, HeadLabels, PullLabels

LEMMA PlainHeadEvent ==
    ASSUME NEW e, e.event \notin HeadEvents
    PROVE  HeadPending(e)
BY DEF HeadPending, HeadEvents, Snapshots, PullKinds

LEMMA NoHeadEvent == HeadPending(NoEvent)
BY PlainHeadEvent DEF NoEvent, HeadEvents

\* The view stays as it is, GitHub makes commits only.
HeadsKept == UNCHANGED <<stage, latest, recorded, commits, opened>>

\* What is on record about a head stays there.
LEMMA VerifiedHeadStays ==
    ASSUME NEW log, NEW more, log \subseteq more, NEW h, VerifiedHead(log, h)
    PROVE  VerifiedHead(more, h)
BY DEF VerifiedHead

\* Only the head a task is bound to can be a verified one.
LEMMA VerifiedIsBound ==
    ASSUME HeadView, NEW h, VerifiedHead(recorded, h)
    PROVE  IsBound(h)
<1>1. Ev("VERIFIED_SUCCESS", h, "") \in recorded
  BY DEF VerifiedHead
<1> DEFINE v == Ev("VERIFIED_SUCCESS", h, "")
<1>2. v.event = "VERIFIED_SUCCESS" /\ v.head = h
  BY DEF Ev
<1>3. v \in recorded
  BY <1>1
<1> HIDE DEF v
<1>4. IsBound(v.head)
  BY <1>2, <1>3 DEF HeadView
<1> QED BY <1>2, <1>4

LEMMA OnlyThreadHeads ==
    ASSUME Serial, HeadInv, HeadsKept, NEW t \in Threads,
           HeadPending(pending'[t]), HeadPoint(pc'[t], local'[t])
    PROVE  HeadInv'
<1>1. HeadOK(t)'
  BY DEF HeadsKept, HeadOK, HeadPending, HeadPoint, IsBound, Commit
<1>2. HeadView'
  BY DEF HeadInv, HeadsKept, HeadView, PullHeadVerified, IsBound, Commit
<1>3. \A u \in Threads : u = t
  BY DEF Serial
<1> QED BY <1>1, <1>2, <1>3 DEF HeadInv

LEMMA ReturnHeads ==
    ASSUME Serial, ThreadsOK, HeadInv, HeadsKept, NEW t \in Threads, Return(t)
    PROVE  HeadInv'
<1>1. pc'[t] = "idle" /\ pending'[t] = pending[t]
  BY DEF Return, ThreadsOK
<1>2. HeadPending(pending'[t])
  BY <1>1 DEF HeadInv, HeadOK
<1>3. HeadPoint(pc'[t], local'[t])
  BY <1>1, PlainHeadPoint DEF HeadLabels
<1> QED BY <1>2, <1>3, OnlyThreadHeads

LEMMA GotoHeads ==
    ASSUME Serial, ThreadsOK, HeadInv, HeadsKept, NEW t \in Threads, NEW label, NEW l,
           Goto(t, label, l), HeadPoint(label, l)
    PROVE  HeadInv'
<1>1. pc'[t] = label /\ local'[t] = l /\ pending'[t] = pending[t]
  BY DEF Goto, ThreadsOK
<1>2. HeadPending(pending'[t])
  BY <1>1 DEF HeadInv, HeadOK
<1> QED BY <1>1, <1>2, OnlyThreadHeads

LEMMA AppendEvidenceHeads ==
    ASSUME Serial, ThreadsOK, HeadInv, HeadsKept, NEW t \in Threads, NEW label, NEW l,
           NEW e, AppendEvidence(t, e, label, l), HeadPending(e), HeadPoint(label, l)
    PROVE  HeadInv'
<1>1. pc'[t] = label /\ local'[t] = l /\ pending'[t] = e
  BY DEF AppendEvidence, ThreadsOK
<1> QED BY <1>1, OnlyThreadHeads

LEMMA AppendStageHeads ==
    ASSUME Serial, ThreadsOK, HeadInv, HeadsKept, NEW t \in Threads, NEW label, NEW l,
           NEW e, AppendStage(t, e, label, l), HeadPending(e), HeadPoint(label, l)
    PROVE  HeadInv'
BY ReturnHeads, AppendEvidenceHeads DEF AppendStage

\* Neither an event about a head nor a place that carries one.
LEMMA PlainAppendHeads ==
    ASSUME Serial, ThreadsOK, HeadInv, HeadsKept, NEW t \in Threads, NEW label, NEW l,
           NEW e, AppendEvidence(t, e, label, l) \/ AppendStage(t, e, label, l) \/ Return(t),
           e.event \notin HeadEvents, label \notin HeadLabels
    PROVE  HeadInv'
<1>1. HeadPending(e) /\ HeadPoint(label, l)
  BY PlainHeadEvent, PlainHeadPoint
<1> QED BY <1>1, ReturnHeads, AppendEvidenceHeads, AppendStageHeads

\* Others may make commits.
LEMMA CommitsHeads ==
    ASSUME TypeOK, HeadInv, UNCHANGED <<journal, threads, opened>>,
           commits' \in Nat, commits' >= commits
    PROVE  HeadInv'
<1>1. 1 .. commits \subseteq 1 .. commits'
  BY DEF TypeOK
<1>3. HeadView'
  BY <1>1 DEF HeadInv, HeadView, PullHeadVerified, IsBound, Commit, journal
<1>4. ASSUME NEW t \in Threads PROVE HeadOK(t)'
  BY <1>1 DEF HeadInv, HeadOK, HeadPending, HeadPoint, IsBound, Commit, journal, threads
<1> QED BY <1>3, <1>4 DEF HeadInv

\* A commit is bound once: before that nothing on record or under way is about
\* a head, and afterwards all of it is about this one.
LEMMA RecordedHeads ==
    ASSUME Serial, TypeOK, SerialInv, HeadInv, NEW t \in Threads, Recorded(t)
    PROVE  HeadInv'
<1> DEFINE p == pending[t]
           e == IF p.event = "VALIDATOR_SNAPSHOT"
                  THEN [p EXCEPT !.source = snapshots + 1] ELSE p
<1>1. /\ e \in Event /\ e.event = p.event /\ e.head = p.head /\ e.note = p.note
      /\ p # NoEvent /\ p \in Event
  BY DEF Event, TypeOK, Recorded
<1>2. /\ Fold(e)
      /\ pc' = pc /\ local' = local /\ opened' = opened /\ commits' = commits
      /\ pending'[t] = NoEvent
  BY DEF Recorded, github, TypeOK
<1>3. HeadPending(p) /\ HeadPoint(pc[t], local[t]) /\ HeadView
  BY DEF HeadInv, HeadOK
<1>4. Follows(stage, p) /\ Knows(pc[t], local[t], Becomes(stage, p))
  BY DEF SerialInv, SerialOK
<1>5. stage' = Becomes(stage, p)
  BY <1>1, <1>2 DEF Fold, Becomes
<1> HIDE DEF e
<1>6. /\ \A k \in Kinds : latest'[k] = IF e.event = k THEN e ELSE latest[k]
      /\ recorded \subseteq recorded'
      /\ recorded' \subseteq recorded \cup {Ev(e.event, e.head, e.note)}
  BY <1>2 DEF Fold, TypeOK
<1>7. \A h : VerifiedHead(recorded, h) => VerifiedHead(recorded', h)
  BY <1>6, VerifiedHeadStays
<1>p. PullHeadVerified'
  <2> SUFFICES ASSUME NEW k \in PullKinds, latest'[k] # NoEvent
               PROVE  VerifiedHead(recorded', latest'[k].head)
    BY DEF PullHeadVerified
  <2>1. k \in Kinds
    BY DEF PullKinds, Kinds
  <2>2. CASE e.event = k
    BY <2>1, <2>2, <1>1, <1>3, <1>6, <1>7 DEF HeadPending
  <2>3. CASE e.event # k
    BY <2>1, <2>3, <1>3, <1>6, <1>7 DEF HeadView, PullHeadVerified
  <2> QED BY <2>2, <2>3
<1>8. stage \in Stages \cup {"NONE"}
  BY DEF TypeOK
<1>9. HeadPending(pending[t])'
  <2>1. NoEvent.event = "NONE"
    BY DEF NoEvent
  <2> QED BY <2>1, <1>2 DEF HeadPending, Snapshots, PullKinds
<1>10. \A u \in Threads : u = t
  BY DEF Serial
<1>a. CASE p.event = "COMMIT_BOUND"
  <2>1. stage = "AGENT_COMPLETED" /\ Commit = NoEvent /\ stage' = "COMMIT_BOUND"
    BY <1>a, <1>3, <1>4, <1>5, <1>8
       DEF Follows, Becomes, Stages, Allowed, HeadView, Unbound
  <2>2. Commit' = e /\ e.head \in 1 .. commits
    BY <1>a, <1>1, <1>3, <1>6 DEF HeadPending, Commit, Kinds
  <2>3. e # NoEvent
    <3>1. NoEvent.event = "NONE"
      BY DEF NoEvent
    <3> QED BY <3>1, <1>1, <1>a
  <2>4. \A v \in recorded' : v.event # "VERIFIED_SUCCESS"
    <3>1. \A v \in recorded : v.event # "VERIFIED_SUCCESS"
      BY <2>1, <1>3 DEF HeadView, IsBound
    <3>2. Ev(e.event, e.head, e.note).event # "VERIFIED_SUCCESS"
      BY <1>1, <1>a, EvFields
    <3> QED BY <3>1, <3>2, <1>6
  <2>5. \A k \in Snapshots : latest'[k] = NoEvent
    BY <1>1, <1>a, <1>6, <1>3, <2>1 DEF HeadView, IsBound, Snapshots, Kinds
  <2>o. opened = {} /\ \A h : ~VerifiedHead(recorded, h)
    <3>1. \A h : ~VerifiedHead(recorded, h)
      BY <2>1, <1>3, VerifiedIsBound DEF IsBound
    <3> QED BY <3>1, <1>3 DEF HeadView
  <2>6. HeadView'
    BY <2>1, <2>2, <2>3, <2>4, <2>5, <2>o, <1>2, <1>p
       DEF HeadView, Unbound, BoundStages, CiStages
  <2>7. HeadPoint(pc[t], local[t])'
    <3>1. pc[t] \notin {"refresh_branch", "refresh_ci", "validate", "decide"}
      BY <1>4, <1>5, <2>1 DEF Knows, CiStages
    <3> QED BY <3>1, <2>o, <1>2, <1>3 DEF HeadPoint
  <2> QED BY <2>6, <2>7, <1>9, <1>10 DEF HeadInv, HeadOK
<1>b. CASE p.event # "COMMIT_BOUND"
  <2>1. Commit' = Commit
    BY <1>b, <1>1, <1>6 DEF Commit, Kinds
  <2>2. \A h : IsBound(h) <=> IsBound(h)'
    BY <2>1 DEF IsBound
  <2>3. /\ stage' \in Unbound => Commit = NoEvent
        /\ stage' \in BoundStages => Commit # NoEvent
    <3>1. CASE p.event \in Stages
      <4>1. stage' = p.event /\ p.event \in Allowed(stage)
        BY <3>1, <1>4, <1>5 DEF Follows, Becomes
      <4>2. stage' \in Unbound => stage \in Unbound
        BY <4>1, <1>8 DEF Allowed, Unbound, Stages
      <4>3. stage' \in BoundStages => stage \in BoundStages
        BY <4>1, <1>8, <1>b DEF Allowed, BoundStages, CiStages, Stages
      <4> QED BY <4>2, <4>3, <1>3 DEF HeadView
    <3>2. CASE p.event \notin Stages
      BY <3>2, <1>5, <1>3 DEF Becomes, HeadView
    <3> QED BY <3>1, <3>2
  <2>4. ASSUME NEW v \in recorded', v.event = "VERIFIED_SUCCESS"
        PROVE  IsBound(v.head) /\ v = Ev("VERIFIED_SUCCESS", v.head, "")
    <3>1. CASE v \in recorded
      BY <3>1, <2>4, <1>3 DEF HeadView
    <3>2. CASE v = Ev(e.event, e.head, e.note)
      <4>1. v.head = e.head /\ e.event = "VERIFIED_SUCCESS"
        BY <3>2, <2>4 DEF Ev
      <4> QED BY <4>1, <3>2, <1>1, <1>3 DEF HeadPending
    <3> QED BY <3>1, <3>2, <1>6
  <2>5. ASSUME NEW k \in Snapshots, latest'[k] # NoEvent
        PROVE  IsBound(latest'[k].head)
    <3>1. k \in Kinds
      BY DEF Snapshots, Kinds
    <3>2. CASE e.event = k
      BY <3>1, <3>2, <1>1, <1>3, <1>6 DEF HeadPending
    <3>3. CASE e.event # k
      BY <3>1, <3>3, <2>5, <1>3, <1>6 DEF HeadView
    <3> QED BY <3>2, <3>3
  <2>6. HeadView'
    BY <2>1, <2>2, <2>3, <2>4, <2>5, <1>2, <1>3, <1>7, <1>p DEF HeadView
  <2>7. HeadPoint(pc[t], local[t])'
    BY <2>2, <1>2, <1>3, <1>7 DEF HeadPoint
  <2> QED BY <2>6, <2>7, <1>9, <1>10 DEF HeadInv, HeadOK
<1> QED BY <1>a, <1>b

\* The gates are open only for the head the task is bound to.
LEMMA GatesHeads ==
    ASSUME TypeOK, EvidenceInv, HeadInv, OpenGates
    PROVE  VerifiedHead(recorded, Commit.head)
<1>1. /\ Commit # NoEvent /\ Review.note \in CompleteDigests
      /\ Health.note = "HEALTHY"
  BY DEF OpenGates, Complete, FreshHealthy
<1>2. PICK v \in recorded : v.event = "VERIFIED_SUCCESS"
  BY DEF EvidenceInv, OutcomeRecorded, SomeVerified, OpenGates
<1>3. Ev("VERIFIED_SUCCESS", Commit.head, "") \in recorded /\ Commit.head \in 1 .. commits
  BY <1>1, <1>2 DEF HeadInv, HeadView, IsBound
<1>4. Health # NoEvent
  <2>1. NoEvent.note = ""
    BY DEF NoEvent
  <2> QED BY <1>1, <2>1
<1>5. Health.head = Commit.head
  BY <1>4 DEF HeadInv, HeadView, IsBound, Snapshots, Health
<1> QED BY <1>1, <1>3, <1>5, GatesRecorded DEF VerifiedHead

\* A pull request is opened by a handler that carries the evidence.
LEMMA OpenedHeads ==
    ASSUME Serial, HeadInv, UNCHANGED <<stage, latest, recorded, commits>>,
           NEW t \in Threads, VerifiedHead(recorded, local[t].head),
           pending'[t] = pending[t],
           \/ pc'[t] = "idle"
           \/ pc'[t] = "pr_readback" /\ local'[t] = local[t]
    PROVE  HeadInv'
<1>1. local[t].head = Commit.head
  BY VerifiedIsBound DEF HeadInv, IsBound
<1>2. HeadView'
  BY <1>1 DEF HeadInv, HeadView, PullHeadVerified, IsBound, Commit
<1>3. HeadPending(pending[t])'
  BY DEF HeadInv, HeadOK, HeadPending, IsBound, Commit
<1>4. HeadPoint(pc[t], local[t])'
  BY DEF HeadPoint, PullLabels
<1>5. \A u \in Threads : u = t
  BY DEF Serial
<1> QED BY <1>2, <1>3, <1>4, <1>5 DEF HeadInv, HeadOK

LEMMA RequestHeads ==
    ASSUME Serial, TypeOK, EvidenceInv, HeadInv, NEW t \in Threads, Request(t)
    PROVE  HeadInv'
<1>a. ThreadsOK
  BY DEF TypeOK, ThreadsOK
<1>1. CASE Preview(t)
  <2>k. HeadsKept
    BY <1>1 DEF Preview, journal, github, HeadsKept
  <2>1. CASE stage = "NONE"
    <3> DEFINE e == Ev("PREVIEWED", 0, "")
    <3>1. e.event \notin HeadEvents /\ "idle" \notin HeadLabels
      BY DEF Ev, HeadEvents, HeadLabels
    <3>2. AppendStage(t, e, "idle", NoLocals)
      BY <1>1, <2>1 DEF Preview
    <3> HIDE DEF e
    <3> QED BY <1>a, <2>k, <3>1, <3>2, PlainAppendHeads
  <2>2. CASE stage # "NONE"
    <3>1. UNCHANGED threads
      BY <1>1, <2>2 DEF Preview
    <3>2. pending'[t] = pending[t] /\ pc'[t] = pc[t] /\ local'[t] = local[t]
      BY <3>1 DEF threads
    <3> QED BY <2>k, <3>2, OnlyThreadHeads DEF HeadInv, HeadOK
  <2> QED BY <2>1, <2>2
<1>2. CASE RunPreviewed(t)
  <2>k. HeadsKept
    BY <1>2 DEF RunPreviewed, journal, github, HeadsKept
  <2> QED BY <1>2, <1>a, <2>k, GotoHeads, ReturnHeads, PlainHeadPoint DEF RunPreviewed, HeadLabels
<1>3. CASE RunBranchCreated(t)
  <2>k. HeadsKept
    BY <1>3 DEF RunBranchCreated, journal, github, HeadsKept
  <2> DEFINE e == Ev("AGENT_RUNNING", 0, "")
             l == NoLocals
  <2>1. e.event \notin HeadEvents /\ "agent" \notin HeadLabels
    BY DEF Ev, HeadEvents, HeadLabels
  <2>2. AppendStage(t, e, "agent", l)
    BY <1>3 DEF RunBranchCreated
  <2> HIDE DEF e, l
  <2> QED BY <1>a, <2>k, <2>1, <2>2, PlainAppendHeads
<1>4. CASE RunResumed(t)
  <2>k. HeadsKept
    BY <1>4 DEF RunResumed, journal, github, HeadsKept
  <2> DEFINE e == Ev("RESUME_REQUESTED", 0, "")
             l == NoLocals
  <2>1. e.event \notin HeadEvents /\ "agent" \notin HeadLabels
    BY DEF Ev, HeadEvents, HeadLabels
  <2>2. AppendEvidence(t, e, "agent", l)
    BY <1>4 DEF RunResumed
  <2> HIDE DEF e, l
  <2> QED BY <1>a, <2>k, <2>1, <2>2, PlainAppendHeads
<1>5. CASE Refresh(t)
  <2>k. HeadsKept
    BY <1>5 DEF Refresh, journal, github, HeadsKept
  <2> DEFINE l == [NoLocals EXCEPT !.from = stage, !.head = Commit.head, !.then = "health"]
  <2>1. l.head = Commit.head
    BY DEF NoLocals
  <2>2. Commit # NoEvent
    BY <1>5 DEF Refresh, HeadInv, HeadView, BoundStages
  <2>3. HeadPoint("refresh_branch", l)
    BY <2>1, <2>2 DEF HeadPoint, PullLabels, IsBound
  <2>4. Goto(t, "refresh_branch", l)
    BY <1>5 DEF Refresh
  <2> HIDE DEF l
  <2> QED BY <1>a, <2>k, <2>3, <2>4, GotoHeads
<1>6. CASE RefreshSettled(t)
  <2>k. HeadsKept
    BY <1>6 DEF RefreshSettled, journal, github, HeadsKept
  <2> QED BY <1>6, <1>a, <2>k, GotoHeads, ReturnHeads, PlainHeadPoint DEF RefreshSettled, HeadLabels
<1>7. CASE ReviewBundle(t)
  <2>k. HeadsKept
    BY <1>7 DEF ReviewBundle, journal, github, HeadsKept
  <2> QED BY <1>7, <1>a, <2>k, GotoHeads, ReturnHeads, PlainHeadPoint DEF ReviewBundle, HeadLabels
<1>8. CASE Acknowledge(t)
  <2>k. HeadsKept
    BY <1>8 DEF Acknowledge, journal, github, HeadsKept
  <2> QED BY <1>8, <1>a, <2>k, GotoHeads, ReturnHeads, PlainHeadPoint DEF Acknowledge, HeadLabels
<1>9. CASE OpenPullRequest(t)
  <2>k. HeadsKept
    BY <1>9 DEF OpenPullRequest, journal, github, HeadsKept
  <2> DEFINE l == [NoLocals EXCEPT !.head = Commit.head]
  <2>1. l.head = Commit.head /\ VerifiedHead(recorded, Commit.head)
    BY <1>9, GatesHeads DEF OpenPullRequest, NoLocals
  <2>2. HeadPoint("pr_branch", l)
    BY <2>1 DEF HeadPoint, PullLabels
  <2>3. Goto(t, "pr_branch", l)
    BY <1>9 DEF OpenPullRequest
  <2> HIDE DEF l
  <2> QED BY <1>a, <2>k, <2>2, <2>3, GotoHeads
<1>10. CASE OpenAgain(t)
  <2>k. HeadsKept
    BY <1>10 DEF OpenAgain, journal, github, HeadsKept
  <2> DEFINE l == [NoLocals EXCEPT !.head = Commit.head]
  <2>1. l.head = Commit.head /\ VerifiedHead(recorded, Commit.head)
    BY <1>10, GatesHeads DEF OpenAgain, NoLocals
  <2>2. HeadPoint("pr_snapshot", l)
    BY <2>1 DEF HeadPoint, PullLabels
  <2>3. Goto(t, "pr_snapshot", l)
    BY <1>10 DEF OpenAgain
  <2> HIDE DEF l
  <2> QED BY <1>a, <2>k, <2>2, <2>3, GotoHeads
<1>11. CASE RefreshPrReview(t)
  <2>k. HeadsKept
    BY <1>11 DEF RefreshPrReview, journal, github, HeadsKept
  <2> DEFINE l == [NoLocals EXCEPT !.head = Commit.head,
                                   !.seen = latest["PR_REVIEW_SNAPSHOT"]]
  <2>1. l.head = Commit.head /\ latest["PR_OPENED"] # NoEvent
    BY <1>11 DEF RefreshPrReview, NoLocals
  <2>2. VerifiedHead(recorded, latest["PR_OPENED"].head)
    BY <2>1 DEF HeadInv, HeadView, PullHeadVerified, PullKinds
  <2>3. latest["PR_OPENED"].head = Commit.head
    BY <2>2, VerifiedIsBound DEF HeadInv, IsBound
  <2>4. HeadPoint("pr_review", l)
    BY <2>1, <2>2, <2>3 DEF HeadPoint, PullLabels
  <2>5. Goto(t, "pr_review", l)
    BY <1>11 DEF RefreshPrReview
  <2> HIDE DEF l
  <2> QED BY <1>a, <2>k, <2>4, <2>5, GotoHeads
<1> QED BY <1>1, <1>2, <1>3, <1>4, <1>5, <1>6, <1>7, <1>8, <1>9, <1>10, <1>11 DEF Request

LEMMA StepHeads ==
    ASSUME Serial, TypeOK, SerialInv, HeadInv, NEW t \in Threads, Step(t)
    PROVE  HeadInv'
<1>a. ThreadsOK /\ local[t] \in Locals
  BY DEF TypeOK, ThreadsOK
<1>b. HeadPoint(pc[t], local[t])
  BY DEF HeadInv, HeadOK
<1>1. CASE Recorded(t)
  BY <1>1, RecordedHeads
<1>2. CASE CreateBranch(t)
  <2>k. HeadsKept
    BY <1>2 DEF CreateBranch, journal, github, HeadsKept
  <2> DEFINE e == Ev("BRANCH_CREATED", 0, "")
  <2>1. e.event \notin HeadEvents /\ "begin_agent" \notin HeadLabels
    BY DEF Ev, HeadEvents, HeadLabels
  <2>2. Return(t) \/ AppendStage(t, e, "begin_agent", NoLocals)
    BY <1>2 DEF CreateBranch
  <2> HIDE DEF e
  <2> QED BY <1>a, <2>k, <2>1, <2>2, PlainAppendHeads
<1>3. CASE CreateBranchUnanswered(t)
  <2>k. HeadsKept
    BY <1>3 DEF CreateBranchUnanswered, journal, github, HeadsKept
  <2> QED BY <1>3, <1>a, <2>k, ReturnHeads DEF CreateBranchUnanswered
<1>4. CASE BeginAgent(t)
  <2>k. HeadsKept
    BY <1>4 DEF BeginAgent, journal, github, HeadsKept
  <2> DEFINE e == Ev("AGENT_RUNNING", 0, "")
             l == NoLocals
  <2>1. e.event \notin HeadEvents /\ "agent" \notin HeadLabels
    BY DEF Ev, HeadEvents, HeadLabels
  <2>2. AppendStage(t, e, "agent", l)
    BY <1>4 DEF BeginAgent
  <2> HIDE DEF e, l
  <2> QED BY <1>a, <2>k, <2>1, <2>2, PlainAppendHeads
<1>5. CASE AgentWrites(t)
  <2>1. commits' \in Nat /\ commits' >= commits
    BY <1>5 DEF AgentWrites, TypeOK
  <2> QED BY <1>5, <2>1, CommitsHeads DEF AgentWrites
<1>6. CASE AgentCompletes(t)
  <2>k. HeadsKept
    BY <1>6 DEF AgentCompletes, journal, github, HeadsKept
  <2> DEFINE e == Ev("AGENT_COMPLETED", 0, "")
             l == NoLocals
  <2>1. e.event \notin HeadEvents /\ "bind" \notin HeadLabels
    BY DEF Ev, HeadEvents, HeadLabels
  <2>2. AppendStage(t, e, "bind", l)
    BY <1>6 DEF AgentCompletes
  <2> HIDE DEF e, l
  <2> QED BY <1>a, <2>k, <2>1, <2>2, PlainAppendHeads
<1>7. CASE AgentFails(t)
  <2>k. HeadsKept
    BY <1>7 DEF AgentFails, journal, github, HeadsKept
  <2> QED BY <1>7, <1>a, <2>k, GotoHeads, ReturnHeads, PlainHeadPoint DEF AgentFails, HeadLabels
<1>8. CASE BindHead(t)
  <2>k. HeadsKept
    BY <1>8 DEF BindHead, journal, github, HeadsKept
  <2>1. CASE branch = 0
    BY <1>8, <2>1, <1>a, <2>k, GotoHeads, PlainHeadPoint DEF BindHead, HeadLabels
  <2>2. CASE branch # 0
    <3> DEFINE l == [NoLocals EXCEPT !.head = branch]
    <3>1. l.head \in 1 .. commits
      BY <2>2 DEF NoLocals, TypeOK
    <3>2. HeadPoint("compare", l)
      BY <3>1 DEF HeadPoint, PullLabels
    <3>3. Goto(t, "compare", l)
      BY <1>8, <2>2 DEF BindHead
    <3> HIDE DEF l
    <3> QED BY <1>a, <2>k, <3>2, <3>3, GotoHeads
  <2> QED BY <2>1, <2>2
<1>9. CASE BindCommit(t)
  <2>k. HeadsKept
    BY <1>9 DEF BindCommit, journal, github, HeadsKept
  <2> DEFINE e == Ev("COMMIT_BOUND", local[t].head, "")
  <2>1. local[t].head \in 1 .. commits
    BY <1>9, <1>b DEF BindCommit, At, HeadPoint
  <2>2. HeadPending(e)
    BY <2>1 DEF Ev, HeadPending, Snapshots, PullKinds
  <2>3. AppendStage(t, e, "await_ci", local[t])
    BY <1>9 DEF BindCommit
  <2>4. HeadPoint("await_ci", local[t])
    BY PlainHeadPoint DEF HeadLabels
  <2> HIDE DEF e
  <2> QED BY <1>a, <2>k, <2>2, <2>3, <2>4, AppendStageHeads
<1>10. CASE BindFails(t)
  <2>k. HeadsKept
    BY <1>10 DEF BindFails, journal, github, HeadsKept
  <2> QED BY <1>10, <1>a, <2>k, GotoHeads, ReturnHeads, PlainHeadPoint DEF BindFails, HeadLabels
<1>11. CASE AwaitCi(t)
  <2>k. HeadsKept
    BY <1>11 DEF AwaitCi, journal, github, HeadsKept
  <2> DEFINE e == Ev("CI_PENDING", local[t].head, "")
             l == NoLocals
  <2>1. e.event \notin HeadEvents /\ "idle" \notin HeadLabels
    BY DEF Ev, HeadEvents, HeadLabels
  <2>2. AppendStage(t, e, "idle", l)
    BY <1>11 DEF AwaitCi
  <2> HIDE DEF e, l
  <2> QED BY <1>a, <2>k, <2>1, <2>2, PlainAppendHeads
<1>12. CASE Fail(t)
  <2>k. HeadsKept
    BY <1>12 DEF Fail, journal, github, HeadsKept
  <2> DEFINE name == IF "FAILED" \in Allowed(stage) THEN "FAILED" ELSE "FAILURE"
             e == Ev(name, 0, "")
  <2>1. AppendEvidence(t, e, "fail_outcome", local[t])
    BY <1>12 DEF Fail
  <2>2. name \notin HeadEvents
    BY DEF HeadEvents
  <2>3. e.event \notin HeadEvents /\ "fail_outcome" \notin HeadLabels
    BY <2>2 DEF Ev, HeadLabels
  <2> HIDE DEF e
  <2> QED BY <1>a, <2>k, <2>1, <2>3, PlainAppendHeads
<1>13. CASE FailOutcome(t)
  <2>k. HeadsKept
    BY <1>13 DEF FailOutcome, journal, github, HeadsKept
  <2> DEFINE e == Ev("OUTCOME", 0, "FAILED")
  <2>1. local[t].then \notin HeadLabels
    BY <1>a DEF Locals, HeadLabels
  <2>2. AppendEvidence(t, e, local[t].then, NoLocals)
    BY <1>13 DEF FailOutcome
  <2>3. e.event \notin HeadEvents
    BY DEF Ev, HeadEvents
  <2> HIDE DEF e
  <2> QED BY <1>a, <2>k, <2>1, <2>2, <2>3, PlainAppendHeads
<1>14. CASE RefreshBranch(t)
  <2>k. HeadsKept
    BY <1>14 DEF RefreshBranch, journal, github, HeadsKept
  <2> DEFINE l == [local[t] EXCEPT !.exact = (branch = local[t].head)]
  <2>2. l.head = local[t].head
    BY <1>a DEF Locals
  <2>3. IsBound(local[t].head)
    BY <1>14, <1>b DEF RefreshBranch, At, HeadPoint
  <2>4. HeadPoint("refresh_ci", l)
    BY <2>2, <2>3 DEF HeadPoint, PullLabels
  <2>5. Goto(t, "refresh_ci", l)
    BY <1>14 DEF RefreshBranch
  <2> HIDE DEF l
  <2> QED BY <1>a, <2>k, <2>4, <2>5, GotoHeads
<1>15. CASE RefreshCi(t)
  <2>k. HeadsKept
    BY <1>15 DEF RefreshCi, journal, github, HeadsKept
  <2>1. PICK ci \in CiStates :
            AppendEvidence(t, Ev("CI_SNAPSHOT", local[t].head, ci), "validate",
                           [local[t] EXCEPT !.ci = ci])
    BY <1>15 DEF RefreshCi
  <2> DEFINE l == [local[t] EXCEPT !.ci = ci]
  <2>2. l.head = local[t].head
    BY <1>a DEF Locals
  <2>3. IsBound(local[t].head)
    BY <1>15, <1>b DEF RefreshCi, At, HeadPoint
  <2>4. HeadPoint("validate", l)
    BY <2>2, <2>3 DEF HeadPoint, PullLabels
  <2>5. HeadPending(Ev("CI_SNAPSHOT", local[t].head, ci))
    BY DEF Ev, HeadPending, Snapshots, PullKinds
  <2>6. AppendEvidence(t, Ev("CI_SNAPSHOT", local[t].head, ci), "validate", l)
    BY <2>1
  <2> HIDE DEF l
  <2> QED BY <1>a, <2>k, <2>4, <2>5, <2>6, AppendEvidenceHeads
<1>16. CASE RefreshValidators(t)
  <2>k. HeadsKept
    BY <1>16 DEF RefreshValidators, journal, github, HeadsKept
  <2>1. PICK status :
            AppendEvidence(t, Ev("VALIDATOR_SNAPSHOT", local[t].head, status), "decide",
                           [local[t] EXCEPT !.status = status])
    BY <1>16 DEF RefreshValidators
  <2> DEFINE l == [local[t] EXCEPT !.status = status]
  <2>2. l.head = local[t].head
    BY <1>a DEF Locals
  <2>3. IsBound(local[t].head)
    BY <1>16, <1>b DEF RefreshValidators, At, HeadPoint
  <2>4. HeadPoint("decide", l)
    BY <2>2, <2>3 DEF HeadPoint, PullLabels
  <2>5. HeadPending(Ev("VALIDATOR_SNAPSHOT", local[t].head, status))
    BY <2>3 DEF Ev, HeadPending, PullKinds
  <2>6. AppendEvidence(t, Ev("VALIDATOR_SNAPSHOT", local[t].head, status), "decide", l)
    BY <2>1
  <2> HIDE DEF l
  <2> QED BY <1>a, <2>k, <2>4, <2>5, <2>6, AppendEvidenceHeads
<1>17. CASE DecideVerified(t)
  <2>k. HeadsKept
    BY <1>17 DEF DecideVerified, journal, github, HeadsKept
  <2> QED BY <1>17, <1>a, <2>k, GotoHeads, ReturnHeads, PlainHeadPoint DEF DecideVerified, HeadLabels
<1>18. CASE DecideFailed(t)
  <2>k. HeadsKept
    BY <1>18 DEF DecideFailed, journal, github, HeadsKept
  <2> QED BY <1>18, <1>a, <2>k, GotoHeads, ReturnHeads, PlainHeadPoint DEF DecideFailed, HeadLabels
<1>19. CASE ReviewCi(t)
  <2>k. HeadsKept
    BY <1>19 DEF ReviewCi, journal, github, HeadsKept
  <2> DEFINE l == [local[t] EXCEPT !.from = "CI_REVIEWED"]
  <2>2. l.head = local[t].head
    BY <1>a DEF Locals
  <2>3. IsBound(local[t].head)
    BY <1>19, <1>b DEF ReviewCi, At, HeadPoint
  <2>4. HeadPoint("decide", l)
    BY <2>2, <2>3 DEF HeadPoint, PullLabels
  <2>5. HeadPending(Ev("CI_REVIEWED", local[t].head, ""))
    BY DEF Ev, HeadPending, Snapshots, PullKinds
  <2>6. AppendStage(t, Ev("CI_REVIEWED", local[t].head, ""), "decide", l)
    BY <1>19 DEF ReviewCi
  <2> HIDE DEF l
  <2> QED BY <1>a, <2>k, <2>4, <2>5, <2>6, AppendStageHeads
<1>20. CASE ReviewValidators(t)
  <2>k. HeadsKept
    BY <1>20 DEF ReviewValidators, journal, github, HeadsKept
  <2> DEFINE l == [local[t] EXCEPT !.from = "VALIDATORS_REVIEWED"]
  <2>2. l.head = local[t].head
    BY <1>a DEF Locals
  <2>3. IsBound(local[t].head)
    BY <1>20, <1>b DEF ReviewValidators, At, HeadPoint
  <2>4. HeadPoint("decide", l)
    BY <2>2, <2>3 DEF HeadPoint, PullLabels
  <2>5. HeadPending(Ev("VALIDATORS_REVIEWED", local[t].head, ""))
    BY DEF Ev, HeadPending, Snapshots, PullKinds
  <2>6. AppendStage(t, Ev("VALIDATORS_REVIEWED", local[t].head, ""), "decide", l)
    BY <1>20 DEF ReviewValidators
  <2> HIDE DEF l
  <2> QED BY <1>a, <2>k, <2>4, <2>5, <2>6, AppendStageHeads
<1>21. CASE Verify(t)
  <2>k. HeadsKept
    BY <1>21 DEF Verify, journal, github, HeadsKept
  <2> DEFINE e == Ev("VERIFIED_SUCCESS", local[t].head, "")
  <2>1. IsBound(local[t].head)
    BY <1>21, <1>b DEF Verify, At, HeadPoint
  <2>2. HeadPending(e)
    BY <2>1 DEF Ev, HeadPending, Snapshots, PullKinds
  <2>3. AppendStage(t, e, "verified", local[t])
    BY <1>21 DEF Verify
  <2>4. HeadPoint("verified", local[t])
    BY PlainHeadPoint DEF HeadLabels
  <2> HIDE DEF e
  <2> QED BY <1>a, <2>k, <2>2, <2>3, <2>4, AppendStageHeads
<1>22. CASE VerifiedOutcome(t)
  <2>k. HeadsKept
    BY <1>22 DEF VerifiedOutcome, journal, github, HeadsKept
  <2> DEFINE e == Ev("OUTCOME", 0, "VERIFIED_SUCCESS")
             l == NoLocals
  <2>1. e.event \notin HeadEvents /\ "health" \notin HeadLabels
    BY DEF Ev, HeadEvents, HeadLabels
  <2>2. AppendEvidence(t, e, "health", l)
    BY <1>22 DEF VerifiedOutcome
  <2> HIDE DEF e, l
  <2> QED BY <1>a, <2>k, <2>1, <2>2, PlainAppendHeads
<1>23. CASE Undecided(t)
  <2>k. HeadsKept
    BY <1>23 DEF Undecided, journal, github, HeadsKept
  <2> DEFINE e == Ev("OUTCOME", 0, OpenOutcome(local[t]))
             l == NoLocals
  <2>1. e.event \notin HeadEvents /\ "health" \notin HeadLabels
    BY DEF Ev, HeadEvents, HeadLabels
  <2>2. AppendEvidence(t, e, "health", l)
    BY <1>23 DEF Undecided
  <2> HIDE DEF e, l
  <2> QED BY <1>a, <2>k, <2>1, <2>2, PlainAppendHeads
<1>24. CASE RecordHealth(t)
  <2>k. HeadsKept
    BY <1>24 DEF RecordHealth, journal, github, HeadsKept
  <2> DEFINE v == latest["VALIDATOR_SNAPSHOT"]
             e == [event |-> "VALIDATOR_HEALTH_SNAPSHOT", head |-> v.head,
                   note |-> HealthOf(v.note), source |-> v.source]
  <2>1. \/ Return(t)
        \/ v # NoEvent /\ AppendEvidence(t, e, "idle", NoLocals)
    BY <1>24 DEF RecordHealth
  <2>2. v # NoEvent => HeadPending(e)
    BY DEF HeadInv, HeadView, HeadPending, Snapshots, PullKinds
  <2>3. HeadPoint("idle", NoLocals)
    BY PlainHeadPoint DEF HeadLabels
  <2> HIDE DEF e, v
  <2> QED BY <1>a, <2>k, <2>1, <2>2, <2>3, ReturnHeads, AppendEvidenceHeads
<1>25. CASE ReviewBranch(t)
  <2>k. HeadsKept
    BY <1>25 DEF ReviewBranch, journal, github, HeadsKept
  <2> QED BY <1>25, <1>a, <2>k, GotoHeads, ReturnHeads, PlainHeadPoint DEF ReviewBranch, HeadLabels
<1>26. CASE ReviewCompare(t)
  <2>k. HeadsKept
    BY <1>26 DEF ReviewCompare, journal, github, HeadsKept
  <2>1. PICK d \in Digests :
            \/ Return(t)
            \/ AppendEvidence(t, Ev("REVIEW_SNAPSHOT", local[t].head, d), "idle", NoLocals)
    BY <1>26 DEF ReviewCompare
  <2> DEFINE e == Ev("REVIEW_SNAPSHOT", local[t].head, d)
  <2>2. e.event \notin HeadEvents /\ "idle" \notin HeadLabels
    BY DEF Ev, HeadEvents, HeadLabels
  <2>3. Return(t) \/ AppendEvidence(t, e, "idle", NoLocals)
    BY <2>1
  <2> HIDE DEF e
  <2> QED BY <1>a, <2>k, <2>2, <2>3, PlainAppendHeads
<1>27. CASE AckBranch(t)
  <2>k. HeadsKept
    BY <1>27 DEF AckBranch, journal, github, HeadsKept
  <2> DEFINE e == Ev("REVIEW_ACKNOWLEDGED", local[t].head, local[t].digest)
             l == NoLocals
  <2>1. e.event \notin HeadEvents /\ "idle" \notin HeadLabels
    BY DEF Ev, HeadEvents, HeadLabels
  <2>2. Return(t) \/ AppendEvidence(t, e, "idle", l)
    BY <1>27 DEF AckBranch
  <2> HIDE DEF e, l
  <2> QED BY <1>a, <2>k, <2>1, <2>2, PlainAppendHeads
<1>28. CASE PrBranch(t)
  <2>k. HeadsKept
    BY <1>28 DEF PrBranch, journal, github, HeadsKept
  <2>1. HeadPoint("pr_create", local[t])
    BY <1>28, <1>b DEF PrBranch, At, HeadPoint, PullLabels
  <2> QED BY <1>28, <1>a, <2>k, <2>1, GotoHeads, ReturnHeads DEF PrBranch
<1>29. CASE PrCreate(t)
  <2>1. VerifiedHead(recorded, local[t].head)
    BY <1>29, <1>b DEF PrCreate, At, HeadPoint, PullLabels
  <2>2. UNCHANGED <<stage, latest, recorded, commits>>
    BY <1>29 DEF PrCreate, journal
  <2>3. /\ pending'[t] = pending[t]
        /\ \/ pc'[t] = "idle"
           \/ pc'[t] = "pr_readback" /\ local'[t] = local[t]
    BY <1>29, <1>a DEF PrCreate, Return, Goto, ThreadsOK
  <2> QED BY <2>1, <2>2, <2>3, OpenedHeads
<1>30. CASE PrCreateUnanswered(t)
  <2>1. VerifiedHead(recorded, local[t].head)
    BY <1>30, <1>b DEF PrCreateUnanswered, At, HeadPoint, PullLabels
  <2>2. UNCHANGED <<stage, latest, recorded, commits>>
    BY <1>30 DEF PrCreateUnanswered, journal
  <2>3. pending'[t] = pending[t] /\ pc'[t] = "idle"
    BY <1>30, <1>a DEF PrCreateUnanswered, Return, ThreadsOK
  <2> QED BY <2>1, <2>2, <2>3, OpenedHeads
<1>31. CASE PrReadBack(t)
  <2>k. HeadsKept
    BY <1>31 DEF PrReadBack, journal, github, HeadsKept
  <2> DEFINE e == Ev("PR_OPENED", branch, "")
  <2>1. VerifiedHead(recorded, local[t].head)
    BY <1>31, <1>b DEF PrReadBack, At, HeadPoint, PullLabels
  <2>2. \/ Return(t)
        \/ e.head = local[t].head /\ AppendStage(t, e, "pr_snapshot", local[t])
    BY <1>31 DEF PrReadBack, Ev
  <2>3. e.event = "PR_OPENED"
    BY DEF Ev
  <2>4. HeadPoint("pr_snapshot", local[t])
    BY <2>1 DEF HeadPoint, PullLabels
  <2>5. e.head = local[t].head => HeadPending(e)
    BY <2>1, <2>3 DEF HeadPending, Snapshots
  <2> HIDE DEF e
  <2> QED BY <1>a, <2>k, <2>2, <2>4, <2>5, ReturnHeads, AppendStageHeads
<1>32. CASE PrSnapshot(t)
  <2>k. HeadsKept
    BY <1>32 DEF PrSnapshot, journal, github, HeadsKept
  <2> DEFINE e == Ev("PR_REVIEW_SNAPSHOT", local[t].head, "opened")
  <2>1. VerifiedHead(recorded, local[t].head)
    BY <1>32, <1>b DEF PrSnapshot, At, HeadPoint, PullLabels
  <2>2. Return(t) \/ AppendEvidence(t, e, "idle", NoLocals)
    BY <1>32 DEF PrSnapshot
  <2>3. e.event = "PR_REVIEW_SNAPSHOT" /\ e.head = local[t].head
    BY DEF Ev
  <2>4. HeadPoint("idle", NoLocals)
    BY PlainHeadPoint DEF HeadLabels
  <2>5. HeadPending(e)
    BY <2>1, <2>3 DEF HeadPending, Snapshots
  <2> HIDE DEF e
  <2> QED BY <1>a, <2>k, <2>2, <2>4, <2>5, ReturnHeads, AppendEvidenceHeads
<1>33. CASE PrReview(t)
  <2>k. HeadsKept
    BY <1>33 DEF PrReview, journal, github, HeadsKept
  <2> DEFINE e == Ev("PR_REVIEW_SNAPSHOT", local[t].head, "refreshed")
  <2>1. VerifiedHead(recorded, local[t].head)
    BY <1>33, <1>b DEF PrReview, At, HeadPoint, PullLabels
  <2>2. Return(t) \/ AppendEvidence(t, e, "idle", NoLocals)
    BY <1>33 DEF PrReview
  <2>3. e.event = "PR_REVIEW_SNAPSHOT" /\ e.head = local[t].head
    BY DEF Ev
  <2>4. HeadPoint("idle", NoLocals)
    BY PlainHeadPoint DEF HeadLabels
  <2>5. HeadPending(e)
    BY <2>1, <2>3 DEF HeadPending, Snapshots
  <2> HIDE DEF e
  <2> QED BY <1>a, <2>k, <2>2, <2>4, <2>5, ReturnHeads, AppendEvidenceHeads
<1>34. CASE GitHubRaises(t)
  <2>k. HeadsKept
    BY <1>34 DEF GitHubRaises, journal, github, HeadsKept
  <2> QED BY <1>34, <1>a, <2>k, ReturnHeads DEF GitHubRaises
<1> QED
  BY <1>1, <1>2, <1>3, <1>4, <1>5, <1>6, <1>7, <1>8, <1>9, <1>10,
     <1>11, <1>12, <1>13, <1>14, <1>15, <1>16, <1>17, <1>18, <1>19, <1>20,
     <1>21, <1>22, <1>23, <1>24, <1>25, <1>26, <1>27, <1>28, <1>29, <1>30,
     <1>31, <1>32, <1>33, <1>34 DEF Step

LEMMA NextHeads ==
    ASSUME Serial, TypeOK, EvidenceInv, SerialInv, HeadInv, [Next]_vars
    PROVE  HeadInv'
<1>1. CASE \E t \in Threads : Request(t) \/ Step(t)
  BY <1>1, RequestHeads, StepHeads
<1>2. CASE PushByOthers
  <2>1. commits' \in Nat /\ commits' >= commits
    BY <1>2 DEF PushByOthers, TypeOK
  <2> QED BY <1>2, <2>1, CommitsHeads DEF PushByOthers
<1>3. CASE Expire
  <2>1. commits' \in Nat /\ commits' >= commits
    BY <1>3 DEF Expire, TypeOK, github
  <2> QED BY <1>3, <2>1, CommitsHeads DEF Expire, github
<1>4. CASE Restart
  <2>1. HeadsKept
    BY <1>4 DEF Restart, journal, github, HeadsKept
  <2>2. \A t \in Threads : pc'[t] = "idle" /\ pending'[t] = NoEvent
    BY <1>4 DEF Restart
  <2>3. ASSUME NEW t \in Threads PROVE HeadOK(t)'
    <3>1. HeadPending(pending'[t]) /\ HeadPoint(pc'[t], local'[t])
      BY <2>2, NoHeadEvent, PlainHeadPoint DEF HeadLabels
    <3> QED BY <2>1, <3>1
         DEF HeadsKept, HeadOK, HeadPending, HeadPoint, IsBound, Commit
  <2>4. HeadView'
    BY <2>1 DEF HeadInv, HeadsKept, HeadView, PullHeadVerified, IsBound, Commit
  <2> QED BY <2>3, <2>4 DEF HeadInv
<1>5. CASE UNCHANGED vars
  <2>1. commits' \in Nat /\ commits' >= commits
    BY <1>5 DEF vars, TypeOK, github
  <2> QED BY <1>5, <2>1, CommitsHeads DEF vars, github
<1> QED BY <1>1, <1>2, <1>3, <1>4, <1>5 DEF Next

LEMMA InitHeads == Init => HeadInv
<1> SUFFICES ASSUME Init PROVE HeadInv
  OBVIOUS
<1>1. \A t \in Threads : HeadOK(t)
  <2> SUFFICES ASSUME NEW t \in Threads PROVE HeadOK(t)
    OBVIOUS
  <2>1. pc[t] = "idle" /\ pending[t] = NoEvent
    BY DEF Init
  <2> QED BY <2>1, NoHeadEvent, PlainHeadPoint DEF HeadOK, HeadLabels
<1>2. Commit = NoEvent /\ \A k \in Snapshots : latest[k] = NoEvent
  BY DEF Init, Commit, Kinds, Snapshots
<1> QED BY <1>1, <1>2 DEF Init, HeadInv, HeadView, BoundStages, CiStages,
                           PullHeadVerified, PullKinds, Kinds

LEMMA HeadAlways ==
    ASSUME Serial
    PROVE  Spec => []HeadInv
BY TypeCorrect, EvidenceAlways, SerialAlways, InitHeads, NextHeads, PTL DEF Spec

\* When requests are handled one at a time, the head that PR_OPENED, or a later
\* review of the pull request, puts on record for it was verified, found
\* healthy, reviewed and acknowledged: open_pull_request opens a pull request
\* by the name of the branch, at whatever head others have given it, but records
\* it only if the head it reads back is the one the gates of APP3, APP4 and APP6
\* passed, however the requests follow each other, fail, crash and race with pushes.
THEOREM SerialPullHead ==
    ASSUME Serial
    PROVE  Spec => []PullHeadVerified
<1>1. HeadInv => PullHeadVerified
  BY DEF HeadInv, HeadView
<1> QED BY <1>1, HeadAlways, PTL

-----------------------------------------------------------------------------
(* A service that nothing disturbs.  What a view may be when no request is  *)
(* under way, if requests are handled one at a time and none is cut off,    *)
(* and how far a handler may leave it meanwhile.                            *)

\* There is one thread, and it is never stopped.
Calm == Serial /\ Threads # {} /\ ~Crashes

Latest == latest["VALIDATOR_SNAPSHOT"]

\* The health on record is of the latest validator snapshot ...
Current == Latest.source = Health.source

\* ... once e is recorded.
CurrentAfter(e) ==
    /\ e.event # "VALIDATOR_SNAPSHOT"
    /\ Latest.source = IF e.event = "VALIDATOR_HEALTH_SNAPSHOT" THEN e.source
                                                                ELSE Health.source

\* A task at rest: stage s, and whether its health is current.
Rests(s, current) ==
    /\ s # "COMMIT_BOUND"
    /\ s = "PR_OPENED" => opened # {}
    /\ ~Faults => /\ s # "AGENT_COMPLETED"
                  /\ s \in {"NONE", "PREVIEWED"} => ~created
    /\ ~Pushes => current
    /\ ~Faults /\ ~Pushes /\ opened # {} => s = "PR_OPENED"

\* A run is on its way to a stage from which a request goes on.
RunPoint(p, s) ==
    /\ p = "create_branch" => s = "PREVIEWED"
    /\ s = "COMMIT_BOUND" => p = "await_ci"
    /\ ~Faults => /\ s = "AGENT_COMPLETED" => p \in {"bind", "compare", "fail"}
                  /\ s \in {"NONE", "PREVIEWED"} => ~created

\* A refresh is on its way to the health of the snapshot it makes.
HealthPoint(p, l, current) ==
    /\ p \in {"refresh_branch", "refresh_ci", "validate", "decide"} => l.then = "health"
    /\ ~Pushes => /\ p \in {"refresh_ci", "validate", "decide"} => l.exact
                  /\ \/ current
                     \/ p \in {"decide", "verified", "health"}
                     \/ p \in {"fail", "fail_outcome"} /\ l.then = "health"

\* An opening is on its way to the record of the pull request.
OpenPoint(p, l, s) ==
    /\ s = "PR_OPENED" => opened # {}
    /\ p \in {"pr_branch", "pr_create", "pr_readback"} => s = "VERIFIED_SUCCESS"
    /\ p = "pr_readback" => opened # {}
    /\ ~Pushes => (p \in {"compare", "pr_branch", "pr_create", "pr_readback"}
                      => l.head = branch)
    /\ ~Faults /\ ~Pushes /\ opened # {} => s = "PR_OPENED" \/ p = "pr_readback"

OnItsWay(p, l, s, current) ==
    RunPoint(p, s) /\ HealthPoint(p, l, current) /\ OpenPoint(p, l, s)

\* The points at which a task need not be at rest.
Busy == {"create_branch", "bind", "compare", "await_ci", "fail", "fail_outcome",
         "refresh_branch", "refresh_ci", "validate", "decide", "verified",
         "health", "pr_branch", "pr_create", "pr_readback"}

\* e is the health of a validator snapshot on record.
Judges(e) == /\ Latest # NoEvent
             /\ e.source <= snapshots
             /\ e.source = Latest.source => e.note = HealthOf(Latest.note)

CalmPending(e) ==
    /\ ~Pushes /\ e.event = "COMMIT_BOUND" => e.head = branch
    /\ e.event = "VALIDATOR_HEALTH_SNAPSHOT" => Judges(e)

CalmAt(p, l, e) == OnItsWay(p, l, Becomes(stage, e), CurrentAfter(e)) /\ CalmPending(e)

CalmView == /\ stage = "PR_OPENED" => latest["PR_OPENED"] # NoEvent
            /\ ~Pushes /\ Commit # NoEvent => branch = Commit.head
            /\ ~Pushes => opened \subseteq {Commit.head}
            /\ Latest.source = snapshots
            /\ Health # NoEvent => Judges(Health)

CalmInv == CalmView /\ \A t \in Threads : CalmAt(pc[t], local[t], pending[t])

LEMMA NothingPendingCalm ==
    CalmPending(NoEvent) /\ (CurrentAfter(NoEvent) <=> Current)
BY DEF CalmPending, CurrentAfter, Current, NoEvent

\* A handler that has nothing pending acts on the view that is.
LEMMA PointNow ==
    ASSUME CalmInv, NEW t \in Threads, pending[t] = NoEvent
    PROVE  OnItsWay(pc[t], local[t], stage, Current)
<1>1. CalmAt(pc[t], local[t], NoEvent) /\ Becomes(stage, NoEvent) = stage
  BY NothingFollows DEF CalmInv
<1> QED BY <1>1, NothingPendingCalm DEF CalmAt, OnItsWay, HealthPoint

LEMMA RestPoint ==
    ASSUME NEW p, NEW l, NEW s, p \notin Busy
    PROVE  OnItsWay(p, l, s, Current) <=> Rests(s, Current)
BY DEF OnItsWay, RunPoint, HealthPoint, OpenPoint, Busy, Rests

LEMMA RestPointAfter ==
    ASSUME NEW p, NEW l, NEW s, NEW e, p \notin Busy, Rests(s, CurrentAfter(e))
    PROVE  OnItsWay(p, l, s, CurrentAfter(e))
BY DEF OnItsWay, RunPoint, HealthPoint, OpenPoint, Busy, Rests

\* What the invariant reads stays as it is while the only thread moves on.
CalmKept == UNCHANGED <<stage, latest, snapshots, created, branch, opened>>

LEMMA OnlyThreadCalm ==
    ASSUME Serial, CalmInv, CalmKept, NEW t \in Threads,
           CalmAt(pc'[t], local'[t], pending'[t])
    PROVE  CalmInv'
<1>1. CalmAt(pc[t], local[t], pending[t])'
  BY DEF CalmKept, CalmAt, OnItsWay, RunPoint, HealthPoint, OpenPoint, CalmPending,
         CurrentAfter, Becomes, Judges, Latest, Health
<1>2. CalmView'
  BY DEF CalmInv, CalmKept, CalmView, Judges, Latest, Health, Commit
<1>3. \A u \in Threads : u = t
  BY DEF Serial
<1> QED BY <1>1, <1>2, <1>3 DEF CalmInv

LEMMA GotoCalm ==
    ASSUME Serial, ThreadsOK, CalmInv, CalmKept, NEW t \in Threads, pending[t] = NoEvent,
           NEW label, NEW l, Goto(t, label, l), OnItsWay(label, l, stage, Current)
    PROVE  CalmInv'
<1>1. pc'[t] = label /\ local'[t] = l /\ pending'[t] = NoEvent
  BY DEF Goto, ThreadsOK
<1>2. CalmAt(label, l, NoEvent)
  BY NothingPendingCalm, NothingFollows DEF CalmAt, OnItsWay, HealthPoint
<1> QED BY <1>1, <1>2, OnlyThreadCalm

LEMMA ReturnCalm ==
    ASSUME Serial, ThreadsOK, CalmInv, CalmKept, NEW t \in Threads, pending[t] = NoEvent,
           Return(t), Rests(stage, Current)
    PROVE  CalmInv'
<1>1. Goto(t, "idle", NoLocals)
  BY DEF Return, Goto
<1>2. OnItsWay("idle", NoLocals, stage, Current)
  BY RestPoint DEF Busy
<1> QED BY <1>1, <1>2, GotoCalm

LEMMA AppendEvidenceCalm ==
    ASSUME Serial, ThreadsOK, CalmInv, CalmKept, NEW t \in Threads, NEW label, NEW l,
           NEW e, AppendEvidence(t, e, label, l), CalmAt(label, l, e)
    PROVE  CalmInv'
<1>1. pc'[t] = label /\ local'[t] = l /\ pending'[t] = e
  BY DEF AppendEvidence, ThreadsOK
<1> QED BY <1>1, OnlyThreadCalm

\* Evidence that neither health nor stage depends on.
LEMMA AsideCalm ==
    ASSUME Serial, ThreadsOK, CalmInv, CalmKept, NEW t \in Threads, NEW label, NEW l,
           NEW e, AppendEvidence(t, e, label, l), e.event \notin Stages \cup Snapshots,
           OnItsWay(label, l, stage, Current)
    PROVE  CalmInv'
<1>1. Becomes(stage, e) = stage /\ (CurrentAfter(e) <=> Current)
  BY DEF Becomes, CurrentAfter, Current, Snapshots
<1>2. CalmPending(e)
  BY DEF CalmPending, Snapshots, Stages
<1>3. CalmAt(label, l, e)
  BY <1>1, <1>2 DEF CalmAt, OnItsWay, HealthPoint
<1> QED BY <1>3, AppendEvidenceCalm

\* A stage that is refused leaves the task where it rests.
LEMMA AppendStageCalm ==
    ASSUME Serial, ThreadsOK, CalmInv, CalmKept, NEW t \in Threads, pending[t] = NoEvent,
           NEW label, NEW l, NEW name \in Stages, NEW head, NEW note,
           AppendStage(t, Ev(name, head, note), label, l),
           name \in Allowed(stage) \/ Rests(stage, Current),
           name \in Allowed(stage) => OnItsWay(label, l, name, Current),
           ~Pushes /\ name = "COMMIT_BOUND" => head = branch
    PROVE  CalmInv'
<1> DEFINE e == Ev(name, head, note)
<1>1. e.event = name /\ e.head = head
  BY DEF Ev
<1> HIDE DEF e
<1>2. CASE name \in Allowed(stage)
  <2>1. AppendEvidence(t, e, label, l)
    BY <1>1, <1>2 DEF AppendStage, e
  <2>2. Becomes(stage, e) = name /\ (CurrentAfter(e) <=> Current) /\ CalmPending(e)
    BY <1>1 DEF Becomes, CurrentAfter, Current, CalmPending, Stages
  <2>3. CalmAt(label, l, e)
    BY <1>2, <2>2 DEF CalmAt, OnItsWay, HealthPoint
  <2> QED BY <2>1, <2>3, AppendEvidenceCalm
<1>3. CASE name \notin Allowed(stage)
  BY <1>1, <1>3, ReturnCalm DEF AppendStage, e
<1> QED BY <1>2, <1>3

\* GitHub moves with the thread.
LEMMA SettledCalm ==
    ASSUME Serial, CalmView', NEW t \in Threads, pending'[t] = NoEvent,
           OnItsWay(pc[t], local[t], stage, Current)'
    PROVE  CalmInv'
<1>1. Becomes(stage', NoEvent) = stage' /\ NoEvent.event = "NONE"
  BY NothingFollows DEF NoEvent
<1>2. CalmPending(NoEvent)' /\ (CurrentAfter(NoEvent)' <=> Current')
  BY <1>1 DEF CalmPending, CurrentAfter, Current
<1>3. CalmAt(pc[t], local[t], pending[t])'
  BY <1>1, <1>2 DEF CalmAt, OnItsWay, RunPoint, HealthPoint, OpenPoint, CalmPending,
                    CurrentAfter, Current, Becomes, Judges, Latest, Health
<1>4. \A u \in Threads : u = t
  BY DEF Serial
<1> QED BY <1>3, <1>4 DEF CalmInv

LEMMA RestsCalm ==
    ASSUME Serial, CalmView', NEW t \in Threads, pending'[t] = NoEvent,
           pc'[t] \notin Busy, Rests(stage, Current)'
    PROVE  CalmInv'
<1>1. OnItsWay(pc[t], local[t], stage, Current)'
  BY DEF OnItsWay, RunPoint, HealthPoint, OpenPoint, Busy, Rests
<1> QED BY <1>1, SettledCalm

LEMMA IdleCalm ==
    ASSUME CalmInv, UNCHANGED journal, UNCHANGED github, UNCHANGED threads
    PROVE  CalmInv'
<1>1. UNCHANGED <<stage, latest, snapshots, created, branch, opened, pc, local, pending>>
  BY DEF journal, github, threads
<1>2. CalmView'
  BY <1>1 DEF CalmInv, CalmView, Judges, Latest, Health, Commit
<1>3. ASSUME NEW t \in Threads PROVE CalmAt(pc[t], local[t], pending[t])'
  <2>1. CalmAt(pc[t], local[t], pending[t])
    BY DEF CalmInv
  <2> QED BY <1>1, <2>1
       DEF CalmAt, OnItsWay, RunPoint, HealthPoint, OpenPoint, CalmPending,
           CurrentAfter, Becomes, Judges, Latest, Health
<1> QED BY <1>2, <1>3 DEF CalmInv

LEMMA RequestCalm ==
    ASSUME Serial, TypeOK, SerialInv, HeadInv, CalmInv, NEW t \in Threads, Request(t)
    PROVE  CalmInv'
<1>a. ThreadsOK /\ stage \in Stages \cup {"NONE"}
  BY DEF TypeOK, ThreadsOK
\* A request finds its task at rest, whatever it is going to read.
<1>b. Idle(t) /\ Rests(stage, Current)
  <2>1. Idle(t)
    BY DEF Request, Preview, RunPreviewed, RunBranchCreated, RunResumed, Refresh,
           RefreshSettled, ReviewBundle, Acknowledge, OpenPullRequest, OpenAgain,
           RefreshPrReview
  <2> QED BY <2>1, PointNow, RestPoint DEF Idle, Busy
<1>c. pending[t] = NoEvent
  BY <1>b DEF Idle
<1>1. CASE Preview(t)
  <2>k. CalmKept
    BY <1>1 DEF Preview, journal, github, CalmKept
  <2>1. CASE stage = "NONE"
    <3>1. AppendStage(t, Ev("PREVIEWED", 0, ""), "idle", NoLocals)
      BY <1>1, <2>1 DEF Preview
    <3>2. Rests("PREVIEWED", Current)
      BY <1>b, <2>1 DEF Rests
    <3>3. OnItsWay("idle", NoLocals, "PREVIEWED", Current)
      BY <3>2, RestPoint DEF Busy
    <3> QED BY <1>a, <1>b, <1>c, <2>k, <3>1, <3>3, AppendStageCalm DEF Stages
  <2>2. CASE stage # "NONE"
    <3>1. UNCHANGED threads
      BY <1>1, <2>2 DEF Preview
    <3>2. pending'[t] = pending[t] /\ pc'[t] = pc[t] /\ local'[t] = local[t]
      BY <3>1 DEF threads
    <3> QED BY <2>k, <3>2, OnlyThreadCalm DEF CalmInv
  <2> QED BY <2>1, <2>2
<1>2. CASE RunPreviewed(t)
  <2>k. CalmKept
    BY <1>2 DEF RunPreviewed, journal, github, CalmKept
  <2>1. Goto(t, "create_branch", NoLocals) /\ stage = "PREVIEWED"
    BY <1>2 DEF RunPreviewed
  <2>2. OnItsWay("create_branch", NoLocals, stage, Current)
    BY <1>b, <2>1 DEF Rests, OnItsWay, RunPoint, HealthPoint, OpenPoint
  <2> QED BY <1>a, <1>c, <2>k, <2>1, <2>2, GotoCalm
<1>3. CASE RunBranchCreated(t)
  <2>k. CalmKept
    BY <1>3 DEF RunBranchCreated, journal, github, CalmKept
  <2>1. AppendStage(t, Ev("AGENT_RUNNING", 0, ""), "agent", NoLocals)
    BY <1>3 DEF RunBranchCreated
  <2>2. Rests("AGENT_RUNNING", Current)
    BY <1>3, <1>b DEF RunBranchCreated, Rests
  <2>3. OnItsWay("agent", NoLocals, "AGENT_RUNNING", Current)
    BY <2>2, RestPoint DEF Busy
  <2> QED BY <1>a, <1>b, <1>c, <2>k, <2>1, <2>3, AppendStageCalm DEF Stages
<1>4. CASE RunResumed(t)
  <2>k. CalmKept
    BY <1>4 DEF RunResumed, journal, github, CalmKept
  <2> DEFINE e == Ev("RESUME_REQUESTED", 0, "")
  <2>1. AppendEvidence(t, e, "agent", NoLocals)
    BY <1>4 DEF RunResumed
  <2>2. e.event \notin Stages \cup Snapshots
    BY DEF Ev, Stages, Snapshots
  <2>3. OnItsWay("agent", NoLocals, stage, Current)
    BY <1>b, RestPoint DEF Busy
  <2> HIDE DEF e
  <2> QED BY <1>a, <2>k, <2>1, <2>2, <2>3, AsideCalm
<1>5. CASE Refresh(t)
  <2>k. CalmKept
    BY <1>5 DEF Refresh, journal, github, CalmKept
  <2> DEFINE l == [NoLocals EXCEPT !.from = stage, !.head = Commit.head, !.then = "health"]
  <2>1. l.then = "health" /\ Goto(t, "refresh_branch", l)
    BY <1>5 DEF NoLocals, Refresh
  <2> HIDE DEF l
  <2>2. OnItsWay("refresh_branch", l, stage, Current)
    BY <1>b, <2>1 DEF Rests, OnItsWay, RunPoint, HealthPoint, OpenPoint
  <2> QED BY <1>a, <1>c, <2>k, <2>1, <2>2, GotoCalm
<1>6. CASE RefreshSettled(t)
  <2>k. CalmKept
    BY <1>6 DEF RefreshSettled, journal, github, CalmKept
  <2>1. OnItsWay("health", NoLocals, stage, Current)
    BY <1>b DEF Rests, OnItsWay, RunPoint, HealthPoint, OpenPoint
  <2> QED BY <1>6, <1>a, <1>c, <2>k, <2>1, GotoCalm DEF RefreshSettled
<1>7. CASE ReviewBundle(t)
  <2>k. CalmKept
    BY <1>7 DEF ReviewBundle, journal, github, CalmKept
  <2>1. \A l : OnItsWay("review_branch", l, stage, Current)
    BY <1>b, RestPoint DEF Busy
  <2> QED BY <1>7, <1>a, <1>c, <2>k, <2>1, GotoCalm DEF ReviewBundle
<1>8. CASE Acknowledge(t)
  <2>k. CalmKept
    BY <1>8 DEF Acknowledge, journal, github, CalmKept
  <2>1. \A l : OnItsWay("ack_branch", l, stage, Current)
    BY <1>b, RestPoint DEF Busy
  <2> QED BY <1>8, <1>a, <1>c, <2>k, <2>1, GotoCalm DEF Acknowledge
<1>9. CASE OpenPullRequest(t)
  <2>k. CalmKept
    BY <1>9 DEF OpenPullRequest, journal, github, CalmKept
  <2> DEFINE l == [NoLocals EXCEPT !.head = Commit.head]
  <2>1. l.head = Commit.head /\ Goto(t, "pr_branch", l)
    BY <1>9 DEF NoLocals, OpenPullRequest
  <2> HIDE DEF l
  <2>2. Commit # NoEvent /\ outcome = "VERIFIED_SUCCESS" /\ latest["PR_OPENED"] = NoEvent
    BY <1>9 DEF OpenPullRequest, OpenGates
  <2>3. stage = "VERIFIED_SUCCESS"
    BY <2>2 DEF SerialInv, OutcomeMatchesStage, CalmInv, CalmView
  <2>4. ~Pushes => l.head = branch
    BY <2>1, <2>2 DEF CalmInv, CalmView
  <2>5. OnItsWay("pr_branch", l, stage, Current)
    BY <1>b, <2>3, <2>4 DEF Rests, OnItsWay, RunPoint, HealthPoint, OpenPoint
  <2> QED BY <1>a, <1>c, <2>k, <2>1, <2>5, GotoCalm
<1>10. CASE OpenAgain(t)
  <2>k. CalmKept
    BY <1>10 DEF OpenAgain, journal, github, CalmKept
  <2>1. \A l : OnItsWay("pr_snapshot", l, stage, Current)
    BY <1>b, RestPoint DEF Busy
  <2> QED BY <1>10, <1>a, <1>c, <2>k, <2>1, GotoCalm DEF OpenAgain
<1>11. CASE RefreshPrReview(t)
  <2>k. CalmKept
    BY <1>11 DEF RefreshPrReview, journal, github, CalmKept
  <2>1. \A l : OnItsWay("pr_review", l, stage, Current)
    BY <1>b, RestPoint DEF Busy
  <2> QED BY <1>11, <1>a, <1>c, <2>k, <2>1, GotoCalm DEF RefreshPrReview
<1> QED BY <1>1, <1>2, <1>3, <1>4, <1>5, <1>6, <1>7, <1>8, <1>9, <1>10, <1>11 DEF Request

\* A snapshot makes the health on record stale; any other record leaves a task
\* as its handler was to leave it.
LEMMA RecordedCalm ==
    ASSUME Serial, TypeOK, SerialInv, HeadInv, CalmInv, NEW t \in Threads, Recorded(t)
    PROVE  CalmInv'
<1> DEFINE p == pending[t]
           e == IF p.event = "VALIDATOR_SNAPSHOT"
                  THEN [p EXCEPT !.source = snapshots + 1] ELSE p
<1>1. /\ p \in Event /\ p # NoEvent
      /\ e.event = p.event /\ e.head = p.head /\ e.note = p.note
      /\ e.source = IF p.event = "VALIDATOR_SNAPSHOT" THEN snapshots + 1 ELSE p.source
      /\ snapshots \in Nat
  BY DEF Event, TypeOK, Recorded
<1>2. /\ Fold(e)
      /\ pc' = pc /\ local' = local /\ opened' = opened /\ created' = created /\ branch' = branch
      /\ pending'[t] = NoEvent
      /\ snapshots' = IF p.event = "VALIDATOR_SNAPSHOT" THEN snapshots + 1 ELSE snapshots
  BY DEF Recorded, github, TypeOK
<1>3. OnItsWay(pc[t], local[t], Becomes(stage, p), CurrentAfter(p)) /\ CalmPending(p) /\ CalmView
  BY DEF CalmInv, CalmAt
<1>4. stage' = Becomes(stage, p) /\ Follows(stage, p)
  BY <1>1, <1>2 DEF Fold, Becomes, SerialInv, SerialOK
<1> HIDE DEF e
<1>5. \A k \in Kinds : latest'[k] = IF e.event = k THEN e ELSE latest[k]
  BY <1>2 DEF Fold, TypeOK
<1>6. /\ Latest' = IF e.event = "VALIDATOR_SNAPSHOT" THEN e ELSE Latest
      /\ Health' = IF e.event = "VALIDATOR_HEALTH_SNAPSHOT" THEN e ELSE Health
      /\ Commit' = IF e.event = "COMMIT_BOUND" THEN e ELSE Commit
      /\ latest'["PR_OPENED"] = IF e.event = "PR_OPENED" THEN e ELSE latest["PR_OPENED"]
  BY <1>5 DEF Latest, Health, Commit, Kinds
<1>7. NoEvent.event = "NONE"
  BY DEF NoEvent
<1>8. stage' = "PR_OPENED" => latest'["PR_OPENED"] # NoEvent
  <2>1. CASE p.event = "PR_OPENED"
    BY <2>1, <1>1, <1>6, <1>7
  <2>2. CASE p.event # "PR_OPENED"
    BY <2>2, <1>1, <1>3, <1>4, <1>6 DEF Becomes, CalmView
  <2> QED BY <2>1, <2>2
<1>9. ~Pushes /\ Commit' # NoEvent => branch' = Commit'.head
  BY <1>1, <1>2, <1>3, <1>6 DEF CalmView, CalmPending
<1>10. Latest'.source = snapshots'
  BY <1>1, <1>2, <1>3, <1>6 DEF CalmView
\* A new snapshot has a number that no health on record has.
<1>11. Health' # NoEvent => Judges(Health)'
  <2>1. CASE p.event = "VALIDATOR_SNAPSHOT"
    <3>1. Latest' = e /\ Latest' # NoEvent /\ Health' = Health /\ e.source = snapshots + 1
      BY <2>1, <1>1, <1>6, <1>7
    <3>2. Health.source \in Nat
      BY DEF TypeOK, Health, Kinds, Event
    <3> QED BY <2>1, <3>1, <3>2, <1>1, <1>2, <1>3 DEF CalmView, Judges
  <2>2. CASE p.event = "VALIDATOR_HEALTH_SNAPSHOT"
    <3>1. Latest' = Latest /\ Health' = e /\ snapshots' = snapshots
      BY <2>2, <1>1, <1>2, <1>6
    <3>2. Judges(p)
      BY <2>2, <1>3 DEF CalmPending
    <3> QED BY <2>2, <3>1, <3>2, <1>1 DEF Judges
  <2>3. CASE p.event \notin Snapshots
    <3>1. Latest' = Latest /\ Health' = Health /\ snapshots' = snapshots
      BY <2>3, <1>1, <1>2, <1>6 DEF Snapshots
    <3> QED BY <3>1, <1>3 DEF CalmView, Judges
  <2> QED BY <2>1, <2>2, <2>3 DEF Snapshots
\* No pull request is open before a commit is bound.
<1>o. ~Pushes => opened' \subseteq {Commit'.head}
  <2>1. CASE p.event = "COMMIT_BOUND"
    <3>1. stage = "AGENT_COMPLETED"
      BY <2>1, <1>4 DEF Follows, Becomes, Allowed, Stages, TypeOK
    <3>2. Commit = NoEvent
      BY <3>1 DEF HeadInv, HeadView, Unbound
    <3>3. opened = {}
      BY <3>2, VerifiedIsBound DEF HeadInv, HeadView, IsBound
    <3> QED BY <3>3, <1>2
  <2>2. CASE p.event # "COMMIT_BOUND"
    BY <2>2, <1>1, <1>2, <1>3, <1>6 DEF CalmView
  <2> QED BY <2>1, <2>2
<1>12. CalmView'
  BY <1>8, <1>9, <1>10, <1>11, <1>o DEF CalmView
<1>13. CurrentAfter(p) => CurrentAfter(NoEvent)'
  <2>1. NoEvent.event = "NONE"
    BY DEF NoEvent
  <2> QED BY <2>1, <1>1, <1>6 DEF CurrentAfter
<1>14. CalmAt(pc[t], local[t], pending[t])'
  <2>1. Becomes(stage', NoEvent) = stage' /\ CalmPending(NoEvent)'
    <3>1. NoEvent.event = "NONE"
      BY DEF NoEvent
    <3> QED BY <3>1, NothingFollows DEF CalmPending
  <2>2. OnItsWay(pc[t], local[t], stage, CurrentAfter(NoEvent))'
    BY <1>2, <1>3, <1>4, <1>13 DEF OnItsWay, RunPoint, HealthPoint, OpenPoint
  <2> QED BY <1>2, <2>1, <2>2 DEF CalmAt, Becomes
<1>15. \A u \in Threads : u = t
  BY DEF Serial
<1> QED BY <1>12, <1>14, <1>15 DEF CalmInv

LEMMA StepCalm ==
    ASSUME Serial, TypeOK, SerialInv, HeadInv, CalmInv, NEW t \in Threads, Step(t)
    PROVE  CalmInv'
<1>a. ThreadsOK /\ stage \in Stages \cup {"NONE"} /\ local[t] \in Locals
  BY DEF TypeOK, ThreadsOK
<1>b. pending[t] = NoEvent =>
         OnItsWay(pc[t], local[t], stage, Current) /\ Knows(pc[t], local[t], stage)
  BY PointNow, NothingFollows DEF SerialInv, SerialOK
<1>c. pending[t] = NoEvent /\ pc[t] \notin Busy => Rests(stage, Current)
  BY <1>b, RestPoint
\* A handler about to open a pull request does so at the head of the task.
<1>o. ~Pushes /\ pc[t] = "pr_create" => branch = Commit.head
  <2>1. pc[t] = "pr_create" => VerifiedHead(recorded, local[t].head)
    BY DEF HeadInv, HeadOK, HeadPoint, PullLabels
  <2>2. pc[t] = "pr_create" => Commit # NoEvent
    BY <2>1, VerifiedIsBound DEF HeadInv, IsBound
  <2> QED BY <2>2 DEF CalmInv, CalmView
<1>1. CASE Recorded(t)
  BY <1>1, RecordedCalm
<1>2. CASE CreateBranch(t)
  <2>1. pending[t] = NoEvent /\ pc[t] = "create_branch" /\ stage = "PREVIEWED"
    BY <1>2, <1>b DEF CreateBranch, At, OnItsWay, RunPoint, HealthPoint, OpenPoint
  <2>2. Rests(stage, Current)
    BY <1>b, <2>1 DEF Rests, OnItsWay, RunPoint, HealthPoint, OpenPoint
  <2>3. CASE created
    <3>1. CalmKept /\ Return(t)
      BY <1>2, <2>3 DEF CreateBranch, journal, github, CalmKept
    <3> QED BY <1>a, <2>1, <2>2, <3>1, ReturnCalm
  <2>4. CASE ~created
    <3> DEFINE e == Ev("BRANCH_CREATED", 0, "")
    <3>1. /\ AppendStage(t, e, "begin_agent", NoLocals)
          /\ created' = TRUE /\ opened' = opened /\ UNCHANGED <<stage, latest, snapshots>>
      BY <1>2, <2>4 DEF CreateBranch, journal
    <3>2. e.event = "BRANCH_CREATED"
      BY DEF Ev
    <3> HIDE DEF e
    <3>3. pc'[t] = "begin_agent" /\ local'[t] = NoLocals /\ pending'[t] = e
      BY <1>a, <2>1, <3>1, <3>2 DEF AppendStage, AppendEvidence, Allowed, ThreadsOK
    <3>4. Commit = NoEvent
      BY <2>1 DEF HeadInv, HeadView, Unbound
    <3>5. CalmView'
      BY <3>1, <3>4, <2>1 DEF CalmInv, CalmView, Judges, Latest, Health, Commit
    <3>6. CurrentAfter(e)' <=> Current
      BY <3>1, <3>2 DEF CurrentAfter, Current, Latest, Health
    <3>7. Becomes(stage', e) = "BRANCH_CREATED" /\ CalmPending(e)'
      BY <3>2 DEF Becomes, CalmPending, Stages
    <3>8. Rests("BRANCH_CREATED", CurrentAfter(e))'
      BY <3>1, <3>6, <2>1, <2>2 DEF Rests
    <3>9. OnItsWay("begin_agent", NoLocals, "BRANCH_CREATED", CurrentAfter(e))'
      BY <3>8 DEF Rests, OnItsWay, RunPoint, HealthPoint, OpenPoint
    <3>10. CalmAt(pc[t], local[t], pending[t])'
      BY <3>3, <3>7, <3>9 DEF CalmAt, OnItsWay, RunPoint, HealthPoint, OpenPoint, CalmPending, CurrentAfter, Becomes, Judges, Latest, Health
    <3>11. \A u \in Threads : u = t
      BY DEF Serial
    <3> QED BY <3>5, <3>10, <3>11 DEF CalmInv
  <2> QED BY <2>3, <2>4
<1>3. CASE CreateBranchUnanswered(t)
  <2>1. /\ pending[t] = NoEvent /\ pc[t] = "create_branch" /\ stage = "PREVIEWED" /\ Faults
        /\ Return(t) /\ opened' = opened /\ UNCHANGED <<stage, latest, snapshots>>
    BY <1>3, <1>b DEF CreateBranchUnanswered, At, journal, OnItsWay, RunPoint, HealthPoint, OpenPoint
  <2>2. Commit = NoEvent
    BY <2>1 DEF HeadInv, HeadView, Unbound
  <2>3. CalmView'
    BY <2>1, <2>2 DEF CalmInv, CalmView, Judges, Latest, Health, Commit
  <2>4. pc'[t] = "idle" /\ local'[t] = NoLocals /\ pending'[t] = NoEvent
    BY <1>a, <2>1 DEF Return, ThreadsOK
  <2>5. Current' <=> Current
    BY <2>1 DEF Current, Latest, Health
  <2>6. Rests(stage, Current)'
    BY <1>b, <2>1, <2>5 DEF Rests, OnItsWay, RunPoint, HealthPoint, OpenPoint
  <2> QED BY <2>1, <2>3, <2>4, <2>6, RestsCalm DEF Busy
<1>4. CASE BeginAgent(t)
  <2>k. CalmKept
    BY <1>4 DEF BeginAgent, journal, github, CalmKept
  <2>1. pending[t] = NoEvent /\ Rests(stage, Current)
    BY <1>4, <1>c DEF BeginAgent, At, Busy
  <2>2. AppendStage(t, Ev("AGENT_RUNNING", 0, ""), "agent", NoLocals)
    BY <1>4 DEF BeginAgent
  <2>3. "AGENT_RUNNING" \in Allowed(stage) => Rests("AGENT_RUNNING", Current)
    BY <1>a, <2>1 DEF Rests, Allowed, Stages
  <2>4. "AGENT_RUNNING" \in Allowed(stage)
          => OnItsWay("agent", NoLocals, "AGENT_RUNNING", Current)
    BY <2>3, RestPoint DEF Busy
  <2> QED BY <1>a, <2>k, <2>1, <2>2, <2>4, AppendStageCalm DEF Stages
<1>5. CASE AgentWrites(t)
  <2>1. /\ pending[t] = NoEvent /\ pc[t] = "agent" /\ stage = "AGENT_RUNNING"
        /\ UNCHANGED <<stage, latest, snapshots, created, opened, pc, local, pending>>
    BY <1>5, <1>b DEF AgentWrites, At, Knows, journal, threads
  <2>2. Commit = NoEvent
    BY <2>1 DEF HeadInv, HeadView, Unbound
  <2>3. CalmView'
    BY <2>1, <2>2 DEF CalmInv, CalmView, Judges, Latest, Health, Commit
  <2>4. Rests(stage, Current)
    BY <2>1, <1>c DEF Busy
  <2>5. Rests(stage, Current)'
    BY <2>1, <2>4 DEF Rests, Current, Latest, Health
  <2>6. pc'[t] \notin Busy /\ pending'[t] = NoEvent
    BY <2>1 DEF Busy
  <2> QED BY <2>3, <2>5, <2>6, RestsCalm
<1>6. CASE AgentCompletes(t)
  <2>k. CalmKept
    BY <1>6 DEF AgentCompletes, journal, github, CalmKept
  <2>1. pending[t] = NoEvent /\ pc[t] = "agent" /\ stage = "AGENT_RUNNING"
    BY <1>6, <1>b DEF AgentCompletes, At, Knows
  <2>2. Rests(stage, Current) /\ "AGENT_COMPLETED" \in Allowed(stage)
    BY <2>1, <1>c DEF Busy, Allowed
  <2>3. AppendStage(t, Ev("AGENT_COMPLETED", 0, ""), "bind", NoLocals)
    BY <1>6 DEF AgentCompletes
  <2>4. OnItsWay("bind", NoLocals, "AGENT_COMPLETED", Current)
    BY <2>1, <2>2 DEF Rests, OnItsWay, RunPoint, HealthPoint, OpenPoint
  <2> QED BY <1>a, <2>k, <2>1, <2>2, <2>3, <2>4, AppendStageCalm DEF Stages
<1>7. CASE AgentFails(t)
  <2>k. CalmKept
    BY <1>7 DEF AgentFails, journal, github, CalmKept
  <2>1. pending[t] = NoEvent /\ Rests(stage, Current) /\ stage = "AGENT_RUNNING"
    BY <1>7, <1>b, <1>c DEF AgentFails, At, Busy, Knows
  <2>2. OnItsWay("fail", NoLocals, stage, Current)
    BY <2>1 DEF Rests, OnItsWay, RunPoint, HealthPoint, OpenPoint
  <2> QED BY <1>7, <1>a, <2>k, <2>1, <2>2, GotoCalm DEF AgentFails
<1>8. CASE BindHead(t)
  <2>k. CalmKept
    BY <1>8 DEF BindHead, journal, github, CalmKept
  <2>1. pending[t] = NoEvent /\ pc[t] = "bind" /\ stage = "AGENT_COMPLETED"
    BY <1>8, <1>b DEF BindHead, At, Knows
  <2>2. CASE branch = 0
    <3>1. OnItsWay("fail", NoLocals, stage, Current)
      BY <1>b, <2>1 DEF OnItsWay, RunPoint, HealthPoint, OpenPoint
    <3> QED BY <1>8, <1>a, <2>k, <2>1, <2>2, <3>1, GotoCalm DEF BindHead
  <2>3. CASE branch # 0
    <3> DEFINE l == [NoLocals EXCEPT !.head = branch]
    <3>1. l.head = branch /\ Goto(t, "compare", l)
      BY <1>8, <2>3 DEF NoLocals, BindHead
    <3> HIDE DEF l
    <3>2. OnItsWay("compare", l, stage, Current)
      BY <1>b, <2>1, <3>1 DEF OnItsWay, RunPoint, HealthPoint, OpenPoint
    <3> QED BY <1>a, <2>k, <2>1, <3>1, <3>2, GotoCalm
  <2> QED BY <2>2, <2>3
<1>9. CASE BindCommit(t)
  <2>k. CalmKept
    BY <1>9 DEF BindCommit, journal, github, CalmKept
  <2>1. /\ pending[t] = NoEvent /\ pc[t] = "compare" /\ stage = "AGENT_COMPLETED"
        /\ "COMMIT_BOUND" \in Allowed(stage)
    BY <1>9, <1>b DEF BindCommit, At, Knows, Allowed
  <2>2. AppendStage(t, Ev("COMMIT_BOUND", local[t].head, ""), "await_ci", local[t])
    BY <1>9 DEF BindCommit
  <2>3. ~Pushes => local[t].head = branch
    BY <1>b, <2>1 DEF OnItsWay, RunPoint, HealthPoint, OpenPoint
  <2>4. OnItsWay("await_ci", local[t], "COMMIT_BOUND", Current)
    BY <1>b, <2>1 DEF OnItsWay, RunPoint, HealthPoint, OpenPoint
  <2> QED BY <1>a, <2>k, <2>1, <2>2, <2>3, <2>4, AppendStageCalm DEF Stages
<1>10. CASE BindFails(t)
  <2>k. CalmKept
    BY <1>10 DEF BindFails, journal, github, CalmKept
  <2>1. pending[t] = NoEvent /\ pc[t] = "compare" /\ stage = "AGENT_COMPLETED"
    BY <1>10, <1>b DEF BindFails, At, Knows
  <2>2. OnItsWay("fail", NoLocals, stage, Current)
    BY <1>b, <2>1 DEF OnItsWay, RunPoint, HealthPoint, OpenPoint
  <2> QED BY <1>10, <1>a, <2>k, <2>1, <2>2, GotoCalm DEF BindFails
<1>11. CASE AwaitCi(t)
  <2>k. CalmKept
    BY <1>11 DEF AwaitCi, journal, github, CalmKept
  <2>1. pending[t] = NoEvent /\ pc[t] = "await_ci"
    BY <1>11 DEF AwaitCi, At
  <2>2. AppendStage(t, Ev("CI_PENDING", local[t].head, ""), "idle", NoLocals)
    BY <1>11 DEF AwaitCi
  <2>3. "CI_PENDING" \in Allowed(stage) \/ Rests(stage, Current)
    BY <1>b, <2>1 DEF Rests, Allowed, OnItsWay, RunPoint, HealthPoint, OpenPoint
  <2>4. "CI_PENDING" \in Allowed(stage) => stage = "COMMIT_BOUND"
    BY <1>a DEF Allowed, Stages
  <2>5. "CI_PENDING" \in Allowed(stage) => OnItsWay("idle", NoLocals, "CI_PENDING", Current)
    BY <1>b, <2>1, <2>4 DEF OnItsWay, RunPoint, HealthPoint, OpenPoint
  <2> QED BY <1>a, <2>k, <2>1, <2>2, <2>3, <2>5, AppendStageCalm DEF Stages
<1>12. CASE Fail(t)
  <2>k. CalmKept
    BY <1>12 DEF Fail, journal, github, CalmKept
  <2>1. pending[t] = NoEvent /\ pc[t] = "fail" /\ "FAILED" \in Allowed(stage)
    BY <1>12, <1>b DEF Fail, At, Knows
  <2>2. AppendStage(t, Ev("FAILED", 0, ""), "fail_outcome", local[t])
    <3>1. AppendEvidence(t, Ev("FAILED", 0, ""), "fail_outcome", local[t])
      BY <1>12, <2>1 DEF Fail
    <3>2. Ev("FAILED", 0, "").event = "FAILED"
      BY DEF Ev
    <3> QED BY <2>1, <3>1, <3>2 DEF AppendStage
  <2>3. stage # "PR_OPENED"
    BY <1>12 DEF Fail
  <2>4. OnItsWay("fail_outcome", local[t], "FAILED", Current)
    BY <1>b, <2>1, <2>3 DEF OnItsWay, RunPoint, HealthPoint, OpenPoint
  <2> QED BY <1>a, <2>k, <2>1, <2>2, <2>4, AppendStageCalm DEF Stages
<1>13. CASE FailOutcome(t)
  <2>k. CalmKept
    BY <1>13 DEF FailOutcome, journal, github, CalmKept
  <2>1. pending[t] = NoEvent /\ pc[t] = "fail_outcome" /\ stage = "FAILED"
    BY <1>13, <1>b DEF FailOutcome, At, Knows, Allowed
  <2> DEFINE e == Ev("OUTCOME", 0, "FAILED")
  <2>2. AppendEvidence(t, e, local[t].then, NoLocals)
    BY <1>13 DEF FailOutcome
  <2>3. e.event \notin Stages \cup Snapshots
    BY DEF Ev, Stages, Snapshots
  <2>4. local[t].then \in {"idle", "health"}
    BY <1>a DEF Locals
  <2>5. OnItsWay(local[t].then, NoLocals, stage, Current)
    BY <1>b, <2>1, <2>4 DEF OnItsWay, RunPoint, HealthPoint, OpenPoint
  <2> HIDE DEF e
  <2> QED BY <1>a, <2>k, <2>2, <2>3, <2>5, AsideCalm
<1>14. CASE RefreshBranch(t)
  <2>k. CalmKept
    BY <1>14 DEF RefreshBranch, journal, github, CalmKept
  <2>1. pending[t] = NoEvent /\ pc[t] = "refresh_branch" /\ IsBound(local[t].head)
    BY <1>14 DEF RefreshBranch, At, HeadInv, HeadOK, HeadPoint
  <2> DEFINE l == [local[t] EXCEPT !.exact = (branch = local[t].head)]
  <2>2. l.then = local[t].then /\ (l.exact <=> branch = local[t].head)
    BY <1>a DEF Locals
  <2>3. Goto(t, "refresh_ci", l)
    BY <1>14 DEF RefreshBranch
  <2> HIDE DEF l
  <2>4. ~Pushes => l.exact
    BY <2>1, <2>2 DEF CalmInv, CalmView, IsBound
  <2>5. stage \in CiStages
    BY <1>b, <2>1 DEF Knows
  <2>6. OnItsWay("refresh_ci", l, stage, Current)
    BY <1>b, <2>1, <2>2, <2>4, <2>5 DEF OnItsWay, RunPoint, HealthPoint, OpenPoint, CiStages
  <2> QED BY <1>a, <2>k, <2>1, <2>3, <2>6, GotoCalm
<1>15. CASE RefreshCi(t)
  <2>k. CalmKept
    BY <1>15 DEF RefreshCi, journal, github, CalmKept
  <2>1. /\ pending[t] = NoEvent /\ pc[t] = "refresh_ci" /\ stage \in CiStages
    BY <1>15, <1>b DEF RefreshCi, At, Knows
  <2>2. PICK ci \in CiStates :
            AppendEvidence(t, Ev("CI_SNAPSHOT", local[t].head, ci), "validate",
                           [local[t] EXCEPT !.ci = ci])
    BY <1>15 DEF RefreshCi
  <2> DEFINE l == [local[t] EXCEPT !.ci = ci]
             e == Ev("CI_SNAPSHOT", local[t].head, ci)
  <2>3. /\ l.then = local[t].then /\ l.exact = local[t].exact
        /\ AppendEvidence(t, e, "validate", l)
    BY <1>a, <2>2 DEF Locals
  <2>4. e.event \notin Stages \cup Snapshots
    BY DEF Ev, Stages, Snapshots
  <2> HIDE DEF l, e
  <2>5. OnItsWay("validate", l, stage, Current)
    BY <1>b, <2>1, <2>3 DEF OnItsWay, RunPoint, HealthPoint, OpenPoint, CiStages
  <2> QED BY <1>a, <2>k, <2>3, <2>4, <2>5, AsideCalm
<1>16. CASE RefreshValidators(t)
  <2>k. CalmKept
    BY <1>16 DEF RefreshValidators, journal, github, CalmKept
  <2>1. /\ pending[t] = NoEvent /\ pc[t] = "validate" /\ stage \in CiStages
    BY <1>16, <1>b DEF RefreshValidators, At, Knows
  <2>2. PICK status :
            AppendEvidence(t, Ev("VALIDATOR_SNAPSHOT", local[t].head, status), "decide",
                           [local[t] EXCEPT !.status = status])
    BY <1>16 DEF RefreshValidators
  <2> DEFINE l == [local[t] EXCEPT !.status = status]
             e == Ev("VALIDATOR_SNAPSHOT", local[t].head, status)
  <2>3. /\ l.then = local[t].then /\ l.exact = local[t].exact
        /\ AppendEvidence(t, e, "decide", l)
    BY <1>a, <2>2 DEF Locals
  <2>4. e.event = "VALIDATOR_SNAPSHOT"
    BY DEF Ev
  <2> HIDE DEF l, e
  <2>5. Becomes(stage, e) = stage /\ CalmPending(e)
    BY <2>4 DEF Becomes, CalmPending, Stages
  <2>6. OnItsWay("decide", l, stage, CurrentAfter(e))
    BY <1>b, <2>1, <2>3 DEF OnItsWay, RunPoint, HealthPoint, OpenPoint, CiStages
  <2>7. CalmAt("decide", l, e)
    BY <2>5, <2>6 DEF CalmAt
  <2> QED BY <1>a, <2>k, <2>3, <2>7, AppendEvidenceCalm
<1>17. CASE DecideVerified(t)
  <2>k. CalmKept
    BY <1>17 DEF DecideVerified, journal, github, CalmKept
  <2>1. pending[t] = NoEvent /\ pc[t] = "decide" /\ stage \in CiStages
    BY <1>17, <1>b DEF DecideVerified, At, Knows
  <2>2. CASE local[t].exact
    <3>1. OnItsWay("health", NoLocals, stage, Current)
      BY <1>b, <2>1 DEF OnItsWay, RunPoint, HealthPoint, OpenPoint, CiStages
    <3> QED BY <1>17, <1>a, <2>k, <2>1, <2>2, <3>1, GotoCalm DEF DecideVerified
  <2>3. CASE ~local[t].exact
    <3>1. Rests(stage, Current)
      BY <1>b, <2>1, <2>3 DEF Rests, OnItsWay, RunPoint, HealthPoint, OpenPoint, CiStages
    <3> QED BY <1>17, <1>a, <2>k, <2>1, <2>3, <3>1, ReturnCalm DEF DecideVerified
  <2> QED BY <2>2, <2>3
<1>18. CASE DecideFailed(t)
  <2>k. CalmKept
    BY <1>18 DEF DecideFailed, journal, github, CalmKept
  <2>1. pending[t] = NoEvent /\ pc[t] = "decide" /\ stage \in CiStages
    BY <1>18, <1>b DEF DecideFailed, At, Knows
  <2>2. OnItsWay("fail", local[t], stage, Current)
    BY <1>b, <2>1 DEF OnItsWay, RunPoint, HealthPoint, OpenPoint, CiStages
  <2> QED BY <1>18, <1>a, <2>k, <2>1, <2>2, GotoCalm DEF DecideFailed
<1>19. CASE ReviewCi(t)
  <2>k. CalmKept
    BY <1>19 DEF ReviewCi, journal, github, CalmKept
  <2>1. pending[t] = NoEvent /\ pc[t] = "decide" /\ stage = "CI_PENDING"
    BY <1>19, <1>b DEF ReviewCi, At, Knows
  <2> DEFINE l == [local[t] EXCEPT !.from = "CI_REVIEWED"]
  <2>2. /\ l.then = local[t].then /\ l.exact = local[t].exact
        /\ AppendStage(t, Ev("CI_REVIEWED", local[t].head, ""), "decide", l)
    BY <1>19, <1>a DEF Locals, ReviewCi
  <2> HIDE DEF l
  <2>3. "CI_REVIEWED" \in Allowed(stage)
    BY <2>1 DEF Allowed
  <2>4. OnItsWay("decide", l, "CI_REVIEWED", Current)
    BY <1>b, <2>1, <2>2 DEF OnItsWay, RunPoint, HealthPoint, OpenPoint
  <2> QED BY <1>a, <2>k, <2>1, <2>2, <2>3, <2>4, AppendStageCalm DEF Stages
<1>20. CASE ReviewValidators(t)
  <2>k. CalmKept
    BY <1>20 DEF ReviewValidators, journal, github, CalmKept
  <2>1. pending[t] = NoEvent /\ pc[t] = "decide" /\ stage = "CI_REVIEWED"
    BY <1>20, <1>b DEF ReviewValidators, At, Knows
  <2> DEFINE l == [local[t] EXCEPT !.from = "VALIDATORS_REVIEWED"]
  <2>2. /\ l.then = local[t].then /\ l.exact = local[t].exact
        /\ AppendStage(t, Ev("VALIDATORS_REVIEWED", local[t].head, ""), "decide", l)
    BY <1>20, <1>a DEF Locals, ReviewValidators
  <2> HIDE DEF l
  <2>3. "VALIDATORS_REVIEWED" \in Allowed(stage)
    BY <2>1 DEF Allowed
  <2>4. OnItsWay("decide", l, "VALIDATORS_REVIEWED", Current)
    BY <1>b, <2>1, <2>2 DEF OnItsWay, RunPoint, HealthPoint, OpenPoint
  <2> QED BY <1>a, <2>k, <2>1, <2>2, <2>3, <2>4, AppendStageCalm DEF Stages
<1>21. CASE Verify(t)
  <2>k. CalmKept
    BY <1>21 DEF Verify, journal, github, CalmKept
  <2>1. pending[t] = NoEvent /\ pc[t] = "decide" /\ stage = "VALIDATORS_REVIEWED"
    BY <1>21, <1>b DEF Verify, Verified, At, Knows
  <2>2. AppendStage(t, Ev("VERIFIED_SUCCESS", local[t].head, ""), "verified", local[t])
    BY <1>21 DEF Verify
  <2>3. "VERIFIED_SUCCESS" \in Allowed(stage)
    BY <2>1 DEF Allowed
  <2>4. OnItsWay("verified", local[t], "VERIFIED_SUCCESS", Current)
    BY <1>b, <2>1 DEF OnItsWay, RunPoint, HealthPoint, OpenPoint
  <2> QED BY <1>a, <2>k, <2>1, <2>2, <2>3, <2>4, AppendStageCalm DEF Stages
<1>22. CASE VerifiedOutcome(t)
  <2>k. CalmKept
    BY <1>22 DEF VerifiedOutcome, journal, github, CalmKept
  <2>1. pending[t] = NoEvent /\ pc[t] = "verified" /\ stage = "VERIFIED_SUCCESS"
    BY <1>22, <1>b DEF VerifiedOutcome, At, Knows
  <2> DEFINE e == Ev("OUTCOME", 0, "VERIFIED_SUCCESS")
  <2>2. AppendEvidence(t, e, "health", NoLocals)
    BY <1>22 DEF VerifiedOutcome
  <2>3. e.event \notin Stages \cup Snapshots
    BY DEF Ev, Stages, Snapshots
  <2> HIDE DEF e
  <2>4. OnItsWay("health", NoLocals, stage, Current)
    BY <1>b, <2>1 DEF OnItsWay, RunPoint, HealthPoint, OpenPoint, CiStages
  <2> QED BY <1>a, <2>k, <2>2, <2>3, <2>4, AsideCalm
<1>23. CASE Undecided(t)
  <2>k. CalmKept
    BY <1>23 DEF Undecided, journal, github, CalmKept
  <2>1. pending[t] = NoEvent /\ pc[t] = "decide" /\ stage \in CiStages
    BY <1>23, <1>b DEF Undecided, At, Knows
  <2> DEFINE e == Ev("OUTCOME", 0, OpenOutcome(local[t]))
  <2>2. AppendEvidence(t, e, "health", NoLocals)
    BY <1>23 DEF Undecided
  <2>3. e.event \notin Stages \cup Snapshots
    BY DEF Ev, Stages, Snapshots
  <2> HIDE DEF e
  <2>4. OnItsWay("health", NoLocals, stage, Current)
    BY <1>b, <2>1 DEF OnItsWay, RunPoint, HealthPoint, OpenPoint, CiStages
  <2> QED BY <1>a, <2>k, <2>2, <2>3, <2>4, AsideCalm
<1>24. CASE RecordHealth(t)
  <2>k. CalmKept
    BY <1>24 DEF RecordHealth, journal, github, CalmKept
  <2> DEFINE e == [event |-> "VALIDATOR_HEALTH_SNAPSHOT", head |-> Latest.head,
                   note |-> HealthOf(Latest.note), source |-> Latest.source]
  <2>1. pending[t] = NoEvent /\ pc[t] = "health"
    BY <1>24 DEF RecordHealth, At
  <2>2. \/ /\ Return(t)
           /\ Latest = NoEvent \/ Health.source = Latest.source
        \/ Latest # NoEvent /\ AppendEvidence(t, e, "idle", NoLocals)
    BY <1>24 DEF RecordHealth, Latest
  <2>3. /\ e.event = "VALIDATOR_HEALTH_SNAPSHOT"
        /\ e.note = HealthOf(Latest.note) /\ e.source = Latest.source
    OBVIOUS
  <2> HIDE DEF e
  <2>4. CASE Return(t) /\ (Latest = NoEvent \/ Health.source = Latest.source)
    <3>1. Current
      BY <2>4 DEF CalmInv, CalmView, Judges, Current
    <3>2. Rests(stage, Current)
      BY <1>b, <2>1, <3>1 DEF Rests, OnItsWay, RunPoint, HealthPoint, OpenPoint
    <3> QED BY <1>a, <2>k, <2>1, <2>4, <3>2, ReturnCalm
  <2>5. CASE Latest # NoEvent /\ AppendEvidence(t, e, "idle", NoLocals)
    <3>1. Judges(e)
      <4>1. Latest.source = snapshots /\ snapshots \in Nat
        BY DEF CalmInv, CalmView, TypeOK
      <4> QED BY <2>3, <2>5, <4>1 DEF Judges
    <3>2. Becomes(stage, e) = stage /\ CurrentAfter(e) /\ CalmPending(e)
      BY <2>3, <3>1 DEF Becomes, CurrentAfter, CalmPending, Stages
    <3>3. OnItsWay("idle", NoLocals, stage, CurrentAfter(e))
      BY <1>b, <2>1, <3>2 DEF OnItsWay, RunPoint, HealthPoint, OpenPoint
    <3>4. CalmAt("idle", NoLocals, e)
      BY <3>2, <3>3 DEF CalmAt
    <3> QED BY <1>a, <2>k, <2>5, <3>4, AppendEvidenceCalm
  <2> QED BY <2>2, <2>4, <2>5
<1>25. CASE ReviewBranch(t)
  <2>k. CalmKept
    BY <1>25 DEF ReviewBranch, journal, github, CalmKept
  <2>1. pending[t] = NoEvent /\ Rests(stage, Current)
    BY <1>25, <1>c DEF ReviewBranch, At, Busy
  <2>2. OnItsWay("review_compare", local[t], stage, Current)
    BY <2>1, RestPoint DEF Busy
  <2> QED BY <1>25, <1>a, <2>k, <2>1, <2>2, GotoCalm, ReturnCalm DEF ReviewBranch
<1>26. CASE ReviewCompare(t)
  <2>k. CalmKept
    BY <1>26 DEF ReviewCompare, journal, github, CalmKept
  <2>1. pending[t] = NoEvent /\ Rests(stage, Current)
    BY <1>26, <1>c DEF ReviewCompare, At, Busy
  <2>2. PICK d \in Digests :
            \/ Return(t)
            \/ AppendEvidence(t, Ev("REVIEW_SNAPSHOT", local[t].head, d), "idle", NoLocals)
    BY <1>26 DEF ReviewCompare
  <2> DEFINE e == Ev("REVIEW_SNAPSHOT", local[t].head, d)
  <2>3. Return(t) \/ AppendEvidence(t, e, "idle", NoLocals)
    BY <2>2
  <2>4. e.event \notin Stages \cup Snapshots
    BY DEF Ev, Stages, Snapshots
  <2>5. OnItsWay("idle", NoLocals, stage, Current)
    BY <2>1, RestPoint DEF Busy
  <2> HIDE DEF e
  <2> QED BY <1>a, <2>k, <2>1, <2>3, <2>4, <2>5, ReturnCalm, AsideCalm
<1>27. CASE AckBranch(t)
  <2>k. CalmKept
    BY <1>27 DEF AckBranch, journal, github, CalmKept
  <2>1. pending[t] = NoEvent /\ Rests(stage, Current)
    BY <1>27, <1>c DEF AckBranch, At, Busy
  <2> DEFINE e == Ev("REVIEW_ACKNOWLEDGED", local[t].head, local[t].digest)
  <2>2. Return(t) \/ AppendEvidence(t, e, "idle", NoLocals)
    BY <1>27 DEF AckBranch
  <2>3. e.event \notin Stages \cup Snapshots
    BY DEF Ev, Stages, Snapshots
  <2>4. OnItsWay("idle", NoLocals, stage, Current)
    BY <2>1, RestPoint DEF Busy
  <2> HIDE DEF e
  <2> QED BY <1>a, <2>k, <2>1, <2>2, <2>3, <2>4, ReturnCalm, AsideCalm
<1>28. CASE PrBranch(t)
  <2>k. CalmKept
    BY <1>28 DEF PrBranch, journal, github, CalmKept
  <2>1. pending[t] = NoEvent /\ pc[t] = "pr_branch"
    BY <1>28 DEF PrBranch, At
  <2>2. OnItsWay("pr_create", local[t], stage, Current)
    BY <1>b, <2>1 DEF OnItsWay, RunPoint, HealthPoint, OpenPoint
  <2>3. Rests(stage, Current)
    BY <1>b, <2>1 DEF Rests, OnItsWay, RunPoint, HealthPoint, OpenPoint
  <2> QED BY <1>28, <1>a, <2>k, <2>1, <2>2, <2>3, GotoCalm, ReturnCalm DEF PrBranch
<1>29. CASE PrCreate(t)
  <2>1. pending[t] = NoEvent /\ pc[t] = "pr_create" /\ stage = "VERIFIED_SUCCESS"
    BY <1>29, <1>b DEF PrCreate, At, OnItsWay, RunPoint, HealthPoint, OpenPoint
  <2>2. CASE opened # {}
    <3>1. CalmKept /\ Return(t)
      BY <1>29, <2>2 DEF PrCreate, journal, CalmKept
    <3>2. Rests(stage, Current)
      BY <1>b, <2>1 DEF Rests, OnItsWay, RunPoint, HealthPoint, OpenPoint
    <3> QED BY <1>a, <2>1, <3>1, <3>2, ReturnCalm
  <2>3. CASE opened = {}
    <3>1. /\ opened' = {branch} /\ Goto(t, "pr_readback", local[t])
          /\ UNCHANGED <<stage, latest, snapshots, created, branch>>
      BY <1>29, <2>3 DEF PrCreate, journal
    <3>2. pc'[t] = "pr_readback" /\ local'[t] = local[t] /\ pending'[t] = NoEvent
      BY <1>a, <2>1, <3>1 DEF Goto, ThreadsOK
    <3>3. Current' <=> Current
      BY <3>1 DEF Current, Latest, Health
    <3>4. OnItsWay(pc[t], local[t], stage, Current)'
      BY <1>b, <2>1, <3>1, <3>2, <3>3 DEF OnItsWay, RunPoint, HealthPoint, OpenPoint
    <3>5. CalmView'
      BY <3>1, <1>o, <2>1 DEF CalmInv, CalmView, Judges, Latest, Health, Commit
    <3> QED BY <3>2, <3>4, <3>5, SettledCalm
  <2> QED BY <2>2, <2>3
<1>30. CASE PrCreateUnanswered(t)
  <2>1. /\ pending[t] = NoEvent /\ pc[t] = "pr_create" /\ stage = "VERIFIED_SUCCESS" /\ Faults
        /\ opened' = {branch} /\ Return(t)
        /\ UNCHANGED <<stage, latest, snapshots, created, branch>>
    BY <1>30, <1>b DEF PrCreateUnanswered, At, journal, OnItsWay, RunPoint, HealthPoint, OpenPoint
  <2>2. pc'[t] = "idle" /\ pending'[t] = NoEvent
    BY <1>a, <2>1 DEF Return, ThreadsOK
  <2>3. Current' <=> Current
    BY <2>1 DEF Current, Latest, Health
  <2>4. Rests(stage, Current)'
    BY <1>b, <2>1, <2>3 DEF Rests, OnItsWay, RunPoint, HealthPoint, OpenPoint
  <2>5. CalmView'
    BY <2>1, <1>o DEF CalmInv, CalmView, Judges, Latest, Health, Commit
  <2> QED BY <2>2, <2>4, <2>5, RestsCalm DEF Busy
<1>31. CASE PrReadBack(t)
  <2>k. CalmKept
    BY <1>31 DEF PrReadBack, journal, github, CalmKept
  <2>1. pending[t] = NoEvent /\ pc[t] = "pr_readback" /\ stage = "VERIFIED_SUCCESS"
    BY <1>31, <1>b DEF PrReadBack, At, OnItsWay, RunPoint, HealthPoint, OpenPoint
  <2>2. CASE branch = local[t].head
    <3>1. AppendStage(t, Ev("PR_OPENED", branch, ""), "pr_snapshot", local[t])
      BY <1>31, <2>2 DEF PrReadBack
    <3>2. "PR_OPENED" \in Allowed(stage)
      BY <2>1 DEF Allowed
    <3>3. OnItsWay("pr_snapshot", local[t], "PR_OPENED", Current)
      BY <1>b, <2>1 DEF OnItsWay, RunPoint, HealthPoint, OpenPoint
    <3> QED BY <1>a, <2>k, <2>1, <3>1, <3>2, <3>3, AppendStageCalm DEF Stages
  <2>3. CASE branch # local[t].head
    <3>1. Rests(stage, Current)
      BY <1>b, <2>1, <2>3 DEF Rests, OnItsWay, RunPoint, HealthPoint, OpenPoint
    <3> QED BY <1>31, <1>a, <2>k, <2>1, <2>3, <3>1, ReturnCalm DEF PrReadBack
  <2> QED BY <2>2, <2>3
<1>32. CASE PrSnapshot(t)
  <2>k. CalmKept
    BY <1>32 DEF PrSnapshot, journal, github, CalmKept
  <2>1. pending[t] = NoEvent /\ Rests(stage, Current)
    BY <1>32, <1>c DEF PrSnapshot, At, Busy
  <2> DEFINE e == Ev("PR_REVIEW_SNAPSHOT", local[t].head, "opened")
  <2>2. Return(t) \/ AppendEvidence(t, e, "idle", NoLocals)
    BY <1>32 DEF PrSnapshot
  <2>3. e.event \notin Stages \cup Snapshots
    BY DEF Ev, Stages, Snapshots
  <2>4. OnItsWay("idle", NoLocals, stage, Current)
    BY <2>1, RestPoint DEF Busy
  <2> HIDE DEF e
  <2> QED BY <1>a, <2>k, <2>1, <2>2, <2>3, <2>4, ReturnCalm, AsideCalm
<1>33. CASE PrReview(t)
  <2>k. CalmKept
    BY <1>33 DEF PrReview, journal, github, CalmKept
  <2>1. pending[t] = NoEvent /\ Rests(stage, Current)
    BY <1>33, <1>c DEF PrReview, At, Busy
  <2> DEFINE e == Ev("PR_REVIEW_SNAPSHOT", local[t].head, "refreshed")
  <2>2. Return(t) \/ AppendEvidence(t, e, "idle", NoLocals)
    BY <1>33 DEF PrReview
  <2>3. e.event \notin Stages \cup Snapshots
    BY DEF Ev, Stages, Snapshots
  <2>4. OnItsWay("idle", NoLocals, stage, Current)
    BY <2>1, RestPoint DEF Busy
  <2> HIDE DEF e
  <2> QED BY <1>a, <2>k, <2>1, <2>2, <2>3, <2>4, ReturnCalm, AsideCalm
<1>34. CASE GitHubRaises(t)
  <2>k. CalmKept
    BY <1>34 DEF GitHubRaises, journal, github, CalmKept
  <2>1. pending[t] = NoEvent /\ pc[t] \in GitHubCalls /\ Faults /\ Return(t)
    BY <1>34 DEF GitHubRaises
  <2>2. Rests(stage, Current)
    BY <1>b, <2>1 DEF Rests, OnItsWay, RunPoint, HealthPoint, OpenPoint, GitHubCalls
  <2> QED BY <1>a, <2>k, <2>1, <2>2, ReturnCalm
<1> QED
  BY <1>1, <1>2, <1>3, <1>4, <1>5, <1>6, <1>7, <1>8, <1>9, <1>10,
     <1>11, <1>12, <1>13, <1>14, <1>15, <1>16, <1>17, <1>18, <1>19, <1>20,
     <1>21, <1>22, <1>23, <1>24, <1>25, <1>26, <1>27, <1>28, <1>29, <1>30,
     <1>31, <1>32, <1>33, <1>34 DEF Step

LEMMA NextCalm ==
    ASSUME Calm, TypeOK, SerialInv, HeadInv, CalmInv, [Next]_vars
    PROVE  CalmInv'
<1>1. CASE \E t \in Threads : Request(t) \/ Step(t)
  BY <1>1, RequestCalm, StepCalm DEF Calm
<1>2. CASE PushByOthers
  <2>1. Pushes /\ UNCHANGED <<stage, latest, snapshots, created, opened, pc, local, pending>>
    BY <1>2 DEF PushByOthers, journal, threads
  <2>2. CalmView'
    BY <2>1 DEF CalmInv, CalmView, Judges, Latest, Health, Commit
  <2>3. ASSUME NEW t \in Threads PROVE CalmAt(pc[t], local[t], pending[t])'
    <3>1. CalmAt(pc[t], local[t], pending[t])
      BY DEF CalmInv
    <3> QED BY <2>1, <3>1
         DEF CalmAt, OnItsWay, RunPoint, HealthPoint, OpenPoint, CalmPending,
             CurrentAfter, Becomes, Judges, Latest, Health
  <2> QED BY <2>2, <2>3 DEF CalmInv
<1>3. CASE Expire
  BY <1>3, IdleCalm DEF Expire
<1>4. CASE Restart
  BY <1>4 DEF Restart, Calm
<1>5. CASE UNCHANGED vars
  BY <1>5, IdleCalm DEF vars
<1> QED BY <1>1, <1>2, <1>3, <1>4, <1>5 DEF Next

LEMMA InitCalm == Init => CalmInv
<1> SUFFICES ASSUME Init PROVE CalmInv
  OBVIOUS
<1>1. Latest = NoEvent /\ Health = NoEvent /\ Commit = NoEvent /\ NoEvent.source = 0
  BY DEF Init, Latest, Health, Commit, Kinds, NoEvent
<1>2. Rests(stage, Current)
  BY <1>1 DEF Init, Rests, Current
<1>3. ASSUME NEW t \in Threads PROVE CalmAt(pc[t], local[t], pending[t])
  <2>1. pc[t] = "idle" /\ pending[t] = NoEvent
    BY DEF Init
  <2>2. OnItsWay(pc[t], local[t], stage, Current)
    BY <1>2, <2>1, RestPoint DEF Busy
  <2> QED BY <2>1, <2>2, NothingPendingCalm, NothingFollows DEF CalmAt, OnItsWay, HealthPoint
<1> QED BY <1>1, <1>3 DEF Init, CalmInv, CalmView

LEMMA CalmAlways ==
    ASSUME Calm
    PROVE  Spec => [](CalmInv /\ SerialInv /\ TypeOK)
<1>1. Serial
  BY DEF Calm
<1> QED BY <1>1, TypeCorrect, EvidenceAlways, SerialAlways, InitHeads, NextHeads,
           InitCalm, NextCalm, PTL DEF Spec

\* Between two requests a calm task is at rest.
LEMMA CalmRests ==
    ASSUME Calm, CalmInv, Quiet
    PROVE  Rests(stage, Current)
<1>1. PICK t \in Threads : TRUE
  BY DEF Calm
<1>2. pending[t] = NoEvent /\ pc[t] = "idle"
  BY DEF Quiet, Idle
<1> QED BY <1>2, PointNow, RestPoint DEF Busy

\* If nobody else pushes, the health that the gate of open_pull_request reads
\* is of the latest validator snapshot whenever no request is under way:
\* _record_validator_health runs at the end of each refresh, however it ends.
\* (With pushes a refresh of a verified task may raise before.)
THEOREM CalmHealth ==
    ASSUME Calm, ~Pushes
    PROVE  Spec => []HealthIsCurrent
<1>1. CalmInv => HealthIsCurrent
  BY CalmRests DEF HealthIsCurrent, Rests, Current, Latest
<1> QED BY <1>1, CalmAlways, PTL

\* ... so the gates of APP3, APP4 and APP6 never let a task through whose
\* latest validator snapshot did not pass.
THEOREM CalmGate ==
    ASSUME Calm, ~Pushes
    PROVE  Spec => []GateSeesLatest
<1>1. CalmInv /\ TypeOK => GateSeesLatest
  <2> SUFFICES ASSUME CalmInv, TypeOK, Quiet, OpenGates PROVE Latest.note = "PASS"
    BY DEF GateSeesLatest, Latest
  <2>1. Current
    BY CalmRests DEF Rests
  <2>2. Health.note = "HEALTHY" /\ Health # NoEvent
    <3>1. NoEvent.note = ""
      BY DEF NoEvent
    <3> QED BY <3>1 DEF OpenGates, FreshHealthy
  <2>3. Latest # NoEvent /\ HealthOf(Latest.note) = "HEALTHY"
    BY <2>1, <2>2 DEF CalmInv, CalmView, Judges, Current
  <2>4. Latest \in Event /\ Latest.event = "VALIDATOR_SNAPSHOT"
    BY <2>3 DEF TypeOK, Latest, Kinds
  <2>5. Latest.note \in ValidatorStates
    BY <2>4 DEF Event
  <2> QED BY <2>3, <2>5 DEF HealthOf, ValidatorStates
<1> QED BY <1>1, CalmAlways, PTL

\* A run that raised can be resumed (run goes on from PREVIEWED, BRANCH_CREATED
\* and AGENT_RUNNING only): if no answer of GitHub is lost, the branch of a task
\* still at PREVIEWED does not exist, and no task is left at AGENT_COMPLETED.
THEOREM CalmResume ==
    ASSUME Calm, ~Faults
    PROVE  Spec => []RunResumable
<1>1. CalmInv => RunResumable
  BY CalmRests DEF RunResumable, Rests
<1> QED BY <1>1, CalmAlways, PTL

\* A task that run returns for or raises out of is never left at COMMIT_BOUND,
\* where run takes it for completed and refresh_evidence refuses it: run appends
\* CI_PENDING right after COMMIT_BOUND, whatever GitHub does and others push.
THEOREM CalmRefresh ==
    ASSUME Calm
    PROVE  Spec => []CompletedIsRefreshable
<1>1. CalmInv => CompletedIsRefreshable
  BY CalmRests DEF CompletedIsRefreshable, Rests
<1> QED BY <1>1, CalmAlways, PTL

\* If no answer is lost and nobody else pushes, open_pull_request returns with
\* the pull request on GitHub and PR_OPENED on record, of the head it was opened
\* at, or with neither.
THEOREM CalmPull ==
    ASSUME Calm, ~Faults, ~Pushes
    PROVE  Spec => []PullRecorded
<1>s. Serial
  BY DEF Calm
<1>1. CalmInv /\ HeadInv => PullRecorded
  <2> SUFFICES ASSUME CalmInv, HeadInv, Quiet
               PROVE  opened = IF stage = "PR_OPENED"
                                 THEN {latest["PR_OPENED"].head} ELSE {}
    BY DEF PullRecorded
  <2>1. stage = "PR_OPENED" <=> opened # {}
    BY CalmRests DEF Rests
  <2>2. CASE stage = "PR_OPENED"
    <3>1. VerifiedHead(recorded, latest["PR_OPENED"].head)
      BY <2>2 DEF CalmInv, CalmView, HeadInv, HeadView, PullHeadVerified, PullKinds
    <3>2. latest["PR_OPENED"].head = Commit.head
      BY <3>1, VerifiedIsBound DEF HeadInv, IsBound
    <3>3. opened \subseteq {Commit.head}
      BY DEF CalmInv, CalmView
    <3> QED BY <2>1, <2>2, <3>2, <3>3
  <2> QED BY <2>1, <2>2
<1> QED BY <1>1, <1>s, CalmAlways, HeadAlways, PTL

\* If nobody else pushes, the head at which GitHub opens a pull request is one
\* that was verified, found healthy, reviewed and acknowledged, even if the
\* answer is lost or the read-back raises and the opening is never recorded.
THEOREM CalmOpened ==
    ASSUME Calm, ~Pushes
    PROVE  Spec => [](\A h \in opened : VerifiedHead(recorded, h))
<1>s. Serial
  BY DEF Calm
<1>1. CalmInv /\ HeadInv => \A h \in opened : VerifiedHead(recorded, h)
  BY DEF CalmInv, CalmView, HeadInv, HeadView
<1> QED BY <1>1, <1>s, CalmAlways, HeadAlways, PTL
=============================================================================
