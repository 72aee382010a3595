------------------------- MODULE CrossProjectProofs -------------------------
(***************************************************************************)
(* Theorems about CrossProject for any plans, models, specialists, budgets *)
(* and any number of items, commits and restarts.                          *)
(***************************************************************************)
EXTENDS CrossProject, SequenceTheorems, FiniteSetTheorems, TLAPS

-----------------------------------------------------------------------------
(* The gate.                                                                *)

LEMMA OneOfThree ==
    ASSUME NEW a, NEW b, NEW c, Cardinality({a, b, c}) = 1
    PROVE  a = b /\ a = c
<1>1. IsFiniteSet({a} \cup {b}) /\ {a} \cup {b} = {a, b}
  BY FS_Singleton, FS_AddElement
<1>2. IsFiniteSet({a, b} \cup {c}) /\ {a, b} \cup {c} = {a, b, c}
  BY <1>1, FS_AddElement
<1>3. PICK x : {a, b, c} = {x}
  BY <1>2, FS_Singleton
<1> QED BY <1>3

\* A report that accepts stands for three passes of one artifact at one commit,
\* and its critic is another model that was given words of its own
\* (DisagreementGate.evaluate), whatever the claims say of themselves.
THEOREM AcceptIsUnanimous ==
    ASSUME NEW producer, NEW validator, NEW critic,
           GateDisposition(producer, validator, critic) = "accept"
    PROVE  /\ Independent(producer, critic)
           /\ \A c \in {producer, validator, critic} :
                  /\ c.verdict = "pass"
                  /\ c.item = producer.item /\ c.commit = producer.commit
                  /\ c.artifact = producer.artifact
<1> DEFINE claims   == {producer, validator, critic}
           verdicts == {c.verdict : c \in claims}
           bindings == {<<c.item, c.commit, c.artifact>> : c \in claims}
           bound(c) == <<c.item, c.commit, c.artifact>>
<1>1. /\ verdicts = {"pass"} /\ SameBinding(claims)
      /\ Independent(producer, critic)
  BY DEF GateDisposition
<1>2. bindings = {bound(producer), bound(validator), bound(critic)}
  OBVIOUS
<1>3. Cardinality({bound(producer), bound(validator), bound(critic)}) = 1
  BY <1>1, <1>2 DEF SameBinding
<1>4. bound(producer) = bound(validator) /\ bound(producer) = bound(critic)
  BY <1>3, OneOfThree
<1> QED BY <1>1, <1>4
-----------------------------------------------------------------------------
(* The host and its repositories: what is known of the task and the call in *)
(* progress.                                                                *)

CycleTypes == /\ made \in [Items -> Commits]
              /\ main \in [Items -> Commits]
              /\ branch \in [Items -> Commits \cup {NoCommit}]
              /\ task \in [Items -> Task]
              /\ job \in Jobs
              /\ DOMAIN held = {"implementation", "validation", "critic", "report"}
              /\ held.implementation \subseteq Implementation
              /\ \A c \in held.validation \cup held.critic : c \in Claim
              /\ \A r \in held.report : r.disposition = "accept"

\* A task that ran has a head and a model for good, and only it is verified.
TaskInv ==
    \A i \in Items :
        /\ task[i].ran => task[i].head \in Commits /\ task[i].model \in Models
        /\ task[i].outcome = "verified_success" => task[i].ran

\* The bridge goes on with the head its task ran on, the toolset with files
\* of the commit it was built for.
JobInv ==
    /\ job.at \in {"refresh", "audit"} => /\ task[job.item].ran
                                         /\ task[job.item].head = job.head
    /\ job.at = "audit" => task[job.item].outcome = "verified_success"
    /\ job.at \in {"turn", "tools"} => job.saw = {job.subject.head}

IsVerified(record) ==
    record.disposition = "verified" =>
        /\ task[record.item].outcome = "verified_success"
        /\ task[record.item].head = record.head

\* What an accepting report holds.
IsAccepting(report) ==
    \A role \in {"validation", "critic"} : \E c \in report.claims :
        /\ c.role = role /\ c.verdict = "pass"
        /\ c.item = report.item /\ c.commit = report.commit
        /\ c.artifact = report.artifact
        /\ role = "critic" => c.model # report.artifact.model

HeldInv == /\ \A record \in held.implementation : IsVerified(record)
           /\ \A report \in held.report : IsAccepting(report)
           /\ NoMovingTarget

CycleInv == CycleTypes /\ TaskInv /\ JobInv /\ HeldInv

\* A verified task stays what it is.
VerifiedStays ==
    \A i \in Items : task[i].outcome = "verified_success" =>
        /\ task'[i].outcome = "verified_success"
        /\ task'[i].head = task[i].head

LEMMA Numbers == /\ Items \subseteq Nat /\ Commits \subseteq Nat
                 /\ BaseSha \in Commits /\ NoCommit \notin Commits
                 /\ MaxTurns \in Nat /\ MaxToolCalls \in Nat
BY ItemCountAssumption, CommitCountAssumption, BudgetAssumption
   DEF Items, Commits, BaseSha, NoCommit

LEMMA NextCommit ==
    ASSUME CycleTypes, NEW i \in Items, made[i] < CommitCount
    PROVE  made[i] + 1 \in Commits
BY CommitCountAssumption DEF CycleTypes, Commits

\* The fields of a call are those of where it is.
LEMMA JobShape ==
    ASSUME job \in Jobs
    PROVE  /\ job.at \in {"run"} => job \in [at : {"run"}, item : Items]
           /\ job.at \in {"refresh", "audit"} =>
                  job \in [at : {"refresh", "audit"}, item : Items, head : Commits,
                          model : Models]
           /\ job.at = "tree" =>
                  job \in [at : {"tree"}, subject : Implementation, who : Specialists]
           /\ job.at \in {"turn", "tools"} =>
                  job \in [at : {"turn", "tools"}, subject : Implementation,
                          who : Specialists, saw : SUBSET Commits,
                          turns : 0 .. MaxTurns, calls : 0 .. MaxToolCalls,
                          pending : 0 .. MaxToolCalls]
BY DEF Jobs

LEMMA IdleJob == Idle \in Jobs /\ Idle.at = "idle"
BY DEF Idle, Jobs

\* Nothing is held that was not, and the task of no item that was verified
\* changes: what is left to show of a step is what it does to the call.
LEMMA HeldKept ==
    ASSUME CycleInv, VerifiedStays, held' = held
    PROVE  HeldInv'
<1>1. ASSUME NEW record \in held.implementation
      PROVE  IsVerified(record)'
  <2>1. record.item \in Items /\ IsVerified(record)
    BY DEF CycleInv, CycleTypes, HeldInv, Implementation
  <2> QED BY <2>1 DEF VerifiedStays, IsVerified
<1> QED BY <1>1 DEF CycleInv, HeldInv, IsAccepting, NoMovingTarget

\* A call that goes on and changes nothing else.
LEMMA CallMoves ==
    ASSUME CycleInv, UNCHANGED <<made, main, branch, task, held>>,
           job' \in Jobs,
           job'.at \in {"refresh", "audit"} =>
               /\ task[job'.item].ran /\ task[job'.item].head = job'.head
               /\ job'.at = "refresh",
           job'.at \in {"turn", "tools"} => job'.saw = {job'.subject.head}
    PROVE  CycleInv' /\ VerifiedStays
<1>1. CycleTypes'
  BY DEF CycleInv, CycleTypes
<1>2. TaskInv' /\ VerifiedStays
  BY DEF CycleInv, TaskInv, VerifiedStays
<1>3. JobInv'
  BY DEF JobInv
<1> QED BY <1>1, <1>2, <1>3, HeldKept DEF CycleInv

\* The bridge returns a record.
LEMMA HoldImplementation ==
    ASSUME CycleInv, VerifiedStays, TaskInv', task' \in [Items -> Task],
           UNCHANGED <<made, main, branch>>, job' = Idle,
           NEW record \in Implementation, IsVerified(record)',
           held' = [held EXCEPT !.implementation = {record}]
    PROVE  CycleInv'
<1>1. /\ held'.implementation = {record} /\ held'.validation = held.validation
      /\ held'.critic = held.critic /\ held'.report = held.report
      /\ DOMAIN held' = DOMAIN held
  BY DEF CycleInv, CycleTypes
<1>2. CycleTypes'
  BY <1>1, IdleJob DEF CycleInv, CycleTypes
<1>3. JobInv'
  BY IdleJob DEF JobInv
<1>4. HeldInv'
  BY <1>1 DEF CycleInv, HeldInv, IsAccepting, NoMovingTarget
<1> QED BY <1>2, <1>3, <1>4 DEF CycleInv

\* A refresh changes the outcome of a task that ran, and that of no verified
\* one.
LEMMA RefreshKeeps ==
    ASSUME CycleInv, NEW i \in Items, task[i].ran, NEW o \in Refreshed(i),
           task' = [task EXCEPT ![i].outcome = o]
    PROVE  /\ TaskInv' /\ VerifiedStays /\ task' \in [Items -> Task]
           /\ o \in Outcomes /\ task'[i].outcome = o
           /\ \A j \in Items : /\ task'[j].ran = task[j].ran
                                /\ task'[j].head = task[j].head
<1>1. task[i].outcome \in Outcomes /\ task \in [Items -> Task]
  BY DEF CycleInv, CycleTypes, Task
<1>2. o \in Outcomes
  BY <1>1, SpecialistsAssumption DEF Refreshed, Outcomes
<1>3. task[i].outcome = "verified_success" => o = "verified_success"
  BY DEF Refreshed
<1>4. /\ task' \in [Items -> Task] /\ task'[i].outcome = o
      /\ task'[i].ran = task[i].ran /\ task'[i].head = task[i].head
      /\ task'[i].model = task[i].model
      /\ \A j \in Items \ {i} : task'[j] = task[j]
  BY <1>1, <1>2 DEF Task
<1>5. TaskInv' /\ VerifiedStays
  BY <1>3, <1>4 DEF CycleInv, TaskInv, VerifiedStays
<1> QED BY <1>2, <1>4, <1>5

\* Pushes, merges and refreshes by others.
LEMMA OthersKeep ==
    ASSUME CycleInv, NEW i \in Items,
           OthersPush(i) \/ BaseMoves(i) \/ OperatorRefresh(i)
    PROVE  CycleInv' /\ VerifiedStays
<1>1. CASE OthersPush(i)
  <2>1. /\ task' = task /\ job' = job /\ held' = held /\ main' = main
        /\ made' = [made EXCEPT ![i] = made[i] + 1]
        /\ branch' = [branch EXCEPT ![i] = made'[i]]
        /\ made[i] + 1 \in Commits
    BY <1>1, NextCommit DEF OthersPush, CycleInv
  <2>2. made' \in [Items -> Commits] /\ made'[i] \in Commits
    BY <2>1 DEF CycleInv, CycleTypes
  <2>3. branch' \in [Items -> Commits \cup {NoCommit}]
    BY <2>1, <2>2 DEF CycleInv, CycleTypes
  <2>4. CycleTypes' /\ TaskInv' /\ JobInv' /\ VerifiedStays
    BY <2>1, <2>2, <2>3
       DEF CycleInv, CycleTypes, TaskInv, JobInv, VerifiedStays, Jobs
  <2> QED BY <2>1, <2>4, HeldKept DEF CycleInv
<1>2. CASE BaseMoves(i)
  <2>1. /\ task' = task /\ job' = job /\ held' = held /\ branch' = branch
        /\ made' = [made EXCEPT ![i] = made[i] + 1]
        /\ main' = [main EXCEPT ![i] = made'[i]]
        /\ made[i] + 1 \in Commits
    BY <1>2, NextCommit DEF BaseMoves, CycleInv
  <2>2. made' \in [Items -> Commits] /\ made'[i] \in Commits
    BY <2>1 DEF CycleInv, CycleTypes
  <2>3. main' \in [Items -> Commits]
    BY <2>1, <2>2 DEF CycleInv, CycleTypes
  <2>4. CycleTypes' /\ TaskInv' /\ JobInv' /\ VerifiedStays
    BY <2>1, <2>2, <2>3
       DEF CycleInv, CycleTypes, TaskInv, JobInv, VerifiedStays, Jobs
  <2> QED BY <2>1, <2>4, HeldKept DEF CycleInv
<1>3. CASE OperatorRefresh(i)
  <2>1. PICK o \in Refreshed(i) : task' = [task EXCEPT ![i].outcome = o]
    BY <1>3 DEF OperatorRefresh
  <2>2. /\ made' = made /\ main' = main /\ branch' = branch /\ job' = job
        /\ held' = held /\ task[i].ran
    BY <1>3 DEF OperatorRefresh
  <2>3. /\ TaskInv' /\ VerifiedStays /\ task' \in [Items -> Task]
        /\ \A j \in Items : /\ task'[j].ran = task[j].ran
                             /\ task'[j].head = task[j].head
    BY <2>1, <2>2, RefreshKeeps DEF CycleInv
  <2>4. CycleTypes'
    BY <2>2, <2>3 DEF CycleInv, CycleTypes, Jobs
  <2>5. JobInv'
    BY <2>2, <2>3, JobShape DEF CycleInv, CycleTypes, JobInv, VerifiedStays
  <2> QED BY <2>2, <2>3, <2>4, <2>5, HeldKept DEF CycleInv
<1> QED BY <1>1, <1>2, <1>3

\* The bridge.
LEMMA BridgeKeeps ==
    ASSUME CycleInv,
           \/ \E i \in Items : Preview(i)
           \/ \E m \in Producers : RunAgent(m)
           \/ AgentFails \/ RunAgain \/ Refresh \/ RefreshFails \/ Audit
    PROVE  CycleInv' /\ VerifiedStays
<1> DEFINE i == job.item
<1>1. CASE \E j \in Items : Preview(j)
  <2>1. PICK j \in Items : Preview(j)
    BY <1>1
  <2>2. /\ UNCHANGED <<made, main, branch, task, held>>
        /\ job' = [at |-> "run", item |-> j]
    BY <2>1 DEF Preview
  <2>3. job' \in Jobs
    BY <2>2 DEF Jobs
  <2> QED BY <2>2, <2>3, CallMoves
<1>2. CASE \E m \in Producers : RunAgent(m)
  <2>1. PICK m \in Producers : RunAgent(m)
    BY <1>2
  <2>2. i \in Items
    BY <2>1, JobShape DEF RunAgent, CycleInv, CycleTypes
  <2> DEFINE c == made[i] + 1
             t == [ran |-> TRUE, cached |-> TRUE, head |-> c, model |-> m,
                   outcome |-> "working"]
  <2>3. made[i] < CommitCount /\ c \in Commits /\ m \in Models
    BY <2>1, <2>2, NextCommit, SpecialistsAssumption DEF RunAgent, CycleInv
  <2>4. made' = [made EXCEPT ![i] = c] /\ made' \in [Items -> Commits] /\ made'[i] = c
    BY <2>1, <2>2, <2>3 DEF RunAgent, CycleInv, CycleTypes
  <2>5. /\ ~task[i].ran /\ main' = main /\ held' = held
        /\ branch' = [branch EXCEPT ![i] = c]
        /\ task' = [task EXCEPT ![i] = t]
        /\ job' = [at |-> "refresh", item |-> i, head |-> c, model |-> m]
    BY <2>1, <2>4 DEF RunAgent
  <2>6. branch' \in [Items -> Commits \cup {NoCommit}]
    BY <2>2, <2>3, <2>5 DEF CycleInv, CycleTypes
  <2>7. t \in Task
    BY <2>3 DEF Task, Outcomes
  <2>8. task' \in [Items -> Task] /\ task'[i] = t
    BY <2>2, <2>5, <2>7 DEF CycleInv, CycleTypes
  <2>9. job' \in Jobs
    BY <2>2, <2>3, <2>5 DEF Jobs
  <2>10. CycleTypes'
    BY <2>4, <2>5, <2>6, <2>8, <2>9 DEF CycleInv, CycleTypes
  <2>11. TaskInv' /\ VerifiedStays
    BY <2>2, <2>3, <2>5, <2>8 DEF CycleInv, CycleTypes, TaskInv, VerifiedStays
  <2>12. JobInv'
    BY <2>5, <2>8 DEF JobInv
  <2> QED BY <2>5, <2>10, <2>11, <2>12, HeldKept DEF CycleInv
<1>3. CASE AgentFails
  <2>1. /\ i \in Items /\ ~task[i].ran /\ job' = Idle
        /\ UNCHANGED <<made, main, branch, held>>
        /\ task' = [task EXCEPT ![i].outcome = "failed"]
    BY <1>3, JobShape DEF AgentFails, CycleInv, CycleTypes
  <2>2. task' \in [Items -> Task]
    <3>1. task \in [Items -> Task]
      BY DEF CycleInv, CycleTypes
    <3>2. [task[i] EXCEPT !.outcome = "failed"] \in Task
      BY <2>1, <3>1 DEF Task, Outcomes
    <3> QED BY <2>1, <3>1, <3>2
  <2>3. CycleTypes'
    BY <2>1, <2>2, IdleJob DEF CycleInv, CycleTypes
  <2>4. TaskInv' /\ VerifiedStays
    BY <2>1 DEF CycleInv, CycleTypes, TaskInv, VerifiedStays, Task
  <2>5. JobInv'
    BY <2>1, IdleJob DEF JobInv
  <2> QED BY <2>1, <2>3, <2>4, <2>5, HeldKept DEF CycleInv
<1>4. CASE RunAgain
  <2>1. /\ i \in Items /\ task[i].ran
        /\ UNCHANGED <<made, main, branch, task, held>>
        /\ job' \in {Idle, [at |-> "refresh", item |-> i, head |-> task[i].head,
                            model |-> task[i].model]}
    BY <1>4, JobShape DEF RunAgain, CycleInv, CycleTypes
  <2>2. job' \in Jobs
    BY <2>1, IdleJob DEF Jobs, CycleInv, TaskInv
  <2>3. job'.at \in {"refresh", "audit"} =>
            /\ task[job'.item].ran /\ task[job'.item].head = job'.head
            /\ job'.at = "refresh"
    BY <2>1, IdleJob
  <2>4. job'.at \in {"idle", "refresh"}
    BY <2>1, IdleJob
  <2> QED BY <2>1, <2>2, <2>3, <2>4, CallMoves
<1>5. CASE Refresh
  <2>1. job \in [at : {"refresh", "audit"}, item : Items, head : Commits,
                 model : Models] /\ job.at = "refresh" /\ i \in Items
    BY <1>5, JobShape DEF Refresh, CycleInv, CycleTypes
  <2>2. PICK o \in Refreshed(i) :
            /\ task' = [task EXCEPT ![i].outcome = o]
            /\ IF Disposition(o) = "verified"
               THEN job' = [job EXCEPT !.at = "audit"] /\ UNCHANGED held
               ELSE /\ job' = Idle
                    /\ held' = [held EXCEPT !.implementation =
                                               {Record(Disposition(o))}]
    BY <1>5 DEF Refresh
  <2>3. made' = made /\ main' = main /\ branch' = branch
    BY <1>5 DEF Refresh
  <2>4. task[i].ran /\ task[i].head = job.head
    BY <2>1 DEF CycleInv, JobInv
  <2>5. /\ TaskInv' /\ VerifiedStays /\ task' \in [Items -> Task]
        /\ task'[i].outcome = o /\ o \in Outcomes
        /\ \A j \in Items : /\ task'[j].ran = task[j].ran
                             /\ task'[j].head = task[j].head
    BY <2>1, <2>2, <2>4, RefreshKeeps DEF CycleInv
  <2>6. CASE o = "verified_success"
    <3>1. job' = [job EXCEPT !.at = "audit"] /\ held' = held
      BY <2>2, <2>6 DEF Disposition
    <3>2. /\ job' \in Jobs /\ job'.at = "audit" /\ job'.item = i
          /\ job'.head = job.head
      BY <2>1, <3>1 DEF Jobs
    <3>3. CycleTypes'
      BY <2>3, <2>5, <3>1, <3>2 DEF CycleInv, CycleTypes
    <3>4. JobInv'
      BY <2>1, <2>4, <2>5, <2>6, <3>2 DEF JobInv
    <3> QED BY <2>5, <3>1, <3>3, <3>4, HeldKept DEF CycleInv
  <2>7. CASE o # "verified_success"
    <3> PICK record : record = Record(Disposition(o))
      OBVIOUS
    <3>1. Disposition(o) \in {"pending", "review_required", "failed"}
      BY <2>5, <2>7 DEF Disposition, Outcomes
    <3>2. job' = Idle /\ held' = [held EXCEPT !.implementation = {record}]
      BY <2>2, <3>1
    <3>3. record \in Implementation /\ record.disposition # "verified"
      BY <2>1, <3>1 DEF Record, Implementation
    <3>4. IsVerified(record)'
      BY <3>3 DEF IsVerified
    <3> QED BY <2>3, <2>5, <3>2, <3>3, <3>4, IdleJob, HoldImplementation
  <2> QED BY <2>6, <2>7
<1>6. CASE RefreshFails
  BY <1>6, IdleJob, CallMoves DEF RefreshFails
<1>7. CASE Audit
  <2>1. /\ job \in [at : {"refresh", "audit"}, item : Items, head : Commits,
                    model : Models]
        /\ i \in Items /\ job.at = "audit"
    BY <1>7, JobShape DEF Audit, CycleInv, CycleTypes
  <2>2. job' = Idle /\ UNCHANGED <<made, main, branch, task>>
    BY <1>7 DEF Audit
  <2>3. CASE held' = held
    BY <2>2, <2>3, IdleJob, CallMoves
  <2>4. CASE held' # held
    <3> PICK record : record = Record("verified")
      OBVIOUS
    <3>1. held' = [held EXCEPT !.implementation = {record}]
      BY <1>7, <2>4 DEF Audit
    <3>2. record \in Implementation /\ record.item = i /\ record.head = job.head
      BY <2>1 DEF Record, Implementation
    <3>3. task[i].outcome = "verified_success" /\ task[i].head = job.head
      BY <2>1 DEF CycleInv, JobInv
    <3>4. IsVerified(record)'
      BY <2>2, <3>2, <3>3 DEF IsVerified
    <3>5. TaskInv' /\ VerifiedStays /\ task' \in [Items -> Task]
      BY <2>2 DEF CycleInv, CycleTypes, TaskInv, VerifiedStays
    <3> QED BY <2>2, <3>1, <3>2, <3>4, <3>5, IdleJob, HoldImplementation
  <2> QED BY <2>3, <2>4
<1> QED BY <1>1, <1>2, <1>3, <1>4, <1>5, <1>6, <1>7

\* The specialist.
LEMMA SpecialistKeeps ==
    ASSUME CycleInv,
           \/ \E who \in Specialists : StartSpecialist(who)
           \/ CaptureTree \/ SpecialistFails \/ ReadFile
           \/ \E n \in 1 .. MaxToolCalls : AskForTools(n)
           \/ \E v \in Answers : SpecialistAnswers(v)
    PROVE  CycleInv' /\ VerifiedStays
<1> DEFINE Sittings == [at : {"turn", "tools"}, subject : Implementation,
                        who : Specialists, saw : SUBSET Commits,
                        turns : 0 .. MaxTurns, calls : 0 .. MaxToolCalls,
                        pending : 0 .. MaxToolCalls]
<1>a. job \in Jobs /\ Sittings \subseteq Jobs
  BY DEF CycleInv, CycleTypes, Jobs
<1>1. CASE \E who \in Specialists : StartSpecialist(who)
  <2>1. PICK who \in Specialists, record \in held.implementation :
            job' = [at |-> "tree", subject |-> record, who |-> who]
    BY <1>1 DEF StartSpecialist
  <2>2. UNCHANGED <<made, main, branch, task, held>>
    BY <1>1 DEF StartSpecialist
  <2>3. job' \in Jobs
    BY <2>1 DEF Jobs, CycleInv, CycleTypes
  <2> QED BY <2>1, <2>2, <2>3, CallMoves
<1>2. CASE CaptureTree
  <2>1. /\ job \in [at : {"tree"}, subject : Implementation, who : Specialists]
        /\ UNCHANGED <<made, main, branch, task, held>>
        /\ job' \in {Sitting({job.subject.head}), Idle}
    BY <1>2, <1>a, JobShape DEF CaptureTree
  <2>2. CASE job' = Idle
    BY <2>1, <2>2, IdleJob, CallMoves
  <2>3. CASE job' = Sitting({job.subject.head})
    <3>1. /\ job' \in Sittings /\ job'.at = "turn"
          /\ job'.saw = {job'.subject.head}
      BY <2>1, <2>3, Numbers DEF Sitting, Implementation
    <3> QED BY <1>a, <2>1, <3>1, CallMoves
  <2> QED BY <2>1, <2>2, <2>3
<1>3. CASE SpecialistFails
  BY <1>3, IdleJob, CallMoves DEF SpecialistFails
<1>4. CASE ReadFile
  <2>1. /\ job \in Sittings /\ job.pending > 0
        /\ job.saw = {job.subject.head}
        /\ UNCHANGED <<made, main, branch, task, held>>
    BY <1>4, <1>a, JobShape DEF ReadFile, CycleInv, JobInv
  <2>2. job' = [at |-> IF job.pending = 1 THEN "turn" ELSE "tools",
                subject |-> job.subject, who |-> job.who,
                saw |-> job.saw \cup {job.subject.head},
                turns |-> job.turns, calls |-> job.calls,
                pending |-> job.pending - 1]
    BY <1>4, <2>1 DEF ReadFile
  <2>3. job.pending - 1 \in 0 .. MaxToolCalls
    BY <2>1, Numbers
  <2>4. /\ job' \in Sittings /\ job'.at \in {"turn", "tools"}
        /\ job'.saw = {job'.subject.head}
    BY <2>1, <2>2, <2>3
  <2> QED BY <1>a, <2>1, <2>4, CallMoves
<1>5. CASE \E n \in 1 .. MaxToolCalls : AskForTools(n)
  <2>1. PICK n \in 1 .. MaxToolCalls : AskForTools(n)
    BY <1>5
  <2>2. /\ job \in Sittings /\ job.turns < MaxTurns
        /\ job.calls + n <= MaxToolCalls
        /\ job.saw = {job.subject.head}
        /\ UNCHANGED <<made, main, branch, task, held>>
    BY <2>1, <1>a, JobShape DEF AskForTools, CycleInv, JobInv
  <2>3. job' = [at |-> "tools", subject |-> job.subject, who |-> job.who,
                saw |-> job.saw, turns |-> job.turns + 1,
                calls |-> job.calls + n, pending |-> n]
    BY <2>1, <2>2 DEF AskForTools
  <2>4. /\ job.turns + 1 \in 0 .. MaxTurns
        /\ job.calls + n \in 0 .. MaxToolCalls /\ n \in 0 .. MaxToolCalls
    BY <2>2, Numbers
  <2>5. /\ job' \in Sittings /\ job'.at = "tools"
        /\ job'.saw = {job'.subject.head}
    BY <2>2, <2>3, <2>4
  <2> QED BY <1>a, <2>2, <2>5, CallMoves
<1>6. CASE \E v \in Answers : SpecialistAnswers(v)
  <2>1. PICK v \in Answers : SpecialistAnswers(v)
    BY <1>6
  <2>2. job \in Sittings /\ job.saw = {job.subject.head}
    BY <2>1, <1>a, JobShape DEF SpecialistAnswers, CycleInv, JobInv
  <2>3. PICK c : c = [role |-> job.who.role, verdict |-> v,
                      item |-> job.subject.item, commit |-> job.subject.head,
                      artifact |-> job.subject, model |-> job.who.model,
                      instruction |-> job.who.instruction, saw |-> job.saw]
    OBVIOUS
  <2>4. /\ job' = Idle /\ UNCHANGED <<made, main, branch, task>>
        /\ held' = [held EXCEPT ![job.who.role] = {c}]
    BY <2>1, <2>3 DEF SpecialistAnswers
  <2>5. /\ job.who.role \in {"validation", "critic"}
        /\ job.who.model \in Models /\ job.who.instruction \in Instructions
    BY <2>2, SpecialistsAssumption, ModelsAssumption
  <2>6. c \in Claim /\ c.saw = {c.commit}
    BY <2>2, <2>3, <2>5, SpecialistsAssumption
       DEF Claim, Roles, Implementation
  <2>7. /\ DOMAIN held' = DOMAIN held
        /\ held'.implementation = held.implementation
        /\ held'.report = held.report
        /\ held'.validation \in {held.validation, {c}}
        /\ held'.critic \in {held.critic, {c}}
    BY <2>4, <2>5 DEF CycleInv, CycleTypes
  <2>8. CycleTypes'
    BY <2>4, <2>6, <2>7, IdleJob DEF CycleInv, CycleTypes
  <2>9. TaskInv' /\ VerifiedStays /\ JobInv'
    BY <2>4, IdleJob DEF CycleInv, TaskInv, VerifiedStays, JobInv
  <2>10. HeldInv'
    BY <2>4, <2>6, <2>7
       DEF CycleInv, HeldInv, IsVerified, IsAccepting, NoMovingTarget
  <2> QED BY <2>8, <2>9, <2>10 DEF CycleInv
<1> QED BY <1>1, <1>2, <1>3, <1>4, <1>5, <1>6

\* The gate: a report that accepts holds a validator and a critic that pass.
LEMMA EvaluateKeeps ==
    ASSUME CycleInv, EvaluateCycle
    PROVE  CycleInv' /\ VerifiedStays
<1>1. PICK record \in held.implementation,
           validation \in held.validation \cup held.critic,
           critic \in held.validation \cup held.critic :
               /\ RolesFit(ProducerClaim(record), validation, critic)
               /\ Evaluate(ProducerClaim(record), validation, critic).disposition
                      = "accept"
               /\ held' = [held EXCEPT !.report =
                      {Evaluate(ProducerClaim(record), validation, critic)}]
  BY DEF EvaluateCycle
<1> DEFINE producer == ProducerClaim(record)
           report == Evaluate(producer, validation, critic)
<1>2. UNCHANGED <<made, main, branch, task, job>>
  BY DEF EvaluateCycle
<1>3. /\ DOMAIN held' = DOMAIN held /\ held'.report = {report}
      /\ held'.implementation = held.implementation
      /\ held'.validation = held.validation /\ held'.critic = held.critic
  BY <1>1 DEF CycleInv, CycleTypes
<1>4. IsAccepting(report)
  <2>1. /\ report.item = producer.item /\ report.commit = producer.commit
        /\ report.artifact = producer.artifact
        /\ report.claims = {producer, validation, critic}
        /\ GateDisposition(producer, validation, critic) = "accept"
    BY <1>1 DEF Evaluate
  <2>2. producer.artifact.model = producer.model
    BY DEF ProducerClaim
  <2>3. validation.role = "validation" /\ critic.role = "critic"
    BY <1>1 DEF RolesFit
  <2>4. /\ critic.model # producer.model
        /\ \A c \in {validation, critic} :
               /\ c.verdict = "pass"
               /\ c.item = producer.item /\ c.commit = producer.commit
               /\ c.artifact = producer.artifact
    BY <2>1, AcceptIsUnanimous DEF Independent
  <2> HIDE DEF producer, report
  <2> QED BY <2>1, <2>2, <2>3, <2>4 DEF IsAccepting
<1>5. CycleTypes' /\ TaskInv' /\ JobInv' /\ VerifiedStays
  BY <1>1, <1>2, <1>3
     DEF CycleInv, CycleTypes, TaskInv, JobInv, VerifiedStays, Jobs
<1>6. HeldInv'
  BY <1>2, <1>3, <1>4
     DEF CycleInv, HeldInv, IsVerified, IsAccepting, NoMovingTarget
<1> QED BY <1>5, <1>6 DEF CycleInv

LEMMA CycleKeeps ==
    ASSUME CycleInv, CycleStep, plan.writable \subseteq Items
    PROVE  CycleInv' /\ VerifiedStays
<1>1. CASE \E i \in plan.writable :
               OthersPush(i) \/ BaseMoves(i) \/ OperatorRefresh(i)
  BY <1>1, OthersKeep
<1>2. CASE \E i \in plan.writable : Preview(i)
  BY <1>2, BridgeKeeps
<1>3. CASE \E who \in Specialists : StartSpecialist(who)
  BY <1>3, SpecialistKeeps
<1>4. CASE EvaluateCycle
  BY <1>4, EvaluateKeeps
<1>5. CASE CallStep
  BY <1>5, BridgeKeeps, SpecialistKeeps DEF CallStep
<1> QED BY <1>1, <1>2, <1>3, <1>4, <1>5 DEF CycleStep

-----------------------------------------------------------------------------
(* The coordinator and the store.                                           *)

PlanTypes == /\ plan \in Plan
             /\ settled \in [Items -> {"none", "running", "accepted"} \cup NonPass]
             /\ restarts \in 0 .. MaxRestarts

LogTypes == \E S : events \in Seq(S) /\ stored \in Seq(S)

AllBacked(log) == \A n \in 1 .. Len(log) :
                     \A receipt \in log[n].receipt : Backed(receipt)

LogInv == LogTypes /\ AllBacked(events) /\ AllBacked(stored)

IInv == CycleInv /\ PlanTypes /\ LogInv

LEMMA PlanItems ==
    ASSUME PlanTypes
    PROVE  plan.items \subseteq Items /\ plan.writable \subseteq Items
BY DEF PlanTypes, Plan

\* What backs a receipt stays.
LEMMA BackedStays ==
    ASSUME PlanTypes, VerifiedStays, plan' = plan, NEW receipt, Backed(receipt)
    PROVE  Backed(receipt)'
<1>1. receipt.item \in plan.writable => receipt.item \in Items
  BY PlanItems
<1> QED BY <1>1 DEF Backed, VerifiedStays

LEMMA LogsStay ==
    ASSUME PlanTypes, LogInv, VerifiedStays, plan' = plan, events' = events,
           stored' = stored
    PROVE  LogInv'
<1>1. LogTypes'
  BY DEF LogInv, LogTypes
<1>2. ASSUME NEW n \in 1 .. Len(events), NEW receipt \in events[n].receipt
      PROVE  Backed(receipt)'
  BY <1>2, BackedStays DEF LogInv, AllBacked
<1>3. ASSUME NEW n \in 1 .. Len(stored), NEW receipt \in stored[n].receipt
      PROVE  Backed(receipt)'
  BY <1>3, BackedStays DEF LogInv, AllBacked
<1>4. AllBacked(events)'
  <2>1. \A n \in 1 .. Len(events') :
            \A receipt \in events'[n].receipt : Backed(receipt)'
    BY <1>2
  <2> QED BY <2>1 DEF AllBacked
<1>5. AllBacked(stored)'
  <2>1. \A n \in 1 .. Len(stored') :
            \A receipt \in stored'[n].receipt : Backed(receipt)'
    BY <1>3
  <2> QED BY <2>1 DEF AllBacked
<1> QED BY <1>1, <1>4, <1>5 DEF LogInv

\* A new event, of the coordinator or in the store.
LEMMA AppendBacked ==
    ASSUME NEW S, NEW log \in Seq(S), NEW e, AllBacked(log),
           \A receipt \in e.receipt : Backed(receipt)
    PROVE  AllBacked(Append(log, e))
<1>1. log \in Seq(S \cup {e})
  BY SeqMonotonic
<1>2. /\ Len(Append(log, e)) = Len(log) + 1 /\ Len(log) \in Nat
      /\ Append(log, e)[Len(log) + 1] = e
      /\ \A n \in 1 .. Len(log) : Append(log, e)[n] = log[n]
  BY <1>1, AppendProperties, LenProperties
<1>3. ASSUME NEW n \in 1 .. Len(log) + 1, NEW receipt \in Append(log, e)[n].receipt
      PROVE  Backed(receipt)
  <2>1. CASE n \in 1 .. Len(log)
    BY <1>2, <1>3, <2>1 DEF AllBacked
  <2>2. CASE n = Len(log) + 1
    BY <1>2, <1>3, <2>2
  <2> QED BY <1>2, <2>1, <2>2
<1> QED BY <1>2, <1>3 DEF AllBacked

\* The coordinator appends an event whose receipt, if it has one, is backed.
LEMMA EventKeeps ==
    ASSUME IInv, NEW e, \A receipt \in e.receipt : Backed(receipt),
           events' = Append(events, e), UNCHANGED <<cycleVars, plan, stored>>
    PROVE  LogInv'
<1>1. PICK S : events \in Seq(S) /\ stored \in Seq(S)
  BY DEF IInv, LogInv, LogTypes
<1>2. AllBacked(Append(events, e)) /\ AllBacked(stored)
  BY <1>1, AppendBacked DEF IInv, LogInv
<1>3. events' \in Seq(S \cup {e}) /\ stored' \in Seq(S \cup {e})
  BY <1>1, SeqMonotonic, AppendProperties
<1>4. AllBacked(events)' /\ AllBacked(stored)'
  BY <1>2 DEF AllBacked, Backed, cycleVars
<1>5. LogTypes'
  BY <1>3 DEF LogTypes
<1> QED BY <1>4, <1>5 DEF LogInv

LEMMA CaptureKeeps ==
    ASSUME IInv, Capture
    PROVE  LogInv'
<1>1. PICK S : events \in Seq(S) /\ stored \in Seq(S)
  BY DEF IInv, LogInv, LogTypes
<1> DEFINE n == Len(stored) + 1
           e == events[n]
<1>2. /\ Len(stored) < Len(events) /\ stored' = Append(stored, e)
      /\ UNCHANGED <<cycleVars, plan, events>>
  BY DEF Capture, Captured, coordinatorVars
<1>3. n \in 1 .. Len(events) /\ e \in S
  BY <1>1, <1>2, LenProperties, ElementOfSeq
<1>4. \A receipt \in e.receipt : Backed(receipt)
  BY <1>3 DEF IInv, LogInv, AllBacked
<1>5. AllBacked(Append(stored, e)) /\ AllBacked(events)
  BY <1>1, <1>4, AppendBacked DEF IInv, LogInv
<1>6. events' \in Seq(S) /\ stored' \in Seq(S)
  BY <1>1, <1>2, <1>3, AppendProperties
<1>7. AllBacked(events)' /\ AllBacked(stored)'
  BY <1>2, <1>5 DEF AllBacked, Backed, cycleVars
<1>8. LogTypes'
  BY <1>6 DEF LogTypes
<1> QED BY <1>7, <1>8 DEF LogInv

\* A receipt the host makes of what it has in its hands is backed.
LEMMA Receipts ==
    ASSUME IInv, NEW i \in plan.items, NEW evidence \in SUBSET Keys, NEW exact,
           NEW receipt \in FromApp8c(i, evidence) \cup FromHost(i, exact, evidence)
    PROVE  Backed(receipt)
<1>1. CASE receipt \in FromApp8c(i, evidence)
  <2>1. PICK record \in held.implementation, report \in held.report :
            /\ i \in plan.writable /\ record.item = i
            /\ record.disposition = "verified" /\ GateBinds(record, report)
            /\ receipt.item = i /\ receipt.head = record.head
            /\ receipt.artifact = {record} /\ receipt.verification = {report}
    BY <1>1 DEF FromApp8c
  <2>2. task[i].outcome = "verified_success" /\ task[i].head = receipt.head
    BY <2>1 DEF IInv, CycleInv, HeldInv, IsVerified
  <2>3. IsAccepting(report) /\ report.item = i /\ report.commit = receipt.head
        /\ report.artifact = record
    BY <2>1 DEF IInv, CycleInv, HeldInv, GateBinds
  <2>4. \A role \in {"validation", "critic"} : \E c \in report.claims :
            /\ c.role = role /\ c.verdict = "pass"
            /\ c.item = i /\ c.commit = receipt.head /\ c.artifact = record
            /\ role = "critic" => c.model # record.model
    BY <2>3 DEF IsAccepting
  <2> QED BY <2>1, <2>2, <2>4 DEF Backed
<1>2. CASE receipt \in FromHost(i, exact, evidence)
  BY <1>2 DEF FromHost, Backed
<1> QED BY <1>1, <1>2

LEMMA RestartKeeps ==
    ASSUME IInv, Restart
    PROVE  IInv'
<1>1. /\ task' = [i \in Items |-> [task[i] EXCEPT !.cached = FALSE]]
      /\ events' = <<>> /\ job' = Idle /\ restarts < MaxRestarts
      /\ restarts' = restarts + 1 /\ settled' = [i \in Items |-> "none"]
      /\ held' = [implementation |-> {}, validation |-> {}, critic |-> {},
                  report |-> {}]
      /\ UNCHANGED <<made, main, branch, plan, stored>>
  BY DEF Restart
<1>2. /\ task' \in [Items -> Task]
      /\ \A i \in Items : /\ task'[i].ran = task[i].ran
                           /\ task'[i].head = task[i].head
                           /\ task'[i].model = task[i].model
                           /\ task'[i].outcome = task[i].outcome
  <2>1. task \in [Items -> Task]
    BY DEF IInv, CycleInv, CycleTypes
  <2>2. ASSUME NEW i \in Items
        PROVE  [task[i] EXCEPT !.cached = FALSE] \in Task
    BY <2>1 DEF Task
  <2>3. ASSUME NEW i \in Items
        PROVE  /\ task'[i].ran = task[i].ran /\ task'[i].head = task[i].head
               /\ task'[i].model = task[i].model
               /\ task'[i].outcome = task[i].outcome
    <3>1. task[i] \in Task /\ task'[i] = [task[i] EXCEPT !.cached = FALSE]
      BY <1>1, <2>1
    <3> QED BY <3>1 DEF Task
  <2> QED BY <1>1, <2>2, <2>3
<1>3. TaskInv' /\ VerifiedStays
  BY <1>2 DEF IInv, CycleInv, TaskInv, VerifiedStays
<1>4. CycleTypes' /\ JobInv' /\ HeldInv'
  BY <1>1, <1>2, IdleJob
     DEF IInv, CycleInv, CycleTypes, JobInv, HeldInv, NoMovingTarget
<1>5. PlanTypes'
  BY <1>1, ResultsAssumption DEF IInv, PlanTypes
<1>6. LogInv'
  <2>1. PICK S : stored \in Seq(S)
    BY DEF IInv, LogInv, LogTypes
  <2>2. events' \in Seq(S) /\ stored' \in Seq(S) /\ Len(events') = 0
    BY <1>1, <2>1, EmptySeq
  <2>3. LogTypes'
    BY <2>2 DEF LogTypes
  <2>4. AllBacked(events)'
    BY <2>2 DEF AllBacked
  <2>5. ASSUME NEW n \in 1 .. Len(stored), NEW receipt \in stored[n].receipt
        PROVE  Backed(receipt)'
    BY <1>1, <1>3, <2>5, BackedStays DEF IInv, LogInv, AllBacked
  <2>6. AllBacked(stored)'
    <3>1. \A n \in 1 .. Len(stored') :
              \A receipt \in stored'[n].receipt : Backed(receipt)'
      BY <1>1, <2>5
    <3> QED BY <3>1 DEF AllBacked
  <2> QED BY <2>3, <2>4, <2>6 DEF LogInv
<1> QED BY <1>3, <1>4, <1>5, <1>6 DEF IInv, CycleInv

LEMMA CycleUntouched ==
    ASSUME CycleInv, UNCHANGED cycleVars
    PROVE  CycleInv' /\ VerifiedStays
<1>1. UNCHANGED <<made, main, branch, task, job, held>>
  BY DEF cycleVars
<1>2. CycleTypes' /\ TaskInv' /\ JobInv' /\ VerifiedStays
  BY <1>1 DEF CycleInv, CycleTypes, TaskInv, JobInv, VerifiedStays
<1> QED BY <1>1, <1>2, HeldKept DEF CycleInv

-----------------------------------------------------------------------------
LEMMA InitIInv == Init => IInv
<1> SUFFICES ASSUME Init PROVE IInv
  OBVIOUS
<1>1. CycleInv
  <2>1. NoTask \in Task /\ ~NoTask.ran /\ NoTask.outcome = "working"
    BY DEF NoTask, Task, Outcomes
  <2> QED BY <2>1, Numbers, IdleJob
          DEF Init, CycleInit, CycleInv, CycleTypes, TaskInv, JobInv, HeldInv,
              NoMovingTarget
<1>2. PlanTypes
  BY PlansAssumption, ResultsAssumption DEF Init, PlanTypes
<1>3. LogInv
  <2>1. events \in Seq({}) /\ stored \in Seq({})
        /\ Len(events) = 0 /\ Len(stored) = 0
    BY EmptySeq DEF Init
  <2>2. LogTypes
    BY <2>1 DEF LogTypes
  <2> QED BY <2>1, <2>2 DEF LogInv, AllBacked
<1> QED BY <1>1, <1>2, <1>3 DEF IInv

\* One case per action of the coordinator, one for the steps of the host.
LEMMA NextIInv ==
    ASSUME IInv, [Next]_vars
    PROVE  IInv'
<1>1. CASE CycleStep /\ UNCHANGED <<coordinatorVars, stored, restarts>>
  <2>1. CycleInv' /\ VerifiedStays
    BY <1>1, PlanItems, CycleKeeps DEF IInv
  <2>2. PlanTypes' /\ plan' = plan /\ events' = events /\ stored' = stored
    BY <1>1 DEF IInv, PlanTypes, coordinatorVars
  <2> QED BY <2>1, <2>2, LogsStay DEF IInv
<1>2. CASE \E i \in plan.items : ScheduleNext(i)
  <2>1. PICK i \in plan.items : ScheduleNext(i)
    BY <1>2
  <2>2. PICK e : e = Event("scheduled", i, {})
    OBVIOUS
  <2>3. /\ events' = Append(events, e) /\ e.receipt = {}
        /\ settled' = [settled EXCEPT ![i] = "running"]
        /\ UNCHANGED <<cycleVars, plan, stored, restarts>>
    BY <2>1, <2>2 DEF ScheduleNext, Event
  <2>4. LogInv'
    BY <2>3, EventKeeps
  <2>5. PlanTypes'
    BY <2>3 DEF IInv, PlanTypes
  <2> QED BY <2>3, <2>4, <2>5, CycleUntouched DEF IInv
<1>3. CASE \E i \in plan.items : Receive(i)
  <2>a. PICK i \in plan.items : Receive(i)
    BY <1>3
  <2>b. PICK evidence \in SUBSET Keys :
            \/ \E receipt \in FromApp8c(i, evidence) : RecordReceipt(i, receipt)
            \/ \E exact \in {BaseSha, main[i]} :
                   \E receipt \in FromHost(i, exact, evidence) :
                       RecordReceipt(i, receipt)
    BY <2>a DEF Receive
  <2>c. PICK exact : \E receipt \in FromApp8c(i, evidence)
                                     \cup FromHost(i, exact, evidence) :
                         RecordReceipt(i, receipt)
    BY <2>b
  <2>1. PICK receipt \in FromApp8c(i, evidence)
                             \cup FromHost(i, exact, evidence) :
            RecordReceipt(i, receipt)
    BY <2>c
  <2>2. PICK e : e = Event("accepted", i, {receipt})
    OBVIOUS
  <2>3. /\ events' = Append(events, e) /\ e.receipt = {receipt}
        /\ settled' = [settled EXCEPT ![i] = "accepted"]
        /\ UNCHANGED <<cycleVars, plan, stored, restarts>>
    BY <2>1, <2>2 DEF RecordReceipt, Event
  <2>4. Backed(receipt)
    BY <2>1, Receipts
  <2>5. LogInv'
    BY <2>3, <2>4, EventKeeps
  <2>6. PlanTypes'
    BY <2>3 DEF IInv, PlanTypes
  <2> QED BY <2>3, <2>5, <2>6, CycleUntouched DEF IInv
<1>4. CASE \E i \in plan.items, outcome \in Results : RecordNonPass(i, outcome)
  <2>1. PICK i \in plan.items, outcome \in Results : RecordNonPass(i, outcome)
    BY <1>4
  <2>2. PICK e : e = Event(outcome, i, {})
    OBVIOUS
  <2>3. /\ events' = Append(events, e) /\ e.receipt = {}
        /\ settled' = [settled EXCEPT ![i] = outcome]
        /\ UNCHANGED <<cycleVars, plan, stored, restarts>>
    BY <2>1, <2>2 DEF RecordNonPass, Event
  <2>4. LogInv'
    BY <2>3, EventKeeps
  <2>5. PlanTypes'
    BY <2>3, ResultsAssumption DEF IInv, PlanTypes
  <2> QED BY <2>3, <2>4, <2>5, CycleUntouched DEF IInv
<1>5. CASE Capture
  <2>1. UNCHANGED <<cycleVars, coordinatorVars, restarts>>
    BY <1>5 DEF Capture
  <2>2. PlanTypes'
    BY <2>1 DEF IInv, PlanTypes, coordinatorVars
  <2> QED BY <1>5, <2>1, <2>2, CaptureKeeps, CycleUntouched DEF IInv
<1>6. CASE Restart
  BY <1>6, RestartKeeps
<1>7. CASE UNCHANGED vars
  <2>1. UNCHANGED <<cycleVars, coordinatorVars, stored, restarts>>
    BY <1>7 DEF vars
  <2>2. /\ PlanTypes' /\ plan' = plan /\ events' = events /\ stored' = stored
        /\ UNCHANGED cycleVars
    BY <2>1 DEF IInv, PlanTypes, coordinatorVars
  <2> QED BY <2>2, CycleUntouched, LogsStay DEF IInv
<1> QED BY <1>1, <1>2, <1>3, <1>4, <1>5, <1>6, <1>7 DEF Next

LEMMA AlwaysIInv == Spec => []IInv
<1>1. IInv /\ [Next]_vars => IInv'
  BY NextIInv
<1> QED BY <1>1, InitIInv, PTL DEF Spec

-----------------------------------------------------------------------------
(* The theorems.                                                            *)

\* The stores, the call in progress and what the host holds have their types;
\* the tool loop of a specialist never exceeds its turns or its tool calls
\* (run_budget.py), whatever the model asks for.
THEOREM CrossProjectTypeCorrect == Spec => []CoordinationTypeOK
<1>1. IInv => CoordinationTypeOK
  BY DEF IInv, CycleInv, CycleTypes, PlanTypes, CoordinationTypeOK
<1> QED BY <1>1, AlwaysIInv, PTL

\* What a validator or a critic was shown is of the commit its claim names,
\* whatever is pushed between the calls of ExactCommitReadToolset.
THEOREM TargetsDoNotMove == Spec => []NoMovingTarget
<1>1. IInv => NoMovingTarget
  BY DEF IInv, CycleInv, HeldInv
<1> QED BY <1>1, AlwaysIInv, PTL

\* Whatever records and reports the host mixes up, and however often it starts
\* again, an accepted item is verified at the head of its receipt and was
\* passed by a validator and by a critic of another model
\* (VerifiedProjectReceipt, DisagreementGate).
THEOREM AcceptanceIsBacked == Spec => []AcceptedIsBacked
<1>1. IInv => AcceptedIsBacked
  BY DEF IInv, LogInv, AllBacked, AcceptedIsBacked
<1> QED BY <1>1, AlwaysIInv, PTL
=============================================================================
