----------------------------- MODULE Supervision -----------------------------
(***************************************************************************)
(* SupervisorSimulator of APP8A (app8_supervision.py): one dependency      *)
(* graph, one event list, schedule_next and record_result.  The simulator  *)
(* keeps nothing but the events and replays them at every call; here what  *)
(* a replay settles is kept beside them, and ReplayAgrees says that it is  *)
(* what replay_supervision computes.                                       *)
(***************************************************************************)
EXTENDS SupervisionReplay

CONSTANTS Graphs,         \* the graphs a supervisor may be given
          Results         \* [outcome, evidence] pairs a host reports

ASSUME GraphsAssumption == Graphs \subseteq {g \in Graph : Validated(g)}

ASSUME ResultsAssumption ==
    Results \subseteq [outcome : Terminal, evidence : BOOLEAN]

VARIABLES graph,          \* self.graph
          events,         \* self._events
          settled,        \* settled[n]: what the last event of n made of it
          evidence,       \* evidence[n]: n reported its expected evidence
          reserved        \* budget reserved so far

vars == <<graph, events, settled, evidence, reserved>>

-----------------------------------------------------------------------------
(* The states of the other nodes.                                           *)

Waiting(n) == settled[n] = "none"

\* Mutant of Ready: dependencies have ended, however.
ReadyWhenEnded(n) == /\ Waiting(n)
                     /\ \A d \in graph.deps[n] : settled[d] \in Terminal

Ready(n) == /\ Waiting(n)
            /\ \A d \in graph.deps[n] : settled[d] = "pass" /\ evidence[d]

\* Nodes with a dependency that did not pass, or whose dependencies all
\* passed without the evidence expected of them.
Obstructed ==
    {n \in Nodes :
        /\ Waiting(n)
        /\ \/ \E d \in graph.deps[n] : settled[d] \in Terminal \ {"pass"}
           \/ /\ \A d \in graph.deps[n] : settled[d] = "pass"
              /\ \E d \in graph.deps[n] : ~evidence[d]}

\* Mutant of Blocked: only the next node is blocked.
BlockedNext == Obstructed

\* ... and those that wait for one of them, however far away.
Blocked ==
    LET upto[k \in 0 .. NodeCount] ==
            IF k = 0 THEN Obstructed
            ELSE upto[k - 1] \cup {n \in Nodes : /\ Waiting(n)
                                                 /\ graph.deps[n] \cap upto[k - 1] # {}}
    IN upto[NodeCount]

States == [n \in Nodes |-> CASE ~Waiting(n)                -> settled[n]
                             [] Waiting(n) /\ n \in Blocked -> "blocked"
                             [] Ready(n) /\ n \notin Blocked -> "ready"
                             [] OTHER                       -> "pending"]

-----------------------------------------------------------------------------
Fits(n) == reserved + graph.cost[n] <= graph.limit

\* Nodes schedule_next may choose from.
Candidates == {n \in Nodes : Ready(n) /\ n \notin graph.gated}

\* Mutant of ScheduleNext: the budget of the node alone is compared.
ScheduleUnreserved ==
    /\ \A n \in Nodes : settled[n] # "running"
    /\ \E n \in Candidates :
          /\ \A m \in Candidates : n <= m
          /\ graph.cost[n] <= graph.limit
          /\ events' = Append(events, [sequence |-> Len(events) + 1, type |-> "scheduled",
                                       node |-> n, evidence |-> FALSE])
          /\ settled' = [settled EXCEPT ![n] = "running"]
          /\ reserved' = reserved + graph.cost[n]
    /\ UNCHANGED <<graph, evidence>>

\* schedule_next: the first ready node by id, unless a node is running, none
\* is ready, or its budget no longer fits (which raises).
ScheduleNext ==
    /\ \A n \in Nodes : settled[n] # "running"
    /\ \E n \in Candidates :
          /\ \A m \in Candidates : n <= m
          /\ Fits(n)
          /\ events' = Append(events, [sequence |-> Len(events) + 1, type |-> "scheduled",
                                       node |-> n, evidence |-> FALSE])
          /\ settled' = [settled EXCEPT ![n] = "running"]
          /\ reserved' = reserved + graph.cost[n]
    /\ UNCHANGED <<graph, evidence>>

\* Mutant of Reportable: a result of any node is taken.
ReportableAnyTime(n, result) == result.outcome = "pass" => result.evidence

\* record_result accepts results of the running node, PASS with evidence only.
Reportable(n, result) == /\ settled[n] = "running"
                         /\ result.outcome = "pass" => result.evidence

RecordResult(n, result) ==
    /\ Reportable(n, result)
    /\ events' = Append(events, [sequence |-> Len(events) + 1, type |-> result.outcome,
                                 node |-> n, evidence |-> result.evidence])
    /\ settled' = [settled EXCEPT ![n] = result.outcome]
    /\ evidence' = [evidence EXCEPT ![n] = result.evidence]
    /\ UNCHANGED <<graph, reserved>>

Init == /\ graph \in Graphs
        /\ events = <<>>
        /\ settled = [n \in Nodes |-> "none"]
        /\ evidence = [n \in Nodes |-> FALSE]
        /\ reserved = 0

Next == \/ ScheduleNext
        \/ \E n \in Nodes, result \in Results : RecordResult(n, result)

Spec == Init /\ [][Next]_vars

-----------------------------------------------------------------------------
\* Types of the simulator's state.
TypeOK == /\ graph \in Graphs
          /\ events \in Seq(Event)
          /\ settled \in [Nodes -> {"none", "running"} \cup Terminal]
          /\ evidence \in [Nodes -> BOOLEAN]
          /\ reserved \in Nat

\* The simulator's own events always replay, and the loop over the nodes
\* comes to the states, whatever order it visits them in.
ReplayAgrees ==
    LET r == Replay(graph, events)
    IN /\ r.accepted
       /\ r.state = States
       /\ r.reserved = reserved

\* In a history, a node is scheduled only after each of its dependencies has
\* passed with its evidence, at most once, and never when a human must start it.
InOrder(log) ==
    \A i \in 1 .. Len(log) : log[i].type = "scheduled" =>
        /\ log[i].node \notin graph.gated
        /\ \A d \in graph.deps[log[i].node] : \E j \in 1 .. i - 1 :
              log[j].node = d /\ log[j].type = "pass" /\ log[j].evidence
        /\ \A j \in 1 .. i - 1 :
              log[j].type = "scheduled" => log[j].node # log[i].node

\* schedule_next, over any run, starts nodes in the order of the graph.
DependenciesFirst == InOrder(events)

\* Non-PASS upstream outcomes block descendants (docs/app8a-supervisor-
\* simulation.md): a node is blocked if and only if something it depends on,
\* directly or not, ended without PASS.
Upstream(n) ==
    LET within[k \in 0 .. NodeCount] ==
            IF k = 0 THEN graph.deps[n]
            ELSE within[k - 1] \cup UNION {graph.deps[d] : d \in within[k - 1]}
    IN within[NodeCount]

BlockedByUpstream ==
    \A n \in Nodes : States[n] = "blocked" <=>
        Waiting(n) /\ \E d \in Upstream(n) : settled[d] \in Terminal \ {"pass"}

\* A supervisor that says continue has something to go on with: a node that
\* is running, or one it may schedule.
ContinueHasWork ==
    Disposition(graph, States) = "continue" =>
        (\E n \in Nodes : settled[n] = "running") \/ Candidates # {}

\* While a simulator lives no node falls back: not from ready, not from
\* blocked, not from a result.
Successors(s) == CASE s = "pending" -> {"pending", "ready", "blocked"}
                   [] s = "ready"   -> {"ready", "running"}
                   [] s = "running" -> {"running"} \cup Terminal
                   [] OTHER         -> {s}

StatesAdvance ==
    [][events' # <<>> => \A n \in Nodes : States'[n] \in Successors(States[n])]_vars
=============================================================================
