-------------------------- MODULE SupervisionReplay --------------------------
(***************************************************************************)
(* The pure half of APP8A supervision (app8_supervision.py): dependency    *)
(* graphs as DependencyGraph accepts them, and replay_supervision, which   *)
(* folds the events of a graph into the states of its nodes and refuses an *)
(* event that cannot follow those before it.                               *)
(*                                                                         *)
(* Abstractions.  Nodes are numbered in the order of their ids.  What a    *)
(* node must produce (expected_output_evidence) is one thing, reported or  *)
(* not.  The four dimensions of a budget are bounded alike: one stands for *)
(* them.  The model routed to a node is left out.                          *)
(***************************************************************************)
EXTENDS Naturals, Sequences

CONSTANT NodeCount        \* nodes of a graph

ASSUME NodeCountAssumption == NodeCount \in Nat

Nodes == 1 .. NodeCount

\* deps: a node's dependencies; gated: nodes only a human may start;
\* cost: a node's budget; limit: the objective's.
Graph == [deps : [Nodes -> SUBSET Nodes], gated : SUBSET Nodes,
          cost : [Nodes -> Nat], limit : Nat]

\* A graph without a dependency cycle: every group of nodes has one that
\* depends on none of them.
Acyclic(g) == \A group \in SUBSET Nodes \ {{}} :
                  \E n \in group : g.deps[n] \cap group = {}

\* The checks of DependencyGraph that scheduling relies on.
Validated(g) == Acyclic(g) /\ \A n \in Nodes : g.cost[n] <= g.limit

Terminal == {"pass", "fail", "abstain", "review_required"}

EventTypes == {"scheduled"} \cup Terminal

\* evidence: whether the result reports the node's expected evidence.
Event == [sequence : Nat, type : EventTypes, node : Nodes, evidence : BOOLEAN]

-----------------------------------------------------------------------------
(* _derive_nonrunning_states.                                               *)

TerminalBad == {"fail", "abstain", "review_required", "blocked"}

\* The state the loop gives node n, once those of its dependencies are known.
Desired(g, state, evidence, n) ==
    LET deps == g.deps[n]
    IN CASE state[n] \in {"running"} \cup Terminal      -> state[n]
         [] state[n] \in {"pending", "ready", "blocked"}
            /\ \E d \in deps : state[d] \in TerminalBad -> "blocked"
         [] state[n] \in {"pending", "ready", "blocked"}
            /\ \A d \in deps : state[d] = "pass"        ->
                IF \A d \in deps : evidence[d] THEN "ready" ELSE "blocked"
         [] OTHER                                       -> "pending"

\* One pass of the loop over the nodes, each seeing those before it updated.
Sweep(g, state, evidence) ==
    LET after[n \in 0 .. NodeCount] ==
            IF n = 0 THEN state
            ELSE [after[n - 1] EXCEPT ![n] = Desired(g, after[n - 1], evidence, n)]
    IN after[NodeCount]

\* Mutant of Derive: one pass, without the loop around it.
DeriveOnce(g, state, evidence) == Sweep(g, state, evidence)

\* Passes until nothing changes; a dependency chain settles one node at least
\* in each.
Derive(g, state, evidence) ==
    LET after[i \in 0 .. NodeCount] ==
            IF i = 0 THEN state ELSE Sweep(g, after[i - 1], evidence)
    IN after[NodeCount]

-----------------------------------------------------------------------------
(* replay_supervision.                                                      *)

Fresh == [accepted |-> TRUE, count |-> 0, reserved |-> 0,
          state    |-> [n \in Nodes |-> "pending"],
          evidence |-> [n \in Nodes |-> FALSE]]

\* Whether event e can follow a replay r whose states are derived.
Follows(g, r, e) ==
    /\ e.sequence = r.count + 1
    /\ \/ /\ e.type = "scheduled"
          /\ r.state[e.node] = "ready"
          /\ e.node \notin g.gated
          /\ r.reserved + g.cost[e.node] <= g.limit
       \/ /\ e.type \in Terminal
          /\ r.state[e.node] = "running"
          /\ e.type = "pass" => e.evidence

\* One turn of the loop over the events; a refused event raises.
Applied(g, r, e) ==
    LET derived == [r EXCEPT !.state = Derive(g, r.state, r.evidence)]
    IN IF ~r.accepted \/ ~Follows(g, derived, e)
         THEN [r EXCEPT !.accepted = FALSE]
       ELSE IF e.type = "scheduled"
         THEN [derived EXCEPT !.count = @ + 1,
                              !.reserved = @ + g.cost[e.node],
                              !.state[e.node] = "running"]
         ELSE [derived EXCEPT !.count = @ + 1,
                              !.state[e.node] = e.type,
                              !.evidence[e.node] = e.evidence]

Replay(g, log) ==
    LET after[i \in 0 .. Len(log)] ==
            IF i = 0 THEN Fresh ELSE Applied(g, after[i - 1], log[i])
        last == after[Len(log)]
    IN [last EXCEPT !.state = Derive(g, last.state, last.evidence)]

-----------------------------------------------------------------------------
\* Mutant of Disposition: a ready human-gated node counts as work.
DispositionUngated(g, state) ==
    LET Some(s) == \E n \in Nodes : state[n] = s
    IN CASE \A n \in Nodes : state[n] = "pass" -> "complete"
         [] Some("fail")            -> "fail"
         [] Some("review_required") -> "review_required"
         [] Some("abstain")         -> "abstain"
         [] OTHER                   -> "continue"

\* _disposition of node states.
Disposition(g, state) ==
    LET Some(s) == \E n \in Nodes : state[n] = s
    IN CASE \A n \in Nodes : state[n] = "pass" -> "complete"
         [] Some("fail")                       -> "fail"
         [] ~Some("fail") /\ Some("review_required") -> "review_required"
         [] ~Some("fail") /\ ~Some("review_required") /\ Some("abstain") -> "abstain"
         [] OTHER ->
              IF \E n \in g.gated : state[n] = "ready" THEN "human_gate_required"
              ELSE IF Some("blocked") /\ \A n \in Nodes :
                          state[n] \notin {"running", "ready", "pending"}
                THEN "blocked"
              ELSE "continue"
=============================================================================
