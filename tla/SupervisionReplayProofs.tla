----------------------- MODULE SupervisionReplayProofs -----------------------
(***************************************************************************)
(* Theorems about the supervisor simulator of APP8A and the store of APP8E *)
(* that go through replay_supervision, for every graph and every number of *)
(* nodes and events: the replay accepts what the simulator and the store   *)
(* hold and comes to the states of the simulator, what is blocked is what  *)
(* has a bad outcome upstream, a simulator that says continue has work,    *)
(* and nodes only advance.                                                 *)
(*                                                                         *)
(* The loops of the replay are recursive functions.  Each is shown to be   *)
(* a function made by rounds; on an acyclic graph as many passes of        *)
(* _derive_nonrunning_states as there are nodes come to the one solution,  *)
(* whatever the order of the nodes, and that solution is States.           *)
(***************************************************************************)
EXTENDS GraphCaptureProofs, ReplayLemmas

-----------------------------------------------------------------------------
(* The replay.                                                              *)

NodeStates == {"pending", "ready", "blocked", "running"} \cup Terminal

AnyStates == [Nodes -> NodeStates]

\* One turn of the loop over the nodes.
Visits(g, found) == [n \in 1 .. NodeCount |->
                        [s \in AnyStates |-> [s EXCEPT ![n] = Desired(g, s, found, n)]]]

LEMMA DesiredType ==
    ASSUME NEW g, NEW found, NEW s \in AnyStates, NEW n \in Nodes
    PROVE  Desired(g, s, found, n) \in NodeStates
<1>1. s[n] \in NodeStates
  BY DEF AnyStates
<1> QED BY <1>1 DEF Desired, NodeStates, Terminal

LEMMA VisitTypes ==
    ASSUME NEW g, NEW found
    PROVE  AreSteps(Visits(g, found), NodeCount, AnyStates)
<1>1. ASSUME NEW n \in 1 .. NodeCount, NEW s \in AnyStates
      PROVE  [s EXCEPT ![n] = Desired(g, s, found, n)] \in AnyStates
  <2>1. n \in Nodes
    BY DEF Nodes
  <2>2. Desired(g, s, found, n) \in NodeStates
    BY <2>1, DesiredType
  <2> QED BY <2>1, <2>2 DEF AnyStates
<1> QED BY <1>1 DEF Visits, AreSteps

\* The pass of the loop is a pass.
LEMMA SweepIsPass ==
    ASSUME NEW g, NEW found, NEW s \in AnyStates
    PROVE  \E p \in [0 .. NodeCount -> AnyStates] :
               IsPass(p, NodeCount, s, Visits(g, found)) /\ Sweep(g, s, found) = p[NodeCount]
<1> DEFINE Is(f) == f = [n \in 0 .. NodeCount |->
                            IF n = 0 THEN s
                            ELSE [f[n - 1] EXCEPT ![n] = Desired(g, f[n - 1], found, n)]]
           after == CHOOSE f : Is(f)
<1>1. PICK p \in [0 .. NodeCount -> AnyStates] : IsRounds(p, NodeCount, s, Visits(g, found))
  BY VisitTypes, RoundsExist, NodeCountAssumption
<1>2. /\ p[0] = s
      /\ \A n \in 1 .. NodeCount :
            p[n] = [p[n - 1] EXCEPT ![n] = Desired(g, p[n - 1], found, n)]
  <2>1. ASSUME NEW n \in 1 .. NodeCount
        PROVE  p[n] = [p[n - 1] EXCEPT ![n] = Desired(g, p[n - 1], found, n)]
    <3>1. n - 1 \in 0 .. NodeCount
      BY NodeCountAssumption
    <3>2. p[n] = Visits(g, found)[n][p[n - 1]] /\ p[n - 1] \in AnyStates
      BY <1>1, <3>1 DEF IsRounds
    <3> QED BY <3>2 DEF Visits
  <2> QED BY <1>1, <2>1 DEF IsRounds
<1>3. Is(p)
  <2>1. ASSUME NEW n \in 0 .. NodeCount
        PROVE  p[n] = IF n = 0 THEN s
                      ELSE [p[n - 1] EXCEPT ![n] = Desired(g, p[n - 1], found, n)]
    <3>1. n # 0 => n \in 1 .. NodeCount
      BY NodeCountAssumption
    <3> QED BY <1>2, <3>1
  <2> QED BY <2>1
<1>4. Is(after)
  <2> HIDE DEF Is
  <2> QED BY <1>3
<1>5. Sweep(g, s, found) = after[NodeCount]
  BY DEF Sweep
<1> HIDE DEF after
<1>6. SameRounds(after, p, NodeCount)
  <2>1. after[0] = s
    BY <1>4, NodeCountAssumption
  <2>2. ASSUME NEW n \in 1 .. NodeCount, after[n - 1] = p[n - 1] PROVE after[n] = p[n]
    <3>1. n \in 0 .. NodeCount /\ n # 0
      BY NodeCountAssumption
    <3>2. after[n] = [after[n - 1] EXCEPT ![n] = Desired(g, after[n - 1], found, n)]
      BY <1>4, <3>1
    <3> QED BY <1>2, <2>2, <3>2
  <2> QED BY <1>2, <2>1, <2>2 DEF SameRounds
<1>7. after[NodeCount] = p[NodeCount]
  <2>1. \A n \in 0 .. NodeCount : after[n] = p[n]
    BY <1>6, RoundsAgree, NodeCountAssumption
  <2> QED BY <2>1, NodeCountAssumption
<1>8. IsPass(p, NodeCount, s, Visits(g, found))
  BY <1>1 DEF IsPass, IsRounds
<1> QED BY <1>5, <1>7, <1>8

LEMMA SweepType ==
    ASSUME NEW g, NEW found, NEW s \in AnyStates
    PROVE  Sweep(g, s, found) \in AnyStates
BY SweepIsPass, NodeCountAssumption

\* The loop around it makes one pass after another.
LEMMA DeriveIsPasses ==
    ASSUME NEW g, NEW found, NEW s \in AnyStates
    PROVE  \E q \in [0 .. NodeCount -> AnyStates] :
               /\ ArePasses(q, NodeCount, s, Visits(g, found))
               /\ Derive(g, s, found) = q[NodeCount]
<1> DEFINE Is(f) == f = [i \in 0 .. NodeCount |->
                            IF i = 0 THEN s ELSE Sweep(g, f[i - 1], found)]
           after == CHOOSE f : Is(f)
           sweeps == [i \in 1 .. NodeCount |-> [t \in AnyStates |-> Sweep(g, t, found)]]
<1>1. AreSteps(sweeps, NodeCount, AnyStates)
  BY SweepType DEF AreSteps
<1>2. PICK q \in [0 .. NodeCount -> AnyStates] : IsRounds(q, NodeCount, s, sweeps)
  <2> HIDE DEF sweeps
  <2> QED BY <1>1, RoundsExist, NodeCountAssumption
<1>3. /\ q[0] = s
      /\ \A i \in 1 .. NodeCount : q[i] = Sweep(g, q[i - 1], found) /\ q[i - 1] \in AnyStates
  <2>1. ASSUME NEW i \in 1 .. NodeCount
        PROVE  q[i] = Sweep(g, q[i - 1], found) /\ q[i - 1] \in AnyStates
    <3>1. i - 1 \in 0 .. NodeCount
      BY NodeCountAssumption
    <3> QED BY <1>2, <3>1 DEF IsRounds
  <2> QED BY <1>2, <2>1 DEF IsRounds
<1>4. Is(q)
  BY <1>3, NodeCountAssumption
<1>5. Is(after)
  <2> HIDE DEF Is
  <2> QED BY <1>4
<1>6. Derive(g, s, found) = after[NodeCount]
  BY DEF Derive
<1> HIDE DEF after
<1>7. SameRounds(after, q, NodeCount)
  <2>1. after[0] = s
    BY <1>5, NodeCountAssumption
  <2>2. ASSUME NEW i \in 1 .. NodeCount, after[i - 1] = q[i - 1] PROVE after[i] = q[i]
    <3>1. i \in 0 .. NodeCount /\ i # 0
      BY NodeCountAssumption
    <3>2. after[i] = Sweep(g, after[i - 1], found)
      BY <1>5, <3>1
    <3> QED BY <1>3, <2>2, <3>2
  <2> QED BY <1>3, <2>1, <2>2 DEF SameRounds
<1>8. after[NodeCount] = q[NodeCount]
  <2>1. \A i \in 0 .. NodeCount : after[i] = q[i]
    BY <1>7, RoundsAgree, NodeCountAssumption
  <2> QED BY <2>1, NodeCountAssumption
<1>9. ArePasses(q, NodeCount, s, Visits(g, found))
  <2>1. ASSUME NEW i \in 1 .. NodeCount
        PROVE  \E p : IsPass(p, NodeCount, q[i - 1], Visits(g, found)) /\ q[i] = p[NodeCount]
    BY <1>3, SweepIsPass
  <2> QED BY <1>3, <2>1 DEF ArePasses
<1> QED BY <1>6, <1>8, <1>9

LEMMA DeriveType ==
    ASSUME NEW g, NEW found, NEW s \in AnyStates
    PROVE  Derive(g, s, found) \in AnyStates
BY DeriveIsPasses, NodeCountAssumption

-----------------------------------------------------------------------------
Replays == [accepted : BOOLEAN, count : Nat, reserved : Nat,
            state : AnyStates, evidence : [Nodes -> BOOLEAN]]

LEMMA AppliedType ==
    ASSUME NEW g \in Graph, NEW r \in Replays, NEW e \in Event
    PROVE  Applied(g, r, e) \in Replays
<1> DEFINE state == Derive(g, r.state, r.evidence)
<1>1. state \in AnyStates
  BY DeriveType DEF Replays
<1> HIDE DEF state
<1>2. e.node \in Nodes /\ e.type \in NodeStates \cup {"scheduled"} /\ e.evidence \in BOOLEAN
  BY DEF Event, EventTypes, NodeStates
<1>3. g.cost[e.node] \in Nat
  BY <1>2 DEF Graph
<1>4. /\ [state EXCEPT ![e.node] = "running"] \in AnyStates
      /\ e.type \in NodeStates => [state EXCEPT ![e.node] = e.type] \in AnyStates
      /\ [r.evidence EXCEPT ![e.node] = e.evidence] \in [Nodes -> BOOLEAN]
  BY <1>1, <1>2 DEF AnyStates, NodeStates, Replays
<1>5. r.accepted \in BOOLEAN /\ r.count \in Nat /\ r.reserved \in Nat
  BY DEF Replays
<1>6. /\ r.count + 1 \in Nat /\ r.reserved + g.cost[e.node] \in Nat
  BY <1>3, <1>5
<1>7. CASE ~r.accepted \/ ~Follows(g, [r EXCEPT !.state = state], e)
  <2>1. Applied(g, r, e) = [r EXCEPT !.accepted = FALSE]
    BY <1>7 DEF Applied, state
  <2> QED BY <2>1 DEF Replays
<1>8. CASE r.accepted /\ Follows(g, [r EXCEPT !.state = state], e)
  <2>1. CASE e.type = "scheduled"
    <3>1. Applied(g, r, e) = [r EXCEPT !.count = @ + 1,
                                       !.reserved = @ + g.cost[e.node],
                                       !.state = [state EXCEPT ![e.node] = "running"]]
      BY <1>8, <2>1 DEF Applied, state, Replays
    <3> QED BY <3>1, <1>4, <1>6 DEF Replays
  <2>2. CASE e.type # "scheduled"
    <3>1. Applied(g, r, e) = [r EXCEPT !.count = @ + 1,
                                       !.state = [state EXCEPT ![e.node] = e.type],
                                       !.evidence = [@ EXCEPT ![e.node] = e.evidence]]
      BY <1>8, <2>2 DEF Applied, state, Replays
    <3> QED BY <3>1, <1>2, <1>4, <1>6, <2>2 DEF Replays
  <2> QED BY <2>1, <2>2
<1> QED BY <1>5, <1>7, <1>8

\* r is the replay of log, event by event.
IsFold(r, g, log) ==
    /\ r[0] = Fresh
    /\ \A i \in 1 .. Len(log) : r[i] = Applied(g, r[i - 1], log[i])

LEMMA ReplayIsFold ==
    ASSUME NEW g \in Graph, NEW log \in Seq(Event)
    PROVE  \E r \in [0 .. Len(log) -> Replays] :
               /\ IsFold(r, g, log)
               /\ Replay(g, log) = [r[Len(log)] EXCEPT
                      !.state = Derive(g, r[Len(log)].state, r[Len(log)].evidence)]
<1> DEFINE N == Len(log)
           Is(f) == f = [i \in 0 .. Len(log) |->
                            IF i = 0 THEN Fresh ELSE Applied(g, f[i - 1], log[i])]
           after == CHOOSE f : Is(f)
           steps == [i \in 1 .. N |-> [r \in Replays |-> Applied(g, r, log[i])]]
<1>n. N \in Nat
  BY LenProperties
<1>0. Fresh \in Replays
  BY DEF Fresh, Replays, AnyStates, NodeStates
<1>1. AreSteps(steps, N, Replays)
  <2>1. ASSUME NEW i \in 1 .. N PROVE log[i] \in Event
    BY ElementOfSeq
  <2> QED BY <2>1, AppliedType DEF AreSteps
<1>2. PICK r \in [0 .. N -> Replays] : IsRounds(r, N, Fresh, steps)
  <2> HIDE DEF steps, N
  <2> QED BY <1>n, <1>0, <1>1, RoundsExist
<1>3. /\ r[0] = Fresh
      /\ \A i \in 1 .. N : r[i] = Applied(g, r[i - 1], log[i])
  <2>1. ASSUME NEW i \in 1 .. N
        PROVE  r[i] = Applied(g, r[i - 1], log[i])
    <3>1. i - 1 \in 0 .. N
      BY <1>n
    <3>2. r[i - 1] \in Replays /\ r[i] = steps[i][r[i - 1]]
      BY <1>2, <3>1 DEF IsRounds
    <3> QED BY <3>2
  <2> QED BY <1>2, <2>1 DEF IsRounds
<1>4. Is(r)
  BY <1>3, <1>n
<1>5. Is(after)
  <2> HIDE DEF Is
  <2> QED BY <1>4
<1>6. Replay(g, log) = [after[N] EXCEPT !.state = Derive(g, after[N].state, after[N].evidence)]
  BY DEF Replay
<1> HIDE DEF after
<1>7. SameRounds(after, r, N)
  BY <1>3, <1>5, <1>n DEF SameRounds
<1>8. after[N] = r[N]
  <2>1. \A i \in 0 .. N : after[i] = r[i]
    <3> HIDE DEF N
    <3> QED BY <1>7, <1>n, RoundsAgree
  <2> QED BY <2>1, <1>n
<1>9. IsFold(r, g, log)
  BY <1>3 DEF IsFold
<1> QED BY <1>6, <1>8, <1>9

-----------------------------------------------------------------------------
(* What is blocked, as the least set that the rounds of Blocked reach.      *)

Bad(n) == settled[n] \in Terminal \ {"pass"}

LEMMA NodesFinite == IsFiniteSet(Nodes) /\ Cardinality(Nodes) = NodeCount
BY NodeCountAssumption, FS_Interval DEF Nodes

LEMMA GraphAcyclic ==
    ASSUME TypeOK
    PROVE  \A group \in SUBSET Nodes \ {{}} : \E n \in group : graph.deps[n] \cap group = {}
<1>1. Validated(graph)
  BY GraphsAssumption DEF TypeOK
<1> QED BY <1>1 DEF Validated, Acyclic

\* Waiting nodes that depend on one of s.
Behind(s) == {n \in Nodes : Waiting(n) /\ graph.deps[n] \cap s # {}}

\* One round of Blocked.
Nearer == [s \in SUBSET Nodes |-> s \cup Behind(s)]

LEMMA BlockedGrows ==
    \E f : Grows(f, NodeCount, Obstructed, Nearer) /\ Blocked = f[NodeCount]
<1> DEFINE N == NodeCount
           S == SUBSET Nodes
           step == [k \in 1 .. N |-> Nearer]
           Is(f) == f = [k \in 0 .. N |->
                            IF k = 0 THEN Obstructed
                            ELSE f[k - 1] \cup {n \in Nodes : /\ Waiting(n)
                                                             /\ graph.deps[n] \cap f[k - 1] # {}}]
           upto == CHOOSE f : Is(f)
<1>1. Obstructed \in S /\ Nearer \in [S -> S]
  BY DEF Obstructed, Nearer, Behind
<1>2. PICK f \in [0 .. N -> S] : IsRounds(f, N, Obstructed, step)
  <2>1. AreSteps(step, N, S)
    BY <1>1 DEF AreSteps
  <2>2. N \in Nat /\ Obstructed \in S
    BY <1>1, NodeCountAssumption
  <2> HIDE DEF step, S, N
  <2> QED BY <2>1, <2>2, RoundsExist
<1>3. /\ f[0] = Obstructed
      /\ \A k \in 1 .. N : f[k] = Nearer[f[k - 1]] /\ f[k - 1] \in S
  <2>1. ASSUME NEW k \in 1 .. N PROVE f[k] = Nearer[f[k - 1]] /\ f[k - 1] \in S
    <3>1. k - 1 \in 0 .. N
      BY NodeCountAssumption
    <3> QED BY <1>2, <3>1 DEF IsRounds
  <2> QED BY <1>2, <2>1 DEF IsRounds
<1>4. Is(f)
  <2>1. ASSUME NEW k \in 0 .. N
        PROVE  f[k] = IF k = 0 THEN Obstructed
                      ELSE f[k - 1] \cup {n \in Nodes : /\ Waiting(n)
                                                       /\ graph.deps[n] \cap f[k - 1] # {}}
    <3>1. k # 0 => k \in 1 .. N
      BY NodeCountAssumption
    <3> QED BY <1>3, <3>1 DEF Nearer, Behind
  <2> QED BY <2>1
<1>5. Is(upto)
  <2> HIDE DEF Is
  <2> QED BY <1>4
<1>6. Blocked = upto[N]
  BY DEF Blocked
<1> HIDE DEF upto
<1>7. upto[N] = f[N]
  <2>1. upto[0] = Obstructed
    BY <1>5, NodeCountAssumption
  <2>2. ASSUME NEW k \in 1 .. N, upto[k - 1] = f[k - 1] PROVE upto[k] = f[k]
    <3>1. k \in 0 .. N /\ k # 0
      BY NodeCountAssumption
    <3>2. upto[k] = upto[k - 1] \cup {n \in Nodes : /\ Waiting(n)
                                                   /\ graph.deps[n] \cap upto[k - 1] # {}}
      BY <1>5, <3>1
    <3> QED BY <1>3, <2>2, <3>2 DEF Nearer, Behind
  <2>3. \A k \in 0 .. N : upto[k] = f[k]
    <3>1. N \in Nat /\ SameRounds(upto, f, N)
      BY <2>2, <1>3, <2>1, NodeCountAssumption DEF SameRounds
    <3> HIDE DEF N
    <3> QED BY <3>1, RoundsAgree
  <2> QED BY <2>3, NodeCountAssumption
<1> QED BY <1>3, <1>6, <1>7 DEF Grows

LEMMA NearerType ==
    /\ Obstructed \in SUBSET Nodes
    /\ IsGrowth(Nearer, Nodes)
BY DEF Obstructed, Nearer, Behind, IsGrowth

\* Blocked nodes wait, for a dependency that ended badly or is blocked itself.
LEMMA BlockedFixpoint ==
    Obstructed \subseteq Blocked /\ Blocked = Obstructed \cup Behind(Blocked)
<1>1. PICK f : Grows(f, NodeCount, Obstructed, Nearer) /\ Blocked = f[NodeCount]
  BY BlockedGrows
<1>2. Blocked \in SUBSET Nodes /\ Obstructed \subseteq Blocked /\ Nearer[Blocked] = Blocked
  <2>1. Cardinality(Nodes) <= NodeCount
    BY NodesFinite, NodeCountAssumption
  <2> QED BY <1>1, <2>1, NearerType, NodesFinite, GrowthEnds, NodeCountAssumption
<1>3. Behind(Blocked) \subseteq Blocked
  BY <1>2 DEF Nearer
<1>4. Blocked \subseteq Obstructed \cup Behind(Blocked)
  <2> DEFINE C == Obstructed \cup Behind(Blocked)
  <2>1. C \subseteq Blocked
    BY <1>2, <1>3
  <2>2. ASSUME NEW s \in SUBSET Nodes, s \subseteq C PROVE Nearer[s] \subseteq C
    <3>1. Behind(s) \subseteq Behind(Blocked)
      BY <2>1, <2>2 DEF Behind
    <3> QED BY <2>2, <3>1 DEF Nearer
  <2>3. Obstructed \subseteq C
    OBVIOUS
  <2>4. IsClosed(C, Nodes, Nearer)
    BY <2>2 DEF IsClosed
  <2> HIDE DEF C
  <2>5. Blocked \subseteq C
    BY <1>1, <2>3, <2>4, NearerType, GrowthIsLeast, NodeCountAssumption
  <2> QED BY <2>5 DEF C
<1> QED BY <1>2, <1>3, <1>4

LEMMA BlockedIsLeast ==
    ASSUME NEW C, Obstructed \subseteq C, Behind(C) \subseteq C
    PROVE  Blocked \subseteq C
<1>1. PICK f : Grows(f, NodeCount, Obstructed, Nearer) /\ Blocked = f[NodeCount]
  BY BlockedGrows
<1>2. IsClosed(C, Nodes, Nearer)
  BY DEF IsClosed, Nearer, Behind
<1> QED BY <1>1, <1>2, NearerType, GrowthIsLeast, NodeCountAssumption

LEMMA BlockedWaits ==
    ASSUME NEW n \in Blocked
    PROVE  n \in Nodes /\ Waiting(n)
BY BlockedFixpoint DEF Obstructed, Behind

-----------------------------------------------------------------------------
(* States.                                                                  *)

\* The states of nodes that agree with what has settled.
Consistent == {s \in AnyStates : \A n \in Nodes :
                  IF Waiting(n) THEN s[n] \in {"pending", "ready", "blocked"}
                                ELSE s[n] = settled[n]}

LEMMA StateOf ==
    ASSUME TypeOK, NEW n \in Nodes
    PROVE  /\ ~Waiting(n) => States[n] = settled[n] /\ settled[n] \in {"running"} \cup Terminal
           /\ Waiting(n) /\ n \in Blocked => States[n] = "blocked"
           /\ Waiting(n) /\ n \notin Blocked /\ Ready(n) => States[n] = "ready"
           /\ Waiting(n) /\ n \notin Blocked /\ ~Ready(n) => States[n] = "pending"
<1>1. settled[n] \in {"none", "running"} \cup Terminal
  BY DEF TypeOK
<1>2. States[n] = CASE ~Waiting(n)                -> settled[n]
                    [] Waiting(n) /\ n \in Blocked -> "blocked"
                    [] Ready(n) /\ n \notin Blocked -> "ready"
                    [] OTHER                       -> "pending"
  BY DEF States
<1>3. Ready(n) => Waiting(n)
  BY DEF Ready
<1> QED BY <1>1, <1>2, <1>3 DEF Waiting

LEMMA StatesConsistent ==
    ASSUME TypeOK
    PROVE  States \in Consistent
<1>1. ASSUME NEW n \in Nodes
      PROVE  /\ States[n] \in NodeStates
             /\ IF Waiting(n) THEN States[n] \in {"pending", "ready", "blocked"}
                              ELSE States[n] = settled[n]
  BY StateOf DEF NodeStates
<1>2. States = [n \in Nodes |-> States[n]]
  BY DEF States
<1> QED BY <1>1, <1>2 DEF Consistent, AnyStates

\* A node that is ready is not blocked.
LEMMA ReadyNotBlocked ==
    ASSUME TypeOK, NEW n \in Nodes, Ready(n)
    PROVE  n \notin Blocked
<1>1. \A d \in graph.deps[n] : d \in Nodes /\ settled[d] = "pass" /\ evidence[d]
  BY GraphType DEF Ready
<1>2. n \notin Obstructed
  BY <1>1 DEF Obstructed
<1>3. \A d \in graph.deps[n] : d \notin Blocked
  BY <1>1, BlockedWaits DEF Waiting
<1> QED BY <1>2, <1>3, BlockedFixpoint DEF Behind

\* Once the dependencies of a node have their state, the loop gives it its own.
LEMMA DesiredIsState ==
    ASSUME TypeOK, NEW s \in Consistent, NEW n \in Nodes,
           \A d \in graph.deps[n] : s[d] = States[d]
    PROVE  Desired(graph, s, evidence, n) = States[n]
<1> DEFINE deps == graph.deps[n]
<1>1. deps \subseteq Nodes
  BY GraphType
<1>2. CASE ~Waiting(n)
  <2>1. s[n] = settled[n] /\ States[n] = settled[n] /\ settled[n] \in {"running"} \cup Terminal
    BY <1>2, StateOf DEF Consistent
  <2> QED BY <2>1 DEF Desired, Terminal
<1>3. CASE Waiting(n)
  <2>1. s[n] \in {"pending", "ready", "blocked"}
    BY <1>3 DEF Consistent
  <2>2. s[n] \notin {"running"} \cup Terminal
    BY <2>1 DEF Terminal
  <2>3. \A d \in deps : d \in Nodes /\ s[d] = States[d]
    BY <1>1
  <2>4. ASSUME NEW d \in deps PROVE s[d] \in TerminalBad <=> Bad(d) \/ d \in Blocked
    <3>1. CASE Waiting(d)
      <4>1. ~Bad(d)
        BY <3>1 DEF Waiting, Bad, Terminal
      <4> QED BY <3>1, <4>1, <2>3, StateOf DEF TerminalBad
    <3>2. CASE ~Waiting(d)
      <4>1. d \notin Blocked
        BY <3>2, BlockedWaits
      <4>2. s[d] = settled[d] /\ settled[d] \in {"running"} \cup Terminal
        BY <3>2, <2>3, StateOf
      <4> QED BY <4>1, <4>2 DEF Bad, Terminal, TerminalBad
    <3> QED BY <3>1, <3>2
  <2>5. ASSUME NEW d \in deps PROVE s[d] = "pass" <=> settled[d] = "pass"
    <3>1. CASE Waiting(d)
      BY <3>1, <2>3, StateOf DEF Waiting
    <3>2. CASE ~Waiting(d)
      BY <3>2, <2>3, StateOf
    <3> QED BY <3>1, <3>2
  <2>6. n \in Blocked <=> \/ \E d \in deps : s[d] \in TerminalBad
                          \/ (\A d \in deps : s[d] = "pass") /\ \E d \in deps : ~evidence[d]
    <3>1. n \in Obstructed <=> \/ \E d \in deps : Bad(d)
                               \/ (\A d \in deps : s[d] = "pass") /\ \E d \in deps : ~evidence[d]
      BY <1>3, <2>5 DEF Obstructed, Bad
    <3>2. n \in Behind(Blocked) <=> \E d \in deps : d \in Blocked
      BY <1>3 DEF Behind
    <3> QED BY <2>4, <3>1, <3>2, BlockedFixpoint
  <2>7. Ready(n) <=> (\A d \in deps : s[d] = "pass") /\ \A d \in deps : evidence[d]
    BY <1>3, <2>5 DEF Ready
  <2>8. States[n] = IF n \in Blocked THEN "blocked" ELSE IF Ready(n) THEN "ready" ELSE "pending"
    BY <1>3, StateOf
  <2>9. Desired(graph, s, evidence, n) =
            IF \E d \in deps : s[d] \in TerminalBad THEN "blocked"
            ELSE IF \A d \in deps : s[d] = "pass"
                 THEN IF \A d \in deps : evidence[d] THEN "ready" ELSE "blocked"
                 ELSE "pending"
    <3>1. ASSUME NEW d \in deps, s[d] \in TerminalBad PROVE s[d] # "pass"
      BY <3>1 DEF TerminalBad
    <3> QED BY <2>1, <2>2, <3>1 DEF Desired
  <2> QED BY <2>6, <2>7, <2>8, <2>9
<1> QED BY <1>2, <1>3

\* Wherever it starts and whatever order it visits the nodes in, the loop of
\* replay_supervision comes to the states.
LEMMA DeriveIsStates == TypeOK => \A s \in Consistent : Derive(graph, s, evidence) = States
<1> SUFFICES ASSUME TypeOK, NEW s \in Consistent PROVE Derive(graph, s, evidence) = States
  OBVIOUS
<1> DEFINE visit == Visits(graph, evidence)
<1>1. Solves(States, NodeCount, Nodes, graph.deps, Consistent, visit)
  <2>1. ASSUME NEW n \in Nodes, NEW t \in Consistent
        PROVE  /\ visit[n][t] \in Consistent
               /\ \A m \in Nodes : m # n => visit[n][t][m] = t[m]
               /\ (\A d \in graph.deps[n] : t[d] = States[d]) => visit[n][t][n] = States[n]
    <3>1. t \in AnyStates
      BY DEF Consistent
    <3>2. visit[n][t] = [t EXCEPT ![n] = Desired(graph, t, evidence, n)]
      BY <3>1 DEF Visits, Nodes
    <3>3. Desired(graph, t, evidence, n) \in NodeStates
      BY <3>1, DesiredType
    <3>4. /\ visit[n][t] \in AnyStates
          /\ visit[n][t][n] = Desired(graph, t, evidence, n)
          /\ \A m \in Nodes : m # n => visit[n][t][m] = t[m]
      BY <3>1, <3>2, <3>3 DEF AnyStates
    <3>5. IF Waiting(n) THEN Desired(graph, t, evidence, n) \in {"pending", "ready", "blocked"}
                        ELSE Desired(graph, t, evidence, n) = settled[n]
      <4>1. CASE Waiting(n)
        <5>1. t[n] \in {"pending", "ready", "blocked"}
          BY <4>1 DEF Consistent
        <5>2. t[n] \notin {"running"} \cup Terminal
          BY <5>1 DEF Terminal
        <5> QED BY <4>1, <5>1, <5>2 DEF Desired
      <4>2. CASE ~Waiting(n)
        <5>1. t[n] = settled[n] /\ settled[n] \in {"running"} \cup Terminal
          BY <4>2, StateOf DEF Consistent
        <5> QED BY <4>2, <5>1 DEF Desired, Terminal
      <4> QED BY <4>1, <4>2
    <3>6. visit[n][t] \in Consistent
      <4>1. ASSUME NEW m \in Nodes
            PROVE  IF Waiting(m) THEN visit[n][t][m] \in {"pending", "ready", "blocked"}
                                 ELSE visit[n][t][m] = settled[m]
        <5>1. CASE m = n
          BY <5>1, <3>4, <3>5
        <5>2. CASE m # n
          BY <5>2, <3>4 DEF Consistent
        <5> QED BY <5>1, <5>2
      <4> QED BY <3>4, <4>1 DEF Consistent
    <3> QED BY <3>4, <3>6, DesiredIsState
  <2> HIDE DEF visit
  <2> QED BY <2>1, GraphType DEF Solves, Nodes
<1>2. PICK q \in [0 .. NodeCount -> AnyStates] :
          ArePasses(q, NodeCount, s, visit) /\ Derive(graph, s, evidence) = q[NodeCount]
  BY DeriveIsPasses DEF Consistent
<1>3. q[NodeCount] \in Consistent /\ \A n \in Nodes : q[NodeCount][n] = States[n]
  <2> HIDE DEF visit
  <2> QED BY <1>1, <1>2, GraphAcyclic, PassesSettle, NodeCountAssumption
<1>4. q[NodeCount] = States
  BY <1>3, StatesConsistent DEF Consistent, AnyStates
<1> QED BY <1>2, <1>4

LEMMA DeriveIsStatesNext ==
    TypeOK' => (\A s \in Consistent : Derive(graph, s, evidence) = States)'
BY DeriveIsStates, PTL

-----------------------------------------------------------------------------
(* What has settled.                                                        *)

\* Whatever passed has its evidence, and whatever was started stood on
\* dependencies that passed.
Grounded == \A n \in Nodes : /\ settled[n] = "pass" => evidence[n]
                             /\ ~Waiting(n) => \A d \in graph.deps[n] :
                                                   settled[d] = "pass" /\ evidence[d]

LEMMA StepGrounds ==
    ASSUME TypeOK, Grounded, Next
    PROVE  Grounded'
<1>0. graph' = graph /\ \A n \in Nodes : graph.deps[n] \subseteq Nodes
  BY GraphType DEF Next, ScheduleNext, RecordResult
<1>1. CASE ScheduleNext
  <2>1. PICK n \in Candidates : settled' = [settled EXCEPT ![n] = "running"] /\ evidence' = evidence
    BY <1>1 DEF ScheduleNext
  <2>2. n \in Nodes /\ Ready(n)
    BY DEF Candidates
  <2>3. ASSUME NEW m \in Nodes, settled[m] = "pass"
        PROVE  settled'[m] = "pass" /\ evidence'[m] = evidence[m]
    BY <2>1, <2>2, <2>3 DEF Ready, Waiting, TypeOK
  <2>4. ASSUME NEW m \in Nodes
        PROVE  /\ settled'[m] = "pass" => evidence'[m]
               /\ settled'[m] # "none" => \A d \in graph.deps[m] : settled'[d] = "pass" /\ evidence'[d]
    <3>1. CASE m = n
      <4>1. settled'[m] = "running"
        BY <2>1, <2>2, <3>1 DEF TypeOK
      <4>2. \A d \in graph.deps[m] : settled[d] = "pass" /\ evidence[d]
        BY <2>2, <3>1 DEF Ready
      <4> QED BY <1>0, <2>3, <4>1, <4>2
    <3>2. CASE m # n
      <4>1. settled'[m] = settled[m]
        BY <2>1, <3>2 DEF TypeOK
      <4> QED BY <1>0, <2>1, <2>3, <4>1 DEF Grounded, Waiting
    <3> QED BY <3>1, <3>2
  <2> QED BY <1>0, <2>4 DEF Grounded, Waiting
<1>2. CASE \E n \in Nodes, result \in Results : RecordResult(n, result)
  <2>1. PICK n \in Nodes, result \in Results : RecordResult(n, result)
    BY <1>2
  <2>2. /\ settled[n] = "running"
        /\ settled'[n] = result.outcome /\ evidence'[n] = result.evidence
        /\ result.outcome = "pass" => result.evidence
        /\ \A m \in Nodes : m # n => settled'[m] = settled[m] /\ evidence'[m] = evidence[m]
    BY <2>1 DEF RecordResult, Reportable, TypeOK
  <2>3. ASSUME NEW m \in Nodes, settled[m] = "pass"
        PROVE  settled'[m] = "pass" /\ evidence'[m] = evidence[m]
    BY <2>2, <2>3
  <2>4. ASSUME NEW m \in Nodes
        PROVE  /\ settled'[m] = "pass" => evidence'[m]
               /\ settled'[m] # "none" => \A d \in graph.deps[m] : settled'[d] = "pass" /\ evidence'[d]
    <3>1. settled'[m] # "none" => settled[m] # "none"
      BY <2>2
    <3>2. settled'[m] = "pass" => evidence'[m]
      BY <2>2 DEF Grounded
    <3> QED BY <1>0, <2>3, <3>1, <3>2 DEF Grounded, Waiting
  <2> QED BY <1>0, <2>4 DEF Grounded, Waiting
<1> QED BY <1>1, <1>2 DEF Next

\* So a node is obstructed by a dependency that ended badly, and by nothing else.
LEMMA ObstructedByBad ==
    ASSUME TypeOK, Grounded
    PROVE  Obstructed = {n \in Nodes : Waiting(n) /\ \E d \in graph.deps[n] : Bad(d)}
<1>1. \A n \in Nodes : graph.deps[n] \subseteq Nodes
  BY GraphType
<1> QED BY <1>1 DEF Obstructed, Bad, Grounded

-----------------------------------------------------------------------------
(* The replay of the history.                                               *)

\* r is the replay of what has settled.
Reaches(r) == /\ r.accepted
              /\ r.count = Len(events)
              /\ r.reserved = reserved
              /\ r.evidence = evidence
              /\ r.state \in Consistent

FoldInv == \E r \in [0 .. Len(events) -> Replays] :
               IsFold(r, graph, events) /\ Reaches(r[Len(events)])

Begins(log, more) == /\ Len(log) \in Nat /\ Len(more) \in Nat /\ Len(log) <= Len(more)
                     /\ \A i \in 1 .. Len(log) : more[i] = log[i]

\* A log is replayed as its beginning is, so far.
LEMMA SameFold ==
    ASSUME NEW g, NEW log, NEW more, Begins(log, more),
           NEW r, IsFold(r, g, log), NEW q, IsFold(q, g, more)
    PROVE  q[Len(log)] = r[Len(log)]
<1> USE DEF Begins
<1>1. q[0] = r[0]
  BY DEF IsFold
<1>2. ASSUME NEW i \in 1 .. Len(log), q[i - 1] = r[i - 1] PROVE q[i] = r[i]
  <2>1. i \in 1 .. Len(more)
    OBVIOUS
  <2> QED BY <1>2, <2>1 DEF IsFold
<1>3. Len(log) \in Nat
  OBVIOUS
<1> DEFINE N == Len(log)
<1> HIDE DEF N
<1>4. \A i \in 1 .. N : q[i - 1] = r[i - 1] => q[i] = r[i]
  BY <1>2 DEF N
<1> DEFINE G == {i \in 0 .. N : q[i] = r[i]}
<1>5. \A i \in 0 .. N : i \in G
  <2>1. N \in Nat
    BY <1>3 DEF N
  <2>2. 0 \in G /\ \A i \in 1 .. N : i - 1 \in G => i \in G
    BY <1>1, <1>4, <2>1
  <2> HIDE DEF G
  <2> QED BY <2>1, <2>2, BoundedInduction
<1>6. N \in 0 .. N
  BY <1>3 DEF N
<1> QED BY <1>5, <1>6 DEF N

\* An event that may follow is taken.
LEMMA EventApplied ==
    ASSUME TypeOK, NEW r \in Replays, Reaches(r), NEW e \in Event,
           Follows(graph, [r EXCEPT !.state = States], e)
    PROVE  Applied(graph, r, e) =
               IF e.type = "scheduled"
               THEN [r EXCEPT !.count = @ + 1, !.reserved = @ + graph.cost[e.node],
                              !.state = [States EXCEPT ![e.node] = "running"]]
               ELSE [r EXCEPT !.count = @ + 1,
                              !.state = [States EXCEPT ![e.node] = e.type],
                              !.evidence = [@ EXCEPT ![e.node] = e.evidence]]
<1>1. Derive(graph, r.state, r.evidence) = States
  BY DeriveIsStates DEF Reaches
<1>2. r.accepted
  BY DEF Reaches
<1>3. CASE e.type = "scheduled"
  BY <1>1, <1>2, <1>3 DEF Applied, Replays
<1>4. CASE e.type # "scheduled"
  BY <1>1, <1>2, <1>4 DEF Applied, Replays
<1> QED BY <1>3, <1>4

\* A history with one more event, if the replay takes it.
LEMMA FoldGrows ==
    ASSUME TypeOK, FoldInv, NEW e \in Event, events' = Append(events, e), graph' = graph,
           \A r \in Replays : Reaches(r) =>
               \A x : x = Applied(graph, r, e) => Reaches(x)'
    PROVE  FoldInv'
<1>1. PICK r \in [0 .. Len(events) -> Replays] :
          IsFold(r, graph, events) /\ Reaches(r[Len(events)])
  BY DEF FoldInv
<1>2. events' \in Seq(Event) /\ graph \in Graph
  BY AppendProperties, GraphsAssumption DEF TypeOK
<1>3. PICK q \in [0 .. Len(events') -> Replays] : IsFold(q, graph, events')
  BY <1>2, ReplayIsFold
<1>4. /\ Len(events) \in Nat /\ Len(events') = Len(events) + 1
      /\ \A i \in 1 .. Len(events) : events'[i] = events[i]
      /\ events'[Len(events) + 1] = e
  BY HistoryGrows
<1>5. q[Len(events)] = r[Len(events)]
  <2>1. Begins(events, events')
    BY <1>4 DEF Begins
  <2> QED BY <1>1, <1>3, <2>1, SameFold
<1>6. q[Len(events')] = Applied(graph, r[Len(events)], e)
  <2>1. Len(events') \in 1 .. Len(events') /\ Len(events') - 1 = Len(events)
    BY <1>4
  <2> QED BY <1>3, <1>4, <1>5, <2>1 DEF IsFold
<1>7. r[Len(events)] \in Replays
  BY <1>4
<1>8. \A x : x = Applied(graph, r[Len(events)], e) => Reaches(x)'
  BY <1>1, <1>7
<1>9. \A x : x = q[Len(events')] => Reaches(x)'
  BY <1>6, <1>8
<1>10. Reaches(q[Len(events)])'
  BY <1>9 DEF Reaches
<1> QED BY <1>3, <1>10 DEF FoldInv

LEMMA ScheduleFolds ==
    ASSUME TypeOK, FoldInv, ScheduleNext
    PROVE  FoldInv'
<1>1. PICK n \in Candidates : /\ Fits(n)
                              /\ events' = Append(events, Scheduled(n))
                              /\ settled' = [settled EXCEPT ![n] = "running"]
                              /\ reserved' = reserved + graph.cost[n]
  BY DEF ScheduleNext, Scheduled
<1>2. UNCHANGED <<graph, evidence>>
  BY DEF ScheduleNext
<1>3. n \in Nodes /\ Ready(n) /\ n \notin graph.gated
  BY DEF Candidates
<1>4. States[n] = "ready"
  BY <1>3, StateOf, ReadyNotBlocked DEF Ready
<1>5. Scheduled(n) \in Event
  BY <1>3, ScheduledType
<1>6. /\ Scheduled(n).type = "scheduled" /\ Scheduled(n).node = n
      /\ Scheduled(n).sequence = Len(events) + 1
  BY DEF Scheduled
<1>7. [States EXCEPT ![n] = "running"] \in {s \in AnyStates : \A m \in Nodes :
          IF settled'[m] = "none" THEN s[m] \in {"pending", "ready", "blocked"}
                                  ELSE s[m] = settled'[m]}
  <2>1. "running" \in NodeStates /\ States \in AnyStates
    BY StatesConsistent DEF NodeStates, Consistent
  <2> DEFINE s == [States EXCEPT ![n] = "running"]
  <2>2. s \in AnyStates /\ s[n] = "running" /\ \A m \in Nodes : m # n => s[m] = States[m]
    BY <2>1, <1>3 DEF AnyStates
  <2>3. settled'[n] = "running" /\ \A m \in Nodes : m # n => settled'[m] = settled[m]
    BY <1>1, <1>3 DEF TypeOK
  <2> HIDE DEF s
  <2>4. ASSUME NEW m \in Nodes
        PROVE  IF settled'[m] = "none" THEN s[m] \in {"pending", "ready", "blocked"}
                                       ELSE s[m] = settled'[m]
    <3>1. CASE m = n
      BY <3>1, <2>2, <2>3
    <3>2. CASE m # n
      BY <3>2, <2>2, <2>3, StatesConsistent DEF Consistent, Waiting
    <3> QED BY <3>1, <3>2
  <2>5. s \in {t \in AnyStates : \A m \in Nodes :
          IF settled'[m] = "none" THEN t[m] \in {"pending", "ready", "blocked"}
                                  ELSE t[m] = settled'[m]}
    BY <2>2, <2>4
  <2> QED BY <2>5 DEF s
<1>8. ASSUME NEW r \in Replays, Reaches(r)
      PROVE  \A y : y = Applied(graph, r, Scheduled(n)) => Reaches(y)'
  <2>1. Follows(graph, [r EXCEPT !.state = States], Scheduled(n))
    BY <1>1, <1>3, <1>4, <1>6, <1>8 DEF Follows, Reaches, Replays, Fits
  <2>2. Applied(graph, r, Scheduled(n)) =
            [r EXCEPT !.count = @ + 1, !.reserved = @ + graph.cost[n],
                      !.state = [States EXCEPT ![n] = "running"]]
    BY <1>5, <1>6, <1>8, <2>1, EventApplied
  <2>3. Len(events') = Len(events) + 1
    BY <1>1, <1>5, HistoryGrows
  <2> DEFINE x == [r EXCEPT !.count = @ + 1, !.reserved = @ + graph.cost[n],
                            !.state = [States EXCEPT ![n] = "running"]]
  <2>4. /\ x.accepted /\ x.count = Len(events') /\ x.reserved = reserved'
        /\ x.evidence = evidence'
    BY <1>1, <1>2, <1>8, <2>3 DEF Reaches, Replays
  <2>5. x.state \in Consistent'
    BY <1>7 DEF Consistent, Waiting, Replays
  <2> HIDE DEF x
  <2>6. \A y : y = x => Reaches(y)'
    BY <2>4, <2>5 DEF Reaches
  <2> QED BY <2>2, <2>6 DEF x
<1> QED BY <1>1, <1>2, <1>5, <1>8, FoldGrows

LEMMA ResultFolds ==
    ASSUME TypeOK, FoldInv, NEW n \in Nodes, NEW result \in Results, RecordResult(n, result)
    PROVE  FoldInv'
<1>1. /\ events' = Append(events, Reported(n, result))
      /\ settled[n] = "running"
      /\ result.outcome = "pass" => result.evidence
      /\ settled' = [settled EXCEPT ![n] = result.outcome]
      /\ evidence' = [evidence EXCEPT ![n] = result.evidence]
      /\ UNCHANGED <<graph, reserved>>
  BY DEF RecordResult, Reported, Reportable
<1>2. result.outcome \in Terminal /\ result.evidence \in BOOLEAN
  BY ResultsAssumption
<1>3. States[n] = "running"
  BY <1>1, StateOf DEF Waiting
<1>4. Reported(n, result) \in Event
  BY ReportedType
<1>5. /\ Reported(n, result).type = result.outcome /\ Reported(n, result).node = n
      /\ Reported(n, result).sequence = Len(events) + 1
      /\ Reported(n, result).evidence = result.evidence
  BY DEF Reported
<1>6. result.outcome # "scheduled" /\ result.outcome # "none"
  BY <1>2 DEF Terminal
<1>7. [States EXCEPT ![n] = result.outcome] \in {s \in AnyStates : \A m \in Nodes :
          IF settled'[m] = "none" THEN s[m] \in {"pending", "ready", "blocked"}
                                  ELSE s[m] = settled'[m]}
  <2>1. result.outcome \in NodeStates /\ States \in AnyStates
    BY <1>2, StatesConsistent DEF NodeStates, Consistent
  <2> DEFINE s == [States EXCEPT ![n] = result.outcome]
  <2>2. s \in AnyStates /\ s[n] = result.outcome /\ \A m \in Nodes : m # n => s[m] = States[m]
    BY <2>1 DEF AnyStates
  <2>3. settled'[n] = result.outcome /\ \A m \in Nodes : m # n => settled'[m] = settled[m]
    BY <1>1 DEF TypeOK
  <2> HIDE DEF s
  <2>4. ASSUME NEW m \in Nodes
        PROVE  IF settled'[m] = "none" THEN s[m] \in {"pending", "ready", "blocked"}
                                       ELSE s[m] = settled'[m]
    <3>1. CASE m = n
      BY <1>6, <3>1, <2>2, <2>3
    <3>2. CASE m # n
      BY <3>2, <2>2, <2>3, StatesConsistent DEF Consistent, Waiting
    <3> QED BY <3>1, <3>2
  <2>5. s \in {t \in AnyStates : \A m \in Nodes :
          IF settled'[m] = "none" THEN t[m] \in {"pending", "ready", "blocked"}
                                  ELSE t[m] = settled'[m]}
    BY <2>2, <2>4
  <2> QED BY <2>5 DEF s
<1>8. ASSUME NEW r \in Replays, Reaches(r)
      PROVE  \A y : y = Applied(graph, r, Reported(n, result)) => Reaches(y)'
  <2>1. Follows(graph, [r EXCEPT !.state = States], Reported(n, result))
    BY <1>1, <1>2, <1>3, <1>5, <1>8 DEF Follows, Reaches, Replays
  <2>2. Applied(graph, r, Reported(n, result)) =
            [r EXCEPT !.count = @ + 1,
                      !.state = [States EXCEPT ![n] = result.outcome],
                      !.evidence = [@ EXCEPT ![n] = result.evidence]]
    <3> DEFINE e == Reported(n, result)
    <3>1. /\ e \in Event /\ Follows(graph, [r EXCEPT !.state = States], e)
          /\ e.type # "scheduled" /\ e.node = n
          /\ e.type = result.outcome /\ e.evidence = result.evidence
      BY <1>4, <1>5, <1>6, <2>1
    <3> HIDE DEF e
    <3>2. Applied(graph, r, e) = [r EXCEPT !.count = @ + 1,
                                           !.state = [States EXCEPT ![e.node] = e.type],
                                           !.evidence = [@ EXCEPT ![e.node] = e.evidence]]
      BY <1>8, <3>1, EventApplied
    <3> QED BY <3>1, <3>2 DEF e
  <2>3. Len(events') = Len(events) + 1
    BY <1>1, <1>4, HistoryGrows
  <2> DEFINE x == [r EXCEPT !.count = @ + 1,
                            !.state = [States EXCEPT ![n] = result.outcome],
                            !.evidence = [@ EXCEPT ![n] = result.evidence]]
  <2>4. /\ x.accepted /\ x.count = Len(events') /\ x.reserved = reserved'
        /\ x.evidence = evidence'
    BY <1>1, <1>8, <2>3 DEF Reaches, Replays
  <2>5. x.state \in Consistent'
    BY <1>7 DEF Consistent, Waiting, Replays
  <2> HIDE DEF x
  <2>6. \A y : y = x => Reaches(y)'
    BY <2>4, <2>5 DEF Reaches
  <2> QED BY <2>2, <2>6 DEF x
<1> QED BY <1>1, <1>4, <1>8, FoldGrows

LEMMA EmptyFolds ==
    ASSUME graph \in Graphs, events = <<>>, settled = [n \in Nodes |-> "none"],
           evidence = [n \in Nodes |-> FALSE], reserved = 0
    PROVE  FoldInv /\ Grounded
<1>1. graph \in Graph /\ events \in Seq(Event) /\ Len(events) = 0
  BY GraphsAssumption, EmptySeq
<1>2. PICK r \in [0 .. Len(events) -> Replays] : IsFold(r, graph, events)
  BY <1>1, ReplayIsFold
<1>3. r[Len(events)] = Fresh
  BY <1>1, <1>2 DEF IsFold
<1>4. Reaches(Fresh)
  BY <1>1 DEF Reaches, Fresh, Consistent, AnyStates, NodeStates, Waiting
<1> QED BY <1>2, <1>3, <1>4 DEF FoldInv, Grounded, Waiting

\* Once a replay has refused an event it refuses the log.
LEMMA AcceptedSoFar ==
    ASSUME NEW g \in Graph, NEW log, Len(log) \in Nat, NEW r \in [0 .. Len(log) -> Replays],
           IsFold(r, g, log), r[Len(log)].accepted, NEW k \in 0 .. Len(log)
    PROVE  r[k].accepted
<1> DEFINE N == Len(log)
           G == {i \in 0 .. N : r[N - i].accepted}
<1>1. 0 \in G
  OBVIOUS
<1>2. ASSUME NEW i \in 1 .. N, i - 1 \in G PROVE i \in G
  <2> DEFINE j == N - (i - 1)
  <2>1. j \in 1 .. N /\ j - 1 = N - i /\ j - 1 \in 0 .. N /\ r[j].accepted
    BY <1>2
  <2>2. r[j] = Applied(g, r[j - 1], log[j]) /\ r[j - 1] \in Replays
    BY <2>1 DEF IsFold
  <2>3. r[j - 1].accepted
    <3> HIDE DEF j
    <3>1. SUFFICES ASSUME ~r[j - 1].accepted PROVE FALSE
      OBVIOUS
    <3>2. r[j] = [r[j - 1] EXCEPT !.accepted = FALSE]
      BY <2>2, <3>1 DEF Applied
    <3> QED BY <2>1, <2>2, <3>2 DEF Replays
  <2> QED BY <2>1, <2>3
<1>3. \A i \in 0 .. N : i \in G
  <2> HIDE DEF G
  <2> QED BY <1>1, <1>2, BoundedInduction
<1>4. N - k \in 0 .. N /\ N - (N - k) = k
  OBVIOUS
<1> QED BY <1>3, <1>4

-----------------------------------------------------------------------------
(* The simulator's own history replays.                                     *)

LEMMA HistoryReplays ==
    ASSUME TypeOK, FoldInv
    PROVE  ReplayAgrees
<1>1. PICK r \in [0 .. Len(events) -> Replays] :
          IsFold(r, graph, events) /\ Reaches(r[Len(events)])
  BY DEF FoldInv
<1>2. events \in Seq(Event) /\ graph \in Graph /\ Len(events) \in Nat
  BY LenProperties, GraphsAssumption DEF TypeOK
<1>3. PICK q \in [0 .. Len(events) -> Replays] :
          /\ IsFold(q, graph, events)
          /\ Replay(graph, events) = [q[Len(events)] EXCEPT
                 !.state = Derive(graph, q[Len(events)].state, q[Len(events)].evidence)]
  BY <1>2, ReplayIsFold
<1>4. q[Len(events)] = r[Len(events)]
  <2>1. Begins(events, events)
    BY <1>2 DEF Begins
  <2> QED BY <1>1, <1>3, <2>1, SameFold
<1>5. r[Len(events)] \in Replays
  BY <1>2
<1>6. Derive(graph, r[Len(events)].state, r[Len(events)].evidence) = States
  BY <1>1, DeriveIsStates DEF Reaches
<1> DEFINE last == r[Len(events)]
<1>7. /\ last \in Replays /\ Reaches(last)
      /\ Replay(graph, events) = [last EXCEPT !.state = States]
  BY <1>1, <1>3, <1>4, <1>5, <1>6
<1> HIDE DEF last
<1> QED BY <1>7 DEF ReplayAgrees, Reaches, Replays

\* What begins as the history does is accepted as it is.
LEMMA PrefixReplays == CaptureTypeOK /\ FoldInv /\ Matches => StoredReplays
<1> SUFFICES ASSUME CaptureTypeOK, FoldInv, Matches PROVE StoredReplays
  OBVIOUS
<1>1. PICK r \in [0 .. Len(events) -> Replays] :
          IsFold(r, graph, events) /\ Reaches(r[Len(events)])
  BY DEF FoldInv
<1>2. /\ stored \in Seq(Event) /\ events \in Seq(Event) /\ graph \in Graph
      /\ Len(stored) \in Nat /\ Len(events) \in Nat
  BY LenProperties, GraphsAssumption DEF CaptureTypeOK, TypeOK
<1>3. PICK q \in [0 .. Len(stored) -> Replays] :
          /\ IsFold(q, graph, stored)
          /\ Replay(graph, stored) = [q[Len(stored)] EXCEPT
                 !.state = Derive(graph, q[Len(stored)].state, q[Len(stored)].evidence)]
  BY <1>2, ReplayIsFold
<1>4. Begins(stored, events)
  BY <1>2 DEF Begins, Matches
<1>5. Len(stored) \in 0 .. Len(events) /\ Len(stored) \in 0 .. Len(stored)
  BY <1>2, <1>4 DEF Begins
<1>6. r[Len(stored)] = q[Len(stored)]
  <2>1. IsFold(q, graph, stored) /\ IsFold(r, graph, events)
    BY <1>1, <1>3
  <2> QED BY <2>1, <1>4, SameFold
<1>7. r[Len(stored)].accepted
  BY <1>1, <1>2, <1>5, AcceptedSoFar DEF Reaches
<1>8. q[Len(stored)].accepted /\ q[Len(stored)] \in Replays
  BY <1>5, <1>6, <1>7
<1> DEFINE last == q[Len(stored)]
<1>9. \E s : Replay(graph, stored) = [last EXCEPT !.state = s]
  BY <1>3
<1>10. last.accepted /\ last \in Replays
  BY <1>8
<1> HIDE DEF last
<1> QED BY <1>9, <1>10 DEF StoredReplays, Replays

LEMMA PrefixReplaysNext == (CaptureTypeOK /\ FoldInv /\ Matches)' => StoredReplays'
BY PrefixReplays, PTL

-----------------------------------------------------------------------------
(* Every step of the store and of the simulator.                            *)

ReplayInv == CaptureInv /\ Grounded /\ FoldInv /\ StoredReplays

LEMMA EmptyFoldsNext ==
    (/\ graph \in Graphs
     /\ events = <<>>
     /\ settled = [n \in Nodes |-> "none"]
     /\ evidence = [n \in Nodes |-> FALSE]
     /\ reserved = 0)' => (FoldInv /\ Grounded)'
<1>1. (/\ graph \in Graphs
       /\ events = <<>>
       /\ settled = [n \in Nodes |-> "none"]
       /\ evidence = [n \in Nodes |-> FALSE]
       /\ reserved = 0) => (FoldInv /\ Grounded)
  BY EmptyFolds
<1> QED BY <1>1, PTL

LEMMA FoldKept == FoldInv /\ Grounded /\ UNCHANGED vars => FoldInv' /\ Grounded'
<1> SUFFICES ASSUME FoldInv, Grounded, UNCHANGED vars PROVE FoldInv' /\ Grounded'
  OBVIOUS
<1>1. UNCHANGED <<graph, events, settled, evidence, reserved>>
  BY DEF vars
<1>2. Grounded'
  BY <1>1 DEF Grounded, Waiting
<1>3. Consistent' = Consistent
  BY <1>1 DEF Consistent, Waiting
<1>4. \A r : Reaches(r) => \A x : x = r => Reaches(x)'
  BY <1>1, <1>3 DEF Reaches
<1>5. PICK r \in [0 .. Len(events) -> Replays] :
          IsFold(r, graph, events) /\ Reaches(r[Len(events)])
  BY DEF FoldInv
<1>6. \A x : x = r[Len(events)] => Reaches(x)'
  BY <1>4, <1>5
<1>7. Reaches(r[Len(events)])'
  BY <1>1, <1>6 DEF Reaches
<1> QED BY <1>1, <1>2, <1>5, <1>7 DEF FoldInv

LEMMA StoredKept == StoredReplays /\ UNCHANGED <<graph, stored>> => StoredReplays'
BY DEF StoredReplays

LEMMA ReplayNextInv ==
    ASSUME ReplayInv, [CaptureNext]_allVars
    PROVE  ReplayInv'
<1>1. CaptureInv'
  BY CaptureNextInv DEF ReplayInv
<1>2. /\ CaptureTypeOK /\ TypeOK /\ Grounded /\ FoldInv /\ StoredReplays
  BY DEF ReplayInv, CaptureInv, CaptureTypeOK
<1>3. Grounded' /\ FoldInv' /\ StoredReplays'
  <2>1. CASE Simulate
    <3>1. Next /\ UNCHANGED <<graph, stored>>
      BY <2>1 DEF Simulate, store, Next, ScheduleNext, RecordResult
    <3>2. Grounded'
      BY <1>2, <3>1, StepGrounds
    <3>3. FoldInv'
      BY <1>2, <3>1, ScheduleFolds, ResultFolds DEF Next
    <3> QED BY <1>2, <3>1, <3>2, <3>3, StoredKept
  <2>2. CASE Register \/ Capture \/ CaptureReturns \/ UNCHANGED allVars
    <3>1. UNCHANGED vars /\ UNCHANGED <<graph, stored>>
      BY <2>2 DEF Register, Capture, CaptureReturns, allVars, vars, store
    <3> QED BY <1>2, <3>1, FoldKept, StoredKept
  <2>3. CASE CaptureEvent
    <3>1. UNCHANGED vars
      BY <2>3 DEF CaptureEvent
    <3>2. FoldInv' /\ Grounded'
      BY <1>2, <3>1, FoldKept
    <3>3. Matches'
      BY <2>3, CaptureEventInv DEF ReplayInv
    <3>4. CaptureTypeOK'
      BY <1>1 DEF CaptureInv
    <3> QED BY <3>2, <3>3, <3>4, PrefixReplaysNext
  <2>4. CASE Restart
    <3>1. /\ graph' = graph /\ stored' = stored
          /\ events' = <<>>
          /\ settled' = [n \in Nodes |-> "none"]
          /\ evidence' = [n \in Nodes |-> FALSE]
          /\ reserved' = 0
      BY <2>4 DEF Restart, store
    <3>2. graph' \in Graphs
      BY <1>2, <3>1 DEF TypeOK
    <3> QED BY <1>2, <3>1, <3>2, EmptyFoldsNext, StoredKept
  <2> QED BY <2>1, <2>2, <2>3, <2>4 DEF CaptureNext
<1> QED BY <1>1, <1>3 DEF ReplayInv

LEMMA ReplayInitInv == CaptureInit => ReplayInv
<1> SUFFICES ASSUME CaptureInit PROVE ReplayInv
  OBVIOUS
<1>1. CaptureInv
  BY CaptureInitInv
<1>2. /\ graph \in Graphs /\ events = <<>> /\ settled = [n \in Nodes |-> "none"]
      /\ evidence = [n \in Nodes |-> FALSE] /\ reserved = 0
  BY DEF CaptureInit, Init
<1>3. FoldInv /\ Grounded
  BY <1>2, EmptyFolds
<1>4. Matches
  <2>1. stored = events /\ Len(events) = 0
    BY <1>2, EmptySeq DEF CaptureInit
  <2> QED BY <2>1 DEF Matches
<1>5. StoredReplays
  BY <1>1, <1>3, <1>4, PrefixReplays DEF CaptureInv
<1> QED BY <1>1, <1>3, <1>5 DEF ReplayInv

LEMMA ReplayAlways == CaptureSpec => []ReplayInv
  BY ReplayInitInv, ReplayNextInv, PTL DEF CaptureSpec

\* In every graph and after every run, replay_supervision accepts the history
\* of a simulator and comes to the states and the budget the simulator is in.
THEOREM HistoryAlwaysReplays == CaptureSpec => []ReplayAgrees
<1>1. ReplayInv => ReplayAgrees
  BY HistoryReplays DEF ReplayInv, CaptureInv, CaptureTypeOK
<1> QED BY <1>1, ReplayAlways, PTL

\* It accepts what the store holds, too: graph_view never raises, wherever a
\* process died within a capture and however many simulators there were.
THEOREM StoreAlwaysReplays == CaptureSpec => []StoredReplays
<1>1. ReplayInv => StoredReplays
  BY DEF ReplayInv
<1> QED BY <1>1, ReplayAlways, PTL

-----------------------------------------------------------------------------
(* What is upstream of a node.                                              *)

Upper == [s \in SUBSET Nodes |-> s \cup UNION {graph.deps[d] : d \in s}]

LEMMA UpperType ==
    ASSUME TypeOK
    PROVE  IsGrowth(Upper, Nodes)
BY GraphType DEF Upper, IsGrowth

LEMMA UpstreamGrows ==
    ASSUME TypeOK, NEW n \in Nodes
    PROVE  \E f : Grows(f, NodeCount, graph.deps[n], Upper) /\ Upstream(n) = f[NodeCount]
<1> DEFINE N == NodeCount
           S == SUBSET Nodes
           step == [k \in 1 .. N |-> Upper]
           Is(f) == f = [k \in 0 .. N |->
                            IF k = 0 THEN graph.deps[n]
                            ELSE f[k - 1] \cup UNION {graph.deps[d] : d \in f[k - 1]}]
           within == CHOOSE f : Is(f)
<1>1. graph.deps[n] \in S /\ Upper \in [S -> S]
  BY UpperType, GraphType DEF IsGrowth
<1>2. PICK f \in [0 .. N -> S] : IsRounds(f, N, graph.deps[n], step)
  <2>1. AreSteps(step, N, S)
    BY <1>1 DEF AreSteps
  <2>2. N \in Nat /\ graph.deps[n] \in S
    BY <1>1, NodeCountAssumption
  <2> HIDE DEF step, S, N
  <2> QED BY <2>1, <2>2, RoundsExist
<1>3. /\ f[0] = graph.deps[n]
      /\ \A k \in 1 .. N : f[k] = Upper[f[k - 1]] /\ f[k - 1] \in S
  <2>1. ASSUME NEW k \in 1 .. N PROVE f[k] = Upper[f[k - 1]] /\ f[k - 1] \in S
    <3>1. k - 1 \in 0 .. N
      BY NodeCountAssumption
    <3> QED BY <1>2, <3>1 DEF IsRounds
  <2> QED BY <1>2, <2>1 DEF IsRounds
<1>4. Is(f)
  <2>1. ASSUME NEW k \in 0 .. N
        PROVE  f[k] = IF k = 0 THEN graph.deps[n]
                      ELSE f[k - 1] \cup UNION {graph.deps[d] : d \in f[k - 1]}
    <3>1. k # 0 => k \in 1 .. N
      BY NodeCountAssumption
    <3> QED BY <1>3, <3>1 DEF Upper
  <2> QED BY <2>1
<1>5. Is(within)
  <2> HIDE DEF Is
  <2> QED BY <1>4
<1>6. Upstream(n) = within[N]
  BY DEF Upstream
<1> HIDE DEF within
<1>7. within[N] = f[N]
  <2>1. within[0] = graph.deps[n]
    BY <1>5, NodeCountAssumption
  <2>2. ASSUME NEW k \in 1 .. N, within[k - 1] = f[k - 1] PROVE within[k] = f[k]
    <3>1. k \in 0 .. N /\ k # 0
      BY NodeCountAssumption
    <3>2. within[k] = within[k - 1] \cup UNION {graph.deps[d] : d \in within[k - 1]}
      BY <1>5, <3>1
    <3> QED BY <1>3, <2>2, <3>2 DEF Upper
  <2>3. \A k \in 0 .. N : within[k] = f[k]
    <3>1. N \in Nat /\ SameRounds(within, f, N)
      BY <2>2, <1>3, <2>1, NodeCountAssumption DEF SameRounds
    <3> HIDE DEF N
    <3> QED BY <3>1, RoundsAgree
  <2> QED BY <2>3, NodeCountAssumption
<1> QED BY <1>3, <1>6, <1>7 DEF Grows

\* What is upstream of n holds its dependencies, and theirs.
LEMMA UpstreamClosed ==
    ASSUME TypeOK, NEW n \in Nodes
    PROVE  /\ Upstream(n) \subseteq Nodes
           /\ graph.deps[n] \subseteq Upstream(n)
           /\ \A d \in Upstream(n) : graph.deps[d] \subseteq Upstream(n)
<1>1. PICK f : Grows(f, NodeCount, graph.deps[n], Upper) /\ Upstream(n) = f[NodeCount]
  BY UpstreamGrows
<1>2. graph.deps[n] \in SUBSET Nodes
  BY GraphType
<1>3. /\ Upstream(n) \in SUBSET Nodes
      /\ graph.deps[n] \subseteq Upstream(n)
      /\ Upper[Upstream(n)] = Upstream(n)
  <2>1. IsFiniteSet(Nodes)
    BY NodesFinite
  <2>2. Cardinality(Nodes) <= NodeCount
    BY NodesFinite, NodeCountAssumption
  <2>3. IsGrowth(Upper, Nodes)
    BY UpperType
  <2>4. Grows(f, NodeCount, graph.deps[n], Upper)
    BY <1>1
  <2>5. NodeCount \in Nat
    BY NodeCountAssumption
  <2>6. ASSUME NEW start \in SUBSET Nodes, Grows(f, NodeCount, start, Upper)
        PROVE  /\ f[NodeCount] \in SUBSET Nodes
               /\ start \subseteq f[NodeCount]
               /\ Upper[f[NodeCount]] = f[NodeCount]
    <3>1. f[NodeCount] \in SUBSET Nodes
      BY <2>1, <2>2, <2>3, <2>5, <2>6, GrowthEnds
    <3>2. start \subseteq f[NodeCount]
      BY <2>1, <2>2, <2>3, <2>5, <2>6, GrowthEnds
    <3>3. Upper[f[NodeCount]] = f[NodeCount]
      BY <2>1, <2>2, <2>3, <2>5, <2>6, GrowthEnds
    <3> QED BY <3>1, <3>2, <3>3
  <2> QED BY <1>1, <1>2, <2>4, <2>6
<1> QED BY <1>3 DEF Upper

\* ... and nothing that a closed set with its dependencies does not hold.
LEMMA UpstreamIsLeast ==
    ASSUME TypeOK, NEW n \in Nodes, NEW C, graph.deps[n] \subseteq C,
           \A d \in C : graph.deps[d] \subseteq C
    PROVE  Upstream(n) \subseteq C
<1>1. PICK f : Grows(f, NodeCount, graph.deps[n], Upper) /\ Upstream(n) = f[NodeCount]
  BY UpstreamGrows
<1>2. IsClosed(C, Nodes, Upper)
  BY DEF IsClosed, Upper
<1>3. graph.deps[n] \in SUBSET Nodes
  BY GraphType
<1> QED BY <1>1, <1>2, <1>3, UpperType, GrowthIsLeast, NodeCountAssumption

LEMMA BlockedHasUpstream ==
    ASSUME TypeOK, Grounded
    PROVE  BlockedByUpstream
<1>0. \A n \in Nodes : graph.deps[n] \subseteq Nodes
  BY GraphType
<1>1. ASSUME NEW n \in Nodes
      PROVE  States[n] = "blocked" <=> n \in Blocked
  <2>1. CASE Waiting(n)
    BY <2>1, StateOf
  <2>2. CASE ~Waiting(n)
    BY <2>2, StateOf, BlockedWaits DEF Terminal
  <2> QED BY <2>1, <2>2
<1>2. ASSUME NEW n \in Blocked
      PROVE  n \in Nodes /\ Waiting(n) /\ \E d \in Upstream(n) : Bad(d)
  <2> DEFINE C == {m \in Nodes : \E d \in Upstream(m) : Bad(d)}
  <2>1. Obstructed \subseteq C
    <3>1. ASSUME NEW m \in Obstructed PROVE m \in C
      <4>1. m \in Nodes /\ \E d \in graph.deps[m] : Bad(d)
        BY ObstructedByBad
      <4> QED BY <4>1, UpstreamClosed
    <3> QED BY <3>1
  <2>2. Behind(C) \subseteq C
    <3>1. ASSUME NEW m \in Behind(C) PROVE m \in C
      <4>1. m \in Nodes
        BY DEF Behind
      <4>2. PICK d \in graph.deps[m] : d \in Nodes /\ \E e \in Upstream(d) : Bad(e)
        BY DEF Behind
      <4>3. Upstream(d) \subseteq Upstream(m)
        <5>1. d \in Upstream(m)
          BY <4>1, UpstreamClosed
        <5>2. /\ graph.deps[d] \subseteq Upstream(m)
              /\ \A e \in Upstream(m) : graph.deps[e] \subseteq Upstream(m)
          BY <4>1, <5>1, UpstreamClosed
        <5> QED BY <4>2, <5>2, UpstreamIsLeast
      <4> QED BY <4>1, <4>2, <4>3
    <3> QED BY <3>1
  <2>3. Blocked \subseteq C
    <3> HIDE DEF C
    <3> QED BY <2>1, <2>2, BlockedIsLeast
  <2> QED BY <2>3, BlockedWaits
<1>3. ASSUME NEW n \in Nodes, Waiting(n), n \notin Blocked
      PROVE  \A d \in Upstream(n) : ~Bad(d)
  <2> DEFINE C == {d \in Nodes : d \notin Blocked /\ ~Bad(d)}
  <2>1. ASSUME NEW m \in Nodes, m \notin Blocked, Waiting(m)
        PROVE  graph.deps[m] \subseteq C
    <3>1. m \notin Obstructed /\ m \notin Behind(Blocked)
      BY <2>1, BlockedFixpoint
    <3>2. \A d \in graph.deps[m] : ~Bad(d) /\ d \notin Blocked
      BY <2>1, <3>1, ObstructedByBad DEF Behind
    <3> QED BY <1>0, <3>2
  <2>2. ASSUME NEW m \in Nodes, ~Waiting(m)
        PROVE  graph.deps[m] \subseteq C
    <3>1. \A d \in graph.deps[m] : settled[d] = "pass"
      BY <2>2 DEF Grounded
    <3>2. \A d \in graph.deps[m] : ~Bad(d) /\ d \notin Blocked
      BY <3>1, BlockedWaits DEF Bad, Waiting
    <3> QED BY <1>0, <3>2
  <2>3. graph.deps[n] \subseteq C
    BY <1>3, <2>1
  <2>4. \A d \in C : graph.deps[d] \subseteq C
    BY <2>1, <2>2
  <2>5. Upstream(n) \subseteq C
    <3> HIDE DEF C
    <3> QED BY <2>3, <2>4, UpstreamIsLeast
  <2> QED BY <2>5
<1>4. ASSUME NEW n \in Nodes
      PROVE  n \in Blocked <=> Waiting(n) /\ \E d \in Upstream(n) : Bad(d)
  BY <1>2, <1>3
<1> QED BY <1>1, <1>4 DEF BlockedByUpstream, Bad

\* Exactly the waiting nodes with something upstream, however far, that ended
\* without PASS are blocked.
THEOREM BlockedExactly == CaptureSpec => []BlockedByUpstream
<1>1. ReplayInv => BlockedByUpstream
  BY BlockedHasUpstream DEF ReplayInv, CaptureInv, CaptureTypeOK
<1> QED BY <1>1, ReplayAlways, PTL

-----------------------------------------------------------------------------
(* Work.                                                                    *)

LEMMA ContinueWorks ==
    ASSUME TypeOK, Grounded
    PROVE  ContinueHasWork
<1> SUFFICES ASSUME Disposition(graph, States) = "continue",
                    \A n \in Nodes : settled[n] # "running", Candidates = {}
             PROVE  FALSE
  BY DEF ContinueHasWork
<1>1. /\ ~\A n \in Nodes : States[n] = "pass"
      /\ \A n \in Nodes : States[n] \notin {"fail", "review_required", "abstain"}
      /\ \A n \in graph.gated : States[n] # "ready"
  <2>1. ~\A n \in Nodes : States[n] = "pass"
    BY DEF Disposition
  <2>2. ~\E n \in Nodes : States[n] = "fail"
    BY <2>1 DEF Disposition
  <2>3. ~\E n \in Nodes : States[n] = "review_required"
    BY <2>1, <2>2 DEF Disposition
  <2>4. ~\E n \in Nodes : States[n] = "abstain"
    BY <2>1, <2>2, <2>3 DEF Disposition
  <2>5. ~\E n \in graph.gated : States[n] = "ready"
    BY <2>1, <2>2, <2>3, <2>4 DEF Disposition
  <2> QED BY <2>1, <2>2, <2>3, <2>4, <2>5
<1>2. ASSUME NEW n \in Nodes PROVE Waiting(n) \/ settled[n] = "pass"
  <2>1. CASE ~Waiting(n)
    <3>1. States[n] = settled[n] /\ settled[n] \in {"running"} \cup Terminal
      BY <2>1, StateOf
    <3> QED BY <1>1, <3>1 DEF Terminal
  <2> QED BY <2>1
<1>3. Blocked = {}
  <2>1. \A n \in Nodes : ~Bad(n)
    BY <1>2 DEF Bad, Waiting, Terminal
  <2>2. Obstructed = {} /\ Behind({}) = {}
    <3>1. \A n \in Nodes : graph.deps[n] \subseteq Nodes
      BY GraphType
    <3> QED BY <2>1, <3>1, ObstructedByBad DEF Behind
  <2>3. Blocked \subseteq {}
    BY <2>2, BlockedIsLeast
  <2> QED BY <2>3
<1> DEFINE group == {n \in Nodes : Waiting(n)}
<1>4. group # {}
  <2>1. ASSUME group = {} PROVE FALSE
    <3>1. \A n \in Nodes : ~Waiting(n) /\ settled[n] = "pass"
      BY <1>2, <2>1
    <3>2. \A n \in Nodes : States[n] = "pass"
      BY <3>1, StateOf
    <3> QED BY <1>1, <3>2
  <2> QED BY <2>1
<1>5. PICK n \in group : graph.deps[n] \cap group = {}
  BY <1>4, GraphAcyclic
<1>6. Ready(n)
  <2>1. \A d \in graph.deps[n] : d \in Nodes /\ ~Waiting(d)
    BY <1>5, GraphType
  <2>2. \A d \in graph.deps[n] : settled[d] = "pass" /\ evidence[d]
    BY <1>2, <2>1 DEF Grounded
  <2> QED BY <1>5, <2>2 DEF Ready
<1>7. States[n] = "ready"
  BY <1>3, <1>5, <1>6, StateOf
<1> QED BY <1>1, <1>5, <1>6, <1>7 DEF Candidates

\* A supervisor that says continue runs a node or has one it may schedule.
THEOREM ContinueAlwaysHasWork == CaptureSpec => []ContinueHasWork
<1>1. ReplayInv => ContinueHasWork
  BY ContinueWorks DEF ReplayInv, CaptureInv, CaptureTypeOK
<1> QED BY <1>1, ReplayAlways, PTL

-----------------------------------------------------------------------------
(* Progress.                                                                *)

LEMMA BlockedFixpointNext ==
    (Obstructed \subseteq Blocked /\ Blocked = Obstructed \cup Behind(Blocked))'
BY BlockedFixpoint, PTL

LEMMA BlockedWaitsNext == (\A n \in Blocked : n \in Nodes /\ Waiting(n))'
<1>1. \A n \in Blocked : n \in Nodes /\ Waiting(n)
  BY BlockedWaits
<1> QED BY <1>1, PTL

StateIs(n) == /\ ~Waiting(n) => States[n] = settled[n]
              /\ n \in Blocked => States[n] = "blocked"
              /\ Ready(n) => States[n] = "ready"
              /\ Waiting(n) => States[n] \in {"pending", "ready", "blocked"}
              /\ Waiting(n) /\ n \notin Blocked /\ ~Ready(n) => States[n] = "pending"

LEMMA StatesAre == TypeOK => \A n \in Nodes : StateIs(n)
<1> SUFFICES ASSUME TypeOK, NEW n \in Nodes PROVE StateIs(n)
  OBVIOUS
<1>1. n \in Blocked => Waiting(n)
  BY BlockedWaits
<1>2. Ready(n) => Waiting(n) /\ n \notin Blocked
  BY ReadyNotBlocked DEF Ready
<1> QED BY <1>1, <1>2, StateOf DEF StateIs

LEMMA StatesAreNext == TypeOK' => (\A n \in Nodes : StateIs(n))'
BY StatesAre, PTL

LEMMA ObstructedNext ==
    TypeOK' /\ Grounded' =>
        (Obstructed = {n \in Nodes : Waiting(n) /\ \E d \in graph.deps[n] : Bad(d)})'
<1>1. TypeOK /\ Grounded =>
        Obstructed = {n \in Nodes : Waiting(n) /\ \E d \in graph.deps[n] : Bad(d)}
  BY ObstructedByBad
<1> QED BY <1>1, PTL

\* What a step makes of a node.
LEMMA StepMoves ==
    ASSUME TypeOK, Next
    PROVE  /\ graph' = graph
           /\ \A m \in Nodes :
                 /\ Waiting(m) => \/ settled'[m] = "none"
                                  \/ settled'[m] = "running" /\ Ready(m)
                 /\ settled[m] = "running" => settled'[m] \in {"running"} \cup Terminal
                 /\ settled[m] \in Terminal => /\ settled'[m] = settled[m]
                                               /\ evidence'[m] = evidence[m]
<1>1. CASE ScheduleNext
  <2>1. PICK n \in Candidates : /\ settled' = [settled EXCEPT ![n] = "running"]
                                /\ UNCHANGED <<graph, evidence>>
    BY <1>1 DEF ScheduleNext
  <2>2. n \in Nodes /\ Ready(n) /\ settled[n] = "none"
    BY DEF Candidates, Ready, Waiting
  <2>3. settled'[n] = "running" /\ \A m \in Nodes : m # n => settled'[m] = settled[m]
    BY <2>1, <2>2 DEF TypeOK
  <2>4. ASSUME NEW m \in Nodes, m # n
        PROVE  settled'[m] = settled[m] /\ evidence'[m] = evidence[m]
    BY <2>1, <2>3, <2>4
  <2>5. settled[n] \notin Terminal /\ settled[n] # "running"
    BY <2>2 DEF Terminal
  <2> QED BY <2>1, <2>2, <2>3, <2>4, <2>5 DEF Waiting
<1>2. CASE \E n \in Nodes, result \in Results : RecordResult(n, result)
  <2>1. PICK n \in Nodes, result \in Results : RecordResult(n, result)
    BY <1>2
  <2>2. result.outcome \in Terminal
    BY ResultsAssumption
  <2>3. /\ settled[n] = "running" /\ settled'[n] = result.outcome /\ graph' = graph
        /\ \A m \in Nodes : m # n => settled'[m] = settled[m] /\ evidence'[m] = evidence[m]
    BY <2>1 DEF RecordResult, Reportable, TypeOK
  <2>4. settled[n] \notin Terminal /\ settled[n] # "none"
    BY <2>3 DEF Terminal
  <2> QED BY <2>2, <2>3, <2>4 DEF Waiting
<1> QED BY <1>1, <1>2 DEF Next

\* What is blocked stays blocked.
LEMMA BlockedStays ==
    ASSUME TypeOK, Grounded, TypeOK', Grounded', Next
    PROVE  Blocked \subseteq Blocked'
<1>0. \A n \in Nodes : graph.deps[n] \subseteq Nodes
  BY GraphType
<1>1. \A m \in Nodes : settled[m] \in {"none", "running"} \cup Terminal
  BY DEF TypeOK
<1> DEFINE C == Blocked'
<1>2. /\ Obstructed' \subseteq C /\ Behind(Blocked)' \subseteq C
      /\ \A d \in C : settled'[d] = "none"
  BY BlockedFixpointNext, BlockedWaitsNext DEF Waiting
<1>3. Obstructed \subseteq C
  <2>1. ASSUME NEW n \in Obstructed PROVE n \in Obstructed'
    <3>1. n \in Nodes /\ Waiting(n)
      BY DEF Obstructed
    <3>2. PICK d \in graph.deps[n] : Bad(d)
      BY ObstructedByBad
    <3>3. d \in Nodes /\ settled[d] \in Terminal \ {"pass"}
      BY <1>0, <3>1, <3>2 DEF Bad
    <3>4. ~Ready(n)
      BY <3>3 DEF Ready
    <3>5. settled'[n] = "none" /\ settled'[d] = settled[d] /\ graph' = graph
      BY <3>1, <3>3, <3>4, StepMoves
    <3>6. n \in {m \in Nodes : Waiting(m) /\ \E e \in graph.deps[m] : Bad(e)}'
      BY <3>1, <3>3, <3>5 DEF Waiting, Bad
    <3> QED BY <3>6, ObstructedNext
  <2> QED BY <1>2, <2>1
<1>4. Behind(C) \subseteq C
  <2>1. ASSUME NEW n \in Behind(C) PROVE n \in Behind(Blocked)'
    <3>1. n \in Nodes /\ Waiting(n)
      BY DEF Behind
    <3>2. PICK d \in graph.deps[n] : d \in C
      BY DEF Behind
    <3>3. d \in Nodes /\ settled'[d] = "none"
      BY <1>0, <1>2, <3>1, <3>2
    <3>4. settled[d] # "pass"
      BY <3>3, StepMoves DEF Terminal
    <3>5. ~Ready(n)
      BY <3>4 DEF Ready
    <3>6. settled'[n] = "none" /\ graph' = graph
      BY <3>1, <3>5, StepMoves
    <3> QED BY <3>1, <3>2, <3>6 DEF Behind, Waiting
  <2> QED BY <1>2, <2>1
<1> HIDE DEF C
<1>5. Blocked \subseteq C
  BY <1>3, <1>4, BlockedIsLeast
<1> QED BY <1>5 DEF C

LEMMA StepAdvances ==
    ASSUME TypeOK, Grounded, TypeOK', Grounded', Next, NEW n \in Nodes
    PROVE  States'[n] \in Successors(States[n])
<1>1. /\ ~Waiting(n) => States[n] = settled[n]
      /\ n \in Blocked => States[n] = "blocked"
      /\ Ready(n) => States[n] = "ready"
      /\ Waiting(n) /\ n \notin Blocked /\ ~Ready(n) => States[n] = "pending"
  BY StatesAre DEF StateIs
<1>2. /\ settled'[n] # "none" => States'[n] = settled'[n]
      /\ n \in Blocked' => States'[n] = "blocked"
      /\ Ready(n)' => States'[n] = "ready"
      /\ settled'[n] = "none" => States'[n] \in {"pending", "ready", "blocked"}
  BY StatesAreNext DEF StateIs, Waiting
<1>3. settled[n] \in {"none", "running"} \cup Terminal
  BY DEF TypeOK
<1>4. CASE Waiting(n) /\ settled'[n] = "none"
  <2>1. CASE n \in Blocked
    <3>1. States'[n] = "blocked"
      BY <1>2, <2>1, BlockedStays
    <3> QED BY <1>1, <2>1, <3>1 DEF Successors
  <2>2. CASE Ready(n)
    <3>1. \A d \in graph.deps[n] : d \in Nodes /\ settled[d] = "pass" /\ evidence[d]
      BY <2>2, GraphType DEF Ready
    <3>2. graph' = graph
      BY StepMoves
    <3>3. \A d \in graph.deps[n] : settled'[d] = "pass" /\ evidence'[d]
      BY <3>1, StepMoves DEF Terminal
    <3>4. Ready(n)'
      BY <1>4, <3>2, <3>3 DEF Ready, Waiting
    <3> QED BY <1>1, <1>2, <2>2, <3>4 DEF Successors
  <2>3. CASE n \notin Blocked /\ ~Ready(n)
    BY <1>1, <1>2, <1>4, <2>3 DEF Successors
  <2> QED BY <2>1, <2>2, <2>3
<1>5. CASE Waiting(n) /\ settled'[n] # "none"
  <2>1. settled'[n] = "running" /\ Ready(n)
    BY <1>5, StepMoves
  <2> QED BY <1>1, <1>2, <2>1 DEF Successors
<1>6. CASE settled[n] = "running"
  <2>1. settled'[n] \in {"running"} \cup Terminal
    BY <1>6, StepMoves
  <2>2. States[n] = "running" /\ States'[n] = settled'[n]
    BY <1>1, <1>2, <1>6, <2>1 DEF Waiting, Terminal
  <2> QED BY <2>1, <2>2 DEF Successors
<1>7. CASE settled[n] \in Terminal
  <2>1. settled'[n] = settled[n]
    BY <1>7, StepMoves
  <2>2. States[n] = settled[n] /\ States'[n] = settled[n]
    BY <1>1, <1>2, <1>7, <2>1 DEF Waiting, Terminal
  <2> QED BY <1>7, <2>2 DEF Successors, Terminal
<1> QED BY <1>3, <1>4, <1>5, <1>6, <1>7 DEF Waiting

\* No step of a simulator takes a node back: not from ready, not from blocked,
\* not from its result.
THEOREM NodesOnlyAdvance == CaptureSpec => StatesAdvance
<1>1. ASSUME ReplayInv, ReplayInv', CaptureNext, events' # <<>>, vars' # vars,
             NEW n \in Nodes
      PROVE  States'[n] \in Successors(States[n])
  <2>1. TypeOK /\ Grounded /\ TypeOK' /\ Grounded'
    BY <1>1 DEF ReplayInv, CaptureInv, CaptureTypeOK
  <2>2. Next
    BY <1>1 DEF CaptureNext, Simulate, Register, Capture, CaptureEvent, CaptureReturns,
                Restart
  <2> QED BY <2>1, <2>2, StepAdvances
<1>2. ReplayInv /\ ReplayInv' /\ [CaptureNext]_allVars =>
          [events' # <<>> => \A n \in Nodes : States'[n] \in Successors(States[n])]_vars
  BY <1>1 DEF allVars
<1> QED BY <1>2, ReplayAlways, PTL DEF CaptureSpec, StatesAdvance
==============================================================================
