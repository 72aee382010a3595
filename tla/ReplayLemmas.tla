---------------------------- MODULE ReplayLemmas ----------------------------
(***************************************************************************)
(* Facts the proofs about the two replays of APP8 share: functions defined *)
(* by rounds (f[k] from f[k - 1]) exist, are unique and have a type;       *)
(* growing a set of nodes for as many rounds as there are nodes comes to   *)
(* the least closed set; and passes over the nodes of an acyclic graph,    *)
(* whatever order they visit them in, come to the one solution.            *)
(*                                                                         *)
(* Induction is over sets of naturals: what holds of k is written as the   *)
(* set of those k, and a set without its least missing number is refuted   *)
(* by the well-foundedness of the naturals.                                *)
(***************************************************************************)
EXTENDS FiniteSetTheorems, TLAPS

LEMMA Induction ==
    ASSUME NEW S, 0 \in S, \A n \in Nat : n \in S => n + 1 \in S
    PROVE  \A n \in Nat : n \in S
<1> SUFFICES ASSUME NEW k \in Nat, k \notin S PROVE FALSE
  OBVIOUS
<1> DEFINE T == Nat \ S
<1>1. PICK x \in T : \A y \in T : <<y, x>> \notin OpToRel(<, Nat)
  <2>1. T \subseteq Nat /\ T # {}
    OBVIOUS
  <2> HIDE DEF T
  <2> QED BY <2>1, NatLessThanWellFounded, WFMin
<1>2. x \in Nat /\ x # 0 /\ x \notin S
  OBVIOUS
<1>3. x - 1 \in Nat /\ x - 1 < x /\ (x - 1) + 1 = x
  BY <1>2
<1>4. x - 1 \in S
  <2>1. <<x - 1, x>> \in OpToRel(<, Nat)
    BY <1>2, <1>3 DEF OpToRel
  <2> QED BY <1>1, <2>1, <1>3
<1> QED BY <1>2, <1>3, <1>4

LEMMA BoundedInduction ==
    ASSUME NEW N \in Nat, NEW S, 0 \in S, \A k \in 1 .. N : k - 1 \in S => k \in S
    PROVE  \A k \in 0 .. N : k \in S
<1> DEFINE T == {k \in Nat : k <= N => k \in S}
<1>1. 0 \in T
  OBVIOUS
<1>2. ASSUME NEW n \in Nat, n \in T PROVE n + 1 \in T
  <2> SUFFICES ASSUME n + 1 <= N PROVE n + 1 \in S
    OBVIOUS
  <2>1. n + 1 \in 1 .. N /\ (n + 1) - 1 = n /\ n \in S
    BY <1>2
  <2> QED BY <2>1
<1>3. \A n \in Nat : n \in T
  <2> HIDE DEF T
  <2> QED BY <1>1, <1>2, Induction
<1> QED BY <1>3

\* step[k] makes the value after k rounds from the one before.
AreSteps(step, N, S) == step \in [1 .. N -> [S -> S]]

IsRounds(f, N, start, step) == /\ f[0] = start
                               /\ \A k \in 1 .. N : f[k] = step[k][f[k - 1]]

\* A function defined by rounds exists.
LEMMA RoundsExist ==
    ASSUME NEW N \in Nat, NEW S, NEW start \in S, NEW step, AreSteps(step, N, S)
    PROVE  \E f \in [0 .. N -> S] : IsRounds(f, N, start, step)
<1> USE DEF AreSteps, IsRounds
<1> DEFINE Good(n) == \E f \in [0 .. n -> S] :
               f[0] = start /\ \A k \in 1 .. n : f[k] = step[k][f[k - 1]]
           G == {n \in Nat : n <= N => Good(n)}
<1>1. 0 \in G
  <2>1. Good(0)
    <3> DEFINE f == [k \in 0 .. 0 |-> start]
    <3>1. f \in [0 .. 0 -> S] /\ f[0] = start
      OBVIOUS
    <3> HIDE DEF f
    <3> QED BY <3>1
  <2> QED BY <2>1
<1>2. ASSUME NEW n \in Nat, n \in G PROVE n + 1 \in G
  <2> SUFFICES ASSUME n + 1 <= N PROVE Good(n + 1)
    OBVIOUS
  <2>1. PICK f \in [0 .. n -> S] :
            f[0] = start /\ \A k \in 1 .. n : f[k] = step[k][f[k - 1]]
    BY <1>2
  <2> DEFINE g == [k \in 0 .. n + 1 |-> IF k = n + 1 THEN step[k][f[n]] ELSE f[k]]
  <2>2. step[n + 1] \in [S -> S] /\ f[n] \in S
    OBVIOUS
  <2>3. g \in [0 .. n + 1 -> S] /\ g[0] = start
    BY <2>1, <2>2
  <2>4. ASSUME NEW k \in 1 .. n + 1
        PROVE  g[k] = step[k][g[k - 1]]
    <3>1. CASE k = n + 1
      BY <3>1
    <3>2. CASE k # n + 1
      <4>1. k \in 1 .. n /\ k - 1 \in 0 .. n /\ g[k] = f[k] /\ g[k - 1] = f[k - 1]
        BY <3>2
      <4> QED BY <2>1, <4>1
    <3> QED BY <3>1, <3>2
  <2> HIDE DEF g
  <2> QED BY <2>3, <2>4
<1> HIDE DEF Good
<1>3. N \in G
  BY <1>1, <1>2, Induction
<1> QED BY <1>3 DEF Good

\* f and g start alike and make the same step each round.
SameRounds(f, g, N) == /\ f[0] = g[0]
                       /\ \A k \in 1 .. N : f[k - 1] = g[k - 1] => f[k] = g[k]

\* ... and there is only one.
LEMMA RoundsAgree ==
    ASSUME NEW N \in Nat, NEW f, NEW g, SameRounds(f, g, N)
    PROVE  \A k \in 0 .. N : f[k] = g[k]
<1> DEFINE G == {k \in 0 .. N : f[k] = g[k]}
<1>1. 0 \in G
  BY DEF SameRounds
<1>2. ASSUME NEW k \in 1 .. N, k - 1 \in G PROVE k \in G
  BY <1>2 DEF SameRounds
<1>3. \A k \in 0 .. N : k \in G
  <2> HIDE DEF G
  <2> QED BY <1>1, <1>2, BoundedInduction
<1> QED BY <1>3

-----------------------------------------------------------------------------
(* Growing a set.                                                           *)

\* f grows a set of nodes for N rounds.
Grows(f, N, start, step) ==
    /\ f[0] = start
    /\ \A k \in 1 .. N : f[k] = step[f[k - 1]]

\* A step never loses a node.
IsGrowth(step, nodes) == /\ step \in [SUBSET nodes -> SUBSET nodes]
                         /\ \A s \in SUBSET nodes : s \subseteq step[s]

\* No step leads out of C.
IsClosed(C, nodes, step) == \A s \in SUBSET nodes : s \subseteq C => step[s] \subseteq C

\* As many rounds as there are nodes reach a set that grows no further, of
\* which each node was there at the start or came in through the others.
LEMMA GrowthEnds ==
    ASSUME NEW N \in Nat, NEW nodes, IsFiniteSet(nodes), Cardinality(nodes) <= N,
           NEW start \in SUBSET nodes, NEW step, IsGrowth(step, nodes),
           NEW f, Grows(f, N, start, step)
    PROVE  /\ f[N] \in SUBSET nodes
           /\ start \subseteq f[N]
           /\ step[f[N]] = f[N]
<1> USE DEF IsGrowth
<1> DEFINE Ended(k) == step[f[k]] = f[k]
           G == {k \in 0 .. N : /\ f[k] \in SUBSET nodes
                                /\ start \subseteq f[k]
                                /\ Ended(k) \/ Cardinality(f[k]) >= k}
<1>1. 0 \in G
  <2>1. IsFiniteSet(start) /\ Cardinality(start) \in Nat
    BY FS_Subset, FS_CardinalityType
  <2> QED BY <2>1 DEF Grows
<1>2. ASSUME NEW k \in 1 .. N, k - 1 \in G PROVE k \in G
  <2> DEFINE s == f[k - 1]
  <2>1. s \in SUBSET nodes /\ start \subseteq s /\ f[k] = step[s] /\ k \in 0 .. N
        /\ (Ended(k - 1) \/ Cardinality(s) >= k - 1)
    BY <1>2 DEF Grows
  <2>2. f[k] \in SUBSET nodes /\ s \subseteq f[k] /\ start \subseteq f[k]
    BY <2>1
  <2>3. CASE Ended(k - 1)
    <3>1. f[k] = s
      BY <2>1, <2>3
    <3>2. Ended(k)
      BY <3>1, <2>3
    <3> QED BY <2>1, <2>2, <3>2
  <2>4. CASE ~Ended(k - 1) /\ Cardinality(s) >= k - 1
    <3>1. PICK x \in f[k] : x \notin s
      BY <2>1, <2>2, <2>4
    <3>2. IsFiniteSet(s) /\ IsFiniteSet(f[k])
      BY <2>1, <2>2, FS_Subset
    <3>3. IsFiniteSet(s \cup {x}) /\ Cardinality(s \cup {x}) = Cardinality(s) + 1
      BY <3>1, <3>2, FS_AddElement
    <3>4. s \cup {x} \in SUBSET f[k]
      BY <3>1, <2>2
    <3>5. Cardinality(s \cup {x}) <= Cardinality(f[k])
      BY <3>2, <3>4, FS_Subset
    <3>6. Cardinality(s) \in Nat /\ Cardinality(f[k]) \in Nat
      BY <3>2, FS_CardinalityType
    <3>7. Cardinality(f[k]) >= k
      BY <3>3, <3>5, <3>6, <2>4
    <3> QED BY <2>1, <2>2, <3>7
  <2> QED BY <2>1, <2>3, <2>4
<1>3. N \in G
  <2> HIDE DEF G
  <2> QED BY <1>1, <1>2, BoundedInduction
<1>4. CASE Cardinality(f[N]) >= N
  <2>1. f[N] \in SUBSET nodes
    BY <1>3
  <2>2. Cardinality(f[N]) <= Cardinality(nodes) /\ Cardinality(f[N]) \in Nat
        /\ Cardinality(nodes) \in Nat
    BY <2>1, FS_Subset, FS_CardinalityType
  <2>3. Cardinality(nodes) = Cardinality(f[N])
    BY <2>2, <1>4
  <2>4. f[N] = nodes
    BY <2>1, <2>3, FS_Subset
  <2>5. step[f[N]] = f[N]
    BY <2>1, <2>4
  <2> QED BY <1>3, <2>5
<1> QED BY <1>3, <1>4

\* What is reached lies in every closed set.
LEMMA GrowthIsLeast ==
    ASSUME NEW N \in Nat, NEW nodes, NEW start \in SUBSET nodes,
           NEW step, IsGrowth(step, nodes), NEW f, Grows(f, N, start, step),
           NEW C, start \subseteq C, IsClosed(C, nodes, step)
    PROVE  f[N] \subseteq C
<1> USE DEF IsGrowth, IsClosed
<1> DEFINE G == {k \in 0 .. N : f[k] \in SUBSET nodes /\ f[k] \subseteq C}
<1>1. 0 \in G
  BY DEF Grows
<1>2. ASSUME NEW k \in 1 .. N, k - 1 \in G PROVE k \in G
  <2>1. f[k - 1] \in SUBSET nodes /\ f[k - 1] \subseteq C
    BY <1>2
  <2>2. f[k] = step[f[k - 1]]
    BY DEF Grows
  <2> QED BY <2>1, <2>2
<1>3. N \in G
  <2> HIDE DEF G
  <2> QED BY <1>1, <1>2, BoundedInduction
<1> QED BY <1>3

-----------------------------------------------------------------------------
(* Passes over an acyclic graph.                                            *)

\* goal is the one solution of the graph: visit[n] changes a state at n only,
\* and gives n its goal once all that n depends on have theirs.
Solves(goal, N, items, deps, S, visit) ==
    /\ items \subseteq 1 .. N
    /\ deps \in [items -> SUBSET items]
    /\ \A n \in 1 .. N : \A s \in S : visit[n][s] \in S
    /\ \A n \in 1 .. N : \A s \in S : \A m \in items :
           m # n => visit[n][s][m] = s[m]
    /\ \A n \in items : \A s \in S :
           (\A d \in deps[n] : s[d] = goal[d]) => visit[n][s][n] = goal[n]

\* p visits all nodes once, from state s.
IsPass(p, N, s, visit) == /\ p[0] = s
                          /\ \A k \in 1 .. N : p[k] = visit[k][p[k - 1]]

\* A pass leaves what is settled, with all it depends on, and settles whatever
\* depends on nothing else.
LEMMA PassSettles ==
    ASSUME NEW N \in Nat, NEW items, NEW deps, NEW S, NEW goal, NEW visit,
           Solves(goal, N, items, deps, S, visit),
           NEW s \in S, NEW p, IsPass(p, N, s, visit),
           NEW C \in SUBSET items, \A c \in C : deps[c] \subseteq C /\ s[c] = goal[c],
           NEW n \in items, deps[n] \subseteq C
    PROVE  /\ p[N] \in S
           /\ \A c \in C \cup {n} : p[N][c] = goal[c]
<1> DEFINE G == {k \in 0 .. N : /\ p[k] \in S
                                /\ \A c \in C : p[k][c] = goal[c]
                                /\ k >= n => p[k][n] = goal[n]}
<1>1. n \in 1 .. N /\ n \in Nat
  BY DEF Solves
<1>2. 0 \in G
  BY <1>1 DEF IsPass
<1>3. ASSUME NEW k \in 1 .. N, k - 1 \in G PROVE k \in G
  <2> DEFINE b == p[k - 1]
  <2>1. /\ b \in S /\ p[k] = visit[k][b] /\ \A c \in C : b[c] = goal[c]
        /\ k - 1 >= n => b[n] = goal[n]
        /\ k \in 0 .. N
    BY <1>3 DEF IsPass
  <2> HIDE DEF b
  <2>2. p[k] \in S
    BY <2>1 DEF Solves
  <2>3. ASSUME NEW c \in C PROVE p[k][c] = goal[c]
    <3>1. c \in items /\ deps[c] \subseteq C
      OBVIOUS
    <3>2. CASE c = k
      <4>1. \A d \in deps[c] : b[d] = goal[d]
        BY <2>1, <3>1
      <4> QED BY <2>1, <3>1, <3>2, <4>1 DEF Solves
    <3>3. CASE c # k
      <4>1. \A m \in items : m # k => visit[k][b][m] = b[m]
        BY <2>1 DEF Solves
      <4> QED BY <2>1, <3>1, <3>3, <4>1
    <3> QED BY <3>2, <3>3
  <2>4. ASSUME k >= n PROVE p[k][n] = goal[n]
    <3>1. CASE k = n
      <4>1. \A d \in deps[n] : b[d] = goal[d]
        BY <2>1
      <4> QED BY <2>1, <3>1, <4>1 DEF Solves
    <3>2. CASE k # n
      <4>1. k - 1 >= n
        BY <2>4, <3>2, <1>1
      <4>2. b[n] = goal[n] /\ p[k][n] = visit[k][b][n]
        BY <2>1, <4>1
      <4>3. visit[k][b][n] = b[n]
        BY <2>1, <3>2 DEF Solves
      <4> QED BY <4>2, <4>3
    <3> QED BY <3>1, <3>2
  <2> QED BY <2>1, <2>2, <2>3, <2>4
<1>4. N \in G
  <2> HIDE DEF G
  <2> QED BY <1>2, <1>3, BoundedInduction
<1> QED BY <1>1, <1>4

\* q makes N passes, one after the other.
ArePasses(q, N, start, visit) ==
    /\ q[0] = start
    /\ \A k \in 1 .. N : \E p : IsPass(p, N, q[k - 1], visit) /\ q[k] = p[N]

\* As many passes as there are nodes settle them all.
LEMMA PassesSettle ==
    ASSUME NEW N \in Nat, NEW items, NEW deps, NEW S, NEW goal, NEW visit,
           Solves(goal, N, items, deps, S, visit),
           \A group \in SUBSET items \ {{}} : \E n \in group : deps[n] \cap group = {},
           NEW start \in S, NEW q, ArePasses(q, N, start, visit)
    PROVE  q[N] \in S /\ \A n \in items : q[N][n] = goal[n]
<1> DEFINE Done(k, C) == /\ \A c \in C : deps[c] \subseteq C /\ q[k][c] = goal[c]
                         /\ C = items \/ Cardinality(C) >= k
           G == {k \in 0 .. N : q[k] \in S /\ \E C \in SUBSET items : Done(k, C)}
<1>1. IsFiniteSet(items) /\ Cardinality(items) <= N /\ Cardinality(items) \in Nat
  <2>1. IsFiniteSet(1 .. N) /\ Cardinality(1 .. N) = N
    BY FS_Interval
  <2>2. items \in SUBSET (1 .. N)
    BY DEF Solves
  <2> QED BY <2>1, <2>2, FS_Subset, FS_CardinalityType
<1>2. 0 \in G
  <2>1. Done(0, {})
    BY FS_EmptySet
  <2> QED BY <2>1 DEF ArePasses
<1>3. ASSUME NEW k \in 1 .. N, k - 1 \in G PROVE k \in G
  <2>1. PICK C \in SUBSET items : Done(k - 1, C)
    BY <1>3
  <2>2. q[k - 1] \in S /\ k \in 0 .. N
    BY <1>3
  <2>3. PICK p : IsPass(p, N, q[k - 1], visit) /\ q[k] = p[N]
    BY DEF ArePasses
  <2>4. IsFiniteSet(C) /\ Cardinality(C) \in Nat
    BY <1>1, FS_Subset, FS_CardinalityType
  <2>5. CASE C # items
    <3>1. PICK n \in items \ C : deps[n] \cap (items \ C) = {}
      BY <2>5
    <3>2. deps[n] \subseteq C
      BY <3>1 DEF Solves
    <3>3. q[k] \in S /\ \A c \in C \cup {n} : q[k][c] = goal[c]
      BY <2>1, <2>2, <2>3, <3>1, <3>2, PassSettles
    <3>4. Cardinality(C \cup {n}) = Cardinality(C) + 1
      BY <2>4, <3>1, FS_AddElement
    <3>5. Done(k, C \cup {n})
      BY <2>1, <2>4, <2>5, <3>2, <3>3, <3>4
    <3> QED BY <2>2, <3>1, <3>3, <3>5
  <2>6. CASE C = items
    <3>1. CASE items = {}
      <4>1. q[k] \in S
        <5> DEFINE H == {j \in 0 .. N : p[j] \in S}
        <5>1. 0 \in H
          BY <2>2, <2>3 DEF IsPass
        <5>2. ASSUME NEW j \in 1 .. N, j - 1 \in H PROVE j \in H
          BY <5>2, <2>3 DEF IsPass, Solves
        <5>3. N \in H
          <6> HIDE DEF H
          <6> QED BY <5>1, <5>2, BoundedInduction
        <5> QED BY <5>3, <2>3
      <4>2. Done(k, C)
        BY <2>6, <3>1
      <4> QED BY <2>2, <4>1, <4>2
    <3>2. CASE items # {}
      <4>1. PICK n \in items : TRUE
        BY <3>2
      <4>2. deps[n] \subseteq C
        BY <2>1, <2>6, <4>1
      <4>3. q[k] \in S /\ \A c \in C \cup {n} : q[k][c] = goal[c]
        BY <2>1, <2>2, <2>3, <4>1, <4>2, PassSettles
      <4>4. Done(k, C)
        BY <2>1, <2>6, <4>3
      <4> QED BY <2>2, <4>3, <4>4
    <3> QED BY <3>1, <3>2
  <2> QED BY <2>5, <2>6
<1>4. N \in G
  <2> HIDE DEF G
  <2> QED BY <1>2, <1>3, BoundedInduction
<1>5. PICK C \in SUBSET items : Done(N, C)
  BY <1>4
<1>6. C = items
  <2>1. ASSUME Cardinality(C) >= N PROVE C = items
    <3>1. Cardinality(C) <= Cardinality(items) /\ Cardinality(C) \in Nat
      BY <1>1, FS_Subset, FS_CardinalityType
    <3>2. Cardinality(items) = Cardinality(C)
      BY <1>1, <3>1, <2>1
    <3> QED BY <1>1, <3>2, FS_Subset
  <2> QED BY <1>5, <2>1
<1> QED BY <1>4, <1>5, <1>6
=============================================================================
