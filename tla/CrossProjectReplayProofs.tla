---------------------- MODULE CrossProjectReplayProofs ----------------------
(***************************************************************************)
(* Theorems about the coordinator of APP8D and the store of APP8E that go  *)
(* through replay_coordination, for every plan and every number of items   *)
(* and events: the replay accepts what the coordinator and the store hold  *)
(* and comes to the states of the coordinator, a plan that says continue   *)
(* has work, and items only advance.                                       *)
(*                                                                         *)
(* The argument is the one of SupervisionReplayProofs.  Obstructed is the  *)
(* least set with the items that ended badly which is closed under         *)
(* depending on one of them, since its rounds end within as many as there  *)
(* are items; the loop of the replay settles an item once its dependencies *)
(* are settled, and so settles an acyclic plan.                            *)
(***************************************************************************)
EXTENDS CrossProjectProofs, ReplayLemmas

-----------------------------------------------------------------------------
(* The loop over the items.                                                 *)

ItemStates == {"pending", "ready", "blocked", "running", "accepted"} \cup NonPass

AnyStates(p) == [p.items -> ItemStates]

\* One turn of the loop.
Visits(p, found) ==
    [i \in 1 .. ItemCount |->
        [s \in AnyStates(p) |->
            IF i \notin p.items THEN s ELSE [s EXCEPT ![i] = DesiredState(p, s, found, i)]]]

LEMMA DesiredStateType ==
    ASSUME NEW p, NEW found, NEW s \in AnyStates(p), NEW i \in p.items
    PROVE  DesiredState(p, s, found, i) \in ItemStates
<1>1. s[i] \in ItemStates
  BY DEF AnyStates
<1> QED BY <1>1 DEF DesiredState, ItemStates, NonPass

LEMMA VisitTypes ==
    ASSUME NEW p, NEW found
    PROVE  AreSteps(Visits(p, found), ItemCount, AnyStates(p))
<1>1. ASSUME NEW i \in p.items, NEW s \in AnyStates(p)
      PROVE  [s EXCEPT ![i] = DesiredState(p, s, found, i)] \in AnyStates(p)
  <2>1. DesiredState(p, s, found, i) \in ItemStates
    BY DesiredStateType
  <2> QED BY <2>1 DEF AnyStates
<1> QED BY <1>1 DEF Visits, AreSteps

\* The pass of the loop is a pass.
LEMMA SweepIsPass ==
    ASSUME NEW p, NEW found, NEW s \in AnyStates(p)
    PROVE  \E q \in [0 .. ItemCount -> AnyStates(p)] :
               /\ IsPass(q, ItemCount, s, Visits(p, found))
               /\ SweepItems(p, s, found) = q[ItemCount]
<1> DEFINE Turn(t, i) == IF i \notin p.items THEN t
                         ELSE [t EXCEPT ![i] = DesiredState(p, t, found, i)]
           Is(f) == f = [i \in 0 .. ItemCount |->
                            IF i = 0 THEN s
                            ELSE IF i \notin p.items THEN f[i - 1]
                                 ELSE [f[i - 1] EXCEPT ![i] = DesiredState(p, f[i - 1], found, i)]]
           after == CHOOSE f : Is(f)
<1>1. PICK q \in [0 .. ItemCount -> AnyStates(p)] : IsRounds(q, ItemCount, s, Visits(p, found))
  BY VisitTypes, RoundsExist, ItemCountAssumption
<1>2. q[0] = s /\ \A i \in 1 .. ItemCount : q[i] = Turn(q[i - 1], i)
  <2>1. ASSUME NEW i \in 1 .. ItemCount
        PROVE  q[i] = Turn(q[i - 1], i)
    <3>1. i - 1 \in 0 .. ItemCount
      BY ItemCountAssumption
    <3>2. q[i] = Visits(p, found)[i][q[i - 1]] /\ q[i - 1] \in AnyStates(p)
      BY <1>1, <3>1 DEF IsRounds
    <3> QED BY <3>2 DEF Visits
  <2> QED BY <1>1, <2>1 DEF IsRounds
<1>3. Is(q)
  <2>1. ASSUME NEW i \in 0 .. ItemCount
        PROVE  q[i] = IF i = 0 THEN s ELSE Turn(q[i - 1], i)
    <3>1. i # 0 => i \in 1 .. ItemCount
      BY ItemCountAssumption
    <3> QED BY <1>2, <3>1
  <2> QED BY <2>1
<1>4. Is(after)
  <2> HIDE DEF Is
  <2> QED BY <1>3
<1>5. SweepItems(p, s, found) = after[ItemCount]
  BY DEF SweepItems
<1> HIDE DEF after
<1>6. SameRounds(after, q, ItemCount)
  <2>1. after[0] = s
    BY <1>4, ItemCountAssumption
  <2>2. ASSUME NEW i \in 1 .. ItemCount, after[i - 1] = q[i - 1] PROVE after[i] = q[i]
    <3>1. i \in 0 .. ItemCount /\ i # 0
      BY ItemCountAssumption
    <3>2. after[i] = Turn(after[i - 1], i)
      BY <1>4, <3>1
    <3> QED BY <1>2, <2>2, <3>2
  <2> QED BY <1>2, <2>1, <2>2 DEF SameRounds
<1>7. after[ItemCount] = q[ItemCount]
  <2>1. \A i \in 0 .. ItemCount : after[i] = q[i]
    BY <1>6, RoundsAgree, ItemCountAssumption
  <2> QED BY <2>1, ItemCountAssumption
<1>8. IsPass(q, ItemCount, s, Visits(p, found))
  BY <1>1 DEF IsPass, IsRounds
<1> QED BY <1>5, <1>7, <1>8

LEMMA SweepType ==
    ASSUME NEW p, NEW found, NEW s \in AnyStates(p)
    PROVE  SweepItems(p, s, found) \in AnyStates(p)
BY SweepIsPass, ItemCountAssumption

\* The loop around it makes one pass after another.
LEMMA DeriveIsPasses ==
    ASSUME NEW p, NEW found, NEW s \in AnyStates(p)
    PROVE  \E q \in [0 .. ItemCount -> AnyStates(p)] :
               /\ ArePasses(q, ItemCount, s, Visits(p, found))
               /\ Derive(p, s, found) = q[ItemCount]
<1> DEFINE Is(f) == f = [k \in 0 .. ItemCount |->
                            IF k = 0 THEN s ELSE SweepItems(p, f[k - 1], found)]
           pass == CHOOSE f : Is(f)
           sweeps == [k \in 1 .. ItemCount |-> [t \in AnyStates(p) |-> SweepItems(p, t, found)]]
<1>1. AreSteps(sweeps, ItemCount, AnyStates(p))
  BY SweepType DEF AreSteps
<1>2. PICK q \in [0 .. ItemCount -> AnyStates(p)] : IsRounds(q, ItemCount, s, sweeps)
  <2> HIDE DEF sweeps
  <2> QED BY <1>1, RoundsExist, ItemCountAssumption
<1>3. /\ q[0] = s
      /\ \A k \in 1 .. ItemCount : /\ q[k] = SweepItems(p, q[k - 1], found)
                                   /\ q[k - 1] \in AnyStates(p)
  <2>1. ASSUME NEW k \in 1 .. ItemCount
        PROVE  q[k] = SweepItems(p, q[k - 1], found) /\ q[k - 1] \in AnyStates(p)
    <3>1. k - 1 \in 0 .. ItemCount
      BY ItemCountAssumption
    <3> QED BY <1>2, <3>1 DEF IsRounds
  <2> QED BY <1>2, <2>1 DEF IsRounds
<1>4. Is(q)
  BY <1>3, ItemCountAssumption
<1>5. Is(pass)
  <2> HIDE DEF Is
  <2> QED BY <1>4
<1>6. Derive(p, s, found) = pass[ItemCount]
  BY DEF Derive
<1> HIDE DEF pass
<1>7. SameRounds(pass, q, ItemCount)
  <2>1. pass[0] = s
    BY <1>5, ItemCountAssumption
  <2>2. ASSUME NEW k \in 1 .. ItemCount, pass[k - 1] = q[k - 1] PROVE pass[k] = q[k]
    <3>1. k \in 0 .. ItemCount /\ k # 0
      BY ItemCountAssumption
    <3>2. pass[k] = SweepItems(p, pass[k - 1], found)
      BY <1>5, <3>1
    <3> QED BY <1>3, <2>2, <3>2
  <2> QED BY <1>3, <2>1, <2>2 DEF SameRounds
<1>8. pass[ItemCount] = q[ItemCount]
  <2>1. \A k \in 0 .. ItemCount : pass[k] = q[k]
    BY <1>7, RoundsAgree, ItemCountAssumption
  <2> QED BY <2>1, ItemCountAssumption
<1>9. ArePasses(q, ItemCount, s, Visits(p, found))
  <2>1. ASSUME NEW k \in 1 .. ItemCount
        PROVE  \E t : IsPass(t, ItemCount, q[k - 1], Visits(p, found)) /\ q[k] = t[ItemCount]
    BY <1>3, SweepIsPass
  <2> QED BY <1>3, <2>1 DEF ArePasses
<1> QED BY <1>6, <1>8, <1>9

LEMMA DeriveType ==
    ASSUME NEW p, NEW found, NEW s \in AnyStates(p)
    PROVE  Derive(p, s, found) \in AnyStates(p)
BY DeriveIsPasses, ItemCountAssumption

-----------------------------------------------------------------------------
(* The fold over the events.                                                *)

Start(p) == [accepted |-> TRUE, state |-> [i \in p.items |-> "pending"],
             receipts |-> [i \in Items |-> {}]]

\* One turn of the loop over the events.
Taken(p, r, e, n) == IF r.accepted /\ e.sequence = n THEN Follows(p, r, e) ELSE NoReplay

IsFold(r, p, log) == /\ r[0] = Start(p)
                     /\ \A n \in 1 .. Len(log) : r[n] = Taken(p, r[n - 1], log[n], n)

\* What a replay may be, of events whose receipts are among R.
Replays(p, R) == [accepted : {TRUE}, state : AnyStates(p), receipts : [Items -> R]]
                     \cup {NoReplay}

LEMMA AcceptedReplay ==
    ASSUME NEW p, NEW R, NEW r \in Replays(p, R), r.accepted
    PROVE  r \in [accepted : {TRUE}, state : AnyStates(p), receipts : [Items -> R]]
<1>1. NoReplay.accepted = FALSE
  BY DEF NoReplay
<1> QED BY <1>1 DEF Replays

LEMMA FollowsType ==
    ASSUME NEW p, NEW R, NEW r \in Replays(p, R), r.accepted, NEW e, e.receipt \in R
    PROVE  Follows(p, r, e) \in Replays(p, R)
<1> DEFINE state == Derive(p, r.state, r.receipts)
           i     == e.item
<1>1. r \in [accepted : {TRUE}, state : AnyStates(p), receipts : [Items -> R]]
  BY AcceptedReplay
<1>2. state \in AnyStates(p)
  BY <1>1, DeriveType
<1>3. \/ Follows(p, r, e) = [r EXCEPT !.state = [state EXCEPT ![i] = "running"]]
      \/ Follows(p, r, e) = [r EXCEPT !.state = [state EXCEPT ![i] = "accepted"],
                                      !.receipts[i] = e.receipt]
      \/ /\ e.type \in NonPass
         /\ Follows(p, r, e) = [r EXCEPT !.state = [state EXCEPT ![i] = e.type]]
      \/ Follows(p, r, e) = NoReplay
  BY DEF Follows
<1> HIDE DEF state, i
<1>4. ASSUME NEW t \in ItemStates
      PROVE  [state EXCEPT ![i] = t] \in AnyStates(p)
  BY <1>2 DEF AnyStates
<1>5. /\ "running" \in ItemStates /\ "accepted" \in ItemStates /\ NonPass \subseteq ItemStates
  BY DEF ItemStates
<1>6. ASSUME NEW s \in AnyStates(p)
      PROVE  /\ [r EXCEPT !.state = s] \in Replays(p, R)
             /\ [r EXCEPT !.state = s, !.receipts[i] = e.receipt] \in Replays(p, R)
  BY <1>1 DEF Replays
<1>7. NoReplay \in Replays(p, R)
  BY DEF Replays
<1> QED BY <1>3, <1>4, <1>5, <1>6, <1>7

LEMMA ReplayIsFold ==
    ASSUME NEW p, NEW log, Len(log) \in Nat
    PROVE  \E r : /\ IsFold(r, p, log)
                  /\ r[Len(log)].accepted =>
                        \E s, f : r[Len(log)] = [accepted |-> TRUE, state |-> s, receipts |-> f]
                  /\ ReplayPlan(p, log) =
                        IF r[Len(log)].accepted
                        THEN [r[Len(log)] EXCEPT
                                 !.state = Derive(p, r[Len(log)].state, r[Len(log)].receipts)]
                        ELSE r[Len(log)]
<1> DEFINE N == Len(log)
           R == {log[n].receipt : n \in 1 .. Len(log)} \cup {{}}
           Is(f) == f = [n \in 0 .. Len(log) |->
                            IF n = 0 THEN [accepted |-> TRUE,
                                           state    |-> [i \in p.items |-> "pending"],
                                           receipts |-> [i \in Items |-> {}]]
                            ELSE IF f[n - 1].accepted /\ log[n].sequence = n
                                 THEN Follows(p, f[n - 1], log[n]) ELSE NoReplay]
           fold == CHOOSE f : Is(f)
           steps == [n \in 1 .. N |-> [r \in Replays(p, R) |-> Taken(p, r, log[n], n)]]
<1>0. Start(p) \in Replays(p, R)
  BY DEF Start, Replays, AnyStates, ItemStates
<1>1. AreSteps(steps, N, Replays(p, R))
  <2>1. ASSUME NEW n \in 1 .. N, NEW r \in Replays(p, R)
        PROVE  Taken(p, r, log[n], n) \in Replays(p, R)
    <3>1. log[n].receipt \in R
      OBVIOUS
    <3> HIDE DEF R
    <3> QED BY <3>1, FollowsType DEF Taken, Replays
  <2> QED BY <2>1 DEF AreSteps
<1>2. PICK r \in [0 .. N -> Replays(p, R)] : IsRounds(r, N, Start(p), steps)
  <2> HIDE DEF steps, N, R
  <2>1. N \in Nat
    BY DEF N
  <2> QED BY <2>1, <1>0, <1>1, RoundsExist
<1>3. r[0] = Start(p) /\ \A n \in 1 .. N : r[n] = Taken(p, r[n - 1], log[n], n)
  <2>1. ASSUME NEW n \in 1 .. N
        PROVE  r[n] = Taken(p, r[n - 1], log[n], n)
    <3>1. n - 1 \in 0 .. N
      OBVIOUS
    <3>2. r[n - 1] \in Replays(p, R) /\ r[n] = steps[n][r[n - 1]]
      BY <1>2, <3>1 DEF IsRounds
    <3> HIDE DEF R
    <3> QED BY <3>2
  <2> QED BY <1>2, <2>1 DEF IsRounds
<1>4. Is(r)
  BY <1>3 DEF Start, Taken
<1>5. Is(fold)
  <2> HIDE DEF Is
  <2> QED BY <1>4
<1>6. ReplayPlan(p, log) =
          IF fold[N].accepted
          THEN [fold[N] EXCEPT !.state = Derive(p, fold[N].state, fold[N].receipts)]
          ELSE fold[N]
  BY DEF ReplayPlan
<1> HIDE DEF fold
<1>7. SameRounds(fold, r, N)
  <2>1. fold[0] = Start(p)
    BY <1>5 DEF Start
  <2>2. ASSUME NEW n \in 1 .. N, fold[n - 1] = r[n - 1] PROVE fold[n] = r[n]
    <3>1. n \in 0 .. N /\ n # 0
      OBVIOUS
    <3>2. fold[n] = Taken(p, fold[n - 1], log[n], n)
      BY <1>5, <3>1 DEF Taken
    <3> QED BY <1>3, <2>2, <3>2
  <2> QED BY <1>3, <2>1, <2>2 DEF SameRounds
<1>8. fold[N] = r[N]
  <2>1. \A n \in 0 .. N : fold[n] = r[n]
    <3>1. N \in Nat
      OBVIOUS
    <3> HIDE DEF N
    <3> QED BY <1>7, <3>1, RoundsAgree
  <2> QED BY <2>1
<1>9. IsFold(r, p, log)
  BY <1>3 DEF IsFold
<1>10. r[N].accepted => \E s, f : r[N] = [accepted |-> TRUE, state |-> s, receipts |-> f]
  <2>1. r[N] \in Replays(p, R)
    OBVIOUS
  <2> HIDE DEF R, N
  <2>2. SUFFICES ASSUME r[N].accepted
                 PROVE  \E s, f : r[N] = [accepted |-> TRUE, state |-> s, receipts |-> f]
    OBVIOUS
  <2>3. r[N] \in [accepted : {TRUE}, state : AnyStates(p), receipts : [Items -> R]]
    BY <2>1, <2>2, AcceptedReplay
  <2>4. r[N] = [accepted |-> TRUE, state |-> r[N].state, receipts |-> r[N].receipts]
    BY <2>3
  <2> QED BY <2>4
<1> QED BY <1>6, <1>8, <1>9, <1>10

-----------------------------------------------------------------------------
(* What is obstructed, as the least set that the rounds of Obstructed       *)
(* reach.                                                                   *)

Known == PlanTypes /\ plan \in Plans /\ DOMAIN receipts = Items

Bad == {i \in plan.items : settled[i] \in NonPass}

\* Items that depend on one of s.
Behind(s) == {i \in plan.items : plan.deps[i] \cap s # {}}

\* One round of Obstructed.
Nearer == [s \in SUBSET plan.items |-> s \cup Behind(s)]

LEMMA PlanShape ==
    ASSUME Known
    PROVE  /\ plan.items \subseteq Items
           /\ plan.items # {}
           /\ \A i \in plan.items : /\ i \in Items
                                    /\ plan.deps[i] \subseteq plan.items
                                    /\ plan.requires[i] \subseteq Declared(plan, i)
           /\ AcyclicPlan(plan)
           /\ IsFiniteSet(plan.items)
           /\ Cardinality(plan.items) <= ItemCount
<1>1. ValidPlan(plan) /\ plan.items \subseteq Items
  BY PlansAssumption, PlanItems DEF Known
<1>2. plan.items # {}
  BY <1>1, FS_EmptySet DEF ValidPlan
<1>3. IsFiniteSet(Items) /\ Cardinality(Items) = ItemCount
  BY ItemCountAssumption, FS_Interval DEF Items
<1>4. IsFiniteSet(plan.items) /\ Cardinality(plan.items) <= ItemCount
  BY <1>1, <1>3, FS_Subset
<1> QED BY <1>1, <1>2, <1>4 DEF ValidPlan

LEMMA ObstructedGrows ==
    \E f : Grows(f, ItemCount, Bad, Nearer) /\ Obstructed = f[ItemCount]
<1> DEFINE N == ItemCount
           S == SUBSET plan.items
           step == [k \in 1 .. N |-> Nearer]
           Is(f) == f = [k \in 0 .. N |->
                            IF k = 0 THEN {i \in plan.items : settled[i] \in NonPass}
                            ELSE f[k - 1] \cup {i \in plan.items :
                                                   plan.deps[i] \cap f[k - 1] # {}}]
           upto == CHOOSE f : Is(f)
<1>1. Bad \in S /\ Nearer \in [S -> S]
  BY DEF Bad, Nearer, Behind
<1>2. PICK f \in [0 .. N -> S] : IsRounds(f, N, Bad, step)
  <2>1. AreSteps(step, N, S)
    BY <1>1 DEF AreSteps
  <2>2. N \in Nat /\ Bad \in S
    BY <1>1, ItemCountAssumption
  <2> HIDE DEF step, S, N
  <2> QED BY <2>1, <2>2, RoundsExist
<1>3. /\ f[0] = Bad
      /\ \A k \in 1 .. N : f[k] = Nearer[f[k - 1]] /\ f[k - 1] \in S
  <2>1. ASSUME NEW k \in 1 .. N PROVE f[k] = Nearer[f[k - 1]] /\ f[k - 1] \in S
    <3>1. k - 1 \in 0 .. N
      BY ItemCountAssumption
    <3> QED BY <1>2, <3>1 DEF IsRounds
  <2> QED BY <1>2, <2>1 DEF IsRounds
<1>4. Is(f)
  <2>1. ASSUME NEW k \in 0 .. N
        PROVE  f[k] = IF k = 0 THEN {i \in plan.items : settled[i] \in NonPass}
                      ELSE f[k - 1] \cup {i \in plan.items :
                                             plan.deps[i] \cap f[k - 1] # {}}
    <3>1. k # 0 => k \in 1 .. N
      BY ItemCountAssumption
    <3> QED BY <1>3, <3>1 DEF Nearer, Behind, Bad
  <2> QED BY <2>1
<1>5. Is(upto)
  <2> HIDE DEF Is
  <2> QED BY <1>4
<1>6. Obstructed = upto[N]
  BY DEF Obstructed
<1> HIDE DEF upto
<1>7. upto[N] = f[N]
  <2>1. upto[0] = Bad
    BY <1>5, ItemCountAssumption DEF Bad
  <2>2. ASSUME NEW k \in 1 .. N, upto[k - 1] = f[k - 1] PROVE upto[k] = f[k]
    <3>1. k \in 0 .. N /\ k # 0
      BY ItemCountAssumption
    <3>2. upto[k] = upto[k - 1] \cup {i \in plan.items :
                                         plan.deps[i] \cap upto[k - 1] # {}}
      BY <1>5, <3>1
    <3> QED BY <1>3, <2>2, <3>2 DEF Nearer, Behind
  <2>3. \A k \in 0 .. N : upto[k] = f[k]
    <3>1. N \in Nat /\ SameRounds(upto, f, N)
      BY <2>2, <1>3, <2>1, ItemCountAssumption DEF SameRounds
    <3> HIDE DEF N
    <3> QED BY <3>1, RoundsAgree
  <2> QED BY <2>3, ItemCountAssumption
<1> QED BY <1>3, <1>6, <1>7 DEF Grows

LEMMA NearerType ==
    /\ Bad \in SUBSET plan.items
    /\ IsGrowth(Nearer, plan.items)
BY DEF Bad, Nearer, Behind, IsGrowth

\* An item is obstructed that ended badly or depends on an obstructed one.
LEMMA ObstructedClosed ==
    ASSUME Known
    PROVE  /\ Obstructed \subseteq plan.items
           /\ Bad \subseteq Obstructed
           /\ Behind(Obstructed) \subseteq Obstructed
<1>1. PICK f : Grows(f, ItemCount, Bad, Nearer) /\ Obstructed = f[ItemCount]
  BY ObstructedGrows
<1>2. IsFiniteSet(plan.items) /\ Cardinality(plan.items) <= ItemCount
  BY PlanShape
<1>3. Bad \in SUBSET plan.items /\ IsGrowth(Nearer, plan.items) /\ ItemCount \in Nat
  BY NearerType, ItemCountAssumption
<1>4. f[ItemCount] \in SUBSET plan.items
  BY <1>1, <1>2, <1>3, GrowthEnds
<1>5. Bad \subseteq f[ItemCount]
  BY <1>1, <1>2, <1>3, GrowthEnds
<1>6. Nearer[f[ItemCount]] = f[ItemCount]
  BY <1>1, <1>2, <1>3, GrowthEnds
<1> QED BY <1>1, <1>4, <1>5, <1>6 DEF Nearer

\* ... and no other.
LEMMA ObstructedIsLeast ==
    ASSUME NEW C, Bad \subseteq C, Behind(C) \subseteq C
    PROVE  Obstructed \subseteq C
<1>1. PICK f : Grows(f, ItemCount, Bad, Nearer) /\ Obstructed = f[ItemCount]
  BY ObstructedGrows
<1>2. IsClosed(C, plan.items, Nearer)
  BY DEF IsClosed, Nearer, Behind
<1> QED BY <1>1, <1>2, NearerType, GrowthIsLeast, ItemCountAssumption

-----------------------------------------------------------------------------
(* States.                                                                  *)

\* Whatever was accepted has a receipt with the evidence it produces, and
\* whatever was started stood on accepted items.
Grounded ==
    \A i \in plan.items :
        /\ settled[i] = "accepted" =>
               \E receipt \in receipts[i] : plan.produces[i] \subseteq receipt.evidence
        /\ ~Waiting(i) => \A d \in plan.deps[i] : settled[d] = "accepted"

LEMMA ObstructedIs ==
    ASSUME Known, Grounded
    PROVE  \A i \in plan.items : i \in Obstructed <=>
               i \in Bad \/ (Waiting(i) /\ \E d \in plan.deps[i] : d \in Obstructed)
<1> DEFINE C == Bad \cup {i \in plan.items : Waiting(i) /\ plan.deps[i] \cap Obstructed # {}}
<1>1. \A i \in plan.items : plan.deps[i] \subseteq plan.items
  BY PlanShape
<1>2. C \subseteq Obstructed
  BY ObstructedClosed DEF Behind
<1>3. ASSUME NEW i \in Behind(C) PROVE i \in C
  <2>1. i \in plan.items /\ \E d \in plan.deps[i] : d \in C
    BY <1>3 DEF Behind
  <2>2. PICK d \in plan.deps[i] : d \in C
    BY <2>1
  <2>3. settled[d] # "accepted"
    BY <2>2 DEF Bad, NonPass, Waiting
  <2>4. Waiting(i)
    BY <2>1, <2>2, <2>3 DEF Grounded
  <2> QED BY <1>2, <2>1, <2>2, <2>4
<1>4. Obstructed \subseteq C
  <2>1. Bad \subseteq C /\ Behind(C) \subseteq C
    BY <1>3
  <2> HIDE DEF C
  <2> QED BY <2>1, ObstructedIsLeast
<1>5. \A i \in plan.items : i \in C <=>
          i \in Bad \/ (Waiting(i) /\ \E d \in plan.deps[i] : d \in Obstructed)
  OBVIOUS
<1>6. Obstructed \subseteq plan.items
  BY ObstructedClosed
<1> HIDE DEF C
<1>7. Obstructed = C
  BY <1>2, <1>4
<1> QED BY <1>5, <1>7

Allowed(i) == \A d \in plan.deps[i] : settled[d] = "accepted"

\* The states of items that agree with what has settled.
Consistent == {s \in AnyStates(plan) : \A i \in plan.items :
                  IF Waiting(i) THEN s[i] \in {"pending", "ready", "blocked"}
                                ELSE s[i] = settled[i]}

StateIs(i) == /\ ~Waiting(i) => States[i] = settled[i]
              /\ Waiting(i) /\ i \in Obstructed => States[i] = "blocked"
              /\ Waiting(i) /\ Allowed(i) => i \notin Obstructed /\ States[i] = "ready"
              /\ Waiting(i) /\ i \notin Obstructed /\ ~Allowed(i) => States[i] = "pending"

LEMMA StatesAre == Known /\ Grounded => \A i \in plan.items : StateIs(i)
<1> SUFFICES ASSUME Known, Grounded, NEW i \in plan.items PROVE StateIs(i)
  OBVIOUS
<1>1. States[i] = IF ~Waiting(i)         THEN settled[i]
                  ELSE IF i \in Obstructed THEN "blocked"
                  ELSE IF Allowed(i)       THEN "ready"
                  ELSE "pending"
  BY DEF States, Allowed
<1>2. ASSUME Waiting(i), Allowed(i) PROVE i \notin Obstructed
  <2>1. i \notin Bad
    BY <1>2 DEF Waiting, Bad, NonPass
  <2>2. ASSUME NEW d \in plan.deps[i] PROVE d \notin Obstructed
    <3>1. d \in plan.items /\ settled[d] = "accepted"
      BY <1>2, PlanShape DEF Allowed
    <3>2. d \notin Bad /\ ~Waiting(d)
      BY <3>1 DEF Bad, NonPass, Waiting
    <3> QED BY <3>1, <3>2, ObstructedIs
  <2> QED BY <2>1, <2>2, ObstructedIs
<1> QED BY <1>1, <1>2 DEF StateIs

LEMMA SettledTypes ==
    ASSUME Known, NEW i \in plan.items
    PROVE  settled[i] \in {"none", "running", "accepted"} \cup NonPass
BY PlanShape DEF Known, PlanTypes

LEMMA StatesConsistent ==
    ASSUME Known, Grounded
    PROVE  States \in Consistent
<1>1. ASSUME NEW i \in plan.items
      PROVE  /\ States[i] \in ItemStates
             /\ IF Waiting(i) THEN States[i] \in {"pending", "ready", "blocked"}
                              ELSE States[i] = settled[i]
  <2>1. StateIs(i) /\ settled[i] \in {"none", "running", "accepted"} \cup NonPass
    BY StatesAre, SettledTypes
  <2> QED BY <2>1 DEF StateIs, ItemStates, Waiting
<1>2. States = [i \in plan.items |-> States[i]]
  BY DEF States
<1> QED BY <1>1, <1>2 DEF Consistent, AnyStates

\* With all its dependencies accepted an item never lacks evidence.
LEMMA EvidenceThere ==
    ASSUME Known, Grounded, NEW i \in plan.items, Allowed(i)
    PROVE  plan.requires[i] \subseteq
               UNION {r.evidence : r \in UNION {receipts[d] : d \in plan.deps[i]}}
<1>1. SUFFICES ASSUME NEW key \in plan.requires[i]
               PROVE  \E d \in plan.deps[i] : \E r \in receipts[d] : key \in r.evidence
  OBVIOUS
<1>2. PICK d \in plan.deps[i] : key \in plan.produces[d]
  BY <1>1, PlanShape DEF Declared
<1>3. d \in plan.items /\ settled[d] = "accepted"
  BY PlanShape DEF Allowed
<1>4. PICK r \in receipts[d] : plan.produces[d] \subseteq r.evidence
  BY <1>3 DEF Grounded
<1> QED BY <1>2, <1>4

\* Once the dependencies of an item have their state, the loop gives it its own.
LEMMA DesiredIsState ==
    ASSUME Known, Grounded, NEW s \in Consistent, NEW i \in plan.items,
           \A d \in plan.deps[i] : s[d] = States[d]
    PROVE  DesiredState(plan, s, receipts, i) = States[i]
<1> DEFINE deps == plan.deps[i]
<1>1. deps \subseteq plan.items
  BY PlanShape
<1>2. CASE ~Waiting(i)
  <2>1. /\ s[i] = settled[i] /\ States[i] = settled[i]
        /\ settled[i] \in {"running", "accepted"} \cup NonPass
    BY <1>2, StatesAre, SettledTypes DEF Consistent, StateIs, Waiting
  <2> QED BY <2>1 DEF DesiredState, NonPass
<1>3. CASE Waiting(i)
  <2>1. s[i] \in {"pending", "ready", "blocked"}
    BY <1>3 DEF Consistent
  <2>2. s[i] \notin {"running", "accepted"} \cup NonPass
    BY <2>1 DEF NonPass
  <2>3. ASSUME NEW d \in deps
        PROVE  /\ s[d] \in Blocking <=> d \in Obstructed
               /\ s[d] = "accepted" <=> settled[d] = "accepted"
    <3>1. /\ d \in plan.items /\ s[d] = States[d] /\ StateIs(d)
          /\ settled[d] \in {"none", "running", "accepted"} \cup NonPass
      BY <1>1, StatesAre, SettledTypes
    <3>2. d \in Obstructed => d \in Bad \/ Waiting(d)
      BY <3>1, ObstructedIs
    <3>3. CASE Waiting(d)
      BY <3>1, <3>3 DEF StateIs, Waiting, Blocking, NonPass
    <3>4. CASE ~Waiting(d)
      <4>1. s[d] = settled[d] /\ settled[d] # "none"
        BY <3>1, <3>4 DEF StateIs, Waiting
      <4>2. d \in Obstructed <=> settled[d] \in NonPass
        <5>1. d \in Obstructed <=> d \in Bad
          BY <3>1, <3>2, <3>4, ObstructedClosed
        <5> QED BY <3>1, <5>1 DEF Bad
      <4> QED BY <3>1, <4>1, <4>2 DEF Blocking, NonPass
    <3> QED BY <3>3, <3>4
  <2>4. i \in Obstructed <=> \E d \in deps : s[d] \in Blocking
    <3>1. i \notin Bad
      BY <1>3 DEF Bad, Waiting, NonPass
    <3> QED BY <1>3, <2>3, <3>1, ObstructedIs
  <2>5. Allowed(i) <=> \A d \in deps : s[d] = "accepted"
    BY <2>3 DEF Allowed
  <2>6. DesiredState(plan, s, receipts, i) =
            IF \E d \in deps : s[d] \in Blocking THEN "blocked"
            ELSE IF \A d \in deps : s[d] = "accepted"
                 THEN IF plan.requires[i] \subseteq
                             UNION {r.evidence : r \in UNION {receipts[d] : d \in deps}}
                      THEN "ready" ELSE "blocked"
                 ELSE "pending"
    <3>1. ASSUME NEW d \in deps, s[d] \in Blocking PROVE s[d] # "accepted"
      BY <3>1 DEF Blocking, NonPass
    <3> QED BY <2>1, <2>2, <3>1 DEF DesiredState
  <2>7. StateIs(i)
    BY StatesAre
  <2> QED BY <1>3, <2>4, <2>5, <2>6, <2>7, EvidenceThere DEF StateIs
<1> QED BY <1>2, <1>3

\* Wherever it starts and whatever order it visits the items in, the loop of
\* replay_coordination comes to the states.
LEMMA DeriveIsStates ==
    ASSUME Known, Grounded, NEW s \in Consistent
    PROVE  Derive(plan, s, receipts) = States
<1> DEFINE visit == Visits(plan, receipts)
           deps  == [i \in plan.items |-> plan.deps[i]]
<1>1. Solves(States, ItemCount, plan.items, deps, Consistent, visit)
  <2>1. ASSUME NEW i \in plan.items, NEW t \in Consistent
        PROVE  /\ visit[i][t] \in Consistent
               /\ \A j \in plan.items : j # i => visit[i][t][j] = t[j]
               /\ (\A d \in plan.deps[i] : t[d] = States[d]) => visit[i][t][i] = States[i]
    <3> DEFINE desired == DesiredState(plan, t, receipts, i)
    <3>1. t \in AnyStates(plan) /\ i \in 1 .. ItemCount
      BY PlanShape DEF Consistent, Items
    <3>2. visit[i][t] = [t EXCEPT ![i] = desired]
      BY <3>1 DEF Visits
    <3>3. desired \in ItemStates
      BY <3>1, DesiredStateType
    <3>4. IF Waiting(i) THEN desired \in {"pending", "ready", "blocked"}
                        ELSE desired = settled[i]
      <4>1. CASE Waiting(i)
        <5>1. t[i] \in {"pending", "ready", "blocked"}
          BY <4>1 DEF Consistent
        <5>2. t[i] \notin {"running", "accepted"} \cup NonPass
          BY <5>1 DEF NonPass
        <5> QED BY <4>1, <5>1, <5>2 DEF DesiredState
      <4>2. CASE ~Waiting(i)
        <5>1. t[i] = settled[i] /\ settled[i] \in {"running", "accepted"} \cup NonPass
          BY <4>2, SettledTypes DEF Consistent, Waiting
        <5> QED BY <4>2, <5>1 DEF DesiredState, NonPass
      <4> QED BY <4>1, <4>2
    <3> HIDE DEF desired
    <3>5. /\ visit[i][t] \in AnyStates(plan)
          /\ visit[i][t][i] = desired
          /\ \A j \in plan.items : j # i => visit[i][t][j] = t[j]
      BY <3>1, <3>2, <3>3 DEF AnyStates
    <3>6. visit[i][t] \in Consistent
      <4>1. ASSUME NEW j \in plan.items
            PROVE  IF Waiting(j) THEN visit[i][t][j] \in {"pending", "ready", "blocked"}
                                 ELSE visit[i][t][j] = settled[j]
        <5>1. CASE j = i
          BY <5>1, <3>4, <3>5
        <5>2. CASE j # i
          BY <5>2, <3>5 DEF Consistent
        <5> QED BY <5>1, <5>2
      <4> QED BY <3>5, <4>1 DEF Consistent
    <3> QED BY <3>5, <3>6, DesiredIsState DEF desired
  <2>2. ASSUME NEW i \in (1 .. ItemCount) \ plan.items, NEW t \in Consistent
        PROVE  visit[i][t] = t
    <3>1. t \in AnyStates(plan)
      BY DEF Consistent
    <3> QED BY <3>1 DEF Visits
  <2>3. plan.items \subseteq 1 .. ItemCount /\ deps \in [plan.items -> SUBSET plan.items]
    BY PlanShape DEF Items
  <2>4. \A i \in plan.items : deps[i] = plan.deps[i]
    OBVIOUS
  <2> HIDE DEF visit, deps
  <2>5. \A n \in 1 .. ItemCount : \A t \in Consistent : visit[n][t] \in Consistent
    BY <2>1, <2>2
  <2>6. \A n \in 1 .. ItemCount : \A t \in Consistent : \A m \in plan.items :
            m # n => visit[n][t][m] = t[m]
    BY <2>1, <2>2
  <2>7. \A i \in plan.items : \A t \in Consistent :
            (\A d \in deps[i] : t[d] = States[d]) => visit[i][t][i] = States[i]
    BY <2>1, <2>4
  <2> QED BY <2>3, <2>5, <2>6, <2>7 DEF Solves
<1>2. PICK q \in [0 .. ItemCount -> AnyStates(plan)] :
          ArePasses(q, ItemCount, s, visit) /\ Derive(plan, s, receipts) = q[ItemCount]
  BY DeriveIsPasses DEF Consistent
<1>3. \A group \in SUBSET plan.items \ {{}} : \E i \in group : deps[i] \cap group = {}
  <2>1. ASSUME NEW group \in SUBSET plan.items \ {{}}
        PROVE  \E i \in group : deps[i] \cap group = {}
    <3>1. PICK i \in group : plan.deps[i] \cap group = {}
      BY PlanShape DEF AcyclicPlan
    <3> QED BY <3>1
  <2> QED BY <2>1
<1>4. q[ItemCount] \in Consistent /\ \A i \in plan.items : q[ItemCount][i] = States[i]
  <2> HIDE DEF visit, deps
  <2> QED BY <1>1, <1>2, <1>3, PassesSettle, ItemCountAssumption
<1>5. q[ItemCount] = States
  BY <1>4, StatesConsistent DEF Consistent, AnyStates
<1> QED BY <1>2, <1>5

-----------------------------------------------------------------------------
(* The steps of the coordinator.                                            *)

\* Item i is started, of accepted items only, or gets its result.
Moves(i) ==
    /\ plan' = plan /\ DOMAIN receipts' = Items
    /\ \A j \in plan.items : j # i => settled'[j] = settled[j] /\ receipts'[j] = receipts[j]
    /\ \/ /\ Waiting(i) /\ Allowed(i)
          /\ settled'[i] = "running"
       \/ /\ settled[i] = "running"
          /\ settled'[i] \in {"accepted"} \cup NonPass
          /\ settled'[i] = "accepted" =>
                 \E receipt \in receipts'[i] : plan.produces[i] \subseteq receipt.evidence

LEMMA ScheduleMoves ==
    ASSUME Known, Grounded, NEW i \in plan.items, ScheduleNext(i)
    PROVE  Moves(i) /\ States[i] = "ready"
<1>1. /\ States[i] = "ready" /\ settled' = [settled EXCEPT ![i] = "running"]
      /\ plan' = plan /\ receipts' = receipts
  BY DEF ScheduleNext, MayStart
<1>2. StateIs(i) /\ settled[i] \in {"none", "running", "accepted"} \cup NonPass
  BY StatesAre, SettledTypes
<1>3. Waiting(i) /\ Allowed(i)
  BY <1>1, <1>2 DEF StateIs, Waiting, NonPass
<1>4. settled'[i] = "running" /\ \A j \in plan.items : j # i => settled'[j] = settled[j]
  BY <1>1, PlanShape DEF Known, PlanTypes
<1> QED BY <1>1, <1>3, <1>4 DEF Moves, Known

LEMMA ReceiveMoves ==
    ASSUME Known, NEW i \in plan.items, Receive(i)
    PROVE  \E receipt : RecordReceipt(i, receipt) /\ settled'[i] = "accepted" /\ Moves(i)
<1>1. PICK receipt : /\ RecordReceipt(i, receipt) /\ receipt.item = i
                     /\ plan.produces[i] \subseteq receipt.evidence
  <2>1. PICK evidence \in SUBSET Keys :
            \/ \E receipt \in FromApp8c(i, evidence) : RecordReceipt(i, receipt)
            \/ \E exact \in {BaseSha, main[i]} :
                  \E receipt \in FromHost(i, exact, evidence) : RecordReceipt(i, receipt)
    BY DEF Receive
  <2>2. CASE \E receipt \in FromApp8c(i, evidence) : RecordReceipt(i, receipt)
    BY <2>2 DEF FromApp8c
  <2>3. CASE \E exact \in {BaseSha, main[i]} :
                 \E receipt \in FromHost(i, exact, evidence) : RecordReceipt(i, receipt)
    BY <2>3 DEF FromHost
  <2> QED BY <2>1, <2>2, <2>3
<1>2. /\ settled[i] = "running" /\ settled' = [settled EXCEPT ![i] = "accepted"]
      /\ receipts' = [receipts EXCEPT ![i] = {receipt}] /\ plan' = plan
  BY <1>1 DEF RecordReceipt
<1>3. /\ settled'[i] = "accepted" /\ receipts'[i] = {receipt} /\ DOMAIN receipts' = Items
      /\ \A j \in plan.items : j # i => settled'[j] = settled[j] /\ receipts'[j] = receipts[j]
  BY <1>2, PlanShape DEF Known, PlanTypes
<1> QED BY <1>1, <1>2, <1>3 DEF Moves

LEMMA NonPassMoves ==
    ASSUME Known, NEW i \in plan.items, NEW outcome \in Results, RecordNonPass(i, outcome)
    PROVE  Moves(i) /\ settled'[i] = outcome /\ outcome \in NonPass
<1>1. /\ settled[i] = "running" /\ settled' = [settled EXCEPT ![i] = outcome]
      /\ plan' = plan /\ receipts' = receipts /\ outcome \in NonPass
  BY ResultsAssumption DEF RecordNonPass
<1>2. settled'[i] = outcome /\ \A j \in plan.items : j # i => settled'[j] = settled[j]
  BY <1>1, PlanShape DEF Known, PlanTypes
<1>3. outcome # "accepted"
  BY <1>1 DEF NonPass
<1> QED BY <1>1, <1>2, <1>3 DEF Moves, Known

LEMMA MovesGround ==
    ASSUME Known, Grounded, NEW i \in plan.items, Moves(i)
    PROVE  Grounded'
<1>1. plan' = plan /\ \A j \in plan.items : plan.deps[j] \subseteq plan.items
  BY PlanShape DEF Moves
<1>2. ASSUME NEW d \in plan.items, settled[d] = "accepted"
      PROVE  settled'[d] = "accepted"
  BY <1>2 DEF Moves, Waiting
<1>3. ASSUME NEW j \in plan.items
      PROVE  /\ settled'[j] = "accepted" =>
                    \E receipt \in receipts'[j] : plan.produces[j] \subseteq receipt.evidence
             /\ settled'[j] # "none" => \A d \in plan.deps[j] : settled'[d] = "accepted"
  <2>1. CASE j = i
    <3>1. \A d \in plan.deps[j] : settled[d] = "accepted"
      BY <2>1 DEF Moves, Grounded, Waiting, Allowed
    <3>2. settled'[j] = "accepted" =>
              \E receipt \in receipts'[j] : plan.produces[j] \subseteq receipt.evidence
      BY <2>1 DEF Moves
    <3> QED BY <1>1, <1>2, <3>1, <3>2
  <2>2. CASE j # i
    <3>1. settled'[j] = settled[j] /\ receipts'[j] = receipts[j]
      BY <2>2 DEF Moves
    <3> QED BY <1>1, <1>2, <3>1 DEF Grounded, Waiting
  <2> QED BY <2>1, <2>2
<1> QED BY <1>1, <1>3 DEF Grounded, Waiting

LEMMA MovesConsistent ==
    ASSUME Known, Grounded, NEW i \in plan.items, Moves(i)
    PROVE  [States EXCEPT ![i] = settled'[i]] \in Consistent'
<1> DEFINE s == [States EXCEPT ![i] = settled'[i]]
<1>1. settled'[i] \in ItemStates /\ settled'[i] # "none"
  BY DEF Moves, ItemStates, NonPass
<1>2. States \in AnyStates(plan) /\ States \in Consistent
  BY StatesConsistent DEF Consistent
<1>3. /\ s \in AnyStates(plan) /\ s[i] = settled'[i]
      /\ \A j \in plan.items : j # i => s[j] = States[j]
  BY <1>1, <1>2 DEF AnyStates
<1>4. plan' = plan /\ \A j \in plan.items : j # i => settled'[j] = settled[j]
  BY DEF Moves
<1> HIDE DEF s
<1>5. ASSUME NEW j \in plan.items
      PROVE  IF settled'[j] = "none" THEN s[j] \in {"pending", "ready", "blocked"}
                                     ELSE s[j] = settled'[j]
  <2>1. CASE j = i
    BY <2>1, <1>1, <1>3
  <2>2. CASE j # i
    BY <2>2, <1>2, <1>3, <1>4 DEF Consistent, Waiting
  <2> QED BY <2>1, <2>2
<1>6. s \in Consistent'
  BY <1>3, <1>4, <1>5 DEF Consistent, Waiting
<1> QED BY <1>6 DEF s

-----------------------------------------------------------------------------
(* The replay of the history.                                               *)

Reached(s) == [accepted |-> TRUE, state |-> s, receipts |-> receipts]

FoldInv == \E r : /\ IsFold(r, plan, events)
                  /\ \E s \in Consistent : r[Len(events)] = Reached(s)

Begins(log, more) == /\ Len(log) \in Nat /\ Len(more) \in Nat /\ Len(log) <= Len(more)
                     /\ \A n \in 1 .. Len(log) : more[n] = log[n]

\* A log is replayed as its beginning is, so far.
LEMMA SameFold ==
    ASSUME NEW p, NEW log, NEW more, Begins(log, more),
           NEW r, IsFold(r, p, log), NEW q, IsFold(q, p, more)
    PROVE  q[Len(log)] = r[Len(log)]
<1> DEFINE N == Len(log)
           G == {n \in 0 .. N : q[n] = r[n]}
<1>1. N \in Nat /\ N <= Len(more) /\ Len(more) \in Nat
  BY DEF Begins
<1>2. 0 \in G
  BY <1>1 DEF IsFold
<1>3. ASSUME NEW n \in 1 .. N, n - 1 \in G PROVE n \in G
  <2>1. n \in 1 .. Len(more) /\ more[n] = log[n] /\ q[n - 1] = r[n - 1]
    BY <1>1, <1>3 DEF Begins
  <2> QED BY <2>1 DEF IsFold
<1>4. \A n \in 0 .. N : n \in G
  <2> HIDE DEF G, N
  <2> QED BY <1>1, <1>2, <1>3, BoundedInduction
<1> QED BY <1>1, <1>4

LEMMA LogLengths ==
    ASSUME LogTypes
    PROVE  Len(events) \in Nat /\ Len(stored) \in Nat
BY LenProperties DEF LogTypes

\* A history with one more event, if the replay takes it.
LEMMA FoldGrows ==
    ASSUME LogTypes, FoldInv, plan' = plan,
           NEW e, e.sequence = Len(events) + 1, events' = Append(events, e),
           NEW t, t \in Consistent',
           \A s \in Consistent : Follows(plan, Reached(s), e) =
               [accepted |-> TRUE, state |-> t, receipts |-> receipts']
    PROVE  FoldInv'
<1>1. PICK r : /\ IsFold(r, plan, events)
               /\ \E s \in Consistent : r[Len(events)] = Reached(s)
  BY DEF FoldInv
<1>2. PICK s \in Consistent : r[Len(events)] = Reached(s)
  BY <1>1
<1>3. /\ Len(events) \in Nat /\ Len(events') = Len(events) + 1
      /\ \A n \in 1 .. Len(events) : events'[n] = events[n]
      /\ events'[Len(events) + 1] = e
  <2>1. PICK S : events \in Seq(S)
    BY DEF LogTypes
  <2>2. events \in Seq(S \cup {e})
    BY <2>1, SeqMonotonic
  <2> QED BY <2>2, AppendProperties, LenProperties
<1>4. PICK q : IsFold(q, plan, events')
  <2>1. Len(events') \in Nat
    BY <1>3
  <2> QED BY <2>1, ReplayIsFold
<1>5. q[Len(events)] = Reached(s)
  <2>1. Begins(events, events')
    BY <1>3 DEF Begins
  <2> QED BY <1>1, <1>2, <1>4, <2>1, SameFold
<1>6. q[Len(events')] = Taken(plan, q[Len(events)], e, Len(events) + 1)
  <2>1. Len(events') \in 1 .. Len(events') /\ Len(events') - 1 = Len(events)
    BY <1>3
  <2> QED BY <1>3, <1>4, <2>1 DEF IsFold
<1>7. q[Len(events')] = Follows(plan, Reached(s), e)
  BY <1>5, <1>6 DEF Taken, Reached
<1>8. q[Len(events')] = [accepted |-> TRUE, state |-> t, receipts |-> receipts']
  BY <1>7
<1>9. \E x \in Consistent' : q[Len(events')] =
          [accepted |-> TRUE, state |-> x, receipts |-> receipts']
  BY <1>8
<1> QED BY <1>4, <1>9 DEF FoldInv, Reached

\* The states the fold goes on from.
LEMMA FollowsFrom ==
    ASSUME Known, Grounded, NEW s \in Consistent
    PROVE  /\ Reached(s).state = s /\ Reached(s).receipts = receipts
           /\ Derive(plan, Reached(s).state, Reached(s).receipts) = States
BY DeriveIsStates DEF Reached

LEMMA ScheduleFolds ==
    ASSUME Known, Grounded, LogTypes, FoldInv, NEW i \in plan.items, ScheduleNext(i)
    PROVE  FoldInv'
<1> DEFINE e == Event("scheduled", i, {})
           t == [States EXCEPT ![i] = settled'[i]]
<1>1. Moves(i) /\ States[i] = "ready"
  BY ScheduleMoves
<1>2. /\ events' = Append(events, e) /\ receipts' = receipts /\ plan' = plan
      /\ settled'[i] = "running"
  BY <1>1, PlanShape DEF ScheduleNext, Known, PlanTypes
<1>3. e.sequence = Len(events) + 1 /\ e.type = "scheduled" /\ e.item = i
  BY DEF Event
<1>4. t \in Consistent'
  BY <1>1, MovesConsistent
<1>5. ASSUME NEW s \in Consistent
      PROVE  Follows(plan, Reached(s), e) =
                 [accepted |-> TRUE, state |-> t, receipts |-> receipts']
  <2>1. Follows(plan, Reached(s), e) =
            [Reached(s) EXCEPT !.state = [States EXCEPT ![i] = "running"]]
    <3> HIDE DEF e
    <3> QED BY <1>1, <1>3, FollowsFrom DEF Follows
  <2> QED BY <1>2, <2>1 DEF Reached
<1> HIDE DEF e, t
<1> QED BY <1>2, <1>3, <1>4, <1>5, FoldGrows

LEMMA ReceiveFolds ==
    ASSUME Known, Grounded, LogTypes, FoldInv, NEW i \in plan.items, Receive(i)
    PROVE  FoldInv'
<1>1. PICK receipt : RecordReceipt(i, receipt) /\ settled'[i] = "accepted" /\ Moves(i)
  BY ReceiveMoves
<1> DEFINE e == Event("accepted", i, {receipt})
           t == [States EXCEPT ![i] = settled'[i]]
<1>2. /\ events' = Append(events, e) /\ plan' = plan /\ Binds(plan, receipt)
      /\ receipts' = [receipts EXCEPT ![i] = {receipt}] /\ settled[i] = "running"
  BY <1>1 DEF RecordReceipt
<1>3. /\ e.sequence = Len(events) + 1 /\ e.type = "accepted" /\ e.item = i
      /\ e.receipt = {receipt}
  BY DEF Event
<1>4. t \in Consistent'
  BY <1>1, MovesConsistent
<1>5. States[i] = "running"
  BY <1>2, StatesAre DEF StateIs, Waiting
<1>6. ASSUME NEW s \in Consistent
      PROVE  Follows(plan, Reached(s), e) =
                 [accepted |-> TRUE, state |-> t, receipts |-> receipts']
  <2>1. Follows(plan, Reached(s), e) =
            [Reached(s) EXCEPT !.state = [States EXCEPT ![i] = "accepted"],
                               !.receipts[i] = {receipt}]
    <3>1. /\ \A x \in e.receipt : Binds(plan, x)
          /\ Derive(plan, Reached(s).state, Reached(s).receipts)[e.item] = "running"
      BY <1>2, <1>3, <1>5, FollowsFrom
    <3> HIDE DEF e
    <3>2. Follows(plan, Reached(s), e) =
              [Reached(s) EXCEPT !.state = [Derive(plan, Reached(s).state, Reached(s).receipts)
                                               EXCEPT ![e.item] = "accepted"],
                                 !.receipts[e.item] = e.receipt]
      BY <1>3, <3>1 DEF Follows, NonPass
    <3> QED BY <1>3, <3>2, FollowsFrom
  <2> QED BY <1>1, <1>2, <2>1 DEF Reached
<1> HIDE DEF e, t
<1> QED BY <1>2, <1>3, <1>4, <1>6, FoldGrows

LEMMA NonPassFolds ==
    ASSUME Known, Grounded, LogTypes, FoldInv, NEW i \in plan.items,
           NEW outcome \in Results, RecordNonPass(i, outcome)
    PROVE  FoldInv'
<1> DEFINE e == Event(outcome, i, {})
           t == [States EXCEPT ![i] = settled'[i]]
<1>1. Moves(i) /\ settled'[i] = outcome /\ outcome \in NonPass
  BY NonPassMoves
<1>2. /\ events' = Append(events, e) /\ plan' = plan /\ receipts' = receipts
      /\ settled[i] = "running"
  BY DEF RecordNonPass
<1>3. e.sequence = Len(events) + 1 /\ e.type = outcome /\ e.item = i
  BY DEF Event
<1>4. t \in Consistent'
  BY <1>1, MovesConsistent
<1>5. States[i] = "running" /\ outcome # "accepted" /\ outcome # "scheduled"
  BY <1>1, <1>2, StatesAre DEF StateIs, Waiting, NonPass
<1>6. ASSUME NEW s \in Consistent
      PROVE  Follows(plan, Reached(s), e) =
                 [accepted |-> TRUE, state |-> t, receipts |-> receipts']
  <2>1. Follows(plan, Reached(s), e) =
            [Reached(s) EXCEPT !.state = [States EXCEPT ![i] = outcome]]
    <3> HIDE DEF e
    <3> QED BY <1>1, <1>3, <1>5, FollowsFrom DEF Follows
  <2> QED BY <1>1, <1>2, <2>1 DEF Reached
<1> HIDE DEF e, t
<1> QED BY <1>2, <1>3, <1>4, <1>6, FoldGrows

LEMMA EmptyFolds ==
    /\ plan \in Plans /\ events = <<>>
    /\ settled = [i \in Items |-> "none"] /\ receipts = [i \in Items |-> {}]
    => FoldInv /\ Grounded
<1> SUFFICES ASSUME plan \in Plans, events = <<>>, settled = [i \in Items |-> "none"],
                    receipts = [i \in Items |-> {}]
             PROVE  FoldInv /\ Grounded
  OBVIOUS
<1>1. \A i \in plan.items : i \in Items /\ Waiting(i)
  <2>1. plan.items \subseteq Items
    BY PlansAssumption DEF Plan
  <2> QED BY <2>1 DEF Waiting
<1>2. Len(events) = 0
  BY EmptySeq
<1>3. PICK r : IsFold(r, plan, events)
  BY <1>2, ReplayIsFold
<1>4. r[Len(events)] = Reached([i \in plan.items |-> "pending"])
  BY <1>2, <1>3 DEF IsFold, Start, Reached
<1>5. [i \in plan.items |-> "pending"] \in Consistent
  BY <1>1 DEF Consistent, AnyStates, ItemStates
<1>6. Grounded
  BY <1>1 DEF Grounded, Waiting
<1> QED BY <1>3, <1>4, <1>5, <1>6 DEF FoldInv

LEMMA EmptyFoldsNext ==
    (/\ plan \in Plans /\ events = <<>>
     /\ settled = [i \in Items |-> "none"] /\ receipts = [i \in Items |-> {}])'
    => (FoldInv /\ Grounded)'
BY EmptyFolds, PTL

\* Once a replay has refused an event it refuses the log.
LEMMA AcceptedSoFar ==
    ASSUME NEW p, NEW log, Len(log) \in Nat, NEW r, IsFold(r, p, log),
           r[Len(log)].accepted, NEW k \in 0 .. Len(log)
    PROVE  r[k].accepted
<1> DEFINE N == Len(log)
           G == {m \in 0 .. N : r[N - m].accepted}
<1>1. 0 \in G
  OBVIOUS
<1>2. ASSUME NEW m \in 1 .. N, m - 1 \in G PROVE m \in G
  <2>1. /\ N - (m - 1) \in 1 .. N /\ (N - (m - 1)) - 1 = N - m
        /\ r[N - (m - 1)].accepted
    BY <1>2
  <2>2. PICK n \in 1 .. N : n - 1 = N - m /\ r[n].accepted
    BY <2>1
  <2>3. r[n] = Taken(p, r[n - 1], log[n], n)
    BY DEF IsFold
  <2>4. r[n - 1].accepted
    BY <2>2, <2>3 DEF Taken, NoReplay
  <2> QED BY <2>2, <2>4
<1>3. \A m \in 0 .. N : m \in G
  <2>1. N \in Nat
    OBVIOUS
  <2> HIDE DEF G, N
  <2> QED BY <1>1, <1>2, <2>1, BoundedInduction
<1>4. N - k \in 0 .. N /\ N - (N - k) = k
  OBVIOUS
<1> QED BY <1>3, <1>4

-----------------------------------------------------------------------------
(* Every history the coordinator and the store can have replays.            *)

LEMMA HistoryReplays ==
    ASSUME Known, Grounded, LogTypes, FoldInv
    PROVE  PlanReplays
<1>1. PICK r : /\ IsFold(r, plan, events)
               /\ \E s \in Consistent : r[Len(events)] = Reached(s)
  BY DEF FoldInv
<1>2. PICK s \in Consistent : r[Len(events)] = Reached(s)
  BY <1>1
<1>3. Len(events) \in Nat
  BY LogLengths
<1>4. PICK q : /\ IsFold(q, plan, events)
               /\ ReplayPlan(plan, events) =
                     IF q[Len(events)].accepted
                     THEN [q[Len(events)] EXCEPT
                              !.state = Derive(plan, q[Len(events)].state,
                                               q[Len(events)].receipts)]
                     ELSE q[Len(events)]
  BY <1>3, ReplayIsFold
<1>5. q[Len(events)] = Reached(s)
  <2>1. Begins(events, events)
    BY <1>3 DEF Begins
  <2> QED BY <1>1, <1>2, <1>4, <2>1, SameFold
<1>6. Reached(s).accepted
  BY DEF Reached
<1>7. ReplayPlan(plan, events) = [Reached(s) EXCEPT !.state = States]
  BY <1>4, <1>5, <1>6, FollowsFrom
<1> QED BY <1>7 DEF PlanReplays, Reached

\* What begins as the history does is accepted as it is.
LEMMA PrefixReplays == LogTypes /\ FoldInv /\ Begins(stored, events) => StoredReplays
<1> SUFFICES ASSUME LogTypes, FoldInv, Begins(stored, events) PROVE StoredReplays
  OBVIOUS
<1>1. PICK r : /\ IsFold(r, plan, events)
               /\ \E s \in Consistent : r[Len(events)] = Reached(s)
  BY DEF FoldInv
<1>2. Len(stored) \in Nat /\ Len(events) \in Nat /\ Len(stored) \in 0 .. Len(events)
  BY LogLengths DEF Begins
<1>3. r[Len(events)].accepted
  BY <1>1 DEF Reached
<1>4. r[Len(stored)].accepted
  BY <1>1, <1>2, <1>3, AcceptedSoFar
<1>5. PICK q : /\ IsFold(q, plan, stored)
               /\ q[Len(stored)].accepted =>
                     \E s, f : q[Len(stored)] =
                                   [accepted |-> TRUE, state |-> s, receipts |-> f]
               /\ ReplayPlan(plan, stored) =
                     IF q[Len(stored)].accepted
                     THEN [q[Len(stored)] EXCEPT
                              !.state = Derive(plan, q[Len(stored)].state,
                                               q[Len(stored)].receipts)]
                     ELSE q[Len(stored)]
  BY <1>2, ReplayIsFold
<1>6. q[Len(stored)].accepted
  <2>1. r[Len(stored)] = q[Len(stored)]
    BY <1>1, <1>5, SameFold
  <2> QED BY <1>4, <2>1
<1>7. PICK s, f : q[Len(stored)] = [accepted |-> TRUE, state |-> s, receipts |-> f]
  BY <1>5, <1>6
<1>8. PICK t : ReplayPlan(plan, stored) = [q[Len(stored)] EXCEPT !.state = t]
  BY <1>5, <1>6
<1> QED BY <1>7, <1>8 DEF StoredReplays

LEMMA PrefixReplaysNext ==
    (LogTypes /\ FoldInv /\ Begins(stored, events))' => StoredReplays'
BY PrefixReplays, PTL

-----------------------------------------------------------------------------
(* Every step of the coordinator, the host and the store.                   *)

ReplayInv == IInv /\ Known /\ Grounded /\ FoldInv /\ StoredReplays

LEMMA FoldKept ==
    ASSUME FoldInv, Grounded, UNCHANGED coordinatorVars
    PROVE  FoldInv' /\ Grounded'
<1>1. UNCHANGED <<plan, events, settled, receipts>>
  BY DEF coordinatorVars
<1>2. Grounded'
  BY <1>1 DEF Grounded, Waiting
<1>3. Consistent' = Consistent
  BY <1>1 DEF Consistent, Waiting
<1>4. PICK r : /\ IsFold(r, plan, events)
               /\ \E s \in Consistent : r[Len(events)] = Reached(s)
  BY DEF FoldInv
<1>5. PICK s \in Consistent : r[Len(events)] = Reached(s)
  BY <1>4
<1>6. r[Len(events')] = [accepted |-> TRUE, state |-> s, receipts |-> receipts']
  BY <1>1, <1>5 DEF Reached
<1>7. IsFold(r, plan', events')
  BY <1>1, <1>4
<1>8. \E x \in Consistent' : r[Len(events')] =
          [accepted |-> TRUE, state |-> x, receipts |-> receipts']
  BY <1>3, <1>6
<1> QED BY <1>2, <1>7, <1>8 DEF FoldInv, Reached

LEMMA StoredKept ==
    ASSUME StoredReplays, UNCHANGED <<plan, stored>>
    PROVE  StoredReplays'
BY DEF StoredReplays

\* A capture that has begun has stored how the history begins.
LEMMA CaptureBegins ==
    ASSUME LogTypes, Capture
    PROVE  Begins(stored, events)'
<1>1. Len(stored) \in Nat /\ Len(events) \in Nat
  BY LogLengths
<1>2. /\ Len(stored) < Len(events) /\ events' = events
      /\ \A n \in 1 .. Len(stored) : stored[n] = events[n]
      /\ stored' = Append(stored, events[Len(stored) + 1])
  BY DEF Capture, Captured, coordinatorVars
<1>3. /\ Len(stored') = Len(stored) + 1
      /\ stored'[Len(stored) + 1] = events[Len(stored) + 1]
      /\ \A n \in 1 .. Len(stored) : stored'[n] = stored[n]
  <2> DEFINE e == events[Len(stored) + 1]
  <2>1. PICK S : stored \in Seq(S)
    BY DEF LogTypes
  <2>2. stored \in Seq(S \cup {e})
    BY <2>1, SeqMonotonic
  <2> HIDE DEF e
  <2>3. /\ Len(Append(stored, e)) = Len(stored) + 1
        /\ Append(stored, e)[Len(stored) + 1] = e
        /\ \A n \in 1 .. Len(stored) : Append(stored, e)[n] = stored[n]
    BY <2>2, AppendProperties, LenProperties
  <2> QED BY <1>2, <2>3 DEF e
<1> QED BY <1>1, <1>2, <1>3 DEF Begins

LEMMA ReplayNextInv ==
    ASSUME ReplayInv, [Next]_vars
    PROVE  ReplayInv'
<1>1. IInv'
  BY NextIInv DEF ReplayInv
<1>2. /\ Known /\ Grounded /\ FoldInv /\ StoredReplays /\ LogTypes
      /\ PlanTypes' /\ LogTypes'
  BY <1>1 DEF ReplayInv, IInv, LogInv
<1>3. Known' /\ Grounded' /\ FoldInv' /\ StoredReplays'
  <2>1. CASE \/ CycleStep /\ UNCHANGED <<coordinatorVars, stored, restarts>>
             \/ UNCHANGED vars
    <3>1. UNCHANGED coordinatorVars /\ UNCHANGED <<plan, receipts, stored>>
      BY <2>1 DEF vars, coordinatorVars
    <3>2. Known'
      BY <1>2, <3>1 DEF Known
    <3> QED BY <1>2, <3>1, <3>2, FoldKept, StoredKept
  <2>2. CASE \E i \in plan.items : ScheduleNext(i)
    <3>1. PICK i \in plan.items : ScheduleNext(i)
      BY <2>2
    <3>2. UNCHANGED <<plan, stored>>
      BY <3>1 DEF ScheduleNext
    <3>3. Moves(i)
      BY <1>2, <3>1, ScheduleMoves
    <3>4. Known'
      BY <1>2, <3>2, <3>3 DEF Known, Moves
    <3> QED BY <1>2, <3>1, <3>2, <3>3, <3>4, MovesGround, ScheduleFolds, StoredKept
  <2>3. CASE \E i \in plan.items : Receive(i)
    <3>1. PICK i \in plan.items : Receive(i)
      BY <2>3
    <3>2. PICK receipt : RecordReceipt(i, receipt) /\ Moves(i)
      BY <1>2, <3>1, ReceiveMoves
    <3>3. UNCHANGED <<plan, stored>>
      BY <3>2 DEF RecordReceipt
    <3>4. Known'
      BY <1>2, <3>2, <3>3 DEF Known, Moves
    <3> QED BY <1>2, <3>1, <3>2, <3>3, <3>4, MovesGround, ReceiveFolds, StoredKept
  <2>4. CASE \E i \in plan.items, outcome \in Results : RecordNonPass(i, outcome)
    <3>1. PICK i \in plan.items, outcome \in Results : RecordNonPass(i, outcome)
      BY <2>4
    <3>2. UNCHANGED <<plan, stored>>
      BY <3>1 DEF RecordNonPass
    <3>3. Moves(i)
      BY <1>2, <3>1, NonPassMoves
    <3>4. Known'
      BY <1>2, <3>2, <3>3 DEF Known, Moves
    <3> QED BY <1>2, <3>1, <3>2, <3>3, <3>4, MovesGround, NonPassFolds, StoredKept
  <2>5. CASE Capture
    <3>1. UNCHANGED coordinatorVars /\ UNCHANGED <<plan, receipts>>
      BY <2>5 DEF Capture, coordinatorVars
    <3>2. Known'
      BY <1>2, <3>1 DEF Known
    <3>3. FoldInv' /\ Grounded'
      BY <1>2, <3>1, FoldKept
    <3>4. Begins(stored, events)'
      BY <1>2, <2>5, CaptureBegins
    <3> QED BY <1>2, <3>2, <3>3, <3>4, PrefixReplaysNext
  <2>6. CASE Restart
    <3>1. /\ plan' = plan /\ stored' = stored /\ events' = <<>>
          /\ settled' = [i \in Items |-> "none"] /\ receipts' = [i \in Items |-> {}]
      BY <2>6 DEF Restart
    <3>2. Known'
      BY <1>2, <3>1 DEF Known
    <3>3. plan' \in Plans
      BY <3>2 DEF Known
    <3> QED BY <1>2, <3>1, <3>2, <3>3, EmptyFoldsNext, StoredKept
  <2> QED BY <2>1, <2>2, <2>3, <2>4, <2>5, <2>6 DEF Next
<1> QED BY <1>1, <1>3 DEF ReplayInv

LEMMA ReplayInitInv == Init => ReplayInv
<1> SUFFICES ASSUME Init PROVE ReplayInv
  OBVIOUS
<1>1. IInv
  BY InitIInv
<1>2. /\ plan \in Plans /\ events = <<>> /\ stored = <<>>
      /\ settled = [i \in Items |-> "none"] /\ receipts = [i \in Items |-> {}]
  BY DEF Init
<1>3. FoldInv /\ Grounded
  BY <1>2, EmptyFolds
<1>4. Known /\ LogTypes
  BY <1>1, <1>2 DEF Known, IInv, LogInv
<1>5. Begins(stored, events)
  BY <1>2, EmptySeq DEF Begins
<1> QED BY <1>1, <1>3, <1>4, <1>5, PrefixReplays DEF ReplayInv

LEMMA ReplayAlways == Spec => []ReplayInv
<1>1. ReplayInv /\ [Next]_vars => ReplayInv'
  BY ReplayNextInv
<1> QED BY <1>1, ReplayInitInv, PTL DEF Spec

\* In every plan and after every run, replay_coordination accepts the events of
\* a coordinator and comes to the states and receipts it is in, whatever the
\* order the loop visits the items in.
THEOREM PlanAlwaysReplays == Spec => []PlanReplays
<1>1. ReplayInv => PlanReplays
  BY HistoryReplays DEF ReplayInv, IInv, LogInv
<1> QED BY <1>1, ReplayAlways, PTL

\* It accepts what the store holds, too, wherever a process died within a
\* capture and however many coordinators there were.
THEOREM StoreAlwaysReplays == Spec => []StoredReplays
<1>1. ReplayInv => StoredReplays
  BY DEF ReplayInv
<1> QED BY <1>1, ReplayAlways, PTL

-----------------------------------------------------------------------------
(* Work.                                                                    *)

LEMMA ContinueWorks ==
    ASSUME Known, Grounded
    PROVE  ContinueHasWork
<1> SUFFICES ASSUME PlanDisposition(States) = "continue",
                    \A i \in plan.items : States[i] \notin {"running", "ready"}
             PROVE  FALSE
  BY DEF ContinueHasWork
<1> DEFINE states == {States[i] : i \in DOMAIN States}
           group  == {i \in plan.items : Waiting(i)}
<1>1. /\ states # {"accepted"}
      /\ states \cap NonPass = {}
  <2> HIDE DEF states
  <2>1. PlanDisposition(States) =
            CASE states = {"accepted"}                             -> "complete"
              [] "failed" \in states                               -> "failed"
              [] "review_required" \in states
                 /\ "failed" \notin states                         -> "review_required"
              [] "abstained" \in states
                 /\ states \cap {"failed", "review_required"} = {} -> "abstained"
              [] /\ "blocked" \in states
                 /\ states \cap (NonPass \cup {"running", "ready", "pending"}) = {} -> "blocked"
              [] OTHER                                             -> "continue"
    BY DEF PlanDisposition, states
  <2>2. states # {"accepted"}
    BY <2>1
  <2>3. "failed" \notin states
    BY <2>1, <2>2 DEF NonPass
  <2>4. "review_required" \notin states
    BY <2>1, <2>2, <2>3 DEF NonPass
  <2>5. "abstained" \notin states
    BY <2>1, <2>2, <2>3, <2>4 DEF NonPass
  <2> QED BY <2>2, <2>3, <2>4, <2>5 DEF NonPass
<1>2. \A i \in plan.items : States[i] \in states
  BY DEF States
<1>3. ASSUME NEW i \in plan.items PROVE Waiting(i) \/ settled[i] = "accepted"
  <2>1. CASE ~Waiting(i)
    <3>1. /\ States[i] = settled[i]
          /\ settled[i] \in {"running", "accepted"} \cup NonPass
      BY <2>1, StatesAre, SettledTypes DEF StateIs, Waiting
    <3> HIDE DEF states
    <3> QED BY <1>1, <1>2, <3>1
  <2> QED BY <2>1
<1>4. Obstructed = {}
  <2>1. Bad = {} /\ Behind({}) = {}
    BY <1>3 DEF Bad, Behind, Waiting, NonPass
  <2> QED BY <2>1, ObstructedIsLeast
<1>5. group # {}
  <2>1. ASSUME group = {} PROVE FALSE
    <3>1. \A i \in plan.items : States[i] = "accepted"
      BY <1>3, <2>1, StatesAre DEF StateIs
    <3>2. DOMAIN States = plan.items /\ plan.items # {}
      BY PlanShape DEF States
    <3>3. states = {"accepted"}
      BY <3>1, <3>2
    <3> QED BY <1>1, <3>3
  <2> QED BY <2>1
<1>6. PICK i \in group : plan.deps[i] \cap group = {}
  BY <1>5, PlanShape DEF AcyclicPlan
<1>7. Allowed(i)
  BY <1>3, <1>6, PlanShape DEF Allowed
<1>8. i \in plan.items /\ States[i] = "ready"
  BY <1>6, <1>7, StatesAre DEF StateIs
<1> QED BY <1>8

\* A coordinator that says continue has an item running or ready: none waits
\* for one that can no longer be accepted, and none lacks evidence.
THEOREM ContinueAlwaysHasWork == Spec => []ContinueHasWork
<1>1. ReplayInv => ContinueHasWork
  BY ContinueWorks DEF ReplayInv
<1> QED BY <1>1, ReplayAlways, PTL

-----------------------------------------------------------------------------
(* Progress.                                                                *)

LEMMA StatesAreNext == (Known /\ Grounded)' => (\A i \in plan.items : StateIs(i))'
BY StatesAre, PTL

LEMMA ObstructedClosedNext ==
    Known' => (/\ Bad \subseteq Obstructed
               /\ Behind(Obstructed) \subseteq Obstructed)'
<1>1. Known => /\ Bad \subseteq Obstructed
               /\ Behind(Obstructed) \subseteq Obstructed
  BY ObstructedClosed
<1> QED BY <1>1, PTL

\* What is obstructed stays obstructed.
LEMMA ObstructedStays ==
    ASSUME Known, Known', NEW i \in plan.items, Moves(i)
    PROVE  Obstructed \subseteq Obstructed'
<1> DEFINE C == Obstructed'
<1>1. Bad' \subseteq C /\ Behind(Obstructed)' \subseteq C
  BY ObstructedClosedNext
<1>2. plan' = plan /\ settled[i] \notin NonPass
      /\ \A j \in plan.items : j # i => settled'[j] = settled[j]
  BY DEF Moves, Waiting, NonPass
<1>3. Bad \subseteq C
  BY <1>1, <1>2 DEF Bad
<1>4. Behind(C) \subseteq C
  BY <1>1, <1>2 DEF Behind
<1> HIDE DEF C
<1>5. Obstructed \subseteq C
  BY <1>3, <1>4, ObstructedIsLeast
<1> QED BY <1>5 DEF C

LEMMA MoveAdvances ==
    ASSUME Known, Grounded, Known', Grounded', NEW i \in plan.items, Moves(i)
    PROVE  Advance(States, States')
<1>1. plan' = plan
  BY DEF Moves
<1>2. SUFFICES ASSUME NEW j \in plan.items PROVE States'[j] \in Successors(States[j])
  BY DEF Advance
<1>3. /\ settled[j] # "none" => States[j] = settled[j]
      /\ Waiting(j) /\ j \in Obstructed => States[j] = "blocked"
      /\ Waiting(j) /\ Allowed(j) => States[j] = "ready"
      /\ Waiting(j) /\ j \notin Obstructed /\ ~Allowed(j) => States[j] = "pending"
  BY StatesAre DEF StateIs, Waiting
<1>4. /\ settled'[j] # "none" => States'[j] = settled'[j]
      /\ settled'[j] = "none" /\ j \in Obstructed' => States'[j] = "blocked"
      /\ settled'[j] = "none" /\ Allowed(j)' => States'[j] = "ready"
      /\ settled'[j] = "none" => States'[j] \in {"pending", "ready", "blocked"}
  BY <1>1, StatesAreNext DEF StateIs, Waiting
<1>5. settled[j] \in {"none", "running", "accepted"} \cup NonPass
  BY SettledTypes
<1>6. CASE Waiting(j) /\ settled'[j] = "none"
  <2>1. CASE j \in Obstructed
    BY <1>3, <1>4, <1>6, <2>1, ObstructedStays DEF Successors
  <2>2. CASE Allowed(j)
    <3>1. \A d \in plan.deps[j] : d \in plan.items /\ settled[d] = "accepted"
      BY <2>2, PlanShape DEF Allowed
    <3>2. \A d \in plan.deps[j] : settled'[d] = "accepted"
      BY <3>1 DEF Moves, Waiting
    <3>3. Allowed(j)'
      BY <1>1, <3>2 DEF Allowed
    <3> QED BY <1>3, <1>4, <1>6, <2>2, <3>3 DEF Successors
  <2>3. CASE j \notin Obstructed /\ ~Allowed(j)
    BY <1>3, <1>4, <1>6, <2>3 DEF Successors
  <2> QED BY <2>1, <2>2, <2>3
<1>7. CASE Waiting(j) /\ settled'[j] # "none"
  <2>1. Allowed(j) /\ settled'[j] = "running"
    BY <1>7 DEF Moves, Waiting
  <2> QED BY <1>3, <1>4, <1>7, <2>1 DEF Successors
<1>8. CASE settled[j] = "running"
  <2>1. settled'[j] \in {"running", "accepted"} \cup NonPass
    BY <1>8 DEF Moves, Waiting
  <2>2. States[j] = "running" /\ States'[j] = settled'[j]
    BY <1>3, <1>4, <1>8, <2>1 DEF NonPass
  <2> QED BY <2>1, <2>2 DEF Successors
<1>9. CASE settled[j] \in {"accepted"} \cup NonPass
  <2>1. settled'[j] = settled[j]
    BY <1>9 DEF Moves, Waiting, NonPass
  <2>2. States[j] = settled[j] /\ States'[j] = settled[j]
    BY <1>3, <1>4, <1>9, <2>1 DEF NonPass
  <2> QED BY <1>9, <2>2 DEF Successors, NonPass
<1> QED BY <1>5, <1>6, <1>7, <1>8, <1>9 DEF Waiting

\* While a coordinator lives no step of it takes an item back: not from ready,
\* not from blocked, not from its result.
THEOREM ItemsOnlyAdvance == Spec => ItemsAdvance
<1>1. ASSUME ReplayInv, ReplayInv', Next, restarts' = restarts,
             coordinatorVars' # coordinatorVars
      PROVE  Advance(States, States')
  <2>1. Known /\ Grounded /\ Known' /\ Grounded'
    BY <1>1 DEF ReplayInv
  <2>2. ~(CycleStep /\ UNCHANGED <<coordinatorVars, stored, restarts>>) /\ ~Capture
    BY <1>1 DEF Capture
  <2>3. ~Restart
    BY <1>1, ResultsAssumption DEF Restart, ReplayInv, IInv, PlanTypes
  <2>4. PICK i \in plan.items : \/ ScheduleNext(i) \/ Receive(i)
                                \/ \E outcome \in Results : RecordNonPass(i, outcome)
    BY <1>1, <2>2, <2>3 DEF Next
  <2>5. Moves(i)
    BY <2>1, <2>4, ScheduleMoves, ReceiveMoves, NonPassMoves
  <2> QED BY <2>1, <2>5, MoveAdvances
<1>2. ReplayInv /\ ReplayInv' /\ [Next]_vars =>
          [restarts' = restarts => Advance(States, States')]_coordinatorVars
  BY <1>1 DEF vars
<1> QED BY <1>2, ReplayAlways, PTL DEF Spec, ItemsAdvance
=============================================================================
