------------------------- MODULE CoordinationReplay -------------------------
(***************************************************************************)
(* The pure half of APP8D (app8_coordination.py): plans over several       *)
(* projects as CrossProjectPlan accepts them, the binding of a receipt to  *)
(* its work item, and replay_coordination, which folds the events of a     *)
(* plan into the states of its items.                                      *)
(*                                                                         *)
(* Abstractions.  Items are numbered in the order of their ids, and since  *)
(* a plan has one item per project, an item stands for its repository too. *)
(* The words and the fingerprints of items and receipts are left out, and  *)
(* so is the reference a result without receipt carries.                   *)
(***************************************************************************)
EXTENDS DisagreementGate, Sequences

CONSTANT Keys             \* evidence keys

\* rank: the order of the projects' keys; writable: the items of the class
\* REVERSIBLE_FEATURE_BRANCH, the others are READ_ONLY.
Plan == [items : SUBSET Items, deps : [Items -> SUBSET Items], requires : [Items -> SUBSET Keys],
         produces : [Items -> SUBSET Keys], writable : SUBSET Items, rank : [Items -> Nat]]

AcyclicPlan(p) == \A group \in SUBSET p.items \ {{}} :
                      \E i \in group : p.deps[i] \cap group = {}

Declared(p, i) == UNION {p.produces[d] : d \in p.deps[i]}

\* The checks of ProjectWorkItem and CrossProjectPlan.
ValidPlan(p) ==
    /\ Cardinality(p.items) >= 2 /\ p.writable \subseteq p.items
    /\ \A i \in p.items : /\ p.deps[i] \subseteq p.items /\ p.produces[i] # {}
                          /\ p.requires[i] \subseteq Declared(p, i)
    /\ \A i, j \in p.items : p.rank[i] = p.rank[j] => i = j
    /\ AcyclicPlan(p)

\* artifact and verification: what their digests identify; nothing that is
\* known here if the host brings them along for a read-only item.
Receipt == [item : Items, base : Commits, head : Commits, evidence : SUBSET Keys,
            source : {"app8c_verified_cycle", "host_verified_read_only"},
            artifact : SUBSET Implementation, verification : SUBSET Report]

NonPass == {"review_required", "abstained", "failed"}

\* receipt: the one an accepted event requires, of the others none.
CoordinationEvent == [sequence : Nat, type : {"scheduled", "accepted"} \cup NonPass,
                      item : Items, receipt : SUBSET Receipt]

\* _validate_receipt_binding.
Binds(p, r) == /\ r.base = BaseSha
               /\ p.produces[r.item] \subseteq r.evidence
               /\ r.item \in p.writable <=> r.source = "app8c_verified_cycle"
               /\ r.item \notin p.writable => r.head = BaseSha

-----------------------------------------------------------------------------
(* _derive_coordination_states.                                             *)

Blocking == NonPass \cup {"blocked"}

\* The state the loop gives item i, once those of its dependencies are known.
DesiredState(p, state, receipts, i) ==
    LET deps == p.deps[i]
    IN CASE state[i] \in {"running", "accepted"} \cup NonPass -> state[i]
         [] /\ state[i] \in {"pending", "ready", "blocked"}
            /\ \E d \in deps : state[d] \in Blocking          -> "blocked"
         [] /\ state[i] \in {"pending", "ready", "blocked"}
            /\ \A d \in deps : state[d] = "accepted"          ->
                IF p.requires[i] \subseteq UNION {r.evidence : r \in UNION {receipts[d] : d \in deps}}
                THEN "ready" ELSE "blocked"
         [] OTHER                                             -> "pending"

\* One pass of the loop over the items, each seeing those before it updated.
SweepItems(p, state, receipts) ==
    LET after[i \in 0 .. ItemCount] ==
            IF i = 0 THEN state
            ELSE LET prev == after[i - 1]
                 IN IF i \notin p.items THEN prev ELSE [prev EXCEPT ![i] = DesiredState(p, prev, receipts, i)]
    IN after[ItemCount]

\* Mutant of Derive: the loop ends after its first pass.
DeriveOnce(p, state, receipts) == SweepItems(p, state, receipts)

\* The loop until nothing changes: a pass settles at least one more item of
\* every chain of dependencies, so one pass per item is enough.
Derive(p, state, receipts) ==
    LET pass[k \in 0 .. ItemCount] ==
            IF k = 0 THEN state ELSE SweepItems(p, pass[k - 1], receipts)
    IN pass[ItemCount]

-----------------------------------------------------------------------------
(* replay_coordination.                                                     *)

NoReplay == [accepted |-> FALSE]

\* What the fold does with the next event, if it may follow.
Follows(p, r, event) ==
    LET state == Derive(p, r.state, r.receipts)
        i     == event.item
    IN CASE event.type = "scheduled" /\ state[i] = "ready" ->
                [r EXCEPT !.state = [state EXCEPT ![i] = "running"]]
         [] /\ event.type = "accepted" /\ state[i] = "running"
            /\ \A receipt \in event.receipt : Binds(p, receipt) ->
                [r EXCEPT !.state = [state EXCEPT ![i] = "accepted"],
                          !.receipts[i] = event.receipt]
         [] event.type \in NonPass /\ state[i] = "running" ->
                [r EXCEPT !.state = [state EXCEPT ![i] = event.type]]
         [] OTHER -> NoReplay

\* States and receipts after the events, unless one cannot follow.
ReplayPlan(p, log) ==
    LET fold[n \in 0 .. Len(log)] ==
            IF n = 0 THEN [accepted |-> TRUE,
                           state    |-> [i \in p.items |-> "pending"],
                           receipts |-> [i \in Items |-> {}]]
            ELSE LET prev == fold[n - 1]
                 IN IF prev.accepted /\ log[n].sequence = n
                    THEN Follows(p, prev, log[n]) ELSE NoReplay
        last == fold[Len(log)]
    IN IF last.accepted
       THEN [last EXCEPT !.state = Derive(p, last.state, last.receipts)] ELSE last

\* Mutant of PlanDisposition: an item given up is not looked for.
PlanDispositionNoAbstention(state) ==
    LET states == {state[i] : i \in DOMAIN state}
    IN CASE states = {"accepted"}                            -> "complete"
         [] "failed" \in states                              -> "failed"
         [] "review_required" \in states /\ "failed" \notin states -> "review_required"
         [] OTHER                                            -> "continue"

\* _coordination_disposition; the first line that applies.
PlanDisposition(state) ==
    LET states == {state[i] : i \in DOMAIN state}
    IN CASE states = {"accepted"}                             -> "complete"
         [] "failed" \in states                               -> "failed"
         [] "review_required" \in states
            /\ "failed" \notin states                         -> "review_required"
         [] "abstained" \in states
            /\ states \cap {"failed", "review_required"} = {} -> "abstained"
         [] /\ "blocked" \in states
            /\ states \cap (NonPass \cup {"running", "ready", "pending"}) = {} -> "blocked"
         [] OTHER                                             -> "continue"
=============================================================================
