--------------------------- MODULE MCCrossProject ---------------------------
(***************************************************************************)
(* CrossProject on small instances.                                        *)
(***************************************************************************)
EXTENDS CrossProject

\* Two models of one provider and one of another.
TwoProviders == [m \in Models |-> IF m = 1 THEN 1 ELSE 2]
SamePreference == [m \in Models |-> 1]

\* A validator of the producer's model, and two critics: one shares its model
\* too, the other is the one the selector chooses.
SmallStaff == {[role |-> "validation", model |-> 1, instruction |-> "own"],
               [role |-> "critic", model |-> 1, instruction |-> "own"],
               [role |-> "critic", model |-> 2, instruction |-> "own"]}

ASSUME StaffAssumption == SelectedCritics(1) = {2}

\* The projects come in the reverse order of the items' ids.
PlanOf(items, deps, writable) ==
    [items |-> items, deps |-> deps,
     requires |-> [i \in Items |-> IF deps[i] = {} THEN {} ELSE Keys],
     produces |-> [i \in Items |-> Keys], writable |-> writable,
     rank |-> [i \in Items |-> ItemCount - i]]

\* Every plan of read-only items, and one whose first item is writable.
ReadOnlyPlans ==
    {p \in {PlanOf(Items, deps, {}) : deps \in [Items -> SUBSET Items]} : ValidPlan(p)}

WritablePlans == {PlanOf({1, 2}, [i \in Items |-> IF i = 2 THEN {1} ELSE {}], {1})}

SmallPlans == ReadOnlyPlans \cup WritablePlans
=============================================================================
