--------------------------- MODULE MCGraphCapture ---------------------------
(***************************************************************************)
(* GraphCapture over every dependency graph of a few nodes.  At most one   *)
(* node is human-gated, the limit is met exactly or never; among results,  *)
(* a PASS comes with and without its evidence, the others without.         *)
(***************************************************************************)
EXTENDS GraphCapture

SmallGraphs ==
    {g \in [deps  : [Nodes -> SUBSET Nodes],
            gated : {{}} \cup {{n} : n \in Nodes},
            cost  : {[n \in Nodes |-> 1]},
            limit : {2, NodeCount}] : Validated(g)}

SomeResults == {[outcome |-> o, evidence |-> FALSE] : o \in Terminal}
                   \cup {[outcome |-> "pass", evidence |-> TRUE]}
=============================================================================
