--------------------------- MODULE MCTaskLifecycle ---------------------------
(***************************************************************************)
(* TaskLifecycle on small instances; request threads are interchangeable.  *)
(***************************************************************************)
EXTENDS TaskLifecycle, TLC

Symmetry == Permutations(Threads)
=============================================================================
