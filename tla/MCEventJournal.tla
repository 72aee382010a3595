---------------------------- MODULE MCEventJournal ----------------------------
(***************************************************************************)
(* EventJournal on small instances.  The writers are interchangeable, and  *)
(* so are the payloads.                                                    *)
(***************************************************************************)
EXTENDS EventJournal, TLC

Symmetry == Permutations(Writers) \cup Permutations(Events)
=============================================================================
