------------------------ MODULE MCBaselineLifecycle ------------------------
EXTENDS BaselineLifecycle, TLC

CONSTANTS a, b, c, case

MCRuns == {[k \in {case} |-> o] : o \in {"failure", "success"}}
MCWindows == {<<{"degraded"}, {"degraded"}>>, <<{}, {"degraded"}>>}
MCObservations == {{"success"}, {"success", "unavailable"}}
Symmetric == Permutations({b, c})
=============================================================================
