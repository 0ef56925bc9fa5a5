---------------------------- MODULE MCManageJobs ----------------------------
(* Small instances of ManageJobs for TLC. *)
EXTENDS ManageJobs, TLC

CONSTANTS first, second, add, reset, j1, j2

TwoManagers == {first, second}
TwoRequests == {add, reset}
OneRequest  == {add}
TwoJobs     == {j1, j2}

Symmetry == Permutations(TwoManagers) \cup Permutations(TwoRequests) \cup Permutations(TwoJobs)
=============================================================================
