---------------------------- MODULE MCManagerPage ----------------------------
(* A small instance of ManagerPage for TLC. *)
EXTENDS ManagerPage, TLC

CONSTANTS home, spare, left, right, near, far, n1, n2

TwoStates    == {home, spare}
TwoTerminals == {left, right}
TwoVps       == {near, far}
TwoNonces    == {n1, n2}
Alike == Permutations(TwoStates) \cup Permutations(TwoTerminals) \cup Permutations(TwoVps) \cup Permutations(TwoNonces)
=============================================================================
