----------------------------- MODULE MCNodeSetup -----------------------------
(* A small instance of NodeSetup for TLC. *)
EXTENDS NodeSetup, TLC

CONSTANTS laptop, desktop

TwoDirs == {laptop, desktop}
Alike   == Permutations(TwoDirs)
=============================================================================
