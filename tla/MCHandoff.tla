------------------------------ MODULE MCHandoff ------------------------------
(* A small instance of Handoff for TLC. *)
EXTENDS Handoff

CONSTANTS a, b, r1, r2, inherit, chosen, o1, o2

OneSource   == {a}
TwoSources  == {a, b}
TwoRequests == {r1, r2}
TwoTargets  == {inherit, chosen}
OneTarget   == {inherit}
TwoOps      == {o1, o2}
=============================================================================
