--------------------------- MODULE MCLocalControl ---------------------------
(* Small instances of LocalControl for TLC. *)
EXTENDS LocalControl, TLC

CONSTANTS dev, tra, home, away

TwoOps  == {dev, tra}
OneOp   == {dev}
TraOps  == {tra}
NoOps   == {}
TwoPCs  == {home, away}

Symmetry == Permutations(TwoPCs)
=============================================================================
