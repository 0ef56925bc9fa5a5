------------------------- MODULE MCHostTransaction -------------------------
(* Instances of HostTransaction for TLC. *)
EXTENDS HostTransaction

CONSTANTS dev, tra      \* a device operation and a transport upgrade

OneOp   == {dev}
BothOps == {dev, tra}
TraOps  == {tra}
NoOps   == {}
=============================================================================
