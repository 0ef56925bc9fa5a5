--------------------------- MODULE MCCdnAcceptance ---------------------------
(* CdnAcceptance for TLC: its constants are given in the configuration.     *)
EXTENDS CdnAcceptance
=============================================================================
