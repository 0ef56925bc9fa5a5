---- MODULE MCInlineImages ----
(* Instances of InlineImages for TLC. *)
EXTENDS InlineImages, TLC

CONSTANTS v1, v2
BothInline == {1, 2}
OneInline == {1}
OneViewer == {v1}
TwoViewers == {v1, v2}
Alike == Permutations(TwoViewers)
====
