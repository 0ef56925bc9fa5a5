-------------------------- MODULE MCWorkstationJobs --------------------------
(* Two submissions that do not fit together. *)
EXTENDS WorkstationJobs, TLC

CONSTANTS r1, r2

MCRuns == {r1, r2}
MCMem == (r1 :> 2) @@ (r2 :> 2)
Alike == Permutations(MCRuns)

=============================================================================
