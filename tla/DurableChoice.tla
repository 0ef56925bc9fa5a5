--------------------------- MODULE DurableChoice ---------------------------
(***************************************************************************)
(* What the host promises its management PC about one deployment: there is *)
(* one current version, an operation is either still open or has one final *)
(* verdict, and the version changes only at the instant an operation gets  *)
(* the verdict "committed".  Crashes, reboots, expired leases and restored *)
(* services are invisible at this level.                                   *)
(***************************************************************************)
CONSTANTS Ops,       \* operation identifiers; operation o produces version o
          Initial    \* the version the host holds before the first operation

VARIABLES value,     \* the version the host stands for
          verdict    \* verdict[o]: "open", "committed" or "unchanged"

choiceVars == <<value, verdict>>

Open(o) == verdict[o] = "open"

Init == /\ value = Initial
        /\ verdict = [o \in Ops |-> "open"]

\* Operation o takes effect, once.
Commit(o) == /\ Open(o)
             /\ value' = o
             /\ verdict' = [verdict EXCEPT ![o] = "committed"]

\* Operation o is answered without a change.
Decline(o) == /\ Open(o)
              /\ verdict' = [verdict EXCEPT ![o] = "unchanged"]
              /\ UNCHANGED value

Next == \E o \in Ops : Commit(o) \/ Decline(o)

Spec == Init /\ [][Next]_choiceVars
=============================================================================
