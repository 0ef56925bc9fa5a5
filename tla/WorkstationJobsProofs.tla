------------------------ MODULE WorkstationJobsProofs ------------------------
(***************************************************************************)
(* Proofs about WorkstationJobs: IInv is an inductive invariant of the     *)
(* specification for any number of submissions, of any size, and implies   *)
(* the invariants TLC checks.  The ledger needs facts about the sum of a   *)
(* finite set of runs, which come first.                                   *)
(***************************************************************************)
EXTENDS WorkstationJobs, FiniteSetTheorems, WellFoundedInduction, TLAPS

-----------------------------------------------------------------------------
(* The sum of a finite set of runs: MapThenSumSet is a recursive function  *)
(* that takes the elements in the order CHOOSE gives.  What it returns     *)
(* does not depend on that order.  Each fact is proved by a smallest       *)
(* counterexample, which a finite set has among its subsets.               *)

First(s) == CHOOSE x \in s : TRUE
Sums(f, D) == f = [s \in SUBSET D |-> IF s = {} THEN 0 ELSE Mem[First(s)] + f[s \ {First(s)}]]
SumOver(D) == CHOOSE f : Sums(f, D)

(* The definition of Need, with the recursive function named. *)
LEMMA Expand == \A S : Need(S) = SumOver(S)[S]
  BY Zenon DEF Need, MapThenSumSet, MapThenFoldSet, SumOver, Sums, First

(* A nonempty family of subsets of a finite set has a minimal one. *)
LEMMA Minimal ==
  ASSUME NEW S, IsFiniteSet(S), NEW T, T # {}, \A y \in T : y \subseteq S
  PROVE  \E x \in T : \A y \in T : y \subseteq x => y = x
<1>1. IsWellFoundedOn(StrictSubsetOrdering(S), SUBSET S)
  BY FS_StrictSubsetOrderingWellFounded, FS_FiniteSubsetsOfFinite
<1>2. T \subseteq SUBSET S
  OBVIOUS
<1>3. \E x \in T : \A y \in T : <<y, x>> \notin StrictSubsetOrdering(S)
  BY <1>1, <1>2, WFMin
<1> QED
  BY <1>2, <1>3 DEF StrictSubsetOrdering

(* CHOOSE takes an element of a set that has one.                          *)
LEMMA Chosen == \A s : s # {} => First(s) \in s
  BY DEF First

(* Two such functions agree where both are defined. *)
LEMMA Unique ==
  ASSUME NEW S, IsFiniteSet(S), NEW D \in SUBSET S, NEW E \in SUBSET S,
         NEW f, NEW g, Sums(f, D), Sums(g, E)
  PROVE  \A s \in SUBSET (D \cap E) : f[s] = g[s]
<1> DEFINE T == {s \in SUBSET (D \cap E) : f[s] # g[s]}
<1>1. SUFFICES ASSUME T # {} PROVE FALSE
  OBVIOUS
<1>2. \A y \in T : y \subseteq S
  OBVIOUS
<1>3. PICK s \in T : \A y \in T : y \subseteq s => y = s
  <2> HIDE DEF T
  <2> QED BY <1>1, <1>2, Minimal
<1>4. s # {}
  BY <1>3 DEF Sums
<1>5. f[s \ {First(s)}] = g[s \ {First(s)}]
  BY <1>3, <1>4, Chosen
<1>6. f[s] = Mem[First(s)] + f[s \ {First(s)}] /\ g[s] = Mem[First(s)] + g[s \ {First(s)}]
  BY <1>3, <1>4 DEF Sums
<1> QED
  BY <1>3, <1>5, <1>6

(* There is one for every subset of a finite set. *)
LEMMA Exists ==
  ASSUME NEW S, IsFiniteSet(S)
  PROVE  \A D \in SUBSET S : Sums(SumOver(D), D)
<1> DEFINE T == {D \in SUBSET S : ~ \E f : Sums(f, D)}
<1>1. SUFFICES ASSUME T # {} PROVE FALSE
  BY DEF SumOver
<1>2. \A y \in T : y \subseteq S
  OBVIOUS
<1>3. PICK D \in T : \A y \in T : y \subseteq D => y = D
  <2> HIDE DEF T
  <2> QED BY <1>1, <1>2, Minimal
<1>4. \A E \in SUBSET D : E # D => Sums(SumOver(E), E)
  BY <1>3 DEF SumOver
<1> DEFINE f == [s \in SUBSET D |->
                   IF s = D THEN IF s = {} THEN 0
                                 ELSE Mem[First(s)] + SumOver(s \ {First(s)})[s \ {First(s)}]
                   ELSE SumOver(s)[s]]
<1>5. ASSUME NEW s \in SUBSET D
      PROVE  f[s] = IF s = {} THEN 0 ELSE Mem[First(s)] + f[s \ {First(s)}]
  <2>1. CASE s = {}
    BY <2>1, <1>4 DEF Sums
  <2>2. CASE s # {}
    <3>1. f[s \ {First(s)}] = SumOver(s \ {First(s)})[s \ {First(s)}]
      BY <2>2, Chosen
    <3>2. CASE s = D
      BY <3>1, <3>2, <2>2
    <3>3. CASE s # D
      <4>1. Sums(SumOver(s), s) /\ Sums(SumOver(s \ {First(s)}), s \ {First(s)})
        BY <1>4, <3>3, <2>2, Chosen
      <4>2. SumOver(s)[s] = Mem[First(s)] + SumOver(s)[s \ {First(s)}]
        BY <4>1, <2>2 DEF Sums
      <4>3. SumOver(s)[s \ {First(s)}] = SumOver(s \ {First(s)})[s \ {First(s)}]
        <5> DEFINE d == s \ {First(s)}
        <5>1. s \in SUBSET S /\ d \in SUBSET S /\ d \in SUBSET (s \cap d)
          OBVIOUS
        <5> HIDE DEF d
        <5>2. SumOver(s)[d] = SumOver(d)[d]
          BY <5>1, Unique, <4>1 DEF d
        <5> QED
          BY <5>2 DEF d
      <4> QED
        BY <4>2, <4>3, <3>1, <3>3, <2>2
    <3> QED
      BY <3>2, <3>3
  <2> QED
    BY <2>1, <2>2
<1> HIDE DEF f
<1>6. Sums(f, D)
  BY <1>5 DEF Sums, f
<1> QED
  BY <1>3, <1>6

(* What the sum takes first. *)
LEMMA NeedStep ==
  ASSUME NEW S, IsFiniteSet(S)
  PROVE  Need(S) = IF S = {} THEN 0 ELSE Mem[First(S)] + Need(S \ {First(S)})
<1>1. Sums(SumOver(S), S) /\ Sums(SumOver(S \ {First(S)}), S \ {First(S)})
  BY Exists
<1>2. SumOver(S)[S] = IF S = {} THEN 0 ELSE Mem[First(S)] + SumOver(S)[S \ {First(S)}]
  BY <1>1 DEF Sums
<1>3. SumOver(S)[S \ {First(S)}] = SumOver(S \ {First(S)})[S \ {First(S)}]
  BY <1>1, Unique
<1> QED
  BY <1>2, <1>3, Expand

(* A finite set of runs needs a natural number.                            *)
LEMMA NeedNat ==
  ASSUME NEW S \in SUBSET Runs, IsFiniteSet(S)
  PROVE  \A D \in SUBSET S : Need(D) \in Nat
<1> DEFINE T == {D \in SUBSET S : Need(D) \notin Nat}
<1>1. SUFFICES ASSUME T # {} PROVE FALSE
  OBVIOUS
<1>2. \A y \in T : y \subseteq S
  OBVIOUS
<1>3. PICK D \in T : \A y \in T : y \subseteq D => y = D
  <2> HIDE DEF T
  <2> QED BY <1>1, <1>2, Minimal
<1>4. Need(D) = IF D = {} THEN 0 ELSE Mem[First(D)] + Need(D \ {First(D)})
  BY NeedStep, FS_Subset
<1>5. D # {} => Need(D \ {First(D)}) \in Nat
  BY <1>3, Chosen
<1> QED
  BY <1>3, <1>4, <1>5, Chosen, MemAssumption

(* The sum does not depend on which element is taken first. *)
LEMMA NeedRemove ==
  ASSUME NEW S \in SUBSET Runs, IsFiniteSet(S)
  PROVE  \A D \in SUBSET S : \A x \in D : Need(D) = Mem[x] + Need(D \ {x})
<1> DEFINE T == {D \in SUBSET S : \E x \in D : Need(D) # Mem[x] + Need(D \ {x})}
<1>1. SUFFICES ASSUME T # {} PROVE FALSE
  OBVIOUS
<1>2. \A y \in T : y \subseteq S
  OBVIOUS
<1>3. PICK D \in T : \A y \in T : y \subseteq D => y = D
  <2> HIDE DEF T
  <2> QED BY <1>1, <1>2, Minimal
<1>4. PICK x \in D : Need(D) # Mem[x] + Need(D \ {x})
  BY <1>3
<1> DEFINE c == First(D)
<1>5. c \in D
  BY <1>4, Chosen
<1> HIDE DEF c
<1>6. Need(D) = Mem[c] + Need(D \ {c})
  BY NeedStep, FS_Subset, <1>4 DEF c
<1>7. x # c
  BY <1>4, <1>6
<1>8. Need(D \ {c}) = Mem[x] + Need((D \ {c}) \ {x}) /\ Need(D \ {x}) = Mem[c] + Need((D \ {x}) \ {c})
  <2>1. D \ {c} \notin T /\ D \ {x} \notin T
    BY <1>3, <1>4, <1>5
  <2> QED
    BY <2>1, <1>4, <1>5, <1>7
<1>9. (D \ {c}) \ {x} = (D \ {x}) \ {c}
  OBVIOUS
<1>10. Mem[x] \in Nat /\ Mem[c] \in Nat /\ Need((D \ {x}) \ {c}) \in Nat
  BY <1>4, <1>5, NeedNat, MemAssumption
<1> QED
  BY <1>4, <1>6, <1>8, <1>9, <1>10

(* More runs need no less. *)
LEMMA NeedMonotone ==
  ASSUME NEW S \in SUBSET Runs, IsFiniteSet(S), NEW A \in SUBSET S
  PROVE  Need(A) <= Need(S)
<1> DEFINE T == {D \in SUBSET S : A \subseteq D /\ ~ Need(A) <= Need(D)}
<1>1. SUFFICES ASSUME T # {} PROVE FALSE
  OBVIOUS
<1>2. \A y \in T : y \subseteq S
  OBVIOUS
<1>3. PICK D \in T : \A y \in T : y \subseteq D => y = D
  <2> HIDE DEF T
  <2> QED BY <1>1, <1>2, Minimal
<1>4. D # A
  BY NeedNat
<1>5. PICK x \in D : x \notin A
  BY <1>3, <1>4
<1>6. Need(D) = Mem[x] + Need(D \ {x})
  BY <1>3, <1>5, NeedRemove
<1>7. Need(A) <= Need(D \ {x})
  BY <1>3, <1>5
<1>8. Need(A) \in Nat /\ Need(D \ {x}) \in Nat /\ Mem[x] \in Nat
  BY <1>3, <1>5, NeedNat, MemAssumption
<1>9. Need(A) <= Need(D)
  BY <1>6, <1>7, <1>8
<1> QED
  BY <1>3, <1>9

(* Fewer reservations, and admissions under way, still fit. *)
LEMMA SmallerLedger == IInv /\ Counted' \subseteq Counted => Ledger'
<1> SUFFICES ASSUME IInv, Counted' \subseteq Counted PROVE Ledger'
  OBVIOUS
<1>1. Counted \in SUBSET Runs /\ IsFiniteSet(Counted) /\ Need(Counted) <= Capacity
  BY DEF IInv, Ledger, Counted
<1>2. IsFiniteSet(Counted')
  BY <1>1, FS_Subset
<1>3. Need(Counted') <= Need(Counted)
  BY <1>1, NeedMonotone
<1>4. Need(Counted') \in Nat /\ Need(Counted) \in Nat
  BY <1>1, NeedNat
<1>5. Need(Counted') <= Capacity
  BY <1>1, <1>3, <1>4, MemAssumption
<1>6. Need(Counted)' = Need(Counted')
  BY Zenon DEF Need, MapThenSumSet, MapThenFoldSet
<1> QED
  BY <1>2, <1>5, <1>6 DEF Ledger
-----------------------------------------------------------------------------
(* The invariant *)

(* Before the first submission nothing is reserved.                        *)
LEMMA InitHolds == Init => IInv
<1> SUFFICES ASSUME Init PROVE IInv
  OBVIOUS
<1>1. Types /\ Locked /\ Begun /\ Submitting /\ Ended /\ Covered
  BY DEF Init, Types, Locked, Begun, Submitting, Ended, Dead, Covered, MayRun
<1>2. Counted = {}
  BY DEF Init, Counted
<1>3. IsFiniteSet({}) /\ Need({}) = 0
  BY FS_EmptySet, NeedStep
<1>4. Ledger
  BY <1>2, <1>3, MemAssumption DEF Ledger
<1> QED
  BY <1>1, <1>4 DEF IInv

(* While a run is being cancelled nobody else is at work (cancel holds     *)
(* admission.lock from its look at the unit to the release).               *)
LEMMA CancellerAlone ==
  ASSUME IInv, NEW r \in Runs, canceller[r] # "idle"
  PROVE  /\ lock = {<<"cancel", r>>} /\ record[r] # "none"
         /\ \A q \in Runs : submitter[q] \in {"idle", "done"} /\ client[q] # "calling"
         /\ \A q \in Runs \ {r} : canceller[q] = "idle"
<1>1. lock = {<<"cancel", r>>}
  BY DEF IInv, Locked
<1>2. ASSUME NEW q \in Runs
      PROVE  /\ submitter[q] \in {"idle", "done"} /\ client[q] # "calling"
             /\ q # r => canceller[q] = "idle"
  <2>1. <<"submit", q>> \notin lock /\ <<"client", q>> \notin lock /\ (q # r => <<"cancel", q>> \notin lock)
    BY <1>1
  <2> QED
    BY <2>1 DEF IInv, Locked
<1> QED
  BY <1>1, <1>2 DEF IInv, Begun

(* Admission finds nobody at work, deletes the reservations that are not   *)
(* retained, and adds its own only if it still fits (admit_and_reserve).   *)
LEMMA AdmitKeeps ==
  ASSUME IInv, NEW r \in Runs, Admit(r)
  PROVE  IInv'
<1> DEFINE Kept == {q \in Runs : Retained(q)}
<1>0. /\ \A q \in Runs : submitter[q] \in {"idle", "done"} /\ client[q] # "calling" /\ canceller[q] = "idle"
      /\ \A q \in Runs : message[q] # "sent"
  BY DEF IInv, Locked, Admit, Answers
<1>1. Types'
  BY DEF IInv, Types, Admit, Reclaimed, files, outside
<1>2. Locked'
  BY <1>0 DEF IInv, Types, Locked, Admit, files, outside
<1>3. Begun'
  BY <1>0 DEF IInv, Types, Begun, Admit, Reclaimed, files, outside
<1>4. Submitting'
  BY <1>0 DEF IInv, Types, Submitting, Begun, Ended, Dead, Admit, files, outside
<1>5. Ended'
  BY <1>0 DEF IInv, Types, Ended, Begun, Dead, Admit, Reclaimed, files, outside
<1>6. Covered'
  <2>1. SUFFICES ASSUME NEW q \in Runs, MayRun(q), reservation[q] # "none", result[q] # "cancelled-or-lost"
                 PROVE  Retained(q)
    BY DEF IInv, Types, Covered, MayRun, Admit, Reclaimed, files, outside
  <2>2. unit[q] \in {"queued", "launching", "running"}
    BY <2>1, <1>0 DEF MayRun
  <2>3. CASE unit[q] = "queued"
    BY <2>1, <2>3 DEF IInv, Types, Begun, Ended, Dead, Retained
  <2> QED
    BY <2>1, <2>2, <2>3 DEF Retained, IsLive
<1>7. Kept \subseteq Counted
  BY DEF Counted, Retained
<1>8. CASE ReservationTotal + Mem[r] > Capacity
  <2>1. Counted' \subseteq Counted
    BY <1>0, <1>7, <1>8 DEF IInv, Types, Counted, Admit, Reclaimed
  <2> QED
    BY <2>1, <1>1, <1>2, <1>3, <1>4, <1>5, <1>6, SmallerLedger DEF IInv
<1>9. CASE ~ (ReservationTotal + Mem[r] > Capacity)
  <2> DEFINE All == Kept \cup {r}
  <2>1. Counted' \subseteq All
    BY <1>0, <1>9 DEF IInv, Types, Counted, Admit, Reclaimed
  <2>2. r \notin Kept
    BY DEF Retained, IInv, Begun, Admit
  <2>3. IsFiniteSet(Kept) /\ IsFiniteSet(All)
    <3>1. IsFiniteSet(Counted)
      BY DEF IInv, Ledger
    <3> HIDE DEF Kept
    <3> QED
      BY <3>1, <1>7, FS_Subset, FS_AddElement
  <2>4. Need(All) = Mem[r] + Need(Kept)
    <3>1. All \in SUBSET Runs /\ r \in All /\ All \ {r} = Kept
      BY <2>2
    <3> HIDE DEF All, Kept
    <3> QED
      BY <3>1, <2>3, NeedRemove
  <2>5. Need(Kept) \in Nat /\ Need(Kept) + Mem[r] <= Capacity
    <3>1. Need(Kept) = ReservationTotal
      BY DEF ReservationTotal
    <3>2. Kept \in SUBSET Runs
      OBVIOUS
    <3>3. Need(Kept) \in Nat
      BY <3>2, <2>3, NeedNat
    <3> QED
      BY <3>1, <3>3, <1>9, MemAssumption
  <2>6. Ledger'
    <3>1. All \in SUBSET Runs
      OBVIOUS
    <3> HIDE DEF All, Kept
    <3>2. IsFiniteSet(Counted') /\ Need(Counted') <= Need(All)
      BY <2>1, <2>3, <3>1, NeedMonotone, FS_Subset
    <3>3. Need(Counted') \in Nat /\ Need(All) \in Nat
      BY <2>1, <2>3, <3>1, NeedNat
    <3>4. Need(Counted') <= Capacity
      BY <3>2, <3>3, <2>4, <2>5, MemAssumption
    <3>5. Need(Counted)' = Need(Counted')
      BY Zenon DEF Need, MapThenSumSet, MapThenFoldSet
    <3> QED
      BY <3>2, <3>4, <3>5 DEF Ledger
  <2> QED
    BY <2>6, <1>1, <1>2, <1>3, <1>4, <1>5, <1>6 DEF IInv
<1> QED
  BY <1>8, <1>9

(* The record and the environment file are written before the reservation. *)
LEMMA WriteRunKeeps ==
  ASSUME IInv, NEW r \in Runs, WriteRun(r)
  PROVE  IInv'
<1> USE DEF IInv, WriteRun, files, outside
<1>1. Types'
  BY DEF Types
<1>2. Locked'
  BY DEF Types, Locked
<1>3. Begun'
  BY DEF Types, Begun, Locked, Submitting
<1>4. Submitting'
  BY DEF Types, Submitting, Begun, Ended, Dead, Locked
<1>5. Ended'
  BY DEF Types, Ended, Dead, Begun, Locked, Submitting
<1>6. Covered'
  BY DEF Types, Covered, MayRun, Begun, Submitting, Ended, Dead
<1>7. Counted' \subseteq Counted
  BY DEF Types, Counted, Submitting
<1>8. Ledger'
  BY <1>7, SmallerLedger
<1> QED
  BY <1>1, <1>2, <1>3, <1>4, <1>5, <1>6, <1>8

(* The ledger counts the admission under way before its reservation.       *)
LEMMA ReserveKeeps ==
  ASSUME IInv, NEW r \in Runs, Reserve(r)
  PROVE  IInv'
<1> USE DEF IInv, Reserve, files, outside
<1>1. Types'
  BY DEF Types
<1>2. Locked'
  BY DEF Types, Locked
<1>3. Begun'
  BY DEF Types, Begun, Locked, Submitting
<1>4. Submitting'
  BY DEF Types, Submitting, Begun, Ended, Dead, Locked
<1>5. Ended'
  BY DEF Types, Ended, Dead, Begun, Locked, Submitting
<1>6. Covered'
  BY DEF Types, Covered, MayRun, Begun, Submitting, Ended, Dead
<1>7. Counted' \subseteq Counted
  BY DEF Types, Counted, Submitting
<1>8. Ledger'
  BY <1>7, SmallerLedger
<1> QED
  BY <1>1, <1>2, <1>3, <1>4, <1>5, <1>6, <1>8

(* systemd-run starts with the lock of its submitter, for the same run.    *)
LEMMA LaunchKeeps ==
  ASSUME IInv, NEW r \in Runs, Launch(r)
  PROVE  IInv'
<1> USE DEF IInv, Launch, files, outside
<1>1. Types'
  BY DEF Types
<1>2. Locked'
  <2>0. <<"submit", r>> \in lock
    BY DEF Types, Locked
  <2>1. \A h \in lock : h[2] = r
    BY <2>0 DEF Locked
  <2>2. \A q \in Runs : <<"cancel", q>> \notin lock
    BY DEF Types, Locked
  <2>3. \A h, g \in lock' : h[2] = g[2]
    BY <2>1
  <2> QED
    BY <2>2, <2>3 DEF Types, Locked
<1>3. Begun'
  BY DEF Types, Begun, Locked, Submitting
<1>4. Submitting'
  BY DEF Types, Submitting, Begun, Ended, Dead, Locked
<1>5. Ended'
  BY DEF Types, Ended, Dead, Begun, Locked, Submitting
<1>6. Covered'
  BY DEF Types, Covered, MayRun, Begun, Submitting, Ended, Dead
<1>7. Counted' \subseteq Counted
  BY DEF Types, Counted, Submitting
<1>8. Ledger'
  BY <1>7, SmallerLedger
<1> QED
  BY <1>1, <1>2, <1>3, <1>4, <1>5, <1>6, <1>8

(* A client killed by the timeout gives its lock back, no reservation.     *)
LEMMA TimedOutKeeps ==
  ASSUME IInv, NEW r \in Runs, TimedOut(r)
  PROVE  IInv'
<1> USE DEF IInv, TimedOut, Fault, files, outside
<1>1. Types'
  BY DEF Types
<1>2. Locked'
  BY DEF Types, Locked
<1>3. Begun'
  BY DEF Types, Begun, Locked, Submitting
<1>4. Submitting'
  BY DEF Types, Submitting, Begun, Ended, Dead, Locked
<1>5. Ended'
  BY DEF Types, Ended, Dead, Begun, Locked, Submitting
<1>6. Covered'
  BY DEF Types, Covered, MayRun, Begun, Submitting, Ended, Dead
<1>7. Counted' \subseteq Counted
  BY DEF Types, Counted, Submitting
<1>8. Ledger'
  BY <1>7, SmallerLedger
<1> QED
  BY <1>1, <1>2, <1>3, <1>4, <1>5, <1>6, <1>8

(* A submitter that gives up leaves the pending reservation.               *)
LEMMA GiveUpKeeps ==
  ASSUME IInv, NEW r \in Runs, GiveUp(r)
  PROVE  IInv'
<1> USE DEF IInv, GiveUp, Uncertain, Release, files, outside
<1>1. Types'
  BY DEF Types
<1>2. Locked'
  BY DEF Types, Locked
<1>3. Begun'
  BY DEF Types, Begun, Locked, Submitting
<1>4. Submitting'
  BY DEF Types, Submitting, Begun, Ended, Dead, Locked
<1>5. Ended'
  BY DEF Types, Ended, Dead, Begun, Locked, Submitting
<1>6. Covered'
  BY DEF Types, Covered, MayRun, Begun, Submitting, Ended, Dead
<1>7. Counted' \subseteq Counted
  BY DEF Types, Counted, Submitting
<1>8. Ledger'
  BY <1>7, SmallerLedger
<1> QED
  BY <1>1, <1>2, <1>3, <1>4, <1>5, <1>6, <1>8

(* A failed answer of a unit that exists leaves the pending reservation.   *)
LEMMA AckFailedKeeps ==
  ASSUME IInv, NEW r \in Runs, AckFailed(r)
  PROVE  IInv'
<1> USE DEF IInv, AckFailed, Uncertain, Release, Failed, Loaded, files, outside
<1>1. Types'
  BY DEF Types
<1>2. Locked'
  BY DEF Types, Locked
<1>3. Begun'
  BY DEF Types, Begun, Locked, Submitting
<1>4. Submitting'
  BY DEF Types, Submitting, Begun, Ended, Dead, Locked
<1>5. Ended'
  BY DEF Types, Ended, Dead, Begun, Locked, Submitting
<1>6. Covered'
  BY DEF Types, Covered, MayRun, Begun, Submitting, Ended, Dead
<1>7. Counted' \subseteq Counted
  BY DEF Types, Counted, Submitting
<1>8. Ledger'
  BY <1>7, SmallerLedger
<1> QED
  BY <1>1, <1>2, <1>3, <1>4, <1>5, <1>6, <1>8

(* A rejection is recorded when the manager says there is no unit.         *)
LEMMA RejectRunKeeps ==
  ASSUME IInv, NEW r \in Runs, RejectRun(r)
  PROVE  IInv'
<1> USE DEF IInv, RejectRun, Failed, Loaded, Answers, files, outside
<1>1. Types'
  BY DEF Types
<1>2. Locked'
  BY DEF Types, Locked
<1>3. Begun'
  BY DEF Types, Begun, Locked, Submitting
<1>4. Submitting'
  BY DEF Types, Submitting, Begun, Ended, Dead, Locked
<1>5. Ended'
  BY DEF Types, Ended, Dead, Begun, Locked, Submitting
<1>6. Covered'
  BY DEF Types, Covered, MayRun, Begun, Submitting, Ended, Dead
<1>7. Counted' \subseteq Counted
  BY DEF Types, Counted, Submitting
<1>8. Ledger'
  BY <1>7, SmallerLedger
<1> QED
  BY <1>1, <1>2, <1>3, <1>4, <1>5, <1>6, <1>8

(* A rejected reservation is one of a run that is dead.                    *)
LEMMA RejectReservationKeeps ==
  ASSUME IInv, NEW r \in Runs, RejectReservation(r)
  PROVE  IInv'
<1> USE DEF IInv, RejectReservation, files, outside
<1>1. Types'
  BY DEF Types
<1>2. Locked'
  BY DEF Types, Locked
<1>3. Begun'
  BY DEF Types, Begun, Locked, Submitting
<1>4. Submitting'
  BY DEF Types, Submitting, Begun, Ended, Dead, Locked
<1>5. Ended'
  BY DEF Types, Ended, Dead, Begun, Locked, Submitting
<1>6. Covered'
  BY DEF Types, Covered, MayRun, Begun, Submitting, Ended, Dead
<1>7. Counted' \subseteq Counted
  BY DEF Types, Counted, Submitting
<1>8. Ledger'
  BY <1>7, SmallerLedger
<1> QED
  BY <1>1, <1>2, <1>3, <1>4, <1>5, <1>6, <1>8

(* Exit code 125 is said of a run that is dead.                            *)
LEMMA RejectResultKeeps ==
  ASSUME IInv, NEW r \in Runs, RejectResult(r)
  PROVE  IInv'
<1> USE DEF IInv, RejectResult, Release, files, outside
<1>1. Types'
  BY DEF Types
<1>2. Locked'
  BY DEF Types, Locked
<1>3. Begun'
  BY DEF Types, Begun, Locked, Submitting
<1>4. Submitting'
  BY DEF Types, Submitting, Begun, Ended, Dead, Locked
<1>5. Ended'
  BY DEF Types, Ended, Dead, Begun, Locked, Submitting
<1>6. Covered'
  BY DEF Types, Covered, MayRun, Begun, Submitting, Ended, Dead
<1>7. Counted' \subseteq Counted
  BY DEF Types, Counted, Submitting
<1>8. Ledger'
  BY <1>7, SmallerLedger
<1> QED
  BY <1>1, <1>2, <1>3, <1>4, <1>5, <1>6, <1>8

(* The acceptance is recorded after the client's success.                  *)
LEMMA AcceptRunKeeps ==
  ASSUME IInv, NEW r \in Runs, AcceptRun(r)
  PROVE  IInv'
<1> USE DEF IInv, AcceptRun, files, outside
<1>1. Types'
  BY DEF Types
<1>2. Locked'
  BY DEF Types, Locked
<1>3. Begun'
  BY DEF Types, Begun, Locked, Submitting
<1>4. Submitting'
  BY DEF Types, Submitting, Begun, Ended, Dead, Locked
<1>5. Ended'
  BY DEF Types, Ended, Dead, Begun, Locked, Submitting
<1>6. Covered'
  BY DEF Types, Covered, MayRun, Begun, Submitting, Ended, Dead
<1>7. Counted' \subseteq Counted
  BY DEF Types, Counted, Submitting
<1>8. Ledger'
  BY <1>7, SmallerLedger
<1> QED
  BY <1>1, <1>2, <1>3, <1>4, <1>5, <1>6, <1>8

(* An accepted reservation is one of a unit that was started.              *)
LEMMA AcceptReservationKeeps ==
  ASSUME IInv, NEW r \in Runs, AcceptReservation(r)
  PROVE  IInv'
<1> USE DEF IInv, AcceptReservation, Release, files, outside
<1>1. Types'
  BY DEF Types
<1>2. Locked'
  BY DEF Types, Locked
<1>3. Begun'
  BY DEF Types, Begun, Locked, Submitting
<1>4. Submitting'
  BY DEF Types, Submitting, Begun, Ended, Dead, Locked
<1>5. Ended'
  BY DEF Types, Ended, Dead, Begun, Locked, Submitting
<1>6. Covered'
  BY DEF Types, Covered, MayRun, Begun, Submitting, Ended, Dead
<1>7. Counted' \subseteq Counted
  BY DEF Types, Counted, Submitting
<1>8. Ledger'
  BY <1>7, SmallerLedger
<1> QED
  BY <1>1, <1>2, <1>3, <1>4, <1>5, <1>6, <1>8

(* A killed submitter gives its lock back; what it wrote stays.            *)
LEMMA SubmitterKilledKeeps ==
  ASSUME IInv, NEW r \in Runs, SubmitterKilled(r)
  PROVE  IInv'
<1> USE DEF IInv, SubmitterKilled, Fault, Release, files, outside
<1>1. Types'
  BY DEF Types
<1>2. Locked'
  BY DEF Types, Locked
<1>3. Begun'
  BY DEF Types, Begun, Locked, Submitting
<1>4. Submitting'
  BY DEF Types, Submitting, Begun, Ended, Dead, Locked
<1>5. Ended'
  BY DEF Types, Ended, Dead, Begun, Locked, Submitting
<1>6. Covered'
  BY DEF Types, Covered, MayRun, Begun, Submitting, Ended, Dead
<1>7. Counted' \subseteq Counted
  BY DEF Types, Counted, Submitting
<1>8. Ledger'
  BY <1>7, SmallerLedger
<1> QED
  BY <1>1, <1>2, <1>3, <1>4, <1>5, <1>6, <1>8

(* The request reaches the manager while the client holds the lock.        *)
LEMMA ClientSendsKeeps ==
  ASSUME IInv, NEW r \in Runs, ClientSends(r)
  PROVE  IInv'
<1> USE DEF IInv, ClientSends, files, outside
<1>1. Types'
  BY DEF Types
<1>2. Locked'
  BY DEF Types, Locked
<1>3. Begun'
  BY DEF Types, Begun, Locked, Submitting
<1>4. Submitting'
  BY DEF Types, Submitting, Begun, Ended, Dead, Locked
<1>5. Ended'
  <2>1. canceller[r] = "idle" /\ ~Dead(r)
    <3>1. SUFFICES ASSUME canceller[r] # "idle" PROVE FALSE
      BY DEF Dead
    <3> QED
      BY <3>1, CancellerAlone
  <2>2. \A q \in Runs : Dead(q) => Dead(q)'
    BY DEF Types, Dead
  <2> QED
    BY <2>1, <2>2 DEF Types, Ended, Begun
<1>6. Covered'
  BY DEF Types, Covered, MayRun, Begun, Submitting, Ended, Dead
<1>7. Counted' \subseteq Counted
  BY DEF Types, Counted, Submitting
<1>8. Ledger'
  BY <1>7, SmallerLedger
<1> QED
  BY <1>1, <1>2, <1>3, <1>4, <1>5, <1>6, <1>8

(* The client succeeds when the launcher has been executed.                *)
LEMMA ClientOkKeeps ==
  ASSUME IInv, NEW r \in Runs, ClientOk(r)
  PROVE  IInv'
<1> USE DEF IInv, ClientOk, ClientEnds, files, outside
<1>1. Types'
  BY DEF Types
<1>2. Locked'
  BY DEF Types, Locked
<1>3. Begun'
  BY DEF Types, Begun, Locked, Submitting
<1>4. Submitting'
  BY DEF Types, Submitting, Begun, Ended, Dead, Locked
<1>5. Ended'
  BY DEF Types, Ended, Dead, Begun, Locked, Submitting
<1>6. Covered'
  BY DEF Types, Covered, MayRun, Begun, Submitting, Ended, Dead
<1>7. Counted' \subseteq Counted
  BY DEF Types, Counted, Submitting
<1>8. Ledger'
  BY <1>7, SmallerLedger
<1> QED
  BY <1>1, <1>2, <1>3, <1>4, <1>5, <1>6, <1>8

(* The client fails when the manager made no unit.                         *)
LEMMA ClientRefusedKeeps ==
  ASSUME IInv, NEW r \in Runs, ClientRefused(r)
  PROVE  IInv'
<1> USE DEF IInv, ClientRefused, ClientEnds, files, outside
<1>1. Types'
  BY DEF Types
<1>2. Locked'
  BY DEF Types, Locked
<1>3. Begun'
  BY DEF Types, Begun, Locked, Submitting
<1>4. Submitting'
  BY DEF Types, Submitting, Begun, Ended, Dead, Locked
<1>5. Ended'
  BY DEF Types, Ended, Dead, Begun, Locked, Submitting
<1>6. Covered'
  BY DEF Types, Covered, MayRun, Begun, Submitting, Ended, Dead
<1>7. Counted' \subseteq Counted
  BY DEF Types, Counted, Submitting
<1>8. Ledger'
  BY <1>7, SmallerLedger
<1> QED
  BY <1>1, <1>2, <1>3, <1>4, <1>5, <1>6, <1>8

(* A client may fail at any point; its request may still be served.        *)
LEMMA ClientFailsKeeps ==
  ASSUME IInv, NEW r \in Runs, ClientFails(r)
  PROVE  IInv'
<1> USE DEF IInv, ClientFails, ClientEnds, Fault, files, outside
<1>1. Types'
  BY DEF Types
<1>2. Locked'
  BY DEF Types, Locked
<1>3. Begun'
  BY DEF Types, Begun, Locked, Submitting
<1>4. Submitting'
  BY DEF Types, Submitting, Begun, Ended, Dead, Locked
<1>5. Ended'
  BY DEF Types, Ended, Dead, Begun, Locked, Submitting
<1>6. Covered'
  BY DEF Types, Covered, MayRun, Begun, Submitting, Ended, Dead
<1>7. Counted' \subseteq Counted
  BY DEF Types, Counted, Submitting
<1>8. Ledger'
  BY <1>7, SmallerLedger
<1> QED
  BY <1>1, <1>2, <1>3, <1>4, <1>5, <1>6, <1>8

(* The manager queues a unit only for a request that was sent.             *)
LEMMA ServeKeeps ==
  ASSUME IInv, NEW r \in Runs, NEW to \in {"queued", "none"}, Serve(r, to)
  PROVE  IInv'
<1> USE DEF IInv, Serve, files, outside
<1>1. Types'
  BY DEF Types
<1>2. Locked'
  BY DEF Types, Locked
<1>3. Begun'
  BY DEF Types, Begun, Locked, Submitting
<1>4. Submitting'
  BY DEF Types, Submitting, Begun, Ended, Dead, Locked
<1>5. Ended'
  BY DEF Types, Ended, Dead, Begun, Locked, Submitting
<1>6. Covered'
  BY DEF Types, Covered, MayRun, Begun, Submitting, Ended, Dead
<1>7. Counted' \subseteq Counted
  BY DEF Types, Counted, Submitting
<1>8. Ledger'
  BY <1>7, SmallerLedger
<1> QED
  BY <1>1, <1>2, <1>3, <1>4, <1>5, <1>6, <1>8

(* A start job that is queued has a reservation, or was cancelled.         *)
LEMMA DispatchKeeps ==
  ASSUME IInv, NEW r \in Runs, Dispatch(r)
  PROVE  IInv'
<1> USE DEF IInv, Dispatch, files, outside
<1>1. Types'
  BY DEF Types
<1>2. Locked'
  BY DEF Types, Locked
<1>3. Begun'
  BY DEF Types, Begun, Locked, Submitting
<1>4. Submitting'
  BY DEF Types, Submitting, Begun, Ended, Dead, Locked
<1>5. Ended'
  BY DEF Types, Ended, Dead, Begun, Locked, Submitting
<1>6. Covered'
  BY DEF Types, Covered, MayRun, Begun, Submitting, Ended, Dead
<1>7. Counted' \subseteq Counted
  BY DEF Types, Counted, Submitting
<1>8. Ledger'
  BY <1>7, SmallerLedger
<1> QED
  BY <1>1, <1>2, <1>3, <1>4, <1>5, <1>6, <1>8

(* The command executes under the reservation of its start job.            *)
LEMMA ExecuteKeeps ==
  ASSUME IInv, NEW r \in Runs, Execute(r)
  PROVE  IInv'
<1> USE DEF IInv, Execute, files, outside
<1>1. Types'
  BY DEF Types
<1>2. Locked'
  BY DEF Types, Locked
<1>3. Begun'
  BY DEF Types, Begun, Locked, Submitting
<1>4. Submitting'
  BY DEF Types, Submitting, Begun, Ended, Dead, Locked
<1>5. Ended'
  BY DEF Types, Ended, Dead, Begun, Locked, Submitting
<1>6. Covered'
  BY DEF Types, Covered, MayRun, Begun, Submitting, Ended, Dead
<1>7. Counted' \subseteq Counted
  BY DEF Types, Counted, Submitting
<1>8. Ledger'
  BY <1>7, SmallerLedger
<1> QED
  BY <1>1, <1>2, <1>3, <1>4, <1>5, <1>6, <1>8

(* A command that ended is finalized.                                      *)
LEMMA ExitKeeps ==
  ASSUME IInv, NEW r \in Runs, Exit(r)
  PROVE  IInv'
<1> USE DEF IInv, Exit, files, outside
<1>1. Types'
  BY DEF Types
<1>2. Locked'
  BY DEF Types, Locked
<1>3. Begun'
  BY DEF Types, Begun, Locked, Submitting
<1>4. Submitting'
  BY DEF Types, Submitting, Begun, Ended, Dead, Locked
<1>5. Ended'
  BY DEF Types, Ended, Dead, Begun, Locked, Submitting
<1>6. Covered'
  BY DEF Types, Covered, MayRun, Begun, Submitting, Ended, Dead
<1>7. Counted' \subseteq Counted
  BY DEF Types, Counted, Submitting
<1>8. Ledger'
  BY <1>7, SmallerLedger
<1> QED
  BY <1>1, <1>2, <1>3, <1>4, <1>5, <1>6, <1>8

(* The finalizer's result is of a unit that is gone.                       *)
LEMMA FinishKeeps ==
  ASSUME IInv, NEW r \in Runs, Finish(r)
  PROVE  IInv'
<1> USE DEF IInv, Finish, files, outside
<1>1. Types'
  BY DEF Types
<1>2. Locked'
  BY DEF Types, Locked
<1>3. Begun'
  BY DEF Types, Begun, Locked, Submitting
<1>4. Submitting'
  BY DEF Types, Submitting, Begun, Ended, Dead, Locked
<1>5. Ended'
  BY DEF Types, Ended, Dead, Begun, Locked, Submitting
<1>6. Covered'
  BY DEF Types, Covered, MayRun, Begun, Submitting, Ended, Dead
<1>7. Counted' \subseteq Counted
  BY DEF Types, Counted, Submitting
<1>8. Ledger'
  BY <1>7, SmallerLedger
<1> QED
  BY <1>1, <1>2, <1>3, <1>4, <1>5, <1>6, <1>8

(* A unit may be gone without a result.                                    *)
LEMMA FinishLostKeeps ==
  ASSUME IInv, NEW r \in Runs, FinishLost(r)
  PROVE  IInv'
<1> USE DEF IInv, FinishLost, Fault, files, outside
<1>1. Types'
  BY DEF Types
<1>2. Locked'
  BY DEF Types, Locked
<1>3. Begun'
  BY DEF Types, Begun, Locked, Submitting
<1>4. Submitting'
  BY DEF Types, Submitting, Begun, Ended, Dead, Locked
<1>5. Ended'
  BY DEF Types, Ended, Dead, Begun, Locked, Submitting
<1>6. Covered'
  BY DEF Types, Covered, MayRun, Begun, Submitting, Ended, Dead
<1>7. Counted' \subseteq Counted
  BY DEF Types, Counted, Submitting
<1>8. Ledger'
  BY <1>7, SmallerLedger
<1> QED
  BY <1>1, <1>2, <1>3, <1>4, <1>5, <1>6, <1>8

(* A cancel takes the lock when nobody has it and stops a live unit.       *)
LEMMA CancelLookKeeps ==
  ASSUME IInv, NEW r \in Runs, CancelLook(r)
  PROVE  IInv'
<1> USE DEF IInv, CancelLook, IsLive, Answers, files, outside
<1>1. Types'
  BY DEF Types
<1>2. Locked'
  BY DEF Types, Locked
<1>3. Begun'
  BY DEF Types, Begun, Locked, Submitting
<1>4. Submitting'
  BY DEF Types, Submitting, Begun, Ended, Dead, Locked
<1>5. Ended'
  BY DEF Types, Ended, Dead, Begun, Locked, Submitting
<1>6. Covered'
  BY DEF Types, Covered, MayRun, Begun, Submitting, Ended, Dead
<1>7. Counted' \subseteq Counted
  BY DEF Types, Counted, Submitting
<1>8. Ledger'
  BY <1>7, SmallerLedger
<1> QED
  BY <1>1, <1>2, <1>3, <1>4, <1>5, <1>6, <1>8

(* A cancel goes on when the unit is gone.                                 *)
LEMMA CancelStoppedKeeps ==
  ASSUME IInv, NEW r \in Runs, CancelStopped(r)
  PROVE  IInv'
<1> USE DEF IInv, CancelStopped, files, outside
<1>0. /\ lock = {<<"cancel", r>>} /\ record[r] # "none"
      /\ \A q \in Runs : submitter[q] \in {"idle", "done"} /\ client[q] # "calling"
      /\ \A q \in Runs \ {r} : canceller[q] = "idle"
  BY CancellerAlone
<1>1. Types'
  BY <1>0 DEF Types
<1>2. Locked'
  BY <1>0 DEF Types, Locked
<1>3. Begun'
  BY <1>0 DEF Types, Begun, Locked, Submitting
<1>4. Submitting'
  BY <1>0 DEF Types, Submitting, Begun, Ended, Dead, Locked
<1>5. Ended'
  BY <1>0 DEF Types, Ended, Dead, Begun, Locked, Submitting
<1>6. Covered'
  BY <1>0 DEF Types, Covered, MayRun, Begun, Submitting, Ended, Dead
<1>7. Counted' \subseteq Counted
  BY DEF Types, Counted, Submitting
<1>8. Ledger'
  BY <1>7, SmallerLedger
<1> QED
  BY <1>1, <1>2, <1>3, <1>4, <1>5, <1>6, <1>8

(* A cancel writes a result where there is none.                           *)
LEMMA CancelRecordKeeps ==
  ASSUME IInv, NEW r \in Runs, CancelRecord(r)
  PROVE  IInv'
<1> USE DEF IInv, CancelRecord, files, outside
<1>0. /\ lock = {<<"cancel", r>>} /\ record[r] # "none"
      /\ \A q \in Runs : submitter[q] \in {"idle", "done"} /\ client[q] # "calling"
      /\ \A q \in Runs \ {r} : canceller[q] = "idle"
  BY CancellerAlone
<1>1. Types'
  BY <1>0 DEF Types
<1>2. Locked'
  BY <1>0 DEF Types, Locked
<1>3. Begun'
  BY <1>0 DEF Types, Begun, Locked, Submitting
<1>4. Submitting'
  BY <1>0 DEF Types, Submitting, Begun, Ended, Dead, Locked
<1>5. Ended'
  BY <1>0 DEF Types, Ended, Dead, Loaded, Begun, Locked, Submitting
<1>6. Covered'
  BY <1>0 DEF Types, Covered, MayRun, Begun, Submitting, Ended, Dead
<1>7. Counted' \subseteq Counted
  BY DEF Types, Counted, Submitting
<1>8. Ledger'
  BY <1>7, SmallerLedger
<1> QED
  BY <1>1, <1>2, <1>3, <1>4, <1>5, <1>6, <1>8

(* The environment file goes after the result.                             *)
LEMMA CancelUnlinkKeeps ==
  ASSUME IInv, NEW r \in Runs, CancelUnlink(r)
  PROVE  IInv'
<1> USE DEF IInv, CancelUnlink, files, outside
<1>0. /\ lock = {<<"cancel", r>>} /\ record[r] # "none"
      /\ \A q \in Runs : submitter[q] \in {"idle", "done"} /\ client[q] # "calling"
      /\ \A q \in Runs \ {r} : canceller[q] = "idle"
  BY CancellerAlone
<1>1. Types'
  BY <1>0 DEF Types
<1>2. Locked'
  BY <1>0 DEF Types, Locked
<1>3. Begun'
  BY <1>0 DEF Types, Begun, Locked, Submitting
<1>4. Submitting'
  BY <1>0 DEF Types, Submitting, Begun, Ended, Dead, Locked
<1>5. Ended'
  BY <1>0 DEF Types, Ended, Dead, Begun, Locked, Submitting
<1>6. Covered'
  BY <1>0 DEF Types, Covered, MayRun, Begun, Submitting, Ended, Dead
<1>7. Counted' \subseteq Counted
  BY DEF Types, Counted, Submitting
<1>8. Ledger'
  BY <1>7, SmallerLedger
<1> QED
  BY <1>1, <1>2, <1>3, <1>4, <1>5, <1>6, <1>8

(* The reservation is released after the result.                           *)
LEMMA CancelReleaseKeeps ==
  ASSUME IInv, NEW r \in Runs, CancelRelease(r)
  PROVE  IInv'
<1> USE DEF IInv, CancelRelease, files, outside
<1>0. /\ lock = {<<"cancel", r>>} /\ record[r] # "none"
      /\ \A q \in Runs : submitter[q] \in {"idle", "done"} /\ client[q] # "calling"
      /\ \A q \in Runs \ {r} : canceller[q] = "idle"
  BY CancellerAlone
<1>1. Types'
  BY <1>0 DEF Types
<1>2. Locked'
  BY <1>0 DEF Types, Locked
<1>3. Begun'
  BY <1>0 DEF Types, Begun, Locked, Submitting
<1>4. Submitting'
  BY <1>0 DEF Types, Submitting, Begun, Ended, Dead, Locked
<1>5. Ended'
  BY <1>0 DEF Types, Ended, Dead, Begun, Locked, Submitting
<1>6. Covered'
  BY <1>0 DEF Types, Covered, MayRun, Begun, Submitting, Ended, Dead
<1>7. Counted' \subseteq Counted
  BY DEF Types, Counted, Submitting
<1>8. Ledger'
  BY <1>7, SmallerLedger
<1> QED
  BY <1>1, <1>2, <1>3, <1>4, <1>5, <1>6, <1>8

(* A cancel that fails gives the lock back.                                *)
LEMMA CancelFailsKeeps ==
  ASSUME IInv, NEW r \in Runs, CancelFails(r)
  PROVE  IInv'
<1> USE DEF IInv, CancelFails, Fault, files, outside
<1>0. /\ lock = {<<"cancel", r>>} /\ record[r] # "none"
      /\ \A q \in Runs : submitter[q] \in {"idle", "done"} /\ client[q] # "calling"
      /\ \A q \in Runs \ {r} : canceller[q] = "idle"
  BY CancellerAlone
<1>1. Types'
  BY <1>0 DEF Types
<1>2. Locked'
  BY <1>0 DEF Types, Locked
<1>3. Begun'
  BY <1>0 DEF Types, Begun, Locked, Submitting
<1>4. Submitting'
  BY <1>0 DEF Types, Submitting, Begun, Ended, Dead, Locked
<1>5. Ended'
  BY <1>0 DEF Types, Ended, Dead, Begun, Locked, Submitting
<1>6. Covered'
  BY <1>0 DEF Types, Covered, MayRun, Begun, Submitting, Ended, Dead
<1>7. Counted' \subseteq Counted
  BY DEF Types, Counted, Submitting
<1>8. Ledger'
  BY <1>7, SmallerLedger
<1> QED
  BY <1>1, <1>2, <1>3, <1>4, <1>5, <1>6, <1>8

(* What is told of a run is its result.                                    *)
LEMMA WaitKeeps ==
  ASSUME IInv, NEW r \in Runs, Wait(r)
  PROVE  IInv'
<1> USE DEF IInv, Wait, Finished, IsLive, files, outside
<1>1. Types'
  BY DEF Types
<1>2. Locked'
  BY DEF Types, Locked
<1>3. Begun'
  BY DEF Types, Begun, Locked, Submitting
<1>4. Submitting'
  BY DEF Types, Submitting, Begun, Ended, Dead, Locked
<1>5. Ended'
  BY DEF Types, Ended, Dead, Begun, Locked, Submitting
<1>6. Covered'
  BY DEF Types, Covered, MayRun, Begun, Submitting, Ended, Dead
<1>7. Counted' \subseteq Counted
  BY DEF Types, Counted, Submitting
<1>8. Ledger'
  BY <1>7, SmallerLedger
<1> QED
  BY <1>1, <1>2, <1>3, <1>4, <1>5, <1>6, <1>8


(* A reboot takes the reservations and everything that could use one. *)
LEMMA RebootKeeps ==
  ASSUME IInv, Reboot
  PROVE  IInv'
<1> USE DEF IInv, Reboot, files, outside
<1>1. Types'
  BY DEF Types
<1>2. Locked'
  BY DEF Types, Locked
<1>3. Begun'
  BY DEF Types, Begun
<1>4. Submitting'
  BY DEF Types, Submitting
<1>5. Ended'
  BY DEF Types, Ended, Dead, Loaded, Begun, Submitting
<1>6. Covered'
  BY DEF Types, Covered, MayRun
<1>7. Counted' \subseteq Counted
  BY DEF Types, Counted
<1>8. Ledger'
  BY <1>7, SmallerLedger
<1> QED
  BY <1>1, <1>2, <1>3, <1>4, <1>5, <1>6, <1>8

(* The order of Next, disjunct by disjunct. *)
LEMMA StepKeeps == IInv /\ [Next]_vars => IInv'
<1> SUFFICES ASSUME IInv, [Next]_vars PROVE IInv'
  OBVIOUS
<1>1. CASE Reboot
  BY <1>1, RebootKeeps
<1>2. ASSUME NEW r \in Runs, Submit(r) PROVE IInv'
  BY <1>2, AdmitKeeps, WriteRunKeeps, ReserveKeeps, LaunchKeeps, TimedOutKeeps, GiveUpKeeps,
     AckFailedKeeps, RejectRunKeeps, RejectReservationKeeps, RejectResultKeeps, AcceptRunKeeps,
     AcceptReservationKeeps, SubmitterKilledKeeps DEF Submit
<1>3. ASSUME NEW r \in Runs, Manager(r) PROVE IInv'
  BY <1>3, ClientSendsKeeps, ClientOkKeeps, ClientRefusedKeeps, ClientFailsKeeps, ServeKeeps,
     DispatchKeeps, ExecuteKeeps, ExitKeeps, FinishKeeps, FinishLostKeeps DEF Manager
<1>4. ASSUME NEW r \in Runs, Cancel(r) PROVE IInv'
  BY <1>4, CancelLookKeeps, CancelStoppedKeeps, CancelRecordKeeps, CancelUnlinkKeeps,
     CancelReleaseKeeps, CancelFailsKeeps DEF Cancel
<1>5. ASSUME NEW r \in Runs, Wait(r) PROVE IInv'
  BY <1>5, WaitKeeps
<1>6. CASE UNCHANGED vars
  <2>1. Counted' \subseteq Counted
    BY <1>6 DEF Counted, vars, files, outside
  <2>2. Ledger'
    BY <2>1, SmallerLedger
  <2> QED
    BY <1>6, <2>2 DEF IInv, Types, Locked, Begun, Submitting, Ended, Dead, Covered, MayRun, vars, files, outside
<1> QED
  BY <1>1, <1>2, <1>3, <1>4, <1>5, <1>6 DEF Next

(* The inductive invariant holds of every state the jobs can reach. *)
THEOREM Invariance == Spec => []IInv
BY InitHolds, StepKeeps, PTL DEF Spec

-----------------------------------------------------------------------------
(* Every file and process is in a state the program knows, the lock is     *)
(* held for one run at a time, and nothing is left of a run that has no    *)
(* record.                                                                 *)
THEOREM TypeCorrect == Spec => []TypeOK
<1>1. IInv => TypeOK
  <2> SUFFICES ASSUME IInv PROVE TypeOK
    OBVIOUS
  <2>1. Cardinality({h[2] : h \in lock}) <= 1
    <3>1. CASE lock = {}
      <4>1. {h[2] : h \in lock} = {}
        BY <3>1
      <4> QED
        BY <4>1, FS_EmptySet
    <3>2. CASE lock # {}
      <4>1. PICK g \in lock : TRUE
        BY <3>2
      <4>2. {h[2] : h \in lock} = {g[2]}
        BY <4>1 DEF IInv, Locked
      <4>3. Cardinality({g[2]}) = 1
        BY FS_Singleton
      <4> QED
        BY <4>2, <4>3
    <3> QED
      BY <3>1, <3>2
  <2> QED
    BY <2>1 DEF IInv, Types, Begun, TypeOK
<1> QED
  BY <1>1, Invariance, PTL

(* What executes and was not cancelled fits the budget, for any set of     *)
(* submissions and any declared sizes, whoever was killed in the middle.   *)
THEOREM CapacityAlwaysHeld == Spec => []CapacityHeld
<1>1. IInv => CapacityHeld
  <2> SUFFICES ASSUME IInv PROVE CapacityHeld
    OBVIOUS
  <2> DEFINE Live == Executing \ Cancelled
  <2>1. Live \subseteq Counted /\ Counted \in SUBSET Runs
    BY DEF IInv, Covered, MayRun, Executing, Cancelled, Counted
  <2>2. IsFiniteSet(Counted) /\ Need(Counted) <= Capacity
    BY DEF IInv, Ledger
  <2> HIDE DEF Live
  <2>3. Need(Live) <= Need(Counted) /\ Need(Live) \in Nat /\ Need(Counted) \in Nat
    BY <2>1, <2>2, NeedMonotone, NeedNat
  <2>4. Need(Live) <= Capacity
    BY <2>2, <2>3, MemAssumption
  <2> QED
    BY <2>4 DEF Live, CapacityHeld
<1> QED
  BY <1>1, Invariance, PTL

(* Exit code 125 and whatever outcome `job wait` printed stay true, but    *)
(* for a command whose result was lost before it was called rejected, and  *)
(* for the cancelled-or-lost of a run whose start job the cancel missed.   *)
THEOREM SayingsAlwaysHold == Spec => []SayingsHold
<1>1. IInv => SayingsHold
  BY DEF IInv, Types, Ended, Dead, SayingsHold, RejectionDefinite, AnswerStands, Executing
<1> QED
  BY <1>1, Invariance, PTL

=============================================================================
