--------------------------- MODULE ManageJobsProofs ---------------------------
(***************************************************************************)
(* Proofs about ManageJobs: IInv is an inductive invariant of the          *)
(* specification for any number of managers, requests, jobs and faults,    *)
(* and implies the safety properties TLC checks.                           *)
(***************************************************************************)
EXTENDS ManageJobs, TLAPS

USE JobsAssumption DEF None, Shell, NotAdmitting

-----------------------------------------------------------------------------
(* Lemmas *)

(* What the page may ask for. *)
LEMMA BodiesType ==
  ASSUME TypeOK, NEW b \in Bodies
  PROVE  /\ b \in [kind : {"change", "recover"}, gen : Nat, op : Opers \cup {None}]
         /\ b.kind = "recover" => pend # None /\ b.op = pend
<1>1. CASE b \in {Change(g) : g \in 0..gen}
  BY <1>1 DEF Change, TypeOK
<1>2. CASE b \in (IF pend = None THEN {} ELSE {Recovery(pend)})
  BY <1>2 DEF Recovery, TypeOK
<1> QED
  BY <1>1, <1>2 DEF Bodies

(* An operation that was begun stays so while its body is kept and its     *)
(* child moves on.                                                         *)
LEMMA BegunStays ==
  ASSUME body' = body, drawn => drawn',
         \A k \in Jobs : child[k] \in Late \cup {"done"} \cup Ended
                           => child'[k] \in Late \cup {"done"} \cup Ended
  PROVE  \A o : Begun(o) => Begun(o)'
BY DEF Begun, IsChange

(* The verdict of a child that has the lock is true: what it calls         *)
(* rejected, unchanged or rolled back is not committed and never will be,  *)
(* and what it calls committed is.                                         *)
THEOREM VerdictTrue ==
  ASSUME IInv, NEW j \in Jobs, lock = j, NEW failed \in BOOLEAN,
         failed \/ child[j] = "done" \/ (~IsChange(j) /\ child[j] = "locked")
  PROVE  /\ Verdict(j, failed) \in Outcomes
         /\ Verdict(j, failed) = "committed" => Subject(j) \in hostDone
         /\ Verdict(j, failed) = "rolled_back"
              \/ (IsChange(j) /\ Verdict(j, failed) \in {"rejected", "unchanged"})
            => /\ Settled(Subject(j)) /\ child[j] # "begun"
               /\ Subject(j) \in Jobs \ {j} => child[Subject(j)] \in Ended
<1>1. child[j] \in Working /\ req[j] # None
  BY DEF IInv, Locked, Asked, Working, Early, Late
<1>2. CASE IsChange(j)
  BY <1>1, <1>2 DEF IInv, TypeOK, Changing, Committed, Subject, Settled, Verdict, Outcomes, Opers,
     Working, Early, Late, Ended
<1>3. CASE ~IsChange(j)
  <2> DEFINE o == body[j].op
  <2>1. o # None /\ Begun(o) /\ Subject(j) = o
    BY <1>1, <1>3 DEF IInv, OnceBegun, Subject
  <2>2. o \in Jobs \ {j} => child[o] \in Ended
    BY <2>1 DEF IInv, Begun, Locked, Working, Early, Late
  <2>3. /\ child[j] \in {"locked", "saved", "done"}
        /\ pend = IF child[j] = "done" THEN None ELSE o
        /\ child[j] # "locked" => (gen = base[j] + 1 /\ o \in hostDone \cup {"backup"})
                                 \/ (gen = base[j] /\ Settled(o))
    BY <1>1, <1>3 DEF IInv, Recovering
  <2>4. CASE child[j] = "done"
    <3>1. base[j] \in Nat
      BY DEF IInv, TypeOK
    <3> HIDE DEF o
    <3>2. Verdict(j, failed) = IF o = "backup" THEN "unchanged"
                               ELSE IF gen # base[j] THEN "committed"
                               ELSE IF failed THEN "rejected" ELSE "rolled_back"
      BY <1>3, <2>3, <2>4 DEF Verdict, o
    <3> QED
      BY <1>3, <2>1, <2>2, <2>3, <2>4, <3>1, <3>2 DEF Outcomes
  <2>5. CASE child[j] # "done"
    <3>1. Verdict(j, failed) = "recovery_required"
      BY <2>1, <2>3, <2>5 DEF Verdict
    <3> QED
      BY <3>1 DEF Outcomes
  <2> QED
    BY <2>4, <2>5
<1> QED
  BY <1>2, <1>3

(* What is committed stays right while neither the host nor the state      *)
(* directory changes and children begin, or end, or work on.               *)
LEMMA CommittedStays ==
  ASSUME Committed, UNCHANGED <<gen, pend, hostDone, flying, drawn, body>>,
         \A k \in Jobs : /\ child[k] \in {"committed", "saved", "done"} \cup Ended
                              => child'[k] \in {"committed", "saved", "done"} \cup Ended
                         /\ child[k] \in Ended => child'[k] \in Ended
                         /\ child'[k] \in {"committed", "saved", "done"} /\ IsChange(k)
                              => child[k] \in {"committed", "saved", "done"}
  PROVE  Committed'
BY DEF Committed, IsChange

-----------------------------------------------------------------------------
(* The invariant *)

(* Before the first manager is started nothing was asked for. *)
LEMMA InitHolds == Init => IInv
<1> SUFFICES ASSUME Init PROVE IInv
  OBVIOUS
<1>1. TypeOK
  <2>1. disk \in [Jobs -> Records] /\ mem \in [Managers -> [Jobs -> Records]]
    BY DEF Init, Records
  <2>2. body \in [Jobs -> [kind : {None, "change", "recover"}, gen : Nat, op : Opers \cup {None}]]
    BY DEF Init, NoBody
  <2>3. faults \in 0..MaxFaults /\ gen \in Nat /\ base \in [Jobs -> Nat]
    BY DEF Init
  <2>4. child \in [Jobs -> Ended \cup {"unborn", "started", "locked", "marked", "backed",
                                       "begun", "committed", "saved", "done"}]
    BY DEF Init
  <2>5. admitting \in [Managers -> [job : Jobs \cup {None}, at : {"idle", "checked", "persisted"}]]
    BY DEF Init
  <2> QED
    BY <2>1, <2>2, <2>3, <2>4, <2>5 DEF Init, TypeOK
<1>2. Asked /\ Locked /\ Changing /\ Recovering /\ OnceBegun /\ Committed /\ Reported
  BY DEF Init, Asked, Locked, Changing, Recovering, OnceBegun, Begun, Committed, Reported, Working, Early, Late
<1>3. Alone
  BY DEF Init, Alone, SameRequest
<1> QED
  BY <1>1, <1>2, <1>3 DEF IInv

(* A manager takes what was running for unknown.                           *)
LEMMA StartKeeps ==
  ASSUME IInv, NEW m \in Managers, Start(m)
  PROVE  IInv'
<1> USE DEF IInv, Start, LoadedRecord, NoFault, dirVars, serverVars, childVars, jobVars
<1>1. TypeOK'
  BY DEF TypeOK, Outcomes, Records, Opers, Ended
<1>2. Asked'
  BY DEF TypeOK, Asked
<1>3. Locked'
  BY DEF TypeOK, Locked, Working, Early, Late, Ended
<1>4. Changing'
  BY DEF TypeOK, Changing, Locked, Working, Early, Late, Ended, IsChange
<1>5. Recovering'
  BY DEF TypeOK, Recovering, Locked, Settled, Working, Early, Late, Ended, IsChange
<1>6. OnceBegun'
  BY DEF TypeOK, OnceBegun, Begun, Late, Ended, IsChange
<1>7. Committed'
  BY DEF TypeOK, Committed, Late, Ended, IsChange
<1>8. Reported'
  BY DEF TypeOK, Reported, Settled, Subject, Ended, IsChange
<1>9. Alone'
  BY DEF TypeOK, Alone, Abandoned, SameRequest
<1> QED
  BY <1>1, <1>2, <1>3, <1>4, <1>5, <1>6, <1>7, <1>8, <1>9

(* A job is made for what the page was shown, under an unused id.          *)
LEMMA AdmitKeeps ==
  ASSUME IInv, NEW m \in Managers, NEW r \in Requests, NEW b \in Bodies, NEW j \in Jobs, Admit(m, r, b, j)
  PROVE  IInv'
<1> USE DEF IInv, Admit, NoFault, dirVars, serverVars, childVars, jobVars
<1>0. /\ b \in [kind : {"change", "recover"}, gen : Nat, op : Opers \cup {None}]
      /\ b.kind = "recover" => pend # None /\ b.op = pend
      /\ b.kind = "change" => b.gen = gen
  BY BodiesType DEF Admissible
<1>1. TypeOK'
  BY <1>0 DEF TypeOK, Outcomes, Records, Opers, Ended
<1>2. Asked'
  BY <1>0 DEF TypeOK, Asked
<1>3. Locked'
  BY <1>0 DEF TypeOK, Locked, Working, Early, Late, Ended
<1>4. Changing'
  BY <1>0 DEF TypeOK, Changing, Asked, Locked, IsChange, Working, Early, Late, Ended
<1>5. Recovering'
  <2>1. \A k \in Jobs : child[k] \in Working => k # j /\ body'[k] = body[k] /\ req[k] # None
    BY <1>0 DEF TypeOK, Asked, Working, Early, Late
  <2>2. \A k \in Jobs : Begun(k) => k # j /\ body'[k] = body[k]
    BY <1>0 DEF TypeOK, Asked, Begun, Late, Ended
  <2>3. \A k \in Jobs : child[k] \in Working /\ ~IsChange(k) /\ body[k].op \in Jobs => body'[body[k].op] = body[body[k].op]
    BY <2>1, <2>2 DEF OnceBegun
  <2> QED
    BY <2>1, <2>3 DEF Recovering, Settled, IsChange
<1>6. OnceBegun'
  BY <1>0 DEF TypeOK, OnceBegun, Begun, Asked, IsChange, Working, Early, Late, Ended
<1>7. Committed'
  BY <1>0 DEF TypeOK, Committed, Asked, IsChange, Working, Early, Late, Ended
<1>8. Reported'
  BY <1>0 DEF TypeOK, Reported, Asked, OnceBegun, Begun, Settled, Subject, IsChange, Working, Early, Late, Ended
<1>9. Alone'
  <2>1. session = m /\ worker[m] = None /\ admitting[m] = NotAdmitting /\ overtaken' = overtaken
    BY DEF TypeOK, Alone
  <2>2. ASSUME NEW q \in Managers \ {m}
        PROVE  /\ admitting[q] # NotAdmitting => admitting[q].job \in overtaken
               /\ worker[q] # None => worker[q] \in overtaken
    BY <2>1 DEF TypeOK, Alone
  <2>3. ASSUME NEW k \in Jobs \ overtaken, req[k] = r PROVE Abandoned(k) /\ k # j
    <3>1. disk[k] = None /\ child[k] = "unborn"
      BY <2>1, <2>3 DEF Known, Alone, TypeOK
    <3>2. \A q \in Managers : admitting[q].job # k /\ worker[q] # k
      BY <2>1, <2>2
    <3> QED
      BY <2>3, <3>1, <3>2 DEF Abandoned
  <2>4. \A k \in Jobs : k # j /\ Abandoned(k) => Abandoned(k)'
    BY <1>0 DEF Abandoned, TypeOK
  <2>5. \A k, l \in Jobs \ overtaken : SameRequest(k, l)' => Abandoned(k)' \/ Abandoned(l)'
    BY <2>3, <2>4 DEF Alone, SameRequest, TypeOK
  <2> QED
    BY <2>1, <2>5 DEF Alone, TypeOK
<1> QED
  BY <1>1, <1>2, <1>3, <1>4, <1>5, <1>6, <1>7, <1>8, <1>9

(* The record is written before the worker starts.                         *)
LEMMA PersistKeeps ==
  ASSUME IInv, NEW m \in Managers, Persist(m)
  PROVE  IInv'
<1> USE DEF IInv, Persist, Record, NoFault, dirVars, serverVars, childVars, jobVars
<1>1. TypeOK'
  <2>1. admitting[m].job \in Jobs
    BY DEF TypeOK, Asked
  <2>2. disk' \in [Jobs -> Records]
    BY <2>1 DEF TypeOK, Records
  <2>3. mem' \in [Managers -> [Jobs -> Records]]
    BY <2>1 DEF TypeOK, Records
  <2>4. admitting' \in [Managers -> [job : Jobs \cup {None}, at : {"idle", "checked", "persisted"}]]
    BY DEF TypeOK
  <2> QED
    BY <2>2, <2>3, <2>4 DEF TypeOK, Opers
<1>2. Asked'
  BY DEF TypeOK, Asked
<1>3. Locked'
  BY DEF TypeOK, Locked, Working, Early, Late, Ended
<1>4. Changing'
  BY DEF TypeOK, Changing, Locked, Working, Early, Late, Ended, IsChange
<1>5. Recovering'
  BY DEF TypeOK, Recovering, Locked, Settled, Working, Early, Late, Ended, IsChange
<1>6. OnceBegun'
  BY DEF TypeOK, OnceBegun, Begun, Late, Ended, IsChange
<1>7. Committed'
  BY DEF TypeOK, Committed, Late, Ended, IsChange
<1>8. Reported'
  BY DEF TypeOK, Reported, Settled, Subject, Ended, IsChange
<1>9. Alone'
  <2>1. admitting[m].job \in Jobs /\ overtaken' = overtaken
    BY DEF TypeOK, Asked
  <2>2. \A k \in Jobs : Abandoned(k) => Abandoned(k)'
    BY <2>1 DEF Abandoned, TypeOK
  <2>3. \A k \in Jobs : (disk[k] # None => disk'[k] # None) /\ (mem[m][k] # None => mem'[m][k] # None)
    BY <2>1 DEF TypeOK
  <2>4. disk'[admitting[m].job] # None /\ mem'[m][admitting[m].job] # None
    BY <2>1 DEF TypeOK
  <2>5. \A k \in Jobs \ {admitting[m].job} : disk'[k] = disk[k]
    BY <2>1 DEF TypeOK
  <2> QED
    BY <2>1, <2>2, <2>3, <2>4, <2>5 DEF Alone, SameRequest, TypeOK
<1> QED
  BY <1>1, <1>2, <1>3, <1>4, <1>5, <1>6, <1>7, <1>8, <1>9

(* The worker takes the job of the admission.                              *)
LEMMA StartWorkerKeeps ==
  ASSUME IInv, NEW m \in Managers, StartWorker(m)
  PROVE  IInv'
<1> USE DEF IInv, StartWorker, NoFault, dirVars, serverVars, childVars, jobVars
<1>1. TypeOK'
  BY DEF TypeOK, Outcomes, Records, Opers, Ended
<1>2. Asked'
  BY DEF TypeOK, Asked
<1>3. Locked'
  BY DEF TypeOK, Locked, Working, Early, Late, Ended
<1>4. Changing'
  BY DEF TypeOK, Changing, Locked, Working, Early, Late, Ended, IsChange
<1>5. Recovering'
  BY DEF TypeOK, Recovering, Locked, Settled, Working, Early, Late, Ended, IsChange
<1>6. OnceBegun'
  BY DEF TypeOK, OnceBegun, Begun, Late, Ended, IsChange
<1>7. Committed'
  BY DEF TypeOK, Committed, Late, Ended, IsChange
<1>8. Reported'
  BY DEF TypeOK, Reported, Settled, Subject, Ended, IsChange
<1>9. Alone'
  BY DEF TypeOK, Alone, Abandoned, SameRequest
<1> QED
  BY <1>1, <1>2, <1>3, <1>4, <1>5, <1>6, <1>7, <1>8, <1>9

(* A child starts with nothing done.                                       *)
LEMMA SpawnKeeps ==
  ASSUME IInv, NEW m \in Managers, Spawn(m)
  PROVE  IInv'
<1> USE DEF IInv, Spawn, NoFault, dirVars, serverVars, childVars, jobVars
<1>1. TypeOK'
  BY DEF TypeOK, Outcomes, Records, Opers, Ended
<1>2. Asked'
  BY DEF TypeOK, Asked
<1>3. Locked'
  BY DEF TypeOK, Locked, Working, Early, Late, Ended
<1>4. Changing'
  BY DEF TypeOK, Changing, Locked, Working, Early, Late, Ended, IsChange
<1>5. Recovering'
  BY DEF TypeOK, Recovering, Locked, Settled, Working, Early, Late, Ended, IsChange
<1>6. OnceBegun'
  BY DEF TypeOK, OnceBegun, Begun, Late, Ended, IsChange
<1>7. Committed'
  BY DEF TypeOK, Committed, Late, Ended, IsChange
<1>8. Reported'
  BY DEF TypeOK, Reported, Settled, Subject, Ended, IsChange
<1>9. Alone'
  BY DEF TypeOK, Alone, Abandoned, SameRequest
<1> QED
  BY <1>1, <1>2, <1>3, <1>4, <1>5, <1>6, <1>7, <1>8, <1>9

(* The worker records what the child printed, or that it is unknown.       *)
LEMMA CollectKeeps ==
  ASSUME IInv, NEW m \in Managers, Collect(m)
  PROVE  IInv'
<1> USE DEF IInv, Collect, Finish, Record, JobOutcome, NoFault, dirVars, serverVars, childVars, jobVars
<1>1. TypeOK'
  BY DEF TypeOK, Outcomes, Records, Opers, Ended
<1>2. Asked'
  BY DEF TypeOK, Asked
<1>3. Locked'
  BY DEF TypeOK, Locked, Working, Early, Late, Ended
<1>4. Changing'
  BY DEF TypeOK, Changing, Locked, Working, Early, Late, Ended, IsChange
<1>5. Recovering'
  BY DEF TypeOK, Recovering, Locked, Settled, Working, Early, Late, Ended, IsChange
<1>6. OnceBegun'
  BY DEF TypeOK, OnceBegun, Begun, Late, Ended, IsChange
<1>7. Committed'
  BY DEF TypeOK, Committed, Late, Ended, IsChange
<1>8. Reported'
  BY DEF TypeOK, Reported, Settled, Subject, Ended, IsChange
<1>9. Alone'
  BY DEF TypeOK, Alone, Abandoned, SameRequest
<1> QED
  BY <1>1, <1>2, <1>3, <1>4, <1>5, <1>6, <1>7, <1>8, <1>9

(* A child that is killed leaves what it did, and maybe a late commit.     *)
LEMMA TerminateKeeps ==
  ASSUME IInv, NEW m \in Managers, Terminate(m)
  PROVE  IInv'
<1> USE DEF IInv, Terminate, Finish, Record, KillChild, NoFault, Fault, Alive, dirVars, serverVars, childVars, jobVars
<1>1. TypeOK'
  BY DEF TypeOK, Asked, Outcomes, Records, Opers, Working, Early, Late, Ended
<1>2. Asked'
  BY DEF TypeOK, Asked, Locked, Working, Early, Late, Ended
<1>3. Locked'
  BY DEF TypeOK, Locked, Working, Early, Late, Ended
<1>4. Changing'
  BY DEF TypeOK, Changing, Locked, Committed, IsChange, Working, Early, Late, Ended
<1>5. Recovering'
  BY DEF TypeOK, Recovering, Changing, Settled, Locked, Committed, OnceBegun, Begun, Asked, IsChange, Working, Early, Late, Ended
<1>6. OnceBegun'
  BY DEF TypeOK, OnceBegun, Begun, Locked, Changing, Recovering, IsChange, Working, Early, Late, Ended
<1>7. Committed'
  BY DEF TypeOK, Committed, Asked, Locked, Changing, Recovering, Settled, IsChange, Working, Early, Late, Ended
<1>8. Reported'
  BY DEF TypeOK, Reported, Subject, Settled, Begun, OnceBegun, Committed, Asked, Locked, Changing, Recovering, IsChange, MayRun, Outcomes, Working, Early, Late, Ended
<1>9. Alone'
  BY DEF TypeOK, Alone, Abandoned, SameRequest
<1> QED
  BY <1>1, <1>2, <1>3, <1>4, <1>5, <1>6, <1>7, <1>8, <1>9

(* A manager that stops changes no job.                                    *)
LEMMA StopKeeps ==
  ASSUME IInv, NEW m \in Managers, Stop(m)
  PROVE  IInv'
<1> USE DEF IInv, Stop, NoFault, dirVars, serverVars, childVars, jobVars
<1>1. TypeOK'
  BY DEF TypeOK, Outcomes, Records, Opers, Ended
<1>2. Asked'
  BY DEF TypeOK, Asked
<1>3. Locked'
  BY DEF TypeOK, Locked, Working, Early, Late, Ended
<1>4. Changing'
  BY DEF TypeOK, Changing, Locked, Working, Early, Late, Ended, IsChange
<1>5. Recovering'
  BY DEF TypeOK, Recovering, Locked, Settled, Working, Early, Late, Ended, IsChange
<1>6. OnceBegun'
  BY DEF TypeOK, OnceBegun, Begun, Late, Ended, IsChange
<1>7. Committed'
  BY DEF TypeOK, Committed, Late, Ended, IsChange
<1>8. Reported'
  BY DEF TypeOK, Reported, Settled, Subject, Ended, IsChange
<1>9. Alone'
  <2>1. overtaken \subseteq overtaken' /\ (admitting[m] # NotAdmitting => admitting[m].job \in overtaken')
    <3>1. admitting[m] # NotAdmitting => admitting[m].job # None
      BY DEF TypeOK, Asked
    <3> QED
      BY <3>1
  <2>2. life[m] = "serving" /\ life'[m] = "stopping" /\ \A q \in Managers \ {m} : life'[q] = life[q]
    BY DEF TypeOK
  <2>3. \A k \in Jobs : Abandoned(k)' = Abandoned(k)
    BY DEF Abandoned
  <2> QED
    BY <2>1, <2>2, <2>3 DEF Alone, SameRequest
<1> QED
  BY <1>1, <1>2, <1>3, <1>4, <1>5, <1>6, <1>7, <1>8, <1>9

(* A manager that closes its API changes no job.                           *)
LEMMA CloseApiKeeps ==
  ASSUME IInv, NEW m \in Managers, CloseApi(m)
  PROVE  IInv'
<1> USE DEF IInv, CloseApi, NoFault, dirVars, serverVars, childVars, jobVars
<1>1. TypeOK'
  BY DEF TypeOK, Outcomes, Records, Opers, Ended
<1>2. Asked'
  BY DEF TypeOK, Asked
<1>3. Locked'
  BY DEF TypeOK, Locked, Working, Early, Late, Ended
<1>4. Changing'
  BY DEF TypeOK, Changing, Locked, Working, Early, Late, Ended, IsChange
<1>5. Recovering'
  BY DEF TypeOK, Recovering, Locked, Settled, Working, Early, Late, Ended, IsChange
<1>6. OnceBegun'
  BY DEF TypeOK, OnceBegun, Begun, Late, Ended, IsChange
<1>7. Committed'
  BY DEF TypeOK, Committed, Late, Ended, IsChange
<1>8. Reported'
  BY DEF TypeOK, Reported, Settled, Subject, Ended, IsChange
<1>9. Alone'
  BY DEF TypeOK, Alone, Abandoned, SameRequest
<1> QED
  BY <1>1, <1>2, <1>3, <1>4, <1>5, <1>6, <1>7, <1>8, <1>9

(* The session lock goes when the worker it finds has ended.               *)
LEMMA ReleaseKeeps ==
  ASSUME IInv, NEW m \in Managers, Release(m)
  PROVE  IInv'
<1> USE DEF IInv, Release, NoFault, dirVars, serverVars, childVars, jobVars
<1>1. TypeOK'
  BY DEF TypeOK, Outcomes, Records, Opers, Ended
<1>2. Asked'
  BY DEF TypeOK, Asked
<1>3. Locked'
  BY DEF TypeOK, Locked, Working, Early, Late, Ended
<1>4. Changing'
  BY DEF TypeOK, Changing, Locked, Working, Early, Late, Ended, IsChange
<1>5. Recovering'
  BY DEF TypeOK, Recovering, Locked, Settled, Working, Early, Late, Ended, IsChange
<1>6. OnceBegun'
  BY DEF TypeOK, OnceBegun, Begun, Late, Ended, IsChange
<1>7. Committed'
  BY DEF TypeOK, Committed, Late, Ended, IsChange
<1>8. Reported'
  BY DEF TypeOK, Reported, Settled, Subject, Ended, IsChange
<1>9. Alone'
  BY DEF TypeOK, Alone, Abandoned, SameRequest
<1> QED
  BY <1>1, <1>2, <1>3, <1>4, <1>5, <1>6, <1>7, <1>8, <1>9

(* A manager that ends forgets only what is on disk.                       *)
LEMMA ExitKeeps ==
  ASSUME IInv, NEW m \in Managers, Exit(m)
  PROVE  IInv'
<1> USE DEF IInv, Exit, Gone, NoFault, dirVars, serverVars, childVars, jobVars
<1>1. TypeOK'
  BY DEF TypeOK, Outcomes, Records, Opers, Ended
<1>2. Asked'
  BY DEF TypeOK, Asked
<1>3. Locked'
  BY DEF TypeOK, Locked, Working, Early, Late, Ended
<1>4. Changing'
  BY DEF TypeOK, Changing, Locked, Working, Early, Late, Ended, IsChange
<1>5. Recovering'
  BY DEF TypeOK, Recovering, Locked, Settled, Working, Early, Late, Ended, IsChange
<1>6. OnceBegun'
  BY DEF TypeOK, OnceBegun, Begun, Late, Ended, IsChange
<1>7. Committed'
  BY DEF TypeOK, Committed, Late, Ended, IsChange
<1>8. Reported'
  BY DEF TypeOK, Reported, Settled, Subject, Ended, IsChange
<1>9. Alone'
  BY DEF TypeOK, Alone, Abandoned, SameRequest
<1> QED
  BY <1>1, <1>2, <1>3, <1>4, <1>5, <1>6, <1>7, <1>8, <1>9

(* A manager that is killed forgets only what is on disk.                  *)
LEMMA CrashKeeps ==
  ASSUME IInv, NEW m \in Managers, Crash(m)
  PROVE  IInv'
<1> USE DEF IInv, Crash, Gone, Fault, dirVars, serverVars, childVars, jobVars
<1>1. TypeOK'
  BY DEF TypeOK, Outcomes, Records, Opers, Ended
<1>2. Asked'
  BY DEF TypeOK, Asked
<1>3. Locked'
  BY DEF TypeOK, Locked, Working, Early, Late, Ended
<1>4. Changing'
  BY DEF TypeOK, Changing, Locked, Working, Early, Late, Ended, IsChange
<1>5. Recovering'
  BY DEF TypeOK, Recovering, Locked, Settled, Working, Early, Late, Ended, IsChange
<1>6. OnceBegun'
  BY DEF TypeOK, OnceBegun, Begun, Late, Ended, IsChange
<1>7. Committed'
  BY DEF TypeOK, Committed, Late, Ended, IsChange
<1>8. Reported'
  BY DEF TypeOK, Reported, Settled, Subject, Ended, IsChange
<1>9. Alone'
  BY DEF TypeOK, Alone, Abandoned, SameRequest
<1> QED
  BY <1>1, <1>2, <1>3, <1>4, <1>5, <1>6, <1>7, <1>8, <1>9

(* A child takes the lock when what admission checked still holds.         *)
LEMMA ChildLockKeeps ==
  ASSUME IInv, NEW j \in Jobs, ChildLock(j)
  PROVE  IInv'
<1> USE DEF IInv, ChildLock, MayRun, ChildOnly, NoFault, dirVars, serverVars, childVars, jobVars
<1>1. TypeOK'
  <2>1. CASE lock = None /\ MayRun(j)
    <3>1. /\ child' = [child EXCEPT ![j] = "locked"] /\ lock' = j /\ base' = [base EXCEPT ![j] = gen]
          /\ UNCHANGED <<gen, pend, hostDone, flying, drawn, result, faults, jobVars, serverVars>>
      BY <2>1
    <3> QED
      BY <3>1 DEF TypeOK, Ended
  <2>2. CASE ~(lock = None /\ MayRun(j))
    <3>1. /\ child' = [child EXCEPT ![j] = "ended"] /\ result' = [result EXCEPT ![j] = "rejected"]
          /\ UNCHANGED <<gen, pend, hostDone, flying, drawn, lock, base, faults, jobVars, serverVars>>
      BY <2>2
    <3>2. "rejected" \in Outcomes /\ "ended" \in Ended
      BY DEF Outcomes, Ended
    <3> HIDE DEF ChildLock
    <3> QED
      BY <3>1, <3>2 DEF TypeOK
  <2> QED
    BY <2>1, <2>2
<1>2. Asked'
  BY DEF TypeOK, Asked, Locked, Working, Early, Late, Ended
<1>3. Locked'
  BY DEF TypeOK, Locked, Working, Early, Late, Ended
<1>4. Changing'
  BY DEF TypeOK, Changing, Locked, Committed, IsChange, Working, Early, Late, Ended
<1>5. Recovering'
  BY DEF TypeOK, Recovering, Changing, Settled, Locked, Committed, OnceBegun, Begun, Asked, IsChange, Working, Early, Late, Ended
<1>6. OnceBegun'
  <2>1. \A o : Begun(o) => Begun(o)'
    BY BegunStays DEF TypeOK, Late, Ended
  <2>2. Begun(pend)'
    BY <2>1 DEF TypeOK, OnceBegun, Begun, Locked, Changing, Recovering, IsChange, Working, Early, Late, Ended
  <2> QED
    BY <2>1, <2>2 DEF OnceBegun, IsChange
<1>7. Committed'
  <2>1. UNCHANGED <<gen, pend, hostDone, flying, drawn, body>>
    OBVIOUS
  <2>2. \A k \in Jobs : child'[k] = child[k] \/ (k = j /\ child[k] = "started" /\ child'[k] \in {"locked", "ended"})
    BY DEF TypeOK
  <2> QED
    BY <2>1, <2>2, CommittedStays DEF Ended
<1>8. Reported'
  BY DEF TypeOK, Reported, Subject, Settled, Begun, OnceBegun, Committed, Asked, Locked, Changing, Recovering, IsChange, MayRun, Outcomes, Working, Early, Late, Ended
<1>9. Alone'
  BY DEF TypeOK, Alone, Abandoned, SameRequest
<1> QED
  BY <1>1, <1>2, <1>3, <1>4, <1>5, <1>6, <1>7, <1>8, <1>9

(* A change goes from its backup to its commit and its save.               *)
LEMMA ChildDevicesKeeps ==
  ASSUME IInv, NEW j \in Jobs, ChildDevices(j)
  PROVE  IInv'
<1> USE DEF IInv, ChildDevices, Move, ChildOnly, NoFault, dirVars, serverVars, childVars, jobVars
<1>1. TypeOK'
  <2>1. gen' \in Nat
    BY DEF TypeOK
  <2>2. pend' \in Opers \cup {None} /\ lock' \in Jobs \cup {None} /\ hostDone' \subseteq Opers /\ flying' \subseteq Jobs
    BY DEF TypeOK, Opers
  <2>3. \E x \in {"marked", "backed", "begun", "committed", "saved", "done"} : child' = [child EXCEPT ![j] = x]
    OBVIOUS
  <2>4. result' = result /\ base' = base /\ faults' = faults
    OBVIOUS
  <2>5. UNCHANGED <<req, body, disk, mem, life, session, worker, admitting>>
    OBVIOUS
  <2>6. drawn' = drawn
    OBVIOUS
  <2> QED
    BY <2>1, <2>2, <2>3, <2>4, <2>5, <2>6 DEF TypeOK, Ended, Outcomes
<1>2. Asked'
  BY DEF TypeOK, Asked, Locked, Working, Early, Late, Ended
<1>3. Locked'
  BY DEF TypeOK, Locked, Working, Early, Late, Ended
<1>4. Changing'
  BY SMTT(30) DEF TypeOK, Changing, Locked, Committed, IsChange, Working, Early, Late, Ended
<1>5. Recovering'
  BY DEF TypeOK, Recovering, Changing, Settled, Locked, Committed, OnceBegun, Begun, Asked, IsChange, Working, Early, Late, Ended
<1>6. OnceBegun'
  <2>1. \A o : Begun(o) => Begun(o)'
    BY BegunStays DEF TypeOK, Late, Ended
  <2>2. Begun(pend)'
    BY <2>1 DEF TypeOK, OnceBegun, Begun, Locked, Changing, Recovering, IsChange, Working, Early, Late, Ended
  <2> QED
    BY <2>1, <2>2 DEF OnceBegun, IsChange
<1>7. Committed'
  <2>1. /\ lock = j /\ child[j] \in Working /\ body' = body /\ drawn' = drawn /\ flying' = flying
        /\ \A k \in Jobs \ {j} : child[k] \notin Working /\ child'[k] = child[k]
    BY DEF TypeOK, Locked, Working, Early, Late
  <2>2. \A k \in Jobs : k \in flying => pend = k /\ k # j
    BY <2>1 DEF Committed, Ended, Working, Early, Late
  <2>3. \A k \in Jobs : k \in flying => FALSE
    BY <2>1, <2>2 DEF Changing, Committed, Working, Early, Late
  <2>4. \A k \in Jobs : gen \in Nat /\ body[k].gen \in Nat
    BY DEF TypeOK
  <2>5. CASE child[j] \in Early
    <3>1. gen' = gen /\ hostDone' = hostDone /\ j \notin hostDone /\ child'[j] \in {"marked", "backed", "begun"}
      BY SMTT(30), <2>1, <2>5 DEF TypeOK, Committed, Early, Ended
    <3>2. \A k \in Jobs : k \in hostDone => gen > body[k].gen
      BY <2>1, <2>4, <2>5 DEF Changing, Committed, Working, Early
    <3> QED
      BY <2>1, <2>3, <3>1, <3>2 DEF Committed, Working, Early, Late, IsChange
  <2>6. CASE child[j] = "begun"
    <3>1. gen' = gen /\ pend' = pend /\ hostDone' = hostDone \cup {j} /\ child'[j] = "committed"
      BY <2>1, <2>6 DEF TypeOK
    <3>2. gen = body[j].gen /\ pend = j
      BY <2>1, <2>6 DEF Changing, Late
    <3>3. \A k \in Jobs \ {j} : k \in hostDone => gen > body[k].gen
      BY <2>4, <3>2 DEF Committed
    <3> QED
      BY <2>1, <2>3, <2>4, <3>1, <3>2, <3>3 DEF Committed, Working, Early, Late, IsChange
  <2>7. CASE child[j] = "committed"
    <3>1. gen' = gen + 1 /\ pend' = pend /\ hostDone' = hostDone /\ child'[j] = "saved"
      BY <2>1, <2>7 DEF TypeOK
    <3> QED
      BY <2>1, <2>3, <2>4, <2>7, <3>1 DEF Committed, Working, Early, Late, IsChange
  <2>8. CASE child[j] = "saved"
    <3>1. gen' = gen /\ pend' = None /\ hostDone' = hostDone /\ child'[j] = "done"
      BY <2>1, <2>8 DEF TypeOK
    <3>2. \A k \in Jobs : k \in hostDone => gen > body[k].gen
      BY <2>1, <2>4, <2>8 DEF Changing, Committed, Late
    <3> QED
      BY <2>1, <2>3, <2>8, <3>1, <3>2 DEF Committed, Working, Early, Late, IsChange
  <2> QED
    BY <2>1, <2>5, <2>6, <2>7, <2>8 DEF Early
<1>8. Reported'
  BY DEF TypeOK, Reported, Subject, Settled, Begun, OnceBegun, Committed, Asked, Locked, Changing, Recovering, IsChange, MayRun, Outcomes, Working, Early, Late, Ended
<1>9. Alone'
  BY DEF TypeOK, Alone, Abandoned, SameRequest
<1> QED
  BY <1>1, <1>2, <1>3, <1>4, <1>5, <1>6, <1>7, <1>8, <1>9

(* A recovery saves what was committed and drops what was not.             *)
LEMMA ChildRecoverKeeps ==
  ASSUME IInv, NEW j \in Jobs, ChildRecover(j)
  PROVE  IInv'
<1> USE DEF IInv, ChildRecover, Move, ChildOnly, NoFault, dirVars, serverVars, childVars, jobVars
<1>1. TypeOK'
  <2>1. gen' \in Nat
    BY DEF TypeOK
  <2>2. pend' \in Opers \cup {None} /\ lock' \in Jobs \cup {None} /\ hostDone' \subseteq Opers /\ flying' \subseteq Jobs
    BY DEF TypeOK, Opers
  <2>3. \E x \in {"saved", "done"} : child' = [child EXCEPT ![j] = x]
    OBVIOUS
  <2>4. result' = result /\ base' = base /\ faults' = faults
    OBVIOUS
  <2>5. UNCHANGED <<req, body, disk, mem, life, session, worker, admitting>>
    OBVIOUS
  <2>6. drawn' = drawn
    OBVIOUS
  <2> QED
    BY <2>1, <2>2, <2>3, <2>4, <2>5, <2>6 DEF TypeOK, Ended, Outcomes
<1>2. Asked'
  BY DEF TypeOK, Asked, Locked, Working, Early, Late, Ended
<1>3. Locked'
  BY DEF TypeOK, Locked, Working, Early, Late, Ended
<1>4. Changing'
  BY DEF TypeOK, Changing, Locked, Committed, IsChange, Working, Early, Late, Ended
<1>5. Recovering'
  BY DEF TypeOK, Recovering, Changing, Settled, Locked, Committed, OnceBegun, Begun, Asked, IsChange, Working, Early, Late, Ended
<1>6. OnceBegun'
  <2>1. \A o : Begun(o) => Begun(o)'
    BY BegunStays DEF TypeOK, Late, Ended
  <2>2. Begun(pend)'
    BY <2>1 DEF TypeOK, OnceBegun, Begun, Locked, Changing, Recovering, IsChange, Working, Early, Late, Ended
  <2> QED
    BY <2>1, <2>2 DEF OnceBegun, IsChange
<1>7. Committed'
  <2>1. /\ lock = j /\ child[j] \in Working /\ req[j] # None /\ ~IsChange(j)
        /\ hostDone' = hostDone /\ body' = body /\ drawn' = drawn
    BY DEF Locked, Asked, Working, Early, Late
  <2>2. /\ \A k \in Jobs \ {j} : child[k] \notin Working /\ child'[k] = child[k]
        /\ j \notin hostDone \cup flying
    BY <2>1 DEF TypeOK, Locked, Committed
  <2>3. \A k \in Jobs : gen \in Nat /\ body[k].gen \in Nat
    BY DEF TypeOK
  <2>4. CASE child[j] = "locked"
    <3>1. pend' = pend /\ pend = body[j].op /\ child'[j] = "saved"
      BY <2>1, <2>4 DEF TypeOK, Recovering
    <3>2. CASE gen' = gen + 1 /\ flying' = flying /\ body[j].op \in hostDone \cup {"backup"}
      <4>1. \A k \in Jobs : k \notin flying
        BY <3>1, <3>2 DEF Committed
      <4> QED
        BY <2>1, <2>2, <2>3, <3>1, <3>2, <4>1 DEF Committed, Working, Early, Late, IsChange
    <3>3. CASE gen' = gen /\ flying' = flying \ {body[j].op}
      BY <2>1, <2>2, <3>1, <3>3 DEF Committed, Working, Early, Late, IsChange
    <3> QED
      BY <2>4, <3>2, <3>3
  <2>5. CASE child[j] = "saved"
    <3>1. pend' = None /\ pend = body[j].op /\ gen' = gen /\ flying' = flying /\ child'[j] = "done"
      BY <2>1, <2>5 DEF TypeOK, Recovering
    <3>2. \A k \in Jobs : k \notin flying /\ (k \in hostDone => gen > body[k].gen)
      BY <2>1, <2>3, <2>5, <3>1 DEF Committed, Recovering, Settled
    <3> QED
      BY <2>1, <2>2, <3>1, <3>2 DEF Committed, Working, Early, Late, IsChange
  <2> QED
    BY <2>4, <2>5
<1>8. Reported'
  <2>1. /\ body' = body /\ result' = result /\ disk' = disk /\ mem' = mem
        /\ hostDone' = hostDone /\ flying' \subseteq flying
    OBVIOUS
  <2>2. child[j] \in {"locked", "saved"} /\ \A k \in Jobs \ {j} : child'[k] = child[k]
    BY DEF TypeOK, Move
  <2>3. \A k \in Jobs : child[k] \in Ended => child'[k] = child[k]
    BY <2>2 DEF Ended
  <2>4. \A o : Settled(o) => Settled(o)'
    BY <2>1 DEF Settled
  <2>5. \A k \in Jobs : Subject(k)' = Subject(k) /\ IsChange(k)' = IsChange(k)
    BY <2>1 DEF Subject, IsChange
  <2>6. \A k \in Jobs : result[k] # None => child[k] = "ended" /\ child'[k] = "ended"
    BY <2>3 DEF Reported, Ended
  <2> QED
    BY <2>1, <2>3, <2>4, <2>5, <2>6 DEF Reported, Ended
<1>9. Alone'
  BY DEF TypeOK, Alone, Abandoned, SameRequest
<1> QED
  BY <1>1, <1>2, <1>3, <1>4, <1>5, <1>6, <1>7, <1>8, <1>9

(* The verdict of a command that ended is true.                            *)
LEMMA ChildDoneKeeps ==
  ASSUME IInv, NEW j \in Jobs, ChildDone(j)
  PROVE  IInv'
<1> USE DEF IInv, dirVars, serverVars, childVars, jobVars
<1>0. /\ lock = j /\ lock' = None /\ child' = [child EXCEPT ![j] = "ended"]
      /\ \E out \in Outcomes :
           /\ result' = [result EXCEPT ![j] = out]
           /\ out = "committed" => Subject(j) \in hostDone
           /\ out = "rolled_back" \/ (IsChange(j) /\ out \in {"rejected", "unchanged"})
                => /\ Settled(Subject(j)) /\ child[j] # "begun"
                   /\ Subject(j) \in Jobs \ {j} => child[Subject(j)] \in Ended
      /\ UNCHANGED <<dirVars, jobVars, serverVars, base, faults>> /\ child[j] = "done"
  <2>1. lock = j
    BY DEF ChildDone, Locked, Working
  <2> QED
    BY <2>1, VerdictTrue DEF ChildDone, Report, ChildOnly, NoFault, dirVars
<1>1. TypeOK'
  BY <1>0 DEF TypeOK, Asked, Outcomes, Records, Opers, Working, Early, Late, Ended
<1>2. Asked'
  BY <1>0 DEF TypeOK, Asked, Locked, Working, Early, Late, Ended
<1>3. Locked'
  BY <1>0 DEF TypeOK, Locked, Working, Early, Late, Ended
<1>4. Changing'
  BY <1>0 DEF TypeOK, Changing, Locked, Committed, IsChange, Working, Early, Late, Ended
<1>5. Recovering'
  BY <1>0 DEF TypeOK, Recovering, Changing, Settled, Locked, Committed, OnceBegun, Begun, Asked, IsChange, Working, Early, Late, Ended
<1>6. OnceBegun'
  BY <1>0 DEF TypeOK, OnceBegun, Begun, Locked, Changing, Recovering, IsChange, Working, Early, Late, Ended
<1>7. Committed'
  BY <1>0 DEF TypeOK, Committed, Asked, Locked, Changing, Recovering, Settled, IsChange, Working, Early, Late, Ended
<1>8. Reported'
  BY <1>0 DEF TypeOK, Reported, Subject, Settled, Begun, OnceBegun, Committed, Asked, Locked, Changing, Recovering, IsChange, MayRun, Outcomes, Working, Early, Late, Ended
<1>9. Alone'
  BY <1>0 DEF TypeOK, Alone, Abandoned, SameRequest
<1> QED
  BY <1>1, <1>2, <1>3, <1>4, <1>5, <1>6, <1>7, <1>8, <1>9

(* The verdict of a command that failed is true.                           *)
LEMMA ChildFailsKeeps ==
  ASSUME IInv, NEW j \in Jobs, ChildFails(j)
  PROVE  IInv'
<1> USE DEF IInv, ChildFails, Report, ChildOnly, Fault, Alive, dirVars, serverVars, childVars, jobVars
<1>0. /\ lock = j /\ lock' = None /\ child' = [child EXCEPT ![j] = "ended"]
      /\ \E out \in Outcomes :
           /\ result' = [result EXCEPT ![j] = out]
           /\ out = "committed" => Subject(j) \in hostDone
           /\ out = "rolled_back" \/ (IsChange(j) /\ out \in {"rejected", "unchanged"})
                => /\ Settled(Subject(j)) /\ child[j] # "begun"
                   /\ Subject(j) \in Jobs \ {j} => child[Subject(j)] \in Ended
      /\ faults' = faults + 1 /\ faults < MaxFaults
      /\ flying' = IF child[j] = "begun" THEN flying \cup {j} ELSE flying
      /\ UNCHANGED <<gen, pend, hostDone, drawn, jobVars, serverVars, base>>
  <2>1. lock = j /\ child[j] \in Working
    BY DEF TypeOK, Locked, Ended, Working, Early, Late
  <2>2. CASE Report(j, TRUE)
    BY <2>1, <2>2, VerdictTrue
  <2>3. CASE ~IsChange(j) /\ child[j] = "locked" /\ Report(j, FALSE)
    BY <2>1, <2>3, VerdictTrue
  <2> QED
    BY <2>2, <2>3
<1>1. TypeOK'
  BY <1>0 DEF TypeOK, Asked, Outcomes, Records, Opers, Working, Early, Late, Ended
<1>2. Asked'
  BY <1>0 DEF TypeOK, Asked, Locked, Working, Early, Late, Ended
<1>3. Locked'
  BY <1>0 DEF TypeOK, Locked, Working, Early, Late, Ended
<1>4. Changing'
  BY <1>0 DEF TypeOK, Changing, Locked, Committed, IsChange, Working, Early, Late, Ended
<1>5. Recovering'
  BY <1>0 DEF TypeOK, Recovering, Changing, Settled, Locked, Committed, OnceBegun, Begun, Asked, IsChange, Working, Early, Late, Ended
<1>6. OnceBegun'
  BY <1>0 DEF TypeOK, OnceBegun, Begun, Locked, Changing, Recovering, IsChange, Working, Early, Late, Ended
<1>7. Committed'
  BY <1>0 DEF TypeOK, Committed, Asked, Locked, Changing, Recovering, Settled, IsChange, Working, Early, Late, Ended
<1>8. Reported'
  BY <1>0 DEF TypeOK, Reported, Subject, Settled, Begun, OnceBegun, Committed, Asked, Locked, Changing, Recovering, IsChange, MayRun, Outcomes, Working, Early, Late, Ended
<1>9. Alone'
  BY <1>0 DEF TypeOK, Alone, Abandoned, SameRequest
<1> QED
  BY <1>1, <1>2, <1>3, <1>4, <1>5, <1>6, <1>7, <1>8, <1>9

(* A child that dies leaves what it did, and maybe a late commit.          *)
LEMMA ChildDiesKeeps ==
  ASSUME IInv, NEW j \in Jobs, ChildDies(j)
  PROVE  IInv'
<1> USE DEF IInv, ChildDies, KillChild, ChildOnly, Fault, Alive, dirVars, serverVars, childVars, jobVars
<1>1. TypeOK'
  BY DEF TypeOK, Asked, Outcomes, Records, Opers, Working, Early, Late, Ended
<1>2. Asked'
  BY DEF TypeOK, Asked, Locked, Working, Early, Late, Ended
<1>3. Locked'
  BY DEF TypeOK, Locked, Working, Early, Late, Ended
<1>4. Changing'
  BY DEF TypeOK, Changing, Locked, Committed, IsChange, Working, Early, Late, Ended
<1>5. Recovering'
  BY DEF TypeOK, Recovering, Changing, Settled, Locked, Committed, OnceBegun, Begun, Asked, IsChange, Working, Early, Late, Ended
<1>6. OnceBegun'
  BY DEF TypeOK, OnceBegun, Begun, Locked, Changing, Recovering, IsChange, Working, Early, Late, Ended
<1>7. Committed'
  BY DEF TypeOK, Committed, Asked, Locked, Changing, Recovering, Settled, IsChange, Working, Early, Late, Ended
<1>8. Reported'
  BY DEF TypeOK, Reported, Subject, Settled, Begun, OnceBegun, Committed, Asked, Locked, Changing, Recovering, IsChange, MayRun, Outcomes, Working, Early, Late, Ended
<1>9. Alone'
  BY DEF TypeOK, Alone, Abandoned, SameRequest
<1> QED
  BY <1>1, <1>2, <1>3, <1>4, <1>5, <1>6, <1>7, <1>8, <1>9

(* A late commit is of the operation that is still pending.                *)
LEMMA LateCommitKeeps ==
  ASSUME IInv, NEW o \in Jobs, LateCommit(o)
  PROVE  IInv'
<1> USE DEF IInv, LateCommit, NoFault, dirVars, serverVars, childVars, jobVars
<1>1. TypeOK'
  BY DEF TypeOK, Asked, Outcomes, Records, Opers, Working, Early, Late, Ended
<1>2. Asked'
  BY DEF TypeOK, Asked, Locked, Working, Early, Late, Ended
<1>3. Locked'
  BY DEF TypeOK, Locked, Working, Early, Late, Ended
<1>4. Changing'
  BY DEF TypeOK, Changing, Locked, Committed, IsChange, Working, Early, Late, Ended
<1>5. Recovering'
  BY DEF TypeOK, Recovering, Changing, Settled, Locked, Committed, OnceBegun, Begun, Asked, IsChange, Working, Early, Late, Ended
<1>6. OnceBegun'
  BY DEF TypeOK, OnceBegun, Begun, Locked, Changing, Recovering, IsChange, Working, Early, Late, Ended
<1>7. Committed'
  BY SMTT(30) DEF TypeOK, Committed, Asked, Locked, Changing, Recovering, Settled, IsChange, Working, Early, Late, Ended
<1>8. Reported'
  BY DEF TypeOK, Reported, Subject, Settled, Begun, OnceBegun, Committed, Asked, Locked, Changing, Recovering, IsChange, MayRun, Outcomes, Working, Early, Late, Ended
<1>9. Alone'
  BY DEF TypeOK, Alone, Abandoned, SameRequest
<1> QED
  BY <1>1, <1>2, <1>3, <1>4, <1>5, <1>6, <1>7, <1>8, <1>9

(* A reboot ends every process and keeps the files.                        *)
LEMMA RebootKeeps ==
  ASSUME IInv, Reboot
  PROVE  IInv'
<1> USE DEF IInv, Reboot, Alive, Fault, dirVars, serverVars, childVars, jobVars
<1>1. TypeOK'
  BY DEF TypeOK, Asked, Outcomes, Records, Opers, Working, Early, Late, Ended
<1>2. Asked'
  BY DEF TypeOK, Asked, Locked, Working, Early, Late, Ended
<1>3. Locked'
  BY DEF TypeOK, Locked, Working, Early, Late, Ended
<1>4. Changing'
  BY DEF TypeOK, Changing, Locked, Committed, IsChange, Working, Early, Late, Ended
<1>5. Recovering'
  BY DEF TypeOK, Recovering, Changing, Settled, Locked, Committed, OnceBegun, Begun, Asked, IsChange, Working, Early, Late, Ended
<1>6. OnceBegun'
  BY DEF TypeOK, OnceBegun, Begun, Locked, Changing, Recovering, IsChange, Working, Early, Late, Ended
<1>7. Committed'
  BY DEF TypeOK, Committed, Asked, Locked, Changing, Recovering, Settled, IsChange, Working, Early, Late, Ended
<1>8. Reported'
  BY DEF TypeOK, Reported, Subject, Settled, Begun, OnceBegun, Committed, Asked, Locked, Changing, Recovering, IsChange, MayRun, Outcomes, Working, Early, Late, Ended
<1>9. Alone'
  BY DEF TypeOK, Alone, Abandoned, SameRequest
<1> QED
  BY <1>1, <1>2, <1>3, <1>4, <1>5, <1>6, <1>7, <1>8, <1>9

(* A command of a terminal finds nobody at work.                           *)
LEMMA ShellCommandKeeps ==
  ASSUME IInv, ShellCommand
  PROVE  IInv'
<1> USE DEF IInv, ShellCommand, Fault, dirVars, serverVars, childVars, jobVars
<1>1. TypeOK'
  <2>1. gen' \in Nat
    BY DEF TypeOK
  <2>2. pend' \in Opers \cup {None} /\ lock' \in Jobs \cup {None} /\ hostDone' \subseteq Opers /\ flying' \subseteq Jobs
    BY DEF TypeOK, Opers
  <2>3. child' = child
    OBVIOUS
  <2>4. result' = result /\ base' = base /\ faults' \in 0..MaxFaults
    BY DEF TypeOK
  <2>5. UNCHANGED <<req, body, disk, mem, life, session, worker, admitting>>
    OBVIOUS
  <2>6. drawn' \in BOOLEAN
    BY DEF TypeOK
  <2> QED
    BY <2>1, <2>2, <2>3, <2>4, <2>5, <2>6 DEF TypeOK, Ended, Outcomes
<1>2. Asked'
  BY DEF TypeOK, Asked, Locked, Working, Early, Late, Ended
<1>3. Locked'
  BY DEF TypeOK, Locked, Working, Early, Late, Ended
<1>4. Changing'
  BY DEF TypeOK, Changing, Locked, Committed, IsChange, Working, Early, Late, Ended
<1>5. Recovering'
  BY DEF TypeOK, Recovering, Changing, Settled, Locked, Committed, OnceBegun, Begun, Asked, IsChange, Working, Early, Late, Ended
<1>6. OnceBegun'
  BY DEF TypeOK, OnceBegun, Begun, Locked, Changing, Recovering, IsChange, Working, Early, Late, Ended
<1>7. Committed'
  BY SMTT(30) DEF TypeOK, Committed, Asked, Locked, Changing, Recovering, Settled, IsChange, Working, Early, Late, Ended
<1>8. Reported'
  BY DEF TypeOK, Reported, Subject, Settled, Begun, OnceBegun, Committed, Asked, Locked, Changing, Recovering, IsChange, MayRun, Outcomes, Working, Early, Late, Ended
<1>9. Alone'
  BY DEF TypeOK, Alone, Abandoned, SameRequest
<1> QED
  BY <1>1, <1>2, <1>3, <1>4, <1>5, <1>6, <1>7, <1>8, <1>9


(* The order of Next, disjunct by disjunct. *)
LEMMA StepKeeps == IInv /\ [Next]_vars => IInv'
<1> SUFFICES ASSUME IInv, [Next]_vars PROVE IInv'
  OBVIOUS
<1>1. ASSUME NEW m \in Managers, Start(m) \/ Stop(m) \/ Terminate(m) \/ Crash(m) \/ Manager(m)
      PROVE  IInv'
  BY <1>1, StartKeeps, StopKeeps, TerminateKeeps, CrashKeeps, PersistKeeps, StartWorkerKeeps,
     SpawnKeeps, CollectKeeps, CloseApiKeeps, ReleaseKeeps, ExitKeeps DEF Manager
<1>2. ASSUME NEW m \in Managers, NEW r \in Requests, NEW b \in Bodies, NEW j \in Jobs, Admit(m, r, b, j)
      PROVE  IInv'
  BY <1>2, AdmitKeeps
<1>3. ASSUME NEW j \in Jobs, Child(j) \/ ChildFails(j) \/ ChildDies(j)
      PROVE  IInv'
  BY <1>3, ChildLockKeeps, ChildDevicesKeeps, ChildRecoverKeeps, ChildDoneKeeps, ChildFailsKeeps,
     ChildDiesKeeps DEF Child
<1>4. ASSUME NEW o \in Jobs, LateCommit(o) PROVE IInv'
  BY <1>4, LateCommitKeeps
<1>5. CASE Reboot \/ ShellCommand
  BY <1>5, RebootKeeps, ShellCommandKeeps
<1>6. CASE UNCHANGED vars
  <2>1. TypeOK' /\ Asked' /\ Locked' /\ Alone'
    BY <1>6 DEF IInv, TypeOK, Asked, Locked, Alone, Abandoned, SameRequest, vars, dirVars, serverVars,
       childVars, jobVars
  <2>2. Changing' /\ Recovering' /\ OnceBegun' /\ Committed' /\ Reported'
    BY <1>6 DEF IInv, Changing, Recovering, Settled, OnceBegun, Begun, Committed, Reported, Subject,
       IsChange, vars, dirVars, serverVars, childVars, jobVars
  <2> QED
    BY <2>1, <2>2 DEF IInv
<1> QED
  BY <1>1, <1>2, <1>3, <1>4, <1>5, <1>6 DEF Next

(* The inductive invariant holds of every state the managers, their        *)
(* children and the terminals can reach.                                   *)
THEOREM Invariance == Spec => []IInv
BY InitHolds, StepKeeps, PTL DEF Spec

-----------------------------------------------------------------------------
(* The state directory, the managers and the children keep their types. *)
THEOREM TypeCorrect == Spec => []TypeOK
<1>1. IInv => TypeOK
  BY DEF IInv
<1> QED
  BY <1>1, Invariance, PTL

(* A request takes effect once, even where two jobs of it run, and no      *)
(* outcome that was recorded or shown is ever belied by a late commit.     *)
THEOREM ReportsAlwaysHold == Spec => []ReportsHold
<1>1. IInv => EffectOnce
  <2> SUFFICES ASSUME IInv, NEW j \in Jobs, NEW k \in Jobs, SameRequest(j, k), IsChange(j),
                      j \in hostDone, k \in hostDone
               PROVE  FALSE
    BY DEF EffectOnce
  <2>1. body[j] = body[k] /\ j # k
    BY DEF IInv, Asked, SameRequest
  <2> QED
    BY <2>1 DEF IInv, Committed, TypeOK
<1>2. IInv => OutcomesTrue
  <2> SUFFICES ASSUME IInv, NEW j \in Jobs, NEW outcome \in {disk[j]} \cup {mem[m][j] : m \in Managers}
               PROVE  /\ outcome = "committed" => Subject(j) \in hostDone
                      /\ outcome = "rolled_back" \/ (IsChange(j) /\ outcome \in {"rejected", "unchanged"})
                           => Subject(j) \notin hostDone \cup flying
    BY DEF OutcomesTrue, Subject
  <2>1. outcome \in {None, "running", "recovery_required", result[j]}
    BY DEF IInv, Reported
  <2> QED
    BY <2>1 DEF IInv, Reported, Settled, None
<1> QED
  BY <1>1, <1>2, Invariance, PTL DEF ReportsHold

(* Of two jobs of one request that both ran, one was being admitted when   *)
(* its manager was stopped; otherwise a request runs at most once, however *)
(* often it is posted and whatever is stopped, dies and is started again.  *)
THEOREM AlwaysAtMostOnce == Spec => []AtMostOnce
<1>1. IInv => AtMostOnce
  BY DEF IInv, Alone, Abandoned, AtMostOnce
<1> QED
  BY <1>1, Invariance, PTL

(* What the host commits for a job, in time or late, is of the generation  *)
(* the page showed, and is what pending.json says.                         *)
THEOREM AlwaysCommitsAsShown == Spec => CommitsAsShown
<1>1. IInv /\ [Next]_vars => \A j \in hostDone' \ hostDone : j # Shell => gen = body[j].gen /\ pend = j
  <2> SUFFICES ASSUME IInv, [Next]_vars, NEW j \in hostDone' \ hostDone, j # Shell
               PROVE  gen = body[j].gen /\ pend = j
    OBVIOUS
  <2>1. ASSUME NEW k \in Jobs, ChildDevices(k) PROVE gen = body[j].gen /\ pend = j
    <3>1. j = k /\ IsChange(k) /\ child[k] = "begun"
      BY <2>1 DEF ChildDevices, Move
    <3> QED
      BY <3>1 DEF IInv, Changing, Working, Early, Late
  <2>2. ASSUME NEW o \in Jobs, LateCommit(o) PROVE gen = body[j].gen /\ pend = j
    BY <2>2 DEF LateCommit, IInv, Committed
  <2>3. CASE ShellCommand
    BY <2>3 DEF ShellCommand
  <2>4. ASSUME NEW m \in Managers,
               \/ Start(m) \/ Stop(m) \/ Terminate(m) \/ Crash(m) \/ Manager(m)
               \/ \E r \in Requests, b \in Bodies, k \in Jobs : Admit(m, r, b, k)
        PROVE  hostDone' = hostDone
    <3>1. Start(m) \/ Stop(m) \/ Terminate(m) \/ Crash(m) => hostDone' = hostDone
      BY DEF Start, Stop, Terminate, Crash, KillChild, dirVars
    <3>2. Persist(m) \/ StartWorker(m) \/ Spawn(m) \/ Collect(m) => hostDone' = hostDone
      BY DEF Persist, StartWorker, Spawn, Collect, dirVars
    <3>3. CloseApi(m) \/ Release(m) \/ Exit(m) => hostDone' = hostDone
      BY DEF CloseApi, Release, Exit, dirVars
    <3>4. \A r \in Requests, b \in Bodies, k \in Jobs : Admit(m, r, b, k) => hostDone' = hostDone
      BY DEF Admit, dirVars
    <3> QED
      BY <2>4, <3>1, <3>2, <3>3, <3>4 DEF Manager
  <2>5. ASSUME NEW k \in Jobs, Child(k) \/ ChildFails(k) \/ ChildDies(k), ~ChildDevices(k)
        PROVE  hostDone' = hostDone
    BY <2>5 DEF Child, ChildLock, ChildRecover, ChildDone, ChildFails, ChildDies, KillChild, Report, dirVars
  <2>6. Reboot \/ UNCHANGED vars => hostDone' = hostDone
    BY DEF Reboot, vars, dirVars
  <2> QED
    BY <2>1, <2>2, <2>3, <2>4, <2>5, <2>6 DEF Next
<1> QED
  BY <1>1, Invariance, PTL DEF Spec, CommitsAsShown

=============================================================================
