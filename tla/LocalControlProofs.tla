--------------------------- MODULE LocalControlProofs ---------------------------
(***************************************************************************)
(* Proofs about LocalControl: IInv is an inductive invariant of the        *)
(* specification for any number of PCs, operations and faults, and implies *)
(* the safety properties TLC checks.                                       *)
(***************************************************************************)
EXTENDS LocalControl, TLAPS

USE ControlAssumption DEF NoOp, NoVer, NoPC

-----------------------------------------------------------------------------
(* Lemmas about the history of the host *)

(* A step that commits nothing changes nothing of what was published. *)
LEMMA HistoryKept ==
  ASSUME history' = history
  PROVE  Past' = Past /\ \A o : After(o)' = After(o)
BY DEF Past, After

(* What is published was published, and after everything else. *)
LEMMA PublishedIsLast ==
  ASSUME history \in Seq(Versions), history # <<>>
  PROVE  /\ Published \in Past /\ Published \in Versions
         /\ \A o \in Past : Published \in After(o)
<1>1. Len(history) \in 1..Len(history)
  OBVIOUS
<1>2. ASSUME NEW o \in Past PROVE Published \in After(o)
  <2>1. PICK i \in 1..Len(history) : o = history[i]
    BY DEF Past
  <2> QED
    BY <1>1, <2>1 DEF After, Published
<1> QED
  BY <1>1, <1>2 DEF Past, Published

(* A commit is an addition to what was published. *)
LEMMA HistoryGrows ==
  ASSUME history \in Seq(Versions), NEW o \in Versions, history' = Append(history, o)
  PROVE  /\ history' \in Seq(Versions) /\ history' # <<>>
         /\ o \in Past' /\ o \in After(o)' /\ Past \subseteq Past'
         /\ \A x : After(x) \subseteq After(x)'
<1>1. /\ Len(history') = Len(history) + 1 /\ Len(history) \in Nat
      /\ history'[Len(history) + 1] = o
      /\ \A i \in 1..Len(history) : history'[i] = history[i]
  OBVIOUS
<1>2. history' \in Seq(Versions) /\ history' # <<>>
  BY <1>1
<1>3. o \in Past' /\ Past \subseteq Past'
  BY <1>1 DEF Past
<1>4. o \in After(o)'
  BY <1>1 DEF After
<1>5. ASSUME NEW x, NEW v \in After(x) PROVE v \in After(x)'
  <2>1. PICK j \in 1..Len(history) : v = history[j] /\ \E i \in 1..j : history[i] = x
    BY DEF After
  <2>2. j \in 1..Len(history') /\ v = history'[j] /\ \E i \in 1..j : history'[i] = x
    BY <1>1, <2>1
  <2> QED
    BY <2>2 DEF After
<1> QED
  BY <1>2, <1>3, <1>4, <1>5

(* The archives a call or a pull can lead to. *)
LEMMA Shapes ==
  /\ NoArchive \in Archives /\ NoArchive.published = FALSE
  /\ \A p \in PCs, v \in Versions, b \in BOOLEAN :
       [by |-> p, ver |-> v, published |-> b] \in Archives
  /\ \A arc \in Archives : arc.ver \in Versions \cup {NoVer} /\ arc.published \in BOOLEAN
BY DEF Archives, NoArchive, Versions

-----------------------------------------------------------------------------
(* The invariant *)

(* Before anything was asked for, one version is published. *)
LEMMA InitHolds == Init => IInv
<1> SUFFICES ASSUME Init PROVE IInv
  OBVIOUS
<1>1. "base" \in Past
  BY DEF Init, Past
<1>2. TypeOK
  <2>1. history \in Seq(Versions) /\ history # <<>>
    BY DEF Init, Versions
  <2>2. exported \in Archives /\ got \in [PCs -> Archives]
    BY Shapes DEF Init
  <2>3. saved \in [PCs -> Versions \cup {NoVer}] /\ outputs \in [PCs -> Versions \cup {NoVer}]
    BY DEF Init, Versions
  <2>4. /\ hostPending \in [phase : {"absent", "intent", "prepared", "restoring"}, op : Ops \cup {NoOp}]
        /\ pending \in [PCs -> [mode : {"absent", "backup", "change"}, op : Ops \cup {NoOp}]]
    BY DEF Init, Quiet, NoPending
  <2>5. at \in [PCs -> Labels]
    BY DEF Init, Labels
  <2>6. /\ verdict \in [Ops -> {"open", "unchanged", "committed"}] /\ stopIntent \in BOOLEAN
        /\ op \in [PCs -> Ops \cup {NoOp}] /\ issuer \in [Ops -> PCs \cup {NoPC}]
        /\ late = {}
    BY DEF Init
  <2>7. faults \in 0..MaxFaults
    BY DEF Init
  <2> QED
    BY <2>1, <2>2, <2>3, <2>4, <2>5, <2>6, <2>7 DEF Init, TypeOK
<1>3. Hosted /\ Drawn /\ Once /\ Where
  BY Shapes DEF Init, Hosted, Drawn, Once, Where, Decided, Quiet, NoPending
<1>4. Revocable /\ Named
  BY DEF Init, Revocable, Named, Coming, Quiet
<1>5. Archived
  BY Shapes DEF Init, Archived, Reading
<1>6. Kept
  BY <1>1 DEF Init, Kept
<1> QED
  BY <1>2, <1>3, <1>4, <1>5, <1>6 DEF IInv

(* A command draws an operation that nobody has drawn.                     *)
LEMMA BeginKeeps ==
  ASSUME IInv, NEW p \in PCs, NEW o \in Ops \cup {NoOp}, Begin(p, o)
  PROVE  IInv'
<1> USE DEF IInv, Begin, From, Goto, hostSide, disk, command
<1>0. Past' = Past /\ (\A x : After(x)' = After(x)) /\ NoArchive \in Archives /\ NoArchive.published = FALSE
      /\ \A arc \in Archives : arc.ver \in Versions \cup {NoVer}
  BY HistoryKept, Shapes
<1>1. TypeOK'
  BY SMTT(30), <1>0 DEF TypeOK, Labels, NoPending
<1>2. Hosted'
  BY <1>0 DEF TypeOK, Hosted
<1>3. Drawn'
  <2>1. \A x \in Ops : issuer[x] # NoPC => issuer'[x] = issuer[x]
    BY DEF TypeOK
  <2>2. o # NoOp => issuer'[o] = p
    BY DEF TypeOK
  <2>3. \A q \in PCs : op'[q] = IF q = p THEN o ELSE op[q]
    BY DEF TypeOK
  <2> QED
    BY <2>1, <2>2, <2>3 DEF TypeOK, Drawn, Changes
<1>4. Once'
  BY <1>0 DEF TypeOK, Drawn, Once, Changes
<1>5. Where'
  BY <1>0 DEF TypeOK, Drawn, Where, Decided, NoPending
<1>6. Revocable'
  BY <1>0 DEF TypeOK, Hosted, Drawn, Once, Where, Revocable, Coming, Decided, NoPending, Changes
<1>7. Named'
  BY <1>0 DEF TypeOK, Hosted, Drawn, Once, Where, Named, Changes
<1>8. Archived'
  BY <1>0 DEF TypeOK, Hosted, Drawn, Where, Archived, Reading, NoPending
<1>9. Kept'
  <2>1. \A x \in Ops : verdict[x] = "committed" => issuer'[x] = issuer[x]
    BY DEF TypeOK, Drawn
  <2> QED
    BY <1>0, <2>1 DEF TypeOK, Kept
<1> QED
  BY <1>1, <1>2, <1>3, <1>4, <1>5, <1>6, <1>7, <1>8, <1>9

(* A command that goes on after status knows what it knew before.          *)
LEMMA StatusKeeps ==
  ASSUME IInv, NEW p \in PCs, Status(p)
  PROVE  IInv'
<1> USE DEF IInv, Status, End, Goto, hostSide, disk, command
<1>0. Past' = Past /\ (\A x : After(x)' = After(x)) /\ NoArchive \in Archives /\ NoArchive.published = FALSE
      /\ \A arc \in Archives : arc.ver \in Versions \cup {NoVer}
  BY HistoryKept, Shapes
<1>e. \/ /\ at' = [at EXCEPT ![p] = "idle"] /\ op' = [op EXCEPT ![p] = NoOp]
         /\ got' = [got EXCEPT ![p] = NoArchive]
      \/ at' = [at EXCEPT ![p] = "c_mark"] /\ op' = op /\ got' = got
      \/ at' = [at EXCEPT ![p] = "m_outputs"] /\ op' = op /\ got' = got
      \/ at' = [at EXCEPT ![p] = "r_backup"] /\ op' = op /\ got' = got
  OBVIOUS
<1>1. TypeOK'
  <2>1. /\ hostPending' \in [phase : {"absent", "intent", "prepared", "restoring"}, op : Ops \cup {NoOp}]
        /\ verdict' \in [Ops -> {"open", "unchanged", "committed"}]
        /\ history' \in Seq(Versions) /\ history' # <<>>
        /\ stopIntent' \in BOOLEAN /\ exported' \in Archives
    BY <1>0 DEF TypeOK
  <2>2. at' \in [PCs -> Labels] /\ op' \in [PCs -> Ops \cup {NoOp}] /\ got' \in [PCs -> Archives]
    <3>1. at \in [PCs -> Labels] /\ op \in [PCs -> Ops \cup {NoOp}] /\ got \in [PCs -> Archives]
      BY DEF TypeOK
    <3> HIDE DEF Status, IInv
    <3> QED
      BY <1>0, <1>e, <3>1 DEF Labels
  <2>4. /\ pending' \in [PCs -> [mode : {"absent", "backup", "change"}, op : Ops \cup {NoOp}]]
        /\ saved' \in [PCs -> Versions \cup {NoVer}] /\ outputs' \in [PCs -> Versions \cup {NoVer}]
    BY <1>0 DEF TypeOK, NoPending
  <2>5. /\ issuer' \in [Ops -> PCs \cup {NoPC}] /\ faults' \in 0..MaxFaults
        /\ late' \subseteq [kind : {"backup", "prepare", "commit", "abort"}, pc : PCs,
                           arc : Archives, op : Ops \cup {NoOp}]
    BY <1>0 DEF TypeOK
  <2> QED
    BY <2>1, <2>2, <2>4, <2>5 DEF TypeOK
<1>2. Hosted'
  BY <1>0 DEF TypeOK, Hosted
<1>3. Drawn'
  BY <1>0 DEF TypeOK, Hosted, Drawn, NoPending
<1>4. Once'
  BY <1>0 DEF TypeOK, Drawn, Once, Changes
<1>5. Where'
  BY <1>0 DEF TypeOK, Drawn, Where, Decided, NoPending
<1>6. Revocable'
  BY <1>0 DEF TypeOK, Hosted, Drawn, Once, Where, Revocable, Coming, Decided, NoPending, Changes
<1>7. Named'
  BY <1>0 DEF TypeOK, Hosted, Drawn, Once, Where, Named, Changes
<1>8. Archived'
  BY <1>0 DEF TypeOK, Hosted, Drawn, Where, Archived, Reading, NoPending
<1>9. Kept'
  BY <1>0 DEF TypeOK, Hosted, Drawn, Where, Decided, Archived, Reading, Kept, NoPending
<1> QED
  BY <1>1, <1>2, <1>3, <1>4, <1>5, <1>6, <1>7, <1>8, <1>9

(* A mark of a backup is written where nothing was pending.                *)
LEMMA MarkBackupKeeps ==
  ASSUME IInv, NEW p \in PCs, MarkBackup(p)
  PROVE  IInv'
<1> USE DEF IInv, MarkBackup, From, Goto, SetPending, hostSide, disk, command
<1>0. Past' = Past /\ (\A x : After(x)' = After(x)) /\ NoArchive \in Archives /\ NoArchive.published = FALSE
      /\ \A arc \in Archives : arc.ver \in Versions \cup {NoVer}
  BY HistoryKept, Shapes
<1>1. TypeOK'
  BY <1>0 DEF TypeOK, Labels, NoPending
<1>2. Hosted'
  BY <1>0 DEF TypeOK, Hosted
<1>3. Drawn'
  BY <1>0 DEF TypeOK, Hosted, Drawn, NoPending
<1>4. Once'
  BY <1>0 DEF TypeOK, Drawn, Once, Changes
<1>5. Where'
  BY <1>0 DEF TypeOK, Drawn, Where, Decided, NoPending
<1>6. Revocable'
  BY <1>0 DEF TypeOK, Hosted, Drawn, Once, Where, Revocable, Coming, Decided, NoPending, Changes
<1>7. Named'
  BY <1>0 DEF TypeOK, Hosted, Drawn, Once, Where, Named, Changes
<1>8. Archived'
  BY <1>0 DEF TypeOK, Hosted, Drawn, Where, Archived, Reading, NoPending
<1>9. Kept'
  BY <1>0 DEF TypeOK, Hosted, Drawn, Where, Decided, Archived, Reading, Kept, NoPending
<1> QED
  BY <1>1, <1>2, <1>3, <1>4, <1>5, <1>6, <1>7, <1>8, <1>9

(* The mark of a backup goes; it names no operation.                       *)
LEMMA ClearBackupKeeps ==
  ASSUME IInv, NEW p \in PCs, ClearBackup(p)
  PROVE  IInv'
<1> USE DEF IInv, ClearBackup, From, Goto, hostSide, disk, command
<1>0. Past' = Past /\ (\A x : After(x)' = After(x)) /\ NoArchive \in Archives /\ NoArchive.published = FALSE
      /\ \A arc \in Archives : arc.ver \in Versions \cup {NoVer}
  BY HistoryKept, Shapes
<1>1. TypeOK'
  BY <1>0 DEF TypeOK, Labels, NoPending
<1>2. Hosted'
  BY <1>0 DEF TypeOK, Hosted
<1>3. Drawn'
  BY <1>0 DEF TypeOK, Hosted, Drawn, NoPending
<1>4. Once'
  BY <1>0 DEF TypeOK, Drawn, Once, Changes
<1>5. Where'
  BY <1>0 DEF TypeOK, Drawn, Where, Decided, NoPending
<1>6. Revocable'
  BY <1>0 DEF TypeOK, Hosted, Drawn, Once, Where, Revocable, Coming, Decided, NoPending, Changes
<1>7. Named'
  BY <1>0 DEF TypeOK, Hosted, Drawn, Once, Where, Named, Changes
<1>8. Archived'
  BY <1>0 DEF TypeOK, Hosted, Drawn, Where, Archived, Reading, NoPending
<1>9. Kept'
  BY <1>0 DEF TypeOK, Hosted, Drawn, Where, Decided, Archived, Reading, Kept, NoPending
<1> QED
  BY <1>1, <1>2, <1>3, <1>4, <1>5, <1>6, <1>7, <1>8, <1>9

(* The operation is in pending.json before the host hears of it.           *)
LEMMA WritePendingKeeps ==
  ASSUME IInv, NEW p \in PCs, WritePending(p)
  PROVE  IInv'
<1> USE DEF IInv, WritePending, From, Goto, SetPending, hostSide, disk, command
<1>0. Past' = Past /\ (\A x : After(x)' = After(x)) /\ NoArchive \in Archives /\ NoArchive.published = FALSE
      /\ \A arc \in Archives : arc.ver \in Versions \cup {NoVer}
  BY HistoryKept, Shapes
<1>1. TypeOK'
  BY <1>0 DEF TypeOK, Labels, NoPending
<1>2. Hosted'
  BY <1>0 DEF TypeOK, Hosted
<1>3. Drawn'
  BY <1>0 DEF TypeOK, Hosted, Drawn, NoPending
<1>4. Once'
  BY <1>0 DEF TypeOK, Drawn, Once, Changes
<1>5. Where'
  BY <1>0 DEF TypeOK, Drawn, Where, Decided, NoPending
<1>6. Revocable'
  BY <1>0 DEF TypeOK, Hosted, Drawn, Once, Where, Revocable, Coming, Decided, NoPending, Changes
<1>7. Named'
  BY <1>0 DEF TypeOK, Hosted, Drawn, Once, Where, Named, Changes
<1>8. Archived'
  BY <1>0 DEF TypeOK, Hosted, Drawn, Where, Archived, Reading, NoPending
<1>9. Kept'
  BY <1>0 DEF TypeOK, Hosted, Drawn, Where, Decided, Archived, Reading, Kept, NoPending
<1> QED
  BY <1>1, <1>2, <1>3, <1>4, <1>5, <1>6, <1>7, <1>8, <1>9

(* A backup begins where nothing was pending.                              *)
LEMMA BeginBackupKeeps ==
  ASSUME IInv, NEW p \in PCs, BeginBackup(p)
  PROVE  IInv'
<1> USE DEF IInv, BeginBackup, From, Goto, SetPending, hostSide, disk, command
<1>0. Past' = Past /\ (\A x : After(x)' = After(x)) /\ NoArchive \in Archives /\ NoArchive.published = FALSE
      /\ \A arc \in Archives : arc.ver \in Versions \cup {NoVer}
  BY HistoryKept, Shapes
<1>1. TypeOK'
  BY <1>0 DEF TypeOK, Labels, NoPending
<1>2. Hosted'
  BY <1>0 DEF TypeOK, Hosted
<1>3. Drawn'
  BY <1>0 DEF TypeOK, Hosted, Drawn, NoPending
<1>4. Once'
  BY <1>0 DEF TypeOK, Drawn, Once, Changes
<1>5. Where'
  BY <1>0 DEF TypeOK, Drawn, Where, Decided, NoPending
<1>6. Revocable'
  BY <1>0 DEF TypeOK, Hosted, Drawn, Once, Where, Revocable, Coming, Decided, NoPending, Changes
<1>7. Named'
  BY <1>0 DEF TypeOK, Hosted, Drawn, Once, Where, Named, Changes
<1>8. Archived'
  BY <1>0 DEF TypeOK, Hosted, Drawn, Where, Archived, Reading, NoPending
<1>9. Kept'
  BY <1>0 DEF TypeOK, Hosted, Drawn, Where, Decided, Archived, Reading, Kept, NoPending
<1> QED
  BY <1>1, <1>2, <1>3, <1>4, <1>5, <1>6, <1>7, <1>8, <1>9

(* A recovery begins with what pending.json says.                          *)
LEMMA BeginRecoverKeeps ==
  ASSUME IInv, NEW p \in PCs, BeginRecover(p)
  PROVE  IInv'
<1> USE DEF IInv, BeginRecover, From, Goto, SetPending, hostSide, disk, command
<1>0. Past' = Past /\ (\A x : After(x)' = After(x)) /\ NoArchive \in Archives /\ NoArchive.published = FALSE
      /\ \A arc \in Archives : arc.ver \in Versions \cup {NoVer}
  BY HistoryKept, Shapes
<1>1. TypeOK'
  <2>1. pending' \in [PCs -> [mode : {"absent", "backup", "change"}, op : Ops \cup {NoOp}]]
    <3>1. pending' = pending \/ pending' = [pending EXCEPT ![p] = [mode |-> "backup", op |-> NoOp]]
      OBVIOUS
    <3>2. pending \in [PCs -> [mode : {"absent", "backup", "change"}, op : Ops \cup {NoOp}]]
      BY DEF TypeOK
    <3> QED
      BY <3>1, <3>2
  <2>2. at' \in [PCs -> Labels]
    BY DEF TypeOK, Labels
  <2> QED
    BY <2>1, <2>2 DEF TypeOK
<1>2. Hosted'
  BY <1>0 DEF TypeOK, Hosted
<1>3. Drawn'
  BY SMTT(30), <1>0 DEF TypeOK, Hosted, Drawn, NoPending
<1>4. Once'
  BY <1>0 DEF TypeOK, Drawn, Once, Changes
<1>5. Where'
  BY <1>0 DEF TypeOK, Drawn, Where, Decided, NoPending
<1>6. Revocable'
  BY <1>0 DEF TypeOK, Hosted, Drawn, Once, Where, Revocable, Coming, Decided, NoPending, Changes
<1>7. Named'
  BY <1>0 DEF TypeOK, Hosted, Drawn, Once, Where, Named, Changes
<1>8. Archived'
  BY <1>0 DEF TypeOK, Hosted, Drawn, Where, Archived, Reading, NoPending
<1>9. Kept'
  BY <1>0 DEF TypeOK, Hosted, Drawn, Where, Decided, Archived, Reading, Kept, NoPending
<1> QED
  BY <1>1, <1>2, <1>3, <1>4, <1>5, <1>6, <1>7, <1>8, <1>9

(* An attachment begins where nothing is pending.                          *)
LEMMA BeginConnectKeeps ==
  ASSUME IInv, NEW p \in PCs, BeginConnect(p)
  PROVE  IInv'
<1> USE DEF IInv, BeginConnect, From, Goto, hostSide, disk, command
<1>0. Past' = Past /\ (\A x : After(x)' = After(x)) /\ NoArchive \in Archives /\ NoArchive.published = FALSE
      /\ \A arc \in Archives : arc.ver \in Versions \cup {NoVer}
  BY HistoryKept, Shapes
<1>1. TypeOK'
  BY <1>0 DEF TypeOK, Labels, NoPending
<1>2. Hosted'
  BY <1>0 DEF TypeOK, Hosted
<1>3. Drawn'
  BY <1>0 DEF TypeOK, Hosted, Drawn, NoPending
<1>4. Once'
  BY <1>0 DEF TypeOK, Drawn, Once, Changes
<1>5. Where'
  BY <1>0 DEF TypeOK, Drawn, Where, Decided, NoPending
<1>6. Revocable'
  BY <1>0 DEF TypeOK, Hosted, Drawn, Once, Where, Revocable, Coming, Decided, NoPending, Changes
<1>7. Named'
  BY <1>0 DEF TypeOK, Hosted, Drawn, Once, Where, Named, Changes
<1>8. Archived'
  BY <1>0 DEF TypeOK, Hosted, Drawn, Where, Archived, Reading, NoPending
<1>9. Kept'
  BY <1>0 DEF TypeOK, Hosted, Drawn, Where, Decided, Archived, Reading, Kept, NoPending
<1> QED
  BY <1>1, <1>2, <1>3, <1>4, <1>5, <1>6, <1>7, <1>8, <1>9

(* A pulled archive is of what is published now.                           *)
LEMMA PullKeeps ==
  ASSUME IInv, NEW p \in PCs, Pull(p)
  PROVE  IInv'
<1> USE DEF IInv, Pull, End, Goto, hostSide, disk, command
<1>0. /\ Past' = Past /\ (\A x : After(x)' = After(x))
      /\ NoArchive \in Archives /\ NoArchive.published = FALSE
      /\ Published \in Past /\ Published \in Versions /\ \A x \in Past : Published \in After(x)
      /\ [by |-> p, ver |-> Published, published |-> TRUE] \in Archives
  BY HistoryKept, Shapes, PublishedIsLast DEF TypeOK
<1>e. \/ /\ at' = [at EXCEPT ![p] = "idle"] /\ op' = [op EXCEPT ![p] = NoOp]
         /\ got' = [got EXCEPT ![p] = NoArchive]
      \/ /\ at' = [at EXCEPT ![p] = "n_outputs"] /\ op' = op
         /\ got' = [got EXCEPT ![p] = [by |-> p, ver |-> Published, published |-> TRUE]]
  OBVIOUS
<1>1. TypeOK'
  <2>1. /\ hostPending' \in [phase : {"absent", "intent", "prepared", "restoring"}, op : Ops \cup {NoOp}]
        /\ verdict' \in [Ops -> {"open", "unchanged", "committed"}]
        /\ history' \in Seq(Versions) /\ history' # <<>>
        /\ stopIntent' \in BOOLEAN /\ exported' \in Archives
    BY <1>0 DEF TypeOK
  <2>2. at' \in [PCs -> Labels] /\ op' \in [PCs -> Ops \cup {NoOp}] /\ got' \in [PCs -> Archives]
    <3>1. at \in [PCs -> Labels] /\ op \in [PCs -> Ops \cup {NoOp}] /\ got \in [PCs -> Archives]
      BY DEF TypeOK
    <3> HIDE DEF Pull, IInv
    <3>2. at' \in [PCs -> Labels] /\ op' \in [PCs -> Ops \cup {NoOp}]
      BY <1>e, <3>1 DEF Labels
    <3>3. got' \in [PCs -> Archives]
      BY <1>0, <1>e, <3>1
    <3> QED
      BY <3>2, <3>3
  <2>4. /\ pending' \in [PCs -> [mode : {"absent", "backup", "change"}, op : Ops \cup {NoOp}]]
        /\ saved' \in [PCs -> Versions \cup {NoVer}] /\ outputs' \in [PCs -> Versions \cup {NoVer}]
    BY <1>0 DEF TypeOK, NoPending
  <2>5. /\ issuer' \in [Ops -> PCs \cup {NoPC}] /\ faults' \in 0..MaxFaults
        /\ late' \subseteq [kind : {"backup", "prepare", "commit", "abort"}, pc : PCs,
                           arc : Archives, op : Ops \cup {NoOp}]
    BY <1>0 DEF TypeOK
  <2> QED
    BY <2>1, <2>2, <2>4, <2>5 DEF TypeOK
<1>2. Hosted'
  BY <1>0 DEF TypeOK, Hosted
<1>3. Drawn'
  BY <1>0 DEF TypeOK, Hosted, Drawn, NoPending
<1>4. Once'
  BY <1>0 DEF TypeOK, Drawn, Once, Changes
<1>5. Where'
  BY <1>0 DEF TypeOK, Drawn, Where, Decided, NoPending
<1>6. Revocable'
  BY <1>0 DEF TypeOK, Hosted, Drawn, Once, Where, Revocable, Coming, Decided, NoPending, Changes
<1>7. Named'
  BY <1>0 DEF TypeOK, Hosted, Drawn, Once, Where, Named, Changes
<1>8. Archived'
  BY <1>0 DEF TypeOK, Hosted, Drawn, Where, Archived, Reading, NoPending
<1>9. Kept'
  BY <1>0 DEF TypeOK, Hosted, Drawn, Where, Decided, Archived, Reading, Kept, NoPending
<1> QED
  BY <1>1, <1>2, <1>3, <1>4, <1>5, <1>6, <1>7, <1>8, <1>9

(* The validation of the outputs changes no archive.                       *)
LEMMA ValidateKeeps ==
  ASSUME IInv, NEW p \in PCs, Validate(p)
  PROVE  IInv'
<1> USE DEF IInv, Validate, End, Goto, hostSide, disk, command
<1>0. Past' = Past /\ (\A x : After(x)' = After(x)) /\ NoArchive \in Archives /\ NoArchive.published = FALSE
      /\ \A arc \in Archives : arc.ver \in Versions \cup {NoVer}
  BY HistoryKept, Shapes
<1>e. \/ /\ at' = [at EXCEPT ![p] = "idle"] /\ op' = [op EXCEPT ![p] = NoOp]
         /\ got' = [got EXCEPT ![p] = NoArchive]
      \/ at' = [at EXCEPT ![p] = "c_commit"] /\ op' = op /\ got' = got
      \/ at' = [at EXCEPT ![p] = "a_status"] /\ op' = op /\ got' = got
      \/ at' = [at EXCEPT ![p] = "m_outputs"] /\ op' = op /\ got' = got
  OBVIOUS
<1>1. TypeOK'
  <2>1. /\ hostPending' \in [phase : {"absent", "intent", "prepared", "restoring"}, op : Ops \cup {NoOp}]
        /\ verdict' \in [Ops -> {"open", "unchanged", "committed"}]
        /\ history' \in Seq(Versions) /\ history' # <<>>
        /\ stopIntent' \in BOOLEAN /\ exported' \in Archives
    BY <1>0 DEF TypeOK
  <2>2. at' \in [PCs -> Labels] /\ op' \in [PCs -> Ops \cup {NoOp}] /\ got' \in [PCs -> Archives]
    <3>1. at \in [PCs -> Labels] /\ op \in [PCs -> Ops \cup {NoOp}] /\ got \in [PCs -> Archives]
      BY DEF TypeOK
    <3> HIDE DEF Validate, IInv
    <3> QED
      BY <1>0, <1>e, <3>1 DEF Labels
  <2>4. /\ pending' \in [PCs -> [mode : {"absent", "backup", "change"}, op : Ops \cup {NoOp}]]
        /\ saved' \in [PCs -> Versions \cup {NoVer}] /\ outputs' \in [PCs -> Versions \cup {NoVer}]
    BY <1>0 DEF TypeOK, NoPending
  <2>5. /\ issuer' \in [Ops -> PCs \cup {NoPC}] /\ faults' \in 0..MaxFaults
        /\ late' \subseteq [kind : {"backup", "prepare", "commit", "abort"}, pc : PCs,
                           arc : Archives, op : Ops \cup {NoOp}]
    BY <1>0 DEF TypeOK
  <2> QED
    BY <2>1, <2>2, <2>4, <2>5 DEF TypeOK
<1>2. Hosted'
  BY <1>0 DEF TypeOK, Hosted
<1>3. Drawn'
  BY <1>0 DEF TypeOK, Hosted, Drawn, NoPending
<1>4. Once'
  BY <1>0 DEF TypeOK, Drawn, Once, Changes
<1>5. Where'
  BY <1>0 DEF TypeOK, Drawn, Where, Decided, NoPending
<1>6. Revocable'
  BY <1>0 DEF TypeOK, Hosted, Drawn, Once, Where, Revocable, Coming, Decided, NoPending, Changes
<1>7. Named'
  BY <1>0 DEF TypeOK, Hosted, Drawn, Once, Where, Named, Changes
<1>8. Archived'
  BY <1>0 DEF TypeOK, Hosted, Drawn, Where, Archived, Reading, NoPending
<1>9. Kept'
  BY <1>0 DEF TypeOK, Hosted, Drawn, Where, Decided, Archived, Reading, Kept, NoPending
<1> QED
  BY <1>1, <1>2, <1>3, <1>4, <1>5, <1>6, <1>7, <1>8, <1>9

(* The outputs of a backup are withdrawn or stay what they were.           *)
LEMMA ValidateBackupKeeps ==
  ASSUME IInv, NEW p \in PCs, NEW valid \in BOOLEAN, ValidateBackup(p, valid)
  PROVE  IInv'
<1> USE DEF IInv, ValidateBackup, End, Goto, PublishedArchive, hostSide, disk, command
<1>0. Past' = Past /\ (\A x : After(x)' = After(x)) /\ NoArchive \in Archives /\ NoArchive.published = FALSE
      /\ \A arc \in Archives : arc.ver \in Versions \cup {NoVer}
  BY HistoryKept, Shapes
<1>e. \/ /\ at' = [at EXCEPT ![p] = "idle"] /\ op' = [op EXCEPT ![p] = NoOp]
         /\ got' = [got EXCEPT ![p] = NoArchive]
      \/ at' = [at EXCEPT ![p] = "m_state"] /\ op' = op /\ got' = got
      \/ at' = [at EXCEPT ![p] = "m_outputs"] /\ op' = op /\ got' = got
  OBVIOUS
<1>o. \/ outputs' = outputs
      \/ outputs' = [outputs EXCEPT ![p] = NoVer] /\ got[p].published
  BY DEF TypeOK
<1>1. TypeOK'
  <2>1. /\ hostPending' \in [phase : {"absent", "intent", "prepared", "restoring"}, op : Ops \cup {NoOp}]
        /\ verdict' \in [Ops -> {"open", "unchanged", "committed"}]
        /\ history' \in Seq(Versions) /\ history' # <<>>
        /\ stopIntent' \in BOOLEAN /\ exported' \in Archives
    BY <1>0 DEF TypeOK
  <2>2. at' \in [PCs -> Labels] /\ op' \in [PCs -> Ops \cup {NoOp}] /\ got' \in [PCs -> Archives]
    <3>1. at \in [PCs -> Labels] /\ op \in [PCs -> Ops \cup {NoOp}] /\ got \in [PCs -> Archives]
      BY DEF TypeOK
    <3> HIDE DEF ValidateBackup, IInv
    <3> QED
      BY <1>0, <1>e, <3>1 DEF Labels
  <2>4. /\ pending' \in [PCs -> [mode : {"absent", "backup", "change"}, op : Ops \cup {NoOp}]]
        /\ saved' \in [PCs -> Versions \cup {NoVer}] /\ outputs' \in [PCs -> Versions \cup {NoVer}]
    BY <1>0, <1>o DEF TypeOK
  <2>5. /\ issuer' \in [Ops -> PCs \cup {NoPC}] /\ faults' \in 0..MaxFaults
        /\ late' \subseteq [kind : {"backup", "prepare", "commit", "abort"}, pc : PCs,
                           arc : Archives, op : Ops \cup {NoOp}]
    BY <1>0 DEF TypeOK
  <2> QED
    BY <2>1, <2>2, <2>4, <2>5 DEF TypeOK
<1>2. Hosted'
  BY <1>0 DEF TypeOK, Hosted
<1>3. Drawn'
  BY <1>e DEF TypeOK, Drawn
<1>4. Once'
  BY <1>0 DEF TypeOK, Drawn, Once, Changes
<1>5. Where'
  BY <1>0 DEF TypeOK, Drawn, Where, Decided, NoPending
<1>6. Revocable'
  BY <1>0 DEF TypeOK, Hosted, Drawn, Once, Where, Revocable, Coming, Decided, NoPending, Changes
<1>7. Named'
  BY <1>0 DEF TypeOK, Hosted, Drawn, Once, Where, Named, Changes
<1>8. Archived'
  BY <1>0 DEF TypeOK, Hosted, Drawn, Where, Archived, Reading, NoPending
<1>9. Kept'
  BY <1>0 DEF TypeOK, Hosted, Drawn, Where, Decided, Archived, Reading, Kept, NoPending
<1> QED
  BY <1>1, <1>2, <1>3, <1>4, <1>5, <1>6, <1>7, <1>8, <1>9

(* The outputs become those of a published archive.                        *)
LEMMA RememberOutputsKeeps ==
  ASSUME IInv, NEW p \in PCs, RememberOutputs(p)
  PROVE  IInv'
<1> USE DEF IInv, RememberOutputs, End, Goto, PublishedArchive, hostSide, disk, command
<1>0. Past' = Past /\ (\A x : After(x)' = After(x)) /\ NoArchive \in Archives /\ NoArchive.published = FALSE
      /\ \A arc \in Archives : arc.ver \in Versions \cup {NoVer}
  BY HistoryKept, Shapes
<1>e. \/ /\ at' = [at EXCEPT ![p] = "idle"] /\ op' = [op EXCEPT ![p] = NoOp]
         /\ got' = [got EXCEPT ![p] = NoArchive]
      \/ at' = [at EXCEPT ![p] = "m_state"] /\ op' = op /\ got' = got
  OBVIOUS
<1>o. \/ outputs' = outputs
      \/ outputs' = [outputs EXCEPT ![p] = got[p].ver] /\ got[p].published
  BY DEF TypeOK
<1>1. TypeOK'
  <2>1. /\ hostPending' \in [phase : {"absent", "intent", "prepared", "restoring"}, op : Ops \cup {NoOp}]
        /\ verdict' \in [Ops -> {"open", "unchanged", "committed"}]
        /\ history' \in Seq(Versions) /\ history' # <<>>
        /\ stopIntent' \in BOOLEAN /\ exported' \in Archives
    BY <1>0 DEF TypeOK
  <2>2. at' \in [PCs -> Labels] /\ op' \in [PCs -> Ops \cup {NoOp}] /\ got' \in [PCs -> Archives]
    <3>1. at \in [PCs -> Labels] /\ op \in [PCs -> Ops \cup {NoOp}] /\ got \in [PCs -> Archives]
      BY DEF TypeOK
    <3> HIDE DEF RememberOutputs, IInv
    <3> QED
      BY <1>0, <1>e, <3>1 DEF Labels
  <2>4. /\ pending' \in [PCs -> [mode : {"absent", "backup", "change"}, op : Ops \cup {NoOp}]]
        /\ saved' \in [PCs -> Versions \cup {NoVer}] /\ outputs' \in [PCs -> Versions \cup {NoVer}]
    BY <1>0, <1>o DEF TypeOK
  <2>5. /\ issuer' \in [Ops -> PCs \cup {NoPC}] /\ faults' \in 0..MaxFaults
        /\ late' \subseteq [kind : {"backup", "prepare", "commit", "abort"}, pc : PCs,
                           arc : Archives, op : Ops \cup {NoOp}]
    BY <1>0 DEF TypeOK
  <2> QED
    BY <2>1, <2>2, <2>4, <2>5 DEF TypeOK
<1>2. Hosted'
  BY <1>0 DEF TypeOK, Hosted
<1>3. Drawn'
  BY <1>0 DEF TypeOK, Hosted, Drawn, NoPending
<1>4. Once'
  BY <1>0 DEF TypeOK, Drawn, Once, Changes
<1>5. Where'
  BY <1>0 DEF TypeOK, Drawn, Where, Decided, NoPending
<1>6. Revocable'
  BY <1>0 DEF TypeOK, Hosted, Drawn, Once, Where, Revocable, Coming, Decided, NoPending, Changes
<1>7. Named'
  BY <1>0 DEF TypeOK, Hosted, Drawn, Once, Where, Named, Changes
<1>8. Archived'
  BY <1>0 DEF TypeOK, Hosted, Drawn, Where, Archived, Reading, NoPending
<1>9. Kept'
  <2>1. /\ outputs' = outputs \/ (got[p].ver \in Past /\ outputs' = [outputs EXCEPT ![p] = got[p].ver])
        /\ UNCHANGED <<saved, pending, verdict, issuer>>
    BY DEF Archived
  <2> QED
    BY <1>0, <2>1 DEF TypeOK, Kept
<1> QED
  BY <1>1, <1>2, <1>3, <1>4, <1>5, <1>6, <1>7, <1>8, <1>9

(* The archive saved is as new as all the PC committed.                    *)
LEMMA RememberStateKeeps ==
  ASSUME IInv, NEW p \in PCs, RememberState(p)
  PROVE  IInv'
<1> USE DEF IInv, RememberState, From, Goto, hostSide, disk, command
<1>0. Past' = Past /\ (\A x : After(x)' = After(x)) /\ NoArchive \in Archives /\ NoArchive.published = FALSE
      /\ \A arc \in Archives : arc.ver \in Versions \cup {NoVer}
  BY HistoryKept, Shapes
<1>1. TypeOK'
  <2>1. /\ hostPending' \in [phase : {"absent", "intent", "prepared", "restoring"}, op : Ops \cup {NoOp}]
        /\ verdict' \in [Ops -> {"open", "unchanged", "committed"}]
        /\ history' \in Seq(Versions) /\ history' # <<>>
        /\ stopIntent' \in BOOLEAN /\ exported' \in Archives
    BY <1>0 DEF TypeOK
  <2>2. at' \in [PCs -> Labels]
    BY <1>0 DEF TypeOK, Labels
  <2>3. op' \in [PCs -> Ops \cup {NoOp}] /\ got' \in [PCs -> Archives]
    BY <1>0 DEF TypeOK
  <2>4. /\ pending' \in [PCs -> [mode : {"absent", "backup", "change"}, op : Ops \cup {NoOp}]]
        /\ saved' \in [PCs -> Versions \cup {NoVer}] /\ outputs' \in [PCs -> Versions \cup {NoVer}]
    BY <1>0 DEF TypeOK, NoPending
  <2>5. /\ issuer' \in [Ops -> PCs \cup {NoPC}] /\ faults' \in 0..MaxFaults
        /\ late' \subseteq [kind : {"backup", "prepare", "commit", "abort"}, pc : PCs,
                           arc : Archives, op : Ops \cup {NoOp}]
    BY <1>0 DEF TypeOK
  <2> QED
    BY <2>1, <2>2, <2>3, <2>4, <2>5 DEF TypeOK
<1>2. Hosted'
  BY <1>0 DEF TypeOK, Hosted
<1>3. Drawn'
  BY <1>0 DEF TypeOK, Hosted, Drawn, NoPending
<1>4. Once'
  BY <1>0 DEF TypeOK, Drawn, Once, Changes
<1>5. Where'
  BY <1>0 DEF TypeOK, Drawn, Where, Decided, NoPending
<1>6. Revocable'
  BY <1>0 DEF TypeOK, Hosted, Drawn, Once, Where, Revocable, Coming, Decided, NoPending, Changes
<1>7. Named'
  BY <1>0 DEF TypeOK, Hosted, Drawn, Once, Where, Named, Changes
<1>8. Archived'
  BY <1>0 DEF TypeOK, Hosted, Drawn, Where, Archived, Reading, NoPending
<1>9. Kept'
  BY <1>0 DEF TypeOK, Hosted, Drawn, Where, Decided, Archived, Reading, Kept, NoPending
<1> QED
  BY <1>1, <1>2, <1>3, <1>4, <1>5, <1>6, <1>7, <1>8, <1>9

(* What is dropped is saved, or was restored and will not commit.          *)
LEMMA UnlinkKeeps ==
  ASSUME IInv, NEW p \in PCs, Unlink(p)
  PROVE  IInv'
<1> USE DEF IInv, Unlink, End, Goto, hostSide, disk, command
<1>0. Past' = Past /\ (\A x : After(x)' = After(x)) /\ NoArchive \in Archives /\ NoArchive.published = FALSE
      /\ \A arc \in Archives : arc.ver \in Versions \cup {NoVer}
  BY HistoryKept, Shapes
<1>1. TypeOK'
  BY <1>0 DEF TypeOK, Labels, NoPending
<1>2. Hosted'
  BY <1>0 DEF TypeOK, Hosted
<1>3. Drawn'
  BY <1>0 DEF TypeOK, Hosted, Drawn, NoPending
<1>4. Once'
  BY <1>0 DEF TypeOK, Drawn, Once, Changes
<1>5. Where'
  BY <1>0 DEF TypeOK, Drawn, Where, Decided, NoPending
<1>6. Revocable'
  BY <1>0 DEF TypeOK, Hosted, Drawn, Once, Where, Revocable, Coming, Decided, NoPending, Changes
<1>7. Named'
  BY <1>0 DEF TypeOK, Hosted, Drawn, Once, Where, Named, Changes
<1>8. Archived'
  BY <1>0 DEF TypeOK, Hosted, Drawn, Where, Archived, Reading, NoPending
<1>9. Kept'
  BY <1>0 DEF TypeOK, Hosted, Drawn, Where, Decided, Archived, Reading, Kept, NoPending
<1> QED
  BY <1>1, <1>2, <1>3, <1>4, <1>5, <1>6, <1>7, <1>8, <1>9

(* A command that dies leaves what is on disk.                             *)
LEMMA KillKeeps ==
  ASSUME IInv, NEW p \in PCs, Kill(p)
  PROVE  IInv'
<1> USE DEF IInv, Kill, End, Goto, Fault, hostSide, disk, command
<1>0. Past' = Past /\ (\A x : After(x)' = After(x)) /\ NoArchive \in Archives /\ NoArchive.published = FALSE
      /\ \A arc \in Archives : arc.ver \in Versions \cup {NoVer}
  BY HistoryKept, Shapes
<1>1. TypeOK'
  BY <1>0 DEF TypeOK, Labels, NoPending
<1>2. Hosted'
  BY <1>0 DEF TypeOK, Hosted
<1>3. Drawn'
  BY <1>0 DEF TypeOK, Hosted, Drawn, NoPending
<1>4. Once'
  BY <1>0 DEF TypeOK, Drawn, Once, Changes
<1>5. Where'
  BY <1>0 DEF TypeOK, Drawn, Where, Decided, NoPending
<1>6. Revocable'
  BY <1>0 DEF TypeOK, Hosted, Drawn, Once, Where, Revocable, Coming, Decided, NoPending, Changes
<1>7. Named'
  BY <1>0 DEF TypeOK, Hosted, Drawn, Once, Where, Named, Changes
<1>8. Archived'
  BY <1>0 DEF TypeOK, Hosted, Drawn, Where, Archived, Reading, NoPending
<1>9. Kept'
  BY <1>0 DEF TypeOK, Hosted, Drawn, Where, Decided, Archived, Reading, Kept, NoPending
<1> QED
  BY <1>1, <1>2, <1>3, <1>4, <1>5, <1>6, <1>7, <1>8, <1>9

(* A broken local core withdraws the outputs only.                         *)
LEMMA CoreFailsKeeps ==
  ASSUME IInv, NEW p \in PCs, CoreFails(p)
  PROVE  IInv'
<1> USE DEF IInv, CoreFails, Goto, Fault, PublishedArchive, hostSide, disk, command
<1>0. Past' = Past /\ (\A x : After(x)' = After(x)) /\ NoArchive \in Archives /\ NoArchive.published = FALSE
      /\ \A arc \in Archives : arc.ver \in Versions \cup {NoVer}
  BY HistoryKept, Shapes
<1>1. TypeOK'
  BY <1>0 DEF TypeOK, Labels, NoPending
<1>2. Hosted'
  BY <1>0 DEF TypeOK, Hosted
<1>3. Drawn'
  BY <1>0 DEF TypeOK, Hosted, Drawn, NoPending
<1>4. Once'
  BY <1>0 DEF TypeOK, Drawn, Once, Changes
<1>5. Where'
  BY <1>0 DEF TypeOK, Drawn, Where, Decided, NoPending
<1>6. Revocable'
  BY <1>0 DEF TypeOK, Hosted, Drawn, Once, Where, Revocable, Coming, Decided, NoPending, Changes
<1>7. Named'
  BY <1>0 DEF TypeOK, Hosted, Drawn, Once, Where, Named, Changes
<1>8. Archived'
  BY <1>0 DEF TypeOK, Hosted, Drawn, Where, Archived, Reading, NoPending
<1>9. Kept'
  BY <1>0 DEF TypeOK, Hosted, Drawn, Where, Decided, Archived, Reading, Kept, NoPending
<1> QED
  BY <1>1, <1>2, <1>3, <1>4, <1>5, <1>6, <1>7, <1>8, <1>9

(* A dead command leaves at most one call of its operation.                *)
LEMMA OrphanKeeps ==
  ASSUME IInv, NEW p \in PCs, Orphan(p)
  PROVE  IInv'
<1> USE DEF IInv, Orphan, End, Goto, Fault, Calling, hostSide, disk, command
<1>0. /\ Past' = Past /\ (\A x : After(x)' = After(x))
      /\ NoArchive \in Archives /\ NoArchive.published = FALSE
  BY HistoryKept, Shapes
<1> DEFINE c == Call(p)
<1>c. /\ c \in [kind : {"backup", "prepare", "commit", "abort"}, pc : PCs,
                arc : Archives, op : Ops \cup {NoOp}]
      /\ c.pc = p /\ c.arc = got[p]
      /\ c.kind = "prepare" => at[p] = "c_prepare" /\ c.op = op[p]
      /\ c.kind = "commit" => at[p] = "c_commit" /\ c.op = op[p]
  BY DEF Call, CallLabels, TypeOK
<1> HIDE DEF c
<1>d. late' = late \cup {c}
  BY DEF c
<1>1. TypeOK'
  <2>1. /\ hostPending' \in [phase : {"absent", "intent", "prepared", "restoring"}, op : Ops \cup {NoOp}]
        /\ verdict' \in [Ops -> {"open", "unchanged", "committed"}]
        /\ history' \in Seq(Versions) /\ history' # <<>>
        /\ stopIntent' \in BOOLEAN /\ exported' \in Archives
    BY <1>0 DEF TypeOK
  <2>2. at' \in [PCs -> Labels]
    BY <1>0 DEF TypeOK, Labels
  <2>3. op' \in [PCs -> Ops \cup {NoOp}] /\ got' \in [PCs -> Archives]
    BY <1>0 DEF TypeOK
  <2>4. /\ pending' \in [PCs -> [mode : {"absent", "backup", "change"}, op : Ops \cup {NoOp}]]
        /\ saved' \in [PCs -> Versions \cup {NoVer}] /\ outputs' \in [PCs -> Versions \cup {NoVer}]
    BY <1>0 DEF TypeOK, NoPending
  <2>5. /\ issuer' \in [Ops -> PCs \cup {NoPC}] /\ faults' \in 0..MaxFaults
        /\ late' \subseteq [kind : {"backup", "prepare", "commit", "abort"}, pc : PCs,
                           arc : Archives, op : Ops \cup {NoOp}]
    BY <1>c, <1>d DEF TypeOK
  <2> QED
    BY <2>1, <2>2, <2>3, <2>4, <2>5 DEF TypeOK
<1>2. Hosted'
  BY <1>0 DEF TypeOK, Hosted
<1>3. Drawn'
  BY <1>c, <1>d DEF TypeOK, Drawn, Where, Changes
<1>4. Once'
  BY <1>c, <1>d DEF TypeOK, Drawn, Once, Where, Changes
<1>5. Where'
  BY <1>0 DEF TypeOK, Drawn, Where, Decided, NoPending
<1>6. Revocable'
  BY <1>c, <1>d DEF TypeOK, Where, Revocable, Coming
<1>7. Named'
  BY <1>c, <1>d DEF TypeOK, Where, Named
<1>8. Archived'
  BY <1>0 DEF TypeOK, Hosted, Drawn, Where, Archived, Reading, NoPending
<1>9. Kept'
  BY <1>0 DEF TypeOK, Hosted, Drawn, Where, Decided, Archived, Reading, Kept, NoPending
<1> QED
  BY <1>1, <1>2, <1>3, <1>4, <1>5, <1>6, <1>7, <1>8, <1>9

(* The timer rolls back what is still open.                                *)
LEMMA HostTimerKeeps ==
  ASSUME IInv, HostTimer
  PROVE  IInv'
<1> USE DEF IInv, HostTimer, Quiet, hostSide, disk, command
<1>0. Past' = Past /\ (\A x : After(x)' = After(x)) /\ NoArchive \in Archives /\ NoArchive.published = FALSE
      /\ \A arc \in Archives : arc.ver \in Versions \cup {NoVer}
  BY HistoryKept, Shapes
<1>1. TypeOK'
  <2>1. hostPending' \in [phase : {"absent", "intent", "prepared", "restoring"}, op : Ops \cup {NoOp}]
    BY DEF TypeOK
  <2>2. stopIntent' \in BOOLEAN
    BY DEF TypeOK
  <2> QED
    BY <2>1, <2>2 DEF TypeOK
<1>2. Hosted'
  BY <1>0 DEF TypeOK, Hosted
<1>3. Drawn'
  BY <1>0 DEF TypeOK, Hosted, Drawn, NoPending
<1>4. Once'
  BY <1>0 DEF TypeOK, Drawn, Once, Changes
<1>5. Where'
  BY <1>0 DEF TypeOK, Drawn, Where, Decided, NoPending
<1>6. Revocable'
  BY <1>0 DEF TypeOK, Hosted, Drawn, Once, Where, Revocable, Coming, Decided, NoPending, Changes
<1>7. Named'
  BY <1>0 DEF TypeOK, Hosted, Drawn, Once, Where, Named, Changes
<1>8. Archived'
  BY <1>0 DEF TypeOK, Hosted, Drawn, Where, Archived, Reading, NoPending
<1>9. Kept'
  BY <1>0 DEF TypeOK, Hosted, Drawn, Where, Decided, Archived, Reading, Kept, NoPending
<1> QED
  BY <1>1, <1>2, <1>3, <1>4, <1>5, <1>6, <1>7, <1>8, <1>9

(* A candidate of the operation that pending.json names.                   *)
LEMMA RemotePrepareKeeps ==
  ASSUME IInv, NEW p \in PCs, Remote(p), at[p] = "c_prepare"
  PROVE  IInv'
<1> USE DEF IInv, hostSide, disk, command, Quiet
<1>d. op[p] \in Ops /\ pending[p] = [mode |-> "change", op |-> op[p]]
  BY DEF TypeOK, Where
<1>e. /\ UNCHANGED <<history, stopIntent, exported, disk, issuer, late, faults>>
      /\ \/ /\ UNCHANGED <<hostPending, verdict>>
            /\ at' = [at EXCEPT ![p] = "idle"] /\ op' = [op EXCEPT ![p] = NoOp]
            /\ got' = [got EXCEPT ![p] = NoArchive]
         \/ /\ hostPending = Quiet /\ verdict[op[p]] = "open" /\ UNCHANGED verdict
            /\ hostPending' = [phase |-> "prepared", op |-> op[p]]
            /\ at' = [at EXCEPT ![p] = "c_candidate"] /\ op' = op /\ got' = got
         \/ /\ hostPending = Quiet /\ verdict[op[p]] = "open" /\ UNCHANGED hostPending
            /\ verdict' = [verdict EXCEPT ![op[p]] = "unchanged"]
            /\ at' = [at EXCEPT ![p] = "a_backup"] /\ op' = op /\ got' = got
         \/ /\ hostPending = Quiet /\ verdict[op[p]] = "open" /\ UNCHANGED verdict
            /\ hostPending' = [phase |-> "restoring", op |-> op[p]]
            /\ at' = [at EXCEPT ![p] = "idle"] /\ op' = [op EXCEPT ![p] = NoOp]
            /\ got' = [got EXCEPT ![p] = NoArchive]
  <2>1. PICK reply \in Replies :
          /\ Serve(Call(p), reply)
          /\ IF AfterReply(p, reply) = "idle"
             THEN End(p)
             ELSE /\ Goto(p, AfterReply(p, reply))
                  /\ got' = IF reply = "done" THEN [got EXCEPT ![p] = exported'] ELSE got
                  /\ UNCHANGED op
    BY DEF Remote
  <2>2. Call(p).kind = "prepare" /\ Call(p).op = op[p]
    BY DEF Call, CallLabels
  <2>3. ServePrepare(Call(p), reply)
    BY <2>1, <2>2 DEF Serve
  <2>4. Preparable(Call(p)) => hostPending = Quiet /\ verdict[op[p]] = "open"
    BY <2>2 DEF Preparable, Healthy, TypeOK, Hosted
  <2>5. /\ reply = "failed" => AfterReply(p, reply) = "idle"
        /\ reply = "prepared" => AfterReply(p, reply) = "c_candidate"
        /\ reply = "unchanged" => AfterReply(p, reply) = "a_backup"
    BY DEF AfterReply
  <2> QED
    BY <2>1, <2>2, <2>3, <2>4, <2>5 DEF ServePrepare, End, Goto, Remote
<1>0. /\ Past' = Past /\ (\A x : After(x)' = After(x))
      /\ NoArchive \in Archives /\ NoArchive.published = FALSE
  BY <1>e, HistoryKept, Shapes
<1>1. TypeOK'
  <2>1. /\ hostPending' \in [phase : {"absent", "intent", "prepared", "restoring"}, op : Ops \cup {NoOp}]
        /\ verdict' \in [Ops -> {"open", "unchanged", "committed"}]
        /\ history' \in Seq(Versions) /\ history' # <<>>
        /\ stopIntent' \in BOOLEAN /\ exported' \in Archives
    BY <1>0, <1>d, <1>e DEF TypeOK
  <2>2. at \in [PCs -> Labels] /\ op \in [PCs -> Ops \cup {NoOp}] /\ got \in [PCs -> Archives]
    BY DEF TypeOK
  <2>3. at' \in [PCs -> Labels]
    <3> HIDE DEF IInv
    <3> QED
      BY <1>e, <2>2 DEF Labels
  <2>4. op' \in [PCs -> Ops \cup {NoOp}]
    <3> HIDE DEF IInv
    <3> QED
      BY <1>e, <2>2
  <2>5. got' \in [PCs -> Archives]
    <3> HIDE DEF IInv
    <3> QED
      BY <1>0, <1>d, <1>e, <2>2
  <2> QED
    BY <1>e, <2>1, <2>3, <2>4, <2>5 DEF TypeOK
<1>2. Hosted'
  BY <1>0, <1>d, <1>e DEF TypeOK, Hosted
<1>3. Drawn'
  BY <1>0, <1>d, <1>e DEF TypeOK, Hosted, Drawn, NoPending
<1>4. Once'
  BY <1>0, <1>d, <1>e DEF TypeOK, Drawn, Once, Changes
<1>5. Where'
  BY <1>0, <1>d, <1>e DEF TypeOK, Drawn, Where, Decided, NoPending
<1>6. Revocable'
  <2> SUFFICES ASSUME NEW q \in PCs, NEW o \in Ops, hostPending'.op = o, Coming(q, o)'
               PROVE  pending'[q] = [mode |-> "change", op |-> o] /\ at'[q] # "r_unlink"
    BY DEF Revocable
  <2>1. CASE hostPending'.op = op[p] /\ hostPending' # hostPending
    <3>1. ~\E c \in late : c.kind = "commit" /\ c.op = o
      BY <2>1 DEF Once, Changes
    <3>2. q = p
      BY <1>d, <1>e, <2>1, <3>1 DEF Coming, Drawn, TypeOK
    <3> QED
      BY <1>d, <1>e, <2>1, <3>2 DEF TypeOK
  <2>2. CASE hostPending' = hostPending
    <3>1. Coming(q, o) /\ at'[q] # "r_unlink"
      BY <1>d, <1>e, <2>2 DEF Coming, TypeOK, Hosted, Where, Revocable
    <3> QED
      BY <1>e, <2>2, <3>1 DEF Revocable
  <2> QED
    BY <1>e, <2>1, <2>2 DEF Quiet
<1>7. Named'
  <2>1. CASE UNCHANGED hostPending
    <3>1. at'[p] \notin {"c_outputs", "c_commit"}
      BY <1>e DEF TypeOK
    <3>2. \A q \in PCs \ {p} : at'[q] = at[q] /\ op'[q] = op[q] /\ got'[q] = got[q]
      BY <1>e DEF TypeOK
    <3> QED
      BY <1>e, <2>1, <3>1, <3>2 DEF Named
  <2>2. CASE hostPending' = [phase |-> "prepared", op |-> op[p]]
                /\ at' = [at EXCEPT ![p] = "c_candidate"] /\ UNCHANGED <<op, late, got>>
    <3>1. \A q \in PCs : op[q] = op[p] => q = p
      BY <1>d DEF Drawn, TypeOK
    <3>2. \A c \in late : c.kind = "commit" => c.op # op[p]
      BY <1>d DEF Once, Changes
    <3> QED
      BY <2>2, <3>1, <3>2 DEF TypeOK, Named
  <2>3. CASE hostPending'.phase = "restoring"
    BY <2>3 DEF Named
  <2> QED
    BY <1>e, <2>1, <2>2, <2>3
<1>8. Archived'
  BY <1>0, <1>d, <1>e DEF TypeOK, Hosted, Drawn, Where, Archived, Reading, NoPending
<1>9. Kept'
  BY <1>0, <1>d, <1>e DEF TypeOK, Hosted, Drawn, Where, Decided, Archived, Reading, Kept, NoPending
<1> QED
  BY <1>1, <1>2, <1>3, <1>4, <1>5, <1>6, <1>7, <1>8, <1>9

(* The archive is of the candidate, or of what is published.               *)
LEMMA RemoteBackupKeeps ==
  ASSUME IInv, NEW p \in PCs, Remote(p), CallLabels[at[p]] = "backup"
  PROVE  IInv'
<1> USE DEF IInv, hostSide, disk, command, Quiet
<1>c. at[p] \in {"c_before", "c_candidate", "a_backup", "k_backup", "r_backup"}
  BY DEF Remote, Calling, CallLabels
<1>e. /\ UNCHANGED <<hostPending, verdict, history, stopIntent, disk, issuer, late, faults>>
      /\ \/ /\ UNCHANGED exported
            /\ at' = [at EXCEPT ![p] = "idle"] /\ op' = [op EXCEPT ![p] = NoOp]
            /\ got' = [got EXCEPT ![p] = NoArchive]
         \/ /\ hostPending.phase \in {"absent", "prepared"}
            /\ exported' = [by |-> p, ver |-> Content, published |-> hostPending.phase = "absent"]
            /\ op' = op /\ got' = [got EXCEPT ![p] = exported']
            /\ \/ at[p] = "c_before" /\ at' = [at EXCEPT ![p] = "c_clear"]
               \/ at[p] = "c_candidate" /\ at' = [at EXCEPT ![p] = "c_outputs"]
               \/ at[p] = "a_backup" /\ at' = [at EXCEPT ![p] = "a_outputs"]
               \/ at[p] = "r_backup" /\ at' = [at EXCEPT ![p] = "r_outputs"]
               \/ at[p] = "k_backup" /\ at' = [at EXCEPT ![p] = "k_outputs"]
  <2>1. PICK reply \in Replies :
          /\ Serve(Call(p), reply)
          /\ IF AfterReply(p, reply) = "idle"
             THEN End(p)
             ELSE /\ Goto(p, AfterReply(p, reply))
                  /\ got' = IF reply = "done" THEN [got EXCEPT ![p] = exported'] ELSE got
                  /\ UNCHANGED op
    BY DEF Remote
  <2>2. Call(p).kind = "backup" /\ Call(p).pc = p
    BY DEF Call
  <2>3. ServeBackup(Call(p), reply)
    BY <2>1, <2>2 DEF Serve
  <2>4. /\ reply = "failed" => AfterReply(p, reply) = "idle"
        /\ reply = "done" =>
             \/ at[p] = "c_before" /\ AfterReply(p, reply) = "c_clear"
             \/ at[p] = "c_candidate" /\ AfterReply(p, reply) = "c_outputs"
             \/ at[p] = "a_backup" /\ AfterReply(p, reply) = "a_outputs"
             \/ at[p] = "r_backup" /\ AfterReply(p, reply) = "r_outputs"
             \/ at[p] = "k_backup" /\ AfterReply(p, reply) = "k_outputs"
    BY <1>c DEF AfterReply
  <2> QED
    BY <2>1, <2>2, <2>3, <2>4 DEF ServeBackup, End, Goto, Remote
<1>0. /\ Past' = Past /\ (\A x : After(x)' = After(x))
      /\ NoArchive \in Archives /\ NoArchive.published = FALSE
  BY <1>e, HistoryKept, Shapes
<1>a. \/ exported' = exported /\ at'[p] = "idle"
      \/ /\ hostPending.phase = "absent" /\ exported' \in Archives
         /\ exported'.ver \in Past /\ \A x \in Past : exported'.ver \in After(x)
      \/ /\ hostPending.phase = "prepared" /\ exported' \in Archives
         /\ exported' = Own(p, hostPending.op) /\ exported'.published = FALSE
  <2>1. CASE hostPending.phase = "absent" /\ exported' = [by |-> p, ver |-> Published, published |-> TRUE]
    <3>1. Published \in Versions /\ Published \in Past /\ \A x \in Past : Published \in After(x)
      BY PublishedIsLast DEF TypeOK
    <3> QED
      BY <2>1, <3>1, Shapes
  <2>2. CASE hostPending.phase = "prepared" /\ exported' = Own(p, hostPending.op)
    <3>1. hostPending.op \in Versions
      BY <2>2 DEF Hosted, Versions
    <3> QED
      BY <2>2, <3>1, Shapes DEF Own
  <2> QED
    <3>1. CASE hostPending.phase = "absent" /\ exported' = [by |-> p, ver |-> Content, published |-> TRUE]
      BY <2>1, <3>1 DEF Content
    <3>2. CASE hostPending.phase = "prepared" /\ exported' = [by |-> p, ver |-> Content, published |-> FALSE]
      BY <2>2, <3>2 DEF Content, Own
    <3>3. CASE exported' = exported /\ at' = [at EXCEPT ![p] = "idle"]
      BY <3>3 DEF TypeOK
    <3> QED
      BY <1>e, <3>1, <3>2, <3>3
<1>1. TypeOK'
  <2>1. /\ hostPending' \in [phase : {"absent", "intent", "prepared", "restoring"}, op : Ops \cup {NoOp}]
        /\ verdict' \in [Ops -> {"open", "unchanged", "committed"}]
        /\ history' \in Seq(Versions) /\ history' # <<>>
        /\ stopIntent' \in BOOLEAN /\ exported' \in Archives
    BY <1>0, <1>a, <1>c, <1>e DEF TypeOK
  <2>2. at \in [PCs -> Labels] /\ op \in [PCs -> Ops \cup {NoOp}] /\ got \in [PCs -> Archives]
    BY DEF TypeOK
  <2>3. at' \in [PCs -> Labels]
    <3> HIDE DEF IInv
    <3> QED
      BY <1>e, <2>2 DEF Labels
  <2>4. op' \in [PCs -> Ops \cup {NoOp}]
    <3> HIDE DEF IInv
    <3> QED
      BY <1>e, <2>2
  <2>5. got' \in [PCs -> Archives]
    <3> HIDE DEF IInv
    <3> QED
      BY <1>0, <1>a, <1>c, <1>e, <2>2
  <2> QED
    BY <1>e, <2>1, <2>3, <2>4, <2>5 DEF TypeOK
<1>2. Hosted'
  BY <1>0, <1>a, <1>c, <1>e DEF TypeOK, Hosted
<1>3. Drawn'
  BY <1>0, <1>a, <1>c, <1>e DEF TypeOK, Hosted, Drawn, NoPending
<1>4. Once'
  BY <1>0, <1>a, <1>c, <1>e DEF TypeOK, Drawn, Once, Changes
<1>5. Where'
  BY <1>0, <1>a, <1>c, <1>e DEF TypeOK, Drawn, Where, Decided, NoPending
<1>6. Revocable'
  BY <1>0, <1>a, <1>c, <1>e DEF TypeOK, Hosted, Drawn, Once, Where, Revocable, Coming, Decided, NoPending, Changes
<1>7. Named'
  BY <1>0, <1>a, <1>c, <1>e DEF TypeOK, Hosted, Drawn, Once, Where, Named, Changes
<1>8. Archived'
  BY SMTT(30), <1>0, <1>a, <1>c, <1>e DEF TypeOK, Hosted, Drawn, Where, Archived, Reading, NoPending
<1>9. Kept'
  BY <1>0, <1>a, <1>c, <1>e DEF TypeOK, Hosted, Drawn, Where, Decided, Archived, Reading, Kept, NoPending
<1> QED
  BY <1>1, <1>2, <1>3, <1>4, <1>5, <1>6, <1>7, <1>8, <1>9

(* The commit is of the operation that pending.json names.                 *)
LEMMA RemoteCommitKeeps ==
  ASSUME IInv, NEW p \in PCs, Remote(p), at[p] = "c_commit"
  PROVE  IInv'
<1> USE DEF IInv, hostSide, disk, command, Quiet
<1>d. op[p] \in Ops /\ pending[p] = [mode |-> "change", op |-> op[p]] /\ issuer[op[p]] = p
  BY DEF TypeOK, Where, Drawn
<1>e. /\ UNCHANGED <<stopIntent, exported, disk, issuer, late, faults>>
      /\ \/ /\ UNCHANGED <<hostPending, verdict, history>>
            /\ at' = [at EXCEPT ![p] = "idle"] /\ op' = [op EXCEPT ![p] = NoOp]
            /\ got' = [got EXCEPT ![p] = NoArchive]
         \/ /\ UNCHANGED <<hostPending, verdict, history>> /\ verdict[op[p]] # "open"
            /\ at' = [at EXCEPT ![p] = "a_backup"] /\ op' = op /\ got' = got
         \/ /\ hostPending = [phase |-> "prepared", op |-> op[p]] /\ exported = got[p]
            /\ hostPending' = Quiet
            /\ verdict' = [verdict EXCEPT ![op[p]] = "committed"]
            /\ history' = Append(history, op[p])
            /\ at' = [at EXCEPT ![p] = "a_backup"] /\ op' = op /\ got' = got
  <2>1. PICK reply \in Replies :
          /\ Serve(Call(p), reply)
          /\ IF AfterReply(p, reply) = "idle"
             THEN End(p)
             ELSE /\ Goto(p, AfterReply(p, reply))
                  /\ got' = IF reply = "done" THEN [got EXCEPT ![p] = exported'] ELSE got
                  /\ UNCHANGED op
    BY DEF Remote
  <2>2. Call(p).kind = "commit" /\ Call(p).op = op[p] /\ Call(p).arc = got[p]
    BY DEF Call, CallLabels
  <2>3. ServeCommit(Call(p), reply)
    BY <2>1, <2>2 DEF Serve
  <2>4. /\ reply = "failed" => AfterReply(p, reply) = "idle"
        /\ reply = "committed" => AfterReply(p, reply) = "a_backup"
    BY DEF AfterReply
  <2> QED
    BY <2>1, <2>2, <2>3, <2>4 DEF ServeCommit, End, Goto, Remote
<1>0. /\ Past \subseteq Past' /\ (\A x : After(x) \subseteq After(x)')
      /\ history' \in Seq(Versions) /\ history' # <<>>
      /\ verdict' # verdict => op[p] \in Past'
      /\ NoArchive \in Archives /\ NoArchive.published = FALSE
  BY <1>d, <1>e, HistoryKept, HistoryGrows, Shapes DEF TypeOK, Versions
<1>1. TypeOK'
  <2>1. /\ hostPending' \in [phase : {"absent", "intent", "prepared", "restoring"}, op : Ops \cup {NoOp}]
        /\ verdict' \in [Ops -> {"open", "unchanged", "committed"}]
        /\ history' \in Seq(Versions) /\ history' # <<>>
        /\ stopIntent' \in BOOLEAN /\ exported' \in Archives
    BY <1>0, <1>d, <1>e DEF TypeOK
  <2>2. at \in [PCs -> Labels] /\ op \in [PCs -> Ops \cup {NoOp}] /\ got \in [PCs -> Archives]
    BY DEF TypeOK
  <2>3. at' \in [PCs -> Labels]
    <3> HIDE DEF IInv
    <3> QED
      BY <1>e, <2>2 DEF Labels
  <2>4. op' \in [PCs -> Ops \cup {NoOp}]
    <3> HIDE DEF IInv
    <3> QED
      BY <1>e, <2>2
  <2>5. got' \in [PCs -> Archives]
    <3> HIDE DEF IInv
    <3> QED
      BY <1>0, <1>d, <1>e, <2>2
  <2> QED
    BY <1>e, <2>1, <2>3, <2>4, <2>5 DEF TypeOK
<1>2. Hosted'
  BY <1>0, <1>d, <1>e DEF TypeOK, Hosted
<1>3. Drawn'
  BY <1>0, <1>d, <1>e DEF TypeOK, Hosted, Drawn, NoPending
<1>4. Once'
  BY <1>0, <1>d, <1>e DEF TypeOK, Drawn, Once, Changes
<1>5. Where'
  BY <1>0, <1>d, <1>e DEF TypeOK, Drawn, Where, Decided, NoPending
<1>6. Revocable'
  BY <1>0, <1>d, <1>e DEF TypeOK, Hosted, Drawn, Once, Where, Revocable, Coming, Decided, NoPending, Changes
<1>7. Named'
  BY <1>0, <1>d, <1>e DEF TypeOK, Hosted, Drawn, Once, Where, Named, Changes
<1>8. Archived'
  BY <1>0, <1>d, <1>e DEF TypeOK, Hosted, Drawn, Where, Archived, Reading, NoPending
<1>9. Kept'
  BY <1>0, <1>d, <1>e DEF TypeOK, Hosted, Drawn, Where, Decided, Archived, Reading, Kept, NoPending
<1> QED
  BY <1>1, <1>2, <1>3, <1>4, <1>5, <1>6, <1>7, <1>8, <1>9

(* The abort tells whether the operation is committed.                     *)
LEMMA RemoteAbortKeeps ==
  ASSUME IInv, NEW p \in PCs, Remote(p), at[p] = "r_abort"
  PROVE  IInv'
<1> USE DEF IInv, hostSide, disk, command, Quiet
<1>d. pending[p] # NoPending
  BY DEF Where
<1>e. /\ UNCHANGED <<verdict, history, exported, disk, issuer, late, faults>>
      /\ stopIntent' \in BOOLEAN
      /\ \/ /\ \/ hostPending' = hostPending
               \/ /\ hostPending.phase # "absent"
                  /\ hostPending' = [phase |-> "restoring", op |-> hostPending.op]
            /\ at' = [at EXCEPT ![p] = "idle"] /\ op' = [op EXCEPT ![p] = NoOp]
            /\ got' = [got EXCEPT ![p] = NoArchive]
         \/ /\ hostPending' = Quiet
            /\ pending[p].op # NoOp => verdict[pending[p].op] = "open"
            /\ at' = [at EXCEPT ![p] = "r_unlink"] /\ op' = op /\ got' = got
         \/ /\ hostPending' = hostPending /\ pending[p].mode = "backup"
            /\ at' = [at EXCEPT ![p] = "k_backup"] /\ op' = op /\ got' = got
         \/ /\ hostPending' = hostPending /\ pending[p].mode # "backup"
            /\ pending[p].op # NoOp => verdict[pending[p].op] # "open"
            /\ at' = [at EXCEPT ![p] = "r_status"] /\ op' = op /\ got' = got
  <2>1. PICK reply \in Replies :
          /\ Serve(Call(p), reply)
          /\ IF AfterReply(p, reply) = "idle"
             THEN End(p)
             ELSE /\ Goto(p, AfterReply(p, reply))
                  /\ got' = IF reply = "done" THEN [got EXCEPT ![p] = exported'] ELSE got
                  /\ UNCHANGED op
    BY DEF Remote
  <2>2. Call(p).kind = "abort" /\ Call(p).op = pending[p].op
    BY DEF Call, CallLabels
  <2>3. ServeAbort(Call(p), reply)
    BY <2>1, <2>2 DEF Serve
  <2>4. /\ reply \in {"failed", "queued"} => AfterReply(p, reply) = "idle"
        /\ reply = "restored" => AfterReply(p, reply) = "r_unlink"
        /\ reply = "committed" =>
             AfterReply(p, reply) = IF pending[p].mode = "backup" THEN "k_backup" ELSE "r_status"
    BY DEF AfterReply
  <2>5. CASE reply \in {"failed", "queued"}
    BY <2>1, <2>2, <2>3, <2>4, <2>5 DEF ServeAbort, Judgement, End, Goto, Remote, TypeOK
  <2>6. CASE reply = "restored"
    <3>1. at' = [at EXCEPT ![p] = "r_unlink"] /\ op' = op /\ got' = got
      BY <2>1, <2>4, <2>6 DEF Goto
    <3>2. hostPending' = Quiet /\ (pending[p].op # NoOp => verdict[pending[p].op] = "open")
      <4>1. CASE hostPending.phase = "restoring"
        BY <2>2, <2>3, <2>6, <4>1 DEF ServeAbort, TypeOK, Hosted
      <4>2. CASE hostPending.phase = "absent"
        BY <2>2, <2>3, <2>6, <4>2 DEF ServeAbort, Judgement, TypeOK, Hosted
      <4> QED
        BY <2>3, <2>6, <4>1, <4>2 DEF ServeAbort
    <3> QED
      BY <2>3, <3>1, <3>2 DEF ServeAbort, Remote, TypeOK
  <2>7. CASE reply = "committed"
    BY <2>1, <2>2, <2>3, <2>4, <2>7 DEF ServeAbort, Judgement, Goto, Remote, TypeOK, Hosted
  <2> QED
    BY <2>3, <2>5, <2>6, <2>7 DEF ServeAbort, Judgement
<1>0. /\ Past' = Past /\ (\A x : After(x)' = After(x))
      /\ NoArchive \in Archives /\ NoArchive.published = FALSE
  BY <1>e, HistoryKept, Shapes
<1>1. TypeOK'
  <2>1. /\ hostPending' \in [phase : {"absent", "intent", "prepared", "restoring"}, op : Ops \cup {NoOp}]
        /\ verdict' \in [Ops -> {"open", "unchanged", "committed"}]
        /\ history' \in Seq(Versions) /\ history' # <<>>
        /\ stopIntent' \in BOOLEAN /\ exported' \in Archives
    BY <1>0, <1>d, <1>e DEF TypeOK
  <2>2. at \in [PCs -> Labels] /\ op \in [PCs -> Ops \cup {NoOp}] /\ got \in [PCs -> Archives]
    BY DEF TypeOK
  <2>3. at' \in [PCs -> Labels]
    <3> HIDE DEF IInv
    <3> QED
      BY <1>e, <2>2 DEF Labels
  <2>4. op' \in [PCs -> Ops \cup {NoOp}]
    <3> HIDE DEF IInv
    <3> QED
      BY <1>e, <2>2
  <2>5. got' \in [PCs -> Archives]
    <3> HIDE DEF IInv
    <3> QED
      BY <1>0, <1>d, <1>e, <2>2
  <2> QED
    BY <1>e, <2>1, <2>3, <2>4, <2>5 DEF TypeOK
<1>2. Hosted'
  BY <1>0, <1>d, <1>e DEF TypeOK, Hosted
<1>3. Drawn'
  <2>1. \A o \in Ops : hostPending'.op = o => hostPending.op = o
    BY <1>e
  <2>2. \A q \in PCs : op'[q] # NoOp => op'[q] = op[q]
    BY <1>e DEF TypeOK
  <2> QED
    BY <1>e, <2>1, <2>2 DEF Drawn
<1>4. Once'
  BY <1>0, <1>d, <1>e DEF TypeOK, Drawn, Once, Changes
<1>5. Where'
  BY <1>0, <1>d, <1>e DEF TypeOK, Drawn, Where, Decided, NoPending
<1>6. Revocable'
  BY <1>0, <1>d, <1>e DEF TypeOK, Hosted, Drawn, Once, Where, Revocable, Coming, Decided, NoPending, Changes
<1>7. Named'
  BY <1>0, <1>d, <1>e DEF TypeOK, Hosted, Drawn, Once, Where, Named, Changes
<1>8. Archived'
  BY <1>0, <1>d, <1>e DEF TypeOK, Hosted, Drawn, Where, Archived, Reading, NoPending
<1>9. Kept'
  BY <1>0, <1>d, <1>e DEF TypeOK, Hosted, Drawn, Where, Decided, Archived, Reading, Kept, NoPending
<1> QED
  BY <1>1, <1>2, <1>3, <1>4, <1>5, <1>6, <1>7, <1>8, <1>9

(* A late prepare belongs to a command that sent no commit.                *)
LEMMA LatePrepareKeeps ==
  ASSUME IInv, NEW c \in late, ServeLate(c), c.kind = "prepare"
  PROVE  IInv'
<1> USE DEF IInv, hostSide, disk, command, Quiet
<1>d. c.op \in Ops /\ issuer[c.op] = c.pc /\ c.pc \in PCs
  BY DEF TypeOK, Drawn, Changes
<1>e. /\ UNCHANGED <<history, stopIntent, exported, disk, command, issuer, faults>>
      /\ late' = late \ {c}
      /\ \/ UNCHANGED <<hostPending, verdict>>
         \/ /\ hostPending = Quiet /\ verdict[c.op] = "open" /\ UNCHANGED verdict
            /\ hostPending' \in {[phase |-> "prepared", op |-> c.op], [phase |-> "restoring", op |-> c.op]}
         \/ /\ hostPending = Quiet /\ verdict[c.op] = "open" /\ UNCHANGED hostPending
            /\ verdict' = [verdict EXCEPT ![c.op] = "unchanged"]
  <2>1. Preparable(c) => hostPending = Quiet /\ verdict[c.op] = "open"
    BY DEF Preparable, Healthy, TypeOK, Hosted
  <2> QED
    BY <2>1 DEF ServeLate, Serve, ServePrepare
<1>0. /\ Past' = Past /\ (\A x : After(x)' = After(x))
      /\ NoArchive \in Archives /\ NoArchive.published = FALSE
  BY <1>e, HistoryKept, Shapes
<1>1. TypeOK'
  BY <1>0, <1>d, <1>e DEF TypeOK, Labels, NoPending
<1>2. Hosted'
  BY <1>0, <1>d, <1>e DEF TypeOK, Hosted
<1>3. Drawn'
  BY <1>0, <1>d, <1>e DEF TypeOK, Hosted, Drawn, NoPending
<1>4. Once'
  BY <1>0, <1>d, <1>e DEF TypeOK, Drawn, Once, Changes
<1>5. Where'
  BY <1>0, <1>d, <1>e DEF TypeOK, Drawn, Where, Decided, NoPending
<1>6. Revocable'
  BY <1>0, <1>d, <1>e DEF TypeOK, Hosted, Drawn, Once, Where, Revocable, Coming, Decided, NoPending, Changes
<1>7. Named'
  BY <1>0, <1>d, <1>e DEF TypeOK, Hosted, Drawn, Once, Where, Named, Changes
<1>8. Archived'
  BY <1>0, <1>d, <1>e DEF TypeOK, Hosted, Drawn, Where, Archived, Reading, NoPending
<1>9. Kept'
  BY <1>0, <1>d, <1>e DEF TypeOK, Hosted, Drawn, Where, Decided, Archived, Reading, Kept, NoPending
<1> QED
  BY <1>1, <1>2, <1>3, <1>4, <1>5, <1>6, <1>7, <1>8, <1>9

(* A late export is recorded as its PC's.                                  *)
LEMMA LateBackupKeeps ==
  ASSUME IInv, NEW c \in late, ServeLate(c), c.kind = "backup"
  PROVE  IInv'
<1> USE DEF IInv, hostSide, disk, command, Quiet
<1>d. c.pc \in PCs
  BY DEF TypeOK
<1>e. /\ UNCHANGED <<hostPending, verdict, history, stopIntent, disk, command, issuer, faults>>
      /\ late' = late \ {c}
      /\ \/ UNCHANGED exported
         \/ /\ hostPending.phase \in {"absent", "prepared"}
            /\ exported' = [by |-> c.pc, ver |-> Content, published |-> hostPending.phase = "absent"]
  BY DEF ServeLate, Serve, ServeBackup
<1>0. /\ Past' = Past /\ (\A x : After(x)' = After(x))
      /\ NoArchive \in Archives /\ NoArchive.published = FALSE
  BY <1>e, HistoryKept, Shapes
<1>a. \/ exported' = exported /\ exported' \in Archives
      \/ /\ hostPending.phase = "absent" /\ exported' \in Archives
         /\ exported'.ver \in Past /\ \A x \in Past : exported'.ver \in After(x)
      \/ /\ hostPending.phase = "prepared" /\ exported' \in Archives
         /\ exported' = Own(c.pc, hostPending.op) /\ exported'.published = FALSE
  <2>1. CASE hostPending.phase = "absent" /\ exported' = [by |-> c.pc, ver |-> Published, published |-> TRUE]
    <3>1. Published \in Versions /\ Published \in Past /\ \A x \in Past : Published \in After(x)
      BY PublishedIsLast DEF TypeOK
    <3> QED
      BY <1>d, <2>1, <3>1, Shapes
  <2>2. CASE hostPending.phase = "prepared" /\ exported' = Own(c.pc, hostPending.op)
    <3>1. hostPending.op \in Versions
      BY <2>2 DEF Hosted, Versions
    <3> QED
      BY <1>d, <2>2, <3>1, Shapes DEF Own
  <2> QED
    <3>1. CASE hostPending.phase = "absent" /\ exported' = [by |-> c.pc, ver |-> Content, published |-> TRUE]
      BY <2>1, <3>1 DEF Content
    <3>2. CASE hostPending.phase = "prepared" /\ exported' = [by |-> c.pc, ver |-> Content, published |-> FALSE]
      BY <2>2, <3>2 DEF Content, Own
    <3>3. CASE exported' = exported
      BY <3>3 DEF TypeOK
    <3> QED
      BY <1>e, <3>1, <3>2, <3>3
<1>1. TypeOK'
  BY <1>0, <1>a, <1>d, <1>e DEF TypeOK, Labels, NoPending
<1>2. Hosted'
  BY <1>0, <1>a, <1>d, <1>e DEF TypeOK, Hosted
<1>3. Drawn'
  BY <1>0, <1>a, <1>d, <1>e DEF TypeOK, Hosted, Drawn, NoPending
<1>4. Once'
  BY <1>0, <1>a, <1>d, <1>e DEF TypeOK, Drawn, Once, Changes
<1>5. Where'
  BY <1>0, <1>a, <1>d, <1>e DEF TypeOK, Drawn, Where, Decided, NoPending
<1>6. Revocable'
  BY <1>0, <1>a, <1>d, <1>e DEF TypeOK, Hosted, Drawn, Once, Where, Revocable, Coming, Decided, NoPending, Changes
<1>7. Named'
  BY <1>0, <1>a, <1>d, <1>e DEF TypeOK, Hosted, Drawn, Once, Where, Named, Changes
<1>8. Archived'
  BY <1>0, <1>a, <1>d, <1>e DEF TypeOK, Hosted, Drawn, Where, Archived, Reading, NoPending
<1>9. Kept'
  BY <1>0, <1>a, <1>d, <1>e DEF TypeOK, Hosted, Drawn, Where, Decided, Archived, Reading, Kept, NoPending
<1> QED
  BY <1>1, <1>2, <1>3, <1>4, <1>5, <1>6, <1>7, <1>8, <1>9

(* A late commit finds its operation in its PC's pending.json.             *)
LEMMA LateCommitKeeps ==
  ASSUME IInv, NEW c \in late, ServeLate(c), c.kind = "commit"
  PROVE  IInv'
<1> USE DEF IInv, hostSide, disk, command, Quiet
<1>d. c.op \in Ops /\ issuer[c.op] = c.pc /\ c.pc \in PCs /\ Coming(c.pc, c.op)
  BY DEF TypeOK, Drawn, Changes, Coming
<1>e. /\ UNCHANGED <<stopIntent, exported, disk, command, issuer, faults>>
      /\ late' = late \ {c}
      /\ \/ UNCHANGED <<hostPending, verdict, history>>
         \/ /\ hostPending = [phase |-> "prepared", op |-> c.op] /\ exported = c.arc
            /\ pending[c.pc] = [mode |-> "change", op |-> c.op] /\ at[c.pc] # "r_unlink"
            /\ hostPending' = Quiet
            /\ verdict' = [verdict EXCEPT ![c.op] = "committed"]
            /\ history' = Append(history, c.op)
  BY <1>d DEF ServeLate, Serve, ServeCommit, Revocable
<1>0. /\ Past \subseteq Past' /\ (\A x : After(x) \subseteq After(x)')
      /\ history' \in Seq(Versions) /\ history' # <<>>
      /\ verdict' # verdict => c.op \in Past'
      /\ NoArchive \in Archives /\ NoArchive.published = FALSE
  BY <1>d, <1>e, HistoryKept, HistoryGrows, Shapes DEF TypeOK, Versions
<1>1. TypeOK'
  <2>1. hostPending' \in [phase : {"absent", "intent", "prepared", "restoring"}, op : Ops \cup {NoOp}]
    BY <1>e DEF TypeOK
  <2>2. verdict' \in [Ops -> {"open", "unchanged", "committed"}]
    BY <1>e DEF TypeOK
  <2> QED
    BY <1>0, <1>e, <2>1, <2>2 DEF TypeOK
<1>2. Hosted'
  BY <1>0, <1>d, <1>e DEF TypeOK, Hosted
<1>3. Drawn'
  BY <1>0, <1>d, <1>e DEF TypeOK, Hosted, Drawn, NoPending
<1>4. Once'
  BY <1>0, <1>d, <1>e DEF TypeOK, Drawn, Once, Changes
<1>5. Where'
  BY <1>0, <1>d, <1>e DEF TypeOK, Drawn, Where, Decided, NoPending
<1>6. Revocable'
  BY <1>0, <1>d, <1>e DEF TypeOK, Hosted, Drawn, Once, Where, Revocable, Coming, Decided, NoPending, Changes
<1>7. Named'
  BY <1>0, <1>d, <1>e DEF TypeOK, Hosted, Drawn, Once, Where, Named, Changes
<1>8. Archived'
  <2>1. CASE UNCHANGED <<verdict, history>>
    BY <1>0, <1>e, <2>1 DEF TypeOK, Archived
  <2>2. CASE verdict' = [verdict EXCEPT ![c.op] = "committed"]
              /\ hostPending.op = c.op /\ pending[c.pc] = [mode |-> "change", op |-> c.op]
    <3>1. at[c.pc] \notin Reading \cup {"m_unlink"}
      BY <1>d, <2>2 DEF TypeOK, Hosted, Where, Decided, Reading, NoPending
    <3> QED
      BY <1>0, <1>d, <1>e, <2>2, <3>1 DEF TypeOK, Archived, Reading
  <2> QED
    BY <1>e, <2>1, <2>2
<1>9. Kept'
  BY <1>0, <1>d, <1>e DEF TypeOK, Hosted, Drawn, Where, Decided, Archived, Reading, Kept, NoPending
<1> QED
  BY <1>1, <1>2, <1>3, <1>4, <1>5, <1>6, <1>7, <1>8, <1>9

(* A late abort rolls back what is still open.                             *)
LEMMA LateAbortKeeps ==
  ASSUME IInv, NEW c \in late, ServeLate(c), c.kind = "abort"
  PROVE  IInv'
<1> USE DEF IInv, hostSide, disk, command, Quiet
<1>e. /\ UNCHANGED <<verdict, history, exported, disk, command, issuer, faults>>
      /\ late' = late \ {c} /\ stopIntent' \in BOOLEAN
      /\ \/ hostPending' \in {hostPending, Quiet}
         \/ /\ hostPending.phase # "absent"
            /\ hostPending' = [phase |-> "restoring", op |-> hostPending.op]
  <2>1. late' = late \ {c} /\ UNCHANGED <<disk, command, issuer, faults>>
    BY DEF ServeLate
  <2>2. PICK reply \in Replies : Serve(c, reply)
    BY DEF ServeLate
  <2>3. ServeAbort(c, reply)
    BY <2>2 DEF Serve
  <2>4. UNCHANGED <<verdict, history, exported>>
    BY <2>3 DEF ServeAbort
  <2>5. /\ stopIntent \in BOOLEAN
        /\ hostPending \in [phase : {"absent", "intent", "prepared", "restoring"}, op : Ops \cup {NoOp}]
    BY DEF TypeOK
  <2>6. hostPending' = [hostPending EXCEPT !.phase = "restoring"] =>
          hostPending' = [phase |-> "restoring", op |-> hostPending.op]
    BY <2>5
  <2>7. stopIntent' \in BOOLEAN
    BY <2>3, <2>5 DEF ServeAbort
  <2>8. \/ hostPending' \in {hostPending, Quiet}
        \/ hostPending.phase # "absent" /\ hostPending' = [hostPending EXCEPT !.phase = "restoring"]
    BY <2>3 DEF ServeAbort
  <2> QED
    BY <2>1, <2>4, <2>6, <2>7, <2>8
<1>0. /\ Past' = Past /\ (\A x : After(x)' = After(x))
      /\ NoArchive \in Archives /\ NoArchive.published = FALSE
  BY <1>e, HistoryKept, Shapes
<1>1. TypeOK'
  BY <1>0, <1>e DEF TypeOK, Labels, NoPending
<1>2. Hosted'
  BY <1>0, <1>e DEF TypeOK, Hosted
<1>3. Drawn'
  BY <1>0, <1>e DEF TypeOK, Hosted, Drawn, NoPending
<1>4. Once'
  BY <1>0, <1>e DEF TypeOK, Drawn, Once, Changes
<1>5. Where'
  BY <1>0, <1>e DEF TypeOK, Drawn, Where, Decided, NoPending
<1>6. Revocable'
  BY <1>0, <1>e DEF TypeOK, Hosted, Drawn, Once, Where, Revocable, Coming, Decided, NoPending, Changes
<1>7. Named'
  BY <1>0, <1>e DEF TypeOK, Hosted, Drawn, Once, Where, Named, Changes
<1>8. Archived'
  BY <1>0, <1>e DEF TypeOK, Hosted, Drawn, Where, Archived, Reading, NoPending
<1>9. Kept'
  BY <1>0, <1>e DEF TypeOK, Hosted, Drawn, Where, Decided, Archived, Reading, Kept, NoPending
<1> QED
  BY <1>1, <1>2, <1>3, <1>4, <1>5, <1>6, <1>7, <1>8, <1>9

(* A prepare that dies leaves an intent that cannot be committed.          *)
LEMMA DyingPrepareKeeps ==
  ASSUME IInv, NEW p \in PCs, HostDies(p), at[p] = "c_prepare"
  PROVE  IInv'
<1> USE DEF IInv, hostSide, disk, command, Quiet, End, Goto, Fault
<1>d. op[p] \in Ops /\ pending[p] = [mode |-> "change", op |-> op[p]]
  BY DEF TypeOK, Where
<1>e. /\ UNCHANGED <<verdict, history, stopIntent, exported, disk, issuer, late>>
      /\ faults' = faults + 1 /\ faults < MaxFaults /\ End(p)
      /\ hostPending = Quiet /\ verdict[op[p]] = "open"
      /\ hostPending' = [phase |-> "intent", op |-> op[p]]
  <2>1. Call(p).kind = "prepare" /\ Call(p).op = op[p]
    BY DEF Call, CallLabels
  <2> QED
    BY <2>1 DEF HostDies, Preparable, Healthy, TypeOK, Hosted
<1>0. /\ Past' = Past /\ (\A x : After(x)' = After(x))
      /\ NoArchive \in Archives /\ NoArchive.published = FALSE
  BY <1>e, HistoryKept, Shapes
<1>1. TypeOK'
  BY <1>0, <1>d, <1>e DEF TypeOK, Labels, NoPending
<1>2. Hosted'
  BY <1>0, <1>d, <1>e DEF TypeOK, Hosted
<1>3. Drawn'
  BY <1>0, <1>d, <1>e DEF TypeOK, Hosted, Drawn, NoPending
<1>4. Once'
  BY <1>0, <1>d, <1>e DEF TypeOK, Drawn, Once, Changes
<1>5. Where'
  BY <1>0, <1>d, <1>e DEF TypeOK, Drawn, Where, Decided, NoPending
<1>6. Revocable'
  BY <1>0, <1>d, <1>e DEF TypeOK, Hosted, Drawn, Once, Where, Revocable, Coming, Decided, NoPending, Changes
<1>7. Named'
  BY <1>0, <1>d, <1>e DEF TypeOK, Hosted, Drawn, Once, Where, Named, Changes
<1>8. Archived'
  BY <1>0, <1>d, <1>e DEF TypeOK, Hosted, Drawn, Where, Archived, Reading, NoPending
<1>9. Kept'
  BY <1>0, <1>d, <1>e DEF TypeOK, Hosted, Drawn, Where, Decided, Archived, Reading, Kept, NoPending
<1> QED
  BY <1>1, <1>2, <1>3, <1>4, <1>5, <1>6, <1>7, <1>8, <1>9

(* A backup that dies may have recorded its export.                        *)
LEMMA DyingBackupKeeps ==
  ASSUME IInv, NEW p \in PCs, HostDies(p), at[p] # "c_prepare"
  PROVE  IInv'
<1> USE DEF IInv, hostSide, disk, command, Quiet, End, Goto, Fault
<1>e. /\ UNCHANGED <<hostPending, verdict, history, disk, issuer, late>>
      /\ faults' = faults + 1 /\ faults < MaxFaults /\ End(p)
      /\ stopIntent' \in BOOLEAN
      /\ \/ UNCHANGED exported
         \/ /\ hostPending.phase \in {"absent", "prepared"}
            /\ exported' = [by |-> p, ver |-> Content, published |-> hostPending.phase = "absent"]
  <2>1. Call(p).kind # "prepare"
    BY DEF HostDies, Calling, Call, CallLabels
  <2> QED
    BY <2>1 DEF HostDies
<1>0. /\ Past' = Past /\ (\A x : After(x)' = After(x))
      /\ NoArchive \in Archives /\ NoArchive.published = FALSE
  BY <1>e, HistoryKept, Shapes
<1>a. \/ exported' = exported /\ exported' \in Archives
      \/ /\ hostPending.phase = "absent" /\ exported' \in Archives
         /\ exported'.ver \in Past /\ \A x \in Past : exported'.ver \in After(x)
      \/ /\ hostPending.phase = "prepared" /\ exported' \in Archives
         /\ exported' = Own(p, hostPending.op) /\ exported'.published = FALSE
  <2>1. CASE hostPending.phase = "absent" /\ exported' = [by |-> p, ver |-> Published, published |-> TRUE]
    <3>1. Published \in Versions /\ Published \in Past /\ \A x \in Past : Published \in After(x)
      BY PublishedIsLast DEF TypeOK
    <3> QED
      BY <2>1, <3>1, Shapes
  <2>2. CASE hostPending.phase = "prepared" /\ exported' = Own(p, hostPending.op)
    <3>1. hostPending.op \in Versions
      BY <2>2 DEF Hosted, Versions
    <3> QED
      BY <2>2, <3>1, Shapes DEF Own
  <2> QED
    <3>1. CASE hostPending.phase = "absent" /\ exported' = [by |-> p, ver |-> Content, published |-> TRUE]
      BY <2>1, <3>1 DEF Content
    <3>2. CASE hostPending.phase = "prepared" /\ exported' = [by |-> p, ver |-> Content, published |-> FALSE]
      BY <2>2, <3>2 DEF Content, Own
    <3>3. CASE exported' = exported
      BY <3>3 DEF TypeOK
    <3> QED
      BY <1>e, <3>1, <3>2, <3>3
<1>1. TypeOK'
  BY <1>0, <1>a, <1>e DEF TypeOK, Labels, NoPending
<1>2. Hosted'
  BY <1>0, <1>a, <1>e DEF TypeOK, Hosted
<1>3. Drawn'
  BY <1>0, <1>a, <1>e DEF TypeOK, Hosted, Drawn, NoPending
<1>4. Once'
  BY <1>0, <1>a, <1>e DEF TypeOK, Drawn, Once, Changes
<1>5. Where'
  BY <1>0, <1>a, <1>e DEF TypeOK, Drawn, Where, Decided, NoPending
<1>6. Revocable'
  BY <1>0, <1>a, <1>e DEF TypeOK, Hosted, Drawn, Once, Where, Revocable, Coming, Decided, NoPending, Changes
<1>7. Named'
  BY <1>0, <1>a, <1>e DEF TypeOK, Hosted, Drawn, Once, Where, Named, Changes
<1>8. Archived'
  BY <1>0, <1>a, <1>e DEF TypeOK, Hosted, Drawn, Where, Archived, Reading, NoPending
<1>9. Kept'
  BY <1>0, <1>a, <1>e DEF TypeOK, Hosted, Drawn, Where, Decided, Archived, Reading, Kept, NoPending
<1> QED
  BY <1>1, <1>2, <1>3, <1>4, <1>5, <1>6, <1>7, <1>8, <1>9

(* The order of Next, disjunct by disjunct. *)
LEMMA StepKeeps == IInv /\ [Next]_vars => IInv'
<1> SUFFICES ASSUME IInv, [Next]_vars PROVE IInv'
  OBVIOUS
<1>1. ASSUME NEW p \in PCs, Operator(p) PROVE IInv'
  BY <1>1, BeginKeeps, BeginBackupKeeps, BeginRecoverKeeps, BeginConnectKeeps DEF Operator
<1>2. ASSUME NEW p \in PCs, Remote(p) PROVE IInv'
  <2>1. CallLabels[at[p]] = "backup" \/ at[p] \in {"c_prepare", "c_commit", "r_abort"}
    BY <1>2 DEF Remote, Calling, CallLabels
  <2> QED
    BY <1>2, <2>1, RemotePrepareKeeps, RemoteBackupKeeps, RemoteCommitKeeps, RemoteAbortKeeps
<1>3. ASSUME NEW p \in PCs, Command(p), ~Remote(p) PROVE IInv'
  BY <1>3, StatusKeeps, MarkBackupKeeps, ClearBackupKeeps, WritePendingKeeps, PullKeeps, ValidateKeeps,
     ValidateBackupKeeps, RememberOutputsKeeps, RememberStateKeeps, UnlinkKeeps DEF Command
<1>4. ASSUME NEW p \in PCs, Faulty(p) PROVE IInv'
  BY <1>4, KillKeeps, OrphanKeeps, DyingPrepareKeeps, DyingBackupKeeps, CoreFailsKeeps DEF Faulty
<1>5. ASSUME NEW c \in late, ServeLate(c) PROVE IInv'
  <2>1. c.kind \in {"backup", "prepare", "commit", "abort"}
    BY DEF IInv, TypeOK
  <2> QED
    BY <1>5, <2>1, LatePrepareKeeps, LateBackupKeeps, LateCommitKeeps, LateAbortKeeps
<1>6. CASE HostTimer
  BY <1>6, HostTimerKeeps
<1>7. CASE UNCHANGED vars
  <2>1. Past' = Past /\ \A x : After(x)' = After(x)
    BY <1>7, HistoryKept DEF vars, hostSide
  <2> USE <1>7 DEF IInv, vars, hostSide, disk, command
  <2>2. TypeOK' /\ Hosted' /\ Drawn' /\ Once'
    BY <2>1 DEF TypeOK, Hosted, Drawn, Once
  <2>3. Where' /\ Revocable' /\ Named'
    BY DEF Where, Decided, Revocable, Coming, Named
  <2>4. Archived' /\ Kept'
    BY <2>1 DEF Archived, Kept
  <2> QED
    BY <2>2, <2>3, <2>4
<1> QED
  BY <1>1, <1>2, <1>3, <1>4, <1>5, <1>6, <1>7 DEF Next

(* The inductive invariant holds of every state the PCs and the host can   *)
(* reach.                                                                  *)
THEOREM Invariance == Spec => []IInv
BY InitHolds, StepKeeps, PTL DEF Spec

-----------------------------------------------------------------------------
(* The host, the state directories and the commands keep their types. *)
THEOREM TypeCorrect == Spec => []TypeOK
<1>1. IInv => TypeOK
  BY DEF IInv
<1> QED
  BY <1>1, Invariance, PTL

(* No PC ever makes an unpublished candidate its authority, and none loses *)
(* a commit that took effect, however many share the host, die or are      *)
(* served late.                                                            *)
THEOREM SavedAlwaysPublished == Spec => []SavedIsPublished
<1>1. \A v \in Past : CommittedFrom(1, v)
  BY DEF Past, CommittedFrom
<1>2. ASSUME TypeOK, NEW o, NEW v \in After(o)
      PROVE  \E i \in 1..Len(history) : history[i] = o /\ CommittedFrom(i, v)
  <2>1. PICK j \in 1..Len(history) : v = history[j] /\ \E i \in 1..j : history[i] = o
    BY <1>2 DEF After
  <2>2. PICK i \in 1..j : history[i] = o
    BY <2>1
  <2>3. Len(history) \in Nat
    BY <1>2 DEF TypeOK
  <2>4. i \in 1..Len(history) /\ j \in i..Len(history)
    BY <2>1, <2>2, <2>3
  <2> QED
    BY <2>1, <2>2, <2>4 DEF CommittedFrom
<1>3. IInv => SavedWasPublished
  BY <1>1 DEF IInv, Kept, SavedWasPublished
<1>4. IInv => NothingForgotten
  <2> SUFFICES ASSUME IInv, NEW o \in Ops, verdict[o] = "committed",
                      pending[issuer[o]] # [mode |-> "change", op |-> o]
               PROVE  \E i \in 1..Len(history) : history[i] = o /\ CommittedFrom(i, saved[issuer[o]])
    BY DEF NothingForgotten
  <2>1. saved[issuer[o]] \in After(o)
    BY DEF IInv, Kept
  <2> QED
    BY <1>2, <2>1 DEF IInv
<1> QED
  BY <1>3, <1>4, Invariance, PTL DEF SavedIsPublished

(* What commits an operation is the export that its own PC made of its own *)
(* candidate, also when the commit is served after its command died.       *)
THEOREM AlwaysCommitsOwnArchive == Spec => CommitsOwnArchive
<1>1. IInv /\ [Next]_vars =>
        \A o \in Ops : verdict[o] # "committed" /\ verdict'[o] = "committed" =>
          exported = [by |-> issuer[o], ver |-> o, published |-> FALSE]
  <2> SUFFICES ASSUME IInv, [Next]_vars, NEW o \in Ops, verdict[o] # "committed", verdict'[o] = "committed"
               PROVE  exported = Own(issuer[o], o)
    BY DEF Own
  <2>1. ASSUME NEW c, NEW reply \in Replies, Serve(c, reply)
        PROVE  c.kind = "commit" /\ c.op = o /\ exported = c.arc
               /\ hostPending = [phase |-> "prepared", op |-> c.op]
    BY <2>1 DEF Serve, ServePrepare, ServeCommit, ServeBackup, ServeAbort, IInv, TypeOK
  <2>2. ASSUME NEW p \in PCs, Remote(p) PROVE exported = Own(issuer[o], o)
    <3>1. /\ Call(p).kind = "commit" /\ Call(p).op = o /\ exported = Call(p).arc
          /\ hostPending = [phase |-> "prepared", op |-> Call(p).op]
      BY <2>1, <2>2 DEF Remote
    <3>2. at[p] = "c_commit" /\ op[p] = o /\ exported = got[p]
      BY <2>2, <3>1 DEF Remote, Calling, Call, CallLabels
    <3> QED
      BY <3>1, <3>2 DEF IInv, Named, Drawn
  <2>3. ASSUME NEW c \in late, ServeLate(c) PROVE exported = Own(issuer[o], o)
    <3>1. /\ c.kind = "commit" /\ c.op = o /\ exported = c.arc
          /\ hostPending = [phase |-> "prepared", op |-> c.op]
      BY <2>1, <2>3 DEF ServeLate
    <3> QED
      BY <3>1 DEF IInv, Named, Drawn, Changes
  <2>4. ~\E p \in PCs : Operator(p) \/ (Command(p) /\ ~Remote(p)) \/ Faulty(p)
    BY DEF Operator, Command, Faulty, Begin, BeginBackup, BeginRecover, BeginConnect, Status, MarkBackup,
       ClearBackup, WritePending, Pull, Validate, ValidateBackup, RememberOutputs, RememberState, Unlink,
       Kill, Orphan, HostDies, CoreFails, hostSide
  <2> QED
    BY <2>2, <2>3, <2>4 DEF Next, HostTimer, vars, hostSide
<1> QED
  BY <1>1, Invariance, PTL DEF Spec, CommitsOwnArchive

=============================================================================
