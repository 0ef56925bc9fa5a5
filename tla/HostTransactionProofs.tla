---------------------- MODULE HostTransactionProofs ----------------------
(***************************************************************************)
(* Theorems about the host transaction engine for every set of operations, *)
(* every set of transport operations and any number of faults.  All rest   *)
(* on one inductive invariant, IInv: Init implies it (InitHolds), every    *)
(* step keeps it (StepKeeps, from one lemma per group of actions, with one *)
(* step per action), and it implies each safety property.                  *)
(***************************************************************************)
EXTENDS HostTransaction, TLAPS

\* Names for constant sets, sentinel values, variable tuples and the basic
\* predicates are expanded everywhere.
USE OpsAssumption
USE DEF Procs, Services, Versions, NoOp, NoVer, NoPending, NoRollback, NoBackup,
        NoCall, Labels, Phases, PrepareGuarded, PrepareLabels, CommitLabels,
        BackupLabels, RestoreLabels, RecoverLabels, journals, files, systemd, pcSide, From, Goto,
        IsPending, HasRollback, BackupOpen, Committed, Up

-----------------------------------------------------------------------------
(* The inductive invariant *)

\* The committed, healthy deployment satisfies the invariant.
LEMMA InitHolds == Init => IInv
<1> SUFFICES ASSUME Init PROVE IInv
  OBVIOUS
<1> USE DEF Init, Authoritative, Quiet, Settled
<1>1. PendingType /\ RollbackType
  BY DEF PendingType, RollbackType
<1>2. JournalTypes
  BY DEF JournalTypes
<1>3. FileTypes /\ UnitTypes
  BY DEF FileTypes, UnitTypes
<1>4. ProcessTypes
  <2>1. pc \in [Procs -> Labels] /\ call \in [op : Ops \cup {NoOp}, built : BOOLEAN]
    OBVIOUS
  <2>2. /\ archive \in Versions \cup {NoVer, "torn"}
        /\ archived \subseteq Versions \cup {"torn"}
    OBVIOUS
  <2>3. lapsed \in BOOLEAN
    OBVIOUS
  <2>4. faults \in 0..MaxFaults
    OBVIOUS
  <2> QED
    BY <2>1, <2>2, <2>3, <2>4 DEF ProcessTypes
<1>5. OneHolder /\ JournalsAgree /\ CallerKnows /\ RecoverKnows
  BY DEF OneHolder, JournalsAgree, CallerKnows, RecoverKnows
<1>6. FilesAgree /\ ServicesAgree /\ ArchivesAgree /\ AdapterAgrees
  BY DEF FilesAgree, ServicesAgree, ArchivesAgree, AdapterAgrees
<1> QED
  BY <1>1, <1>2, <1>3, <1>4, <1>5, <1>6 DEF IInv, TypeOK

-----------------------------------------------------------------------------
(* Types of the helpers *)

\* Stopping and queueing services leaves the units' types.
LEMMA StopTypes ==
  ASSUME UnitTypes, NEW S \in SUBSET Services, Stop(S)
  PROVE  UnitTypes'
BY DEF UnitTypes, Stop

LEMMA QueueTypes ==
  ASSUME UnitTypes, NEW S \in SUBSET Services, NEW T \in SUBSET Services,
         QueueRecorded(S, T)
  PROVE  UnitTypes'
BY DEF UnitTypes, QueueRecorded

LEMMA BackupStartTypes ==
  ASSUME UnitTypes, BackupStartFront
  PROVE  UnitTypes'
BY DEF UnitTypes, BackupStartFront, Queue

LEMMA RunJobTypes ==
  ASSUME FileTypes, UnitTypes, NEW s \in Services, RunJob(s)
  PROVE  UnitTypes'
<1>1. Content(s) \in Versions \cup {"torn", "closed"}
  BY DEF FileTypes, Content
<1>2. CASE Guard
  BY <1>1, <1>2 DEF UnitTypes, RunJob
<1>3. CASE ~Guard
  BY <1>3 DEF UnitTypes, RunJob
<1> QED
  BY <1>2, <1>3

\* Ending a call, or an exception, leaves the processes' types.
LEMMA EndCallTypes ==
  ASSUME call \in [op : Ops \cup {NoOp}, built : BOOLEAN], NEW p \in Procs, EndCall(p)
  PROVE  (call \in [op : Ops \cup {NoOp}, built : BOOLEAN])'
BY DEF EndCall

LEMMA CommittedRollbackTypes ==
  ASSUME ProcessTypes, NEW p \in Procs, RecoverCommittedRollback(p)
  PROVE  ProcessTypes'
<1>1. (call \in [op : Ops \cup {NoOp}, built : BOOLEAN])'
  BY EndCallTypes DEF ProcessTypes, RecoverCommittedRollback
<1>2. (pc \in [Procs -> Labels])'
  BY DEF ProcessTypes, RecoverCommittedRollback
<1> QED
  BY <1>1, <1>2 DEF ProcessTypes, RecoverCommittedRollback

LEMMA RaiseTypes ==
  ASSUME ProcessTypes, NEW p \in Procs, Raise(p)
  PROVE  ProcessTypes'
<1>1. (call \in [op : Ops \cup {NoOp}, built : BOOLEAN])'
  BY EndCallTypes DEF ProcessTypes, Raise
<1>2. (pc \in [Procs -> Labels])'
  BY DEF ProcessTypes, Raise
<1>3. (faults \in 0..MaxFaults)'
  BY DEF ProcessTypes, Raise, Fault
<1> QED
  BY <1>1, <1>2, <1>3 DEF ProcessTypes, Raise

\* The flag recovery records is a truth value.
LEMMA NeedsDbType ==
  ASSUME PendingType
  PROVE  NeedsDb \in BOOLEAN
<1>1. pending.restoreDb \in BOOLEAN
  BY DEF PendingType
<1>2. CASE pending.phase = "recovering"
  BY <1>1, <1>2 DEF NeedsDb
<1>3. CASE pending.phase # "recovering"
  BY <1>1, <1>3 DEF NeedsDb
<1> QED
  BY <1>2, <1>3

\* Recovery goes where the receipt and the phase of the journal allow.
LEMMA LabelSound ==
  ASSUME NEW p \in Procs, TypeOK, JournalsAgree, ~Adopts
  PROVE  /\ RecoverLabel(p) \in {"rc_unlink", "r_receipt", "q_check", "r_mark",
                                 "rb_enter", "idle"}
         /\ RecoverLabel(p) \in {"r_receipt", "r_mark"} =>
              /\ HasRollback
              /\ ~Committed(rollback.op)
              /\ pending.phase # "restore-queued"
         /\ RecoverLabel(p) = "r_mark" => receipt[rollback.op] # "none"
         /\ RecoverLabel(p) = "q_check" => pending.phase = "restore-queued"
         /\ RecoverLabel(p) = "rc_unlink" => HasRollback /\ Committed(rollback.op)
         /\ RecoverLabel(p) = "rb_enter" => BackupOpen
BY DEF TypeOK, PendingType, RollbackType, JournalTypes, JournalsAgree, RecoverLabel,
       DevicesLabel, RecoverOp, Staged, Adopts, Due

-----------------------------------------------------------------------------
(* Every step keeps the invariant *)

\* A request begins: its checks establish what the later steps rely on.
LEMMA CallerBeginKeeps ==
  ASSUME IInv, CallerBegin
  PROVE  IInv'
<1> USE DEF IInv, TypeOK, PendingType, RollbackType, JournalTypes, FileTypes,
            UnitTypes, ProcessTypes, OneHolder, JournalsAgree, CallerKnows,
            RecoverKnows, FilesAgree, ServicesAgree, ArchivesAgree,
            AdapterAgrees, Authoritative, Quiet, Settled, Off
<1>1. ASSUME NEW o \in Ops, PrepareUnchanged(o)
     PROVE  IInv'
  BY <1>1 DEF PrepareUnchanged, MayPrepare, LockFree
<1>2. ASSUME NEW o \in Ops, PrepareBegin(o)
     PROVE  IInv'
  BY <1>2 DEF PrepareBegin, MayPrepare, LockFree, Dual
<1>3. ASSUME NEW o \in Ops, CommitBegin(o)
     PROVE  IInv'
  BY <1>3 DEF CommitBegin, ArchiveVerified, LockFree
<1>4. ASSUME NEW o \in Ops \cup {NoOp}, Abort(o)
     PROVE  IInv'
  BY <1>4 DEF Abort, LockFree
<1>5. CASE BackupAdapter
  BY <1>5 DEF BackupAdapter, MayExport, LockFree
<1> HIDE DEF IInv
<1> QED
  BY <1>1, <1>2, <1>3, <1>4, <1>5 DEF CallerBegin

\* Preparation moves from the snapshot to the prepared candidate.
LEMMA PrepareKeeps ==
  ASSUME IInv, PrepareStep
  PROVE  IInv'
<1> USE DEF IInv, TypeOK, PendingType, RollbackType, JournalTypes, FileTypes,
            UnitTypes, ProcessTypes, OneHolder, JournalsAgree, CallerKnows,
            RecoverKnows, FilesAgree, ServicesAgree, ArchivesAgree,
            AdapterAgrees, Authoritative, Quiet, Settled, Off
<1>1. CASE PrepareIntent
  <2> USE <1>1 DEF PrepareIntent
  <2>1. (PendingType /\ RollbackType /\ JournalTypes)'
    OBVIOUS
  <2>2. FileTypes'
    OBVIOUS
  <2>3. UnitTypes'
    OBVIOUS
  <2>4. ProcessTypes'
    OBVIOUS
  <2>5. (OneHolder /\ JournalsAgree /\ CallerKnows /\ RecoverKnows)'
    OBVIOUS
  <2>6. (FilesAgree /\ ServicesAgree)'
    OBVIOUS
  <2>7. (ArchivesAgree /\ AdapterAgrees)'
    OBVIOUS
  <2> QED
    BY <2>1, <2>2, <2>3, <2>4, <2>5, <2>6, <2>7
<1>2. CASE PrepareReceipt
  BY <1>2 DEF PrepareReceipt
<1>3. CASE PrepareAdapter
  BY <1>3 DEF PrepareAdapter
<1>4. CASE PreparePending
  BY <1>4 DEF PreparePending
<1>5. CASE PrepareStopFront
  BY <1>5 DEF PrepareStopFront, Stop
<1>6. CASE PrepareStopPanel
  BY <1>6 DEF PrepareStopPanel, Stop
<1>7. CASE PrepareSnapshot
  BY <1>7 DEF PrepareSnapshot
<1>8. CASE PrepareReady
  BY <1>8 DEF PrepareReady
<1>9. CASE PrepareStartPanel
  <2> USE <1>9 DEF PrepareStartPanel, Queue
  <2>1. (PendingType /\ RollbackType /\ JournalTypes)'
    OBVIOUS
  <2>2. FileTypes'
    OBVIOUS
  <2>3. UnitTypes'
    OBVIOUS
  <2>4. ProcessTypes'
    OBVIOUS
  <2>5. (OneHolder /\ JournalsAgree /\ CallerKnows /\ RecoverKnows)'
    OBVIOUS
  <2>6. (FilesAgree /\ ServicesAgree)'
    OBVIOUS
  <2>7. (ArchivesAgree /\ AdapterAgrees)'
    OBVIOUS
  <2> QED
    BY <2>1, <2>2, <2>3, <2>4, <2>5, <2>6, <2>7
<1>10. CASE PrepareMutateSome
  BY <1>10 DEF PrepareMutateSome, Started
<1>11. CASE PrepareMutateRest
  BY <1>11 DEF PrepareMutateRest, Started
<1>12. CASE PrepareRestopPanel
  BY <1>12 DEF PrepareRestopPanel, Stop
<1>13. CASE PrepareRestartPanel
  <2> USE <1>13 DEF PrepareRestartPanel, Queue
  <2>1. (PendingType /\ RollbackType /\ JournalTypes)'
    OBVIOUS
  <2>2. FileTypes'
    OBVIOUS
  <2>3. UnitTypes'
    OBVIOUS
  <2>4. ProcessTypes'
    OBVIOUS
  <2>5. (OneHolder /\ JournalsAgree /\ CallerKnows /\ RecoverKnows)'
    OBVIOUS
  <2>6. (FilesAgree /\ ServicesAgree)'
    OBVIOUS
  <2>7. (ArchivesAgree /\ AdapterAgrees)'
    OBVIOUS
  <2> QED
    BY <2>1, <2>2, <2>3, <2>4, <2>5, <2>6, <2>7
<1>14. CASE PrepareManifest
  BY <1>14 DEF PrepareManifest, Started
<1>15. CASE PrepareCloseFront
  BY <1>15 DEF PrepareCloseFront
<1>16. CASE PrepareStartFront
  <2> USE <1>16 DEF PrepareStartFront, Queue
  <2>1. (PendingType /\ RollbackType /\ JournalTypes)'
    OBVIOUS
  <2>2. FileTypes'
    OBVIOUS
  <2>3. UnitTypes'
    OBVIOUS
  <2>4. ProcessTypes'
    OBVIOUS
  <2>5. (OneHolder /\ JournalsAgree /\ CallerKnows /\ RecoverKnows)'
    OBVIOUS
  <2>6. (FilesAgree /\ ServicesAgree)'
    OBVIOUS
  <2>7. (ArchivesAgree /\ AdapterAgrees)'
    OBVIOUS
  <2> QED
    BY <2>1, <2>2, <2>3, <2>4, <2>5, <2>6, <2>7
<1>17. CASE PreparePrepared
  BY <1>17 DEF PreparePrepared, Started
<1>18. CASE PrepareExcept
  BY <1>18 DEF PrepareExcept, PrepareRaises
<1> HIDE DEF IInv
<1> QED
  BY <1>1, <1>2, <1>3, <1>4, <1>5, <1>6, <1>7, <1>8, <1>9, <1>10, <1>11,
     <1>12, <1>13, <1>14, <1>15, <1>16, <1>17, <1>18 DEF PrepareStep

\* A commit publishes an archived candidate and then forgets its journal.
LEMMA CommitKeeps ==
  ASSUME IInv, CommitStep
  PROVE  IInv'
<1> USE DEF IInv, TypeOK, PendingType, RollbackType, JournalTypes, FileTypes,
            UnitTypes, ProcessTypes, OneHolder, JournalsAgree, CallerKnows,
            RecoverKnows, FilesAgree, ServicesAgree, ArchivesAgree,
            AdapterAgrees, Authoritative, Quiet, Settled, Off
<1>1. CASE CommitFront
  BY <1>1 DEF CommitFront
<1>2. CASE CommitRestart
  BY <1>2 DEF CommitRestart
<1>3. CASE CommitManifest
  <2> USE <1>3 DEF CommitManifest, Started
  <2>1. (PendingType /\ RollbackType /\ JournalTypes)'
    OBVIOUS
  <2>2. FileTypes'
    <3> HIDE DEF UnitTypes, ProcessTypes, CallerKnows, RecoverKnows, ServicesAgree,
                 ArchivesAgree, AdapterAgrees
    <3> QED
      OBVIOUS
  <2>3. UnitTypes'
    OBVIOUS
  <2>4. ProcessTypes'
    OBVIOUS
  <2>5. (OneHolder /\ JournalsAgree /\ CallerKnows /\ RecoverKnows)'
    BY SMTT(40)
  <2>6. (FilesAgree /\ ServicesAgree)'
    OBVIOUS
  <2>7. (ArchivesAgree /\ AdapterAgrees)'
    OBVIOUS
  <2> QED
    BY <2>1, <2>2, <2>3, <2>4, <2>5, <2>6, <2>7
<1>4. CASE CommitReceipt
  BY <1>4 DEF CommitReceipt
<1>5. CASE CommitUnlink
  BY <1>5 DEF CommitUnlink
<1>6. CASE CommitRollback
  <2> USE <1>6 DEF CommitRollback
  <2>1. (PendingType /\ RollbackType /\ JournalTypes)'
    OBVIOUS
  <2>2. FileTypes'
    OBVIOUS
  <2>3. UnitTypes'
    OBVIOUS
  <2>4. ProcessTypes'
    OBVIOUS
  <2>5. (OneHolder /\ JournalsAgree /\ CallerKnows /\ RecoverKnows)'
    OBVIOUS
  <2>6. (FilesAgree /\ ServicesAgree)'
    OBVIOUS
  <2>7. (ArchivesAgree /\ AdapterAgrees)'
    OBVIOUS
  <2> QED
    BY <2>1, <2>2, <2>3, <2>4, <2>5, <2>6, <2>7
<1>7. CASE CommitRaise
  BY <1>7 DEF CommitRaise
<1> HIDE DEF IInv
<1> QED
  BY <1>1, <1>2, <1>3, <1>4, <1>5, <1>6, <1>7 DEF CommitStep

\* A backup stops and restarts the front and exports a whole state.
LEMMA BackupKeeps ==
  ASSUME IInv, BackupStep
  PROVE  IInv'
<1> USE DEF IInv, TypeOK, PendingType, RollbackType, JournalTypes, FileTypes,
            UnitTypes, ProcessTypes, OneHolder, JournalsAgree, CallerKnows,
            RecoverKnows, FilesAgree, ServicesAgree, ArchivesAgree,
            AdapterAgrees, Authoritative, Quiet, Settled, Off
<1>1. CASE BackupIntent
  BY <1>1 DEF BackupIntent
<1>2. CASE BackupStopFront
  BY <1>2 DEF BackupStopFront, Stop
<1>3. CASE BackupExport
  <2> USE <1>3 DEF BackupExport
  <2>1. (PendingType /\ RollbackType /\ JournalTypes)'
    OBVIOUS
  <2>2. FileTypes'
    OBVIOUS
  <2>3. UnitTypes'
    OBVIOUS
  <2>4. ProcessTypes'
    OBVIOUS
  <2>5. (OneHolder /\ JournalsAgree /\ CallerKnows /\ RecoverKnows)'
    OBVIOUS
  <2>6. (FilesAgree /\ ServicesAgree)'
    BY SMTT(40)
  <2>7. (ArchivesAgree /\ AdapterAgrees)'
    OBVIOUS
  <2> QED
    BY <2>1, <2>2, <2>3, <2>4, <2>5, <2>6, <2>7
<1>4. CASE BackupStartFront
  <2> USE <1>4 DEF BackupStartFront, Queue
  <2>1. (PendingType /\ RollbackType /\ JournalTypes)'
    OBVIOUS
  <2>2. FileTypes'
    OBVIOUS
  <2>3. UnitTypes'
    <3> HIDE DEF UnitTypes, BackupStartFront, Queue
    <3> QED
      BY BackupStartTypes
  <2>4. ProcessTypes'
    OBVIOUS
  <2>5. (OneHolder /\ JournalsAgree /\ CallerKnows /\ RecoverKnows)'
    OBVIOUS
  <2>6. (FilesAgree /\ ServicesAgree)'
    OBVIOUS
  <2>7. (ArchivesAgree /\ AdapterAgrees)'
    OBVIOUS
  <2> QED
    BY <2>1, <2>2, <2>3, <2>4, <2>5, <2>6, <2>7
<1>5. CASE BackupDisarm
  BY <1>5 DEF BackupDisarm
<1>6. CASE BackupRaise
  BY <1>6 DEF BackupRaise
<1>7. CASE BackupReply
  BY <1>7 DEF BackupReply
<1> HIDE DEF IInv
<1> QED
  BY <1>1, <1>2, <1>3, <1>4, <1>5, <1>6, <1>7 DEF BackupStep

\* Recovery brings back exactly what the rollback directory holds.
LEMMA RecoverKeeps ==
  ASSUME NEW p \in Procs, IInv, RecoverStep(p)
  PROVE  IInv'
<1> USE DEF IInv, TypeOK, PendingType, RollbackType, JournalTypes, FileTypes,
            UnitTypes, ProcessTypes, OneHolder, JournalsAgree, CallerKnows,
            RecoverKnows, FilesAgree, ServicesAgree, ArchivesAgree,
            AdapterAgrees, Authoritative, Quiet, Settled, Off
<1>1. CASE RecoverAdopt(p)
  BY <1>1, SMTT(40) DEF RecoverAdopt, Adopts, Staged
<1>2. CASE RecoverEnter(p)
  <2> DEFINE l == RecoverLabel(p)
  <2>a. /\ pc[p] = "r_enter"
        /\ pc' = [pc EXCEPT ![p] = l]
        /\ call' = IF l = "idle" /\ p = "caller" THEN NoCall ELSE call
        /\ ~Adopts
        /\ UNCHANGED <<journals, files, systemd, lapsed, pcSide, faults>>
    BY <1>2 DEF RecoverEnter, EndCall
  <2>b. /\ l \in {"rc_unlink", "r_receipt", "q_check", "r_mark", "rb_enter", "idle"}
        /\ l \in {"r_receipt", "r_mark"} =>
             HasRollback /\ ~Committed(rollback.op) /\ pending.phase # "restore-queued"
        /\ l = "r_mark" => receipt[rollback.op] # "none"
        /\ l = "q_check" => pending.phase = "restore-queued"
        /\ l = "rc_unlink" => HasRollback /\ Committed(rollback.op)
        /\ l = "rb_enter" => BackupOpen
    BY <2>a, LabelSound, ZenonT(40)
  <2> HIDE DEF l
  <2> USE <2>a, <2>b
  <2>1. PendingType'
    OBVIOUS
  <2>2. RollbackType'
    OBVIOUS
  <2>3. JournalTypes'
    OBVIOUS
  <2>4. FileTypes'
    OBVIOUS
  <2>5. UnitTypes'
    OBVIOUS
  <2>6. ProcessTypes'
    OBVIOUS
  <2>7. OneHolder'
    OBVIOUS
  <2>8. JournalsAgree'
    OBVIOUS
  <2>9. CallerKnows'
    OBVIOUS
  <2>10. RecoverKnows'
    OBVIOUS
  <2>11. FilesAgree'
    OBVIOUS
  <2>12. ServicesAgree'
    OBVIOUS
  <2>13. ArchivesAgree'
    OBVIOUS
  <2>14. AdapterAgrees'
    OBVIOUS
  <2> QED
    BY <2>1, <2>2, <2>3, <2>4, <2>5, <2>6, <2>7, <2>8, <2>9,
       <2>10, <2>11, <2>12, <2>13, <2>14
<1>3. CASE RecoverReceipt(p)
  BY <1>3, SMTT(40) DEF RecoverReceipt, RecoverOp
<1>4. CASE RecoverMark(p)
  <2> DEFINE n == NeedsDb
  <2>a. n \in BOOLEAN
    BY NeedsDbType
  <2>b. /\ pc[p] = "r_mark"
        /\ pc' = [pc EXCEPT ![p] = "r_stopFront"]
        /\ pending' = [phase |-> "recovering", op |-> rollback.op, restoreDb |-> n]
        /\ UNCHANGED <<rollback, receipt, backupStop, files, systemd, lapsed, call,
                       pcSide, faults>>
    BY <1>4 DEF RecoverMark, RecoverOp
  <2>c. /\ n => rollback.db = rollback.front
        /\ ~n => db = rollback.front
    BY <2>b DEF NeedsDb
  <2> HIDE DEF n
  <2> USE <2>a, <2>b, <2>c
  <2>1. (PendingType /\ RollbackType /\ JournalTypes)'
    OBVIOUS
  <2>2. FileTypes'
    OBVIOUS
  <2>3. UnitTypes'
    OBVIOUS
  <2>4. ProcessTypes'
    OBVIOUS
  <2>5. OneHolder'
    OBVIOUS
  <2>6. JournalsAgree'
      <3>1. CASE n = TRUE
        BY <3>1
      <3>2. CASE n = FALSE
        BY <3>2
      <3> QED
        BY <3>1, <3>2
  <2>7. CallerKnows'
    OBVIOUS
  <2>8. RecoverKnows'
    OBVIOUS
  <2>9. (FilesAgree /\ ServicesAgree)'
    OBVIOUS
  <2>10. (ArchivesAgree /\ AdapterAgrees)'
    OBVIOUS
  <2> QED
    BY <2>1, <2>2, <2>3, <2>4, <2>5, <2>6, <2>7, <2>8, <2>9,
       <2>10
<1>5. CASE RecoverStopFront(p)
  BY <1>5 DEF RecoverStopFront, Stop
<1>6. CASE RecoverStopPanel(p)
  BY <1>6 DEF RecoverStopPanel, Stop
<1>7. CASE RecoverDb(p)
  BY <1>7 DEF RecoverDb
<1>8. CASE RecoverManifest(p)
  BY <1>8 DEF RecoverManifest
<1>9. CASE RecoverFront(p)
  BY <1>9 DEF RecoverFront
<1>10. CASE RecoverQueued(p)
  BY <1>10, SMTT(40) DEF RecoverQueued
<1>11. CASE RecoverQueue(p)
  <2> USE <1>11 DEF RecoverQueue, QueueRecorded, EndCall
  <2>1. (PendingType /\ RollbackType /\ JournalTypes)'
    OBVIOUS
  <2>2. FileTypes'
    OBVIOUS
  <2>3. UnitTypes'
    BY QueueTypes
  <2>4. ProcessTypes'
    OBVIOUS
  <2>5. (OneHolder /\ JournalsAgree /\ CallerKnows /\ RecoverKnows)'
    OBVIOUS
  <2>6. (FilesAgree /\ ServicesAgree)'
    OBVIOUS
  <2>7. (ArchivesAgree /\ AdapterAgrees)'
    BY SMTT(40)
  <2> QED
    BY <2>1, <2>2, <2>3, <2>4, <2>5, <2>6, <2>7
<1>12. CASE RecoverRequeue(p)
  <2> USE <1>12 DEF RecoverRequeue, QueueRecorded, EndCall
  <2>1. (PendingType /\ RollbackType /\ JournalTypes)'
    OBVIOUS
  <2>2. FileTypes'
    OBVIOUS
  <2>3. UnitTypes'
    BY QueueTypes
  <2>4. ProcessTypes'
    OBVIOUS
  <2>5. (OneHolder /\ JournalsAgree /\ CallerKnows /\ RecoverKnows)'
    OBVIOUS
  <2>6. (FilesAgree /\ ServicesAgree)'
    OBVIOUS
  <2>7. (ArchivesAgree /\ AdapterAgrees)'
    OBVIOUS
  <2> QED
    BY <2>1, <2>2, <2>3, <2>4, <2>5, <2>6, <2>7
<1>13. CASE RecoverDisarmBackup(p)
  BY <1>13 DEF RecoverDisarmBackup
<1>14. CASE RecoverDisarmPending(p)
  <2> USE <1>14 DEF RecoverDisarmPending
  <2>1. (PendingType /\ RollbackType /\ JournalTypes)'
    OBVIOUS
  <2>2. FileTypes'
    OBVIOUS
  <2>3. UnitTypes'
    OBVIOUS
  <2>4. ProcessTypes'
    OBVIOUS
  <2>5. (OneHolder /\ JournalsAgree /\ CallerKnows /\ RecoverKnows)'
    OBVIOUS
  <2>6. (FilesAgree /\ ServicesAgree)'
    OBVIOUS
  <2>7. (ArchivesAgree /\ AdapterAgrees)'
    OBVIOUS
  <2> QED
    BY <2>1, <2>2, <2>3, <2>4, <2>5, <2>6, <2>7
<1>15. CASE RecoverAdapter(p)
  BY <1>15, SMTT(30) DEF RecoverAdapter
<1>16. CASE RecoverRollback(p)
  <2> USE <1>16 DEF RecoverRollback, EndCall
  <2>1. (PendingType /\ RollbackType /\ JournalTypes)'
    OBVIOUS
  <2>2. FileTypes'
    OBVIOUS
  <2>3. UnitTypes'
    OBVIOUS
  <2>4. ProcessTypes'
    OBVIOUS
  <2>5. (OneHolder /\ JournalsAgree /\ CallerKnows /\ RecoverKnows)'
    OBVIOUS
  <2>6. (FilesAgree /\ ServicesAgree)'
    OBVIOUS
  <2>7. (ArchivesAgree /\ AdapterAgrees)'
    OBVIOUS
  <2> QED
    BY <2>1, <2>2, <2>3, <2>4, <2>5, <2>6, <2>7
<1>17. CASE RecoverCommittedUnlink(p)
  BY <1>17, SMTT(30) DEF RecoverCommittedUnlink
<1>18. CASE RecoverCommittedRollback(p)
  <2> USE <1>18 DEF RecoverCommittedRollback, EndCall
  <2>1. (PendingType /\ RollbackType /\ JournalTypes)'
    OBVIOUS
  <2>2. FileTypes'
    OBVIOUS
  <2>3. UnitTypes'
    OBVIOUS
  <2>4. ProcessTypes'
    <3> HIDE DEF ProcessTypes, RecoverCommittedRollback
    <3> QED
      BY CommittedRollbackTypes
  <2>5. (OneHolder /\ JournalsAgree /\ CallerKnows /\ RecoverKnows)'
    OBVIOUS
  <2>6. (FilesAgree /\ ServicesAgree)'
    OBVIOUS
  <2>7. (ArchivesAgree /\ AdapterAgrees)'
    BY SMTT(40)
  <2> QED
    BY <2>1, <2>2, <2>3, <2>4, <2>5, <2>6, <2>7
<1>19. CASE RecoverBackupMark(p)
  <2> USE <1>19 DEF RecoverBackupMark
  <2>1. (PendingType /\ RollbackType /\ JournalTypes)'
    OBVIOUS
  <2>2. FileTypes'
    OBVIOUS
  <2>3. UnitTypes'
    OBVIOUS
  <2>4. ProcessTypes'
    OBVIOUS
  <2>5. (OneHolder /\ JournalsAgree /\ CallerKnows /\ RecoverKnows)'
    OBVIOUS
  <2>6. (FilesAgree /\ ServicesAgree)'
    OBVIOUS
  <2>7. (ArchivesAgree /\ AdapterAgrees)'
    BY SMTT(40)
  <2> QED
    BY <2>1, <2>2, <2>3, <2>4, <2>5, <2>6, <2>7
<1>20. CASE RecoverBackupQueue(p)
  <2> USE <1>20 DEF RecoverBackupQueue, QueueRecorded, EndCall
  <2>1. (PendingType /\ RollbackType /\ JournalTypes)'
    OBVIOUS
  <2>2. FileTypes'
    OBVIOUS
  <2>3. UnitTypes'
    <3> HIDE DEF UnitTypes, QueueRecorded
    <3>1. QueueRecorded({"front"}, IF backupStop.front THEN {"front"} ELSE {})
      OBVIOUS
    <3> QED
      BY <3>1, QueueTypes
  <2>4. ProcessTypes'
    OBVIOUS
  <2>5. (OneHolder /\ JournalsAgree /\ CallerKnows /\ RecoverKnows)'
    OBVIOUS
  <2>6. (FilesAgree /\ ServicesAgree)'
    BY SMTT(30)
  <2>7. (ArchivesAgree /\ AdapterAgrees)'
    OBVIOUS
  <2> QED
    BY <2>1, <2>2, <2>3, <2>4, <2>5, <2>6, <2>7
<1>21. CASE RecoverBackupDisarm(p)
  <2> USE <1>21 DEF RecoverBackupDisarm, EndCall
  <2>1. (PendingType /\ RollbackType /\ JournalTypes)'
    OBVIOUS
  <2>2. FileTypes'
    OBVIOUS
  <2>3. UnitTypes'
    OBVIOUS
  <2>4. ProcessTypes'
    OBVIOUS
  <2>5. (OneHolder /\ JournalsAgree /\ CallerKnows /\ RecoverKnows)'
    BY SMTT(30)
  <2>6. (FilesAgree /\ ServicesAgree)'
    OBVIOUS
  <2>7. (ArchivesAgree /\ AdapterAgrees)'
    OBVIOUS
  <2> QED
    BY <2>1, <2>2, <2>3, <2>4, <2>5, <2>6, <2>7
<1> HIDE DEF IInv
<1> QED
  BY <1>1, <1>2, <1>3, <1>4, <1>5, <1>6, <1>7, <1>8, <1>9, <1>10, <1>11,
     <1>12, <1>13, <1>14, <1>15, <1>16, <1>17, <1>18, <1>19, <1>20,
     <1>21 DEF RecoverStep

\* The oneshot takes the free lock or ends.
LEMMA UnitKeeps ==
  ASSUME IInv, UnitTick \/ UnitLock \/ UnitBusy
  PROVE  IInv'
<1> USE DEF IInv, TypeOK, PendingType, RollbackType, JournalTypes, FileTypes,
            UnitTypes, ProcessTypes, OneHolder, JournalsAgree, CallerKnows,
            RecoverKnows, FilesAgree, ServicesAgree, ArchivesAgree,
            AdapterAgrees, Authoritative, Quiet, Settled, Off
<1>1. CASE UnitTick
  <2> USE <1>1 DEF UnitTick
  <2>1. (PendingType /\ RollbackType /\ JournalTypes)'
    OBVIOUS
  <2>2. FileTypes'
    OBVIOUS
  <2>3. UnitTypes'
    OBVIOUS
  <2>4. ProcessTypes'
    OBVIOUS
  <2>5. (OneHolder /\ JournalsAgree /\ CallerKnows /\ RecoverKnows)'
    OBVIOUS
  <2>6. (FilesAgree /\ ServicesAgree)'
    OBVIOUS
  <2>7. (ArchivesAgree /\ AdapterAgrees)'
    OBVIOUS
  <2> QED
    BY <2>1, <2>2, <2>3, <2>4, <2>5, <2>6, <2>7
<1>2. CASE UnitLock
  <2> USE <1>2 DEF UnitLock, LockFree
  <2>1. (PendingType /\ RollbackType /\ JournalTypes)'
    OBVIOUS
  <2>2. FileTypes'
    OBVIOUS
  <2>3. UnitTypes'
    OBVIOUS
  <2>4. ProcessTypes'
    OBVIOUS
  <2>5. (OneHolder /\ JournalsAgree /\ CallerKnows /\ RecoverKnows)'
    OBVIOUS
  <2>6. (FilesAgree /\ ServicesAgree)'
    OBVIOUS
  <2>7. (ArchivesAgree /\ AdapterAgrees)'
    OBVIOUS
  <2> QED
    BY <2>1, <2>2, <2>3, <2>4, <2>5, <2>6, <2>7
<1>3. CASE UnitBusy
  BY <1>3, SMTT(30) DEF UnitBusy
<1> HIDE DEF IInv
<1> QED
  BY <1>1, <1>2, <1>3

\* Start jobs run current content behind the guard; a fault loses only what is volatile.
LEMMA EnvironmentKeeps ==
  ASSUME IInv, Environment
  PROVE  IInv'
<1> USE DEF IInv, TypeOK, PendingType, RollbackType, JournalTypes, FileTypes,
            UnitTypes, ProcessTypes, OneHolder, JournalsAgree, CallerKnows,
            RecoverKnows, FilesAgree, ServicesAgree, ArchivesAgree,
            AdapterAgrees, Authoritative, Quiet, Settled, Off
<1>1. ASSUME NEW s \in Services, RunJob(s)
     PROVE  IInv'
  <2> USE <1>1 DEF RunJob, Guard, Content, LeaseLive
  <2>1. (PendingType /\ RollbackType /\ JournalTypes)'
    OBVIOUS
  <2>2. FileTypes'
    OBVIOUS
  <2>3. UnitTypes'
    <3> HIDE DEF FileTypes, UnitTypes, RunJob
    <3> QED
      BY RunJobTypes
  <2>4. ProcessTypes'
    OBVIOUS
  <2>5. (OneHolder /\ JournalsAgree /\ CallerKnows /\ RecoverKnows)'
    OBVIOUS
  <2>6. (FilesAgree /\ ServicesAgree)'
    OBVIOUS
  <2>7. (ArchivesAgree /\ AdapterAgrees)'
    OBVIOUS
  <2> QED
    BY <2>1, <2>2, <2>3, <2>4, <2>5, <2>6, <2>7
<1>2. ASSUME NEW s \in Services, AutoRestart(s)
     PROVE  IInv'
  BY <1>2 DEF AutoRestart
<1>3. ASSUME NEW s \in Services, Crash(s)
     PROVE  IInv'
  BY <1>3, SMTT(30) DEF Crash, Fault
<1>4. ASSUME NEW p \in Procs, Kill(p)
     PROVE  IInv'
  BY <1>4 DEF Kill, Fault, EndCall
<1>5. ASSUME NEW p \in Procs, Raise(p)
     PROVE  IInv'
  <2> USE <1>5 DEF Raise, Fault, EndCall
  <2>1. (PendingType /\ RollbackType /\ JournalTypes)'
    OBVIOUS
  <2>2. FileTypes'
    OBVIOUS
  <2>3. UnitTypes'
    OBVIOUS
  <2>4. ProcessTypes'
    <3> HIDE DEF ProcessTypes, Raise
    <3> QED
      BY RaiseTypes
  <2>5. (OneHolder /\ JournalsAgree /\ CallerKnows /\ RecoverKnows)'
    OBVIOUS
  <2>6. (FilesAgree /\ ServicesAgree)'
    OBVIOUS
  <2>7. ArchivesAgree'
    <3> HIDE DEF PendingType, RollbackType, JournalTypes, FileTypes, UnitTypes,
             OneHolder, RecoverKnows, FilesAgree, ServicesAgree, AdapterAgrees
      <3>1. CASE pc[p] \in PrepareGuarded
        BY <3>1
      <3>2. CASE pc[p] = "b_export"
        BY <3>2
      <3>3. CASE pc[p] \notin PrepareGuarded \cup {"b_export"}
        BY <3>3
      <3> QED
        BY <3>1, <3>2, <3>3
  <2>8. AdapterAgrees'
    BY SMTT(40)
  <2> QED
    BY <2>1, <2>2, <2>3, <2>4, <2>5, <2>6, <2>7, <2>8
<1>6. ASSUME NEW p \in Procs, Unhealthy(p)
     PROVE  IInv'
  <2> USE <1>6 DEF Unhealthy, Fault, EndCall, Stop
  <2>1. (PendingType /\ RollbackType /\ JournalTypes)'
    OBVIOUS
  <2>2. FileTypes'
    OBVIOUS
  <2>3. UnitTypes'
    <3> HIDE DEF OneHolder, JournalsAgree, CallerKnows, RecoverKnows, FilesAgree,
                 ServicesAgree, ArchivesAgree, AdapterAgrees
    <3>1. CASE Stop(Services)
      <4> HIDE DEF Unhealthy, Stop, UnitTypes
      <4> QED
        BY <3>1, StopTypes
    <3>2. CASE Stop({"front"})
      <4> HIDE DEF Unhealthy, Stop, UnitTypes
      <4> QED
        BY <3>2, StopTypes DEF Services
    <3> HIDE DEF Stop, UnitTypes
    <3> QED
      BY <3>1, <3>2
  <2>4. ProcessTypes'
    OBVIOUS
  <2>5. (OneHolder /\ JournalsAgree /\ CallerKnows /\ RecoverKnows)'
    OBVIOUS
  <2>6. (FilesAgree /\ ServicesAgree)'
    OBVIOUS
  <2>7. (ArchivesAgree /\ AdapterAgrees)'
    OBVIOUS
  <2> QED
    BY <2>1, <2>2, <2>3, <2>4, <2>5, <2>6, <2>7
<1>7. CASE Reboot
  BY <1>7 DEF Reboot, Fault
<1>8. CASE Lapse
  BY <1>8 DEF Lapse
<1> HIDE DEF IInv
<1> QED
  BY <1>1, <1>2, <1>3, <1>4, <1>5, <1>6, <1>7, <1>8 DEF Environment

\* Doing nothing keeps the invariant.
LEMMA StutterKeeps == IInv /\ UNCHANGED vars => IInv'
BY DEF vars, IInv, TypeOK, PendingType, RollbackType, JournalTypes,
      FileTypes, UnitTypes, ProcessTypes, OneHolder, JournalsAgree, CallerKnows, RecoverKnows,
       FilesAgree, ServicesAgree, ArchivesAgree, AdapterAgrees, Authoritative,
       Quiet, Settled, Off

\* Every step keeps the invariant.
LEMMA StepKeeps == IInv /\ [Next]_vars => IInv'
<1> SUFFICES ASSUME IInv, [Next]_vars PROVE IInv'
  OBVIOUS
<1>1. CASE CallerBegin
  BY <1>1, CallerBeginKeeps
<1>2. CASE CallerStep
  BY <1>2, PrepareKeeps, CommitKeeps, BackupKeeps, RecoverKeeps DEF CallerStep
<1>3. CASE UnitTick \/ UnitStep
  BY <1>3, UnitKeeps, RecoverKeeps DEF UnitStep
<1>4. CASE Environment
  BY <1>4, EnvironmentKeeps
<1>5. CASE UNCHANGED vars
  BY <1>5, StutterKeeps
<1> QED
  BY <1>1, <1>2, <1>3, <1>4, <1>5 DEF Next

\* The invariant holds in every state of every behaviour.
THEOREM Invariance == Spec => []IInv
<1>1. Init => IInv
  BY InitHolds
<1>2. IInv /\ [Next]_vars => IInv'
  BY StepKeeps
<1> QED
  BY <1>1, <1>2, PTL DEF Spec

\* Type correctness of the journals, files, units and processes.
THEOREM TypeCorrect == Spec => []TypeOK
<1>1. IInv => TypeOK
  BY DEF IInv
<1> QED
  BY <1>1, Invariance, PTL

\* Without an open journal the database, manifest, front configuration and
\* running services are one published version.
THEOREM QuietlyAgrees == Spec => []QuietAgreement
<1>1. IInv => QuietAgreement
  BY DEF IInv, QuietAgreement, FilesAgree, ServicesAgree, Quiet, Settled
<1> QED
  BY <1>1, Invariance, PTL

\* An uncommitted journal can always be undone from its own rollback directory.
THEOREM AlwaysRestorable == Spec => []Restorable
<1>1. IInv => Restorable
  BY DEF IInv, Restorable, JournalsAgree, FilesAgree, Settled
<1> QED
  BY <1>1, Invariance, PTL

\* The front never serves a candidate of which the PC has no archive.
THEOREM NeverPublishedEarly == Spec => []NoEarlyPublication
<1>1. IInv => NoEarlyPublication
  BY DEF IInv, NoEarlyPublication, ArchivesAgree
<1> QED
  BY <1>1, Invariance, PTL

\* No operation is final before its state is archived off the node.
THEOREM ArchivedFirst == Spec => []ArchivedBeforeCommit
<1>1. IInv => ArchivedBeforeCommit
  BY DEF IInv, ArchivedBeforeCommit, ArchivesAgree
<1> QED
  BY <1>1, Invariance, PTL

\* Services are down while recovery rewrites, and the snapshot copies, their files.
THEOREM NothingRunsOnRewrittenFiles == Spec => []StoppedWhileRewritten
<1>1. IInv => StoppedWhileRewritten
  BY DEF IInv, OneHolder, StoppedWhileRewritten, ServicesAgree, Off
<1> QED
  BY <1>1, Invariance, PTL

\* Behind a restore-queued journal only the restored version runs.
THEOREM OnlyRestoredStateRuns == Spec => []RestoredStateRuns
<1>1. IInv => RestoredStateRuns
  BY DEF IInv, RestoredStateRuns, ServicesAgree, JournalsAgree
<1> QED
  BY <1>1, Invariance, PTL

\* A stop intent or a transport journal is never left to an older adapter.
THEOREM AdapterAlwaysCapable == Spec => []AdapterCapable
<1>1. IInv => AdapterCapable
  BY DEF IInv, AdapterCapable, AdapterAgrees, JournalsAgree, TypeOK, PendingType
<1> QED
  BY <1>1, Invariance, PTL

\* A prepared candidate is what the panel runs.
THEOREM CandidateAlwaysRestarted == Spec => []PreparedRunsCandidate
<1>1. IInv => PreparedRunsCandidate
  BY DEF IInv, PreparedRunsCandidate, FilesAgree, ServicesAgree
<1> QED
  BY <1>1, Invariance, PTL

\* What a crash leaves can be undone by the adapter that is stored with it.
THEOREM AlwaysRecoverable == Spec => []Recoverable
BY AlwaysRestorable, AdapterAlwaysCapable, PTL DEF Recoverable

\* Nothing is served or final before it is archived off the node.
THEOREM AlwaysGuarded == Spec => []PublicationGuarded
BY NeverPublishedEarly, ArchivedFirst, PTL DEF PublicationGuarded

\* Services are down under rewriting and run the version they should.
THEOREM AlwaysHeld == Spec => []ServicesHeld
BY NothingRunsOnRewrittenFiles, OnlyRestoredStateRuns, CandidateAlwaysRestarted, PTL DEF ServicesHeld

-----------------------------------------------------------------------------
(* The engine implements the durable choice *)

\* A step that touches neither receipts, nor the manifest, nor the rollback
\* directory is invisible.
LEMMA InvisibleSteps ==
  ASSUME UNCHANGED <<receipt, rollback, manifest>>
  PROVE  UNCHANGED Choice!choiceVars
BY DEF Choice!choiceVars, Authoritative

\* The directory of an operation appears, fills or goes away: the version the
\* host stands for stays.
LEMMA RollbackSteps ==
  ASSUME IInv, NEW p \in Procs,
         \/ PrepareIntent \/ PrepareSnapshot \/ CommitRollback
         \/ RecoverRollback(p) \/ RecoverCommittedRollback(p)
  PROVE  UNCHANGED Choice!choiceVars
<1> USE DEF IInv, TypeOK, RollbackType, JournalsAgree, CallerKnows, RecoverKnows,
            FilesAgree, Authoritative, Quiet, Settled, Choice!choiceVars
<1>1. CASE PrepareIntent
  BY <1>1 DEF PrepareIntent
<1>2. CASE PrepareSnapshot
  BY <1>2 DEF PrepareSnapshot
<1>3. CASE CommitRollback
  BY <1>3 DEF CommitRollback
<1>4. CASE RecoverRollback(p)
  BY <1>4 DEF RecoverRollback
<1>5. CASE RecoverCommittedRollback(p)
  BY <1>5 DEF RecoverCommittedRollback
<1> QED
  BY <1>1, <1>2, <1>3, <1>4, <1>5

\* The manifest is written while a directory decides what the host stands for.
LEMMA ManifestSteps ==
  ASSUME IInv, NEW p \in Procs, PrepareManifest \/ CommitManifest \/ RecoverManifest(p)
  PROVE  UNCHANGED Choice!choiceVars
<1>1. HasRollback
  BY DEF IInv, JournalsAgree, CallerKnows, RecoverKnows, PrepareManifest, CommitManifest,
         RecoverManifest, TypeOK, PendingType
<1>2. UNCHANGED <<receipt, rollback>>
  BY DEF PrepareManifest, CommitManifest, RecoverManifest
<1> QED
  BY <1>1, <1>2 DEF Choice!choiceVars, Authoritative

\* A receipt of intent is no verdict.
LEMMA IntentSteps ==
  ASSUME IInv, NEW p \in Procs, PrepareReceipt \/ RecoverReceipt(p)
  PROVE  UNCHANGED Choice!choiceVars
<1>1. PICK o \in Ops : ~Committed(o) /\ receipt' = [receipt EXCEPT ![o] = "intent"]
  BY DEF IInv, TypeOK, PendingType, RollbackType, JournalsAgree, CallerKnows, RecoverKnows,
         PrepareReceipt, RecoverReceipt, RecoverOp
<1>2. UNCHANGED <<rollback, manifest>>
  BY DEF PrepareReceipt, RecoverReceipt
<1>3. \A x \in Ops : Committed(x)' = Committed(x) /\ (Committed(x) => receipt'[x] = receipt[x])
  BY <1>1 DEF IInv, TypeOK, JournalTypes
<1>4. HasRollback => rollback.op \in Ops
  BY DEF IInv, TypeOK, RollbackType
<1> QED
  BY <1>2, <1>3, <1>4 DEF Choice!choiceVars, Authoritative

\* An unchanged request is declined and the receipt of a commit commits it.
LEMMA VerdictSteps ==
  ASSUME IInv, (\E o \in Ops : PrepareUnchanged(o)) \/ CommitReceipt
  PROVE  Choice!Next
<1>1. CASE \E o \in Ops : PrepareUnchanged(o)
  <2>1. PICK o \in Ops : PrepareUnchanged(o)
    BY <1>1
  <2>2. Choice!Decline(o)
    BY <2>1 DEF IInv, TypeOK, JournalTypes, PrepareUnchanged, MayPrepare, Authoritative,
                Choice!Decline, Choice!Open
  <2> QED
    BY <2>2 DEF Choice!Next
<1>2. CASE CommitReceipt
  <2>1. call.op \in Ops /\ ~Committed(call.op) /\ rollback.op = call.op
    BY <1>2 DEF IInv, CallerKnows, JournalsAgree, CommitReceipt
  <2>2. Choice!Commit(call.op)
    BY <1>2, <2>1 DEF IInv, TypeOK, JournalTypes, CommitReceipt, Authoritative,
                      Choice!Commit, Choice!Open
  <2> QED
    BY <2>1, <2>2 DEF Choice!Next, Choice!Commit
<1> QED
  BY <1>1, <1>2

\* Every other step is invisible.
LEMMA OtherSteps ==
  ASSUME [Next]_vars,
         ~\E o \in Ops : PrepareUnchanged(o),
         ~CommitReceipt,
         ~(PrepareReceipt \/ \E p \in Procs : RecoverReceipt(p)),
         ~(PrepareManifest \/ CommitManifest \/ \E p \in Procs : RecoverManifest(p)),
         ~(PrepareIntent \/ PrepareSnapshot \/ CommitRollback),
         ~\E p \in Procs : RecoverRollback(p) \/ RecoverCommittedRollback(p)
  PROVE  UNCHANGED <<receipt, rollback, manifest>>
<1>1. CASE CallerBegin
  BY <1>1 DEF CallerBegin, PrepareBegin, CommitBegin, Abort, BackupAdapter
<1>2. CASE PrepareStep
  BY <1>2 DEF PrepareStep, PrepareAdapter, PreparePending, PrepareStopFront,
       PrepareStopPanel, PrepareReady, PrepareStartPanel, PrepareMutateSome,
       PrepareMutateRest, PrepareRestopPanel, PrepareRestartPanel, PrepareCloseFront,
       PrepareStartFront, PreparePrepared, PrepareExcept
<1>3. CASE CommitStep
  BY <1>3 DEF CommitStep, CommitFront, CommitRestart, CommitUnlink, CommitRaise
<1>4. CASE BackupStep
  BY <1>4 DEF BackupStep, BackupIntent, BackupStopFront, BackupExport,
              BackupStartFront, BackupDisarm, BackupRaise, BackupReply
<1>5. ASSUME NEW p \in Procs, RecoverStep(p)
      PROVE  UNCHANGED <<receipt, rollback, manifest>>
  BY <1>5 DEF RecoverStep, RecoverAdopt, RecoverEnter, RecoverMark, RecoverStopFront,
       RecoverStopPanel, RecoverDb, RecoverFront, RecoverQueued, RecoverQueue,
       RecoverRequeue, RecoverDisarmBackup, RecoverDisarmPending, RecoverAdapter,
       RecoverCommittedUnlink, RecoverBackupMark, RecoverBackupQueue,
       RecoverBackupDisarm
<1>6. CASE UnitTick \/ UnitLock \/ UnitBusy
  BY <1>6 DEF UnitTick, UnitLock, UnitBusy
<1>7. CASE Environment
  BY <1>7 DEF Environment, RunJob, AutoRestart, Crash, Kill, Raise, Unhealthy, Reboot,
              Lapse
<1>8. CASE UNCHANGED vars
  BY <1>8 DEF vars
<1> QED
  BY <1>1, <1>2, <1>3, <1>4, <1>5, <1>6, <1>7, <1>8 DEF Next, CallerStep, UnitStep

\* Every step of the engine is a step of the choice or invisible to it.
LEMMA StepRefines == IInv /\ [Next]_vars => [Choice!Next]_Choice!choiceVars
<1> SUFFICES ASSUME IInv, [Next]_vars
             PROVE  Choice!Next \/ UNCHANGED Choice!choiceVars
  OBVIOUS
<1>1. CASE (\E o \in Ops : PrepareUnchanged(o)) \/ CommitReceipt
  BY <1>1, VerdictSteps
<1>2. CASE PrepareReceipt \/ \E p \in Procs : RecoverReceipt(p)
  BY <1>2, IntentSteps
<1>3. CASE PrepareManifest \/ CommitManifest \/ \E p \in Procs : RecoverManifest(p)
  BY <1>3, ManifestSteps
<1>4. CASE \/ PrepareIntent \/ PrepareSnapshot \/ CommitRollback
           \/ \E p \in Procs : RecoverRollback(p) \/ RecoverCommittedRollback(p)
  BY <1>4, RollbackSteps
<1> QED
  BY <1>1, <1>2, <1>3, <1>4, OtherSteps, InvisibleSteps

\* Whatever is killed, rebooted, backed up or rolled back, the host makes one
\* durable choice per operation.
THEOREM Implementation == Spec => ImplementsChoice
<1>1. Init => Choice!Init
  BY DEF Init, Choice!Init, Authoritative
<1>2. IInv /\ [Next]_vars => [Choice!Next]_Choice!choiceVars
  BY StepRefines
<1> QED
  BY <1>1, <1>2, Invariance, PTL DEF Spec, ImplementsChoice, Choice!Spec
=============================================================================
