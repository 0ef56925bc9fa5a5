-------------------------- MODULE HostTransaction --------------------------
(***************************************************************************)
(* The remote transaction engine of vps/lib/host.py: a device or transport *)
(* operation on an owned host is prepared, backed up off the node and then *)
(* committed, under a lease; a systemd oneshot driven by a timer restores  *)
(* the previous state of an operation that was not committed in time.      *)
(*                                                                         *)
(* Two processes run host.py.  "caller" is the one the management PC       *)
(* started over SSH (devices-prepare, transport-prepare, devices-commit,   *)
(* transport-commit, backup or abort); "unit" is `host.py recover`, run by *)
(* qd-3x-ui-recover.service.  Both hold /run/lock/qd-3x-ui.lock while they *)
(* work, so the lock is held exactly when a process is past its start.     *)
(* Every step between two durable writes is a step of its own, because a   *)
(* process can be killed, or the machine restarted, between any two.       *)
(*                                                                         *)
(* A version stands for the whole private content a state agrees on: the   *)
(* native database, the manifest, the front configuration, the Caddy tree. *)
(* Operation o turns whatever version is current into version o.           *)
(***************************************************************************)
EXTENDS Naturals

CONSTANTS Ops,           \* operation identifiers bound to a request
          TransportOps,  \* those whose request has mode transport-upgrade
          MaxFaults      \* how many kills, errors, crashes and reboots a run has

ASSUME OpsAssumption ==
  /\ TransportOps \subseteq Ops
  /\ Ops \cap {"base", "torn", "closed", "down", "none"} = {}
  /\ MaxFaults \in Nat

Procs    == {"caller", "unit"}
Services == {"panel", "front"}
Versions == Ops \cup {"base"}
NoOp     == "none"
NoVer    == "none"

VARIABLES
  pending,     \* pending.json; phase "absent" when the file does not exist
  rollback,    \* device-rollback/; op NoOp when the directory does not exist
  receipt,     \* receipt[o]: device-receipts/ or transport-receipts/ file of o
  backupStop,  \* backup-stop.json; phase "absent" when it does not exist
  db,          \* content of active/db/x-ui.db; "torn" between two API calls
  manifest,    \* active/manifest.json
  frontCfg,    \* active/Caddyfile; "closed" for the unpublished private front
  adapter,     \* which host.py is stored: "current" or a "predecessor"
  exported,    \* the state export-sha256 is the digest of
  running,     \* running[s]: "down", or the version service s started with
  jobs,        \* services with a queued systemd start job
  retry,       \* services systemd will start again (Restart=on-failure)
  lapsed,      \* the boot of the intent is over or its deadline has passed
  pc,          \* where each process is
  call,        \* the caller's request: its operation, and if export.tar is new
  archive,     \* the PC: the archive it would name in a commit request
  archived,    \* the PC: versions of which it ever received an archive
  faults       \* how many faults have happened

journals == <<pending, rollback, receipt, backupStop>>
files    == <<db, manifest, frontCfg, adapter, exported>>
systemd  == <<running, jobs, retry>>
pcSide   == <<archive, archived>>
vars     == <<journals, files, systemd, lapsed, pc, call, pcSide, faults>>

NoPending  == [phase |-> "absent", op |-> NoOp, restoreDb |-> FALSE]
NoRollback == [op |-> NoOp, db |-> NoVer, front |-> NoVer, adapter |-> "current",
               services |-> {}, manifest |-> [ver |-> NoVer, published |-> FALSE]]
NoBackup   == [phase |-> "absent", front |-> FALSE]
NoCall     == [op |-> NoOp, built |-> FALSE]

\* The deployment is committed and healthy; its adapter may be an older release.
Init ==
  /\ pending = NoPending
  /\ rollback = NoRollback
  /\ receipt = [o \in Ops |-> "none"]
  /\ backupStop = NoBackup
  /\ db = "base"
  /\ manifest = [ver |-> "base", published |-> TRUE]
  /\ frontCfg = "base"
  /\ adapter \in {"current", "predecessor"}
  /\ exported = NoVer
  /\ running = [s \in Services |-> "base"]
  /\ jobs = {}
  /\ retry = {}
  /\ lapsed = FALSE
  /\ pc = [p \in Procs |-> "idle"]
  /\ call = NoCall
  /\ archive = NoVer
  /\ archived = {}
  /\ faults = 0

-----------------------------------------------------------------------------
(* Helpers *)

IsPending  == pending.phase # "absent"
HasRollback == rollback.op # NoOp
BackupOpen == backupStop.phase # "absent"
Up(s)      == running[s] # "down"
Committed(o) == receipt[o] \in {"committed", "unchanged"}

Goto(p, label) == pc' = [pc EXCEPT ![p] = label]
From(p, here, there) == pc[p] = here /\ Goto(p, there)

\* The lock: "starting" is a process that has not tried it yet.
LockFree == \A p \in Procs : pc[p] \in {"idle", "starting"}

\* systemctl stop also cancels a queued start and a scheduled restart.
Stop(S) == /\ running' = [s \in Services |-> IF s \in S THEN "down" ELSE running[s]]
           /\ jobs' = jobs \ S
           /\ retry' = retry \ S

\* systemctl start, with or without --no-block: a job for what is not running.
Queue(S) == /\ jobs' = jobs \cup {s \in S : ~Up(s)}
            /\ retry' = retry \ S
            /\ UNCHANGED running

\* queue_services: start what ran, without waiting, and stop what did not.
QueueRecorded(S, T) ==
  /\ running' = [s \in Services |-> IF s \in S \ T THEN "down" ELSE running[s]]
  /\ jobs' = (jobs \ (S \ T)) \cup {s \in T : ~Up(s)}
  /\ retry' = retry \ S

\* The version a service reads when it starts.
Content(s) == IF s = "panel" THEN db ELSE frontCfg

\* check_lease: a phase the caller may still act on.
LeaseLive == ~lapsed

\* (bug) a guard that forgets that a restored state may start.
GuardByLease == ~IsPending \/ (pending.phase # "recovering" /\ LeaseLive)

\* guard: what ExecStartPre accepts.
Guard == \/ ~IsPending
         \/ pending.phase = "restore-queued"
         \/ pending.phase # "recovering" /\ LeaseLive

\* A blocking systemctl start, and the wait for readiness behind it, end with
\* the service up ...
Started(s) == s \notin jobs /\ Up(s)
\* ... or give up on one that died or that the guard keeps from starting.
StartRefused(s) == ~Up(s) /\ (s \notin jobs \/ ~Guard)

-----------------------------------------------------------------------------
(* devices_prepare, transport_prepare *)

\* A host that has the second transport is not left to an older adapter.
Dual == \E t \in TransportOps : Committed(t)

\* Every refusal before the first write.
MayPrepare(o) ==
  /\ pc["caller"] = "idle"
  /\ LockFree
  /\ ~Committed(o)
  /\ ~IsPending
  /\ ~HasRollback
  /\ o \in TransportOps => exported # NoVer /\ exported = archive
  /\ o \in TransportOps \/ Dual => adapter = "current"
  /\ Up("panel")

\* The request asks for what is already so: only its receipt is written.
PrepareUnchanged(o) ==
  /\ MayPrepare(o)
  /\ receipt' = [receipt EXCEPT ![o] = "unchanged"]
  /\ UNCHANGED <<pending, rollback, backupStop, files, systemd, lapsed, pc,
                 call, pcSide, faults>>

\* Both services are healthy.  The PC has no archive of this candidate yet: the
\* digest of an earlier export may stay in export-sha256, but a commit has to
\* name that of its own candidate (host.py:3099).
PrepareBegin(o) ==
  /\ MayPrepare(o)
  /\ Up("front")
  /\ call' = [op |-> o, built |-> FALSE]
  /\ archive' = NoVer
  /\ Goto("caller", "p_intent")
  /\ UNCHANGED <<journals, files, systemd, lapsed, archived, faults>>

\* The rollback inputs and the intent, with the services that run at this
\* moment, become durable by one rename.
PrepareIntent ==
  /\ From("caller", "p_intent", "p_receipt")
  /\ rollback' = [op |-> call.op, db |-> NoVer, front |-> frontCfg,
                  adapter |-> adapter, services |-> {s \in Services : Up(s)},
                  manifest |-> manifest]
  /\ lapsed' = FALSE
  /\ UNCHANGED <<pending, receipt, backupStop, files, systemd, call, pcSide,
                 faults>>

PrepareReceipt ==
  /\ From("caller", "p_receipt", "p_adapter")
  /\ receipt' = [receipt EXCEPT ![call.op] = "intent"]
  /\ UNCHANGED <<pending, rollback, backupStop, files, systemd, lapsed, call,
                 pcSide, faults>>

PrepareAdapter ==
  /\ From("caller", "p_adapter", "p_pending")
  /\ adapter' = "current"
  /\ UNCHANGED <<journals, db, manifest, frontCfg, exported, systemd, lapsed,
                 call, pcSide, faults>>

\* (bug) the journal claims a database snapshot that is still to be taken.
PreparePendingReady ==
  /\ From("caller", "p_pending", "p_stopFront")
  /\ pending' = [phase |-> "ready", op |-> call.op, restoreDb |-> FALSE]
  /\ UNCHANGED <<rollback, receipt, backupStop, files, systemd, lapsed, call,
                 pcSide, faults>>

PreparePending ==
  /\ From("caller", "p_pending", "p_stopFront")
  /\ pending' = [phase |-> "snapshot", op |-> call.op, restoreDb |-> FALSE]
  /\ UNCHANGED <<rollback, receipt, backupStop, files, systemd, lapsed, call,
                 pcSide, faults>>

PrepareStopFront ==
  /\ From("caller", "p_stopFront", "p_stopPanel")
  /\ Stop({"front"})
  /\ UNCHANGED <<journals, files, lapsed, call, pcSide, faults>>

PrepareStopPanel ==
  /\ From("caller", "p_stopPanel", "p_snapshot")
  /\ Stop({"panel"})
  /\ UNCHANGED <<journals, files, lapsed, call, pcSide, faults>>

\* db_snapshot and snapshot_caddy copy the stopped services' data.
PrepareSnapshot ==
  /\ From("caller", "p_snapshot", "p_ready")
  /\ rollback' = [rollback EXCEPT !.db = db]
  /\ UNCHANGED <<pending, receipt, backupStop, files, systemd, lapsed, call,
                 pcSide, faults>>

PrepareReady ==
  /\ From("caller", "p_ready", "p_startPanel")
  /\ pending' = [pending EXCEPT !.phase = "ready"]
  /\ UNCHANGED <<rollback, receipt, backupStop, files, systemd, lapsed, call,
                 pcSide, faults>>

PrepareStartPanel ==
  /\ From("caller", "p_startPanel", "p_mutate")
  /\ Queue({"panel"})
  /\ UNCHANGED <<journals, files, lapsed, call, pcSide, faults>>

\* The first API call of the change; check_lease precedes it.
PrepareMutateSome ==
  /\ From("caller", "p_mutate", "p_mutated")
  /\ Started("panel")
  /\ LeaseLive
  /\ db' = "torn"
  /\ UNCHANGED <<journals, manifest, frontCfg, adapter, exported, systemd,
                 lapsed, call, pcSide, faults>>

\* The last one; the roles' flows are reapplied.
PrepareMutateRest ==
  /\ From("caller", "p_mutated", "p_restopPanel")
  /\ Started("panel")
  /\ db' = call.op
  /\ UNCHANGED <<journals, manifest, frontCfg, adapter, exported, systemd,
                 lapsed, call, pcSide, faults>>

\* (bug) only the core's user list is changed, the process is not restarted.
PrepareKeepPanel ==
  /\ From("caller", "p_restopPanel", "p_restartPanel")
  /\ UNCHANGED <<journals, files, systemd, lapsed, call, pcSide, faults>>

\* Restarting the panel closes the streams of the old credentials.
PrepareRestopPanel ==
  /\ From("caller", "p_restopPanel", "p_restartPanel")
  /\ Stop({"panel"})
  /\ UNCHANGED <<journals, files, lapsed, call, pcSide, faults>>

PrepareRestartPanel ==
  /\ From("caller", "p_restartPanel", "p_manifest")
  /\ Queue({"panel"})
  /\ UNCHANGED <<journals, files, lapsed, call, pcSide, faults>>

PrepareManifest ==
  /\ From("caller", "p_manifest",
          IF call.op \in TransportOps THEN "p_closeFront" ELSE "p_startFront")
  /\ Started("panel")
  /\ manifest' = [ver |-> call.op, published |-> FALSE]
  /\ UNCHANGED <<journals, db, frontCfg, adapter, exported, systemd, lapsed,
                 call, pcSide, faults>>

\* (bug) the candidate's front is rendered with its public paths.
PrepareOpenFront ==
  /\ From("caller", "p_closeFront", "p_startFront")
  /\ frontCfg' = call.op
  /\ UNCHANGED <<journals, db, manifest, adapter, exported, systemd, lapsed,
                 call, pcSide, faults>>

\* A transport candidate gets a private front; a device candidate keeps the
\* old front paths.
PrepareCloseFront ==
  /\ From("caller", "p_closeFront", "p_startFront")
  /\ frontCfg' = "closed"
  /\ UNCHANGED <<journals, db, manifest, adapter, exported, systemd, lapsed,
                 call, pcSide, faults>>

PrepareStartFront ==
  /\ From("caller", "p_startFront", "p_prepared")
  /\ Queue({"front"})
  /\ UNCHANGED <<journals, files, lapsed, call, pcSide, faults>>

PreparePrepared ==
  /\ From("caller", "p_prepared", "idle")
  /\ Started("front")
  /\ Started("panel")
  /\ LeaseLive
  /\ pending' = [pending EXCEPT !.phase = "prepared"]
  /\ call' = NoCall
  /\ UNCHANGED <<rollback, receipt, backupStop, files, systemd, lapsed, pcSide,
                 faults>>

\* Steps inside the try block, and what makes them raise of themselves: a
\* start the guard refused, a service that is down, a lease that lapsed.
PrepareGuarded == {"p_stopFront", "p_stopPanel", "p_snapshot", "p_ready",
                   "p_startPanel", "p_mutate", "p_mutated", "p_restopPanel",
                   "p_restartPanel", "p_manifest", "p_closeFront",
                   "p_startFront", "p_prepared"}

PrepareRaises ==
  \/ pc["caller"] \in {"p_mutate", "p_mutated", "p_manifest", "p_prepared"} /\ StartRefused("panel")
  \/ pc["caller"] = "p_prepared" /\ StartRefused("front")
  \/ pc["caller"] \in {"p_mutate", "p_prepared"} /\ ~LeaseLive

\* The except clause: recover(force=True) before the error is reported.
PrepareExcept ==
  /\ PrepareRaises
  /\ Goto("caller", "r_enter")
  /\ UNCHANGED <<journals, files, systemd, lapsed, call, pcSide, faults>>

PrepareStep ==
  \/ PrepareIntent \/ PrepareReceipt \/ PrepareAdapter \/ PreparePending \/ PrepareStopFront
  \/ PrepareStopPanel \/ PrepareSnapshot \/ PrepareReady \/ PrepareStartPanel
  \/ PrepareMutateSome \/ PrepareMutateRest \/ PrepareRestopPanel
  \/ PrepareRestartPanel \/ PrepareManifest \/ PrepareCloseFront
  \/ PrepareStartFront \/ PreparePrepared \/ PrepareExcept

-----------------------------------------------------------------------------
(* devices_commit, transport_commit *)

\* (bug) any archive of the past satisfies the host.
ArchiveExists == exported # NoVer

\* The digest the PC names is the one of the last export.
ArchiveVerified == archive # NoVer /\ exported = archive

\* The PC names the archive it verified; the host compares its digest with
\* export-sha256.  A transport commit must not name the pre-change archive.
CommitBegin(o) ==
  /\ pc["caller"] = "idle"
  /\ LockFree
  /\ ~Committed(o)
  /\ pending.phase = "prepared"
  /\ pending.op = o
  /\ ArchiveVerified
  /\ o \in TransportOps => archive # rollback.manifest.ver
  /\ LeaseLive
  /\ Up("panel")
  /\ call' = [op |-> o, built |-> FALSE]
  /\ Goto("caller", "c_front")
  /\ UNCHANGED <<journals, files, systemd, lapsed, pcSide, faults>>

CommitFront ==
  /\ From("caller", "c_front", "c_restart")
  /\ frontCfg' = call.op
  /\ UNCHANGED <<journals, db, manifest, adapter, exported, systemd, lapsed,
                 call, pcSide, faults>>

CommitRestart ==
  /\ From("caller", "c_restart", "c_manifest")
  /\ running' = [running EXCEPT !["front"] = "down"]
  /\ jobs' = jobs \cup {"front"}
  /\ retry' = retry \ {"front"}
  /\ UNCHANGED <<journals, files, lapsed, call, pcSide, faults>>

CommitManifest ==
  /\ From("caller", "c_manifest", "c_receipt")
  /\ Started("front")
  /\ Started("panel")
  /\ LeaseLive
  /\ manifest' = [manifest EXCEPT !.published = TRUE]
  /\ UNCHANGED <<journals, db, frontCfg, adapter, exported, systemd, lapsed,
                 call, pcSide, faults>>

\* The receipt is the commit point.
CommitReceipt ==
  /\ From("caller", "c_receipt", "c_unlink")
  /\ receipt' = [receipt EXCEPT ![call.op] = "committed"]
  /\ UNCHANGED <<pending, rollback, backupStop, files, systemd, lapsed, call,
                 pcSide, faults>>

CommitUnlink ==
  /\ From("caller", "c_unlink", "c_rollback")
  /\ pending' = NoPending
  /\ UNCHANGED <<rollback, receipt, backupStop, files, systemd, lapsed, call,
                 pcSide, faults>>

CommitRollback ==
  /\ From("caller", "c_rollback", "idle")
  /\ rollback' = NoRollback
  /\ lapsed' = FALSE
  /\ call' = NoCall
  /\ UNCHANGED <<pending, receipt, backupStop, files, systemd, pcSide, faults>>

\* A failed commit reports the error and leaves the prepared journal.
CommitRaise ==
  /\ From("caller", "c_manifest", "idle")
  /\ StartRefused("front") \/ StartRefused("panel") \/ ~LeaseLive
  /\ call' = NoCall
  /\ UNCHANGED <<journals, files, systemd, lapsed, pcSide, faults>>

CommitStep ==
  \/ CommitFront \/ CommitRestart \/ CommitManifest \/ CommitReceipt
  \/ CommitUnlink \/ CommitRollback \/ CommitRaise

-----------------------------------------------------------------------------
(* export_backup, and the reply that carries export.tar to the PC *)

\* No archive of a half-built candidate, nor over an interrupted export.
MayExport == pending.phase \in {"absent", "prepared"} /\ ~BackupOpen

\* A capable recovery adapter is installed before any stop intent, whatever
\* reviewed predecessor is stored; that one is retained beside it.
BackupAdapter ==
  /\ pc["caller"] = "idle"
  /\ LockFree
  /\ MayExport
  /\ adapter' = "current"
  /\ Goto("caller", "b_intent")
  /\ UNCHANGED <<journals, db, manifest, frontCfg, exported, systemd, lapsed,
                 call, pcSide, faults>>

BackupIntent ==
  /\ From("caller", "b_intent", "b_stop")
  /\ backupStop' = [phase |-> "stopping", front |-> Up("front")]
  /\ UNCHANGED <<pending, rollback, receipt, files, systemd, lapsed, call,
                 pcSide, faults>>

BackupStopFront ==
  /\ From("caller", "b_stop", "b_export")
  /\ Stop({"front"})
  /\ UNCHANGED <<journals, files, lapsed, call, pcSide, faults>>

BackupExport ==
  /\ From("caller", "b_export", "b_start")
  /\ exported' = db
  /\ call' = [call EXCEPT !.built = TRUE]
  /\ UNCHANGED <<journals, db, manifest, frontCfg, adapter, systemd, lapsed,
                 pcSide, faults>>

\* The finally clause: the front returns if it was running.
BackupStartFront ==
  /\ From("caller", "b_start", "b_wait")
  /\ IF backupStop.front THEN Queue({"front"}) ELSE UNCHANGED systemd
  /\ UNCHANGED <<journals, files, lapsed, call, pcSide, faults>>

BackupDisarm ==
  /\ From("caller", "b_wait", "b_reply")
  /\ backupStop.front => Started("front")
  /\ backupStop' = NoBackup
  /\ UNCHANGED <<pending, rollback, receipt, files, systemd, lapsed, call,
                 pcSide, faults>>

\* The front did not come back: the stop intent stays for the unit.
BackupRaise ==
  /\ From("caller", "b_wait", "idle")
  /\ backupStop.front /\ StartRefused("front")
  /\ call' = NoCall
  /\ UNCHANGED <<journals, files, systemd, lapsed, pcSide, faults>>

BackupReply ==
  /\ From("caller", "b_reply", "idle")
  /\ IF call.built
     THEN archive' = exported /\ archived' = archived \cup {exported}
     ELSE UNCHANGED pcSide
  /\ call' = NoCall
  /\ UNCHANGED <<journals, files, systemd, lapsed, faults>>

BackupStep == \/ BackupIntent \/ BackupStopFront \/ BackupExport
              \/ BackupStartFront \/ BackupDisarm \/ BackupRaise \/ BackupReply

-----------------------------------------------------------------------------
(* recover, recover_transaction, recover_devices, recover_backup *)

\* abort: for one operation, or (NoOp) for a request that names none.
Abort(o) ==
  /\ pc["caller"] = "idle"
  /\ LockFree
  /\ o # NoOp => /\ pending.op \in {o, NoOp}
                 /\ rollback.op \in {o, NoOp}
  /\ Goto("caller", "r_enter")
  /\ UNCHANGED <<journals, files, systemd, lapsed, call, pcSide, faults>>

\* qd-3x-ui-recover.timer starts the oneshot, which either gets the lock or
\* ends at once (LOCK_NB).
UnitTick ==
  /\ From("unit", "idle", "starting")
  /\ UNCHANGED <<journals, files, systemd, lapsed, call, pcSide, faults>>

UnitLock ==
  /\ From("unit", "starting", "r_enter")
  /\ LockFree
  /\ UNCHANGED <<journals, files, systemd, lapsed, call, pcSide, faults>>

\* (bug) without LOCK_NB the oneshot waits for the caller.
UnitWaits == FALSE /\ UNCHANGED vars

UnitBusy ==
  /\ From("unit", "starting", "idle")
  /\ ~LockFree
  /\ UNCHANGED <<journals, files, systemd, lapsed, call, pcSide, faults>>

\* (bug) the unit only continues a restoration someone else began.
DueUnforced(p) == p = "caller" \/ pending.phase \in {"recovering", "restore-queued"}

\* The caller's recover is forced; the unit's waits for the lease.
Due(p) == \/ p = "caller"
          \/ lapsed
          \/ pending.phase \in {"recovering", "restore-queued"}

\* Staged: an intent without pending.json, whose receipt tells that the
\* journal was written before.
Staged == ~IsPending /\ HasRollback

RecoverOp == IF IsPending THEN pending.op ELSE rollback.op

\* (bug) recovery looks only at the journal.
DevicesLabelBlind ==
  IF receipt[RecoverOp] = "none" THEN "r_receipt"
  ELSE IF pending.phase = "restore-queued" THEN "q_check" ELSE "r_mark"

\* recover_devices looks at the receipt, then at the phase.
DevicesLabel ==
  IF Committed(RecoverOp) THEN "rc_unlink"
  ELSE IF receipt[RecoverOp] = "none" THEN "r_receipt"
  ELSE IF pending.phase = "restore-queued" THEN "q_check" ELSE "r_mark"

\* Where recover goes, once there is no unstaged intent to adopt.
RecoverLabel(p) ==
  IF BackupOpen
  THEN IF IsPending /\ (Committed(pending.op) \/ Due(p)) THEN DevicesLabel
       ELSE "rb_enter"
  ELSE IF (IsPending /\ Due(p)) \/ Staged THEN DevicesLabel ELSE "idle"

Adopts == ~BackupOpen /\ Staged /\ receipt[rollback.op] = "none"

\* The call a process served is over.
EndCall(p) == call' = IF p = "caller" THEN NoCall ELSE call

\* An intent renamed into place before its receipt becomes the journal.
RecoverAdopt(p) ==
  /\ pc[p] = "r_enter"
  /\ Adopts
  /\ pending' = [phase |-> "snapshot", op |-> rollback.op, restoreDb |-> FALSE]
  /\ UNCHANGED <<rollback, receipt, backupStop, files, systemd, lapsed, pc,
                 call, pcSide, faults>>

RecoverEnter(p) ==
  /\ From(p, "r_enter", RecoverLabel(p))
  /\ ~Adopts
  /\ IF RecoverLabel(p) = "idle" THEN EndCall(p) ELSE UNCHANGED call
  /\ UNCHANGED <<journals, files, systemd, lapsed, pcSide, faults>>

RecoverReceipt(p) ==
  /\ From(p, "r_receipt", "r_mark")
  /\ receipt' = [receipt EXCEPT ![RecoverOp] = "intent"]
  /\ UNCHANGED <<pending, rollback, backupStop, files, systemd, lapsed, call,
                 pcSide, faults>>

\* (bug) the database is always, or only for a prepared candidate, restored.
NeedsDbAlways == TRUE
NeedsDbPrepared == IF pending.phase = "recovering" THEN pending.restoreDb
                   ELSE pending.phase = "prepared"

\* A journal that never left its first phase did not touch the database.
NeedsDb == IF pending.phase = "recovering" THEN pending.restoreDb
           ELSE pending.phase \in {"ready", "prepared"}

\* (bug) the restored state is authorized before it is restored.
RecoverMarkQueued(p) ==
  /\ From(p, "r_mark", "r_stopFront")
  /\ pending' = [phase |-> "restore-queued", op |-> RecoverOp, restoreDb |-> NeedsDb]
  /\ UNCHANGED <<rollback, receipt, backupStop, files, systemd, lapsed, call,
                 pcSide, faults>>

\* Restoration begins: from here on the guard refuses both services.
RecoverMark(p) ==
  /\ From(p, "r_mark", "r_stopFront")
  /\ pending' = [phase |-> "recovering", op |-> RecoverOp, restoreDb |-> NeedsDb]
  /\ UNCHANGED <<rollback, receipt, backupStop, files, systemd, lapsed, call,
                 pcSide, faults>>

RecoverStopFront(p) ==
  /\ From(p, "r_stopFront", "r_stopPanel")
  /\ Stop({"front"})
  /\ UNCHANGED <<journals, files, lapsed, call, pcSide, faults>>

\* (bug) the panel is left running on the files being restored.
RecoverStopFrontOnly(p) ==
  /\ From(p, "r_stopPanel", "r_db")
  /\ Stop({"front"})
  /\ UNCHANGED <<journals, files, lapsed, call, pcSide, faults>>

RecoverStopPanel(p) ==
  /\ From(p, "r_stopPanel", "r_db")
  /\ Stop({"panel"})
  /\ UNCHANGED <<journals, files, lapsed, call, pcSide, faults>>

RecoverDb(p) ==
  /\ From(p, "r_db", "r_manifest")
  /\ db' = IF pending.restoreDb THEN rollback.db ELSE db
  /\ UNCHANGED <<journals, manifest, frontCfg, adapter, exported, systemd,
                 lapsed, call, pcSide, faults>>

RecoverManifest(p) ==
  /\ From(p, "r_manifest", "r_front")
  /\ manifest' = rollback.manifest
  /\ UNCHANGED <<journals, db, frontCfg, adapter, exported, systemd, lapsed,
                 call, pcSide, faults>>

\* Caddyfile and, when it was snapshot, the Caddy tree.
RecoverFront(p) ==
  /\ From(p, "r_front", "r_queued")
  /\ frontCfg' = rollback.front
  /\ UNCHANGED <<journals, db, manifest, adapter, exported, systemd, lapsed,
                 call, pcSide, faults>>

\* The authorization of the restored state precedes the start jobs.
RecoverQueued(p) ==
  /\ From(p, "r_queued", "r_queue")
  /\ pending' = [pending EXCEPT !.phase = "restore-queued"]
  /\ UNCHANGED <<rollback, receipt, backupStop, files, systemd, lapsed, call,
                 pcSide, faults>>

\* start --no-block: the jobs are ordered after this very oneshot.
RecoverQueue(p) ==
  /\ From(p, "r_queue", "idle")
  /\ QueueRecorded(Services, rollback.services)
  /\ EndCall(p)
  /\ UNCHANGED <<journals, files, lapsed, pcSide, faults>>

\* services_active: what ran before the operation runs, and nothing else.
ServicesActive == rollback.services = {s \in Services : Up(s)}

\* A later run: services that did not start are queued again ...
RecoverRequeue(p) ==
  /\ From(p, "q_check", "idle")
  /\ ~ServicesActive
  /\ QueueRecorded(Services, rollback.services)
  /\ EndCall(p)
  /\ UNCHANGED <<journals, files, lapsed, pcSide, faults>>

\* (bug) the stop intent of an interrupted backup survives the recovery.
RecoverKeepBackup(p) ==
  /\ From(p, "q_check", "q_pending")
  /\ ServicesActive
  /\ UNCHANGED <<journals, files, systemd, lapsed, call, pcSide, faults>>

\* ... and healthy ones end the recovery: both journals first, then the
\* adapter, then the intent.
RecoverDisarmBackup(p) ==
  /\ From(p, "q_check", "q_pending")
  /\ ServicesActive
  /\ backupStop' = NoBackup
  /\ UNCHANGED <<pending, rollback, receipt, files, systemd, lapsed, call,
                 pcSide, faults>>

RecoverDisarmPending(p) ==
  /\ From(p, "q_pending", "q_adapter")
  /\ pending' = NoPending
  /\ UNCHANGED <<rollback, receipt, backupStop, files, systemd, lapsed, call,
                 pcSide, faults>>

RecoverAdapter(p) ==
  /\ From(p, "q_adapter", "q_rollback")
  /\ adapter' = rollback.adapter
  /\ UNCHANGED <<journals, db, manifest, frontCfg, exported, systemd, lapsed,
                 call, pcSide, faults>>

RecoverRollback(p) ==
  /\ From(p, "q_rollback", "idle")
  /\ rollback' = NoRollback
  /\ lapsed' = FALSE
  /\ EndCall(p)
  /\ UNCHANGED <<pending, receipt, backupStop, files, systemd, pcSide, faults>>

\* A committed operation's journal is only cleared away.
RecoverCommittedUnlink(p) ==
  /\ From(p, "rc_unlink", "rc_rollback")
  /\ pending' = NoPending
  /\ UNCHANGED <<rollback, receipt, backupStop, files, systemd, lapsed, call,
                 pcSide, faults>>

RecoverCommittedRollback(p) ==
  /\ From(p, "rc_rollback", IF BackupOpen THEN "rb_enter" ELSE "idle")
  /\ rollback' = NoRollback
  /\ lapsed' = FALSE
  /\ IF BackupOpen THEN UNCHANGED call ELSE EndCall(p)
  /\ UNCHANGED <<pending, receipt, backupStop, files, systemd, pcSide, faults>>

\* recover_backup: queue the recorded front state, and in a later run disarm.
BackupSettled == backupStop.phase = "queued" /\ Up("front") = backupStop.front

RecoverBackupMark(p) ==
  /\ From(p, "rb_enter", "rb_queue")
  /\ ~BackupSettled
  /\ backupStop' = [backupStop EXCEPT !.phase = "queued"]
  /\ UNCHANGED <<pending, rollback, receipt, files, systemd, lapsed, call,
                 pcSide, faults>>

\* (bug) the front is not queued.
RecoverBackupNoQueue(p) ==
  /\ From(p, "rb_queue", "idle")
  /\ EndCall(p)
  /\ UNCHANGED <<journals, files, systemd, lapsed, pcSide, faults>>

RecoverBackupQueue(p) ==
  /\ From(p, "rb_queue", "idle")
  /\ QueueRecorded({"front"}, IF backupStop.front THEN {"front"} ELSE {})
  /\ EndCall(p)
  /\ UNCHANGED <<journals, files, lapsed, pcSide, faults>>

RecoverBackupDisarm(p) ==
  /\ From(p, "rb_enter", "idle")
  /\ BackupSettled
  /\ backupStop' = NoBackup
  /\ EndCall(p)
  /\ UNCHANGED <<pending, rollback, receipt, files, systemd, lapsed, pcSide,
                 faults>>

RecoverStep(p) ==
  \/ RecoverAdopt(p) \/ RecoverEnter(p) \/ RecoverReceipt(p) \/ RecoverMark(p)
  \/ RecoverStopFront(p) \/ RecoverStopPanel(p) \/ RecoverDb(p)
  \/ RecoverManifest(p) \/ RecoverFront(p) \/ RecoverQueued(p)
  \/ RecoverQueue(p) \/ RecoverRequeue(p) \/ RecoverDisarmBackup(p)
  \/ RecoverDisarmPending(p) \/ RecoverAdapter(p) \/ RecoverRollback(p)
  \/ RecoverCommittedUnlink(p) \/ RecoverCommittedRollback(p)
  \/ RecoverBackupMark(p) \/ RecoverBackupQueue(p) \/ RecoverBackupDisarm(p)

-----------------------------------------------------------------------------
(* systemd: start jobs run after the recovery oneshot (After=, Before=) *)

RunJob(s) ==
  /\ s \in jobs
  /\ pc["unit"] = "idle"
  /\ jobs' = jobs \ {s}
  /\ IF Guard
     THEN running' = [running EXCEPT ![s] = Content(s)] /\ UNCHANGED retry
     ELSE retry' = retry \cup {s} /\ UNCHANGED running
  /\ UNCHANGED <<journals, files, lapsed, pc, call, pcSide, faults>>

AutoRestart(s) ==
  /\ s \in retry
  /\ retry' = retry \ {s}
  /\ jobs' = jobs \cup {s}
  /\ UNCHANGED <<journals, files, running, lapsed, pc, call, pcSide, faults>>

\* The 900 second deadline of the intent passes.
Lapse ==
  /\ HasRollback
  /\ ~lapsed
  /\ lapsed' = TRUE
  /\ UNCHANGED <<journals, files, systemd, pc, call, pcSide, faults>>

-----------------------------------------------------------------------------
(* Faults *)

Fault == faults < MaxFaults /\ faults' = faults + 1

\* The process is killed: an interrupted SSH session, a stopped oneshot, a
\* lost reply.  The lock goes with it; queued jobs do not.
Kill(p) ==
  /\ Fault
  /\ pc[p] \notin {"idle", "starting"}
  /\ Goto(p, "idle")
  /\ EndCall(p)
  /\ UNCHANGED <<journals, files, systemd, lapsed, pcSide>>

\* An exception the code meets at a step: an API, disk or systemctl failure
\* (a start that times out after 60 s among them).
Raise(p) ==
  /\ Fault
  /\ pc[p] \notin {"idle", "starting"}
  /\ CASE pc[p] \in PrepareGuarded -> Goto(p, "r_enter") /\ UNCHANGED call
       [] pc[p] = "b_export"       -> Goto(p, "b_start") /\ UNCHANGED call
       [] OTHER                    -> Goto(p, "idle") /\ EndCall(p)
  /\ UNCHANGED <<journals, files, systemd, lapsed, pcSide>>

\* A health check of a restored or restarted state fails: what was started
\* is stopped again.
Unhealthy(p) ==
  /\ Fault
  /\ \/ pc[p] = "q_check" /\ ServicesActive /\ Stop(Services)
     \/ pc[p] = "rb_enter" /\ BackupSettled /\ backupStop.front /\ Stop({"front"})
  /\ Goto(p, "idle")
  /\ EndCall(p)
  /\ UNCHANGED <<journals, files, lapsed, pcSide>>

\* A service process dies; systemd will start it again.
Crash(s) ==
  /\ Fault
  /\ Up(s)
  /\ running' = [running EXCEPT ![s] = "down"]
  /\ retry' = retry \cup {s}
  /\ UNCHANGED <<journals, files, jobs, lapsed, pc, call, pcSide>>

\* The machine restarts: enabled units are queued behind the oneshot.
Reboot ==
  /\ Fault
  /\ running' = [s \in Services |-> "down"]
  /\ jobs' = Services
  /\ retry' = {}
  /\ lapsed' = HasRollback
  /\ pc' = [p \in Procs |-> IF p = "unit" THEN "starting" ELSE "idle"]
  /\ call' = NoCall
  /\ UNCHANGED <<journals, files, pcSide>>

-----------------------------------------------------------------------------
CallerBegin ==
  \/ \E o \in Ops : \/ PrepareUnchanged(o) \/ PrepareBegin(o)
                    \/ CommitBegin(o)
  \/ \E o \in Ops \cup {NoOp} : Abort(o)
  \/ BackupAdapter

CallerStep == PrepareStep \/ CommitStep \/ BackupStep \/ RecoverStep("caller")

UnitStep == UnitLock \/ UnitBusy \/ RecoverStep("unit")

Environment ==
  \/ \E s \in Services : RunJob(s) \/ AutoRestart(s) \/ Crash(s)
  \/ \E p \in Procs : Kill(p) \/ Raise(p) \/ Unhealthy(p)
  \/ Reboot
  \/ Lapse

Next == CallerBegin \/ CallerStep \/ UnitTick \/ UnitStep \/ Environment

\* A process that runs goes on; the timer ticks, and not for ever only while
\* a caller works (ticks are 30 s apart, callers are an operator's commands);
\* systemd runs what is queued, restarts what failed, and time passes.
Fairness ==
  /\ WF_vars(CallerStep)
  /\ WF_vars(UnitStep)
  /\ SF_vars(UnitTick /\ LockFree)
  /\ SF_vars(UnitLock)
  /\ \A s \in Services : SF_vars(RunJob(s)) /\ WF_vars(AutoRestart(s))
  /\ WF_vars(Lapse)

Spec     == Init /\ [][Next]_vars
FairSpec == Spec /\ Fairness

-----------------------------------------------------------------------------
(* Properties *)

Labels ==
  {"idle", "starting", "p_intent", "p_receipt", "p_adapter", "p_pending", "c_front",
   "c_restart", "c_manifest", "c_receipt", "c_unlink", "c_rollback",
   "b_intent", "b_stop", "b_export", "b_start", "b_wait", "b_disarm", "b_reply",
   "r_enter", "r_receipt", "r_mark", "r_stopFront", "r_stopPanel", "r_db",
   "r_manifest", "r_front", "r_queued", "r_queue", "q_check", "q_pending",
   "q_adapter", "q_rollback", "rc_unlink", "rc_rollback", "rb_enter",
   "rb_queue"} \cup PrepareGuarded

Phases == {"snapshot", "ready", "prepared", "recovering", "restore-queued"}

PendingType  == pending \in [phase : Phases \cup {"absent"}, op : Ops \cup {NoOp},
                             restoreDb : BOOLEAN]
RollbackType ==
  rollback \in [op : Ops \cup {NoOp}, db : Versions \cup {NoVer, "torn"},
                front : Versions \cup {NoVer, "closed"},
                adapter : {"current", "predecessor"}, services : SUBSET Services,
                manifest : [ver : Versions \cup {NoVer}, published : BOOLEAN]]
JournalTypes ==
  /\ receipt \in [Ops -> {"none", "intent", "committed", "unchanged"}]
  /\ backupStop \in [phase : {"absent", "stopping", "queued"}, front : BOOLEAN]
FileTypes ==
  /\ db \in Versions \cup {"torn"}
  /\ manifest \in [ver : Versions, published : BOOLEAN]
  /\ frontCfg \in Versions \cup {"closed"}
  /\ adapter \in {"current", "predecessor"}
  /\ exported \in Versions \cup {NoVer, "torn"}
UnitTypes ==
  /\ running \in [Services -> Versions \cup {"torn", "closed", "down"}]
  /\ jobs \subseteq Services
  /\ retry \subseteq Services
ProcessTypes ==
  /\ lapsed \in BOOLEAN
  /\ pc \in [Procs -> Labels]
  /\ call \in [op : Ops \cup {NoOp}, built : BOOLEAN]
  /\ archive \in Versions \cup {NoVer, "torn"}
  /\ archived \subseteq Versions \cup {"torn"}
  /\ faults \in 0..MaxFaults

\* Type correctness of every journal, file, unit and process.
TypeOK == /\ PendingType
          /\ RollbackType
          /\ JournalTypes
          /\ FileTypes
          /\ UnitTypes
          /\ ProcessTypes

\* The version the host stands for: the candidate once its receipt says
\* committed, until then what the rollback directory would bring back.
Authoritative ==
  IF ~HasRollback THEN manifest.ver
  ELSE IF Committed(rollback.op) THEN rollback.op
  ELSE rollback.manifest.ver

\* While no journal is open the private database, the manifest, the front
\* configuration and what the services run agree on one published version,
\* whatever was killed, rebooted or rolled back before.
QuietAgreement ==
  ~IsPending =>
    /\ db = Authoritative
    /\ frontCfg = Authoritative
    /\ manifest = [ver |-> Authoritative, published |-> TRUE]
    /\ \A s \in Services : running[s] \in {"down", Authoritative}

\* As long as an operation is not committed its journal can be undone: the
\* rollback directory is the one of this very operation and holds everything
\* the recorded phase says may have changed.
Restorable ==
  IsPending /\ ~Committed(pending.op) =>
    /\ rollback.op = pending.op
    /\ rollback.front = rollback.manifest.ver
    /\ \/ pending.phase \in {"ready", "prepared"}
       \/ pending.phase = "recovering" /\ pending.restoreDb
       => rollback.db = rollback.manifest.ver
    /\ pending.phase = "snapshot" => db = rollback.manifest.ver
    /\ pending.phase = "recovering" /\ ~pending.restoreDb => db = rollback.manifest.ver

\* An unpublished or rolled-back candidate is never served from its new front
\* paths unless the PC had received the archive of exactly that candidate.
NoEarlyPublication ==
  running["front"] \in Ops => running["front"] \in archived

\* The receipt that makes an operation final is written only for a state of
\* which an off-node archive exists, and no archive is of a half-made change.
ArchivedBeforeCommit ==
  /\ \A o \in Ops : receipt[o] = "committed" => o \in archived
  /\ exported # "torn"

\* Nothing runs on a database, manifest or front that recovery is rewriting,
\* and the database is copied only while nothing writes it.
StoppedWhileRewritten ==
  \A p \in Procs :
    pc[p] \in {"p_snapshot", "r_db", "r_manifest", "r_front", "r_queued"} =>
      \A s \in Services : ~Up(s)

\* A service the guard let start after a restoration runs the restored state:
\* no candidate survives in a process behind a restore-queued journal.
RestoredStateRuns ==
  pending.phase = "restore-queued" =>
    \A s \in Services : running[s] \in {"down", rollback.manifest.ver}

\* Whatever a reboot may find, the stored adapter can read it: a stop intent
\* and a transport journal exist only behind the current adapter.
AdapterCapable ==
  BackupOpen \/ pending.op \in TransportOps => adapter = "current"

\* An operation's candidate is prepared only after the panel restarted on it,
\* so the old credentials' streams are gone before anything is archived.
PreparedRunsCandidate ==
  pending.phase = "prepared" =>
    /\ db = pending.op
    /\ manifest.ver = pending.op
    /\ running["panel"] \in {"down", pending.op}

\* Whatever a crash or a reboot leaves, the stored adapter can undo it.
Recoverable == Restorable /\ AdapterCapable

\* A candidate is neither served nor final before the PC has its archive.
PublicationGuarded == NoEarlyPublication /\ ArchivedBeforeCommit

\* The services never run on files under rewriting, nor on the wrong version.
ServicesHeld == StoppedWhileRewritten /\ RestoredStateRuns /\ PreparedRunsCandidate

\* The durable choice the host promises.
Choice == INSTANCE DurableChoice WITH
            Initial <- "base",
            value   <- Authoritative,
            verdict <- [o \in Ops |-> IF Committed(o) THEN receipt[o] ELSE "open"]
ImplementsChoice == Choice!Spec

\* Every open journal is committed or rolled back in the end.
JournalsSettle == IsPending ~> ~IsPending

\* A stop intent never outlives the interruption that left it.
BackupStopSettles == BackupOpen ~> ~BackupOpen

\* A restoration that began is not given up before every service that ran
\* when the operation began runs again.
RestorationServes ==
  pending.phase = "recovering" ~> pending.phase = "restore-queued" /\ ServicesActive

\* A front that was running when a backup stopped it runs again, unless the
\* operation under way is rolled back to a moment at which it was down.
BackupFrontReturns ==
  BackupOpen /\ backupStop.front ~>
    \/ Up("front")
    \/ pending.phase = "restore-queued" /\ "front" \notin rollback.services

\* No journal, of an operation or of a backup, stays open for good.
JournalsClose == JournalsSettle /\ BackupStopSettles

\* No service that ran is forgotten, by a rollback or by a backup.
ServicesReturn == RestorationServes /\ BackupFrontReturns

\* README.md:71 says that a backup stops the subscription front only briefly.
FrontStopsBriefly == []<>Up("front")

-----------------------------------------------------------------------------
(* The inductive invariant behind the safety properties: what each journal  *)
(* implies about the files, and what a process knows at each of its steps.  *)

PrepareLabels == {"p_intent", "p_receipt", "p_adapter", "p_pending"} \cup PrepareGuarded
CommitLabels  == {"c_front", "c_restart", "c_manifest", "c_receipt"}
BackupLabels  == {"b_intent", "b_stop", "b_export", "b_start", "b_wait", "b_reply"}
RestoreLabels == {"r_stopFront", "r_stopPanel", "r_db", "r_manifest", "r_front",
                  "r_queued"}
RecoverLabels == RestoreLabels \cup
  {"r_enter", "r_receipt", "r_mark", "r_queue", "q_check", "q_pending", "q_adapter",
   "q_rollback", "rc_unlink", "rc_rollback", "rb_enter", "rb_queue"}

\* The operation lock admits one process at a time.
OneHolder == /\ pc["caller"] # "starting"
             /\ pc["unit"] \in {"idle", "starting"} \cup RecoverLabels
             /\ pc["caller"] = "idle" \/ pc["unit"] \in {"idle", "starting"}

Settled(v) == db = v /\ frontCfg = v /\ manifest = [ver |-> v, published |-> TRUE]
Quiet == ~IsPending \/ Committed(pending.op)

JournalsAgree ==
  /\ IsPending => HasRollback /\ pending.op = rollback.op
  /\ ~IsPending => pending.op = NoOp
  /\ HasRollback => /\ rollback.front \in Versions
                    /\ rollback.manifest = [ver |-> rollback.front, published |-> TRUE]
  /\ \/ pending.phase \in {"ready", "prepared"}
     \/ pending.phase = "recovering" /\ pending.restoreDb
     => rollback.db = rollback.front
  /\ IsPending /\ pending.phase # "prepared" => ~Committed(pending.op)
  /\ pending.phase \in {"recovering", "restore-queued"} => receipt[pending.op] # "none"

CallerKnows ==
  LET at == pc["caller"] IN
  /\ at \in PrepareLabels \cup CommitLabels \cup {"c_unlink", "c_rollback"} => call.op \in Ops
  /\ at \in PrepareLabels \cup CommitLabels => ~Committed(call.op)
  /\ at = "p_intent" => ~IsPending /\ ~HasRollback
  /\ at \in {"p_receipt", "p_adapter", "p_pending"} => ~IsPending /\ rollback.op = call.op
  /\ at \in PrepareGuarded => pending.op = call.op
  /\ at \in {"p_stopFront", "p_stopPanel", "p_snapshot", "p_ready"} => pending.phase = "snapshot"
  /\ at = "p_ready" => rollback.db = rollback.front
  /\ at \in PrepareGuarded \ {"p_stopFront", "p_stopPanel", "p_snapshot", "p_ready"}
       => pending.phase = "ready"
  /\ at \in CommitLabels \cup {"c_unlink"} => pending.phase = "prepared" /\ pending.op = call.op
  /\ at = "c_unlink" => Committed(call.op)
  /\ at = "c_rollback" => ~IsPending /\ rollback.op = call.op /\ Committed(call.op)
  /\ at \in BackupLabels => pending.phase \in {"absent", "prepared"}

RecoverKnows ==
  \A p \in Procs :
    /\ pc[p] \in {"r_receipt", "r_mark"} =>
         HasRollback /\ ~Committed(rollback.op) /\ pending.phase # "restore-queued"
    /\ pc[p] = "r_mark" => receipt[rollback.op] # "none"
    /\ pc[p] \in RestoreLabels => pending.phase = "recovering"
    /\ pc[p] \in {"r_queue", "q_check", "q_pending"} => pending.phase = "restore-queued"
    /\ pc[p] \in {"q_adapter", "q_rollback"} =>
         ~IsPending /\ HasRollback /\ ~Committed(rollback.op)
    /\ pc[p] = "rc_unlink" => HasRollback /\ Committed(rollback.op)
    /\ pc[p] = "rc_rollback" => ~IsPending /\ HasRollback /\ Committed(rollback.op)
    /\ pc[p] \in {"q_pending", "q_adapter", "q_rollback"} => ~BackupOpen
    /\ pc[p] \in {"rb_enter", "rb_queue"} => BackupOpen

FilesAgree ==
  /\ Quiet => Settled(Authoritative)
  /\ pending.phase \in {"snapshot", "restore-queued"} => Settled(rollback.front)
  /\ pending.phase = "recovering" /\ ~pending.restoreDb => db = rollback.front
  /\ pending.phase = "prepared" => db = pending.op /\ manifest.ver = pending.op
  /\ pc["caller"] \in {"p_restopPanel", "p_restartPanel", "p_manifest", "p_closeFront",
                       "p_startFront", "p_prepared"} => db = call.op
  /\ pc["caller"] \in {"p_closeFront", "p_startFront", "p_prepared"} => manifest.ver = call.op
  /\ pc["caller"] \in {"c_restart", "c_manifest", "c_receipt"} => frontCfg = call.op
  /\ pc["caller"] = "c_receipt" => manifest.published
  /\ \A p \in Procs :
       /\ pc[p] \in {"r_manifest", "r_front", "r_queued"} => db = rollback.front
       /\ pc[p] \in {"r_front", "r_queued"} => manifest = rollback.manifest
       /\ pc[p] = "r_queued" => frontCfg = rollback.front

Off(s) == ~Up(s) /\ s \notin jobs /\ s \notin retry

ServicesAgree ==
  /\ \A s \in Services :
       /\ Quiet => running[s] \in {"down", Authoritative}
       /\ pending.phase \in {"snapshot", "restore-queued"} => running[s] \in {"down", rollback.front}
       /\ pc["caller"] \in {"p_snapshot", "p_ready"} => Off(s)
       /\ \A p \in Procs :
            pc[p] \in RestoreLabels \ {"r_stopFront", "r_stopPanel"} => ~Up(s)
  /\ pending.phase = "prepared" => running["panel"] \in {"down", pending.op}
  /\ pc["caller"] \in {"p_restartPanel", "p_manifest", "p_closeFront", "p_startFront",
                       "p_prepared"} => running["panel"] \in {"down", call.op}
  /\ pc["caller"] \in {"c_manifest", "c_receipt"} => running["front"] \in {"down", call.op}
  /\ pc["caller"] = "p_stopPanel" => Off("front")
  /\ \A p \in Procs : pc[p] = "r_stopPanel" => ~Up("front")

ArchivesAgree ==
  /\ archive # NoVer => archive \in archived
  /\ exported # "torn"
  /\ pc["caller"] \in PrepareLabels => archive = NoVer
  /\ pending.phase = "prepared" /\ ~Committed(pending.op) => archive \in {NoVer, pending.op}
  /\ call.built => pc["caller"] \in {"b_start", "b_wait", "b_reply"} /\ exported = db
  /\ pc["caller"] \in CommitLabels => call.op \in archived
  /\ frontCfg \in Ops => frontCfg \in archived
  /\ rollback.front \in Ops => rollback.front \in archived
  /\ running["front"] \in Ops => running["front"] \in archived
  /\ \A o \in Ops : receipt[o] = "committed" => o \in archived

AdapterAgrees ==
  /\ BackupOpen \/ rollback.op \in TransportOps => adapter = "current"
  /\ rollback.op \in TransportOps => rollback.adapter = "current"
  /\ pc["caller"] = "p_intent" /\ call.op \in TransportOps => adapter = "current"
  /\ pc["caller"] = "b_intent" => adapter = "current"
  /\ pc["caller"] \in {"p_pending"} \cup PrepareGuarded => adapter = "current"

IInv == /\ TypeOK
        /\ OneHolder
        /\ JournalsAgree
        /\ CallerKnows
        /\ RecoverKnows
        /\ FilesAgree
        /\ ServicesAgree
        /\ ArchivesAgree
        /\ AdapterAgrees
=============================================================================
