------------------------------ MODULE NodeSetup ------------------------------
(***************************************************************************)
(* `setup.sh` without a command (vps/lib/setup_ensure.py), the read-only   *)
(* attachment of a PC to a running node (connect.py, connect_read.py) and  *)
(* the installation and restoration they lead to (vps.deploy): several     *)
(* state directories, one configured VPS.                                  *)
(*                                                                         *)
(* Each call to the host is one step under its operation lock, except the  *)
(* collection of an archive from the live node, during which the native    *)
(* panel and the front keep writing.  A command of a directory holds the   *)
(* directory's lock; it can be killed at any step, its call may be served  *)
(* afterwards, and the VPS can be lost or reinstalled under everybody.     *)
(***************************************************************************)
EXTENDS Naturals

CONSTANTS Dirs,        \* private state directories
          MaxNodes,    \* how many nodes are ever created
          MaxFaults    \* kills, lost replies, failed calls and writes, losses of the
                       \* VPS, and changes of the node behind everybody's back

ASSUME SetupAssumption ==
  /\ MaxNodes \in Nat /\ MaxFaults \in Nat
  /\ "nobody" \notin Dirs

VARIABLES
  host,     \* what is under ROOT on the VPS, and its machine-id
  lock,     \* the directory whose connect-pull holds the operation lock
  live,     \* versions of the native database and of the certificates,
            \* counted from the beginning of that collection
  moments,  \* the versions there have been since
  late,     \* calls of dead commands
  cmd,      \* cmd[d]: the command that holds d's .lock
  doc,      \* doc[d]: state.json
  pend,     \* pend[d]: pending.json
  kept,     \* kept[d]: the archive state.json names is complete in its place
  faults

pulling == <<lock, live, moments>>
remoteSide == <<host, pulling, late>>
disk == <<doc, pend, kept>>
vars == <<remoteSide, cmd, disk, faults>>

Nobody == "nobody"
NoArc  == [node |-> 0, owner |-> Nobody, pub |-> FALSE]
\* A document: owner; `current`, if it has one, and its node (0: not named);
\* the archive; and whether the offline outputs are those of the archive.
NoDoc  == [owner |-> Nobody, cur |-> FALSE, node |-> 0, arc |-> NoArc, gen |-> FALSE]
NoPend == "none"
Never  == [db |-> 0, cert |-> 0]
Idle   == [at |-> "idle", flow |-> "none", doc |-> NoDoc, node |-> 0, arc |-> NoArc, copy |-> Never]

Init ==
  /\ host = [root |-> FALSE, owner |-> Nobody, node |-> 0, pub |-> FALSE, pend |-> FALSE,
             stop |-> "no", receipt |-> NoArc, from |-> Nobody, made |-> 0, drift |-> FALSE]
  /\ lock = Nobody /\ live = Never /\ moments = {} /\ late = {}
  /\ cmd = [d \in Dirs |-> Idle]
  /\ doc = [d \in Dirs |-> NoDoc] /\ pend = [d \in Dirs |-> NoPend]
  /\ kept = [d \in Dirs |-> TRUE]
  /\ faults = 0

Spend(n)  == faults + n <= MaxFaults /\ faults' = faults + n
Working(d, label) == cmd[d].at = label
Go(d, label) == cmd' = [cmd EXCEPT ![d].at = label]
End(d) == cmd' = [cmd EXCEPT ![d] = Idle]

-----------------------------------------------------------------------------
(* The host's calls.  An answer: the host after it, what it says, an       *)
(* archive, and whether it took a failure to get it.                       *)

Answer(h, is, arc, cost) == [host |-> h, is |-> is, arc |-> arc, cost |-> cost]
Refusal == {Answer(host, "error", NoArc, 0)}

Mine(c)   == host.root /\ host.owner = c.owner
Content   == [node |-> host.node, owner |-> host.owner, pub |-> host.pub]
Pristine(h) == [h EXCEPT !.node = 0, !.pub = FALSE, !.pend = FALSE, !.stop = "no", !.drift = FALSE]

\* preflight: a free machine or this owner's, and no transaction.
FitsOwner(c) == ~host.root \/ host.owner = c.owner
Preflight(c) == FitsOwner(c) /\ ~host.pend

\* prepare: an existing node is only put in order (its front configuration),
\* a free place gets a candidate with a lease.  A failure restores the place;
\* when the host dies the journal stays.
Prepare(c) ==
  LET claimed == [host EXCEPT !.root = TRUE, !.owner = c.owner]
      candidate == [claimed EXCEPT !.node = host.made + 1, !.made = @ + 1, !.pub = FALSE,
                                   !.pend = TRUE,
                                   !.from = IF c.flow = "install" THEN c.by ELSE Nobody]
  IN IF ~Preflight(c) \/ (host.node # 0 /\ c.flow = "restore") THEN Refusal
     ELSE IF host.node # 0 THEN {Answer([host EXCEPT !.drift = FALSE], "unchanged", NoArc, 0)}
     ELSE {Answer(claimed, "error", NoArc, 1), Answer([claimed EXCEPT !.pend = TRUE], "error", NoArc, 1)}
          \cup (IF host.made < MaxNodes THEN {Answer(candidate, "prepared", NoArc, 0)} ELSE {})

\* backup: stops the front meanwhile, and says so in backup-stop.json.
Backup(c) ==
  IF Mine(c) /\ host.node # 0 /\ host.stop = "no"
  THEN {Answer([host EXCEPT !.receipt = Content], "done", Content, 0),
        Answer([host EXCEPT !.stop = "stopping"], "error", NoArc, 1)}
  ELSE Refusal

\* (bug) the transaction is left open.
PublishedOpen(h) == [h EXCEPT !.pub = TRUE]

Published(h) == [h EXCEPT !.pub = TRUE, !.pend = FALSE]

\* commit: published against the digest of the last export; without a
\* journal it answers with the status.
Commit(c) ==
  IF ~Mine(c) \/ host.node = 0 THEN Refusal
  ELSE IF ~host.pend THEN {Answer(host, "done", NoArc, 0)}
  ELSE IF host.receipt = c.arc
       THEN {Answer(Published(host), "done", NoArc, 0), Answer(host, "error", NoArc, 1)}
       ELSE Refusal

\* recover, by a call (abort) or by the timer.  The services of a stopped
\* front are queued by one call and found running by a later one.
Recover ==
  IF host.pend THEN Answer(Pristine(host), "restored", NoArc, 0)
  ELSE IF host.stop = "stopping" THEN Answer([host EXCEPT !.stop = "queued"], "waiting", NoArc, 0)
  ELSE IF host.stop = "queued" THEN Answer([host EXCEPT !.stop = "no"], "committed", NoArc, 0)
  ELSE Answer(host, IF host.node # 0 THEN "committed" ELSE "restored", NoArc, 0)

Abort(c) ==
  IF ~host.root THEN {Answer(host, "restored", NoArc, 0)}
  ELSE IF host.owner # c.owner THEN Refusal
  ELSE {Recover}

\* outputs, and after the commit status: the node serves what the archive
\* holds, unless its roster has changed meanwhile.
Verify(c) ==
  IF Mine(c) /\ c.arc.node = host.node /\ (c.arc.pub => ~host.pend)
  THEN {Answer(host, "done", NoArc, 0), Answer(host, "error", NoArc, 1)} ELSE Refusal

Status(c) == IF Mine(c) /\ host.node # 0 /\ ~host.pend THEN {Answer(host, "done", NoArc, 0)} ELSE Refusal

Answers(c) ==
  CASE c.op = "preflight" -> IF Preflight(c) THEN {Answer(host, "done", NoArc, 0)} ELSE Refusal
    [] c.op = "prepare" -> Prepare(c)
    [] c.op \in {"backup", "rebackup"} -> Backup(c)
    [] c.op = "commit" -> Commit(c)
    [] c.op = "abort" -> Abort(c)
    [] c.op \in {"verify", "reverify"} -> Verify(c)
    [] c.op = "status" -> Status(c)

Calls == {"preflight", "prepare", "backup", "rebackup", "commit", "abort", "verify", "reverify", "status"}
Request(d) == [op |-> cmd[d].at, flow |-> cmd[d].flow, owner |-> cmd[d].doc.owner, arc |-> cmd[d].arc, by |-> d]

-----------------------------------------------------------------------------
(* The calls of a command *)

Untracked(d) == doc[d] = NoDoc /\ pend[d] = "backup"
OnlyBackup(d) == pend[d] = "backup" \/ doc[d].cur

\* A step failed.  A repair without a state document drops its marker.
Fail(d) ==
  /\ End(d)
  /\ pend' = IF Untracked(d) THEN [pend EXCEPT ![d] = NoPend] ELSE pend
  /\ UNCHANGED <<doc, kept>>

\* backup_committed keeps a verified archive whose outputs it cannot capture.
Refused(d) ==
  IF cmd[d].flow = "recover" /\ cmd[d].at = "reverify" /\ OnlyBackup(d)
  THEN cmd' = [cmd EXCEPT ![d].at = "remember", ![d].flow = "plain"] /\ UNCHANGED disk
  ELSE Fail(d)

Received(d, arc, label) ==
  /\ cmd' = [cmd EXCEPT ![d].at = label, ![d].arc = arc]
  /\ pend' = IF cmd[d].flow = "repair" THEN [pend EXCEPT ![d] = NoPend] ELSE pend
  /\ UNCHANGED <<doc, kept>>

\* An abort that found nothing committed ends the pending record.
Restored(d) ==
  /\ Go(d, "probe")
  /\ pend' = [pend EXCEPT ![d] = NoPend]
  /\ UNCHANGED <<doc, kept>>

On(d, label) == Go(d, label) /\ UNCHANGED disk

\* deploy_existing: a node that is not exactly as it was expected ends the
\* repair, otherwise a backup of its own follows.
RepairGoesOn(d, a) ==
  \/ cmd[d].at = "status" /\ a.is = "done" /\ On(d, "prepare")
  \/ cmd[d].at = "prepare" /\ a.is = "unchanged" /\ On(d, "mark")
  \/ cmd[d].at = "prepare" /\ a.is = "prepared" /\ Fail(d)

Delivered(d, a) ==
  LET at == cmd[d].at IN
  \/ a.is = "error" /\ Refused(d)
  \/ cmd[d].flow = "repair" /\ RepairGoesOn(d, a)
  \/ at = "preflight" /\ a.is = "done" /\ On(d, "mark")
  \/ at = "prepare" /\ cmd[d].flow # "repair" /\ a.is = "prepared" /\ On(d, "backup")
  \/ at = "prepare" /\ cmd[d].flow # "repair" /\ a.is = "unchanged" /\ On(d, "rebackup")
  \/ at = "backup" /\ a.is = "done" /\ Received(d, a.arc, "verify")
  \/ at = "rebackup" /\ a.is = "done" /\ Received(d, a.arc, "reverify")
  \/ at = "verify" /\ a.is = "done" /\ On(d, "commit")
  \/ at = "commit" /\ a.is = "done" /\ On(d, "rebackup")
  \/ at = "reverify" /\ a.is = "done" /\ On(d, "remember")
  \/ at = "abort" /\ a.is = "waiting" /\ End(d) /\ UNCHANGED disk
  \/ at = "abort" /\ a.is = "restored" /\ Restored(d)
  \/ at = "abort" /\ a.is = "committed" /\ On(d, "rebackup")

\* The call waits for the operation lock; its reply can be lost.
Call(d) ==
  /\ cmd[d].at \in Calls
  /\ lock = Nobody
  /\ \E a \in Answers(Request(d)) :
       /\ host' = a.host
       /\ \/ Delivered(d, a) /\ Spend(a.cost)
          \/ Fail(d) /\ Spend(a.cost + 1)
  /\ UNCHANGED <<pulling, late>>

\* connect-pull ends.
Release == lock' = Nobody /\ live' = Never /\ moments' = {}

\* The command is killed; its call may still be on the way to the host.
Kill(d) ==
  /\ cmd[d].at # "idle"
  /\ Spend(1)
  /\ End(d)
  /\ late' \in {late, late \cup (IF cmd[d].at \in {"prepare", "backup", "rebackup", "commit", "abort"}
                                 THEN {Request(d)} ELSE {})}
  /\ IF lock = d THEN Release ELSE UNCHANGED pulling
  /\ UNCHANGED <<host, disk>>

ServeLate ==
  /\ lock = Nobody
  /\ \E c \in late : \E a \in Answers(c) : host' = a.host /\ late' = late \ {c} /\ Spend(a.cost)
  /\ UNCHANGED <<pulling, cmd, disk>>

-----------------------------------------------------------------------------
(* Local steps of an installation, a repair and a recovery *)

\* deploy: pending.json first, then the ownership, then the host; a repair's
\* backup marks itself.
Mark(d) ==
  /\ Working(d, "mark")
  /\ pend' = [pend EXCEPT ![d] = IF cmd[d].flow = "repair" THEN "backup" ELSE "deploy"]
  /\ Go(d, IF cmd[d].flow = "repair" THEN "rebackup" ELSE "own")
  /\ UNCHANGED <<remoteSide, doc, kept, faults>>

Own(d) ==
  /\ Working(d, "own")
  /\ doc' = [doc EXCEPT ![d] = cmd[d].doc]
  /\ Go(d, "prepare")
  /\ UNCHANGED <<remoteSide, pend, kept, faults>>

Remembered(d) ==
  [owner |-> cmd[d].doc.owner, cur |-> TRUE, arc |-> cmd[d].arc,
   node |-> IF cmd[d].flow = "attach" THEN cmd[d].node ELSE 0, gen |-> cmd[d].flow # "plain"]

\* The archive that may become the directory's: published, its owner's, and
\* after a mere backup of the node the directory has.
Acceptable(d) ==
  /\ cmd[d].arc.pub /\ cmd[d].arc.owner = cmd[d].doc.owner
  /\ cmd[d].flow \in {"recover", "plain"} /\ OnlyBackup(d) =>
       doc[d].arc.node = cmd[d].arc.node

\* (bug) what remember_commit returned decides whether the archive goes.
KeptByReturn(d, written) == IF written THEN cmd[d].flow # "attach" ELSE kept[d]

\* Whether the named archive is in place after a failed write: an attachment
\* renames its own away, unless state.json, read back, names it.
KeptAfter(d, written) == written \/ kept[d]

\* state.json is replaced; or the write raises before that, or after it.
Remember(d) ==
  /\ Working(d, "remember") /\ Acceptable(d)
  /\ \/ /\ doc' = [doc EXCEPT ![d] = Remembered(d)]
        /\ kept' = [kept EXCEPT ![d] = TRUE]
        /\ IF pend[d] # NoPend THEN Go(d, "unlink") ELSE End(d)
        /\ UNCHANGED faults
     \/ \E written \in BOOLEAN :
          /\ doc' = IF written THEN [doc EXCEPT ![d] = Remembered(d)] ELSE doc
          /\ kept' = [kept EXCEPT ![d] = KeptAfter(d, written)]
          /\ End(d)
          /\ Spend(1)
  /\ UNCHANGED <<remoteSide, pend>>

RememberRefused(d) ==
  /\ Working(d, "remember") /\ ~Acceptable(d)
  /\ Fail(d)
  /\ UNCHANGED <<remoteSide, faults>>

\* A recovery of setup.sh goes on with the host as it is now.
Unlink(d) ==
  /\ Working(d, "unlink")
  /\ pend' = [pend EXCEPT ![d] = NoPend]
  /\ IF cmd[d].flow = "recover" THEN Go(d, "probe") ELSE End(d)
  /\ UNCHANGED <<remoteSide, doc, kept, faults>>

-----------------------------------------------------------------------------
(* setup.sh: one probe, one decision *)

\* A transaction without the document it belongs to is left to an inspection.
LocallyBound(d) == pend[d] # NoPend => doc[d] # NoDoc

EnsureStart(d) ==
  /\ Working(d, "idle")
  /\ IF ~LocallyBound(d)
     THEN End(d)
     ELSE /\ cmd' = [cmd EXCEPT ![d] = [Idle EXCEPT !.at = IF pend[d] # NoPend THEN "abort" ELSE "probe",
                       !.flow = IF pend[d] # NoPend THEN "recover" ELSE "ensure",
                       !.doc = doc[d]]]
  /\ UNCHANGED <<remoteSide, disk, faults>>

\* pending_intent: work that is not over.
Unsettled == host.pend \/ host.stop # "no"
\* absent_check: nothing of a node (a VPS with something else in its way is
\* not modelled).
Empty == ~host.root

\* ensure-probe: under the operation lock if that is free.
Kind ==
  IF lock # Nobody \/ Unsettled THEN "pending"
  ELSE IF Empty THEN "absent"
  ELSE IF host.node = 0 THEN "owned_empty"
  ELSE "owned"

\* (bug) the archive is not consulted.
BindsCurrent(saved) == saved.owner = host.owner /\ saved.node \in {0, host.node}

\* connect.check_binding: the owner, the node of `current` and, when
\* `current` has none, that of the saved archive.  The code leaves the last test
\* out when it cannot read that archive (old_manifest); here whatever state.json
\* refers to can be read.
Binds(saved) ==
  /\ saved.owner = host.owner
  /\ saved.node \in {0, host.node}
  /\ saved.node = 0 => saved.arc.node = host.node

\* The saved snapshot may be that of the live roster; with this it is not.
CacheIsStale(d) == ~kept[d] \/ ~doc[d].gen \/ doc[d].arc # Content

Take(d, flow, label, saved) ==
  /\ cmd' = [cmd EXCEPT ![d] = [Idle EXCEPT !.at = label, !.flow = flow, !.doc = saved]]

\* (bug) a node that is gone is installed again.
InstallsAnew(d) == Kind = "absent" \/ (Kind = "owned_empty" /\ doc[d].owner = host.owner)

\* Nothing there, or this directory's own unfinished place.  A directory that
\* had a node here is refused.
Installs(d) ==
  /\ ~doc[d].cur
  /\ Kind = "absent" \/ (Kind = "owned_empty" /\ doc[d].owner = host.owner)

Belongs(d) == doc[d] = NoDoc \/ (doc[d].cur /\ Binds(doc[d]))

\* With the directory's ownership, or one drawn for it.
Install(d) ==
  Take(d, "install", "preflight", IF doc[d] = NoDoc THEN [NoDoc EXCEPT !.owner = d] ELSE doc[d])

\* What is known of the node without a document of one's own.
Found == [NoDoc EXCEPT !.owner = host.owner]

Decide(d) ==
  /\ Working(d, "probe")
  /\ \/ Kind = "pending" /\ End(d)
     \/ Kind \in {"absent", "owned_empty"} /\ ~Installs(d) /\ End(d)
     \/ /\ Installs(d)
        /\ Install(d)
     \/ Kind = "owned" /\ ~Belongs(d) /\ End(d)
     \/ /\ Kind = "owned" /\ Belongs(d) /\ host.drift
        /\ Take(d, "repair", "status", IF doc[d] = NoDoc THEN Found ELSE doc[d])
     \/ Kind = "owned" /\ Belongs(d) /\ ~host.drift /\ ~CacheIsStale(d) /\ End(d)
     \/ /\ Kind = "owned" /\ Belongs(d) /\ ~host.drift
        /\ Take(d, "attach", "info", doc[d])
  /\ UNCHANGED <<remoteSide, disk, faults>>

\* setup.sh restore in an empty directory, from another directory's archive.
Restore(d) ==
  /\ Working(d, "idle") /\ doc[d] = NoDoc /\ pend[d] = NoPend
  /\ \E e \in {e \in Dirs : doc[e].arc # NoArc} :
       Take(d, "restore", "preflight", [NoDoc EXCEPT !.owner = doc[e].owner, !.arc = doc[e].arc])
  /\ UNCHANGED <<remoteSide, disk, faults>>

-----------------------------------------------------------------------------
(* Attaching: connect.run, and on the host connect-info and connect-pull *)

Connect(d) ==
  /\ Working(d, "idle") /\ pend[d] = NoPend
  /\ doc[d] = NoDoc \/ doc[d].cur
  /\ Take(d, "attach", "info", doc[d])
  /\ UNCHANGED <<remoteSide, disk, faults>>

\* locked: the operation lock is taken at once or not at all.
Free == lock = Nobody

\* observe: a published node at rest, with the machine and, later, the owner
\* and node the request names.
Attachable == Free /\ host.root /\ ~Unsettled /\ host.node # 0 /\ host.pub
Named(d)   == host.owner = cmd[d].doc.owner /\ host.node = cmd[d].node

Info(d) ==
  /\ Working(d, "info")
  /\ IF Attachable /\ (doc[d] = NoDoc \/ Binds(doc[d]))
     THEN /\ cmd' = [cmd EXCEPT ![d].at = "pull", ![d].doc = IF doc[d] = NoDoc THEN Found ELSE doc[d],
                                ![d].node = host.node]
          /\ UNCHANGED disk
     ELSE Fail(d)
  /\ UNCHANGED <<remoteSide, faults>>

\* build_archive: the certificates and the database are read, ...
PullBegin(d) ==
  /\ Working(d, "pull")
  /\ IF Attachable /\ Named(d)
     THEN /\ Go(d, "copy")
          /\ lock' = d /\ moments' = {Never}
          /\ UNCHANGED disk
     ELSE Fail(d) /\ UNCHANGED <<lock, moments>>
  /\ UNCHANGED <<host, live, late, faults>>

\* ... the tree is copied, ...
CopyTree(d) ==
  /\ Working(d, "copy")
  /\ cmd' = [cmd EXCEPT ![d].at = "snapshot", ![d].copy.cert = live.cert]
  /\ UNCHANGED <<remoteSide, disk, faults>>

\* ... the database is snapshot, ...
Snapshot(d) ==
  /\ Working(d, "snapshot")
  /\ cmd' = [cmd EXCEPT ![d].at = "compare", ![d].copy.db = live.db]
  /\ UNCHANGED <<remoteSide, disk, faults>>

\* material and db_state: the files, and the database but for its counters,
\* are what they were at the beginning.
Unmoved == live = Never

\* (bug) what is live now is not compared.
CopyAsFirst(d) == cmd[d].copy.cert = 0

\* ... and the copied tree, and all that is live now, are compared with the
\* start.  Of the copied database only the accounts are; what is modelled is
\* the rest of it.
SameAsFirst(d) == cmd[d].copy.cert = 0 /\ Unmoved

\* The archive is streamed, written aside, synced and renamed.
Compare(d) ==
  /\ Working(d, "compare")
  /\ Release
  /\ LET good == Named(d) /\ host.pub /\ SameAsFirst(d) IN
     \/ /\ good /\ UNCHANGED <<disk, faults>>
        /\ cmd' = [cmd EXCEPT ![d].at = "reverify", ![d].arc = Content]
     \/ ~good /\ Fail(d) /\ UNCHANGED faults
     \/ good /\ Fail(d) /\ Spend(1)
  /\ UNCHANGED <<host, late>>

-----------------------------------------------------------------------------
(* The node and the VPS by themselves *)

\* The panel changes accounts, also back again; the front renews certificates.
NativeChange ==
  /\ lock # Nobody
  /\ live' \in {[live EXCEPT !.db = 1 - @], [live EXCEPT !.cert = @ + 1]}
  /\ Spend(1)
  /\ moments' = moments \cup {live'}
  /\ UNCHANGED <<host, lock, late, cmd, disk>>

Drift ==
  /\ host.pub /\ ~host.drift
  /\ Spend(1)
  /\ host' = [host EXCEPT !.drift = TRUE]
  /\ UNCHANGED <<pulling, late, cmd, disk>>

\* The VPS is lost with its node, and an empty one takes its place: it has
\* another machine-id, so that no call on the way to the old one reaches it.
Lose ==
  /\ host.node # 0
  /\ Spend(1)
  /\ host' = [Pristine(host) EXCEPT !.root = FALSE, !.owner = Nobody, !.receipt = NoArc]
  /\ late' = {}
  /\ UNCHANGED <<pulling, cmd, disk>>

\* The recovery timer: after the lease, or for a front that was stopped.
Timer ==
  /\ lock = Nobody
  /\ host.pend \/ host.stop # "no"
  /\ host' = Recover.host
  /\ UNCHANGED <<pulling, late, cmd, disk, faults>>

Step(d) ==
  \/ Call(d) \/ Mark(d) \/ Own(d) \/ Remember(d) \/ RememberRefused(d) \/ Unlink(d) \/ Decide(d)
  \/ Info(d) \/ PullBegin(d) \/ CopyTree(d) \/ Snapshot(d) \/ Compare(d)

Next ==
  \/ \E d \in Dirs : Step(d) \/ EnsureStart(d) \/ Restore(d) \/ Connect(d) \/ Kill(d)
  \/ ServeLate \/ NativeChange \/ Drift \/ Lose \/ Timer

Spec == Init /\ [][Next]_vars

-----------------------------------------------------------------------------
(* Properties *)

Arcs == [node : 0..MaxNodes, owner : Dirs \cup {Nobody}, pub : BOOLEAN]
Docs == [owner : Dirs \cup {Nobody}, cur : BOOLEAN, node : 0..MaxNodes, arc : Arcs, gen : BOOLEAN]

\* The types of the variables.
TypeOK ==
  /\ host.node \in 0..host.made /\ host.made <= MaxNodes
  /\ host.owner \in Dirs \cup {Nobody} /\ host.root = (host.owner # Nobody)
  /\ host.pub => host.node # 0 /\ ~host.pend
  /\ host.receipt \in Arcs /\ Content \in Arcs /\ host.from \in Dirs \cup {Nobody}
  /\ lock \in Dirs \cup {Nobody} /\ live \in moments \cup {Never}
  /\ doc \in [Dirs -> Docs] /\ \A d \in Dirs : cmd[d].doc \in Docs /\ kept[d] \in BOOLEAN
  /\ pend \in [Dirs -> {"none", "deploy", "backup"}]

\* Whatever fails or is killed, the archive a committed state.json names is
\* there, complete, of a published node and of the directory's owner.
ReferencedArchive ==
  \A d \in Dirs : doc[d].cur =>
    /\ kept[d]
    /\ doc[d].arc.pub /\ doc[d].arc.owner = doc[d].owner

\* An archive collected from the running node is the node of one moment of
\* the collection, although the node went on changing.
PulledIsOneMoment ==
  [][\A d \in Dirs : cmd[d].at = "compare" /\ cmd'[d].at = "reverify" =>
       cmd[d].copy \in moments]_vars

\* An attachment never makes a directory stand for another node than before.
AttachKeepsNode ==
  [][\A d \in Dirs : cmd[d].flow = "attach" /\ doc[d].cur /\ doc'[d] # doc[d] =>
       doc'[d].arc.node = doc[d].arc.node /\ doc'[d].owner = doc[d].owner]_vars

\* The call that publishes is d's, of its command or of a dead one.
Publishes(d) ==
  /\ host'.pub /\ ~host.pub
  /\ \/ cmd[d].at = "commit" /\ cmd'[d] # cmd[d]
     \/ \E c \in late \ late' : c.by = d

\* A directory that had a node publishes no other one, neither by setup.sh nor
\* by a call its earlier commands left on the way, and no candidate it installed
\* is published by anybody: revoked access stays revoked.
NeverReinstalled ==
  [][\A d \in Dirs : Publishes(d) \/ (host'.pub /\ ~host.pub /\ host.from = d) => ~doc[d].cur]_vars

\* A directory stays with the node it has, whatever setup.sh does for it.
NodeKept == AttachKeepsNode /\ NeverReinstalled

\* A node is published against the off-node backup of that node.
PublishedWasVerified ==
  [][host'.pub /\ ~host.pub => host.receipt.node = host.node]_vars

-----------------------------------------------------------------------------
(* The inductive invariant, from which NodeSetupProofs proves the above. *)

Owners   == Dirs \cup {Nobody}
Flows    == {"none", "ensure", "recover", "plain", "repair", "install", "restore", "attach"}
Labels   == {"idle", "probe", "mark", "own", "remember", "unlink",
             "info", "pull", "copy", "snapshot", "compare"} \cup Calls
Versions == [db : {0, 1}, cert : Nat]
Hosts    == [root : BOOLEAN, owner : Owners, node : 0..MaxNodes, pub : BOOLEAN, pend : BOOLEAN,
             stop : {"no", "stopping", "queued"}, receipt : Arcs, from : Owners,
             made : 0..MaxNodes, drift : BOOLEAN]
Cmds     == [at : Labels, flow : Flows, doc : Docs, node : 0..MaxNodes, arc : Arcs, copy : Versions]
Requests == [op : Calls, flow : Flows, owner : Dirs, arc : Arcs, by : Dirs]

Shapes ==
  /\ host \in Hosts /\ lock \in Owners /\ live \in Versions /\ moments \subseteq Versions
  /\ late \subseteq Requests /\ cmd \in [Dirs -> Cmds] /\ doc \in [Dirs -> Docs]
  /\ pend \in [Dirs -> {"none", "deploy", "backup"}] /\ kept = [d \in Dirs |-> TRUE]

\* What a place is: owned or empty, published or pending.
WholePlace(h) ==
  /\ h.root = (h.owner # Nobody)
  /\ h.node <= h.made
  /\ h.pub => h.node # 0 /\ ~h.pend

\* Which labels a command of each kind goes through.
Routed(x) ==
  LET sent == {"rebackup", "reverify", "remember", "unlink"}
  IN /\ x.flow = "none" => x = Idle
     /\ x.flow = "ensure" => x.at = "probe"
     /\ x.flow = "recover" => x.at \in {"abort", "probe"} \cup sent
     /\ x.flow = "plain" => x.at \in {"remember", "unlink"}
     /\ x.flow = "repair" => x.at \in {"status", "prepare", "mark"} \cup sent
     /\ x.flow \in {"install", "restore"} =>
          x.at \in {"preflight", "mark", "own", "prepare", "backup", "verify", "commit"} \cup sent
     /\ x.flow = "attach" => x.at \in {"info", "pull", "copy", "snapshot", "compare", "reverify", "remember", "unlink"}

\* A document names its owner; a node, the archive's; if committed, an archive
\* of that owner's published node.
Sound(s) ==
  /\ s # NoDoc => s.owner \in Dirs
  /\ s.node # 0 => s.cur /\ s.node = s.arc.node
  /\ s.cur => s.arc.pub /\ s.arc.owner = s.owner

\* What a command relies on, given the document of its directory.
Relies(x, saved) ==
  /\ x.at \notin {"idle", "probe", "info"} => x.doc.owner \in Dirs
  /\ x.at \in {"preflight", "mark", "own"} /\ x.flow # "repair" => ~x.doc.cur /\ x.doc.node = 0
  /\ x.flow \in {"install", "restore"} /\ x.at # "unlink" => ~saved.cur
  /\ x.at \in {"prepare", "backup", "verify", "commit"} /\ x.flow # "repair" => saved # NoDoc
  /\ x.flow \in {"attach", "repair"} /\ x.at # "unlink" => saved = NoDoc \/ saved.cur
  /\ x.flow = "attach" /\ x.at # "unlink" /\ saved.cur => x.doc = saved
  /\ x.flow = "attach" /\ x.at \notin {"info", "unlink"} /\ saved.cur => x.node = saved.arc.node
  /\ x.flow = "attach" /\ x.at \in {"reverify", "remember"} => x.arc.node = x.node

\* A collection holds the operation lock; what was copied is not newer than
\* what is live, and the database was that of a moment not older than the tree.
Collecting ==
  /\ lock = Nobody => live = Never
  /\ live \in moments \cup {Never}
  /\ \A d \in Dirs : cmd[d].at \in {"copy", "snapshot", "compare"} => lock = d /\ live \in moments
  /\ \A d \in Dirs : cmd[d].at = "snapshot" => cmd[d].copy.cert <= live.cert
  /\ \A d \in Dirs : cmd[d].at = "compare" =>
       \E m \in moments : m.db = cmd[d].copy.db /\ cmd[d].copy.cert <= m.cert /\ m.cert <= live.cert

\* A call that can make a fresh candidate, or publish one.
Opening(c) == c.op = "commit" \/ (c.op = "prepare" /\ c.flow = "install")

\* d has no candidate of its own on the host, and will not have one published
\* by a call it left on the way.
Clear(d, h, sent) ==
  /\ ~(h.pend /\ h.node # 0 /\ h.from = d)
  /\ \A c \in sent : c.by = d => ~Opening(c)

\* The directory has a node, or is about to remember the published one.
Past(x, saved) ==
  \/ saved.cur
  \/ /\ x.flow \in {"install", "restore", "recover", "plain"}
     /\ x.at \in {"reverify", "remember"} /\ x.arc.pub

\* Whoever has a node finds it published, or has nothing left on the way and
\* on the host that could be published; nor has who never wrote a document.
Cleared ==
  \A d \in Dirs :
    /\ Past(cmd[d], doc[d]) => host.pub \/ Clear(d, host, late)
    /\ doc[d] = NoDoc => Clear(d, host, late)

IInv ==
  /\ Shapes /\ WholePlace(host)
  /\ \A d \in Dirs : Routed(cmd[d]) /\ Sound(doc[d]) /\ Relies(cmd[d], doc[d])
  /\ Collecting /\ Cleared
=============================================================================
