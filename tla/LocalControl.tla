---------------------------- MODULE LocalControl ----------------------------
(***************************************************************************)
(* The management side of vps/lib/vps.py: several PCs, each with its own   *)
(* state directory, change one host through SSH calls.  A PC writes        *)
(* pending.json before it asks the host for anything it could have to undo *)
(* or to reconcile, and state.json, the authority of every offline export, *)
(* only from the archive of a published state.                             *)
(*                                                                         *)
(* A call to the host is one step, taken under the host's operation lock;  *)
(* HostTransaction models what happens inside.  A call can fail, its reply *)
(* can be lost, and a call whose PC died can still wait for the host's     *)
(* lock and be served after that PC's next call.                           *)
(***************************************************************************)
EXTENDS Naturals, Sequences

CONSTANTS PCs,           \* state directories (machines, or after `connect`)
          Ops,           \* operation identifiers, drawn at random by one PC
          TransportOps,  \* those that upgrade the transport
          MaxFaults      \* how many kills, lost replies and failed steps

ASSUME ControlAssumption ==
  /\ TransportOps \subseteq Ops
  /\ Ops \cap {"base", "none"} = {}
  /\ "nobody" \notin PCs
  /\ MaxFaults \in Nat

NoOp  == "none"
NoVer == "none"
NoPC  == "nobody"

VARIABLES
  hostPending,  \* the host: the phase of its journal and the operation
  verdict,      \* the host: the receipt of each operation
  history,      \* the host: the committed versions, in order
  stopIntent,   \* the host: backup-stop.json exists
  exported,     \* the host: the archive export-sha256 is the digest of
  at,           \* at[p]: where the command that holds p's .lock is
  op,           \* op[p]: the operation it asks for
  got,          \* got[p]: the archive it received last
  pending,      \* pending[p]: pending.json
  saved,        \* saved[p]: the version of the archive state.json names
  outputs,      \* outputs[p]: the version of the files under outputs/
  issuer,       \* issuer[o]: the PC that drew operation o
  late,         \* calls of dead commands that the host may still serve
  faults

hostSide == <<hostPending, verdict, history, stopIntent, exported>>
disk     == <<pending, saved, outputs>>
command  == <<at, op, got>>
vars     == <<hostSide, disk, command, issuer, late, faults>>

Quiet     == [phase |-> "absent", op |-> NoOp]
NoArchive == [by |-> NoPC, ver |-> NoVer, published |-> FALSE]
NoPending == [mode |-> "absent", op |-> NoOp]

\* One published version; the PCs have saved it or are new to the host.
Init ==
  /\ hostPending = Quiet
  /\ verdict = [o \in Ops |-> "open"]
  /\ history = <<"base">>
  /\ stopIntent = FALSE
  /\ exported = NoArchive
  /\ at = [p \in PCs |-> "idle"]
  /\ op = [p \in PCs |-> NoOp]
  /\ got = [p \in PCs |-> NoArchive]
  /\ pending = [p \in PCs |-> NoPending]
  /\ saved \in [PCs -> {"base", NoVer}]
  /\ outputs = saved
  /\ issuer = [o \in Ops |-> NoPC]
  /\ late = {}
  /\ faults = 0

-----------------------------------------------------------------------------
(* The host, one call at a time *)

Published == history[Len(history)]
Content   == IF hostPending.phase = "prepared" THEN hostPending.op ELSE Published
Healthy   == hostPending.phase = "absent" /\ ~stopIntent

\* devices-prepare, transport-prepare.  A transport change starts from the
\* archive of the last export.
Preparable(c) ==
  /\ Healthy
  /\ verdict[c.op] = "open"
  /\ c.op \in TransportOps => exported = c.arc

ServePrepare(c, reply) ==
  /\ UNCHANGED <<history, stopIntent, exported>>
  /\ \/ reply = "failed" /\ ~Preparable(c) /\ UNCHANGED <<hostPending, verdict>>
     \/ /\ Preparable(c)
        /\ \/ /\ reply = "prepared"
              /\ hostPending' = [phase |-> "prepared", op |-> c.op]
              /\ UNCHANGED verdict
           \/ /\ reply = "unchanged"
              /\ verdict' = [verdict EXCEPT ![c.op] = "unchanged"]
              /\ UNCHANGED hostPending
           \/ /\ reply = "failed"
              /\ hostPending' = [phase |-> "restoring", op |-> c.op]
              /\ UNCHANGED verdict

\* (bug) the host accepts whatever archive was exported last.
ServeCommitAny(c, reply) ==
  /\ UNCHANGED <<stopIntent, exported>>
  /\ IF hostPending = [phase |-> "prepared", op |-> c.op] /\ exported # NoArchive
     THEN /\ reply = "committed"
          /\ hostPending' = Quiet
          /\ verdict' = [verdict EXCEPT ![c.op] = "committed"]
          /\ history' = Append(history, c.op)
     ELSE /\ reply = IF verdict[c.op] = "open" THEN "failed" ELSE "committed"
          /\ UNCHANGED <<hostPending, verdict, history>>

\* devices-commit, transport-commit: answered from the receipt, or performed
\* for the prepared operation whose last export the request names.
ServeCommit(c, reply) ==
  /\ UNCHANGED <<stopIntent, exported>>
  /\ IF hostPending = [phase |-> "prepared", op |-> c.op] /\ exported = c.arc
     THEN /\ reply = "committed"
          /\ hostPending' = Quiet
          /\ verdict' = [verdict EXCEPT ![c.op] = "committed"]
          /\ history' = Append(history, c.op)
     ELSE /\ reply = IF verdict[c.op] = "open" THEN "failed" ELSE "committed"
          /\ UNCHANGED <<hostPending, verdict, history>>

\* backup: of the published state, or of a prepared candidate.
ServeBackup(c, reply) ==
  /\ UNCHANGED <<hostPending, verdict, history, stopIntent>>
  /\ IF hostPending.phase \in {"absent", "prepared"} /\ ~stopIntent
     THEN /\ reply = "done"
          /\ exported' = [by |-> c.pc, ver |-> Content,
                          published |-> hostPending.phase = "absent"]
     ELSE reply = "failed" /\ UNCHANGED exported

\* What abort answers once nothing is in progress: an operation is judged by
\* its receipt, a request that names none finds a committed deployment.
Judgement(o) == IF o = NoOp \/ verdict[o] # "open" THEN "committed" ELSE "restored"

\* abort: the first call begins a restoration and only queues services, a
\* later one finds them running.  An operation aborts only its own journal.
ServeAbort(c, reply) ==
  /\ UNCHANGED <<verdict, history, exported>>
  /\ \/ /\ hostPending.phase # "absent" /\ c.op \notin {NoOp, hostPending.op}
        /\ reply = "failed"
        /\ UNCHANGED <<hostPending, stopIntent>>
     \/ /\ hostPending.phase # "absent" /\ c.op \in {NoOp, hostPending.op}
        /\ \/ /\ reply = "queued"
              /\ hostPending' = [hostPending EXCEPT !.phase = "restoring"]
              /\ UNCHANGED stopIntent
           \/ /\ hostPending.phase = "restoring"
              /\ reply = "restored"
              /\ hostPending' = Quiet
              /\ stopIntent' = FALSE
     \/ /\ hostPending.phase = "absent"
        /\ UNCHANGED hostPending
        /\ \/ stopIntent /\ reply = "queued" /\ UNCHANGED stopIntent
           \/ reply = Judgement(c.op) /\ stopIntent' = FALSE

Serve(c, reply) ==
  \/ c.kind = "prepare" /\ ServePrepare(c, reply)
  \/ c.kind = "commit"  /\ ServeCommit(c, reply)
  \/ c.kind = "backup"  /\ ServeBackup(c, reply)
  \/ c.kind = "abort"   /\ ServeAbort(c, reply)

Replies == {"prepared", "unchanged", "failed", "committed", "done", "queued", "restored"}

\* The recovery timer: an expired or interrupted operation is rolled back and
\* an interrupted backup restored.
HostTimer ==
  /\ \/ /\ hostPending.phase \in {"intent", "prepared"}
        /\ hostPending' = [hostPending EXCEPT !.phase = "restoring"]
        /\ UNCHANGED stopIntent
     \/ /\ hostPending.phase = "restoring"
        /\ hostPending' = Quiet
        /\ stopIntent' = FALSE
     \/ /\ hostPending.phase = "absent" /\ stopIntent
        /\ stopIntent' = FALSE
        /\ UNCHANGED hostPending
  /\ UNCHANGED <<verdict, history, exported, disk, command, issuer, late, faults>>

-----------------------------------------------------------------------------
(* Steps of a command *)

Goto(p, label) == at' = [at EXCEPT ![p] = label]
From(p, here, there) == at[p] = here /\ Goto(p, there)

\* The command ends, with an error or not, and releases .lock.
End(p) == /\ Goto(p, "idle")
          /\ op' = [op EXCEPT ![p] = NoOp]
          /\ got' = [got EXCEPT ![p] = NoArchive]

SetPending(p, mode, o) == pending' = [pending EXCEPT ![p] = [mode |-> mode, op |-> o]]

\* The call a command makes where it is.
CallLabels == [c_before |-> "backup", c_prepare |-> "prepare", c_candidate |-> "backup",
               c_commit |-> "commit", a_backup |-> "backup", k_backup |-> "backup",
               r_abort |-> "abort", r_backup |-> "backup"]
Calling(p) == at[p] \in DOMAIN CallLabels
Call(p) == [kind |-> CallLabels[at[p]], pc |-> p, arc |-> got[p],
            op |-> IF at[p] = "r_abort" THEN pending[p].op ELSE op[p]]

\* devices, deploy_existing: a change, or (NoOp) a refresh of an unchanged
\* node; refused while pending.json exists.
Begin(p, o) ==
  /\ From(p, "idle", "c_status")
  /\ pending[p] = NoPending
  /\ saved[p] # NoVer
  /\ \/ o = NoOp /\ UNCHANGED issuer
     \/ o \in Ops /\ issuer[o] = NoPC /\ issuer' = [issuer EXCEPT ![o] = p]
  /\ op' = [op EXCEPT ![p] = o]
  /\ UNCHANGED <<hostSide, disk, got, late, faults>>

\* status answers for a healthy host without open journals only.
Status(p) ==
  /\ at[p] \in {"c_status", "a_status", "r_status"}
  /\ IF Healthy
     THEN /\ Goto(p, CASE at[p] = "c_status" -> "c_mark"
                       [] at[p] = "a_status" -> "m_outputs"
                       [] at[p] = "r_status" -> "r_backup")
          /\ UNCHANGED <<op, got>>
     ELSE End(p)
  /\ UNCHANGED <<hostSide, disk, issuer, late, faults>>

\* backup_remote without a pending.json writes one of its own ...
MarkBackup(p) ==
  /\ From(p, "c_mark", "c_before")
  /\ SetPending(p, "backup", NoOp)
  /\ UNCHANGED <<hostSide, saved, outputs, op, got, issuer, late, faults>>

\* ... and removes it when the archive is complete.
ClearBackup(p) ==
  /\ From(p, "c_clear", IF op[p] = NoOp THEN "a_outputs" ELSE "c_pending")
  /\ pending' = [pending EXCEPT ![p] = NoPending]
  /\ UNCHANGED <<hostSide, saved, outputs, op, got, issuer, late, faults>>

WritePending(p) ==
  /\ From(p, "c_pending", "c_prepare")
  /\ SetPending(p, "change", op[p])
  /\ UNCHANGED <<hostSide, saved, outputs, op, got, issuer, late, faults>>

\* backup: pending.json first, then the archive, its outputs and state.json.
BeginBackup(p) ==
  /\ From(p, "idle", "k_backup")
  /\ pending[p] = NoPending
  /\ saved[p] # NoVer
  /\ SetPending(p, "backup", NoOp)
  /\ UNCHANGED <<hostSide, saved, outputs, op, got, issuer, late, faults>>

\* recover: of what pending.json says, or of an interrupted remote backup.
BeginRecover(p) ==
  /\ From(p, "idle", "r_abort")
  /\ IF pending[p] = NoPending
     THEN saved[p] # NoVer /\ SetPending(p, "backup", NoOp)
     ELSE UNCHANGED pending
  /\ UNCHANGED <<hostSide, saved, outputs, op, got, issuer, late, faults>>

\* connect: pulls an archive of the published state without a backup.
BeginConnect(p) ==
  /\ From(p, "idle", "n_pull")
  /\ pending[p] = NoPending
  /\ UNCHANGED <<hostSide, disk, op, got, issuer, late, faults>>

Pull(p) ==
  /\ at[p] = "n_pull"
  /\ IF Healthy
     THEN /\ Goto(p, "n_outputs")
          /\ got' = [got EXCEPT ![p] = [by |-> p, ver |-> Published, published |-> TRUE]]
          /\ UNCHANGED op
     ELSE End(p)
  /\ UNCHANGED <<hostSide, disk, issuer, late, faults>>

\* (bug) recover drops the journal whenever the reply is not "committed".
AfterReplyHasty(p, reply) ==
  CASE reply = "failed"    -> "idle"
    [] reply = "prepared"  -> "c_candidate"
    [] reply = "unchanged" -> "a_backup"
    [] reply \in {"restored", "queued"} -> "r_unlink"
    [] reply = "committed" -> IF at[p] = "c_commit" THEN "a_backup"
                              ELSE IF pending[p].mode = "backup" THEN "k_backup"
                              ELSE "r_status"
    [] reply = "done"      -> CASE at[p] = "c_before"    -> "c_clear"
                                [] at[p] = "c_candidate" -> "c_outputs"
                                [] at[p] = "a_backup"    -> "a_outputs"
                                [] at[p] = "r_backup"    -> "r_outputs"
                                [] at[p] = "k_backup"    -> "k_outputs"

\* Where the reply of the call leads; an error or a queued recovery ends the
\* command and leaves pending.json.
AfterReply(p, reply) ==
  CASE reply \in {"failed", "queued"} -> "idle"
    [] reply = "prepared"  -> "c_candidate"
    [] reply = "unchanged" -> "a_backup"
    [] reply = "restored"  -> "r_unlink"
    [] reply = "committed" -> IF at[p] = "c_commit" THEN "a_backup"
                              ELSE IF pending[p].mode = "backup" THEN "k_backup"
                              ELSE "r_status"
    [] reply = "done"      -> CASE at[p] = "c_before"    -> "c_clear"
                                [] at[p] = "c_candidate" -> "c_outputs"
                                [] at[p] = "a_backup"    -> "a_outputs"
                                [] at[p] = "r_backup"    -> "r_outputs"
                                [] at[p] = "k_backup"    -> "k_outputs"

\* A call that is served and answered.
Remote(p) ==
  /\ Calling(p)
  /\ \E reply \in Replies :
       /\ Serve(Call(p), reply)
       /\ IF AfterReply(p, reply) = "idle"
          THEN End(p)
          ELSE /\ Goto(p, AfterReply(p, reply))
               /\ got' = IF reply = "done" THEN [got EXCEPT ![p] = exported'] ELSE got
               /\ UNCHANGED op
  /\ UNCHANGED <<disk, issuer, late, faults>>

\* validate_outputs: what the host serves now agrees with the archive.
OutputsAgree(p) == hostPending.phase \in {"absent", "prepared"} /\ Content = got[p].ver

Validate(p) ==
  /\ at[p] \in {"c_outputs", "a_outputs", "r_outputs", "n_outputs"}
  /\ IF OutputsAgree(p)
     THEN /\ Goto(p, CASE at[p] = "c_outputs" -> "c_commit"
                       [] at[p] = "a_outputs" -> "a_status"
                       [] at[p] \in {"r_outputs", "n_outputs"} -> "m_outputs")
          /\ UNCHANGED <<op, got>>
     ELSE End(p)
  /\ UNCHANGED <<hostSide, disk, issuer, late, faults>>

\* (bug) the archive is not required to be of a published state.
Usable(p) == got[p] # NoArchive

\* remember_commit and backup_committed accept a published archive only.
PublishedArchive(p) == got[p].published

\* backup_committed: without valid outputs the backup still counts, and the
\* offline snapshot is withdrawn.
ValidateBackup(p, valid) ==
  /\ at[p] = "k_outputs"
  /\ IF ~PublishedArchive(p)
     THEN End(p) /\ UNCHANGED outputs
     ELSE /\ Goto(p, IF valid THEN "m_outputs" ELSE "m_state")
          /\ valid => OutputsAgree(p)
          /\ outputs' = IF valid THEN outputs ELSE [outputs EXCEPT ![p] = NoVer]
          /\ UNCHANGED <<op, got>>
  /\ UNCHANGED <<hostSide, pending, saved, issuer, late, faults>>

\* sync_outputs: the convenience files first ...
RememberOutputs(p) ==
  /\ at[p] = "m_outputs"
  /\ IF PublishedArchive(p)
     THEN /\ Goto(p, "m_state")
          /\ outputs' = [outputs EXCEPT ![p] = got[p].ver]
          /\ UNCHANGED <<op, got>>
     ELSE End(p) /\ UNCHANGED outputs
  /\ UNCHANGED <<hostSide, pending, saved, issuer, late, faults>>

\* (bug) state.json names who exported the archive instead of its content.
RememberArchive(p) ==
  /\ From(p, "m_state", "m_unlink")
  /\ saved' = [saved EXCEPT ![p] = got[p].by]
  /\ UNCHANGED <<hostSide, pending, outputs, op, got, issuer, late, faults>>

\* ... then the authority ...
RememberState(p) ==
  /\ From(p, "m_state", "m_unlink")
  /\ saved' = [saved EXCEPT ![p] = got[p].ver]
  /\ UNCHANGED <<hostSide, pending, outputs, op, got, issuer, late, faults>>

\* (bug) only a committed operation clears pending.json.
UnlinkCommitted(p) ==
  /\ at[p] \in {"m_unlink", "r_unlink"}
  /\ pending' = IF at[p] = "m_unlink" THEN [pending EXCEPT ![p] = NoPending] ELSE pending
  /\ End(p)
  /\ UNCHANGED <<hostSide, saved, outputs, issuer, late, faults>>

\* ... and only then is there nothing left to reconcile.
Unlink(p) ==
  /\ at[p] \in {"m_unlink", "r_unlink"}
  /\ pending' = [pending EXCEPT ![p] = NoPending]
  /\ End(p)
  /\ UNCHANGED <<hostSide, saved, outputs, issuer, late, faults>>

-----------------------------------------------------------------------------
(* Faults *)

Fault == faults < MaxFaults /\ faults' = faults + 1

\* The command dies or gives up on a local error.
Kill(p) ==
  /\ Fault
  /\ at[p] # "idle"
  /\ End(p)
  /\ UNCHANGED <<hostSide, disk, issuer, late>>

\* It dies in a call, which the host has yet to serve.
Orphan(p) ==
  /\ Fault
  /\ Calling(p)
  /\ End(p)
  /\ late' = late \cup {Call(p)}
  /\ UNCHANGED <<hostSide, disk, issuer>>

ServeLate(c) ==
  /\ c \in late
  /\ late' = late \ {c}
  /\ \E reply \in Replies : Serve(c, reply)
  /\ UNCHANGED <<disk, command, issuer, faults>>

\* The process on the host dies inside a prepare or a backup.
HostDies(p) ==
  /\ Fault
  /\ Calling(p)
  /\ LET c == Call(p) IN
     \/ /\ c.kind = "prepare" /\ Preparable(c)
        /\ hostPending' = [phase |-> "intent", op |-> c.op]
        /\ UNCHANGED <<stopIntent, exported>>
     \/ /\ c.kind = "backup"
        /\ hostPending.phase \in {"absent", "prepared"} /\ ~stopIntent
        /\ stopIntent' = TRUE
        /\ exported' \in {exported, [by |-> p, ver |-> Content,
                                     published |-> hostPending.phase = "absent"]}
        /\ UNCHANGED hostPending
  /\ End(p)
  /\ UNCHANGED <<verdict, history, disk, issuer, late>>

\* A late reader or a broken local core makes the validation of a backup fail.
CoreFails(p) == Fault /\ at[p] = "k_outputs" /\ PublishedArchive(p)
                /\ Goto(p, "m_state") /\ outputs' = [outputs EXCEPT ![p] = NoVer]
                /\ UNCHANGED <<hostSide, pending, saved, op, got, issuer, late>>

-----------------------------------------------------------------------------
Operator(p) ==
  \/ \E o \in Ops \cup {NoOp} : Begin(p, o)
  \/ BeginBackup(p) \/ BeginRecover(p) \/ BeginConnect(p)

Command(p) ==
  \/ Status(p) \/ MarkBackup(p) \/ ClearBackup(p) \/ WritePending(p) \/ Pull(p)
  \/ Remote(p) \/ Validate(p) \/ ValidateBackup(p, TRUE)
  \/ ValidateBackup(p, FALSE) /\ ~OutputsAgree(p)
  \/ RememberOutputs(p) \/ RememberState(p) \/ Unlink(p)

Faulty(p) == Kill(p) \/ Orphan(p) \/ HostDies(p) \/ CoreFails(p)

Next == \/ \E p \in PCs : Operator(p) \/ Command(p) \/ Faulty(p)
        \/ \E c \in late : ServeLate(c)
        \/ HostTimer

\* Commands go on, the host's timer ticks, waiting calls are served, and an
\* operator who is left with a pending.json runs recover again.
Fairness ==
  /\ \A p \in PCs : WF_vars(Command(p)) /\ SF_vars(BeginRecover(p) /\ pending[p] # NoPending)
  /\ WF_vars(HostTimer)
  /\ WF_vars(\E c \in late : ServeLate(c))

Spec     == Init /\ [][Next]_vars
FairSpec == Spec /\ Fairness

-----------------------------------------------------------------------------
(* Properties *)

Versions == Ops \cup {"base"}
Archives == [by : PCs \cup {NoPC}, ver : Versions \cup {NoVer}, published : BOOLEAN]
Labels   == {"idle", "c_status", "c_mark", "c_before", "c_clear", "c_pending",
             "c_prepare", "c_candidate", "c_outputs", "c_commit", "a_backup",
             "a_outputs", "a_status", "k_backup", "k_outputs", "r_abort", "r_status",
             "r_backup", "r_outputs", "r_unlink", "n_pull", "n_outputs", "m_outputs",
             "m_state", "m_unlink"}

\* Type correctness of the host's and the PCs' state.
TypeOK ==
  /\ hostPending \in [phase : {"absent", "intent", "prepared", "restoring"},
                      op : Ops \cup {NoOp}]
  /\ verdict \in [Ops -> {"open", "unchanged", "committed"}]
  /\ history \in Seq(Versions) /\ history # <<>>
  /\ stopIntent \in BOOLEAN
  /\ exported \in Archives
  /\ at \in [PCs -> Labels]
  /\ op \in [PCs -> Ops \cup {NoOp}]
  /\ got \in [PCs -> Archives]
  /\ pending \in [PCs -> [mode : {"absent", "backup", "change"}, op : Ops \cup {NoOp}]]
  /\ saved \in [PCs -> Versions \cup {NoVer}]
  /\ outputs \in [PCs -> Versions \cup {NoVer}]
  /\ issuer \in [Ops -> PCs \cup {NoPC}]
  /\ late \subseteq [kind : {"backup", "prepare", "commit", "abort"}, pc : PCs,
                     arc : Archives, op : Ops \cup {NoOp}]
  /\ faults \in 0..MaxFaults

\* v is a committed version, at place i or later.
CommittedFrom(i, v) == \E j \in i..Len(history) : history[j] = v

\* What a PC exports offline was published once: neither the archive of
\* another PC's candidate nor its profiles ever become authority.
SavedWasPublished ==
  \A p \in PCs : \A v \in {saved[p], outputs[p]} : v = NoVer \/ CommittedFrom(1, v)

\* An operation that committed is never forgotten: until the PC that began it
\* has saved that version or a later one, its pending.json names it.
NothingForgotten ==
  \A o \in Ops : verdict[o] = "committed" =>
    LET p == issuer[o] IN
    \/ pending[p] = [mode |-> "change", op |-> o]
    \/ \E i \in 1..Len(history) : history[i] = o /\ CommittedFrom(i, saved[p])

\* What is saved was published, and what was published gets saved.
SavedIsPublished == SavedWasPublished /\ NothingForgotten

\* An operation commits at the export its own PC made of its own candidate,
\* whatever other PCs exported in between.
CommitsOwnArchive ==
  [][\A o \in Ops : verdict[o] # "committed" /\ verdict'[o] = "committed" =>
       exported = [by |-> issuer[o], ver |-> o, published |-> FALSE]]_vars

\* pending.json goes away in the end if its operator keeps running recover.
PendingReconciles == \A p \in PCs : pending[p] # NoPending ~> pending[p] = NoPending

-----------------------------------------------------------------------------
(* The inductive invariant: why what is saved was published and nothing    *)
(* that was published is forgotten.                                        *)

Past     == {history[j] : j \in 1..Len(history)}
\* The versions from the publication of operation o on.
After(o) == {history[j] : j \in {j \in 1..Len(history) : \E i \in 1..j : history[i] = o}}

Changes == {"prepare", "commit"}
Reading == {"c_clear", "a_outputs", "a_status", "k_outputs", "r_outputs", "n_outputs",
            "m_outputs", "m_state"}

\* The journal of the host is of an operation that is still open, and what
\* committed is history.
Hosted ==
  /\ IF hostPending.phase = "absent" THEN hostPending.op = NoOp
     ELSE hostPending.op \in Ops /\ verdict[hostPending.op] = "open"
  /\ \A o \in Ops : verdict[o] = "committed" => o \in Past
  /\ exported.published => exported.ver \in Past

\* Everything about an operation comes from the PC that drew it.
Drawn ==
  /\ \A p \in PCs : /\ op[p] # NoOp => issuer[op[p]] = p
                    /\ pending[p].op # NoOp => issuer[pending[p].op] = p
  /\ \A o \in Ops : verdict[o] # "open" \/ hostPending.op = o => issuer[o] \in PCs
  /\ \A c \in late : c.kind \in Changes => c.op \in Ops /\ issuer[c.op] = c.pc

\* A command in progress has no call of its operation behind its back, and a
\* dead one left one at most.
Once ==
  /\ \A p \in PCs, c \in late : op[p] # NoOp /\ c.kind \in Changes => c.op # op[p]
  /\ \A c, e \in late : c.kind \in Changes /\ e.kind \in Changes /\ c.op = e.op => c = e

\* What a command knows where it is: what pending.json says, and whether the
\* host has judged the operation of it.
Decided(p) == pending[p].mode = "change" => verdict[pending[p].op] # "open"
Where ==
  \A p \in PCs :
    /\ pending[p].op # NoOp <=> pending[p].mode = "change"
    /\ at[p] = "idle" => op[p] = NoOp
    /\ at[p] \in {"c_status", "c_mark", "c_pending", "n_pull", "n_outputs"} => pending[p] = NoPending
    /\ at[p] \in {"c_before", "c_clear", "k_backup", "k_outputs"} => pending[p].mode = "backup"
    /\ at[p] \in {"c_pending", "c_prepare", "c_candidate", "c_outputs", "c_commit", "a_backup"} => op[p] # NoOp
    /\ at[p] \in {"c_prepare", "c_candidate", "c_outputs", "c_commit"} =>
         pending[p] = [mode |-> "change", op |-> op[p]]
    /\ at[p] \in {"a_backup", "a_outputs", "a_status", "r_status", "r_backup", "r_outputs",
                  "m_outputs", "m_state", "m_unlink"} => Decided(p)
    /\ at[p] \in {"r_abort", "r_unlink"} => pending[p] # NoPending
    /\ at[p] = "r_unlink" /\ pending[p].op # NoOp => verdict[pending[p].op] # "committed"

\* A commit that is on its way, late or soon: by p, of operation o.
Coming(p, o) ==
  \/ op[p] = o /\ at[p] \in {"c_candidate", "c_outputs", "c_commit"}
  \/ \E c \in late : c.kind = "commit" /\ c.op = o /\ c.pc = p

\* While the host holds a candidate and its commit is on its way, its PC has
\* the operation in pending.json and is not about to drop it ...
Revocable ==
  \A p \in PCs, o \in Ops : hostPending.op = o /\ Coming(p, o) =>
    pending[p] = [mode |-> "change", op |-> o] /\ at[p] # "r_unlink"

\* ... and the archive the commit names is of this candidate.
Own(p, o) == [by |-> p, ver |-> o, published |-> FALSE]
Named ==
  hostPending.phase = "prepared" =>
    /\ \A p \in PCs : op[p] = hostPending.op /\ at[p] \in {"c_outputs", "c_commit"} =>
         got[p] = Own(p, hostPending.op)
    /\ \A c \in late : c.kind = "commit" /\ c.op = hostPending.op =>
         c.arc = Own(c.pc, hostPending.op)

\* An archive of a published state is as new as all that its PC committed
\* until it was asked for.
Archived ==
  \A p \in PCs :
    /\ got[p].published => got[p].ver \in Past
    /\ at[p] = "m_state" => got[p].published
    /\ \A o \in Ops : verdict[o] = "committed" /\ issuer[o] = p =>
         /\ at[p] \in Reading /\ got[p].published => got[p].ver \in After(o)
         /\ at[p] = "m_unlink" => saved[p] \in After(o)

\* What state.json and the outputs name was published, and is as new as all
\* that the PC committed and no longer has in pending.json.
Kept ==
  /\ \A p \in PCs : {saved[p], outputs[p]} \subseteq Past \cup {NoVer}
  /\ \A o \in Ops : verdict[o] = "committed" =>
       pending[issuer[o]] = [mode |-> "change", op |-> o] \/ saved[issuer[o]] \in After(o)

IInv == TypeOK /\ Hosted /\ Drawn /\ Once /\ Where /\ Revocable /\ Named /\ Archived /\ Kept
=============================================================================
