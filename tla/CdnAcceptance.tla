---------------------------- MODULE CdnAcceptance ----------------------------
(***************************************************************************)
(* The acceptance of a CDN transport (vps.py cdn, cdn_probe.py, host.py    *)
(* transport-auth-begin, -auth-finish, -commit and the recovery of such a  *)
(* transaction): one state directory, one node.                            *)
(*                                                                         *)
(* The candidate is proved by live connections through the CDN.  That a    *)
(* wrong credential is refused is not believed because a connection broke: *)
(* the host turns the native core's log on (begin), the PC connects with a *)
(* nonce in the place of the account, and the host looks for exactly that  *)
(* nonce in the log before it restores the core (finish).                  *)
(*                                                                         *)
(* The witness and the publication are taken step by step, for the host    *)
(* process may die in between; the other calls, HostTransaction's subject, *)
(* are one step each.  A nonce is named by its operation, which draws one; *)
(* an archive by its content and by its side of the diagnostic.            *)
(***************************************************************************)
EXTENDS Naturals

CONSTANTS MaxOps,     \* attempts, each with an operation id of its own
          MaxEdits,   \* changes an administrator makes in the native panel
          MaxFaults   \* kills, terminations, lost replies and restarts of the core

ASSUME CdnAssumption == MaxOps \in Nat \ {0} /\ MaxEdits \in Nat /\ MaxFaults \in Nat

VARIABLES
  host,     \* what runs under ROOT, with the native template and its log file
  journal,  \* pending.json of the host
  receipt,  \* receipt[o]: the committed receipt of o, or NoReceipt
  act,      \* the call that holds the host's operation lock
  cmd,      \* the command that holds the state directory's lock
  pend,     \* pending.json of the PC
  proofs,   \* proofs[o]: the archive cdn-proofs/o.json is about (NoArc: no file)
  cloud,    \* whether Cloudflare proxies the CDN hostname ("orange") or not
  doc,      \* the CDN operation state.json records, 0 without
  late,     \* calls whose caller is gone
  made,     \* operation ids drawn
  faults

remoteSide == <<host, journal, receipt, act>>
disk == <<pend, proofs, doc>>
vars == <<remoteSide, cmd, disk, cloud, late, made, faults>>

Ops == 1 .. MaxOps
NoArc == [op |-> 0, pub |-> FALSE, ident |-> 0, template |-> "none", after |-> FALSE]
NoJournal == [op |-> 0, phase |-> "none", lease |-> FALSE, base |-> 0,
              auth |-> "none", seen |-> 0, same |-> FALSE, verdict |-> FALSE]
NoReceipt == [arc |-> NoArc, ident |-> 0, sound |-> FALSE]
NoCall == [is |-> "none", op |-> 0, arc |-> NoArc, proof |-> NoArc]
NoAct  == [call |-> NoCall, from |-> "none", at |-> "free"]
NoPend == [op |-> 0, arc |-> NoArc, proof |-> NoArc]
Answer(is, arc) == [is |-> is, arc |-> arc]
Nothing == Answer("none", NoArc)
Out     == Answer("out", NoArc)
Inside  == Answer("in", NoArc)
Idle == [at |-> "idle", op |-> 0, got |-> Nothing, a |-> NoArc, arc |-> NoArc,
         proof |-> NoArc, proxied |-> FALSE, again |-> FALSE, term |-> FALSE]

\* op: the operation whose CDN candidate is in place (0: the source transport);
\* sound: its core refuses unknown users (a property nobody knows beforehand);
\* ident: version of the native accounts and policies.
Init ==
  /\ host = [op |-> 0, pub |-> TRUE, ident |-> 0, template |-> "original", core |-> "quiet",
             sound |-> FALSE, dir |-> FALSE, file |-> FALSE, line |-> FALSE, export |-> NoArc]
  /\ journal = NoJournal /\ receipt = [o \in Ops |-> NoReceipt] /\ act = NoAct
  /\ cmd = Idle /\ pend = NoPend /\ proofs = [o \in Ops |-> NoArc] /\ doc = 0
  /\ cloud \in {"gray", "orange"}
  /\ late = {} /\ made = 0 /\ faults = 0

IsCommitted(o) == o \in Ops /\ receipt[o] # NoReceipt
Spend == faults < MaxFaults /\ faults' = faults + 1

-----------------------------------------------------------------------------
(* Calls: which label of the command waits for which.                      *)

CallLabels == {"before", "prepare", "first", "begin", "finish", "final", "commit", "after", "abort"}

Kind(label) == IF label \in {"before", "first", "final", "after"} THEN "backup" ELSE label
Request == [is |-> Kind(cmd.at), op |-> cmd.op, arc |-> cmd.arc, proof |-> cmd.proof]

\* A call reaches the host when the operation lock is free.
Arrives(c, from) ==
  /\ act = NoAct
  /\ \/ from = "pc" /\ cmd.got = Out /\ c = Request
     \/ from = "late" /\ c \in late

Received(from, got, c) ==
  /\ cmd' = IF from = "pc" THEN [cmd EXCEPT !.got = got] ELSE cmd
  /\ late' = IF from = "late" THEN late \ {c} ELSE late
  /\ UNCHANGED <<disk, made>>

\* A call answered in the step in which it arrives.
Answered(c, from, got) == act' = NoAct /\ Received(from, got, c) /\ UNCHANGED faults
\* One that goes on at a label, keeping the lock.
Enters(c, from, label) ==
  /\ act' = [call |-> c, from |-> from, at |-> label]
  /\ Received(from, Inside, c) /\ UNCHANGED faults
Goes(label) == act' = [act EXCEPT !.at = label] /\ UNCHANGED <<cmd, disk, late, made, faults>>
Ends(got) == /\ act' = NoAct /\ Received(act.from, got, act.call) /\ UNCHANGED faults
At(kind, label) == act.call.is = kind /\ act.at = label
Error == Answer("error", NoArc)

-----------------------------------------------------------------------------
(* The host: preparation and export, one step each.                        *)

Prepare(c, from) ==
  /\ Arrives(c, from) /\ c.is = "prepare"
  /\ \/ /\ receipt[c.op] # NoReceipt
        /\ Answered(c, from, Answer("committed", receipt[c.op].arc)) /\ UNCHANGED <<host, journal>>
     \/ /\ receipt[c.op] = NoReceipt /\ journal # NoJournal
        /\ Answered(c, from, IF journal.op = c.op /\ journal.lease /\ journal.phase = "prepared"
                             THEN Answer("prepared", NoArc) ELSE Error)
        /\ UNCHANGED <<host, journal>>
     \/ /\ receipt[c.op] = NoReceipt /\ journal = NoJournal
        /\ host.export = c.arc /\ host.op = 0
        /\ \E ok, sound \in BOOLEAN :
             /\ journal' = [NoJournal EXCEPT !.op = c.op, !.phase = IF ok THEN "prepared" ELSE "restored",
                                             !.lease = TRUE, !.base = host.ident]
             /\ host' = IF ok THEN [host EXCEPT !.op = c.op, !.pub = FALSE, !.sound = sound] ELSE host
             /\ Answered(c, from, IF ok THEN Answer("prepared", NoArc) ELSE Error)
     \/ /\ receipt[c.op] = NoReceipt /\ journal = NoJournal /\ (host.export # c.arc \/ host.op # 0)
        /\ Answered(c, from, Error) /\ UNCHANGED <<host, journal>>
  /\ UNCHANGED receipt

\* (bug) the archive is taken whatever the diagnostic is doing.
ExportableAny == journal = NoJournal \/ journal.phase = "prepared"

\* Neither an unfinished transaction nor a running diagnostic enters an archive.
Exportable ==
  \/ journal = NoJournal
  \/ journal.phase = "prepared" /\ journal.auth \in {"none", "restored"}

Backup(c, from) ==
  /\ Arrives(c, from) /\ c.is = "backup"
  /\ IF Exportable
     THEN LET arc == [op |-> host.op, pub |-> host.pub, ident |-> host.ident,
                      template |-> host.template, after |-> journal.auth = "restored"]
          IN host' = [host EXCEPT !.export = arc] /\ Answered(c, from, Answer("archive", arc))
     ELSE Answered(c, from, Error) /\ UNCHANGED host
  /\ UNCHANGED <<journal, receipt>>

-----------------------------------------------------------------------------
(* The witness: transport-auth-begin.  Every failure of it, an expired     *)
(* lease or a native state that changed among them, leads to recovery.     *)

\* auth_core_epoch: the core is the process it was when the log went on.
SameCore == journal.same

\* The native state is the one recorded when the diagnostic was armed.
NativeSame == host.ident = journal.seen

Bound(c) == journal.op = c.op /\ journal.phase = "prepared" /\ host.op = c.op

Begin(c, from) ==
  /\ Arrives(c, from) /\ c.is = "begin"
  /\ \/ ~Bound(c) /\ Answered(c, from, Error) /\ UNCHANGED journal
     \/ /\ Bound(c) /\ journal.lease /\ journal.auth = "none"
        /\ journal' = [journal EXCEPT !.auth = "arming", !.seen = host.ident]
        /\ Enters(c, from, "file")
     \/ /\ Bound(c) /\ journal.auth = "active" /\ journal.lease
        /\ SameCore /\ NativeSame
        /\ Answered(c, from, Answer("nonce", NoArc)) /\ UNCHANGED journal
     \/ /\ Bound(c)
        /\ ~journal.lease \/ journal.auth \notin {"none", "active"}
           \/ (journal.auth = "active" /\ (~SameCore \/ ~NativeSame))
        /\ Enters(c, from, "recover") /\ UNCHANGED journal
  /\ UNCHANGED <<host, receipt>>

\* The directory and its log file, one step: the file is never looked at before
\* the core starts, and the cleanup removes each of the two if it is there.
BeginFile ==
  /\ At("begin", "file")
  /\ host' = [host EXCEPT !.dir = TRUE, !.file = TRUE] /\ Goes("stop")
  /\ UNCHANGED <<journal, receipt>>

BeginStop ==
  /\ At("begin", "stop") /\ journal.lease
  /\ host' = [host EXCEPT !.core = "off"] /\ Goes("template")
  /\ UNCHANGED <<journal, receipt>>

BeginTemplate ==
  /\ At("begin", "template") /\ journal.lease
  /\ host' = [host EXCEPT !.template = "witness"] /\ Goes("start")
  /\ UNCHANGED <<journal, receipt>>

BeginStart ==
  /\ At("begin", "start")
  /\ host' = [host EXCEPT !.core = "logging"] /\ Goes("active")
  /\ UNCHANGED <<journal, receipt>>

BeginActive ==
  /\ At("begin", "active") /\ NativeSame /\ journal.lease
  /\ journal' = [journal EXCEPT !.auth = "active", !.same = TRUE]
  /\ Ends(Answer("nonce", NoArc))
  /\ UNCHANGED <<host, receipt>>

\* `except BaseException: recover(force=True)`.
BeginRaise ==
  /\ act.call.is = "begin" /\ act.at \in {"file", "stop", "template", "start", "active"}
  /\ Goes("recover")
  /\ UNCHANGED <<host, journal, receipt>>

-----------------------------------------------------------------------------
(* The witness: transport-auth-finish.                                     *)

\* auth_commit_verdict: a verdict, and nothing left of the diagnostic.
VerdictStands ==
  /\ journal.auth = "restored" /\ journal.verdict
  /\ ~host.dir /\ ~host.file /\ host.template = "original"
  /\ NativeSame

Finish(c, from) ==
  /\ Arrives(c, from) /\ c.is = "finish"
  /\ \/ /\ ~Bound(c) \/ journal.auth = "none" \/ (journal.auth = "restored" /\ journal.lease)
        /\ Answered(c, from, IF Bound(c) /\ VerdictStands THEN Answer("verdict", NoArc) ELSE Error)
        /\ UNCHANGED host
     \/ /\ Bound(c) /\ journal.auth # "none" /\ ~journal.lease
        /\ Enters(c, from, "recover") /\ UNCHANGED host
     \/ /\ Bound(c) /\ journal.auth \in {"arming", "active", "restoring"} /\ journal.lease
        /\ host' = [host EXCEPT !.core = "off"]
        /\ Enters(c, from, "read")
  /\ UNCHANGED <<journal, receipt>>

\* (bug) that the connection was refused is taken for the verdict.
WitnessedAny == journal.auth = "active"

\* The same core process wrote exactly this nonce.
Witnessed == journal.auth = "active" /\ SameCore /\ host.file /\ host.line

\* The writer is closed: read what it wrote, then restore, whatever was read.
FinishRead ==
  /\ At("finish", "read")
  /\ journal' = [journal EXCEPT !.auth = "restoring", !.verdict = Witnessed]
  /\ Goes("restore")
  /\ UNCHANGED <<host, receipt>>

FinishRestore ==
  /\ At("finish", "restore")
  /\ host' = [host EXCEPT !.template = "original"] /\ Goes("restart")
  /\ UNCHANGED <<journal, receipt>>

FinishRestart ==
  /\ At("finish", "restart") /\ journal.lease
  /\ host' = [host EXCEPT !.core = "quiet"] /\ Goes("clean")
  /\ UNCHANGED <<journal, receipt>>

\* (bug) the setting is removed with the log it names.
CleanedAll(h) == [h EXCEPT !.dir = FALSE, !.file = FALSE, !.line = FALSE, !.template = "none"]

Cleaned(h) == [h EXCEPT !.dir = FALSE, !.file = FALSE, !.line = FALSE]

FinishClean ==
  /\ At("finish", "clean") /\ NativeSame /\ journal.lease
  /\ host' = Cleaned(host) /\ Goes("forget")
  /\ UNCHANGED <<journal, receipt>>

\* The archive taken before the diagnostic is never the one that is committed.
FinishForget ==
  /\ At("finish", "forget")
  /\ host' = [host EXCEPT !.export = NoArc] /\ Goes("restored")
  /\ UNCHANGED <<journal, receipt>>

FinishRestored ==
  /\ At("finish", "restored")
  /\ journal' = [journal EXCEPT !.auth = "restored"]
  /\ Ends(IF journal.verdict THEN Answer("verdict", NoArc) ELSE Error)
  /\ UNCHANGED <<host, receipt>>

\* The log is not what it was and stays: the diagnostic counts as unfinished.
FinishKeep ==
  /\ At("finish", "clean") /\ NativeSame /\ journal.lease
  /\ host' = [host EXCEPT !.export = NoArc]
  /\ Ends(Error)
  /\ UNCHANGED <<journal, receipt>>

\* A failure in between leaves everything to the recovery of the caller.
FinishRaise ==
  /\ act.call.is = "finish" /\ act.at \in {"restore", "restart", "clean"}
  /\ Ends(Error)
  /\ UNCHANGED <<host, journal, receipt>>

-----------------------------------------------------------------------------
(* transport-commit and the recovery.                                      *)

ValidProof(c) == c.proof = c.arc

Committable(c) ==
  /\ Bound(c) /\ journal.lease /\ host.export = c.arc
  /\ ValidProof(c) /\ VerdictStands

Commit(c, from) ==
  /\ Arrives(c, from) /\ c.is = "commit"
  /\ \/ /\ receipt[c.op] # NoReceipt
        /\ Answered(c, from, IF ValidProof(c) /\ receipt[c.op].arc = c.arc
                             THEN Answer("committed", c.arc) ELSE Error)
     \/ receipt[c.op] = NoReceipt /\ Committable(c) /\ Enters(c, from, "publish")
     \/ receipt[c.op] = NoReceipt /\ ~Committable(c) /\ Answered(c, from, Error)
  /\ UNCHANGED <<host, journal, receipt>>

CommitPublish ==
  /\ At("commit", "publish") /\ journal.lease
  /\ host' = [host EXCEPT !.pub = TRUE] /\ Goes("receipt")
  /\ UNCHANGED <<journal, receipt>>

CommitReceipt ==
  /\ At("commit", "receipt")
  /\ receipt' = [receipt EXCEPT ![act.call.op] =
                   [arc |-> act.call.arc, ident |-> journal.seen, sound |-> host.sound]]
  /\ Goes("close")
  /\ UNCHANGED <<host, journal>>

CommitClose ==
  /\ At("commit", "close")
  /\ journal' = NoJournal
  /\ Ends(Answer("committed", act.call.arc))
  /\ UNCHANGED <<host, receipt>>

CommitRaise ==
  /\ At("commit", "publish") /\ Ends(Error)
  /\ UNCHANGED <<host, journal, receipt>>

\* What the caller of the recovery gets: only an abort gets the outcome.
Outcome(is) ==
  IF act.call.is # "abort" THEN Error
  ELSE IF IsCommitted(act.call.op) THEN Answer("committed", receipt[act.call.op].arc)
  ELSE Answer(is, NoArc)

Abort(c, from) ==
  /\ Arrives(c, from) /\ c.is = "abort"
  /\ IF journal # NoJournal /\ journal.op # c.op
     THEN Answered(c, from, Error)
     ELSE Enters(c, from, "recover")
  /\ UNCHANGED <<host, journal, receipt>>

Timer ==
  /\ act = NoAct /\ journal # NoJournal
  /\ ~journal.lease \/ journal.phase \in {"recovering", "restored"}
  /\ act' = [call |-> NoCall, from |-> "timer", at |-> "recover"]
  /\ UNCHANGED <<host, journal, receipt, cmd, disk, late, made, faults>>

\* Nothing to do, a committed operation, or one restored by an earlier call.
RecoverEnd ==
  /\ act.at = "recover"
  /\ journal = NoJournal \/ IsCommitted(journal.op) \/ journal.phase = "restored"
  /\ journal' = NoJournal
  /\ host' = IF journal.phase = "restored" THEN [host EXCEPT !.core = "quiet"] ELSE host
  /\ Ends(Outcome("restored"))
  /\ UNCHANGED receipt

\* Queued again: the services are not up yet.
RecoverWait ==
  /\ act.at = "recover" /\ journal.phase = "restored" /\ ~IsCommitted(journal.op)
  /\ Ends(Outcome("queued"))
  /\ UNCHANGED <<host, journal, receipt>>

RecoverMark ==
  /\ act.at = "recover"
  /\ journal # NoJournal /\ ~IsCommitted(journal.op) /\ journal.phase # "restored"
  /\ journal' = [journal EXCEPT !.phase = "recovering"]
  /\ host' = [host EXCEPT !.core = "off"]
  /\ Goes("database")
  /\ UNCHANGED receipt

RecoverDatabase ==
  /\ act.at = "database"
  /\ host' = [host EXCEPT !.op = 0, !.pub = TRUE, !.ident = journal.base, !.template = "original"]
  /\ Goes("cleanup")
  /\ UNCHANGED <<journal, receipt>>

RecoverCleanup ==
  /\ act.at = "cleanup"
  /\ host' = Cleaned(host) /\ Goes("queue")
  /\ UNCHANGED <<journal, receipt>>

RecoverQueue ==
  /\ act.at = "queue"
  /\ journal' = [journal EXCEPT !.phase = "restored"]
  /\ host' = [host EXCEPT !.core = "quiet"]
  /\ Ends(Outcome("queued"))
  /\ UNCHANGED receipt

-----------------------------------------------------------------------------
(* The command.                                                            *)

Got(label, is) == cmd.at = label /\ cmd.got.is = is
To(label, c) == cmd' = [c EXCEPT !.at = label, !.got = IF label \in CallLabels THEN Out ELSE Nothing]
Stay == UNCHANGED <<remoteSide, late, faults>>

\* An exception: before pending.json is written and in recover_local it ends
\* the command, otherwise it leads to recover_local.
Fail ==
  IF pend.op = 0 \/ cmd.again THEN cmd' = Idle
  ELSE To("abort", [cmd EXCEPT !.again = TRUE])

Start ==
  /\ cmd = Idle /\ pend = NoPend /\ doc = 0 /\ made < MaxOps
  /\ To("before", [Idle EXCEPT !.proxied = cloud = "orange"])
  /\ Stay /\ UNCHANGED <<disk, made>>

StartRecover ==
  /\ cmd = Idle /\ pend # NoPend
  /\ To("abort", [Idle EXCEPT !.op = pend.op, !.again = TRUE])
  /\ Stay /\ UNCHANGED <<disk, made>>

\* cdn_request: an operation id of its own, nothing decided.
Drawn == [NoPend EXCEPT !.op = made + 1]

GotBefore ==
  /\ Got("before", "archive")
  /\ \/ /\ cmd.got.arc.pub /\ cmd.got.arc.op = 0 /\ made < MaxOps
        /\ made' = made + 1
        /\ pend' = Drawn
        /\ To("prepare", [cmd EXCEPT !.op = made + 1, !.arc = cmd.got.arc])
     \/ /\ ~cmd.got.arc.pub \/ cmd.got.arc.op # 0
        /\ Fail /\ UNCHANGED <<made, pend>>
  /\ Stay /\ UNCHANGED <<proofs, doc>>

\* cdn_deadline: a prepared candidate with a lease long enough, and nothing
\* that is committed already.
GotPrepared ==
  /\ Got("prepare", "prepared")
  /\ To("first", cmd)
  /\ Stay /\ UNCHANGED <<disk, made>>

\* The archive is of exactly this operation's candidate.
OfCandidate == cmd.got.is = "archive" /\ cmd.got.arc.op = cmd.op

\* The candidate's archive.  A hostname found proxied at the start needs no
\* acknowledgment.
GotFirst ==
  /\ cmd.at = "first" /\ OfCandidate
  /\ pend' = [pend EXCEPT !.arc = cmd.got.arc]
  /\ To(IF cmd.proxied THEN "edge" ELSE "orange", [cmd EXCEPT !.a = cmd.got.arc, !.arc = cmd.got.arc])
  /\ Stay /\ UNCHANGED <<proofs, doc, made>>

\* The operator types ORANGE, whatever he did in Cloudflare's panel.
Acknowledge ==
  /\ cmd.at = "orange"
  /\ To("edge", cmd)
  /\ Stay /\ UNCHANGED <<disk, made>>

\* A fresh answer of the zone's own name server: Cloudflare addresses only.
Resolved == cloud = "orange"

\* Two edges are tried; only an unreachable one is passed over.
Selected(tls, i) == tls[i] = "valid" /\ \A j \in 1 .. i - 1 : tls[j] = "unreachable"

SelectEdge ==
  /\ cmd.at = "edge" /\ Resolved
  /\ \E tls \in [1 .. 2 -> {"valid", "unreachable", "refused"}], i \in 1 .. 2 : Selected(tls, i)
  /\ To("begin", cmd)
  /\ Stay /\ UNCHANGED <<disk, made>>

GotNonce ==
  /\ Got("begin", "nonce")
  /\ To("positive", cmd)
  /\ Stay /\ UNCHANGED <<disk, made>>

\* What a fresh client with the pinned edge sees of its connection: a body if
\* the core serves the user, a rejection (by the core or on the way: a reset,
\* an end of stream) or a failure that says nothing.
Serving == host.op = cmd.op /\ host.core # "off"
Https(known) == {"rejected", "failed"} \cup
                IF Serving /\ (known \/ ~host.sound) THEN {"body"} ELSE {}

Positive ==
  /\ cmd.at = "positive" /\ "body" \in Https(TRUE)
  /\ To("negative", cmd)
  /\ Stay /\ UNCHANGED <<disk, made>>

\* The nonce is rejected: by the core, which then logs it, or on the way.
Negative ==
  /\ cmd.at = "negative" /\ "rejected" \in Https(FALSE)
  /\ \/ Serving /\ host.sound
        /\ host' = [host EXCEPT !.line = @ \/ (host.core = "logging" /\ host.file)]
     \/ UNCHANGED host
  /\ To("finish", cmd)
  /\ UNCHANGED <<journal, receipt, act, disk, late, made, faults>>

GotVerdict ==
  /\ Got("finish", "verdict")
  /\ To("reconnect", cmd)
  /\ Stay /\ UNCHANGED <<disk, made>>

\* Again, after an idle time, and over Hysteria2.
Reconnect ==
  /\ cmd.at = "reconnect" /\ "body" \in Https(TRUE)
  /\ To("final", cmd)
  /\ Stay /\ UNCHANGED <<disk, made>>

\* A new archive with the native identity of the first.
SameIdentity == cmd.got.arc.ident = cmd.a.ident

GotFinal ==
  /\ cmd.at = "final" /\ OfCandidate
  /\ cmd.got.arc # cmd.a /\ SameIdentity
  /\ To("proof", [cmd EXCEPT !.arc = cmd.got.arc, !.proof = cmd.got.arc])
  /\ Stay /\ UNCHANGED <<disk, made>>

SaveProof ==
  /\ cmd.at = "proof"
  /\ proofs' = [proofs EXCEPT ![cmd.op] = cmd.proof]
  /\ To("mark", cmd)
  /\ Stay /\ UNCHANGED <<pend, doc, made>>

\* (bug) pending.json keeps naming the archive of before the diagnostic.
MarkedFirst(p) == [p EXCEPT !.proof = cmd.proof]

Marked(p) == [p EXCEPT !.arc = cmd.arc, !.proof = cmd.proof]

\* Saved before the commit is sent: whatever becomes of it can be reconciled.
Mark ==
  /\ cmd.at = "mark"
  /\ pend' = Marked(pend)
  /\ To("commit", cmd)
  /\ Stay /\ UNCHANGED <<proofs, doc, made>>

\* check_cdn_receipt
ReceiptFits(arc) == proofs[pend.op] = arc /\ pend.arc = arc /\ pend.proof = proofs[pend.op]

\* The receipt, from the commit or from the abort of a later recovery.
GotCommitted ==
  /\ Got("commit", "committed") \/ Got("abort", "committed")
  /\ \/ ReceiptFits(cmd.got.arc) /\ To("after", cmd)
     \/ ~ReceiptFits(cmd.got.arc) /\ Fail
  /\ Stay /\ UNCHANGED <<disk, made>>

GotAfter ==
  /\ cmd.at = "after" /\ OfCandidate /\ cmd.got.arc.pub
  /\ doc' = cmd.op
  /\ To("clear", cmd)
  /\ Stay /\ UNCHANGED <<pend, proofs, made>>

Clear ==
  /\ cmd.at = "clear" \/ Got("abort", "restored")
  /\ pend' = NoPend /\ cmd' = Idle
  /\ Stay /\ UNCHANGED <<proofs, doc, made>>

\* The restoration was only queued: the operator runs `recover` again.
GotQueued ==
  /\ Got("abort", "queued") /\ cmd' = Idle
  /\ Stay /\ UNCHANGED <<disk, made>>

\* No acknowledgment, a deadline, an edge or a check that fails, an error of
\* the host, an answer that does not fit: at any step.
GivesUp ==
  /\ cmd.at \notin {"idle", "clear"} /\ cmd.got.is \notin {"out", "in"}
  /\ cmd.at = "commit" => cmd.got.is = "error"
  /\ cmd.at = "abort" => cmd.got.is = "error"
  /\ Fail
  /\ Stay /\ UNCHANGED <<disk, made>>

-----------------------------------------------------------------------------
(* Faults and the world around.                                            *)

\* A call in flight is served later, or goes on without its caller.
Orphaned ==
  /\ late' = IF cmd.got = Out THEN late \cup {Request} ELSE late
  /\ act' = IF cmd.got = Inside THEN [act EXCEPT !.from = "late"] ELSE act

KillCommand ==
  /\ cmd # Idle /\ Spend
  /\ Orphaned /\ cmd' = Idle
  /\ UNCHANGED <<host, journal, receipt, disk, made>>

LoseReply ==
  /\ cmd.got \in {Out, Inside} /\ Spend
  /\ Orphaned /\ cmd' = [cmd EXCEPT !.got = Error]
  /\ UNCHANGED <<host, journal, receipt, disk, made>>

\* SIGTERM unwinds the command once; in recover_local it is deferred.
Terminate ==
  /\ cmd # Idle /\ ~cmd.term /\ Spend
  /\ IF cmd.again THEN cmd' = [cmd EXCEPT !.term = TRUE] /\ UNCHANGED <<act, late>>
     ELSE /\ Orphaned
          /\ cmd' = IF pend.op = 0 THEN Idle
                    ELSE [cmd EXCEPT !.at = "abort", !.got = Out, !.again = TRUE, !.term = TRUE]
  /\ UNCHANGED <<host, journal, receipt, disk, made>>

HostDies ==
  /\ act # NoAct /\ Spend
  /\ act' = NoAct
  /\ cmd' = IF act.from = "pc" THEN [cmd EXCEPT !.got = Error] ELSE cmd
  /\ UNCHANGED <<host, journal, receipt, disk, late, made>>

CoreRestarts ==
  /\ journal.auth = "active" /\ journal.same /\ Spend
  /\ journal' = [journal EXCEPT !.same = FALSE]
  /\ UNCHANGED <<host, receipt, act, cmd, disk, late, made>>

Lapse ==
  /\ journal.lease
  /\ journal' = [journal EXCEPT !.lease = FALSE]
  /\ UNCHANGED <<host, receipt, act, cmd, disk, late, made, faults>>

\* An administrator changes an account or a policy in the native panel.
PanelEdit ==
  /\ host.core # "off" /\ host.ident < MaxEdits
  /\ host' = [host EXCEPT !.ident = @ + 1]
  /\ UNCHANGED <<journal, receipt, act, cmd, disk, late, made, faults>>

\* The operator proxies the hostname; nothing here can undo that.
Click ==
  /\ cloud = "gray" /\ cloud' = "orange"
  /\ UNCHANGED <<remoteSide, cmd, disk, late, made, faults>>

BeginSteps == BeginFile \/ BeginStop \/ BeginTemplate \/ BeginStart \/ BeginActive \/ BeginRaise
FinishSteps == FinishRead \/ FinishRestore \/ FinishRestart \/ FinishClean \/ FinishForget
               \/ FinishRestored \/ FinishKeep \/ FinishRaise
CommitSteps == CommitPublish \/ CommitReceipt \/ CommitClose \/ CommitRaise
RecoverSteps == RecoverEnd \/ RecoverWait \/ RecoverMark \/ RecoverDatabase \/ RecoverCleanup \/ RecoverQueue
CommandSteps == Start \/ StartRecover \/ GotBefore \/ GotPrepared \/ GotFirst \/ GotNonce
                \/ Acknowledge \/ SelectEdge \/ Positive \/ Negative \/ GotVerdict
                \/ Reconnect \/ GotFinal \/ SaveProof \/ Mark \/ GotCommitted \/ GotAfter \/ Clear \/ GotQueued \/ GivesUp
Steps == BeginSteps \/ FinishSteps \/ CommitSteps \/ RecoverSteps \/ CommandSteps
FaultSteps == KillCommand \/ LoseReply \/ Terminate \/ HostDies \/ CoreRestarts \/ Lapse \/ PanelEdit

Calls ==
  \E c \in late \cup {Request}, from \in {"pc", "late"} :
    \/ Prepare(c, from) \/ Backup(c, from) \/ Begin(c, from)
    \/ Finish(c, from) \/ Commit(c, from) \/ Abort(c, from)

Next ==
  \/ (Calls \/ Timer \/ Steps \/ FaultSteps) /\ UNCHANGED cloud
  \/ Click

Spec == Init /\ [][Next]_vars

-----------------------------------------------------------------------------
Idents == 0 .. MaxEdits
Archives == [op : 0 .. MaxOps, pub : BOOLEAN, ident : Idents,
             template : {"none", "original", "witness"}, after : BOOLEAN]

Hosts == [op : 0 .. MaxOps, pub : BOOLEAN, ident : Idents, template : {"original", "witness"},
          core : {"off", "quiet", "logging"}, sound : BOOLEAN, dir : BOOLEAN, file : BOOLEAN,
          line : BOOLEAN, export : Archives]
Journals == [op : 0 .. MaxOps, phase : {"none", "prepared", "recovering", "restored"},
             lease : BOOLEAN, base : Idents,
             auth : {"none", "arming", "active", "restoring", "restored"},
             seen : Idents, same : BOOLEAN, verdict : BOOLEAN]
Receipts == [arc : Archives, ident : Idents, sound : BOOLEAN]
Pendings == [op : 0 .. MaxOps, arc : Archives, proof : Archives]

\* The shape of the state.
TypeOK ==
  /\ host \in Hosts /\ journal \in Journals /\ receipt \in [Ops -> Receipts]
  /\ pend \in Pendings /\ proofs \in [Ops -> Archives] /\ doc \in 0 .. MaxOps
  /\ cloud \in {"gray", "orange"}
  /\ made \in 0 .. MaxOps /\ faults \in 0 .. MaxFaults

\* What is committed was witnessed: it is reached through Cloudflare, the
\* candidate's own core refuses unknown users, however the connections to it
\* broke, and the archive that is kept of it was made after the diagnostic and
\* holds the native identities that were in force during it
\* (auth_read_verdict, auth_commit_verdict, final_candidate).
CommittedWasWitnessed ==
  \A o \in Ops : receipt[o] # NoReceipt =>
    /\ receipt[o].sound /\ cloud = "orange"
    /\ receipt[o].arc.op = o /\ receipt[o].arc.after
    /\ receipt[o].arc.ident = receipt[o].ident

\* Nothing of a diagnostic outlives it: its log, its directory and its logging
\* template exist only while the journal says so, so that every way out, a
\* commit, a recovery or a death in between, removes them; and no archive the
\* host ever exported, or anybody holds, has that template.
DiagnosticContained ==
  /\ host.template = "witness" \/ host.dir \/ host.file =>
       journal.auth \in {"arming", "active", "restoring"}
  /\ \A arc \in {host.export, cmd.a, cmd.arc, pend.arc} \cup {receipt[o].arc : o \in Ops} :
       arc.template # "witness"

\* A durable commit is never lost and never stuck: until state.json records it
\* the PC's pending.json names it, with the proof and the archive that
\* check_cdn_receipt asks for, wherever the command was killed.
CommitReconcilable ==
  \A o \in Ops : receipt[o] # NoReceipt =>
    doc = o \/ (pend.op = o /\ ReceiptFits(receipt[o].arc))

-----------------------------------------------------------------------------
(* The inductive invariant: why a verdict is about this candidate, and why *)
(* what is committed stays reconcilable.                                   *)

Answers == [is : {"none", "out", "in", "error", "archive", "prepared", "nonce", "verdict",
                  "committed", "restored", "queued"}, arc : Archives]
Requests == [is : {"none", "backup", "prepare", "begin", "finish", "commit", "abort"},
             op : 0 .. MaxOps, arc : Archives, proof : Archives]
Asking  == {"prepare", "first", "orange", "edge", "begin", "positive", "negative", "finish",
            "reconnect", "final", "proof", "mark"}   \* until the commit is sent
Settling == {"commit", "abort", "after", "clear"}    \* and from then on

Acts == [call : Requests, from : {"none", "pc", "late", "timer"},
         at : {"free", "file", "stop", "template", "start", "active", "read", "restore",
               "restart", "clean", "forget", "restored", "publish", "receipt", "close",
               "recover", "database", "cleanup", "queue"}]
Commands == [at : {"idle", "before"} \cup Asking \cup Settling, op : 0 .. MaxOps, got : Answers,
             a : Archives, arc : Archives, proof : Archives,
             proxied : BOOLEAN, again : BOOLEAN, term : BOOLEAN]
Shapes == TypeOK /\ act \in Acts /\ cmd \in Commands /\ late \subseteq Requests

\* A call inside the host belongs to the command that waits for it or to none,
\* and a command works for the operation of pending.json.
Tied ==
  /\ act.at = "free" => act = NoAct
  /\ act.from = "pc" => cmd.got = Inside /\ act.call.op = cmd.op /\ act.call.is = Kind(cmd.at)
  /\ cmd.got.is = "in" => act.from = "pc"
  /\ cmd.at \notin CallLabels => cmd.got = Nothing
  /\ cmd.at = "idle" => cmd = Idle
  /\ cmd.at = "before" => cmd.op = 0
  /\ cmd.at \notin {"idle", "before"} => cmd.op = pend.op /\ cmd.op # 0
  /\ cmd.at = "before" => pend = NoPend /\ doc = 0
  /\ pend.op = 0 => pend = NoPend
  /\ doc # 0 => pend.op \in {0, doc}
  /\ doc # 0 /\ pend.op = 0 => cmd.at = "idle"

\* Nothing is known of an operation that has not been drawn.
Known ==
  /\ pend.op <= made /\ journal.op <= made
  /\ \A c \in late \cup {act.call} : c.op <= made
  /\ \A o \in Ops : receipt[o] # NoReceipt => o <= made

\* Where a call stands in the diagnostic it makes or ends.
Diagnosing ==
  /\ act.at \in {"file", "stop", "template", "start", "active"} =>
       act.call.is = "begin" /\ journal.phase = "prepared" /\ journal.auth = "arming"
  /\ act.at \in {"read", "restore", "restart", "clean", "forget", "restored"} =>
       /\ act.call.is = "finish" /\ journal.phase = "prepared"
       /\ journal.auth \in {"arming", "active", "restoring"}
  /\ act.at \in {"restore", "restart", "clean", "forget", "restored"} => journal.auth = "restoring"
  /\ act.at \in {"restart", "clean", "forget", "restored"} => host.template = "original"
  /\ act.at \in {"forget", "restored"} => ~host.dir /\ ~host.file
  /\ act.at = "restored" => host.export = NoArc

\* Where a recovery stands, and what it leaves.
Recovering ==
  /\ act.at \in {"database", "cleanup", "queue"} => journal.phase = "recovering"
  /\ act.at \in {"cleanup", "queue"} => host.template = "original"
  /\ act.at = "queue" \/ journal.phase = "restored" =>
       host.template = "original" /\ ~host.dir /\ ~host.file
  /\ journal.phase = "none" <=> journal = NoJournal
  /\ journal.op = 0 <=> journal = NoJournal
  /\ journal # NoJournal /\ IsCommitted(journal.op) => journal.phase = "prepared" /\ journal.auth = "restored"

\* Every archive anybody holds.
Everyone == {host.export, cmd.got.arc, cmd.a, cmd.arc, pend.arc, act.call.arc}
            \cup {receipt[o].arc : o \in Ops} \cup {c.arc : c \in late}
Contained ==
  /\ host.template = "witness" \/ host.dir \/ host.file =>
       journal.auth \in {"arming", "active", "restoring"}
  /\ \A arc \in Everyone : arc.template # "witness"

\* A line in the log, and the verdict read from it, was written by a core that
\* refuses unknown users, through Cloudflare.
Witness ==
  /\ host.line => host.file
  /\ host.line \/ journal.verdict => host.sound /\ cloud = "orange"
  /\ cmd.at \in {"begin", "positive", "negative"} => cloud = "orange"

\* Native identities only advance during an operation; what is exported after
\* its diagnostic is no older.
Advancing ==
  /\ journal.phase = "prepared" /\ journal.auth # "none" => journal.seen <= host.ident
  /\ journal.phase = "prepared" /\ journal.auth = "restored" /\ host.export # NoArc =>
       /\ host.export.after
       /\ journal.seen <= host.export.ident /\ host.export.ident <= host.ident

\* A commit is only asked for after a prepare was answered, and a prepare of
\* an operation is never under way together with a commit of it.
Once ==
  /\ \A c \in late \cup {act.call} : c.is \in {"prepare", "commit"} => c.op # 0
  /\ \A c \in late : c.is = "prepare" /\ c.op = cmd.op =>
       cmd.at \in Settling \ {"commit"} \/ (cmd.at = "prepare" /\ cmd.got.is = "error")
  /\ \A c \in late \cup {act.call} : c.is = "commit" /\ c.op = cmd.op => cmd.at \in Settling
  /\ \A c \in late, e \in late \cup {act.call} : c.is = "prepare" /\ e.is = "commit" => c.op # e.op

\* The commits under way.
Commits == {c \in late \cup {act.call} \cup (IF cmd.at = "commit" THEN {Request} ELSE {}) : c.is = "commit"}
\* They ask for what pending.json and the proof name, and while the host could
\* grant one, pending.json is there and about to stay.
Reconciling ==
  /\ cmd.at \in {"proof", "mark", "commit"} => cmd.proof = cmd.arc /\ cmd.arc.op = cmd.op
  /\ cmd.at = "mark" => proofs[cmd.op] = cmd.proof
  /\ \A c \in Commits :
       /\ c.arc.op = c.op
       /\ pend.op = c.op => ReceiptFits(c.arc)
       /\ journal.op = c.op /\ journal.phase = "prepared" /\ receipt[c.op] = NoReceipt =>
            pend.op = c.op /\ ~Got("abort", "restored")

\* A commit in progress; what a command was told; what is committed.
Committing ==
  /\ act.at \in {"publish", "receipt", "close"} =>
       /\ act.call.is = "commit" /\ journal.op = act.call.op
       /\ act.at # "close" =>
            /\ receipt[act.call.op] = NoReceipt
            /\ journal.phase = "prepared" /\ journal.auth = "restored" /\ journal.verdict
            /\ act.call.arc.after /\ act.call.arc.ident = journal.seen
  /\ act.call.is = "commit" => act.at \in {"publish", "receipt", "close"}
  /\ act.at = "close" => IsCommitted(act.call.op)
  /\ cmd.got.is = "committed" \/ cmd.at \in {"after", "clear"} => IsCommitted(cmd.op)
  /\ Got("abort", "restored") => ~IsCommitted(cmd.op)
  /\ cmd.at = "clear" => doc = cmd.op
  /\ \A o \in Ops : receipt[o] # NoReceipt /\ cmd.op = o => cmd.at \in Settling

IInv == Shapes /\ Tied /\ Known /\ Diagnosing /\ Recovering /\ Contained /\ Witness /\ Advancing
        /\ Once /\ Reconciling /\ Committing /\ CommittedWasWitnessed /\ CommitReconcilable
=============================================================================
