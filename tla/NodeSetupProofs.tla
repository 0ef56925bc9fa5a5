--------------------------- MODULE NodeSetupProofs ---------------------------
(***************************************************************************)
(* Proofs about NodeSetup: IInv is an inductive invariant for any number   *)
(* of state directories, nodes and faults, and implies the invariants and  *)
(* the action properties TLC checks.                                       *)
(***************************************************************************)
EXTENDS NodeSetup, TLAPS

USE SetupAssumption DEF Nobody

-----------------------------------------------------------------------------
(* Lemmas about states *)

(* The empty documents, archives and commands are of their types. *)
LEMMA Blanks ==
  /\ NoArc \in Arcs /\ NoDoc \in Docs /\ Never \in Versions /\ Idle \in Cmds
  /\ NoDoc.owner = Nobody /\ ~NoDoc.cur /\ NoDoc.node = 0
  /\ ~NoArc.pub /\ NoArc.node = 0
  /\ Idle.at = "idle" /\ Idle.flow = "none"
<1>1. NoArc \in Arcs /\ ~NoArc.pub /\ NoArc.node = 0
  BY DEF NoArc, Arcs
<1>2. NoDoc \in Docs /\ NoDoc.owner = Nobody /\ ~NoDoc.cur /\ NoDoc.node = 0
  BY <1>1 DEF NoDoc, Docs
<1>3. Never \in Versions
  BY DEF Never, Versions
<1>4. Idle \in Cmds /\ Idle.at = "idle" /\ Idle.flow = "none"
  BY <1>2, <1>1, <1>3 DEF Idle, Cmds, Labels, Flows
<1> QED
  BY <1>1, <1>2, <1>3, <1>4

(* The fields of a state of the types. *)
LEMMA Typed ==
  ASSUME Shapes
  PROVE  /\ host.root \in BOOLEAN /\ host.owner \in Owners /\ host.node \in 0..MaxNodes
         /\ host.pub \in BOOLEAN /\ host.pend \in BOOLEAN /\ host.receipt \in Arcs
         /\ host.from \in Owners /\ host.made \in 0..MaxNodes /\ host.drift \in BOOLEAN
         /\ host.stop \in {"no", "stopping", "queued"}
         /\ \A d \in Dirs : cmd[d] \in Cmds /\ doc[d] \in Docs /\ pend[d] \in {"none", "deploy", "backup"}
         /\ \A c \in late : c \in Requests
BY DEF Shapes, Hosts

(* The fields of a command. *)
LEMMA CmdFields ==
  ASSUME NEW x \in Cmds
  PROVE  /\ x.at \in Labels /\ x.flow \in Flows /\ x.doc \in Docs /\ x.node \in 0..MaxNodes
         /\ x.arc \in Arcs /\ x.copy \in Versions /\ x.copy.db \in {0, 1} /\ x.copy.cert \in Nat
BY DEF Cmds, Versions

(* The fields of a document. *)
LEMMA DocFields ==
  ASSUME NEW s \in Docs
  PROVE  /\ s.owner \in Owners /\ s.cur \in BOOLEAN /\ s.node \in 0..MaxNodes /\ s.arc \in Arcs
         /\ s.gen \in BOOLEAN /\ s.arc.node \in 0..MaxNodes /\ s.arc.owner \in Owners
         /\ s.arc.pub \in BOOLEAN
BY DEF Docs, Arcs, Owners

(* The fields of a call. *)
LEMMA RequestFields ==
  ASSUME NEW c \in Requests
  PROVE  /\ c.op \in Calls /\ c.flow \in Flows /\ c.owner \in Dirs /\ c.arc \in Arcs /\ c.by \in Dirs
         /\ c.arc.node \in 0..MaxNodes /\ c.arc.owner \in Owners /\ c.arc.pub \in BOOLEAN
BY DEF Requests, Arcs, Owners

(* What is under ROOT is an archive's content. *)
LEMMA ContentIsArchive ==
  ASSUME Shapes
  PROVE  Content \in Arcs /\ Content.node = host.node /\ Content.pub = host.pub /\ Content.owner = host.owner
BY Typed DEF Content, Arcs, Owners

-----------------------------------------------------------------------------
(* Lemmas about steps: what of the invariant each kind of step disturbs *)

\* What a step leaves to the directory e: a published node, and what was
\* cleared of its candidates.
Spares(e) ==
  /\ host.pub => host'.pub
  /\ Clear(e, host, late) => Clear(e, host', late')

(* A step of a directory keeps the invariant if the command and the document *)
(* it leaves are in order, if it has nothing on the way or on the host that  *)
(* it should not have, and if it spares the others.                          *)
LEMMA DirectoryStep ==
  ASSUME IInv, NEW d \in Dirs, Shapes', WholePlace(host'), Collecting',
         \A e \in Dirs \ {d} : cmd'[e] = cmd[e] /\ doc'[e] = doc[e] /\ Spares(e),
         Routed(cmd'[d]), Sound(doc'[d]), Relies(cmd[d], doc[d])',
         Past(cmd'[d], doc'[d]) => host'.pub \/ Clear(d, host', late'),
         doc'[d] = NoDoc => Clear(d, host', late')
  PROVE  IInv'
<1>1. ASSUME NEW e \in Dirs
      PROVE  /\ (Routed(cmd[e]) /\ Sound(doc[e]) /\ Relies(cmd[e], doc[e]))'
             /\ Past(cmd'[e], doc'[e]) => host'.pub \/ Clear(e, host', late')
             /\ doc'[e] = NoDoc => Clear(e, host', late')
  <2>1. CASE e = d
    BY <2>1
  <2>2. CASE e # d
    <3>1. cmd'[e] = cmd[e] /\ doc'[e] = doc[e] /\ Spares(e)
      BY <2>2
    <3>2. /\ Routed(cmd[e]) /\ Sound(doc[e]) /\ Relies(cmd[e], doc[e])
          /\ Past(cmd[e], doc[e]) => host.pub \/ Clear(e, host, late)
          /\ doc[e] = NoDoc => Clear(e, host, late)
      BY DEF IInv, Cleared
    <3>3. (Routed(cmd[e]) /\ Sound(doc[e]) /\ Relies(cmd[e], doc[e]))'
      BY <3>1, <3>2
    <3> QED
      BY <3>1, <3>2, <3>3 DEF Spares
  <2> QED
    BY <2>1, <2>2
<1> QED
  BY <1>1 DEF IInv, Cleared

(* A local step: the host and what is on the way to it stay. *)
LEMMA LocalStep ==
  ASSUME IInv, NEW d \in Dirs, UNCHANGED remoteSide, kept' = kept,
         cmd' = [cmd EXCEPT ![d] = cmd'[d]], doc' = [doc EXCEPT ![d] = doc'[d]],
         pend' = [pend EXCEPT ![d] = pend'[d]],
         cmd'[d] \in Cmds, doc'[d] \in Docs, pend'[d] \in {"none", "deploy", "backup"},
         Routed(cmd'[d]), Sound(doc'[d]), Relies(cmd[d], doc[d])',
         cmd'[d].at \notin {"copy", "snapshot", "compare"},
         doc[d] # NoDoc => doc'[d] # NoDoc,
         Past(cmd'[d], doc'[d]) => Past(cmd[d], doc[d]) \/ doc[d] = NoDoc
  PROVE  IInv'
<1>1. /\ host' = host /\ lock' = lock /\ live' = live /\ moments' = moments /\ late' = late
      /\ \A e \in Dirs \ {d} : cmd'[e] = cmd[e] /\ doc'[e] = doc[e]
  BY DEF IInv, Shapes, remoteSide, pulling
<1>2. Shapes'
  BY <1>1 DEF IInv, Shapes
<1>3. Collecting'
  <2>1. Collecting
    BY DEF IInv
  <2>2. ASSUME NEW e \in Dirs, cmd'[e].at \in {"copy", "snapshot", "compare"} PROVE cmd'[e] = cmd[e]
    BY <1>1, <2>2
  <2> QED
    BY <1>1, <2>1, <2>2 DEF Collecting
<1>4. \A e \in Dirs : Spares(e)
  BY <1>1 DEF Spares
<1>5. Past(cmd'[d], doc'[d]) => host'.pub \/ Clear(d, host', late')
  BY <1>1 DEF IInv, Cleared
<1>6. doc'[d] = NoDoc => Clear(d, host', late')
  BY <1>1 DEF IInv, Cleared
<1>7. WholePlace(host')
  BY <1>1 DEF IInv
<1> QED
  BY <1>1, <1>2, <1>3, <1>4, <1>5, <1>6, <1>7, DirectoryStep

(* A step of the host alone. *)
LEMMA HostStep ==
  ASSUME IInv, Shapes', WholePlace(host'), UNCHANGED <<lock, live, moments, cmd, doc>>,
         \A e \in Dirs : Spares(e) \/ Clear(e, host', late')
  PROVE  IInv'
<1>1. Collecting'
  BY DEF IInv, Collecting
<1>2. ASSUME NEW e \in Dirs PROVE (Routed(cmd[e]) /\ Sound(doc[e]) /\ Relies(cmd[e], doc[e]))'
  BY DEF IInv
<1>3. Cleared'
  BY DEF IInv, Cleared, Spares
<1> QED
  BY <1>1, <1>2, <1>3 DEF IInv

-----------------------------------------------------------------------------
(* Lemmas about the host's calls *)

\* What every answer a to the call c is: the place stays whole, a published node
\* stays so, only a commit of a candidate publishes, an export says of what it
\* is, and only an installation makes a fresh candidate, of its own.
Proper(c, a) ==
  /\ a.host \in Hosts /\ WholePlace(a.host) /\ a.arc \in Arcs
  /\ host.pub => a.host.pub
  /\ a.host.pub /\ ~host.pub => c.op = "commit" /\ host.pend /\ host.node # 0
  /\ c.op \in {"backup", "rebackup"} /\ a.is = "done" => a.arc.pub = a.host.pub
  /\ \A d \in Dirs : a.host.pend /\ a.host.node # 0 /\ a.host.from = d =>
       \/ host.pend /\ host.node # 0 /\ host.from = d
       \/ Opening(c) /\ c.by = d /\ ~host.pub

(* An answer has the fields it was made of. *)
LEMMA AnswerFields ==
  ASSUME NEW h, NEW is, NEW arc, NEW cost
  PROVE  /\ Answer(h, is, arc, cost).host = h /\ Answer(h, is, arc, cost).is = is
         /\ Answer(h, is, arc, cost).arc = arc /\ Answer(h, is, arc, cost).cost = cost
BY DEF Answer

(* An answer that leaves the host as it is, and is no export. *)
LEMMA ProperQuiet ==
  ASSUME Shapes, WholePlace(host), NEW c \in Requests, NEW a, a.host = host, a.arc = NoArc,
         c.op \notin {"backup", "rebackup"} \/ a.is # "done"
  PROVE  Proper(c, a)
BY Typed, Blanks DEF Proper, Shapes

(* A refusal. *)
LEMMA ProperRefusal ==
  ASSUME Shapes, WholePlace(host), NEW c \in Requests, NEW a \in Refusal
  PROVE  Proper(c, a)
<1>1. a.host = host /\ a.arc = NoArc /\ a.is = "error"
  BY DEF Refusal, Answer
<1> QED
  BY <1>1, ProperQuiet

(* A preparation puts a candidate, or the owner's claim, where nothing was. *)
LEMMA ProperPrepare ==
  ASSUME Shapes, WholePlace(host), NEW c \in Requests, c.op = "prepare", NEW a \in Prepare(c)
  PROVE  Proper(c, a)
<1> DEFINE claimed == [host EXCEPT !.root = TRUE, !.owner = c.owner]
           from == IF c.flow = "install" THEN c.by ELSE Nobody
           candidate == [claimed EXCEPT !.node = host.made + 1, !.made = @ + 1, !.pub = FALSE,
                                        !.pend = TRUE, !.from = from]
<1>1. CASE a \in Refusal
  BY <1>1, ProperRefusal
<1>2. CASE host.node # 0 /\ a = Answer([host EXCEPT !.drift = FALSE], "unchanged", NoArc, 0)
  <2>1. a.host = [host EXCEPT !.drift = FALSE] /\ a.arc = NoArc
    BY <1>2, AnswerFields
  <2>2. a.host \in Hosts
    BY <2>1 DEF Shapes, Hosts
  <2>3. /\ a.host.node = host.node /\ a.host.pub = host.pub /\ a.host.made = host.made
        /\ a.host.from = host.from /\ a.host.pend = host.pend
        /\ a.host.root = host.root /\ a.host.owner = host.owner
    BY <2>1 DEF Shapes, Hosts
  <2>4. WholePlace(a.host)
    BY <2>3, Typed DEF WholePlace
  <2> QED
    BY <2>1, <2>2, <2>3, <2>4, Blanks DEF Proper
<1>3. CASE /\ Preflight(c) /\ host.node = 0
           /\ a \in {Answer(claimed, "error", NoArc, 1), Answer([claimed EXCEPT !.pend = TRUE], "error", NoArc, 1)}
  <2>1. a.host \in {claimed, [claimed EXCEPT !.pend = TRUE]} /\ a.arc = NoArc /\ a.is = "error"
    BY <1>3, AnswerFields
  <2>2. a.host \in Hosts
    <3>1. host \in Hosts /\ c.owner \in Owners
      BY RequestFields DEF Shapes, Owners
    <3> QED
      BY <2>1, <3>1 DEF Hosts
  <2>3. /\ a.host.node = 0 /\ a.host.pub = host.pub /\ a.host.made = host.made
        /\ a.host.root = TRUE /\ a.host.owner = c.owner
    <3>1. host \in Hosts /\ host.node = 0
      BY <1>3 DEF Shapes
    <3>2. CASE a.host = claimed
      BY <3>1, <3>2 DEF Hosts
    <3>3. CASE a.host = [claimed EXCEPT !.pend = TRUE]
      BY <3>1, <3>3 DEF Hosts
    <3> QED
      BY <2>1, <3>2, <3>3
  <2>4. ~host.pub
    BY <1>3 DEF WholePlace
  <2>5. WholePlace(a.host)
    <3>1. c.owner # Nobody /\ host.made \in Nat
      BY RequestFields, Typed
    <3>2. a.host.root = (a.host.owner # Nobody)
      BY <2>3, <3>1
    <3>3. a.host.node <= a.host.made /\ ~a.host.pub
      BY <2>3, <2>4, <3>1
    <3> QED
      BY <3>2, <3>3 DEF WholePlace
  <2> QED
    BY <2>1, <2>2, <2>3, <2>4, <2>5, Blanks DEF Proper
<1>4. CASE Preflight(c) /\ host.node = 0 /\ host.made < MaxNodes /\ a = Answer(candidate, "prepared", NoArc, 0)
  <2>1. a.host = candidate /\ a.arc = NoArc /\ a.is = "prepared"
    BY <1>4, AnswerFields
  <2>2. from \in Owners
    BY RequestFields DEF Owners
  <2>3. /\ a.host.node = host.made + 1 /\ a.host.pub = FALSE /\ a.host.made = host.made + 1
        /\ a.host.root = TRUE /\ a.host.owner = c.owner /\ a.host.from = from
    BY <2>1 DEF Shapes, Hosts
  <2>4. host.made + 1 \in 0..MaxNodes
    BY <1>4, Typed
  <2>5. a.host \in Hosts
    <3>1. host \in Hosts /\ c.owner \in Owners
      BY RequestFields DEF Shapes, Owners
    <3> HIDE DEF from
    <3> QED
      BY <2>1, <2>2, <2>4, <3>1 DEF Hosts
  <2>6. WholePlace(a.host)
    <3>1. c.owner # Nobody /\ host.made \in Nat
      BY RequestFields, Typed
    <3>2. a.host.root = (a.host.owner # Nobody)
      BY <2>3, <3>1
    <3>3. a.host.node <= a.host.made /\ ~a.host.pub
      BY <2>3, <3>1
    <3> QED
      BY <3>2, <3>3 DEF WholePlace
  <2>7. ~host.pub
    BY <1>4 DEF WholePlace
  <2>8. \A d \in Dirs : a.host.from = d => Opening(c) /\ c.by = d
    BY <2>3 DEF Opening
  <2> QED
    BY <2>1, <2>3, <2>5, <2>6, <2>7, <2>8, Blanks DEF Proper
<1> QED
  BY <1>1, <1>2, <1>3, <1>4, Typed DEF Prepare

(* An export is of what is there. *)
LEMMA ProperBackup ==
  ASSUME Shapes, WholePlace(host), NEW c \in Requests, NEW a \in Backup(c)
  PROVE  Proper(c, a)
<1>1. CASE a \in Refusal
  BY <1>1, ProperRefusal
<1>2. CASE \/ a = Answer([host EXCEPT !.receipt = Content], "done", Content, 0)
           \/ a = Answer([host EXCEPT !.stop = "stopping"], "error", NoArc, 1)
  <2>1. /\ a.host \in {[host EXCEPT !.receipt = Content], [host EXCEPT !.stop = "stopping"]}
        /\ a.arc \in {Content, NoArc} /\ (a.is = "done" => a.arc = Content)
    BY <1>2, AnswerFields
  <2>2. a.host \in Hosts
    BY <2>1, ContentIsArchive DEF Shapes, Hosts
  <2>3. /\ a.host.node = host.node /\ a.host.pub = host.pub /\ a.host.made = host.made
        /\ a.host.from = host.from /\ a.host.pend = host.pend
        /\ a.host.root = host.root /\ a.host.owner = host.owner
    BY <2>1 DEF Shapes, Hosts
  <2>4. WholePlace(a.host)
    BY <2>3, Typed DEF WholePlace
  <2> QED
    BY <2>1, <2>2, <2>3, <2>4, Blanks, ContentIsArchive DEF Proper
<1> QED
  BY <1>1, <1>2 DEF Backup

(* A commit publishes the candidate that is there. *)
LEMMA ProperCommit ==
  ASSUME Shapes, WholePlace(host), NEW c \in Requests, c.op = "commit", NEW a \in Commit(c)
  PROVE  Proper(c, a)
<1>1. CASE a \in Refusal
  BY <1>1, ProperRefusal
<1>2. CASE a \in {Answer(host, "done", NoArc, 0), Answer(host, "error", NoArc, 1)}
  <2>1. a.host = host /\ a.arc = NoArc
    BY <1>2, AnswerFields
  <2> QED
    BY <2>1, ProperQuiet
<1>3. CASE host.node # 0 /\ host.pend /\ a = Answer(Published(host), "done", NoArc, 0)
  <2>1. a.host = [host EXCEPT !.pub = TRUE, !.pend = FALSE] /\ a.arc = NoArc
    BY <1>3, AnswerFields DEF Published
  <2>2. a.host \in Hosts
    BY <2>1 DEF Shapes, Hosts
  <2>3. /\ a.host.node = host.node /\ a.host.pub = TRUE /\ a.host.made = host.made
        /\ a.host.pend = FALSE /\ a.host.root = host.root /\ a.host.owner = host.owner
    BY <2>1 DEF Shapes, Hosts
  <2>4. WholePlace(a.host)
    BY <1>3, <2>3, Typed DEF WholePlace
  <2> QED
    BY <1>3, <2>1, <2>2, <2>3, <2>4, Blanks DEF Proper
<1> QED
  BY <1>1, <1>2, <1>3 DEF Commit

(* A recovery leaves a candidate's place empty and a node as it is. *)
LEMMA RecoverIsWhole ==
  ASSUME Shapes, WholePlace(host)
  PROVE  /\ Recover.host \in Hosts /\ WholePlace(Recover.host) /\ Recover.arc = NoArc
         /\ Recover.host.pub = host.pub /\ Recover.host.from = host.from
         /\ (Recover.host.pend => host.pend) /\ (Recover.host.node # 0 => host.node # 0)
<1>1. CASE host.pend
  <2>1. Recover.host = [host EXCEPT !.node = 0, !.pub = FALSE, !.pend = FALSE, !.stop = "no", !.drift = FALSE]
        /\ Recover.arc = NoArc
    BY <1>1, AnswerFields DEF Recover, Pristine
  <2>2. Recover.host \in Hosts
    <3>1. host \in Hosts /\ 0 \in 0..MaxNodes
      BY DEF Shapes
    <3>2. [host EXCEPT !.node = 0, !.pub = FALSE, !.pend = FALSE, !.stop = "no", !.drift = FALSE] \in Hosts
      BY <3>1 DEF Hosts
    <3> QED
      BY <2>1, <3>2
  <2>3. /\ Recover.host.node = 0 /\ Recover.host.pub = FALSE /\ Recover.host.made = host.made
        /\ Recover.host.from = host.from /\ Recover.host.pend = FALSE
        /\ Recover.host.root = host.root /\ Recover.host.owner = host.owner
    BY <2>1 DEF Shapes, Hosts
  <2>4. WholePlace(Recover.host) /\ ~host.pub
    BY <1>1, <2>3, Typed DEF WholePlace
  <2> QED
    BY <2>1, <2>2, <2>3, <2>4, Typed
<1>2. CASE ~host.pend
  <2>1. /\ Recover.host \in {host, [host EXCEPT !.stop = "queued"], [host EXCEPT !.stop = "no"]}
        /\ Recover.arc = NoArc
    BY <1>2, AnswerFields DEF Recover
  <2>2. Recover.host \in Hosts
    <3>1. host \in Hosts
      BY DEF Shapes
    <3>2. [host EXCEPT !.stop = "queued"] \in Hosts /\ [host EXCEPT !.stop = "no"] \in Hosts
      BY <3>1 DEF Hosts
    <3> QED
      BY <2>1, <3>1, <3>2
  <2>3. /\ Recover.host.node = host.node /\ Recover.host.pub = host.pub /\ Recover.host.made = host.made
        /\ Recover.host.from = host.from /\ Recover.host.pend = host.pend
        /\ Recover.host.root = host.root /\ Recover.host.owner = host.owner
    BY <2>1 DEF Shapes, Hosts
  <2>4. WholePlace(Recover.host)
    BY <2>3, Typed DEF WholePlace
  <2> QED
    BY <2>1, <2>2, <2>3, <2>4
<1> QED
  BY <1>1, <1>2, Typed

(* So an abort that recovers is proper. *)
LEMMA ProperRecover ==
  ASSUME Shapes, WholePlace(host), NEW c \in Requests, c.op \notin {"backup", "rebackup"}
  PROVE  Proper(c, Recover)
BY RecoverIsWhole, Blanks DEF Proper

(* Every call. *)
LEMMA AnswersAreProper ==
  ASSUME Shapes, WholePlace(host), NEW c \in Requests, NEW a \in Answers(c)
  PROVE  Proper(c, a)
<1>1. c.op \in Calls
  BY RequestFields
<1>2. CASE c.op = "prepare"
  <2>1. a \in Prepare(c)
    BY <1>2 DEF Answers
  <2> QED
    BY <1>2, <2>1, ProperPrepare
<1>3. CASE c.op \in {"backup", "rebackup"}
  <2>1. a \in Backup(c)
    BY <1>3 DEF Answers
  <2> QED
    BY <2>1, ProperBackup
<1>4. CASE c.op = "commit"
  <2>1. a \in Commit(c)
    BY <1>4 DEF Answers
  <2> QED
    BY <1>4, <2>1, ProperCommit
<1>5. CASE c.op = "abort"
  <2>1. a \in Abort(c)
    BY <1>5 DEF Answers
  <2>2. a \in Refusal \/ a = Recover \/ a = Answer(host, "restored", NoArc, 0)
    BY <2>1 DEF Abort
  <2>3. a = Answer(host, "restored", NoArc, 0) => a.host = host /\ a.arc = NoArc /\ a.is = "restored"
    BY AnswerFields
  <2> QED
    BY <1>5, <2>2, <2>3, ProperRefusal, ProperRecover, ProperQuiet
<1>6. CASE c.op \in {"preflight", "verify", "reverify", "status"}
  <2>1. a \in Refusal \/ a \in {Answer(host, "done", NoArc, 0), Answer(host, "error", NoArc, 1)}
    BY <1>6 DEF Answers, Verify, Status
  <2>2. a \notin Refusal => a.host = host /\ a.arc = NoArc
    BY <2>1, AnswerFields
  <2> QED
    BY <1>6, <2>1, <2>2, ProperRefusal, ProperQuiet
<1> QED
  BY <1>1, <1>2, <1>3, <1>4, <1>5, <1>6 DEF Calls

-----------------------------------------------------------------------------
(* Lemmas about the calls of a command *)

\* What the answer to a call leaves of its command: in order, and with the
\* archive of a published node only if the node is published.
Moves(d) ==
  /\ cmd' = [cmd EXCEPT ![d] = cmd'[d]] /\ doc' = doc /\ kept' = kept
  /\ pend' = [pend EXCEPT ![d] = pend'[d]] /\ pend'[d] \in {"none", "deploy", "backup"}
  /\ cmd'[d] \in Cmds /\ Routed(cmd'[d]) /\ Relies(cmd[d], doc[d])'
  /\ cmd'[d].at \notin {"copy", "snapshot", "compare"}
  /\ Past(cmd'[d], doc[d]) => Past(cmd[d], doc[d]) \/ host'.pub

(* A command that is over. *)
LEMMA IdleIsSound ==
  ASSUME NEW d \in Dirs, cmd'[d] = Idle
  PROVE  /\ cmd'[d] \in Cmds /\ Routed(cmd'[d]) /\ Relies(cmd[d], doc[d])'
         /\ cmd'[d].at \notin {"copy", "snapshot", "compare"}
         /\ Past(cmd'[d], doc'[d]) => doc'[d].cur
<1>1. cmd'[d] \in Cmds /\ cmd'[d].at = "idle" /\ cmd'[d].flow = "none"
  BY Blanks
<1> QED
  BY <1>1 DEF Routed, Relies, Past

(* The end of a command, with or without its marker. *)
LEMMA FailMoves ==
  ASSUME Shapes, NEW d \in Dirs, Fail(d)
  PROVE  Moves(d)
<1>1. cmd' = [cmd EXCEPT ![d] = Idle] /\ doc' = doc /\ kept' = kept
  BY DEF Fail, End
<1>2. pend' \in {pend, [pend EXCEPT ![d] = NoPend]}
  BY DEF Fail
<1>3. /\ cmd' = [cmd EXCEPT ![d] = cmd'[d]] /\ cmd'[d] = Idle
      /\ pend' = [pend EXCEPT ![d] = pend'[d]] /\ pend'[d] \in {"none", "deploy", "backup"}
  BY <1>1, <1>2 DEF Shapes, NoPend
<1>4. Past(cmd'[d], doc[d]) => Past(cmd[d], doc[d])
  BY <1>1, <1>3, IdleIsSound DEF Past
<1> QED
  BY <1>1, <1>3, <1>4, IdleIsSound DEF Moves

(* The next label. *)
LEMMA OnFields ==
  ASSUME Shapes, NEW d \in Dirs, NEW label \in Labels, Go(d, label)
  PROVE  /\ cmd' = [cmd EXCEPT ![d] = cmd'[d]] /\ cmd'[d] \in Cmds
         /\ cmd'[d].at = label /\ cmd'[d].flow = cmd[d].flow /\ cmd'[d].doc = cmd[d].doc
         /\ cmd'[d].node = cmd[d].node /\ cmd'[d].arc = cmd[d].arc /\ cmd'[d].copy = cmd[d].copy
BY DEF Go, Shapes, Cmds

(* Going on to a label is in order if the label is one of the command's kind *)
(* and asks nothing of it that it did not have.                              *)
LEMMA OnMoves ==
  ASSUME IInv, NEW d \in Dirs,
         NEW label \in {"probe", "mark", "prepare", "backup", "rebackup", "commit", "remember"},
         On(d, label), cmd[d].at \in Calls,
         \/ label = "probe" /\ cmd[d].flow = "recover"
         \/ label = "mark" /\ cmd[d].flow \in {"install", "restore"} /\ cmd[d].at = "preflight"
         \/ label = "mark" /\ cmd[d].flow = "repair"
         \/ label = "prepare" /\ cmd[d].flow = "repair"
         \/ label = "backup" /\ cmd[d].flow \in {"install", "restore"} /\ cmd[d].at = "prepare"
         \/ label = "rebackup" /\ cmd[d].flow \in {"install", "restore", "recover"}
         \/ label = "commit" /\ cmd[d].flow \in {"install", "restore"} /\ cmd[d].at = "verify"
         \/ label = "remember" /\ cmd[d].at = "reverify"
  PROVE  Moves(d)
<1>1. Shapes /\ doc' = doc /\ pend' = pend /\ kept' = kept /\ label \in Labels /\ Go(d, label)
  BY DEF IInv, On, disk, Labels, Calls
<1>2. /\ cmd' = [cmd EXCEPT ![d] = cmd'[d]] /\ cmd'[d] \in Cmds
      /\ cmd'[d].at = label /\ cmd'[d].flow = cmd[d].flow /\ cmd'[d].doc = cmd[d].doc
      /\ cmd'[d].node = cmd[d].node /\ cmd'[d].arc = cmd[d].arc
  BY <1>1, OnFields
<1>3. Routed(cmd[d]) /\ Relies(cmd[d], doc[d]) /\ doc'[d] = doc[d]
  BY <1>1 DEF IInv
<1>4. Routed(cmd'[d])
  BY <1>2, <1>3, Blanks DEF Routed, Calls
<1>5. Relies(cmd[d], doc[d])'
  BY <1>2, <1>3, Blanks DEF Relies, Routed, Calls
<1>6. cmd'[d].at \notin {"copy", "snapshot", "compare"}
  BY <1>2
<1>7. Past(cmd'[d], doc[d]) => Past(cmd[d], doc[d])
  BY <1>2, <1>3 DEF Past
<1>8. pend' = [pend EXCEPT ![d] = pend'[d]] /\ pend'[d] \in {"none", "deploy", "backup"}
  BY <1>1 DEF Shapes
<1> QED
  BY <1>1, <1>2, <1>4, <1>5, <1>6, <1>7, <1>8 DEF Moves

(* An export that arrived. *)
LEMMA ReceivedMoves ==
  ASSUME IInv, NEW d \in Dirs,
         NEW arc \in Arcs, NEW label \in {"verify", "reverify"}, Received(d, arc, label),
         \/ label = "verify" /\ cmd[d].at = "backup"
         \/ label = "reverify" /\ cmd[d].at = "rebackup",
         arc.pub = host'.pub
  PROVE  Moves(d)
<1>1. /\ Shapes /\ doc' = doc /\ kept' = kept
      /\ cmd' = [cmd EXCEPT ![d].at = label, ![d].arc = arc]
      /\ pend' \in {pend, [pend EXCEPT ![d] = NoPend]}
  BY DEF IInv, Received
<1>2. /\ cmd' = [cmd EXCEPT ![d] = cmd'[d]] /\ cmd'[d] \in Cmds
      /\ cmd'[d].at = label /\ cmd'[d].flow = cmd[d].flow /\ cmd'[d].doc = cmd[d].doc
      /\ cmd'[d].node = cmd[d].node /\ cmd'[d].arc = arc
  <2>1. cmd \in [Dirs -> Cmds] /\ cmd[d] \in Cmds
    BY <1>1 DEF Shapes
  <2>2. /\ cmd' = [cmd EXCEPT ![d] = cmd'[d]]
        /\ cmd'[d] = [cmd[d] EXCEPT !.at = label, !.arc = arc]
    BY <1>1, <2>1, Zenon
  <2>3. label \in Labels
    BY DEF Labels, Calls
  <2> QED
    BY <2>1, <2>2, <2>3 DEF Cmds
<1>3. Routed(cmd[d]) /\ Relies(cmd[d], doc[d]) /\ doc'[d] = doc[d]
  BY <1>1 DEF IInv
<1>4. Routed(cmd'[d])
  BY <1>2, <1>3, Blanks DEF Routed
<1>5. Relies(cmd[d], doc[d])'
  BY <1>2, <1>3, Blanks DEF Relies, Routed
<1>6. cmd'[d].at \notin {"copy", "snapshot", "compare"}
  BY <1>2
<1>7. Past(cmd'[d], doc[d]) => Past(cmd[d], doc[d]) \/ host'.pub
  BY <1>2 DEF Past
<1>8. pend' = [pend EXCEPT ![d] = pend'[d]] /\ pend'[d] \in {"none", "deploy", "backup"}
  BY <1>1 DEF Shapes, NoPend
<1> QED
  BY <1>1, <1>2, <1>4, <1>5, <1>6, <1>7, <1>8 DEF Moves

(* A step that failed: the end, but for a verified backup without outputs. *)
LEMMA RefusedMoves ==
  ASSUME IInv, NEW d \in Dirs, Refused(d)
  PROVE  Moves(d)
<1>1. CASE Fail(d)
  BY <1>1, FailMoves DEF IInv
<1>2. CASE ~Fail(d)
  <2>1. /\ cmd[d].flow = "recover" /\ cmd[d].at = "reverify" /\ UNCHANGED disk
        /\ cmd' = [cmd EXCEPT ![d].at = "remember", ![d].flow = "plain"]
    BY <1>2 DEF Refused
  <2>2. Shapes /\ doc' = doc /\ pend' = pend /\ kept' = kept
    BY <2>1 DEF IInv, disk
  <2>3. /\ cmd' = [cmd EXCEPT ![d] = cmd'[d]] /\ cmd'[d] \in Cmds
        /\ cmd'[d].at = "remember" /\ cmd'[d].flow = "plain" /\ cmd'[d].doc = cmd[d].doc
        /\ cmd'[d].node = cmd[d].node /\ cmd'[d].arc = cmd[d].arc
    BY <2>1, <2>2 DEF Shapes, Cmds, Labels, Flows
  <2>4. Routed(cmd[d]) /\ Relies(cmd[d], doc[d])
    BY DEF IInv
  <2>5. Routed(cmd'[d])
    BY <2>3 DEF Routed
  <2>6. Relies(cmd[d], doc[d])'
    BY <2>1, <2>2, <2>3, <2>4 DEF Relies
  <2>7. Past(cmd'[d], doc[d]) => Past(cmd[d], doc[d])
    BY <2>1, <2>3 DEF Past
  <2>8. pend' = [pend EXCEPT ![d] = pend'[d]] /\ pend'[d] \in {"none", "deploy", "backup"}
    BY <2>2 DEF Shapes
  <2> QED
    BY <2>2, <2>3, <2>5, <2>6, <2>7, <2>8 DEF Moves
<1> QED
  BY <1>1, <1>2

(* An abort that found nothing committed: the marker goes. *)
LEMMA RestoredMoves ==
  ASSUME IInv, NEW d \in Dirs, Restored(d), cmd[d].at = "abort"
  PROVE  Moves(d)
<1>1. Shapes /\ doc' = doc /\ kept' = kept /\ "probe" \in Labels /\ Go(d, "probe")
  BY DEF IInv, Restored, Labels
<1>2. /\ cmd' = [cmd EXCEPT ![d] = cmd'[d]] /\ cmd'[d] \in Cmds
      /\ cmd'[d].at = "probe" /\ cmd'[d].flow = cmd[d].flow
  BY <1>1, OnFields
<1>3. Routed(cmd[d])
  BY DEF IInv
<1>4. cmd[d].flow = "recover"
  BY <1>1, <1>3, Typed, CmdFields, Blanks DEF Routed, Flows
<1>5. Routed(cmd'[d]) /\ Relies(cmd[d], doc[d])'
  BY <1>2, <1>4 DEF Routed, Relies
<1>6. Past(cmd'[d], doc[d]) => Past(cmd[d], doc[d])
  BY <1>2 DEF Past
<1>7. pend' = [pend EXCEPT ![d] = pend'[d]] /\ pend'[d] \in {"none", "deploy", "backup"}
  BY <1>1 DEF Shapes, Restored, NoPend
<1> QED
  BY <1>1, <1>2, <1>5, <1>6, <1>7 DEF Moves

(* The answer to a call, whatever it is. *)
LEMMA DeliveredMoves ==
  ASSUME IInv, NEW d \in Dirs, NEW a, Proper(Request(d), a), host' = a.host, cmd[d].at \in Calls,
         Delivered(d, a)
  PROVE  Moves(d)
<1>1. a.arc \in Arcs
  BY DEF Proper
<1>2. Request(d).op = cmd[d].at
  BY DEF Request
<1>3. cmd[d].flow \in Flows /\ Routed(cmd[d])
  BY Typed, CmdFields DEF IInv
<1>4. CASE Refused(d)
  BY <1>1, <1>4, RefusedMoves
<1>5. CASE cmd[d].flow = "repair" /\ RepairGoesOn(d, a)
  BY <1>1, <1>5, OnMoves, FailMoves DEF RepairGoesOn, IInv
<1>6. CASE cmd[d].at = "preflight" /\ On(d, "mark")
  <2>1. cmd[d].flow \in {"install", "restore"}
    BY <1>3, <1>6, Blanks DEF Routed, Flows
  <2> QED
    BY <1>1, <1>6, <2>1, OnMoves
<1>7. CASE cmd[d].at = "prepare" /\ cmd[d].flow # "repair" /\ (On(d, "backup") \/ On(d, "rebackup"))
  <2>1. cmd[d].flow \in {"install", "restore"}
    BY <1>3, <1>7, Blanks DEF Routed, Flows
  <2> QED
    BY <1>1, <1>7, <2>1, OnMoves
<1>8. CASE cmd[d].at = "backup" /\ a.is = "done" /\ Received(d, a.arc, "verify")
  BY <1>1, <1>2, <1>8, ReceivedMoves DEF Proper
<1>9. CASE cmd[d].at = "rebackup" /\ a.is = "done" /\ Received(d, a.arc, "reverify")
  BY <1>1, <1>2, <1>9, ReceivedMoves DEF Proper
<1>10. CASE cmd[d].at = "verify" /\ On(d, "commit")
  <2>1. cmd[d].flow \in {"install", "restore"}
    BY <1>3, <1>10, Blanks DEF Routed, Flows
  <2> QED
    BY <1>1, <1>10, <2>1, OnMoves
<1>11. CASE cmd[d].at = "commit" /\ On(d, "rebackup")
  <2>1. cmd[d].flow \in {"install", "restore"}
    BY <1>3, <1>11, Blanks DEF Routed, Flows
  <2> QED
    BY <1>1, <1>11, <2>1, OnMoves
<1>12. CASE cmd[d].at = "reverify" /\ On(d, "remember")
  BY <1>1, <1>12, OnMoves
<1>13. CASE cmd[d].at = "abort" /\ End(d) /\ UNCHANGED disk
  <2>1. /\ cmd' = [cmd EXCEPT ![d] = cmd'[d]] /\ cmd'[d] = Idle
        /\ doc' = doc /\ kept' = kept /\ pend' = pend
    BY <1>13 DEF End, disk, IInv, Shapes
  <2>2. pend' = [pend EXCEPT ![d] = pend'[d]] /\ pend'[d] \in {"none", "deploy", "backup"}
    BY <2>1 DEF IInv, Shapes
  <2>3. Past(cmd'[d], doc[d]) => Past(cmd[d], doc[d])
    BY <2>1, IdleIsSound DEF Past
  <2> QED
    BY <2>1, <2>2, <2>3, IdleIsSound DEF Moves
<1>14. CASE cmd[d].at = "abort" /\ Restored(d)
  BY <1>1, <1>14, RestoredMoves
<1>15. CASE cmd[d].at = "abort" /\ On(d, "rebackup")
  <2>1. cmd[d].flow = "recover"
    BY <1>3, <1>15, Blanks DEF Routed, Flows
  <2> QED
    BY <1>1, <1>15, <2>1, OnMoves
<1> QED
  BY <1>4, <1>5, <1>6, <1>7, <1>8, <1>9, <1>10, <1>11, <1>12, <1>13, <1>14, <1>15 DEF Delivered

(* A command's call is a request. *)
LEMMA RequestTyped ==
  ASSUME IInv, NEW d \in Dirs, cmd[d].at \in Calls
  PROVE  /\ Request(d) \in Requests /\ Request(d).op = cmd[d].at /\ Request(d).by = d
         /\ Request(d).arc = cmd[d].arc
<1>1. cmd[d].doc.owner \in Dirs
  BY DEF IInv, Relies, Calls
<1> QED
  BY <1>1, Typed, CmdFields DEF IInv, Request, Requests

(* A call spares every directory that did not make it; and its own unless it *)
(* can make or publish a candidate.                                          *)
LEMMA CallSpares ==
  ASSUME IInv, NEW c \in Requests, NEW a, Proper(c, a), host' = a.host, late' \subseteq late,
         NEW e \in Dirs, c.by # e \/ ~Opening(c)
  PROVE  Spares(e)
<1>1. host.pub => host'.pub
  BY DEF Proper
<1>2. ASSUME Clear(e, host, late) PROVE Clear(e, host', late')
  BY <1>2 DEF Clear, Proper
<1> QED
  BY <1>1, <1>2 DEF Spares

(* A call of a command, answered or not, leaves the command in order. *)
LEMMA CallMoves ==
  ASSUME IInv, NEW d \in Dirs, Call(d)
  PROVE  Moves(d)
<1>1. PICK a \in Answers(Request(d)) : host' = a.host /\ (Delivered(d, a) \/ Fail(d))
  BY DEF Call
<1>2. cmd[d].at \in Calls
  BY DEF Call
<1>3. Proper(Request(d), a)
  BY <1>2, RequestTyped, AnswersAreProper DEF IInv
<1> QED
  BY <1>1, <1>2, <1>3, DeliveredMoves, FailMoves DEF IInv

(* A call of a command and its answer. *)
LEMMA CallKeeps ==
  ASSUME IInv, NEW d \in Dirs, Call(d)
  PROVE  IInv'
<1>1. PICK a \in Answers(Request(d)) : host' = a.host
  BY DEF Call
<1>2. cmd[d].at \in Calls /\ UNCHANGED <<lock, live, moments, late>>
  BY DEF Call, pulling
<1>3. Request(d) \in Requests /\ Proper(Request(d), a)
  BY <1>2, RequestTyped, AnswersAreProper DEF IInv
<1>4. Moves(d)
  BY CallMoves
<1>5. host' \in Hosts /\ WholePlace(host') /\ (host.pub => host'.pub)
  BY <1>1, <1>3 DEF Proper
<1>6. /\ cmd' \in [Dirs -> Cmds] /\ doc' = doc /\ kept' = kept
      /\ pend' \in [Dirs -> {"none", "deploy", "backup"}]
      /\ \A e \in Dirs \ {d} : cmd'[e] = cmd[e] /\ doc'[e] = doc[e]
  BY <1>4 DEF Moves, IInv, Shapes
<1>7. Shapes'
  BY <1>2, <1>5, <1>6 DEF IInv, Shapes
<1>8. Collecting'
  <2>1. Collecting /\ \A e \in Dirs : cmd'[e].at \in {"copy", "snapshot", "compare"} => cmd'[e] = cmd[e]
    BY <1>4, <1>6 DEF IInv, Moves
  <2> QED
    BY <1>2, <2>1 DEF Collecting
<1>9. \A e \in Dirs \ {d} : Spares(e)
  BY <1>1, <1>2, <1>3, CallSpares, RequestTyped
<1>10. doc[d].cur \/ doc[d] = NoDoc \/ cmd[d].at \in {"reverify", "remember"} => Spares(d)
  <2>1. Routed(cmd[d]) /\ Relies(cmd[d], doc[d]) /\ cmd[d].flow \in Flows
    BY Typed, CmdFields DEF IInv
  <2>2. doc[d].cur \/ doc[d] = NoDoc \/ cmd[d].at \in {"reverify", "remember"} => ~Opening(Request(d))
    BY <2>1, Blanks DEF Routed, Relies, Flows, Opening, Request
  <2> QED
    BY <1>1, <1>2, <1>3, <2>2, CallSpares
<1>11. ASSUME Past(cmd'[d], doc'[d]) PROVE host'.pub \/ Clear(d, host', late')
  <2>1. CASE Past(cmd[d], doc[d])
    <3>1. host.pub \/ Clear(d, host, late)
      BY <2>1 DEF IInv, Cleared
    <3>2. Spares(d)
      BY <1>10, <2>1 DEF Past
    <3> QED
      BY <3>1, <3>2 DEF Spares
  <2>2. CASE ~Past(cmd[d], doc[d])
    BY <1>4, <1>6, <1>11, <2>2 DEF Moves
  <2> QED
    BY <2>1, <2>2
<1>12. doc'[d] = NoDoc => Clear(d, host', late')
  BY <1>6, <1>10 DEF IInv, Cleared, Spares
<1>13. Routed(cmd'[d]) /\ Relies(cmd[d], doc[d])' /\ Sound(doc'[d])
  BY <1>4, <1>6 DEF Moves, IInv
<1> QED
  BY <1>5, <1>6, <1>7, <1>8, <1>9, <1>11, <1>12, <1>13, DirectoryStep

(* The call of a dead command. *)
LEMMA ServeLateKeeps ==
  ASSUME IInv, ServeLate
  PROVE  IInv'
<1>1. PICK c \in late : \E a \in Answers(c) : host' = a.host /\ late' = late \ {c}
  BY DEF ServeLate
<1>2. PICK a \in Answers(c) : host' = a.host /\ late' = late \ {c}
  BY <1>1
<1>3. c \in Requests /\ UNCHANGED <<lock, live, moments, cmd, doc, pend, kept>>
  BY Typed DEF IInv, ServeLate, pulling, disk
<1>4. Proper(c, a)
  BY <1>3, AnswersAreProper DEF IInv
<1>5. host' \in Hosts /\ WholePlace(host')
  BY <1>2, <1>4 DEF Proper
<1>6. Shapes'
  BY <1>2, <1>3, <1>5 DEF IInv, Shapes
<1>7. ASSUME NEW e \in Dirs PROVE Spares(e)
  <2>1. CASE c.by # e \/ ~Opening(c)
    BY <1>2, <1>3, <1>4, <2>1, CallSpares
  <2>2. CASE c.by = e /\ Opening(c)
    <3>1. ~Clear(e, host, late)
      BY <1>1, <2>2 DEF Clear
    <3> QED
      BY <1>2, <1>4, <3>1 DEF Spares, Proper
  <2> QED
    BY <2>1, <2>2
<1> QED
  BY <1>3, <1>5, <1>6, <1>7, HostStep

-----------------------------------------------------------------------------
(* One lemma per action of a directory *)

(* A killed command: its lock goes, its call may stay. *)
LEMMA KillKeeps ==
  ASSUME IInv, NEW d \in Dirs, Kill(d)
  PROVE  IInv'
<1>1. /\ cmd[d].at # "idle" /\ cmd' = [cmd EXCEPT ![d] = Idle] /\ host' = host
      /\ doc' = doc /\ pend' = pend /\ kept' = kept
      /\ late' \in {late, late \cup (IF cmd[d].at \in {"prepare", "backup", "rebackup", "commit", "abort"}
                                     THEN {Request(d)} ELSE {})}
      /\ IF lock = d THEN Release ELSE UNCHANGED pulling
  BY DEF Kill, End, disk
<1>2. /\ \A e \in Dirs \ {d} : cmd'[e] = cmd[e] /\ doc'[e] = doc[e]
      /\ cmd'[d] = Idle /\ cmd' \in [Dirs -> Cmds]
  BY <1>1, Blanks DEF IInv, Shapes
<1>3. ASSUME NEW c \in late', c \notin late
      PROVE  c = Request(d) /\ c \in Requests /\ c.op = cmd[d].at /\ c.by = d /\ c.arc = cmd[d].arc
  <2>1. c = Request(d) /\ cmd[d].at \in Calls
    BY <1>1, <1>3 DEF Calls
  <2> QED
    BY <2>1, RequestTyped
<1>4. (lock' = lock /\ live' = live /\ moments' = moments)
        \/ (lock = d /\ lock' = Nobody /\ live' = Never /\ moments' = {})
  BY <1>1 DEF Release, pulling
<1>5. Shapes'
  <2>1. lock' \in Owners /\ live' \in Versions /\ moments' \subseteq Versions
    BY <1>4, Blanks DEF IInv, Shapes, Owners
  <2>2. late' \subseteq Requests
    BY <1>3, Typed DEF IInv
  <2> QED
    BY <1>1, <1>2, <2>1, <2>2 DEF IInv, Shapes
<1>6. Collecting'
  <2>1. Collecting /\ cmd'[d].at = "idle"
    BY <1>2, Blanks DEF IInv
  <2>2. CASE lock' = lock /\ live' = live /\ moments' = moments
    BY <1>2, <2>1, <2>2 DEF Collecting
  <2>3. CASE lock = d /\ lock' = Nobody /\ live' = Never /\ moments' = {}
    <3>1. ASSUME NEW e \in Dirs PROVE cmd'[e].at \notin {"copy", "snapshot", "compare"}
      BY <1>2, <2>1, <2>3 DEF Collecting
    <3> QED
      BY <2>3, <3>1 DEF Collecting
  <2> QED
    BY <1>4, <2>2, <2>3
<1>7. Relies(cmd[d], doc[d]) /\ Routed(cmd[d]) /\ cmd[d].flow \in Flows
  BY Typed, CmdFields DEF IInv
<1>8. doc[d].cur \/ doc[d] = NoDoc => ~Opening(Request(d))
  BY <1>7, Blanks DEF Relies, Routed, Flows, Opening, Request
<1>9. (doc[d].cur \/ doc[d] = NoDoc) /\ Clear(d, host, late) => Clear(d, host', late')
  BY <1>1, <1>3, <1>8 DEF Clear
<1>10. Past(cmd'[d], doc'[d]) => host'.pub \/ Clear(d, host', late')
  <2>1. Past(cmd'[d], doc'[d]) => doc[d].cur
    BY <1>1, <1>2, IdleIsSound
  <2>2. doc[d].cur => host.pub \/ Clear(d, host, late)
    BY DEF IInv, Cleared, Past
  <2> QED
    BY <1>1, <1>9, <2>1, <2>2
<1>11. doc'[d] = NoDoc => Clear(d, host', late')
  BY <1>1, <1>9 DEF IInv, Cleared
<1>12. \A e \in Dirs \ {d} : Spares(e)
  BY <1>1, <1>3 DEF Spares, Clear
<1>13. Routed(cmd'[d]) /\ Relies(cmd[d], doc[d])' /\ Sound(doc'[d])
  BY <1>1, <1>2, IdleIsSound DEF IInv
<1>14. WholePlace(host')
  BY <1>1 DEF IInv
<1> QED
  BY <1>2, <1>5, <1>6, <1>10, <1>11, <1>12, <1>13, <1>14, DirectoryStep

(* A step that ends or begins nothing of the command but its label. *)
LEMMA MarkKeeps ==
  ASSUME IInv, NEW d \in Dirs, Mark(d)
  PROVE  IInv'
<1>1. /\ cmd[d].at = "mark" /\ UNCHANGED remoteSide /\ kept' = kept /\ doc' = doc /\ Shapes
      /\ Go(d, IF cmd[d].flow = "repair" THEN "rebackup" ELSE "own")
      /\ pend' = [pend EXCEPT ![d] = IF cmd[d].flow = "repair" THEN "backup" ELSE "deploy"]
  BY DEF Mark, Working, IInv
<1>2. /\ cmd' = [cmd EXCEPT ![d] = cmd'[d]] /\ cmd'[d] \in Cmds
      /\ cmd'[d].at = (IF cmd[d].flow = "repair" THEN "rebackup" ELSE "own")
      /\ cmd'[d].flow = cmd[d].flow /\ cmd'[d].doc = cmd[d].doc
      /\ cmd'[d].node = cmd[d].node /\ cmd'[d].arc = cmd[d].arc
  BY <1>1, OnFields DEF Labels, Calls
<1>3. /\ pend' = [pend EXCEPT ![d] = pend'[d]] /\ pend'[d] \in {"none", "deploy", "backup"}
      /\ doc' = [doc EXCEPT ![d] = doc'[d]] /\ doc'[d] = doc[d] /\ doc'[d] \in Docs
  BY <1>1 DEF Shapes, remoteSide
<1>4. Routed(cmd[d]) /\ Relies(cmd[d], doc[d]) /\ Sound(doc[d])
  BY DEF IInv
<1>5. Routed(cmd'[d])
  BY <1>1, <1>2, <1>4, Blanks DEF Routed
<1>6. Relies(cmd[d], doc[d])'
  BY <1>1, <1>2, <1>3, <1>4, Blanks DEF Relies, Routed
<1>7. Past(cmd'[d], doc'[d]) => Past(cmd[d], doc[d])
  BY <1>2, <1>3 DEF Past
<1> QED
  BY <1>1, <1>2, <1>3, <1>4, <1>5, <1>6, <1>7, LocalStep

(* The ownership is written before the host is asked. *)
LEMMA OwnKeeps ==
  ASSUME IInv, NEW d \in Dirs, Own(d)
  PROVE  IInv'
<1>1. /\ cmd[d].at = "own" /\ UNCHANGED remoteSide /\ kept' = kept /\ pend' = pend /\ Shapes
      /\ Go(d, "prepare") /\ doc' = [doc EXCEPT ![d] = cmd[d].doc]
  BY DEF Own, Working, IInv
<1>2. /\ cmd' = [cmd EXCEPT ![d] = cmd'[d]] /\ cmd'[d] \in Cmds
      /\ cmd'[d].at = "prepare" /\ cmd'[d].flow = cmd[d].flow /\ cmd'[d].doc = cmd[d].doc
      /\ cmd'[d].node = cmd[d].node /\ cmd'[d].arc = cmd[d].arc
  BY <1>1, OnFields DEF Labels, Calls
<1>3. /\ pend' = [pend EXCEPT ![d] = pend'[d]] /\ pend'[d] \in {"none", "deploy", "backup"}
      /\ doc' = [doc EXCEPT ![d] = doc'[d]] /\ doc'[d] = cmd[d].doc /\ doc'[d] \in Docs
  BY <1>1, Typed, CmdFields DEF Shapes
<1>4. Routed(cmd[d]) /\ Relies(cmd[d], doc[d])
  BY DEF IInv
<1>5. cmd[d].flow \in {"install", "restore"}
  BY <1>1, <1>4, Typed, CmdFields, Blanks DEF Routed, Flows
<1>6. doc'[d].owner \in Dirs /\ doc'[d] # NoDoc /\ ~doc'[d].cur /\ doc'[d].node = 0
  BY <1>1, <1>3, <1>4, <1>5, Blanks DEF Relies
<1>7. Routed(cmd'[d])
  BY <1>2, <1>5 DEF Routed
<1>8. Relies(cmd[d], doc[d])'
  BY <1>2, <1>3, <1>5, <1>6 DEF Relies
<1>9. Sound(doc'[d])
  BY <1>6 DEF Sound
<1>10. ~Past(cmd'[d], doc'[d])
  BY <1>2, <1>6 DEF Past
<1> QED
  BY <1>1, <1>2, <1>3, <1>6, <1>7, <1>8, <1>9, <1>10, LocalStep

(* What is remembered is an archive of the owner's published node. *)
LEMMA RememberedIsSound ==
  ASSUME IInv, NEW d \in Dirs, cmd[d].at = "remember", Acceptable(d)
  PROVE  /\ Remembered(d) \in Docs /\ Sound(Remembered(d)) /\ Remembered(d).cur
         /\ Remembered(d).owner = cmd[d].doc.owner /\ Remembered(d).arc = cmd[d].arc
         /\ Remembered(d) # NoDoc
         /\ Past(cmd[d], doc[d]) \/ doc[d] = NoDoc
<1>1. /\ cmd[d] \in Cmds /\ Relies(cmd[d], doc[d]) /\ Routed(cmd[d])
      /\ cmd[d].arc.pub /\ cmd[d].arc.owner = cmd[d].doc.owner
  BY Typed DEF IInv, Acceptable
<1>2. cmd[d].doc.owner \in Dirs /\ cmd[d].flow \in Flows /\ cmd[d].arc \in Arcs /\ cmd[d].node \in 0..MaxNodes
  BY <1>1, CmdFields DEF Relies
<1>3. /\ Remembered(d).owner = cmd[d].doc.owner /\ Remembered(d).cur = TRUE
      /\ Remembered(d).arc = cmd[d].arc
      /\ Remembered(d).node = (IF cmd[d].flow = "attach" THEN cmd[d].node ELSE 0)
      /\ Remembered(d).gen \in BOOLEAN
  BY DEF Remembered
<1>4. Remembered(d) \in Docs
  BY <1>2 DEF Remembered, Docs, Owners
<1>5. cmd[d].flow = "attach" => cmd[d].arc.node = cmd[d].node
  BY <1>1 DEF Relies
<1>6. Sound(Remembered(d)) /\ Remembered(d) # NoDoc
  BY <1>1, <1>2, <1>3, <1>5, Blanks DEF Sound
<1>7. Past(cmd[d], doc[d]) \/ doc[d] = NoDoc
  BY <1>1, <1>2, Blanks DEF Past, Relies, Routed, Flows
<1> QED
  BY <1>3, <1>4, <1>6, <1>7

(* state.json is replaced, or the write fails before or after that. *)
LEMMA RememberKeeps ==
  ASSUME IInv, NEW d \in Dirs, Remember(d)
  PROVE  IInv'
<1>1. /\ cmd[d].at = "remember" /\ UNCHANGED remoteSide /\ pend' = pend /\ Shapes /\ Acceptable(d)
  BY DEF Remember, Working, IInv
<1>2. kept' = kept
  <2>1. \E b \in BOOLEAN : kept' = [kept EXCEPT ![d] = KeptAfter(d, b)] \/ kept' = [kept EXCEPT ![d] = TRUE]
    BY DEF Remember
  <2>2. \A b \in BOOLEAN : KeptAfter(d, b) = TRUE
    BY <1>1 DEF Shapes, KeptAfter
  <2> QED
    BY <1>1, <2>1, <2>2 DEF Shapes
<1>3. doc' \in {doc, [doc EXCEPT ![d] = Remembered(d)]}
  BY DEF Remember
<1>4. (doc' = [doc EXCEPT ![d] = Remembered(d)] /\ Go(d, "unlink")) \/ End(d)
  BY DEF Remember
<1>5. /\ Remembered(d) \in Docs /\ Sound(Remembered(d)) /\ Remembered(d) # NoDoc
      /\ Past(cmd[d], doc[d]) \/ doc[d] = NoDoc
  BY <1>1, RememberedIsSound
<1>6. /\ pend' = [pend EXCEPT ![d] = pend'[d]] /\ pend'[d] \in {"none", "deploy", "backup"}
      /\ doc' = [doc EXCEPT ![d] = doc'[d]] /\ doc'[d] \in Docs /\ Sound(doc'[d])
      /\ doc[d] # NoDoc => doc'[d] # NoDoc
  BY <1>1, <1>3, <1>5 DEF Shapes, IInv
<1>7. CASE End(d)
  <2>1. cmd' = [cmd EXCEPT ![d] = cmd'[d]] /\ cmd'[d] = Idle
    BY <1>1, <1>7 DEF End, Shapes
  <2> QED
    BY <1>1, <1>2, <1>5, <1>6, <2>1, IdleIsSound, LocalStep
<1>8. CASE doc' = [doc EXCEPT ![d] = Remembered(d)] /\ Go(d, "unlink")
  <2>1. /\ cmd' = [cmd EXCEPT ![d] = cmd'[d]] /\ cmd'[d] \in Cmds
        /\ cmd'[d].at = "unlink" /\ cmd'[d].flow = cmd[d].flow /\ cmd'[d].doc = cmd[d].doc
    BY <1>1, <1>8, OnFields DEF Labels
  <2>2. Routed(cmd[d]) /\ Relies(cmd[d], doc[d])
    BY DEF IInv
  <2>3. Routed(cmd'[d])
    BY <1>1, <2>1, <2>2, Blanks DEF Routed
  <2>4. Relies(cmd[d], doc[d])'
    BY <1>1, <2>1, <2>2 DEF Relies
  <2> QED
    BY <1>1, <1>2, <1>5, <1>6, <2>1, <2>3, <2>4, LocalStep
<1> QED
  BY <1>4, <1>7, <1>8

(* A step that fails without the host. *)
LEMMA FailKeeps ==
  ASSUME IInv, NEW d \in Dirs, Fail(d), UNCHANGED remoteSide
  PROVE  IInv'
<1>1. Moves(d) /\ Shapes
  BY FailMoves DEF IInv
<1>2. /\ cmd' = [cmd EXCEPT ![d] = cmd'[d]] /\ cmd'[d] = Idle
      /\ doc' = [doc EXCEPT ![d] = doc'[d]] /\ doc'[d] = doc[d] /\ doc[d] \in Docs
      /\ kept' = kept
  BY <1>1 DEF Fail, End, Shapes
<1>3. pend' = [pend EXCEPT ![d] = pend'[d]] /\ pend'[d] \in {"none", "deploy", "backup"}
  BY <1>1 DEF Moves
<1>4. Sound(doc'[d])
  BY <1>2 DEF IInv
<1>5. Past(cmd'[d], doc'[d]) => Past(cmd[d], doc[d])
  BY <1>2, IdleIsSound DEF Past
<1> QED
  BY <1>2, <1>3, <1>4, <1>5, IdleIsSound, LocalStep

(* An archive that is not acceptable ends the command. *)
LEMMA RememberRefusedKeeps ==
  ASSUME IInv, NEW d \in Dirs, RememberRefused(d)
  PROVE  IInv'
BY FailKeeps DEF RememberRefused

(* The marker goes. *)
LEMMA UnlinkKeeps ==
  ASSUME IInv, NEW d \in Dirs, Unlink(d)
  PROVE  IInv'
<1>1. /\ cmd[d].at = "unlink" /\ UNCHANGED remoteSide /\ kept' = kept /\ doc' = doc /\ Shapes
      /\ pend' = [pend EXCEPT ![d] = NoPend]
      /\ (cmd[d].flow = "recover" /\ Go(d, "probe")) \/ End(d)
  BY DEF Unlink, Working, IInv
<1>2. /\ pend' = [pend EXCEPT ![d] = pend'[d]] /\ pend'[d] \in {"none", "deploy", "backup"}
      /\ doc' = [doc EXCEPT ![d] = doc'[d]] /\ doc'[d] = doc[d] /\ doc'[d] \in Docs /\ Sound(doc'[d])
  BY <1>1 DEF Shapes, NoPend, IInv
<1>3. CASE End(d)
  <2>1. cmd' = [cmd EXCEPT ![d] = cmd'[d]] /\ cmd'[d] = Idle
    BY <1>1, <1>3 DEF End, Shapes
  <2>2. Past(cmd'[d], doc'[d]) => Past(cmd[d], doc[d])
    BY <1>2, <2>1, IdleIsSound DEF Past
  <2> QED
    BY <1>1, <1>2, <2>1, <2>2, IdleIsSound, LocalStep
<1>4. CASE cmd[d].flow = "recover" /\ Go(d, "probe")
  <2>1. /\ cmd' = [cmd EXCEPT ![d] = cmd'[d]] /\ cmd'[d] \in Cmds
        /\ cmd'[d].at = "probe" /\ cmd'[d].flow = "recover"
    BY <1>1, <1>4, OnFields DEF Labels
  <2>2. Routed(cmd'[d]) /\ Relies(cmd[d], doc[d])'
    BY <2>1 DEF Routed, Relies
  <2>3. Past(cmd'[d], doc'[d]) => Past(cmd[d], doc[d])
    BY <1>2, <2>1 DEF Past
  <2> QED
    BY <1>1, <1>2, <2>1, <2>2, <2>3, LocalStep
<1> QED
  BY <1>1, <1>3, <1>4

-----------------------------------------------------------------------------
(* The beginning of a command, and what setup.sh decides *)

(* A command of each kind begins in order. *)
LEMMA TakeKeeps ==
  ASSUME IInv, NEW d \in Dirs, NEW flow, NEW label, NEW saved \in Docs,
         Take(d, flow, label, saved), UNCHANGED <<remoteSide, disk>>,
         \/ label = "probe" /\ flow = "ensure"
         \/ label = "abort" /\ flow = "recover" /\ saved.owner \in Dirs
         \/ /\ label = "preflight" /\ flow \in {"install", "restore"} /\ ~doc[d].cur
            /\ saved.owner \in Dirs /\ ~saved.cur /\ saved.node = 0
         \/ /\ label = "status" /\ flow = "repair" /\ saved.owner \in Dirs
            /\ (doc[d] = NoDoc \/ doc[d].cur)
         \/ label = "info" /\ flow = "attach" /\ saved = doc[d] /\ (doc[d] = NoDoc \/ doc[d].cur)
  PROVE  IInv'
<1>1. /\ UNCHANGED remoteSide /\ kept' = kept /\ doc' = doc /\ pend' = pend /\ Shapes
      /\ label \in Labels /\ flow \in Flows
  BY DEF IInv, disk, Labels, Flows, Calls
<1>2. [Idle EXCEPT !.at = label, !.flow = flow, !.doc = saved] \in Cmds
  BY <1>1, Blanks DEF Cmds
<1>3. /\ cmd' = [cmd EXCEPT ![d] = cmd'[d]]
      /\ cmd'[d] = [Idle EXCEPT !.at = label, !.flow = flow, !.doc = saved]
  BY <1>1 DEF Take, Shapes
<1>4. cmd'[d] \in Cmds /\ cmd'[d].at = label /\ cmd'[d].flow = flow /\ cmd'[d].doc = saved
  BY <1>2, <1>3 DEF Idle
<1>5. /\ pend' = [pend EXCEPT ![d] = pend'[d]] /\ pend'[d] \in {"none", "deploy", "backup"}
      /\ doc' = [doc EXCEPT ![d] = doc'[d]] /\ doc'[d] = doc[d] /\ doc'[d] \in Docs /\ Sound(doc'[d])
  BY <1>1 DEF Shapes, IInv
<1>6. Routed(cmd'[d])
  BY <1>4 DEF Routed
<1>7. Relies(cmd[d], doc[d])'
  BY <1>4, <1>5 DEF Relies
<1>8. Past(cmd'[d], doc'[d]) => Past(cmd[d], doc[d])
  BY <1>4, <1>5 DEF Past
<1> QED
  BY <1>1, <1>3, <1>4, <1>5, <1>6, <1>7, <1>8, LocalStep

(* A command that ends or does not begin, at the end of a probe. *)
LEMMA EndKeeps ==
  ASSUME IInv, NEW d \in Dirs, End(d), UNCHANGED <<remoteSide, disk>>
  PROVE  IInv'
<1>1. Shapes /\ kept' = kept /\ UNCHANGED remoteSide
  BY DEF IInv, disk
<1>2. /\ cmd' = [cmd EXCEPT ![d] = cmd'[d]] /\ cmd'[d] = Idle
      /\ doc' = [doc EXCEPT ![d] = doc'[d]] /\ doc'[d] = doc[d] /\ doc[d] \in Docs
      /\ pend' = [pend EXCEPT ![d] = pend'[d]] /\ pend'[d] \in {"none", "deploy", "backup"}
  BY <1>1 DEF End, disk, Shapes
<1>3. Sound(doc'[d])
  BY <1>2 DEF IInv
<1>4. Past(cmd'[d], doc'[d]) => Past(cmd[d], doc[d])
  BY <1>2, IdleIsSound DEF Past
<1> QED
  BY <1>1, <1>2, <1>3, <1>4, IdleIsSound, LocalStep

(* setup.sh begins with its pending work, or with the probe. *)
LEMMA EnsureStartKeeps ==
  ASSUME IInv, NEW d \in Dirs, EnsureStart(d)
  PROVE  IInv'
<1>1. UNCHANGED <<remoteSide, disk>> /\ doc[d] \in Docs /\ Sound(doc[d])
  BY Typed DEF EnsureStart, IInv
<1>2. CASE ~LocallyBound(d)
  BY <1>1, <1>2, EndKeeps DEF EnsureStart
<1>3. CASE LocallyBound(d) /\ pend[d] # NoPend
  <2>1. Take(d, "recover", "abort", doc[d])
    BY <1>3 DEF EnsureStart, Take
  <2>2. doc[d].owner \in Dirs
    BY <1>1, <1>3 DEF LocallyBound, Sound
  <2> QED
    BY <1>1, <2>1, <2>2, TakeKeeps
<1>4. CASE LocallyBound(d) /\ pend[d] = NoPend
  <2>1. Take(d, "ensure", "probe", doc[d])
    BY <1>4 DEF EnsureStart, Take
  <2> QED
    BY <1>1, <2>1, TakeKeeps
<1> QED
  BY <1>2, <1>3, <1>4

(* What is known of the node without a document. *)
LEMMA FoundIsDoc ==
  ASSUME IInv, host.root
  PROVE  Found \in Docs /\ Found.owner = host.owner /\ Found.owner \in Dirs
<1>1. host.owner \in Dirs
  BY Typed DEF IInv, WholePlace, Owners
<1> QED
  BY <1>1, Blanks DEF Found, Docs, Owners

(* setup.sh waits, installs, repairs, attaches or refuses. *)
LEMMA DecideKeeps ==
  ASSUME IInv, NEW d \in Dirs, Decide(d)
  PROVE  IInv'
<1>1. UNCHANGED <<remoteSide, disk>> /\ doc[d] \in Docs /\ Sound(doc[d])
  BY Typed DEF Decide, IInv
<1>2. CASE End(d)
  BY <1>1, <1>2, EndKeeps
<1>3. CASE Installs(d) /\ Install(d)
  <2> DEFINE saved == IF doc[d] = NoDoc THEN [NoDoc EXCEPT !.owner = d] ELSE doc[d]
  <2>1. [NoDoc EXCEPT !.owner = d] \in Docs /\ [NoDoc EXCEPT !.owner = d].owner = d
        /\ ~[NoDoc EXCEPT !.owner = d].cur /\ [NoDoc EXCEPT !.owner = d].node = 0
    BY Blanks DEF NoDoc, Docs, Owners
  <2>2. ~doc[d].cur
    BY <1>3 DEF Installs
  <2>3. saved \in Docs /\ saved.owner \in Dirs /\ ~saved.cur /\ saved.node = 0
    BY <1>1, <2>1, <2>2, DocFields DEF Sound
  <2>4. Take(d, "install", "preflight", saved)
    BY <1>3 DEF Install
  <2> QED
    BY <1>1, <2>2, <2>3, <2>4, TakeKeeps
<1>4. CASE Kind = "owned" /\ Belongs(d) /\ Take(d, "repair", "status", IF doc[d] = NoDoc THEN Found ELSE doc[d])
  <2> DEFINE saved == IF doc[d] = NoDoc THEN Found ELSE doc[d]
  <2>1. host.root /\ (doc[d] = NoDoc \/ doc[d].cur)
    BY <1>4 DEF Kind, Empty, Belongs
  <2>2. saved \in Docs /\ saved.owner \in Dirs
    BY <1>1, <2>1, FoundIsDoc DEF Sound
  <2> QED
    BY <1>1, <1>4, <2>1, <2>2, TakeKeeps
<1>5. CASE Belongs(d) /\ Take(d, "attach", "info", doc[d])
  BY <1>1, <1>5, TakeKeeps DEF Belongs
<1> QED
  BY <1>2, <1>3, <1>4, <1>5 DEF Decide

(* A restore takes the owner of another directory's archive. *)
LEMMA RestoreKeeps ==
  ASSUME IInv, NEW d \in Dirs, Restore(d)
  PROVE  IInv'
<1>1. /\ doc[d] = NoDoc /\ UNCHANGED <<remoteSide, disk>>
      /\ \E e \in {e \in Dirs : doc[e].arc # NoArc} :
           Take(d, "restore", "preflight", [NoDoc EXCEPT !.owner = doc[e].owner, !.arc = doc[e].arc])
  BY DEF Restore
<1>2. PICK e \in Dirs : /\ doc[e].arc # NoArc
                        /\ Take(d, "restore", "preflight", [NoDoc EXCEPT !.owner = doc[e].owner, !.arc = doc[e].arc])
  BY <1>1
<1> DEFINE saved == [NoDoc EXCEPT !.owner = doc[e].owner, !.arc = doc[e].arc]
<1>3. doc[e] \in Docs /\ Sound(doc[e]) /\ NoDoc.arc = NoArc
  BY Typed DEF IInv, NoDoc
<1>4. doc[e].owner \in Dirs
  BY <1>2, <1>3 DEF Sound
<1>5. saved \in Docs /\ saved.owner \in Dirs /\ ~saved.cur /\ saved.node = 0
  BY <1>3, <1>4, Blanks, DocFields DEF NoDoc, Docs
<1> QED
  BY <1>1, <1>2, <1>5, Blanks, TakeKeeps

(* connect, of an empty directory or one with a node. *)
LEMMA ConnectKeeps ==
  ASSUME IInv, NEW d \in Dirs, Connect(d)
  PROVE  IInv'
BY Typed, TakeKeeps DEF Connect, IInv

-----------------------------------------------------------------------------
(* The collection of an archive from the running node *)

(* The node that answers is the one the directory has. *)
LEMMA InfoKeeps ==
  ASSUME IInv, NEW d \in Dirs, Info(d)
  PROVE  IInv'
<1>1. /\ cmd[d].at = "info" /\ UNCHANGED remoteSide /\ Shapes
      /\ Routed(cmd[d]) /\ Relies(cmd[d], doc[d]) /\ Sound(doc[d])
      /\ cmd[d] \in Cmds /\ doc[d] \in Docs /\ cmd[d].flow \in Flows
  BY Typed, CmdFields DEF IInv, Info, Working
<1>2. CASE Fail(d)
  BY <1>1, <1>2, FailKeeps
<1>3. CASE ~Fail(d)
  <2> DEFINE saved == IF doc[d] = NoDoc THEN Found ELSE doc[d]
  <2>1. /\ Attachable /\ (doc[d] = NoDoc \/ Binds(doc[d])) /\ UNCHANGED disk
        /\ cmd' = [cmd EXCEPT ![d].at = "pull", ![d].doc = saved, ![d].node = host.node]
    BY <1>3 DEF Info
  <2>2. saved \in Docs /\ saved.owner \in Dirs
    BY <1>1, <2>1, FoundIsDoc DEF Attachable, Sound
  <2>3. /\ cmd' = [cmd EXCEPT ![d] = cmd'[d]]
        /\ cmd'[d] = [cmd[d] EXCEPT !.at = "pull", !.doc = saved, !.node = host.node]
    BY <1>1, <2>1 DEF Shapes
  <2>4. /\ cmd'[d] \in Cmds /\ cmd'[d].at = "pull" /\ cmd'[d].flow = cmd[d].flow
        /\ cmd'[d].doc = saved /\ cmd'[d].node = host.node
    BY <1>1, <2>2, <2>3, Typed DEF Cmds, Labels
  <2>5. cmd[d].flow = "attach"
    BY <1>1, Blanks DEF Routed, Flows
  <2>6. doc' = doc /\ pend' = pend /\ kept' = kept
    BY <2>1 DEF disk
  <2>7. /\ pend' = [pend EXCEPT ![d] = pend'[d]] /\ pend'[d] \in {"none", "deploy", "backup"}
        /\ doc' = [doc EXCEPT ![d] = doc'[d]] /\ doc'[d] = doc[d] /\ doc'[d] \in Docs /\ Sound(doc'[d])
    BY <1>1, <2>6 DEF Shapes
  <2>8. Routed(cmd'[d])
    BY <2>4, <2>5 DEF Routed
  <2>9. doc[d].cur => saved = doc[d] /\ host.node = doc[d].arc.node
    BY <1>1, <2>1, Blanks DEF Binds, Sound
  <2>10. doc[d] = NoDoc \/ doc[d].cur
    BY <1>1, <2>5 DEF Relies
  <2>11. Relies(cmd[d], doc[d])'
    BY <2>2, <2>4, <2>5, <2>7, <2>9, <2>10 DEF Relies
  <2>12. Past(cmd'[d], doc'[d]) => Past(cmd[d], doc[d])
    BY <2>4, <2>7 DEF Past
  <2> QED
    BY <1>1, <2>3, <2>4, <2>6, <2>7, <2>8, <2>11, <2>12, LocalStep
<1> QED
  BY <1>2, <1>3

(* A step of a collection: the host and the documents stay. *)
LEMMA CollectionStep ==
  ASSUME IInv, NEW d \in Dirs, UNCHANGED <<host, late, doc, pend, kept>>,
         cmd' = [cmd EXCEPT ![d] = cmd'[d]], cmd'[d] \in Cmds,
         lock' \in Owners, live' \in Versions, moments' \subseteq Versions, Collecting',
         Routed(cmd'[d]), Relies(cmd[d], doc[d])', Past(cmd'[d], doc'[d]) => Past(cmd[d], doc[d])
  PROVE  IInv'
<1>1. /\ host' = host /\ late' = late /\ doc' = doc
      /\ \A e \in Dirs \ {d} : cmd'[e] = cmd[e] /\ doc'[e] = doc[e]
  BY DEF IInv, Shapes
<1>2. Shapes'
  BY <1>1 DEF IInv, Shapes
<1>3. Past(cmd'[d], doc'[d]) => host'.pub \/ Clear(d, host', late')
  BY <1>1 DEF IInv, Cleared
<1>4. doc'[d] = NoDoc => Clear(d, host', late')
  BY <1>1 DEF IInv, Cleared
<1>5. WholePlace(host') /\ Sound(doc'[d])
  BY <1>1 DEF IInv
<1>6. \A e \in Dirs : Spares(e)
  BY <1>1 DEF Spares
<1> QED
  BY <1>1, <1>2, <1>3, <1>4, <1>5, <1>6, DirectoryStep

(* The collection takes the lock and the first look, or is refused. *)
LEMMA PullBeginKeeps ==
  ASSUME IInv, NEW d \in Dirs, PullBegin(d)
  PROVE  IInv'
<1>1. /\ cmd[d].at = "pull" /\ Shapes /\ Routed(cmd[d]) /\ Relies(cmd[d], doc[d]) /\ Collecting
      /\ cmd[d] \in Cmds /\ cmd[d].flow \in Flows
      /\ UNCHANGED <<host, live, late>>
  BY Typed, CmdFields DEF IInv, PullBegin, Working
<1>2. CASE Attachable /\ Named(d)
  <2>1. /\ Go(d, "copy") /\ lock' = d /\ moments' = {Never} /\ UNCHANGED <<doc, pend, kept>>
        /\ lock = Nobody /\ live = Never
    BY <1>1, <1>2 DEF PullBegin, Attachable, Free, disk, Collecting
  <2>2. /\ cmd' = [cmd EXCEPT ![d] = cmd'[d]] /\ cmd'[d] \in Cmds
        /\ cmd'[d].at = "copy" /\ cmd'[d].flow = cmd[d].flow /\ cmd'[d].doc = cmd[d].doc
        /\ cmd'[d].node = cmd[d].node
    BY <1>1, <2>1, OnFields DEF Labels
  <2>3. \A e \in Dirs \ {d} : cmd'[e] = cmd[e]
    BY <1>1, <2>2 DEF Shapes
  <2>4. \A e \in Dirs : cmd[e].at \notin {"copy", "snapshot", "compare"}
    BY <1>1, <2>1 DEF Collecting
  <2>5. Collecting'
    BY <1>1, <2>1, <2>2, <2>3, <2>4 DEF Collecting
  <2>6. cmd[d].flow = "attach"
    BY <1>1, Blanks DEF Routed, Flows
  <2>7. Routed(cmd'[d])
    BY <2>2, <2>6 DEF Routed
  <2>8. Relies(cmd[d], doc[d])'
    BY <1>1, <2>1, <2>2, <2>6 DEF Relies
  <2>9. Past(cmd'[d], doc'[d]) => Past(cmd[d], doc[d])
    BY <2>1, <2>2 DEF Past
  <2>10. lock' \in Owners /\ live' \in Versions /\ moments' \subseteq Versions
    BY <1>1, <2>1, Blanks DEF Shapes, Owners
  <2> QED
    BY <1>1, <2>1, <2>2, <2>5, <2>7, <2>8, <2>9, <2>10, CollectionStep
<1>3. CASE ~(Attachable /\ Named(d))
  BY <1>1, <1>3, FailKeeps DEF PullBegin, remoteSide, pulling
<1> QED
  BY <1>2, <1>3

(* The tree is copied as it is now. *)
LEMMA CopyTreeKeeps ==
  ASSUME IInv, NEW d \in Dirs, CopyTree(d)
  PROVE  IInv'
<1>1. /\ cmd[d].at = "copy" /\ Shapes /\ Routed(cmd[d]) /\ Relies(cmd[d], doc[d]) /\ Collecting
      /\ cmd[d] \in Cmds /\ cmd[d].flow \in Flows /\ live \in Versions
      /\ UNCHANGED <<host, live, lock, moments, late, doc, pend, kept>>
      /\ cmd' = [cmd EXCEPT ![d].at = "snapshot", ![d].copy.cert = live.cert]
  BY Typed, CmdFields DEF IInv, CopyTree, Working, remoteSide, pulling, disk, Shapes
<1>2. /\ cmd' = [cmd EXCEPT ![d] = cmd'[d]] /\ cmd'[d] \in Cmds
      /\ cmd'[d].at = "snapshot" /\ cmd'[d].flow = cmd[d].flow /\ cmd'[d].doc = cmd[d].doc
      /\ cmd'[d].node = cmd[d].node /\ cmd'[d].copy.cert = live.cert
  BY <1>1 DEF Shapes, Cmds, Labels, Versions
<1>3. \A e \in Dirs \ {d} : cmd'[e] = cmd[e]
  BY <1>1, <1>2 DEF Shapes
<1>4. Collecting'
  <2>1. live.cert \in Nat /\ lock = d /\ live \in moments
    BY <1>1 DEF Versions, Collecting
  <2>2. ASSUME NEW e \in Dirs, e # d PROVE cmd'[e] = cmd[e] /\ cmd[e].at \notin {"copy", "snapshot", "compare"}
    BY <1>1, <1>3, <2>1, <2>2 DEF Collecting
  <2>3. lock' = lock /\ live' = live /\ moments' = moments
    BY <1>1
  <2>4. (lock = Nobody => live = Never) /\ lock # Nobody
    BY <1>1, <2>1 DEF Collecting
  <2> QED
    BY <1>2, <2>1, <2>2, <2>3, <2>4 DEF Collecting
<1>5. cmd[d].flow = "attach"
  BY <1>1, Blanks DEF Routed, Flows
<1>6. Routed(cmd'[d])
  BY <1>2, <1>5 DEF Routed
<1>7. Relies(cmd[d], doc[d])'
  BY <1>1, <1>2, <1>5 DEF Relies
<1>8. Past(cmd'[d], doc'[d]) => Past(cmd[d], doc[d])
  BY <1>1, <1>2 DEF Past
<1> QED
  BY <1>1, <1>2, <1>4, <1>6, <1>7, <1>8, CollectionStep DEF Shapes

(* The database is that of the moment the snapshot is taken. *)
LEMMA SnapshotKeeps ==
  ASSUME IInv, NEW d \in Dirs, Snapshot(d)
  PROVE  IInv'
<1>1. /\ cmd[d].at = "snapshot" /\ Shapes /\ Routed(cmd[d]) /\ Relies(cmd[d], doc[d]) /\ Collecting
      /\ cmd[d] \in Cmds /\ cmd[d].flow \in Flows /\ live \in Versions
      /\ UNCHANGED <<host, live, lock, moments, late, doc, pend, kept>>
      /\ cmd' = [cmd EXCEPT ![d].at = "compare", ![d].copy.db = live.db]
  BY Typed, CmdFields DEF IInv, Snapshot, Working, remoteSide, pulling, disk, Shapes
<1>2. /\ cmd' = [cmd EXCEPT ![d] = cmd'[d]] /\ cmd'[d] \in Cmds
      /\ cmd'[d].at = "compare" /\ cmd'[d].flow = cmd[d].flow /\ cmd'[d].doc = cmd[d].doc
      /\ cmd'[d].node = cmd[d].node /\ cmd'[d].copy.db = live.db
      /\ cmd'[d].copy.cert = cmd[d].copy.cert
  BY <1>1 DEF Shapes, Cmds, Labels, Versions
<1>3. \A e \in Dirs \ {d} : cmd'[e] = cmd[e]
  BY <1>1, <1>2 DEF Shapes
<1>4. Collecting'
  <2>1. live.cert \in Nat /\ live \in moments /\ cmd[d].copy.cert <= live.cert
    BY <1>1 DEF Versions, Collecting
  <2>2. \E m \in moments : m.db = live.db /\ cmd[d].copy.cert <= m.cert /\ m.cert <= live.cert
    BY <2>1
  <2>3. lock = d
    BY <1>1 DEF Collecting
  <2>4. ASSUME NEW e \in Dirs, e # d PROVE cmd'[e] = cmd[e] /\ cmd[e].at \notin {"copy", "snapshot", "compare"}
    BY <1>1, <1>3, <2>3, <2>4 DEF Collecting
  <2>5. lock' = lock /\ live' = live /\ moments' = moments /\ lock # Nobody
    BY <1>1, <2>3
  <2> QED
    BY <1>2, <2>1, <2>2, <2>3, <2>4, <2>5 DEF Collecting
<1>5. cmd[d].flow = "attach"
  BY <1>1, Blanks DEF Routed, Flows
<1>6. Routed(cmd'[d])
  BY <1>2, <1>5 DEF Routed
<1>7. Relies(cmd[d], doc[d])'
  BY <1>1, <1>2, <1>5 DEF Relies
<1>8. Past(cmd'[d], doc'[d]) => Past(cmd[d], doc[d])
  BY <1>1, <1>2 DEF Past
<1> QED
  BY <1>1, <1>2, <1>4, <1>6, <1>7, <1>8, CollectionStep DEF Shapes

(* The lock is given back with nothing being collected. *)
LEMMA ReleaseEndsCollection ==
  ASSUME IInv, NEW d \in Dirs, cmd[d].at = "compare", Release,
         \A e \in Dirs \ {d} : cmd'[e] = cmd[e],
         cmd'[d].at \notin {"copy", "snapshot", "compare"}
  PROVE  Collecting' /\ lock' \in Owners /\ live' \in Versions /\ moments' \subseteq Versions
<1>1. Collecting /\ lock' = Nobody /\ live' = Never /\ moments' = {}
  BY DEF IInv, Release
<1>2. ASSUME NEW e \in Dirs PROVE cmd'[e].at \notin {"copy", "snapshot", "compare"}
  BY <1>1 DEF Collecting
<1> QED
  BY <1>1, <1>2, Blanks DEF Collecting, Owners

(* The comparison with the start, and the archive if nothing moved. *)
LEMMA CompareKeeps ==
  ASSUME IInv, NEW d \in Dirs, Compare(d)
  PROVE  IInv'
<1>1. /\ cmd[d].at = "compare" /\ Shapes /\ Routed(cmd[d]) /\ Relies(cmd[d], doc[d])
      /\ cmd[d] \in Cmds /\ cmd[d].flow \in Flows /\ UNCHANGED <<host, late>> /\ Release
  BY Typed, CmdFields DEF IInv, Compare, Working
<1>2. cmd[d].flow = "attach"
  BY <1>1, Blanks DEF Routed, Flows
<1>3. CASE Fail(d)
  <2>1. /\ cmd' = [cmd EXCEPT ![d] = cmd'[d]] /\ cmd'[d] = Idle /\ doc' = doc /\ kept' = kept
        /\ pend' \in [Dirs -> {"none", "deploy", "backup"}]
    BY <1>1, <1>3 DEF Fail, End, Shapes, NoPend
  <2>2. \A e \in Dirs \ {d} : cmd'[e] = cmd[e] /\ doc'[e] = doc[e]
    BY <1>1, <2>1 DEF Shapes
  <2>3. Collecting' /\ lock' \in Owners /\ live' \in Versions /\ moments' \subseteq Versions
    BY <1>1, <2>1, <2>2, IdleIsSound, ReleaseEndsCollection
  <2>4. Shapes'
    BY <1>1, <2>1, <2>3, IdleIsSound DEF Shapes
  <2>5. WholePlace(host') /\ Sound(doc'[d])
    BY <1>1, <2>1 DEF IInv
  <2>6. Past(cmd'[d], doc'[d]) => host'.pub \/ Clear(d, host', late')
    BY <1>1, <2>1, IdleIsSound DEF IInv, Cleared, Past
  <2>7. doc'[d] = NoDoc => Clear(d, host', late')
    BY <1>1, <2>1 DEF IInv, Cleared
  <2>8. \A e \in Dirs : Spares(e)
    BY <1>1 DEF Spares
  <2> QED
    BY <1>1, <2>1, <2>2, <2>3, <2>4, <2>5, <2>6, <2>7, <2>8, IdleIsSound, DirectoryStep
<1>4. CASE ~Fail(d)
  <2>1. /\ Named(d) /\ UNCHANGED <<doc, pend, kept>>
        /\ cmd' = [cmd EXCEPT ![d].at = "reverify", ![d].arc = Content]
    BY <1>4 DEF Compare, disk
  <2>2. /\ cmd' = [cmd EXCEPT ![d] = cmd'[d]]
        /\ cmd'[d] = [cmd[d] EXCEPT !.at = "reverify", !.arc = Content]
    BY <1>1, <2>1 DEF Shapes
  <2>3. /\ cmd'[d] \in Cmds /\ cmd'[d].at = "reverify" /\ cmd'[d].flow = cmd[d].flow
        /\ cmd'[d].doc = cmd[d].doc /\ cmd'[d].node = cmd[d].node /\ cmd'[d].arc = Content
    BY <1>1, <2>2, ContentIsArchive DEF Cmds, Labels, Calls
  <2>4. \A e \in Dirs \ {d} : cmd'[e] = cmd[e]
    BY <1>1, <2>2 DEF Shapes
  <2>5. Collecting' /\ lock' \in Owners /\ live' \in Versions /\ moments' \subseteq Versions
    BY <1>1, <2>3, <2>4, ReleaseEndsCollection
  <2>6. Routed(cmd'[d])
    BY <1>2, <2>3 DEF Routed
  <2>7. Content.node = cmd[d].node
    BY <1>1, <2>1, ContentIsArchive DEF Named
  <2>8. Relies(cmd[d], doc[d])'
    BY <1>1, <1>2, <2>1, <2>3, <2>7 DEF Relies
  <2>9. Past(cmd'[d], doc'[d]) => Past(cmd[d], doc[d])
    BY <1>2, <2>1, <2>3 DEF Past
  <2> QED
    BY <1>1, <2>1, <2>2, <2>3, <2>5, <2>6, <2>8, <2>9, CollectionStep
<1> QED
  BY <1>3, <1>4

-----------------------------------------------------------------------------
(* The node and the VPS by themselves *)

(* The panel and the front change the node while it is collected. *)
LEMMA NativeChangeKeeps ==
  ASSUME IInv, NativeChange
  PROVE  IInv'
<1>1. /\ lock # Nobody /\ UNCHANGED <<host, lock, late, cmd, doc, pend, kept>>
      /\ live' \in {[live EXCEPT !.db = 1 - @], [live EXCEPT !.cert = @ + 1]}
      /\ moments' = moments \cup {live'} /\ Shapes /\ Collecting
  BY DEF IInv, NativeChange, disk
<1>2. live \in Versions /\ live.db \in {0, 1} /\ live.cert \in Nat
  BY <1>1 DEF Shapes, Versions
<1>3. live' \in Versions /\ live'.cert \in Nat /\ live.cert <= live'.cert
  BY <1>1, <1>2 DEF Versions
<1>4. Shapes'
  BY <1>1, <1>3 DEF Shapes
<1>5. Collecting'
  <2>1. ASSUME NEW d \in Dirs, cmd[d].at = "snapshot" PROVE cmd[d].copy.cert <= live'.cert
    <3>1. cmd[d].copy.cert \in Nat /\ cmd[d].copy.cert <= live.cert
      BY <1>1, <2>1, Typed, CmdFields DEF Collecting
    <3> QED
      BY <1>2, <1>3, <3>1
  <2>2. ASSUME NEW d \in Dirs, cmd[d].at = "compare"
        PROVE  \E m \in moments' : m.db = cmd[d].copy.db /\ cmd[d].copy.cert <= m.cert /\ m.cert <= live'.cert
    <3>1. PICK m \in moments : m.db = cmd[d].copy.db /\ cmd[d].copy.cert <= m.cert /\ m.cert <= live.cert
      BY <1>1, <2>2 DEF Collecting
    <3>2. m.cert \in Nat /\ m \in moments'
      BY <1>1 DEF Shapes, Versions
    <3>3. m.cert <= live'.cert
      BY <1>2, <1>3, <3>1, <3>2
    <3> QED
      BY <3>1, <3>2, <3>3
  <2> QED
    BY <1>1, <2>1, <2>2 DEF Collecting
<1>6. WholePlace(host')
  BY <1>1 DEF IInv
<1>7. \A e \in Dirs : (Routed(cmd[e]) /\ Sound(doc[e]) /\ Relies(cmd[e], doc[e]))'
  BY <1>1 DEF IInv, Relies
<1>8. Cleared'
  BY <1>1 DEF IInv, Cleared
<1> QED
  BY <1>4, <1>5, <1>6, <1>7, <1>8 DEF IInv

(* Somebody edits the front's configuration. *)
LEMMA DriftKeeps ==
  ASSUME IInv, Drift
  PROVE  IInv'
<1>1. /\ host' = [host EXCEPT !.drift = TRUE] /\ Shapes
      /\ UNCHANGED <<lock, live, moments, late, cmd, doc, pend, kept>>
  BY DEF IInv, Drift, pulling, disk
<1>2. host' \in Hosts
  BY <1>1 DEF Shapes, Hosts
<1>3. /\ host'.node = host.node /\ host'.pub = host.pub /\ host'.made = host.made
      /\ host'.from = host.from /\ host'.pend = host.pend
      /\ host'.root = host.root /\ host'.owner = host.owner
  BY <1>1 DEF Shapes, Hosts
<1>4. WholePlace(host')
  BY <1>3, Typed DEF IInv, WholePlace
<1>5. \A e \in Dirs : Spares(e)
  BY <1>1, <1>3 DEF Spares, Clear
<1>6. Shapes'
  BY <1>1, <1>2 DEF Shapes
<1> QED
  BY <1>1, <1>4, <1>5, <1>6, HostStep

(* The VPS is lost, and with it what was there and on the way to it. *)
LEMMA LoseKeeps ==
  ASSUME IInv, Lose
  PROVE  IInv'
<1>1. /\ host' = [Pristine(host) EXCEPT !.root = FALSE, !.owner = Nobody, !.receipt = NoArc] /\ Shapes
      /\ late' = {} /\ UNCHANGED <<lock, live, moments, cmd, doc, pend, kept>>
  BY DEF IInv, Lose, pulling, disk
<1>2. Pristine(host) \in Hosts
  <2>1. host \in Hosts /\ 0 \in 0..MaxNodes
    BY <1>1 DEF Shapes
  <2> QED
    BY <2>1 DEF Pristine, Hosts
<1>3. host' \in Hosts
  BY <1>1, <1>2, Blanks DEF Hosts, Owners
<1>4. /\ host'.node = 0 /\ host'.pub = FALSE /\ host'.made = host.made
      /\ host'.root = FALSE /\ host'.owner = Nobody
  BY <1>1 DEF Shapes, Hosts, Pristine
<1>5. WholePlace(host')
  <2>1. host'.root = (host'.owner # Nobody)
    BY <1>4
  <2>2. host'.node <= host'.made /\ ~host'.pub
    BY <1>1, <1>4, Typed
  <2> QED
    BY <2>1, <2>2 DEF WholePlace
<1>6. \A e \in Dirs : Clear(e, host', late')
  BY <1>1, <1>4 DEF Clear
<1>7. Shapes'
  BY <1>1, <1>3 DEF Shapes
<1> QED
  BY <1>1, <1>5, <1>6, <1>7, HostStep

(* The recovery timer. *)
LEMMA TimerKeeps ==
  ASSUME IInv, Timer
  PROVE  IInv'
<1>1. /\ host' = Recover.host /\ Shapes
      /\ UNCHANGED <<lock, live, moments, late, cmd, doc, pend, kept>>
  BY DEF IInv, Timer, pulling, disk
<1>2. host' \in Hosts /\ WholePlace(host')
  BY <1>1, RecoverIsWhole DEF IInv
<1>3. Shapes'
  BY <1>1, <1>2 DEF Shapes
<1>4. \A e \in Dirs : Spares(e)
  BY <1>1, RecoverIsWhole DEF IInv, Spares, Clear
<1> QED
  BY <1>1, <1>2, <1>3, <1>4, HostStep

-----------------------------------------------------------------------------
(* The invariant *)

(* No directory, nothing on the VPS. *)
LEMMA InitHolds == Init => IInv
<1> SUFFICES ASSUME Init PROVE IInv
  OBVIOUS
<1>1. /\ host \in Hosts /\ host.root = FALSE /\ host.owner = Nobody /\ host.node = 0 /\ host.made = 0
      /\ host.pub = FALSE /\ late = {}
  BY Blanks DEF Init, Hosts, Owners
<1>2. Shapes
  BY <1>1, Blanks DEF Init, Shapes, Owners, NoPend
<1>3. WholePlace(host)
  <2>1. host.root = (host.owner # Nobody)
    BY <1>1
  <2>2. host.node <= host.made /\ ~host.pub
    BY <1>1
  <2> QED
    BY <2>1, <2>2 DEF WholePlace
<1>4. ASSUME NEW d \in Dirs PROVE Routed(cmd[d]) /\ Sound(doc[d]) /\ Relies(cmd[d], doc[d])
  <2>1. cmd[d] = Idle /\ doc[d] = NoDoc
    BY DEF Init
  <2> QED
    BY <2>1, Blanks DEF Routed, Sound, Relies
<1>5. Collecting
  <2>1. \A d \in Dirs : cmd[d].at = "idle"
    BY Blanks DEF Init
  <2> QED
    BY <2>1 DEF Init, Collecting
<1>6. Cleared
  BY <1>1 DEF Cleared, Clear, Init
<1> QED
  BY <1>2, <1>3, <1>4, <1>5, <1>6 DEF IInv

(* The order of Next, disjunct by disjunct. *)
LEMMA StepKeeps == IInv /\ [Next]_vars => IInv'
<1> SUFFICES ASSUME IInv, [Next]_vars PROVE IInv'
  OBVIOUS
<1>1. ASSUME NEW d \in Dirs, Step(d) PROVE IInv'
  BY <1>1, CallKeeps, MarkKeeps, OwnKeeps, RememberKeeps, RememberRefusedKeeps, UnlinkKeeps, DecideKeeps,
     InfoKeeps, PullBeginKeeps, CopyTreeKeeps, SnapshotKeeps, CompareKeeps DEF Step
<1>2. ASSUME NEW d \in Dirs, EnsureStart(d) \/ Restore(d) \/ Connect(d) \/ Kill(d) PROVE IInv'
  BY <1>2, EnsureStartKeeps, RestoreKeeps, ConnectKeeps, KillKeeps
<1>3. CASE ServeLate \/ NativeChange \/ Drift \/ Lose \/ Timer
  BY <1>3, ServeLateKeeps, NativeChangeKeeps, DriftKeeps, LoseKeeps, TimerKeeps
<1>4. CASE UNCHANGED vars
  <2>1. UNCHANGED <<host, lock, live, moments, late, cmd, doc, pend, kept>>
    BY <1>4 DEF vars, remoteSide, pulling, disk
  <2>2. Shapes' /\ WholePlace(host')
    BY <2>1 DEF IInv, Shapes
  <2>3. \A e \in Dirs : Spares(e)
    BY <2>1 DEF Spares
  <2> QED
    BY <2>1, <2>2, <2>3, HostStep
<1> QED
  BY <1>1, <1>2, <1>3, <1>4 DEF Next

(* The inductive invariant holds of every state the directories, the host   *)
(* and the calls on the way can reach.                                      *)
THEOREM Invariance == Spec => []IInv
BY InitHolds, StepKeeps, PTL DEF Spec

-----------------------------------------------------------------------------
(* The properties *)

(* The variables are of their types; a published node is no candidate, and *)
(* only an owned place is one.                                             *)
THEOREM TypeCorrect == Spec => []TypeOK
<1>1. IInv => TypeOK
  <2> SUFFICES ASSUME IInv PROVE TypeOK
    OBVIOUS
  <2>1. /\ host.node \in 0..host.made /\ host.made <= MaxNodes
        /\ host.owner \in Dirs \cup {Nobody} /\ host.root = (host.owner # Nobody)
        /\ host.pub => host.node # 0 /\ ~host.pend
        /\ host.receipt \in Arcs /\ Content \in Arcs /\ host.from \in Dirs \cup {Nobody}
    BY Typed, ContentIsArchive DEF IInv, WholePlace, Owners
  <2>2. lock \in Dirs \cup {Nobody} /\ live \in moments \cup {Never}
    BY DEF IInv, Shapes, Owners, Collecting
  <2>3. /\ doc \in [Dirs -> Docs] /\ pend \in [Dirs -> {"none", "deploy", "backup"}]
        /\ \A d \in Dirs : cmd[d].doc \in Docs /\ kept[d] \in BOOLEAN
    BY CmdFields DEF IInv, Shapes
  <2> QED
    BY <2>1, <2>2, <2>3 DEF TypeOK
<1> QED
  BY <1>1, Invariance, PTL

(* Whatever fails or is killed, a committed state.json names an archive that *)
(* is complete in its place, of a published node and of the same owner.      *)
THEOREM AlwaysReferenced == Spec => []ReferencedArchive
<1>1. IInv => ReferencedArchive
  BY DEF IInv, Shapes, Sound, ReferencedArchive
<1> QED
  BY <1>1, Invariance, PTL

(* An action of a directory leaves the others' commands and documents. *)
LEMMA OnlyItself ==
  ASSUME IInv, NEW e \in Dirs, Step(e) \/ EnsureStart(e) \/ Restore(e) \/ Connect(e) \/ Kill(e),
         NEW d \in Dirs, d # e
  PROVE  cmd'[d] = cmd[d] /\ doc'[d] = doc[d]
<1>1. Shapes
  BY DEF IInv
<1>2. CASE Call(e)
  <2>1. Moves(e)
    BY <1>2, CallMoves
  <2> QED
    BY <1>1, <2>1 DEF Moves, Shapes
<1>3. CASE Fail(e)
  BY <1>1, <1>3 DEF Fail, End, Shapes
<1>4. CASE Mark(e) \/ Own(e) \/ Remember(e) \/ Unlink(e)
  BY <1>1, <1>4 DEF Mark, Own, Remember, Unlink, Go, End, Shapes
<1>5. CASE RememberRefused(e)
  BY <1>3, <1>5 DEF RememberRefused
<1>6. CASE Decide(e) \/ EnsureStart(e) \/ Restore(e) \/ Connect(e)
  BY <1>1, <1>6 DEF Decide, EnsureStart, Restore, Connect, Install, Take, End, disk, Shapes
<1>7. CASE Info(e) \/ PullBegin(e) \/ CopyTree(e) \/ Snapshot(e) \/ Compare(e)
  BY <1>1, <1>3, <1>7 DEF Info, PullBegin, CopyTree, Snapshot, Compare, Go, disk, Shapes
<1>8. CASE Kill(e)
  BY <1>1, <1>8 DEF Kill, End, disk, Shapes
<1> QED
  BY <1>2, <1>4, <1>5, <1>6, <1>7, <1>8 DEF Step

(* Only Own and Remember write state.json. *)
LEMMA Writers ==
  ASSUME IInv, [Next]_vars, NEW d \in Dirs, doc'[d] # doc[d]
  PROVE  Own(d) \/ Remember(d)
<1>1. ASSUME NEW e \in Dirs, Step(e) \/ EnsureStart(e) \/ Restore(e) \/ Connect(e) \/ Kill(e)
      PROVE  Own(d) \/ Remember(d)
  <2>1. e = d
    BY <1>1, OnlyItself
  <2>2. Fail(e) => doc' = doc
    BY DEF Fail
  <2>3. Call(e) => doc' = doc
    BY CallMoves DEF Moves
  <2>4. Mark(e) \/ RememberRefused(e) \/ Unlink(e) \/ Decide(e) => doc' = doc
    BY <2>2 DEF Mark, RememberRefused, Unlink, Decide, disk
  <2>5. Info(e) \/ PullBegin(e) \/ CopyTree(e) \/ Snapshot(e) \/ Compare(e) => doc' = doc
    BY <2>2 DEF Info, PullBegin, CopyTree, Snapshot, Compare, disk
  <2>6. EnsureStart(e) \/ Restore(e) \/ Connect(e) \/ Kill(e) => doc' = doc
    BY DEF EnsureStart, Restore, Connect, Kill, disk
  <2> QED
    BY <1>1, <2>1, <2>3, <2>4, <2>5, <2>6 DEF Step
<1>2. ServeLate \/ NativeChange \/ Drift \/ Lose \/ Timer => doc' = doc
  BY DEF ServeLate, NativeChange, Drift, Lose, Timer, disk
<1>3. UNCHANGED vars => doc' = doc
  BY DEF vars, disk
<1> QED
  BY <1>1, <1>2, <1>3 DEF Next

(* An archive collected while the node goes on changing is the node of one  *)
(* moment of the collection: what was copied is as old as the first look,   *)
(* and the database was snapshot at a moment whose files were as old.       *)
THEOREM CollectedIsOneMoment == Spec => PulledIsOneMoment
<1>1. ASSUME IInv, [Next]_vars, NEW d \in Dirs, cmd[d].at = "compare", cmd'[d].at = "reverify"
      PROVE  cmd[d].copy \in moments
  <2>1. ASSUME NEW e \in Dirs, Step(e) \/ EnsureStart(e) \/ Restore(e) \/ Connect(e) \/ Kill(e)
        PROVE  Compare(d) \/ Kill(d)
    <3>1. e = d
      BY <1>1, <2>1, OnlyItself
    <3>2. cmd[d].at \notin Calls
      BY <1>1 DEF Calls
    <3>3. Step(d) => Compare(d)
      BY <1>1, <3>2 DEF Step, Call, Mark, Own, Remember, RememberRefused, Unlink, Decide, Info, PullBegin,
                        CopyTree, Snapshot, Working
    <3>4. ~EnsureStart(d) /\ ~Restore(d) /\ ~Connect(d)
      BY <1>1 DEF EnsureStart, Restore, Connect, Working
    <3> QED
      BY <2>1, <3>1, <3>3, <3>4
  <2>2. ServeLate \/ NativeChange \/ Drift \/ Lose \/ Timer => cmd' = cmd
    BY DEF ServeLate, NativeChange, Drift, Lose, Timer
  <2>3. UNCHANGED vars => cmd' = cmd
    BY DEF vars
  <2>4. Compare(d) \/ Kill(d)
    BY <1>1, <2>1, <2>2, <2>3 DEF Next
  <2>5. Shapes /\ cmd[d] \in Cmds
    BY <1>1, Typed DEF IInv
  <2>6. cmd'[d] # Idle
    BY <1>1, Blanks
  <2>7. SameAsFirst(d)
    BY <1>1, <2>4, <2>5, <2>6 DEF Compare, Kill, Fail, End, Shapes
  <2>8. PICK m \in moments : m.db = cmd[d].copy.db /\ cmd[d].copy.cert <= m.cert /\ m.cert <= live.cert
    BY <1>1 DEF IInv, Collecting
  <2>9. m \in Versions /\ cmd[d].copy \in Versions
    BY <2>5, <2>8, CmdFields DEF Shapes
  <2>10. cmd[d].copy.cert = 0 /\ live.cert = 0
    BY <2>7 DEF SameAsFirst, Unmoved, Never
  <2>11. m.cert = cmd[d].copy.cert
    BY <2>8, <2>9, <2>10 DEF Versions
  <2>12. m = cmd[d].copy
    BY <2>8, <2>9, <2>11 DEF Versions
  <2> QED
    BY <2>8, <2>12
<1>2. IInv /\ [Next]_vars =>
        \A d \in Dirs : cmd[d].at = "compare" /\ cmd'[d].at = "reverify" => cmd[d].copy \in moments
  BY <1>1
<1> QED
  BY <1>2, Invariance, PTL DEF Spec, PulledIsOneMoment

(* An attachment never makes a directory stand for another node. *)
LEMMA AttachmentKeeps ==
  ASSUME IInv, [Next]_vars, NEW d \in Dirs, cmd[d].flow = "attach", doc[d].cur, doc'[d] # doc[d]
  PROVE  doc'[d].arc.node = doc[d].arc.node /\ doc'[d].owner = doc[d].owner
<1>1. Shapes /\ Routed(cmd[d]) /\ Relies(cmd[d], doc[d])
  BY DEF IInv
<1>2. Remember(d)
  BY <1>1, Writers DEF Own, Working, Routed
<1>3. cmd[d].at = "remember" /\ Acceptable(d) /\ doc' \in {doc, [doc EXCEPT ![d] = Remembered(d)]}
  BY <1>2 DEF Remember, Working
<1>4. doc'[d] = Remembered(d)
  BY <1>1, <1>3 DEF Shapes
<1>5. Remembered(d).owner = cmd[d].doc.owner /\ Remembered(d).arc = cmd[d].arc
  BY <1>3, RememberedIsSound
<1>6. cmd[d].doc = doc[d] /\ cmd[d].node = doc[d].arc.node /\ cmd[d].arc.node = cmd[d].node
  BY <1>1, <1>3 DEF Relies
<1> QED
  BY <1>4, <1>5, <1>6

(* Whoever has a node publishes no other: a command that commits belongs to *)
(* a directory without one, and what a directory with one left on the way,  *)
(* or installed, is cleared before a candidate can be there.                *)
LEMMA NoSecondNode ==
  ASSUME IInv, [Next]_vars, NEW d \in Dirs, Publishes(d) \/ (host'.pub /\ ~host.pub /\ host.from = d)
  PROVE  ~doc[d].cur
<1>1. host'.pub /\ ~host.pub /\ Shapes /\ WholePlace(host)
  BY DEF Publishes, IInv
<1>2. doc[d].cur => Clear(d, host, late)
  BY <1>1 DEF IInv, Cleared, Past
<1>3. ASSUME NEW e \in Dirs, Call(e) PROVE ~doc[d].cur
  <2>1. PICK a \in Answers(Request(e)) : host' = a.host
    BY <1>3 DEF Call
  <2>2. cmd[e].at \in Calls /\ late' = late
    BY <1>3 DEF Call
  <2>3. Proper(Request(e), a) /\ Request(e).op = cmd[e].at
    BY <1>1, <2>2, RequestTyped, AnswersAreProper
  <2>4. cmd[e].at = "commit" /\ host.pend /\ host.node # 0
    BY <1>1, <2>1, <2>3 DEF Proper
  <2>5. CASE host.from = d
    BY <1>2, <2>4, <2>5 DEF Clear
  <2>6. CASE host.from # d
    <3>1. e = d
      BY <1>3, <2>2, <2>6, OnlyItself DEF Publishes, Step
    <3>2. Routed(cmd[d]) /\ Relies(cmd[d], doc[d]) /\ cmd[d].flow \in Flows
      BY <1>1, Typed, CmdFields DEF IInv
    <3> QED
      BY <2>4, <3>1, <3>2, Blanks DEF Routed, Relies, Flows
  <2> QED
    BY <2>5, <2>6
<1>4. ASSUME ServeLate PROVE ~doc[d].cur
  <2>1. PICK c \in late : \E a \in Answers(c) : host' = a.host /\ late' = late \ {c}
    BY <1>4 DEF ServeLate
  <2>2. PICK a \in Answers(c) : host' = a.host /\ late' = late \ {c}
    BY <2>1
  <2>3. c \in Requests /\ Proper(c, a)
    BY <1>1, Typed, AnswersAreProper
  <2>4. c.op = "commit" /\ host.pend /\ host.node # 0
    BY <1>1, <2>2, <2>3 DEF Proper
  <2>5. c.by = d \/ host.from = d
    BY <1>4, <2>2 DEF Publishes, ServeLate
  <2> QED
    BY <1>2, <2>1, <2>4, <2>5 DEF Clear, Opening
<1>5. NativeChange \/ Drift \/ Lose => host'.pub \in {host.pub, FALSE}
  BY <1>1 DEF NativeChange, Drift, Lose, Pristine, Shapes, Hosts
<1>6. Timer => host'.pub = host.pub
  BY <1>1, RecoverIsWhole DEF Timer
<1>7. ASSUME NEW e \in Dirs, Step(e) \/ EnsureStart(e) \/ Restore(e) \/ Connect(e) \/ Kill(e), ~Call(e)
      PROVE  host' = host
  BY <1>7 DEF Step, Mark, Own, Remember, RememberRefused, Unlink, Decide, Info, PullBegin, CopyTree, Snapshot,
              Compare, EnsureStart, Restore, Connect, Kill, remoteSide
<1>8. UNCHANGED vars => host' = host
  BY DEF vars, remoteSide
<1> QED
  BY <1>1, <1>3, <1>4, <1>5, <1>6, <1>7, <1>8 DEF Next

(* A directory stays with the node it has, whatever setup.sh does for it: an *)
(* attachment binds the same node, nothing it sends publishes another, and   *)
(* nobody publishes one that it installed before.                            *)
THEOREM NodeIsKept == Spec => NodeKept
<1>1. IInv /\ [Next]_vars =>
        \A d \in Dirs : cmd[d].flow = "attach" /\ doc[d].cur /\ doc'[d] # doc[d] =>
          doc'[d].arc.node = doc[d].arc.node /\ doc'[d].owner = doc[d].owner
  BY AttachmentKeeps
<1>2. IInv /\ [Next]_vars =>
        \A d \in Dirs : Publishes(d) \/ (host'.pub /\ ~host.pub /\ host.from = d) => ~doc[d].cur
  BY NoSecondNode
<1> QED
  BY <1>1, <1>2, Invariance, PTL DEF Spec, NodeKept, AttachKeepsNode, NeverReinstalled
=============================================================================
