-------------------------- MODULE CdnAcceptanceProofs --------------------------
(***************************************************************************)
(* Proofs about CdnAcceptance: IInv is an inductive invariant of the       *)
(* specification for any number of attempts, edits and faults, and implies *)
(* the safety properties TLC checks.                                       *)
(***************************************************************************)
EXTENDS CdnAcceptance, TLAPS

USE CdnAssumption

-----------------------------------------------------------------------------
(* Lemmas *)

(* The records the model starts from have their types. *)
LEMMA Blanks ==
  /\ NoArc \in Archives /\ NoArc.template = "none" /\ NoArc.op = 0
  /\ NoJournal \in Journals /\ NoJournal.op = 0 /\ NoJournal.phase = "none" /\ NoJournal.auth = "none"
  /\ ~NoJournal.lease /\ ~NoJournal.verdict
  /\ NoReceipt \in Receipts /\ NoReceipt.arc = NoArc
  /\ NoCall \in Requests /\ NoCall.op = 0 /\ NoCall.is = "none" /\ NoCall.arc = NoArc
  /\ NoPend \in Pendings /\ NoPend.op = 0 /\ NoPend.arc = NoArc
<1>1. NoArc \in Archives /\ NoArc.template = "none" /\ NoArc.op = 0
  BY DEF NoArc, Archives, Idents
<1>2. NoJournal \in Journals /\ NoJournal.op = 0 /\ NoJournal.phase = "none" /\ NoJournal.auth = "none"
      /\ ~NoJournal.lease /\ ~NoJournal.verdict
  BY DEF NoJournal, Journals, Idents
<1>3. NoReceipt \in Receipts /\ NoReceipt.arc = NoArc
  BY <1>1 DEF NoReceipt, Receipts, Idents
<1>4. NoCall \in Requests /\ NoCall.op = 0 /\ NoCall.is = "none" /\ NoCall.arc = NoArc
  BY <1>1 DEF NoCall, Requests
<1>5. NoPend \in Pendings /\ NoPend.op = 0 /\ NoPend.arc = NoArc
  BY <1>1 DEF NoPend, Pendings
<1> QED
  BY <1>1, <1>2, <1>3, <1>4, <1>5

(* So have the answers, the idle host and the idle command. *)
LEMMA Beginnings ==
  /\ \A is \in {"none", "out", "in", "error", "archive", "prepared", "nonce", "verdict",
                "committed", "restored", "queued"}, arc \in Archives :
       /\ Answer(is, arc) \in Answers
       /\ Answer(is, arc).is = is /\ Answer(is, arc).arc = arc
  /\ NoAct \in Acts /\ NoAct.call = NoCall /\ NoAct.from = "none" /\ NoAct.at = "free"
  /\ Idle \in Commands /\ Idle.at = "idle" /\ Idle.op = 0 /\ Idle.got = Nothing
  /\ Idle.a = NoArc /\ Idle.arc = NoArc
<1>1. \A is \in {"none", "out", "in", "error", "archive", "prepared", "nonce", "verdict",
                "committed", "restored", "queued"}, arc \in Archives :
       /\ Answer(is, arc) \in Answers
       /\ Answer(is, arc).is = is /\ Answer(is, arc).arc = arc
  BY DEF Answer, Answers
<1>2. NoAct \in Acts /\ NoAct.call = NoCall /\ NoAct.from = "none" /\ NoAct.at = "free"
  BY Blanks DEF NoAct, Acts
<1>3. Nothing \in Answers
  BY <1>1, Blanks DEF Nothing
<1>4. Idle \in Commands /\ Idle.at = "idle" /\ Idle.op = 0 /\ Idle.got = Nothing
      /\ Idle.a = NoArc /\ Idle.arc = NoArc
  BY <1>3, Blanks DEF Idle, Commands
<1> QED
  BY <1>1, <1>2, <1>4

(* The idle command waits for nothing; operations are numbered from one. *)
LEMMA Idling ==
  /\ Idle.got.is = "none" /\ Idle.got.arc = NoArc
  /\ \A o \in Ops : o \in Nat /\ o # 0
BY Blanks, Beginnings DEF Nothing, Ops

USE DEF Out, Inside, Nothing, Error


-----------------------------------------------------------------------------
(* How a call moves, whatever it does to the host *)

\* What the moves of a call leave of the command, of the calls and of the
\* archives they name.
Moved ==
  /\ act' \in Acts /\ cmd' \in Commands /\ late' \subseteq Requests
  /\ Tied' /\ Once' /\ Commits' \subseteq Commits
  /\ \A c \in late' \cup {act'.call} : c.op <= made
  /\ \A arc \in {cmd'.got.arc, cmd'.a, cmd'.arc, act'.call.arc} \cup {c.arc : c \in late'} :
       arc.template # "witness"
  /\ cmd'.at = cmd.at /\ cmd'.op = cmd.op /\ cmd'.arc = cmd.arc /\ cmd'.proof = cmd.proof /\ cmd'.a = cmd.a
  /\ UNCHANGED <<pend, proofs, doc, made, faults>>

Inner == {"file", "stop", "template", "start", "active", "read", "restore", "restart", "clean", "forget",
          "restored", "publish", "receipt", "close", "recover", "database", "cleanup", "queue"}
Said == {"error", "archive", "prepared", "nonce", "verdict", "committed", "restored", "queued"}

(* A call that goes on keeps its command and its request. *)
LEMMA Going ==
  ASSUME IInv, act.at # "free", NEW l \in Inner, Goes(l)
  PROVE  Moved /\ act'.call = act.call /\ act'.at = l /\ act'.from = act.from /\ cmd' = cmd /\ late' = late
<1> USE DEF IInv, Goes, disk
<1>1. act \in Acts /\ cmd \in Commands /\ late \subseteq Requests
  BY DEF Shapes
<1>2. act' \in Acts /\ act'.call = act.call /\ act'.from = act.from /\ act'.at = l /\ l # "free"
  BY <1>1 DEF Acts, Inner
<1>3. Tied' /\ Once'
  BY <1>2 DEF Tied, Once
<1>4. Commits' \subseteq Commits
  BY <1>2 DEF Commits, Request
<1>5. \A c \in late' \cup {act'.call} : c.op <= made
  BY <1>2 DEF Known
<1>6. \A arc \in {cmd'.got.arc, cmd'.a, cmd'.arc, act'.call.arc} \cup {c.arc : c \in late'} :
        arc.template # "witness"
  BY <1>2 DEF Contained, Everyone
<1> QED
  BY <1>1, <1>2, <1>3, <1>4, <1>5, <1>6 DEF Moved

(* A call that ends frees the lock and tells the command that waits for it. *)
LEMMA Ending ==
  ASSUME IInv, act.at # "free", NEW is \in Said, NEW arc \in Archives, arc.template # "witness",
         Ends(Answer(is, arc))
  PROVE  /\ Moved /\ act' = NoAct
         /\ \/ cmd'.got = cmd.got
            \/ cmd'.got = Answer(is, arc) /\ act.call.op = cmd.op /\ act.call.is = Kind(cmd.at)
<1> USE DEF IInv, Ends, Received, disk
<1>1. act \in Acts /\ cmd \in Commands /\ late \subseteq Requests
  BY DEF Shapes
<1>2. Answer(is, arc) \in Answers /\ Answer(is, arc).is = is /\ Answer(is, arc).arc = arc
  BY Beginnings DEF Said
<1>3. /\ act' = NoAct /\ act' \in Acts /\ act'.call = NoCall /\ act'.from = "none" /\ act'.at = "free"
      /\ NoCall.op = 0 /\ NoCall.is = "none" /\ NoCall.arc = NoArc /\ NoArc.template = "none"
  BY Blanks, Beginnings
<1>4. cmd' \in Commands
  BY <1>1, <1>2 DEF Commands
<1>5. /\ cmd'.at = cmd.at /\ cmd'.op = cmd.op /\ cmd'.arc = cmd.arc /\ cmd'.proof = cmd.proof /\ cmd'.a = cmd.a
      /\ \/ cmd' = cmd /\ act.from # "pc"
         \/ cmd'.got = Answer(is, arc) /\ act.from = "pc"
  BY <1>1 DEF Commands
<1>6. late' \subseteq late
  OBVIOUS
<1>7. act.from = "pc" => /\ cmd.got = Inside /\ act.call.op = cmd.op /\ act.call.is = Kind(cmd.at)
                         /\ cmd.at \in CallLabels
  <2>1. Inside # Nothing
    BY Beginnings, Blanks DEF Answers
  <2> QED
    BY <2>1 DEF Tied
<1>8. Tied'
  <2>1. cmd.at = "idle" => act.from # "pc"
    BY <1>7 DEF CallLabels
  <2> QED
    BY <1>2, <1>3, <1>5, <1>7, <2>1 DEF Tied, Said
<1>9. Once'
  <2>1. \A c \in late : c.is = "prepare" /\ c.op = cmd.op /\ cmd.at = "prepare" => cmd.got.is = "error"
    BY DEF Once, Settling
  <2>2. Inside.is = "in"
    BY Beginnings, Blanks
  <2>3. \A c \in late : c.is = "prepare" /\ c.op = cmd.op /\ cmd.at = "prepare" => act.from # "pc"
    BY <1>7, <2>1, <2>2
  <2> QED
    BY <1>3, <1>5, <1>6, <2>3 DEF Once
<1>10. Commits' \subseteq Commits
  BY <1>3, <1>5, <1>6 DEF Commits, Request
<1>11. \A c \in late' \cup {act'.call} : c.op <= made
  BY <1>3, <1>6 DEF Known, Shapes, TypeOK
<1>12. \A x \in {cmd'.got.arc, cmd'.a, cmd'.arc, act'.call.arc} \cup {c.arc : c \in late'} :
         x.template # "witness"
  BY <1>2, <1>3, <1>5, <1>6 DEF Contained, Everyone
<1> QED
  BY <1>1, <1>3, <1>4, <1>5, <1>6, <1>7, <1>8, <1>9, <1>10, <1>11, <1>12 DEF Moved

(* What is known of a call that arrives. *)
LEMMA Arriving ==
  ASSUME IInv, NEW c \in late \cup {Request}, NEW from \in {"pc", "late"}, Arrives(c, from)
  PROVE  /\ c \in Requests /\ c.op <= made /\ c.arc.template # "witness"
         /\ c.is \in {"prepare", "commit"} => c.op # 0
         /\ from = "pc" => cmd.got = Out /\ c = Request /\ cmd.at \in CallLabels
         /\ from = "late" => c \in late
         /\ act.call = NoCall /\ act.from = "none" /\ act.at = "free"
         /\ c.is = "commit" => c \in Commits
         /\ c.is = "prepare" => \A e \in Commits : e.op # c.op
<1> USE DEF IInv
<1>1. act \in Acts /\ cmd \in Commands /\ late \subseteq Requests
  BY DEF Shapes
<1>2. act = NoAct /\ act.call = NoCall /\ act.from = "none" /\ act.at = "free"
  BY Beginnings DEF Arrives
<1>3. Out # Nothing /\ Out.is = "out"
  BY Beginnings, Blanks DEF Answers
<1>4. ASSUME from = "pc"
      PROVE  /\ cmd.got = Out /\ c = Request /\ cmd.at \in CallLabels
             /\ c \in Requests /\ c.is = Kind(cmd.at) /\ c.op = cmd.op /\ c.arc = cmd.arc
  <2>1. cmd.got = Out /\ c = Request /\ cmd.at \in CallLabels
    BY <1>3, <1>4 DEF Arrives, Tied
  <2> QED
    BY <1>1, <2>1 DEF Request, Requests, Kind, CallLabels, Commands
<1>5. ASSUME from = "late" PROVE c \in late
  BY <1>5 DEF Arrives
<1>6. c \in Requests /\ c.op <= made /\ c.arc.template # "witness"
  <2>1. CASE from = "pc"
    <3>1. cmd.op <= made
      BY Beginnings DEF Tied, Known, Shapes, TypeOK
    <3> QED
      BY <1>4, <2>1, <3>1 DEF Contained, Everyone
  <2>2. CASE from = "late"
    BY <1>1, <1>5, <2>2 DEF Known, Contained, Everyone
  <2> QED
    BY <2>1, <2>2
<1>7. c.is \in {"prepare", "commit"} => c.op # 0
  BY <1>4, <1>5 DEF Kind, CallLabels, Tied, Once
<1>8. c.is = "commit" => c \in Commits
  BY <1>4, <1>5 DEF Commits, Kind, CallLabels
<1>9. ASSUME c.is = "prepare", NEW e \in Commits PROVE e.op # c.op
  <2>1. CASE e \in late \cup {act.call} /\ e.is = "commit"
    <3>1. CASE from = "late"
      BY <1>5, <1>9, <2>1, <3>1 DEF Once
    <3>2. CASE from = "pc"
      BY <1>4, <1>9, <2>1, <3>2 DEF Once, Settling, Kind, CallLabels
    <3> QED
      BY <3>1, <3>2
  <2>2. CASE cmd.at = "commit" /\ e = Request
    BY <1>4, <1>5, <1>9, <2>2 DEF Once, Settling, Request, Kind, CallLabels
  <2> QED
    BY <1>9, <2>1, <2>2 DEF Commits
<1> QED
  BY <1>2, <1>4, <1>5, <1>6, <1>7, <1>8, <1>9

(* A call that is answered at once. *)
LEMMA Answering ==
  ASSUME IInv, NEW c \in late \cup {Request}, NEW from \in {"pc", "late"}, Arrives(c, from),
         NEW is \in Said, NEW arc \in Archives, arc.template # "witness",
         Answered(c, from, Answer(is, arc))
  PROVE  /\ Moved /\ act' = NoAct /\ act' = act
         /\ \/ cmd'.got = cmd.got
            \/ cmd'.got = Answer(is, arc) /\ c.op = cmd.op /\ c.is = Kind(cmd.at) /\ cmd.got = Out
<1> USE DEF IInv, Answered, Received, disk
<1>1. act \in Acts /\ cmd \in Commands /\ late \subseteq Requests
  BY DEF Shapes
<1>2. Answer(is, arc) \in Answers /\ Answer(is, arc).is = is /\ Answer(is, arc).arc = arc
  BY Beginnings DEF Said
<1>3. /\ act' = NoAct /\ act = NoAct /\ act.call = NoCall /\ act.from = "none"
      /\ NoCall.op = 0 /\ NoCall.is = "none" /\ NoCall.arc = NoArc /\ NoArc.template = "none"
  BY Blanks, Beginnings DEF Arrives
<1>4. cmd' \in Commands
  BY <1>1, <1>2 DEF Commands
<1>5. /\ cmd'.at = cmd.at /\ cmd'.op = cmd.op /\ cmd'.arc = cmd.arc /\ cmd'.proof = cmd.proof /\ cmd'.a = cmd.a
      /\ \/ cmd' = cmd /\ from # "pc"
         \/ cmd'.got = Answer(is, arc) /\ from = "pc"
  BY <1>1 DEF Commands
<1>6. late' \subseteq late
  OBVIOUS
<1>7. from = "pc" => cmd.got = Out /\ c = Request /\ cmd.at \in CallLabels /\ c.op = cmd.op /\ c.is = Kind(cmd.at)
  BY Arriving DEF Request
<1>8. Tied'
  <2>1. cmd.at = "idle" => from # "pc"
    BY <1>7 DEF CallLabels
  <2> QED
    BY <1>2, <1>3, <1>5, <1>7, <2>1 DEF Tied, Said
<1>9. Once'
  <2>1. Out.is = "out"
    BY Beginnings, Blanks
  <2>2. \A e \in late : e.is = "prepare" /\ e.op = cmd.op /\ cmd.at = "prepare" => from # "pc"
    BY <1>7, <2>1 DEF Once, Settling
  <2> QED
    BY <1>3, <1>5, <1>6, <2>2 DEF Once
<1>10. Commits' \subseteq Commits
  BY <1>3, <1>5, <1>6 DEF Commits, Request
<1>11. \A e \in late' \cup {act'.call} : e.op <= made
  BY <1>3, <1>6 DEF Known
<1>12. \A x \in {cmd'.got.arc, cmd'.a, cmd'.arc, act'.call.arc} \cup {e.arc : e \in late'} :
         x.template # "witness"
  BY <1>2, <1>3, <1>5, <1>6 DEF Contained, Everyone
<1> QED
  BY <1>1, <1>3, <1>4, <1>5, <1>6, <1>7, <1>8, <1>9, <1>10, <1>11, <1>12 DEF Moved

(* A call that goes on inside the host, with the lock. *)
LEMMA Entering ==
  ASSUME IInv, NEW c \in late \cup {Request}, NEW from \in {"pc", "late"}, Arrives(c, from),
         NEW l \in Inner, Enters(c, from, l)
  PROVE  /\ Moved /\ act'.call = c /\ act'.from = from /\ act'.at = l
         /\ cmd'.got = cmd.got \/ cmd'.got = Inside
<1> USE DEF IInv, Enters, Received, disk
<1>1. act \in Acts /\ cmd \in Commands /\ late \subseteq Requests
  BY DEF Shapes
<1>2. Inside \in Answers /\ Inside.is = "in" /\ Inside.arc = NoArc /\ Inside # Nothing
      /\ NoArc.template = "none"
  BY Beginnings, Blanks DEF Answers
<1>3. /\ act = NoAct /\ act.call = NoCall /\ act.from = "none" /\ NoCall.is = "none"
      /\ act' \in Acts /\ act'.call = c /\ act'.from = from /\ act'.at = l /\ l # "free"
  <2>1. c \in Requests
    BY Arriving
  <2> QED
    BY <2>1, Blanks, Beginnings DEF Arrives, Acts, Inner
<1>4. cmd' \in Commands
  BY <1>1, <1>2 DEF Commands
<1>5. /\ cmd'.at = cmd.at /\ cmd'.op = cmd.op /\ cmd'.arc = cmd.arc /\ cmd'.proof = cmd.proof /\ cmd'.a = cmd.a
      /\ \/ cmd' = cmd /\ from = "late"
         \/ cmd'.got = Inside /\ from = "pc"
  BY <1>1 DEF Commands
<1>6. late' \subseteq late
  OBVIOUS
<1>7. /\ from = "pc" => cmd.got = Out /\ c = Request /\ cmd.at \in CallLabels /\ c.op = cmd.op /\ c.is = Kind(cmd.at)
      /\ from = "late" => c \in late
      /\ c.op <= made /\ c.arc.template # "witness"
      /\ c.is \in {"prepare", "commit"} => c.op # 0
      /\ c.is = "commit" => c \in Commits
  BY Arriving DEF Request
<1>8. Tied'
  <2>1. cmd.at = "idle" => from # "pc"
    BY <1>7 DEF CallLabels
  <2> QED
    BY <1>2, <1>3, <1>5, <1>7, <2>1 DEF Tied, Kind
<1>9. Once'
  <2>1. Out.is = "out"
    BY Beginnings, Blanks
  <2>2. \A e \in late : e.is = "prepare" /\ e.op = cmd.op /\ cmd.at = "prepare" => from # "pc"
    BY <1>7, <2>1 DEF Once, Settling
  <2>3. c.is = "commit" /\ c.op = cmd.op => cmd.at \in Settling
    BY <1>7 DEF Once, Settling, Kind, CallLabels
  <2>4. \A e \in late : e.is = "prepare" /\ c.is = "commit" => e.op # c.op
    BY <1>7 DEF Once, Settling, Kind, CallLabels
  <2> QED
    BY <1>3, <1>5, <1>6, <1>7, <2>2, <2>3, <2>4 DEF Once
<1>10. Commits' \subseteq Commits
  BY <1>3, <1>5, <1>6, <1>7 DEF Commits, Request
<1>11. \A e \in late' \cup {act'.call} : e.op <= made
  BY <1>3, <1>6, <1>7 DEF Known
<1>12. \A x \in {cmd'.got.arc, cmd'.a, cmd'.arc, act'.call.arc} \cup {e.arc : e \in late'} :
         x.template # "witness"
  BY <1>2, <1>3, <1>5, <1>6, <1>7 DEF Contained, Everyone
<1> QED
  BY <1>1, <1>3, <1>4, <1>5, <1>6, <1>7, <1>8, <1>9, <1>10, <1>11, <1>12 DEF Moved

-----------------------------------------------------------------------------
(* How the command moves *)

(* It goes on at a label, where it calls the host or waits for nothing. *)
LEMMA Turning ==
  ASSUME IInv, NEW l \in Asking \cup Settling, To(l, cmd)
  PROVE  /\ cmd' \in Commands /\ cmd'.at = l /\ cmd'.op = cmd.op /\ cmd'.a = cmd.a
         /\ cmd'.arc = cmd.arc /\ cmd'.proof = cmd.proof /\ cmd'.got.arc = NoArc
         /\ l \in CallLabels => cmd'.got.is = "out"
         /\ l \notin CallLabels => cmd'.got = Nothing /\ cmd'.got.is = "none"
<1>1. cmd \in Commands /\ Out \in Answers /\ Nothing \in Answers
  BY Blanks, Beginnings DEF IInv, Shapes
<1>2. Out.is = "out" /\ Out.arc = NoArc /\ Nothing.is = "none" /\ Nothing.arc = NoArc
  BY Blanks, Beginnings
<1> HIDE DEF Out, Nothing
<1> QED
  BY <1>1, <1>2 DEF To, Commands

(* It fails: it ends, or goes on at recover_local. *)
LEMMA Failing ==
  ASSUME IInv, Fail
  PROVE  \/ cmd' = Idle
         \/ /\ pend.op # 0 /\ cmd' \in Commands /\ cmd'.at = "abort" /\ cmd'.op = cmd.op /\ cmd'.a = cmd.a
            /\ cmd'.arc = cmd.arc /\ cmd'.proof = cmd.proof /\ cmd'.got.arc = NoArc /\ cmd'.got.is = "out"
<1>1. cmd \in Commands /\ Out \in Answers
  BY Blanks, Beginnings DEF IInv, Shapes
<1>2. Out.is = "out" /\ Out.arc = NoArc
  BY Blanks, Beginnings
<1> HIDE DEF Out, Nothing
<1>3. "abort" \in CallLabels /\ "abort" \in Settling
  BY DEF CallLabels, Settling
<1>4. CASE pend.op = 0 \/ cmd.again
  BY <1>4 DEF Fail
<1>5. CASE pend.op # 0 /\ cmd' = [[cmd EXCEPT !.again = TRUE] EXCEPT !.at = "abort", !.got = Out]
  BY <1>1, <1>2, <1>3, <1>5 DEF Commands
<1> QED
  BY <1>3, <1>4, <1>5 DEF Fail, To

(* Its call, when it is gone, stays in flight or goes on without it. *)
LEMMA Orphaning ==
  ASSUME IInv, Orphaned
  PROVE  /\ act' \in Acts /\ act'.call = act.call /\ act'.at = act.at /\ act'.from # "pc"
         /\ act'.at = "free" => act' = NoAct
         /\ late' \subseteq Requests /\ late' \subseteq late \cup {Request}
         /\ late' # late => cmd.got.is = "out" /\ cmd.at \in CallLabels
         /\ Request.is = Kind(cmd.at) /\ Request.op = cmd.op /\ Request.arc = cmd.arc
         /\ Request.proof = cmd.proof
<1> USE DEF IInv
<1>1. act \in Acts /\ cmd \in Commands /\ late \subseteq Requests
  BY DEF Shapes
<1>2. Out # Nothing /\ Out.is = "out" /\ Inside.is = "in"
  BY Blanks, Beginnings DEF Answers
<1>3. cmd.got = Out => cmd.at \in CallLabels
  BY <1>2 DEF Tied
<1>4. cmd.got = Inside => act.from = "pc" /\ act.at # "free"
  BY <1>2, Beginnings DEF Tied
<1>5. act.from = "pc" => cmd.got = Inside
  BY DEF Tied
<1>6. /\ act' \in Acts /\ act'.call = act.call /\ act'.at = act.at /\ act'.from # "pc"
      /\ act'.at = "free" => act' = NoAct
  BY <1>1, <1>4, <1>5 DEF Orphaned, Acts, Tied
<1>7. /\ Request.is = Kind(cmd.at) /\ Request.op = cmd.op /\ Request.arc = cmd.arc
      /\ Request.proof = cmd.proof
  BY DEF Request
<1>8. cmd.got = Out => Request \in Requests
  BY <1>1, <1>3 DEF Request, Requests, Commands, Kind, CallLabels
<1> QED
  BY <1>1, <1>2, <1>3, <1>6, <1>7, <1>8 DEF Orphaned

-----------------------------------------------------------------------------
(* The invariant *)

(* The log exists only while the journal says arming. *)
LEMMA BeginFileKeeps ==
  ASSUME IInv, BeginFile, UNCHANGED cloud
  PROVE  IInv'
<1> USE DEF IInv
<1>1. act.at = "file" /\ act.call.is = "begin"
  BY DEF BeginFile, At
<1>2. Moved /\ act'.call = act.call /\ act'.at = "stop" /\ act'.from = act.from /\ cmd' = cmd /\ late' = late
  BY <1>1, Going DEF BeginFile, Inner
<1>3. host' = [host EXCEPT !.dir = TRUE, !.file = TRUE] /\ UNCHANGED <<journal, receipt>>
  BY DEF BeginFile
<1>4. CommittedWasWitnessed' /\ CommitReconcilable'
  BY <1>1, <1>2, <1>3 DEF CommittedWasWitnessed, CommitReconcilable, ReceiptFits, Moved
<1>5. Shapes'
  <2>1. host' \in Hosts
    <3>1. host \in Hosts
      BY DEF Shapes, TypeOK
    <3> HIDE DEF IInv
    <3> QED
      BY <1>3, <3>1 DEF Hosts
  <2> QED
    BY <1>1, <1>2, <1>3, <2>1 DEF Shapes, TypeOK, Moved
<1>6. Tied'
  BY <1>1, <1>2, <1>3 DEF Moved
<1>7. Known'
  BY <1>1, <1>2, <1>3 DEF Moved, Known
<1>8. Diagnosing'
  BY <1>1, <1>2, <1>3 DEF Moved, Diagnosing
<1>9. Recovering'
  BY <1>1, <1>2, <1>3 DEF Moved, Diagnosing, Recovering, Contained, Committing, IsCommitted
<1>10. Contained'
  BY <1>1, <1>2, <1>3 DEF Moved, Contained, Everyone, Diagnosing
<1>11. Witness'
  BY <1>1, <1>2, <1>3 DEF Moved, Witness
<1>12. Advancing'
  BY <1>1, <1>2, <1>3 DEF Moved, Advancing
<1>13. Once'
  BY <1>1, <1>2, <1>3 DEF Moved
<1>14. Reconciling'
  BY <1>1, <1>2, <1>3 DEF Moved, Reconciling, Commits, Request, ReceiptFits, Got
<1>15. Committing'
  BY <1>1, <1>2, <1>3 DEF Moved, Committing, Got, IsCommitted, Settling
<1> QED
  BY <1>4, <1>5, <1>6, <1>7, <1>8, <1>9, <1>10, <1>11, <1>12, <1>13, <1>14, <1>15

(* The core stops while the diagnostic is armed. *)
LEMMA BeginStopKeeps ==
  ASSUME IInv, BeginStop, UNCHANGED cloud
  PROVE  IInv'
<1> USE DEF IInv
<1>1. act.at = "stop" /\ act.call.is = "begin"
  BY DEF BeginStop, At
<1>2. Moved /\ act'.call = act.call /\ act'.at = "template" /\ act'.from = act.from /\ cmd' = cmd /\ late' = late
  BY <1>1, Going DEF BeginStop, Inner
<1>3. host' = [host EXCEPT !.core = "off"] /\ UNCHANGED <<journal, receipt>>
  BY DEF BeginStop
<1>4. CommittedWasWitnessed' /\ CommitReconcilable'
  BY <1>1, <1>2, <1>3 DEF CommittedWasWitnessed, CommitReconcilable, ReceiptFits, Moved
<1>5. Shapes'
  <2>1. host' \in Hosts
    <3>1. host \in Hosts
      BY DEF Shapes, TypeOK
    <3> HIDE DEF IInv
    <3> QED
      BY <1>3, <3>1 DEF Hosts
  <2> QED
    BY <1>1, <1>2, <1>3, <2>1 DEF Shapes, TypeOK, Moved
<1>6. Tied'
  BY <1>1, <1>2, <1>3 DEF Moved
<1>7. Known'
  BY <1>1, <1>2, <1>3 DEF Moved, Known
<1>8. Diagnosing'
  BY <1>1, <1>2, <1>3 DEF Moved, Diagnosing
<1>9. Recovering'
  BY <1>1, <1>2, <1>3 DEF Moved, Recovering, IsCommitted
<1>10. Contained'
  BY <1>1, <1>2, <1>3 DEF Moved, Contained, Everyone
<1>11. Witness'
  BY <1>1, <1>2, <1>3 DEF Moved, Witness
<1>12. Advancing'
  BY <1>1, <1>2, <1>3 DEF Moved, Advancing
<1>13. Once'
  BY <1>1, <1>2, <1>3 DEF Moved
<1>14. Reconciling'
  BY <1>1, <1>2, <1>3 DEF Moved, Reconciling, Commits, Request, ReceiptFits, Got
<1>15. Committing'
  BY <1>1, <1>2, <1>3 DEF Moved, Committing, Got, IsCommitted, Settling
<1> QED
  BY <1>4, <1>5, <1>6, <1>7, <1>8, <1>9, <1>10, <1>11, <1>12, <1>13, <1>14, <1>15

(* The logging template is there only while the journal says arming. *)
LEMMA BeginTemplateKeeps ==
  ASSUME IInv, BeginTemplate, UNCHANGED cloud
  PROVE  IInv'
<1> USE DEF IInv
<1>1. act.at = "template" /\ act.call.is = "begin"
  BY DEF BeginTemplate, At
<1>2. Moved /\ act'.call = act.call /\ act'.at = "start" /\ act'.from = act.from /\ cmd' = cmd /\ late' = late
  BY <1>1, Going DEF BeginTemplate, Inner
<1>3. host' = [host EXCEPT !.template = "witness"] /\ UNCHANGED <<journal, receipt>>
  BY DEF BeginTemplate
<1>4. CommittedWasWitnessed' /\ CommitReconcilable'
  BY <1>1, <1>2, <1>3 DEF CommittedWasWitnessed, CommitReconcilable, ReceiptFits, Moved
<1>5. Shapes'
  <2>1. host' \in Hosts
    <3>1. host \in Hosts
      BY DEF Shapes, TypeOK
    <3> HIDE DEF IInv
    <3> QED
      BY <1>3, <3>1 DEF Hosts
  <2> QED
    BY <1>1, <1>2, <1>3, <2>1 DEF Shapes, TypeOK, Moved
<1>6. Tied'
  BY <1>1, <1>2, <1>3 DEF Moved
<1>7. Known'
  BY <1>1, <1>2, <1>3 DEF Moved, Known
<1>8. Diagnosing'
  BY <1>1, <1>2, <1>3 DEF Moved, Diagnosing
<1>9. Recovering'
  BY <1>1, <1>2, <1>3 DEF Moved, Diagnosing, Recovering, Contained, Committing, IsCommitted
<1>10. Contained'
  BY <1>1, <1>2, <1>3 DEF Moved, Contained, Everyone, Diagnosing
<1>11. Witness'
  BY <1>1, <1>2, <1>3 DEF Moved, Witness
<1>12. Advancing'
  BY <1>1, <1>2, <1>3 DEF Moved, Advancing
<1>13. Once'
  BY <1>1, <1>2, <1>3 DEF Moved
<1>14. Reconciling'
  BY <1>1, <1>2, <1>3 DEF Moved, Reconciling, Commits, Request, ReceiptFits, Got
<1>15. Committing'
  BY <1>1, <1>2, <1>3 DEF Moved, Committing, Got, IsCommitted, Settling
<1> QED
  BY <1>4, <1>5, <1>6, <1>7, <1>8, <1>9, <1>10, <1>11, <1>12, <1>13, <1>14, <1>15

(* The logging core writes nothing by starting. *)
LEMMA BeginStartKeeps ==
  ASSUME IInv, BeginStart, UNCHANGED cloud
  PROVE  IInv'
<1> USE DEF IInv
<1>1. act.at = "start" /\ act.call.is = "begin"
  BY DEF BeginStart, At
<1>2. Moved /\ act'.call = act.call /\ act'.at = "active" /\ act'.from = act.from /\ cmd' = cmd /\ late' = late
  BY <1>1, Going DEF BeginStart, Inner
<1>3. host' = [host EXCEPT !.core = "logging"] /\ UNCHANGED <<journal, receipt>>
  BY DEF BeginStart
<1>4. CommittedWasWitnessed' /\ CommitReconcilable'
  BY <1>1, <1>2, <1>3 DEF CommittedWasWitnessed, CommitReconcilable, ReceiptFits, Moved
<1>5. Shapes'
  <2>1. host' \in Hosts
    <3>1. host \in Hosts
      BY DEF Shapes, TypeOK
    <3> HIDE DEF IInv
    <3> QED
      BY <1>3, <3>1 DEF Hosts
  <2> QED
    BY <1>1, <1>2, <1>3, <2>1 DEF Shapes, TypeOK, Moved
<1>6. Tied'
  BY <1>1, <1>2, <1>3 DEF Moved
<1>7. Known'
  BY <1>1, <1>2, <1>3 DEF Moved, Known
<1>8. Diagnosing'
  BY <1>1, <1>2, <1>3 DEF Moved, Diagnosing
<1>9. Recovering'
  BY <1>1, <1>2, <1>3 DEF Moved, Recovering, IsCommitted
<1>10. Contained'
  BY <1>1, <1>2, <1>3 DEF Moved, Contained, Everyone
<1>11. Witness'
  BY <1>1, <1>2, <1>3 DEF Moved, Witness
<1>12. Advancing'
  BY <1>1, <1>2, <1>3 DEF Moved, Advancing
<1>13. Once'
  BY <1>1, <1>2, <1>3 DEF Moved
<1>14. Reconciling'
  BY <1>1, <1>2, <1>3 DEF Moved, Reconciling, Commits, Request, ReceiptFits, Got
<1>15. Committing'
  BY <1>1, <1>2, <1>3 DEF Moved, Committing, Got, IsCommitted, Settling
<1> QED
  BY <1>4, <1>5, <1>6, <1>7, <1>8, <1>9, <1>10, <1>11, <1>12, <1>13, <1>14, <1>15

(* A diagnostic becomes active under the operation that armed it. *)
LEMMA BeginActiveKeeps ==
  ASSUME IInv, BeginActive, UNCHANGED cloud
  PROVE  IInv'
<1> USE DEF IInv
<1>1. act.at = "active" /\ act.call.is = "begin"
  BY DEF BeginActive, At
<1>2. Moved /\ act' = NoAct /\ (cmd'.got = cmd.got \/ cmd'.got.is = "nonce")
  BY <1>1, Ending, Blanks, Beginnings DEF BeginActive, Said
<1>3. journal' = [journal EXCEPT !.auth = "active", !.same = TRUE] /\ UNCHANGED <<host, receipt>>
  BY DEF BeginActive
<1>4. CommittedWasWitnessed' /\ CommitReconcilable'
  BY <1>1, <1>2, <1>3 DEF CommittedWasWitnessed, CommitReconcilable, ReceiptFits, Moved
<1>5. Shapes'
  <2>1. journal' \in Journals
    <3>1. journal \in Journals /\ host.ident \in Idents
      BY DEF Shapes, TypeOK, Hosts
    <3> HIDE DEF IInv
    <3> QED
      BY <1>3, <3>1 DEF Journals
  <2> QED
    BY <1>1, <1>2, <1>3, <2>1 DEF Shapes, TypeOK, Moved
<1>6. Tied'
  BY <1>1, <1>2, <1>3 DEF Moved
<1>7. Known'
  BY <1>1, <1>2, <1>3 DEF Moved, Known
<1>8. Diagnosing'
  BY <1>1, <1>2, <1>3, Blanks, Beginnings DEF Moved, Diagnosing
<1>9. Recovering'
  <2>1. /\ journal'.phase = "prepared" /\ journal'.op = journal.op /\ journal.phase = "prepared"
        /\ journal.auth # "restored" /\ journal # NoJournal /\ journal' # NoJournal
    BY <1>1, <1>3, Blanks DEF Shapes, TypeOK, Journals, Diagnosing
  <2> QED
    BY <1>1, <1>2, <1>3, <2>1, Blanks, Beginnings DEF Recovering, Moved, IsCommitted
<1>10. Contained'
  BY <1>1, <1>2, <1>3 DEF Moved, Contained, Everyone
<1>11. Witness'
  BY <1>1, <1>2, <1>3 DEF Moved, Witness
<1>12. Advancing'
  BY <1>1, <1>2, <1>3 DEF Moved, Advancing, Diagnosing, Recovering
<1>13. Once'
  BY <1>1, <1>2, <1>3 DEF Moved
<1>14. Reconciling'
  BY <1>1, <1>2, <1>3 DEF Moved, Reconciling, Commits, Request, ReceiptFits, Got
<1>15. Committing'
  BY <1>1, <1>2, <1>3, Blanks, Beginnings DEF Moved, Committing, Got, IsCommitted, Settling
<1> QED
  BY <1>4, <1>5, <1>6, <1>7, <1>8, <1>9, <1>10, <1>11, <1>12, <1>13, <1>14, <1>15

(* A failure of begin goes to the recovery with its call. *)
LEMMA BeginRaiseKeeps ==
  ASSUME IInv, BeginRaise, UNCHANGED cloud
  PROVE  IInv'
<1> USE DEF IInv
<1>1. act.at # "free" /\ act.call.is = "begin"
  BY DEF BeginRaise
<1>2. Moved /\ act'.call = act.call /\ act'.at = "recover" /\ act'.from = act.from /\ cmd' = cmd /\ late' = late
  BY <1>1, Going DEF BeginRaise, Inner
<1>3. UNCHANGED <<host, journal, receipt>>
  BY DEF BeginRaise
<1>4. Advancing' /\ CommittedWasWitnessed' /\ CommitReconcilable'
  BY <1>1, <1>2, <1>3 DEF Advancing, CommittedWasWitnessed, CommitReconcilable, ReceiptFits, Moved
<1>5. Shapes'
  <2> QED
    BY <1>1, <1>2, <1>3 DEF Shapes, TypeOK, Moved
<1>6. Tied'
  BY <1>1, <1>2, <1>3 DEF Moved
<1>7. Known'
  BY <1>1, <1>2, <1>3 DEF Moved, Known
<1>8. Diagnosing'
  BY <1>1, <1>2, <1>3 DEF Moved, Diagnosing
<1>9. Recovering'
  BY <1>1, <1>2, <1>3 DEF Moved, Recovering, IsCommitted
<1>10. Contained'
  BY <1>1, <1>2, <1>3 DEF Moved, Contained, Everyone
<1>11. Witness'
  BY <1>1, <1>2, <1>3 DEF Moved, Witness
<1>12. Once'
  BY <1>1, <1>2, <1>3 DEF Moved
<1>13. Reconciling'
  BY <1>1, <1>2, <1>3 DEF Moved, Reconciling, Commits, Request, ReceiptFits, Got
<1>14. Committing'
  BY <1>1, <1>2, <1>3 DEF Moved, Committing, Got, IsCommitted, Settling
<1> QED
  BY <1>4, <1>5, <1>6, <1>7, <1>8, <1>9, <1>10, <1>11, <1>12, <1>13, <1>14

(* A verdict is true only of a line that was written. *)
LEMMA FinishReadKeeps ==
  ASSUME IInv, FinishRead, UNCHANGED cloud
  PROVE  IInv'
<1> USE DEF IInv
<1>1. act.at = "read" /\ act.call.is = "finish"
  BY DEF FinishRead, At
<1>2. Moved /\ act'.call = act.call /\ act'.at = "restore" /\ act'.from = act.from /\ cmd' = cmd /\ late' = late
  BY <1>1, Going DEF FinishRead, Inner
<1>3. /\ journal' = [journal EXCEPT !.auth = "restoring", !.verdict = Witnessed]
      /\ UNCHANGED <<host, receipt>> /\ (Witnessed => host.line) /\ Witnessed \in BOOLEAN
  BY DEF FinishRead, Witnessed, SameCore, Shapes, TypeOK, Journals, Hosts
<1>4. CommittedWasWitnessed' /\ CommitReconcilable'
  BY <1>1, <1>2, <1>3 DEF CommittedWasWitnessed, CommitReconcilable, ReceiptFits, Moved
<1>5. Shapes'
  <2>1. journal' \in Journals
    BY <1>1, <1>2, <1>3, Blanks, Beginnings DEF Shapes, TypeOK, Journals, Hosts, Requests, Idents
  <2> QED
    BY <1>1, <1>2, <1>3, <2>1 DEF Shapes, TypeOK, Moved
<1>6. Tied'
  BY <1>1, <1>2, <1>3 DEF Moved
<1>7. Known'
  BY <1>1, <1>2, <1>3 DEF Moved, Known
<1>8. Diagnosing'
  BY <1>1, <1>2, <1>3 DEF Moved, Diagnosing
<1>9. Recovering'
  <2>1. /\ journal'.phase = "prepared" /\ journal'.op = journal.op /\ journal.phase = "prepared"
        /\ journal.auth # "restored" /\ journal # NoJournal /\ journal' # NoJournal
    BY <1>1, <1>3, Blanks DEF Shapes, TypeOK, Journals, Diagnosing
  <2> QED
    BY <1>1, <1>2, <1>3, <2>1, Blanks, Beginnings DEF Recovering, Moved, IsCommitted
<1>10. Contained'
  BY <1>1, <1>2, <1>3 DEF Moved, Contained, Everyone
<1>11. Witness'
  BY <1>1, <1>2, <1>3 DEF Moved, Witness
<1>12. Advancing'
  BY <1>1, <1>2, <1>3 DEF Moved, Advancing, Diagnosing, Recovering
<1>13. Once'
  BY <1>1, <1>2, <1>3 DEF Moved
<1>14. Reconciling'
  BY <1>1, <1>2, <1>3 DEF Moved, Reconciling, Commits, Request, ReceiptFits, Got
<1>15. Committing'
  BY <1>1, <1>2, <1>3 DEF Moved, Committing, Got, IsCommitted, Settling
<1> QED
  BY <1>4, <1>5, <1>6, <1>7, <1>8, <1>9, <1>10, <1>11, <1>12, <1>13, <1>14, <1>15

(* The original template is back before the core is. *)
LEMMA FinishRestoreKeeps ==
  ASSUME IInv, FinishRestore, UNCHANGED cloud
  PROVE  IInv'
<1> USE DEF IInv
<1>1. act.at = "restore" /\ act.call.is = "finish"
  BY DEF FinishRestore, At
<1>2. Moved /\ act'.call = act.call /\ act'.at = "restart" /\ act'.from = act.from /\ cmd' = cmd /\ late' = late
  BY <1>1, Going DEF FinishRestore, Inner
<1>3. host' = [host EXCEPT !.template = "original"] /\ UNCHANGED <<journal, receipt>>
  BY DEF FinishRestore
<1>4. CommittedWasWitnessed' /\ CommitReconcilable'
  BY <1>1, <1>2, <1>3 DEF CommittedWasWitnessed, CommitReconcilable, ReceiptFits, Moved
<1>5. Shapes'
  <2>1. host' \in Hosts
    <3>1. host \in Hosts
      BY DEF Shapes, TypeOK
    <3> HIDE DEF IInv
    <3> QED
      BY <1>3, <3>1 DEF Hosts
  <2> QED
    BY <1>1, <1>2, <1>3, <2>1 DEF Shapes, TypeOK, Moved
<1>6. Tied'
  BY <1>1, <1>2, <1>3 DEF Moved
<1>7. Known'
  BY <1>1, <1>2, <1>3 DEF Moved, Known
<1>8. Diagnosing'
  BY <1>1, <1>2, <1>3 DEF Moved, Diagnosing
<1>9. Recovering'
  BY <1>1, <1>2, <1>3 DEF Moved, Recovering, IsCommitted
<1>10. Contained'
  BY <1>1, <1>2, <1>3 DEF Moved, Contained, Everyone
<1>11. Witness'
  BY <1>1, <1>2, <1>3 DEF Moved, Witness
<1>12. Advancing'
  BY <1>1, <1>2, <1>3 DEF Moved, Advancing
<1>13. Once'
  BY <1>1, <1>2, <1>3 DEF Moved
<1>14. Reconciling'
  BY <1>1, <1>2, <1>3 DEF Moved, Reconciling, Commits, Request, ReceiptFits, Got
<1>15. Committing'
  BY <1>1, <1>2, <1>3 DEF Moved, Committing, Got, IsCommitted, Settling
<1> QED
  BY <1>4, <1>5, <1>6, <1>7, <1>8, <1>9, <1>10, <1>11, <1>12, <1>13, <1>14, <1>15

(* The quiet core starts from the original template. *)
LEMMA FinishRestartKeeps ==
  ASSUME IInv, FinishRestart, UNCHANGED cloud
  PROVE  IInv'
<1> USE DEF IInv
<1>1. act.at = "restart" /\ act.call.is = "finish"
  BY DEF FinishRestart, At
<1>2. Moved /\ act'.call = act.call /\ act'.at = "clean" /\ act'.from = act.from /\ cmd' = cmd /\ late' = late
  BY <1>1, Going DEF FinishRestart, Inner
<1>3. host' = [host EXCEPT !.core = "quiet"] /\ UNCHANGED <<journal, receipt>>
  BY DEF FinishRestart
<1>4. CommittedWasWitnessed' /\ CommitReconcilable'
  BY <1>1, <1>2, <1>3 DEF CommittedWasWitnessed, CommitReconcilable, ReceiptFits, Moved
<1>5. Shapes'
  <2>1. host' \in Hosts
    BY <1>1, <1>2, <1>3, Blanks, Beginnings DEF Shapes, TypeOK, Hosts, Journals, Idents
  <2> QED
    BY <1>1, <1>2, <1>3, <2>1 DEF Shapes, TypeOK, Moved
<1>6. Tied'
  BY <1>1, <1>2, <1>3 DEF Moved
<1>7. Known'
  BY <1>1, <1>2, <1>3 DEF Moved, Known
<1>8. Diagnosing'
  BY <1>1, <1>2, <1>3 DEF Moved, Diagnosing
<1>9. Recovering'
  BY <1>1, <1>2, <1>3 DEF Moved, Recovering, IsCommitted
<1>10. Contained'
  BY <1>1, <1>2, <1>3 DEF Moved, Contained, Everyone
<1>11. Witness'
  BY <1>1, <1>2, <1>3 DEF Moved, Witness
<1>12. Advancing'
  BY <1>1, <1>2, <1>3 DEF Moved, Advancing
<1>13. Once'
  BY <1>1, <1>2, <1>3 DEF Moved
<1>14. Reconciling'
  BY <1>1, <1>2, <1>3 DEF Moved, Reconciling, Commits, Request, ReceiptFits, Got
<1>15. Committing'
  BY <1>1, <1>2, <1>3 DEF Moved, Committing, Got, IsCommitted, Settling
<1> QED
  BY <1>4, <1>5, <1>6, <1>7, <1>8, <1>9, <1>10, <1>11, <1>12, <1>13, <1>14, <1>15

(* The log goes, and the lines in it. *)
LEMMA FinishCleanKeeps ==
  ASSUME IInv, FinishClean, UNCHANGED cloud
  PROVE  IInv'
<1> USE DEF IInv
<1>1. act.at = "clean" /\ act.call.is = "finish"
  BY DEF FinishClean, At
<1>2. Moved /\ act'.call = act.call /\ act'.at = "forget" /\ act'.from = act.from /\ cmd' = cmd /\ late' = late
  BY <1>1, Going DEF FinishClean, Inner
<1>3. host' = [host EXCEPT !.dir = FALSE, !.file = FALSE, !.line = FALSE] /\ UNCHANGED <<journal, receipt>>
  BY DEF FinishClean, Cleaned
<1>4. CommittedWasWitnessed' /\ CommitReconcilable'
  BY <1>1, <1>2, <1>3 DEF CommittedWasWitnessed, CommitReconcilable, ReceiptFits, Moved
<1>5. Shapes'
  <2>1. host' \in Hosts
    <3>1. host \in Hosts
      BY DEF Shapes, TypeOK
    <3> HIDE DEF IInv
    <3> QED
      BY <1>3, <3>1 DEF Hosts
  <2> QED
    BY <1>1, <1>2, <1>3, <2>1 DEF Shapes, TypeOK, Moved
<1>6. Tied'
  BY <1>1, <1>2, <1>3 DEF Moved
<1>7. Known'
  BY <1>1, <1>2, <1>3 DEF Moved, Known
<1>8. Diagnosing'
  BY <1>1, <1>2, <1>3 DEF Moved, Diagnosing
<1>9. Recovering'
  BY <1>1, <1>2, <1>3 DEF Moved, Recovering, IsCommitted
<1>10. Contained'
  BY <1>1, <1>2, <1>3 DEF Moved, Contained, Everyone
<1>11. Witness'
  BY <1>1, <1>2, <1>3 DEF Moved, Witness
<1>12. Advancing'
  BY <1>1, <1>2, <1>3 DEF Moved, Advancing
<1>13. Once'
  BY <1>1, <1>2, <1>3 DEF Moved
<1>14. Reconciling'
  BY <1>1, <1>2, <1>3 DEF Moved, Reconciling, Commits, Request, ReceiptFits, Got
<1>15. Committing'
  BY <1>1, <1>2, <1>3 DEF Moved, Committing, Got, IsCommitted, Settling
<1> QED
  BY <1>4, <1>5, <1>6, <1>7, <1>8, <1>9, <1>10, <1>11, <1>12, <1>13, <1>14, <1>15

(* The archive from before the diagnostic is forgotten. *)
LEMMA FinishForgetKeeps ==
  ASSUME IInv, FinishForget, UNCHANGED cloud
  PROVE  IInv'
<1> USE DEF IInv
<1>1. act.at = "forget" /\ act.call.is = "finish"
  BY DEF FinishForget, At
<1>2. Moved /\ act'.call = act.call /\ act'.at = "restored" /\ act'.from = act.from /\ cmd' = cmd /\ late' = late
  BY <1>1, Going DEF FinishForget, Inner
<1>3. host' = [host EXCEPT !.export = NoArc] /\ UNCHANGED <<journal, receipt>>
  BY DEF FinishForget
<1>4. CommittedWasWitnessed' /\ CommitReconcilable'
  BY <1>1, <1>2, <1>3 DEF CommittedWasWitnessed, CommitReconcilable, ReceiptFits, Moved
<1>5. Shapes'
  <2>1. host' \in Hosts
    <3>1. host \in Hosts
      BY DEF Shapes, TypeOK
    <3> HIDE DEF IInv
    <3> QED
      BY <1>3, <3>1, Blanks DEF Hosts
  <2> QED
    BY <1>1, <1>2, <1>3, <2>1 DEF Shapes, TypeOK, Moved
<1>6. Tied'
  BY <1>1, <1>2, <1>3 DEF Moved
<1>7. Known'
  BY <1>1, <1>2, <1>3 DEF Moved, Known
<1>8. Diagnosing'
  BY <1>1, <1>2, <1>3 DEF Moved, Diagnosing
<1>9. Recovering'
  BY <1>1, <1>2, <1>3 DEF Moved, Recovering, IsCommitted
<1>10. Contained'
  BY <1>1, <1>2, <1>3, Blanks, Beginnings DEF Moved, Contained, Everyone
<1>11. Witness'
  BY <1>1, <1>2, <1>3 DEF Moved, Witness
<1>12. Advancing'
  BY <1>1, <1>2, <1>3 DEF Moved, Advancing
<1>13. Once'
  BY <1>1, <1>2, <1>3 DEF Moved
<1>14. Reconciling'
  BY <1>1, <1>2, <1>3 DEF Moved, Reconciling, Commits, Request, ReceiptFits, Got
<1>15. Committing'
  BY <1>1, <1>2, <1>3 DEF Moved, Committing, Got, IsCommitted, Settling
<1> QED
  BY <1>4, <1>5, <1>6, <1>7, <1>8, <1>9, <1>10, <1>11, <1>12, <1>13, <1>14, <1>15

(* The diagnostic is over, and no archive is older than it. *)
LEMMA FinishRestoredKeeps ==
  ASSUME IInv, FinishRestored, UNCHANGED cloud
  PROVE  IInv'
<1> USE DEF IInv
<1>1. act.at = "restored" /\ act.call.is = "finish"
  BY DEF FinishRestored, At
<1>2. Moved /\ act' = NoAct /\ (cmd'.got = cmd.got \/ cmd'.got.is \in {"verdict", "error"})
  <2>1. CASE journal.verdict
    BY <1>1, <2>1, Ending, Blanks, Beginnings DEF FinishRestored, Said
  <2>2. CASE ~journal.verdict
    BY <1>1, <2>2, Ending, Blanks, Beginnings DEF FinishRestored, Said
  <2> QED
    BY <2>1, <2>2
<1>3. journal' = [journal EXCEPT !.auth = "restored"] /\ UNCHANGED <<host, receipt>>
  BY DEF FinishRestored
<1>4. CommittedWasWitnessed' /\ CommitReconcilable'
  BY <1>1, <1>2, <1>3 DEF CommittedWasWitnessed, CommitReconcilable, ReceiptFits, Moved
<1>5. Shapes'
  <2>1. journal' \in Journals
    <3>1. journal \in Journals /\ host.ident \in Idents
      BY DEF Shapes, TypeOK, Hosts
    <3> HIDE DEF IInv
    <3> QED
      BY <1>3, <3>1 DEF Journals
  <2> QED
    BY <1>1, <1>2, <1>3, <2>1 DEF Shapes, TypeOK, Moved
<1>6. Tied'
  BY <1>1, <1>2, <1>3 DEF Moved
<1>7. Known'
  BY <1>1, <1>2, <1>3 DEF Moved, Known
<1>8. Diagnosing'
  BY <1>1, <1>2, <1>3, Blanks, Beginnings DEF Moved, Diagnosing
<1>9. Recovering'
  BY <1>1, <1>2, <1>3, Blanks, Beginnings DEF Shapes, TypeOK, Hosts, Journals, Moved, Diagnosing, Recovering,
     Contained, Committing, IsCommitted
<1>10. Contained'
  BY <1>1, <1>2, <1>3 DEF Moved, Contained, Everyone, Diagnosing
<1>11. Witness'
  BY <1>1, <1>2, <1>3 DEF Moved, Witness
<1>12. Advancing'
  BY <1>1, <1>2, <1>3 DEF Moved, Advancing, Diagnosing, Recovering
<1>13. Once'
  BY <1>1, <1>2, <1>3 DEF Moved
<1>14. Reconciling'
  BY <1>1, <1>2, <1>3 DEF Moved, Reconciling, Commits, Request, ReceiptFits, Got
<1>15. Committing'
  BY <1>1, <1>2, <1>3, Blanks, Beginnings DEF Moved, Committing, Got, IsCommitted, Settling
<1> QED
  BY <1>4, <1>5, <1>6, <1>7, <1>8, <1>9, <1>10, <1>11, <1>12, <1>13, <1>14, <1>15

(* A log that stays keeps the diagnostic unfinished. *)
LEMMA FinishKeepKeeps ==
  ASSUME IInv, FinishKeep, UNCHANGED cloud
  PROVE  IInv'
<1> USE DEF IInv
<1>1. act.at = "clean" /\ act.call.is = "finish"
  BY DEF FinishKeep, At
<1>2. Moved /\ act' = NoAct /\ (cmd'.got = cmd.got \/ cmd'.got.is = "error")
  BY <1>1, Ending, Blanks, Beginnings DEF FinishKeep, Said
<1>3. host' = [host EXCEPT !.export = NoArc] /\ UNCHANGED <<journal, receipt>>
  BY DEF FinishKeep
<1>4. CommittedWasWitnessed' /\ CommitReconcilable'
  BY <1>1, <1>2, <1>3 DEF CommittedWasWitnessed, CommitReconcilable, ReceiptFits, Moved
<1>5. Shapes'
  <2>1. host' \in Hosts
    <3>1. host \in Hosts
      BY DEF Shapes, TypeOK
    <3> HIDE DEF IInv
    <3> QED
      BY <1>3, <3>1, Blanks DEF Hosts
  <2> QED
    BY <1>1, <1>2, <1>3, <2>1 DEF Shapes, TypeOK, Moved
<1>6. Tied'
  BY <1>1, <1>2, <1>3 DEF Moved
<1>7. Known'
  BY <1>1, <1>2, <1>3 DEF Moved, Known
<1>8. Diagnosing'
  BY <1>1, <1>2, <1>3, Blanks, Beginnings DEF Moved, Diagnosing
<1>9. Recovering'
  BY <1>1, <1>2, <1>3, Blanks, Beginnings DEF Moved, Recovering, IsCommitted
<1>10. Contained'
  BY <1>1, <1>2, <1>3, Blanks, Beginnings DEF Moved, Contained, Everyone
<1>11. Witness'
  BY <1>1, <1>2, <1>3 DEF Moved, Witness
<1>12. Advancing'
  BY <1>1, <1>2, <1>3 DEF Moved, Advancing
<1>13. Once'
  BY <1>1, <1>2, <1>3 DEF Moved
<1>14. Reconciling'
  BY <1>1, <1>2, <1>3 DEF Moved, Reconciling, Commits, Request, ReceiptFits, Got
<1>15. Committing'
  BY <1>1, <1>2, <1>3, Blanks, Beginnings DEF Moved, Committing, Got, IsCommitted, Settling
<1> QED
  BY <1>4, <1>5, <1>6, <1>7, <1>8, <1>9, <1>10, <1>11, <1>12, <1>13, <1>14, <1>15

(* A failure of finish leaves the diagnostic unfinished. *)
LEMMA FinishRaiseKeeps ==
  ASSUME IInv, FinishRaise, UNCHANGED cloud
  PROVE  IInv'
<1> USE DEF IInv
<1>1. act.at # "free" /\ act.call.is = "finish"
  BY DEF FinishRaise, At
<1>2. Moved /\ act' = NoAct /\ (cmd'.got = cmd.got \/ cmd'.got.is = "error")
  BY <1>1, Ending, Blanks, Beginnings DEF FinishRaise, Said
<1>3. UNCHANGED <<host, journal, receipt>>
  BY DEF FinishRaise
<1>4. Advancing' /\ CommittedWasWitnessed' /\ CommitReconcilable'
  BY <1>1, <1>2, <1>3 DEF Advancing, CommittedWasWitnessed, CommitReconcilable, ReceiptFits, Moved
<1>5. Shapes'
  <2> QED
    BY <1>1, <1>2, <1>3 DEF Shapes, TypeOK, Moved
<1>6. Tied'
  BY <1>1, <1>2, <1>3 DEF Moved
<1>7. Known'
  BY <1>1, <1>2, <1>3 DEF Moved, Known
<1>8. Diagnosing'
  BY <1>1, <1>2, <1>3, Blanks, Beginnings DEF Moved, Diagnosing
<1>9. Recovering'
  BY <1>1, <1>2, <1>3, Blanks, Beginnings DEF Moved, Recovering, IsCommitted
<1>10. Contained'
  BY <1>1, <1>2, <1>3 DEF Moved, Contained, Everyone
<1>11. Witness'
  BY <1>1, <1>2, <1>3 DEF Moved, Witness
<1>12. Once'
  BY <1>1, <1>2, <1>3 DEF Moved
<1>13. Reconciling'
  BY <1>1, <1>2, <1>3 DEF Moved, Reconciling, Commits, Request, ReceiptFits, Got
<1>14. Committing'
  BY <1>1, <1>2, <1>3, Blanks, Beginnings DEF Moved, Committing, Got, IsCommitted, Settling
<1> QED
  BY <1>4, <1>5, <1>6, <1>7, <1>8, <1>9, <1>10, <1>11, <1>12, <1>13, <1>14

(* Publication changes nothing the commit was granted for. *)
LEMMA CommitPublishKeeps ==
  ASSUME IInv, CommitPublish, UNCHANGED cloud
  PROVE  IInv'
<1> USE DEF IInv
<1>1. act.at = "publish" /\ act.call.is = "commit"
  BY DEF CommitPublish, At
<1>2. Moved /\ act'.call = act.call /\ act'.at = "receipt" /\ act'.from = act.from /\ cmd' = cmd /\ late' = late
  BY <1>1, Going DEF CommitPublish, Inner
<1>3. host' = [host EXCEPT !.pub = TRUE] /\ UNCHANGED <<journal, receipt>>
  BY DEF CommitPublish
<1>4. CommittedWasWitnessed' /\ CommitReconcilable'
  BY <1>1, <1>2, <1>3 DEF CommittedWasWitnessed, CommitReconcilable, ReceiptFits, Moved
<1>5. Shapes'
  <2>1. host' \in Hosts
    <3>1. host \in Hosts
      BY DEF Shapes, TypeOK
    <3> HIDE DEF IInv
    <3> QED
      BY <1>3, <3>1 DEF Hosts
  <2> QED
    BY <1>1, <1>2, <1>3, <2>1 DEF Shapes, TypeOK, Moved
<1>6. Tied'
  BY <1>1, <1>2, <1>3 DEF Moved
<1>7. Known'
  BY <1>1, <1>2, <1>3 DEF Moved, Known
<1>8. Diagnosing'
  BY <1>1, <1>2, <1>3 DEF Moved, Diagnosing
<1>9. Recovering'
  BY <1>1, <1>2, <1>3 DEF Moved, Recovering, IsCommitted
<1>10. Contained'
  BY <1>1, <1>2, <1>3 DEF Moved, Contained, Everyone
<1>11. Witness'
  BY <1>1, <1>2, <1>3 DEF Moved, Witness
<1>12. Advancing'
  BY <1>1, <1>2, <1>3 DEF Moved, Advancing
<1>13. Once'
  BY <1>1, <1>2, <1>3 DEF Moved
<1>14. Reconciling'
  BY <1>1, <1>2, <1>3 DEF Moved, Reconciling, Commits, Request, ReceiptFits, Got
<1>15. Committing'
  BY <1>1, <1>2, <1>3 DEF Moved, Committing, Got, IsCommitted, Settling
<1> QED
  BY <1>4, <1>5, <1>6, <1>7, <1>8, <1>9, <1>10, <1>11, <1>12, <1>13, <1>14, <1>15

(* The receipt is of what was witnessed, and pending.json names it. *)
LEMMA CommitReceiptKeeps ==
  ASSUME IInv, CommitReceipt, UNCHANGED cloud
  PROVE  IInv'
<1> USE DEF IInv
<1>1. act.at = "receipt" /\ act.call.is = "commit"
  BY DEF CommitReceipt, At
<1>2. Moved /\ act'.call = act.call /\ act'.at = "close" /\ act'.from = act.from /\ cmd' = cmd /\ late' = late
  BY <1>1, Going DEF CommitReceipt, Inner
<1>3. receipt' = [receipt EXCEPT ![act.call.op] =
                   [arc |-> act.call.arc, ident |-> journal.seen, sound |-> host.sound]]
      /\ UNCHANGED <<host, journal>> /\ act.call.op \in Ops
      /\ act.call.op = journal.op /\ act.call.arc.op # 0 /\ act.call \in Commits
      /\ receipt'[act.call.op] # NoReceipt /\ receipt'[act.call.op].arc = act.call.arc
      /\ receipt'[act.call.op].ident = journal.seen /\ receipt'[act.call.op].sound = host.sound
      /\ \A o \in Ops : o # act.call.op => receipt'[o] = receipt[o]
  BY <1>1, Blanks DEF CommitReceipt, Committing, Once, Ops, Shapes, TypeOK, Receipts, Acts, Requests, Commits,
     Reconciling, NoReceipt
<1>4. Advancing'
  BY <1>1, <1>2, <1>3 DEF Advancing, Moved
<1>5. Shapes'
  <2>1. receipt' \in [Ops -> Receipts]
    BY <1>1, <1>2, <1>3, Blanks, Beginnings DEF Shapes, TypeOK, Receipts, Acts, Requests, Journals, Hosts
  <2> QED
    BY <1>1, <1>2, <1>3, <2>1 DEF Shapes, TypeOK, Moved
<1>6. Tied'
  BY <1>1, <1>2, <1>3 DEF Moved
<1>7. Known'
  BY <1>1, <1>2, <1>3 DEF Moved, Known
<1>8. Diagnosing'
  BY <1>1, <1>2, <1>3 DEF Moved, Diagnosing
<1>9. Recovering'
  BY <1>1, <1>2, <1>3 DEF Moved, Diagnosing, Recovering, Contained, Committing, IsCommitted
<1>10. Contained'
  BY <1>1, <1>2, <1>3 DEF Moved, Contained, Everyone
<1>11. Witness'
  BY <1>1, <1>2, <1>3 DEF Moved, Witness
<1>12. Once'
  BY <1>1, <1>2, <1>3 DEF Moved
<1>13. Reconciling'
  BY <1>1, <1>2, <1>3 DEF Moved, Reconciling, Commits, Request, ReceiptFits, Got
<1>14. Committing'
  BY <1>1, <1>2, <1>3 DEF Moved, Committing, Got, IsCommitted, Settling, Once, Reconciling, Commits
<1>15. CommittedWasWitnessed'
  BY <1>1, <1>2, <1>3 DEF Moved, CommittedWasWitnessed, Committing, Witness, Reconciling, Commits
<1>16. CommitReconcilable'
  BY <1>1, <1>2, <1>3 DEF Moved, CommitReconcilable, ReceiptFits, Tied, Committing, Settling, IsCommitted, Commits,
     Reconciling
<1> QED
  BY <1>4, <1>5, <1>6, <1>7, <1>8, <1>9, <1>10, <1>11, <1>12, <1>13, <1>14, <1>15, <1>16

(* The journal goes when the receipt is there. *)
LEMMA CommitCloseKeeps ==
  ASSUME IInv, CommitClose, UNCHANGED cloud
  PROVE  IInv'
<1> USE DEF IInv
<1>1. act.at = "close" /\ act.call.is = "commit"
  BY DEF CommitClose, At
<1>2. Moved /\ act' = NoAct /\ (cmd'.got = cmd.got \/ (cmd'.got.is = "committed" /\ act.call.op = cmd.op))
  <2>1. act.call.arc \in Archives /\ act.call.arc.template # "witness"
    BY DEF Shapes, Acts, Requests, Contained, Everyone
  <2> QED
    BY <1>1, <2>1, Ending, Beginnings DEF CommitClose, Said
<1>3. journal' = NoJournal /\ UNCHANGED <<host, receipt>>
  BY DEF CommitClose
<1>4. CommittedWasWitnessed' /\ CommitReconcilable'
  BY <1>1, <1>2, <1>3 DEF CommittedWasWitnessed, CommitReconcilable, ReceiptFits, Moved
<1>5. Shapes'
  <2>1. journal' \in Journals
    BY <1>1, <1>2, <1>3, Blanks, Beginnings DEF Shapes, TypeOK, Journals, Hosts, Requests, Idents
  <2> QED
    BY <1>1, <1>2, <1>3, <2>1 DEF Shapes, TypeOK, Moved
<1>6. Tied'
  BY <1>1, <1>2, <1>3 DEF Moved
<1>7. Known'
  BY <1>1, <1>2, <1>3, Blanks, Beginnings DEF Moved, Known
<1>8. Diagnosing'
  BY <1>1, <1>2, <1>3, Blanks, Beginnings DEF Moved, Diagnosing
<1>9. Recovering'
  BY <1>1, <1>2, <1>3, Blanks, Beginnings DEF Moved, Recovering, IsCommitted
<1>10. Contained'
  BY <1>1, <1>2, <1>3 DEF Moved, Contained, Everyone, Recovering, Committing, IsCommitted
<1>11. Witness'
  BY <1>1, <1>2, <1>3, Blanks, Beginnings DEF Moved, Witness
<1>12. Advancing'
  BY <1>1, <1>2, <1>3, Blanks, Beginnings DEF Moved, Advancing
<1>13. Once'
  BY <1>1, <1>2, <1>3 DEF Moved
<1>14. Reconciling'
  BY <1>1, <1>2, <1>3, Blanks, Beginnings DEF Moved, Reconciling, Commits, Request, ReceiptFits, Got
<1>15. Committing'
  BY <1>1, <1>2, <1>3, Blanks, Beginnings DEF Moved, Committing, Got, IsCommitted, Settling
<1> QED
  BY <1>4, <1>5, <1>6, <1>7, <1>8, <1>9, <1>10, <1>11, <1>12, <1>13, <1>14, <1>15

(* A commit that fails before the receipt commits nothing. *)
LEMMA CommitRaiseKeeps ==
  ASSUME IInv, CommitRaise, UNCHANGED cloud
  PROVE  IInv'
<1> USE DEF IInv
<1>1. act.at = "publish" /\ act.call.is = "commit"
  BY DEF CommitRaise, At
<1>2. Moved /\ act' = NoAct /\ (cmd'.got = cmd.got \/ cmd'.got.is = "error")
  BY <1>1, Ending, Blanks, Beginnings DEF CommitRaise, Said
<1>3. UNCHANGED <<host, journal, receipt>>
  BY DEF CommitRaise
<1>4. Advancing' /\ CommittedWasWitnessed' /\ CommitReconcilable'
  BY <1>1, <1>2, <1>3 DEF Advancing, CommittedWasWitnessed, CommitReconcilable, ReceiptFits, Moved
<1>5. Shapes'
  <2> QED
    BY <1>1, <1>2, <1>3 DEF Shapes, TypeOK, Moved
<1>6. Tied'
  BY <1>1, <1>2, <1>3 DEF Moved
<1>7. Known'
  BY <1>1, <1>2, <1>3 DEF Moved, Known
<1>8. Diagnosing'
  BY <1>1, <1>2, <1>3, Blanks, Beginnings DEF Moved, Diagnosing
<1>9. Recovering'
  BY <1>1, <1>2, <1>3, Blanks, Beginnings DEF Moved, Recovering, IsCommitted
<1>10. Contained'
  BY <1>1, <1>2, <1>3 DEF Moved, Contained, Everyone
<1>11. Witness'
  BY <1>1, <1>2, <1>3 DEF Moved, Witness
<1>12. Once'
  BY <1>1, <1>2, <1>3 DEF Moved
<1>13. Reconciling'
  BY <1>1, <1>2, <1>3 DEF Moved, Reconciling, Commits, Request, ReceiptFits, Got
<1>14. Committing'
  BY <1>1, <1>2, <1>3, Blanks, Beginnings DEF Moved, Committing, Got, IsCommitted, Settling
<1> QED
  BY <1>4, <1>5, <1>6, <1>7, <1>8, <1>9, <1>10, <1>11, <1>12, <1>13, <1>14

(* A recovery that ends tells an abort what became of its operation. *)
LEMMA RecoverEndKeeps ==
  ASSUME IInv, RecoverEnd, UNCHANGED cloud
  PROVE  IInv'
<1> USE DEF IInv
<1>1. act.at = "recover"
  BY DEF RecoverEnd, At
<1>2. Moved /\ act' = NoAct /\ (cmd'.got = cmd.got \/ cmd'.got.is = "error"
                                \/ (cmd'.got.is = "committed" /\ IsCommitted(cmd.op))
                                \/ (cmd'.got.is = "restored" /\ ~IsCommitted(cmd.op)))
  <2>1. CASE act.call.is # "abort"
    <3>1. Ends(Answer("error", NoArc))
      BY <2>1 DEF RecoverEnd, Outcome
    <3> QED
      BY <1>1, <3>1, Ending, Blanks, Beginnings DEF Said
  <2>2. CASE act.call.is = "abort" /\ IsCommitted(act.call.op)
    <3>1. receipt[act.call.op].arc \in Archives /\ receipt[act.call.op].arc.template # "witness"
      BY <2>2 DEF Shapes, TypeOK, Receipts, IsCommitted, Contained, Everyone
    <3>2. Ends(Answer("committed", receipt[act.call.op].arc))
      BY <2>2 DEF RecoverEnd, Outcome
    <3> QED
      BY <1>1, <2>2, <3>1, <3>2, Ending, Beginnings DEF Said
  <2>3. CASE act.call.is = "abort" /\ ~IsCommitted(act.call.op)
    <3>1. Ends(Answer("restored", NoArc))
      BY <2>3 DEF RecoverEnd, Outcome
    <3> QED
      BY <1>1, <2>3, <3>1, Ending, Blanks, Beginnings DEF Said
  <2> QED
    BY <2>1, <2>2, <2>3
<1>3. /\ host' = (IF journal.phase = "restored" THEN [host EXCEPT !.core = "quiet"] ELSE host)
      /\ journal' = NoJournal /\ UNCHANGED <<receipt>>
  BY DEF RecoverEnd
<1>4. CommittedWasWitnessed' /\ CommitReconcilable'
  BY <1>1, <1>2, <1>3 DEF CommittedWasWitnessed, CommitReconcilable, ReceiptFits, Moved
<1>5. Shapes'
  <2>1. host' \in Hosts
    <3>1. host \in Hosts
      BY DEF Shapes, TypeOK
    <3> HIDE DEF IInv
    <3> QED
      BY <1>3, <3>1 DEF Hosts
  <2>2. journal' \in Journals
    BY <1>1, <1>2, <1>3, Blanks, Beginnings DEF Shapes, TypeOK, Journals, Hosts, Requests, Idents
  <2> QED
    BY <1>1, <1>2, <1>3, <2>1, <2>2 DEF Shapes, TypeOK, Moved
<1>6. Tied'
  BY <1>1, <1>2, <1>3 DEF Moved
<1>7. Known'
  BY <1>1, <1>2, <1>3, Blanks, Beginnings DEF Moved, Known
<1>8. Diagnosing'
  BY <1>1, <1>2, <1>3, Blanks, Beginnings DEF Moved, Diagnosing
<1>9. Recovering'
  BY <1>1, <1>2, <1>3, Blanks, Beginnings DEF Moved, Recovering, IsCommitted
<1>10. Contained'
  <2>1. host.template # "witness" /\ ~host.dir /\ ~host.file
    <3>1. CASE journal = NoJournal
      BY <3>1, Blanks DEF Contained
    <3>2. CASE IsCommitted(journal.op) /\ journal # NoJournal
      BY <3>2 DEF Contained, Recovering
    <3>3. CASE journal.phase = "restored"
      BY <3>3 DEF Recovering
    <3> QED
      BY <3>1, <3>2, <3>3 DEF RecoverEnd
  <2>2. /\ host'.template # "witness" /\ ~host'.dir /\ ~host'.file /\ host'.export = host.export
    BY <1>3, <2>1 DEF Shapes, TypeOK, Hosts
  <2> QED
    BY <1>2, <1>3, <2>2, Blanks DEF Contained, Everyone, Moved
<1>11. Witness'
  BY <1>1, <1>2, <1>3, Blanks, Beginnings DEF Moved, Witness
<1>12. Advancing'
  BY <1>1, <1>2, <1>3, Blanks, Beginnings DEF Moved, Advancing
<1>13. Once'
  BY <1>1, <1>2, <1>3 DEF Moved
<1>14. Reconciling'
  BY <1>1, <1>2, <1>3, Blanks, Beginnings DEF Moved, Reconciling, Commits, Request, ReceiptFits, Got
<1>15. Committing'
  BY <1>1, <1>2, <1>3, Blanks, Beginnings DEF Moved, Committing, Got, IsCommitted, Settling
<1> QED
  BY <1>4, <1>5, <1>6, <1>7, <1>8, <1>9, <1>10, <1>11, <1>12, <1>13, <1>14, <1>15

(* A recovery that waits leaves everything as it is. *)
LEMMA RecoverWaitKeeps ==
  ASSUME IInv, RecoverWait, UNCHANGED cloud
  PROVE  IInv'
<1> USE DEF IInv
<1>1. act.at = "recover"
  BY DEF RecoverWait, At
<1>2. Moved /\ act' = NoAct /\ (cmd'.got = cmd.got \/ cmd'.got.is = "error"
                                \/ (cmd'.got.is = "committed" /\ IsCommitted(cmd.op))
                                \/ (cmd'.got.is = "queued" /\ ~IsCommitted(cmd.op)))
  <2>1. CASE act.call.is # "abort"
    <3>1. Ends(Answer("error", NoArc))
      BY <2>1 DEF RecoverWait, Outcome
    <3> QED
      BY <1>1, <3>1, Ending, Blanks, Beginnings DEF Said
  <2>2. CASE act.call.is = "abort" /\ IsCommitted(act.call.op)
    <3>1. receipt[act.call.op].arc \in Archives /\ receipt[act.call.op].arc.template # "witness"
      BY <2>2 DEF Shapes, TypeOK, Receipts, IsCommitted, Contained, Everyone
    <3>2. Ends(Answer("committed", receipt[act.call.op].arc))
      BY <2>2 DEF RecoverWait, Outcome
    <3> QED
      BY <1>1, <2>2, <3>1, <3>2, Ending, Beginnings DEF Said
  <2>3. CASE act.call.is = "abort" /\ ~IsCommitted(act.call.op)
    <3>1. Ends(Answer("queued", NoArc))
      BY <2>3 DEF RecoverWait, Outcome
    <3> QED
      BY <1>1, <2>3, <3>1, Ending, Blanks, Beginnings DEF Said
  <2> QED
    BY <2>1, <2>2, <2>3
<1>3. UNCHANGED <<host, journal, receipt>>
  BY DEF RecoverWait
<1>4. Advancing' /\ CommittedWasWitnessed' /\ CommitReconcilable'
  BY <1>1, <1>2, <1>3 DEF Advancing, CommittedWasWitnessed, CommitReconcilable, ReceiptFits, Moved
<1>5. Shapes'
  <2> QED
    BY <1>1, <1>2, <1>3 DEF Shapes, TypeOK, Moved
<1>6. Tied'
  BY <1>1, <1>2, <1>3 DEF Moved
<1>7. Known'
  BY <1>1, <1>2, <1>3 DEF Moved, Known
<1>8. Diagnosing'
  BY <1>1, <1>2, <1>3, Blanks, Beginnings DEF Moved, Diagnosing
<1>9. Recovering'
  BY <1>1, <1>2, <1>3, Blanks, Beginnings DEF Moved, Recovering, IsCommitted
<1>10. Contained'
  BY <1>1, <1>2, <1>3 DEF Moved, Contained, Everyone
<1>11. Witness'
  BY <1>1, <1>2, <1>3 DEF Moved, Witness
<1>12. Once'
  BY <1>1, <1>2, <1>3 DEF Moved
<1>13. Reconciling'
  BY <1>1, <1>2, <1>3 DEF Moved, Reconciling, Commits, Request, ReceiptFits, Got
<1>14. Committing'
  BY <1>1, <1>2, <1>3, Blanks, Beginnings DEF Moved, Committing, Got, IsCommitted, Settling
<1> QED
  BY <1>4, <1>5, <1>6, <1>7, <1>8, <1>9, <1>10, <1>11, <1>12, <1>13, <1>14

(* Only what is not committed is rolled back. *)
LEMMA RecoverMarkKeeps ==
  ASSUME IInv, RecoverMark, UNCHANGED cloud
  PROVE  IInv'
<1> USE DEF IInv
<1>1. act.at = "recover"
  BY DEF RecoverMark, At
<1>2. Moved /\ act'.call = act.call /\ act'.at = "database" /\ act'.from = act.from /\ cmd' = cmd /\ late' = late
  BY <1>1, Going DEF RecoverMark, Inner
<1>3. /\ host' = [host EXCEPT !.core = "off"] /\ journal' = [journal EXCEPT !.phase = "recovering"]
      /\ UNCHANGED <<receipt>> /\ journal # NoJournal /\ ~IsCommitted(journal.op)
  BY DEF RecoverMark
<1>4. CommittedWasWitnessed' /\ CommitReconcilable'
  BY <1>1, <1>2, <1>3 DEF CommittedWasWitnessed, CommitReconcilable, ReceiptFits, Moved
<1>5. Shapes'
  <2>1. host' \in Hosts
    BY <1>1, <1>2, <1>3, Blanks, Beginnings DEF Shapes, TypeOK, Hosts, Journals, Idents
  <2>2. journal' \in Journals
    BY <1>1, <1>2, <1>3, Blanks, Beginnings DEF Shapes, TypeOK, Journals, Hosts, Requests, Idents
  <2> QED
    BY <1>1, <1>2, <1>3, <2>1, <2>2 DEF Shapes, TypeOK, Moved
<1>6. Tied'
  BY <1>1, <1>2, <1>3 DEF Moved
<1>7. Known'
  BY <1>1, <1>2, <1>3 DEF Moved, Known
<1>8. Diagnosing'
  BY <1>1, <1>2, <1>3 DEF Moved, Diagnosing
<1>9. Recovering'
  BY <1>1, <1>2, <1>3, Blanks, Beginnings DEF Shapes, TypeOK, Hosts, Journals, Moved, Diagnosing, Recovering,
     Contained, Committing, IsCommitted
<1>10. Contained'
  BY <1>1, <1>2, <1>3 DEF Moved, Contained, Everyone
<1>11. Witness'
  BY <1>1, <1>2, <1>3 DEF Moved, Witness
<1>12. Advancing'
  BY <1>1, <1>2, <1>3 DEF Moved, Advancing
<1>13. Once'
  BY <1>1, <1>2, <1>3 DEF Moved
<1>14. Reconciling'
  BY <1>1, <1>2, <1>3 DEF Moved, Reconciling, Commits, Request, ReceiptFits, Got
<1>15. Committing'
  BY <1>1, <1>2, <1>3 DEF Moved, Committing, Got, IsCommitted, Settling
<1> QED
  BY <1>4, <1>5, <1>6, <1>7, <1>8, <1>9, <1>10, <1>11, <1>12, <1>13, <1>14, <1>15

(* The accounts of before the transaction come back. *)
LEMMA RecoverDatabaseKeeps ==
  ASSUME IInv, RecoverDatabase, UNCHANGED cloud
  PROVE  IInv'
<1> USE DEF IInv
<1>1. act.at = "database"
  BY DEF RecoverDatabase, At
<1>2. Moved /\ act'.call = act.call /\ act'.at = "cleanup" /\ act'.from = act.from /\ cmd' = cmd /\ late' = late
  BY <1>1, Going DEF RecoverDatabase, Inner
<1>3. /\ host' = [host EXCEPT !.op = 0, !.pub = TRUE, !.ident = journal.base, !.template = "original"]
      /\ UNCHANGED <<journal, receipt>>
  BY DEF RecoverDatabase
<1>4. CommittedWasWitnessed' /\ CommitReconcilable'
  BY <1>1, <1>2, <1>3 DEF CommittedWasWitnessed, CommitReconcilable, ReceiptFits, Moved
<1>5. Shapes'
  <2>1. host' \in Hosts
    BY <1>1, <1>2, <1>3, Blanks, Beginnings DEF Shapes, TypeOK, Hosts, Journals, Idents
  <2> QED
    BY <1>1, <1>2, <1>3, <2>1 DEF Shapes, TypeOK, Moved
<1>6. Tied'
  BY <1>1, <1>2, <1>3 DEF Moved
<1>7. Known'
  BY <1>1, <1>2, <1>3 DEF Moved, Known
<1>8. Diagnosing'
  BY <1>1, <1>2, <1>3 DEF Moved, Diagnosing
<1>9. Recovering'
  BY <1>1, <1>2, <1>3 DEF Moved, Recovering, IsCommitted
<1>10. Contained'
  BY <1>1, <1>2, <1>3 DEF Moved, Contained, Everyone
<1>11. Witness'
  BY <1>1, <1>2, <1>3 DEF Moved, Witness
<1>12. Advancing'
  BY <1>1, <1>2, <1>3 DEF Moved, Advancing, Diagnosing, Recovering
<1>13. Once'
  BY <1>1, <1>2, <1>3 DEF Moved
<1>14. Reconciling'
  BY <1>1, <1>2, <1>3 DEF Moved, Reconciling, Commits, Request, ReceiptFits, Got
<1>15. Committing'
  BY <1>1, <1>2, <1>3 DEF Moved, Committing, Got, IsCommitted, Settling
<1> QED
  BY <1>4, <1>5, <1>6, <1>7, <1>8, <1>9, <1>10, <1>11, <1>12, <1>13, <1>14, <1>15

(* The log goes, and the lines in it. *)
LEMMA RecoverCleanupKeeps ==
  ASSUME IInv, RecoverCleanup, UNCHANGED cloud
  PROVE  IInv'
<1> USE DEF IInv
<1>1. act.at = "cleanup"
  BY DEF RecoverCleanup, At
<1>2. Moved /\ act'.call = act.call /\ act'.at = "queue" /\ act'.from = act.from /\ cmd' = cmd /\ late' = late
  BY <1>1, Going DEF RecoverCleanup, Inner
<1>3. host' = [host EXCEPT !.dir = FALSE, !.file = FALSE, !.line = FALSE] /\ UNCHANGED <<journal, receipt>>
  BY DEF RecoverCleanup, Cleaned
<1>4. CommittedWasWitnessed' /\ CommitReconcilable'
  BY <1>1, <1>2, <1>3 DEF CommittedWasWitnessed, CommitReconcilable, ReceiptFits, Moved
<1>5. Shapes'
  <2>1. host' \in Hosts
    <3>1. host \in Hosts
      BY DEF Shapes, TypeOK
    <3> HIDE DEF IInv
    <3> QED
      BY <1>3, <3>1 DEF Hosts
  <2> QED
    BY <1>1, <1>2, <1>3, <2>1 DEF Shapes, TypeOK, Moved
<1>6. Tied'
  BY <1>1, <1>2, <1>3 DEF Moved
<1>7. Known'
  BY <1>1, <1>2, <1>3 DEF Moved, Known
<1>8. Diagnosing'
  BY <1>1, <1>2, <1>3 DEF Moved, Diagnosing
<1>9. Recovering'
  BY <1>1, <1>2, <1>3 DEF Moved, Recovering, IsCommitted
<1>10. Contained'
  BY <1>1, <1>2, <1>3 DEF Moved, Contained, Everyone
<1>11. Witness'
  BY <1>1, <1>2, <1>3 DEF Moved, Witness
<1>12. Advancing'
  BY <1>1, <1>2, <1>3 DEF Moved, Advancing
<1>13. Once'
  BY <1>1, <1>2, <1>3 DEF Moved
<1>14. Reconciling'
  BY <1>1, <1>2, <1>3 DEF Moved, Reconciling, Commits, Request, ReceiptFits, Got
<1>15. Committing'
  BY <1>1, <1>2, <1>3 DEF Moved, Committing, Got, IsCommitted, Settling
<1> QED
  BY <1>4, <1>5, <1>6, <1>7, <1>8, <1>9, <1>10, <1>11, <1>12, <1>13, <1>14, <1>15

(* What is restored has nothing of a diagnostic. *)
LEMMA RecoverQueueKeeps ==
  ASSUME IInv, RecoverQueue, UNCHANGED cloud
  PROVE  IInv'
<1> USE DEF IInv
<1>1. act.at = "queue"
  BY DEF RecoverQueue, At
<1>2. Moved /\ act' = NoAct /\ (cmd'.got = cmd.got \/ cmd'.got.is = "error"
                                \/ (cmd'.got.is = "committed" /\ IsCommitted(cmd.op))
                                \/ (cmd'.got.is = "queued" /\ ~IsCommitted(cmd.op)))
  <2>1. CASE act.call.is # "abort"
    <3>1. Ends(Answer("error", NoArc))
      BY <2>1 DEF RecoverQueue, Outcome
    <3> QED
      BY <1>1, <3>1, Ending, Blanks, Beginnings DEF Said
  <2>2. CASE act.call.is = "abort" /\ IsCommitted(act.call.op)
    <3>1. receipt[act.call.op].arc \in Archives /\ receipt[act.call.op].arc.template # "witness"
      BY <2>2 DEF Shapes, TypeOK, Receipts, IsCommitted, Contained, Everyone
    <3>2. Ends(Answer("committed", receipt[act.call.op].arc))
      BY <2>2 DEF RecoverQueue, Outcome
    <3> QED
      BY <1>1, <2>2, <3>1, <3>2, Ending, Beginnings DEF Said
  <2>3. CASE act.call.is = "abort" /\ ~IsCommitted(act.call.op)
    <3>1. Ends(Answer("queued", NoArc))
      BY <2>3 DEF RecoverQueue, Outcome
    <3> QED
      BY <1>1, <2>3, <3>1, Ending, Blanks, Beginnings DEF Said
  <2> QED
    BY <2>1, <2>2, <2>3
<1>3. /\ host' = [host EXCEPT !.core = "quiet"] /\ journal' = [journal EXCEPT !.phase = "restored"]
      /\ UNCHANGED <<receipt>>
  BY DEF RecoverQueue
<1>4. CommittedWasWitnessed' /\ CommitReconcilable'
  BY <1>1, <1>2, <1>3 DEF CommittedWasWitnessed, CommitReconcilable, ReceiptFits, Moved
<1>5. Shapes'
  <2>1. host' \in Hosts
    <3>1. host \in Hosts
      BY DEF Shapes, TypeOK
    <3> HIDE DEF IInv
    <3> QED
      BY <1>3, <3>1 DEF Hosts
  <2>2. journal' \in Journals
    <3>1. journal \in Journals /\ host.ident \in Idents
      BY DEF Shapes, TypeOK, Hosts
    <3> HIDE DEF IInv
    <3> QED
      BY <1>3, <3>1 DEF Journals
  <2> QED
    BY <1>1, <1>2, <1>3, <2>1, <2>2 DEF Shapes, TypeOK, Moved
<1>6. Tied'
  BY <1>1, <1>2, <1>3 DEF Moved
<1>7. Known'
  BY <1>1, <1>2, <1>3 DEF Moved, Known
<1>8. Diagnosing'
  BY <1>1, <1>2, <1>3, Blanks, Beginnings DEF Moved, Diagnosing
<1>9. Recovering'
  BY <1>1, <1>2, <1>3, Blanks, Beginnings DEF Shapes, TypeOK, Hosts, Journals, Moved, Diagnosing, Recovering,
     Contained, Committing, IsCommitted
<1>10. Contained'
  BY <1>1, <1>2, <1>3 DEF Moved, Contained, Everyone
<1>11. Witness'
  BY <1>1, <1>2, <1>3 DEF Moved, Witness
<1>12. Advancing'
  BY <1>1, <1>2, <1>3 DEF Moved, Advancing
<1>13. Once'
  BY <1>1, <1>2, <1>3 DEF Moved
<1>14. Reconciling'
  BY <1>1, <1>2, <1>3 DEF Moved, Reconciling, Commits, Request, ReceiptFits, Got
<1>15. Committing'
  BY <1>1, <1>2, <1>3, Blanks, Beginnings DEF Moved, Committing, Got, IsCommitted, Settling
<1> QED
  BY <1>4, <1>5, <1>6, <1>7, <1>8, <1>9, <1>10, <1>11, <1>12, <1>13, <1>14, <1>15

(* A prepared operation is new: no commit of it is under way. *)
LEMMA PrepareKeeps ==
  ASSUME IInv, NEW c \in late \cup {Request}, NEW from \in {"pc", "late"}, Prepare(c, from), UNCHANGED cloud
  PROVE  IInv'
<1> USE DEF IInv
<1>1. /\ c \in Requests /\ c.op <= made /\ c.op # 0 /\ c.op \in Ops
      /\ act = NoAct /\ act.call = NoCall /\ act.from = "none" /\ act.at = "free"
      /\ \A e \in Commits : e.op # c.op
      /\ c.is = "prepare" /\ Arrives(c, from) /\ UNCHANGED receipt
  <2>1. c.is = "prepare" /\ Arrives(c, from) /\ UNCHANGED receipt
    BY DEF Prepare
  <2>2. c \in Requests /\ c.op <= made /\ c.op # 0
    BY <2>1, Arriving
  <2>3. act.call = NoCall /\ act.from = "none" /\ act.at = "free" /\ act = NoAct
    BY <2>1, Arriving DEF Arrives
  <2>4. \A e \in Commits : e.op # c.op
    BY <2>1, Arriving
  <2> QED
    BY <2>1, <2>2, <2>3, <2>4 DEF Requests, Ops
<1>2. /\ Moved /\ act' = NoAct
      /\ \/ cmd'.got = cmd.got \/ cmd'.got.is \in {"prepared", "error"}
         \/ (cmd'.got.is = "committed" /\ IsCommitted(cmd.op))
  <2>1. ASSUME receipt[c.op] # NoReceipt, Answered(c, from, Answer("committed", receipt[c.op].arc))
        PROVE  /\ Moved /\ act' = NoAct
               /\ cmd'.got = cmd.got \/ (cmd'.got.is = "committed" /\ IsCommitted(cmd.op))
    <3>1. receipt[c.op].arc \in Archives /\ receipt[c.op].arc.template # "witness"
      BY <1>1 DEF Shapes, TypeOK, Receipts, Contained, Everyone
    <3>2. \/ Moved /\ act' = NoAct /\ cmd'.got = cmd.got
          \/ Moved /\ act' = NoAct /\ cmd'.got = Answer("committed", receipt[c.op].arc) /\ c.op = cmd.op
      BY <1>1, <2>1, <3>1, Answering DEF Said
    <3>3. Answer("committed", receipt[c.op].arc).is = "committed"
      BY <3>1, Beginnings
    <3> QED
      BY <1>1, <2>1, <3>2, <3>3 DEF IsCommitted
  <2>2. ASSUME Answered(c, from, Answer("prepared", NoArc))
        PROVE  Moved /\ act' = NoAct /\ (cmd'.got = cmd.got \/ cmd'.got.is = "prepared")
    BY <1>1, <2>2, Answering, Blanks, Beginnings DEF Said
  <2>3. ASSUME Answered(c, from, Answer("error", NoArc))
        PROVE  Moved /\ act' = NoAct /\ (cmd'.got = cmd.got \/ cmd'.got.is = "error")
    BY <1>1, <2>3, Answering, Blanks, Beginnings DEF Said
  <2>4. \/ receipt[c.op] # NoReceipt /\ Answered(c, from, Answer("committed", receipt[c.op].arc))
        \/ Answered(c, from, Answer("prepared", NoArc))
        \/ Answered(c, from, Answer("error", NoArc))
    BY DEF Prepare
  <2> QED
    BY <2>1, <2>2, <2>3, <2>4
<1>3. \/ host' = host /\ journal' = journal
      \/ /\ journal = NoJournal /\ receipt[c.op] = NoReceipt /\ journal' \in Journals /\ journal' # NoJournal
         /\ journal'.op = c.op /\ journal'.auth = "none" /\ ~journal'.verdict
         /\ journal'.phase \in {"prepared", "restored"}
         /\ host' \in Hosts /\ host'.template = host.template /\ host'.dir = host.dir
         /\ host'.file = host.file /\ host'.line = host.line /\ host'.export = host.export
         /\ host'.ident = host.ident
  <2>1. CASE UNCHANGED <<host, journal>>
    BY <2>1
  <2>2. ASSUME journal = NoJournal, receipt[c.op] = NoReceipt, NEW ok \in BOOLEAN, NEW sound \in BOOLEAN,
               journal' = [NoJournal EXCEPT !.op = c.op, !.phase = IF ok THEN "prepared" ELSE "restored",
                                            !.lease = TRUE, !.base = host.ident],
               host' = IF ok THEN [host EXCEPT !.op = c.op, !.pub = FALSE, !.sound = sound] ELSE host
        PROVE  /\ journal = NoJournal /\ receipt[c.op] = NoReceipt /\ journal' \in Journals /\ journal' # NoJournal
               /\ journal'.op = c.op /\ journal'.auth = "none" /\ ~journal'.verdict
               /\ journal'.phase \in {"prepared", "restored"}
               /\ host' \in Hosts /\ host'.template = host.template /\ host'.dir = host.dir
               /\ host'.file = host.file /\ host'.line = host.line /\ host'.export = host.export
               /\ host'.ident = host.ident
    <3>1. host \in Hosts /\ host.ident \in Idents /\ c.op \in 0 .. MaxOps
      BY <1>1 DEF Shapes, TypeOK, Hosts, Requests
    <3>2. /\ host' \in Hosts /\ host'.template = host.template /\ host'.dir = host.dir
          /\ host'.file = host.file /\ host'.line = host.line /\ host'.export = host.export
          /\ host'.ident = host.ident
      BY <2>2, <3>1 DEF Hosts
    <3>3. journal' \in Journals /\ journal'.op = c.op /\ journal'.phase \in {"prepared", "restored"}
      BY <2>2, <3>1, Blanks DEF Journals
    <3>4. journal'.auth = "none"
      BY <2>2, <3>1, Blanks DEF Journals
    <3>5. ~journal'.verdict
      BY <2>2, <3>1, Blanks DEF Journals
    <3> QED
      BY <1>1, <2>2, <3>2, <3>3, <3>4, <3>5, Blanks
  <2>3. \/ UNCHANGED <<host, journal>>
        \/ /\ journal = NoJournal /\ receipt[c.op] = NoReceipt
           /\ \E ok, sound \in BOOLEAN :
                /\ journal' = [NoJournal EXCEPT !.op = c.op, !.phase = IF ok THEN "prepared" ELSE "restored",
                                                !.lease = TRUE, !.base = host.ident]
                /\ host' = IF ok THEN [host EXCEPT !.op = c.op, !.pub = FALSE, !.sound = sound] ELSE host
    BY DEF Prepare
  <2> QED
    BY <2>1, <2>2, <2>3
<1>4. host.template \in {"original", "witness"}
  BY DEF Shapes, TypeOK, Hosts
<1>5. CommittedWasWitnessed' /\ CommitReconcilable'
  BY <1>1, <1>2, <1>3, <1>4 DEF CommittedWasWitnessed, CommitReconcilable, ReceiptFits, Moved
<1>6. Shapes'
  <2>1. host' \in Hosts
    BY <1>1, <1>2, <1>3, <1>4, Blanks, Beginnings DEF Shapes, TypeOK, Hosts, Journals, Idents
  <2>2. journal' \in Journals
    BY <1>1, <1>2, <1>3, <1>4, Blanks, Beginnings DEF Shapes, TypeOK, Journals, Hosts, Requests, Idents
  <2> QED
    BY <1>1, <1>2, <1>3, <1>4, <2>1, <2>2 DEF Shapes, TypeOK, Moved
<1>7. Tied'
  BY <1>1, <1>2, <1>3, <1>4 DEF Moved
<1>8. Known'
  BY <1>1, <1>2, <1>3, <1>4 DEF Moved, Known
<1>9. Diagnosing'
  BY <1>1, <1>2, <1>3, <1>4 DEF Moved, Diagnosing
<1>10. Recovering'
  BY <1>1, <1>2, <1>3, <1>4, Blanks, Beginnings DEF Moved, Diagnosing, Recovering, Contained, Committing, IsCommitted
<1>11. Contained'
  BY <1>1, <1>2, <1>3, <1>4, Blanks, Beginnings DEF Moved, Contained, Everyone
<1>12. Witness'
  BY <1>1, <1>2, <1>3, <1>4, Blanks, Beginnings DEF Moved, Witness, Contained, Diagnosing
<1>13. Advancing'
  BY <1>1, <1>2, <1>3, <1>4 DEF Moved, Advancing
<1>14. Once'
  BY <1>1, <1>2, <1>3, <1>4 DEF Moved
<1>15. Reconciling'
  BY <1>1, <1>2, <1>3, <1>4 DEF Moved, Reconciling, Commits, Request, ReceiptFits, Got
<1>16. Committing'
  BY <1>1, <1>2, <1>3, <1>4 DEF Moved, Committing, Got, IsCommitted, Settling
<1> QED
  BY <1>5, <1>6, <1>7, <1>8, <1>9, <1>10, <1>11, <1>12, <1>13, <1>14, <1>15, <1>16

(* No archive is taken while the logging template is there. *)
LEMMA BackupKeeps ==
  ASSUME IInv, NEW c \in late \cup {Request}, NEW from \in {"pc", "late"}, Backup(c, from), UNCHANGED cloud
  PROVE  IInv'
<1> USE DEF IInv
<1>1. /\ act = NoAct /\ act.call = NoCall /\ act.from = "none" /\ act.at = "free"
      /\ Arrives(c, from) /\ UNCHANGED <<journal, receipt>>
  BY Arriving DEF Backup, Arrives
<1>2. /\ Moved /\ act' = NoAct
      /\ cmd'.got = cmd.got \/ cmd'.got.is \in {"archive", "error"}
      /\ \/ UNCHANGED host
         \/ \E arc \in Archives :
              /\ host' = [host EXCEPT !.export = arc] /\ host.template # "witness"
              /\ arc.template = host.template /\ arc.ident = host.ident
              /\ arc.after = (journal.auth = "restored")
  <2>1. CASE ~Exportable
    BY <1>1, <2>1, Answering, Blanks, Beginnings DEF Backup, Said
  <2>2. CASE Exportable
    <3> DEFINE arc == [op |-> host.op, pub |-> host.pub, ident |-> host.ident,
                       template |-> host.template, after |-> journal.auth = "restored"]
    <3>1. host.template # "witness"
      BY <2>2, Blanks DEF Exportable, Contained
    <3>2. arc \in Archives /\ arc.template # "witness"
      BY <3>1 DEF Shapes, TypeOK, Hosts, Archives
    <3>3. host' = [host EXCEPT !.export = arc] /\ Answered(c, from, Answer("archive", arc))
      BY <2>2 DEF Backup
    <3>4. arc.template = host.template /\ arc.ident = host.ident /\ arc.after = (journal.auth = "restored")
      OBVIOUS
    <3> HIDE DEF arc
    <3>5. Moved /\ act' = NoAct /\ (cmd'.got = cmd.got \/ cmd'.got = Answer("archive", arc))
      BY <1>1, <3>2, <3>3, Answering DEF Said
    <3>6. Answer("archive", arc).is = "archive"
      BY <3>2, Beginnings
    <3> QED
      BY <3>1, <3>2, <3>3, <3>4, <3>5, <3>6
  <2> QED
    BY <2>1, <2>2
<1>3. /\ host' \in Hosts /\ host'.template = host.template /\ host'.dir = host.dir
      /\ host'.file = host.file /\ host'.line = host.line /\ host'.sound = host.sound
      /\ host'.ident = host.ident
      /\ \/ host'.export = host.export
         \/ /\ host'.export.template # "witness" /\ host'.export.ident = host.ident
            /\ journal.auth = "restored" => host'.export.after
  <2>1. host \in Hosts
    BY DEF Shapes, TypeOK
  <2>2. CASE UNCHANGED host
    BY <2>1, <2>2
  <2>3. CASE \E arc \in Archives :
               /\ host' = [host EXCEPT !.export = arc] /\ host.template # "witness"
               /\ arc.template = host.template /\ arc.ident = host.ident
               /\ arc.after = (journal.auth = "restored")
    BY <2>1, <2>3 DEF Hosts
  <2> QED
    BY <1>2, <2>2, <2>3
<1>4. host.ident \in Nat
  BY DEF Shapes, TypeOK, Hosts, Idents
<1>5. CommittedWasWitnessed' /\ CommitReconcilable'
  BY <1>1, <1>2, <1>3, <1>4 DEF CommittedWasWitnessed, CommitReconcilable, ReceiptFits, Moved
<1>6. Shapes'
  <2>1. host' \in Hosts
    BY <1>1, <1>2, <1>3, <1>4, Blanks, Beginnings DEF Shapes, TypeOK, Hosts, Journals, Idents
  <2> QED
    BY <1>1, <1>2, <1>3, <1>4, <2>1 DEF Shapes, TypeOK, Moved
<1>7. Tied'
  BY <1>1, <1>2, <1>3, <1>4 DEF Moved
<1>8. Known'
  BY <1>1, <1>2, <1>3, <1>4 DEF Moved, Known
<1>9. Diagnosing'
  BY <1>1, <1>2, <1>3, <1>4 DEF Moved, Diagnosing
<1>10. Recovering'
  BY <1>1, <1>2, <1>3, <1>4 DEF Moved, Recovering, IsCommitted
<1>11. Contained'
  BY <1>1, <1>2, <1>3, <1>4 DEF Moved, Contained, Everyone
<1>12. Witness'
  BY <1>1, <1>2, <1>3, <1>4 DEF Moved, Witness
<1>13. Advancing'
  BY <1>1, <1>2, <1>3, <1>4 DEF Moved, Advancing
<1>14. Once'
  BY <1>1, <1>2, <1>3, <1>4 DEF Moved
<1>15. Reconciling'
  BY <1>1, <1>2, <1>3, <1>4 DEF Moved, Reconciling, Commits, Request, ReceiptFits, Got
<1>16. Committing'
  BY <1>1, <1>2, <1>3, <1>4 DEF Moved, Committing, Got, IsCommitted, Settling
<1> QED
  BY <1>5, <1>6, <1>7, <1>8, <1>9, <1>10, <1>11, <1>12, <1>13, <1>14, <1>15, <1>16

(* A diagnostic is armed for the prepared candidate, once. *)
LEMMA BeginKeeps ==
  ASSUME IInv, NEW c \in late \cup {Request}, NEW from \in {"pc", "late"}, Begin(c, from), UNCHANGED cloud
  PROVE  IInv'
<1> USE DEF IInv
<1>1. /\ act = NoAct /\ act.call = NoCall /\ act.from = "none" /\ act.at = "free" /\ c.is = "begin"
      /\ Arrives(c, from) /\ UNCHANGED <<host, receipt>>
  BY Arriving DEF Begin, Arrives
<1>2. /\ Moved
      /\ \/ /\ act' = NoAct /\ UNCHANGED journal
            /\ cmd'.got = cmd.got \/ cmd'.got.is \in {"nonce", "error"}
         \/ /\ cmd'.got = cmd.got \/ cmd'.got.is = "in"
            /\ act'.call = c /\ act'.from = from
            /\ \/ act'.at = "recover" /\ UNCHANGED journal
               \/ /\ act'.at = "file" /\ journal.phase = "prepared" /\ journal.auth = "none"
                  /\ journal' = [journal EXCEPT !.auth = "arming", !.seen = host.ident]
  <2>1. ASSUME Answered(c, from, Answer("nonce", NoArc)) \/ Answered(c, from, Answer("error", NoArc))
        PROVE  Moved /\ act' = NoAct /\ (cmd'.got = cmd.got \/ cmd'.got.is \in {"nonce", "error"})
    BY <1>1, <2>1, Answering, Blanks, Beginnings DEF Said
  <2>2. ASSUME NEW l \in {"recover", "file"}, Enters(c, from, l)
        PROVE  /\ Moved /\ act'.call = c /\ act'.from = from /\ act'.at = l
               /\ cmd'.got = cmd.got \/ cmd'.got.is = "in"
    BY <1>1, <2>2, Entering, Blanks, Beginnings DEF Inner
  <2>3. \/ UNCHANGED journal /\ (Answered(c, from, Answer("nonce", NoArc)) \/ Answered(c, from, Answer("error", NoArc)))
        \/ UNCHANGED journal /\ Enters(c, from, "recover")
        \/ /\ journal.phase = "prepared" /\ journal.auth = "none" /\ Enters(c, from, "file")
           /\ journal' = [journal EXCEPT !.auth = "arming", !.seen = host.ident]
    BY DEF Begin, Bound
  <2> QED
    BY <2>1, <2>2, <2>3
<1>3. /\ journal' \in Journals /\ journal'.op = journal.op /\ journal'.phase = journal.phase
      /\ journal'.verdict = journal.verdict /\ (journal' = NoJournal <=> journal = NoJournal)
      /\ \/ journal' = journal
         \/ /\ journal'.auth = "arming" /\ journal'.seen = host.ident
            /\ journal.auth = "none" /\ journal.phase = "prepared"
  <2>1. journal \in Journals /\ host.ident \in Idents
    BY DEF Shapes, TypeOK, Hosts
  <2>2. CASE UNCHANGED journal
    BY <2>1, <2>2
  <2>3. CASE /\ journal.phase = "prepared" /\ journal.auth = "none"
             /\ journal' = [journal EXCEPT !.auth = "arming", !.seen = host.ident]
    BY <2>1, <2>3, Blanks DEF Journals
  <2> QED
    BY <1>2, <2>2, <2>3
<1>4. host.ident \in Nat
  BY DEF Shapes, TypeOK, Hosts, Idents
<1>5. act'.at = "file" => journal'.auth = "arming" /\ journal'.phase = "prepared"
  <2>1. journal \in Journals
    BY DEF Shapes, TypeOK
  <2>2. act'.at = "file" => /\ journal.phase = "prepared"
                            /\ journal' = [journal EXCEPT !.auth = "arming", !.seen = host.ident]
    BY <1>2, Beginnings
  <2> QED
    BY <2>1, <2>2 DEF Journals
<1>6. CommittedWasWitnessed' /\ CommitReconcilable'
  BY <1>1, <1>2, <1>3, <1>4, <1>5 DEF CommittedWasWitnessed, CommitReconcilable, ReceiptFits, Moved
<1>7. Shapes'
  <2>1. journal' \in Journals
    BY <1>1, <1>2, <1>3, <1>4, <1>5, Blanks, Beginnings DEF Shapes, TypeOK, Journals, Hosts, Requests, Idents
  <2> QED
    BY <1>1, <1>2, <1>3, <1>4, <1>5, <2>1 DEF Shapes, TypeOK, Moved
<1>8. Tied'
  BY <1>1, <1>2, <1>3, <1>4, <1>5 DEF Moved
<1>9. Known'
  BY <1>1, <1>2, <1>3, <1>4, <1>5 DEF Moved, Known
<1>10. Diagnosing'
  BY <1>1, <1>2, <1>3, <1>4, <1>5 DEF Moved, Diagnosing
<1>11. Recovering'
  BY <1>1, <1>2, <1>3, <1>4, <1>5 DEF Moved, Recovering, IsCommitted
<1>12. Contained'
  BY <1>1, <1>2, <1>3, <1>4, <1>5 DEF Moved, Contained, Everyone
<1>13. Witness'
  BY <1>1, <1>2, <1>3, <1>4, <1>5 DEF Moved, Witness
<1>14. Advancing'
  BY <1>1, <1>2, <1>3, <1>4, <1>5 DEF Moved, Advancing
<1>15. Once'
  BY <1>1, <1>2, <1>3, <1>4, <1>5 DEF Moved
<1>16. Reconciling'
  BY <1>1, <1>2, <1>3, <1>4, <1>5 DEF Moved, Reconciling, Commits, Request, ReceiptFits, Got
<1>17. Committing'
  BY <1>1, <1>2, <1>3, <1>4, <1>5 DEF Moved, Committing, Got, IsCommitted, Settling
<1> QED
  BY <1>6, <1>7, <1>8, <1>9, <1>10, <1>11, <1>12, <1>13, <1>14, <1>15, <1>16, <1>17

(* The writer is closed before its log is read. *)
LEMMA FinishKeeps ==
  ASSUME IInv, NEW c \in late \cup {Request}, NEW from \in {"pc", "late"}, Finish(c, from), UNCHANGED cloud
  PROVE  IInv'
<1> USE DEF IInv
<1>1. /\ act = NoAct /\ act.call = NoCall /\ act.from = "none" /\ act.at = "free" /\ c.is = "finish"
      /\ Arrives(c, from) /\ UNCHANGED <<journal, receipt>>
  BY Arriving DEF Finish, Arrives
<1>2. /\ Moved
      /\ \/ /\ act' = NoAct /\ UNCHANGED host
            /\ cmd'.got = cmd.got \/ cmd'.got.is \in {"verdict", "error"}
         \/ /\ cmd'.got = cmd.got \/ cmd'.got.is = "in"
            /\ act'.call = c /\ act'.from = from
            /\ \/ act'.at = "recover" /\ UNCHANGED host
               \/ /\ act'.at = "read" /\ journal.phase = "prepared"
                  /\ journal.auth \in {"arming", "active", "restoring"}
                  /\ host' = [host EXCEPT !.core = "off"]
  <2>1. ASSUME Answered(c, from, Answer("verdict", NoArc)) \/ Answered(c, from, Answer("error", NoArc))
        PROVE  Moved /\ act' = NoAct /\ (cmd'.got = cmd.got \/ cmd'.got.is \in {"verdict", "error"})
    BY <1>1, <2>1, Answering, Blanks, Beginnings DEF Said
  <2>2. ASSUME NEW l \in {"recover", "read"}, Enters(c, from, l)
        PROVE  /\ Moved /\ act'.call = c /\ act'.from = from /\ act'.at = l
               /\ cmd'.got = cmd.got \/ cmd'.got.is = "in"
    BY <1>1, <2>2, Entering, Blanks, Beginnings DEF Inner
  <2>3. \/ UNCHANGED host /\ (Answered(c, from, Answer("verdict", NoArc)) \/ Answered(c, from, Answer("error", NoArc)))
        \/ UNCHANGED host /\ Enters(c, from, "recover")
        \/ /\ journal.phase = "prepared" /\ journal.auth \in {"arming", "active", "restoring"}
           /\ Enters(c, from, "read") /\ host' = [host EXCEPT !.core = "off"]
    BY DEF Finish, Bound
  <2> QED
    BY <2>1, <2>2, <2>3
<1>3. /\ host' \in Hosts /\ host'.template = host.template /\ host'.dir = host.dir
      /\ host'.file = host.file /\ host'.line = host.line /\ host'.sound = host.sound
      /\ host'.ident = host.ident /\ host'.export = host.export
  BY <1>2 DEF Shapes, TypeOK, Hosts
<1>4. CommittedWasWitnessed' /\ CommitReconcilable'
  BY <1>1, <1>2, <1>3 DEF CommittedWasWitnessed, CommitReconcilable, ReceiptFits, Moved
<1>5. Shapes'
  <2>1. host' \in Hosts
    BY <1>1, <1>2, <1>3, Blanks, Beginnings DEF Shapes, TypeOK, Hosts, Journals, Idents
  <2> QED
    BY <1>1, <1>2, <1>3, <2>1 DEF Shapes, TypeOK, Moved
<1>6. Tied'
  BY <1>1, <1>2, <1>3 DEF Moved
<1>7. Known'
  BY <1>1, <1>2, <1>3 DEF Moved, Known
<1>8. Diagnosing'
  BY <1>1, <1>2, <1>3 DEF Moved, Diagnosing
<1>9. Recovering'
  BY <1>1, <1>2, <1>3 DEF Moved, Recovering, IsCommitted
<1>10. Contained'
  BY <1>1, <1>2, <1>3 DEF Moved, Contained, Everyone
<1>11. Witness'
  BY <1>1, <1>2, <1>3 DEF Moved, Witness
<1>12. Advancing'
  BY <1>1, <1>2, <1>3 DEF Moved, Advancing
<1>13. Once'
  BY <1>1, <1>2, <1>3 DEF Moved
<1>14. Reconciling'
  BY <1>1, <1>2, <1>3 DEF Moved, Reconciling, Commits, Request, ReceiptFits, Got
<1>15. Committing'
  BY <1>1, <1>2, <1>3 DEF Moved, Committing, Got, IsCommitted, Settling
<1> QED
  BY <1>4, <1>5, <1>6, <1>7, <1>8, <1>9, <1>10, <1>11, <1>12, <1>13, <1>14, <1>15

(* A commit that is granted has an archive of after the diagnostic. *)
LEMMA CommitKeeps ==
  ASSUME IInv, NEW c \in late \cup {Request}, NEW from \in {"pc", "late"}, Commit(c, from), UNCHANGED cloud
  PROVE  IInv'
<1> USE DEF IInv
<1>1. /\ act = NoAct /\ act.call = NoCall /\ act.from = "none" /\ act.at = "free" /\ c.is = "commit"
      /\ Arrives(c, from) /\ UNCHANGED <<host, journal, receipt>>
      /\ c \in Requests /\ c.op # 0 /\ c.op \in Ops /\ c.arc.template # "witness" /\ c \in Commits
  <2>1. Arrives(c, from) /\ UNCHANGED <<host, journal, receipt>> /\ c.is = "commit"
    BY DEF Commit
  <2>2. /\ c \in Requests /\ c.op # 0 /\ c.arc.template # "witness" /\ c \in Commits
        /\ act.call = NoCall /\ act.from = "none" /\ act.at = "free"
    BY <2>1, Arriving
  <2> QED
    BY <2>1, <2>2 DEF Arrives, Requests, Ops
<1>2. /\ Moved
      /\ \/ /\ act' = NoAct
            /\ cmd'.got = cmd.got \/ cmd'.got.is = "error" \/ (cmd'.got.is = "committed" /\ IsCommitted(cmd.op))
         \/ /\ cmd'.got = cmd.got \/ cmd'.got.is = "in"
            /\ act'.call = c /\ act'.from = from /\ act'.at = "publish" /\ Committable(c) /\ receipt[c.op] = NoReceipt
  <2>1. ASSUME receipt[c.op] # NoReceipt, Answered(c, from, Answer("committed", c.arc))
        PROVE  Moved /\ act' = NoAct /\ (cmd'.got = cmd.got \/ (cmd'.got.is = "committed" /\ IsCommitted(cmd.op)))
    <3>1. c.arc \in Archives
      BY <1>1 DEF Requests
    <3>2. \/ Moved /\ act' = NoAct /\ cmd'.got = cmd.got
          \/ Moved /\ act' = NoAct /\ cmd'.got = Answer("committed", c.arc) /\ c.op = cmd.op
      BY <1>1, <2>1, <3>1, Answering DEF Said
    <3>3. Answer("committed", c.arc).is = "committed"
      BY <3>1, Beginnings
    <3> QED
      BY <1>1, <2>1, <3>2, <3>3 DEF IsCommitted
  <2>2. ASSUME Answered(c, from, Answer("error", NoArc))
        PROVE  Moved /\ act' = NoAct /\ (cmd'.got = cmd.got \/ cmd'.got.is = "error")
    BY <1>1, <2>2, Answering, Blanks, Beginnings DEF Said
  <2>3. ASSUME Enters(c, from, "publish")
        PROVE  /\ Moved /\ act'.call = c /\ act'.from = from /\ act'.at = "publish"
               /\ cmd'.got = cmd.got \/ cmd'.got.is = "in"
    BY <1>1, <2>3, Entering, Blanks, Beginnings DEF Inner
  <2>4. \/ receipt[c.op] # NoReceipt /\ Answered(c, from, Answer("committed", c.arc))
        \/ Answered(c, from, Answer("error", NoArc))
        \/ Enters(c, from, "publish") /\ Committable(c) /\ receipt[c.op] = NoReceipt
    BY DEF Commit
  <2> QED
    BY <2>1, <2>2, <2>3, <2>4
<1>3. Committable(c) =>
        /\ journal.op = c.op /\ journal.phase = "prepared" /\ journal.auth = "restored" /\ journal.verdict
        /\ c.arc.after /\ c.arc.ident = journal.seen
  <2>1. c.arc.op = c.op
    BY <1>1 DEF Reconciling
  <2>2. c.arc # NoArc
    BY <1>1, <2>1, Blanks
  <2>3. host.ident \in Nat /\ journal.seen \in Nat /\ host.export.ident \in Nat
    BY DEF Shapes, TypeOK, Hosts, Journals, Archives, Idents
  <2>4. ASSUME Committable(c)
        PROVE  /\ journal.op = c.op /\ journal.phase = "prepared" /\ journal.auth = "restored"
               /\ journal.verdict /\ host.export = c.arc /\ host.ident = journal.seen
    BY <2>4 DEF Committable, Bound, VerdictStands, NativeSame
  <2> QED
    BY <2>2, <2>3, <2>4 DEF Advancing
<1>4. Advancing' /\ CommittedWasWitnessed' /\ CommitReconcilable'
  BY <1>1, <1>2, <1>3 DEF Advancing, CommittedWasWitnessed, CommitReconcilable, ReceiptFits, Moved
<1>5. Shapes'
  <2> QED
    BY <1>1, <1>2, <1>3 DEF Shapes, TypeOK, Moved
<1>6. Tied'
  BY <1>1, <1>2, <1>3 DEF Moved
<1>7. Known'
  BY <1>1, <1>2, <1>3 DEF Moved, Known
<1>8. Diagnosing'
  BY <1>1, <1>2, <1>3 DEF Moved, Diagnosing
<1>9. Recovering'
  BY <1>1, <1>2, <1>3 DEF Moved, Recovering, IsCommitted
<1>10. Contained'
  BY <1>1, <1>2, <1>3 DEF Moved, Contained, Everyone
<1>11. Witness'
  BY <1>1, <1>2, <1>3 DEF Moved, Witness
<1>12. Once'
  BY <1>1, <1>2, <1>3 DEF Moved
<1>13. Reconciling'
  BY <1>1, <1>2, <1>3 DEF Moved, Reconciling, Commits, Request, ReceiptFits, Got
<1>14. Committing'
  BY <1>1, <1>2, <1>3 DEF Moved, Committing, Got, IsCommitted, Settling
<1> QED
  BY <1>4, <1>5, <1>6, <1>7, <1>8, <1>9, <1>10, <1>11, <1>12, <1>13, <1>14

(* An abort starts a recovery, or is refused. *)
LEMMA AbortKeeps ==
  ASSUME IInv, NEW c \in late \cup {Request}, NEW from \in {"pc", "late"}, Abort(c, from), UNCHANGED cloud
  PROVE  IInv'
<1> USE DEF IInv
<1>1. /\ act = NoAct /\ act.call = NoCall /\ act.from = "none" /\ act.at = "free" /\ c.is = "abort"
      /\ Arrives(c, from) /\ UNCHANGED <<host, journal, receipt>>
  BY Arriving DEF Abort, Arrives
<1>2. /\ Moved
      /\ \/ /\ act' = NoAct
            /\ cmd'.got = cmd.got \/ cmd'.got.is = "error"
         \/ /\ cmd'.got = cmd.got \/ cmd'.got.is = "in"
            /\ act'.call = c /\ act'.from = from /\ act'.at = "recover"
  <2>1. ASSUME Answered(c, from, Answer("error", NoArc))
        PROVE  Moved /\ act' = NoAct /\ (cmd'.got = cmd.got \/ cmd'.got.is = "error")
    BY <1>1, <2>1, Answering, Blanks, Beginnings DEF Said
  <2>2. ASSUME Enters(c, from, "recover")
        PROVE  /\ Moved /\ act'.call = c /\ act'.from = from /\ act'.at = "recover"
               /\ cmd'.got = cmd.got \/ cmd'.got.is = "in"
    BY <1>1, <2>2, Entering, Blanks, Beginnings DEF Inner
  <2>3. Answered(c, from, Answer("error", NoArc)) \/ Enters(c, from, "recover")
    BY DEF Abort
  <2> QED
    BY <2>1, <2>2, <2>3
<1>3. Advancing' /\ CommittedWasWitnessed' /\ CommitReconcilable'
  BY <1>1, <1>2 DEF Advancing, CommittedWasWitnessed, CommitReconcilable, ReceiptFits, Moved
<1>4. Shapes'
  <2> QED
    BY <1>1, <1>2 DEF Shapes, TypeOK, Moved
<1>5. Tied'
  BY <1>1, <1>2 DEF Moved
<1>6. Known'
  BY <1>1, <1>2 DEF Moved, Known
<1>7. Diagnosing'
  BY <1>1, <1>2 DEF Moved, Diagnosing
<1>8. Recovering'
  BY <1>1, <1>2 DEF Moved, Recovering, IsCommitted
<1>9. Contained'
  BY <1>1, <1>2 DEF Moved, Contained, Everyone
<1>10. Witness'
  BY <1>1, <1>2 DEF Moved, Witness
<1>11. Once'
  BY <1>1, <1>2 DEF Moved
<1>12. Reconciling'
  BY <1>1, <1>2 DEF Moved, Reconciling, Commits, Request, ReceiptFits, Got
<1>13. Committing'
  BY <1>1, <1>2 DEF Moved, Committing, Got, IsCommitted, Settling
<1> QED
  BY <1>3, <1>4, <1>5, <1>6, <1>7, <1>8, <1>9, <1>10, <1>11, <1>12, <1>13

(* The timer starts a recovery nobody waits for. *)
LEMMA TimerKeeps ==
  ASSUME IInv, Timer, UNCHANGED cloud
  PROVE  IInv'
<1> USE DEF IInv
<1>1. /\ act = NoAct /\ act.call = NoCall /\ act.from = "none" /\ act.at = "free"
      /\ act' = [call |-> NoCall, from |-> "timer", at |-> "recover"]
      /\ act'.call = NoCall /\ act'.from = "timer" /\ act'.at = "recover"
      /\ UNCHANGED <<host, journal, receipt, cmd, pend, proofs, doc, late, made, faults>>
  BY Beginnings DEF Timer, disk
<1>2. Witness' /\ Advancing' /\ CommittedWasWitnessed' /\ CommitReconcilable'
  BY <1>1 DEF Witness, Advancing, CommittedWasWitnessed, CommitReconcilable, ReceiptFits
<1>3. Shapes'
  <2>1. act' \in Acts
    BY <1>1, Blanks, Beginnings DEF Shapes, TypeOK, Acts
  <2> QED
    BY <1>1, <2>1 DEF Shapes, TypeOK
<1>4. Tied'
  BY <1>1 DEF Tied, Kind, CallLabels
<1>5. Known'
  BY <1>1 DEF Known
<1>6. Diagnosing'
  BY <1>1 DEF Diagnosing
<1>7. Recovering'
  BY <1>1 DEF Recovering, IsCommitted
<1>8. Contained'
  BY <1>1 DEF Contained, Everyone
<1>9. Once'
  BY <1>1 DEF Once, Tied, Settling
<1>10. Reconciling'
  BY <1>1 DEF Reconciling, Commits, Request, ReceiptFits, Got
<1>11. Committing'
  BY <1>1 DEF Committing, Got, IsCommitted, Settling
<1> QED
  BY <1>2, <1>3, <1>4, <1>5, <1>6, <1>7, <1>8, <1>9, <1>10, <1>11

(* The prepared candidate is exported next. *)
LEMMA GotPreparedKeeps ==
  ASSUME IInv, GotPrepared, UNCHANGED cloud
  PROVE  IInv'
<1> USE DEF IInv
<1>1. cmd.at = "prepare" /\ cmd.got.is = "prepared"
  BY DEF GotPrepared, Got
<1>2. act.from # "pc"
  BY <1>1, Blanks, Beginnings DEF Tied, CallLabels
<1>3. /\ cmd' \in Commands /\ cmd'.at = "first" /\ cmd'.op = cmd.op /\ cmd'.a = cmd.a
      /\ cmd'.arc = cmd.arc /\ cmd'.proof = cmd.proof /\ cmd'.got.arc = NoArc
      /\ cmd'.got.is = "out"
  BY Turning DEF GotPrepared, CallLabels, Asking, Settling
<1>4. UNCHANGED <<host, journal, receipt, act, late, faults, pend, proofs, doc, made>>
  BY DEF GotPrepared, Stay, remoteSide, disk
<1>5. Known' /\ Diagnosing' /\ Recovering' /\ Advancing' /\ CommittedWasWitnessed' /\ CommitReconcilable'
  BY <1>1, <1>2, <1>3, <1>4 DEF Known, Diagnosing, Recovering, Advancing, CommittedWasWitnessed,
     CommitReconcilable, IsCommitted, ReceiptFits
<1>6. Shapes'
  <2>1. cmd' \in Commands
    BY <1>1, <1>2, <1>3, <1>4, Blanks, Beginnings DEF Shapes, TypeOK, Commands, Asking, Settling
  <2> QED
    BY <1>1, <1>2, <1>3, <1>4, <2>1 DEF Shapes, TypeOK
<1>7. Tied'
  BY <1>1, <1>2, <1>3, <1>4 DEF Tied, Kind, CallLabels
<1>8. Contained'
  BY <1>1, <1>2, <1>3, <1>4, Blanks, Beginnings DEF Contained, Everyone
<1>9. Witness'
  BY <1>1, <1>2, <1>3, <1>4 DEF Witness
<1>10. Once'
  BY <1>1, <1>2, <1>3, <1>4 DEF Once, Tied, Settling
<1>11. Reconciling'
  BY <1>1, <1>2, <1>3, <1>4 DEF Reconciling, Commits, Request, ReceiptFits, Got
<1>12. Committing'
  BY <1>1, <1>2, <1>3, <1>4 DEF Committing, Got, IsCommitted, Settling
<1> QED
  BY <1>5, <1>6, <1>7, <1>8, <1>9, <1>10, <1>11, <1>12

(* The connections follow the nonce. *)
LEMMA GotNonceKeeps ==
  ASSUME IInv, GotNonce, UNCHANGED cloud
  PROVE  IInv'
<1> USE DEF IInv
<1>1. cmd.at = "begin" /\ cmd.got.is = "nonce"
  BY DEF GotNonce, Got
<1>2. act.from # "pc"
  BY <1>1, Blanks, Beginnings DEF Tied, CallLabels
<1>3. /\ cmd' \in Commands /\ cmd'.at = "positive" /\ cmd'.op = cmd.op /\ cmd'.a = cmd.a
      /\ cmd'.arc = cmd.arc /\ cmd'.proof = cmd.proof /\ cmd'.got.arc = NoArc
      /\ cmd'.got = Nothing /\ cmd'.got.is = "none"
  BY Turning DEF GotNonce, CallLabels, Asking, Settling
<1>4. UNCHANGED <<host, journal, receipt, act, late, faults, pend, proofs, doc, made>>
  BY DEF GotNonce, Stay, remoteSide, disk
<1>5. Known' /\ Diagnosing' /\ Recovering' /\ Advancing' /\ CommittedWasWitnessed' /\ CommitReconcilable'
  BY <1>1, <1>2, <1>3, <1>4 DEF Known, Diagnosing, Recovering, Advancing, CommittedWasWitnessed,
     CommitReconcilable, IsCommitted, ReceiptFits
<1>6. Shapes'
  <2>1. cmd' \in Commands
    BY <1>1, <1>2, <1>3, <1>4, Blanks, Beginnings DEF Shapes, TypeOK, Commands, Asking, Settling
  <2> QED
    BY <1>1, <1>2, <1>3, <1>4, <2>1 DEF Shapes, TypeOK
<1>7. Tied'
  BY <1>1, <1>2, <1>3, <1>4 DEF Tied, Kind, CallLabels
<1>8. Contained'
  BY <1>1, <1>2, <1>3, <1>4, Blanks, Beginnings DEF Contained, Everyone
<1>9. Witness'
  BY <1>1, <1>2, <1>3, <1>4 DEF Witness
<1>10. Once'
  BY <1>1, <1>2, <1>3, <1>4 DEF Once, Tied, Settling
<1>11. Reconciling'
  BY <1>1, <1>2, <1>3, <1>4 DEF Reconciling, Commits, Request, ReceiptFits, Got
<1>12. Committing'
  BY <1>1, <1>2, <1>3, <1>4 DEF Committing, Got, IsCommitted, Settling
<1> QED
  BY <1>5, <1>6, <1>7, <1>8, <1>9, <1>10, <1>11, <1>12

(* The verdict is followed by connections again. *)
LEMMA GotVerdictKeeps ==
  ASSUME IInv, GotVerdict, UNCHANGED cloud
  PROVE  IInv'
<1> USE DEF IInv
<1>1. cmd.at = "finish" /\ cmd.got.is = "verdict"
  BY DEF GotVerdict, Got
<1>2. act.from # "pc"
  BY <1>1, Blanks, Beginnings DEF Tied, CallLabels
<1>3. /\ cmd' \in Commands /\ cmd'.at = "reconnect" /\ cmd'.op = cmd.op /\ cmd'.a = cmd.a
      /\ cmd'.arc = cmd.arc /\ cmd'.proof = cmd.proof /\ cmd'.got.arc = NoArc
      /\ cmd'.got = Nothing /\ cmd'.got.is = "none"
  BY Turning DEF GotVerdict, CallLabels, Asking, Settling
<1>4. UNCHANGED <<host, journal, receipt, act, late, faults, pend, proofs, doc, made>>
  BY DEF GotVerdict, Stay, remoteSide, disk
<1>5. Known' /\ Diagnosing' /\ Recovering' /\ Advancing' /\ CommittedWasWitnessed' /\ CommitReconcilable'
  BY <1>1, <1>2, <1>3, <1>4 DEF Known, Diagnosing, Recovering, Advancing, CommittedWasWitnessed,
     CommitReconcilable, IsCommitted, ReceiptFits
<1>6. Shapes'
  <2>1. cmd' \in Commands
    BY <1>1, <1>2, <1>3, <1>4, Blanks, Beginnings DEF Shapes, TypeOK, Commands, Asking, Settling
  <2> QED
    BY <1>1, <1>2, <1>3, <1>4, <2>1 DEF Shapes, TypeOK
<1>7. Tied'
  BY <1>1, <1>2, <1>3, <1>4 DEF Tied, Kind, CallLabels
<1>8. Contained'
  BY <1>1, <1>2, <1>3, <1>4, Blanks, Beginnings DEF Contained, Everyone
<1>9. Witness'
  BY <1>1, <1>2, <1>3, <1>4 DEF Witness
<1>10. Once'
  BY <1>1, <1>2, <1>3, <1>4 DEF Once, Tied, Settling
<1>11. Reconciling'
  BY <1>1, <1>2, <1>3, <1>4 DEF Reconciling, Commits, Request, ReceiptFits, Got
<1>12. Committing'
  BY <1>1, <1>2, <1>3, <1>4 DEF Committing, Got, IsCommitted, Settling
<1> QED
  BY <1>5, <1>6, <1>7, <1>8, <1>9, <1>10, <1>11, <1>12

(* An acknowledgment proves nothing. *)
LEMMA AcknowledgeKeeps ==
  ASSUME IInv, Acknowledge, UNCHANGED cloud
  PROVE  IInv'
<1> USE DEF IInv
<1>1. cmd.at = "orange"
  BY DEF Acknowledge
<1>2. act.from # "pc"
  BY <1>1, Blanks, Beginnings DEF Tied, CallLabels
<1>3. /\ cmd' \in Commands /\ cmd'.at = "edge" /\ cmd'.op = cmd.op /\ cmd'.a = cmd.a
      /\ cmd'.arc = cmd.arc /\ cmd'.proof = cmd.proof /\ cmd'.got.arc = NoArc
      /\ cmd'.got = Nothing /\ cmd'.got.is = "none"
  BY Turning DEF Acknowledge, CallLabels, Asking, Settling
<1>4. UNCHANGED <<host, journal, receipt, act, late, faults, pend, proofs, doc, made>>
  BY DEF Acknowledge, Stay, remoteSide, disk
<1>5. Known' /\ Diagnosing' /\ Recovering' /\ Advancing' /\ CommittedWasWitnessed' /\ CommitReconcilable'
  BY <1>1, <1>2, <1>3, <1>4 DEF Known, Diagnosing, Recovering, Advancing, CommittedWasWitnessed,
     CommitReconcilable, IsCommitted, ReceiptFits
<1>6. Shapes'
  <2>1. cmd' \in Commands
    BY <1>1, <1>2, <1>3, <1>4, Blanks, Beginnings DEF Shapes, TypeOK, Commands, Asking, Settling
  <2> QED
    BY <1>1, <1>2, <1>3, <1>4, <2>1 DEF Shapes, TypeOK
<1>7. Tied'
  BY <1>1, <1>2, <1>3, <1>4 DEF Tied, Kind, CallLabels
<1>8. Contained'
  BY <1>1, <1>2, <1>3, <1>4, Blanks, Beginnings DEF Contained, Everyone
<1>9. Witness'
  BY <1>1, <1>2, <1>3, <1>4 DEF Witness
<1>10. Once'
  BY <1>1, <1>2, <1>3, <1>4 DEF Once, Tied, Settling
<1>11. Reconciling'
  BY <1>1, <1>2, <1>3, <1>4 DEF Reconciling, Commits, Request, ReceiptFits, Got
<1>12. Committing'
  BY <1>1, <1>2, <1>3, <1>4 DEF Committing, Got, IsCommitted, Settling
<1> QED
  BY <1>5, <1>6, <1>7, <1>8, <1>9, <1>10, <1>11, <1>12

(* From here on the hostname is known to be proxied. *)
LEMMA SelectEdgeKeeps ==
  ASSUME IInv, SelectEdge, UNCHANGED cloud
  PROVE  IInv'
<1> USE DEF IInv
<1>1. cmd.at = "edge" /\ cloud = "orange"
  BY DEF SelectEdge, Resolved
<1>2. act.from # "pc"
  BY <1>1, Blanks, Beginnings DEF Tied, CallLabels
<1>3. /\ cmd' \in Commands /\ cmd'.at = "begin" /\ cmd'.op = cmd.op /\ cmd'.a = cmd.a
      /\ cmd'.arc = cmd.arc /\ cmd'.proof = cmd.proof /\ cmd'.got.arc = NoArc
      /\ cmd'.got.is = "out"
  BY Turning DEF SelectEdge, CallLabels, Asking, Settling
<1>4. UNCHANGED <<host, journal, receipt, act, late, faults, pend, proofs, doc, made>>
  BY DEF SelectEdge, Stay, remoteSide, disk
<1>5. Known' /\ Diagnosing' /\ Recovering' /\ Advancing' /\ CommittedWasWitnessed' /\ CommitReconcilable'
  BY <1>1, <1>2, <1>3, <1>4 DEF Known, Diagnosing, Recovering, Advancing, CommittedWasWitnessed,
     CommitReconcilable, IsCommitted, ReceiptFits
<1>6. Shapes'
  <2>1. cmd' \in Commands
    BY <1>1, <1>2, <1>3, <1>4, Blanks, Beginnings DEF Shapes, TypeOK, Commands, Asking, Settling
  <2> QED
    BY <1>1, <1>2, <1>3, <1>4, <2>1 DEF Shapes, TypeOK
<1>7. Tied'
  BY <1>1, <1>2, <1>3, <1>4 DEF Tied, Kind, CallLabels
<1>8. Contained'
  BY <1>1, <1>2, <1>3, <1>4, Blanks, Beginnings DEF Contained, Everyone
<1>9. Witness'
  BY <1>1, <1>2, <1>3, <1>4 DEF Witness
<1>10. Once'
  BY <1>1, <1>2, <1>3, <1>4 DEF Once, Tied, Settling
<1>11. Reconciling'
  BY <1>1, <1>2, <1>3, <1>4 DEF Reconciling, Commits, Request, ReceiptFits, Got
<1>12. Committing'
  BY <1>1, <1>2, <1>3, <1>4 DEF Committing, Got, IsCommitted, Settling
<1> QED
  BY <1>5, <1>6, <1>7, <1>8, <1>9, <1>10, <1>11, <1>12

(* A known user is served before the unknown one is tried. *)
LEMMA PositiveKeeps ==
  ASSUME IInv, Positive, UNCHANGED cloud
  PROVE  IInv'
<1> USE DEF IInv
<1>1. cmd.at = "positive"
  BY DEF Positive
<1>2. act.from # "pc"
  BY <1>1, Blanks, Beginnings DEF Tied, CallLabels
<1>3. /\ cmd' \in Commands /\ cmd'.at = "negative" /\ cmd'.op = cmd.op /\ cmd'.a = cmd.a
      /\ cmd'.arc = cmd.arc /\ cmd'.proof = cmd.proof /\ cmd'.got.arc = NoArc
      /\ cmd'.got = Nothing /\ cmd'.got.is = "none"
  BY Turning DEF Positive, CallLabels, Asking, Settling
<1>4. UNCHANGED <<host, journal, receipt, act, late, faults, pend, proofs, doc, made>>
  BY DEF Positive, Stay, remoteSide, disk
<1>5. Known' /\ Diagnosing' /\ Recovering' /\ Advancing' /\ CommittedWasWitnessed' /\ CommitReconcilable'
  BY <1>1, <1>2, <1>3, <1>4 DEF Known, Diagnosing, Recovering, Advancing, CommittedWasWitnessed,
     CommitReconcilable, IsCommitted, ReceiptFits
<1>6. Shapes'
  <2>1. cmd' \in Commands
    BY <1>1, <1>2, <1>3, <1>4, Blanks, Beginnings DEF Shapes, TypeOK, Commands, Asking, Settling
  <2> QED
    BY <1>1, <1>2, <1>3, <1>4, <2>1 DEF Shapes, TypeOK
<1>7. Tied'
  BY <1>1, <1>2, <1>3, <1>4 DEF Tied, Kind, CallLabels
<1>8. Contained'
  BY <1>1, <1>2, <1>3, <1>4, Blanks, Beginnings DEF Contained, Everyone
<1>9. Witness'
  BY <1>1, <1>2, <1>3, <1>4 DEF Witness
<1>10. Once'
  BY <1>1, <1>2, <1>3, <1>4 DEF Once, Tied, Settling
<1>11. Reconciling'
  BY <1>1, <1>2, <1>3, <1>4 DEF Reconciling, Commits, Request, ReceiptFits, Got
<1>12. Committing'
  BY <1>1, <1>2, <1>3, <1>4 DEF Committing, Got, IsCommitted, Settling
<1> QED
  BY <1>5, <1>6, <1>7, <1>8, <1>9, <1>10, <1>11, <1>12

(* The final archive is asked for after new connections. *)
LEMMA ReconnectKeeps ==
  ASSUME IInv, Reconnect, UNCHANGED cloud
  PROVE  IInv'
<1> USE DEF IInv
<1>1. cmd.at = "reconnect"
  BY DEF Reconnect
<1>2. act.from # "pc"
  BY <1>1, Blanks, Beginnings DEF Tied, CallLabels
<1>3. /\ cmd' \in Commands /\ cmd'.at = "final" /\ cmd'.op = cmd.op /\ cmd'.a = cmd.a
      /\ cmd'.arc = cmd.arc /\ cmd'.proof = cmd.proof /\ cmd'.got.arc = NoArc
      /\ cmd'.got.is = "out"
  BY Turning DEF Reconnect, CallLabels, Asking, Settling
<1>4. UNCHANGED <<host, journal, receipt, act, late, faults, pend, proofs, doc, made>>
  BY DEF Reconnect, Stay, remoteSide, disk
<1>5. Known' /\ Diagnosing' /\ Recovering' /\ Advancing' /\ CommittedWasWitnessed' /\ CommitReconcilable'
  BY <1>1, <1>2, <1>3, <1>4 DEF Known, Diagnosing, Recovering, Advancing, CommittedWasWitnessed,
     CommitReconcilable, IsCommitted, ReceiptFits
<1>6. Shapes'
  <2>1. cmd' \in Commands
    BY <1>1, <1>2, <1>3, <1>4, Blanks, Beginnings DEF Shapes, TypeOK, Commands, Asking, Settling
  <2> QED
    BY <1>1, <1>2, <1>3, <1>4, <2>1 DEF Shapes, TypeOK
<1>7. Tied'
  BY <1>1, <1>2, <1>3, <1>4 DEF Tied, Kind, CallLabels
<1>8. Contained'
  BY <1>1, <1>2, <1>3, <1>4, Blanks, Beginnings DEF Contained, Everyone
<1>9. Witness'
  BY <1>1, <1>2, <1>3, <1>4 DEF Witness
<1>10. Once'
  BY <1>1, <1>2, <1>3, <1>4 DEF Once, Tied, Settling
<1>11. Reconciling'
  BY <1>1, <1>2, <1>3, <1>4 DEF Reconciling, Commits, Request, ReceiptFits, Got
<1>12. Committing'
  BY <1>1, <1>2, <1>3, <1>4 DEF Committing, Got, IsCommitted, Settling
<1> QED
  BY <1>5, <1>6, <1>7, <1>8, <1>9, <1>10, <1>11, <1>12

(* Only a core that refuses unknown users writes the nonce. *)
LEMMA NegativeKeeps ==
  ASSUME IInv, Negative, UNCHANGED cloud
  PROVE  IInv'
<1> USE DEF IInv
<1>1. cmd.at = "negative"
  BY DEF Negative
<1>2. act.from # "pc"
  BY <1>1, Blanks, Beginnings DEF Tied, CallLabels
<1>3. /\ cmd' \in Commands /\ cmd'.at = "finish" /\ cmd'.op = cmd.op /\ cmd'.a = cmd.a
      /\ cmd'.arc = cmd.arc /\ cmd'.proof = cmd.proof /\ cmd'.got.arc = NoArc
      /\ cmd'.got.is = "out"
  BY Turning DEF Negative, CallLabels, Asking, Settling
<1>4. /\ UNCHANGED <<journal, receipt, act, late, faults, pend, proofs, doc, made>>
      /\ (UNCHANGED host \/ (host.sound /\ host' = [host EXCEPT !.line = @ \/ (host.core = "logging" /\ host.file)]))
  BY DEF Negative, Stay, remoteSide, disk, Serving
<1>5. /\ host' \in Hosts /\ host'.template = host.template /\ host'.dir = host.dir /\ host'.sound = host.sound
      /\ host'.file = host.file /\ host'.export = host.export /\ host'.ident = host.ident
      /\ host'.line => host.line \/ (host.file /\ host.sound)
  <2>1. host \in Hosts
    BY DEF Shapes, TypeOK
  <2>2. CASE UNCHANGED host
    BY <2>1, <2>2
  <2>3. ASSUME host.sound, NEW b \in BOOLEAN, b => host.line \/ host.file, host' = [host EXCEPT !.line = b]
        PROVE  /\ host' \in Hosts /\ host'.template = host.template /\ host'.dir = host.dir /\ host'.sound = host.sound
               /\ host'.file = host.file /\ host'.export = host.export /\ host'.ident = host.ident
               /\ host'.line => host.line \/ (host.file /\ host.sound)
    BY <2>1, <2>3 DEF Hosts
  <2> QED
    BY <1>4, <2>1, <2>2, <2>3
<1>6. Known' /\ CommittedWasWitnessed' /\ CommitReconcilable'
  BY <1>1, <1>2, <1>3, <1>4, <1>5 DEF Known, CommittedWasWitnessed, CommitReconcilable, ReceiptFits
<1>7. Shapes'
  <2>1. cmd' \in Commands
    BY <1>1, <1>2, <1>3, <1>4, <1>5, Blanks, Beginnings DEF Shapes, TypeOK, Commands, Asking, Settling
  <2>2. host' \in Hosts
    BY <1>1, <1>2, <1>3, <1>4, <1>5, Blanks, Beginnings DEF Shapes, TypeOK, Hosts, Journals, Idents
  <2> QED
    BY <1>1, <1>2, <1>3, <1>4, <1>5, <2>1, <2>2 DEF Shapes, TypeOK
<1>8. Tied'
  BY <1>1, <1>2, <1>3, <1>4, <1>5 DEF Tied, Kind, CallLabels
<1>9. Diagnosing'
  BY <1>1, <1>2, <1>3, <1>4, <1>5 DEF Diagnosing
<1>10. Recovering'
  BY <1>1, <1>2, <1>3, <1>4, <1>5 DEF Recovering, IsCommitted
<1>11. Contained'
  BY <1>1, <1>2, <1>3, <1>4, <1>5, Blanks, Beginnings DEF Contained, Everyone
<1>12. Witness'
  BY <1>1, <1>2, <1>3, <1>4, <1>5 DEF Witness
<1>13. Advancing'
  BY <1>1, <1>2, <1>3, <1>4, <1>5 DEF Advancing
<1>14. Once'
  BY <1>1, <1>2, <1>3, <1>4, <1>5 DEF Once, Tied, Settling
<1>15. Reconciling'
  BY <1>1, <1>2, <1>3, <1>4, <1>5 DEF Reconciling, Commits, Request, ReceiptFits, Got
<1>16. Committing'
  BY <1>1, <1>2, <1>3, <1>4, <1>5 DEF Committing, Got, IsCommitted, Settling
<1> QED
  BY <1>6, <1>7, <1>8, <1>9, <1>10, <1>11, <1>12, <1>13, <1>14, <1>15, <1>16

(* The proof is saved while no commit can read it. *)
LEMMA SaveProofKeeps ==
  ASSUME IInv, SaveProof, UNCHANGED cloud
  PROVE  IInv'
<1> USE DEF IInv
<1>1. cmd.at = "proof"
  BY DEF SaveProof
<1>2. act.from # "pc"
  BY <1>1, Blanks, Beginnings DEF Tied, CallLabels
<1>3. /\ cmd' \in Commands /\ cmd'.at = "mark" /\ cmd'.op = cmd.op /\ cmd'.a = cmd.a
      /\ cmd'.arc = cmd.arc /\ cmd'.proof = cmd.proof /\ cmd'.got.arc = NoArc
      /\ cmd'.got = Nothing /\ cmd'.got.is = "none"
  BY Turning DEF SaveProof, CallLabels, Asking, Settling
<1>4. /\ UNCHANGED <<host, journal, receipt, act, late, faults, pend, doc, made>>
      /\ proofs' = [proofs EXCEPT ![cmd.op] = cmd.proof]
  BY DEF SaveProof, Stay, remoteSide, disk
<1>5. Known' /\ Diagnosing' /\ Recovering' /\ Advancing' /\ CommittedWasWitnessed'
  BY <1>1, <1>2, <1>3, <1>4 DEF Known, Diagnosing, Recovering, Advancing, CommittedWasWitnessed, IsCommitted
<1>6. Shapes'
  <2>1. cmd' \in Commands
    BY <1>1, <1>2, <1>3, <1>4, Blanks, Beginnings DEF Shapes, TypeOK, Commands, Asking, Settling
  <2>2. proofs' \in [Ops -> Archives]
    BY <1>1, <1>2, <1>3, <1>4, Blanks, Beginnings DEF Shapes, TypeOK, Commands, Ops
  <2> QED
    BY <1>1, <1>2, <1>3, <1>4, <2>1, <2>2 DEF Shapes, TypeOK
<1>7. Tied'
  BY <1>1, <1>2, <1>3, <1>4 DEF Tied, Kind, CallLabels
<1>8. Contained'
  BY <1>1, <1>2, <1>3, <1>4, Blanks, Beginnings DEF Contained, Everyone
<1>9. Witness'
  BY <1>1, <1>2, <1>3, <1>4 DEF Witness
<1>10. Once'
  BY <1>1, <1>2, <1>3, <1>4 DEF Once, Tied, Settling
<1>11. Reconciling'
  <2>1. Commits' \subseteq Commits /\ \A c \in Commits : c \in late \cup {act.call} /\ c.is = "commit"
    BY <1>1, <1>3, <1>4 DEF Commits, Request
  <2>2. \A c \in Commits : c.op # pend.op /\ c.op # 0
    BY <1>1, <2>1 DEF Once, Tied, Settling
  <2>3. cmd.op \in Ops /\ proofs' = [proofs EXCEPT ![cmd.op] = cmd.proof] /\ proofs \in [Ops -> Archives]
    BY <1>1, <1>4 DEF Tied, Shapes, TypeOK, Commands, Ops
  <2> QED
    BY <1>1, <1>3, <1>4, <2>1, <2>2, <2>3 DEF Reconciling, Got, ReceiptFits
<1>12. Committing'
  BY <1>1, <1>2, <1>3, <1>4 DEF Committing, Got, IsCommitted, Settling
<1>13. CommitReconcilable'
  BY <1>1, <1>2, <1>3, <1>4 DEF CommitReconcilable, ReceiptFits, Tied, Committing, Settling, IsCommitted, Commits,
     Reconciling
<1> QED
  BY <1>5, <1>6, <1>7, <1>8, <1>9, <1>10, <1>11, <1>12, <1>13

(* pending.json names what the commit asks for, before it is sent. *)
LEMMA MarkKeeps ==
  ASSUME IInv, Mark, UNCHANGED cloud
  PROVE  IInv'
<1> USE DEF IInv
<1>1. cmd.at = "mark"
  BY DEF Mark
<1>2. act.from # "pc"
  BY <1>1, Blanks, Beginnings DEF Tied, CallLabels
<1>3. /\ cmd' \in Commands /\ cmd'.at = "commit" /\ cmd'.op = cmd.op /\ cmd'.a = cmd.a
      /\ cmd'.arc = cmd.arc /\ cmd'.proof = cmd.proof /\ cmd'.got.arc = NoArc
      /\ cmd'.got.is = "out"
  BY Turning DEF Mark, CallLabels, Asking, Settling
<1>4. /\ UNCHANGED <<host, journal, receipt, act, late, faults, proofs, doc, made>>
      /\ pend' = [pend EXCEPT !.arc = cmd.arc, !.proof = cmd.proof]
  BY DEF Mark, Stay, remoteSide, disk, Marked
<1>5. Diagnosing' /\ Recovering' /\ Advancing' /\ CommittedWasWitnessed'
  BY <1>1, <1>2, <1>3, <1>4 DEF Diagnosing, Recovering, Advancing, CommittedWasWitnessed, IsCommitted
<1>6. Shapes'
  <2>1. cmd' \in Commands
    BY <1>1, <1>2, <1>3, <1>4, Blanks, Beginnings DEF Shapes, TypeOK, Commands, Asking, Settling
  <2>2. pend' \in Pendings
    BY <1>1, <1>2, <1>3, <1>4, Blanks, Beginnings DEF Shapes, TypeOK, Pendings, Commands, Answers, NoPend
  <2> QED
    BY <1>1, <1>2, <1>3, <1>4, <2>1, <2>2 DEF Shapes, TypeOK
<1>7. Tied'
  BY <1>1, <1>2, <1>3, <1>4 DEF Tied, Kind, CallLabels
<1>8. Known'
  BY <1>1, <1>2, <1>3, <1>4 DEF Known
<1>9. Contained'
  BY <1>1, <1>2, <1>3, <1>4, Blanks, Beginnings DEF Contained, Everyone
<1>10. Witness'
  BY <1>1, <1>2, <1>3, <1>4 DEF Witness
<1>11. Once'
  BY <1>1, <1>2, <1>3, <1>4 DEF Once, Tied, Settling
<1>12. Reconciling'
  BY <1>1, <1>2, <1>3, <1>4 DEF Tied, Once, Reconciling, Commits, Request, Kind, CallLabels, ReceiptFits, Got,
     Settling, Committing, Recovering
<1>13. Committing'
  BY <1>1, <1>2, <1>3, <1>4 DEF Committing, Got, IsCommitted, Settling
<1>14. CommitReconcilable'
  BY <1>1, <1>2, <1>3, <1>4 DEF CommitReconcilable, ReceiptFits, Tied, Committing, Settling, IsCommitted, Commits,
     Reconciling
<1> QED
  BY <1>5, <1>6, <1>7, <1>8, <1>9, <1>10, <1>11, <1>12, <1>13, <1>14

(* state.json records what is committed. *)
LEMMA GotAfterKeeps ==
  ASSUME IInv, GotAfter, UNCHANGED cloud
  PROVE  IInv'
<1> USE DEF IInv
<1>1. cmd.at = "after" /\ cmd.got.is = "archive"
  BY DEF GotAfter, OfCandidate
<1>2. act.from # "pc"
  BY <1>1, Blanks, Beginnings DEF Tied, CallLabels
<1>3. /\ cmd' \in Commands /\ cmd'.at = "clear" /\ cmd'.op = cmd.op /\ cmd'.a = cmd.a
      /\ cmd'.arc = cmd.arc /\ cmd'.proof = cmd.proof /\ cmd'.got.arc = NoArc
      /\ cmd'.got = Nothing /\ cmd'.got.is = "none"
  BY Turning DEF GotAfter, CallLabels, Asking, Settling
<1>4. UNCHANGED <<host, journal, receipt, act, late, faults, pend, proofs, made>> /\ doc' = cmd.op
  BY DEF GotAfter, Stay, remoteSide, disk
<1>5. Known' /\ Diagnosing' /\ Recovering' /\ Advancing' /\ CommittedWasWitnessed'
  BY <1>1, <1>2, <1>3, <1>4 DEF Known, Diagnosing, Recovering, Advancing, CommittedWasWitnessed, IsCommitted
<1>6. Shapes'
  <2>1. cmd' \in Commands
    BY <1>1, <1>2, <1>3, <1>4, Blanks, Beginnings DEF Shapes, TypeOK, Commands, Asking, Settling
  <2>2. doc' \in 0 .. MaxOps
    BY <1>1, <1>2, <1>3, <1>4, Blanks, Beginnings DEF Shapes, TypeOK, Commands
  <2> QED
    BY <1>1, <1>2, <1>3, <1>4, <2>1, <2>2 DEF Shapes, TypeOK
<1>7. Tied'
  BY <1>1, <1>2, <1>3, <1>4 DEF Tied, Kind, CallLabels
<1>8. Contained'
  BY <1>1, <1>2, <1>3, <1>4, Blanks, Beginnings DEF Contained, Everyone
<1>9. Witness'
  BY <1>1, <1>2, <1>3, <1>4 DEF Witness
<1>10. Once'
  BY <1>1, <1>2, <1>3, <1>4 DEF Once, Tied, Settling
<1>11. Reconciling'
  BY <1>1, <1>2, <1>3, <1>4 DEF Reconciling, Commits, Request, ReceiptFits, Got
<1>12. Committing'
  BY <1>1, <1>2, <1>3, <1>4 DEF Committing, Got, IsCommitted, Settling
<1>13. CommitReconcilable'
  <2>1. cmd.op # 0 /\ pend.op = cmd.op /\ (doc # 0 => doc = pend.op)
    BY <1>1 DEF Tied
  <2>2. \A o \in Ops : o # 0
    BY DEF Ops
  <2> QED
    BY <1>4, <2>1, <2>2 DEF CommitReconcilable
<1> QED
  BY <1>5, <1>6, <1>7, <1>8, <1>9, <1>10, <1>11, <1>12, <1>13

(* A command starts where nothing is pending. *)
LEMMA StartKeeps ==
  ASSUME IInv, Start, UNCHANGED cloud
  PROVE  IInv'
<1> USE DEF IInv
<1>1. cmd = Idle /\ pend = NoPend /\ doc = 0 /\ cmd.at = "idle" /\ cmd.op = 0
  BY Beginnings DEF Start
<1>2. act.from # "pc"
  BY <1>1, Blanks, Beginnings DEF Tied, CallLabels
<1>3. /\ cmd' \in Commands /\ cmd'.at = "before" /\ cmd'.op = 0 /\ cmd'.a = NoArc
      /\ cmd'.arc = NoArc /\ cmd'.proof = cmd.proof
      /\ cmd'.got.is = "out" /\ cmd'.got.arc = NoArc
  <2>1. Out \in Answers /\ Out.is = "out" /\ Out.arc = NoArc /\ Nothing \in Answers
        /\ Nothing.is = "none" /\ Nothing.arc = NoArc
    BY Blanks, Beginnings
  <2> HIDE DEF Out, Nothing
  <2>2. Idle \in Commands /\ Idle.op = 0 /\ Idle.a = NoArc /\ Idle.arc = NoArc
    BY Beginnings
  <2> QED
    BY <1>1, <2>1, <2>2 DEF Start, To, CallLabels, Commands
<1>4. UNCHANGED <<host, journal, receipt, act, late, faults, pend, proofs, doc, made>>
  BY DEF Start, Stay, remoteSide, disk
<1>5. Known' /\ Diagnosing' /\ Recovering' /\ Advancing' /\ CommittedWasWitnessed' /\ CommitReconcilable'
  BY <1>1, <1>2, <1>3, <1>4 DEF Known, Diagnosing, Recovering, Advancing, CommittedWasWitnessed,
     CommitReconcilable, IsCommitted, ReceiptFits
<1>6. Shapes'
  <2>1. cmd' \in Commands
    BY <1>1, <1>2, <1>3, <1>4, Blanks, Beginnings DEF Shapes, TypeOK, Commands, Asking, Settling
  <2> QED
    BY <1>1, <1>2, <1>3, <1>4, <2>1 DEF Shapes, TypeOK
<1>7. Tied'
  BY <1>1, <1>2, <1>3, <1>4 DEF Tied, Kind, CallLabels
<1>8. Contained'
  BY <1>1, <1>2, <1>3, <1>4, Blanks, Beginnings, Idling DEF Contained, Everyone
<1>9. Witness'
  BY <1>1, <1>2, <1>3, <1>4 DEF Witness
<1>10. Once'
  BY <1>1, <1>2, <1>3, <1>4 DEF Once, Tied, Settling
<1>11. Reconciling'
  BY <1>1, <1>2, <1>3, <1>4 DEF Reconciling, Commits, Request, ReceiptFits, Got
<1>12. Committing'
  BY <1>1, <1>2, <1>3, <1>4 DEF Committing, Got, IsCommitted, Settling
<1> QED
  BY <1>5, <1>6, <1>7, <1>8, <1>9, <1>10, <1>11, <1>12

(* A recovery works for the operation of pending.json. *)
LEMMA StartRecoverKeeps ==
  ASSUME IInv, StartRecover, UNCHANGED cloud
  PROVE  IInv'
<1> USE DEF IInv
<1>1. cmd = Idle /\ pend # NoPend /\ cmd.at = "idle" /\ cmd.op = 0 /\ pend.op # 0
  BY Beginnings DEF StartRecover, Tied
<1>2. act.from # "pc"
  BY <1>1, Blanks, Beginnings DEF Tied, CallLabels
<1>3. /\ cmd' \in Commands /\ cmd'.at = "abort" /\ cmd'.op = pend.op /\ cmd'.a = NoArc
      /\ cmd'.arc = NoArc /\ cmd'.proof = cmd.proof
      /\ cmd'.got.is = "out" /\ cmd'.got.arc = NoArc
  <2>1. Out \in Answers /\ Out.is = "out" /\ Out.arc = NoArc /\ Nothing \in Answers
        /\ Nothing.is = "none" /\ Nothing.arc = NoArc
    BY Blanks, Beginnings
  <2> HIDE DEF Out, Nothing
  <2>2. Idle \in Commands /\ Idle.op = 0 /\ Idle.a = NoArc /\ Idle.arc = NoArc
    BY Beginnings
  <2>3. pend.op \in 0 .. MaxOps
    BY DEF Shapes, TypeOK, Pendings
  <2> QED
    BY <1>1, <2>1, <2>2, <2>3 DEF StartRecover, To, CallLabels, Commands, Settling
<1>4. UNCHANGED <<host, journal, receipt, act, late, faults, pend, proofs, doc, made>>
  BY DEF StartRecover, Stay, remoteSide, disk
<1>5. Known' /\ Diagnosing' /\ Recovering' /\ Advancing' /\ CommittedWasWitnessed' /\ CommitReconcilable'
  BY <1>1, <1>2, <1>3, <1>4 DEF Known, Diagnosing, Recovering, Advancing, CommittedWasWitnessed,
     CommitReconcilable, IsCommitted, ReceiptFits
<1>6. Shapes'
  <2>1. cmd' \in Commands
    BY <1>1, <1>2, <1>3, <1>4, Blanks, Beginnings DEF Shapes, TypeOK, Commands, Asking, Settling
  <2> QED
    BY <1>1, <1>2, <1>3, <1>4, <2>1 DEF Shapes, TypeOK
<1>7. Tied'
  BY <1>1, <1>2, <1>3, <1>4 DEF Tied, Kind, CallLabels
<1>8. Contained'
  BY <1>1, <1>2, <1>3, <1>4, Blanks, Beginnings, Idling DEF Contained, Everyone
<1>9. Witness'
  BY <1>1, <1>2, <1>3, <1>4 DEF Witness
<1>10. Once'
  BY <1>1, <1>2, <1>3, <1>4 DEF Once, Tied, Settling
<1>11. Reconciling'
  BY <1>1, <1>2, <1>3, <1>4 DEF Reconciling, Commits, Request, ReceiptFits, Got
<1>12. Committing'
  BY <1>1, <1>2, <1>3, <1>4 DEF Committing, Got, IsCommitted, Settling
<1> QED
  BY <1>5, <1>6, <1>7, <1>8, <1>9, <1>10, <1>11, <1>12

(* A new operation is drawn: nothing is known of it. *)
LEMMA GotBeforeKeeps ==
  ASSUME IInv, GotBefore, UNCHANGED cloud
  PROVE  IInv'
<1> USE DEF IInv
<1>1. cmd.at = "before" /\ cmd.got.is = "archive" /\ cmd.op = 0 /\ pend = NoPend /\ doc = 0 /\ pend.op = 0
  BY Blanks DEF GotBefore, Got, Tied
<1>2. act.from # "pc"
  BY <1>1, Blanks, Beginnings DEF Tied, CallLabels
<1>3. UNCHANGED <<host, journal, receipt, act, late, faults, proofs, doc>> /\ made \in 0 .. MaxOps
  BY DEF GotBefore, Stay, remoteSide, disk, Shapes, TypeOK
<1>4. \/ cmd' = Idle /\ UNCHANGED <<made, pend>>
      \/ /\ made < MaxOps /\ made' = made + 1 /\ made' \in Ops
         /\ pend' \in Pendings /\ pend'.op = made + 1 /\ pend'.arc = NoArc /\ pend' # NoPend
         /\ cmd' \in Commands /\ cmd'.at = "prepare" /\ cmd'.op = made + 1 /\ cmd'.a = cmd.a
         /\ cmd'.arc = cmd.got.arc /\ cmd'.got.is = "out" /\ cmd'.got.arc = NoArc
  <2>1. Out \in Answers /\ Out.is = "out" /\ Out.arc = NoArc /\ Nothing \in Answers
        /\ Nothing.is = "none" /\ Nothing.arc = NoArc
    BY Blanks, Beginnings
  <2> HIDE DEF Out, Nothing
  <2>2. cmd \in Commands /\ cmd.got.arc \in Archives
    BY DEF Shapes, Commands, Answers
  <2>3. ASSUME made < MaxOps, made' = made + 1, pend' = Drawn,
               To("prepare", [cmd EXCEPT !.op = made + 1, !.arc = cmd.got.arc])
        PROVE  /\ made' \in Ops
               /\ pend' \in Pendings /\ pend'.op = made + 1 /\ pend'.arc = NoArc /\ pend' # NoPend
               /\ cmd' \in Commands /\ cmd'.at = "prepare" /\ cmd'.op = made + 1 /\ cmd'.a = cmd.a
               /\ cmd'.arc = cmd.got.arc /\ cmd'.got.is = "out" /\ cmd'.got.arc = NoArc
    <3>1. made + 1 \in 0 .. MaxOps /\ made + 1 # 0 /\ made' \in Ops
      BY <1>3, <2>3 DEF Ops
    <3>2. pend' \in Pendings /\ pend'.op = made + 1 /\ pend'.arc = NoArc /\ pend' # NoPend
      BY <2>3, <3>1, Blanks DEF Drawn, Pendings
    <3>3. /\ cmd' \in Commands /\ cmd'.at = "prepare" /\ cmd'.op = made + 1 /\ cmd'.a = cmd.a
          /\ cmd'.arc = cmd.got.arc /\ cmd'.got.is = "out" /\ cmd'.got.arc = NoArc
      BY <2>1, <2>2, <2>3, <3>1 DEF To, Commands, CallLabels, Asking
    <3> QED
      BY <3>1, <3>2, <3>3
  <2>4. \/ Fail /\ UNCHANGED <<made, pend>>
        \/ /\ made < MaxOps /\ made' = made + 1 /\ pend' = Drawn
           /\ To("prepare", [cmd EXCEPT !.op = made + 1, !.arc = cmd.got.arc])
    BY DEF GotBefore
  <2>5. Fail => cmd' = Idle
    BY <1>1, Failing
  <2> QED
    BY <2>3, <2>4, <2>5
<1>5. /\ made \in Nat /\ journal.op <= made + 1
      /\ \A c \in late \cup {act.call} : c.op <= made /\ c.op # made + 1 /\ c.op <= made + 1
      /\ \A o \in Ops : receipt[o] # NoReceipt => o # made + 1 /\ o <= made + 1
  BY <1>3, Idling DEF Known, Shapes, TypeOK, Requests, Acts, Journals
<1>6. Diagnosing' /\ Recovering' /\ Advancing' /\ CommittedWasWitnessed'
  BY <1>1, <1>2, <1>3, <1>4, <1>5 DEF Diagnosing, Recovering, Advancing, CommittedWasWitnessed, IsCommitted
<1>7. Shapes'
  <2>1. cmd' \in Commands
    BY <1>1, <1>2, <1>3, <1>4, <1>5, Blanks, Beginnings DEF Shapes, TypeOK, Commands, Asking, Settling
  <2>2. pend' \in Pendings
    BY <1>1, <1>2, <1>3, <1>4, <1>5, Blanks, Beginnings DEF Shapes, TypeOK, Pendings, Commands, Answers, NoPend
  <2>3. made' \in 0 .. MaxOps
    BY <1>1, <1>2, <1>3, <1>4, <1>5, Blanks, Beginnings DEF Shapes, TypeOK
  <2> QED
    BY <1>1, <1>2, <1>3, <1>4, <1>5, <2>1, <2>2, <2>3 DEF Shapes, TypeOK
<1>8. Tied'
  BY <1>1, <1>2, <1>3, <1>4, <1>5, Blanks, Beginnings, Idling DEF Tied, Kind, CallLabels
<1>9. Known'
  BY <1>1, <1>2, <1>3, <1>4, <1>5 DEF Known
<1>10. Contained'
  BY <1>1, <1>2, <1>3, <1>4, <1>5, Blanks, Beginnings, Idling DEF Contained, Everyone
<1>11. Witness'
  BY <1>1, <1>2, <1>3, <1>4, <1>5, Blanks, Beginnings, Idling DEF Witness
<1>12. Once'
  BY <1>1, <1>2, <1>3, <1>4, <1>5, Blanks, Beginnings, Idling DEF Once, Tied, Settling
<1>13. Reconciling'
  BY <1>1, <1>2, <1>3, <1>4, <1>5, Blanks, Beginnings, Idling DEF Tied, Once, Reconciling, Commits, Request, Kind,
     CallLabels, ReceiptFits, Got, Settling, Committing, Recovering
<1>14. Committing'
  BY <1>1, <1>2, <1>3, <1>4, <1>5, Blanks, Beginnings, Idling DEF Committing, Got, IsCommitted, Settling
<1>15. CommitReconcilable'
  BY <1>1, <1>2, <1>3, <1>4, <1>5 DEF CommitReconcilable, ReceiptFits
<1> QED
  BY <1>6, <1>7, <1>8, <1>9, <1>10, <1>11, <1>12, <1>13, <1>14, <1>15

(* The first archive is recorded while no commit can be under way. *)
LEMMA GotFirstKeeps ==
  ASSUME IInv, GotFirst, UNCHANGED cloud
  PROVE  IInv'
<1> USE DEF IInv
<1>1. cmd.at = "first" /\ cmd.got.is = "archive" /\ cmd.got.arc.template # "witness"
  BY DEF GotFirst, OfCandidate, Contained, Everyone
<1>2. act.from # "pc"
  BY <1>1, Blanks, Beginnings DEF Tied, CallLabels
<1>3. UNCHANGED <<host, journal, receipt, act, late, faults, proofs, doc, made>>
  BY DEF GotFirst, Stay, remoteSide, disk
<1>4. /\ pend' \in Pendings /\ pend'.op = pend.op /\ pend'.arc = cmd.got.arc
  <2>1. pend \in Pendings /\ cmd.got.arc \in Archives
    BY DEF Shapes, TypeOK, Commands, Answers
  <2> QED
    BY <2>1 DEF GotFirst, Pendings
<1>5. /\ cmd' \in Commands /\ cmd'.at \in {"edge", "orange"} /\ cmd'.op = cmd.op /\ cmd'.a = cmd.got.arc
      /\ cmd'.arc = cmd.got.arc /\ cmd'.got = Nothing
      /\ cmd'.got.is = "none" /\ cmd'.got.arc = NoArc
  <2>1. Out \in Answers /\ Out.is = "out" /\ Out.arc = NoArc /\ Nothing \in Answers
        /\ Nothing.is = "none" /\ Nothing.arc = NoArc
    BY Blanks, Beginnings
  <2> HIDE DEF Out, Nothing
  <2>2. cmd \in Commands /\ cmd.got.arc \in Archives
    BY DEF Shapes, Commands, Answers
  <2> QED
    BY <2>1, <2>2 DEF GotFirst, To, CallLabels, Commands, Asking
<1>6. Diagnosing' /\ Recovering' /\ Advancing' /\ CommittedWasWitnessed'
  BY <1>1, <1>2, <1>3, <1>4, <1>5 DEF Diagnosing, Recovering, Advancing, CommittedWasWitnessed, IsCommitted
<1>7. Shapes'
  <2>1. cmd' \in Commands
    BY <1>1, <1>2, <1>3, <1>4, <1>5, Blanks, Beginnings DEF Shapes, TypeOK, Commands, Asking, Settling
  <2>2. pend' \in Pendings
    BY <1>1, <1>2, <1>3, <1>4, <1>5, Blanks, Beginnings DEF Shapes, TypeOK, Pendings, Commands, Answers, NoPend
  <2> QED
    BY <1>1, <1>2, <1>3, <1>4, <1>5, <2>1, <2>2 DEF Shapes, TypeOK
<1>8. Tied'
  BY <1>1, <1>2, <1>3, <1>4, <1>5 DEF Tied, Kind, CallLabels
<1>9. Known'
  BY <1>1, <1>2, <1>3, <1>4, <1>5 DEF Known
<1>10. Contained'
  BY <1>1, <1>2, <1>3, <1>4, <1>5, Blanks, Beginnings DEF Contained, Everyone
<1>11. Witness'
  BY <1>1, <1>2, <1>3, <1>4, <1>5 DEF Witness
<1>12. Once'
  BY <1>1, <1>2, <1>3, <1>4, <1>5 DEF Once, Tied, Settling
<1>13. Reconciling'
  BY <1>1, <1>2, <1>3, <1>4, <1>5 DEF Tied, Once, Reconciling, Commits, Request, Kind, CallLabels, ReceiptFits,
     Got, Settling, Committing, Recovering
<1>14. Committing'
  BY <1>1, <1>2, <1>3, <1>4, <1>5 DEF Committing, Got, IsCommitted, Settling
<1>15. CommitReconcilable'
  BY <1>1, <1>2, <1>3, <1>4, <1>5 DEF CommitReconcilable, ReceiptFits, Tied, Committing, Settling, IsCommitted,
     Commits, Reconciling
<1> QED
  BY <1>6, <1>7, <1>8, <1>9, <1>10, <1>11, <1>12, <1>13, <1>14, <1>15

(* The proof is of the final archive. *)
LEMMA GotFinalKeeps ==
  ASSUME IInv, GotFinal, UNCHANGED cloud
  PROVE  IInv'
<1> USE DEF IInv
<1>1. /\ cmd.at = "final" /\ cmd.got.is = "archive" /\ cmd.got.arc.op = cmd.op
      /\ cmd.got.arc.template # "witness"
  BY DEF GotFinal, OfCandidate, Contained, Everyone
<1>2. act.from # "pc"
  BY <1>1, Blanks, Beginnings DEF Tied, CallLabels
<1>3. UNCHANGED <<host, journal, receipt, act, late, faults, pend, proofs, doc, made>>
  BY DEF GotFinal, Stay, remoteSide, disk
<1>4. /\ cmd' \in Commands /\ cmd'.at = "proof" /\ cmd'.op = cmd.op /\ cmd'.a = cmd.a
      /\ cmd'.arc = cmd.got.arc /\ cmd'.proof = cmd'.arc /\ cmd'.got = Nothing
      /\ cmd'.got.is = "none" /\ cmd'.got.arc = NoArc
  <2>1. Out \in Answers /\ Out.is = "out" /\ Out.arc = NoArc /\ Nothing \in Answers
        /\ Nothing.is = "none" /\ Nothing.arc = NoArc
    BY Blanks, Beginnings
  <2> HIDE DEF Out, Nothing
  <2>2. cmd \in Commands /\ cmd.got.arc \in Archives
    BY DEF Shapes, Commands, Answers
  <2> QED
    BY <2>1, <2>2 DEF GotFinal, To, CallLabels, Commands, Asking
<1>5. Known' /\ Diagnosing' /\ Recovering' /\ Advancing' /\ CommittedWasWitnessed' /\ CommitReconcilable'
  BY <1>1, <1>2, <1>3, <1>4 DEF Known, Diagnosing, Recovering, Advancing, CommittedWasWitnessed,
     CommitReconcilable, IsCommitted, ReceiptFits
<1>6. Shapes'
  <2>1. cmd' \in Commands
    BY <1>1, <1>2, <1>3, <1>4, Blanks, Beginnings DEF Shapes, TypeOK, Commands, Asking, Settling
  <2> QED
    BY <1>1, <1>2, <1>3, <1>4, <2>1 DEF Shapes, TypeOK
<1>7. Tied'
  BY <1>1, <1>2, <1>3, <1>4 DEF Tied, Kind, CallLabels
<1>8. Contained'
  BY <1>1, <1>2, <1>3, <1>4, Blanks, Beginnings DEF Contained, Everyone
<1>9. Witness'
  BY <1>1, <1>2, <1>3, <1>4 DEF Witness
<1>10. Once'
  BY <1>1, <1>2, <1>3, <1>4 DEF Once, Tied, Settling
<1>11. Reconciling'
  BY <1>1, <1>2, <1>3, <1>4 DEF Reconciling, Commits, Request, ReceiptFits, Got
<1>12. Committing'
  BY <1>1, <1>2, <1>3, <1>4 DEF Committing, Got, IsCommitted, Settling
<1> QED
  BY <1>5, <1>6, <1>7, <1>8, <1>9, <1>10, <1>11, <1>12

(* A receipt that fits is followed by an export. *)
LEMMA GotCommittedKeeps ==
  ASSUME IInv, GotCommitted, UNCHANGED cloud
  PROVE  IInv'
<1> USE DEF IInv
<1>1. cmd.at \in {"commit", "abort"} /\ cmd.got.is = "committed"
  BY DEF GotCommitted, Got
<1>2. act.from # "pc"
  BY <1>1, Blanks, Beginnings DEF Tied, CallLabels
<1>3. UNCHANGED <<host, journal, receipt, act, late, faults, pend, proofs, doc, made>>
  BY DEF GotCommitted, Stay, remoteSide, disk
<1>4. \/ cmd' = Idle
      \/ /\ cmd' \in Commands /\ cmd'.at \in {"abort", "after"} /\ cmd'.op = cmd.op /\ cmd'.a = cmd.a
         /\ cmd'.arc = cmd.arc /\ cmd'.got.is = "out" /\ cmd'.got.arc = NoArc
  BY Failing, Turning DEF GotCommitted, CallLabels, Settling
<1>5. Known' /\ Diagnosing' /\ Recovering' /\ Advancing' /\ CommittedWasWitnessed' /\ CommitReconcilable'
  BY <1>1, <1>2, <1>3, <1>4 DEF Known, Diagnosing, Recovering, Advancing, CommittedWasWitnessed,
     CommitReconcilable, IsCommitted, ReceiptFits
<1>6. Shapes'
  <2>1. cmd' \in Commands
    BY <1>1, <1>2, <1>3, <1>4, Blanks, Beginnings DEF Shapes, TypeOK, Commands, Asking, Settling
  <2> QED
    BY <1>1, <1>2, <1>3, <1>4, <2>1 DEF Shapes, TypeOK
<1>7. Tied'
  BY <1>1, <1>2, <1>3, <1>4, Blanks, Beginnings, Idling DEF Tied, Kind, CallLabels
<1>8. Contained'
  BY <1>1, <1>2, <1>3, <1>4, Blanks, Beginnings, Idling DEF Contained, Everyone
<1>9. Witness'
  BY <1>1, <1>2, <1>3, <1>4, Blanks, Beginnings, Idling DEF Witness
<1>10. Once'
  BY <1>1, <1>2, <1>3, <1>4, Blanks, Beginnings, Idling DEF Once, Tied, Settling
<1>11. Reconciling'
  BY <1>1, <1>2, <1>3, <1>4, Blanks, Beginnings, Idling DEF Reconciling, Commits, Request, ReceiptFits, Got
<1>12. Committing'
  BY <1>1, <1>2, <1>3, <1>4, Blanks, Beginnings, Idling DEF Committing, Got, IsCommitted, Settling
<1> QED
  BY <1>5, <1>6, <1>7, <1>8, <1>9, <1>10, <1>11, <1>12

(* pending.json goes when state.json has it, or it was restored. *)
LEMMA ClearKeeps ==
  ASSUME IInv, Clear, UNCHANGED cloud
  PROVE  IInv'
<1> USE DEF IInv
<1>1. cmd.at = "clear" \/ (cmd.at = "abort" /\ cmd.got.is = "restored")
  BY DEF Clear, Got
<1>2. act.from # "pc"
  BY <1>1, Blanks, Beginnings DEF Tied, CallLabels
<1>3. UNCHANGED <<host, journal, receipt, act, late, faults, proofs, doc, made>> /\ pend' = NoPend /\ cmd' = Idle
  BY DEF Clear, Stay, remoteSide, disk
<1>4. cmd.at = "clear" => IsCommitted(cmd.op) /\ doc = cmd.op
  BY DEF Committing
<1>5. cmd.at = "abort" /\ cmd.got.is = "restored" => ~IsCommitted(cmd.op)
  BY DEF Committing, Got
<1>6. pend.op = cmd.op /\ cmd.op # 0
  BY <1>1 DEF Tied
<1>7. made \in Nat /\ cmd.op <= made
  BY Beginnings DEF Shapes, TypeOK, Tied, Known
<1>8. Diagnosing' /\ Recovering' /\ Advancing' /\ CommittedWasWitnessed'
  BY <1>1, <1>2, <1>3, <1>4, <1>5, <1>6, <1>7 DEF Diagnosing, Recovering, Advancing, CommittedWasWitnessed,
     IsCommitted
<1>9. Shapes'
  <2>1. cmd' \in Commands
    BY <1>1, <1>2, <1>3, <1>4, <1>5, <1>6, <1>7, Blanks, Beginnings DEF Shapes, TypeOK, Commands, Asking, Settling
  <2>2. pend' \in Pendings
    BY <1>1, <1>2, <1>3, <1>4, <1>5, <1>6, <1>7, Blanks, Beginnings DEF Shapes, TypeOK, Pendings, Commands,
       Answers, NoPend
  <2> QED
    BY <1>1, <1>2, <1>3, <1>4, <1>5, <1>6, <1>7, <2>1, <2>2 DEF Shapes, TypeOK
<1>10. Tied'
  BY <1>1, <1>2, <1>3, <1>4, <1>5, <1>6, <1>7, Blanks, Beginnings, Idling DEF Tied, Kind, CallLabels
<1>11. Known'
  BY <1>1, <1>2, <1>3, <1>4, <1>5, <1>6, <1>7, Blanks, Beginnings, Idling DEF Known
<1>12. Contained'
  BY <1>1, <1>2, <1>3, <1>4, <1>5, <1>6, <1>7, Blanks, Beginnings, Idling DEF Contained, Everyone
<1>13. Witness'
  BY <1>1, <1>2, <1>3, <1>4, <1>5, <1>6, <1>7, Blanks, Beginnings, Idling DEF Witness
<1>14. Once'
  BY <1>1, <1>2, <1>3, <1>4, <1>5, <1>6, <1>7, Blanks, Beginnings, Idling DEF Once, Tied, Settling
<1>15. Reconciling'
  <2>1. Commits' \subseteq Commits
    BY <1>3, Beginnings DEF Commits, Request
  <2>2. ASSUME NEW c \in Commits, journal.op = c.op, journal.phase = "prepared", receipt[c.op] = NoReceipt
        PROVE  FALSE
    BY <1>1, <1>4, <1>6, <2>2 DEF Reconciling, Got, IsCommitted
  <2>3. \A c \in Commits' : c.op # 0 /\ c.arc.op = c.op
    <3>1. \A c \in Commits' : c \in late \cup {act.call} /\ c.is = "commit"
      BY <1>3, Beginnings DEF Commits
    <3> QED
      BY <2>1, <3>1 DEF Once, Reconciling
  <2> QED
    BY <1>3, <2>1, <2>2, <2>3, Blanks, Beginnings DEF Reconciling, Got
<1>16. Committing'
  BY <1>1, <1>2, <1>3, <1>4, <1>5, <1>6, <1>7, Blanks, Beginnings, Idling DEF Committing, Got, IsCommitted, Settling
<1>17. CommitReconcilable'
  BY <1>1, <1>2, <1>3, <1>4, <1>5, <1>6, <1>7 DEF CommitReconcilable, ReceiptFits, Tied, Committing, Settling,
     IsCommitted, Commits, Reconciling
<1> QED
  BY <1>8, <1>9, <1>10, <1>11, <1>12, <1>13, <1>14, <1>15, <1>16, <1>17

(* A queued restoration leaves pending.json in place. *)
LEMMA GotQueuedKeeps ==
  ASSUME IInv, GotQueued, UNCHANGED cloud
  PROVE  IInv'
<1> USE DEF IInv
<1>1. cmd.at = "abort" /\ cmd.got.is = "queued"
  BY DEF GotQueued, Got
<1>2. act.from # "pc"
  BY <1>1, Blanks, Beginnings DEF Tied, CallLabels
<1>3. UNCHANGED <<host, journal, receipt, act, late, faults, pend, proofs, doc, made>> /\ cmd' = Idle
  BY DEF GotQueued, Stay, remoteSide, disk
<1>4. Known' /\ Diagnosing' /\ Recovering' /\ Advancing' /\ CommittedWasWitnessed' /\ CommitReconcilable'
  BY <1>1, <1>2, <1>3 DEF Known, Diagnosing, Recovering, Advancing, CommittedWasWitnessed, CommitReconcilable,
     IsCommitted, ReceiptFits
<1>5. Shapes'
  <2>1. cmd' \in Commands
    BY <1>1, <1>2, <1>3, Blanks, Beginnings DEF Shapes, TypeOK, Commands, Asking, Settling
  <2> QED
    BY <1>1, <1>2, <1>3, <2>1 DEF Shapes, TypeOK
<1>6. Tied'
  BY <1>1, <1>2, <1>3, Blanks, Beginnings, Idling DEF Tied, Kind, CallLabels
<1>7. Contained'
  BY <1>1, <1>2, <1>3, Blanks, Beginnings, Idling DEF Contained, Everyone
<1>8. Witness'
  BY <1>1, <1>2, <1>3, Blanks, Beginnings, Idling DEF Witness
<1>9. Once'
  BY <1>1, <1>2, <1>3, Blanks, Beginnings, Idling DEF Once, Tied, Settling
<1>10. Reconciling'
  BY <1>1, <1>2, <1>3, Blanks, Beginnings, Idling DEF Reconciling, Commits, Request, ReceiptFits, Got
<1>11. Committing'
  BY <1>1, <1>2, <1>3, Blanks, Beginnings, Idling DEF Committing, Got, IsCommitted, Settling
<1> QED
  BY <1>4, <1>5, <1>6, <1>7, <1>8, <1>9, <1>10, <1>11

(* A command that gives up goes to recover_local. *)
LEMMA GivesUpKeeps ==
  ASSUME IInv, GivesUp, UNCHANGED cloud
  PROVE  IInv'
<1> USE DEF IInv
<1>1. cmd.at \notin {"idle", "clear"} /\ cmd.got.is \notin {"out", "in"}
  BY DEF GivesUp
<1>2. act.from # "pc"
  BY <1>1, Blanks, Beginnings DEF Tied, CallLabels
<1>3. UNCHANGED <<host, journal, receipt, act, late, faults, pend, proofs, doc, made>>
  BY DEF GivesUp, Stay, remoteSide, disk
<1>4. \/ cmd' = Idle
      \/ /\ cmd' \in Commands /\ cmd'.at = "abort" /\ cmd'.op = cmd.op /\ cmd'.a = cmd.a
         /\ cmd'.arc = cmd.arc /\ cmd'.got.is = "out" /\ cmd'.got.arc = NoArc /\ pend.op # 0
  BY Failing DEF GivesUp
<1>5. Known' /\ Diagnosing' /\ Recovering' /\ Advancing' /\ CommittedWasWitnessed' /\ CommitReconcilable'
  BY <1>1, <1>2, <1>3, <1>4 DEF Known, Diagnosing, Recovering, Advancing, CommittedWasWitnessed,
     CommitReconcilable, IsCommitted, ReceiptFits
<1>6. Shapes'
  <2>1. cmd' \in Commands
    BY <1>1, <1>2, <1>3, <1>4, Blanks, Beginnings DEF Shapes, TypeOK, Commands, Asking, Settling
  <2> QED
    BY <1>1, <1>2, <1>3, <1>4, <2>1 DEF Shapes, TypeOK
<1>7. Tied'
  BY <1>1, <1>2, <1>3, <1>4, Blanks, Beginnings, Idling DEF Tied, Kind, CallLabels
<1>8. Contained'
  BY <1>1, <1>2, <1>3, <1>4, Blanks, Beginnings, Idling DEF Contained, Everyone
<1>9. Witness'
  BY <1>1, <1>2, <1>3, <1>4, Blanks, Beginnings, Idling DEF Witness
<1>10. Once'
  BY <1>1, <1>2, <1>3, <1>4, Blanks, Beginnings, Idling DEF Once, Tied, Settling
<1>11. Reconciling'
  BY <1>1, <1>2, <1>3, <1>4, Blanks, Beginnings, Idling DEF Reconciling, Commits, Request, ReceiptFits, Got
<1>12. Committing'
  BY <1>1, <1>2, <1>3, <1>4, Blanks, Beginnings, Idling DEF Committing, Got, IsCommitted, Settling
<1> QED
  BY <1>5, <1>6, <1>7, <1>8, <1>9, <1>10, <1>11, <1>12

(* A killed command leaves its call behind. *)
LEMMA KillCommandKeeps ==
  ASSUME IInv, KillCommand, UNCHANGED cloud
  PROVE  IInv'
<1> USE DEF IInv
<1>1. cmd' = Idle
  BY DEF KillCommand
<1>2. /\ act' \in Acts /\ act'.call = act.call /\ act'.at = act.at /\ act'.from # "pc"
      /\ act'.at = "free" => act' = NoAct
      /\ late' \subseteq Requests /\ late' \subseteq late \cup {Request}
      /\ late' # late => cmd.got.is = "out" /\ cmd.at \in CallLabels
      /\ Request.is = Kind(cmd.at) /\ Request.op = cmd.op /\ Request.arc = cmd.arc
      /\ Request.proof = cmd.proof
  BY Orphaning DEF KillCommand
<1>3. UNCHANGED <<host, journal, receipt, pend, proofs, doc, made>> /\ faults' \in 0 .. MaxFaults
  BY DEF KillCommand, Spend, disk, Shapes, TypeOK
<1>4. \A c \in late' : c \in late \/ (c = Request /\ cmd.got.is = "out" /\ cmd.at \in CallLabels)
  BY <1>2
<1>5. made \in Nat /\ cmd.op <= made
  BY Beginnings DEF Shapes, TypeOK, Tied, Known
<1>6. Advancing' /\ CommittedWasWitnessed' /\ CommitReconcilable'
  BY <1>1, <1>2, <1>3, <1>4, <1>5 DEF Advancing, CommittedWasWitnessed, CommitReconcilable, ReceiptFits
<1>7. Shapes'
  <2>1. act' \in Acts
    BY <1>1, <1>2, <1>3, <1>4, <1>5, Blanks, Beginnings DEF Shapes, TypeOK, Acts
  <2>2. cmd' \in Commands
    BY <1>1, <1>2, <1>3, <1>4, <1>5, Blanks, Beginnings DEF Shapes, TypeOK, Commands, Asking, Settling
  <2>3. late' \subseteq Requests
    BY <1>1, <1>2, <1>3, <1>4, <1>5, Blanks, Beginnings DEF Shapes, TypeOK
  <2>4. faults' \in 0 .. MaxFaults
    BY <1>1, <1>2, <1>3, <1>4, <1>5, Blanks, Beginnings DEF Shapes, TypeOK, Spend
  <2> QED
    BY <1>1, <1>2, <1>3, <1>4, <1>5, <2>1, <2>2, <2>3, <2>4 DEF Shapes, TypeOK
<1>8. Tied'
  BY <1>1, <1>2, <1>3, <1>4, <1>5, Blanks, Beginnings, Idling DEF Tied, Kind, CallLabels
<1>9. Known'
  BY <1>1, <1>2, <1>3, <1>4, <1>5 DEF Known
<1>10. Diagnosing'
  BY <1>1, <1>2, <1>3, <1>4, <1>5 DEF Diagnosing
<1>11. Recovering'
  BY <1>1, <1>2, <1>3, <1>4, <1>5 DEF Recovering, IsCommitted
<1>12. Contained'
  BY <1>1, <1>2, <1>3, <1>4, <1>5, Blanks, Beginnings, Idling DEF Contained, Everyone
<1>13. Witness'
  BY <1>1, <1>2, <1>3, <1>4, <1>5, Blanks, Beginnings, Idling DEF Witness
<1>14. Once'
  <2>1. \A c \in late' : c \in late \/ (c.is = Kind(cmd.at) /\ c.op = cmd.op /\ cmd.at \in CallLabels)
    BY <1>2, <1>4
  <2>2. /\ cmd.at \in CallLabels /\ Kind(cmd.at) = "prepare" => cmd.at = "prepare"
        /\ cmd.at \in CallLabels /\ Kind(cmd.at) = "commit" => cmd.at = "commit"
    BY DEF Kind, CallLabels
  <2>3. cmd.at \in {"prepare", "commit"} => cmd.op # 0
    BY DEF Tied
  <2>4. \A c \in late' \cup {act'.call} : c.is \in {"prepare", "commit"} => c.op # 0
    BY <1>2, <2>1, <2>2, <2>3 DEF Once
  <2>5. ASSUME NEW c \in late', NEW e \in late' \cup {act'.call}, c.is = "prepare", e.is = "commit", c.op = e.op
        PROVE  FALSE
    <3>1. CASE c \in late /\ e \in late \cup {act.call}
      BY <2>5, <3>1 DEF Once
    <3>2. CASE c \in late /\ e.op = cmd.op /\ cmd.at = "commit"
      BY <2>5, <3>2 DEF Once, Settling
    <3>3. CASE e \in late \cup {act.call} /\ c.op = cmd.op /\ cmd.at = "prepare"
      BY <2>5, <3>3 DEF Once, Settling
    <3> QED
      BY <1>2, <2>1, <2>2, <2>5, <3>1, <3>2, <3>3
  <2> QED
    BY <1>1, <1>2, <2>4, <2>5, Beginnings DEF Once
<1>15. Reconciling'
  BY <1>1, <1>2, <1>3, <1>4, <1>5, Blanks, Beginnings, Idling DEF Tied, Once, Reconciling, Commits, Request, Kind,
     CallLabels, ReceiptFits, Got, Settling, Committing, Recovering
<1>16. Committing'
  BY <1>1, <1>2, <1>3, <1>4, <1>5, Blanks, Beginnings, Idling DEF Committing, Got, IsCommitted, Settling
<1> QED
  BY <1>6, <1>7, <1>8, <1>9, <1>10, <1>11, <1>12, <1>13, <1>14, <1>15, <1>16

(* A lost reply leaves its call behind. *)
LEMMA LoseReplyKeeps ==
  ASSUME IInv, LoseReply, UNCHANGED cloud
  PROVE  IInv'
<1> USE DEF IInv
<1>1. /\ cmd' \in Commands /\ cmd'.at = cmd.at /\ cmd'.op = cmd.op /\ cmd'.a = cmd.a /\ cmd'.arc = cmd.arc
      /\ cmd'.proof = cmd.proof /\ cmd'.got.is = "error" /\ cmd'.got.arc = NoArc /\ cmd.at \in CallLabels
  <2>1. Error \in Answers /\ Error.is = "error" /\ Error.arc = NoArc
    BY Blanks, Beginnings
  <2>2. cmd \in Commands /\ cmd' = [cmd EXCEPT !.got = Error]
    BY DEF LoseReply, Shapes
  <2>3. cmd.at \in CallLabels
    BY Blanks, Beginnings DEF LoseReply, Tied
  <2> HIDE DEF Error
  <2> QED
    BY <2>1, <2>2, <2>3 DEF Commands
<1>2. /\ act' \in Acts /\ act'.call = act.call /\ act'.at = act.at /\ act'.from # "pc"
      /\ act'.at = "free" => act' = NoAct
      /\ late' \subseteq Requests /\ late' \subseteq late \cup {Request}
      /\ late' # late => cmd.got.is = "out" /\ cmd.at \in CallLabels
      /\ Request.is = Kind(cmd.at) /\ Request.op = cmd.op /\ Request.arc = cmd.arc
      /\ Request.proof = cmd.proof
  BY Orphaning DEF LoseReply
<1>3. UNCHANGED <<host, journal, receipt, pend, proofs, doc, made>> /\ faults' \in 0 .. MaxFaults
  BY DEF LoseReply, Spend, disk, Shapes, TypeOK
<1>4. \A c \in late' : c \in late \/ (c = Request /\ cmd.got.is = "out" /\ cmd.at \in CallLabels)
  BY <1>2
<1>5. made \in Nat /\ cmd.op <= made
  BY Beginnings DEF Shapes, TypeOK, Tied, Known
<1>6. Advancing' /\ CommittedWasWitnessed' /\ CommitReconcilable'
  BY <1>1, <1>2, <1>3, <1>4, <1>5 DEF Advancing, CommittedWasWitnessed, CommitReconcilable, ReceiptFits
<1>7. Shapes'
  <2>1. act' \in Acts
    BY <1>1, <1>2, <1>3, <1>4, <1>5, Blanks, Beginnings DEF Shapes, TypeOK, Acts
  <2>2. cmd' \in Commands
    BY <1>1, <1>2, <1>3, <1>4, <1>5, Blanks, Beginnings DEF Shapes, TypeOK, Commands, Asking, Settling
  <2>3. late' \subseteq Requests
    BY <1>1, <1>2, <1>3, <1>4, <1>5, Blanks, Beginnings DEF Shapes, TypeOK
  <2>4. faults' \in 0 .. MaxFaults
    BY <1>1, <1>2, <1>3, <1>4, <1>5, Blanks, Beginnings DEF Shapes, TypeOK, Spend
  <2> QED
    BY <1>1, <1>2, <1>3, <1>4, <1>5, <2>1, <2>2, <2>3, <2>4 DEF Shapes, TypeOK
<1>8. Tied'
  BY <1>1, <1>2, <1>3, <1>4, <1>5 DEF Tied, Kind, CallLabels
<1>9. Known'
  BY <1>1, <1>2, <1>3, <1>4, <1>5 DEF Known
<1>10. Diagnosing'
  BY <1>1, <1>2, <1>3, <1>4, <1>5 DEF Diagnosing
<1>11. Recovering'
  BY <1>1, <1>2, <1>3, <1>4, <1>5 DEF Recovering, IsCommitted
<1>12. Contained'
  BY <1>1, <1>2, <1>3, <1>4, <1>5, Blanks, Beginnings DEF Contained, Everyone
<1>13. Witness'
  BY <1>1, <1>2, <1>3, <1>4, <1>5 DEF Witness
<1>14. Once'
  <2>1. \A c \in late' : c \in late \/ (c.is = Kind(cmd.at) /\ c.op = cmd.op /\ cmd.at \in CallLabels)
    BY <1>2, <1>4
  <2>2. /\ cmd.at \in CallLabels /\ Kind(cmd.at) = "prepare" => cmd.at = "prepare"
        /\ cmd.at \in CallLabels /\ Kind(cmd.at) = "commit" => cmd.at = "commit"
    BY DEF Kind, CallLabels
  <2>3. cmd.at \in {"prepare", "commit"} => cmd.op # 0
    BY DEF Tied
  <2>4. \A c \in late' \cup {act'.call} : c.is \in {"prepare", "commit"} => c.op # 0
    BY <1>2, <2>1, <2>2, <2>3 DEF Once
  <2>5. ASSUME NEW c \in late', NEW e \in late' \cup {act'.call}, c.is = "prepare", e.is = "commit", c.op = e.op
        PROVE  FALSE
    <3>1. CASE c \in late /\ e \in late \cup {act.call}
      BY <2>5, <3>1 DEF Once
    <3>2. CASE c \in late /\ e.op = cmd.op /\ cmd.at = "commit"
      BY <2>5, <3>2 DEF Once, Settling
    <3>3. CASE e \in late \cup {act.call} /\ c.op = cmd.op /\ cmd.at = "prepare"
      BY <2>5, <3>3 DEF Once, Settling
    <3> QED
      BY <1>2, <2>1, <2>2, <2>5, <3>1, <3>2, <3>3
  <2>6. ASSUME NEW c \in late', c.is = "prepare", c.op = cmd.op
        PROVE  cmd.at \in Settling \ {"commit"} \/ cmd.at = "prepare"
    BY <2>1, <2>2, <2>6 DEF Once
  <2>7. ASSUME NEW c \in late' \cup {act'.call}, c.is = "commit", c.op = cmd.op
        PROVE  cmd.at \in Settling
    BY <1>2, <2>1, <2>2, <2>7 DEF Once, Settling
  <2> QED
    BY <1>1, <1>2, <2>4, <2>5, <2>6, <2>7 DEF Once
<1>15. Reconciling'
  BY <1>1, <1>2, <1>3, <1>4, <1>5 DEF Tied, Once, Reconciling, Commits, Request, Kind, CallLabels, ReceiptFits,
     Got, Settling, Committing, Recovering
<1>16. Committing'
  BY <1>1, <1>2, <1>3, <1>4, <1>5 DEF Committing, Got, IsCommitted, Settling
<1> QED
  BY <1>6, <1>7, <1>8, <1>9, <1>10, <1>11, <1>12, <1>13, <1>14, <1>15, <1>16

(* In recover_local a termination is deferred. *)
LEMMA TerminateDeferredKeeps ==
  ASSUME IInv, Terminate, cmd.again, UNCHANGED cloud
  PROVE  IInv'
<1> USE DEF IInv
<1>1. UNCHANGED <<host, journal, receipt, act, pend, proofs, doc, late, made>> /\ faults' \in 0 .. MaxFaults
  BY DEF Terminate, Spend, disk, Shapes, TypeOK
<1>2. /\ cmd' \in Commands /\ cmd'.at = cmd.at /\ cmd'.op = cmd.op /\ cmd'.a = cmd.a /\ cmd'.arc = cmd.arc
      /\ cmd'.proof = cmd.proof /\ cmd'.got = cmd.got /\ cmd.at # "idle"
  <2>1. cmd \in Commands /\ cmd.at # "idle" /\ cmd' = [cmd EXCEPT !.term = TRUE]
    BY DEF Terminate, Shapes, Tied
  <2> QED
    BY <2>1 DEF Commands
<1>3. Known' /\ Diagnosing' /\ Recovering' /\ Advancing' /\ CommittedWasWitnessed' /\ CommitReconcilable'
  BY <1>1, <1>2 DEF Known, Diagnosing, Recovering, Advancing, CommittedWasWitnessed, CommitReconcilable,
     IsCommitted, ReceiptFits
<1>4. Shapes'
  <2>1. cmd' \in Commands
    BY <1>1, <1>2, Blanks, Beginnings DEF Shapes, TypeOK, Commands, Asking, Settling
  <2>2. faults' \in 0 .. MaxFaults
    BY <1>1, <1>2, Blanks, Beginnings DEF Shapes, TypeOK, Spend
  <2> QED
    BY <1>1, <1>2, <2>1, <2>2 DEF Shapes, TypeOK
<1>5. Tied'
  BY <1>1, <1>2 DEF Tied, Kind, CallLabels
<1>6. Contained'
  BY <1>1, <1>2 DEF Contained, Everyone
<1>7. Witness'
  BY <1>1, <1>2 DEF Witness
<1>8. Once'
  BY <1>1, <1>2 DEF Once, Tied, Settling
<1>9. Reconciling'
  BY <1>1, <1>2 DEF Reconciling, Commits, Request, ReceiptFits, Got
<1>10. Committing'
  BY <1>1, <1>2 DEF Committing, Got, IsCommitted, Settling
<1> QED
  BY <1>3, <1>4, <1>5, <1>6, <1>7, <1>8, <1>9, <1>10

(* Elsewhere it leads to recover_local, and leaves the call behind. *)
LEMMA TerminateUnwoundKeeps ==
  ASSUME IInv, Terminate, ~cmd.again, UNCHANGED cloud
  PROVE  IInv'
<1> USE DEF IInv
<1>1. Orphaned
  BY DEF Terminate
<1>2. /\ act' \in Acts /\ act'.call = act.call /\ act'.at = act.at /\ act'.from # "pc"
      /\ act'.at = "free" => act' = NoAct
      /\ late' \subseteq Requests /\ late' \subseteq late \cup {Request}
      /\ late' # late => cmd.got.is = "out" /\ cmd.at \in CallLabels
      /\ Request.is = Kind(cmd.at) /\ Request.op = cmd.op /\ Request.arc = cmd.arc
      /\ Request.proof = cmd.proof
  BY <1>1, Orphaning
<1>3. UNCHANGED <<host, journal, receipt, pend, proofs, doc, made>> /\ faults' \in 0 .. MaxFaults
  BY DEF Terminate, Spend, disk, Shapes, TypeOK
<1>4. \A c \in late' : c \in late \/ (c = Request /\ cmd.got.is = "out" /\ cmd.at \in CallLabels)
  BY <1>2
<1>5. \/ cmd' = Idle
      \/ /\ cmd' \in Commands /\ cmd'.at = "abort" /\ cmd'.op = cmd.op /\ cmd'.a = cmd.a /\ cmd'.arc = cmd.arc
         /\ cmd'.proof = cmd.proof /\ cmd'.got.is = "out" /\ cmd'.got.arc = NoArc
         /\ pend.op # 0 /\ cmd.at \notin {"idle", "before"}
  <2>1. Out \in Answers /\ Out.is = "out" /\ Out.arc = NoArc /\ cmd \in Commands
    BY Blanks, Beginnings DEF Shapes
  <2>2. pend.op # 0 => cmd.at \notin {"idle", "before"}
    BY Blanks, Beginnings DEF Terminate, Tied
  <2>3. cmd' = IF pend.op = 0 THEN Idle
              ELSE [cmd EXCEPT !.at = "abort", !.got = Out, !.again = TRUE, !.term = TRUE]
    BY DEF Terminate
  <2> HIDE DEF Out
  <2> QED
    BY <2>1, <2>2, <2>3 DEF Commands, Settling
<1>6. made \in Nat /\ cmd.op <= made
  BY Beginnings DEF Shapes, TypeOK, Tied, Known
<1>7. Advancing' /\ CommittedWasWitnessed' /\ CommitReconcilable'
  BY <1>1, <1>2, <1>3, <1>4, <1>5, <1>6 DEF Advancing, CommittedWasWitnessed, CommitReconcilable, ReceiptFits
<1>8. Shapes'
  <2>1. act' \in Acts
    BY <1>1, <1>2, <1>3, <1>4, <1>5, <1>6, Blanks, Beginnings DEF Shapes, TypeOK, Acts
  <2>2. cmd' \in Commands
    BY <1>1, <1>2, <1>3, <1>4, <1>5, <1>6, Blanks, Beginnings DEF Shapes, TypeOK, Commands, Asking, Settling
  <2>3. late' \subseteq Requests
    BY <1>1, <1>2, <1>3, <1>4, <1>5, <1>6, Blanks, Beginnings DEF Shapes, TypeOK
  <2>4. faults' \in 0 .. MaxFaults
    BY <1>1, <1>2, <1>3, <1>4, <1>5, <1>6, Blanks, Beginnings DEF Shapes, TypeOK, Spend
  <2> QED
    BY <1>1, <1>2, <1>3, <1>4, <1>5, <1>6, <2>1, <2>2, <2>3, <2>4 DEF Shapes, TypeOK
<1>9. Tied'
  BY <1>1, <1>2, <1>3, <1>4, <1>5, <1>6, Blanks, Beginnings, Idling DEF Tied, Kind, CallLabels
<1>10. Known'
  BY <1>1, <1>2, <1>3, <1>4, <1>5, <1>6 DEF Known
<1>11. Diagnosing'
  BY <1>1, <1>2, <1>3, <1>4, <1>5, <1>6 DEF Diagnosing
<1>12. Recovering'
  BY <1>1, <1>2, <1>3, <1>4, <1>5, <1>6 DEF Recovering, IsCommitted
<1>13. Contained'
  BY <1>1, <1>2, <1>3, <1>4, <1>5, <1>6, Blanks, Beginnings, Idling DEF Contained, Everyone
<1>14. Witness'
  BY <1>1, <1>2, <1>3, <1>4, <1>5, <1>6, Blanks, Beginnings, Idling DEF Witness
<1>15. Once'
  <2>1. \A c \in late' : c \in late \/ (c.is = Kind(cmd.at) /\ c.op = cmd.op /\ cmd.at \in CallLabels)
    BY <1>2, <1>4
  <2>2. /\ cmd.at \in CallLabels /\ Kind(cmd.at) = "prepare" => cmd.at = "prepare"
        /\ cmd.at \in CallLabels /\ Kind(cmd.at) = "commit" => cmd.at = "commit"
    BY DEF Kind, CallLabels
  <2>3. cmd.at \in {"prepare", "commit"} => cmd.op # 0
    BY DEF Tied
  <2>4. \A c \in late' \cup {act'.call} : c.is \in {"prepare", "commit"} => c.op # 0
    BY <1>2, <2>1, <2>2, <2>3 DEF Once
  <2>5. ASSUME NEW c \in late', NEW e \in late' \cup {act'.call}, c.is = "prepare", e.is = "commit", c.op = e.op
        PROVE  FALSE
    <3>1. CASE c \in late /\ e \in late \cup {act.call}
      BY <2>5, <3>1 DEF Once
    <3>2. CASE c \in late /\ e.op = cmd.op /\ cmd.at = "commit"
      BY <2>5, <3>2 DEF Once, Settling
    <3>3. CASE e \in late \cup {act.call} /\ c.op = cmd.op /\ cmd.at = "prepare"
      BY <2>5, <3>3 DEF Once, Settling
    <3> QED
      BY <1>2, <2>1, <2>2, <2>5, <3>1, <3>2, <3>3
  <2> QED
    BY <1>5, <2>4, <2>5, Beginnings DEF Once, Settling
<1>16. Reconciling'
  BY <1>1, <1>2, <1>3, <1>4, <1>5, <1>6, Blanks, Beginnings, Idling DEF Tied, Once, Reconciling, Commits, Request,
     Kind, CallLabels, ReceiptFits, Got, Settling, Committing, Recovering
<1>17. Committing'
  BY <1>1, <1>2, <1>3, <1>4, <1>5, <1>6, Blanks, Beginnings, Idling DEF Committing, Got, IsCommitted, Settling
<1> QED
  BY <1>7, <1>8, <1>9, <1>10, <1>11, <1>12, <1>13, <1>14, <1>15, <1>16, <1>17

(* A host process that dies answers nothing. *)
LEMMA HostDiesKeeps ==
  ASSUME IInv, HostDies, UNCHANGED cloud
  PROVE  IInv'
<1> USE DEF IInv
<1>1. UNCHANGED <<host, journal, receipt, pend, proofs, doc, late, made>> /\ faults' \in 0 .. MaxFaults
  BY DEF HostDies, Spend, disk, Shapes, TypeOK
<1>2. act' = NoAct /\ act'.call = NoCall /\ act'.from = "none" /\ act'.at = "free"
  BY Beginnings DEF HostDies
<1>3. \/ cmd' = cmd /\ act.from # "pc"
      \/ /\ cmd' \in Commands /\ cmd'.at = cmd.at /\ cmd'.op = cmd.op /\ cmd'.a = cmd.a /\ cmd'.arc = cmd.arc
         /\ cmd'.proof = cmd.proof /\ cmd'.got.is = "error" /\ cmd'.got.arc = NoArc /\ cmd.at \in CallLabels
         /\ cmd.got.is = "in"
  <2>1. Error \in Answers /\ Error.is = "error" /\ Error.arc = NoArc /\ Inside.is = "in"
    BY Blanks, Beginnings
  <2>2. cmd \in Commands
    BY DEF Shapes
  <2>3. act.from = "pc" => cmd.at \in CallLabels /\ cmd.got = Inside
    BY Blanks, Beginnings DEF Tied
  <2>4. cmd' = IF act.from = "pc" THEN [cmd EXCEPT !.got = Error] ELSE cmd
    BY DEF HostDies
  <2> HIDE DEF Error, Inside
  <2> QED
    BY <2>1, <2>2, <2>3, <2>4 DEF Commands
<1>4. made \in Nat /\ cmd.op <= made
  BY Beginnings DEF Shapes, TypeOK, Tied, Known
<1>5. Advancing' /\ CommittedWasWitnessed' /\ CommitReconcilable'
  BY <1>1, <1>2, <1>3, <1>4 DEF Advancing, CommittedWasWitnessed, CommitReconcilable, ReceiptFits
<1>6. Shapes'
  <2>1. act' \in Acts
    BY <1>1, <1>2, <1>3, <1>4, Blanks, Beginnings DEF Shapes, TypeOK, Acts
  <2>2. cmd' \in Commands
    BY <1>1, <1>2, <1>3, <1>4, Blanks, Beginnings DEF Shapes, TypeOK, Commands, Asking, Settling
  <2>3. faults' \in 0 .. MaxFaults
    BY <1>1, <1>2, <1>3, <1>4, Blanks, Beginnings DEF Shapes, TypeOK, Spend
  <2> QED
    BY <1>1, <1>2, <1>3, <1>4, <2>1, <2>2, <2>3 DEF Shapes, TypeOK
<1>7. Tied'
  BY <1>1, <1>2, <1>3, <1>4 DEF Tied, Kind, CallLabels
<1>8. Known'
  BY <1>1, <1>2, <1>3, <1>4, Blanks, Beginnings, Idling DEF Known
<1>9. Diagnosing'
  BY <1>1, <1>2, <1>3, <1>4 DEF Diagnosing
<1>10. Recovering'
  BY <1>1, <1>2, <1>3, <1>4 DEF Recovering, IsCommitted
<1>11. Contained'
  BY <1>1, <1>2, <1>3, <1>4, Blanks, Beginnings, Idling DEF Contained, Everyone
<1>12. Witness'
  BY <1>1, <1>2, <1>3, <1>4 DEF Witness
<1>13. Once'
  BY <1>1, <1>2, <1>3, <1>4, Blanks, Beginnings, Idling DEF Once, Tied, Settling
<1>14. Reconciling'
  BY <1>1, <1>2, <1>3, <1>4, Blanks, Beginnings, Idling DEF Reconciling, Commits, Request, ReceiptFits, Got
<1>15. Committing'
  BY <1>1, <1>2, <1>3, <1>4, Blanks, Beginnings, Idling DEF Committing, Got, IsCommitted, Settling
<1> QED
  BY <1>5, <1>6, <1>7, <1>8, <1>9, <1>10, <1>11, <1>12, <1>13, <1>14, <1>15

(* A core that restarts only spoils the witness. *)
LEMMA CoreRestartsKeeps ==
  ASSUME IInv, CoreRestarts, UNCHANGED cloud
  PROVE  IInv'
<1> USE DEF IInv
<1>1. /\ UNCHANGED <<host, receipt, act, cmd, pend, proofs, doc, late, made>> /\ faults' \in 0 .. MaxFaults
      /\ journal' = [journal EXCEPT !.same = FALSE] /\ journal.auth = "active"
  BY DEF CoreRestarts, Spend, disk, Shapes, TypeOK
<1>2. /\ journal' \in Journals /\ journal'.op = journal.op /\ journal'.phase = journal.phase
      /\ journal'.auth = journal.auth /\ journal'.seen = journal.seen /\ journal'.verdict = journal.verdict
  BY <1>1 DEF Shapes, TypeOK, Journals
<1>3. journal' # NoJournal /\ journal # NoJournal
  BY <1>1, <1>2, Blanks
<1>4. Tied' /\ Once' /\ CommittedWasWitnessed' /\ CommitReconcilable'
  BY <1>1, <1>2, <1>3 DEF Tied, Once, CommittedWasWitnessed, CommitReconcilable, ReceiptFits
<1>5. Shapes'
  <2>1. journal' \in Journals
    BY <1>1, <1>2, <1>3, Blanks, Beginnings DEF Shapes, TypeOK, Journals, Hosts, Requests, Idents
  <2>2. faults' \in 0 .. MaxFaults
    BY <1>1, <1>2, <1>3, Blanks, Beginnings DEF Shapes, TypeOK, Spend
  <2> QED
    BY <1>1, <1>2, <1>3, <2>1, <2>2 DEF Shapes, TypeOK
<1>6. Known'
  BY <1>1, <1>2, <1>3 DEF Known
<1>7. Diagnosing'
  BY <1>1, <1>2, <1>3 DEF Diagnosing
<1>8. Recovering'
  BY <1>1, <1>2, <1>3 DEF Recovering, IsCommitted
<1>9. Contained'
  BY <1>1, <1>2, <1>3 DEF Contained, Everyone
<1>10. Witness'
  BY <1>1, <1>2, <1>3 DEF Witness
<1>11. Advancing'
  BY <1>1, <1>2, <1>3 DEF Advancing
<1>12. Reconciling'
  BY <1>1, <1>2, <1>3 DEF Reconciling, Commits, Request, ReceiptFits, Got
<1>13. Committing'
  BY <1>1, <1>2, <1>3 DEF Committing, Got, IsCommitted, Settling
<1> QED
  BY <1>4, <1>5, <1>6, <1>7, <1>8, <1>9, <1>10, <1>11, <1>12, <1>13

(* A lease that lapses permits nothing. *)
LEMMA LapseKeeps ==
  ASSUME IInv, Lapse, UNCHANGED cloud
  PROVE  IInv'
<1> USE DEF IInv
<1>1. /\ UNCHANGED <<host, receipt, act, cmd, pend, proofs, doc, late, made, faults>>
      /\ journal' = [journal EXCEPT !.lease = FALSE] /\ journal.lease
  BY DEF Lapse, disk
<1>2. /\ journal' \in Journals /\ journal'.op = journal.op /\ journal'.phase = journal.phase
      /\ journal'.auth = journal.auth /\ journal'.seen = journal.seen /\ journal'.verdict = journal.verdict
  BY <1>1 DEF Shapes, TypeOK, Journals
<1>3. journal' # NoJournal /\ journal # NoJournal
  BY <1>1, <1>2, Blanks DEF Recovering
<1>4. Tied' /\ Once' /\ CommittedWasWitnessed' /\ CommitReconcilable'
  BY <1>1, <1>2, <1>3 DEF Tied, Once, CommittedWasWitnessed, CommitReconcilable, ReceiptFits
<1>5. Shapes'
  <2>1. journal' \in Journals
    BY <1>1, <1>2, <1>3, Blanks, Beginnings DEF Shapes, TypeOK, Journals, Hosts, Requests, Idents
  <2> QED
    BY <1>1, <1>2, <1>3, <2>1 DEF Shapes, TypeOK
<1>6. Known'
  BY <1>1, <1>2, <1>3 DEF Known
<1>7. Diagnosing'
  BY <1>1, <1>2, <1>3 DEF Diagnosing
<1>8. Recovering'
  BY <1>1, <1>2, <1>3 DEF Recovering, IsCommitted
<1>9. Contained'
  BY <1>1, <1>2, <1>3 DEF Contained, Everyone
<1>10. Witness'
  BY <1>1, <1>2, <1>3 DEF Witness
<1>11. Advancing'
  BY <1>1, <1>2, <1>3 DEF Advancing
<1>12. Reconciling'
  BY <1>1, <1>2, <1>3 DEF Reconciling, Commits, Request, ReceiptFits, Got
<1>13. Committing'
  BY <1>1, <1>2, <1>3 DEF Committing, Got, IsCommitted, Settling
<1> QED
  BY <1>4, <1>5, <1>6, <1>7, <1>8, <1>9, <1>10, <1>11, <1>12, <1>13

(* Native identities advance. *)
LEMMA PanelEditKeeps ==
  ASSUME IInv, PanelEdit, UNCHANGED cloud
  PROVE  IInv'
<1> USE DEF IInv
<1>1. /\ UNCHANGED <<journal, receipt, act, cmd, pend, proofs, doc, late, made, faults>>
      /\ host' = [host EXCEPT !.ident = @ + 1] /\ host.ident < MaxEdits
  BY DEF PanelEdit, disk
<1>2. /\ host' \in Hosts /\ host'.ident = host.ident + 1 /\ host'.template = host.template
      /\ host'.dir = host.dir /\ host'.file = host.file /\ host'.line = host.line /\ host'.sound = host.sound
      /\ host'.export = host.export
  BY <1>1 DEF Shapes, TypeOK, Hosts, Idents
<1>3. host.ident \in Nat /\ journal.seen \in Nat /\ host.export.ident \in Nat
  BY DEF Shapes, TypeOK, Hosts, Journals, Archives, Idents
<1>4. Tied' /\ Known' /\ Once' /\ Reconciling' /\ Committing' /\ CommittedWasWitnessed' /\ CommitReconcilable'
  BY <1>1, <1>2, <1>3 DEF Tied, Known, Once, Reconciling, Committing, CommittedWasWitnessed, CommitReconcilable,
     Got, IsCommitted, ReceiptFits, Commits, Request
<1>5. Shapes'
  <2>1. host' \in Hosts
    BY <1>1, <1>2, <1>3, Blanks, Beginnings DEF Shapes, TypeOK, Hosts, Journals, Idents
  <2> QED
    BY <1>1, <1>2, <1>3, <2>1 DEF Shapes, TypeOK
<1>6. Diagnosing'
  BY <1>1, <1>2, <1>3 DEF Diagnosing
<1>7. Recovering'
  BY <1>1, <1>2, <1>3 DEF Recovering, IsCommitted
<1>8. Contained'
  BY <1>1, <1>2, <1>3 DEF Contained, Everyone
<1>9. Witness'
  BY <1>1, <1>2, <1>3 DEF Witness
<1>10. Advancing'
  BY <1>1, <1>2, <1>3 DEF Advancing
<1> QED
  BY <1>4, <1>5, <1>6, <1>7, <1>8, <1>9, <1>10

(* A proxied hostname stays proxied. *)
LEMMA ClickKeeps ==
  ASSUME IInv, Click
  PROVE  IInv'
<1> USE DEF IInv
<1>1. cloud' = "orange" /\ UNCHANGED <<host, journal, receipt, act, cmd, pend, proofs, doc, late, made, faults>>
  BY DEF Click, disk, remoteSide
<1>2. /\ Tied' /\ Known' /\ Diagnosing' /\ Recovering' /\ Contained' /\ Advancing' /\ Once'
      /\ Reconciling' /\ Committing' /\ CommitReconcilable'
  BY <1>1 DEF Tied, Known, Diagnosing, Recovering, Contained, Advancing, Once, Reconciling, Committing,
     CommitReconcilable, Got, IsCommitted, Everyone, ReceiptFits, Commits, Request
<1>3. Shapes'
  <2>1. cloud' \in {"gray", "orange"}
    BY <1>1, Blanks, Beginnings DEF Shapes, TypeOK
  <2> QED
    BY <1>1, <2>1 DEF Shapes, TypeOK
<1>4. Witness'
  BY <1>1 DEF Witness
<1>5. CommittedWasWitnessed'
  BY <1>1 DEF CommittedWasWitnessed
<1> QED
  BY <1>2, <1>3, <1>4, <1>5


(* It holds at the start. *)
LEMMA InitHolds == Init => IInv
<1> SUFFICES ASSUME Init PROVE IInv
  OBVIOUS
<1>1. /\ host \in Hosts /\ host.template = "original" /\ ~host.dir /\ ~host.file /\ ~host.line
      /\ host.export = NoArc
  BY Blanks DEF Init, Hosts, Idents
<1>2. /\ journal = NoJournal /\ act = NoAct /\ cmd = Idle /\ pend = NoPend /\ doc = 0 /\ late = {}
      /\ cloud \in {"gray", "orange"} /\ made = 0 /\ faults = 0
      /\ \A o \in Ops : receipt[o] = NoReceipt
      /\ receipt \in [Ops -> Receipts] /\ proofs \in [Ops -> Archives]
  BY Blanks DEF Init
<1>3. Shapes
  BY <1>1, <1>2, Blanks, Beginnings DEF Shapes, TypeOK
<1>4. Tied /\ Known /\ Diagnosing /\ Once
  BY <1>2, Blanks, Beginnings, Idling DEF Tied, Known, Diagnosing, Once
<1>5. Recovering /\ Witness /\ Advancing
  BY <1>1, <1>2, Blanks, Beginnings DEF Recovering, Witness, Advancing, IsCommitted
<1>6. Contained
  BY <1>1, <1>2, Blanks, Beginnings, Idling DEF Contained, Everyone
<1>7. Reconciling /\ Committing
  BY <1>2, Blanks, Beginnings, Idling DEF Reconciling, Committing, Commits, Got, IsCommitted
<1>8. CommittedWasWitnessed /\ CommitReconcilable
  BY <1>2 DEF CommittedWasWitnessed, CommitReconcilable
<1> QED
  BY <1>3, <1>4, <1>5, <1>6, <1>7, <1>8 DEF IInv

(* A step that changes nothing. *)
LEMMA StutterKeeps ==
  ASSUME IInv, UNCHANGED vars
  PROVE  IInv'
<1> USE DEF vars, remoteSide, disk
<1>1. Shapes' /\ Tied' /\ Known' /\ Diagnosing' /\ Recovering'
  BY DEF IInv, Shapes, TypeOK, Tied, Known, Diagnosing, Recovering, IsCommitted
<1>2. Contained' /\ Witness' /\ Advancing' /\ Once'
  BY DEF IInv, Contained, Everyone, Witness, Advancing, Once
<1>3. Reconciling' /\ Committing'
  BY DEF IInv, Reconciling, Commits, Request, ReceiptFits, Got, Committing, IsCommitted
<1>4. CommittedWasWitnessed' /\ CommitReconcilable'
  BY DEF IInv, CommittedWasWitnessed, CommitReconcilable, ReceiptFits
<1> QED
  BY <1>1, <1>2, <1>3, <1>4 DEF IInv

(* Every step keeps the invariant. *)
LEMMA StepKeeps == IInv /\ [Next]_vars => IInv'
<1> SUFFICES ASSUME IInv, [Next]_vars PROVE IInv'
  OBVIOUS
<1>1. ASSUME Calls, UNCHANGED cloud PROVE IInv'
  <2>1. PICK c \in late \cup {Request}, from \in {"pc", "late"} :
          \/ Prepare(c, from) \/ Backup(c, from) \/ Begin(c, from)
          \/ Finish(c, from) \/ Commit(c, from) \/ Abort(c, from)
    BY <1>1 DEF Calls
  <2> QED
    BY <1>1, <2>1, PrepareKeeps, BackupKeeps, BeginKeeps, FinishKeeps, CommitKeeps, AbortKeeps
<1>2. ASSUME BeginSteps, UNCHANGED cloud PROVE IInv'
  BY <1>2, BeginFileKeeps, BeginStopKeeps, BeginTemplateKeeps, BeginStartKeeps, BeginActiveKeeps,
     BeginRaiseKeeps DEF BeginSteps
<1>3. ASSUME FinishSteps, UNCHANGED cloud PROVE IInv'
  BY <1>3, FinishReadKeeps, FinishRestoreKeeps, FinishRestartKeeps, FinishCleanKeeps, FinishForgetKeeps,
     FinishRestoredKeeps, FinishKeepKeeps, FinishRaiseKeeps DEF FinishSteps
<1>4. ASSUME CommitSteps, UNCHANGED cloud PROVE IInv'
  BY <1>4, CommitPublishKeeps, CommitReceiptKeeps, CommitCloseKeeps, CommitRaiseKeeps DEF CommitSteps
<1>5. ASSUME Timer \/ RecoverSteps, UNCHANGED cloud PROVE IInv'
  BY <1>5, TimerKeeps, RecoverEndKeeps, RecoverWaitKeeps, RecoverMarkKeeps, RecoverDatabaseKeeps,
     RecoverCleanupKeeps, RecoverQueueKeeps DEF RecoverSteps
<1>6. ASSUME CommandSteps, UNCHANGED cloud PROVE IInv'
  BY <1>6, StartKeeps, StartRecoverKeeps, GotBeforeKeeps, GotPreparedKeeps, GotFirstKeeps, GotNonceKeeps,
     AcknowledgeKeeps, SelectEdgeKeeps, PositiveKeeps, NegativeKeeps, GotVerdictKeeps, ReconnectKeeps,
     GotFinalKeeps, SaveProofKeeps, MarkKeeps, GotCommittedKeeps, GotAfterKeeps, ClearKeeps, GotQueuedKeeps,
     GivesUpKeeps DEF CommandSteps
<1>7. ASSUME FaultSteps, UNCHANGED cloud PROVE IInv'
  BY <1>7, KillCommandKeeps, LoseReplyKeeps, TerminateDeferredKeeps, TerminateUnwoundKeeps, HostDiesKeeps,
     CoreRestartsKeeps, LapseKeeps, PanelEditKeeps DEF FaultSteps
<1>8. CASE Click
  BY <1>8, ClickKeeps
<1>9. CASE UNCHANGED vars
  BY <1>9, StutterKeeps
<1> QED
  BY <1>1, <1>2, <1>3, <1>4, <1>5, <1>6, <1>7, <1>8, <1>9 DEF Next, Steps

-----------------------------------------------------------------------------
(* The theorems *)

(* The invariant holds in every state of every behaviour. *)
THEOREM Invariance == Spec => []IInv
BY InitHolds, StepKeeps, PTL DEF Spec

(* The state keeps its shape. *)
THEOREM TypeCorrect == Spec => []TypeOK
<1>1. IInv => TypeOK
  BY DEF IInv, Shapes
<1> QED
  BY <1>1, Invariance, PTL

(* What is committed was witnessed (auth_read_verdict, auth_commit_verdict). *)
THEOREM AlwaysWitnessed == Spec => []CommittedWasWitnessed
<1>1. IInv => CommittedWasWitnessed
  BY DEF IInv
<1> QED
  BY <1>1, Invariance, PTL

(* Nothing of a diagnostic outlives it, and no archive ever holds it. *)
THEOREM AlwaysContained == Spec => []DiagnosticContained
<1>1. IInv => DiagnosticContained
  BY DEF IInv, Contained, Everyone, DiagnosticContained
<1> QED
  BY <1>1, Invariance, PTL

(* A durable commit can be reconciled wherever the command was killed. *)
THEOREM AlwaysReconcilable == Spec => []CommitReconcilable
<1>1. IInv => CommitReconcilable
  BY DEF IInv
<1> QED
  BY <1>1, Invariance, PTL
=============================================================================
