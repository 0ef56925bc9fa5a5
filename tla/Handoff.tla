------------------------------- MODULE Handoff -------------------------------
(***************************************************************************)
(* codoxear/session-handoff: the web host asks a native session to write   *)
(* a handover file, starts one successor session and names it.             *)
(*                                                                         *)
(* The engine runs on one event loop, so a step here is what happens       *)
(* between two awaits.  The native server carries out a POST when it likes *)
(* and perhaps after the engine has given up on it; a state file may be    *)
(* written or not, and may be in place although writing it raised; the     *)
(* host is killed, or stops in order, and is started again.  When a source *)
(* is idle and when its handover file appears is up to its environment.    *)
(***************************************************************************)
EXTENDS Naturals, FiniteSets

CONSTANTS Sources,      \* native sessions
          Requests,     \* request UUIDs drawn by browsers
          Targets,      \* inherit, or an explicit choice of a model
          Ops,          \* operation UUIDs
          MaxRequests,  \* requests one operation takes (256)
          MaxChanges,   \* how often a source changes its launch identity
          MaxFaults     \* how many kills and failed writes

ASSUME HandoffAssumption ==
  /\ MaxRequests \in Nat /\ MaxChanges \in Nat /\ MaxFaults \in Nat
  /\ "none" \notin Ops

VARIABLES
  host,      \* "up", "stopping" (the native server is gone), "closing", "down"
  mem,       \* mem[o]: the operation in memory
  disk,      \* disk[o]: <root>/o.json
  requests,  \* requests[r]: the operation a request UUID stands for
  about,     \* about[o]: what was frozen when o was accepted
  task,      \* task[o]: where the coroutine of o is
  launch,    \* launch[s]: the launch identity of a source
  calls,     \* native POSTs under way
  sessions,  \* sessions[o]: how many native sessions were created for o
  ran,       \* operations that ever had a task
  faults

loop   == <<host, mem, disk, requests, about, task>>
native == <<launch, calls, sessions>>
vars   == <<loop, native, ran, faults>>

NoOp     == "none"
Absent   == [status |-> "absent", reqs |-> {}]
Finished == {"completed", "failed"}
Nothing  == [used |-> FALSE]

Init ==
  /\ host = "up"
  /\ mem = [o \in Ops |-> Absent] /\ disk = [o \in Ops |-> Absent]
  /\ requests = [r \in Requests |-> NoOp]
  /\ about = [o \in Ops |-> Nothing]
  /\ task = [o \in Ops |-> "none"]
  /\ launch = [s \in Sources |-> 0]
  /\ calls = {}
  /\ sessions = [o \in Ops |-> 0]
  /\ ran = {} /\ faults = 0

Known      == {o \in Ops : mem[o].status # "absent"}
Unfinished == {o \in Known : mem[o].status \notin Finished}
Running    == {o \in Ops : task[o] # "none"}
Serving    == host \in {"up", "stopping"}

-----------------------------------------------------------------------------
(* State files *)

\* atomic_state: the file is replaced; or it raises before that, or after it.
Outcomes == {"written", "lost", "raised"}
Raises(out) == IF out = "written" THEN 0 ELSE 1
\* (bug) the file is truncated and written in place.
PutInPlace(file, o, value, out) == [file EXCEPT ![o] = IF out = "lost" THEN Nothing ELSE value]
Put(file, o, value, out) == IF out = "lost" THEN file ELSE [file EXCEPT ![o] = value]
Spend(n) == faults + n <= MaxFaults /\ faults' = faults + n

\* _set of a new status on the way: when it raises, _run's handler records
\* the failure, which may raise as well and then ends the task all the same.
Advance(o, status, out, handler) ==
  LET next == [mem[o] EXCEPT !.status = status]
      fail == [mem[o] EXCEPT !.status = "failed"]
  IN IF out = "written"
     THEN /\ handler = "written"
          /\ mem' = [mem EXCEPT ![o] = next]
          /\ disk' = [disk EXCEPT ![o] = next]
          /\ UNCHANGED faults
     ELSE /\ mem' = [mem EXCEPT ![o] = fail]
          /\ disk' = Put(Put(disk, o, next, out), o, fail, handler)
          /\ Spend(1 + Raises(handler))

-----------------------------------------------------------------------------
(* Acceptance: feature.py's handler and engine.start *)

SameRequest(o, s, t) == about[o].src = s /\ about[o].tgt = t
Busy(s) == {o \in Unfinished : about[o].src = s}

\* A request that stands for an operation is answered with it (or refused when
\* it asks for something else), and changes nothing.  A new one for a source
\* with an unfinished operation joins that; when the write raises, memory
\* keeps the request and the request map does not.
Join(r, s, t, o, out) ==
  /\ Serving
  /\ requests[r] = NoOp
  /\ o \in Busy(s) /\ SameRequest(o, s, t)
  /\ Cardinality(mem[o].reqs) < MaxRequests
  /\ mem' = [mem EXCEPT ![o].reqs = @ \cup {r}]
  /\ disk' = Put(disk, o, mem'[o], out)
  /\ requests' = IF out = "written" THEN [requests EXCEPT ![r] = o] ELSE requests
  /\ Spend(Raises(out))
  /\ UNCHANGED <<host, about, task, native, ran>>

\* (bug) only unfinished operations are looked through for the request.
NewAmongUnfinished(r) == \A o \in Unfinished : r \notin mem[o].reqs

\* A request is new when it stands for no operation.
NewRequest(r) == requests[r] = NoOp

\* Everything from the lookup to create_task is one turn of the loop.  The row
\* is from the listing that authenticated the request, before its body was
\* read, so the identity frozen here may be an old one.  When the write raises
\* there is no operation in memory, but perhaps a file.
Accept(r, s, t, seen, o, out) ==
  /\ Serving
  /\ NewRequest(r) /\ Busy(s) = {}
  /\ about[o] = Nothing
  /\ about' = [about EXCEPT ![o] = [used |-> TRUE, src |-> s, tgt |-> t,
                                    launch |-> seen, first |-> r]]
  /\ LET op == [status |-> "waiting_source", reqs |-> {r}] IN
     /\ disk' = Put(disk, o, op, out)
     /\ IF out = "written"
        THEN /\ mem' = [mem EXCEPT ![o] = op]
             /\ requests' = [requests EXCEPT ![r] = o]
             /\ task' = [task EXCEPT ![o] = "begin"]
             /\ ran' = ran \cup {o}
        ELSE UNCHANGED <<mem, requests, task, ran>>
  /\ Spend(Raises(out))
  /\ UNCHANGED <<host, native>>

-----------------------------------------------------------------------------
(* The task of an operation: engine._run *)

Goto(o, place) == task' = [task EXCEPT ![o] = place]
\* A task goes on until close cancels it, and gets lists from a live server.
At(o, place) == task[o] = place /\ host = "up"
Verified(o) == launch[about[o].src] = about[o].launch

\* The source is verified in a fresh list and found idle; the one prompt goes.
Begin(o) ==
  /\ At(o, "begin") /\ Verified(o)
  /\ Goto(o, "sending")
  /\ calls' = calls \cup {<<o, "send">>}
  /\ UNCHANGED <<host, mem, disk, requests, about, launch, sessions, ran, faults>>

\* written_and_idle; the state "creating" is on disk before the POST leaves.
Ready(o, out, handler) ==
  /\ At(o, "sent") /\ Verified(o)
  /\ Advance(o, "creating", out, handler)
  /\ IF out = "written"
     THEN Goto(o, "creating") /\ calls' = calls \cup {<<o, "create">>}
     ELSE Goto(o, "none") /\ UNCHANGED calls
  /\ UNCHANGED <<host, requests, about, launch, sessions, ran>>

\* _bind_target: the launch identity appears in the list; then the rename.
Bind(o, out, handler) ==
  /\ At(o, "created")
  /\ Advance(o, "creating", out, handler)
  /\ IF out = "written"
     THEN Goto(o, "renaming") /\ calls' = calls \cup {<<o, "rename">>}
     ELSE Goto(o, "none") /\ UNCHANGED calls
  /\ UNCHANGED <<host, requests, about, launch, sessions, ran>>

\* The new name is read back.
Complete(o, out, handler) ==
  /\ At(o, "renamed")
  /\ Advance(o, "completed", out, handler)
  /\ Goto(o, "none")
  /\ UNCHANGED <<host, requests, about, native, ran>>

\* (bug) a creation whose answer did not come is asked for once more.
FailOrRepeat(o, out) ==
  /\ Serving /\ task[o] = "created" /\ out = "written"
  /\ Goto(o, "creating") /\ calls' = calls \cup {<<o, "create">>}
  /\ UNCHANGED <<host, mem, disk, requests, about, launch, sessions, ran, faults>>

\* (bug) nothing bounds the wait for the new session to appear.
FailUnlessLaunching(o, out) ==
  /\ Serving /\ task[o] \notin {"none", "created"}
  /\ mem' = [mem EXCEPT ![o].status = "failed"]
  /\ disk' = Put(disk, o, mem'[o], out)
  /\ Goto(o, "none")
  /\ Spend(Raises(out))
  /\ UNCHANGED <<host, requests, about, native, ran>>

\* An error of any kind, a refusal, a changed identity, an answer that did not
\* come or a deadline (every await has one): recorded once, nothing repeated.
\* What was asked of the native server stays asked.
Fail(o, out) ==
  /\ Serving /\ task[o] # "none"
  /\ mem' = [mem EXCEPT ![o].status = "failed"]
  /\ disk' = Put(disk, o, mem'[o], out)
  /\ Goto(o, "none")
  /\ Spend(Raises(out))
  /\ UNCHANGED <<host, requests, about, native, ran>>

-----------------------------------------------------------------------------
(* Start and stop: lifecycle, managed_app, open, close *)

\* The private native server goes first, by the stop or on its own (watch).
StopBackend ==
  /\ host = "up" /\ host' = "stopping"
  /\ calls' = {}
  /\ UNCHANGED <<mem, disk, requests, about, task, launch, sessions, ran, faults>>

\* close: no more requests, and every task is cancelled.
Close ==
  /\ host = "stopping" /\ host' = "closing"
  /\ UNCHANGED <<mem, disk, requests, about, task, native, ran, faults>>

\* A cancelled task records it, unless it was cancelled before it began.
Cancelled(o, out) ==
  /\ host = "closing" /\ task[o] # "none"
  /\ Goto(o, "none")
  /\ \/ task[o] = "begin" /\ out = "written" /\ UNCHANGED <<mem, disk, faults>>
     \/ /\ mem' = [mem EXCEPT ![o].status = "failed"]
        /\ disk' = Put(disk, o, mem'[o], out)
        /\ Spend(Raises(out))
  /\ UNCHANGED <<host, requests, about, native, ran>>

Forget ==
  /\ host' = "down"
  /\ mem' = [o \in Ops |-> Absent]
  /\ requests' = [r \in Requests |-> NoOp]
  /\ task' = [o \in Ops |-> "none"]
  /\ UNCHANGED <<about, native, ran>>

\* All tasks are over; what is unfinished has lost its task before it began.
\* One step: a write that fails part of the way is a Kill for what it leaves
\* unfinished, and the next start settles that.
Closed ==
  /\ host = "closing" /\ Running = {}
  /\ disk' = [o \in Ops |-> IF o \in Unfinished
                            THEN [mem[o] EXCEPT !.status = "failed"] ELSE disk[o]]
  /\ Forget
  /\ UNCHANGED faults

Kill ==
  /\ host # "down" /\ Spend(1)
  /\ Forget
  /\ UNCHANGED disk

\* (bug) what a restart finds in a file is not trusted to be an end.
RestartedAll(op) == IF op.status = "absent" THEN op ELSE [op EXCEPT !.status = "failed"]

\* open: an unfinished operation failed with the restart, is never replayed.
Restarted(op) == IF op.status \in Finished \cup {"absent"} THEN op
                 ELSE [op EXCEPT !.status = "failed"]

\* The request map is rebuilt from the files in any order.
Open ==
  /\ host = "down" /\ host' = "up"
  /\ disk' = [o \in Ops |-> Restarted(disk[o])]
  /\ mem' = disk'
  /\ requests' \in [Requests -> Ops \cup {NoOp}]
  /\ \A r \in Requests :
       LET files == {o \in Ops : r \in disk[o].reqs}
       IN IF files = {} THEN requests'[r] = NoOp ELSE requests'[r] \in files
  /\ UNCHANGED <<about, task, native, ran, faults>>

\* Writing one of the failures raises and the host does not start.
OpenFails(o) ==
  /\ host = "down" /\ Spend(1)
  /\ disk' = [disk EXCEPT ![o] = Restarted(disk[o])]
  /\ UNCHANGED <<host, mem, requests, about, task, native, ran>>

-----------------------------------------------------------------------------
(* The native server *)

Waits   == [send |-> "sending", create |-> "creating", rename |-> "renaming"]
Answers == [send |-> "sent", create |-> "created", rename |-> "renamed"]

\* A POST is carried out, perhaps late; whoever still waits gets the answer.
\* One that is refused or lost is never carried out.
Carry(o, kind) ==
  /\ <<o, kind>> \in calls /\ host \in {"up", "down"}
  /\ calls' = calls \ {<<o, kind>>}
  /\ task' = IF task[o] = Waits[kind] THEN [task EXCEPT ![o] = Answers[kind]] ELSE task
  /\ sessions' = IF kind = "create" THEN [sessions EXCEPT ![o] = @ + 1] ELSE sessions
  /\ UNCHANGED <<host, mem, disk, requests, about, launch, ran, faults>>

\* A session is started again under the same route.
Relaunch(s) ==
  /\ launch[s] < MaxChanges
  /\ launch' = [launch EXCEPT ![s] = @ + 1]
  /\ UNCHANGED <<loop, calls, sessions, ran, faults>>

-----------------------------------------------------------------------------
Progress(o) ==
  \/ Begin(o)
  \/ \E out, handler \in Outcomes :
       Ready(o, out, handler) \/ Bind(o, out, handler) \/ Complete(o, out, handler)

Ending(o) == \E out \in Outcomes : Fail(o, out) \/ Cancelled(o, out)

Browser(r, s, t, o) ==
  \E out \in Outcomes : \/ Join(r, s, t, o, out)
                        \/ \E seen \in 0..launch[s] : Accept(r, s, t, seen, o, out)

Lifecycle == StopBackend \/ Close \/ Closed \/ Kill \/ Open \/ \E o \in Ops : OpenFails(o)

Native == \/ \E o \in Ops, kind \in DOMAIN Waits : Carry(o, kind)
          \/ \E s \in Sources : Relaunch(s)

Next == \/ \E r \in Requests, s \in Sources, t \in Targets, o \in Ops : Browser(r, s, t, o)
        \/ \E o \in Ops : Progress(o) \/ Ending(o)
        \/ Lifecycle
        \/ Native

\* Deadlines pass and cancelled tasks run; a close that began goes on.
Fairness == /\ \A o \in Ops : WF_vars(Ending(o))
            /\ WF_vars(Close) /\ WF_vars(Closed)

Spec     == Init /\ [][Next]_vars
FairSpec == Spec /\ Fairness

-----------------------------------------------------------------------------
(* Properties *)

Records == [status : Finished \cup {"absent", "waiting_source", "creating"},
            reqs : SUBSET Requests]
Accepted == [used : {TRUE}, src : Sources, tgt : Targets, launch : Nat, first : Requests]
Places  == {"none", "begin", "sending", "sent", "creating", "created", "renaming", "renamed"}

\* Type correctness of the engine's and the native server's state.
TypeOK ==
  /\ host \in {"up", "stopping", "closing", "down"}
  /\ mem \in [Ops -> Records]
  /\ disk \in [Ops -> Records]
  /\ requests \in [Requests -> Ops \cup {NoOp}]
  /\ about \in [Ops -> Accepted \cup {Nothing}]
  /\ task \in [Ops -> Places]
  /\ launch \in [Sources -> Nat]
  /\ calls \subseteq Ops \X DOMAIN Waits
  /\ sessions \in [Ops -> Nat]
  /\ ran \subseteq Ops
  /\ faults \in Nat

\* One request, one operation that runs, one native successor: whatever is
\* lost, repeated, late or restarted in between.
OneSuccessor ==
  /\ \A o \in Ops : sessions[o] <= 1
  /\ \A o, q \in ran : about[o].first = about[q].first => o = q

StaysFinished(o) ==
  /\ mem[o].status \in Finished =>
       /\ disk'[o].status # "absent"
       /\ mem'[o].status \in Finished \cup {"absent"}
  /\ mem[o].status = "completed" =>
       /\ disk'[o].status = "completed"
       /\ mem'[o].status \in {"completed", "absent"}
  /\ host = "down" /\ disk[o].status = "completed" => disk'[o].status = "completed"

\* What a browser was told for good stays true, restarts included: a finished
\* operation never runs again and a completed one stays completed.
FinishedForGood == [][\A o \in Ops : StaysFinished(o)]_vars

\* An accepted operation ends, unless its host is gone.
EveryOperationEnds ==
  \A o \in Ops : (o \in Unfinished) ~> (mem[o].status \in Finished \/ host = "down")

\* A request whose operation ran stands for that operation and no other
\* (session-handoff/README.md:18).
RequestStands ==
  \A o \in ran : host = "up" => requests[about[o].first] = o

-----------------------------------------------------------------------------
(* The inductive invariant *)

\* A task belongs to an unfinished operation of a host that is there.
Tasked == \A o \in Ops : task[o] # "none" => o \in Unfinished /\ host # "down"

\* What is down knows nothing.
Forgotten == host = "down" => \A o \in Ops : mem[o].status = "absent"

\* An operation in memory has a file, and a completed one a final file.
Filed == \A o \in Ops :
  /\ mem[o].status # "absent" => disk[o].status # "absent"
  /\ mem[o].status = "completed" => disk[o].status = "completed"

\* An operation nobody accepted is nowhere.
Fresh == \A o \in Ops : about[o] = Nothing =>
           /\ mem[o].status = "absent" /\ disk[o].status = "absent"
           /\ sessions[o] = 0 /\ <<o, "create">> \notin calls /\ o \notin ran

\* The creation is asked for once, and after the source has written.
AskedOnce == \A o \in Ops :
  /\ sessions[o] <= 1
  /\ task[o] \in {"begin", "sending", "sent"} \/ <<o, "create">> \in calls => sessions[o] = 0
  /\ task[o] \in {"begin", "sending", "sent"} => <<o, "create">> \notin calls

\* The first request of an operation that ran is in its file, in memory, and
\* in the request map; no two share it.
Claimed ==
  /\ \A o \in ran : about[o].first \in disk[o].reqs
  /\ host # "down" => \A o \in ran : /\ about[o].first \in mem[o].reqs
                                     /\ requests[about[o].first] # NoOp
  /\ \A o, q \in ran : about[o].first = about[q].first => o = q

IInv == TypeOK /\ Tasked /\ Forgotten /\ Filed /\ Fresh /\ AskedOnce /\ Claimed
=============================================================================
