----------------------------- MODULE ManageJobs -----------------------------
(***************************************************************************)
(* The browser management server of vps/lib/manage.py: requests posted to  *)
(* a loopback API become jobs, one at a time, each a child process that    *)
(* runs a native command on the state directory under state/.lock and      *)
(* leaves a record in manage-jobs/.  A manager holds                       *)
(* manage-jobs/.session.lock; it can be stopped, killed and started again, *)
(* and a child survives the death of its manager.  Commands in other       *)
(* terminals use the same state directory.                                 *)
(***************************************************************************)
EXTENDS Naturals, FiniteSets

CONSTANTS Managers,   \* manage.sh processes
          Requests,   \* request ids drawn by the page
          Jobs,       \* job ids drawn by the managers
          MaxFaults   \* failures, deaths and commands of other terminals

ASSUME JobsAssumption ==
  /\ Jobs \cap {"shell", "backup", "none"} = {}
  /\ "none" \notin Managers
  /\ {"none"} \cap Requests = {}
  /\ MaxFaults \in Nat

None  == "none"
Shell == "shell"

VARIABLES
  gen,       \* native_generation of state.json, counted
  pend,      \* what pending.json identifies: None, "backup" or an operation
  lock,      \* the job whose child holds state/.lock, or None
  hostDone,  \* operations the host has committed
  flying,    \* operations whose commit call outlives the command
  drawn,     \* the terminal has drawn its operation id
  req,       \* req[j]: the request job j was made for, or None
  body,      \* body[j]: what it asks for
  overtaken, \* history: jobs whose manager was stopped while it admitted them
  disk,      \* disk[j]: the record of j's job in manage-jobs/
  mem,       \* mem[m][j]: what manager m knows of j's job
  life,      \* life[m]
  session,   \* the manager that holds .session.lock, or None
  admitting, \* admitting[m]: the admission that holds m's mutex
  worker,    \* worker[m]: the job of m's live worker thread
  child,     \* child[j]: where j's child process is
  base,      \* base[j]: the generation its child found
  result,    \* result[j]: the outcome the child printed
  faults

dirVars    == <<gen, pend, hostDone, flying, drawn>>
serverVars == <<disk, mem, life, session, admitting, worker>>
childVars  == <<child, base, result>>
jobVars    == <<req, body, overtaken>>
vars       == <<dirVars, lock, jobVars, serverVars, childVars, faults>>

NoBody      == [kind |-> None, gen |-> 0, op |-> None]
Change(g)   == [kind |-> "change", gen |-> g, op |-> None]
Recovery(o) == [kind |-> "recover", gen |-> 0, op |-> o]
NotAdmitting == [job |-> None, at |-> "idle"]

Init ==
  /\ gen = 0 /\ pend = None /\ lock = None
  /\ hostDone = {} /\ flying = {} /\ drawn = FALSE
  /\ req = [j \in Jobs |-> None]
  /\ body = [j \in Jobs |-> NoBody]
  /\ overtaken = {}
  /\ disk = [j \in Jobs |-> None]
  /\ mem = [m \in Managers |-> disk]
  /\ life = [m \in Managers |-> "off"]
  /\ session = None
  /\ admitting = [m \in Managers |-> NotAdmitting]
  /\ worker = [m \in Managers |-> None]
  /\ child = [j \in Jobs |-> "unborn"]
  /\ base = [j \in Jobs |-> 0]
  /\ result = [j \in Jobs |-> None]
  /\ faults = 0

Fault   == faults < MaxFaults /\ faults' = faults + 1
NoFault == UNCHANGED faults

-----------------------------------------------------------------------------
(* A manager *)

Record(m, j, value) ==
  /\ disk' = [disk EXCEPT ![j] = value]
  /\ mem'  = [mem EXCEPT ![m][j] = value]

\* (bug) an interrupted job is left as it was found.
LoadedAsFound(j) == disk[j]

\* (bug) a job that has no outcome counts as never asked for.
LoadedFinished(j) == IF disk[j] = "running" THEN None ELSE disk[j]

\* _load_jobs: a job found running has an unknown outcome.
LoadedRecord(j) == IF disk[j] = "running" THEN "recovery_required" ELSE disk[j]

\* The session lock and the port first, then the records.
Start(m) ==
  /\ life[m] = "off" /\ session = None
  /\ life' = [life EXCEPT ![m] = "serving"]
  /\ session' = m
  /\ disk' = [j \in Jobs |-> LoadedRecord(j)]
  /\ mem' = [mem EXCEPT ![m] = disk']
  /\ NoFault
  /\ UNCHANGED <<dirVars, lock, jobVars, admitting, worker, childVars>>

\* The answer of snapshot() allows j.
Admissible(b) ==
  /\ lock = None
  /\ IF b.kind = "recover" THEN pend # None /\ pend = b.op
                           ELSE pend = None /\ gen = b.gen

Known(m, r) == \E j \in Jobs : req[j] = r /\ mem[m][j] # None

\* admit, under the mutex: a known request is answered from its job; another
\* is checked against the state directory and given a job, ...
Admit(m, r, b, j) ==
  /\ life[m] = "serving"
  /\ admitting[m] = NotAdmitting
  /\ ~Known(m, r)
  /\ worker[m] = None
  /\ \A k \in Jobs : req[k] = r => body[k] = b
  /\ Admissible(b)
  /\ req[j] = None
  /\ req' = [req EXCEPT ![j] = r]
  /\ body' = [body EXCEPT ![j] = b]
  /\ admitting' = [admitting EXCEPT ![m] = [job |-> j, at |-> "checked"]]
  /\ NoFault
  /\ UNCHANGED <<dirVars, lock, overtaken, disk, mem, life, session, worker, childVars>>

\* ... its record is written ...
Persist(m) ==
  /\ admitting[m].at = "checked"
  /\ Record(m, admitting[m].job, "running")
  /\ admitting' = [admitting EXCEPT ![m].at = "persisted"]
  /\ NoFault
  /\ UNCHANGED <<dirVars, lock, jobVars, life, session, worker, childVars>>

\* ... and its worker thread starts.  Nobody looks at `stopping` again.
StartWorker(m) ==
  /\ admitting[m].at = "persisted"
  /\ worker' = [worker EXCEPT ![m] = admitting[m].job]
  /\ admitting' = [admitting EXCEPT ![m] = NotAdmitting]
  /\ NoFault
  /\ UNCHANGED <<dirVars, lock, jobVars, disk, mem, life, session, childVars>>

\* _execute: the child gets a session of its own.
Spawn(m) ==
  /\ worker[m] # None
  /\ child[worker[m]] = "unborn"
  /\ child' = [child EXCEPT ![worker[m]] = "started"]
  /\ NoFault
  /\ UNCHANGED <<dirVars, lock, jobVars, serverVars, base, result>>

Ended == {"ended", "dead"}
Alive(j) == child[j] \notin Ended \cup {"unborn"}

\* The child and its process group die; a commit call may have reached the host.
KillChild(j) ==
  /\ child' = [child EXCEPT ![j] = "dead"]
  /\ lock' = IF lock = j THEN None ELSE lock
  /\ flying' = IF child[j] = "begun" THEN flying \cup {j} ELSE flying
  /\ UNCHANGED <<gen, pend, hostDone, drawn, base, result>>

\* (bug) a job without a valid result gets an outcome of its own.
OutcomeAsPrinted(j) == IF result[j] = None THEN "interrupted" ELSE result[j]

\* _run: no valid result means an unknown outcome.
JobOutcome(j) == IF result[j] = None THEN "recovery_required" ELSE result[j]

\* The worker records the outcome and ends.
Finish(m, outcome) ==
  /\ admitting[m] = NotAdmitting
  /\ Record(m, worker[m], outcome)
  /\ worker' = [worker EXCEPT ![m] = None]
  /\ UNCHANGED <<jobVars, life, session, admitting>>

Collect(m) ==
  /\ worker[m] # None
  /\ child[worker[m]] \in Ended
  /\ Finish(m, JobOutcome(worker[m]))
  /\ NoFault
  /\ UNCHANGED <<dirVars, lock, childVars>>

\* The grace after Stop or the job's deadline is over, or there is no child.
Terminate(m) ==
  /\ worker[m] # None
  /\ child[worker[m]] \notin Ended
  /\ IF Alive(worker[m]) /\ life[m] # "serving" THEN NoFault ELSE Fault
  /\ KillChild(worker[m])
  /\ Finish(m, "recovery_required")

\* SIGINT, SIGTERM, SIGHUP, at any moment: an admission that has passed its look
\* at `stopping` goes on.
Stop(m) ==
  /\ life[m] = "serving"
  /\ life' = [life EXCEPT ![m] = "stopping"]
  /\ overtaken' = overtaken \cup ({admitting[m].job} \ {None})
  /\ NoFault
  /\ UNCHANGED <<dirVars, lock, req, body, disk, mem, session, admitting, worker, childVars>>

\* close: the API goes first; handler threads that run are not waited for ...
CloseApi(m) ==
  /\ life[m] = "stopping"
  /\ life' = [life EXCEPT ![m] = "closed"]
  /\ NoFault
  /\ UNCHANGED <<dirVars, lock, jobVars, disk, mem, session, admitting, worker, childVars>>

\* ... then the worker it finds is joined and the session lock released ...
Release(m) ==
  /\ life[m] = "closed"
  /\ worker[m] = None
  /\ life' = [life EXCEPT ![m] = "released"]
  /\ session' = None
  /\ NoFault
  /\ UNCHANGED <<dirVars, lock, jobVars, disk, mem, admitting, worker, childVars>>

Gone(m) ==
  /\ life' = [life EXCEPT ![m] = "off"]
  /\ mem' = [mem EXCEPT ![m] = [j \in Jobs |-> None]]
  /\ admitting' = [admitting EXCEPT ![m] = NotAdmitting]
  /\ worker' = [worker EXCEPT ![m] = None]
  /\ session' = IF session = m THEN None ELSE session
  /\ UNCHANGED <<jobVars, disk>>

\* ... and the interpreter ends when no worker thread lives.
Exit(m) ==
  /\ life[m] = "released"
  /\ worker[m] = None
  /\ Gone(m)
  /\ NoFault
  /\ UNCHANGED <<dirVars, lock, childVars>>

\* The manager is killed.  A child goes on.
Crash(m) ==
  /\ Fault
  /\ life[m] # "off"
  /\ Gone(m)
  /\ UNCHANGED <<dirVars, lock, childVars>>

-----------------------------------------------------------------------------
(* The child: machine_execute *)

Move(j, from, to) == child[j] = from /\ child' = [child EXCEPT ![j] = to]
ChildOnly == UNCHANGED <<jobVars, serverVars, drawn>>
IsChange(j) == body[j].kind = "change"

\* (bug) the generation is left to the admission to check.
MayRunUnchecked(j) == IF IsChange(j) THEN pend = None ELSE pend = body[j].op

\* Under the lock, what admission checked is checked again.
MayRun(j) == IF IsChange(j) THEN pend = None /\ gen = body[j].gen
                            ELSE pend = body[j].op

\* state/.lock is not waited for.
ChildLock(j) ==
  /\ child[j] = "started"
  /\ IF lock = None /\ MayRun(j)
     THEN /\ child' = [child EXCEPT ![j] = "locked"]
          /\ lock' = j
          /\ base' = [base EXCEPT ![j] = gen]
          /\ UNCHANGED result
     ELSE /\ child' = [child EXCEPT ![j] = "ended"]
          /\ result' = [result EXCEPT ![j] = "rejected"]
          /\ UNCHANGED <<lock, base>>
  /\ NoFault
  /\ ChildOnly /\ UNCHANGED dirVars

\* devices: a backup under a pending.json of its own, then the change's.
ChildDevices(j) ==
  /\ IsChange(j)
  /\ \/ Move(j, "locked", "marked")    /\ pend' = "backup" /\ UNCHANGED <<gen, hostDone>>
     \/ Move(j, "marked", "backed")    /\ pend' = None     /\ UNCHANGED <<gen, hostDone>>
     \/ Move(j, "backed", "begun")     /\ pend' = j        /\ UNCHANGED <<gen, hostDone>>
     \/ Move(j, "begun", "committed")  /\ hostDone' = hostDone \cup {j} /\ UNCHANGED <<gen, pend>>
     \/ Move(j, "committed", "saved")  /\ gen' = gen + 1   /\ UNCHANGED <<pend, hostDone>>
     \/ Move(j, "saved", "done")       /\ pend' = None     /\ UNCHANGED <<gen, hostDone>>
  /\ NoFault
  /\ ChildOnly /\ UNCHANGED <<flying, lock, base, result>>

\* recover_local: the host says what became of the operation; a committed one
\* and a backup are saved, another is rolled back, on the host and then here.
ChildRecover(j) ==
  /\ ~IsChange(j)
  /\ \/ /\ body[j].op \in hostDone \cup {"backup"}
        /\ Move(j, "locked", "saved")
        /\ gen' = gen + 1
        /\ UNCHANGED <<pend, flying>>
     \/ /\ body[j].op \notin hostDone \cup {"backup"}
        /\ Move(j, "locked", "saved")
        /\ flying' = flying \ {body[j].op}
        /\ UNCHANGED <<gen, pend>>
     \/ /\ Move(j, "saved", "done")
        /\ pend' = None
        /\ UNCHANGED <<gen, flying>>
  /\ NoFault
  /\ ChildOnly /\ UNCHANGED <<hostDone, lock, base, result>>

\* (bug) an exception is reported before pending.json is looked at.
VerdictHasty(j, failed) ==
  IF failed /\ gen = base[j] THEN "rejected"
  ELSE IF pend # None THEN "recovery_required"
  ELSE IF ~IsChange(j) /\ body[j].op = "backup" THEN "unchanged"
  ELSE IF gen # base[j] THEN "committed"
  ELSE IF IsChange(j) THEN "unchanged" ELSE "rolled_back"

\* The outcome the child prints, from what it finds after the command.
Verdict(j, failed) ==
  IF pend # None THEN "recovery_required"
  ELSE IF ~IsChange(j) /\ body[j].op = "backup" THEN "unchanged"
  ELSE IF gen # base[j] THEN "committed"
  ELSE IF failed THEN "rejected"
  ELSE IF IsChange(j) THEN "unchanged" ELSE "rolled_back"

Report(j, failed) ==
  /\ child' = [child EXCEPT ![j] = "ended"]
  /\ result' = [result EXCEPT ![j] = Verdict(j, failed)]
  /\ lock' = None
  /\ ChildOnly /\ UNCHANGED base

ChildDone(j) ==
  /\ child[j] = "done"
  /\ Report(j, FALSE)
  /\ NoFault
  /\ UNCHANGED dirVars

\* The command raises, or a recovery is only queued; a commit call whose
\* reply is lost may still be served.
ChildFails(j) ==
  /\ Fault
  /\ Alive(j) /\ child[j] # "started"
  /\ \/ Report(j, TRUE)
     \/ ~IsChange(j) /\ child[j] = "locked" /\ Report(j, FALSE)
  /\ flying' = IF child[j] = "begun" THEN flying \cup {j} ELSE flying
  /\ UNCHANGED <<gen, pend, hostDone>>

\* The child is killed alone.
ChildDies(j) ==
  /\ Fault
  /\ Alive(j)
  /\ KillChild(j)
  /\ ChildOnly

Child(j) == ChildLock(j) \/ ChildDevices(j) \/ ChildRecover(j) \/ ChildDone(j)

\* The host serves or drops the late commit call.
LateCommit(o) ==
  /\ o \in flying
  /\ flying' = flying \ {o}
  /\ hostDone' \in {hostDone, hostDone \cup {o}}
  /\ NoFault
  /\ UNCHANGED <<gen, pend, drawn, lock, jobVars, serverVars, childVars>>

\* The PC reboots: every process is gone.
Reboot ==
  /\ Fault
  /\ flying' = flying \cup {j \in Jobs : child[j] = "begun"}
  /\ child' = [j \in Jobs |-> IF Alive(j) THEN "dead" ELSE child[j]]
  /\ lock' = None
  /\ life' = [m \in Managers |-> "off"]
  /\ mem' = [m \in Managers |-> [j \in Jobs |-> None]]
  /\ admitting' = [m \in Managers |-> NotAdmitting]
  /\ worker' = [m \in Managers |-> None]
  /\ session' = None
  /\ UNCHANGED <<gen, pend, hostDone, drawn, jobVars, disk, base, result>>

\* A command in another terminal: a change that is saved or left pending, and
\* recover.
ShellCommand ==
  /\ Fault
  /\ lock = None
  /\ \/ pend = None /\ gen' = gen + 1 /\ UNCHANGED <<pend, hostDone, flying, drawn>>
     \/ /\ pend = None /\ ~drawn /\ drawn' = TRUE /\ pend' = Shell
        /\ hostDone' \in {hostDone, hostDone \cup {Shell}}
        /\ UNCHANGED <<gen, flying>>
     \/ /\ pend # None /\ pend' = None
        /\ gen' = IF pend \in hostDone \cup {"backup"} THEN gen + 1 ELSE gen
        /\ flying' = flying \ {pend}
        /\ UNCHANGED <<hostDone, drawn>>
  /\ UNCHANGED <<lock, jobVars, serverVars, childVars>>

-----------------------------------------------------------------------------
\* What the page may ask for: a change of what it was shown, or the recovery
\* of the operation it was shown.
Bodies == {Change(g) : g \in 0..gen}
            \cup (IF pend = None THEN {} ELSE {Recovery(pend)})

Manager(m) == Persist(m) \/ StartWorker(m) \/ Spawn(m) \/ Collect(m)
              \/ CloseApi(m) \/ Release(m) \/ Exit(m)

Next ==
  \/ \E m \in Managers : \/ Start(m) \/ Stop(m) \/ Terminate(m) \/ Crash(m) \/ Manager(m)
                         \/ \E r \in Requests, b \in Bodies, j \in Jobs : Admit(m, r, b, j)
  \/ \E j \in Jobs : Child(j) \/ ChildFails(j) \/ ChildDies(j)
  \/ \E o \in Jobs : LateCommit(o)
  \/ Reboot \/ ShellCommand

Spec == Init /\ [][Next]_vars

\* Processes run; a manager lives as long as its terminal, and somebody
\* starts one again.
FairSpec ==
  /\ Spec
  /\ \A m \in Managers : WF_vars(Manager(m)) /\ WF_vars(Start(m)) /\ WF_vars(Stop(m))
  /\ \A j \in Jobs : WF_vars(Child(j))

-----------------------------------------------------------------------------
(* Properties *)

Outcomes == {"recovery_required", "rejected", "unchanged", "committed", "rolled_back"}
Records  == Outcomes \cup {None, "running"}
Opers    == Jobs \cup {Shell, "backup"}

\* Type correctness of the state directory, the managers and the children.
TypeOK ==
  /\ gen \in Nat /\ pend \in Opers \cup {None} /\ lock \in Jobs \cup {None}
  /\ drawn \in BOOLEAN
  /\ hostDone \subseteq Opers /\ flying \subseteq Jobs
  /\ req \in [Jobs -> Requests \cup {None}]
  /\ body \in [Jobs -> [kind : {None, "change", "recover"}, gen : Nat,
                            op : Opers \cup {None}]]
  /\ disk \in [Jobs -> Records] /\ mem \in [Managers -> [Jobs -> Records]]
  /\ overtaken \subseteq Jobs
  /\ life \in [Managers -> {"off", "serving", "stopping", "closed", "released"}]
  /\ session \in Managers \cup {None}
  /\ worker \in [Managers -> Jobs \cup {None}]
  /\ admitting \in [Managers -> [job : Jobs \cup {None}, at : {"idle", "checked", "persisted"}]]
  /\ child \in [Jobs -> Ended \cup {"unborn", "started", "locked", "marked", "backed",
                                        "begun", "committed", "saved", "done"}]
  /\ result \in [Jobs -> Outcomes \cup {None}]
  /\ base \in [Jobs -> Nat] /\ faults \in 0..MaxFaults

SameRequest(j, k) == j # k /\ req[j] = req[k] /\ req[j] # None

\* A request runs at most once, however often it is posted and whatever is
\* stopped, dies and is started again in between.  One exception: of two jobs
\* that both ran, one was being admitted when its manager was stopped; close()
\* (manage.py:771-783) does not wait for it and the next manager does not know it.
AtMostOnce ==
  \A j, k \in Jobs : SameRequest(j, k) =>
    \/ child[j] = "unborn" \/ child[k] = "unborn"
    \/ {j, k} \cap overtaken # {}

\* Even where two jobs of one request run it takes effect once.
EffectOnce ==
  \A j, k \in Jobs : SameRequest(j, k) /\ IsChange(j) => {j, k} \cap hostDone # {j, k}

\* An outcome on disk or in a manager is true for good: nothing reported rejected, unchanged
\* or rolled back has been committed or ever will be, and what is reported
\* committed is.
OutcomesTrue ==
  \A j \in Jobs : \A outcome \in {disk[j]} \cup {mem[m][j] : m \in Managers} :
    LET subject == IF IsChange(j) THEN j ELSE body[j].op IN
    /\ outcome = "committed" => subject \in hostDone
    /\ \/ outcome = "rolled_back"
       \/ IsChange(j) /\ outcome \in {"rejected", "unchanged"}
       => subject \notin hostDone \cup flying

\* The page is never told, and never does, anything twice or wrongly.
ReportsHold == EffectOnce /\ OutcomesTrue

\* A change commits on the generation the page showed when it was asked for,
\* although terminals and other managers change the state in between.
CommitsAsShown ==
  [][\A j \in hostDone' \ hostDone : j # Shell => gen = body[j].gen /\ pend = j]_vars

\* A job recorded as running is given an outcome in the end.
RecordsSettle == \A j \in Jobs : disk[j] = "running" ~> disk[j] # "running"

\* While a manager lives, its session lock covers the job it runs: that is
\* what excludes another manager and `ensure` from the state directory.
LockCoversJobs == \A m \in Managers : worker[m] # None => session = m

-----------------------------------------------------------------------------
(* The inductive invariant *)

Early   == {"locked", "marked", "backed"}
Late    == {"begun", "committed", "saved"}
Working == Early \cup Late \cup {"done"}

\* What nobody asked for has left no trace, and what is asked for twice is
\* the same thing.
Asked ==
  /\ \A j \in Jobs :
       IF req[j] = None
       THEN /\ child[j] = "unborn" /\ result[j] = None /\ disk[j] = None
            /\ \A m \in Managers : mem[m][j] = None
       ELSE body[j].kind \in {"change", "recover"}
  /\ \A j, k \in Jobs : req[j] = req[k] /\ req[j] # None => body[j] = body[k]
  /\ \A m \in Managers :
       /\ worker[m] # None => req[worker[m]] # None
       /\ admitting[m].at = "idle" <=> admitting[m].job = None
       /\ admitting[m].job # None => req[admitting[m].job] # None

\* Who has state/.lock is at work.
Locked == \A j \in Jobs : child[j] \in Working <=> lock = j

\* What a change that works has done, and what pending.json says of it.
Changing == \A j \in Jobs : IsChange(j) /\ child[j] \in Working =>
  /\ base[j] = body[j].gen
  /\ child[j] \in {"locked", "backed", "done"} <=> pend = None
  /\ child[j] = "marked" => pend = "backup"
  /\ child[j] \in Late => pend = j
  /\ child[j] \notin {"saved", "done"} => gen = base[j]
  /\ child[j] \in {"saved", "done"} => gen = base[j] + 1

\* A recovery that works settles the operation it was asked to settle.
Settled(o) == o \notin hostDone \cup flying \cup {"backup"}
Recovering == \A j \in Jobs : ~IsChange(j) /\ child[j] \in Working =>
  /\ child[j] \in {"locked", "saved", "done"}
  /\ pend = IF child[j] = "done" THEN None ELSE body[j].op
  /\ child[j] = "locked" => gen = base[j]
  /\ child[j] # "locked" =>
       \/ /\ gen = base[j] + 1 /\ body[j].op \in hostDone \cup {"backup"}
          /\ body[j].op \in Jobs => gen > body[body[j].op].gen
       \/ gen = base[j] /\ Settled(body[j].op)

\* An operation in pending.json, or to be recovered, was begun.
Begun(o) == /\ o = Shell => drawn
            /\ o \in Jobs => IsChange(o) /\ child[o] \in Late \cup {"done"} \cup Ended
OnceBegun ==
  /\ Begun(pend)
  /\ \A j \in Jobs : req[j] # None /\ ~IsChange(j) => body[j].op # None /\ Begun(body[j].op)

\* What the host committed, or may commit late, is of the generation it was
\* asked for, the only one of that generation, and pending until it is saved.
Committed ==
  /\ Shell \in hostDone => drawn
  /\ \A j, k \in Jobs \cap hostDone : body[j].gen = body[k].gen => j = k
  /\ \A j \in Jobs :
       /\ IsChange(j) /\ child[j] \in {"committed", "saved", "done"} => j \in hostDone
       /\ j \in hostDone => /\ IsChange(j) /\ child[j] \in {"committed", "saved", "done"} \cup Ended
                            /\ (gen = body[j].gen /\ pend = j) \/ gen > body[j].gen
       /\ j \in flying => /\ IsChange(j) /\ child[j] \in Ended /\ j \notin hostDone
                          /\ pend = j /\ gen = body[j].gen

\* The result a child printed is true of its subject, whose own child has
\* ended, and the records repeat it or say that they do not know.
Subject(j) == IF IsChange(j) THEN j ELSE body[j].op
Reported == \A j \in Jobs :
  /\ result[j] # None => child[j] = "ended"
  /\ result[j] = "committed" => Subject(j) \in hostDone
  /\ result[j] = "rolled_back" \/ (IsChange(j) /\ result[j] \in {"rejected", "unchanged"}) =>
       Settled(Subject(j)) /\ (Subject(j) \in Jobs => child[Subject(j)] \in Ended)
  /\ disk[j] \in {None, "running", "recovery_required", result[j]}
  /\ \A m \in Managers : mem[m][j] \in {None, "running", "recovery_required", result[j]}

\* An admission that was forgotten before its record was written.
Abandoned(j) ==
  /\ child[j] = "unborn" /\ disk[j] = None
  /\ \A m \in Managers : admitting[m].job # j /\ worker[m] # j

\* But for jobs that a stop overtook: only the manager that has the session
\* lock works, it knows every record, and of two jobs of one request one was
\* abandoned.
Alone ==
  /\ \A m \in Managers :
       /\ life[m] \in {"serving", "stopping", "closed"} <=> session = m
       /\ admitting[m] # NotAdmitting => life[m] = "serving" \/ admitting[m].job \in overtaken
       /\ worker[m] # None => session = m \/ worker[m] \in overtaken
       /\ session = m => \A j \in Jobs \ overtaken : disk[j] # None => mem[m][j] # None
       /\ admitting[m].at = "persisted" => disk[admitting[m].job] # None
       /\ worker[m] # None => disk[worker[m]] # None
  /\ \A j \in Jobs : child[j] # "unborn" => disk[j] # None
  /\ \A j, k \in Jobs \ overtaken : SameRequest(j, k) => Abandoned(j) \/ Abandoned(k)

IInv ==
  /\ TypeOK /\ Asked /\ Locked /\ Changing /\ Recovering /\ OnceBegun /\ Committed
  /\ Reported /\ Alone

=============================================================================
