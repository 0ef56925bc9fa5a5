--------------------------- MODULE WorkstationJobs ---------------------------
(***************************************************************************)
(* `job` (fresh-install/modules/tmux/runtime/job.py): commands submitted   *)
(* once, as transient units of the user's service manager, under a shared  *)
(* memory budget.  The budget is a ledger of reservation files under       *)
(* /run/user/UID; `run` and `cancel` hold admission.lock, the manager, the *)
(* launcher and finalizer it runs (_exec, _finish) and the readers do not. *)
(* A submitter may be killed at any point, and so may systemd-run, its     *)
(* client of the manager, which inherits the lock.                         *)
(*                                                                         *)
(* A run is one submission: its identity is fresh (uuid4).  The manager is *)
(* external; it serves requests in the order they reach it.                *)
(***************************************************************************)
EXTENDS Naturals, FiniteSets, FiniteSetsExt

CONSTANTS
  Runs,      \* the submissions
  Mem,       \* the MemoryMax each declares
  Capacity,  \* CAPACITY
  MaxFaults  \* bound on kills, lost answers, lost results and reboots

ASSUME MemAssumption == Mem \in [Runs -> Nat] /\ Capacity \in Nat
ASSUME FaultAssumption == MaxFaults \in Nat

VARIABLES
  lock,         \* who holds admission.lock: pairs of a role and a run
  submitter,    \* where each `job run` is
  client,       \* systemd-run: none | calling | ok | failed | killed
  message,      \* its StartTransientUnit: none | sent | served
  unit,         \* none | queued | launching | running | finalizing | gone
  record,       \* "submission" of run.json: none | pending | accepted | rejected
  reservation,  \* the same of the reservation file; none when there is no file
  env,          \* the runs whose environment file exists
  result,       \* result.json: none | job | start-failed | cancelled-or-lost
  canceller,    \* where `job cancel` of each run is
  said,         \* exit code of `job run`, 0 before it has one
  told,         \* the result `job wait` printed, none before
  ran,          \* the runs whose command was ever executed
  lost,         \* the runs whose finalizer could not write the result
  missed,       \* history: cancelled when their start job was still queued
  faults

files == <<record, reservation, env, result>>
outside == <<message, unit, ran, lost, missed>>
vars == <<lock, submitter, client, outside, files, canceller, said, told, faults>>

Init ==
  /\ lock = {}
  /\ submitter = [r \in Runs |-> "idle"]
  /\ client = [r \in Runs |-> "none"]
  /\ message = [r \in Runs |-> "none"]
  /\ unit = [r \in Runs |-> "none"]
  /\ record = [r \in Runs |-> "none"]
  /\ reservation = [r \in Runs |-> "none"]
  /\ env = {}
  /\ result = [r \in Runs |-> "none"]
  /\ canceller = [r \in Runs |-> "idle"]
  /\ said = [r \in Runs |-> 0]
  /\ told = [r \in Runs |-> "none"]
  /\ ran = {}
  /\ lost = {}
  /\ missed = {}
  /\ faults = 0

Fault == faults < MaxFaults /\ faults' = faults + 1

(* What `systemctl show` says of a unit.  A unit whose start job is still  *)
(* queued is loaded but inactive: it exists, and is_live is false of it.   *)
Loaded(r) == unit[r] \in {"queued", "launching", "running", "finalizing"}
IsLive(r) == unit[r] \in {"launching", "running", "finalizing"}

(* The manager answers a query after the requests that reached it earlier. *)
Answers == \A r \in Runs : message[r] # "sent"

-----------------------------------------------------------------------------
(* `job run` *)

(* mutant: a submission still pending holds nothing *)
RetainedWhileLive(r) == reservation[r] # "none" /\ IsLive(r)

(* reservation_total keeps a reservation that may still be in use and      *)
(* deletes the others; the lock makes the count one step.                  *)
Retained(r) ==
  /\ reservation[r] # "none"
  /\ IsLive(r) \/ (reservation[r] = "pending" /\ result[r] = "none")
Need(S) == MapThenSumSet(LAMBDA r : Mem[r], S)
ReservationTotal == Need({r \in Runs : Retained(r)})
Reclaimed == [r \in Runs |-> IF Retained(r) THEN reservation[r] ELSE "none"]

Release(r) == lock' = lock \ {<<"submit", r>>}

Admit(r) ==
  /\ submitter[r] = "idle" /\ lock = {} /\ Answers
  /\ reservation' = Reclaimed
  /\ IF ReservationTotal + Mem[r] > Capacity
     THEN /\ said' = [said EXCEPT ![r] = 75]
          /\ submitter' = [submitter EXCEPT ![r] = "done"]
          /\ UNCHANGED lock
     ELSE /\ submitter' = [submitter EXCEPT ![r] = "admitted"]
          /\ lock' = {<<"submit", r>>}
          /\ UNCHANGED said
  /\ UNCHANGED <<client, outside, record, env, result, canceller, told, faults>>

WriteRun(r) ==
  /\ submitter[r] = "admitted"
  /\ env' = env \cup {r}
  /\ record' = [record EXCEPT ![r] = "pending"]
  /\ submitter' = [submitter EXCEPT ![r] = "recorded"]
  /\ UNCHANGED <<lock, client, outside, reservation, result, canceller, said, told, faults>>

Reserve(r) ==
  /\ submitter[r] = "recorded"
  /\ reservation' = [reservation EXCEPT ![r] = "pending"]
  /\ submitter' = [submitter EXCEPT ![r] = "reserved"]
  /\ UNCHANGED <<lock, client, outside, record, env, result, canceller, said, told, faults>>

(* subprocess.run(systemd-run, timeout=40, pass_fds=(lock,)) *)
Launch(r) ==
  /\ submitter[r] = "reserved"
  /\ submitter' = [submitter EXCEPT ![r] = "launched"]
  /\ client' = [client EXCEPT ![r] = "calling"]
  /\ lock' = lock \cup {<<"client", r>>}
  /\ UNCHANGED <<outside, files, canceller, said, told, faults>>

Uncertain(r) ==
  /\ said' = [said EXCEPT ![r] = 70]
  /\ submitter' = [submitter EXCEPT ![r] = "done"]
  /\ Release(r)
  /\ UNCHANGED <<client, outside, files, canceller, told, faults>>

(* subprocess.run kills systemd-run when its timeout passes. *)
TimedOut(r) ==
  /\ submitter[r] = "launched" /\ client[r] = "calling" /\ Fault
  /\ client' = [client EXCEPT ![r] = "killed"]
  /\ lock' = lock \ {<<"client", r>>}
  /\ submitter' = [submitter EXCEPT ![r] = "uncertain"]
  /\ UNCHANGED <<outside, files, canceller, said, told>>

GiveUp(r) == submitter[r] = "uncertain" /\ Uncertain(r)

(* The client was killed by somebody else: the same as a failed answer. *)
Failed(r) == submitter[r] = "launched" /\ client[r] \in {"failed", "killed"}

AckFailed(r) ==
  /\ Failed(r) /\ Answers
  /\ Loaded(r) \/ result[r] # "none"
  /\ Uncertain(r)

(* mutant: a failed answer is taken for a rejection *)
RejectUnseen(r) ==
  /\ Failed(r)
  /\ record' = [record EXCEPT ![r] = "rejected"]
  /\ submitter' = [submitter EXCEPT ![r] = "rejecting"]
  /\ UNCHANGED <<lock, client, outside, reservation, env, result, canceller, said, told, faults>>

RejectRun(r) ==
  /\ Failed(r) /\ Answers
  /\ ~Loaded(r) /\ result[r] = "none"
  /\ record' = [record EXCEPT ![r] = "rejected"]
  /\ submitter' = [submitter EXCEPT ![r] = "rejecting"]
  /\ UNCHANGED <<lock, client, outside, reservation, env, result, canceller, said, told, faults>>

RejectReservation(r) ==
  /\ submitter[r] = "rejecting"
  /\ reservation' = [reservation EXCEPT ![r] = "rejected"]
  /\ submitter' = [submitter EXCEPT ![r] = "rejected"]
  /\ UNCHANGED <<lock, client, outside, record, env, result, canceller, said, told, faults>>

RejectResult(r) ==
  /\ submitter[r] = "rejected"
  /\ result' = [result EXCEPT ![r] = "start-failed"]
  /\ env' = env \ {r}
  /\ said' = [said EXCEPT ![r] = 125]
  /\ submitter' = [submitter EXCEPT ![r] = "done"]
  /\ Release(r)
  /\ UNCHANGED <<client, outside, record, reservation, canceller, told, faults>>

AcceptRun(r) ==
  /\ submitter[r] = "launched" /\ client[r] = "ok"
  /\ record' = [record EXCEPT ![r] = "accepted"]
  /\ submitter' = [submitter EXCEPT ![r] = "accepting"]
  /\ UNCHANGED <<lock, client, outside, reservation, env, result, canceller, said, told, faults>>

AcceptReservation(r) ==
  /\ submitter[r] = "accepting"
  /\ reservation' = [reservation EXCEPT ![r] = "accepted"]
  /\ submitter' = [submitter EXCEPT ![r] = "done"]
  /\ Release(r)
  /\ UNCHANGED <<client, outside, record, env, result, canceller, said, told, faults>>

SubmitterKilled(r) ==
  /\ submitter[r] \notin {"idle", "done"} /\ Fault
  /\ submitter' = [submitter EXCEPT ![r] = "done"]
  /\ Release(r)
  /\ UNCHANGED <<client, outside, files, canceller, said, told>>

Submit(r) ==
  \/ Admit(r) \/ WriteRun(r) \/ Reserve(r) \/ Launch(r)
  \/ TimedOut(r) \/ GiveUp(r) \/ AckFailed(r)
  \/ RejectRun(r) \/ RejectReservation(r) \/ RejectResult(r)
  \/ AcceptRun(r) \/ AcceptReservation(r) \/ SubmitterKilled(r)

-----------------------------------------------------------------------------
(* systemd-run and the manager *)

ClientSends(r) ==
  /\ client[r] = "calling" /\ message[r] = "none"
  /\ message' = [message EXCEPT ![r] = "sent"]
  /\ UNCHANGED <<lock, submitter, client, unit, ran, lost, missed, files, canceller, said, told, faults>>

ClientEnds(r, how) ==
  /\ client[r] = "calling"
  /\ client' = [client EXCEPT ![r] = how]
  /\ lock' = lock \ {<<"client", r>>}
  /\ UNCHANGED <<submitter, outside, files, canceller, said, told>>

(* --service-type=exec: success once the launcher has been executed. *)
ClientOk(r) ==
  /\ message[r] = "served" /\ unit[r] \notin {"none", "queued"}
  /\ ClientEnds(r, "ok") /\ UNCHANGED faults

ClientRefused(r) ==
  /\ message[r] = "served" /\ unit[r] = "none"
  /\ ClientEnds(r, "failed") /\ UNCHANGED faults

(* It loses the answer, or is killed, at any point. *)
ClientFails(r) == Fault /\ \E how \in {"failed", "killed"} : ClientEnds(r, how)

(* The manager takes the request and queues the start job, or refuses it. *)
Serve(r, to) ==
  /\ message[r] = "sent"
  /\ message' = [message EXCEPT ![r] = "served"]
  /\ unit' = [unit EXCEPT ![r] = to]
  /\ UNCHANGED <<lock, submitter, client, ran, lost, missed, files, canceller, said, told, faults>>

Dispatch(r) ==
  /\ unit[r] = "queued"
  /\ unit' = [unit EXCEPT ![r] = "launching"]
  /\ UNCHANGED <<lock, submitter, client, message, ran, lost, missed, files, canceller, said, told, faults>>

(* execute(): the environment file is read and removed, then the command   *)
(* replaces the launcher.  Without the file, or when the command cannot be *)
(* executed, the launcher fails.                                           *)
Execute(r) ==
  /\ unit[r] = "launching"
  /\ env' = env \ {r}
  /\ \/ /\ r \in env
        /\ unit' = [unit EXCEPT ![r] = "running"]
        /\ ran' = ran \cup {r}
     \/ unit' = [unit EXCEPT ![r] = "finalizing"] /\ UNCHANGED ran
  /\ UNCHANGED <<lock, submitter, client, message, lost, missed, record, reservation, result,
                 canceller, said, told, faults>>

(* The command ends, by itself or by a stop. *)
Exit(r) ==
  /\ unit[r] = "running"
  /\ unit' = [unit EXCEPT ![r] = "finalizing"]
  /\ UNCHANGED <<lock, submitter, client, message, ran, lost, missed, files, canceller, said, told, faults>>

(* ExecStopPost: finish() writes the result over whatever is there. *)
Finish(r) ==
  /\ unit[r] = "finalizing"
  /\ unit' = [unit EXCEPT ![r] = "gone"]
  /\ env' = env \ {r}
  /\ result' = [result EXCEPT ![r] = "job"]
  /\ UNCHANGED <<lock, submitter, client, message, ran, lost, missed, record, reservation,
                 canceller, said, told, faults>>

(* The finalizer is killed or cannot write: --collect leaves no trace. *)
FinishLost(r) ==
  /\ unit[r] = "finalizing" /\ Fault
  /\ unit' = [unit EXCEPT ![r] = "gone"]
  /\ lost' = lost \cup {r}
  /\ UNCHANGED <<lock, submitter, client, message, ran, missed, files, canceller, said, told>>

Manager(r) ==
  \/ ClientSends(r) \/ ClientOk(r) \/ ClientRefused(r) \/ ClientFails(r)
  \/ \E to \in {"queued", "none"} : Serve(r, to)
  \/ Dispatch(r) \/ Execute(r) \/ Exit(r) \/ Finish(r) \/ FinishLost(r)

-----------------------------------------------------------------------------
(* `job cancel`, `job wait` *)

(* mutant: cancel does not wait for the lock *)
CancelLookUnlocked(r) ==
  /\ canceller[r] = "idle" /\ record[r] # "none" /\ Answers
  /\ lock' = lock \cup {<<"cancel", r>>}
  /\ canceller' = [canceller EXCEPT ![r] = IF IsLive(r) THEN "stopping" ELSE "stopped"]
  /\ unit' = [unit EXCEPT ![r] = IF @ \in {"launching", "running"} THEN "finalizing" ELSE @]
  /\ UNCHANGED <<submitter, client, message, ran, lost, missed, files, said, told, faults>>

(* Under the lock: a live unit is stopped first. *)
CancelLook(r) ==
  /\ canceller[r] = "idle" /\ record[r] # "none"
  /\ lock = {} /\ Answers
  /\ lock' = {<<"cancel", r>>}
  /\ canceller' = [canceller EXCEPT ![r] = IF IsLive(r) THEN "stopping" ELSE "stopped"]
  /\ unit' = [unit EXCEPT ![r] = IF @ \in {"launching", "running"} THEN "finalizing" ELSE @]
  /\ UNCHANGED <<submitter, client, message, ran, lost, missed, files, said, told, faults>>

CancelStopped(r) ==
  /\ canceller[r] = "stopping" /\ unit[r] = "gone"
  /\ canceller' = [canceller EXCEPT ![r] = "stopped"]
  /\ UNCHANGED <<lock, submitter, client, outside, files, said, told, faults>>

(* mutant: the outcome of a finished run is overwritten *)
CancelOverwrites(r) ==
  /\ canceller[r] = "stopped"
  /\ canceller' = [canceller EXCEPT ![r] = "recorded"]
  /\ result' = [result EXCEPT ![r] = "cancelled-or-lost"]
  /\ UNCHANGED <<lock, submitter, client, outside, record, reservation, env, said, told, faults>>

CancelRecord(r) ==
  /\ canceller[r] = "stopped"
  /\ canceller' = [canceller EXCEPT ![r] = IF result[r] = "none" THEN "recorded" ELSE "settled"]
  /\ result' = [result EXCEPT ![r] = IF @ = "none" THEN "cancelled-or-lost" ELSE @]
  /\ missed' = IF result[r] = "none" /\ Loaded(r) THEN missed \cup {r} ELSE missed
  /\ UNCHANGED <<lock, submitter, client, message, unit, ran, lost, record, reservation, env,
                 said, told, faults>>

CancelUnlink(r) ==
  /\ canceller[r] = "recorded"
  /\ canceller' = [canceller EXCEPT ![r] = "settled"]
  /\ env' = env \ {r}
  /\ UNCHANGED <<lock, submitter, client, outside, record, reservation, result, said, told, faults>>

CancelRelease(r) ==
  /\ canceller[r] = "settled"
  /\ canceller' = [canceller EXCEPT ![r] = "idle"]
  /\ reservation' = [reservation EXCEPT ![r] = "none"]
  /\ lock' = {}
  /\ UNCHANGED <<submitter, client, outside, record, env, result, said, told, faults>>

(* The stop fails or takes over 30 seconds, or the canceller is killed. *)
CancelFails(r) ==
  /\ canceller[r] # "idle" /\ Fault
  /\ canceller' = [canceller EXCEPT ![r] = "idle"]
  /\ lock' = {}
  /\ UNCHANGED <<submitter, client, outside, files, said, told>>

Cancel(r) ==
  \/ CancelLook(r) \/ CancelStopped(r) \/ CancelRecord(r)
  \/ CancelUnlink(r) \/ CancelRelease(r) \/ CancelFails(r)

(* status(): "finished" when the unit is not live and a result exists. *)
Finished(r) == record[r] # "none" /\ Answers /\ ~IsLive(r) /\ result[r] # "none"

(* wait polls until then and passes the result on; a result that is missing,  *)
(* or the end of its time, leaves everything as it is.                        *)
Wait(r) ==
  /\ Finished(r)
  /\ told' = [told EXCEPT ![r] = result[r]]
  /\ told' # told
  /\ UNCHANGED <<lock, submitter, client, outside, files, canceller, said, faults>>

(* /run/user/UID, the processes and the units go; run.json, result.json    *)
(* stay.                                                                   *)
Reboot ==
  /\ Fault
  /\ lock' = {}
  /\ submitter' = [r \in Runs |-> IF submitter[r] = "idle" THEN "idle" ELSE "done"]
  /\ client' = [r \in Runs |-> IF client[r] = "calling" THEN "killed" ELSE client[r]]
  /\ message' = [r \in Runs |-> IF message[r] = "sent" THEN "served" ELSE message[r]]
  /\ unit' = [r \in Runs |-> IF unit[r] = "none" THEN "none" ELSE "gone"]
  /\ lost' = lost \cup {r \in Runs : Loaded(r)}
  /\ reservation' = [r \in Runs |-> "none"]
  /\ env' = {}
  /\ canceller' = [r \in Runs |-> "idle"]
  /\ UNCHANGED <<ran, missed, record, result, said, told>>

Next == Reboot \/ \E r \in Runs : Submit(r) \/ Manager(r) \/ Cancel(r) \/ Wait(r)

Spec == Init /\ [][Next]_vars

-----------------------------------------------------------------------------
(* Every file and process in a state the program knows. *)
TypeOK ==
  /\ lock \subseteq {"submit", "client", "cancel"} \X Runs
  /\ Cardinality({h[2] : h \in lock}) <= 1
  /\ record \in [Runs -> {"none", "pending", "accepted", "rejected"}]
  /\ reservation \in [Runs -> {"none", "pending", "accepted", "rejected"}]
  /\ result \in [Runs -> {"none", "job", "start-failed", "cancelled-or-lost"}]
  /\ \A r \in Runs : record[r] = "none" => reservation[r] = "none" /\ result[r] = "none"

Executing == {r \in Runs : unit[r] = "running"}
Cancelled == {r \in Runs : result[r] = "cancelled-or-lost"}

(* The commands that execute, but for those a cancel was recorded of, fit  *)
(* the budget: whoever was killed in the middle, an admission never counts *)
(* less than what runs or may still start (reservation_total,              *)
(* job.py:109-120).                                                        *)
CapacityHeld == Need(Executing \ Cancelled) <= Capacity

(* Exit code 125 of `job run` is definite: the command was never executed  *)
(* and will not be (an invitation to submit again, job.py:213-228).  One   *)
(* exception: a command that ran and whose finalizer had lost its result   *)
(* by then leaves nothing that job.py:219-236 looks at.                    *)
RejectionDefinite ==
  \A r \in Runs : said[r] = 125 => (r \notin ran \/ r \in lost)

(* Whatever `job wait` printed as the outcome of a run is its outcome: no  *)
(* later finalizer or cancel writes another one, and nothing executes.     *)
(* One exception: cancelled-or-lost of a run whose cancel found its start  *)
(* job still queued and so did not stop it (job.py:352-359); finish() then *)
(* overwrites it (job.py:287).                                             *)
AnswerStands ==
  \A r \in Runs : told[r] # "none" =>
    \/ result[r] = told[r] /\ r \notin Executing
    \/ told[r] = "cancelled-or-lost" /\ r \in missed

(* What the tools said of a run, refusal or outcome, is so for good, but   *)
(* for the two exceptions above; RejectedNeverRan and WaitIsFinal are the  *)
(* same without them, and fail.                                            *)
SayingsHold == RejectionDefinite /\ AnswerStands

(* JOBS.md:65: definite launch rejection returns 125; a result that could  *)
(* not be written leaves the outcome unknown (76-78), not rejected.        *)
RejectedNeverRan == \A r \in Runs : said[r] = 125 => r \notin ran

(* JOBS.md:48-49: result.json holds the final reason, and the outcome that *)
(* `job wait` prints is read from it.                                      *)
WaitIsFinal == \A r \in Runs : told[r] # "none" => result[r] = told[r]

(* JOBS.md:72-75 of a pending uncertain reservation: cancel stops the      *)
(* run's unit, records cancelled-or-lost and releases the reservation.  A  *)
(* command whose queued start a cancel met is never executed.              *)
CancelStops == missed \cap ran = {}

(* The three sentences of JOBS.md are not all broken by one history: where *)
(* this fails each of them does, so a behaviour that refutes it refutes    *)
(* all three.                                                              *)
OnePromiseKept == RejectedNeverRan \/ WaitIsFinal \/ CancelStops

-----------------------------------------------------------------------------
(* The inductive invariant *)

Types ==
  /\ lock \subseteq {"submit", "client", "cancel"} \X Runs
  /\ submitter \in [Runs -> {"idle", "admitted", "recorded", "reserved", "launched", "uncertain",
                             "rejecting", "rejected", "accepting", "done"}]
  /\ client \in [Runs -> {"none", "calling", "ok", "failed", "killed"}]
  /\ message \in [Runs -> {"none", "sent", "served"}]
  /\ unit \in [Runs -> {"none", "queued", "launching", "running", "finalizing", "gone"}]
  /\ record \in [Runs -> {"none", "pending", "accepted", "rejected"}]
  /\ reservation \in [Runs -> {"none", "pending", "accepted", "rejected"}]
  /\ result \in [Runs -> {"none", "job", "start-failed", "cancelled-or-lost"}]
  /\ canceller \in [Runs -> {"idle", "stopping", "stopped", "recorded", "settled"}]
  /\ said \in [Runs -> {0, 70, 75, 125}]
  /\ told \in [Runs -> {"none", "job", "start-failed", "cancelled-or-lost"}]
  /\ missed \subseteq Runs

(* Who works holds the lock, for one run, and a canceller holds it alone. *)
Locked ==
  /\ \A r \in Runs :
       /\ <<"submit", r>> \in lock <=> submitter[r] \notin {"idle", "done"}
       /\ <<"client", r>> \in lock <=> client[r] = "calling"
       /\ <<"cancel", r>> \in lock <=> canceller[r] # "idle"
       /\ <<"cancel", r>> \in lock => lock = {<<"cancel", r>>}
  /\ \A h, g \in lock : h[2] = g[2]

(* Nothing is left of a run before its record, and nothing runs that       *)
(* systemd-run was not started for.                                        *)
Begun == \A r \in Runs :
  /\ submitter[r] \in {"idle", "admitted"} => record[r] = "none"
  /\ submitter[r] \notin {"idle", "admitted", "done"} \/ canceller[r] # "idle" => record[r] # "none"
  /\ record[r] = "none" => /\ reservation[r] = "none" /\ result[r] = "none"
                           /\ client[r] = "none" /\ said[r] # 125 /\ told[r] = "none"
  /\ submitter[r] \in {"recorded", "reserved"} => client[r] = "none"
  /\ client[r] = "none" => message[r] = "none"
  /\ message[r] # "served" => unit[r] = "none"
  /\ client[r] = "ok" => message[r] = "served" /\ unit[r] \notin {"none", "queued"}

(* Nothing of this run executes or ever will. *)
Dead(r) ==
  /\ submitter[r] \in {"rejecting", "rejected", "done"}
  /\ client[r] # "calling" /\ message[r] # "sent" /\ unit[r] \in {"none", "gone"}

(* What the submitter of a run knows while it holds the lock. *)
Submitting == \A r \in Runs :
  /\ submitter[r] \notin {"idle", "done"} => result[r] \in {"none", "job"}
  /\ submitter[r] \in {"reserved", "launched", "uncertain", "rejecting", "accepting"}
     \/ client[r] = "calling" => reservation[r] = "pending"
  /\ submitter[r] \in {"launched", "uncertain"} => client[r] # "none"
  /\ submitter[r] = "accepting" => client[r] = "ok"
  /\ submitter[r] \in {"rejecting", "rejected"} => result[r] = "none" /\ Dead(r)

(* What a result, a rejection and a reservation say of the unit. *)
Ended == \A r \in Runs :
  /\ result[r] = "job" => unit[r] = "gone"
  /\ result[r] = "start-failed" => Dead(r)
  /\ unit[r] = "gone" /\ result[r] = "none" => r \in lost
  /\ r \in ran => unit[r] \in {"running", "finalizing", "gone"}
  /\ said[r] = 125 => Dead(r) /\ (r \in ran => r \in lost)
  /\ reservation[r] = "rejected" => Dead(r)
  /\ reservation[r] = "accepted" => client[r] = "ok"
  /\ canceller[r] \in {"recorded", "settled"} => result[r] # "none"
  /\ canceller[r] # "idle" => message[r] # "sent"
  /\ result[r] = "cancelled-or-lost" => Dead(r) \/ r \in missed
  /\ told[r] \in {"job", "start-failed"} => result[r] = told[r]
  /\ told[r] = "cancelled-or-lost" => result[r] = told[r] \/ r \in missed

(* What executes, or will when the manager gets to it, has a reservation   *)
(* unless a cancel was recorded.                                           *)
MayRun(r) == client[r] = "calling" \/ message[r] = "sent" \/ unit[r] \in {"queued", "launching", "running"}
Covered == \A r \in Runs :
  MayRun(r) => reservation[r] # "none" \/ result[r] = "cancelled-or-lost"

(* The reservations, and the admission under way, fit the budget. *)
Counted == {r \in Runs : reservation[r] # "none" \/ submitter[r] \in {"admitted", "recorded"}}
Ledger == IsFiniteSet(Counted) /\ Need(Counted) <= Capacity

IInv == Types /\ Locked /\ Begun /\ Submitting /\ Ended /\ Covered /\ Ledger

=============================================================================
