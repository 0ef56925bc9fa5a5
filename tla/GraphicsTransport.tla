------------------------- MODULE GraphicsTransport -------------------------
(* BoundedTransport of pi-inline-images (src/transport.ts): the one queue    *)
(* through which every graphics transaction of a Pi process reaches its      *)
(* standard output.  A transport is a record; an operation maps it to the    *)
(* SET of transports it may leave behind, because the sink may accept a      *)
(* write with either answer and a resumed queue may or may not still be      *)
(* within the pacing interval.  InlineImages composes it with its caller.    *)
(*                                                                           *)
(* A call is one enqueue() together with the ready() its caller awaits next. *)
(* JavaScript runs each of them to completion; "admitted", "drained",        *)
(* "cancelled" and "failed" say that the promise is settled and that the     *)
(* caller's continuation has yet to run.  The retained and coalesced keys of *)
(* a request are left out (no caller passes one), so are sinks that answer   *)
(* while write() is on the stack (standard output does not).                 *)
EXTENDS Naturals, Sequences, FiniteSets, SequencesExt

CONSTANTS
    Calls,          \* the calls that may ever be made
    Bytes(_),       \* the wire bytes of a call's transaction
    MaxQueuedJobs,  \* limits.maxQueuedJobs
    MaxQueuedBytes, \* limits.maxQueuedBytes
    NoCall          \* no transaction

CallStates == {"idle", "queued", "admitted", "late", "waiting",
               "drained", "cancelled", "failed"}

(* t.timer is the timer pumpTimer refers to; t.strayDue and t.strayLater     *)
(* tell of running timers whose handle pump() has overwritten (bound: any    *)
(* number of them counts as one).  A timer is due once the pacing interval   *)
(* of the write it follows is over.                                          *)
Transports(pcs) ==
    [queue : Seq(Calls), undrained : Nat, backpressured : BOOLEAN,
     waiting : BOOLEAN, timer : {"none", "later", "due"},
     strayDue : BOOLEAN, strayLater : BOOLEAN, pacing : BOOLEAN, needDrain : BOOLEAN,
     state : {"live", "failed", "disposed"}, wrote : Calls \cup {NoCall},
     pc : [Calls -> pcs]]

NewTransport ==
    [queue |-> <<>>, undrained |-> 0, backpressured |-> FALSE,
     waiting |-> FALSE, timer |-> "none", strayDue |-> FALSE, strayLater |-> FALSE,
     pacing |-> FALSE, needDrain |-> FALSE, state |-> "live",
     wrote |-> NoCall, pc |-> [c \in Calls |-> "idle"]]

\* The books: a promise is pending exactly while its job is in the queue, once.
Booked(t) ==
    /\ {c \in Calls : t.pc[c] = "queued"} = ToSet(t.queue)
    /\ IsInjective(t.queue)

\* The transport at the start of a turn of the event loop.
Fresh(t) == [t EXCEPT !.wrote = NoCall]

Live(t) == t.state = "live"
QueuedBytes(t) == FoldLeft(LAMBDA n, c : n + Bytes(c), 0, t.queue)
Goto(t, c, pc) == [t EXCEPT !.pc[c] = pc]
Move(t, from, to) ==
    [t EXCEPT !.pc = [c \in Calls |-> IF t.pc[c] \in from THEN to ELSE t.pc[c]]]

\* What an undrained write leaves behind: the backpressure, the wait for the
\* drain and the drain itself go together.
Owed(t) == Live(t) =>
    /\ t.waiting <=> t.backpressured
    /\ t.waiting => t.needDrain
    /\ t.undrained > 0 => t.waiting

\* Queued work has a timer or a drain to come, and a caller that waits to
\* render has queued work or a drain before it.
Awake(t) == Live(t) =>
    /\ t.queue # <<>> =>
        t.timer # "none" \/ t.strayDue \/ t.strayLater \/ t.waiting
    /\ (\E c \in Calls : t.pc[c] = "waiting") => t.queue # <<>> \/ t.waiting

---------------------------------------------------------------------------
(* Timers.  pump() forgets the handle of a timer that has not fired. *)

LosePumpTimer(t) ==
    [t EXCEPT !.timer = "none",
              !.strayDue = @ \/ t.timer = "due",
              !.strayLater = @ \/ t.timer = "later"]
ClearPumpTimer(t) == [t EXCEPT !.timer = "none"]
SchedulePump(t) == IF t.timer = "none" THEN [t EXCEPT !.timer = "later"] ELSE t

SettleReady(t) ==
    IF t.queue # <<>> \/ t.backpressured \/ ~Live(t) THEN t
    ELSE Move(t, {"waiting"}, "drained")

RejectAll(t, why) == [Move(t, {"queued", "waiting"}, why) EXCEPT !.queue = <<>>]

WaitForDrain(t) == [t EXCEPT !.backpressured = TRUE, !.waiting = TRUE]

\* resume() right after a write: the pacing interval has just begun.
ResumePaced(t) ==
    IF ~Live(t) \/ t.queue = <<>> THEN t
    ELSE IF t.backpressured \/ t.needDrain \/ t.undrained > 0 THEN WaitForDrain(t)
    ELSE SchedulePump(t)

\* The head of the queue is handed to the sink, which accepts all of it; the
\* answer FALSE asks the writer to wait for "drain".
Written(t, answer) ==
    LET c == Head(t.queue)
        w == [Goto(t, c, "admitted") EXCEPT
                 !.queue = Tail(@), !.wrote = c, !.pacing = TRUE,
                 !.needDrain = @ \/ ~answer]
    IN  IF answer
        THEN LET u == [w EXCEPT !.backpressured = FALSE, !.waiting = FALSE]
             IN  IF u.queue # <<>> THEN ResumePaced(u) ELSE SettleReady(u)
        ELSE WaitForDrain([w EXCEPT !.undrained = @ + Bytes(c)])

\* Mutant: a timer that fires writes without looking at the backpressure.
PumpBlind(t) ==
    LET u == LosePumpTimer(t)
    IN  IF ~Live(u) \/ u.queue = <<>> THEN {u}
        ELSE {Written(u, answer) : answer \in BOOLEAN}

\* pump() does not look at the sink's writableNeedDrain again.
Pump(t) ==
    LET u == LosePumpTimer(t)
    IN  IF ~Live(u) \/ u.backpressured \/ u.queue = <<>> THEN {u}
        ELSE {Written(u, answer) : answer \in BOOLEAN}

Resume(t) ==
    IF t.pacing \/ ~Live(t) \/ t.queue = <<>> \/ t.backpressured
         \/ t.needDrain \/ t.undrained > 0
    THEN {ResumePaced(t)}
    ELSE Pump(t)

---------------------------------------------------------------------------
(* Operations of the transport's caller. *)

Enqueue(t, c) ==
    IF ~Live(t) \/ Len(t.queue) >= MaxQueuedJobs
         \/ QueuedBytes(t) + t.undrained + Bytes(c) > MaxQueuedBytes
    THEN {Goto(t, c, "failed")}
    ELSE Resume([Goto(t, c, "queued") EXCEPT !.queue = Append(@, c)])

\* A call admitted before cancel() carries a stale generation.
Ready(t, c) ==
    IF ~Live(t) THEN {Goto(t, c, "failed")}
    ELSE IF t.pc[c] = "late" THEN {Goto(t, c, "cancelled")}
    ELSE IF t.queue = <<>> /\ ~t.backpressured THEN {Goto(t, c, "drained")}
    ELSE LET w == Goto(t, c, "waiting")
         IN  IF w.backpressured THEN {WaitForDrain(w)} ELSE Resume(w)

\* Mutants: the timer goes with the job and nobody resumes the queue; the
\* promise is rejected and the job stays.
CancelCallOnly(t, c) ==
    IF t.pc[c] # "queued" THEN {t}
    ELSE {ClearPumpTimer([Goto(t, c, "cancelled") EXCEPT
            !.queue = RemoveFirst(@, c)])}
CancelCallQueued(t, c) ==
    IF t.pc[c] # "queued" THEN {t} ELSE Resume(Goto(t, c, "cancelled"))

\* cancelResource(): unsent work only; flow control is left alone.
CancelCall(t, c) ==
    IF t.pc[c] # "queued" THEN {t}
    ELSE LET u == ClearPumpTimer([Goto(t, c, "cancelled") EXCEPT
                     !.queue = RemoveFirst(@, c)])
         IN  IF u.queue = <<>> THEN {SettleReady(u)} ELSE Resume(u)

\* cancel(): a new generation; the sink still owes its drain.
CancelAll(t) ==
    LET u == Move(RejectAll(ClearPumpTimer(t), "cancelled"), {"admitted"}, "late")
    IN  IF u.needDrain \/ u.undrained > 0 \/ u.backpressured
        THEN WaitForDrain(u) ELSE [u EXCEPT !.waiting = FALSE]

Stopped(t, state) ==
    IF t.state = "disposed" \/ t.state = state THEN t
    ELSE [RejectAll(ClearPumpTimer(t), "failed") EXCEPT
            !.state = state, !.waiting = FALSE, !.undrained = 0]

Fail(t) == IF Live(t) THEN Stopped(t, "failed") ELSE t
Dispose(t) == [Stopped(t, "disposed") EXCEPT !.backpressured = FALSE]

---------------------------------------------------------------------------
(* Events of the sink and of the clock. *)

Drained(t) ==
    IF ~t.waiting THEN {[t EXCEPT !.needDrain = FALSE]}
    ELSE {SettleReady(u) : u \in Resume([t EXCEPT
            !.needDrain = FALSE, !.undrained = 0, !.waiting = FALSE,
            !.backpressured = FALSE])}

IntervalOver(t) ==
    [t EXCEPT !.pacing = FALSE, !.strayLater = FALSE,
              !.strayDue = @ \/ t.strayLater,
              !.timer = IF @ = "later" THEN "due" ELSE @]

\* A due timer fires: the one pumpTimer names, or one pump() had forgotten.
TimerFired(t) ==
    (IF t.timer = "due" THEN Pump([t EXCEPT !.timer = "none"]) ELSE {})
      \cup (IF t.strayDue THEN Pump([t EXCEPT !.strayDue = FALSE]) ELSE {})
===========================================================================
