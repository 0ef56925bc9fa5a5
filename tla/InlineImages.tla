--------------------------- MODULE InlineImages ---------------------------
(* pi-inline-images: TerminalImages (src/terminal.ts) over its transport     *)
(* (GraphicsTransport), the viewer monitor (src/viewers.ts) and the tmux     *)
(* clients that may or may not be looking at the pane when bytes go out.     *)
(*                                                                           *)
(* JavaScript is single-threaded: an action is one turn, from a resumption   *)
(* to the next await.  Settled promises resume before any timer, poll or     *)
(* sink event (NoContinuation); the host may call in between, because it     *)
(* calls from continuations of its own.                                      *)
EXTENDS Naturals, FiniteSets, Sequences, FiniteSetsExt, SequencesExt

CONSTANTS
    MaxImages,       \* bound: images prepared in one runtime
    Inline,          \* those owned by "inline"; the others are owned by "read"
    Viewers,         \* identities of tmux clients; a reconnected one is new
    MaxJobs, MaxBytes, \* the transport's limits
    MaxEvents,       \* bound: how many of these happen in one behaviour: a
                     \* client changes what it shows, the sink fails or is filled
                     \* by somebody else; an image after the first counts twice
    NoCall

ASSUME ImagesAssumption ==
    /\ MaxImages \in Nat /\ MaxJobs \in Nat /\ MaxBytes \in Nat /\ MaxEvents \in Nat
    /\ Inline \subseteq 1 .. MaxImages
    /\ NoCall \notin (1 .. MaxImages) \X {"upload", "release", "clear"}

Images == 1 .. MaxImages   \* in the insertion order of the images Map
Calls == Images \X {"upload", "release", "clear"}
Bytes(c) == IF c[2] = "upload" THEN 2 ELSE 1

VARIABLES
    transport,
    image,     \* StoredImage: [st, sent, recent, terminalResource, releasing, error]
    capture,   \* what upload() captured: [targets, current]
    viewer,    \* viewerReady, viewerEpoch, viewerReceivers: the snapshot applied
    loops,     \* images at which a setViewer() loop awaits ensureUploaded()
    releasing, \* release() operations: [Images -> state]
    purge,     \* resources a resetOwner() has yet to release
    shutdown,  \* progress of clear(true)
    rest,      \* images clear(true) has yet to delete
    watching,  \* ViewerMonitor.active
    seen,      \* ViewerMonitor.previous
    client,    \* where each tmux client really is
    events,    \* the events left
    observed,  \* a known snapshot was taken since the last change
    parted,    \* history: clients that hid the pane, receivers in the snapshot
               \* applied, while another client went on showing it
    wire,      \* per image, what the bytes sent so far amount to
    got        \* per client, the images its terminal holds

T == INSTANCE GraphicsTransport WITH MaxQueuedJobs <- MaxJobs,
                                     MaxQueuedBytes <- MaxBytes

world == <<client, events, observed, parted>>
monitor == <<watching, seen>>
owners == <<releasing, purge, shutdown, rest>>
imageVars == <<transport, image, capture, viewer, loops, owners, monitor, world,
          wire, got>>

NoSnapshot == [label |-> "none", receivers |-> {}, attached |-> {}]
Unknown == [NoSnapshot EXCEPT !.label = "unknown"]  \* a failed snapshot
Paused == [NoSnapshot EXCEPT !.label = "paused"]    \* pauseViewers()
Snapshots == [label : {"none", "unknown", "paused", "known"},
              receivers : SUBSET Viewers, attached : SUBSET Viewers]

NoCapture == [targets |-> {}, current |-> FALSE]
Unused == [st |-> "unused", sent |-> {}, recent |-> {},
           terminalResource |-> FALSE, releasing |-> FALSE, error |-> FALSE]
StoredImages == [st : {"unused", "kept", "forgotten"},
                 sent : SUBSET Viewers, recent : SUBSET Viewers,
                 terminalResource : BOOLEAN, releasing : BOOLEAN, error : BOOLEAN]
ReleaseStates == {"idle", "uploading", "go", "deleting", "done", "broken"}

\* Types, and the transport's books.
ImagesTypeOK ==
    /\ transport \in T!Transports(T!CallStates) /\ T!Booked(transport)
    /\ image \in [Images -> StoredImages]
    /\ capture \in [Images -> [targets : SUBSET Viewers, current : BOOLEAN]]
    /\ viewer \in Snapshots /\ seen \in Snapshots
    /\ loops \subseteq Images /\ purge \subseteq Images /\ rest \subseteq Images
    /\ releasing \in [Images -> ReleaseStates]
    /\ shutdown \in {"no", "uploads", "deleting", "over"}
    /\ watching \in BOOLEAN /\ observed \in BOOLEAN
    /\ client \in [Viewers -> {"hidden", "visible", "gone"}] /\ parted \subseteq Viewers
    /\ events \in 0 .. MaxEvents
    /\ wire \in [Images -> {"none", "held", "deleted"}]
    /\ got \in [Viewers -> SUBSET Images]

ImagesInit ==
    /\ transport = T!NewTransport
    /\ image = [k \in Images |-> Unused]
    /\ capture = [k \in Images |-> NoCapture]
    /\ viewer = Paused /\ seen = NoSnapshot /\ watching = FALSE
    /\ loops = {} /\ purge = {} /\ rest = {} /\ shutdown = "no"
    /\ releasing = [k \in Images |-> "idle"]
    /\ client \in [Viewers -> {"hidden", "visible"}]
    /\ events = MaxEvents /\ observed = FALSE /\ parted = {}
    /\ wire = [k \in Images |-> "none"] /\ got = [v \in Viewers |-> {}]

---------------------------------------------------------------------------
(* Bytes on their way.  tmux passes a transaction to the clients that show   *)
(* the pane at that moment and to no others (allow-passthrough on).          *)

Visible == {v \in Viewers : client[v] = "visible"}
Attached == {v \in Viewers : client[v] \in {"hidden", "visible"}}

\* One turn of the transport: it may write one transaction.
Turn(ts) == \E t \in ts :
    /\ transport' = T!Fresh(t)
    /\ IF t.wrote = NoCall THEN UNCHANGED <<wire, got>>
       ELSE LET k == t.wrote[1]
                upload == t.wrote[2] = "upload"
            IN  /\ wire' = [wire EXCEPT ![k] = IF upload THEN "held" ELSE "deleted"]
                /\ got' = [v \in Viewers |->
                       IF v \notin Visible THEN got[v]
                       ELSE IF upload THEN got[v] \cup {k} ELSE got[v] \ {k}]
Quiet == UNCHANGED <<transport, wire, got>>

pc(k, call) == transport.pc[<<k, call>>]
Kept == {k \in Images : image[k].st = "kept"}
Uploading(k) == pc(k, "upload") # "idle"

\* A settled promise whose continuation has not run.
Settled == {"admitted", "late", "drained", "cancelled", "failed"}
NoContinuation ==
    /\ \A c \in Calls : transport.pc[c] \notin Settled
    /\ \A k \in loops : Uploading(k)
    /\ \A k \in Images : releasing[k] # "go"
    /\ purge = {} \/ \E k \in purge : releasing[k] \in {"uploading", "deleting"}
    /\ shutdown = "uploads" => \E k \in Kept : Uploading(k)
    /\ shutdown = "deleting" => \E k \in Images : pc(k, "clear") # "idle"

---------------------------------------------------------------------------
(* ensureUploaded() and upload(). *)

\* The loop's condition: someone can receive the image and has not been sent it.
Needs(img, vw) ==
    /\ img.st = "kept" /\ ~img.releasing /\ ~img.error
    /\ vw.receivers # {} /\ ~(vw.receivers \subseteq img.sent)

\* ensureUploaded(k) with no upload in flight, from transport t, as far as its
\* first await.
Ensure(k, img, t) ==
    IF Needs(img, viewer)
    THEN /\ Turn(T!Enqueue(t, <<k, "upload">>))
         /\ capture' = [capture EXCEPT ![k] =
                [targets |-> viewer.receivers \ img.sent, current |-> TRUE]]
    ELSE Turn({t}) /\ capture' = [capture EXCEPT ![k] = NoCapture]

\* prepare() of a new image.
Prepare ==
    /\ shutdown = "no"
    /\ \E k \in Images :
        /\ image[k].st = "unused" /\ \A j \in 1 .. k - 1 : image[j].st # "unused"
        /\ IF k = 1 THEN UNCHANGED events ELSE events > 1 /\ events' = events - 2
        /\ image' = [image EXCEPT ![k].st = "kept"]
        /\ Ensure(k, image'[k], transport)
    /\ UNCHANGED <<viewer, loops, owners, monitor, client, observed, parted>>

\* prepare() of an image that is already stored.
PrepareAgain ==
    /\ shutdown = "no"
    /\ \E k \in Kept : ~Uploading(k) /\ Needs(image[k], viewer)
                        /\ Ensure(k, image[k], transport)
    /\ UNCHANGED <<image, viewer, loops, owners, monitor, world>>

\* Mutant: terminalResource is left for the end of the upload.
UploadAdmittedUnowned(k) ==
    /\ pc(k, "upload") \in {"admitted", "late"}
    /\ Turn(T!Ready(transport, <<k, "upload">>))
    /\ UNCHANGED <<image, capture, viewer, loops, owners, monitor, world>>

\* upload(): enqueue() has resolved.
UploadAdmitted(k) ==
    /\ pc(k, "upload") \in {"admitted", "late"}
    /\ image' = [image EXCEPT ![k].terminalResource = TRUE]
    /\ Turn(T!Ready(transport, <<k, "upload">>))
    /\ UNCHANGED <<capture, viewer, loops, owners, monitor, world>>

\* The release of an image that waited for its upload goes on.
Resumed(k, to) ==
    IF releasing[k] = "uploading" THEN [releasing EXCEPT ![k] = to] ELSE releasing

\* upload(): ready() has resolved, or the upload was cancelled; whoever
\* started it goes round its loop again.
UploadEnded(k) ==
    LET img == image[k]
        mark == /\ pc(k, "upload") = "drained"
                /\ img.st = "kept" /\ ~img.releasing /\ capture[k].current
                /\ capture[k].targets \subseteq viewer.receivers
        next == IF mark
                THEN [img EXCEPT !.sent = @ \cup capture[k].targets,
                                 !.recent = @ \cup capture[k].targets]
                ELSE img
    IN  /\ pc(k, "upload") \in {"drained", "cancelled"}
        /\ image' = [image EXCEPT ![k] = next]
        /\ releasing' = Resumed(k, "go")
        /\ Ensure(k, next, T!Goto(transport, <<k, "upload">>, "idle"))
        /\ UNCHANGED <<viewer, loops, purge, shutdown, rest, monitor, world>>

\* upload() throws: every awaiting loop throws with it and stops.
UploadFailed(k) ==
    /\ pc(k, "upload") = "failed"
    /\ Turn({T!Goto(transport, <<k, "upload">>, "idle")})
    /\ image' = [image EXCEPT ![k].error = TRUE,
                    ![k].releasing = @ /\ releasing[k] # "uploading"]
    /\ releasing' = Resumed(k, "broken")
    /\ loops' = loops \ {k} /\ capture' = [capture EXCEPT ![k] = NoCapture]
    /\ UNCHANGED <<viewer, purge, shutdown, rest, monitor, world>>

---------------------------------------------------------------------------
(* Viewers. *)

Truth == [label |-> "known", receivers |-> Visible, attached |-> Attached]
IsReady(s) == s.receivers # {}

\* Mutant: a failed snapshot moves the boundary as well.
RevokeForgetful(img, s, changed) ==
    IF s.label # "known" THEN [img EXCEPT !.recent = {}]
    ELSE [img EXCEPT !.sent = (@ \cap s.attached)
                        \ (IF changed /\ ~IsReady(s) THEN img.recent ELSE {}),
                     !.recent = {}]

\* Prune the marks of clients that left; a known snapshot in which nobody can
\* receive also revokes the marks made since the last known one.
Revoke(img, s, changed) ==
    IF s.label # "known" THEN img
    ELSE [img EXCEPT !.sent = (@ \cap s.attached)
                        \ (IF changed /\ ~IsReady(s) THEN img.recent ELSE {}),
                     !.recent = {}]

Outdated == [k \in Images |-> [capture[k] EXCEPT !.current = FALSE]]

\* cancelResource() for each of the images S in turn.
CancelUploads(S, t) ==
    FoldLeft(LAMBDA ts, k : IF k \notin S THEN ts ELSE
                UNION {T!CancelCall(u, <<k, "upload">>) : u \in ts},
             {t}, [k \in Images |-> k])

\* check(): the monitor reports a snapshot that differs, and setViewer() runs
\* as far as the first image of its loop.
Poll ==
    /\ NoContinuation /\ watching
    /\ \E s \in {Truth, Unknown} :
        /\ seen' = s
        /\ observed' = (observed \/ s = Truth)
        /\ IF s = seen
           THEN Quiet /\ UNCHANGED <<image, capture, viewer, loops>>
           ELSE LET changed == s # viewer IN
                /\ viewer' = s
                /\ image' = [k \in Images |-> IF k \in Kept
                                THEN Revoke(image[k], s, changed) ELSE image[k]]
                /\ IF changed THEN capture' = Outdated /\ Turn(CancelUploads(Kept, transport))
                   ELSE UNCHANGED capture /\ Turn({transport})
                /\ loops' = IF IsReady(s) /\ Kept # {}
                            THEN loops \cup {Min(Kept)} ELSE loops
    /\ UNCHANGED <<owners, watching, client, events, parted>>

\* A setViewer() loop at an image whose upload is not in flight: it starts
\* one or goes on to the next image of the map.
LoopStep(k) ==
    /\ k \in loops /\ ~Uploading(k)
    /\ Ensure(k, image[k], transport)
    /\ LET later == {j \in Kept : j > k} IN
        loops' = IF Needs(image[k], viewer) THEN loops
                 ELSE (loops \ {k}) \cup (IF later = {} THEN {} ELSE {Min(later)})
    /\ UNCHANGED <<image, viewer, owners, monitor, world>>

\* syncMonitor(), which the extension calls after every operation.
SyncMonitor ==
    /\ shutdown = "no" /\ watching # (Kept # {})
    /\ watching' = ~watching /\ seen' = NoSnapshot
    /\ IF watching THEN viewer' = Paused /\ capture' = Outdated
       ELSE UNCHANGED <<viewer, capture>>
    /\ Quiet /\ UNCHANGED <<image, loops, owners, world>>

\* What the clients do.  README.md:133-137 excludes a hide-and-return between
\* two polls: a change waits until a known snapshot saw the one before.
ClientMoves ==
    /\ NoContinuation /\ shutdown = "no" /\ events > 0 /\ (observed \/ ~watching)
    /\ \E v \in Viewers, to \in {"hidden", "visible", "gone"} :
        /\ client[v] # to /\ client[v] # "gone"
        /\ client' = [client EXCEPT ![v] = to]
        /\ got' = IF to = "gone" THEN [got EXCEPT ![v] = {}] ELSE got
        /\ parted' = IF to = "hidden" /\ v \in viewer.receivers /\ Visible # {v}
                     THEN parted \cup {v} ELSE parted
    /\ events' = events - 1 /\ observed' = FALSE
    /\ UNCHANGED <<transport, image, capture, viewer, loops, owners, monitor, wire>>

---------------------------------------------------------------------------
(* release(), resetOwner() and clear(true). *)

ForgetImage(k) == [image EXCEPT ![k] = [Unused EXCEPT !.st = "forgotten"]]

\* release(k): cancel the unsent upload and wait for the one in flight.
StartRelease(k) ==
    /\ image' = [image EXCEPT ![k].releasing = TRUE]
    /\ Turn(T!CancelCall(transport, <<k, "upload">>))
    /\ releasing' = [releasing EXCEPT ![k] =
                        IF Uploading(k) THEN "uploading" ELSE "go"]

Release ==
    /\ shutdown = "no"
    /\ \E k \in Kept : releasing[k] = "idle" /\ StartRelease(k)
    /\ UNCHANGED <<capture, viewer, loops, purge, shutdown, rest, monitor, world>>

\* resetOwner("inline"): all of the owner's images stop uploading before the
\* first of them is released; they are then released one after the other.
ResetOwner ==
    /\ shutdown = "no" /\ purge = {}
    /\ LET S == Kept \cap Inline IN
        /\ S # {} /\ purge' = S
        /\ image' = [k \in Images |-> IF k \in S
                        THEN [image[k] EXCEPT !.releasing = TRUE] ELSE image[k]]
        /\ Turn(CancelUploads(S, transport))
    /\ UNCHANGED <<capture, viewer, loops, releasing, shutdown, rest, monitor, world>>

\* The next release of a resetOwner(); one that is over is passed.
PurgeStep ==
    /\ purge # {}
    /\ LET k == Min(purge) IN
        \/ /\ releasing[k] = "idle" /\ k \in Kept /\ StartRelease(k)
           /\ UNCHANGED purge
        \/ /\ releasing[k] \in {"done", "broken"} \/ k \notin Kept
           /\ purge' = purge \ {k} /\ Quiet /\ UNCHANGED <<image, releasing>>
    /\ UNCHANGED <<capture, viewer, loops, shutdown, rest, monitor, world>>

\* The upload is over: what the terminal may hold is deleted first.
ReleaseGo(k) ==
    /\ releasing[k] = "go"
    /\ IF image[k].terminalResource
       THEN /\ releasing' = [releasing EXCEPT ![k] = "deleting"]
            /\ Turn(T!Enqueue(transport, <<k, "release">>)) /\ UNCHANGED image
       ELSE /\ releasing' = [releasing EXCEPT ![k] = "done"]
            /\ image' = ForgetImage(k) /\ Quiet
    /\ UNCHANGED <<capture, viewer, loops, purge, shutdown, rest, monitor, world>>

ReleaseAdmitted(k) ==
    /\ pc(k, "release") \in {"admitted", "late"}
    /\ Turn(T!Ready(transport, <<k, "release">>))
    /\ UNCHANGED <<image, capture, viewer, loops, owners, monitor, world>>

\* The delete is out and drained, or release() throws and keeps the image.
ReleaseEnded(k) ==
    /\ pc(k, "release") \in {"drained", "cancelled", "failed"}
    /\ Turn({T!Goto(transport, <<k, "release">>, "idle")})
    /\ IF pc(k, "release") = "drained"
       THEN /\ image' = ForgetImage(k)
            /\ releasing' = [releasing EXCEPT ![k] = "done"]
       ELSE /\ image' = [image EXCEPT ![k].releasing = FALSE, ![k].error = TRUE]
            /\ releasing' = [releasing EXCEPT ![k] = "broken"]
    /\ UNCHANGED <<capture, viewer, loops, purge, shutdown, rest, monitor, world>>

\* session_shutdown: the monitor stops and clear(true) begins.  Nobody calls
\* the extension any more.
Shutdown ==
    /\ shutdown = "no"
    /\ watching' = FALSE /\ seen' = NoSnapshot
    /\ IF transport.state = "failed"
       THEN shutdown' = "over" /\ Turn({T!Dispose(transport)}) /\ UNCHANGED image
       ELSE /\ shutdown' = "uploads" /\ Turn({T!CancelAll(transport)})
            /\ image' = [k \in Images |-> IF k \in Kept
                            THEN [image[k] EXCEPT !.releasing = TRUE] ELSE image[k]]
    /\ UNCHANGED <<capture, viewer, loops, releasing, purge, rest, world>>

ClearStarts ==
    /\ shutdown = "uploads" /\ \A k \in Kept : ~Uploading(k)
    /\ shutdown' = "deleting" /\ rest' = Kept
    /\ Quiet
    /\ UNCHANGED <<image, capture, viewer, loops, releasing, purge, monitor, world>>

ClearNext ==
    /\ shutdown = "deleting" /\ \A k \in Images : pc(k, "clear") = "idle"
    /\ IF rest = {}
       THEN shutdown' = "over" /\ Turn({T!Dispose(transport)}) /\ UNCHANGED <<rest, image>>
       ELSE LET k == Min(rest) IN
            /\ rest' = rest \ {k} /\ UNCHANGED shutdown
            /\ IF image[k].terminalResource
               THEN Turn(T!Enqueue(transport, <<k, "clear">>)) /\ UNCHANGED image
               ELSE Quiet /\ image' = ForgetImage(k)
    /\ UNCHANGED <<capture, viewer, loops, releasing, purge, monitor, world>>

ClearAdmitted(k) ==
    /\ pc(k, "clear") \in {"admitted", "late"}
    /\ Turn(T!Ready(transport, <<k, "clear">>))
    /\ UNCHANGED <<image, capture, viewer, loops, owners, monitor, world>>

\* A delete that fails ends clear(); the transport is disposed of either way.
ClearEnded(k) ==
    /\ pc(k, "clear") \in {"drained", "cancelled", "failed"}
    /\ LET t == T!Goto(transport, <<k, "clear">>, "idle") IN
        IF pc(k, "clear") = "drained"
        THEN image' = ForgetImage(k) /\ Turn({t}) /\ UNCHANGED shutdown
        ELSE shutdown' = "over" /\ Turn({T!Dispose(t)}) /\ UNCHANGED image
    /\ UNCHANGED <<capture, viewer, loops, releasing, purge, rest, monitor, world>>

---------------------------------------------------------------------------
(* Timers and the sink. *)

Event(ts) ==
    /\ NoContinuation /\ Turn(ts)
    /\ UNCHANGED <<image, capture, viewer, loops, owners, monitor, client, observed, parted>>

IntervalOver ==
    transport.pacing /\ Event({T!IntervalOver(transport)}) /\ UNCHANGED events
PumpTimer == Event(T!TimerFired(transport)) /\ UNCHANGED events
Drain == transport.needDrain /\ Event(T!Drained(transport)) /\ UNCHANGED events
\* Pi's own rendering fills the shared standard output.
OtherOutput ==
    /\ ~transport.needDrain /\ Event({[transport EXCEPT !.needDrain = TRUE]})
    /\ events > 0 /\ events' = events - 1
\* "error", "close", or no drain within the deadline.
SinkFails ==
    /\ T!Live(transport) /\ Event({T!Fail(transport)})
    /\ events > 0 /\ events' = events - 1

Continue(k) ==
    \/ UploadAdmitted(k) \/ UploadEnded(k) \/ UploadFailed(k) \/ LoopStep(k)
    \/ ReleaseGo(k) \/ ReleaseAdmitted(k) \/ ReleaseEnded(k)
    \/ ClearAdmitted(k) \/ ClearEnded(k)
Continuation == (\E k \in Images : Continue(k)) \/ PurgeStep \/ ClearStarts \/ ClearNext

ImagesNext ==
    \/ Continuation
    \/ Prepare \/ PrepareAgain \/ Release \/ ResetOwner \/ Shutdown
    \/ SyncMonitor \/ Poll \/ ClientMoves
    \/ IntervalOver \/ PumpTimer \/ Drain \/ SinkFails \/ OtherOutput

ImagesSpec == ImagesInit /\ [][ImagesNext]_imageVars

---------------------------------------------------------------------------
(* Properties. *)

\* README.md:246-249: what the terminal was sent stays owned until its delete
\* is out.  Forgetting an image whose upload was accepted (the upload's
\* continuation still to run, a reset in between) would leave pixels in the
\* terminal under an id that may be given out again.
NoOrphan ==
    \A k \in Images : wire[k] = "held" =>
        /\ image[k].st = "kept"
        /\ image[k].terminalResource \/ Uploading(k)

\* No lost wakeup: admitted work, and a caller waiting to render after it,
\* always has a running timer or a drain the sink still owes it.
NothingStranded ==
    /\ T!Awake(transport)
    /\ T!Live(transport) /\ transport.waiting => transport.needDrain

\* The clients `who` that look on hold every image they count as served with.
Served(who) ==
    observed /\ shutdown = "no" =>
        \A k \in Kept, v \in Visible \cap who :
            v \in image[k].sent /\ ~image[k].error /\ ~image[k].releasing
                => k \in got[v]

\* An image a grid is drawn for is in the terminal of the clients that look on:
\* marks made in a visibility race are revoked before the client returns.  Left
\* out are the clients that hid while another one went on looking: an upload on
\* its way to them leaves a mark that stays, since terminal.ts:188 revokes marks
\* only when nobody can receive.
RenderedIsThere == Served(Viewers \ parted)

\* README.md:130-131: "an upload accepted during a visibility race is retried
\* when that receiver returns", whoever else looked on in the meantime.
EveryReceiverServed == Served(Viewers)

\* What the terminals hold and what the extension believes they hold agree.
ImagesAgree == NoOrphan /\ RenderedIsThere

\* No transaction starts while an earlier one the sink answered FALSE to is
\* undrained: pi's own output cannot be overtaken by graphics bytes.
DrainRespected ==
    [][\A c \in Calls :
          transport'.pc[c] = "admitted" /\ transport.pc[c] # "admitted"
            => transport'.undrained <= Bytes(c)]_imageVars

\* README.md:115: transactions start no closer than the pacing interval.
Paced ==
    [][wire' # wire => ~transport.pacing]_imageVars

---------------------------------------------------------------------------
(* The inductive invariant, for the proofs.  What one turn leaves behind in  *)
(* the transport is Owed and Awake; the rest relates the calls under way to  *)
(* the images, to what the terminals were sent and to who looks on.          *)

Flowing == transport.wrote = NoCall /\ T!Owed(transport) /\ T!Awake(transport)

\* An image being released or cleared takes no further upload, and each call
\* belongs to a stage of its image.
Staged ==
    /\ \A k \in Images :
        /\ Uploading(k) => image[k].st = "kept"
        /\ image[k].st = "unused" => image[k] = Unused /\ releasing[k] = "idle"
        /\ releasing[k] \in {"uploading", "go", "deleting"} /\ image[k].st = "kept"
            => image[k].releasing
        /\ releasing[k] \in {"go", "deleting"} => ~Uploading(k)
        /\ pc(k, "release") # "idle" => releasing[k] = "deleting"
        /\ pc(k, "clear") # "idle" =>
            shutdown = "deleting" /\ \A j \in Images \ {k} : pc(j, "clear") = "idle"
        /\ shutdown \in {"uploads", "deleting"} /\ image[k].st = "kept"
            => image[k].releasing \/ image[k].error
        /\ shutdown = "deleting" => ~Uploading(k)

\* Held pixels are known, or their upload is about to make them known; a
\* delete that went out was the last thing sent of its image.
Sent == {"admitted", "waiting", "drained"}
Held == \A k \in Images :
    /\ wire[k] = "held" =>
        /\ image[k].st = "kept"
        /\ image[k].terminalResource \/ pc(k, "upload") \in {"admitted", "late"}
    /\ pc(k, "release") \in Sent \/ pc(k, "clear") \in Sent => wire[k] # "held"

\* v hides the pane, nobody shows it and no snapshot has seen that yet.
Missed(v) == client[v] = "hidden" /\ ~observed /\ Visible = {}

\* The snapshot applied: it is the truth if it is known and nothing happened
\* since, and an upload still current was meant for those who can receive.
Watched ==
    /\ viewer.label # "known" => viewer.receivers = {}
    /\ seen.label \in {"known", "unknown"} => viewer = seen
    /\ observed /\ viewer.label = "known" => viewer = Truth
    /\ ~watching /\ shutdown = "no" => viewer = Paused
    /\ viewer.label = "paused" => \A k \in Kept : image[k].sent = {}
    /\ \A k \in Images : capture[k].current => capture[k].targets \subseteq viewer.receivers
    /\ \A v \in viewer.receivers \ parted : client[v] = "hidden" => Missed(v)

\* A mark without the image is one of the visibility race: its client hides,
\* nobody has seen it yet, and the snapshot that does will revoke it.
Marked ==
    shutdown = "no" =>
        \A k \in Kept, v \in Viewers \ parted :
            client[v] # "gone" /\ ~image[k].error /\ ~image[k].releasing =>
                /\ v \in image[k].sent =>
                    \/ k \in got[v]
                    \/ Missed(v) /\ v \in image[k].recent /\ viewer # Truth
                /\ capture[k].current /\ v \in capture[k].targets /\ pc(k, "upload") \in Sent
                    => k \in got[v] \/ Missed(v)

ImagesInv == ImagesTypeOK /\ Flowing /\ Staged /\ Held /\ Watched /\ Marked

===========================================================================
