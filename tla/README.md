# quick-deploy: a verification project

TLA+ models of the parts of this repository whose correctness depends on the
order of things: crashes between two writes, late or lost SSH calls, two
commands on one directory, a unit that systemd starts on its own, a callback
that runs after what it was for has gone. Each model is checked with TLC on
small instances; every safety property they check is also proved with TLAPS for
all values of the constants (section 4).

The repository has no README of its own: it is a set of tools one person uses to
deploy a VPS proxy (`vps/`), to set up workstations (`fresh-install/`,
`clash-verge/`, `tailscale/`, `syncthing/`) and to run coding agents on them
(`pi-agent/`, `codoxear/`). Paths below are relative to the repository.

## 1. Inventory

### vps: one owned host, several management PCs

| component | code | state | operations | hard behaviour |
|---|---|---|---|---|
| host transaction engine | `vps/lib/host.py` | under `/var/lib/qd-3x-ui`: `pending.json` (phase, lease, boot), `device-rollback/`, receipts, `backup-stop.json`, `export-sha256`, `active/` (database, manifest, Caddyfile), the stored `host.py`; two systemd services | prepare, devices-prepare, transport-prepare, backup, devices-commit, transport-commit, commit, abort, recover (oneshot and timer), guard (`ExecStartPre`), CDN witness | killed or rebooted between any two writes; the lease lapses under a running caller; systemd restarts services by itself; lock and unit ordering can deadlock |
| management PC | `vps/lib/vps.py`, `connect.py` | `state.json`, `pending.json`, `backups/`, `outputs/`, `.lock` | deploy, refresh, devices, backup, upgrade, cdn, recover, connect | replies are lost, calls outlive their PC, several PCs share the host, a candidate archive looks like a published one |
| browser manager | `vps/lib/manage.py` | job records in `manage-jobs/`, memory copies, `.session.lock`, `state/.lock` held by the child | admit, worker, job child, reload, stop, terminate | the child outlives its manager; requests are posted again; the page is stale; stopping races admission |
| manager authentication and command line | `manage_auth.py`, `manage_cli.py` | `master.key`, the page `vps/index.html`, the loopback port, sessions with their replay sets | start, refresh, bind, write the page, reuse a running manager; hello, consume | two first starts; two state directories share one page and one port; bounded sets that forget |
| set-up and connect | `setup_ensure.py`, `connect.py`, `connect_read.py` | `state.json`, `pending.json`, the archive it names; on the host the lock a collection holds | probe, decide, install, repair, attach, collect | the probe is old when it is used; the node goes on changing while it is copied; a lost reply to an installation |
| CDN acceptance | `cdn_probe.py`, `_cdn` of `vps.py`, the `transport-auth-*` calls of `host.py` | the CDN candidate, the diagnostic template and log, the proof, the `auth` part of `pending.json` | orange cloud, edge, begin, positive and negative connection, finish, reconnect, commit | a broken connection proves nothing; the diagnostic may die between any two of its writes; the panel is edited meanwhile |
| dashboards, bootstrap, SSH proxy | `link_dashboard.py`, ... | rendered files | one pass | none |

The PC calls the host over SSH (`remote`, vps.py:361); the host answers under
`/run/lock/qd-3x-ui.lock`. A PC writes `pending.json` before a call it may have
to reconcile. The manager runs PC commands in children.

*Correct means*: a state is never half changed once the journals are closed; what
was running runs again; nothing is published that the PC has no archive of; a
PC's saved authority was published; a committed operation is never forgotten or
repeated; what the manager reports is true for good; a directory keeps the node
it has; a page acts on the VPS it was shown for; a CDN transport is published
only if its own core was seen to refuse a stranger.

### pi-agent: extensions of a terminal coding agent

| component | code | state | hard behaviour |
|---|---|---|---|
| inline image transport | `pi-inline-images/src/transport.ts` | bounded queue, drain and pacing timers, promises | settled promises run later than the event that settled them; overwritten timers; the drain the sink owes |
| inline images | `terminal.ts`, `viewers.ts`, `index.ts`, `session.ts` | images, marks per tmux client, epoch of the viewer snapshot | uploads end after the viewers or the image have changed |
| copy-links dispatch | `pi-copy-links/src/dispatcher.ts`, `receiver.ts`, `source.ts` | one exchange PREPARED/COMMIT per click, the input terminal | timeout after commit, topology re-read between awaits |
| window status and recovery | `pi-tmux-window-status/state.mjs`, `recovery.mjs`, `animator.mjs` | one recovery timer and budget, lease in tmux options, a kernel socket as lock | the timer against typing, new runs and expired contexts |
| remote clipboard, suspend guard, skills | `pi-remote-clipboard`, `pi-suspend-guard`, `skills` | a request file or buffer; none; none | little |

*Correct means*: every picture sent to the terminal is deleted before it is
forgotten; a grid is drawn only over an image the client has; no admitted work
waits for nobody; bytes do not overtake blocked output.

### fresh-install, codoxear, clash-verge, tailscale, syncthing

| component | code | state | hard behaviour |
|---|---|---|---|
| workstation jobs | `fresh-install/modules/tmux/runtime/job.py` | a ledger of reservations under `/run/user/UID`, run directories, transient units, `admission.lock` | killed submitters, uncertain answers of systemd-run, cancel against queued units and finalizers |
| session handoff | `codoxear/session-handoff/engine.py`, its life in `web-host/host.py` | operations by UUID in memory and in one file each, the request map, one task per operation | native POSTs without an answer, writes that fail after they took effect, restart, close while running |
| installers | the `*.sh` modules, `clash-verge/lib`, `tailscale/derp-bypass.py` | files of the machine | sequential |

## 2. Modules

| module | models | role |
|---|---|---|
| `DurableChoice` | what a host promises one deployment | abstract specification |
| `HostTransaction` | host.py device and transport operations | detailed specification; implements `DurableChoice` |
| `LocalControl` | vps.py on several PCs, the host at the grain of calls | what the atomic calls of `HostTransaction` are used for |
| `ManageJobs` | manage.py over one state directory | one level up: children are vps.py commands |
| `NodeSetup` | setup_ensure.py, connect.py, connect_read.py, `deploy` of vps.py, the fresh install in host.py | before `HostTransaction`: how a node and a directory come to belong together |
| `ManagerPage` | manage_cli.py, the start of manage.py, manage_auth.py | around `ManageJobs`: which page a user sees, and whom it obeys |
| `CdnAcceptance` | cdn_probe.py, `_cdn` of vps.py, the witness in host.py | one operation of `HostTransaction` whose commit needs a witness |
| `Handoff` | engine.py of the session handoff | independent |
| `WorkstationJobs` | job.py, systemd-run and the user manager | independent |
| `GraphicsTransport` | transport.ts as operators on a record | instantiated by `InlineImages` |
| `InlineImages` | terminal.ts, viewers.ts, monitor, tmux clients | composes the transport with its caller |
| `MC*` | | values of the constants, symmetry |
| `HostTransactionProofs`, `LocalControlProofs`, `ManageJobsProofs`, `NodeSetupProofs`, `ManagerPageProofs`, `CdnAcceptanceProofs`, `WorkstationJobsProofs` | | theorems about the module they are named after |
| `EventLoopProofs` | | theorems about `InlineImages` with `GraphicsTransport`, and about `Handoff` |

The modules about `vps/` meet at the host's calls. `HostTransaction` takes them
apart write by write and shows that each operation is decided once and that
every call, finished or killed, leaves a state from which recovery decides
(`ImplementsChoice`, `Recoverable`); `LocalControl`, `NodeSetup` and
`CdnAcceptance` therefore take a call they are not about as one step.
`LocalControl` uses the calls from several PCs on a node that exists,
`NodeSetup` brings the node and the PCs together, `ManageJobs` and `ManagerPage`
are what a user has in front of a directory.

### HostTransaction

A *version* stands for the content the database, manifest, Caddyfile and services
must agree on; operation `o` turns the current version into version `o`. Two
processes exist, `caller` (the SSH command) and `unit` (the recovery oneshot);
`pc[p]` is where each is. Every durable write (`atomic`, `unlink`, a rename of a
directory, an API call that changes the database) and every `systemctl` call is
one action, named after the step: `Prepare*` for `devices_prepare`
(host.py:2436-2642), `Commit*` for `devices_commit` (3081-3123), `Backup*` for
`export_backup` (2019-2091), `Recover*` for `recover`, `recover_transaction`,
`recover_devices` and `recover_backup` (1990-2016, 2645-2707, 3126-3173), `Unit*`
for the timer and `main`'s non-blocking lock. `RunJob` and `AutoRestart` are
systemd with the guard of `ExecStartPre` (`guard`, 1507-1514). `Kill`, `Raise`,
`Unhealthy`, `Crash`, `Reboot` and `Lapse` are the environment; the first five are bounded
by `MaxFaults`. The lock is held exactly by a process past its start.

The fresh install is in `NodeSetup` and the CDN witness in `CdnAcceptance`: they
share the lock and the journal's file and nothing else. For a device
operation the host does not itself compare the archive a commit names with the
one before the operation (it does for a transport upgrade): that the archive is
of the candidate follows from `export-sha256` being removed and rebuilt, which
is what `ArchivedBeforeCommit`, a part of `PublicationGuarded`, is about.

One window is in the model and breaks no promise: the services to bring back are
recorded (host.py:2528) after the health check (2520), so a crash between the
two is recorded as "was not running", and a rollback then leaves it so.

### LocalControl

The host is one step per call (`ServePrepare`, `ServeCommit`, `ServeBackup`,
`ServeAbort`), justified by the host's lock and by what is proved of
`HostTransaction`; a call may be served although its reply is lost, or late,
after the PC that made it has died (`late`). A PC's command is a path of labels,
each label one call or one local write: `WritePending`, `Pull`, `Validate`,
`RememberOutputs` / `RememberArchive` / `RememberState` / `Unlink` for the
writes of `remember_commit` (vps.py:927-965) in their order.

### ManageJobs

`Admit` and `Persist` are the two halves of an admission under the mutex
(manage.py:567-621), `StartWorker` and `Spawn` the worker thread, `Child*` the
`--job` process up to its printed result (`machine_execute`, manage.py:133-243), `Collect` the
record. `Start` is the reload of records by the next manager, `Stop`,
`CloseApi`, `Release` and `Exit` the orderly end, `Crash` the other one.
`ShellCommand` is a command in another terminal. A stop may come at any moment,
also while a request is being admitted; the history variable `overtaken` notes
the jobs whose manager was stopped in that moment, for `AtMostOnce` excepts them.
Left out is the outer `except` of `machine_execute` (manage.py:241-243) where it
answers for a failure of the re-reads at 211-214.

### NodeSetup

A command of a directory holds its `.lock` and is `cmd[d]`, a path of labels;
`EnsureStart`, `Restore` and `Connect` begin `setup.sh`, `restore` and `connect`.
`Decide` is the probe's answer and what follows from it (`decide`, `owned`,
`install`, `attach`: leave, install anew, repair, attach), `Info`, `PullBegin`,
`CopyTree`, `Snapshot`, `Compare` the collection of an archive from the running
node (connect_read.py), `Mark`, `Own`, `Remember`, `Unlink` the local writes,
`Call` a call of `deploy`. A collection holds the host's lock, but the panel and
the front do not: `NativeChange` may come between any two copies. A killed command leaves
its call behind (`late`). `Lose` takes the VPS away with the calls on the way to it and leaves an empty one in
its place, `Drift` is a node that no longer is what its manifest says.

Left out: the machine-id and SSH identity of a VPS (a call left on the way does not
reach a replacement, host.py:1543; a command under way is allowed to go on with it, which
the code refuses: more behaviours than the code has, not fewer), hosts of other software, the upgrade of a
node of the old single transport, the manager's session lock (in `ManageJobs`),
and the certificates' comparison beyond their version; a copied database is
compared by its accounts, as `connect_read.py` does.

Four things the model shows that break no promise written down. A PC that dies
between its `pending.json` and its `state.json` is refused by `setup.sh`
from then on and needs another `--state-dir`; the loser of two simultaneous
installations keeps its `pending.json` in the same way. An interrupted `restore`
followed by a plain `setup.sh` installs a fresh node under the restored owner's
name. `deploy_existing` does not look again at which node answers after the probe.

### ManagerPage

Several terminals run `manage.sh` for several state directories of one worktree:
`Run`, `Look`, `Create` (the key), `Lock`, `Listen`, `Refresh`, `Bind` (the
target is frozen), `Write` (the page), `Ready`, and `Query`, `Entry`, `Told` where
the session lock was taken. `Hello` and `Deliver` are the signed API as far as
the bounded sessions and replay sets go: a nonce may arrive again at any time,
after its session was dropped and after a restart, too. `Interrupted`,
`Recovered`, `ConnectElsewhere` and `Replace` are other commands on a directory.
Left out: the manager as a user service (deprecated), ports edited in `config.json`, other
carriers, the arguments of the SSH proxy, and the formats, expiry and signatures of requests.

### CdnAcceptance

The command (`cmd`) goes through `_cdn` and the probe label by label; the host's
`transport-auth-begin`, `transport-auth-finish`, the commit that consumes the
witness and the recovery of such a transaction are taken apart write by write
(`Begin*`, `Finish*`, `Commit*`, `Recover*`), for `HostDies` between any two of
them is the point; the other calls are one step each. A core is `sound` if it
refuses unknown users, which nobody knows before the log says so (`line`).
Archives are told apart by content and by whether they were made before or after
the diagnostic, not by digest and date; the identities in the panel are a version
that `PanelEdit` raises and never restores. DNS, certificates, Mihomo and clocks
only decide whether the command gives up. `Click` is the orange cloud; nobody clicks it away. The window
between the last comparison in a commit and its publication is not claimed
about: an edit made there is published unwitnessed, as any later edit is.

### Handoff

The engine runs on one event loop, so an action is what it does between two
awaits: `Accept` and `Join` an operation, `Begin`, `Ready`, `Bind`, `Complete` its
task with the three native POSTs (a handover message, a creation, a rename),
`Fail` and `Cancelled` its two bad ends, `Open`, `OpenFails`, `StopBackend`,
`Close`, `Closed`, `Kill` the host. `Carry` is the native server, which may carry out a POST
long after the engine gave it up. A write has the three outcomes `atomic_state` has:
done, not done, done and raised (its last `fsync` follows `os.replace`). The
listing a browser decided from may be old (`seen`); when the source is idle and the handover file
complete is up to the environment. What a row, a name, a model choice or the
handover's text must look like is reduced to accepted or refused.

### WorkstationJobs

`job run` is the actions `Admit` ... `AcceptReservation` with their error paths,
`systemd-run` is `Client*` (it inherits the lock), the manager and the launcher
and finalizer it runs are `Serve`, `Dispatch`, `Execute`, `Exit`, `Finish`,
`Cancel*` is `job cancel`, `Wait` what `job wait` prints, whichever of the three
outcomes it is. Counting the ledger is one step, as are the environment file and
`run.json`. `missed` is a history variable: the runs of which a cancel was recorded
although their start job was still queued.

### GraphicsTransport and InlineImages

An operation of the transport maps a record to the *set* of records it may leave,
because the sink may accept a write with either answer. In `InlineImages` an
action is one turn of the event loop. A settled promise is a state of its call
(`admitted`, `drained`, `cancelled`, `failed`) until its continuation runs; timers, polls and
sink events wait for continuations (`NoContinuation`), host calls do not. Stray
timers whose handle `pump()` overwrote are kept as one (`strayDue`,
`strayLater`). A visibility change waits until a known snapshot saw the one
before, the exclusion README.md:133-137 of the extension states. `parted` is a
history variable: the clients that hid the pane while another one went on showing it. Left out:
retained and coalesced keys, capacity budgets, grids, a synchronous drain.

## 3. Runs

Every bound is a constant of a `.cfg`. Deadlock is checked except where a system
may really be finished: all submissions used up, the extension shut down, a
handoff over, a manager closed, nobody running a command.

| run | instance | shows | distinct states |
|---|---|---|---|
| `host_safety` | one device operation, one transport upgrade, 2 faults | `QuietAgreement`, `Recoverable`, `PublicationGuarded`, `ServicesHeld`, `ImplementsChoice` | 2.8 M |
| `host_live` | one device operation, 1 fault, fairness | `JournalsClose`, `ServicesReturn` | 72 k |
| `local_safety` | 2 PCs, a device operation and an upgrade, 1 fault, symmetric PCs | `SavedIsPublished`, `CommitsOwnArchive` | 2.0 M |
| `local_live` | 2 PCs, one operation, 1 fault, fairness | `PendingReconciles` | 179 k |
| `jobs` | 2 managers, 1 request, 2 jobs, 2 faults, fairness | `ReportsHold`, `AtMostOnce`, `CommitsAsShown`, `RecordsSettle` | 649 k |
| `workstation_safety` | 2 runs of size 2, capacity 3, 4 faults, symmetry | `CapacityHeld`, `SayingsHold` | 916 k |
| `graphics_safety` | 2 images, 1 client, queue of 2 jobs and 5 units, 3 events | `ImagesAgree`, `NothingStranded`, `DrainRespected` | 3.3 M |
| `handoff` | 2 sources, 2 requests, 2 operations, 2 faults, 1 relaunch, fairness | `OneSuccessor`, `FinishedForGood`, `EveryOperationEnds` | 523 k |
| `setup` | 2 directories, 2 nodes, 3 faults, symmetric directories | `ReferencedArchive`, `PulledIsOneMoment`, `NodeKept` | 1.2 M |
| `page` | 2 directories, 2 terminals, 2 VPS, 2 sessions of 1 request, 1 opened by the page, 1 kill, 1 directory moved, symmetry | `PageServes`, `AcceptedOnce`, `ReusedIsThisVps` | 1.9 M |
| `cdn` | 2 attempts, 1 panel edit, 2 faults | `CommittedWasWitnessed`, `DiagnosticContained`, `CommitReconcilable` | 3.6 M |

`workstation_promises` ends in a counterexample: one history of 30 states in which three
sentences of `JOBS.md` are broken together (`OnePromiseKept` is the disjunction of
the three, so what refutes it refutes each; section 5).

Two larger instances pass and are kept for running by hand (section 7), as the theorems of
section 4 state their properties for instances of every size: `ManageJobs_safety.cfg`
(2 requests, 3 faults, symmetry, 3.1 M states: `ReportsHold`, `CommitsAsShown`) and
`InlineImages_clients.cfg` (1 image, 2 symmetric clients, 4 events, 1.1 M states:
`ImagesAgree` where clients hide, return and leave in any order).

Each run of safety properties also checks its module's `TypeOK` (`ImagesTypeOK`). Several properties are
conjunctions of named parts that say the same of two places:

- `Recoverable`: what is needed to go back is on disk (`Restorable`), and the
  stored adapter understands the journal (`AdapterCapable`);
- `PublicationGuarded`: nothing is published before its commit
  (`NoEarlyPublication`), no commit precedes its archive (`ArchivedBeforeCommit`);
- `ServicesHeld`: off while their files are rewritten (`StoppedWhileRewritten`),
  afterwards they run what was decided (`RestoredStateRuns`, `PreparedRunsCandidate`);
- `JournalsClose`, `ServicesReturn`: of operations and of backups' stop intents;
- `SavedIsPublished`: what a PC saved was published, and nothing committed is forgotten;
- `ReportsHold`: one effect per request, and true outcomes; `ImagesAgree`: no image
  is left in the terminal unknown, none is drawn that is not there; `NodeKept`: an attachment does not
  make a directory stand for another node, and a directory that has one publishes no other.

Three of these are promises with an exception, named in the property by a history
variable (or by `lost`, a variable of the model); without it
the first two are refuted in section 5:

- `SayingsHold`: exit code 125 is definite (`RejectionDefinite`) but for a command
  that ran and whose finalizer lost its result before `job run` looked (`lost`);
  an outcome `job wait` printed is final (`AnswerStands`) but for a
  `cancelled-or-lost` of a run whose cancel missed its queued start job (`missed`);
- `ImagesAgree` (`RenderedIsThere`): but for the clients in `parted`;
- `AtMostOnce`: but for two jobs of which one was `overtaken`. Its request may be
  admitted again by the next manager; the change still takes effect once (`ReportsHold`).

Why the bounds are enough. *Host*: the interesting histories are an operation
interrupted, and its recovery interrupted again: two faults. Two operations of
the two kinds let one follow, precede or wait for the other and make the adapter
matter. *PCs*: two, because a third adds no kind of interference one does not
have with another; one fault each, since a fault may leave an orphaned call that is
served at any later time, which is itself several deviations. *Jobs*: one
request can be run twice only by two jobs, and two managers are one and its
successor; two faults kill the manager and its child, or one of them with a terminal
command in between (three, and a second request, in `ManageJobs_safety.cfg`). *Workstation*: two runs that do not fit together are what the ledger
is for; four faults are both submitters killed, an answer lost and a result
lost. *Graphics*: an upload counts 2 and a delete 1 of 5, roughly the 44 MiB
transaction and the 96 MiB queue limit, so that both limits are reached; a
second image uses up two of the three events, so that a client that hides
and returns is explored with one image, and interleavings of two with one
change, failure or other output. With two clients and one image
(`InlineImages_clients.cfg`) the four events let each of them hide and return; more clients add nothing, as each is served and marked by itself
and only whether somebody looks on matters. *Handoff*: two requests for two sources allow
two operations at once, two of one source after another, and a joined request;
two faults are a failed write and a kill after it. *Set-up*: a node, its loss and
the next node; three faults are a killed installation, the loss of the VPS and a
change during the other PC's collection. *Page*: the two directories compete
for page and port, the two terminals of one directory for its lock and key; a
session that takes one request is full, and it is the oldest of more than two as
soon as two terminals have asked for the manager's state. *CDN*: an
attempt that fails and its successor, which meets its late calls; two faults kill the command and
the host process.

### Fairness

- *Host*: a running process goes on (weak). The timer ticks every 30 s and not
  for ever only while a caller works (strong, on ticks with the lock free and on
  taking the lock); systemd runs queued jobs although a service may crash in between
  (strong) and restarts what failed (weak); a lease passes (weak). Without the
  timer (`qd-3x-ui-recover.timer`) nothing is promised after a kill.
- *PCs*: a command goes on, the host serves waiting calls, its timer runs (weak),
  and an operator left with `pending.json` runs `recover` again (strong: the
  command may be interrupted each time it is begun, `MaxFaults` bounds it).
- *Manager*: threads and children run (weak). That a manager is started again is
  the assumption `_load_jobs` (manage.py:468-484) makes by reloading records; a record left
  `running` is settled only by a later manager.
- *Handoff*: deadlines pass and cancelled tasks run (weak, on each operation's
  failure or cancellation: every await of `_run` has a deadline), and a close
  that began goes on (weak). Neither the native server, nor a browser, nor the
  handover file is assumed to make progress; after a kill nothing is promised until a start.

## 4. Proofs

Every safety property and action property of the runs is a theorem. Each modelled
component has one inductive invariant, stated at the end of its module (`IInv`;
`ImagesInv` in `InlineImages`), and its proof module shows that it holds at first, that
every action keeps it (one lemma per action, or per part and action) and what follows. TLC checked
each of them as an invariant of the run of its module before it was proved. The
constants are arbitrary sets and numbers; the assumptions only keep the markers
(`"none"`, `"nobody"`, ...) out of the sets of names and the bounds natural numbers.

### HostTransactionProofs

`HostTransactionProofs` proves, for every set of operations and every number of
faults, each invariant of `host_safety` (`TypeCorrect`, `QuietlyAgrees`,
`AlwaysRecoverable`, `AlwaysGuarded`, `AlwaysHeld`, and their parts by name) and
that `HostTransaction` implements `DurableChoice`. The assumptions are those of
`OpsAssumption`: transport operations are operations, operation names differ
from the markers, `MaxFaults` is a natural number.

None of the invariants is inductive. `IInv` (end of `HostTransaction.tla`)
adds, in named parts:

- `OneHolder`: at most one process is past the lock;
- `JournalsAgree`: which phases of `pending.json` go with which rollback
  directory and receipt, e.g. a committed receipt closes the decision whatever
  journals are left;
- `CallerKnows`, `RecoverKnows`: what a process may rely on at each label, in
  particular that a caller behind a lapsed lease meets the journal it wrote;
- `FilesAgree`: per phase, which files may already differ from the version the
  rollback directory would bring back;
- `ServicesAgree`: which versions a service may run, and that it is off (not
  even queued or to be restarted) where a file it reads is rewritten;
- `ArchivesAgree`, `AdapterAgrees`: what `export-sha256` and the stored adapter
  must be.

`IInv` is first checked by TLC, then `InitHolds` and one lemma per action and
conjunct give `Invariance`; each property follows from `IInv` by expanding
definitions. `Implementation` maps `CommitReceipt` to `Commit`,
`PrepareUnchanged` to `Decline` and every other step to a stutter: what decides
an operation is its receipt, neither the manifest published just before it nor
the journals removed after it.

### EventLoopProofs: the inline images

Proves `ImagesTypeOK`, `NothingStranded`, `DrainRespected` and `ImagesAgree` with its
first half `NoOrphan` by itself, for any number of images, clients and events and any limits of the
queue. `ImagesAssumption` says that the bounds are natural numbers, that the images of `"inline"`
are among the images, and that `NoCall` is no call. The proof climbs in four storeys.

*Queues* (`QueueTail`, `QueueAppend`, `QueueRemove`): what leaving from the head, joining
and being cancelled do to a queue without repetition.

*Operations of the transport.* Each is shown to keep `Good` (types; the queue holds what
is pending, once; whoever waits is owed a drain) and to leave the transport `Awake` (a
queue has a timer or a drain that will pump it), and to move the calls only as `Follows`
allows: none starts or ends, and at most one, the one written, is admitted, with
nothing undrained before it. `Follows` composes (`FollowsThen`), which is how `resume`,
`pump` and `settleReady` in one operation are dealt with. `CancelUploads` is a fold
over the images; its function is named (`PassOver`), shown to exist and to be unique by a
smallest counterexample, and every image it passes over keeps `Good` and `Follows`.

*A turn.* `Advances(p)` is what is left of all this for the program counters `p` from
which a turn starts: at most one call is written, and it alone changes the wire and what
the clients hold. `StepTurn` reduces each action to its own part: that the images it
leaves fit the calls (`StagedTo`), the wire (`HeldTo`) and the marks (`MarkedTo`).

*The invariant.* `Flowing` is the transport between turns. `Staged` ties each call to a
stage of its image: an image being released or cleared starts no upload, so that nothing
can be written after its delete. `Held` says that pixels in a terminal are known or their
upload is about to make them known, and that a delete that went out was the last thing
sent; without the second part an image whose delete has drained could not be forgotten. `Watched` says when the applied snapshot is the truth and whom a current upload
was meant for, and that a receiver who hid without parting left nobody looking on;
`Marked` is why a mark without the image is always one of such a client, not yet seen to
hide, so that the next poll revokes it. `NothingStranded` is a
part of `Flowing`, `NoOrphan` of `Held`, `RenderedIsThere` of `Marked`, and
`DrainRespected` follows from `Advances` for every action.

### EventLoopProofs: the session handoff

It proves `OneSuccessor` and `FinishedForGood` for any number of
sources, requests, operations, faults and relaunches. Assumed is
`HandoffAssumption`: the bounds are natural numbers and `"none"` is no operation.
The invariant (end of `Handoff.tla`, also checked by TLC) says besides the
types: a task belongs to an unfinished operation of a host that is there
(`Tasked`, `Forgotten`); an operation in memory has a file, and a completed one
a final file (`Filed`); one nobody accepted is nowhere (`Fresh`); the creation
has not been asked for while the task still waits for the source, so that a POST
left under way is the only one (`AskedOnce`); and the first request of an
operation that ran is in its file, in memory and in the request map, and no two
operations that ran share it (`Claimed`). The last is why a repeated request
finds its operation after a restart: the file is written before the task starts,
and `open()` reads all files before it answers. `FinishedForGood` follows action
by action from `Filed` and `Tasked`: only a task finishes an operation, a finished
operation has no task, and what `open()` turns into `failed` was unfinished on disk.

### LocalControlProofs

Proves `SavedIsPublished` and `CommitsOwnArchive` for any number of PCs and
operations. Two arguments meet. *Nothing on the way surprises*: a command has no
call of its own operation behind its back, a dead one left at most one, so a prepare
and a commit of one operation are never both under way (`Once`); while the host
holds a candidate and its commit is on the way, `pending.json` of its PC names it and
is not about to be removed (`Revocable`), and the archive the commit names is of
this candidate (`Named`). *What is copied is new enough*: a published archive is as
new as everything its PC had committed when it was asked for (`Archived`), hence so is
what `state.json` names once `pending.json` is gone (`Kept`). `Hosted`, `Drawn` and
`Where` say what a label knows of journal, verdict and `pending.json`.

### ManageJobsProofs

Proves `ReportsHold`, `CommitsAsShown` and `AtMostOnce`. What carries it is the lock of the state
directory: a child that works holds it (`Locked`) and knows `pending.json` and the
generation (`Changing`, `Recovering`); a commit that is done or may come late is of
its generation, the only one of that generation, and pending until saved
(`Committed`). A second commit of the request would be of the same generation, as both
jobs have the body of the request (`Asked`). A printed result is about an operation
whose own child has ended (`Reported`), so nothing can belie it. `Alone` is why a request runs once: of two of its jobs that
nobody overtook, one was forgotten before its record.

### NodeSetupProofs

Proves `ReferencedArchive`, `PulledIsOneMoment` and `NodeKept` for any number of
directories, nodes and faults. `Routed` says which labels a flow goes through,
`Sound` what a document names, `Relies` what a command assumes of the document at each
label. `Collecting` is why a copy made part by part is one moment: the copied
certificates are no newer than the live ones, the database is of a moment in between.
`Cleared` is why no node is installed over another: a directory that has a node, or is
about to remember one, finds it published, or neither has a candidate on the host nor
left a call on the way that could make or publish one; nor has a directory without a
document.

### ManagerPageProofs

Proves `PageServes`, `AcceptedOnce` and `ReusedIsThisVps`. A start that goes on holds
its session lock, and the port from listening on (`Holding`); since the page is
written under the port, the page of the one that is open is its own, and the key, once
made, does not change (`Keyed`). A target a start knows is the committed one unless the
directory was moved (`Targeted`). `Sessions` relates the counts of accepted requests
to the bounded sets: a session that lives knows the nonces it let through, and a
dropped one never comes back under its number.

### CdnAcceptanceProofs

Proves `CommittedWasWitnessed`, `DiagnosticContained` and `CommitReconcilable`.
`Tied` binds a call inside the host to the command that waits for it, or to none;
`Diagnosing` and `Recovering` say what is on disk between any two writes of the calls
that make, end or undo the diagnostic; `Witness` that a line in the log was written by a
sound core behind Cloudflare; `Contained` extends the containment from the archives
that are kept to all that are under way; `Advancing` orders the native identities seen,
exported and in force. For reconciliation a commit that the host could still grant must find
`pending.json` in place: `Once` (no prepare of an operation is under way with a commit of
it) and `Reconciling`, over every commit under way.

### WorkstationJobsProofs

Proves `CapacityHeld` and `SayingsHold` for any runs, sizes and faults. Whatever
executes or may still start has a reservation unless its cancel was recorded
(`Covered`), and all reservations together with the admission under way fit the
budget (`Ledger`), because the lock is held for one run at a time (`Locked`). `Submitting`
and `Ended` say when nothing of a run executes or ever will, which makes exit code
125 definite; the second, that a run is dead when an outcome was read, or `missed`. The sums over sets of runs are a fold; the facts needed of it
(`NeedMonotone` and the lemmas before it) are proved by a smallest counterexample,
with the library's theorem that strict inclusion is well founded on finite sets.

### What the proofs changed in the models

- In `ManageJobs`, `CdnAcceptance` and `NodeSetup` a `CASE` with overlapping guards
  became a conditional in the order of the code: `CASE` promises no order.
- `LocalControl` got the assumption that `"nobody"` is no PC, and `InlineImages` has
  `ImagesAssumption`.
- In `GraphicsTransport` a cancelled call leaves the queue by `RemoveFirst` instead of a filter,
  of which nothing can be proved for a queue of any length; the queue holds it once.
- In `InlineImages` the two folds that cancel the uploads of all kept and of all reset
  images are one operator of the set, and its `Init`, `Next`, `TypeOK`, ... have names of
  their own (`ImagesInit`, ...) so that one module can speak of it and of `Handoff`.
- `Lose` used to leave the calls on the way to the lost VPS. With three nodes instead of
  two, `IInv` failed: such a call acted on the new machine, which host.py:1543 refuses.
- `NeverReinstalled`, a part of `NodeKept`, used to speak only of the directory a
  candidate was installed for; it now speaks of the call that publishes, too.

### What is only model-checked

- Liveness: `JournalsClose`, `ServicesReturn`, `PendingReconciles`, `RecordsSettle`,
  `EveryOperationEnds`. Fairness and `ENABLED` are out of the prover's reach.
- The counterexamples of section 5.

## 5. Where the code and its texts differ

Each of these is a property taken from a text of the repository that TLC refutes. Those
of 3 are findings in `PROJECT.json`, refuted together by `workstation_promises`; each of
the others has a configuration to be run by hand (section 7). The texts of 5 and 6 are
comments whose intent can be argued about.

1. `HostTransaction_front.cfg`, `FrontStopsBriefly` (host.py:2044; `vps/README.md:71`,
   a backup may stop the front briefly). A backup that starts in the three
   seconds in which systemd waits to restart a crashed front records "not
   running", its `stop` cancels the restart and nothing starts the front again.
2. `ManageJobs_lock.cfg`, `LockCoversJobs` (manage.py:777;
   `vps/PERSISTENT-MANAGEMENT.md:19`, setup_ensure.py:40). A request admitted while
   the manager stops runs its job after `.session.lock` is released. Its effects
   stay correct (`ReportsHold`, `CommitsAsShown`) thanks to the generation check
   under `state/.lock`, but `ensure` and a new manager are not excluded.
3. Three sentences about tmux jobs, broken together in `WorkstationJobs_promises.cfg` and
   each in a shorter history of its own:
   - `WorkstationJobs_cancel.cfg`, `CancelStops` (job.py:352;
     `fresh-install/modules/tmux/JOBS.md:72-75`). Cancelling an uncertain submission
     whose start job is queued does not stop it: the command runs recorded as
     cancelled and without a reservation.
   - `WorkstationJobs_wait.cfg`, `WaitIsFinal` (job.py:352; `JOBS.md:48`, the *final*
     reason is in `result.json`). For the same cause `job wait` prints
     `cancelled-or-lost` of that run, and `finish` later writes the command's own
     result over it (job.py:287).
   - `WorkstationJobs_reject.cfg`, `RejectedNeverRan` (job.py:219-236; `JOBS.md:65`,
     125 is a definite rejection; 76-78, a lost result write stays `unknown`). A command
     that ran, whose finalizer lost its result and whose unit was collected before a
     failing systemd-run was looked into, is called rejected.
4. `InlineImages_pacing.cfg`, `Paced` (transport.ts:383;
   `pi-inline-images/README.md:115-116`). A timer whose handle is overwritten
   writes a transaction inside the pacing interval.
   `InlineImages_served.cfg`, `EveryReceiverServed` (terminal.ts:188; README.md:128-131, an
   upload accepted during a visibility race is retried when that receiver returns).
   A client that hides before an upload is written, while another one stays, keeps
   its mark, which only a snapshot without any receiver would revoke, and is never sent the image.
5. `NodeSetup_receipt.cfg`, `PublishedWasVerified` (host.py:3141-3152; the comment
   at 3210-3211, a verified off-node backup receipt is required before
   publication). The recovery of a fresh candidate leaves `export-sha256`; a late
   commit of the aborted installation then publishes the next candidate against
   the receipt of the one before.
6. `ManagerPage_replaced.cfg`, `ReusedDespiteMoves` (manage_cli.py:118; the comment
   at manage.py:487-488, later state changes cannot move the target). Only `ensure`
   takes the session lock, so another command can move `state.json` to another VPS
   under a running manager: it goes on naming the old VPS, a second start that asks
   for the old one is shown its page, and its jobs act on the new one.
   `ReusedIsThisVps` therefore speaks of directories nobody moved.
7. `Handoff_repeat.cfg`, `RequestStands` (`session-handoff/README.md:18`, the same
   request UUID returns the original operation). An acceptance whose write took
   effect and raised leaves a file that memory does not know; the browser's
   repetition makes another operation, and after a restart the request may stand
   for the first. That one started no session: `OneSuccessor` is unharmed.

Noted without a configuration. A join whose write fails keeps its
request in memory's `request_ids` only and forgets it at a restart. Two sessions of one
working directory share `handover.md`.

## 6. Not modelled, and what is next

Parts left out, with the reason in `PROJECT.json`:

- copy-links dispatch (dispatcher.ts, receiver.ts, source.ts): a two-phase exchange with a
  helper on another machine. Two hazards are known, a commit line executed
  while a timeout or an abort reports failure (dispatcher.ts:252) and a topology that
  is revalidated before the receiver is resolved (394); no text says what a
  failure promises about what was opened, so there is no property to check yet;
- window status and error recovery: one timer and one budget in one event loop
  (recovery.mjs:96), which the extension's tests step through; the next
  candidate, with the animator's lock (state.mjs:188-230);
- the manager as a user service: deprecated (`PERSISTENT-MANAGEMENT.md:24`),
  nothing creates the unit any more;
- installers, configuration scripts and the Clash, Tailscale and Syncthing helpers: sequential, their
  effects are those of apt, dconf and systemd or one atomic write of a pure
  transformation; rendering and parsing (dashboards, Markdown, link
  recognition); the vendored QR encoder; the remote clipboard, which keeps no state.

Of modelled parts: in `InlineImages` the retry of an upload that fails in the middle of a
viewer change (terminal.ts:205), liveness of release and shutdown, budgets; in `HostTransaction` the services recorded after the health
check (host.py:2528), which is in the model and breaks no promise; in `LocalControl` generations and exported
copies. No property that a run checks is left to prove but the five of liveness.

## 7. Running

In this directory, with TLC and TLAPS on the path:

    tlc -config HostTransaction_safety.cfg MCHostTransaction.tla
    tlc -config NodeSetup_receipt.cfg MCNodeSetup.tla
    tlapm HostTransactionProofs.tla

and `tlapm` in the same way for the other seven modules of proofs.
A run of PROJECT.json names its module and `.cfg`; a configuration that is not among them
belongs to the `MC` module of its prefix. Those of section 5 end
in a counterexample. The longest runs take about three minutes. From nothing the proofs take about 25
minutes together, `EventLoopProofs` the longest (6 to 8).
