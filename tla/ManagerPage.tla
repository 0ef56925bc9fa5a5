----------------------------- MODULE ManagerPage -----------------------------
(***************************************************************************)
(* `manage.sh`: the foreground manager of a state directory and its page   *)
(* (vps/lib/manage_cli.py, manage.py) and the sessions of its signed API   *)
(* (manage_auth.py).  Several terminals start it for several state         *)
(* directories of one worktree, which share the file vps/index.html and    *)
(* the loopback port; a start that finds the session lock held shows the   *)
(* page of the manager that runs.  Jobs are the subject of ManageJobs.     *)
(***************************************************************************)
EXTENDS Naturals, Sequences, SequencesExt

CONSTANTS States,           \* private state directories
          Terminals,
          Vps,              \* nodes a user may ask for
          Nonces,
          MaxSessions,      \* sessions a manager keeps
          MaxNonces,        \* requests a session accepts
          MaxHellos,        \* sessions the page opens
          MaxKills,         \* terminals killed
          MaxReplacements   \* directories moved to another VPS, once each

ASSUME PageAssumption ==
  /\ MaxSessions \in Nat \ {0} /\ MaxNonces \in Nat \ {0}
  /\ MaxHellos \in Nat /\ MaxKills \in Nat /\ MaxReplacements \in Nat
  /\ "nobody" \notin Terminals /\ {"none", "uncommitted"} \cap Vps = {}

VARIABLES
  key,       \* key[s]: the terminal that made master.key of s
  lock,      \* lock[s]: the terminal that holds .session.lock of s
  doc,       \* doc[s]: the VPS state.json is committed to
  pend,      \* pend[s]: there is a pending.json
  page,      \* index.html: the directory it is for and the key in it
  port,      \* the terminal that listens
  term,      \* term[t]: what a terminal is doing
  items,     \* the sessions of the manager that listens, oldest use first
  hellos,    \* sessions opened by the page
  accepted,  \* how often each request was let through
  kills,
  moved      \* the directories that were moved to another VPS

files   == <<key, doc, pend, page>>
session == <<items, hellos, accepted>>
vars    == <<key, lock, doc, pend, page, port, term, session, kills, moved>>

Nobody == "nobody"
NoVps  == "none"
Blank  == "uncommitted"     \* a state.json without a committed node
NoPage == [state |-> "none", key |-> Nobody]
Away   == [at |-> "idle", state |-> "none", asked |-> NoVps, key |-> Nobody, bound |-> NoVps]

Init ==
  /\ key = [s \in States |-> Nobody] /\ lock = [s \in States |-> Nobody]
  /\ doc = [s \in States |-> NoVps] /\ pend = [s \in States |-> FALSE]
  /\ page = NoPage /\ port = Nobody /\ term = [t \in Terminals |-> Away]
  /\ items = <<>> /\ hellos = 0 /\ accepted = [r \in (1..MaxHellos) \X Nonces |-> 0]
  /\ kills = 0 /\ moved = {}

Mine(t)  == term[t].state
In(t, label) == term[t].at = label
Go(t, label) == term' = [term EXCEPT ![t].at = label]
Leave(t) == term' = [term EXCEPT ![t] = Away]

\* ManagementServer.close: the port first; the session lock after the worker.
Close(t) ==
  /\ Go(t, "closing")
  /\ IF port = t THEN port' = Nobody /\ items' = <<>> ELSE UNCHANGED <<port, items>>

-----------------------------------------------------------------------------
(* A start *)

Run(t) ==
  /\ In(t, "idle")
  /\ \E s \in States, v \in Vps :
       term' = [term EXCEPT ![t] = [Away EXCEPT !.at = "look", !.state = s, !.asked = v]]
  /\ UNCHANGED <<files, lock, port, session, kills, moved>>

\* load_state: the key a start goes on with.
Load(t, k) == term' = [term EXCEPT ![t].at = "lock", ![t].key = k]

\* ensure_state: master.key is looked for ...
Look(t) ==
  /\ In(t, "look")
  /\ IF key[Mine(t)] = Nobody THEN Go(t, "create") ELSE Load(t, key[Mine(t)])
  /\ UNCHANGED <<files, lock, port, session, kills, moved>>

\* (bug) the new key is renamed into its place.
Overwrites(s) == TRUE

\* ... and made; os.link never replaces one another start has made meanwhile.
Creates(s) == key[s] = Nobody

Create(t) ==
  /\ In(t, "create")
  /\ \/ /\ Creates(Mine(t))
        /\ key' = [key EXCEPT ![Mine(t)] = t]
        /\ Load(t, t)
     \/ ~Creates(Mine(t)) /\ Leave(t) /\ UNCHANGED key
  /\ UNCHANGED <<lock, doc, pend, page, port, session, kills, moved>>

Lock(t) ==
  /\ In(t, "lock")
  /\ IF lock[Mine(t)] = Nobody
     THEN lock' = [lock EXCEPT ![Mine(t)] = t] /\ Go(t, "listen")
     ELSE Go(t, "query") /\ UNCHANGED lock
  /\ UNCHANGED <<files, port, session, kills, moved>>

\* The port is bound; nothing is accepted yet.
Listen(t) ==
  /\ In(t, "listen")
  /\ IF port = Nobody
     THEN port' = t /\ items' = <<>> /\ Go(t, "refresh")
     ELSE Close(t)
  /\ UNCHANGED <<files, lock, hellos, accepted, kills, moved>>

\* refresh: with pending work nothing is read, if the VPS is the one the
\* directory has.
MaySkip(s, v) == pend[s] /\ doc[s] \in {NoVps, Blank, v}

\* connect: a new directory takes the VPS, another one must have it.
MayConnect(s, v) == ~pend[s] /\ doc[s] \in {NoVps, v}

Refresh(t) ==
  /\ In(t, "refresh")
  /\ LET s == Mine(t)
         v == term[t].asked
     IN \/ MaySkip(s, v) /\ Go(t, "bind") /\ UNCHANGED <<doc, port, items>>
        \/ MayConnect(s, v) /\ doc' = [doc EXCEPT ![s] = v] /\ Go(t, "bind") /\ UNCHANGED <<port, items>>
        \/ Close(t) /\ UNCHANGED doc
  /\ UNCHANGED <<key, pend, page, lock, hellos, accepted, kills, moved>>

\* bind_target: what state.json says now is frozen.
Bind(t) ==
  /\ In(t, "bind")
  /\ IF doc[Mine(t)] = Blank THEN Close(t)
     ELSE /\ term' = [term EXCEPT ![t].at = "write", ![t].bound = doc[Mine(t)]]
          /\ UNCHANGED <<port, items>>
  /\ UNCHANGED <<files, lock, hellos, accepted, kills, moved>>

\* write_launcher, or its refusal, e.g. of a file that is not ours.
Write(t) ==
  /\ In(t, "write")
  /\ \/ /\ page' = [state |-> Mine(t), key |-> term[t].key]
        /\ Go(t, "ready")
        /\ UNCHANGED <<port, items>>
     \/ Close(t) /\ UNCHANGED page
  /\ UNCHANGED <<key, doc, pend, lock, hellos, accepted, kills, moved>>

-----------------------------------------------------------------------------
(* The signed API.  A session is an id and the nonces it has seen; id 0 is *)
(* a terminal's query.                                                     *)

Serving(t) == port = t /\ term[t].at \in {"ready", "open"}

\* (bug) nothing bounds the sessions.
KeepsAll(q) == q

\* Sessions.add: the least recently used sessions go.
Keeps(q) == IF Len(q) > MaxSessions THEN Tail(q) ELSE q
Added(q, id, seen) == Keeps(Append(q, [id |-> id, seen |-> seen]))

Position(id) == {i \in 1..Len(items) : items[i].id = id}

\* query_state: a hello, and one signed request.
Answered == items' = Added(items, 0, {0})

\* The page is announced when the API has answered.
Ready(t) ==
  /\ In(t, "ready")
  /\ \/ Answered /\ Go(t, "open") /\ UNCHANGED port
     \/ Close(t)
  /\ UNCHANGED <<files, lock, hellos, accepted, kills, moved>>

Hello ==
  /\ hellos < MaxHellos
  /\ \E t \in Terminals : Serving(t)
  /\ hellos' = hellos + 1
  /\ items' = Added(items, hellos + 1, {})
  /\ UNCHANGED <<files, lock, port, term, accepted, kills, moved>>

\* Used: the session after a nonce, moved to the end.
Used(i, nonce) == Append(RemoveAt(items, i), [items[i] EXCEPT !.seen = @ \cup {nonce}])

Passed(q)  == [ok |-> TRUE, items |-> q]
Refused(q) == [ok |-> FALSE, items |-> q]

\* (bug) a full replay set is begun anew.
ConsumeAnew(i, nonce) ==
  IF nonce \in items[i].seen THEN Refused(items)
  ELSE IF Cardinality(items[i].seen) < MaxNonces THEN Passed(Used(i, nonce))
       ELSE Passed(Append(RemoveAt(items, i), [items[i] EXCEPT !.seen = {nonce}]))

\* Sessions.consume: a session whose replay set is full is dropped.
Consume(i, nonce) ==
  IF nonce \in items[i].seen THEN Refused(items)
  ELSE IF Cardinality(items[i].seen) < MaxNonces THEN Passed(Used(i, nonce))
       ELSE Refused(RemoveAt(items, i))

\* A signed request arrives, for the first time or again.  Its session may not
\* have been used for ten minutes: it is dropped.
Deliver(id, nonce) ==
  /\ \E t \in Terminals : Serving(t)
  /\ \E i \in Position(id) : \E r \in {Consume(i, nonce), Refused(RemoveAt(items, i))} :
       /\ items' = r.items
       /\ accepted' = IF r.ok THEN [accepted EXCEPT ![<<id, nonce>>] = @ + 1] ELSE accepted
  /\ UNCHANGED <<files, lock, port, term, hellos, kills, moved>>

-----------------------------------------------------------------------------
(* Another start, while a manager has the lock *)

\* The answer must prove the key of this directory, and it names the VPS the
\* manager was started for; an older manager does not, and the committed VPS,
\* which its page shows, stands for it.
Query(t) ==
  /\ In(t, "query")
  /\ \/ \E u \in Terminals :
          /\ Serving(u) /\ Mine(u) = Mine(t) /\ term[u].key = key[Mine(t)]
          /\ Answered
          /\ term' = [term EXCEPT ![t].at = "entry",
                        ![t].bound = IF term[u].bound # NoVps \/ pend[Mine(t)] THEN term[u].bound ELSE doc[Mine(t)]]
     \/ Leave(t) /\ UNCHANGED items
  /\ UNCHANGED <<files, lock, port, hellos, accepted, kills, moved>>

\* (bug) a manager that is bound to nothing is anybody's.
AgreesUnlessOther(t) == term[t].bound \in {NoVps, term[t].asked}

Agrees(t) == term[t].bound = term[t].asked

\* entry_page: the file is this directory's.
Entry(t) ==
  /\ In(t, "entry")
  /\ IF Agrees(t) /\ page = [state |-> Mine(t), key |-> key[Mine(t)]]
     THEN Go(t, "told") ELSE Leave(t)
  /\ UNCHANGED <<files, lock, port, session, kills, moved>>

Told(t) ==
  /\ In(t, "told")
  /\ Leave(t)
  /\ UNCHANGED <<files, lock, port, session, kills, moved>>

-----------------------------------------------------------------------------
(* Ends, and what else happens to a state directory *)

\* Ctrl+C, or the terminal is closed.
Stop(t) ==
  /\ In(t, "open")
  /\ Close(t)
  /\ UNCHANGED <<files, lock, hellos, accepted, kills, moved>>

Closed(t) ==
  /\ In(t, "closing")
  /\ Leave(t)
  /\ lock' = [s \in States |-> IF lock[s] = t THEN Nobody ELSE lock[s]]
  /\ UNCHANGED <<files, port, session, kills, moved>>

Kill(t) ==
  /\ ~In(t, "idle")
  /\ kills < MaxKills /\ kills' = kills + 1
  /\ Leave(t)
  /\ lock' = [s \in States |-> IF lock[s] = t THEN Nobody ELSE lock[s]]
  /\ IF port = t THEN port' = Nobody /\ items' = <<>> ELSE UNCHANGED <<port, items>>
  /\ UNCHANGED <<files, hellos, accepted, moved>>

\* A command of another terminal connects the directory, ...
ConnectElsewhere(s, v) ==
  /\ MayConnect(s, v) /\ doc[s] # v
  /\ doc' = [doc EXCEPT ![s] = v]
  /\ UNCHANGED <<key, lock, pend, page, port, term, session, kills, moved>>

\* ... begins work and is interrupted, which for an installation may be before
\* or after its state.json, ...
Interrupted(s) ==
  /\ ~pend[s]
  /\ pend' = [pend EXCEPT ![s] = TRUE]
  /\ doc' \in {doc} \cup IF doc[s] = NoVps THEN {[doc EXCEPT ![s] = Blank]} ELSE {}
  /\ UNCHANGED <<key, lock, page, port, term, session, kills, moved>>

\* ... is reconciled, ...
Recovered(s) ==
  /\ pend[s] /\ doc[s] # NoVps
  /\ pend' = [pend EXCEPT ![s] = FALSE]
  /\ doc' \in {doc} \cup IF doc[s] = Blank THEN {[doc EXCEPT ![s] = v] : v \in Vps} ELSE {}
  /\ UNCHANGED <<key, lock, page, port, term, session, kills, moved>>

\* ... or is moved to another VPS (setup.sh replace, or its recovery).
Replace(s, v) ==
  /\ doc[s] \in Vps \ {v}
  /\ s \notin moved /\ Cardinality(moved) < MaxReplacements
  /\ doc' = [doc EXCEPT ![s] = v] /\ pend' = [pend EXCEPT ![s] = FALSE]
  /\ moved' = moved \cup {s}
  /\ UNCHANGED <<key, lock, page, port, term, session, kills>>

Step(t) ==
  \/ Run(t) \/ Look(t) \/ Create(t) \/ Lock(t) \/ Listen(t) \/ Refresh(t) \/ Bind(t) \/ Write(t)
  \/ Ready(t) \/ Query(t) \/ Entry(t) \/ Told(t) \/ Stop(t) \/ Closed(t) \/ Kill(t)

Next ==
  \/ \E t \in Terminals : Step(t)
  \/ Hello
  \/ \E id \in 1..hellos, nonce \in Nonces : Deliver(id, nonce)
  \/ \E s \in States : Interrupted(s) \/ Recovered(s) \/ \E v \in Vps : ConnectElsewhere(s, v) \/ Replace(s, v)

Spec == Init /\ [][Next]_vars

-----------------------------------------------------------------------------
(* Properties *)

\* The types of the variables.
TypeOK ==
  /\ key \in [States -> Terminals \cup {Nobody}] /\ lock \in [States -> Terminals \cup {Nobody}]
  /\ doc \in [States -> Vps \cup {NoVps, Blank}] /\ pend \in [States -> BOOLEAN]
  /\ port \in Terminals \cup {Nobody} /\ page.key \in Terminals \cup {Nobody}
  /\ Len(items) <= MaxSessions /\ \A i \in 1..Len(items) : Cardinality(items[i].seen) <= MaxNonces

\* While an announced manager runs, the page on disk is its page, with the key
\* that is on disk: neither a first start at the same time nor the manager of
\* another directory takes it away.
PageServes ==
  \A t \in Terminals : In(t, "open") =>
    /\ page = [state |-> Mine(t), key |-> term[t].key]
    /\ key[Mine(t)] = term[t].key /\ port = t

\* However often a signed request arrives, it is let through once, whatever
\* happened to its session meanwhile.
AcceptedOnce == \A r \in (1..MaxHellos) \X Nonces : accepted[r] <= 1

Reuses(t) == In(t, "entry") /\ term'[t].at = "told"

\* A second start shows a running manager's page only for the VPS on which the
\* jobs of that page act, in a directory that nobody moved to another VPS.
ReusedIsThisVps ==
  [][\A t \in Terminals : Reuses(t) /\ Mine(t) \notin moved => doc[Mine(t)] = term[t].asked]_vars

\* The same of every directory, as a manager's frozen target suggests
\* (manage.py:487-488).
ReusedDespiteMoves ==
  [][\A t \in Terminals : Reuses(t) => doc[Mine(t)] = term[t].asked]_vars

-----------------------------------------------------------------------------
(* The inductive invariant *)

Starting == {"listen", "refresh", "bind", "write", "ready", "open", "closing"}
Listening == {"refresh", "bind", "write", "ready", "open"}
Labels == Starting \cup {"idle", "look", "create", "lock", "query", "entry", "told"}

Types ==
  /\ key \in [States -> Terminals \cup {Nobody}] /\ lock \in [States -> Terminals \cup {Nobody}]
  /\ doc \in [States -> Vps \cup {NoVps, Blank}] /\ pend \in [States -> BOOLEAN]
  /\ page = NoPage \/ page \in [state : States, key : Terminals]
  /\ port \in Terminals \cup {Nobody}
  /\ term \in [Terminals -> [at : Labels, state : States \cup {"none"}, asked : Vps \cup {NoVps},
                             key : Terminals \cup {Nobody}, bound : Vps \cup {NoVps, Blank}]]
  /\ \A t \in Terminals : ~In(t, "idle") => Mine(t) \in States /\ term[t].asked \in Vps
  /\ moved \subseteq States

\* Who goes on from the session lock holds it, and who listens has the port.
Holding == \A t \in Terminals :
  /\ term[t].at \in Starting => lock[Mine(t)] = t
  /\ port = t <=> term[t].at \in Listening

\* A start that is past its look at master.key goes on with the key on disk,
\* and from the write of the page on the page is its own.
Keyed == \A t \in Terminals :
  /\ term[t].at \notin {"idle", "look", "create"} => key[Mine(t)] = term[t].key /\ term[t].key \in Terminals
  /\ term[t].at \in {"ready", "open"} => page = [state |-> Mine(t), key |-> term[t].key]

\* The VPS a start knows its directory by, its own frozen target or another
\* manager's, is still the committed one unless the directory was moved.
Targeted == \A t \in Terminals :
  ~In(t, "idle") /\ term[t].bound \in Vps /\ Mine(t) \notin moved => doc[Mine(t)] = term[t].bound

\* The session opened by a hello is known once, it is within its bounds, and
\* while it lives it knows the nonces let through.
Sessions ==
  /\ hellos \in 0..MaxHellos
  /\ accepted \in [(1..MaxHellos) \X Nonces -> 0..1]
  /\ items \in Seq([id : 0..hellos, seen : SUBSET (Nonces \cup {0})])
  /\ Len(items) <= MaxSessions
  /\ \A i \in 1..Len(items) : IsFiniteSet(items[i].seen) /\ Cardinality(items[i].seen) <= MaxNonces
  /\ \A i, j \in 1..Len(items) : items[i].id = items[j].id => i = j \/ items[i].id = 0
  /\ \A i \in 1..Len(items), n \in Nonces :
       items[i].id # 0 => (accepted[<<items[i].id, n>>] # 0 => n \in items[i].seen)
  /\ \A id \in 1..MaxHellos, n \in Nonces : accepted[<<id, n>>] # 0 => id <= hellos

IInv == Types /\ Holding /\ Keyed /\ Targeted /\ Sessions

=============================================================================
