-------------------------- MODULE ManagerPageProofs --------------------------
(***************************************************************************)
(* Proofs about ManagerPage: IInv is an inductive invariant of the         *)
(* specification for any number of state directories, terminals, nodes and *)
(* sessions, and implies the properties TLC checks.                        *)
(***************************************************************************)
EXTENDS ManagerPage, FiniteSetTheorems, SequenceTheorems, TLAPS

USE PageAssumption

-----------------------------------------------------------------------------
(* The list of sessions.  Sound(q, h, acc) is what Sessions says of the    *)
(* list q when h hellos were answered and acc requests let through.        *)

Session(h) == [id : 0..h, seen : SUBSET (Nonces \cup {0})]

EntrySound(e, acc) ==
  /\ IsFiniteSet(e.seen) /\ Cardinality(e.seen) <= MaxNonces
  /\ \A n \in Nonces : e.id # 0 /\ acc[<<e.id, n>>] # 0 => n \in e.seen

Sound(q, h, acc) ==
  /\ q \in Seq(Session(h))
  /\ \A i \in 1..Len(q) : EntrySound(q[i], acc)
  /\ \A i, j \in 1..Len(q) : q[i].id = q[j].id => i = j \/ q[i].id = 0

(* The invariant's part about sessions, by Sound.                          *)
LEMMA SessionsAreSound ==
  Sessions <=> /\ hellos \in 0..MaxHellos
               /\ accepted \in [(1..MaxHellos) \X Nonces -> 0..1]
               /\ Len(items) <= MaxSessions
               /\ Sound(items, hellos, accepted)
               /\ \A id \in 1..MaxHellos, n \in Nonces : accepted[<<id, n>>] # 0 => id <= hellos
BY DEF Sessions, Sound, EntrySound, Session

(* Removing one session leaves the others in their order. *)
LEMMA Removal ==
  ASSUME NEW S, NEW q \in Seq(S), NEW i \in 1..Len(q)
  PROVE  /\ RemoveAt(q, i) \in Seq(S)
         /\ Len(RemoveAt(q, i)) = Len(q) - 1
         /\ \A j \in 1..(Len(q) - 1) : RemoveAt(q, i)[j] = q[IF j < i THEN j ELSE j + 1]
<1> DEFINE front == SubSeq(q, 1, i - 1)
           back == SubSeq(q, i + 1, Len(q))
<1>1. Len(q) \in Nat /\ i \in Nat /\ i >= 1 /\ i <= Len(q) /\ \A k \in 1..Len(q) : q[k] \in S
  BY LenProperties, ElementOfSeq
<1>2. /\ front \in Seq(S) /\ Len(front) = i - 1
      /\ \A j \in 1..(i - 1) : front[j] = q[j]
  <2>1. \A k \in 1..(i - 1) : q[k] \in S
    BY <1>1
  <2>2. 1 \in Int /\ i - 1 \in Int
    BY <1>1
  <2>3. /\ front \in Seq(S)
        /\ Len(front) = IF 1 <= i - 1 THEN (i - 1) - 1 + 1 ELSE 0
        /\ \A j \in 1..((i - 1) - 1 + 1) : front[j] = q[1 + j - 1]
    BY <2>1, <2>2, SubSeqProperties
  <2> HIDE DEF front
  <2> QED
    BY <2>3, <1>1
<1>3. /\ back \in Seq(S) /\ Len(back) = Len(q) - i
      /\ \A j \in 1..(Len(q) - i) : back[j] = q[i + j]
  <2>1. \A k \in (i + 1)..Len(q) : q[k] \in S
    BY <1>1
  <2>2. i + 1 \in Int /\ Len(q) \in Int
    BY <1>1
  <2>3. /\ back \in Seq(S)
        /\ Len(back) = IF i + 1 <= Len(q) THEN Len(q) - (i + 1) + 1 ELSE 0
        /\ \A j \in 1..(Len(q) - (i + 1) + 1) : back[j] = q[(i + 1) + j - 1]
    BY <2>1, <2>2, SubSeqProperties
  <2> HIDE DEF back
  <2> QED
    BY <2>3, <1>1
<1> HIDE DEF front, back
<1>4. /\ front \o back \in Seq(S)
      /\ Len(front \o back) = Len(front) + Len(back)
      /\ \A j \in 1..(Len(front) + Len(back)) :
           (front \o back)[j] = IF j <= Len(front) THEN front[j] ELSE back[j - Len(front)]
  <2>1. front \in Seq(S) /\ back \in Seq(S)
    BY <1>2, <1>3
  <2> QED
    BY <2>1, ConcatProperties
<1>5. ASSUME NEW j \in 1..(Len(q) - 1)
      PROVE  (front \o back)[j] = q[IF j < i THEN j ELSE j + 1]
  BY SMTT(30), <1>1, <1>2, <1>3, <1>4
<1>6. RemoveAt(q, i) = front \o back
  BY DEF RemoveAt, front, back
<1>7. front \o back \in Seq(S) /\ Len(front \o back) = Len(q) - 1
  BY <1>1, <1>2, <1>3, <1>4
<1> QED
  BY <1>5, <1>6, <1>7

(* Without a session the others are sound, and its id is not among them.   *)
LEMMA RemoveSound ==
  ASSUME NEW h \in Nat, NEW acc, NEW q, Sound(q, h, acc), NEW i \in 1..Len(q)
  PROVE  /\ Sound(RemoveAt(q, i), h, acc) /\ Len(RemoveAt(q, i)) = Len(q) - 1
         /\ q[i].id # 0 => \A j \in 1..Len(RemoveAt(q, i)) : RemoveAt(q, i)[j].id # q[i].id
<1> DEFINE r == RemoveAt(q, i)
           at(j) == IF j < i THEN j ELSE j + 1
<1>1. q \in Seq(Session(h)) /\ Len(q) \in Nat
  BY LenProperties DEF Sound
<1>2. /\ r \in Seq(Session(h)) /\ Len(r) = Len(q) - 1
      /\ \A j \in 1..Len(r) : r[j] = q[at(j)]
  BY <1>1, Removal
<1>3. \A j \in 1..Len(r) : at(j) \in 1..Len(q) /\ at(j) # i
  BY <1>1, <1>2
<1>4. \A j, k \in 1..Len(r) : at(j) = at(k) => j = k
  BY <1>1, <1>2
<1> HIDE DEF r, at
<1>5. Sound(r, h, acc)
  BY SMTT(30), <1>2, <1>3, <1>4 DEF Sound
<1>6. q[i].id # 0 => \A j \in 1..Len(r) : r[j].id # q[i].id
  BY <1>2, <1>3 DEF Sound
<1> QED
  BY <1>2, <1>5, <1>6 DEF r

(* A sound session with an id of its own may be added.                     *)
LEMMA AppendSound ==
  ASSUME NEW h \in Nat, NEW acc, NEW q, Sound(q, h, acc),
         NEW e \in Session(h), EntrySound(e, acc),
         e.id # 0 => \A i \in 1..Len(q) : q[i].id # e.id
  PROVE  Sound(Append(q, e), h, acc) /\ Len(Append(q, e)) = Len(q) + 1
<1> DEFINE r == Append(q, e)
<1>1. q \in Seq(Session(h)) /\ Len(q) \in Nat
  BY LenProperties DEF Sound
<1>2. /\ r \in Seq(Session(h)) /\ Len(r) = Len(q) + 1
      /\ \A i \in 1..Len(r) : r[i] = IF i <= Len(q) THEN q[i] ELSE e
  BY <1>1
<1> HIDE DEF r
<1>3. \A i \in 1..Len(r) : i <= Len(q) => i \in 1..Len(q)
  BY <1>1, <1>2
<1>4. \A i, j \in 1..Len(r) : ~ (i <= Len(q)) /\ ~ (j <= Len(q)) => i = j
  BY <1>1, <1>2
<1>5. \A i \in 1..Len(r) : EntrySound(r[i], acc)
  BY <1>2, <1>3 DEF Sound
<1>6. \A i, j \in 1..Len(r) : r[i].id = r[j].id => i = j \/ r[i].id = 0
  BY <1>2, <1>3, <1>4 DEF Sound
<1> QED
  BY <1>2, <1>5, <1>6 DEF Sound, r

(* The sessions without the oldest are sound.                              *)
LEMMA TailSound ==
  ASSUME NEW h \in Nat, NEW acc, NEW q, Sound(q, h, acc), q # <<>>
  PROVE  Sound(Tail(q), h, acc) /\ Len(Tail(q)) = Len(q) - 1
<1> DEFINE r == Tail(q)
<1>1. q \in Seq(Session(h)) /\ Len(q) \in Nat
  BY LenProperties DEF Sound
<1>2. /\ r \in Seq(Session(h)) /\ Len(r) = Len(q) - 1
      /\ \A i \in 1..Len(r) : r[i] = q[i + 1]
  BY <1>1, HeadTailProperties
<1> HIDE DEF r
<1>3. \A i \in 1..Len(r) : i + 1 \in 1..Len(q)
  BY <1>1, <1>2
<1>4. \A i, j \in 1..Len(r) : i + 1 = j + 1 => i = j
  BY <1>1, <1>2
<1>5. \A i \in 1..Len(r) : EntrySound(r[i], acc)
  BY <1>2, <1>3 DEF Sound
<1>6. \A i, j \in 1..Len(r) : r[i].id = r[j].id => i = j \/ r[i].id = 0
  BY SMTT(30), <1>2, <1>3, <1>4 DEF Sound
<1> QED
  BY <1>2, <1>5, <1>6 DEF Sound, r

(* A session is added at the end, and the oldest goes when there are too   *)
(* many.                                                                   *)
LEMMA AddedSound ==
  ASSUME NEW h \in Nat, NEW acc, Sound(items, h, acc), Len(items) <= MaxSessions,
         NEW id \in 0..h, NEW seen \in SUBSET (Nonces \cup {0}),
         EntrySound([id |-> id, seen |-> seen], acc),
         id # 0 => \A i \in 1..Len(items) : items[i].id # id
  PROVE  Sound(Added(items, id, seen), h, acc) /\ Len(Added(items, id, seen)) <= MaxSessions
<1> DEFINE e == [id |-> id, seen |-> seen]
           q == Append(items, e)
<1>1. e \in Session(h) /\ e.id = id
  BY DEF Session
<1>2. Len(items) \in Nat
  BY LenProperties DEF Sound
<1>3. EntrySound(e, acc)
  OBVIOUS
<1> HIDE DEF e
<1>4. Sound(q, h, acc) /\ Len(q) = Len(items) + 1
  BY <1>1, <1>3, AppendSound
<1>5. q # <<>>
  BY <1>2, <1>4, EmptySeq DEF Sound
<1> HIDE DEF q
<1>6. Sound(Tail(q), h, acc) /\ Len(Tail(q)) = Len(q) - 1
  BY <1>4, <1>5, TailSound
<1>7. Sound(Keeps(q), h, acc) /\ Len(Keeps(q)) <= MaxSessions
  BY <1>2, <1>4, <1>6 DEF Keeps
<1> QED
  BY <1>7 DEF Added, q, e

(* What the other actions do to the sessions: nothing, or they go with the *)
(* port, or a query of a terminal is answered.                             *)
LEMMA SameSessions == Sessions /\ UNCHANGED session => Sessions'
BY DEF Sessions, session

(* No sessions are sound.                                                  *)
LEMMA NoSessions == Sessions /\ items' = <<>> /\ UNCHANGED <<hellos, accepted>> => Sessions'
<1> SUFFICES ASSUME Sessions, items' = <<>>, UNCHANGED <<hellos, accepted>> PROVE Sessions'
  OBVIOUS
<1>1. items' \in Seq([id : 0..hellos', seen : SUBSET (Nonces \cup {0})]) /\ Len(items') = 0
  BY EmptySeq
<1>2. 1..Len(items') = {}
  BY <1>1
<1> QED
  BY <1>1, <1>2 DEF Sessions

(* The same of the next state.                                             *)
LEMMA SoundIsSessions ==
  ASSUME hellos' \in 0..MaxHellos,
         accepted' \in [(1..MaxHellos) \X Nonces -> 0..1],
         Sound(items', hellos', accepted'),
         Len(items') <= MaxSessions,
         \A id \in 1..MaxHellos, n \in Nonces : accepted'[<<id, n>>] # 0 => id <= hellos'
  PROVE  Sessions'
BY DEF Sessions, Sound, EntrySound, Session

(* A query leaves a session with id 0.                                     *)
LEMMA AnsweredSessions == Sessions /\ Answered /\ UNCHANGED <<hellos, accepted>> => Sessions'
<1> SUFFICES ASSUME Sessions, Answered, UNCHANGED <<hellos, accepted>> PROVE Sessions'
  OBVIOUS
<1>1. hellos \in Nat /\ Sound(items, hellos, accepted) /\ Len(items) <= MaxSessions
  BY SessionsAreSound
<1>2. EntrySound([id |-> 0, seen |-> {0}], accepted)
  <2>1. IsFiniteSet({0}) /\ Cardinality({0}) = 1
    BY FS_Singleton
  <2> QED
    BY <2>1 DEF EntrySound
<1>3. Sound(items', hellos, accepted) /\ Len(items') <= MaxSessions
  <2>1. 0 \in 0..hellos /\ {0} \in SUBSET (Nonces \cup {0})
    BY <1>1
  <2>2. Sound(Added(items, 0, {0}), hellos, accepted) /\ Len(Added(items, 0, {0})) <= MaxSessions
    BY <1>1, <1>2, <2>1, AddedSound
  <2> QED
    BY <2>2 DEF Answered
<1> QED
  BY <1>3, SessionsAreSound, SoundIsSessions

-----------------------------------------------------------------------------
(* The invariant *)

(* Before the first start there are no keys, locks, pages and sessions.    *)
LEMMA InitHolds == Init => IInv
<1> SUFFICES ASSUME Init PROVE IInv
  OBVIOUS
<1>1. Types /\ Holding /\ Keyed /\ Targeted
  BY DEF Init, Types, Holding, Keyed, Targeted, In, Mine, Away, Labels, Starting, Listening, NoPage,
         Nobody, NoVps, Blank
<1>2. Sessions
  <2>1. items \in Seq([id : 0..hellos, seen : SUBSET (Nonces \cup {0})]) /\ Len(items) = 0
    BY EmptySeq DEF Init
  <2>2. 1..Len(items) = {}
    BY <2>1
  <2> QED
    BY <2>1, <2>2 DEF Init, Sessions
<1> QED
  BY <1>1, <1>2 DEF IInv

(* A start knows no VPS and no key yet.                                    *)
LEMMA RunKeeps ==
  ASSUME IInv, NEW t \in Terminals, Run(t)
  PROVE  IInv'
<1> USE DEF IInv, Run, In, files, session
<1>1. Types'
  <2>1. PICK s \in States, v \in Vps :
          term' = [term EXCEPT ![t] = [Away EXCEPT !.at = "look", !.state = s, !.asked = v]]
    OBVIOUS
  <2>2. Away \in [at : {"idle"}, state : {"none"}, asked : {NoVps}, key : {Nobody}, bound : {NoVps}]
    BY DEF Away
  <2>3. [Away EXCEPT !.at = "look", !.state = s, !.asked = v]
          \in [at : {"look"}, state : {s}, asked : {v}, key : {Nobody}, bound : {NoVps}]
    BY <2>2
  <2> QED
    BY <2>1, <2>3 DEF Types, In, Mine, Labels, Starting, Listening
<1>2. Holding'
  BY DEF Types, In, Mine, Away, Holding, Starting, Listening, Nobody
<1>3. Keyed'
  BY DEF Types, In, Mine, Away, Keyed, Holding, Listening, Nobody
<1>4. Targeted'
  BY DEF Types, In, Mine, Away, Targeted, NoVps, Blank
<1>5. Sessions'
  BY SameSessions
<1> QED
  BY <1>1, <1>2, <1>3, <1>4, <1>5

(* A key that exists is the key the start goes on with.                    *)
LEMMA LookKeeps ==
  ASSUME IInv, NEW t \in Terminals, Look(t)
  PROVE  IInv'
<1> USE DEF IInv, Look, In, Go, Load, Mine, files, session
<1>1. Types'
  BY DEF Types, In, Mine, Away, Labels, Starting, Listening, NoPage, Nobody, NoVps, Blank
<1>2. Holding'
  BY DEF Types, In, Mine, Away, Holding, Starting, Listening, Nobody
<1>3. Keyed'
  BY DEF Types, In, Mine, Away, Keyed, Holding, Listening, Nobody
<1>4. Targeted'
  BY DEF Types, In, Mine, Away, Targeted, NoVps, Blank
<1>5. Sessions'
  BY SameSessions
<1> QED
  BY <1>1, <1>2, <1>3, <1>4, <1>5

(* A new key is made only where there is none.                             *)
LEMMA CreateKeeps ==
  ASSUME IInv, NEW t \in Terminals, Create(t)
  PROVE  IInv'
<1> USE DEF IInv, Create, In, Creates, Load, Leave, Mine, files, session
<1>1. Types'
  BY DEF Types, In, Mine, Away, Labels, Starting, Listening, NoPage, Nobody, NoVps, Blank
<1>2. Holding'
  BY DEF Types, In, Mine, Away, Holding, Starting, Listening, Nobody
<1>3. Keyed'
  BY DEF Types, In, Mine, Away, Keyed, Holding, Listening, Nobody
<1>4. Targeted'
  BY DEF Types, In, Mine, Away, Targeted, NoVps, Blank
<1>5. Sessions'
  BY SameSessions
<1> QED
  BY <1>1, <1>2, <1>3, <1>4, <1>5

(* The session lock of a directory is taken when it is free.               *)
LEMMA LockKeeps ==
  ASSUME IInv, NEW t \in Terminals, Lock(t)
  PROVE  IInv'
<1> USE DEF IInv, Lock, In, Go, Mine, files, session
<1>1. Types'
  BY DEF Types, In, Mine, Away, Labels, Starting, Listening, NoPage, Nobody, NoVps, Blank
<1>2. Holding'
  BY DEF Types, In, Mine, Away, Holding, Starting, Listening, Nobody
<1>3. Keyed'
  BY DEF Types, In, Mine, Away, Keyed, Holding, Listening, Nobody
<1>4. Targeted'
  BY DEF Types, In, Mine, Away, Targeted, NoVps, Blank
<1>5. Sessions'
  BY SameSessions
<1> QED
  BY <1>1, <1>2, <1>3, <1>4, <1>5

(* The port is bound when it is free; a start that does not get it ends.   *)
LEMMA ListenKeeps ==
  ASSUME IInv, NEW t \in Terminals, Listen(t)
  PROVE  IInv'
<1> USE DEF IInv, Listen, In, Go, Close, Mine, files, session
<1>1. Types'
  BY DEF Types, In, Mine, Away, Labels, Starting, Listening, NoPage, Nobody, NoVps, Blank
<1>2. Holding'
  BY DEF Types, In, Mine, Away, Holding, Starting, Listening, Nobody
<1>3. Keyed'
  BY DEF Types, In, Mine, Away, Keyed, Holding, Listening, Nobody
<1>4. Targeted'
  BY DEF Types, In, Mine, Away, Targeted, NoVps, Blank
<1>5. Sessions'
  BY SameSessions, NoSessions
<1> QED
  BY <1>1, <1>2, <1>3, <1>4, <1>5

(* A new directory takes the VPS; nothing changes the VPS of another.      *)
LEMMA RefreshKeeps ==
  ASSUME IInv, NEW t \in Terminals, Refresh(t)
  PROVE  IInv'
<1> USE DEF IInv, Refresh, In, Go, Close, MaySkip, MayConnect, Mine, files, session
<1>1. Types'
  BY DEF Types, In, Mine, Away, Labels, Starting, Listening, NoPage, Nobody, NoVps, Blank
<1>2. Holding'
  BY DEF Types, In, Mine, Away, Holding, Starting, Listening, Nobody
<1>3. Keyed'
  BY DEF Types, In, Mine, Away, Keyed, Holding, Listening, Nobody
<1>4. Targeted'
  BY DEF Types, In, Mine, Away, Targeted, NoVps, Blank
<1>5. Sessions'
  BY SameSessions, NoSessions
<1> QED
  BY <1>1, <1>2, <1>3, <1>4, <1>5

(* The frozen target is the committed VPS, or none.                        *)
LEMMA BindKeeps ==
  ASSUME IInv, NEW t \in Terminals, Bind(t)
  PROVE  IInv'
<1> USE DEF IInv, Bind, In, Go, Close, Mine, files, session
<1>1. Types'
  BY DEF Types, In, Mine, Away, Labels, Starting, Listening, NoPage, Nobody, NoVps, Blank
<1>2. Holding'
  BY DEF Types, In, Mine, Away, Holding, Starting, Listening, Nobody
<1>3. Keyed'
  BY DEF Types, In, Mine, Away, Keyed, Holding, Listening, Nobody
<1>4. Targeted'
  BY DEF Types, In, Mine, Away, Targeted, NoVps, Blank
<1>5. Sessions'
  BY SameSessions, NoSessions
<1> QED
  BY <1>1, <1>2, <1>3, <1>4, <1>5

(* Only the manager that has the port writes the page.                     *)
LEMMA WriteKeeps ==
  ASSUME IInv, NEW t \in Terminals, Write(t)
  PROVE  IInv'
<1> USE DEF IInv, Write, In, Go, Close, Mine, files, session
<1>1. Types'
  BY DEF Types, Keyed, In, Mine, Away, Labels, Starting, Listening, NoPage, Nobody, NoVps, Blank
<1>2. Holding'
  BY DEF Types, In, Mine, Away, Holding, Starting, Listening, Nobody
<1>3. Keyed'
  BY DEF Types, In, Mine, Away, Keyed, Holding, Listening, Nobody
<1>4. Targeted'
  BY DEF Types, In, Mine, Away, Targeted, NoVps, Blank
<1>5. Sessions'
  BY SameSessions, NoSessions
<1> QED
  BY <1>1, <1>2, <1>3, <1>4, <1>5

(* The manager's query of itself is answered before the page is announced. *)
LEMMA ReadyKeeps ==
  ASSUME IInv, NEW t \in Terminals, Ready(t)
  PROVE  IInv'
<1> USE DEF IInv, Ready, In, Go, Close, files, session
<1>1. Types'
  BY DEF Types, In, Mine, Away, Labels, Starting, Listening, NoPage, Nobody, NoVps, Blank
<1>2. Holding'
  BY DEF Types, In, Mine, Away, Holding, Starting, Listening, Nobody
<1>3. Keyed'
  BY DEF Types, In, Mine, Away, Keyed, Holding, Listening, Nobody
<1>4. Targeted'
  BY DEF Types, In, Mine, Away, Targeted, NoVps, Blank
<1>5. Sessions'
  BY SameSessions, NoSessions, AnsweredSessions
<1> QED
  BY <1>1, <1>2, <1>3, <1>4, <1>5

(* A second start takes the target from a manager of the same directory.   *)
LEMMA QueryKeeps ==
  ASSUME IInv, NEW t \in Terminals, Query(t)
  PROVE  IInv'
<1> USE DEF IInv, Query, In, Leave, Serving, Mine, files, session
<1>1. Types'
  BY DEF Types, In, Mine, Away, Labels, Starting, Listening, NoPage, Nobody, NoVps, Blank
<1>2. Holding'
  BY DEF Types, In, Mine, Away, Holding, Starting, Listening, Nobody
<1>3. Keyed'
  BY DEF Types, In, Mine, Away, Keyed, Holding, Listening, Nobody
<1>4. Targeted'
  BY DEF Types, In, Mine, Away, Targeted, NoVps, Blank
<1>5. Sessions'
  BY SameSessions, NoSessions, AnsweredSessions
<1> QED
  BY <1>1, <1>2, <1>3, <1>4, <1>5

(* A second start goes on to show the page, or ends.                       *)
LEMMA EntryKeeps ==
  ASSUME IInv, NEW t \in Terminals, Entry(t)
  PROVE  IInv'
<1> USE DEF IInv, Entry, In, Go, Leave, Mine, files, session
<1>1. Types'
  BY DEF Types, In, Mine, Away, Labels, Starting, Listening, NoPage, Nobody, NoVps, Blank
<1>2. Holding'
  BY DEF Types, In, Mine, Away, Holding, Starting, Listening, Nobody
<1>3. Keyed'
  BY SMTT(30) DEF Types, In, Mine, Away, Keyed, Holding, Listening, Nobody
<1>4. Targeted'
  BY DEF Types, In, Mine, Away, Targeted, NoVps, Blank
<1>5. Sessions'
  BY SameSessions
<1> QED
  BY <1>1, <1>2, <1>3, <1>4, <1>5

(* A second start ends.                                                    *)
LEMMA ToldKeeps ==
  ASSUME IInv, NEW t \in Terminals, Told(t)
  PROVE  IInv'
<1> USE DEF IInv, Told, In, Leave, files, session
<1>1. Types'
  BY DEF Types, In, Mine, Away, Labels, Starting, Listening, NoPage, Nobody, NoVps, Blank
<1>2. Holding'
  BY DEF Types, In, Mine, Away, Holding, Starting, Listening, Nobody
<1>3. Keyed'
  BY DEF Types, In, Mine, Away, Keyed, Holding, Listening, Nobody
<1>4. Targeted'
  BY DEF Types, In, Mine, Away, Targeted, NoVps, Blank
<1>5. Sessions'
  BY SameSessions
<1> QED
  BY <1>1, <1>2, <1>3, <1>4, <1>5

(* A manager that closes gives the port up first.                          *)
LEMMA StopKeeps ==
  ASSUME IInv, NEW t \in Terminals, Stop(t)
  PROVE  IInv'
<1> USE DEF IInv, Stop, In, Go, Close, files, session
<1>1. Types'
  BY DEF Types, In, Mine, Away, Labels, Starting, Listening, NoPage, Nobody, NoVps, Blank
<1>2. Holding'
  BY DEF Types, In, Mine, Away, Holding, Starting, Listening, Nobody
<1>3. Keyed'
  BY DEF Types, In, Mine, Away, Keyed, Holding, Listening, Nobody
<1>4. Targeted'
  BY DEF Types, In, Mine, Away, Targeted, NoVps, Blank
<1>5. Sessions'
  BY SameSessions, NoSessions
<1> QED
  BY <1>1, <1>2, <1>3, <1>4, <1>5

(* The session lock is given up last.                                      *)
LEMMA ClosedKeeps ==
  ASSUME IInv, NEW t \in Terminals, Closed(t)
  PROVE  IInv'
<1> USE DEF IInv, Closed, In, Leave, files, session
<1>1. Types'
  BY DEF Types, In, Mine, Away, Labels, Starting, Listening, NoPage, Nobody, NoVps, Blank
<1>2. Holding'
  BY DEF Types, In, Mine, Away, Holding, Starting, Listening, Nobody
<1>3. Keyed'
  BY DEF Types, In, Mine, Away, Keyed, Holding, Listening, Nobody
<1>4. Targeted'
  BY DEF Types, In, Mine, Away, Targeted, NoVps, Blank
<1>5. Sessions'
  BY SameSessions
<1> QED
  BY <1>1, <1>2, <1>3, <1>4, <1>5

(* The system takes the port and the locks of a killed terminal.           *)
LEMMA KillKeeps ==
  ASSUME IInv, NEW t \in Terminals, Kill(t)
  PROVE  IInv'
<1> USE DEF IInv, Kill, In, Leave, files, session
<1>1. Types'
  BY DEF Types, In, Mine, Away, Labels, Starting, Listening, NoPage, Nobody, NoVps, Blank
<1>2. Holding'
  BY DEF Types, In, Mine, Away, Holding, Starting, Listening, Nobody
<1>3. Keyed'
  BY DEF Types, In, Mine, Away, Keyed, Holding, Listening, Nobody
<1>4. Targeted'
  BY DEF Types, In, Mine, Away, Targeted, NoVps, Blank
<1>5. Sessions'
  BY SameSessions, NoSessions
<1> QED
  BY <1>1, <1>2, <1>3, <1>4, <1>5

(* An interrupted installation never changes a committed VPS.              *)
LEMMA InterruptedKeeps ==
  ASSUME IInv, NEW s \in States, Interrupted(s)
  PROVE  IInv'
<1> USE DEF IInv, Interrupted, files, session
<1>1. Types'
  BY DEF Types, In, Mine, Away, Labels, Starting, Listening, NoPage, Nobody, NoVps, Blank
<1>2. Holding'
  BY DEF Types, In, Mine, Away, Holding, Starting, Listening, Nobody
<1>3. Keyed'
  BY DEF Types, In, Mine, Away, Keyed, Holding, Listening, Nobody
<1>4. Targeted'
  BY DEF Types, In, Mine, Away, Targeted, NoVps, Blank
<1>5. Sessions'
  BY SameSessions
<1> QED
  BY <1>1, <1>2, <1>3, <1>4, <1>5

(* Reconciliation commits a VPS only where none was committed.             *)
LEMMA RecoveredKeeps ==
  ASSUME IInv, NEW s \in States, Recovered(s)
  PROVE  IInv'
<1> USE DEF IInv, Recovered, files, session
<1>1. Types'
  BY DEF Types, In, Mine, Away, Labels, Starting, Listening, NoPage, Nobody, NoVps, Blank
<1>2. Holding'
  BY DEF Types, In, Mine, Away, Holding, Starting, Listening, Nobody
<1>3. Keyed'
  BY DEF Types, In, Mine, Away, Keyed, Holding, Listening, Nobody
<1>4. Targeted'
  BY DEF Types, In, Mine, Away, Targeted, NoVps, Blank
<1>5. Sessions'
  BY SameSessions
<1> QED
  BY <1>1, <1>2, <1>3, <1>4, <1>5

(* Another terminal connects only a directory without a VPS.               *)
LEMMA ConnectElsewhereKeeps ==
  ASSUME IInv, NEW s \in States, NEW v \in Vps, ConnectElsewhere(s, v)
  PROVE  IInv'
<1> USE DEF IInv, ConnectElsewhere, MayConnect, files, session
<1>1. Types'
  BY DEF Types, In, Mine, Away, Labels, Starting, Listening, NoPage, Nobody, NoVps, Blank
<1>2. Holding'
  BY DEF Types, In, Mine, Away, Holding, Starting, Listening, Nobody
<1>3. Keyed'
  BY DEF Types, In, Mine, Away, Keyed, Holding, Listening, Nobody
<1>4. Targeted'
  BY DEF Types, In, Mine, Away, Targeted, NoVps, Blank
<1>5. Sessions'
  BY SameSessions
<1> QED
  BY <1>1, <1>2, <1>3, <1>4, <1>5

(* A move to another VPS is on record in moved.                            *)
LEMMA ReplaceKeeps ==
  ASSUME IInv, NEW s \in States, NEW v \in Vps, Replace(s, v)
  PROVE  IInv'
<1> USE DEF IInv, Replace, files, session
<1>1. Types'
  BY DEF Types, In, Mine, Away, Labels, Starting, Listening, NoPage, Nobody, NoVps, Blank
<1>2. Holding'
  BY DEF Types, In, Mine, Away, Holding, Starting, Listening, Nobody
<1>3. Keyed'
  BY DEF Types, In, Mine, Away, Keyed, Holding, Listening, Nobody
<1>4. Targeted'
  BY DEF Types, In, Mine, Away, Targeted, NoVps, Blank
<1>5. Sessions'
  BY SameSessions
<1> QED
  BY <1>1, <1>2, <1>3, <1>4, <1>5


(* A hello opens a session with a number of its own. *)
LEMMA HelloKeeps ==
  ASSUME IInv, Hello
  PROVE  IInv'
<1> DEFINE h == hellos + 1
<1>1. /\ hellos \in 0..MaxHellos /\ h \in 0..MaxHellos /\ h \in Nat \ {0} /\ hellos \in Nat /\ hellos' = h
      /\ accepted \in [(1..MaxHellos) \X Nonces -> 0..1] /\ accepted' = accepted
      /\ Len(items) <= MaxSessions /\ Sound(items, hellos, accepted)
      /\ \A id \in 1..MaxHellos, n \in Nonces : accepted[<<id, n>>] # 0 => id <= hellos
  BY SessionsAreSound DEF IInv, Hello
<1>2. Sound(items, h, accepted)
  <2>1. Session(hellos) \subseteq Session(h)
    BY <1>1 DEF Session
  <2>2. items \in Seq(Session(h))
    BY <1>1, <2>1, SeqMonotonic DEF Sound
  <2> QED
    BY <1>1, <2>2 DEF Sound
<1>3. EntrySound([id |-> h, seen |-> {}], accepted)
  <2>1. IsFiniteSet({}) /\ Cardinality({}) = 0
    BY FS_EmptySet
  <2>2. \A n \in Nonces : accepted[<<h, n>>] = 0
    BY <1>1
  <2> QED
    BY <2>1, <2>2 DEF EntrySound
<1>4. \A i \in 1..Len(items) : items[i].id # h
  <2>1. \A i \in 1..Len(items) : items[i] \in Session(hellos)
    BY <1>1, ElementOfSeq DEF Sound
  <2>2. \A i \in 1..Len(items) : items[i].id \in 0..hellos
    BY <2>1 DEF Session
  <2> QED
    BY <1>1, <2>2
<1>5. Sound(items', h, accepted) /\ Len(items') <= MaxSessions
  <2>1. h \in 0..h /\ {} \in SUBSET (Nonces \cup {0})
    BY <1>1
  <2>2. items' = Added(items, h, {})
    BY DEF Hello
  <2> HIDE DEF h
  <2> QED
    BY <1>1, <1>2, <1>3, <1>4, <2>1, <2>2, AddedSound
<1>6. Sessions'
  BY <1>1, <1>5, SoundIsSessions
<1>7. Types' /\ Holding' /\ Keyed' /\ Targeted'
  BY DEF IInv, Hello, Types, Holding, Keyed, Targeted, In, Mine, files
<1> QED
  BY <1>6, <1>7 DEF IInv

(* A request goes through only with a nonce its session has not seen, and  *)
(* the session is the only one that could let it through again.            *)
LEMMA DeliverKeeps ==
  ASSUME IInv, NEW id \in 1..hellos, NEW nonce \in Nonces, Deliver(id, nonce)
  PROVE  IInv'
<1>1. /\ hellos \in 0..MaxHellos /\ hellos \in Nat /\ hellos' = hellos
      /\ accepted \in [(1..MaxHellos) \X Nonces -> 0..1]
      /\ Len(items) <= MaxSessions /\ Sound(items, hellos, accepted)
      /\ \A d \in 1..MaxHellos, n \in Nonces : accepted[<<d, n>>] # 0 => d <= hellos
  BY SessionsAreSound DEF IInv, Deliver
<1>2. id \in 1..MaxHellos /\ id # 0
  BY <1>1
<1>3. PICK i \in Position(id) : \E r \in {Consume(i, nonce), Refused(RemoveAt(items, i))} :
             /\ items' = r.items
             /\ accepted' = IF r.ok THEN [accepted EXCEPT ![<<id, nonce>>] = @ + 1] ELSE accepted
  BY DEF Deliver
<1>4. i \in 1..Len(items) /\ items[i].id = id
  BY <1>3 DEF Position
<1> DEFINE rest == RemoveAt(items, i)
           e == [items[i] EXCEPT !.seen = @ \cup {nonce}]
<1>5. /\ Sound(rest, hellos, accepted) /\ Len(rest) = Len(items) - 1
      /\ \A j \in 1..Len(rest) : rest[j].id # id
  BY <1>1, <1>2, <1>4, RemoveSound
<1>6. items[i] \in Session(hellos) /\ EntrySound(items[i], accepted) /\ Len(items) \in Nat
  BY <1>1, <1>4, ElementOfSeq, LenProperties DEF Sound
<1>7. \/ items' = items /\ accepted' = accepted
      \/ items' = rest /\ accepted' = accepted
      \/ /\ nonce \notin items[i].seen /\ Cardinality(items[i].seen) < MaxNonces
         /\ items' = Append(rest, e)
         /\ accepted' = [accepted EXCEPT ![<<id, nonce>>] = @ + 1]
  BY <1>3 DEF Consume, Passed, Refused, Used
<1>8. ASSUME items' = items, accepted' = accepted PROVE Sessions'
  BY <1>1, <1>8, SameSessions DEF IInv, session
<1>9. ASSUME items' = rest, accepted' = accepted PROVE Sessions'
  <2>1. Sound(items', hellos, accepted) /\ Len(items') <= MaxSessions
    BY <1>1, <1>5, <1>6, <1>9
  <2> QED
    BY <1>1, <1>9, <2>1, SoundIsSessions
<1>10. ASSUME nonce \notin items[i].seen, Cardinality(items[i].seen) < MaxNonces,
              items' = Append(rest, e),
              accepted' = [accepted EXCEPT ![<<id, nonce>>] = @ + 1]
       PROVE  Sessions'
  <2>1. e \in Session(hellos) /\ e.id = id /\ e.seen = items[i].seen \cup {nonce}
    BY <1>4, <1>6 DEF Session
  <2> HIDE DEF e
  <2>2. accepted[<<id, nonce>>] = 0
    BY <1>1, <1>2, <1>4, <1>6, <1>10 DEF EntrySound
  <2>3. accepted' \in [(1..MaxHellos) \X Nonces -> 0..1]
    BY <1>1, <1>2, <2>2, <1>10
  <2>4. \A d \in 1..MaxHellos, n \in Nonces :
          accepted'[<<d, n>>] = IF d = id /\ n = nonce THEN 1 ELSE accepted[<<d, n>>]
    <3>1. \A x \in (1..MaxHellos) \X Nonces :
            accepted'[x] = IF x = <<id, nonce>> THEN 1 ELSE accepted[x]
      BY <1>1, <1>2, <2>2, <1>10
    <3>2. \A d \in 1..MaxHellos, n \in Nonces : <<d, n>> \in (1..MaxHellos) \X Nonces
      OBVIOUS
    <3>3. \A d, n : <<d, n>> = <<id, nonce>> <=> d = id /\ n = nonce
      OBVIOUS
    <3> QED
      BY <3>1, <3>2, <3>3
  <2>5. EntrySound(e, accepted')
    <3>1. IsFiniteSet(e.seen) /\ Cardinality(e.seen) <= MaxNonces
      <4>1. IsFiniteSet(items[i].seen)
        BY <1>6 DEF EntrySound
      <4>2. /\ IsFiniteSet(items[i].seen \cup {nonce})
            /\ Cardinality(items[i].seen \cup {nonce}) = Cardinality(items[i].seen) + 1
        BY <4>1, <1>10, FS_AddElement
      <4>3. Cardinality(items[i].seen) \in Nat
        BY <4>1, FS_CardinalityType
      <4> QED
        BY <2>1, <4>2, <4>3, <1>10
    <3>2. \A n \in Nonces : accepted'[<<id, n>>] # 0 => n \in e.seen
      BY <1>2, <1>4, <1>6, <2>1, <2>4 DEF EntrySound
    <3> QED
      BY <3>1, <3>2, <2>1 DEF EntrySound
  <2>6. Sound(rest, hellos, accepted')
    <3>0. \A j \in 1..Len(rest) : rest[j] \in Session(hellos)
      BY <1>5, ElementOfSeq DEF Sound
    <3>1. \A j \in 1..Len(rest) : rest[j].id \in 0..hellos /\ rest[j].id # id /\ EntrySound(rest[j], accepted)
      BY <1>5, <3>0 DEF Sound, Session
    <3>2. ASSUME NEW j \in 1..Len(rest) PROVE EntrySound(rest[j], accepted')
      <4>1. \A n \in Nonces : rest[j].id # 0 =>
              accepted'[<<rest[j].id, n>>] = accepted[<<rest[j].id, n>>]
        BY <1>1, <3>1, <2>4
      <4> QED
        BY <3>1, <4>1 DEF EntrySound
    <3> QED
      BY <1>5, <3>2 DEF Sound
  <2> HIDE DEF rest
  <2>7. Sound(Append(rest, e), hellos, accepted') /\ Len(Append(rest, e)) = Len(rest) + 1
    BY <1>1, <1>5, <2>1, <2>5, <2>6, AppendSound
  <2>8. Sound(items', hellos, accepted') /\ Len(items') <= MaxSessions
    BY <1>1, <1>5, <1>6, <1>10, <2>7
  <2>9. \A d \in 1..MaxHellos, n \in Nonces : accepted'[<<d, n>>] # 0 => d <= hellos
    BY <1>1, <2>4
  <2> QED
    BY <1>1, <2>3, <2>8, <2>9, SoundIsSessions
<1>11. Sessions'
  BY <1>7, <1>8, <1>9, <1>10
<1>12. Types' /\ Holding' /\ Keyed' /\ Targeted'
  BY DEF IInv, Deliver, Types, Holding, Keyed, Targeted, In, Mine, files
<1> QED
  BY <1>11, <1>12 DEF IInv

(* The order of Next, disjunct by disjunct. *)
LEMMA StepKeeps == IInv /\ [Next]_vars => IInv'
<1> SUFFICES ASSUME IInv, [Next]_vars PROVE IInv'
  OBVIOUS
<1>1. ASSUME NEW t \in Terminals, Step(t) PROVE IInv'
  BY <1>1, RunKeeps, LookKeeps, CreateKeeps, LockKeeps, ListenKeeps, RefreshKeeps, BindKeeps,
     WriteKeeps, ReadyKeeps, QueryKeeps, EntryKeeps, ToldKeeps, StopKeeps, ClosedKeeps, KillKeeps
     DEF Step
<1>2. CASE Hello
  BY <1>2, HelloKeeps
<1>3. ASSUME NEW id \in 1..hellos, NEW nonce \in Nonces, Deliver(id, nonce) PROVE IInv'
  BY <1>3, DeliverKeeps
<1>4. ASSUME NEW s \in States, Interrupted(s) \/ Recovered(s) PROVE IInv'
  BY <1>4, InterruptedKeeps, RecoveredKeeps
<1>5. ASSUME NEW s \in States, NEW v \in Vps, ConnectElsewhere(s, v) \/ Replace(s, v) PROVE IInv'
  BY <1>5, ConnectElsewhereKeeps, ReplaceKeeps
<1>6. CASE UNCHANGED vars
  BY <1>6, SameSessions DEF IInv, Types, Holding, Keyed, Targeted, In, Mine, vars, session
<1> QED
  BY <1>1, <1>2, <1>3, <1>4, <1>5, <1>6 DEF Next

(* The inductive invariant holds of every state the managers can reach. *)
THEOREM Invariance == Spec => []IInv
BY InitHolds, StepKeeps, PTL DEF Spec

-----------------------------------------------------------------------------
(* Keys, locks, targets and the page are of their types, and the sessions  *)
(* and their replay sets within their bounds.                              *)
THEOREM TypeCorrect == Spec => []TypeOK
<1>1. IInv => TypeOK
  BY DEF IInv, Types, Sessions, TypeOK, NoPage
<1> QED
  BY <1>1, Invariance, PTL

(* The page on disk is the announced manager's, with the key on disk: a    *)
(* key is never replaced, and only the manager that has the port writes    *)
(* the page.                                                               *)
THEOREM PageAlwaysServes == Spec => []PageServes
<1>1. IInv => PageServes
  BY DEF IInv, Types, Holding, Keyed, Listening, PageServes, In, Mine
<1> QED
  BY <1>1, Invariance, PTL

(* A signed request is let through once, however often it arrives and      *)
(* whatever session was dropped meanwhile.                                 *)
THEOREM AlwaysAcceptedOnce == Spec => []AcceptedOnce
<1>1. IInv => AcceptedOnce
  BY DEF IInv, Sessions, AcceptedOnce
<1> QED
  BY <1>1, Invariance, PTL

(* A second start shows the page of a running manager only for the VPS its *)
(* jobs act on, in every directory that was not moved.                     *)
THEOREM ReusedOnlyForThisVps == Spec => ReusedIsThisVps
<1>1. IInv /\ [Next]_vars
        => \A t \in Terminals : Reuses(t) /\ Mine(t) \notin moved => doc[Mine(t)] = term[t].asked
  <2> SUFFICES ASSUME IInv, [Next]_vars, NEW t \in Terminals, Reuses(t), Mine(t) \notin moved
               PROVE  doc[Mine(t)] = term[t].asked
    OBVIOUS
  <2>1. Agrees(t)
    <3>1. In(t, "entry") /\ term'[t].at = "told" /\ term \in [Terminals -> [at : Labels,
             state : States \cup {"none"}, asked : Vps \cup {NoVps},
             key : Terminals \cup {Nobody}, bound : Vps \cup {NoVps, Blank}]]
      BY DEF Reuses, IInv, Types
    <3>2. ASSUME NEW u \in Terminals, Step(u) PROVE u = t /\ Entry(t)
      <4>1. CASE u # t
        BY <3>1, <3>2, <4>1 DEF Step, In, Run, Look, Create, Lock, Listen, Refresh, Bind, Write,
           Ready, Query, Entry, Told, Stop, Closed, Kill, Go, Leave, Load, Close
      <4>2. CASE u = t
        <5>1. Entry(t) \/ Kill(t)
          BY <3>1, <3>2, <4>2 DEF Step, In, Run, Look, Create, Lock, Listen, Refresh, Bind, Write,
             Ready, Query, Told, Stop, Closed
        <5>2. ~Kill(t)
          BY <3>1 DEF Kill, Leave, Away
        <5> QED
          BY <4>2, <5>1, <5>2
      <4> QED
        BY <4>1, <4>2
    <3>3. CASE term' = term
      BY <3>1, <3>3 DEF In
    <3>4. CASE \E u \in Terminals : Step(u)
      BY <3>1, <3>2, <3>4 DEF Entry, In, Leave, Away
    <3> QED
      BY <3>3, <3>4 DEF Next, vars, Hello, Deliver, Interrupted, Recovered, ConnectElsewhere, Replace
  <2> QED
    BY <2>1 DEF IInv, Types, Targeted, Agrees, Reuses, In, Mine
<1> QED
  BY <1>1, Invariance, PTL DEF ReusedIsThisVps, Spec

=============================================================================
