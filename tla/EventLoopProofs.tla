-------------------------- MODULE EventLoopProofs --------------------------
(***************************************************************************)
(* Theorems about two components that each run on one event loop, a step   *)
(* being what happens between two awaits: the inline images (InlineImages  *)
(* over GraphicsTransport), for any number of images, clients and events   *)
(* and any limits of the transport, and the session handoff (Handoff), for *)
(* every set of sources, requests and operations and any number of faults. *)
(* The two share no name and no state; what is proved of one says nothing  *)
(* of the other.                                                           *)
(*                                                                         *)
(* The inline images come first.  From the bottom up: queues; what each    *)
(* operation of the transport does to its books (Good) and to the calls    *)
(* (Follows); what a turn then does to the program counters, the pane and  *)
(* the clients (Advances); what an action owes the parts of the invariant  *)
(* ImagesInv once its turn is known to advance (StepTurn); and one lemma   *)
(* per action.  The handoff rests on IInv in the same way.                 *)
(***************************************************************************)
EXTENDS Handoff, InlineImages, FiniteSetTheorems, SequenceTheorems,
        WellFoundedInduction, TLAPS

-----------------------------------------------------------------------------
(* Queues without repetition *)

\* The head of a queue leaves it, and nothing else does.
LEMMA QueueTail ==
  ASSUME NEW S, NEW q \in Seq(S), q # <<>>, IsInjective(q)
  PROVE  /\ Tail(q) \in Seq(S) /\ Head(q) \in S /\ Head(q) \in ToSet(q)
         /\ ToSet(Tail(q)) = ToSet(q) \ {Head(q)} /\ IsInjective(Tail(q))
<1>1. /\ Head(q) \in S /\ Tail(q) \in Seq(S) /\ Len(Tail(q)) = Len(q) - 1
      /\ \A i \in 1 .. Len(Tail(q)) : Tail(q)[i] = q[i+1]
  BY HeadTailProperties
<1>2. /\ Len(q) \in Nat /\ DOMAIN q = 1 .. Len(q) /\ DOMAIN Tail(q) = 1 .. Len(Tail(q))
      /\ Len(q) # 0 /\ Head(q) = q[1]
  BY <1>1, LenProperties, EmptySeq
<1>3. Head(q) \in ToSet(q)
  BY <1>2 DEF ToSet
<1>4. IsInjective(Tail(q))
  <2>1. \A i, j \in DOMAIN Tail(q) : Tail(q)[i] = Tail(q)[j] => q[i+1] = q[j+1] /\ i+1 \in DOMAIN q /\ j+1 \in DOMAIN q
    BY <1>1, <1>2
  <2> QED
    BY <1>2, <2>1 DEF IsInjective
<1>5. ASSUME NEW x \in ToSet(Tail(q)) PROVE x \in ToSet(q) /\ x # Head(q)
  <2>1. PICK i \in 1 .. Len(Tail(q)) : x = Tail(q)[i]
    BY <1>2 DEF ToSet
  <2>2. x = q[i+1] /\ i+1 \in DOMAIN q /\ i+1 # 1 /\ 1 \in DOMAIN q
    BY <1>1, <1>2, <2>1
  <2> QED
    BY <1>2, <2>2 DEF ToSet, IsInjective
<1>6. ASSUME NEW x \in ToSet(q), x # Head(q) PROVE x \in ToSet(Tail(q))
  <2>1. PICK i \in DOMAIN q : x = q[i]
    BY DEF ToSet
  <2>2. i # 1 /\ i - 1 \in 1 .. Len(Tail(q)) /\ (i - 1) + 1 = i
    BY <1>1, <1>2, <2>1, <1>6
  <2>3. x = Tail(q)[i - 1]
    BY <1>1, <2>1, <2>2
  <2> QED
    BY <1>2, <2>2, <2>3 DEF ToSet
<1> QED
  BY <1>1, <1>3, <1>4, <1>5, <1>6

\* A call that is not in a queue joins it at its end.
LEMMA QueueAppend ==
  ASSUME NEW S, NEW q \in Seq(S), NEW c \in S, c \notin ToSet(q), IsInjective(q)
  PROVE  /\ Append(q, c) \in Seq(S) /\ Append(q, c) # <<>>
         /\ ToSet(Append(q, c)) = ToSet(q) \cup {c} /\ IsInjective(Append(q, c))
<1> DEFINE r == Append(q, c)
<1>1. /\ r \in Seq(S) /\ r # <<>> /\ Len(r) = Len(q) + 1
      /\ \A i \in 1 .. Len(q) : r[i] = q[i]
      /\ r[Len(q) + 1] = c
  BY AppendProperties
<1> HIDE DEF r
<1>2. Len(q) \in Nat /\ DOMAIN q = 1 .. Len(q) /\ DOMAIN r = 1 .. Len(q) + 1
  BY <1>1, LenProperties
<1>3. \A i \in DOMAIN q : q[i] # c
  BY DEF ToSet
<1>4. IsInjective(r)
  BY <1>1, <1>2, <1>3 DEF IsInjective
<1>5. ToSet(r) = ToSet(q) \cup {c}
  BY <1>1, <1>2 DEF ToSet
<1> QED
  BY <1>1, <1>4, <1>5 DEF r

\* A nonempty set of natural numbers has a least one.
LEMMA Least ==
  ASSUME NEW S \in SUBSET Nat, S # {}
  PROVE  Min(S) \in S /\ \A y \in S : Min(S) <= y
<1>1. \E x \in S : \A y \in S : ~ (<<y, x>> \in OpToRel(<, Nat))
  BY NatLessThanWellFounded, WFMin
<1>2. \A y, x \in Nat : y < x => <<y, x>> \in OpToRel(<, Nat)
  BY DEF OpToRel
<1>3. \E x \in S : \A y \in S : x <= y
  <2>1. PICK x \in S : \A y \in S : ~ (<<y, x>> \in OpToRel(<, Nat))
    BY <1>1
  <2>2. \A y \in S : ~ (y < x)
    BY <1>2, <2>1
  <2> QED
    BY <2>2
<1> QED
  BY <1>3 DEF Min

\* A nonempty set of image numbers has a greatest one.
LEMMA Greatest ==
  ASSUME NEW n \in Nat, NEW S \in SUBSET (1 .. n), S # {}
  PROVE  Max(S) \in S
<1> DEFINE D == {n - x : x \in S}
<1>1. D \in SUBSET Nat /\ D # {}
  <2>1. \A x \in S : n - x \in Nat
    OBVIOUS
  <2> QED
    BY <2>1
<1>2. PICK d \in D : \A e \in D : d <= e
  <2> HIDE DEF D
  <2> QED
    BY <1>1, Least
<1>3. PICK x \in S : d = n - x
  OBVIOUS
<1>4. ASSUME NEW y \in S PROVE x >= y
  <2>1. n - y \in D
    OBVIOUS
  <2>2. n - x <= n - y
    <3> HIDE DEF D
    <3> QED
      BY <1>2, <1>3, <2>1
  <2> QED
    BY <2>2
<1> QED
  BY <1>3, <1>4 DEF Max

\* A call is in a queue once, and is gone when its first occurrence is.
LEMMA QueueRemove ==
  ASSUME NEW S, NEW q \in Seq(S), NEW c \in ToSet(q), IsInjective(q)
  PROVE  /\ RemoveFirst(q, c) \in Seq(S) /\ IsInjective(RemoveFirst(q, c))
         /\ ToSet(RemoveFirst(q, c)) = ToSet(q) \ {c}
<1>1. Len(q) \in Nat /\ DOMAIN q = 1 .. Len(q)
  BY LenProperties
<1> DEFINE n == SelectInSeq(q, LAMBDA v : v = c)
           I == {j \in 1 .. Len(q) : q[j] = c}
<1>2. PICK m \in 1 .. Len(q) : q[m] = c
  BY <1>1 DEF ToSet
<1>3. n = Min(I) /\ I \in SUBSET Nat /\ I # {}
  BY <1>1, <1>2 DEF SelectInSeq
<1>4. Min(I) \in I
  BY <1>3, Least
<1>5. n \in 1 .. Len(q) /\ q[n] = c
  BY <1>3, <1>4
<1> HIDE DEF n
<1>6. RemoveFirst(q, c) = RemoveAt(q, n)
  BY <1>2 DEF RemoveFirst, n
<1> DEFINE a == SubSeq(q, 1, n - 1)
           b == SubSeq(q, n + 1, Len(q))
           r == a \o b
<1>7. n \in Nat /\ n >= 1 /\ n <= Len(q)
  BY <1>1, <1>5
<1>8. a \in Seq(S) /\ Len(a) = n - 1 /\ \A j \in 1 .. n - 1 : a[j] = q[j]
  BY <1>1, <1>7, SubSeqProperties
<1>9. b \in Seq(S) /\ Len(b) = Len(q) - n /\ \A j \in 1 .. Len(q) - n : b[j] = q[n + j]
  <2>1. /\ n + 1 \in Int /\ Len(q) \in Int /\ Len(q) - (n + 1) + 1 = Len(q) - n
        /\ \A i \in n + 1 .. Len(q) : q[i] \in S
        /\ \A j \in 1 .. Len(q) - n : (n + 1) + j - 1 = n + j
    BY <1>1, <1>7
  <2>2. /\ b \in Seq(S)
        /\ Len(b) = IF n + 1 <= Len(q) THEN Len(q) - (n + 1) + 1 ELSE 0
        /\ \A j \in 1 .. Len(q) - (n + 1) + 1 : b[j] = q[(n + 1) + j - 1]
    BY <2>1, SubSeqProperties
  <2>3. Len(b) = Len(q) - n
    <3> HIDE DEF b
    <3>1. \A l \in Nat : n <= l => (IF n + 1 <= l THEN l - (n + 1) + 1 ELSE 0) = l - n
      BY <1>7
    <3>2. Len(q) \in Nat
      BY <1>1
    <3>3. (IF n + 1 <= Len(q) THEN Len(q) - (n + 1) + 1 ELSE 0) = Len(q) - n
      BY <1>7, <3>1, <3>2
    <3> QED BY <2>2, <3>3
  <2>4. \A j \in 1 .. Len(q) - n : b[j] = q[n + j]
    <3> HIDE DEF b
    <3> QED BY <2>1, <2>2
  <2> QED
    BY <2>2, <2>3, <2>4
<1> HIDE DEF a, b
<1>10. /\ r \in Seq(S) /\ Len(r) = Len(q) - 1
       /\ \A j \in 1 .. Len(q) - 1 : r[j] = IF j < n THEN q[j] ELSE q[j + 1]
  <2>1. r \in Seq(S) /\ Len(r) = Len(a) + Len(b)
    BY <1>8, <1>9, ConcatProperties
  <2>2. \A j \in 1 .. Len(a) + Len(b) : r[j] = IF j <= Len(a) THEN a[j] ELSE b[j - Len(a)]
    BY <1>8, <1>9, ConcatProperties
  <2>3. ASSUME NEW j \in 1 .. Len(q) - 1, j < n PROVE r[j] = q[j]
    BY <1>1, <1>7, <1>8, <1>9, <2>2, <2>3
  <2>4. ASSUME NEW j \in 1 .. Len(q) - 1, ~(j < n) PROVE r[j] = q[j + 1]
    <3>1. j - Len(a) \in 1 .. Len(q) - n /\ n + (j - Len(a)) = j + 1 /\ ~(j <= Len(a))
      BY <1>1, <1>7, <1>8, <2>4
    <3>2. r[j] = b[j - Len(a)]
      BY <1>1, <1>7, <1>8, <1>9, <2>2, <3>1
    <3> QED
      BY <1>9, <3>1, <3>2
  <2> QED
    BY <1>1, <1>7, <1>8, <1>9, <2>1, <2>3, <2>4
<1>11. RemoveFirst(q, c) = r
  BY <1>6 DEF RemoveAt, a, b
<1> HIDE DEF r
<1>12. DOMAIN r = 1 .. Len(q) - 1
  BY <1>1, <1>10, LenProperties
<1> DEFINE Place(j) == IF j < n THEN j ELSE j + 1
<1>13. \A j \in DOMAIN r : r[j] = q[Place(j)] /\ Place(j) \in DOMAIN q /\ Place(j) # n
  BY <1>1, <1>7, <1>10, <1>12
<1>14. \A i, j \in DOMAIN r : Place(i) = Place(j) => i = j
  BY <1>1, <1>7, <1>12
<1>15. IsInjective(r)
  <2> HIDE DEF Place
  <2> QED BY <1>13, <1>14 DEF IsInjective
<1>16. ToSet(r) = ToSet(q) \ {c}
  <2>1. ASSUME NEW x \in ToSet(r) PROVE x \in ToSet(q) \ {c}
    <3>1. PICK j \in DOMAIN r : x = r[j]
      BY DEF ToSet
    <3>2. x = q[Place(j)] /\ Place(j) \in DOMAIN q /\ Place(j) # n /\ n \in DOMAIN q
      BY <1>1, <1>5, <1>13, <3>1
    <3> HIDE DEF Place
    <3> QED BY <1>5, <3>2 DEF ToSet, IsInjective
  <2>2. ASSUME NEW x \in ToSet(q) \ {c} PROVE x \in ToSet(r)
    <3>1. PICK j \in DOMAIN q : x = q[j]
      BY DEF ToSet
    <3>2. j # n
      BY <1>5, <3>1
    <3> DEFINE i == IF j < n THEN j ELSE j - 1
    <3>3. i \in DOMAIN r /\ r[i] = q[j]
      BY <1>1, <1>7, <1>10, <1>12, <3>2
    <3> HIDE DEF i
    <3> QED BY <3>1, <3>3 DEF ToSet
  <2> QED BY <2>1, <2>2
<1> QED
  BY <1>10, <1>11, <1>15, <1>16

-----------------------------------------------------------------------------
(* The operations of the transport: its books, and the calls *)

\* A transport of the right type with its books in order and nobody waiting
\* for a drain that is not owed.
Good(t) == t \in T!Transports(T!CallStates) /\ T!Booked(t) /\ T!Owed(t)

\* Whoever waits for the drain waits behind the queue, or has asked for one.
Waited(t) == T!Live(t) /\ (\E c \in Calls : t.pc[c] = "waiting") => t.queue # <<>> \/ t.waiting

\* What an operation may do to the calls on the way from t to u: none starts
\* or ends, and only the one it writes to the sink is admitted.
Follows(t, u) ==
    /\ \A c \in Calls :
        /\ u.pc[c] = "idle" <=> t.pc[c] = "idle"
        /\ u.pc[c] = "queued" => t.pc[c] = "queued"
        /\ u.pc[c] = "waiting" => t.pc[c] = "waiting"
        /\ u.pc[c] = "drained" => t.pc[c] \in {"waiting", "drained"}
        /\ u.pc[c] = "admitted" => t.pc[c] = "admitted" \/ (t.pc[c] = "queued" /\ c = u.wrote)
        /\ t.pc[c] \in {"admitted", "late"} => u.pc[c] \in {"admitted", "late"}
    /\ \/ u.wrote = t.wrote /\ u.undrained <= t.undrained
       \/ /\ u.wrote \in Calls /\ t.pc[u.wrote] = "queued"
          /\ u.pc[u.wrote] \in {"admitted", "late"} /\ u.undrained <= Bytes(u.wrote)

\* The pieces of a transport have their types.
LEMMA Fields ==
  ASSUME NEW t \in T!Transports(T!CallStates)
  PROVE  /\ t.queue \in Seq(Calls) /\ t.undrained \in Nat /\ t.backpressured \in BOOLEAN
         /\ t.waiting \in BOOLEAN /\ t.timer \in {"none", "later", "due"}
         /\ t.strayDue \in BOOLEAN /\ t.strayLater \in BOOLEAN /\ t.pacing \in BOOLEAN
         /\ t.needDrain \in BOOLEAN /\ t.state \in {"live", "failed", "disposed"}
         /\ t.wrote \in Calls \cup {NoCall} /\ t.pc \in [Calls -> T!CallStates]
BY DEF T!Transports

\* A transaction has a size.
LEMMA BytesType == \A c \in Calls : Bytes(c) \in Nat
BY DEF Bytes

\* One program counter moves.
LEMMA GotoEffect ==
  ASSUME NEW t \in T!Transports(T!CallStates), NEW c \in Calls, NEW s \in T!CallStates
  PROVE  LET u == T!Goto(t, c, s) IN
         /\ u \in T!Transports(T!CallStates)
         /\ u.pc[c] = s /\ \A d \in Calls \ {c} : u.pc[d] = t.pc[d]
         /\ u.pc = [t.pc EXCEPT ![c] = s]
         /\ u.state = t.state /\ u.needDrain = t.needDrain /\ u.waiting = t.waiting
         /\ u.backpressured = t.backpressured /\ u.queue = t.queue /\ u.wrote = t.wrote
         /\ u.pacing = t.pacing /\ u.undrained = t.undrained /\ u.timer = t.timer
         /\ u.strayDue = t.strayDue /\ u.strayLater = t.strayLater
<1> DEFINE u == T!Goto(t, c, s)
           p == [t.pc EXCEPT ![c] = s]
<1>1. t.pc \in [Calls -> T!CallStates]
  BY Fields
<1>2. p \in [Calls -> T!CallStates] /\ p[c] = s /\ \A d \in Calls \ {c} : p[d] = t.pc[d]
  BY <1>1
<1>3. u = [t EXCEPT !.pc = p]
  BY DEF T!Goto
<1> HIDE DEF p, u
<1>4. u \in T!Transports(T!CallStates)
  BY <1>2, <1>3 DEF T!Transports
<1>5. /\ u.pc = p
      /\ u.state = t.state /\ u.needDrain = t.needDrain /\ u.waiting = t.waiting
      /\ u.backpressured = t.backpressured /\ u.queue = t.queue /\ u.wrote = t.wrote
      /\ u.pacing = t.pacing /\ u.undrained = t.undrained /\ u.timer = t.timer
      /\ u.strayDue = t.strayDue /\ u.strayLater = t.strayLater
  BY <1>3 DEF T!Transports
<1> QED
  BY <1>2, <1>4, <1>5 DEF p, u

\* A transport follows itself.
LEMMA FollowsSelf ==
  ASSUME NEW t \in T!Transports(T!CallStates)
  PROVE  Follows(t, t)
BY Fields DEF Follows

\* Of two steps in a row only one writes.
LEMMA FollowsThen ==
  ASSUME NEW t \in T!Transports(T!CallStates), NEW u \in T!Transports(T!CallStates),
         NEW v \in T!Transports(T!CallStates), Follows(t, u), Follows(u, v),
         t.wrote = NoCall, u.wrote = NoCall \/ v.wrote = u.wrote, NoCall \notin Calls
  PROVE  Follows(t, v)
<1>1. /\ t.undrained \in Nat /\ u.undrained \in Nat /\ v.undrained \in Nat
      /\ \A c \in Calls : Bytes(c) \in Nat
  BY Fields, BytesType
<1>2. CASE u.wrote = NoCall
  BY <1>1, <1>2 DEF Follows
<1>3. CASE u.wrote # NoCall
  <2>1. u.wrote \in Calls /\ t.pc[u.wrote] = "queued" /\ u.pc[u.wrote] \in {"admitted", "late"}
        /\ u.undrained <= Bytes(u.wrote) /\ v.wrote = u.wrote
    BY <1>3 DEF Follows
  <2>2. v.undrained <= u.undrained
    BY <2>1 DEF Follows
  <2>3. v.pc[v.wrote] \in {"admitted", "late"} /\ v.undrained <= Bytes(v.wrote)
    BY <1>1, <2>1, <2>2 DEF Follows
  <2>4. ASSUME NEW c \in Calls, v.pc[c] = "admitted"
        PROVE  t.pc[c] = "admitted" \/ (t.pc[c] = "queued" /\ c = v.wrote)
    <3>1. u.pc[c] = "admitted"
      BY <2>1, <2>4 DEF Follows
    <3> QED
      BY <2>1, <3>1 DEF Follows
  <2>5. \A c \in Calls :
           /\ v.pc[c] = "idle" <=> t.pc[c] = "idle"
           /\ v.pc[c] = "queued" => t.pc[c] = "queued"
           /\ v.pc[c] = "waiting" => t.pc[c] = "waiting"
           /\ v.pc[c] = "drained" => t.pc[c] \in {"waiting", "drained"}
           /\ t.pc[c] \in {"admitted", "late"} => v.pc[c] \in {"admitted", "late"}
    BY DEF Follows
  <2> QED
    BY <2>1, <2>3, <2>4, <2>5 DEF Follows
<1> QED
  BY <1>2, <1>3

\* settleReady(): nothing but promises of ready() that resolve.
LEMMA SettleEffect ==
  ASSUME NEW t, Good(t), NEW u, u = T!SettleReady(t)
  PROVE  /\ Good(u) /\ Follows(t, u) /\ u.wrote = t.wrote /\ u.queue = t.queue
         /\ u.pacing = t.pacing
         /\ t.queue = <<>> \/ T!Awake(t) => T!Awake(u)
<1>1. t \in T!Transports(T!CallStates) /\ T!Booked(t) /\ T!Owed(t)
  BY DEF Good
<1>2. t.pc \in [Calls -> T!CallStates] /\ t.undrained \in Nat
  BY <1>1, Fields
<1>3. CASE u = t
  BY <1>1, <1>3, FollowsSelf DEF Good, T!Awake, T!Owed, T!Live, T!SettleReady, T!Move
<1>4. CASE u # t
  <2>1. /\ t.queue = <<>> /\ ~t.backpressured /\ T!Live(t)
        /\ u = [t EXCEPT !.pc = [c \in Calls |-> IF t.pc[c] \in {"waiting"} THEN "drained" ELSE t.pc[c]]]
    BY <1>4 DEF T!SettleReady, T!Move
  <2> DEFINE p == [c \in Calls |-> IF t.pc[c] \in {"waiting"} THEN "drained" ELSE t.pc[c]]
  <2>2. /\ p \in [Calls -> T!CallStates]
        /\ \A c \in Calls : p[c] = IF t.pc[c] = "waiting" THEN "drained" ELSE t.pc[c]
    BY <1>2 DEF T!CallStates
  <2> HIDE DEF p
  <2>3. u = [t EXCEPT !.pc = p]
    BY <2>1 DEF p
  <2>4. u \in T!Transports(T!CallStates)
    BY <1>1, <2>2, <2>3 DEF T!Transports
  <2>5. /\ u.pc = p /\ u.queue = t.queue /\ u.wrote = t.wrote /\ u.pacing = t.pacing
        /\ u.undrained = t.undrained /\ u.state = t.state /\ u.waiting = t.waiting
        /\ u.backpressured = t.backpressured /\ u.needDrain = t.needDrain
    BY <1>1, <2>3 DEF T!Transports
  <2>6. T!Booked(u)
    BY <1>1, <2>2, <2>5 DEF T!Booked
  <2>7. T!Owed(u) /\ T!Awake(u)
    BY <1>1, <2>1, <2>2, <2>5 DEF T!Owed, T!Awake, T!Live
  <2>8. Follows(t, u)
    BY <1>2, <2>2, <2>5 DEF Follows
  <2> QED
    BY <2>4, <2>5, <2>6, <2>7, <2>8 DEF Good
<1> QED
  BY <1>3, <1>4

\* The books, in the words of this module.
LEMMA Books ==
  ASSUME NEW t
  PROVE  T!Booked(t) <=> /\ {c \in Calls : t.pc[c] = "queued"} = ToSet(t.queue)
                         /\ IsInjective(t.queue)
<1>1. T!ToSet(t.queue) = ToSet(t.queue)
  BY DEF T!ToSet, ToSet
<1>2. T!IsInjective(t.queue) <=> IsInjective(t.queue)
  BY DEF T!IsInjective, IsInjective
<1> QED
  BY <1>1, <1>2 DEF T!Booked

\* So is the removal of a call.
LEMMA SameRemove ==
  ASSUME NEW q, NEW c
  PROVE  T!RemoveFirst(q, c) = RemoveFirst(q, c)
<1>1. \A S : T!Min(S) = Min(S)
  BY DEF T!Min, Min
<1>2. T!SelectInSeq(q, LAMBDA v : v = c) = SelectInSeq(q, LAMBDA v : v = c)
  BY <1>1 DEF T!SelectInSeq, SelectInSeq
<1>3. \A i : T!RemoveAt(q, i) = RemoveAt(q, i)
  BY DEF T!RemoveAt, RemoveAt
<1> QED
  BY <1>2, <1>3 DEF T!RemoveFirst, RemoveFirst

\* Operations that only touch timers or the wait for the drain.
LEMMA FlagsEffect ==
  ASSUME NEW t \in T!Transports(T!CallStates)
  PROVE  /\ T!LosePumpTimer(t) \in T!Transports(T!CallStates)
         /\ T!WaitForDrain(t) \in T!Transports(T!CallStates)
         /\ T!SchedulePump(t) \in T!Transports(T!CallStates)
         /\ T!ClearPumpTimer(t) \in T!Transports(T!CallStates)
<1>1. /\ t.timer \in {"none", "later", "due"}
      /\ t.strayDue \in BOOLEAN /\ t.strayLater \in BOOLEAN
  BY Fields
<1>2. T!LosePumpTimer(t) \in T!Transports(T!CallStates)
  BY <1>1 DEF T!LosePumpTimer, T!Transports
<1>3. T!WaitForDrain(t) \in T!Transports(T!CallStates)
  BY DEF T!WaitForDrain, T!Transports
<1>4. T!SchedulePump(t) \in T!Transports(T!CallStates)
  BY DEF T!SchedulePump, T!Transports
<1>5. T!ClearPumpTimer(t) \in T!Transports(T!CallStates)
  BY DEF T!ClearPumpTimer, T!Transports
<1> QED
  BY <1>2, <1>3, <1>4, <1>5

\* waitForDrain() moves no call.
LEMMA WaitEffect ==
  ASSUME NEW t \in T!Transports(T!CallStates), NEW u, u = T!WaitForDrain(t)
  PROVE  /\ u \in T!Transports(T!CallStates)
         /\ u.waiting /\ u.backpressured /\ u.needDrain = t.needDrain /\ u.state = t.state
         /\ u.pc = t.pc /\ u.queue = t.queue /\ u.wrote = t.wrote
         /\ u.pacing = t.pacing /\ u.undrained = t.undrained /\ u.timer = t.timer
         /\ u.strayDue = t.strayDue /\ u.strayLater = t.strayLater
<1>1. u \in T!Transports(T!CallStates)
  BY FlagsEffect
<1>2. u = [t EXCEPT !.backpressured = TRUE, !.waiting = TRUE]
  BY DEF T!WaitForDrain
<1> QED
  BY <1>1, <1>2 DEF T!Transports

\* resume() between two writes: a wait or a timer, and no call moves.
LEMMA ResumePacedEffect ==
  ASSUME NEW t, Good(t), NEW u, u = T!ResumePaced(t)
  PROVE  /\ Good(u) /\ Follows(t, u) /\ u.wrote = t.wrote /\ u.queue = t.queue
         /\ u.pacing = t.pacing /\ u.pc = t.pc /\ u.undrained = t.undrained
         /\ t.queue # <<>> \/ T!Awake(t) => T!Awake(u)
<1>1. t \in T!Transports(T!CallStates) /\ T!Booked(t) /\ T!Owed(t)
  BY DEF Good
<1>2. CASE ~T!Live(t) \/ t.queue = <<>>
  <2>1. u = t
    BY <1>2 DEF T!ResumePaced
  <2>2. T!Live(t) /\ t.queue # <<>> => FALSE
    BY <1>2
  <2> QED
    BY <1>1, <2>1, <2>2, FollowsSelf DEF T!Awake
<1>3. CASE T!Live(t) /\ t.queue # <<>> /\ (t.backpressured \/ t.needDrain \/ t.undrained > 0)
  <2>1. u = T!WaitForDrain(t)
    BY <1>3 DEF T!ResumePaced
  <2>2. /\ u \in T!Transports(T!CallStates)
        /\ u.waiting /\ u.backpressured /\ u.needDrain = t.needDrain /\ u.state = t.state
        /\ u.pc = t.pc /\ u.queue = t.queue /\ u.wrote = t.wrote
        /\ u.pacing = t.pacing /\ u.undrained = t.undrained
    BY <1>1, <2>1, WaitEffect
  <2>3. t.needDrain
    BY <1>1, <1>3 DEF T!Owed
  <2>4. T!Owed(u) /\ T!Awake(u) /\ T!Booked(u)
    BY <1>1, <2>2, <2>3 DEF T!Owed, T!Awake, T!Booked
  <2>5. Follows(t, u)
    BY <1>1, <2>2, Fields DEF Follows
  <2> QED
    BY <2>2, <2>4, <2>5 DEF Good
<1>4. CASE T!Live(t) /\ t.queue # <<>> /\ ~(t.backpressured \/ t.needDrain \/ t.undrained > 0)
  <2>1. u = T!SchedulePump(t)
    BY <1>4 DEF T!ResumePaced
  <2>2. /\ u \in T!Transports(T!CallStates)
        /\ u.timer # "none" /\ u.state = t.state /\ u.needDrain = t.needDrain
        /\ u.waiting = t.waiting /\ u.backpressured = t.backpressured
        /\ u.pc = t.pc /\ u.queue = t.queue /\ u.wrote = t.wrote
        /\ u.pacing = t.pacing /\ u.undrained = t.undrained
    BY <1>1, <2>1, FlagsEffect DEF T!SchedulePump, T!Transports
  <2>3. T!Owed(u) /\ T!Awake(u) /\ T!Booked(u)
    BY <1>1, <1>4, <2>2 DEF T!Owed, T!Awake, T!Booked, T!Live
  <2>4. Follows(t, u)
    BY <1>1, <2>2, Fields DEF Follows
  <2> QED
    BY <2>2, <2>3, <2>4 DEF Good
<1> QED
  BY <1>2, <1>3, <1>4

\* One transaction reaches the sink: the head of the queue, whose call is
\* admitted, with nothing undrained before it.
LEMMA WrittenEffect ==
  ASSUME NEW t, Good(t), T!Live(t), ~t.backpressured, t.queue # <<>>,
         NEW answer \in BOOLEAN, NEW u, u = T!Written(t, answer)
  PROVE  /\ Good(u) /\ T!Awake(u) /\ Follows(t, u)
         /\ u.wrote = Head(t.queue) /\ u.pacing /\ u.state = t.state
<1> DEFINE c == Head(t.queue)
           p == [t.pc EXCEPT ![c] = "admitted"]
<1>1. t \in T!Transports(T!CallStates) /\ T!Booked(t) /\ T!Owed(t)
  BY DEF Good
<1>2. /\ t.queue \in Seq(Calls) /\ IsInjective(t.queue) /\ t.undrained \in Nat
      /\ t.pc \in [Calls -> T!CallStates] /\ t.needDrain \in BOOLEAN
      /\ {d \in Calls : t.pc[d] = "queued"} = ToSet(t.queue)
  <2>1. IsInjective(t.queue) /\ {d \in Calls : t.pc[d] = "queued"} = ToSet(t.queue)
    BY <1>1, Books
  <2> QED
    BY <1>1, <2>1, Fields
<1>3. /\ c \in Calls /\ c \in ToSet(t.queue) /\ Tail(t.queue) \in Seq(Calls)
      /\ ToSet(Tail(t.queue)) = ToSet(t.queue) \ {c} /\ IsInjective(Tail(t.queue))
  BY <1>2, QueueTail
<1>4. ~t.waiting /\ t.undrained = 0 /\ t.pc[c] = "queued"
  BY <1>1, <1>2, <1>3 DEF T!Owed
<1>5. Bytes(c) \in Nat
  BY <1>3, BytesType
<1> DEFINE g == T!Goto(t, c, "admitted")
           w == [g EXCEPT
                   !.queue = Tail(@), !.wrote = c, !.pacing = TRUE,
                   !.needDrain = @ \/ ~answer]
<1> HIDE DEF c
<1>6. /\ p \in [Calls -> T!CallStates] /\ p[c] = "admitted"
      /\ \A d \in Calls \ {c} : p[d] = t.pc[d]
  BY <1>2, <1>3 DEF T!CallStates
<1>7. /\ g \in T!Transports(T!CallStates) /\ g.pc = p
      /\ g.state = t.state /\ g.needDrain = t.needDrain /\ g.waiting = t.waiting
      /\ g.backpressured = t.backpressured /\ g.queue = t.queue /\ g.undrained = t.undrained
  <2>1. "admitted" \in T!CallStates
    BY DEF T!CallStates
  <2> QED
    BY <1>1, <1>3, <2>1, GotoEffect
<1> HIDE DEF p, g
<1>8. /\ w \in T!Transports(T!CallStates)
      /\ w.pc = p /\ w.queue = Tail(t.queue) /\ w.wrote = c /\ w.pacing
      /\ w.needDrain = (t.needDrain \/ ~answer) /\ w.undrained = t.undrained
      /\ w.state = t.state /\ w.waiting = t.waiting /\ w.backpressured = t.backpressured
  BY <1>1, <1>2, <1>3, <1>6, <1>7 DEF T!Transports
<1>9. u = IF answer
          THEN LET x == [w EXCEPT !.backpressured = FALSE, !.waiting = FALSE]
               IN  IF x.queue # <<>> THEN T!ResumePaced(x) ELSE T!SettleReady(x)
          ELSE T!WaitForDrain([w EXCEPT !.undrained = @ + Bytes(c)])
  BY DEF T!Written, c, g
<1> HIDE DEF w
<1>10. ASSUME NEW x, x \in T!Transports(T!CallStates), x.pc = p, x.queue = Tail(t.queue),
              x.wrote = c, x.undrained <= Bytes(c)
       PROVE  T!Booked(x) /\ Follows(t, x)
  <2>1. T!Booked(x)
    <3>1. \A d \in Calls : p[d] = "queued" <=> t.pc[d] = "queued" /\ d # c
      BY <1>6
    <3>2. {d \in Calls : p[d] = "queued"} = {d \in Calls : t.pc[d] = "queued"} \ {c}
      BY <3>1
    <3> QED
      BY <1>2, <1>3, <1>10, <3>2, Books
  <2>2. Follows(t, x)
    BY <1>2, <1>3, <1>4, <1>6, <1>10 DEF Follows
  <2> QED
    BY <2>1, <2>2
<1>11. CASE answer
  <2> DEFINE x == [w EXCEPT !.backpressured = FALSE, !.waiting = FALSE]
  <2>1. /\ x \in T!Transports(T!CallStates) /\ x.pc = p /\ x.queue = Tail(t.queue)
        /\ x.wrote = c /\ x.undrained = 0 /\ x.pacing /\ x.state = t.state
        /\ ~x.waiting /\ ~x.backpressured
    BY <1>4, <1>8 DEF T!Transports
  <2>2. u = IF x.queue # <<>> THEN T!ResumePaced(x) ELSE T!SettleReady(x)
    BY <1>9, <1>11
  <2> HIDE DEF x
  <2>3. T!Booked(x) /\ Follows(t, x)
    BY <1>5, <1>10, <2>1
  <2>4. Good(x)
    BY <2>1, <2>3 DEF Good, T!Owed
  <2>5. /\ Good(u) /\ Follows(x, u) /\ u.wrote = c /\ u.pacing /\ T!Awake(u)
    <3>1. CASE x.queue # <<>>
      <4>1. u = T!ResumePaced(x)
        BY <2>2, <3>1
      <4> QED
        BY <2>1, <2>4, <3>1, <4>1, ResumePacedEffect
    <3>2. CASE x.queue = <<>>
      <4>1. u = T!SettleReady(x)
        BY <2>2, <3>2
      <4> QED
        BY <2>1, <2>4, <3>2, <4>1, SettleEffect
    <3> QED
      BY <3>1, <3>2
  <2>6. u.state = t.state
    BY <2>1, <2>2 DEF T!ResumePaced, T!SettleReady, T!Move, T!WaitForDrain, T!SchedulePump,
                      T!Transports
  <2>7. Follows(t, u)
    <3>1. u \in T!Transports(T!CallStates) /\ u.undrained \in Nat
      BY <2>5, Fields DEF Good
    <3>2. u.undrained <= 0
      BY <1>6, <2>1, <2>5, <1>3 DEF Follows
    <3>3. u.pc[c] \in {"admitted", "late"}
      BY <1>3, <1>6, <2>1, <2>5 DEF Follows
    <3>4. ASSUME NEW d \in Calls
          PROVE  /\ u.pc[d] = "idle" <=> t.pc[d] = "idle"
                 /\ u.pc[d] = "queued" => t.pc[d] = "queued"
                 /\ u.pc[d] = "waiting" => t.pc[d] = "waiting"
                 /\ u.pc[d] = "drained" => t.pc[d] \in {"waiting", "drained"}
                 /\ u.pc[d] = "admitted" => t.pc[d] = "admitted" \/ (t.pc[d] = "queued" /\ d = u.wrote)
                 /\ t.pc[d] \in {"admitted", "late"} => u.pc[d] \in {"admitted", "late"}
      BY <1>3, <1>4, <1>6, <2>1, <2>5 DEF Follows
    <3> QED
      BY <1>3, <1>4, <1>5, <2>5, <3>1, <3>2, <3>3, <3>4 DEF Follows
  <2> QED
    BY <2>5, <2>6, <2>7 DEF c
<1>12. CASE ~answer
  <2> DEFINE x == [w EXCEPT !.undrained = @ + Bytes(c)]
  <2>1. /\ x \in T!Transports(T!CallStates) /\ x.pc = p /\ x.queue = Tail(t.queue)
        /\ x.wrote = c /\ x.undrained = Bytes(c) /\ x.pacing /\ x.state = t.state
        /\ x.needDrain
    BY <1>4, <1>5, <1>8, <1>12 DEF T!Transports
  <2>2. u = T!WaitForDrain(x)
    BY <1>9, <1>12
  <2> HIDE DEF x
  <2>3. /\ u \in T!Transports(T!CallStates) /\ u.pc = p /\ u.queue = Tail(t.queue)
        /\ u.wrote = c /\ u.undrained = Bytes(c) /\ u.pacing /\ u.state = t.state
        /\ u.needDrain /\ u.waiting /\ u.backpressured
    BY <2>1, <2>2, WaitEffect
  <2>4. T!Booked(u) /\ Follows(t, u)
    BY <1>5, <1>10, <2>3
  <2> QED
    BY <2>3, <2>4 DEF Good, T!Owed, T!Awake, c
<1> QED
  BY <1>11, <1>12

\* pump(): at most the head of the queue is written, and never while the sink
\* owes a drain.
LEMMA PumpEffect ==
  ASSUME NEW t, Good(t), Waited(t), NEW u \in T!Pump(t)
  PROVE  /\ Good(u) /\ T!Awake(u) /\ Follows(t, u) /\ u.state = t.state
         /\ u.wrote = t.wrote \/ u.pacing
<1> DEFINE x == T!LosePumpTimer(t)
<1>1. t \in T!Transports(T!CallStates) /\ T!Booked(t) /\ T!Owed(t)
  BY DEF Good
<1>2. /\ x \in T!Transports(T!CallStates)
      /\ x.state = t.state /\ x.needDrain = t.needDrain
      /\ x.waiting = t.waiting /\ x.backpressured = t.backpressured
      /\ x.pc = t.pc /\ x.queue = t.queue /\ x.wrote = t.wrote
      /\ x.pacing = t.pacing /\ x.undrained = t.undrained
  <2>1. x \in T!Transports(T!CallStates)
    BY <1>1, FlagsEffect
  <2>2. x = [t EXCEPT !.timer = "none",
                      !.strayDue = @ \/ t.timer = "due",
                      !.strayLater = @ \/ t.timer = "later"]
    BY DEF T!LosePumpTimer
  <2> HIDE DEF x
  <2> QED
    BY <1>1, <2>1, <2>2 DEF T!Transports
<1>3. IF ~T!Live(x) \/ x.backpressured \/ x.queue = <<>> THEN u = x
      ELSE \E answer \in BOOLEAN : u = T!Written(x, answer)
  BY DEF T!Pump
<1> HIDE DEF x
<1>4. Good(x)
  BY <1>1, <1>2 DEF Good, T!Booked, T!Owed, T!Live
<1>5. ASSUME NEW v, Follows(x, v) PROVE Follows(t, v)
  BY <1>2, <1>5 DEF Follows
<1>6. CASE ~T!Live(x) \/ x.backpressured \/ x.queue = <<>>
  <2>1. u = x
    BY <1>3, <1>6
  <2>2. Follows(t, u)
    BY <1>2, <1>5, <2>1, FollowsSelf
  <2>3. T!Awake(u)
    <3>1. CASE ~T!Live(x)
      BY <2>1, <3>1 DEF T!Awake
    <3>2. CASE T!Live(x) /\ x.backpressured
      BY <1>4, <2>1, <3>2 DEF Good, T!Awake, T!Owed
    <3>3. CASE T!Live(x) /\ x.queue = <<>>
      BY <1>2, <2>1, <3>3 DEF T!Awake, Waited, T!Live
    <3> QED
      BY <1>6, <3>1, <3>2, <3>3
  <2> QED
    BY <1>2, <1>4, <2>1, <2>2, <2>3
<1>7. CASE T!Live(x) /\ ~x.backpressured /\ x.queue # <<>>
  <2>1. PICK answer \in BOOLEAN : u = T!Written(x, answer)
    BY <1>3, <1>7
  <2> QED
    BY <1>2, <1>4, <1>5, <1>7, <2>1, WrittenEffect
<1> QED
  BY <1>6, <1>7

\* resume(): within the pacing interval nothing is written.
LEMMA ResumeEffect ==
  ASSUME NEW t, Good(t), Waited(t), t.queue # <<>>, NEW u \in T!Resume(t)
  PROVE  /\ Good(u) /\ T!Awake(u) /\ Follows(t, u)
         /\ u.wrote = t.wrote \/ u.pacing
         /\ t.pacing => u.wrote = t.wrote /\ u.pacing
<1>1. CASE \/ t.pacing \/ ~T!Live(t) \/ t.queue = <<>> \/ t.backpressured
           \/ t.needDrain \/ t.undrained > 0
  <2>1. u = T!ResumePaced(t)
    BY <1>1 DEF T!Resume
  <2> QED
    BY <2>1, ResumePacedEffect
<1>2. CASE ~ (\/ t.pacing \/ ~T!Live(t) \/ t.queue = <<>> \/ t.backpressured
              \/ t.needDrain \/ t.undrained > 0)
  <2>1. u \in T!Pump(t) /\ ~t.pacing
    BY <1>2 DEF T!Resume
  <2> QED
    BY <2>1, PumpEffect
<1> QED
  BY <1>1, <1>2

\* A call moves that is not in the queue.
LEMMA GotoSettled ==
  ASSUME NEW t, Good(t), NEW c \in Calls, NEW s \in T!CallStates \ {"queued"},
         t.pc[c] # "queued"
  PROVE  LET u == T!Goto(t, c, s) IN
         /\ Good(u) /\ u.pc = [t.pc EXCEPT ![c] = s]
         /\ u.wrote = t.wrote /\ u.undrained = t.undrained /\ u.pacing = t.pacing
         /\ u.state = t.state /\ u.queue = t.queue /\ u.backpressured = t.backpressured
         /\ T!Awake(t) /\ s # "waiting" => T!Awake(u)
<1>1. t \in T!Transports(T!CallStates) /\ T!Booked(t) /\ T!Owed(t)
  BY DEF Good
<1>2. t.pc \in [Calls -> T!CallStates]
  BY <1>1, Fields
<1> DEFINE u == T!Goto(t, c, s)
           p == [t.pc EXCEPT ![c] = s]
<1>3. s \in T!CallStates
  OBVIOUS
<1>4. /\ \A d \in Calls : (p[d] = "queued" <=> t.pc[d] = "queued")
      /\ s # "waiting" => \A d \in Calls : (p[d] = "waiting" => t.pc[d] = "waiting")
  BY <1>2
<1> HIDE DEF p, u
<1>5. /\ u \in T!Transports(T!CallStates) /\ u.pc = p /\ u.state = t.state /\ u.needDrain = t.needDrain
      /\ u.waiting = t.waiting /\ u.backpressured = t.backpressured
      /\ u.queue = t.queue /\ u.wrote = t.wrote
      /\ u.pacing = t.pacing /\ u.undrained = t.undrained /\ u.timer = t.timer
      /\ u.strayDue = t.strayDue /\ u.strayLater = t.strayLater
  BY <1>1, <1>3, GotoEffect DEF p, u
<1>6. T!Booked(u)
  <2>1. {d \in Calls : p[d] = "queued"} = {d \in Calls : t.pc[d] = "queued"}
    BY <1>4
  <2> QED
    BY <1>1, <1>5, <2>1, Books
<1>7. T!Owed(u)
  BY <1>1, <1>5 DEF T!Owed, T!Live
<1>8. T!Awake(t) /\ s # "waiting" => T!Awake(u)
  BY <1>4, <1>5 DEF T!Awake, T!Live
<1> QED
  BY <1>5, <1>6, <1>7, <1>8 DEF Good, p, u

\* enqueue(): the call is queued, and perhaps written at once, or refused.
LEMMA EnqueueEffect ==
  ASSUME NEW t, Good(t), T!Awake(t), NEW c \in Calls, t.pc[c] = "idle",
         NEW u \in T!Enqueue(t, c)
  PROVE  /\ Good(u) /\ T!Awake(u)
         /\ \/ Follows(T!Goto(t, c, "queued"), u)
            \/ Follows(T!Goto(t, c, "failed"), u)
<1>1. t \in T!Transports(T!CallStates) /\ T!Owed(t) /\ "failed" \in T!CallStates \ {"queued"}
      /\ "queued" \in T!CallStates
  BY DEF Good, T!CallStates
<1>2. CASE u = T!Goto(t, c, "failed")
  BY <1>1, <1>2, GotoSettled, FollowsSelf DEF Good
<1>3. CASE u # T!Goto(t, c, "failed")
  <2> DEFINE b == T!Goto(t, c, "queued")
             p == [t.pc EXCEPT ![c] = "queued"]
             x == [b EXCEPT !.queue = Append(@, c)]
  <2>1. T!Live(t) /\ u \in T!Resume(x)
    BY <1>3 DEF T!Enqueue
  <2>2. t.queue \in Seq(Calls) /\ t.pc \in [Calls -> T!CallStates] /\ IsInjective(t.queue)
        /\ {d \in Calls : t.pc[d] = "queued"} = ToSet(t.queue)
    <3>1. IsInjective(t.queue) /\ {d \in Calls : t.pc[d] = "queued"} = ToSet(t.queue)
      BY Books DEF Good
    <3> QED
      BY <1>1, <3>1, Fields
  <2>3. /\ b \in T!Transports(T!CallStates) /\ b.pc = p
        /\ b.state = t.state /\ b.needDrain = t.needDrain
        /\ b.waiting = t.waiting /\ b.backpressured = t.backpressured
        /\ b.queue = t.queue /\ b.wrote = t.wrote /\ b.undrained = t.undrained
    BY <1>1, GotoEffect
  <2>4. /\ \A d \in Calls : p[d] = "queued" <=> t.pc[d] = "queued" \/ d = c
        /\ \A d \in Calls : p[d] = "waiting" <=> t.pc[d] = "waiting"
        /\ p \in [Calls -> T!CallStates]
    BY <1>1, <2>2
  <2> HIDE DEF p, b
  <2>6. c \notin ToSet(t.queue)
    BY <2>2
  <2>7. /\ Append(t.queue, c) \in Seq(Calls) /\ Append(t.queue, c) # <<>>
        /\ ToSet(Append(t.queue, c)) = ToSet(t.queue) \cup {c}
        /\ IsInjective(Append(t.queue, c))
    BY <2>2, <2>6, QueueAppend
  <2>8. x \in T!Transports(T!CallStates) /\ x.queue = Append(t.queue, c) /\ x.pc = p
        /\ x.state = t.state /\ x.needDrain = t.needDrain
        /\ x.waiting = t.waiting /\ x.backpressured = t.backpressured
        /\ x.wrote = t.wrote /\ x.undrained = t.undrained
    BY <2>3, <2>7 DEF T!Transports
  <2> HIDE DEF x
  <2>9. T!Booked(x)
    <3>1. {d \in Calls : p[d] = "queued"} = {d \in Calls : t.pc[d] = "queued"} \cup {c}
      BY <2>4
    <3> QED
      BY <2>2, <2>7, <2>8, <3>1, Books
  <2>10. Good(x) /\ Waited(x) /\ x.queue # <<>>
    BY <1>1, <2>7, <2>8, <2>9 DEF Good, Waited, T!Owed, T!Live
  <2>11. Good(u) /\ T!Awake(u) /\ Follows(x, u)
    BY <2>1, <2>10, ResumeEffect
  <2>12. Follows(b, u)
    BY <2>3, <2>8, <2>11 DEF Follows
  <2> QED
    BY <2>11, <2>12 DEF b
<1> QED
  BY <1>2, <1>3

\* ready(): the caller is told at once, or waits for the queue to empty.
LEMMA ReadyEffect ==
  ASSUME NEW t, Good(t), T!Awake(t), NEW c \in Calls, t.pc[c] \in {"admitted", "late"},
         NEW u \in T!Ready(t, c)
  PROVE  /\ Good(u) /\ T!Awake(u)
         /\ \E s \in {"failed", "cancelled", "drained", "waiting"} :
               /\ Follows(T!Goto(t, c, s), u)
               /\ s \in {"drained", "waiting"} => t.pc[c] = "admitted"
<1>1. t \in T!Transports(T!CallStates) /\ T!Owed(t)
  BY DEF Good
<1>2. \A s \in {"failed", "cancelled", "drained", "waiting"} : s \in T!CallStates \ {"queued"}
  BY DEF T!CallStates
<1>3. ASSUME NEW s \in {"failed", "cancelled", "drained"}, u = T!Goto(t, c, s)
      PROVE  Good(u) /\ T!Awake(u) /\ Follows(T!Goto(t, c, s), u)
  <2> DEFINE g == T!Goto(t, c, s)
  <2>1. s \in T!CallStates \ {"queued"} /\ s # "waiting"
    BY <1>2
  <2>2. Good(g) /\ T!Awake(g)
    BY <2>1, GotoSettled
  <2>3. u = g
    BY <1>3
  <2> HIDE DEF g
  <2>4. Follows(g, u)
    BY <2>2, <2>3, FollowsSelf DEF Good
  <2> QED
    BY <2>2, <2>3, <2>4 DEF g
<1>4. CASE \/ u = T!Goto(t, c, "failed")
           \/ u = T!Goto(t, c, "cancelled")
           \/ u = T!Goto(t, c, "drained") /\ t.pc[c] = "admitted"
  BY <1>3, <1>4
<1>5. CASE ~ (\/ u = T!Goto(t, c, "failed")
              \/ u = T!Goto(t, c, "cancelled")
              \/ u = T!Goto(t, c, "drained") /\ t.pc[c] = "admitted")
  <2> DEFINE w == T!Goto(t, c, "waiting")
  <2>1. /\ T!Live(t) /\ t.pc[c] = "admitted" /\ ~ (t.queue = <<>> /\ ~t.backpressured)
        /\ IF w.backpressured THEN u = T!WaitForDrain(w) ELSE u \in T!Resume(w)
    BY <1>5 DEF T!Ready
  <2>2. /\ Good(w) /\ w.state = t.state /\ w.queue = t.queue /\ w.backpressured = t.backpressured
    <3>1. "waiting" \in T!CallStates \ {"queued"} /\ t.pc[c] # "queued"
      BY <1>2
    <3> QED
      BY <3>1, GotoSettled
  <2> HIDE DEF w
  <2>3. CASE w.backpressured
    <3>1. u = T!WaitForDrain(w) /\ w \in T!Transports(T!CallStates)
      BY <2>1, <2>2, <2>3 DEF Good
    <3>2. w.needDrain /\ T!Live(w) /\ w.waiting
      BY <2>1, <2>2, <2>3 DEF Good, T!Owed, T!Live
    <3>3. /\ u \in T!Transports(T!CallStates)
          /\ u.waiting /\ u.backpressured /\ u.needDrain = w.needDrain /\ u.state = w.state
          /\ u.pc = w.pc /\ u.queue = w.queue /\ u.wrote = w.wrote /\ u.undrained = w.undrained
      BY <3>1, WaitEffect
    <3>4. T!Owed(u) /\ T!Awake(u) /\ T!Booked(u)
      BY <2>2, <3>2, <3>3 DEF Good, T!Owed, T!Awake, T!Booked
    <3>5. Follows(w, u)
      BY <3>1, <3>3, Fields DEF Follows
    <3> QED
      BY <2>1, <3>3, <3>4, <3>5 DEF Good, w
  <2>4. CASE ~w.backpressured
    <3>1. w.queue # <<>> /\ Waited(w) /\ u \in T!Resume(w)
      BY <2>1, <2>2, <2>4 DEF Waited
    <3>2. Good(u) /\ T!Awake(u) /\ Follows(w, u)
      BY <2>2, <3>1, ResumeEffect
    <3> QED
      BY <2>1, <3>2 DEF w
  <2> QED
    BY <2>3, <2>4
<1> QED
  BY <1>4, <1>5

\* cancelResource(): a queued call is out of the queue, and whoever comes after
\* it goes on.
LEMMA CancelEffect ==
  ASSUME NEW t, Good(t), T!Awake(t), NEW c \in Calls, NEW u \in T!CancelCall(t, c)
  PROVE  /\ Good(u) /\ T!Awake(u) /\ Follows(t, u)
         /\ u.wrote = t.wrote \/ u.pacing
         /\ t.pacing => u.wrote = t.wrote /\ u.pacing
<1>1. t \in T!Transports(T!CallStates) /\ T!Owed(t)
  BY DEF Good
<1>2. CASE t.pc[c] # "queued"
  BY <1>1, <1>2, FollowsSelf DEF T!CancelCall
<1>3. CASE t.pc[c] = "queued"
  <2> DEFINE g == T!Goto(t, c, "cancelled")
             q == T!RemoveFirst(g.queue, c)
             y == [g EXCEPT !.queue = q]
             x == T!ClearPumpTimer(y)
  <2>1. IF x.queue = <<>> THEN u = T!SettleReady(x) ELSE u \in T!Resume(x)
    BY <1>3 DEF T!CancelCall
  <2>2. /\ t.queue \in Seq(Calls) /\ IsInjective(t.queue) /\ t.undrained \in Nat
        /\ t.pc \in [Calls -> T!CallStates]
        /\ {d \in Calls : t.pc[d] = "queued"} = ToSet(t.queue)
    <3>1. IsInjective(t.queue) /\ {d \in Calls : t.pc[d] = "queued"} = ToSet(t.queue)
      BY Books DEF Good
    <3> QED
      BY <1>1, <3>1, Fields
  <2>3. /\ g \in T!Transports(T!CallStates)
        /\ g.pc[c] = "cancelled" /\ \A d \in Calls \ {c} : g.pc[d] = t.pc[d]
        /\ g.state = t.state /\ g.needDrain = t.needDrain /\ g.waiting = t.waiting
        /\ g.backpressured = t.backpressured /\ g.queue = t.queue /\ g.wrote = t.wrote
        /\ g.pacing = t.pacing /\ g.undrained = t.undrained
    <3>1. "cancelled" \in T!CallStates
      BY DEF T!CallStates
    <3>2. /\ g \in T!Transports(T!CallStates) /\ g.pc = [t.pc EXCEPT ![c] = "cancelled"]
          /\ g.state = t.state /\ g.needDrain = t.needDrain /\ g.waiting = t.waiting
          /\ g.backpressured = t.backpressured /\ g.queue = t.queue /\ g.wrote = t.wrote
          /\ g.pacing = t.pacing /\ g.undrained = t.undrained
      BY <1>1, <3>1, GotoEffect
    <3> HIDE DEF g
    <3> QED
      BY <2>2, <3>2
  <2>4. q = RemoveFirst(t.queue, c)
    BY <2>3, SameRemove
  <2> HIDE DEF g, q
  <2>5. q \in Seq(Calls) /\ IsInjective(q) /\ ToSet(q) = ToSet(t.queue) \ {c}
    BY <1>3, <2>2, <2>4, QueueRemove
  <2>6. y \in T!Transports(T!CallStates) /\ y.queue = q /\ y.pc = g.pc
        /\ y.state = t.state /\ y.needDrain = t.needDrain /\ y.waiting = t.waiting
        /\ y.backpressured = t.backpressured /\ y.wrote = t.wrote
        /\ y.pacing = t.pacing /\ y.undrained = t.undrained
    BY <2>3, <2>5 DEF T!Transports
  <2> HIDE DEF y
  <2>7. x \in T!Transports(T!CallStates) /\ x.queue = q /\ x.pc = g.pc
        /\ x.state = t.state /\ x.needDrain = t.needDrain /\ x.waiting = t.waiting
        /\ x.backpressured = t.backpressured /\ x.wrote = t.wrote
        /\ x.pacing = t.pacing /\ x.undrained = t.undrained
    <3>1. x \in T!Transports(T!CallStates)
      BY <2>6, FlagsEffect
    <3>2. x = [y EXCEPT !.timer = "none"]
      BY DEF T!ClearPumpTimer
    <3> HIDE DEF x
    <3> QED
      BY <2>6, <3>1, <3>2 DEF T!Transports
  <2> HIDE DEF x
  <2>8. T!Booked(x)
    <3>1. {d \in Calls : x.pc[d] = "queued"} = {d \in Calls : t.pc[d] = "queued"} \ {c}
      BY <2>3, <2>7
    <3> QED
      BY <2>2, <2>5, <2>7, <3>1, Books
  <2>9. Good(x)
    BY <1>1, <2>7, <2>8 DEF Good, T!Owed, T!Live
  <2>10. Follows(t, x)
    BY <1>3, <2>2, <2>3, <2>7 DEF Follows
  <2>11. ASSUME Follows(x, u)
         PROVE  Follows(t, u)
    <3>1. ASSUME NEW d \in Calls
          PROVE  /\ u.pc[d] = "idle" <=> t.pc[d] = "idle"
                 /\ u.pc[d] = "queued" => t.pc[d] = "queued"
                 /\ u.pc[d] = "waiting" => t.pc[d] = "waiting"
                 /\ u.pc[d] = "drained" => t.pc[d] \in {"waiting", "drained"}
                 /\ u.pc[d] = "admitted" => t.pc[d] = "admitted" \/ (t.pc[d] = "queued" /\ d = u.wrote)
                 /\ t.pc[d] \in {"admitted", "late"} => u.pc[d] \in {"admitted", "late"}
      BY <1>3, <2>3, <2>7, <2>11 DEF Follows
    <3>2. \/ u.wrote = t.wrote /\ u.undrained <= t.undrained
          \/ /\ u.wrote \in Calls /\ t.pc[u.wrote] = "queued"
             /\ u.pc[u.wrote] \in {"admitted", "late"} /\ u.undrained <= Bytes(u.wrote)
      BY <1>3, <2>3, <2>7, <2>11 DEF Follows
    <3> QED
      BY <3>1, <3>2 DEF Follows
  <2>12. CASE x.queue = <<>>
    BY <2>1, <2>7, <2>9, <2>11, <2>12, SettleEffect
  <2>13. CASE x.queue # <<>>
    <3>1. Waited(x) /\ u \in T!Resume(x)
      BY <2>1, <2>13 DEF Waited
    <3> QED
      BY <2>7, <2>9, <2>11, <2>13, <3>1, ResumeEffect
  <2> QED
    BY <2>12, <2>13
<1> QED
  BY <1>2, <1>3

-----------------------------------------------------------------------------
(* cancelResource() over a set of images: FoldLeft is a recursive function   *)
(* on the subsets of the images that takes the greatest away first.          *)

\* One image passed over: its queued upload is cancelled if it is in S.
Passed(S, k, ts) ==
    IF k \notin S THEN ts ELSE UNION {T!CancelCall(u, <<k, "upload">>) : u \in ts}
\* f[s] is what is left of t when the images of s have been passed over.
Passes(S, t, f, D) ==
    f = [s \in SUBSET D |-> IF s = {} THEN {t}
            ELSE Passed(S, [k \in Images |-> k][Max(s)], f[s \ {Max(s)}])]
\* The function that FoldLeft stands for.
PassOver(S, t, D) == CHOOSE f : Passes(S, t, f, D)

\* The definition of CancelUploads, with the recursive function named.
LEMMA CancelExpand ==
  ASSUME NEW S, NEW t
  PROVE  LET D == DOMAIN [k \in Images |-> k] IN CancelUploads(S, t) = PassOver(S, t, D)[D]
BY Zenon DEF CancelUploads, FoldLeft, MapThenFoldSet, Passed, Passes, PassOver

\* A nonempty family of subsets of the images has a minimal one.
LEMMA MinimalImages ==
  ASSUME NEW F, F # {}, \A y \in F : y \subseteq Images
  PROVE  \E x \in F : \A y \in F : y \subseteq x => y = x
<1>1. IsFiniteSet(Images)
  BY ImagesAssumption, FS_Interval DEF Images
<1>2. IsWellFoundedOn(StrictSubsetOrdering(Images), SUBSET Images)
  BY <1>1, FS_StrictSubsetOrderingWellFounded, FS_FiniteSubsetsOfFinite
<1>3. F \subseteq SUBSET Images
  OBVIOUS
<1>4. \E x \in F : \A y \in F : <<y, x>> \notin StrictSubsetOrdering(Images)
  BY <1>2, <1>3, WFMin
<1> QED
  BY <1>3, <1>4 DEF StrictSubsetOrdering

\* The greatest image of a set is one of it.
LEMMA GreatestImage == \A s \in SUBSET Images : s # {} => Max(s) \in s
BY ImagesAssumption, Greatest DEF Images

\* Two such functions agree where both are defined.
LEMMA PassUnique ==
  ASSUME NEW S, NEW t, NEW D \in SUBSET Images, NEW E \in SUBSET Images,
         NEW f, NEW g, Passes(S, t, f, D), Passes(S, t, g, E)
  PROVE  \A s \in SUBSET (D \cap E) : f[s] = g[s]
<1> DEFINE F == {s \in SUBSET (D \cap E) : f[s] # g[s]}
<1>1. SUFFICES ASSUME F # {} PROVE FALSE
  OBVIOUS
<1>2. \A y \in F : y \subseteq Images
  OBVIOUS
<1>3. PICK s \in F : \A y \in F : y \subseteq s => y = s
  <2> HIDE DEF F
  <2> QED BY <1>1, <1>2, MinimalImages
<1>4. s # {}
  BY <1>3 DEF Passes
<1>5. Max(s) \in s
  BY <1>2, <1>4, GreatestImage
<1>6. f[s \ {Max(s)}] = g[s \ {Max(s)}]
  BY <1>3, <1>5
<1>7. /\ f[s] = Passed(S, [k \in Images |-> k][Max(s)], f[s \ {Max(s)}])
      /\ g[s] = Passed(S, [k \in Images |-> k][Max(s)], g[s \ {Max(s)}])
  BY <1>3, <1>4 DEF Passes
<1> QED
  BY <1>3, <1>6, <1>7

\* There is one for every set of images.
LEMMA PassExists ==
  ASSUME NEW S, NEW t
  PROVE  \A D \in SUBSET Images : Passes(S, t, PassOver(S, t, D), D)
<1> DEFINE F == {D \in SUBSET Images : ~ \E f : Passes(S, t, f, D)}
           Turned(s, ts) == Passed(S, [k \in Images |-> k][Max(s)], ts)
<1>1. SUFFICES ASSUME F # {} PROVE FALSE
  BY DEF PassOver
<1>2. \A y \in F : y \subseteq Images
  OBVIOUS
<1>3. PICK D \in F : \A y \in F : y \subseteq D => y = D
  <2> HIDE DEF F
  <2> QED BY <1>1, <1>2, MinimalImages
<1>4. \A E \in SUBSET D : E # D => Passes(S, t, PassOver(S, t, E), E)
  BY <1>3 DEF PassOver
<1> DEFINE f == [s \in SUBSET D |->
                   IF s = D THEN IF s = {} THEN {t}
                                 ELSE Turned(s, PassOver(S, t, s \ {Max(s)})[s \ {Max(s)}])
                   ELSE PassOver(S, t, s)[s]]
<1> HIDE DEF Turned
<1>5. ASSUME NEW s \in SUBSET D
      PROVE  f[s] = IF s = {} THEN {t} ELSE Turned(s, f[s \ {Max(s)}])
  <2>1. CASE s = {}
    BY <2>1, <1>4 DEF Passes
  <2>2. CASE s # {}
    <3> DEFINE d == s \ {Max(s)}
    <3>1. Max(s) \in s /\ d # D /\ d \in SUBSET D
      BY <1>3, <2>2, GreatestImage
    <3>2. f[d] = PassOver(S, t, d)[d]
      BY <3>1
    <3>3. CASE s = D
      BY <3>2, <3>3, <2>2
    <3>4. CASE s # D
      <4>1. Passes(S, t, PassOver(S, t, s), s) /\ Passes(S, t, PassOver(S, t, d), d)
        BY <1>4, <3>1, <3>4
      <4>2. PassOver(S, t, s)[s] = Turned(s, PassOver(S, t, s)[d])
        BY <4>1, <2>2 DEF Passes, Turned
      <4>3. PassOver(S, t, s)[d] = PassOver(S, t, d)[d]
        <5>1. s \in SUBSET Images /\ d \in SUBSET Images /\ d \in SUBSET (s \cap d)
          BY <1>3
        <5> HIDE DEF d
        <5> QED
          BY <5>1, <4>1, PassUnique
      <4> QED
        BY <4>2, <4>3, <3>2, <3>4, <2>2
    <3> QED
      BY <3>3, <3>4
  <2> QED
    BY <2>1, <2>2
<1> HIDE DEF f
<1>6. Passes(S, t, f, D)
  <2>1. f = [s \in SUBSET D |-> f[s]]
    BY DEF f
  <2>2. [s \in SUBSET D |-> f[s]]
          = [s \in SUBSET D |-> IF s = {} THEN {t} ELSE Turned(s, f[s \ {Max(s)}])]
    BY <1>5
  <2> QED
    BY <2>1, <2>2, Zenon DEF Passes, Turned
<1> QED
  BY <1>3, <1>6

\* What the cancelled uploads leave of the transport: one of them may let the
\* next transaction go, and then no other does.
LEMMA CancelUploadsEffect ==
  ASSUME NEW S, NEW t, Good(t), T!Awake(t), t.wrote = NoCall,
         NEW u \in CancelUploads(S, t)
  PROVE  Good(u) /\ T!Awake(u) /\ Follows(t, u)
<1> DEFINE Fine(v) == /\ Good(v) /\ T!Awake(v) /\ Follows(t, v)
                      /\ v.wrote = NoCall \/ v.pacing
           f == PassOver(S, t, Images)
           F == {s \in SUBSET Images : ~ \A v \in f[s] : Fine(v)}
<1>1. NoCall \notin Calls
  BY ImagesAssumption DEF Calls, Images
<1>2. Passes(S, t, f, Images)
  BY PassExists
<1>3. ASSUME NEW v, Fine(v), NEW k \in Images, NEW w \in T!CancelCall(v, <<k, "upload">>)
      PROVE  Fine(w)
  <2>1. <<k, "upload">> \in Calls
    BY DEF Calls
  <2>2. /\ Good(w) /\ T!Awake(w) /\ Follows(v, w)
        /\ w.wrote = v.wrote \/ w.pacing
        /\ v.pacing => w.wrote = v.wrote /\ w.pacing
    BY <1>3, <2>1, CancelEffect
  <2>3. Follows(t, w)
    BY <1>1, <1>3, <2>2, FollowsThen DEF Good
  <2> QED
    BY <1>3, <2>2, <2>3
<1>4. Fine(t)
  BY FollowsSelf DEF Good
<1> HIDE DEF Fine
<1>5. F = {}
  <2>1. SUFFICES ASSUME F # {} PROVE FALSE
    OBVIOUS
  <2>2. PICK s \in F : \A y \in F : y \subseteq s => y = s
    <3>1. \A y \in F : y \subseteq Images
      OBVIOUS
    <3> HIDE DEF F
    <3> QED BY <2>1, <3>1, MinimalImages
  <2>3. CASE s = {}
    <3>1. f[s] = {t}
      BY <1>2, <2>3 DEF Passes
    <3> QED BY <1>4, <2>2, <3>1
  <2>4. CASE s # {}
    <3> DEFINE k == Max(s)
               d == s \ {k}
    <3>1. k \in s /\ k \in Images /\ d \in SUBSET Images /\ d # s
      BY <2>2, <2>4, GreatestImage
    <3>2. \A v \in f[d] : Fine(v)
      BY <2>2, <3>1
    <3>3. f[s] = Passed(S, k, f[d])
      BY <1>2, <2>2, <2>4, <3>1 DEF Passes
    <3> HIDE DEF f, k, d
    <3>4. \A w \in f[s] : Fine(w)
      BY <1>3, <3>1, <3>2, <3>3 DEF Passed
    <3> QED
      BY <2>2, <3>4
  <2> QED
    BY <2>3, <2>4
<1>6. u \in f[Images]
  <2>1. DOMAIN [k \in Images |-> k] = Images
    OBVIOUS
  <2> QED
    BY <2>1, CancelExpand
<1>7. Fine(u)
  <2> HIDE DEF f
  <2> QED BY <1>5, <1>6
<1> QED
  BY <1>7 DEF Fine

-----------------------------------------------------------------------------
(* What ends the calls of a transport: cancel, failure, disposal; its events *)

\* Rejecting everything empties the queue and every ready() under way.
LEMMA RejectEffect ==
  ASSUME NEW t, Good(t), NEW why \in {"cancelled", "failed"}
  PROVE  LET u == T!RejectAll(T!ClearPumpTimer(t), why) IN
         /\ u \in T!Transports(T!CallStates) /\ u.queue = <<>>
         /\ \A c \in Calls : u.pc[c] = IF t.pc[c] \in {"queued", "waiting"} THEN why ELSE t.pc[c]
         /\ u.state = t.state /\ u.needDrain = t.needDrain /\ u.waiting = t.waiting
         /\ u.backpressured = t.backpressured /\ u.wrote = t.wrote /\ u.undrained = t.undrained
<1> DEFINE x == T!ClearPumpTimer(t)
           p == [c \in Calls |-> IF x.pc[c] \in {"queued", "waiting"} THEN why ELSE x.pc[c]]
           m == T!Move(x, {"queued", "waiting"}, why)
           u == T!RejectAll(x, why)
<1>1. t \in T!Transports(T!CallStates) /\ t.pc \in [Calls -> T!CallStates]
  BY Fields DEF Good
<1>2. /\ x \in T!Transports(T!CallStates) /\ x.pc = t.pc /\ x.state = t.state
      /\ x.needDrain = t.needDrain /\ x.waiting = t.waiting
      /\ x.backpressured = t.backpressured /\ x.wrote = t.wrote /\ x.undrained = t.undrained
  <2>1. x \in T!Transports(T!CallStates)
    BY <1>1, FlagsEffect
  <2>2. x = [t EXCEPT !.timer = "none"]
    BY DEF T!ClearPumpTimer
  <2> HIDE DEF x
  <2> QED
    BY <1>1, <2>1, <2>2 DEF T!Transports
<1> HIDE DEF x
<1>3. /\ p \in [Calls -> T!CallStates]
      /\ \A c \in Calls : p[c] = IF t.pc[c] \in {"queued", "waiting"} THEN why ELSE t.pc[c]
  BY <1>1, <1>2 DEF T!CallStates
<1>4. m = [x EXCEPT !.pc = p]
  BY DEF T!Move
<1>5. u = [m EXCEPT !.queue = <<>>]
  BY DEF T!RejectAll
<1> HIDE DEF p, m, u
<1>6. /\ u \in T!Transports(T!CallStates) /\ u.pc = p /\ u.queue = <<>> /\ u.state = x.state
      /\ u.needDrain = x.needDrain /\ u.waiting = x.waiting
      /\ u.backpressured = x.backpressured /\ u.wrote = x.wrote /\ u.undrained = x.undrained
  <2>1. /\ m \in T!Transports(T!CallStates) /\ m.pc = p /\ m.state = x.state
        /\ m.needDrain = x.needDrain /\ m.waiting = x.waiting
        /\ m.backpressured = x.backpressured /\ m.wrote = x.wrote /\ m.undrained = x.undrained
    BY <1>2, <1>3, <1>4 DEF T!Transports
  <2>2. <<>> \in Seq(Calls)
    OBVIOUS
  <2>3. u \in T!Transports(T!CallStates)
    BY <1>5, <2>1, <2>2 DEF T!Transports
  <2> QED
    BY <1>5, <2>1, <2>3 DEF T!Transports
<1> QED
  BY <1>2, <1>3, <1>6 DEF u, x

\* The empty queue has its books in order when nothing is pending.
LEMMA EmptyBooks ==
  ASSUME NEW u, u.queue = <<>>, \A c \in Calls : u.pc[c] # "queued"
  PROVE  T!Booked(u)
<1>1. ToSet(<<>>) = {} /\ IsInjective(<<>>)
  BY DEF ToSet, IsInjective
<1>2. {c \in Calls : u.pc[c] = "queued"} = {}
  OBVIOUS
<1> QED
  BY <1>1, <1>2, Books

\* cancel(): nothing is pending, and the sink still owes what it owed.
LEMMA CancelAllEffect ==
  ASSUME NEW t, Good(t), NEW u, u = T!CancelAll(t)
  PROVE  Good(u) /\ T!Awake(u) /\ Follows(t, u)
<1> DEFINE r == T!RejectAll(T!ClearPumpTimer(t), "cancelled")
           p == [c \in Calls |-> IF r.pc[c] \in {"admitted"} THEN "late" ELSE r.pc[c]]
           x == T!Move(r, {"admitted"}, "late")
<1>1. /\ t \in T!Transports(T!CallStates) /\ T!Owed(t) /\ t.pc \in [Calls -> T!CallStates]
      /\ t.undrained \in Nat
  BY Fields DEF Good
<1>2. /\ r \in T!Transports(T!CallStates) /\ r.queue = <<>>
      /\ \A c \in Calls : r.pc[c] = IF t.pc[c] \in {"queued", "waiting"} THEN "cancelled" ELSE t.pc[c]
      /\ r.state = t.state /\ r.needDrain = t.needDrain /\ r.waiting = t.waiting
      /\ r.backpressured = t.backpressured /\ r.wrote = t.wrote /\ r.undrained = t.undrained
  BY RejectEffect
<1>3. /\ u = IF x.needDrain \/ x.undrained > 0 \/ x.backpressured
             THEN T!WaitForDrain(x) ELSE [x EXCEPT !.waiting = FALSE]
      /\ x = [r EXCEPT !.pc = p]
  BY DEF T!CancelAll, T!Move
<1> HIDE DEF r, x
<1>4. /\ p \in [Calls -> T!CallStates]
      /\ \A c \in Calls : p[c] = IF t.pc[c] \in {"queued", "waiting"} THEN "cancelled"
                                 ELSE IF t.pc[c] = "admitted" THEN "late" ELSE t.pc[c]
  BY <1>1, <1>2 DEF T!CallStates
<1> HIDE DEF p
<1>5. /\ x \in T!Transports(T!CallStates) /\ x.pc = p /\ x.queue = <<>> /\ x.state = t.state
      /\ x.needDrain = t.needDrain /\ x.waiting = t.waiting
      /\ x.backpressured = t.backpressured /\ x.wrote = t.wrote /\ x.undrained = t.undrained
  BY <1>2, <1>3, <1>4 DEF T!Transports
<1>6. /\ u \in T!Transports(T!CallStates) /\ u.pc = p /\ u.queue = <<>> /\ u.state = t.state
      /\ u.needDrain = t.needDrain /\ u.wrote = t.wrote /\ u.undrained = t.undrained
      /\ T!Live(t) => /\ u.waiting <=> u.backpressured
                      /\ u.waiting => u.needDrain
                      /\ u.undrained > 0 => u.waiting
  <2>1. CASE x.needDrain \/ x.undrained > 0 \/ x.backpressured
    <3>1. u = T!WaitForDrain(x)
      BY <1>3, <2>1
    <3>2. /\ u \in T!Transports(T!CallStates) /\ u.waiting /\ u.backpressured
          /\ u.needDrain = x.needDrain /\ u.state = x.state /\ u.pc = x.pc
          /\ u.queue = x.queue /\ u.wrote = x.wrote /\ u.undrained = x.undrained
      BY <1>5, <3>1, WaitEffect
    <3>3. T!Live(t) => t.needDrain
      BY <1>1, <1>5, <2>1 DEF T!Owed
    <3> QED
      BY <1>5, <3>2, <3>3
  <2>2. CASE ~(x.needDrain \/ x.undrained > 0 \/ x.backpressured)
    <3>1. u = [x EXCEPT !.waiting = FALSE]
      BY <1>3, <2>2
    <3> QED
      BY <1>5, <2>2, <3>1 DEF T!Transports
  <2> QED
    BY <2>1, <2>2
<1>7. T!Booked(u)
  BY <1>4, <1>6, EmptyBooks
<1>8. T!Owed(u) /\ T!Awake(u)
  BY <1>4, <1>6 DEF T!Owed, T!Awake, T!Live
<1>9. Follows(t, u)
  BY <1>1, <1>4, <1>6 DEF Follows
<1> QED
  BY <1>6, <1>7, <1>8, <1>9 DEF Good

\* A transport that fails or is disposed of settles every promise.
LEMMA StoppedEffect ==
  ASSUME NEW t, Good(t), T!Awake(t), NEW state \in {"failed", "disposed"}, NEW u, u = T!Stopped(t, state)
  PROVE  Good(u) /\ T!Awake(u) /\ Follows(t, u) /\ ~T!Live(u)
<1> DEFINE r == T!RejectAll(T!ClearPumpTimer(t), "failed")
<1>1. /\ t \in T!Transports(T!CallStates) /\ T!Owed(t) /\ t.pc \in [Calls -> T!CallStates]
      /\ t.undrained \in Nat
  BY Fields DEF Good
<1>2. /\ r \in T!Transports(T!CallStates) /\ r.queue = <<>>
      /\ \A c \in Calls : r.pc[c] = IF t.pc[c] \in {"queued", "waiting"} THEN "failed" ELSE t.pc[c]
      /\ r.wrote = t.wrote
  BY RejectEffect
<1>3. CASE t.state = "disposed" \/ t.state = state
  <2>1. u = t /\ ~T!Live(t)
    BY <1>3 DEF T!Stopped, T!Live
  <2> QED
    BY <1>1, <2>1, FollowsSelf
<1>4. CASE ~(t.state = "disposed" \/ t.state = state)
  <2>1. u = [r EXCEPT !.state = state, !.waiting = FALSE, !.undrained = 0]
    BY <1>4 DEF T!Stopped
  <2> HIDE DEF r
  <2>2. /\ u \in T!Transports(T!CallStates) /\ u.queue = <<>> /\ u.pc = r.pc
        /\ u.wrote = t.wrote /\ u.undrained = 0 /\ u.state = state
    <3>1. u \in T!Transports(T!CallStates)
      <4>1. r \in T!Transports(T!CallStates) /\ state \in {"live", "failed", "disposed"} /\ 0 \in Nat
        BY <1>2
      <4> QED
        BY <2>1, <4>1 DEF T!Transports
    <3>2. u.queue = r.queue /\ u.pc = r.pc /\ u.wrote = r.wrote /\ u.undrained = 0 /\ u.state = state
      BY <1>2, <2>1 DEF T!Transports
    <3> QED
      BY <1>2, <3>1, <3>2
  <2>3. T!Booked(u)
    BY <1>2, <2>2, EmptyBooks
  <2>4. ~T!Live(u) /\ T!Owed(u) /\ T!Awake(u)
    BY <2>2 DEF T!Live, T!Owed, T!Awake
  <2>5. Follows(t, u)
    BY <1>1, <1>2, <2>2 DEF Follows
  <2> QED
    BY <2>2, <2>3, <2>4, <2>5 DEF Good
<1> QED
  BY <1>3, <1>4

\* "error", "close" or an overdue drain.
LEMMA SinkFailEffect ==
  ASSUME NEW t, Good(t), T!Awake(t), NEW u, u = T!Fail(t)
  PROVE  Good(u) /\ T!Awake(u) /\ Follows(t, u)
<1>1. CASE T!Live(t)
  BY <1>1, StoppedEffect DEF T!Fail
<1>2. CASE ~T!Live(t)
  BY <1>2, FollowsSelf DEF T!Fail, Good
<1> QED
  BY <1>1, <1>2

\* dispose(), which also forgets the backpressure.
LEMMA DisposeEffect ==
  ASSUME NEW t, Good(t), T!Awake(t), NEW u, u = T!Dispose(t)
  PROVE  Good(u) /\ T!Awake(u) /\ Follows(t, u)
<1> DEFINE x == T!Stopped(t, "disposed")
<1>1. Good(x) /\ T!Awake(x) /\ Follows(t, x) /\ ~T!Live(x)
  BY StoppedEffect
<1>2. u = [x EXCEPT !.backpressured = FALSE]
  BY DEF T!Dispose
<1> HIDE DEF x
<1>3. /\ u \in T!Transports(T!CallStates) /\ u.queue = x.queue /\ u.pc = x.pc
      /\ u.wrote = x.wrote /\ u.undrained = x.undrained /\ u.state = x.state
  BY <1>1, <1>2 DEF Good, T!Transports
<1>4. T!Booked(u) /\ T!Owed(u) /\ T!Awake(u)
  BY <1>1, <1>3 DEF Good, T!Booked, T!Owed, T!Awake, T!Live
<1>5. Follows(t, u)
  BY <1>1, <1>3 DEF Follows
<1> QED
  BY <1>3, <1>4, <1>5 DEF Good

\* The sink has drained: the queue goes on, or ready() resolves.
LEMMA DrainedEffect ==
  ASSUME NEW t, Good(t), T!Awake(t), t.wrote = NoCall, NEW u \in T!Drained(t)
  PROVE  Good(u) /\ T!Awake(u) /\ Follows(t, u)
<1>1. /\ t \in T!Transports(T!CallStates) /\ T!Owed(t) /\ t.pc \in [Calls -> T!CallStates]
      /\ t.undrained \in Nat
  BY Fields DEF Good
<1>2. CASE ~t.waiting
  <2>1. u = [t EXCEPT !.needDrain = FALSE]
    BY <1>2 DEF T!Drained
  <2>2. /\ u \in T!Transports(T!CallStates) /\ u.queue = t.queue /\ u.pc = t.pc
        /\ u.wrote = t.wrote /\ u.undrained = t.undrained /\ u.state = t.state
        /\ u.waiting = t.waiting /\ u.backpressured = t.backpressured
        /\ u.timer = t.timer /\ u.strayDue = t.strayDue /\ u.strayLater = t.strayLater
    BY <1>1, <2>1 DEF T!Transports
  <2>3. T!Booked(u) /\ T!Owed(u) /\ T!Awake(u)
    BY <1>1, <1>2, <2>2 DEF Good, T!Booked, T!Owed, T!Awake, T!Live
  <2>4. Follows(t, u)
    BY <1>1, <2>2 DEF Follows
  <2> QED
    BY <2>2, <2>3, <2>4 DEF Good
<1>3. CASE t.waiting
  <2> DEFINE x == [t EXCEPT !.needDrain = FALSE, !.undrained = 0, !.waiting = FALSE,
                            !.backpressured = FALSE]
  <2>1. PICK y \in T!Resume(x) : u = T!SettleReady(y)
    BY <1>3 DEF T!Drained
  <2>2. /\ x \in T!Transports(T!CallStates) /\ x.queue = t.queue /\ x.pc = t.pc
        /\ x.wrote = t.wrote /\ x.undrained = 0 /\ x.state = t.state
        /\ ~x.waiting /\ ~x.backpressured
    BY <1>1 DEF T!Transports
  <2> HIDE DEF x
  <2>3. Good(x)
    BY <1>1, <2>2 DEF Good, T!Booked, T!Owed
  <2>4. Follows(t, x)
    BY <1>1, <2>2 DEF Follows
  <2>5. Good(y) /\ Follows(x, y) /\ (y.queue = <<>> \/ T!Awake(y))
    <3>1. CASE x.queue = <<>>
      <4>1. y = T!ResumePaced(x)
        BY <2>1, <3>1 DEF T!Resume
      <4> QED
        BY <2>3, <3>1, <4>1, ResumePacedEffect
    <3>2. CASE x.queue # <<>>
      BY <2>1, <2>3, <3>2, ResumeEffect DEF Waited
    <3> QED
      BY <3>1, <3>2
  <2>6. Good(u) /\ T!Awake(u) /\ Follows(y, u) /\ u.wrote = y.wrote
    BY <2>1, <2>5, SettleEffect
  <2>7. NoCall \notin Calls
    BY ImagesAssumption DEF Calls, Images
  <2>8. /\ t.wrote = NoCall /\ x.wrote = NoCall /\ u \in T!Transports(T!CallStates)
        /\ y \in T!Transports(T!CallStates)
    BY <2>2, <2>5, <2>6 DEF Good
  <2>9. Follows(t, y)
    BY <1>1, <2>2, <2>4, <2>5, <2>7, <2>8, FollowsThen
  <2>10. Follows(t, u)
    BY <1>1, <2>6, <2>7, <2>8, <2>9, FollowsThen
  <2> QED
    BY <2>6, <2>10
<1> QED
  BY <1>2, <1>3

\* The clock moves no call and loses no timer.
LEMMA IntervalEffect ==
  ASSUME NEW t, Good(t), T!Awake(t), NEW u, u = T!IntervalOver(t)
  PROVE  Good(u) /\ T!Awake(u) /\ Follows(t, u)
<1>1. /\ t \in T!Transports(T!CallStates) /\ T!Owed(t) /\ t.undrained \in Nat
      /\ t.timer \in {"none", "later", "due"}
      /\ t.strayDue \in BOOLEAN /\ t.strayLater \in BOOLEAN
  BY Fields DEF Good
<1>2. u = [t EXCEPT !.pacing = FALSE, !.strayLater = FALSE,
                    !.strayDue = t.strayDue \/ t.strayLater,
                    !.timer = IF t.timer = "later" THEN "due" ELSE t.timer]
  BY DEF T!IntervalOver
<1>3. /\ u \in T!Transports(T!CallStates) /\ u.queue = t.queue /\ u.pc = t.pc
      /\ u.wrote = t.wrote /\ u.undrained = t.undrained /\ u.state = t.state
      /\ u.waiting = t.waiting /\ u.backpressured = t.backpressured
      /\ u.needDrain = t.needDrain
      /\ u.timer = "none" <=> t.timer = "none"
      /\ t.strayDue \/ t.strayLater <=> u.strayDue
  BY <1>1, <1>2 DEF T!Transports
<1>4. T!Booked(u) /\ T!Owed(u)
  BY <1>1, <1>3 DEF Good, T!Booked, T!Owed, T!Live
<1>5. T!Awake(u)
  BY <1>1, <1>3 DEF T!Awake, T!Live
<1>6. Follows(t, u)
  BY <1>1, <1>3 DEF Follows
<1> QED
  BY <1>3, <1>4, <1>5, <1>6 DEF Good

\* A timer that fires pumps, whichever it was.
LEMMA TimerEffect ==
  ASSUME NEW t, Good(t), T!Awake(t), NEW u \in T!TimerFired(t)
  PROVE  Good(u) /\ T!Awake(u) /\ Follows(t, u)
<1> DEFINE x == [t EXCEPT !.timer = "none"]
           y == [t EXCEPT !.strayDue = FALSE]
<1>1. t \in T!Transports(T!CallStates) /\ T!Owed(t)
  BY DEF Good
<1>2. u \in T!Pump(x) \/ u \in T!Pump(y)
  BY DEF T!TimerFired
<1>3. /\ x \in T!Transports(T!CallStates) /\ x.queue = t.queue /\ x.pc = t.pc
      /\ x.wrote = t.wrote /\ x.undrained = t.undrained /\ x.state = t.state
      /\ x.waiting = t.waiting /\ x.backpressured = t.backpressured
      /\ x.needDrain = t.needDrain
  BY <1>1 DEF T!Transports
<1>4. /\ y \in T!Transports(T!CallStates) /\ y.queue = t.queue /\ y.pc = t.pc
      /\ y.wrote = t.wrote /\ y.undrained = t.undrained /\ y.state = t.state
      /\ y.waiting = t.waiting /\ y.backpressured = t.backpressured
      /\ y.needDrain = t.needDrain
  BY <1>1 DEF T!Transports
<1> HIDE DEF x, y
<1>5. Good(x) /\ Waited(x)
  BY <1>1, <1>3 DEF Good, T!Booked, T!Owed, T!Live, T!Awake, Waited
<1>6. Good(y) /\ Waited(y)
  BY <1>1, <1>4 DEF Good, T!Booked, T!Owed, T!Live, T!Awake, Waited
<1>7. CASE u \in T!Pump(x)
  <2>1. Good(u) /\ T!Awake(u) /\ Follows(x, u)
    BY <1>5, <1>7, PumpEffect
  <2> QED
    BY <1>3, <2>1 DEF Follows
<1>8. CASE u \in T!Pump(y)
  <2>1. Good(u) /\ T!Awake(u) /\ Follows(y, u)
    BY <1>6, <1>8, PumpEffect
  <2> QED
    BY <1>4, <2>1 DEF Follows
<1> QED
  BY <1>2, <1>7, <1>8

\* Somebody else fills standard output.
LEMMA FilledEffect ==
  ASSUME NEW t, Good(t), T!Awake(t), NEW u, u = [t EXCEPT !.needDrain = TRUE]
  PROVE  Good(u) /\ T!Awake(u) /\ Follows(t, u)
<1>1. t \in T!Transports(T!CallStates) /\ T!Owed(t) /\ t.undrained \in Nat
  BY Fields DEF Good
<1>2. /\ u \in T!Transports(T!CallStates) /\ u.queue = t.queue /\ u.pc = t.pc
      /\ u.wrote = t.wrote /\ u.undrained = t.undrained /\ u.state = t.state
      /\ u.waiting = t.waiting /\ u.backpressured = t.backpressured /\ u.needDrain
      /\ u.timer = t.timer /\ u.strayDue = t.strayDue /\ u.strayLater = t.strayLater
  BY <1>1 DEF T!Transports
<1>3. T!Booked(u) /\ T!Owed(u) /\ T!Awake(u)
  BY <1>1, <1>2 DEF Good, T!Booked, T!Owed, T!Awake, T!Live
<1>4. Follows(t, u)
  BY <1>1, <1>2 DEF Follows
<1> QED
  BY <1>2, <1>3, <1>4 DEF Good

-----------------------------------------------------------------------------
(* A turn: what an operation of the transport does to the calls, the wire    *)
(* and the terminals, told from the program counters p it starts from.       *)

\* Call c goes from p[c] to q[c] in a turn that writes call w.
Onward(p, q, c, w) ==
    /\ q[c] = "idle" <=> p[c] = "idle"
    /\ q[c] = "queued" => p[c] = "queued"
    /\ q[c] = "waiting" => p[c] = "waiting"
    /\ q[c] = "drained" => p[c] \in {"waiting", "drained"}
    /\ q[c] = "admitted" => p[c] = "admitted" \/ (p[c] = "queued" /\ c = w)
    /\ p[c] \in {"admitted", "late"} => q[c] \in {"admitted", "late"}

\* A turn from the program counters p: at most one call w is written, and it
\* alone reaches the pane and the clients that look at it.
Advances(p) ==
    /\ Good(transport') /\ T!Awake(transport') /\ transport'.wrote = NoCall
    /\ \E w \in Calls \cup {NoCall} :
        /\ \A c \in Calls : Onward(p, transport'.pc, c, w)
        /\ IF w = NoCall THEN UNCHANGED <<wire, got>>
           ELSE /\ p[w] = "queued" /\ transport'.pc[w] \in {"admitted", "late"}
                /\ transport'.undrained <= Bytes(w)
                /\ wire' = [wire EXCEPT ![w[1]] = IF w[2] = "upload" THEN "held" ELSE "deleted"]
                /\ got' = [v \in Viewers |->
                        IF v \notin Visible THEN got[v]
                        ELSE IF w[2] = "upload" THEN got[v] \cup {w[1]} ELSE got[v] \ {w[1]}]

\* Between two turns no transaction is being written.
LEMMA FreshEffect ==
  ASSUME NEW t, Good(t), T!Awake(t)
  PROVE  LET u == T!Fresh(t) IN
         Good(u) /\ T!Awake(u) /\ u.wrote = NoCall /\ u.pc = t.pc /\ u.undrained = t.undrained
<1> DEFINE u == T!Fresh(t)
<1>1. t \in T!Transports(T!CallStates) /\ T!Owed(t)
  BY DEF Good
<1>2. u = [t EXCEPT !.wrote = NoCall]
  BY DEF T!Fresh
<1> HIDE DEF u
<1>3. /\ u \in T!Transports(T!CallStates) /\ u.queue = t.queue /\ u.pc = t.pc
      /\ u.wrote = NoCall /\ u.undrained = t.undrained /\ u.state = t.state
      /\ u.waiting = t.waiting /\ u.backpressured = t.backpressured
      /\ u.needDrain = t.needDrain
      /\ u.timer = t.timer /\ u.strayDue = t.strayDue /\ u.strayLater = t.strayLater
  BY <1>1, <1>2 DEF T!Transports
<1>4. T!Booked(u) /\ T!Owed(u) /\ T!Awake(u)
  BY <1>1, <1>3 DEF Good, T!Booked, T!Owed, T!Awake, T!Live
<1> QED
  BY <1>3, <1>4 DEF Good, u

\* What a turn takes from the set of outcomes.
LEMMA TurnEffect ==
  ASSUME NEW ts, Turn(ts), NEW B, \A t \in ts : Good(t) /\ T!Awake(t) /\ \E b \in B : Follows(b, t),
         \A b \in B : b.wrote = NoCall
  PROVE  \E b \in B : Advances(b.pc)
<1>1. PICK t \in ts :
        /\ transport' = T!Fresh(t)
        /\ IF t.wrote = NoCall THEN UNCHANGED <<wire, got>>
           ELSE /\ wire' = [wire EXCEPT ![t.wrote[1]] =
                                IF t.wrote[2] = "upload" THEN "held" ELSE "deleted"]
                /\ got' = [v \in Viewers |->
                       IF v \notin Visible THEN got[v]
                       ELSE IF t.wrote[2] = "upload" THEN got[v] \cup {t.wrote[1]}
                            ELSE got[v] \ {t.wrote[1]}]
  BY Zenon DEF Turn
<1>2. Good(t) /\ T!Awake(t)
  OBVIOUS
<1>3. PICK b \in B : Follows(b, t)
  OBVIOUS
<1>4. /\ Good(transport') /\ T!Awake(transport') /\ transport'.wrote = NoCall
      /\ transport'.pc = t.pc /\ transport'.undrained = t.undrained
  BY <1>1, <1>2, FreshEffect
<1>5. t.wrote \in Calls \cup {NoCall}
  BY <1>2, Fields DEF Good
<1>6. \A c \in Calls : Onward(b.pc, transport'.pc, c, t.wrote)
  BY <1>3, <1>4 DEF Follows, Onward
<1>7. t.wrote # NoCall =>
        /\ b.pc[t.wrote] = "queued" /\ transport'.pc[t.wrote] \in {"admitted", "late"}
        /\ transport'.undrained <= Bytes(t.wrote)
  BY <1>3, <1>4 DEF Follows
<1>8. Advances(b.pc)
  BY <1>1, <1>4, <1>5, <1>6, <1>7 DEF Advances
<1> QED
  BY <1>8

\* What a turn that starts from transport t leaves of its calls.
LEMMA TurnFrom ==
  ASSUME NEW t, t.wrote = NoCall, NEW ts, Turn(ts),
         \A u \in ts : Good(u) /\ T!Awake(u) /\ Follows(t, u)
  PROVE  Advances(t.pc)
<1> DEFINE B == {t}
<1>1. \A u \in ts : Good(u) /\ T!Awake(u) /\ \E b \in B : Follows(b, u)
  OBVIOUS
<1>2. \A b \in B : b.wrote = NoCall
  OBVIOUS
<1>3. \E b \in B : Advances(b.pc)
  <2> HIDE DEF B
  <2> QED BY <1>1, <1>2, TurnEffect
<1> QED
  BY <1>3

\* A turn that changes nothing after reaching transport t.
LEMMA TurnSelf ==
  ASSUME NEW t, Good(t), T!Awake(t), t.wrote = NoCall, Turn({t})
  PROVE  Advances(t.pc)
<1>1. Follows(t, t)
  BY FollowsSelf DEF Good
<1>2. \A u \in {t} : Good(u) /\ T!Awake(u) /\ Follows(t, u)
  BY <1>1
<1> QED
  BY <1>2, TurnFrom

\* The transport between two turns.
LEMMA BetweenTurns ==
  ASSUME ImagesInv
  PROVE  /\ Good(transport) /\ T!Awake(transport) /\ transport.wrote = NoCall
         /\ transport \in T!Transports(T!CallStates)
         /\ transport.pc \in [Calls -> T!CallStates]
<1>1. transport \in T!Transports(T!CallStates) /\ T!Booked(transport)
  BY DEF ImagesInv, ImagesTypeOK
<1> QED
  BY <1>1, Fields DEF ImagesInv, Flowing, Good

\* Nothing is also a turn.
LEMMA QuietTurn ==
  ASSUME ImagesInv, UNCHANGED <<transport, wire, got>>
  PROVE  Advances(transport.pc)
BY BetweenTurns DEF Advances, Onward

\* A promise's continuation calls ready().
LEMMA ReadyTurn ==
  ASSUME ImagesInv, NEW c \in Calls, transport.pc[c] \in {"admitted", "late"},
         Turn(T!Ready(transport, c))
  PROVE  \E s \in {"failed", "cancelled", "drained", "waiting"} :
            /\ Advances([transport.pc EXCEPT ![c] = s])
            /\ s \in {"drained", "waiting"} => transport.pc[c] = "admitted"
<1> DEFINE S == {s \in {"failed", "cancelled", "drained", "waiting"} :
                    s \in {"drained", "waiting"} => transport.pc[c] = "admitted"}
           B == {T!Goto(transport, c, s) : s \in S}
           ts == T!Ready(transport, c)
<1>1. /\ Good(transport) /\ T!Awake(transport) /\ transport.wrote = NoCall
      /\ transport \in T!Transports(T!CallStates)
  BY BetweenTurns
<1>2. \A s \in S : /\ T!Goto(transport, c, s).wrote = NoCall
                   /\ T!Goto(transport, c, s).pc = [transport.pc EXCEPT ![c] = s]
  <2>1. \A s \in S : s \in T!CallStates
    BY DEF T!CallStates
  <2> HIDE DEF S
  <2> QED
    BY <1>1, <2>1, GotoEffect
<1>3. \A t \in ts : Good(t) /\ T!Awake(t) /\ \E b \in B : Follows(b, t)
  <2> TAKE t \in ts
  <2>1. PICK s \in {"failed", "cancelled", "drained", "waiting"} :
               /\ Good(t) /\ T!Awake(t) /\ Follows(T!Goto(transport, c, s), t)
               /\ s \in {"drained", "waiting"} => transport.pc[c] = "admitted"
    BY <1>1, ReadyEffect
  <2>2. T!Goto(transport, c, s) \in B
    BY <2>1
  <2> HIDE DEF B
  <2> QED
    BY <2>1, <2>2
<1>4. \A b \in B : b.wrote = NoCall
  <2> HIDE DEF S
  <2> QED BY <1>2
<1>5. PICK b \in B : Advances(b.pc)
  <2> HIDE DEF B, ts
  <2>1. Turn(ts)
    BY DEF ts
  <2> QED BY <1>3, <1>4, <2>1, TurnEffect
<1>6. PICK s \in S : b = T!Goto(transport, c, s)
  BY <1>5
<1>7. Advances([transport.pc EXCEPT ![c] = s])
  <2> HIDE DEF S
  <2> QED BY <1>2, <1>5, <1>6
<1> QED
  BY <1>6, <1>7

\* A new call, made from a transport t on which nothing else has happened.
LEMMA EnqueueTurn ==
  ASSUME NEW t, Good(t), T!Awake(t), t.wrote = NoCall, NEW c \in Calls,
         t.pc[c] = "idle", Turn(T!Enqueue(t, c))
  PROVE  \E s \in {"queued", "failed"} : Advances([t.pc EXCEPT ![c] = s])
<1> DEFINE B == {T!Goto(t, c, s) : s \in {"queued", "failed"}}
           ts == T!Enqueue(t, c)
<1>1. t \in T!Transports(T!CallStates)
  BY DEF Good
<1>2. \A s \in {"queued", "failed"} :
         /\ T!Goto(t, c, s).wrote = NoCall
         /\ T!Goto(t, c, s).pc = [t.pc EXCEPT ![c] = s]
  <2>1. \A s \in {"queued", "failed"} : s \in T!CallStates
    BY DEF T!CallStates
  <2> QED
    BY <1>1, <2>1, GotoEffect
<1>3. \A u \in ts : Good(u) /\ T!Awake(u) /\ \E b \in B : Follows(b, u)
  <2> TAKE u \in ts
  <2>1. /\ Good(u) /\ T!Awake(u)
        /\ Follows(T!Goto(t, c, "queued"), u) \/ Follows(T!Goto(t, c, "failed"), u)
    BY EnqueueEffect
  <2>2. T!Goto(t, c, "queued") \in B /\ T!Goto(t, c, "failed") \in B
    OBVIOUS
  <2> HIDE DEF B
  <2> QED
    BY <2>1, <2>2
<1>4. \A b \in B : b.wrote = NoCall
  BY <1>2
<1>5. PICK b \in B : Advances(b.pc)
  <2> HIDE DEF B, ts
  <2>1. Turn(ts)
    BY DEF ts
  <2> QED BY <1>3, <1>4, <2>1, TurnEffect
<1>6. PICK s \in {"queued", "failed"} : b = T!Goto(t, c, s)
  BY <1>5
<1> QED
  BY <1>2, <1>5, <1>6

\* A settled call ends, and nothing else happens.
LEMMA EndTurn ==
  ASSUME ImagesInv, NEW c \in Calls, transport.pc[c] \in Settled
  PROVE  LET t == T!Goto(transport, c, "idle") IN
         /\ Good(t) /\ T!Awake(t) /\ t.wrote = NoCall
         /\ t.pc = [transport.pc EXCEPT ![c] = "idle"]
         /\ Turn({t}) => Advances([transport.pc EXCEPT ![c] = "idle"])
<1> DEFINE t == T!Goto(transport, c, "idle")
           p == [transport.pc EXCEPT ![c] = "idle"]
<1>1. /\ Good(transport) /\ T!Awake(transport) /\ transport.wrote = NoCall
      /\ transport.pc[c] # "queued" /\ "idle" \in T!CallStates \ {"queued"}
  BY BetweenTurns DEF Settled, T!CallStates
<1>2. Good(t) /\ T!Awake(t) /\ t.wrote = NoCall /\ t.pc = p
  BY <1>1, GotoSettled
<1> HIDE DEF t, p
<1>3. Turn({t}) => Advances(p)
  BY <1>2, TurnSelf
<1> QED
  BY <1>2, <1>3 DEF t, p

-----------------------------------------------------------------------------
(* What an action still owes the invariant, once its turn is known to start  *)
(* from the program counters p.                                              *)

\* Everything but the transport and the terminals has its type.
Typed ==
    /\ image \in [Images -> StoredImages]
    /\ capture \in [Images -> [targets : SUBSET Viewers, current : BOOLEAN]]
    /\ viewer \in Snapshots /\ seen \in Snapshots
    /\ loops \subseteq Images /\ purge \subseteq Images /\ rest \subseteq Images
    /\ releasing \in [Images -> ReleaseStates]
    /\ shutdown \in {"no", "uploads", "deleting", "over"}
    /\ watching \in BOOLEAN /\ observed \in BOOLEAN
    /\ client \in [Viewers -> {"hidden", "visible", "gone"}] /\ parted \subseteq Viewers
    /\ events \in 0 .. MaxEvents

\* Staged at image k, of what the calls are before the turn.
StagedAt(p, k) ==
    /\ p[<<k, "upload">>] # "idle" => image'[k].st = "kept"
    /\ image'[k].st = "unused" => image'[k] = Unused /\ releasing'[k] = "idle"
    /\ releasing'[k] \in {"uploading", "go", "deleting"} /\ image'[k].st = "kept"
        => image'[k].releasing
    /\ releasing'[k] \in {"go", "deleting"} => p[<<k, "upload">>] = "idle"
    /\ p[<<k, "release">>] # "idle" => releasing'[k] = "deleting"
    /\ p[<<k, "clear">>] # "idle" => shutdown' = "deleting"
    /\ shutdown' \in {"uploads", "deleting"} /\ image'[k].st = "kept"
        => image'[k].releasing \/ image'[k].error
    /\ shutdown' = "deleting" => p[<<k, "upload">>] = "idle"
\* Clearing goes image by image.
OneClear(p) ==
    \A j, k \in Images : p[<<j, "clear">>] # "idle" /\ p[<<k, "clear">>] # "idle" => j = k
\* All of Staged.
StagedTo(p) == OneClear(p) /\ \A k \in Images : StagedAt(p, k)

\* Held at image k, of what the terminal holds before the turn.
HeldAt(p, k) ==
    /\ wire[k] = "held" =>
        /\ image'[k].st = "kept"
        /\ image'[k].terminalResource \/ p[<<k, "upload">>] \in {"admitted", "late"}
    /\ p[<<k, "release">>] \in Sent \/ p[<<k, "clear">>] \in Sent => wire[k] # "held"
\* All of Held.
HeldTo(p) == \A k \in Images : HeldAt(p, k)

\* v has turned away and nobody else looks on.
Away(v) == client[v] = "hidden" /\ Visible = {}

\* Marked at image k, of what the terminals hold before the turn.
MarkedAt(p, k) ==
    shutdown' = "no" =>
        \A v \in Viewers \ parted :
            image'[k].st = "kept" /\ client[v] # "gone" /\ ~image'[k].error /\ ~image'[k].releasing =>
                /\ v \in image'[k].sent =>
                    \/ k \in got[v]
                    \/ Away(v) /\ ~observed' /\ v \in image'[k].recent /\ viewer' # Truth
                /\ capture'[k].current /\ v \in capture'[k].targets /\ p[<<k, "upload">>] \in Sent
                    => k \in got[v] \/ (Away(v) /\ ~observed')
\* All of Marked.
MarkedTo(p) == \A k \in Images : MarkedAt(p, k)

\* The step formula of DrainRespected.
Drains ==
    \A c \in Calls :
        transport'.pc[c] = "admitted" /\ transport.pc[c] # "admitted"
            => transport'.undrained <= Bytes(c)

\* The invariant holds these types.
LEMMA TypedNow == ASSUME ImagesInv PROVE Typed
BY DEF ImagesInv, ImagesTypeOK, Typed

\* The three calls of an image.
LEMMA CallsOf ==
  /\ \A k \in Images : <<k, "upload">> \in Calls /\ <<k, "release">> \in Calls /\ <<k, "clear">> \in Calls
  /\ NoCall \notin Calls
  /\ \A w \in Calls : /\ w[1] \in Images /\ w[2] \in {"upload", "release", "clear"}
                      /\ w = <<w[1], w[2]>>
BY ImagesAssumption DEF Calls, Images

\* Types and the transport's books.
LEMMA TypesTurn ==
  ASSUME ImagesInv, NEW p \in [Calls -> T!CallStates], Advances(p), Typed'
  PROVE  ImagesTypeOK' /\ Flowing' /\ transport'.pc \in [Calls -> T!CallStates]
<1>1. /\ Good(transport') /\ T!Awake(transport') /\ transport'.wrote = NoCall
  BY DEF Advances
<1>2. Flowing' /\ transport' \in T!Transports(T!CallStates) /\ T!Booked(transport')
  BY <1>1 DEF Good, Flowing
<1>3. transport'.pc \in [Calls -> T!CallStates]
  BY <1>2, Fields
<1>4. wire \in [Images -> {"none", "held", "deleted"}] /\ got \in [Viewers -> SUBSET Images]
  BY DEF ImagesInv, ImagesTypeOK
<1>5. PICK w \in Calls \cup {NoCall} :
        IF w = NoCall THEN UNCHANGED <<wire, got>>
        ELSE /\ wire' = [wire EXCEPT ![w[1]] = IF w[2] = "upload" THEN "held" ELSE "deleted"]
             /\ got' = [v \in Viewers |->
                        IF v \notin Visible THEN got[v]
                        ELSE IF w[2] = "upload" THEN got[v] \cup {w[1]} ELSE got[v] \ {w[1]}]
  BY DEF Advances
<1>6. wire' \in [Images -> {"none", "held", "deleted"}] /\ got' \in [Viewers -> SUBSET Images]
  <2>1. CASE w = NoCall
    BY <1>4, <1>5, <2>1
  <2>2. CASE w # NoCall
    <3>1. w[1] \in Images
      BY <2>2, CallsOf
    <3> QED
      BY <1>4, <1>5, <2>2, <3>1
  <2> QED
    BY <2>1, <2>2
<1> QED
  BY <1>2, <1>3, <1>6 DEF Typed, ImagesTypeOK

\* A turn starts and ends no call, so the stages stand.
LEMMA StagedTurn ==
  ASSUME NEW p, Advances(p), StagedTo(p)
  PROVE  Staged'
<1>1. \A c \in Calls : transport'.pc[c] = "idle" <=> p[c] = "idle"
  BY DEF Advances, Onward
<1>2. \A k \in Images : /\ transport'.pc[<<k, "upload">>] = "idle" <=> p[<<k, "upload">>] = "idle"
                        /\ transport'.pc[<<k, "release">>] = "idle" <=> p[<<k, "release">>] = "idle"
                        /\ transport'.pc[<<k, "clear">>] = "idle" <=> p[<<k, "clear">>] = "idle"
  BY <1>1, CallsOf
<1> QED
  BY <1>2 DEF StagedTo, StagedAt, OneClear, Staged, Uploading, pc

\* A written upload is of an image that is kept and not deleted; a written
\* delete is the last of its image.
LEMMA HeldTurn ==
  ASSUME ImagesInv, NEW p, Advances(p), StagedTo(p), HeldTo(p)
  PROVE  Held'
<1>1. PICK w \in Calls \cup {NoCall} :
        /\ \A c \in Calls : Onward(p, transport'.pc, c, w)
        /\ IF w = NoCall THEN UNCHANGED <<wire, got>>
           ELSE /\ p[w] = "queued" /\ transport'.pc[w] \in {"admitted", "late"}
                /\ wire' = [wire EXCEPT ![w[1]] = IF w[2] = "upload" THEN "held" ELSE "deleted"]
  BY DEF Advances
<1>2. wire \in [Images -> {"none", "held", "deleted"}]
  BY DEF ImagesInv, ImagesTypeOK
<1> SUFFICES ASSUME NEW k \in Images
             PROVE  /\ wire'[k] = "held" =>
                        /\ image'[k].st = "kept"
                        /\ \/ image'[k].terminalResource
                           \/ transport'.pc[<<k, "upload">>] \in {"admitted", "late"}
                    /\ transport'.pc[<<k, "release">>] \in Sent \/ transport'.pc[<<k, "clear">>] \in Sent
                        => wire'[k] # "held"
  BY DEF Held, pc
<1> DEFINE u == <<k, "upload">>
           r == <<k, "release">>
           d == <<k, "clear">>
<1>3. u \in Calls /\ r \in Calls /\ d \in Calls /\ NoCall \notin Calls
  BY CallsOf
<1>4. /\ p[u] \in {"admitted", "late"} => transport'.pc[u] \in {"admitted", "late"}
      /\ transport'.pc[r] \in Sent => p[r] \in Sent \/ (p[r] = "queued" /\ r = w)
      /\ transport'.pc[d] \in Sent => p[d] \in Sent \/ (p[d] = "queued" /\ d = w)
  BY <1>1, <1>3 DEF Onward, Sent
<1>5. /\ wire[k] = "held" =>
            /\ image'[k].st = "kept"
            /\ image'[k].terminalResource \/ p[u] \in {"admitted", "late"}
      /\ p[r] \in Sent \/ p[d] \in Sent => wire[k] # "held"
  BY DEF HeldTo, HeldAt
<1>6. /\ p[u] # "idle" => image'[k].st = "kept" /\ p[r] = "idle" /\ p[d] = "idle"
  BY DEF StagedTo, StagedAt
<1> HIDE DEF u, r, d
<1>7. CASE wire' = wire /\ w = NoCall
  BY <1>3, <1>4, <1>5, <1>7 DEF u, r, d
<1>8. CASE w = u
  <2>1. wire'[k] = "held" /\ transport'.pc[u] \in {"admitted", "late"} /\ p[u] # "idle"
    BY <1>1, <1>2, <1>3, <1>8 DEF u
  <2>2. transport'.pc[r] \notin Sent /\ transport'.pc[d] \notin Sent
    BY <1>4, <1>6, <2>1 DEF Sent
  <2> QED
    BY <1>6, <2>1, <2>2 DEF u, r, d
<1>9. CASE w = r \/ w = d
  <2>1. wire'[k] = "deleted"
    BY <1>1, <1>2, <1>3, <1>9 DEF r, d
  <2> QED
    BY <2>1
<1>10. CASE w # NoCall /\ w # u /\ w # r /\ w # d
  <2>1. w \in Calls /\ w[1] # k
    BY <1>10, CallsOf DEF u, r, d
  <2>2. wire'[k] = wire[k]
    BY <1>1, <1>2, <1>3, <2>1
  <2> QED
    BY <1>4, <1>5, <1>10, <2>2 DEF u, r, d
<1> QED
  BY <1>1, <1>7, <1>8, <1>9, <1>10

\* A written upload adds to what clients hold; a written delete is of an
\* image that is on its way out and no longer drawn.
LEMMA MarkedTurn ==
  ASSUME ImagesInv, NEW p, Advances(p), StagedTo(p), Watched', UNCHANGED <<client, parted>>, MarkedTo(p)
  PROVE  Marked'
<1>1. PICK w \in Calls \cup {NoCall} :
        /\ \A c \in Calls : Onward(p, transport'.pc, c, w)
        /\ IF w = NoCall THEN UNCHANGED <<wire, got>>
           ELSE /\ p[w] = "queued"
                /\ got' = [v \in Viewers |->
                        IF v \notin Visible THEN got[v]
                        ELSE IF w[2] = "upload" THEN got[v] \cup {w[1]} ELSE got[v] \ {w[1]}]
  BY DEF Advances
<1>2. got \in [Viewers -> SUBSET Images] /\ client \in [Viewers -> {"hidden", "visible", "gone"}]
  BY DEF ImagesInv, ImagesTypeOK
<1>3. /\ Visible' = Visible /\ Truth' = Truth /\ Kept' = {k \in Images : image'[k].st = "kept"}
      /\ \A v : Missed(v)' <=> Away(v) /\ ~observed'
  BY DEF Visible, Truth, Attached, Kept, Missed, Away
<1> SUFFICES ASSUME shutdown' = "no", NEW k \in Images, NEW v \in Viewers \ parted,
                    image'[k].st = "kept", client[v] # "gone",
                    ~image'[k].error, ~image'[k].releasing
             PROVE  /\ v \in image'[k].sent =>
                        \/ k \in got'[v]
                        \/ Away(v) /\ ~observed' /\ v \in image'[k].recent /\ viewer' # Truth
                    /\ capture'[k].current /\ v \in capture'[k].targets
                          /\ transport'.pc[<<k, "upload">>] \in Sent
                        => k \in got'[v] \/ (Away(v) /\ ~observed')
  BY <1>3 DEF Marked, pc
<1> DEFINE u == <<k, "upload">>
           r == <<k, "release">>
           d == <<k, "clear">>
<1>4. u \in Calls /\ r \in Calls /\ d \in Calls /\ NoCall \notin Calls
  BY CallsOf
<1>5. p[r] = "idle" /\ p[d] = "idle"
  BY DEF StagedTo, StagedAt
<1>6. w # r /\ w # d
  BY <1>1, <1>4, <1>5
<1>7. k \in got[v] => k \in got'[v]
  <2>1. CASE w = NoCall
    BY <1>1, <2>1
  <2>2. CASE w \in Calls /\ w[2] = "upload"
    BY <1>1, <1>4, <2>2
  <2>3. CASE w \in Calls /\ w[2] # "upload"
    <3>1. w[1] # k
      BY <1>6, <2>3, CallsOf
    <3> QED
      BY <1>1, <1>4, <2>3, <3>1
  <2> QED
    BY <2>1, <2>2, <2>3
<1>8. /\ v \in image'[k].sent =>
            \/ k \in got[v]
            \/ Away(v) /\ ~observed' /\ v \in image'[k].recent /\ viewer' # Truth
      /\ capture'[k].current /\ v \in capture'[k].targets /\ p[u] \in Sent
            => k \in got[v] \/ (Away(v) /\ ~observed')
  BY DEF MarkedTo, MarkedAt
<1>9. transport'.pc[u] \in Sent => p[u] \in Sent \/ w = u
  BY <1>1, <1>4 DEF Onward, Sent
<1>10. ASSUME w = u, capture'[k].current, v \in capture'[k].targets
       PROVE  k \in got'[v] \/ (Away(v) /\ ~observed')
  <2>1. CASE v \in Visible
    BY <1>1, <1>4, <1>10, <2>1 DEF u
  <2>2. CASE v \notin Visible
    <3>1. v \in viewer'.receivers
      BY <1>10 DEF Watched
    <3>2. client[v] = "hidden"
      BY <1>2, <2>2 DEF Visible
    <3>3. Missed(v)'
      BY <3>1, <3>2 DEF Watched
    <3> QED
      BY <1>3, <3>3
  <2> QED
    BY <2>1, <2>2
<1> HIDE DEF u, r, d
<1> QED
  BY <1>7, <1>8, <1>9, <1>10 DEF u

\* The whole of it.
LEMMA StepTurn ==
  ASSUME ImagesInv, NEW p \in [Calls -> T!CallStates], Advances(p),
         \A c \in Calls : p[c] = "admitted" => transport.pc[c] = "admitted",
         Typed', StagedTo(p), HeldTo(p), Watched', UNCHANGED <<client, parted>>, MarkedTo(p)
  PROVE  ImagesInv' /\ Drains
<1>1. ImagesTypeOK' /\ Flowing'
  BY TypesTurn
<1>2. Staged' /\ Held'
  BY StagedTurn, HeldTurn
<1>3. Marked'
  BY MarkedTurn
<1>4. Drains
  <2>1. PICK w \in Calls \cup {NoCall} :
        /\ \A c \in Calls : Onward(p, transport'.pc, c, w)
        /\ w # NoCall => transport'.undrained <= Bytes(w)
    BY DEF Advances
  <2> QED
    BY <2>1, CallsOf DEF Onward, Drains
<1> QED
  BY <1>1, <1>2, <1>3, <1>4 DEF ImagesInv

-----------------------------------------------------------------------------
(* The parts of the invariant before and after a turn *)

\* The invariant's parts with their abbreviations expanded.
LEMMA WatchedNow ==
  ASSUME ImagesInv
  PROVE  /\ Typed /\ Watched
         /\ \A k \in Images : image[k].st = "kept" /\ viewer.label = "paused" => image[k].sent = {}
         /\ \A k \in Images : capture[k].current => capture[k].targets \subseteq viewer.receivers
<1>1. Typed /\ Watched
  BY TypedNow DEF ImagesInv
<1> QED
  BY <1>1 DEF Watched, Kept

\* Staged, image by image.
LEMMA StagedNow ==
  ASSUME ImagesInv, NEW k \in Images
  PROVE  /\ transport.pc[<<k, "upload">>] # "idle" => image[k].st = "kept"
         /\ image[k].st = "unused" => image[k] = Unused /\ releasing[k] = "idle"
         /\ releasing[k] \in {"uploading", "go", "deleting"} /\ image[k].st = "kept"
             => image[k].releasing
         /\ releasing[k] \in {"go", "deleting"} => transport.pc[<<k, "upload">>] = "idle"
         /\ transport.pc[<<k, "release">>] # "idle" => releasing[k] = "deleting"
         /\ transport.pc[<<k, "clear">>] # "idle" => shutdown = "deleting"
         /\ shutdown \in {"uploads", "deleting"} /\ image[k].st = "kept"
             => image[k].releasing \/ image[k].error
         /\ shutdown = "deleting" => transport.pc[<<k, "upload">>] = "idle"
<1>1. Staged
  BY DEF ImagesInv
<1> QED
  BY <1>1 DEF Staged, Uploading, pc

\* At most one clear is under way.
LEMMA OneClearNow ==
  ASSUME ImagesInv
  PROVE  OneClear(transport.pc)
<1> SUFFICES ASSUME NEW i \in Images, NEW j \in Images, i # j,
                    transport.pc[<<i, "clear">>] # "idle"
             PROVE  transport.pc[<<j, "clear">>] = "idle"
  BY DEF OneClear
<1>1. Staged
  BY DEF ImagesInv
<1>2. \A m \in Images \ {i} : pc(m, "clear") = "idle"
  BY <1>1 DEF Staged, pc
<1> QED
  BY <1>2 DEF pc

\* Held, image by image.
LEMMA HeldNow ==
  ASSUME ImagesInv, NEW k \in Images
  PROVE  /\ wire[k] = "held" =>
             /\ image[k].st = "kept"
             /\ \/ image[k].terminalResource
                \/ transport.pc[<<k, "upload">>] \in {"admitted", "late"}
         /\ transport.pc[<<k, "release">>] \in Sent \/ transport.pc[<<k, "clear">>] \in Sent
             => wire[k] # "held"
<1>1. Held
  BY DEF ImagesInv
<1> QED
  BY <1>1 DEF Held, pc

\* Marked, image by image and client by client.
LEMMA MarkedNow ==
  ASSUME ImagesInv, shutdown = "no", NEW k \in Images, NEW v \in Viewers \ parted,
         image[k].st = "kept", client[v] # "gone", ~image[k].error, ~image[k].releasing
  PROVE  /\ v \in image[k].sent =>
            \/ k \in got[v]
            \/ Away(v) /\ ~observed /\ v \in image[k].recent /\ viewer # Truth
         /\ capture[k].current /\ v \in capture[k].targets
                /\ transport.pc[<<k, "upload">>] \in Sent
            => k \in got[v] \/ (Away(v) /\ ~observed)
BY DEF ImagesInv, Marked, Missed, Away, Kept, pc

\* One program counter moves.
LEMMA PcMoved ==
  ASSUME ImagesInv, NEW c \in Calls, NEW s \in T!CallStates
  PROVE  LET p == [transport.pc EXCEPT ![c] = s] IN
         /\ p \in [Calls -> T!CallStates] /\ p[c] = s
         /\ \A d \in Calls : d # c => p[d] = transport.pc[d]
BY BetweenTurns

\* An action that takes no new snapshot keeps what is known of the viewers.
LEMMA WatchedTurn ==
  ASSUME ImagesInv, UNCHANGED <<viewer, client, observed, parted>>,
         seen' \in {seen, NoSnapshot}, shutdown' = "no" => shutdown = "no" /\ watching' = watching,
         \A k \in Images : image'[k].st = "kept" /\ viewer.label = "paused" => image'[k].sent = {},
         \A k \in Images : capture'[k].current => capture'[k].targets \subseteq viewer.receivers
  PROVE  Watched'
<1>1. Watched
  BY DEF ImagesInv
<1>2. /\ Truth' = Truth /\ Kept' = {k \in Images : image'[k].st = "kept"}
      /\ \A v : Missed(v)' <=> Missed(v)
  BY DEF Visible, Truth, Attached, Kept, Missed
<1>3. Paused' = Paused /\ NoSnapshot.label = "none"
  BY DEF NoSnapshot, Paused
<1> QED
  BY <1>1, <1>2, <1>3 DEF Watched

\* ensureUploaded() with no upload in flight.
LEMMA EnsureEffect ==
  ASSUME ImagesInv, NEW k \in Images, NEW img, NEW t, Good(t), T!Awake(t), t.wrote = NoCall,
         t.pc = [transport.pc EXCEPT ![<<k, "upload">>] = "idle"], Ensure(k, img, t)
  PROVE  /\ \E s \in {"idle", "queued", "failed"} :
                /\ Advances([transport.pc EXCEPT ![<<k, "upload">>] = s])
                /\ s # "idle" => Needs(img, viewer)
         /\ capture' = [capture EXCEPT ![k] = IF Needs(img, viewer)
                THEN [targets |-> viewer.receivers \ img.sent, current |-> TRUE] ELSE NoCapture]
<1> DEFINE u == <<k, "upload">>
<1>1. u \in Calls
  BY CallsOf
<1>2. transport.pc \in [Calls -> T!CallStates]
  BY BetweenTurns
<1>3. t.pc[u] = "idle"
  BY <1>1, <1>2
<1>4. \A s : [t.pc EXCEPT ![u] = s] = [transport.pc EXCEPT ![u] = s]
  BY <1>1, <1>2
<1>5. CASE Needs(img, viewer)
  <2>1. Turn(T!Enqueue(t, u))
    BY <1>5 DEF Ensure
  <2>2. \E s \in {"queued", "failed"} : Advances([t.pc EXCEPT ![u] = s])
    <3> HIDE DEF u
    <3> QED BY <1>1, <1>3, <2>1, EnqueueTurn
  <2> QED
    BY <1>4, <1>5, <2>2 DEF Ensure
<1>6. CASE ~Needs(img, viewer)
  <2>1. Advances(t.pc)
    BY <1>6, TurnSelf DEF Ensure
  <2> QED
    BY <1>6, <2>1 DEF Ensure
<1> QED
  BY <1>5, <1>6

\* Every image but one is left alone.
LEMMA OneImage ==
  ASSUME ImagesInv, NEW k \in Images, NEW p,
         \A c \in Calls : c[1] # k => p[c] = transport.pc[c],
         OneClear(p),
         \A j \in Images : j # k => /\ image'[j] = image[j] /\ capture'[j] = capture[j]
                                   /\ releasing'[j] = releasing[j],
         UNCHANGED <<viewer, client, observed, parted, shutdown>>,
         StagedAt(p, k), HeldAt(p, k), MarkedAt(p, k)
  PROVE  StagedTo(p) /\ HeldTo(p) /\ MarkedTo(p)
<1>1. \A j \in Images : j # k =>
        /\ p[<<j, "upload">>] = transport.pc[<<j, "upload">>]
        /\ p[<<j, "release">>] = transport.pc[<<j, "release">>]
        /\ p[<<j, "clear">>] = transport.pc[<<j, "clear">>]
  BY CallsOf
<1>3. ASSUME NEW j \in Images, j # k
      PROVE  StagedAt(p, j) /\ HeldAt(p, j) /\ MarkedAt(p, j)
  <2>1. /\ image'[j] = image[j] /\ capture'[j] = capture[j] /\ releasing'[j] = releasing[j]
        /\ p[<<j, "upload">>] = transport.pc[<<j, "upload">>]
        /\ p[<<j, "release">>] = transport.pc[<<j, "release">>]
        /\ p[<<j, "clear">>] = transport.pc[<<j, "clear">>]
    BY <1>1, <1>3
  <2>2. UNCHANGED <<viewer, client, observed, parted, shutdown>>
    OBVIOUS
  <2>3. StagedAt(p, j)
    BY <2>1, <2>2, StagedNow DEF StagedAt
  <2>4. HeldAt(p, j)
    BY <2>1, HeldNow DEF HeldAt
  <2>5. MarkedAt(p, j)
    BY <2>1, <2>2, MarkedNow DEF MarkedAt
  <2> QED
    BY <2>3, <2>4, <2>5
<1> QED
  BY <1>3 DEF StagedTo, HeldTo, MarkedTo

\* Whatever else an action does, ensureUploaded() at the end of it keeps the
\* invariant: an upload that it starts is captured for those who look on.
LEMMA EnsureStep ==
  ASSUME ImagesInv, NEW k \in Images, NEW t, Good(t), T!Awake(t), t.wrote = NoCall,
         t.pc = [transport.pc EXCEPT ![<<k, "upload">>] = "idle"], Ensure(k, image'[k], t),
         image' \in [Images -> StoredImages],
         UNCHANGED <<viewer, seen, watching, client, observed, parted, shutdown, purge, rest>>,
         releasing' \in [Images -> ReleaseStates], loops' \subseteq Images, events' \in 0 .. MaxEvents,
         \A j \in Images : j # k => image'[j] = image[j] /\ releasing'[j] = releasing[j],
         image'[k].st = "kept" /\ viewer.label = "paused" => image'[k].sent = {},
         StagedAt(t.pc, k), HeldAt(t.pc, k), MarkedAt(t.pc, k)
  PROVE  ImagesInv' /\ Drains
<1> DEFINE u == <<k, "upload">>
           img == image'[k]
<1>1. u \in Calls /\ <<k, "release">> \in Calls /\ <<k, "clear">> \in Calls
  BY CallsOf
<1>2. PICK s \in {"idle", "queued", "failed"} :
                /\ Advances([transport.pc EXCEPT ![u] = s])
                /\ s # "idle" => Needs(img, viewer)
  BY EnsureEffect
<1>3. capture' = [capture EXCEPT ![k] = IF Needs(img, viewer)
                THEN [targets |-> viewer.receivers \ img.sent, current |-> TRUE] ELSE NoCapture]
  BY EnsureEffect
<1> DEFINE p == [transport.pc EXCEPT ![u] = s]
<1>4. s \in T!CallStates /\ "idle" \in T!CallStates
  BY DEF T!CallStates
<1>5. /\ p \in [Calls -> T!CallStates] /\ p[u] = s /\ t.pc[u] = "idle"
      /\ \A c \in Calls : c # u => p[c] = t.pc[c] /\ p[c] = transport.pc[c]
  BY <1>1, <1>4, PcMoved
<1>6. Typed
  BY WatchedNow
<1>7. viewer \in Snapshots
  BY <1>6 DEF Typed
<1>8. capture' \in [Images -> [targets : SUBSET Viewers, current : BOOLEAN]]
  <2>1. viewer.receivers \in SUBSET Viewers
    BY <1>7 DEF Snapshots
  <2> QED
    BY <1>3, <1>6, <2>1 DEF Typed, NoCapture
<1>9. /\ \A j \in Images : capture'[j].current => capture'[j].targets \subseteq viewer.receivers
      /\ \A j \in Images : j # k => capture'[j] = capture[j]
  BY <1>3, <1>6, WatchedNow DEF Typed, NoCapture
<1>10. Typed'
  BY <1>6, <1>8 DEF Typed
<1>11. Watched'
  <2>1. \A j \in Images : image'[j].st = "kept" /\ viewer.label = "paused" => image'[j].sent = {}
    BY WatchedNow
  <2> QED
    BY <1>9, <2>1, WatchedTurn
<1> HIDE DEF p
<1>12. /\ p[<<k, "release">>] = t.pc[<<k, "release">>]
       /\ p[<<k, "clear">>] = t.pc[<<k, "clear">>]
       /\ p[<<k, "clear">>] = transport.pc[<<k, "clear">>]
       /\ p[<<k, "upload">>] = s /\ t.pc[<<k, "upload">>] = "idle"
  BY <1>1, <1>5
<1>13. s # "idle" => img.st = "kept" /\ ~img.releasing /\ ~img.error
  BY <1>2 DEF Needs
<1> HIDE DEF u
<1>14. StagedAt(p, k)
  BY <1>12, <1>13 DEF StagedAt
<1>15. HeldAt(p, k)
  BY <1>12 DEF HeldAt
<1>16. MarkedAt(p, k)
  BY <1>12 DEF MarkedAt, Sent
<1>17. \A c \in Calls : p[c] = "admitted" => transport.pc[c] = "admitted"
  BY <1>5
<1>18. Advances(p)
  BY <1>2 DEF p
<1>19. \A c \in Calls : c[1] # k => p[c] = transport.pc[c]
  BY <1>5 DEF u
<1>22. OneClear(p)
  <2>1. \A j \in Images : <<j, "clear">> # u /\ <<j, "clear">> \in Calls
    BY CallsOf DEF u
  <2>2. \A j \in Images : p[<<j, "clear">>] = transport.pc[<<j, "clear">>]
    BY <1>5, <2>1
  <2> QED
    BY <2>2, OneClearNow DEF OneClear
<1>20. UNCHANGED <<viewer, client, observed, parted, shutdown>>
  OBVIOUS
<1>21. StagedTo(p) /\ HeldTo(p) /\ MarkedTo(p)
  BY <1>9, <1>14, <1>15, <1>16, <1>19, <1>20, <1>22, OneImage
<1> QED
  BY <1>5, <1>10, <1>11, <1>17, <1>18, <1>20, <1>21, StepTurn

-----------------------------------------------------------------------------
(* One lemma per action *)

\* ensureUploaded() at an image as it is stored.
LEMMA EnsureStored ==
  ASSUME ImagesInv, NEW k \in Images, transport.pc[<<k, "upload">>] = "idle",
         Ensure(k, image[k], transport), loops' \subseteq Images,
         UNCHANGED <<image, viewer, owners, monitor, world>>
  PROVE  ImagesInv' /\ Drains
<1>1. UNCHANGED <<image, viewer, seen, watching, client, observed, parted, shutdown, purge, rest,
                  releasing, events>>
  BY DEF owners, monitor, world
<1>2. /\ Good(transport) /\ T!Awake(transport) /\ transport.wrote = NoCall
      /\ transport.pc \in [Calls -> T!CallStates]
  BY BetweenTurns
<1>3. transport.pc = [transport.pc EXCEPT ![<<k, "upload">>] = "idle"]
  BY <1>2, CallsOf
<1>4. Ensure(k, image'[k], transport)
  BY <1>1
<1>5. Typed
  BY WatchedNow
<1>6. /\ image' \in [Images -> StoredImages]
      /\ releasing' \in [Images -> ReleaseStates] /\ events' \in 0 .. MaxEvents
  BY <1>1, <1>5 DEF Typed
<1>7. image'[k].st = "kept" /\ viewer.label = "paused" => image'[k].sent = {}
  BY <1>1, WatchedNow
<1>8. StagedAt(transport.pc, k)
  BY <1>1, StagedNow DEF StagedAt
<1>9. HeldAt(transport.pc, k)
  BY <1>1, HeldNow DEF HeldAt
<1>10. MarkedAt(transport.pc, k)
  BY <1>1, MarkedNow DEF MarkedAt, Sent
<1> QED
  BY <1>1, <1>2, <1>3, <1>4, <1>6, <1>7, <1>8, <1>9, <1>10, EnsureStep

\* prepare() of an image that is kept.
LEMMA PrepareAgainKeeps ==
  ASSUME ImagesInv, PrepareAgain
  PROVE  ImagesInv' /\ Drains
<1>1. PICK k \in Kept : ~Uploading(k) /\ Ensure(k, image[k], transport)
  BY DEF PrepareAgain
<1>2. k \in Images /\ transport.pc[<<k, "upload">>] = "idle"
  BY <1>1 DEF Kept, Uploading, pc
<1>3. loops' \subseteq Images /\ UNCHANGED <<image, viewer, owners, monitor, world>>
  BY TypedNow DEF PrepareAgain, Typed
<1> QED
  BY <1>1, <1>2, <1>3, EnsureStored

\* One image of the loop in setViewer().
LEMMA LoopStepKeeps ==
  ASSUME ImagesInv, NEW k \in Images, LoopStep(k)
  PROVE  ImagesInv' /\ Drains
<1>1. Ensure(k, image[k], transport) /\ transport.pc[<<k, "upload">>] = "idle"
  BY DEF LoopStep, Uploading, pc
<1> DEFINE later == {j \in Kept : j > k}
<1>2. later # {} => Min(later) \in Images
  <2>1. later \in SUBSET Nat /\ later \subseteq Images
    BY DEF Kept, Images
  <2> HIDE DEF later
  <2> QED
    BY <2>1, Least
<1>3. loops' \subseteq Images
  BY <1>2, TypedNow DEF LoopStep, Typed
<1>4. UNCHANGED <<image, viewer, owners, monitor, world>>
  BY DEF LoopStep
<1> QED
  BY <1>1, <1>3, <1>4, EnsureStored

\* prepare() of a new image.
LEMMA PrepareKeeps ==
  ASSUME ImagesInv, Prepare
  PROVE  ImagesInv' /\ Drains
<1>1. PICK k \in Images :
        /\ image[k].st = "unused"
        /\ IF k = 1 THEN UNCHANGED events ELSE events > 1 /\ events' = events - 2
        /\ image' = [image EXCEPT ![k].st = "kept"]
        /\ Ensure(k, image'[k], transport)
  BY DEF Prepare
<1>2. UNCHANGED <<viewer, seen, watching, client, observed, parted, shutdown, purge, rest,
                  releasing, loops>> /\ shutdown = "no"
  BY DEF Prepare, owners, monitor
<1>3. Typed
  BY WatchedNow
<1>4. /\ image' \in [Images -> StoredImages]
      /\ \A j \in Images : j # k => image'[j] = image[j] /\ releasing'[j] = releasing[j]
      /\ image'[k] = [image[k] EXCEPT !.st = "kept"]
  <2>1. image \in [Images -> StoredImages]
    BY <1>3 DEF Typed
  <2>2. image'[k] = [image[k] EXCEPT !.st = "kept"] /\ \A j \in Images : j # k => image'[j] = image[j]
    BY <1>1, <2>1
  <2>3. [image[k] EXCEPT !.st = "kept"] \in StoredImages
    BY <2>1 DEF StoredImages
  <2> QED
    BY <1>1, <1>2, <2>1, <2>2, <2>3
<1>5. /\ image[k] = Unused /\ releasing[k] = "idle" /\ transport.pc[<<k, "upload">>] = "idle"
      /\ transport.pc[<<k, "release">>] = "idle" /\ wire[k] # "held"
      /\ transport.pc[<<k, "clear">>] = "idle"
  BY <1>1, <1>2, StagedNow, HeldNow
<1>6. /\ image'[k].st = "kept" /\ image'[k].sent = {} /\ ~image'[k].releasing /\ ~image'[k].error
  BY <1>4, <1>5 DEF Unused
<1>7. events' \in 0 .. MaxEvents /\ loops' \subseteq Images /\ releasing' \in [Images -> ReleaseStates]
  BY <1>1, <1>2, <1>3, ImagesAssumption DEF Typed
<1>8. /\ Good(transport) /\ T!Awake(transport) /\ transport.wrote = NoCall
      /\ transport.pc \in [Calls -> T!CallStates]
  BY BetweenTurns
<1>9. transport.pc = [transport.pc EXCEPT ![<<k, "upload">>] = "idle"]
  BY <1>5, <1>8, CallsOf
<1>10. StagedAt(transport.pc, k)
  BY <1>2, <1>5, <1>6 DEF StagedAt
<1>11. HeldAt(transport.pc, k)
  BY <1>5 DEF HeldAt, Sent
<1>12. MarkedAt(transport.pc, k)
  BY <1>5, <1>6 DEF MarkedAt, Sent
<1>13. Ensure(k, image'[k], transport)
  BY <1>1
<1> QED
  BY <1>2, <1>4, <1>6, <1>7, <1>8, <1>9, <1>10, <1>11, <1>12, <1>13, EnsureStep

\* Only image k and its calls change, and no capture is made.
LEMMA OneImageStep ==
  ASSUME ImagesInv, NEW k \in Images, NEW p \in [Calls -> T!CallStates], Advances(p),
         \A c \in Calls : p[c] = "admitted" => transport.pc[c] = "admitted",
         \A c \in Calls : c[1] # k => p[c] = transport.pc[c],
         OneClear(p),
         image' \in [Images -> StoredImages],
         capture' \in [Images -> [targets : SUBSET Viewers, current : BOOLEAN]],
         UNCHANGED <<viewer, seen, watching, client, events, observed, parted, shutdown>>,
         purge' \subseteq Images, rest' \subseteq Images,
         releasing' \in [Images -> ReleaseStates], loops' \subseteq Images,
         \A j \in Images : j # k => /\ image'[j] = image[j] /\ releasing'[j] = releasing[j]
                                   /\ capture'[j] = capture[j],
         capture'[k].current => capture'[k] = capture[k],
         image'[k].st = "kept" => image[k].st = "kept" /\ image'[k].sent = image[k].sent,
         StagedAt(p, k), HeldAt(p, k), MarkedAt(p, k)
  PROVE  ImagesInv' /\ Drains
<1>1. Typed'
  BY WatchedNow DEF Typed
<1>2. Watched'
  <2>1. \A j \in Images : image'[j].st = "kept" /\ viewer.label = "paused" => image'[j].sent = {}
    BY WatchedNow
  <2>2. \A j \in Images : capture'[j].current => capture'[j].targets \subseteq viewer.receivers
    BY WatchedNow
  <2> QED
    BY <2>1, <2>2, WatchedTurn
<1>3. StagedTo(p) /\ HeldTo(p) /\ MarkedTo(p)
  BY OneImage
<1>4. UNCHANGED <<client, parted>>
  OBVIOUS
<1> QED
  BY <1>1, <1>2, <1>3, <1>4, StepTurn

\* One of its calls moves on.
LEMMA OneStep ==
  ASSUME ImagesInv, NEW k \in Images, NEW call \in {"upload", "release", "clear"},
         NEW s \in T!CallStates \ {"admitted"},
         Advances([transport.pc EXCEPT ![<<k, call>>] = s]),
         call = "clear" /\ s # "idle" =>
            \A j \in Images \ {k} : transport.pc[<<j, "clear">>] = "idle",
         image' \in [Images -> StoredImages],
         capture' \in [Images -> [targets : SUBSET Viewers, current : BOOLEAN]],
         UNCHANGED <<viewer, seen, watching, client, events, observed, parted, shutdown>>,
         purge' \subseteq Images, rest' \subseteq Images,
         releasing' \in [Images -> ReleaseStates], loops' \subseteq Images,
         \A j \in Images : j # k => /\ image'[j] = image[j] /\ releasing'[j] = releasing[j]
                                   /\ capture'[j] = capture[j],
         capture'[k].current => capture'[k] = capture[k],
         image'[k].st = "kept" => image[k].st = "kept" /\ image'[k].sent = image[k].sent,
         LET p == [transport.pc EXCEPT ![<<k, call>>] = s] IN
            StagedAt(p, k) /\ HeldAt(p, k) /\ MarkedAt(p, k)
  PROVE  ImagesInv' /\ Drains
<1> DEFINE c == <<k, call>>
           p == [transport.pc EXCEPT ![c] = s]
<1>1. c \in Calls /\ c[1] = k /\ <<k, "clear">> \in Calls
  BY CallsOf
<1>2. /\ p \in [Calls -> T!CallStates] /\ p[c] = s
      /\ \A d \in Calls : d # c => p[d] = transport.pc[d]
  BY <1>1, PcMoved
<1>3. Advances(p) /\ StagedAt(p, k) /\ HeldAt(p, k) /\ MarkedAt(p, k)
  OBVIOUS
<1> HIDE DEF p
<1>4. \A d \in Calls : d[1] # k => p[d] = transport.pc[d]
  BY <1>1, <1>2
<1>5. OneClear(p)
  <2>1. \A j \in Images : j # k => <<j, "clear">> # c /\ <<j, "clear">> \in Calls
    BY CallsOf
  <2>2. \A j \in Images : j # k => p[<<j, "clear">>] = transport.pc[<<j, "clear">>]
    BY <1>2, <2>1
  <2>3. CASE call = "clear" /\ s # "idle"
    BY <2>2, <2>3 DEF OneClear
  <2>4. CASE ~(call = "clear" /\ s # "idle")
    <3>1. p[<<k, "clear">>] # "idle" => transport.pc[<<k, "clear">>] # "idle"
      BY <1>1, <1>2, <2>4
    <3> QED
      BY <2>2, <3>1, OneClearNow DEF OneClear
  <2> QED
    BY <2>3, <2>4
<1>6. \A d \in Calls : p[d] = "admitted" => transport.pc[d] = "admitted"
  BY <1>2
<1> QED
  BY <1>2, <1>3, <1>4, <1>5, <1>6, OneImageStep

\* enqueue() has resolved, and the caller of any of the three calls goes on.
LEMMA AdmittedStep ==
  ASSUME ImagesInv, NEW k \in Images, NEW call \in {"upload", "release", "clear"},
         transport.pc[<<k, call>>] \in {"admitted", "late"},
         Turn(T!Ready(transport, <<k, call>>)),
         UNCHANGED <<capture, viewer, loops, owners, monitor, world>>,
         image' = IF call = "upload" THEN [image EXCEPT ![k].terminalResource = TRUE] ELSE image
  PROVE  ImagesInv' /\ Drains
<1> DEFINE c == <<k, call>>
<1>1. c \in Calls /\ <<k, "upload">> \in Calls /\ <<k, "release">> \in Calls /\ <<k, "clear">> \in Calls
  BY CallsOf
<1>2. PICK s \in {"failed", "cancelled", "drained", "waiting"} :
            /\ Advances([transport.pc EXCEPT ![c] = s])
            /\ s \in {"drained", "waiting"} => transport.pc[c] = "admitted"
  BY <1>1, ReadyTurn
<1>3. s \in T!CallStates \ {"admitted"}
  BY DEF T!CallStates
<1> DEFINE p == [transport.pc EXCEPT ![c] = s]
<1>4. /\ p[c] = s /\ \A d \in Calls : d # c => p[d] = transport.pc[d]
  BY <1>1, <1>3, PcMoved
<1>5. Advances(p)
  BY <1>2
<1> HIDE DEF p
<1>6. UNCHANGED <<viewer, seen, watching, client, observed, parted, shutdown, purge, rest,
                  releasing, loops, events, capture>>
  BY DEF owners, monitor, world
<1>7. Typed
  BY WatchedNow
<1>8. /\ image' \in [Images -> StoredImages]
      /\ \A j \in Images : j # k => image'[j] = image[j]
      /\ call = "upload" => image'[k] = [image[k] EXCEPT !.terminalResource = TRUE]
      /\ call # "upload" => image'[k] = image[k]
  <2>1. CASE call = "upload"
    <3> DEFINE img == [image[k] EXCEPT !.terminalResource = TRUE]
    <3>1. image \in [Images -> StoredImages]
      BY <1>7 DEF Typed
    <3>2. image' = [image EXCEPT ![k] = img]
      BY <2>1
    <3>3. img \in StoredImages
      BY <3>1 DEF StoredImages
    <3>4. image'[k] = img
      BY <3>1, <3>2
    <3> HIDE DEF img
    <3>5. /\ image' \in [Images -> StoredImages]
          /\ \A j \in Images : j # k => image'[j] = image[j]
      BY <3>1, <3>2, <3>3
    <3> QED
      BY <2>1, <3>4, <3>5 DEF img
  <2>2. CASE call # "upload"
    BY <1>7, <2>2 DEF Typed
  <2> QED
    BY <2>1, <2>2
<1>9. image[k] \in StoredImages
  BY <1>7 DEF Typed
<1>10. /\ image'[k].st = image[k].st /\ image'[k].sent = image[k].sent
       /\ image'[k].recent = image[k].recent /\ image'[k].error = image[k].error
       /\ image'[k].releasing = image[k].releasing
       /\ image[k].terminalResource => image'[k].terminalResource
       /\ call = "upload" => image'[k].terminalResource
       /\ call # "upload" => image'[k] = image[k]
  BY <1>8, <1>9 DEF StoredImages
<1>11. \A d \in Calls : /\ p[d] = "idle" <=> transport.pc[d] = "idle"
                        /\ p[d] \in Sent => transport.pc[d] \in Sent
  BY <1>2, <1>4 DEF Sent
<1>12. call # "upload" => p[<<k, "upload">>] = transport.pc[<<k, "upload">>]
  BY <1>1, <1>4
<1>13. call = "upload" => image[k].st = "kept"
  BY StagedNow
<1>14. StagedAt(p, k)
  BY <1>1, <1>6, <1>10, <1>11, <1>13, StagedNow DEF StagedAt
<1>15. HeldAt(p, k)
  BY <1>1, <1>10, <1>11, <1>12, HeldNow DEF HeldAt
<1>16. MarkedAt(p, k)
  BY <1>1, <1>6, <1>10, <1>11, MarkedNow DEF MarkedAt
<1>17. /\ UNCHANGED <<viewer, seen, watching, client, events, observed, parted, shutdown>>
       /\ capture' \in [Images -> [targets : SUBSET Viewers, current : BOOLEAN]]
       /\ purge' \subseteq Images /\ rest' \subseteq Images
       /\ releasing' \in [Images -> ReleaseStates] /\ loops' \subseteq Images
       /\ \A j \in Images : j # k => /\ image'[j] = image[j] /\ releasing'[j] = releasing[j]
                                    /\ capture'[j] = capture[j]
       /\ capture'[k].current => capture'[k] = capture[k]
  BY <1>6, <1>7, <1>8 DEF Typed
<1>18. call = "clear" => \A j \in Images \ {k} : transport.pc[<<j, "clear">>] = "idle"
  BY OneClearNow DEF OneClear
<1>19. image'[k].st = "kept" => image[k].st = "kept" /\ image'[k].sent = image[k].sent
  BY <1>10
<1> QED
  BY <1>3, <1>5, <1>8, <1>14, <1>15, <1>16, <1>17, <1>18, <1>19, OneStep DEF p

\* enqueue() of the upload has resolved.
LEMMA UploadAdmittedKeeps ==
  ASSUME ImagesInv, NEW k \in Images, UploadAdmitted(k)
  PROVE  ImagesInv' /\ Drains
BY AdmittedStep DEF UploadAdmitted, pc

\* enqueue() of the delete in release() has resolved.
LEMMA ReleaseAdmittedKeeps ==
  ASSUME ImagesInv, NEW k \in Images, ReleaseAdmitted(k)
  PROVE  ImagesInv' /\ Drains
BY AdmittedStep DEF ReleaseAdmitted, pc

\* enqueue() of the delete in clear() has resolved.
LEMMA ClearAdmittedKeeps ==
  ASSUME ImagesInv, NEW k \in Images, ClearAdmitted(k)
  PROVE  ImagesInv' /\ Drains
BY AdmittedStep DEF ClearAdmitted, pc

\* The end of an upload.
LEMMA UploadEndedKeeps ==
  ASSUME ImagesInv, NEW k \in Images, UploadEnded(k)
  PROVE  ImagesInv' /\ Drains
<1> DEFINE u == <<k, "upload">>
           img == image[k]
           mark == /\ transport.pc[u] = "drained"
                   /\ img.st = "kept" /\ ~img.releasing /\ capture[k].current
                   /\ capture[k].targets \subseteq viewer.receivers
           next == IF mark
                   THEN [img EXCEPT !.sent = @ \cup capture[k].targets,
                                    !.recent = @ \cup capture[k].targets]
                   ELSE img
           t == T!Goto(transport, u, "idle")
<1>1. /\ transport.pc[u] \in {"drained", "cancelled"}
      /\ image' = [image EXCEPT ![k] = next]
      /\ releasing' = IF releasing[k] = "uploading" THEN [releasing EXCEPT ![k] = "go"] ELSE releasing
      /\ Ensure(k, next, t)
      /\ UNCHANGED <<viewer, loops, purge, shutdown, rest, seen, watching, client, events, observed, parted>>
  BY DEF UploadEnded, pc, Resumed, monitor, world
<1>2. u \in Calls /\ transport.pc[u] \in Settled /\ u = <<k, "upload">>
  BY <1>1, CallsOf DEF Settled
<1>3. /\ Good(t) /\ T!Awake(t) /\ t.wrote = NoCall
      /\ t.pc = [transport.pc EXCEPT ![u] = "idle"]
  <2> HIDE DEF u
  <2> QED
    BY <1>2, EndTurn
<1>4. Typed
  BY WatchedNow
<1>5. image[k].st = "kept" /\ image[k] \in StoredImages /\ capture[k].targets \subseteq Viewers
  BY <1>1, <1>4, StagedNow DEF Typed
<1>6. /\ next \in StoredImages
      /\ next.st = "kept" /\ next.releasing = img.releasing /\ next.error = img.error
      /\ next.terminalResource = img.terminalResource
      /\ next.sent = IF mark THEN img.sent \cup capture[k].targets ELSE img.sent
      /\ next.recent = IF mark THEN img.recent \cup capture[k].targets ELSE img.recent
  BY <1>5 DEF StoredImages
<1>7. mark => /\ transport.pc[u] = "drained" /\ capture[k].current
              /\ capture[k].targets \subseteq viewer.receivers
  OBVIOUS
<1> HIDE DEF next, mark, t
<1>8. /\ image' \in [Images -> StoredImages]
      /\ image'[k] = next /\ \A j \in Images : j # k => image'[j] = image[j]
  BY <1>1, <1>4, <1>6 DEF Typed
<1>9. /\ releasing' \in [Images -> ReleaseStates]
      /\ \A j \in Images : j # k => releasing'[j] = releasing[j]
      /\ releasing'[k] = IF releasing[k] = "uploading" THEN "go" ELSE releasing[k]
  BY <1>1, <1>4 DEF Typed, ReleaseStates
<1> DEFINE q == t.pc
<1>10. /\ q[<<k, "upload">>] = "idle"
       /\ q[<<k, "release">>] = transport.pc[<<k, "release">>]
       /\ q[<<k, "clear">>] = transport.pc[<<k, "clear">>]
  BY <1>2, <1>3, BetweenTurns, CallsOf
<1> HIDE DEF q
<1>11. StagedAt(q, k)
  BY <1>1, <1>6, <1>8, <1>9, <1>10, StagedNow DEF StagedAt
<1>12. HeldAt(q, k)
  BY <1>1, <1>6, <1>8, <1>10, HeldNow DEF HeldAt
<1>13. MarkedAt(q, k)
  <2> SUFFICES ASSUME shutdown = "no", NEW v \in Viewers \ parted, client[v] # "gone",
                      ~next.error, ~next.releasing, v \in next.sent
               PROVE  \/ k \in got[v]
                      \/ Away(v) /\ ~observed /\ v \in next.recent /\ viewer # Truth
    BY <1>1, <1>8, <1>10 DEF MarkedAt, Sent
  <2>1. /\ v \in img.sent =>
              \/ k \in got[v]
              \/ Away(v) /\ ~observed /\ v \in img.recent /\ viewer # Truth
        /\ mark /\ v \in capture[k].targets
              => k \in got[v] \/ (Away(v) /\ ~observed)
    BY <1>5, <1>6, <1>7, MarkedNow DEF Sent
  <2>2. ASSUME mark, v \in capture[k].targets, Away(v) PROVE viewer # Truth
    BY <1>7, <2>2 DEF Truth, Visible, Away
  <2> QED
    BY <1>6, <2>1, <2>2
<1>14. image'[k].st = "kept" /\ viewer.label = "paused" => image'[k].sent = {}
  <2>1. viewer.label = "paused" => image[k].sent = {}
    BY <1>5, WatchedNow
  <2>2. mark /\ viewer.label = "paused" => capture[k].targets = {}
    BY <1>7, WatchedNow DEF Watched
  <2> QED
    BY <1>6, <1>8, <2>1, <2>2
<1>15. /\ Ensure(k, image'[k], t) /\ events' \in 0 .. MaxEvents /\ loops' \subseteq Images
  BY <1>1, <1>4, <1>8 DEF Typed
<1>16. UNCHANGED <<viewer, seen, watching, client, observed, parted, shutdown, purge, rest>>
  BY <1>1
<1>17. \A j \in Images : j # k => image'[j] = image[j] /\ releasing'[j] = releasing[j]
  BY <1>8, <1>9
<1> QED
  BY <1>3, <1>8, <1>9, <1>11, <1>12, <1>13, <1>14, <1>15, <1>16, <1>17, EnsureStep DEF q

\* An upload that failed: the image is in error, and no mark of it counts.
LEMMA UploadFailedKeeps ==
  ASSUME ImagesInv, NEW k \in Images, UploadFailed(k)
  PROVE  ImagesInv' /\ Drains
<1> DEFINE p == [transport.pc EXCEPT ![<<k, "upload">>] = "idle"]
           img == [image[k] EXCEPT !.error = TRUE,
                                   !.releasing = @ /\ releasing[k] # "uploading"]
<1>1. /\ transport.pc[<<k, "upload">>] = "failed"
      /\ Turn({T!Goto(transport, <<k, "upload">>, "idle")})
      /\ image' = [image EXCEPT ![k].error = TRUE,
                    ![k].releasing = @ /\ releasing[k] # "uploading"]
      /\ releasing' = IF releasing[k] = "uploading" THEN [releasing EXCEPT ![k] = "broken"]
                      ELSE releasing
      /\ loops' = loops \ {k} /\ capture' = [capture EXCEPT ![k] = NoCapture]
      /\ UNCHANGED <<viewer, purge, shutdown, rest, seen, watching, client, events, observed, parted>>
  BY DEF UploadFailed, pc, Resumed, monitor, world
<1>2. <<k, "upload">> \in Calls /\ <<k, "release">> \in Calls /\ <<k, "clear">> \in Calls
  BY CallsOf
<1>3. Advances(p)
  BY <1>1, <1>2, EndTurn DEF Settled
<1>4. Typed
  BY WatchedNow
<1>5. /\ image[k].st = "kept" /\ releasing[k] \notin {"go", "deleting"}
      /\ shutdown # "deleting" /\ image[k] \in StoredImages
      /\ transport.pc[<<k, "release">>] = "idle" /\ transport.pc[<<k, "clear">>] = "idle"
  BY <1>1, <1>4, StagedNow DEF Typed
<1>6. image' = [image EXCEPT ![k] = img]
  BY <1>1, <1>4 DEF Typed
<1>7. /\ img \in StoredImages /\ img.st = "kept" /\ img.error /\ img.sent = image[k].sent
      /\ img.terminalResource = image[k].terminalResource
      /\ img.releasing = (image[k].releasing /\ releasing[k] # "uploading")
  BY <1>5 DEF StoredImages
<1> HIDE DEF img
<1>8. /\ image' \in [Images -> StoredImages]
      /\ image'[k] = img /\ \A j \in Images : j # k => image'[j] = image[j]
  BY <1>4, <1>6, <1>7 DEF Typed
<1>9. /\ releasing' \in [Images -> ReleaseStates]
      /\ \A j \in Images : j # k => releasing'[j] = releasing[j]
      /\ releasing'[k] = IF releasing[k] = "uploading" THEN "broken" ELSE releasing[k]
  BY <1>1, <1>4 DEF Typed, ReleaseStates
<1>10. /\ capture' \in [Images -> [targets : SUBSET Viewers, current : BOOLEAN]]
       /\ \A j \in Images : j # k => capture'[j] = capture[j]
       /\ ~capture'[k].current
  BY <1>1, <1>4 DEF Typed, NoCapture
<1>11. /\ p[<<k, "upload">>] = "idle" /\ p[<<k, "release">>] = "idle" /\ p[<<k, "clear">>] = "idle"
  BY <1>2, <1>5, BetweenTurns
<1> HIDE DEF p
<1>12. StagedAt(p, k)
  BY <1>1, <1>5, <1>7, <1>8, <1>9, <1>11 DEF StagedAt
<1>13. HeldAt(p, k)
  BY <1>1, <1>7, <1>8, <1>11, HeldNow DEF HeldAt, Sent
<1>14. MarkedAt(p, k)
  BY <1>7, <1>8 DEF MarkedAt
<1>15. "idle" \in T!CallStates \ {"admitted"}
  BY DEF T!CallStates
<1>16. /\ UNCHANGED <<viewer, seen, watching, client, events, observed, parted, shutdown>>
       /\ purge' \subseteq Images /\ rest' \subseteq Images /\ loops' \subseteq Images
       /\ \A j \in Images : j # k => /\ image'[j] = image[j] /\ releasing'[j] = releasing[j]
                                    /\ capture'[j] = capture[j]
       /\ capture'[k].current => capture'[k] = capture[k]
       /\ image'[k].st = "kept" => image[k].st = "kept" /\ image'[k].sent = image[k].sent
  BY <1>1, <1>4, <1>5, <1>7, <1>8, <1>9, <1>10 DEF Typed
<1> QED
  BY <1>3, <1>8, <1>9, <1>10, <1>12, <1>13, <1>14, <1>15, <1>16, OneStep DEF p

\* The end of a release.
LEMMA ReleaseEndedKeeps ==
  ASSUME ImagesInv, NEW k \in Images, ReleaseEnded(k)
  PROVE  ImagesInv' /\ Drains
<1> DEFINE p == [transport.pc EXCEPT ![<<k, "release">>] = "idle"]
           img == IF transport.pc[<<k, "release">>] = "drained" THEN [Unused EXCEPT !.st = "forgotten"]
                  ELSE [image[k] EXCEPT !.releasing = FALSE, !.error = TRUE]
           to == IF transport.pc[<<k, "release">>] = "drained" THEN "done" ELSE "broken"
<1>1. /\ transport.pc[<<k, "release">>] \in {"drained", "cancelled", "failed"}
      /\ Turn({T!Goto(transport, <<k, "release">>, "idle")})
      /\ UNCHANGED <<capture, viewer, loops, purge, shutdown, rest, seen, watching, client, events, observed, parted>>
  BY DEF ReleaseEnded, pc, monitor, world
<1>2. Typed
  BY WatchedNow
<1>3. image' = [image EXCEPT ![k] = img] /\ releasing' = [releasing EXCEPT ![k] = to]
  <2>1. CASE transport.pc[<<k, "release">>] = "drained"
    BY <2>1 DEF ReleaseEnded, pc, ForgetImage
  <2>2. CASE transport.pc[<<k, "release">>] # "drained"
    <3>1. /\ image' = [image EXCEPT ![k].releasing = FALSE, ![k].error = TRUE]
          /\ releasing' = [releasing EXCEPT ![k] = "broken"]
      BY <2>2 DEF ReleaseEnded, pc
    <3> QED
      BY <1>2, <2>2, <3>1 DEF Typed
  <2> QED
    BY <2>1, <2>2
<1>4. <<k, "upload">> \in Calls /\ <<k, "release">> \in Calls /\ <<k, "clear">> \in Calls
  BY CallsOf
<1>5. Advances(p)
  BY <1>1, <1>4, EndTurn DEF Settled
<1>6. /\ releasing[k] = "deleting" /\ transport.pc[<<k, "upload">>] = "idle"
      /\ image[k] \in StoredImages
  BY <1>1, <1>2, StagedNow DEF Typed
<1>7. /\ img \in StoredImages
      /\ \/ img.st = "forgotten" /\ transport.pc[<<k, "release">>] = "drained"
         \/ /\ img.st = image[k].st /\ img.error /\ ~img.releasing /\ img.sent = image[k].sent
            /\ img.terminalResource = image[k].terminalResource
      /\ to \in {"done", "broken"}
  BY <1>6 DEF StoredImages, Unused
<1>8. image[k].st = "unused" => FALSE
  BY <1>6, StagedNow
<1> HIDE DEF img, to
<1>9. /\ image' \in [Images -> StoredImages] /\ releasing' \in [Images -> ReleaseStates]
      /\ image'[k] = img /\ releasing'[k] = to
      /\ \A j \in Images : j # k => image'[j] = image[j] /\ releasing'[j] = releasing[j]
  BY <1>2, <1>3, <1>7 DEF Typed, ReleaseStates
<1>10. /\ p[<<k, "upload">>] = "idle" /\ p[<<k, "release">>] = "idle"
       /\ p[<<k, "clear">>] = transport.pc[<<k, "clear">>]
  BY <1>4, <1>6, BetweenTurns
<1> HIDE DEF p
<1>11. StagedAt(p, k)
  BY <1>1, <1>7, <1>8, <1>9, <1>10, StagedNow DEF StagedAt
<1>12. HeldAt(p, k)
  <2>1. wire[k] = "held" => img.st = "kept" /\ img.terminalResource
    BY <1>6, <1>7, HeldNow DEF Sent
  <2> QED
    BY <1>9, <1>10, <2>1, HeldNow DEF HeldAt, Sent
<1>13. MarkedAt(p, k)
  BY <1>7, <1>9 DEF MarkedAt
<1>14. "idle" \in T!CallStates \ {"admitted"}
  BY DEF T!CallStates
<1>15. /\ UNCHANGED <<viewer, seen, watching, client, events, observed, parted, shutdown>>
       /\ capture' \in [Images -> [targets : SUBSET Viewers, current : BOOLEAN]]
       /\ purge' \subseteq Images /\ rest' \subseteq Images /\ loops' \subseteq Images
       /\ \A j \in Images : j # k => /\ image'[j] = image[j] /\ releasing'[j] = releasing[j]
                                    /\ capture'[j] = capture[j]
       /\ capture'[k].current => capture'[k] = capture[k]
       /\ image'[k].st = "kept" => image[k].st = "kept" /\ image'[k].sent = image[k].sent
  BY <1>1, <1>2, <1>7, <1>9 DEF Typed
<1> QED
  BY <1>5, <1>9, <1>11, <1>12, <1>13, <1>14, <1>15, OneStep DEF p

\* The images and the viewers are left alone.
LEMMA StillStep ==
  ASSUME ImagesInv, Advances(transport.pc), Typed',
         UNCHANGED <<image, capture, viewer, releasing, shutdown, monitor, client, observed, parted>>
  PROVE  ImagesInv' /\ Drains
<1>1. UNCHANGED <<image, capture, viewer, releasing, shutdown, seen, watching, client, observed, parted>>
  BY DEF monitor
<1>2. transport.pc \in [Calls -> T!CallStates]
  BY BetweenTurns
<1>3. Watched'
  <2>1. \A j \in Images : image'[j].st = "kept" /\ viewer.label = "paused" => image'[j].sent = {}
    BY <1>1, WatchedNow
  <2>2. \A j \in Images : capture'[j].current => capture'[j].targets \subseteq viewer.receivers
    BY <1>1, WatchedNow
  <2> QED
    BY <1>1, <2>1, <2>2, WatchedTurn
<1>4. StagedTo(transport.pc)
  <2>1. ASSUME NEW j \in Images PROVE StagedAt(transport.pc, j)
    <3>1. image'[j] = image[j] /\ releasing'[j] = releasing[j] /\ shutdown' = shutdown
      BY <1>1
    <3> QED
      BY <3>1, StagedNow DEF StagedAt
  <2> QED
    BY <2>1, OneClearNow DEF StagedTo
<1>5. HeldTo(transport.pc)
  BY <1>1, HeldNow DEF HeldTo, HeldAt
<1>6. MarkedTo(transport.pc)
  BY <1>1, MarkedNow DEF MarkedTo, MarkedAt
<1> QED
  BY <1>1, <1>2, <1>3, <1>4, <1>5, <1>6, StepTurn

\* clear(true) is over: the transport is disposed of, and so are its calls.
LEMMA OverStep ==
  ASSUME ImagesInv, NEW p \in [Calls -> T!CallStates], Advances(p), Typed', shutdown' = "over",
         \A c \in Calls : IF c[2] = "clear" THEN p[c] = "idle" ELSE p[c] = transport.pc[c],
         UNCHANGED <<image, capture, viewer, releasing, client, observed, parted>>,
         seen' \in {seen, NoSnapshot}
  PROVE  ImagesInv' /\ Drains
<1>1. UNCHANGED <<image, capture, viewer, releasing, client, observed, parted>>
  OBVIOUS
<1>2. \A j \in Images : /\ p[<<j, "clear">>] = "idle"
                        /\ p[<<j, "upload">>] = transport.pc[<<j, "upload">>]
                        /\ p[<<j, "release">>] = transport.pc[<<j, "release">>]
  BY CallsOf
<1>3. Watched'
  <2>1. \A j \in Images : image'[j].st = "kept" /\ viewer.label = "paused" => image'[j].sent = {}
    BY <1>1, WatchedNow
  <2>2. \A j \in Images : capture'[j].current => capture'[j].targets \subseteq viewer.receivers
    BY <1>1, WatchedNow
  <2> QED
    BY <1>1, <2>1, <2>2, WatchedTurn
<1>4. StagedTo(p)
  <2>1. ASSUME NEW j \in Images PROVE StagedAt(p, j)
    BY <1>1, <1>2, StagedNow DEF StagedAt
  <2> QED
    BY <1>2, <2>1 DEF StagedTo, OneClear
<1>5. HeldTo(p)
  <2> SUFFICES ASSUME NEW j \in Images PROVE HeldAt(p, j)
    BY DEF HeldTo
  <2> QED
    BY <1>1, <1>2, HeldNow DEF HeldAt, Sent
<1>6. MarkedTo(p)
  BY DEF MarkedTo, MarkedAt
<1>7. \A c \in Calls : p[c] = "admitted" => transport.pc[c] = "admitted"
  OBVIOUS
<1> QED
  BY <1>1, <1>3, <1>4, <1>5, <1>6, <1>7, StepTurn

\* Image k is forgotten: nothing of it is left in any terminal.
LEMMA ForgetEffect ==
  ASSUME ImagesInv, NEW k \in Images, image' = ForgetImage(k)
  PROVE  /\ image' \in [Images -> StoredImages]
         /\ image'[k] = [Unused EXCEPT !.st = "forgotten"] /\ image'[k].st = "forgotten"
         /\ \A j \in Images : j # k => image'[j] = image[j]
<1>1. image \in [Images -> StoredImages]
  BY WatchedNow DEF Typed
<1> DEFINE img == [Unused EXCEPT !.st = "forgotten"]
<1>2. img \in StoredImages /\ img.st = "forgotten"
  BY DEF Unused, StoredImages
<1>3. image' = [image EXCEPT ![k] = img]
  BY DEF ForgetImage
<1> HIDE DEF img
<1>4. /\ image' \in [Images -> StoredImages] /\ image'[k] = img
      /\ \A j \in Images : j # k => image'[j] = image[j]
  BY <1>1, <1>2, <1>3
<1> QED
  BY <1>2, <1>4 DEF img

\* It is forgotten without a word to the terminals.
LEMMA ForgetStep ==
  ASSUME ImagesInv, NEW k \in Images, image' = ForgetImage(k), Quiet,
         transport.pc[<<k, "upload">>] = "idle", ~image[k].terminalResource,
         transport.pc[<<k, "release">>] # "idle" => releasing'[k] = "deleting",
         UNCHANGED <<capture, viewer, loops, purge, shutdown, monitor, world>>,
         rest' \subseteq Images, releasing' \in [Images -> ReleaseStates],
         \A j \in Images : j # k => releasing'[j] = releasing[j]
  PROVE  ImagesInv' /\ Drains
<1>1. /\ image' \in [Images -> StoredImages] /\ image'[k].st = "forgotten"
      /\ \A j \in Images : j # k => image'[j] = image[j]
  BY ForgetEffect
<1>2. UNCHANGED <<capture, viewer, loops, purge, shutdown, seen, watching, client, events, observed, parted>>
  BY DEF monitor, world
<1> DEFINE p == transport.pc
<1>3. p \in [Calls -> T!CallStates] /\ Advances(p)
  BY BetweenTurns, QuietTurn DEF Quiet
<1>4. wire[k] # "held"
  BY HeldNow
<1>5. /\ p[<<k, "upload">>] = "idle"
      /\ p[<<k, "release">>] # "idle" => releasing'[k] = "deleting"
      /\ p[<<k, "clear">>] = transport.pc[<<k, "clear">>]
  OBVIOUS
<1>6. OneClear(p) /\ \A c \in Calls : p[c] = transport.pc[c]
  BY OneClearNow
<1> HIDE DEF p
<1>7. StagedAt(p, k)
  BY <1>1, <1>2, <1>5, StagedNow DEF StagedAt
<1>8. HeldAt(p, k)
  BY <1>4 DEF HeldAt
<1>9. MarkedAt(p, k)
  BY <1>1 DEF MarkedAt
<1>10. /\ capture' \in [Images -> [targets : SUBSET Viewers, current : BOOLEAN]]
       /\ purge' \subseteq Images /\ loops' \subseteq Images
       /\ \A j \in Images : j # k => /\ image'[j] = image[j] /\ releasing'[j] = releasing[j]
                                    /\ capture'[j] = capture[j]
       /\ capture'[k].current => capture'[k] = capture[k]
       /\ image'[k].st = "kept" => image[k].st = "kept" /\ image'[k].sent = image[k].sent
       /\ UNCHANGED <<viewer, seen, watching, client, events, observed, parted, shutdown>>
  BY <1>1, <1>2, WatchedNow DEF Typed
<1> QED
  BY <1>1, <1>3, <1>6, <1>7, <1>8, <1>9, <1>10, OneImageStep

\* release() after its wait for the upload: a delete is queued, or the image
\* was never sent and is forgotten.
LEMMA ReleaseGoKeeps ==
  ASSUME ImagesInv, NEW k \in Images, ReleaseGo(k)
  PROVE  ImagesInv' /\ Drains
<1>1. /\ releasing[k] = "go"
      /\ UNCHANGED <<capture, viewer, loops, purge, shutdown, rest, seen, watching, client, events, observed, parted>>
  BY DEF ReleaseGo, monitor, world
<1>2. Typed /\ image[k] \in StoredImages
  BY WatchedNow DEF Typed
<1>3. /\ transport.pc[<<k, "upload">>] = "idle" /\ transport.pc[<<k, "release">>] = "idle"
      /\ image[k].st # "unused"
  BY <1>1, StagedNow
<1>4. CASE ~image[k].terminalResource
  <2>1. image' = ForgetImage(k) /\ Quiet /\ releasing' = [releasing EXCEPT ![k] = "done"]
    BY <1>4 DEF ReleaseGo
  <2>2. /\ releasing' \in [Images -> ReleaseStates] /\ rest' \subseteq Images
        /\ \A j \in Images : j # k => releasing'[j] = releasing[j]
    BY <1>1, <1>2, <2>1 DEF Typed, ReleaseStates
  <2>3. UNCHANGED <<capture, viewer, loops, purge, shutdown, monitor, world>>
    BY DEF ReleaseGo
  <2> QED
    BY <1>3, <1>4, <2>1, <2>2, <2>3, ForgetStep
<1>5. CASE image[k].terminalResource
  <2> DEFINE c == <<k, "release">>
  <2>1. /\ Turn(T!Enqueue(transport, c)) /\ UNCHANGED image
        /\ releasing' = [releasing EXCEPT ![k] = "deleting"]
    BY <1>5 DEF ReleaseGo
  <2>2. c \in Calls /\ <<k, "upload">> \in Calls /\ <<k, "clear">> \in Calls
    BY CallsOf
  <2>3. Good(transport) /\ T!Awake(transport) /\ transport.wrote = NoCall
    BY BetweenTurns
  <2>4. PICK s \in {"queued", "failed"} : Advances([transport.pc EXCEPT ![c] = s])
    <3>1. transport.pc[c] = "idle"
      BY <1>3
    <3> HIDE DEF c
    <3> QED BY <2>1, <2>2, <2>3, <3>1, EnqueueTurn
  <2>5. /\ releasing' \in [Images -> ReleaseStates] /\ releasing'[k] = "deleting"
        /\ \A j \in Images : j # k => releasing'[j] = releasing[j]
    BY <1>2, <2>1 DEF Typed, ReleaseStates
  <2>6. s \in T!CallStates \ {"admitted"}
    BY DEF T!CallStates
  <2> DEFINE p == [transport.pc EXCEPT ![<<k, "release">>] = s]
  <2>7. /\ p[<<k, "release">>] = s /\ p[<<k, "upload">>] = "idle"
        /\ p[<<k, "clear">>] = transport.pc[<<k, "clear">>]
    BY <1>3, <2>2, BetweenTurns
  <2>8. Advances(p)
    BY <2>4
  <2> HIDE DEF p
  <2>9. StagedAt(p, k)
    BY <1>1, <1>3, <2>1, <2>5, <2>7, StagedNow DEF StagedAt
  <2>10. HeldAt(p, k)
    BY <1>3, <2>1, <2>7, HeldNow DEF HeldAt, Sent
  <2>11. MarkedAt(p, k)
    BY <1>1, <2>1, <2>7, MarkedNow DEF MarkedAt, Sent
  <2>12. /\ image' \in [Images -> StoredImages]
         /\ capture' \in [Images -> [targets : SUBSET Viewers, current : BOOLEAN]]
         /\ purge' \subseteq Images /\ rest' \subseteq Images /\ loops' \subseteq Images
         /\ \A j \in Images : j # k => /\ image'[j] = image[j] /\ releasing'[j] = releasing[j]
                                      /\ capture'[j] = capture[j]
         /\ capture'[k].current => capture'[k] = capture[k]
         /\ image'[k].st = "kept" => image[k].st = "kept" /\ image'[k].sent = image[k].sent
         /\ UNCHANGED <<viewer, seen, watching, client, events, observed, parted, shutdown>>
    BY <1>1, <1>2, <2>1, <2>5 DEF Typed
  <2> QED
    BY <2>5, <2>6, <2>8, <2>9, <2>10, <2>11, <2>12, OneStep DEF p
<1> QED
  BY <1>4, <1>5

\* release() as far as its first await.
LEMMA StartReleaseStep ==
  ASSUME ImagesInv, NEW k \in Images, image[k].st = "kept", releasing[k] = "idle", StartRelease(k),
         UNCHANGED <<capture, viewer, loops, purge, shutdown, rest, monitor, world>>
  PROVE  ImagesInv' /\ Drains
<1> DEFINE img == [image[k] EXCEPT !.releasing = TRUE]
           to == IF transport.pc[<<k, "upload">>] # "idle" THEN "uploading" ELSE "go"
<1>1. /\ image' = [image EXCEPT ![k] = img] /\ releasing' = [releasing EXCEPT ![k] = to]
      /\ Turn(T!CancelCall(transport, <<k, "upload">>))
      /\ UNCHANGED <<capture, viewer, loops, purge, shutdown, rest, seen, watching, client, events, observed, parted>>
  BY DEF StartRelease, Uploading, pc, monitor, world
<1>2. Typed /\ image[k] \in StoredImages
  BY WatchedNow DEF Typed
<1>3. /\ img \in StoredImages /\ img.st = "kept" /\ img.releasing /\ img.sent = image[k].sent
      /\ img.terminalResource = image[k].terminalResource
  BY <1>2 DEF StoredImages
<1>4. /\ to \in {"uploading", "go"}
      /\ to = "go" => transport.pc[<<k, "upload">>] = "idle"
  OBVIOUS
<1> HIDE DEF img, to
<1>5. /\ image' \in [Images -> StoredImages] /\ releasing' \in [Images -> ReleaseStates]
      /\ image'[k] = img /\ releasing'[k] = to
      /\ \A j \in Images : j # k => image'[j] = image[j] /\ releasing'[j] = releasing[j]
  BY <1>1, <1>2, <1>3, <1>4 DEF Typed, ReleaseStates
<1> DEFINE p == transport.pc
<1>6. p \in [Calls -> T!CallStates]
  BY BetweenTurns
<1>7. Advances(p)
  <2>1. \A u \in T!CancelCall(transport, <<k, "upload">>) :
            Good(u) /\ T!Awake(u) /\ Follows(transport, u)
    BY BetweenTurns, CallsOf, CancelEffect
  <2> QED
    BY <1>1, <2>1, BetweenTurns, TurnFrom
<1>8. OneClear(p) /\ \A c \in Calls : p[c] = transport.pc[c]
  BY OneClearNow
<1>9. /\ p[<<k, "release">>] = "idle"
      /\ p[<<k, "clear">>] # "idle" => shutdown = "deleting"
      /\ shutdown = "deleting" => p[<<k, "upload">>] = "idle"
  BY StagedNow
<1>10. StagedAt(p, k)
  BY <1>1, <1>3, <1>4, <1>5, <1>9 DEF StagedAt
<1>11. HeldAt(p, k)
  BY <1>3, <1>5, HeldNow DEF HeldAt
<1>12. MarkedAt(p, k)
  BY <1>3, <1>5 DEF MarkedAt
<1>13. /\ capture' \in [Images -> [targets : SUBSET Viewers, current : BOOLEAN]]
       /\ purge' \subseteq Images /\ rest' \subseteq Images /\ loops' \subseteq Images
       /\ \A j \in Images : j # k => /\ image'[j] = image[j] /\ releasing'[j] = releasing[j]
                                    /\ capture'[j] = capture[j]
       /\ capture'[k].current => capture'[k] = capture[k]
       /\ image'[k].st = "kept" => image[k].st = "kept" /\ image'[k].sent = image[k].sent
       /\ UNCHANGED <<viewer, seen, watching, client, events, observed, parted, shutdown>>
  BY <1>1, <1>2, <1>3, <1>5 DEF Typed
<1> HIDE DEF p
<1> QED
  BY <1>5, <1>6, <1>7, <1>8, <1>10, <1>11, <1>12, <1>13, OneImageStep

\* release() called by the host.
LEMMA ReleaseKeeps ==
  ASSUME ImagesInv, Release
  PROVE  ImagesInv' /\ Drains
<1>1. PICK k \in Kept : releasing[k] = "idle" /\ StartRelease(k)
  BY DEF Release
<1> QED
  BY <1>1, StartReleaseStep DEF Release, Kept

\* The next image of resetOwner().
LEMMA PurgeStepKeeps ==
  ASSUME ImagesInv, PurgeStep
  PROVE  ImagesInv' /\ Drains
<1> DEFINE k == Min(purge)
<1>1. purge \subseteq Images /\ purge # {} /\ Typed
  BY WatchedNow DEF Typed, PurgeStep
<1>2. k \in Images
  <2>1. purge \in SUBSET Nat
    BY <1>1 DEF Images
  <2> QED
    BY <1>1, <2>1, Least
<1>3. CASE releasing[k] = "idle" /\ k \in Kept /\ StartRelease(k) /\ UNCHANGED purge
  <2>1. image[k].st = "kept"
    BY <1>3 DEF Kept
  <2>2. UNCHANGED <<capture, viewer, loops, purge, shutdown, rest, monitor, world>>
    BY <1>3 DEF PurgeStep
  <2> HIDE DEF k
  <2> QED
    BY <1>2, <1>3, <2>1, <2>2, StartReleaseStep
<1>4. CASE purge' = purge \ {k} /\ Quiet /\ UNCHANGED <<image, releasing>>
  <2> HIDE DEF k
  <2>1. UNCHANGED <<image, capture, viewer, releasing, shutdown, monitor, client, observed, parted>>
    BY <1>4 DEF PurgeStep, world
  <2>2. Advances(transport.pc)
    BY <1>4, QuietTurn DEF Quiet
  <2>3. Typed'
    BY <1>1, <1>4 DEF Typed, PurgeStep, monitor, world
  <2> QED
    BY <2>1, <2>2, <2>3, StillStep
<1> QED
  BY <1>3, <1>4 DEF PurgeStep

\* clear(true) has seen the last upload end.
LEMMA ClearStartsKeeps ==
  ASSUME ImagesInv, ClearStarts
  PROVE  ImagesInv' /\ Drains
<1> DEFINE p == transport.pc
<1>1. /\ shutdown = "uploads" /\ shutdown' = "deleting" /\ rest' = Kept
      /\ \A k \in Images : image[k].st = "kept" => transport.pc[<<k, "upload">>] = "idle"
      /\ UNCHANGED <<image, capture, viewer, loops, releasing, purge, seen, watching,
                     client, events, observed, parted>>
  BY DEF ClearStarts, Kept, Uploading, pc, monitor, world
<1>2. Advances(p) /\ p \in [Calls -> T!CallStates]
  BY QuietTurn, BetweenTurns DEF ClearStarts, Quiet
<1>3. Typed'
  BY <1>1, WatchedNow DEF Typed, Kept
<1>4. Watched'
  <2>1. \A j \in Images : image'[j].st = "kept" /\ viewer.label = "paused" => image'[j].sent = {}
    BY <1>1, WatchedNow
  <2>2. \A j \in Images : capture'[j].current => capture'[j].targets \subseteq viewer.receivers
    BY <1>1, WatchedNow
  <2> QED
    BY <1>1, <2>1, <2>2, WatchedTurn
<1>5. StagedTo(p)
  <2>1. ASSUME NEW j \in Images PROVE StagedAt(p, j)
    BY <1>1, StagedNow DEF StagedAt
  <2> QED
    BY <2>1, OneClearNow DEF StagedTo
<1>6. HeldTo(p)
  BY <1>1, HeldNow DEF HeldTo, HeldAt
<1>7. MarkedTo(p)
  BY <1>1 DEF MarkedTo, MarkedAt
<1>8. \A c \in Calls : p[c] = "admitted" => transport.pc[c] = "admitted"
  OBVIOUS
<1> QED
  BY <1>1, <1>2, <1>3, <1>4, <1>5, <1>6, <1>7, <1>8, StepTurn

\* The transport is disposed of as it is.
LEMMA DisposeStep ==
  ASSUME ImagesInv, Turn({T!Dispose(transport)}), shutdown' = "over",
         \A k \in Images : transport.pc[<<k, "clear">>] = "idle", Typed',
         UNCHANGED <<image, capture, viewer, releasing, client, observed, parted>>,
         seen' \in {seen, NoSnapshot}
  PROVE  ImagesInv' /\ Drains
<1>1. Advances(transport.pc) /\ transport.pc \in [Calls -> T!CallStates]
  BY BetweenTurns, TurnFrom, DisposeEffect
<1>2. \A c \in Calls : c[2] = "clear" => transport.pc[c] = "idle"
  BY CallsOf
<1> QED
  BY <1>1, <1>2, OverStep

\* clear(true) goes on to the next image, or is over.
LEMMA ClearNextKeeps ==
  ASSUME ImagesInv, ClearNext
  PROVE  ImagesInv' /\ Drains
<1>1. /\ shutdown = "deleting" /\ \A k \in Images : transport.pc[<<k, "clear">>] = "idle"
      /\ UNCHANGED <<capture, viewer, loops, releasing, purge, monitor, world>>
  BY DEF ClearNext, pc
<1>2. UNCHANGED <<capture, viewer, loops, releasing, purge, seen, watching, client, events, observed, parted>>
  BY <1>1 DEF monitor, world
<1>3. Typed
  BY WatchedNow
<1>4. CASE rest = {}
  <2>1. shutdown' = "over" /\ Turn({T!Dispose(transport)}) /\ UNCHANGED <<rest, image>>
    BY <1>4 DEF ClearNext
  <2>2. Typed'
    BY <1>2, <1>3, <2>1 DEF Typed
  <2> QED
    BY <1>1, <1>2, <2>1, <2>2, DisposeStep
<1>5. CASE rest # {}
  <2> DEFINE k == Min(rest)
  <2>1. rest \in SUBSET Nat /\ rest \subseteq Images
    BY <1>3 DEF Typed, Images
  <2>2. k \in Images
    BY <1>5, <2>1, Least
  <2>3. /\ rest' = rest \ {k} /\ UNCHANGED shutdown
        /\ IF image[k].terminalResource
           THEN Turn(T!Enqueue(transport, <<k, "clear">>)) /\ UNCHANGED image
           ELSE Quiet /\ image' = ForgetImage(k)
    BY <1>5 DEF ClearNext
  <2> HIDE DEF k
  <2>4. rest' \subseteq Images /\ releasing' \in [Images -> ReleaseStates]
    BY <1>2, <1>3, <2>3 DEF Typed
  <2>5. transport.pc[<<k, "upload">>] = "idle"
    BY <1>1, <2>2, StagedNow
  <2>6. transport.pc[<<k, "release">>] # "idle" => releasing'[k] = "deleting"
    BY <1>2, <2>2, StagedNow
  <2>7. CASE ~image[k].terminalResource
    BY <1>1, <1>2, <2>2, <2>3, <2>4, <2>5, <2>6, <2>7, ForgetStep
  <2>8. CASE image[k].terminalResource
    <3> DEFINE c == <<k, "clear">>
    <3>1. Turn(T!Enqueue(transport, c)) /\ UNCHANGED image
      BY <2>3, <2>8
    <3>2. c \in Calls /\ <<k, "upload">> \in Calls /\ <<k, "release">> \in Calls
      BY <2>2, CallsOf
    <3>3. Good(transport) /\ T!Awake(transport) /\ transport.wrote = NoCall
      BY BetweenTurns
    <3>4. PICK s \in {"queued", "failed"} : Advances([transport.pc EXCEPT ![c] = s])
      <4>1. transport.pc[c] = "idle"
        BY <1>1, <2>2
      <4> HIDE DEF c
      <4> QED BY <3>1, <3>2, <3>3, <4>1, EnqueueTurn
    <3>5. s \in T!CallStates \ {"admitted"}
      BY DEF T!CallStates
    <3> DEFINE p == [transport.pc EXCEPT ![<<k, "clear">>] = s]
    <3>6. /\ p[<<k, "clear">>] = s /\ p[<<k, "upload">>] = "idle"
          /\ p[<<k, "release">>] = transport.pc[<<k, "release">>]
      BY <2>5, <3>2, BetweenTurns
    <3>7. Advances(p)
      BY <3>4
    <3> HIDE DEF p
    <3>8. StagedAt(p, k)
      BY <1>1, <1>2, <2>2, <2>3, <3>1, <3>6, StagedNow DEF StagedAt
    <3>9. HeldAt(p, k)
      BY <2>2, <2>5, <3>1, <3>6, HeldNow DEF HeldAt, Sent
    <3>10. MarkedAt(p, k)
      BY <1>1, <2>3 DEF MarkedAt
    <3>11. /\ image' \in [Images -> StoredImages]
           /\ capture' \in [Images -> [targets : SUBSET Viewers, current : BOOLEAN]]
           /\ purge' \subseteq Images /\ loops' \subseteq Images
           /\ \A j \in Images : j # k => /\ image'[j] = image[j] /\ releasing'[j] = releasing[j]
                                        /\ capture'[j] = capture[j]
           /\ capture'[k].current => capture'[k] = capture[k]
           /\ image'[k].st = "kept" => image[k].st = "kept" /\ image'[k].sent = image[k].sent
           /\ UNCHANGED <<viewer, seen, watching, client, events, observed, parted, shutdown>>
           /\ \A j \in Images \ {k} : transport.pc[<<j, "clear">>] = "idle"
      BY <1>1, <1>2, <1>3, <2>3, <3>1 DEF Typed
    <3> QED
      BY <2>2, <2>4, <3>5, <3>7, <3>8, <3>9, <3>10, <3>11, OneStep DEF p
  <2> QED
    BY <2>7, <2>8
<1> QED
  BY <1>4, <1>5

\* The end of a delete in clear(true).
LEMMA ClearEndedKeeps ==
  ASSUME ImagesInv, NEW k \in Images, ClearEnded(k)
  PROVE  ImagesInv' /\ Drains
<1> DEFINE c == <<k, "clear">>
           t == T!Goto(transport, c, "idle")
           p == [transport.pc EXCEPT ![c] = "idle"]
<1>1. /\ transport.pc[c] \in {"drained", "cancelled", "failed"}
      /\ UNCHANGED <<capture, viewer, loops, releasing, purge, rest, seen, watching,
                     client, events, observed, parted>>
  BY DEF ClearEnded, pc, monitor, world
<1>2. c \in Calls /\ transport.pc[c] \in Settled
  BY <1>1, CallsOf DEF Settled
<1>3. /\ Good(t) /\ T!Awake(t) /\ t.wrote = NoCall /\ t.pc = p
      /\ Turn({t}) => Advances(p)
  <2> HIDE DEF c
  <2> QED BY <1>2, EndTurn
<1>4. Typed
  BY WatchedNow
<1>5. "idle" \in T!CallStates \ {"admitted"}
  BY DEF T!CallStates
<1>6. p \in [Calls -> T!CallStates] /\ p[c] = "idle" /\ \A d \in Calls : d # c => p[d] = transport.pc[d]
  BY <1>2, <1>5, PcMoved
<1>7. /\ shutdown = "deleting" /\ transport.pc[<<k, "upload">>] = "idle"
      /\ wire[k] # "held" \/ transport.pc[c] # "drained"
  BY <1>1, StagedNow, HeldNow DEF Sent
<1>8. CASE transport.pc[c] = "drained"
  <2>1. image' = ForgetImage(k) /\ Turn({t}) /\ UNCHANGED shutdown
    BY <1>8 DEF ClearEnded, pc
  <2>2. /\ image' \in [Images -> StoredImages] /\ image'[k].st = "forgotten"
        /\ \A j \in Images : j # k => image'[j] = image[j]
    BY <2>1, ForgetEffect
  <2>3. /\ p[<<k, "upload">>] = "idle" /\ p[<<k, "clear">>] = "idle"
        /\ p[<<k, "release">>] = transport.pc[<<k, "release">>]
    BY <1>6, <1>7, <1>8, CallsOf
  <2>4. Advances(p)
    BY <1>3, <2>1
  <2>5. shutdown = "deleting" /\ wire[k] # "held"
    BY <1>7, <1>8
  <2> HIDE DEF p, t
  <2>6. StagedAt(p, k)
    BY <1>1, <2>2, <2>3, StagedNow DEF StagedAt
  <2>7. HeldAt(p, k)
    BY <2>5 DEF HeldAt
  <2>8. MarkedAt(p, k)
    BY <2>2 DEF MarkedAt
  <2>9. /\ capture' \in [Images -> [targets : SUBSET Viewers, current : BOOLEAN]]
        /\ purge' \subseteq Images /\ rest' \subseteq Images /\ loops' \subseteq Images
        /\ releasing' \in [Images -> ReleaseStates]
        /\ \A j \in Images : j # k => /\ image'[j] = image[j] /\ releasing'[j] = releasing[j]
                                     /\ capture'[j] = capture[j]
        /\ capture'[k].current => capture'[k] = capture[k]
        /\ image'[k].st = "kept" => image[k].st = "kept" /\ image'[k].sent = image[k].sent
        /\ UNCHANGED <<viewer, seen, watching, client, events, observed, parted, shutdown>>
    BY <1>1, <1>4, <2>1, <2>2 DEF Typed
  <2> QED
    BY <1>5, <2>2, <2>4, <2>6, <2>7, <2>8, <2>9, OneStep DEF p
<1>9. CASE transport.pc[c] # "drained"
  <2>1. shutdown' = "over" /\ Turn({T!Dispose(t)}) /\ UNCHANGED image
    BY <1>9 DEF ClearEnded, pc
  <2>2. Advances(p)
    <3>1. \A u \in {T!Dispose(t)} : Good(u) /\ T!Awake(u) /\ Follows(t, u)
      <4> HIDE DEF t
      <4> QED BY <1>3, DisposeEffect
    <3> DEFINE ts == {T!Dispose(t)}
    <3>2. Turn(ts)
      BY <2>1
    <3>3. Advances(t.pc)
      <4> HIDE DEF t, p, ts
      <4>1. \A u \in ts : Good(u) /\ T!Awake(u) /\ Follows(t, u)
        BY <3>1 DEF ts
      <4> QED BY <1>3, <3>2, <4>1, TurnFrom
    <3> QED
      BY <1>3, <3>3
  <2> HIDE DEF p, t
  <2>3. \A d \in Calls : IF d[2] = "clear" THEN p[d] = "idle" ELSE p[d] = transport.pc[d]
    <3>1. \A j \in Images : j # k => transport.pc[<<j, "clear">>] = "idle"
      BY <1>1, OneClearNow DEF OneClear
    <3>2. \A d \in Calls : d[2] = "clear" /\ d # c => d[1] # k /\ d = <<d[1], "clear">> /\ d[1] \in Images
      BY CallsOf
    <3> QED
      BY <1>6, <3>1, <3>2
  <2>4. Typed'
    BY <1>1, <1>4, <2>1 DEF Typed
  <2>5. UNCHANGED <<image, capture, viewer, releasing, client, observed, parted>> /\ seen' \in {seen, NoSnapshot}
    BY <1>1, <2>1
  <2> QED
    BY <1>6, <2>1, <2>2, <2>3, <2>4, <2>5, OverStep
<1> QED
  BY <1>8, <1>9

\* Images taken back all at once: no more uploads of them.
LEMMA HoldBackStep ==
  ASSUME ImagesInv, NEW S \in SUBSET Kept, Advances(transport.pc), shutdown = "no",
         image' = [k \in Images |-> IF k \in S
                        THEN [image[k] EXCEPT !.releasing = TRUE] ELSE image[k]],
         UNCHANGED <<capture, viewer, loops, releasing, rest, client, events, observed, parted>>,
         purge' \subseteq Images, watching' \in BOOLEAN, seen' \in {seen, NoSnapshot},
         \/ shutdown' = "no" /\ watching' = watching
         \/ shutdown' = "uploads" /\ S = Kept
  PROVE  ImagesInv' /\ Drains
<1> DEFINE p == transport.pc
<1>1. p \in [Calls -> T!CallStates] /\ Typed
  BY BetweenTurns, WatchedNow
<1>2. /\ image' \in [Images -> StoredImages]
      /\ \A k \in Images :
            /\ image'[k].st = image[k].st /\ image'[k].sent = image[k].sent
            /\ image'[k].recent = image[k].recent /\ image'[k].error = image[k].error
            /\ image'[k].terminalResource = image[k].terminalResource
            /\ image'[k].releasing = (image[k].releasing \/ k \in S)
            /\ image[k].st # "kept" => image'[k] = image[k]
  <2>1. ASSUME NEW k \in Images
        PROVE  /\ image'[k] \in StoredImages
               /\ image'[k].st = image[k].st /\ image'[k].sent = image[k].sent
               /\ image'[k].recent = image[k].recent /\ image'[k].error = image[k].error
               /\ image'[k].terminalResource = image[k].terminalResource
               /\ image'[k].releasing = (image[k].releasing \/ k \in S)
               /\ image[k].st # "kept" => image'[k] = image[k]
    <3>1. image[k] \in StoredImages
      BY <1>1 DEF Typed
    <3>2. CASE k \in S
      <4>1. image'[k] = [image[k] EXCEPT !.releasing = TRUE] /\ image[k].st = "kept"
        BY <3>2 DEF Kept
      <4> QED
        BY <3>1, <3>2, <4>1 DEF StoredImages
    <3>3. CASE k \notin S
      <4>1. image'[k] = image[k]
        BY <3>3
      <4> QED
        BY <3>1, <3>3, <4>1 DEF StoredImages
    <3> QED
      BY <3>2, <3>3
  <2> QED
    BY <2>1
<1>3. NoSnapshot \in Snapshots
  BY DEF NoSnapshot, Snapshots
<1>4. Typed'
  BY <1>1, <1>2, <1>3 DEF Typed
<1>5. Watched'
  <2>1. \A j \in Images : image'[j].st = "kept" /\ viewer.label = "paused" => image'[j].sent = {}
    BY <1>2, WatchedNow
  <2>2. \A j \in Images : capture'[j].current => capture'[j].targets \subseteq viewer.receivers
    BY WatchedNow
  <2>3. shutdown' = "no" => watching' = watching
    OBVIOUS
  <2> QED
    BY <2>1, <2>2, <2>3, WatchedTurn
<1>6. StagedTo(p)
  <2>1. ASSUME NEW j \in Images PROVE StagedAt(p, j)
    <3>1. shutdown' = "uploads" /\ image'[j].st = "kept" => image'[j].releasing
      BY <1>2 DEF Kept
    <3>2. shutdown' # "deleting" /\ p[<<j, "clear">>] = "idle"
      BY StagedNow
    <3> DEFINE old == image[j]
               new == image'[j]
    <3>7. /\ new.st = old.st /\ new.releasing = (old.releasing \/ j \in S)
          /\ old.st # "kept" => new = old
          /\ releasing'[j] = releasing[j]
      BY <1>2
    <3>8. /\ p[<<j, "upload">>] # "idle" => old.st = "kept"
          /\ old.st = "unused" => old = Unused /\ releasing[j] = "idle"
          /\ releasing[j] \in {"uploading", "go", "deleting"} /\ old.st = "kept" => old.releasing
          /\ releasing[j] \in {"go", "deleting"} => p[<<j, "upload">>] = "idle"
          /\ p[<<j, "release">>] # "idle" => releasing[j] = "deleting"
      BY StagedNow
    <3>3. new.st = "unused" => new = Unused /\ releasing'[j] = "idle"
      <4> HIDE DEF new, old
      <4> QED BY <3>7, <3>8
    <3>4. releasing'[j] \in {"uploading", "go", "deleting"} /\ image'[j].st = "kept"
            => image'[j].releasing
      <4> SUFFICES releasing'[j] \in {"uploading", "go", "deleting"} /\ new.st = "kept" => new.releasing
        OBVIOUS
      <4> HIDE DEF new, old
      <4> QED BY <3>7, <3>8
    <3>5. /\ p[<<j, "upload">>] # "idle" => image'[j].st = "kept"
          /\ releasing'[j] \in {"go", "deleting"} => p[<<j, "upload">>] = "idle"
          /\ p[<<j, "release">>] # "idle" => releasing'[j] = "deleting"
      <4> SUFFICES /\ p[<<j, "upload">>] # "idle" => new.st = "kept"
                   /\ releasing'[j] \in {"go", "deleting"} => p[<<j, "upload">>] = "idle"
                   /\ p[<<j, "release">>] # "idle" => releasing'[j] = "deleting"
        OBVIOUS
      <4> HIDE DEF new, old, p
      <4> QED BY <3>7, <3>8
    <3>6. shutdown' \in {"uploads", "deleting"} /\ image'[j].st = "kept"
            => image'[j].releasing \/ image'[j].error
      BY <3>1, <3>2
    <3> HIDE DEF p
    <3> QED
      BY <3>2, <3>3, <3>4, <3>5, <3>6 DEF StagedAt
  <2> QED
    BY <2>1, OneClearNow DEF StagedTo
<1>7. HeldTo(p)
  <2> SUFFICES ASSUME NEW j \in Images PROVE HeldAt(p, j)
    BY DEF HeldTo
  <2> QED
    BY <1>2, HeldNow DEF HeldAt
<1>8. MarkedTo(p)
  <2> SUFFICES ASSUME NEW j \in Images PROVE MarkedAt(p, j)
    BY DEF MarkedTo
  <2> QED
    BY <1>2, MarkedNow DEF MarkedAt
<1>9. UNCHANGED <<client, parted>> /\ \A c \in Calls : p[c] = "admitted" => transport.pc[c] = "admitted"
  OBVIOUS
<1> QED
  BY <1>1, <1>4, <1>5, <1>6, <1>7, <1>8, <1>9, StepTurn

\* Uploads that have not left are cancelled.
LEMMA CancelledTurn ==
  ASSUME ImagesInv, NEW S, Turn(CancelUploads(S, transport))
  PROVE  Advances(transport.pc)
<1>1. \A u \in CancelUploads(S, transport) : Good(u) /\ T!Awake(u) /\ Follows(transport, u)
  BY BetweenTurns, CancelUploadsEffect
<1> QED
  BY <1>1, BetweenTurns, TurnFrom

\* resetOwner(): what is its own goes, and is no longer drawn.
LEMMA ResetOwnerKeeps ==
  ASSUME ImagesInv, ResetOwner
  PROVE  ImagesInv' /\ Drains
<1> DEFINE S == Kept \cap Inline
<1>1. /\ shutdown = "no" /\ purge' = S /\ Turn(CancelUploads(S, transport))
      /\ image' = [k \in Images |-> IF k \in S
                        THEN [image[k] EXCEPT !.releasing = TRUE] ELSE image[k]]
      /\ UNCHANGED <<capture, viewer, loops, releasing, rest, client, events, observed, parted>>
      /\ UNCHANGED <<shutdown, watching, seen>>
  BY DEF ResetOwner, monitor, world
<1>2. S \in SUBSET Kept /\ S \subseteq Images
  BY DEF Kept
<1> HIDE DEF S
<1>3. Advances(transport.pc)
  BY <1>1, CancelledTurn
<1>4. watching' \in BOOLEAN /\ purge' \subseteq Images
  BY <1>1, <1>2, WatchedNow DEF Typed
<1> QED
  BY <1>1, <1>2, <1>3, <1>4, HoldBackStep

\* shutdown(): every image goes.
LEMMA ShutdownKeeps ==
  ASSUME ImagesInv, Shutdown
  PROVE  ImagesInv' /\ Drains
<1>1. /\ shutdown = "no" /\ watching' = FALSE /\ seen' = NoSnapshot
      /\ UNCHANGED <<capture, viewer, loops, releasing, purge, rest, client, events, observed, parted>>
  BY DEF Shutdown, world
<1>2. Typed
  BY WatchedNow
<1>3. CASE transport.state = "failed"
  <2>1. shutdown' = "over" /\ Turn({T!Dispose(transport)}) /\ UNCHANGED image
    BY <1>3 DEF Shutdown
  <2>2. \A k \in Images : transport.pc[<<k, "clear">>] = "idle"
    BY <1>1, StagedNow
  <2>3. Typed'
    BY <1>1, <1>2, <2>1 DEF Typed, NoSnapshot, Snapshots
  <2> QED
    BY <1>1, <2>1, <2>2, <2>3, DisposeStep
<1>4. CASE transport.state # "failed"
  <2>1. /\ shutdown' = "uploads" /\ Turn({T!CancelAll(transport)})
        /\ image' = [k \in Images |-> IF k \in Kept
                            THEN [image[k] EXCEPT !.releasing = TRUE] ELSE image[k]]
    BY <1>4 DEF Shutdown
  <2>2. Advances(transport.pc)
    BY <2>1, BetweenTurns, TurnFrom, CancelAllEffect
  <2>3. purge' \subseteq Images /\ watching' \in BOOLEAN /\ seen' \in {seen, NoSnapshot}
    BY <1>1, <1>2 DEF Typed
  <2> QED
    BY <1>1, <2>1, <2>2, <2>3, HoldBackStep
<1> QED
  BY <1>3, <1>4

\* The clock and the sink.
LEMMA EventStep ==
  ASSUME ImagesInv, NEW ts, Event(ts), events' \in 0 .. MaxEvents,
         \A u \in ts : Good(u) /\ T!Awake(u) /\ Follows(transport, u)
  PROVE  ImagesInv' /\ Drains
<1>1. Turn(ts) /\ UNCHANGED <<image, capture, viewer, loops, owners, monitor, client, observed, parted>>
  BY DEF Event
<1>2. UNCHANGED <<image, capture, viewer, loops, releasing, purge, rest, shutdown, monitor,
                  seen, watching, client, observed, parted>>
  BY <1>1 DEF owners, monitor
<1>3. Advances(transport.pc)
  BY <1>1, BetweenTurns, TurnFrom
<1>4. Typed'
  BY <1>2, WatchedNow DEF Typed
<1> QED
  BY <1>2, <1>3, <1>4, StillStep

\* The bound on events is kept.
LEMMA EventsTyped ==
  ASSUME ImagesInv
  PROVE  /\ events \in 0 .. MaxEvents
         /\ events > 0 => events - 1 \in 0 .. MaxEvents
<1>1. events \in 0 .. MaxEvents
  BY WatchedNow DEF Typed
<1> QED
  BY <1>1, ImagesAssumption

\* The pacing interval is over.
LEMMA IntervalOverKeeps ==
  ASSUME ImagesInv, IntervalOver
  PROVE  ImagesInv' /\ Drains
<1>1. Event({T!IntervalOver(transport)}) /\ events' \in 0 .. MaxEvents
  BY EventsTyped DEF IntervalOver
<1> QED
  BY <1>1, BetweenTurns, IntervalEffect, EventStep

\* The pump timer fires.
LEMMA PumpTimerKeeps ==
  ASSUME ImagesInv, PumpTimer
  PROVE  ImagesInv' /\ Drains
<1>1. Event(T!TimerFired(transport)) /\ events' \in 0 .. MaxEvents
  BY EventsTyped DEF PumpTimer
<1> QED
  BY <1>1, BetweenTurns, TimerEffect, EventStep

\* The sink has drained.
LEMMA DrainKeeps ==
  ASSUME ImagesInv, Drain
  PROVE  ImagesInv' /\ Drains
<1>1. Event(T!Drained(transport)) /\ events' \in 0 .. MaxEvents
  BY EventsTyped DEF Drain
<1> QED
  BY <1>1, BetweenTurns, DrainedEffect, EventStep

\* Pi fills standard output.
LEMMA OtherOutputKeeps ==
  ASSUME ImagesInv, OtherOutput
  PROVE  ImagesInv' /\ Drains
<1>1. Event({[transport EXCEPT !.needDrain = TRUE]}) /\ events' \in 0 .. MaxEvents
  BY EventsTyped DEF OtherOutput
<1> QED
  BY <1>1, BetweenTurns, FilledEffect, EventStep

\* The sink fails.
LEMMA SinkFailsKeeps ==
  ASSUME ImagesInv, SinkFails
  PROVE  ImagesInv' /\ Drains
<1>1. Event({T!Fail(transport)}) /\ events' \in 0 .. MaxEvents
  BY EventsTyped DEF SinkFails
<1> QED
  BY <1>1, BetweenTurns, SinkFailEffect, EventStep

\* A capture that lost its currency authorizes no mark.
LEMMA OutdatedEffect ==
  ASSUME ImagesInv, capture' = Outdated
  PROVE  /\ capture' \in [Images -> [targets : SUBSET Viewers, current : BOOLEAN]]
         /\ \A k \in Images : ~capture'[k].current
<1>1. capture \in [Images -> [targets : SUBSET Viewers, current : BOOLEAN]]
  BY WatchedNow DEF Typed
<1> QED
  BY <1>1 DEF Outdated

\* The monitor starts with the first image and stops with the last; either
\* way no capture stays current beyond what it knows.
LEMMA SyncMonitorKeeps ==
  ASSUME ImagesInv, SyncMonitor
  PROVE  ImagesInv' /\ Drains
<1> DEFINE p == transport.pc
<1>1. /\ shutdown = "no" /\ watching # (Kept # {}) /\ watching' = ~watching /\ seen' = NoSnapshot
      /\ UNCHANGED <<image, loops, releasing, purge, shutdown, rest, client, events, observed, parted>>
      /\ IF watching THEN viewer' = Paused /\ capture' = Outdated
         ELSE UNCHANGED <<viewer, capture>>
  BY DEF SyncMonitor, owners, world
<1>2. Advances(p) /\ p \in [Calls -> T!CallStates] /\ Typed
  BY QuietTurn, BetweenTurns, WatchedNow DEF SyncMonitor, Quiet
<1>3. /\ viewer' \in Snapshots /\ seen' \in Snapshots /\ watching' \in BOOLEAN
      /\ capture' \in [Images -> [targets : SUBSET Viewers, current : BOOLEAN]]
      /\ viewer'.label # "known" => viewer'.receivers = {}
      /\ viewer'.label = "paused" => \A k \in Kept : image[k].sent = {}
      /\ \A k \in Images : capture'[k].current => capture'[k] = capture[k] /\ viewer' = viewer
      /\ observed /\ viewer'.label = "known" => viewer' = Truth
      /\ ~watching' => viewer' = Paused
      /\ viewer'.receivers \subseteq viewer.receivers
  <2>1. CASE watching
    <3>1. viewer' = Paused /\ capture' = Outdated /\ Kept = {} /\ watching' = FALSE
      BY <1>1, <2>1
    <3>2. Paused \in Snapshots /\ Paused.label = "paused" /\ Paused.receivers = {}
      BY DEF Paused, NoSnapshot, Snapshots
    <3>3. seen' \in Snapshots
      BY <1>1 DEF NoSnapshot, Snapshots
    <3> QED
      BY <3>1, <3>2, <3>3, OutdatedEffect
  <2>2. CASE ~watching
    <3>1. viewer' = viewer /\ capture' = capture /\ watching' = TRUE
      BY <1>1, <1>2, <2>2 DEF Typed
    <3>2. seen' \in Snapshots
      BY <1>1 DEF NoSnapshot, Snapshots
    <3> QED
      BY <1>2, <3>1, <3>2, WatchedNow DEF Typed, Watched
  <2> QED
    BY <1>2, <2>1, <2>2 DEF Typed
<1>4. Typed'
  BY <1>1, <1>2, <1>3 DEF Typed
<1>5. Watched'
  <2>1. /\ Truth' = Truth /\ Kept' = Kept /\ seen'.label = "none"
        /\ \A v : Missed(v)' <=> Missed(v)
    BY <1>1 DEF Truth, Visible, Attached, Kept, NoSnapshot, Missed
  <2>2. \A k \in Images : capture'[k].current => capture'[k].targets \subseteq viewer'.receivers
    BY <1>3, WatchedNow
  <2>3. \A v \in viewer'.receivers \ parted' : client'[v] = "hidden" => Missed(v)'
    BY <1>1, <1>2, <1>3, <2>1, WatchedNow DEF Watched
  <2> QED
    BY <1>1, <1>3, <2>1, <2>2, <2>3 DEF Watched
<1>6. StagedTo(p)
  <2>1. \A j \in Images : StagedAt(p, j)
    BY <1>1, StagedNow DEF StagedAt
  <2> QED
    BY <2>1, OneClearNow DEF StagedTo
<1>7. HeldTo(p)
  BY <1>1, HeldNow DEF HeldTo, HeldAt
<1>8. MarkedTo(p)
  <2> SUFFICES ASSUME NEW j \in Images PROVE MarkedAt(p, j)
    BY DEF MarkedTo
  <2>1. CASE watching
    <3>1. image'[j].st # "kept"
      BY <1>1, <2>1 DEF Kept
    <3> QED
      BY <3>1 DEF MarkedAt
  <2>2. CASE ~watching
    <3>1. viewer' = viewer /\ capture' = capture
      BY <1>1, <2>2
    <3> QED
      BY <1>1, <3>1, MarkedNow DEF MarkedAt
  <2> QED
    BY <1>2, <2>1, <2>2 DEF Typed
<1>9. \A c \in Calls : p[c] = "admitted" => transport.pc[c] = "admitted"
  OBVIOUS
<1> QED
  BY <1>1, <1>2, <1>4, <1>5, <1>6, <1>7, <1>8, <1>9, StepTurn

\* A client comes, goes or turns away: either nothing is marked for it yet, or
\* the last poll saw the truth, and what it was served with it holds.
LEMMA ClientMovesKeeps ==
  ASSUME ImagesInv, ClientMoves
  PROVE  ImagesInv' /\ Drains
<1>1. PICK v \in Viewers, to \in {"hidden", "visible", "gone"} :
        /\ client[v] # to /\ client[v] # "gone"
        /\ client' = [client EXCEPT ![v] = to]
        /\ got' = IF to = "gone" THEN [got EXCEPT ![v] = {}] ELSE got
        /\ parted' = IF to = "hidden" /\ v \in viewer.receivers /\ Visible # {v}
                     THEN parted \cup {v} ELSE parted
  BY DEF ClientMoves
<1>2. /\ shutdown = "no" /\ (observed \/ ~watching) /\ events' \in 0 .. MaxEvents /\ observed' = FALSE
      /\ UNCHANGED <<transport, image, capture, viewer, loops, releasing, purge, shutdown, rest,
                     watching, seen, wire>>
  BY EventsTyped DEF ClientMoves, owners, monitor
<1>3. ImagesTypeOK /\ Flowing /\ Staged /\ Held /\ Watched
  BY DEF ImagesInv
<1>4. ImagesTypeOK'
  <2>1. /\ client' \in [Viewers -> {"hidden", "visible", "gone"}]
        /\ got' \in [Viewers -> SUBSET Images] /\ parted' \subseteq Viewers
    <3>1. /\ client \in [Viewers -> {"hidden", "visible", "gone"}]
          /\ got \in [Viewers -> SUBSET Images] /\ parted \subseteq Viewers
      BY <1>3 DEF ImagesTypeOK
    <3> QED
      BY <1>1, <3>1
  <2> QED
    BY <1>2, <1>3, <2>1 DEF ImagesTypeOK
<1>5. Flowing' /\ Staged' /\ Held'
  BY <1>2, <1>3 DEF Flowing, Staged, Held, Uploading, pc
\* Whoever moves, an extension that watches knew the truth until now; one that
\* does not serves nobody.
<1>6. /\ parted \subseteq parted'
      /\ \A w \in Viewers : w # v => client'[w] = client[w] /\ got'[w] = got[w]
      /\ client'[v] = to
      /\ to # "gone" => got' = got
  <2>1. client \in [Viewers -> {"hidden", "visible", "gone"}]
    BY <1>3 DEF ImagesTypeOK
  <2> QED
    BY <1>1, <2>1
<1>7. ~observed => viewer = Paused /\ viewer.label = "paused" /\ viewer.receivers = {}
  BY <1>2, <1>3 DEF Watched, Paused, NoSnapshot
<1>8. ASSUME NEW w \in viewer.receivers \ parted', client'[w] = "hidden"
      PROVE  Missed(w)'
  <2>1. observed /\ w \in Viewers /\ w \notin parted
    BY <1>3, <1>6, <1>7, <1>8 DEF ImagesTypeOK, Snapshots
  <2>2. w = v
    <3>1. client[w] # "hidden"
      BY <1>3, <1>8, <2>1 DEF Watched, Missed
    <3> QED
      BY <1>6, <1>8, <2>1, <3>1
  <2>3. Visible = {v}
    BY <1>1, <1>6, <1>8, <2>2
  <2>4. Visible' = {}
    BY <1>6, <1>8, <2>2, <2>3 DEF Visible
  <2> QED
    BY <1>2, <1>8, <2>4 DEF Missed
<1>9. Watched'
  <2>1. Kept' = Kept
    BY <1>2 DEF Kept
  <2> QED
    BY <1>2, <1>3, <1>8, <2>1 DEF Watched
<1>10. Marked'
  <2> SUFFICES ASSUME NEW k \in Images, image[k].st = "kept", ~image[k].error, ~image[k].releasing,
                      NEW w \in Viewers \ parted', client'[w] # "gone"
               PROVE  /\ w \in image[k].sent => k \in got'[w]
                      /\ capture[k].current /\ w \in capture[k].targets
                            /\ transport.pc[<<k, "upload">>] \in Sent
                        => k \in got'[w] \/ Missed(w)'
    BY <1>2 DEF Marked, Kept, pc
  <2>1. CASE observed
    <3>1. /\ w \in image[k].sent => k \in got[w]
          /\ capture[k].current /\ w \in capture[k].targets
                /\ transport.pc[<<k, "upload">>] \in Sent
             => k \in got[w]
      <4>1. w \in Viewers \ parted /\ client[w] # "gone"
        BY <1>1, <1>6
      <4> QED
        BY <1>2, <2>1, <4>1, MarkedNow
    <3>2. got'[w] = got[w]
      BY <1>6
    <3> QED
      BY <3>1, <3>2
  <2>2. CASE ~observed
    <3>1. image[k].sent = {} /\ (capture[k].current => capture[k].targets = {})
      BY <1>7, <2>2, WatchedNow
    <3> QED
      BY <3>1
  <2> QED
    BY <2>1, <2>2
<1>11. Drains
  BY <1>2 DEF Drains
<1> QED
  BY <1>4, <1>5, <1>9, <1>10, <1>11 DEF ImagesInv

\* What a snapshot makes of the marks.
LEMMA RevokeEffect ==
  ASSUME NEW img \in StoredImages, NEW s \in Snapshots, NEW changed \in BOOLEAN
  PROVE  LET new == Revoke(img, s, changed) IN
         /\ new \in StoredImages /\ new.st = img.st /\ new.releasing = img.releasing
         /\ new.error = img.error /\ new.terminalResource = img.terminalResource
         /\ new.sent \subseteq img.sent
         /\ s.label # "known" => new = img
         /\ s.label = "known" /\ changed /\ s.receivers = {} => new.sent \cap img.recent = {}
<1>1. CASE s.label # "known"
  BY <1>1 DEF Revoke, StoredImages
<1>2. CASE s.label = "known"
  <2> DEFINE x == (img.sent \cap s.attached) \ (IF changed /\ ~IsReady(s) THEN img.recent ELSE {})
  <2>1. Revoke(img, s, changed) = [img EXCEPT !.sent = x, !.recent = {}]
    BY <1>2 DEF Revoke
  <2>2. x \in SUBSET Viewers /\ x \subseteq img.sent
    BY DEF StoredImages
  <2>3. changed /\ s.receivers = {} => x \cap img.recent = {}
    BY DEF IsReady
  <2> HIDE DEF x
  <2> QED
    BY <1>2, <2>1, <2>2, <2>3 DEF StoredImages
<1> QED
  BY <1>1, <1>2

\* A poll applies a snapshot: marks of clients that came back unseen, or for
\* which the bytes went out while they were away, are revoked.
LEMMA PollKeeps ==
  ASSUME ImagesInv, Poll
  PROVE  ImagesInv' /\ Drains
<1> DEFINE p == transport.pc
<1>1. PICK s \in {Truth, Unknown} :
        /\ seen' = s
        /\ observed' = (observed \/ s = Truth)
        /\ IF s = seen
           THEN Quiet /\ UNCHANGED <<image, capture, viewer, loops>>
           ELSE LET changed == s # viewer IN
                /\ viewer' = s
                /\ image' = [k \in Images |-> IF k \in Kept
                                THEN Revoke(image[k], s, changed) ELSE image[k]]
                /\ IF changed THEN capture' = Outdated /\ Turn(CancelUploads(Kept, transport))
                   ELSE UNCHANGED capture /\ Turn({transport})
                /\ loops' = IF IsReady(s) /\ Kept # {}
                            THEN loops \cup {Min(Kept)} ELSE loops
  BY DEF Poll
<1>2. /\ watching
      /\ UNCHANGED <<releasing, purge, shutdown, rest, watching, client, events, parted>>
  BY DEF Poll, owners
<1>3. Typed /\ Watched /\ p \in [Calls -> T!CallStates] /\ observed \in BOOLEAN
      /\ viewer \in Snapshots /\ seen \in Snapshots
  BY BetweenTurns, WatchedNow DEF Typed
<1>4. /\ Truth \in Snapshots /\ Truth.label = "known" /\ Truth.receivers = Visible
      /\ Unknown \in Snapshots /\ Unknown.label = "unknown" /\ Unknown.receivers = {}
      /\ Truth' = Truth /\ \A v \in Visible : client[v] # "hidden"
  BY <1>2 DEF Truth, Visible, Attached, Unknown, NoSnapshot, Snapshots
<1> HIDE DEF p
<1>5. s \in Snapshots /\ s.label \in {"known", "unknown"} /\ (s.label # "known" => s.receivers = {})
      /\ (s.label = "known" => s = Truth)
  BY <1>4
\* How the images change, whichever of the two snapshots it is.
<1>6. /\ image' \in [Images -> StoredImages]
      /\ \A k \in Images :
            /\ image'[k].st = image[k].st /\ image'[k].error = image[k].error
            /\ image'[k].terminalResource = image[k].terminalResource
            /\ image'[k].releasing = image[k].releasing
            /\ image'[k].sent \subseteq image[k].sent
            /\ image[k].st # "kept" => image'[k] = image[k]
            /\ s = seen \/ s.label # "known" => image'[k] = image[k]
            /\ s # seen /\ s = Truth /\ s # viewer /\ Visible = {} /\ image[k].st = "kept"
                => image'[k].sent \cap image[k].recent = {}
  <2>1. ASSUME NEW k \in Images
        PROVE  /\ image'[k] \in StoredImages
               /\ image'[k].st = image[k].st /\ image'[k].error = image[k].error
               /\ image'[k].terminalResource = image[k].terminalResource
               /\ image'[k].releasing = image[k].releasing
               /\ image'[k].sent \subseteq image[k].sent
               /\ image[k].st # "kept" => image'[k] = image[k]
               /\ s = seen \/ s.label # "known" => image'[k] = image[k]
               /\ s # seen /\ s = Truth /\ s # viewer /\ Visible = {} /\ image[k].st = "kept"
                    => image'[k].sent \cap image[k].recent = {}
    <3>1. image[k] \in StoredImages
      BY <1>3 DEF Typed
    <3>2. CASE s = seen
      <4>1. image'[k] = image[k]
        BY <1>1, <3>2
      <4> QED
        BY <3>1, <3>2, <4>1 DEF StoredImages
    <3>3. CASE s # seen /\ k \notin Kept
      <4>1. image'[k] = image[k] /\ image[k].st # "kept"
        BY <1>1, <3>3 DEF Kept
      <4> QED
        BY <3>1, <3>3, <4>1 DEF StoredImages
    <3>4. CASE s # seen /\ k \in Kept
      <4> DEFINE new == Revoke(image[k], s, s # viewer)
      <4>1. image'[k] = new /\ image[k].st = "kept"
        BY <1>1, <3>4 DEF Kept
      <4>2. /\ new \in StoredImages /\ new.st = image[k].st /\ new.releasing = image[k].releasing
            /\ new.error = image[k].error /\ new.terminalResource = image[k].terminalResource
            /\ new.sent \subseteq image[k].sent
            /\ s.label # "known" => new = image[k]
            /\ s.label = "known" /\ (s # viewer) /\ s.receivers = {} => new.sent \cap image[k].recent = {}
        BY <1>5, <3>1, RevokeEffect
      <4> HIDE DEF new
      <4> QED
        BY <1>4, <3>4, <4>1, <4>2
    <3> QED
      BY <3>2, <3>3, <3>4
  <2>2. image' = [k \in Images |-> image'[k]]
    <3>1. image = [k \in Images |-> image[k]]
      BY <1>3 DEF Typed
    <3> QED
      BY <1>1, <3>1
  <2> QED
    BY <2>1, <2>2
<1>7. /\ viewer' = s /\ seen' = s
      /\ capture' \in [Images -> [targets : SUBSET Viewers, current : BOOLEAN]]
      /\ \A k \in Images : capture'[k].current => capture'[k] = capture[k] /\ s = viewer
      /\ loops' \subseteq Images
      /\ Advances(p)
  <2>1. CASE s = seen
    <3>1. viewer = s
      BY <1>3, <1>5, <2>1 DEF Watched
    <3>2. UNCHANGED <<capture, viewer, loops>> /\ Advances(p)
      BY <1>1, <2>1, QuietTurn DEF Quiet, p
    <3> QED
      BY <1>1, <1>3, <3>1, <3>2 DEF Typed
  <2>2. CASE s # seen
    <3>1. Kept # {} => Min(Kept) \in Images
      <4>1. Kept \in SUBSET Nat /\ Kept \subseteq Images
        BY DEF Kept, Images
      <4> QED
        BY <4>1, Least
    <3>2. viewer' = s /\ loops' \subseteq Images
      BY <1>1, <1>3, <2>2, <3>1 DEF Typed
    <3>3. CASE s = viewer
      <4>1. UNCHANGED capture /\ Turn({transport})
        BY <1>1, <2>2, <3>3
      <4>2. Advances(p)
        BY <4>1, BetweenTurns, TurnSelf DEF p
      <4> QED
        BY <1>1, <1>3, <3>2, <3>3, <4>1, <4>2 DEF Typed
    <3>4. CASE s # viewer
      <4>1. capture' = Outdated /\ Turn(CancelUploads(Kept, transport))
        BY <1>1, <2>2, <3>4
      <4>2. Advances(p)
        BY <4>1, CancelledTurn DEF p
      <4> QED
        BY <1>1, <3>2, <4>1, <4>2, OutdatedEffect
    <3> QED
      BY <3>3, <3>4
  <2> QED
    BY <2>1, <2>2
<1>8. Typed'
  <2>1. observed' \in BOOLEAN
    BY <1>1, <1>3
  <2> QED
    BY <1>2, <1>3, <1>5, <1>6, <1>7, <2>1 DEF Typed
<1>9. Watched'
  <2>1. \A k \in Images : capture'[k].current => capture'[k].targets \subseteq viewer'.receivers
    BY <1>7, WatchedNow
  <2>2. \A v \in viewer'.receivers : client'[v] # "hidden"
    BY <1>2, <1>4, <1>5, <1>7
  <2> QED
    BY <1>2, <1>4, <1>5, <1>7, <2>1, <2>2 DEF Watched
<1>10. StagedTo(p)
  <2> SUFFICES ASSUME NEW j \in Images PROVE StagedAt(p, j)
    BY OneClearNow DEF StagedTo, p
  <2>1. /\ image'[j].st = image[j].st /\ image'[j].error = image[j].error
        /\ image'[j].releasing = image[j].releasing
        /\ image[j].st # "kept" => image'[j] = image[j]
        /\ releasing' = releasing /\ shutdown' = shutdown
    BY <1>2, <1>6
  <2> QED
    BY <2>1, StagedNow DEF StagedAt, p
<1>11. HeldTo(p)
  BY <1>6, HeldNow DEF HeldTo, HeldAt, p
<1>12. MarkedTo(p)
  <2> SUFFICES ASSUME shutdown = "no", NEW k \in Images, NEW v \in Viewers \ parted,
                      image[k].st = "kept", client[v] # "gone", ~image[k].error, ~image[k].releasing
               PROVE  /\ v \in image'[k].sent =>
                            \/ k \in got[v]
                            \/ Away(v) /\ ~observed' /\ v \in image'[k].recent /\ s # Truth
                      /\ capture'[k].current /\ v \in capture'[k].targets
                            /\ p[<<k, "upload">>] \in Sent
                        => k \in got[v] \/ (Away(v) /\ ~observed')
    BY <1>2, <1>6, <1>7 DEF MarkedTo, MarkedAt
  <2>1. /\ v \in image[k].sent =>
            \/ k \in got[v]
            \/ Away(v) /\ ~observed /\ v \in image[k].recent /\ viewer # Truth
        /\ capture[k].current /\ v \in capture[k].targets /\ p[<<k, "upload">>] \in Sent
            => k \in got[v] \/ (Away(v) /\ ~observed)
    BY MarkedNow DEF p
  <2>2. CASE s # Truth
    <3>1. image'[k] = image[k] /\ observed' = observed
      BY <1>1, <1>3, <1>5, <1>6, <2>2
    <3> QED
      BY <1>7, <2>1, <2>2, <3>1
  <2>3. CASE s = Truth
    <3>1. v \in image'[k].sent => k \in got[v]
      <4> SUFFICES ASSUME v \in image'[k].sent, k \notin got[v] PROVE FALSE
        OBVIOUS
      <4>1. v \in image[k].sent /\ Away(v) /\ v \in image[k].recent /\ viewer # Truth
        BY <1>6, <2>1
      <4>2. Visible = {}
        BY <4>1 DEF Away
      <4>3. s # seen
        BY <1>3, <1>5, <2>3, <4>1 DEF Watched
      <4>4. image'[k].sent \cap image[k].recent = {}
        BY <1>6, <2>3, <4>1, <4>2, <4>3
      <4> QED
        BY <4>1, <4>4
    <3>2. capture'[k].current /\ v \in capture'[k].targets => ~Away(v)
      <4> SUFFICES ASSUME capture'[k].current, v \in capture'[k].targets PROVE v \in Visible
        BY DEF Away
      <4>1. capture[k].current /\ v \in capture[k].targets /\ viewer = Truth
        BY <1>7, <2>3
      <4>2. v \in viewer.receivers
        BY <4>1, WatchedNow
      <4> QED
        BY <1>4, <4>1, <4>2
    <3> QED
      BY <1>7, <2>1, <3>1, <3>2
  <2> QED
    BY <2>2, <2>3
<1>13. \A c \in Calls : p[c] = "admitted" => transport.pc[c] = "admitted"
  BY DEF p
<1> QED
  BY <1>2, <1>3, <1>7, <1>8, <1>9, <1>10, <1>11, <1>12, <1>13, StepTurn

-----------------------------------------------------------------------------
(* The theorems about the inline images *)

\* A transport that has just been made owes nothing.
LEMMA NewTransportEffect ==
  LET t == T!NewTransport IN
  /\ Good(t) /\ T!Awake(t) /\ t.wrote = NoCall /\ t.pc = [c \in Calls |-> "idle"]
<1> DEFINE t == T!NewTransport
           p == [c \in Calls |-> "idle"]
<1>1. t = [queue |-> <<>>, undrained |-> 0, backpressured |-> FALSE,
           waiting |-> FALSE, timer |-> "none", strayDue |-> FALSE, strayLater |-> FALSE,
           pacing |-> FALSE, needDrain |-> FALSE, state |-> "live",
           wrote |-> NoCall, pc |-> p]
  BY DEF T!NewTransport
<1>2. p \in [Calls -> T!CallStates] /\ \A c \in Calls : p[c] = "idle"
  BY DEF T!CallStates
<1>3. <<>> \in Seq(Calls)
  OBVIOUS
<1> HIDE DEF t, p
<1>4. /\ t \in T!Transports(T!CallStates) /\ t.pc = p /\ t.queue = <<>> /\ t.wrote = NoCall
      /\ ~t.backpressured /\ ~t.waiting /\ t.undrained = 0
  BY <1>1, <1>2, <1>3 DEF T!Transports
<1>5. T!Booked(t)
  BY <1>2, <1>4, EmptyBooks
<1>6. T!Owed(t) /\ T!Awake(t)
  BY <1>2, <1>4 DEF T!Owed, T!Awake
<1> QED
  BY <1>4, <1>5, <1>6 DEF Good, t, p

\* A runtime that has just started satisfies the invariant.
LEMMA ImagesInitHolds ==
  ASSUME ImagesInit
  PROVE  ImagesInv
<1>1. /\ Good(transport) /\ T!Awake(transport) /\ transport.wrote = NoCall
      /\ \A c \in Calls : transport.pc[c] = "idle"
  BY NewTransportEffect DEF ImagesInit
<1>2. \A k \in Images : /\ transport.pc[<<k, "upload">>] = "idle"
                        /\ transport.pc[<<k, "release">>] = "idle"
                        /\ transport.pc[<<k, "clear">>] = "idle"
  BY <1>1, CallsOf
<1>3. /\ transport \in T!Transports(T!CallStates) /\ T!Booked(transport) /\ Flowing
  BY <1>1 DEF Good, Flowing
<1>4. /\ \A k \in Images : image[k] = Unused /\ releasing[k] = "idle" /\ wire[k] = "none"
                           /\ capture[k] = NoCapture
      /\ Unused.st = "unused" /\ Unused \in StoredImages /\ ~NoCapture.current
      /\ NoCapture \in [targets : SUBSET Viewers, current : BOOLEAN]
  BY DEF ImagesInit, Unused, NoCapture, StoredImages
<1>5. /\ Paused \in Snapshots /\ NoSnapshot \in Snapshots /\ Paused.label = "paused"
      /\ Paused.receivers = {} /\ NoSnapshot.label = "none"
  BY DEF Paused, NoSnapshot, Snapshots
<1>6. ImagesTypeOK
  <2>1. /\ image \in [Images -> StoredImages]
        /\ capture \in [Images -> [targets : SUBSET Viewers, current : BOOLEAN]]
        /\ releasing \in [Images -> ReleaseStates]
        /\ wire \in [Images -> {"none", "held", "deleted"}]
        /\ got \in [Viewers -> SUBSET Images]
    BY <1>4 DEF ImagesInit, ReleaseStates
  <2>2. events \in 0 .. MaxEvents
    BY ImagesAssumption DEF ImagesInit
  <2>3. client \in [Viewers -> {"hidden", "visible", "gone"}] /\ parted \subseteq Viewers
    BY DEF ImagesInit
  <2> QED
    BY <1>3, <1>5, <2>1, <2>2, <2>3 DEF ImagesTypeOK, ImagesInit
<1>7. Staged
  BY <1>2, <1>4 DEF Staged, Uploading, pc, ImagesInit
<1>8. Held
  BY <1>2, <1>4 DEF Held, Sent, pc
<1>9. Kept = {}
  BY <1>4 DEF Kept
<1>10. Watched
  BY <1>4, <1>5, <1>9 DEF Watched, ImagesInit
<1>11. Marked
  BY <1>9 DEF Marked
<1> QED
  BY <1>3, <1>6, <1>7, <1>8, <1>10, <1>11 DEF ImagesInv

\* Every step keeps the invariant and waits for the drain; so does none.
LEMMA ImagesStep ==
  ASSUME ImagesInv, [ImagesNext]_imageVars
  PROVE  ImagesInv' /\ Drains
<1>1. ASSUME NEW k \in Images, Continue(k) PROVE ImagesInv' /\ Drains
  BY <1>1, UploadAdmittedKeeps, UploadEndedKeeps, UploadFailedKeeps, LoopStepKeeps,
     ReleaseGoKeeps, ReleaseAdmittedKeeps, ReleaseEndedKeeps, ClearAdmittedKeeps,
     ClearEndedKeeps DEF Continue
<1>2. CASE Continuation
  BY <1>1, <1>2, PurgeStepKeeps, ClearStartsKeeps, ClearNextKeeps DEF Continuation
<1>3. CASE Prepare \/ PrepareAgain \/ Release \/ ResetOwner \/ Shutdown
  BY <1>3, PrepareKeeps, PrepareAgainKeeps, ReleaseKeeps, ResetOwnerKeeps, ShutdownKeeps
<1>4. CASE SyncMonitor \/ Poll \/ ClientMoves
  BY <1>4, SyncMonitorKeeps, PollKeeps, ClientMovesKeeps
<1>5. CASE IntervalOver \/ PumpTimer \/ Drain \/ SinkFails \/ OtherOutput
  BY <1>5, IntervalOverKeeps, PumpTimerKeeps, DrainKeeps, SinkFailsKeeps, OtherOutputKeeps
<1>6. CASE UNCHANGED imageVars
  <2>1. UNCHANGED <<transport, wire, got>> /\ Typed'
    BY <1>6, WatchedNow DEF imageVars, owners, monitor, world, Typed
  <2>2. UNCHANGED <<image, capture, viewer, releasing, shutdown, monitor, client, observed, parted>>
    BY <1>6 DEF imageVars, owners, world
  <2> QED
    BY <2>1, <2>2, QuietTurn, StillStep
<1> QED
  BY <1>2, <1>3, <1>4, <1>5, <1>6 DEF ImagesNext

\* The inductive invariant of the inline images holds throughout: of the
\* transport's books, the stages of an image, what the terminals hold and what
\* the extension knows of who looks on.
THEOREM ImagesInvariance == ImagesSpec => []ImagesInv
<1>1. ImagesInit => ImagesInv
  BY ImagesInitHolds
<1>2. ImagesInv /\ [ImagesNext]_imageVars => ImagesInv'
  BY ImagesStep
<1> QED
  BY <1>1, <1>2, PTL DEF ImagesSpec

\* Every variable of the inline images keeps its type, and the queue of the
\* transport holds exactly the calls that are queued, each of them once.
THEOREM ImagesTypeCorrect == ImagesSpec => []ImagesTypeOK
<1>1. ImagesInv => ImagesTypeOK
  BY DEF ImagesInv
<1> QED
  BY <1>1, ImagesInvariance, PTL

\* A queued transaction always has a timer or a drain that will pump it, and
\* a caller of ready() that waits always waits for a drain the sink owes:
\* enqueue(), ready(), cancelResource() and the timers lose no wakeup.
THEOREM AlwaysNothingStranded == ImagesSpec => []NothingStranded
<1>1. ImagesInv => NothingStranded
  BY DEF ImagesInv, Flowing, NothingStranded, T!Owed, T!Live
<1> QED
  BY <1>1, ImagesInvariance, PTL

\* An image whose pixels a terminal holds is still stored, and known to be in
\* the terminal or about to be: no reset, release or shutdown, in any order
\* with the continuations of an upload, forgets it before its delete is out.
THEOREM AlwaysNoOrphan == ImagesSpec => []NoOrphan
<1>1. ImagesInv => NoOrphan
  BY DEF ImagesInv, Held, NoOrphan, Uploading
<1> QED
  BY <1>1, ImagesInvariance, PTL

\* Whatever the terminals were sent stays owned until its delete is out, and an
\* image that is drawn is in the terminal of everybody who looks on, however
\* many clients there are: a mark made while a client turned away, or from a
\* snapshot that had been overtaken, is revoked by the poll that sees nobody.
\* The clients in `parted` are left out: they hid while another looked on.
THEOREM AlwaysImagesAgree == ImagesSpec => []ImagesAgree
<1>1. ImagesInv => ImagesAgree
  <2> SUFFICES ASSUME ImagesInv PROVE ImagesAgree
    OBVIOUS
  <2>1. NoOrphan
    BY DEF ImagesInv, Held, NoOrphan, Uploading
  <2>2. RenderedIsThere
    <3> SUFFICES ASSUME observed, shutdown = "no", NEW k \in Kept, NEW v \in Visible,
                        v \notin parted,
                        v \in image[k].sent, ~image[k].error, ~image[k].releasing
                 PROVE  k \in got[v]
      BY DEF RenderedIsThere, Served
    <3> QED
      BY MarkedNow DEF Kept, Visible
  <2> QED
    BY <2>1, <2>2 DEF ImagesAgree
<1> QED
  BY <1>1, ImagesInvariance, PTL

\* A transaction is admitted only when nothing the sink refused is still
\* undrained before it, whichever continuation, timer or sink event pumps.
THEOREM AlwaysDrainRespected == ImagesSpec => DrainRespected
<1>1. ImagesInv /\ [ImagesNext]_imageVars => Drains
  BY ImagesStep
<1>2. ImagesInv /\ [ImagesNext]_imageVars => [\A c \in Calls :
          transport'.pc[c] = "admitted" /\ transport.pc[c] # "admitted"
            => transport'.undrained <= Bytes(c)]_imageVars
  BY <1>1 DEF Drains
<1> QED
  BY <1>2, ImagesInvariance, PTL DEF ImagesSpec, DrainRespected

-----------------------------------------------------------------------------
(* The session handoff *)

USE HandoffAssumption
USE DEF NoOp, loop, native, Finished, Records, Places, Outcomes, Waits, Answers

-----------------------------------------------------------------------------
(* The inductive invariant *)

\* A host that has just been installed satisfies the invariant.
LEMMA InitHolds == Init => IInv
<1> SUFFICES ASSUME Init PROVE IInv
  OBVIOUS
<1> USE DEF Init, Absent, Nothing
<1>1. TypeOK
  BY DEF TypeOK
<1>2. Tasked /\ Forgotten /\ Filed /\ Fresh /\ AskedOnce /\ Claimed
  BY DEF Tasked, Forgotten, Filed, Fresh, AskedOnce, Claimed
<1> QED
  BY <1>1, <1>2 DEF IInv

\* A state file holds what it held or what was to be written.
LEMMA PutEffect ==
  ASSUME NEW file \in [Ops -> Records], NEW o \in Ops, NEW value \in Records,
         NEW out \in Outcomes
  PROVE  /\ Put(file, o, value, out) \in [Ops -> Records]
         /\ Put(file, o, value, out)[o] \in {file[o], value}
         /\ out = "written" => Put(file, o, value, out)[o] = value
         /\ \A q \in Ops \ {o} : Put(file, o, value, out)[q] = file[q]
BY DEF Put

\* A write that fails costs a fault.
LEMMA SpendType ==
  ASSUME TypeOK, NEW n \in Nat, Spend(n)
  PROVE  faults' \in Nat
BY DEF TypeOK, Spend

\* A write raises at most once.
LEMMA RaisesType == \A out \in Outcomes : Raises(out) \in Nat
BY DEF Raises

\* Recording a status on the way: the status or a failure, in memory and,
\* unless a write is lost, in the file; requests are kept.
LEMMA AdvanceEffect ==
  ASSUME TypeOK, NEW o \in Ops, NEW status \in {"creating", "completed"},
         NEW out \in Outcomes, NEW handler \in Outcomes,
         Advance(o, status, out, handler)
  PROVE  /\ mem' \in [Ops -> Records] /\ disk' \in [Ops -> Records] /\ faults' \in Nat
         /\ \A q \in Ops \ {o} : mem'[q] = mem[q] /\ disk'[q] = disk[q]
         /\ mem'[o].reqs = mem[o].reqs
         /\ disk'[o].reqs \in {disk[o].reqs, mem[o].reqs}
         /\ disk'[o].status \in {disk[o].status, status, "failed"}
         /\ out = "written" => mem'[o].status = status /\ disk'[o].status = status
         /\ out # "written" => mem'[o].status = "failed"
<1> DEFINE next == [mem[o] EXCEPT !.status = status]
           fail == [mem[o] EXCEPT !.status = "failed"]
<1>1. /\ next \in Records /\ next.status = status /\ next.reqs = mem[o].reqs
      /\ fail \in Records /\ fail.status = "failed" /\ fail.reqs = mem[o].reqs
  BY DEF TypeOK
<1>2. mem \in [Ops -> Records] /\ disk \in [Ops -> Records]
  BY DEF TypeOK
<1>3. CASE out = "written"
  <2>1. /\ mem' = [mem EXCEPT ![o] = next] /\ disk' = [disk EXCEPT ![o] = next]
        /\ faults' = faults
    BY <1>3 DEF Advance
  <2> HIDE DEF next, fail
  <2> QED
    BY <1>1, <1>2, <1>3, <2>1 DEF TypeOK
<1>4. CASE out # "written"
  <2>1. /\ mem' = [mem EXCEPT ![o] = fail]
        /\ disk' = Put(Put(disk, o, next, out), o, fail, handler)
        /\ Spend(1 + Raises(handler))
    BY <1>4 DEF Advance
  <2>2. faults' \in Nat
    BY <2>1, RaisesType, SpendType
  <2> HIDE DEF next, fail
  <2> DEFINE file == Put(disk, o, next, out)
  <2>3. /\ file \in [Ops -> Records] /\ file[o] \in {disk[o], next}
        /\ \A q \in Ops \ {o} : file[q] = disk[q]
    BY <1>1, <1>2, PutEffect
  <2>4. disk' = Put(file, o, fail, handler)
    BY <2>1
  <2> HIDE DEF file
  <2>5. /\ disk' \in [Ops -> Records] /\ disk'[o] \in {file[o], fail}
        /\ \A q \in Ops \ {o} : disk'[q] = file[q]
    BY <1>1, <2>3, <2>4, PutEffect
  <2>6. disk'[o] \in {disk[o], next, fail}
    BY <2>3, <2>5
  <2> QED
    BY <1>1, <1>2, <1>4, <2>1, <2>2, <2>3, <2>5, <2>6
<1> QED
  BY <1>3, <1>4

\* Recording the end of a task: a failure in memory and, unless the write is
\* lost, in the file.
LEMMA FailEffect ==
  ASSUME TypeOK, NEW o \in Ops, NEW out \in Outcomes,
         mem' = [mem EXCEPT ![o].status = "failed"],
         disk' = Put(disk, o, mem'[o], out),
         Spend(Raises(out))
  PROVE  /\ mem' \in [Ops -> Records] /\ disk' \in [Ops -> Records] /\ faults' \in Nat
         /\ \A q \in Ops \ {o} : mem'[q] = mem[q] /\ disk'[q] = disk[q]
         /\ mem'[o].reqs = mem[o].reqs /\ mem'[o].status = "failed"
         /\ disk'[o].reqs \in {disk[o].reqs, mem[o].reqs}
         /\ disk'[o].status \in {disk[o].status, "failed"}
<1>1. mem \in [Ops -> Records] /\ disk \in [Ops -> Records]
  BY DEF TypeOK
<1>2. /\ mem' \in [Ops -> Records] /\ \A q \in Ops \ {o} : mem'[q] = mem[q]
      /\ mem'[o].reqs = mem[o].reqs /\ mem'[o].status = "failed"
  BY <1>1
<1>3. /\ disk' \in [Ops -> Records] /\ disk'[o] \in {disk[o], mem'[o]}
      /\ \A q \in Ops \ {o} : disk'[q] = disk[q]
  BY <1>1, <1>2 DEF Put
<1>4. faults' \in Nat
  BY RaisesType, SpendType
<1> QED
  BY <1>1, <1>2, <1>3, <1>4

-----------------------------------------------------------------------------
(* Acceptance *)

\* Joining adds a request to an unfinished operation and changes no status.
LEMMA JoinKeeps ==
  ASSUME IInv, NEW r \in Requests, NEW s \in Sources, NEW t \in Targets, NEW o \in Ops,
         NEW out \in Outcomes, Join(r, s, t, o, out)
  PROVE  IInv'
<1> USE DEF IInv
<1>1. /\ o \in Unfinished
      /\ mem' = [mem EXCEPT ![o].reqs = @ \cup {r}]
      /\ disk' = Put(disk, o, mem'[o], out)
      /\ requests' = IF out = "written" THEN [requests EXCEPT ![r] = o] ELSE requests
      /\ Spend(Raises(out))
      /\ UNCHANGED <<host, about, task, native, ran>>
  BY DEF Join, Busy
<1>2. mem \in [Ops -> Records] /\ disk \in [Ops -> Records]
  BY DEF TypeOK
<1>3. /\ mem' \in [Ops -> Records] /\ \A q \in Ops \ {o} : mem'[q] = mem[q]
      /\ mem'[o].status = mem[o].status /\ mem'[o].reqs = mem[o].reqs \cup {r}
  BY <1>1, <1>2
<1>4. /\ disk' \in [Ops -> Records] /\ disk'[o] \in {disk[o], mem'[o]}
      /\ \A q \in Ops \ {o} : disk'[q] = disk[q]
  BY <1>1, <1>2, <1>3 DEF Put
<1>5. faults' \in Nat
  BY <1>1, RaisesType, SpendType
<1>6. /\ requests' \in [Requests -> Ops \cup {NoOp}]
      /\ \A q \in Requests : requests[q] # NoOp => requests'[q] # NoOp
  BY <1>1 DEF TypeOK
<1>7. /\ \A q \in Ops : mem'[q].status = mem[q].status /\ mem[q].reqs \subseteq mem'[q].reqs
      /\ \A q \in Ops : disk'[q].status \in {disk[q].status, mem[q].status}
      /\ \A q \in Ops : disk'[q].reqs \in {disk[q].reqs, mem'[q].reqs}
      /\ mem[o].status \notin {"absent", "completed"}
  <2>1. mem[o].status \notin {"absent", "completed"}
    BY <1>1 DEF Unfinished, Known
  <2>2. \A q \in Ops : mem'[q].status = mem[q].status /\ mem[q].reqs \subseteq mem'[q].reqs
    BY <1>3
  <2>3. \A q \in Ops : disk'[q] \in {disk[q], mem'[q]}
    BY <1>4
  <2> QED
    BY <2>1, <2>2, <2>3
<1> DEFINE others == UNCHANGED <<host, about, task, native, ran>>
<1>14. others /\ \A q \in Ops \ {o} : disk'[q] = disk[q]
  BY <1>1, <1>4
<1>8. TypeOK'
  BY <1>1, <1>3, <1>4, <1>5, <1>6 DEF TypeOK
<1>9. Tasked' /\ Forgotten'
  BY <1>7, <1>14 DEF Tasked, Forgotten, Unfinished, Known
<1>10. Filed'
  BY <1>7, <1>14 DEF Filed
<1>11. Fresh'
  <2>1. o \in Ops /\ about[o] # Nothing
    BY <1>7 DEF Fresh
  <2> QED
    BY <1>7, <1>14, <2>1 DEF Fresh
<1>12. AskedOnce'
  BY <1>14 DEF AskedOnce
<1>13. Claimed'
  <2>1. \A q \in ran : about[q].first \in Requests /\ q \in Ops
    BY DEF TypeOK, Accepted, Nothing, Fresh
  <2>2. \A q \in ran : host # "down" => requests'[about[q].first] # NoOp
    BY <1>6, <2>1 DEF Claimed
  <2>3. \A q \in ran : host # "down" => about[q].first \in mem'[q].reqs
    BY <1>7, <2>1 DEF Claimed
  <2>4. host # "down"
    BY <1>7 DEF Forgotten
  <2>5. \A q \in ran : about[q].first \in disk'[q].reqs
    BY <1>7, <2>1, <2>3, <2>4 DEF Claimed
  <2> QED
    BY <1>14, <2>2, <2>3, <2>5 DEF Claimed
<1> QED
  BY <1>8, <1>9, <1>10, <1>11, <1>12, <1>13

\* A new operation is nobody's yet, and its request stood for none before.
LEMMA AcceptKeeps ==
  ASSUME IInv, NEW r \in Requests, NEW s \in Sources, NEW t \in Targets, NEW o \in Ops,
         NEW out \in Outcomes, NEW listed \in 0..launch[s], Accept(r, s, t, listed, o, out)
  PROVE  IInv'
<1> DEFINE op == [status |-> "waiting_source", reqs |-> {r}]
           frozen == [used |-> TRUE, src |-> s, tgt |-> t, launch |-> listed, first |-> r]
<1> USE DEF IInv
<1>1. /\ Serving /\ requests[r] = NoOp /\ about[o] = Nothing
      /\ about' = [about EXCEPT ![o] = frozen]
      /\ disk' = Put(disk, o, op, out)
      /\ Spend(Raises(out))
      /\ UNCHANGED <<host, native>>
  BY DEF Accept, NewRequest
<1>2. /\ out = "written" => /\ mem' = [mem EXCEPT ![o] = op]
                            /\ requests' = [requests EXCEPT ![r] = o]
                            /\ task' = [task EXCEPT ![o] = "begin"]
                            /\ ran' = ran \cup {o}
      /\ out # "written" => UNCHANGED <<mem, requests, task, ran>>
  BY DEF Accept
<1>3. op \in Records /\ op.status = "waiting_source" /\ op.reqs = {r}
  OBVIOUS
<1>4. /\ frozen \in Accepted /\ frozen # Nothing /\ frozen.first = r
  <2>1. listed \in Nat
    BY DEF TypeOK
  <2> QED
    BY <2>1 DEF Accepted, Nothing
<1> HIDE DEF op, frozen
<1>5. disk \in [Ops -> Records] /\ mem \in [Ops -> Records]
  BY DEF TypeOK
<1>6. /\ disk' \in [Ops -> Records] /\ disk'[o] \in {disk[o], op}
      /\ out = "written" => disk'[o] = op
      /\ \A q \in Ops \ {o} : disk'[q] = disk[q]
  BY <1>1, <1>3, <1>5, PutEffect
<1>7. faults' \in Nat
  BY <1>1, RaisesType, SpendType
<1>8. /\ about' \in [Ops -> Accepted \cup {Nothing}] /\ about'[o] = frozen
      /\ \A q \in Ops \ {o} : about'[q] = about[q]
  BY <1>1, <1>4 DEF TypeOK
<1>9. host # "down" /\ host' = host /\ calls' = calls /\ sessions' = sessions
  BY <1>1 DEF Serving
<1>10. /\ mem[o].status = "absent" /\ task[o] = "none" /\ sessions[o] = 0
       /\ <<o, "create">> \notin calls /\ o \notin ran
  BY <1>1 DEF Fresh, Tasked, Unfinished, Known
<1>11. \A q \in ran : about[q].first \in Requests
  BY DEF TypeOK, Accepted, Nothing, Fresh
<1>12. CASE out = "written"
  <2>1. /\ mem' \in [Ops -> Records] /\ mem'[o] = op
        /\ \A q \in Ops \ {o} : mem'[q] = mem[q]
    BY <1>2, <1>3, <1>5, <1>12
  <2>2. /\ task' \in [Ops -> Places] /\ task'[o] = "begin"
        /\ \A q \in Ops \ {o} : task'[q] = task[q]
    BY <1>2, <1>12 DEF TypeOK
  <2>3. /\ requests' \in [Requests -> Ops \cup {NoOp}] /\ requests'[r] # NoOp
        /\ \A q \in Requests : requests[q] # NoOp => requests'[q] # NoOp
    BY <1>2, <1>12 DEF TypeOK
  <2>4. ran' = ran \cup {o}
    BY <1>2, <1>12
  <2>5. TypeOK'
    BY <1>1, <1>6, <1>7, <1>8, <2>1, <2>2, <2>3, <2>4 DEF TypeOK
  <2>6. Tasked' /\ Forgotten'
    BY <1>3, <1>9, <2>1, <2>2 DEF Tasked, Forgotten, Unfinished, Known
  <2>7. Filed'
    BY <1>3, <1>6, <1>12, <2>1 DEF Filed
  <2>8. Fresh'
    BY <1>4, <1>6, <1>8, <1>9, <2>1, <2>4 DEF Fresh
  <2>9. AskedOnce'
    BY <1>9, <1>10, <2>2 DEF AskedOnce
  <2>10. Claimed'
    <3>1. \A q \in ran : about'[q].first = about[q].first /\ about[q].first # r
      BY <1>1, <1>8, <1>9, <1>10 DEF Claimed, TypeOK
    <3> QED
      BY <1>3, <1>4, <1>6, <1>8, <1>9, <1>10, <1>11, <1>12, <2>1, <2>3, <2>4, <3>1
      DEF Claimed, TypeOK
  <2> QED
    BY <2>5, <2>6, <2>7, <2>8, <2>9, <2>10
<1>13. CASE out # "written"
  <2>1. UNCHANGED <<mem, requests, task, ran>>
    BY <1>2, <1>13
  <2>2. TypeOK'
    BY <1>1, <1>6, <1>7, <1>8, <2>1 DEF TypeOK
  <2>3. Tasked' /\ Forgotten'
    BY <1>9, <2>1 DEF Tasked, Forgotten, Unfinished, Known
  <2>4. Filed'
    BY <1>6, <1>10, <2>1 DEF Filed
  <2>5. Fresh'
    BY <1>4, <1>6, <1>8, <1>9, <2>1 DEF Fresh
  <2>6. AskedOnce'
    BY <1>9, <2>1 DEF AskedOnce
  <2>7. Claimed'
    <3>1. \A q \in ran : about'[q] = about[q] /\ disk'[q] = disk[q]
      BY <1>6, <1>8, <1>10 DEF TypeOK
    <3> QED
      BY <1>9, <2>1, <3>1 DEF Claimed
  <2> QED
    BY <2>2, <2>3, <2>4, <2>5, <2>6, <2>7
<1> QED
  BY <1>12, <1>13

-----------------------------------------------------------------------------
(* The task of an operation *)

\* What a task records about its own operation disturbs neither the files of
\* the others nor what requests stand for.
LEMMA RecordKeeps ==
  ASSUME IInv, NEW o \in Ops, task[o] # "none",
         \A q \in Ops \ {o} : mem'[q] = mem[q] /\ disk'[q] = disk[q],
         mem'[o].reqs = mem[o].reqs,
         disk'[o].reqs \in {disk[o].reqs, mem[o].reqs},
         mem'[o].status # "absent",
         disk'[o].status \in {disk[o].status, mem'[o].status, "creating", "completed", "failed"},
         mem'[o].status = "completed" => disk'[o].status = "completed",
         UNCHANGED <<host, requests, about, ran>>
  PROVE  /\ Forgotten' /\ Filed' /\ Claimed'
         /\ \A q \in Ops : about'[q] = Nothing =>
              q # o /\ mem'[q].status = "absent" /\ disk'[q].status = "absent" /\ q \notin ran'
<1> USE DEF IInv
<1>1. mem[o].status # "absent" /\ host # "down" /\ disk[o].status # "absent"
  BY DEF Tasked, Unfinished, Known, Filed
<1>2. Forgotten'
  BY <1>1 DEF Forgotten
<1>3. Filed'
  BY <1>1 DEF Filed
<1>4. Claimed'
  <2>1. \A q \in ran : q \in Ops
    BY DEF TypeOK
  <2>2. \A q \in ran : about[q].first \in mem'[q].reqs
    BY <1>1, <2>1 DEF Claimed
  <2>3. \A q \in ran : about[q].first \in disk'[q].reqs
    BY <1>1, <2>1, <2>2 DEF Claimed
  <2> QED
    BY <1>1, <2>2, <2>3 DEF Claimed
<1>5. \A q \in Ops : about'[q] = Nothing =>
        q # o /\ mem'[q].status = "absent" /\ disk'[q].status = "absent" /\ q \notin ran'
  BY <1>1 DEF Fresh
<1> QED
  BY <1>2, <1>3, <1>4, <1>5

\* Sending the prompt asks for nothing but the prompt.
LEMMA BeginKeeps ==
  ASSUME IInv, NEW o \in Ops, Begin(o)
  PROVE  IInv'
<1> USE DEF IInv
<1>1. /\ task[o] = "begin" /\ task' = [task EXCEPT ![o] = "sending"]
      /\ calls' = calls \cup {<<o, "send">>}
      /\ UNCHANGED <<host, mem, disk, requests, about, launch, sessions, ran, faults>>
  BY DEF Begin, At, Goto
<1>2. TypeOK'
  BY <1>1 DEF TypeOK
<1>3. Tasked'
  BY <1>1 DEF Tasked, Unfinished, Known, TypeOK
<1>4. Forgotten' /\ Filed' /\ Claimed'
  BY <1>1 DEF Forgotten, Filed, Claimed
<1>5. \A q \in Ops : <<q, "create">> \in calls' <=> <<q, "create">> \in calls
  BY <1>1
<1>6. Fresh'
  BY <1>1, <1>5 DEF Fresh
<1>7. AskedOnce'
  BY <1>1, <1>5 DEF AskedOnce, TypeOK
<1> QED
  BY <1>2, <1>3, <1>4, <1>6, <1>7

\* The creation is asked for by a task that never asked before.
LEMMA ReadyKeeps ==
  ASSUME IInv, NEW o \in Ops, NEW out \in Outcomes, NEW handler \in Outcomes,
         Ready(o, out, handler)
  PROVE  IInv'
<1> USE DEF IInv
<1>1. /\ task[o] = "sent" /\ host = "up" /\ Advance(o, "creating", out, handler)
      /\ UNCHANGED <<host, requests, about, launch, sessions, ran>>
  BY DEF Ready, At
<1>2. /\ out = "written" => /\ task' = [task EXCEPT ![o] = "creating"]
                            /\ calls' = calls \cup {<<o, "create">>}
      /\ out # "written" => task' = [task EXCEPT ![o] = "none"] /\ calls' = calls
  BY DEF Ready, Goto
<1>3. /\ mem' \in [Ops -> Records] /\ disk' \in [Ops -> Records] /\ faults' \in Nat
      /\ \A q \in Ops \ {o} : mem'[q] = mem[q] /\ disk'[q] = disk[q]
      /\ mem'[o].reqs = mem[o].reqs
      /\ disk'[o].reqs \in {disk[o].reqs, mem[o].reqs}
      /\ disk'[o].status \in {disk[o].status, "creating", "failed"}
      /\ out = "written" => mem'[o].status = "creating"
      /\ out # "written" => mem'[o].status = "failed"
  BY <1>1, AdvanceEffect
<1>4. /\ Forgotten' /\ Filed' /\ Claimed'
      /\ \A q \in Ops : about'[q] = Nothing =>
           q # o /\ mem'[q].status = "absent" /\ disk'[q].status = "absent" /\ q \notin ran'
  BY <1>1, <1>3, RecordKeeps
<1>5. /\ task' \in [Ops -> Places] /\ task'[o] \in {"creating", "none"}
      /\ task'[o] # "none" => out = "written"
      /\ \A q \in Ops \ {o} : task'[q] = task[q]
  BY <1>2 DEF TypeOK
<1>6. /\ calls' \subseteq Ops \X DOMAIN Waits
      /\ \A q \in Ops \ {o} : <<q, "create">> \in calls' <=> <<q, "create">> \in calls
  BY <1>2 DEF TypeOK
<1>7. TypeOK'
  BY <1>1, <1>3, <1>5, <1>6 DEF TypeOK
<1>8. Tasked'
  BY <1>1, <1>3, <1>5 DEF Tasked, Unfinished, Known
<1>9. Fresh'
  BY <1>1, <1>4, <1>6 DEF Fresh
<1>10. sessions[o] = 0 /\ <<o, "create">> \notin calls
  BY <1>1 DEF AskedOnce
<1>11. AskedOnce'
  BY <1>1, <1>5, <1>6, <1>10 DEF AskedOnce
<1> QED
  BY <1>4, <1>7, <1>8, <1>9, <1>11

\* The launch identity of the successor is recorded, and the rename asked for.
LEMMA BindKeeps ==
  ASSUME IInv, NEW o \in Ops, NEW out \in Outcomes, NEW handler \in Outcomes,
         Bind(o, out, handler)
  PROVE  IInv'
<1> USE DEF IInv
<1>1. /\ task[o] = "created" /\ host = "up" /\ Advance(o, "creating", out, handler)
      /\ UNCHANGED <<host, requests, about, launch, sessions, ran>>
  BY DEF Bind, At
<1>2. /\ out = "written" => /\ task' = [task EXCEPT ![o] = "renaming"]
                            /\ calls' = calls \cup {<<o, "rename">>}
      /\ out # "written" => task' = [task EXCEPT ![o] = "none"] /\ calls' = calls
  BY DEF Bind, Goto
<1>3. /\ mem' \in [Ops -> Records] /\ disk' \in [Ops -> Records] /\ faults' \in Nat
      /\ \A q \in Ops \ {o} : mem'[q] = mem[q] /\ disk'[q] = disk[q]
      /\ mem'[o].reqs = mem[o].reqs
      /\ disk'[o].reqs \in {disk[o].reqs, mem[o].reqs}
      /\ disk'[o].status \in {disk[o].status, "creating", "failed"}
      /\ out = "written" => mem'[o].status = "creating"
      /\ out # "written" => mem'[o].status = "failed"
  BY <1>1, AdvanceEffect
<1>4. /\ Forgotten' /\ Filed' /\ Claimed'
      /\ \A q \in Ops : about'[q] = Nothing =>
           q # o /\ mem'[q].status = "absent" /\ disk'[q].status = "absent" /\ q \notin ran'
  BY <1>1, <1>3, RecordKeeps
<1>5. /\ task' \in [Ops -> Places] /\ task'[o] \in {"renaming", "none"}
      /\ task'[o] # "none" => out = "written"
      /\ \A q \in Ops \ {o} : task'[q] = task[q]
  BY <1>2 DEF TypeOK
<1>6. /\ calls' \subseteq Ops \X DOMAIN Waits
      /\ \A q \in Ops : <<q, "create">> \in calls' <=> <<q, "create">> \in calls
  BY <1>2 DEF TypeOK
<1>7. TypeOK'
  BY <1>1, <1>3, <1>5, <1>6 DEF TypeOK
<1>8. Tasked'
  BY <1>1, <1>3, <1>5 DEF Tasked, Unfinished, Known
<1>9. Fresh'
  BY <1>1, <1>4, <1>6 DEF Fresh
<1>10. AskedOnce'
  BY <1>1, <1>5, <1>6 DEF AskedOnce
<1> QED
  BY <1>4, <1>7, <1>8, <1>9, <1>10

\* An operation is complete in memory when its file says so.
LEMMA CompleteKeeps ==
  ASSUME IInv, NEW o \in Ops, NEW out \in Outcomes, NEW handler \in Outcomes,
         Complete(o, out, handler)
  PROVE  IInv'
<1> USE DEF IInv
<1>1. /\ task[o] = "renamed" /\ host = "up" /\ Advance(o, "completed", out, handler)
      /\ task' = [task EXCEPT ![o] = "none"]
      /\ UNCHANGED <<host, requests, about, native, ran>>
  BY DEF Complete, At, Goto
<1>2. /\ mem' \in [Ops -> Records] /\ disk' \in [Ops -> Records] /\ faults' \in Nat
      /\ \A q \in Ops \ {o} : mem'[q] = mem[q] /\ disk'[q] = disk[q]
      /\ mem'[o].reqs = mem[o].reqs
      /\ disk'[o].reqs \in {disk[o].reqs, mem[o].reqs}
      /\ disk'[o].status \in {disk[o].status, "completed", "failed"}
      /\ out = "written" => mem'[o].status = "completed" /\ disk'[o].status = "completed"
      /\ out # "written" => mem'[o].status = "failed"
  BY <1>1, AdvanceEffect
<1>3. /\ Forgotten' /\ Filed' /\ Claimed'
      /\ \A q \in Ops : about'[q] = Nothing =>
           q # o /\ mem'[q].status = "absent" /\ disk'[q].status = "absent" /\ q \notin ran'
  BY <1>1, <1>2, RecordKeeps
<1>4. /\ task' \in [Ops -> Places] /\ task'[o] = "none"
      /\ \A q \in Ops \ {o} : task'[q] = task[q]
  BY <1>1 DEF TypeOK
<1>5. TypeOK'
  BY <1>1, <1>2, <1>4 DEF TypeOK
<1>6. Tasked'
  BY <1>1, <1>2, <1>4 DEF Tasked, Unfinished, Known
<1>7. Fresh'
  BY <1>1, <1>3 DEF Fresh
<1>8. AskedOnce'
  BY <1>1, <1>4 DEF AskedOnce
<1> QED
  BY <1>3, <1>5, <1>6, <1>7, <1>8

\* The end of a task, whatever ended it, is a failure of its operation.
LEMMA EndKeeps ==
  ASSUME IInv, NEW o \in Ops, NEW out \in Outcomes, task[o] # "none",
         mem' = [mem EXCEPT ![o].status = "failed"],
         disk' = Put(disk, o, mem'[o], out),
         task' = [task EXCEPT ![o] = "none"],
         Spend(Raises(out)),
         UNCHANGED <<host, requests, about, native, ran>>
  PROVE  IInv'
<1> USE DEF IInv
<1>1. /\ mem' \in [Ops -> Records] /\ disk' \in [Ops -> Records] /\ faults' \in Nat
      /\ \A q \in Ops \ {o} : mem'[q] = mem[q] /\ disk'[q] = disk[q]
      /\ mem'[o].reqs = mem[o].reqs /\ mem'[o].status = "failed"
      /\ disk'[o].reqs \in {disk[o].reqs, mem[o].reqs}
      /\ disk'[o].status \in {disk[o].status, "failed"}
  BY FailEffect
<1>2. /\ Forgotten' /\ Filed' /\ Claimed'
      /\ \A q \in Ops : about'[q] = Nothing =>
           q # o /\ mem'[q].status = "absent" /\ disk'[q].status = "absent" /\ q \notin ran'
  BY <1>1, RecordKeeps
<1>3. /\ task' \in [Ops -> Places] /\ task'[o] = "none"
      /\ \A q \in Ops \ {o} : task'[q] = task[q]
  BY DEF TypeOK
<1>4. /\ UNCHANGED <<host, requests, about, launch, calls, sessions, ran>>
  OBVIOUS
<1>5. TypeOK'
  <2>1. mem' \in [Ops -> Records] /\ disk' \in [Ops -> Records] /\ task' \in [Ops -> Places] /\ faults' \in Nat
    BY <1>1, <1>3
  <2>2. UNCHANGED <<host, requests, about, launch, calls, sessions, ran>>
    BY <1>4
  <2>3. TypeOK
    OBVIOUS
  <2> HIDE DEF IInv
  <2> QED
    BY <2>1, <2>2, <2>3 DEF TypeOK
<1>6. Tasked'
  BY <1>1, <1>3, <1>4 DEF Tasked, Unfinished, Known
<1>7. Fresh'
  BY <1>2, <1>4 DEF Fresh
<1>8. AskedOnce'
  BY <1>3, <1>4 DEF AskedOnce
<1> QED
  BY <1>2, <1>5, <1>6, <1>7, <1>8

\* A failure or a cancellation ends a task; one that has not begun is silent.
LEMMA EndingKeeps ==
  ASSUME IInv, NEW o \in Ops, NEW out \in Outcomes, Fail(o, out) \/ Cancelled(o, out)
  PROVE  IInv'
<1>1. CASE Fail(o, out)
  BY <1>1, EndKeeps DEF Fail, Goto
<1>2. CASE Cancelled(o, out)
  <2>1. /\ host = "closing" /\ task[o] # "none" /\ task' = [task EXCEPT ![o] = "none"]
        /\ UNCHANGED <<host, requests, about, native, ran>>
    BY <1>2 DEF Cancelled, Goto
  <2>2. CASE UNCHANGED <<mem, disk, faults>>
    <3> USE DEF IInv
    <3>1. /\ task' \in [Ops -> Places] /\ task'[o] = "none"
          /\ \A q \in Ops \ {o} : task'[q] = task[q]
      BY <2>1 DEF TypeOK
    <3>2. TypeOK'
      BY <2>1, <2>2, <3>1 DEF TypeOK
    <3>3. Tasked'
      BY <2>1, <2>2, <3>1 DEF Tasked, Unfinished, Known
    <3>4. Forgotten' /\ Filed' /\ Fresh' /\ Claimed'
      BY <2>1, <2>2 DEF Forgotten, Filed, Fresh, Claimed
    <3>5. AskedOnce'
      BY <2>1, <3>1 DEF AskedOnce
    <3> QED
      BY <3>2, <3>3, <3>4, <3>5
  <2>3. CASE ~ UNCHANGED <<mem, disk, faults>>
    <3>1. /\ mem' = [mem EXCEPT ![o].status = "failed"]
          /\ disk' = Put(disk, o, mem'[o], out)
          /\ Spend(Raises(out))
      BY <1>2, <2>3 DEF Cancelled
    <3> QED
      BY <2>1, <3>1, EndKeeps
  <2> QED
    BY <2>2, <2>3
<1> QED
  BY <1>1, <1>2

-----------------------------------------------------------------------------
(* Start and stop *)

\* An orderly stop asks the native server for nothing more.
LEMMA StoppingKeeps ==
  ASSUME IInv, StopBackend \/ Close
  PROVE  IInv'
<1> USE DEF IInv
<1>1. /\ host # "down" /\ host' \in {"stopping", "closing"} /\ calls' \subseteq calls
      /\ UNCHANGED <<mem, disk, requests, about, task, launch, sessions, ran, faults>>
  BY DEF StopBackend, Close, native
<1>2. TypeOK'
  BY <1>1 DEF TypeOK
<1>3. Tasked' /\ Forgotten' /\ Filed'
  BY <1>1 DEF Tasked, Forgotten, Filed, Unfinished, Known
<1>4. Fresh' /\ Claimed'
  BY <1>1 DEF Fresh, Claimed
<1>5. AskedOnce'
  BY <1>1 DEF AskedOnce
<1> QED
  BY <1>2, <1>3, <1>4, <1>5

\* A host that goes keeps its files, but for the unfinished it fails in order.
LEMMA GoneKeeps ==
  ASSUME IInv, Closed \/ Kill
  PROVE  IInv'
<1> USE DEF IInv
<1>1. /\ host # "down" /\ host' = "down" /\ faults' \in Nat
      /\ mem' = [o \in Ops |-> Absent]
      /\ requests' = [r \in Requests |-> NoOp]
      /\ task' = [o \in Ops |-> "none"]
      /\ UNCHANGED <<about, native, ran>>
  <2>1. CASE Closed
    BY <2>1 DEF Closed, Forget, TypeOK
  <2>2. CASE Kill
    <3>1. faults' \in Nat
      BY <2>2, SpendType DEF Kill
    <3> QED
      BY <2>2, <3>1 DEF Kill, Forget
  <2> QED
    BY <2>1, <2>2
<1>2. /\ disk' \in [Ops -> Records]
      /\ \A o \in Ops : disk[o].status = "absent" /\ mem[o].status = "absent" =>
           disk'[o].status = "absent"
      /\ \A o \in Ops : disk'[o].reqs \in {disk[o].reqs, mem[o].reqs}
  <2>1. CASE Closed
    <3> DEFINE file(o) == IF o \in Unfinished THEN [mem[o] EXCEPT !.status = "failed"]
                          ELSE disk[o]
    <3>1. disk' = [o \in Ops |-> file(o)]
      BY <2>1 DEF Closed
    <3>2. ASSUME NEW o \in Ops
          PROVE  /\ file(o) \in Records
                 /\ file(o).reqs \in {disk[o].reqs, mem[o].reqs}
                 /\ disk[o].status = "absent" /\ mem[o].status = "absent" =>
                      file(o).status = "absent"
      <4>1. mem[o] \in Records /\ disk[o] \in Records
        BY DEF TypeOK
      <4>2. CASE o \in Unfinished
        BY <4>1, <4>2 DEF Unfinished, Known
      <4>3. CASE o \notin Unfinished
        BY <4>1, <4>3
      <4> QED
        BY <4>2, <4>3
    <3> HIDE DEF file
    <3> QED
      BY <3>1, <3>2
  <2>2. CASE Kill
    BY <2>2 DEF Kill, TypeOK
  <2> QED
    BY <2>1, <2>2
<1>3. Absent \in Records /\ Absent.status = "absent"
  BY DEF Absent
<1>4. \A o \in Ops : mem'[o].status = "absent" /\ task'[o] = "none"
  BY <1>1, <1>3
<1>5. TypeOK'
  BY <1>1, <1>2, <1>3 DEF TypeOK
<1>6. Tasked' /\ Forgotten' /\ Filed'
  BY <1>4 DEF Tasked, Forgotten, Filed
<1>7. Fresh'
  BY <1>1, <1>2, <1>4 DEF Fresh
<1>8. AskedOnce'
  BY <1>1, <1>4 DEF AskedOnce
<1>9. Claimed'
  <2>1. \A o \in ran : o \in Ops
    BY DEF TypeOK
  <2> QED
    BY <1>1, <1>2, <2>1 DEF Claimed
<1> QED
  BY <1>5, <1>6, <1>7, <1>8, <1>9

\* What a restart makes of a file: the same requests, and a final status.
LEMMA RestartedEffect ==
  ASSUME NEW op \in Records
  PROVE  /\ Restarted(op) \in Records /\ Restarted(op).reqs = op.reqs
         /\ Restarted(op).status \in Finished \cup {"absent"}
         /\ op.status = "absent" <=> Restarted(op).status = "absent"
         /\ op.status = "completed" => Restarted(op).status = "completed"
BY DEF Restarted

\* A restart reads every operation back, and its first request with it.
LEMMA OpenKeeps ==
  ASSUME IInv, Open
  PROVE  IInv'
<1> USE DEF IInv
<1>1. /\ host = "down" /\ host' = "up"
      /\ disk' = [o \in Ops |-> Restarted(disk[o])] /\ mem' = disk'
      /\ requests' \in [Requests -> Ops \cup {NoOp}]
      /\ UNCHANGED <<about, task, native, ran, faults>>
  BY DEF Open
<1>2. \A o \in Ops : /\ disk'[o] \in Records /\ disk'[o].reqs = disk[o].reqs
                     /\ disk[o].status = "absent" <=> disk'[o].status = "absent"
                     /\ disk'[o].status \in Finished \cup {"absent"}
  <2> SUFFICES ASSUME NEW o \in Ops
               PROVE  /\ disk'[o] \in Records /\ disk'[o].reqs = disk[o].reqs
                      /\ disk[o].status = "absent" <=> disk'[o].status = "absent"
                      /\ disk'[o].status \in Finished \cup {"absent"}
    OBVIOUS
  <2>1. disk[o] \in Records /\ disk'[o] = Restarted(disk[o])
    BY <1>1 DEF TypeOK
  <2> QED
    BY <2>1, RestartedEffect
<1>3. disk' \in [Ops -> Records]
  <2>1. disk' = [o \in Ops |-> disk'[o]]
    BY <1>1
  <2> QED
    BY <1>2, <2>1
<1>4. TypeOK'
  BY <1>1, <1>3 DEF TypeOK
<1>5. \A o \in Ops : task'[o] = "none"
  BY <1>1 DEF Tasked
<1>6. Tasked' /\ Forgotten' /\ Filed'
  BY <1>1, <1>5 DEF Tasked, Forgotten, Filed
<1>7. Fresh'
  BY <1>1, <1>2 DEF Fresh
<1>8. AskedOnce'
  BY <1>1 DEF AskedOnce
<1>9. Claimed'
  <2>1. \A o \in ran : o \in Ops /\ about[o].first \in Requests
    BY DEF TypeOK, Accepted, Nothing, Fresh
  <2>2. ASSUME NEW o \in ran
        PROVE  requests'[about[o].first] # NoOp
    <3> DEFINE r == about[o].first
               held == {q \in Ops : r \in disk[q].reqs}
    <3>1. o \in held
      BY <2>1 DEF Claimed
    <3>2. IF held = {} THEN requests'[r] = NoOp ELSE requests'[r] \in held
      BY <2>1 DEF Open
    <3> QED
      BY <3>1, <3>2
  <2> QED
    BY <1>1, <1>2, <2>1, <2>2 DEF Claimed
<1> QED
  BY <1>4, <1>6, <1>7, <1>8, <1>9

\* A restart that fails has written one file.
LEMMA OpenFailsKeeps ==
  ASSUME IInv, NEW o \in Ops, OpenFails(o)
  PROVE  IInv'
<1> USE DEF IInv
<1>1. /\ host = "down" /\ Spend(1)
      /\ disk' = [disk EXCEPT ![o] = Restarted(disk[o])]
      /\ UNCHANGED <<host, mem, requests, about, task, native, ran>>
  BY DEF OpenFails
<1>2. disk \in [Ops -> Records]
  BY DEF TypeOK
<1>3. /\ disk' \in [Ops -> Records]
      /\ disk'[o].reqs = disk[o].reqs
      /\ disk[o].status = "absent" <=> disk'[o].status = "absent"
      /\ \A q \in Ops \ {o} : disk'[q] = disk[q]
  BY <1>1, <1>2, RestartedEffect
<1>4. \A q \in Ops : mem[q].status = "absent"
  BY <1>1 DEF Forgotten
<1>5. faults' \in Nat
  BY <1>1, SpendType
<1>6. TypeOK'
  BY <1>1, <1>3, <1>5 DEF TypeOK
<1>7. Tasked' /\ Forgotten' /\ Filed'
  BY <1>1, <1>4 DEF Tasked, Forgotten, Filed, Unfinished, Known
<1>8. Fresh'
  BY <1>1, <1>3 DEF Fresh
<1>9. AskedOnce'
  BY <1>1 DEF AskedOnce
<1>10. Claimed'
  <2>1. \A q \in ran : q \in Ops
    BY DEF TypeOK
  <2> QED
    BY <1>1, <1>3, <2>1 DEF Claimed
<1> QED
  BY <1>6, <1>7, <1>8, <1>9, <1>10

-----------------------------------------------------------------------------
(* The native server *)

\* A creation that is carried out was asked for once and is asked for no more.
LEMMA CarryKeeps ==
  ASSUME IInv, NEW o \in Ops, NEW kind \in DOMAIN Waits, Carry(o, kind)
  PROVE  IInv'
<1> USE DEF IInv
<1>1. /\ <<o, kind>> \in calls /\ calls' = calls \ {<<o, kind>>}
      /\ task' = IF task[o] = Waits[kind] THEN [task EXCEPT ![o] = Answers[kind]] ELSE task
      /\ sessions' = IF kind = "create" THEN [sessions EXCEPT ![o] = @ + 1] ELSE sessions
      /\ UNCHANGED <<host, mem, disk, requests, about, launch, ran, faults>>
  BY DEF Carry
<1>2. kind \in {"send", "create", "rename"}
  OBVIOUS
<1>3. /\ Answers[kind] \in {"sent", "created", "renamed"}
      /\ Waits[kind] # "none"
      /\ kind = "send" => Waits[kind] = "sending" /\ Answers[kind] = "sent"
      /\ kind # "send" => Answers[kind] \in {"created", "renamed"}
  BY <1>2
<1>4. /\ task' \in [Ops -> Places]
      /\ \A q \in Ops : task'[q] # "none" => task[q] # "none"
      /\ \A q \in Ops : task'[q] \in {"begin", "sending", "sent"} =>
           task[q] \in {"begin", "sending", "sent"}
  BY <1>1, <1>3 DEF TypeOK
<1>5. /\ sessions' \in [Ops -> Nat]
      /\ \A q \in Ops : sessions'[q] # sessions[q] =>
           /\ q = o /\ kind = "create" /\ sessions'[q] = sessions[q] + 1
  BY <1>1 DEF TypeOK
<1>6. calls' \subseteq calls
  BY <1>1
<1>7. TypeOK'
  BY <1>1, <1>4, <1>5, <1>6 DEF TypeOK
<1>8. Tasked'
  BY <1>1, <1>4 DEF Tasked, Unfinished, Known
<1>9. Forgotten' /\ Filed' /\ Claimed'
  BY <1>1 DEF Forgotten, Filed, Claimed
<1>10. \A q \in Ops : sessions'[q] # sessions[q] => <<q, "create">> \in calls
  BY <1>1, <1>5
<1>11. Fresh'
  BY <1>1, <1>6, <1>10 DEF Fresh
<1>12. AskedOnce'
  <2> SUFFICES ASSUME NEW q \in Ops
               PROVE  /\ sessions'[q] <= 1
                      /\ task'[q] \in {"begin", "sending", "sent"} \/ <<q, "create">> \in calls'
                           => sessions'[q] = 0
                      /\ task'[q] \in {"begin", "sending", "sent"} => <<q, "create">> \notin calls'
    BY DEF AskedOnce
  <2>1. CASE sessions'[q] = sessions[q]
    BY <1>4, <1>6, <2>1 DEF AskedOnce
  <2>2. CASE sessions'[q] # sessions[q]
    <3>1. q = o /\ kind = "create" /\ sessions'[q] = sessions[q] + 1
      BY <1>5, <2>2
    <3>2. sessions[q] = 0 /\ task[q] \notin {"begin", "sending", "sent"}
      BY <1>10, <2>2 DEF AskedOnce
    <3>3. <<q, "create">> \notin calls'
      BY <1>1, <3>1
    <3> QED
      BY <1>4, <3>1, <3>2, <3>3
  <2> QED
    BY <2>1, <2>2
<1> QED
  BY <1>7, <1>8, <1>9, <1>11, <1>12

\* A source that is started again concerns no operation's state.
LEMMA RelaunchKeeps ==
  ASSUME IInv, NEW s \in Sources, Relaunch(s)
  PROVE  IInv'
<1> USE DEF IInv
<1>1. /\ launch' = [launch EXCEPT ![s] = @ + 1]
      /\ UNCHANGED <<loop, calls, sessions, ran, faults>>
  BY DEF Relaunch
<1>2. TypeOK'
  BY <1>1 DEF TypeOK
<1>3. Tasked' /\ Forgotten' /\ Filed' /\ Fresh' /\ AskedOnce' /\ Claimed'
  BY <1>1 DEF Tasked, Forgotten, Filed, Fresh, AskedOnce, Claimed, Unfinished, Known
<1> QED
  BY <1>2, <1>3

-----------------------------------------------------------------------------
(* Invariance *)

\* Every step of the handoff keeps the invariant.
LEMMA StepKeeps == IInv /\ [Next]_vars => IInv'
<1> SUFFICES ASSUME IInv, [Next]_vars PROVE IInv'
  OBVIOUS
<1>1. CASE \E r \in Requests, s \in Sources, t \in Targets, o \in Ops : Browser(r, s, t, o)
  BY <1>1, JoinKeeps, AcceptKeeps DEF Browser
<1>2. CASE \E o \in Ops : Progress(o)
  BY <1>2, BeginKeeps, ReadyKeeps, BindKeeps, CompleteKeeps DEF Progress
<1>3. CASE \E o \in Ops : Ending(o)
  BY <1>3, EndingKeeps DEF Ending
<1>4. CASE Lifecycle
  BY <1>4, StoppingKeeps, GoneKeeps, OpenKeeps, OpenFailsKeeps DEF Lifecycle
<1>5. CASE Native
  BY <1>5, CarryKeeps, RelaunchKeeps DEF Native
<1>6. CASE UNCHANGED vars
  <2>1. TypeOK'
    BY <1>6 DEF vars, IInv, TypeOK
  <2>2. Tasked' /\ Forgotten' /\ Filed' /\ Fresh' /\ AskedOnce' /\ Claimed'
    BY <1>6 DEF vars, IInv, Tasked, Forgotten, Filed, Fresh, AskedOnce, Claimed,
                Unfinished, Known
  <2> QED
    BY <2>1, <2>2 DEF IInv
<1> QED
  BY <1>1, <1>2, <1>3, <1>4, <1>5, <1>6 DEF Next

\* The inductive invariant holds in every reachable state: of the engine in
\* memory, its files, the native server and what was asked of it.
THEOREM Invariance == Spec => []IInv
BY InitHolds, StepKeeps, PTL DEF Spec

\* The engine's and the native server's state keep their types.
THEOREM TypeCorrect == Spec => []TypeOK
<1>1. IInv => TypeOK
  BY DEF IInv
<1> QED
  BY <1>1, Invariance, PTL

\* A request starts one operation and an operation one native successor,
\* whatever is lost, repeated, late or restarted (engine.py's start and _run).
THEOREM AlwaysOneSuccessor == Spec => []OneSuccessor
<1>1. IInv => OneSuccessor
  BY DEF IInv, AskedOnce, Claimed, OneSuccessor
<1> QED
  BY <1>1, Invariance, PTL

-----------------------------------------------------------------------------
(* What is finished *)

\* An operation whose record a step leaves alone stays finished.
LEMMA AloneStays ==
  ASSUME IInv, NEW o \in Ops, mem'[o] = mem[o], disk'[o] = disk[o]
  PROVE  StaysFinished(o)
BY DEF IInv, Filed, StaysFinished

\* A step of a running host that writes the record of one operation, which is
\* not finished, leaves what is finished.
LEMMA OneRecordStays ==
  ASSUME IInv, NEW o \in Ops, host # "down", mem[o].status \notin Finished,
         \A q \in Ops \ {o} : mem'[q] = mem[q] /\ disk'[q] = disk[q]
  PROVE  \A q \in Ops : StaysFinished(q)
<1>1. StaysFinished(o)
  BY DEF StaysFinished
<1>2. \A q \in Ops \ {o} : StaysFinished(q)
  BY AloneStays
<1> QED
  BY <1>1, <1>2

\* Acceptance writes a record that is new or unfinished.
LEMMA BrowserStays ==
  ASSUME IInv, NEW r \in Requests, NEW s \in Sources, NEW t \in Targets, NEW o \in Ops,
         Browser(r, s, t, o)
  PROVE  \A q \in Ops : StaysFinished(q)
<1>1. mem \in [Ops -> Records] /\ disk \in [Ops -> Records]
  BY DEF IInv, TypeOK
<1>2. PICK out \in Outcomes :
        Join(r, s, t, o, out) \/ \E listed \in 0..launch[s] : Accept(r, s, t, listed, o, out)
  BY DEF Browser
<1>3. CASE Join(r, s, t, o, out)
  <2>1. /\ host # "down" /\ mem[o].status \notin Finished
        /\ \A q \in Ops \ {o} : mem'[q] = mem[q]
    BY <1>1, <1>3 DEF Join, Serving, Busy, Unfinished
  <2>2. \A q \in Ops \ {o} : disk'[q] = disk[q]
    BY <1>1, <1>3 DEF Join, Put
  <2> QED
    BY <2>1, <2>2, OneRecordStays
<1>4. CASE \E listed \in 0..launch[s] : Accept(r, s, t, listed, o, out)
  <2>1. host # "down" /\ mem[o].status \notin Finished
    BY <1>4 DEF Accept, Serving, IInv, Fresh
  <2>2. \A q \in Ops \ {o} : mem'[q] = mem[q] /\ disk'[q] = disk[q]
    BY <1>1, <1>4 DEF Accept, Put
  <2> QED
    BY <2>1, <2>2, OneRecordStays
<1> QED
  BY <1>2, <1>3, <1>4

\* A task writes its own record, which is unfinished as long as it runs.
LEMMA TaskStays ==
  ASSUME IInv, NEW o \in Ops, Progress(o) \/ Ending(o)
  PROVE  \A q \in Ops : StaysFinished(q)
<1>1. TypeOK /\ mem \in [Ops -> Records] /\ disk \in [Ops -> Records]
  BY DEF IInv, TypeOK
<1>2. task[o] # "none"
  BY DEF Progress, Ending, Begin, Ready, Bind, Complete, At, Fail, Cancelled
<1>3. host # "down" /\ mem[o].status \notin Finished
  BY <1>2 DEF IInv, Tasked, Unfinished
<1>4. \A q \in Ops \ {o} : mem'[q] = mem[q] /\ disk'[q] = disk[q]
  <2>1. CASE Begin(o)
    BY <2>1 DEF Begin
  <2>2. CASE \E out, handler \in Outcomes :
               Ready(o, out, handler) \/ Bind(o, out, handler) \/ Complete(o, out, handler)
    <3>1. PICK out \in Outcomes, handler \in Outcomes, status \in {"creating", "completed"} :
            Advance(o, status, out, handler)
      BY <2>2 DEF Ready, Bind, Complete
    <3> QED
      BY <1>1, <3>1, AdvanceEffect
  <2>3. CASE \E out \in Outcomes : Fail(o, out) \/ Cancelled(o, out)
    BY <1>1, <2>3 DEF Fail, Cancelled, Put
  <2> QED
    BY <2>1, <2>2, <2>3 DEF Progress, Ending
<1> QED
  BY <1>3, <1>4, OneRecordStays

\* A stop, a kill and a restart keep every final record.
LEMMA LifecycleStays ==
  ASSUME IInv, Lifecycle, NEW o \in Ops
  PROVE  StaysFinished(o)
<1>1. CASE StopBackend \/ Close
  BY <1>1, AloneStays DEF StopBackend, Close
<1>2. CASE Closed \/ Kill
  <2>1. host # "down" /\ mem'[o].status = "absent"
    BY <1>2 DEF Closed, Kill, Forget, Absent
  <2>2. mem[o].status \in Finished => disk'[o] = disk[o]
    BY <1>2 DEF Closed, Kill, Unfinished
  <2> QED
    BY <2>1, <2>2 DEF StaysFinished, IInv, Filed
<1>3. CASE Open \/ \E q \in Ops : OpenFails(q)
  <2>1. host = "down" /\ mem[o].status = "absent"
    BY <1>3 DEF Open, OpenFails, IInv, Forgotten
  <2>2. disk[o] \in Records
    BY DEF IInv, TypeOK
  <2>3. disk'[o] \in {disk[o], Restarted(disk[o])}
    BY <1>3 DEF Open, OpenFails, IInv, TypeOK
  <2> QED
    BY <2>1, <2>2, <2>3, RestartedEffect DEF StaysFinished
<1> QED
  BY <1>1, <1>2, <1>3 DEF Lifecycle

\* What was reported as finished stays so, restarts included.
THEOREM StaysFinishedForGood == Spec => FinishedForGood
<1>1. IInv /\ [Next]_vars => [\A o \in Ops : StaysFinished(o)]_vars
  <2> SUFFICES ASSUME IInv, Next PROVE \A o \in Ops : StaysFinished(o)
    OBVIOUS
  <2>1. CASE Native
    <3>1. mem' = mem /\ disk' = disk
      BY <2>1 DEF Native, Carry, Relaunch
    <3> QED
      BY <3>1, AloneStays
  <2> QED
    BY <2>1, BrowserStays, TaskStays, LifecycleStays DEF Next
<1> QED
  BY <1>1, Invariance, PTL DEF Spec, FinishedForGood
=============================================================================
