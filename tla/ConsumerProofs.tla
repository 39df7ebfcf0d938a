--------------------------- MODULE ConsumerProofs ---------------------------
(***************************************************************************)
(* Theorems about Consumer: for every set of sockets, units and packets    *)
(* the registry follows the sockets, no lookup in it ever misses, and the  *)
(* server keeps the promise of Sessions.                                   *)
(*                                                                         *)
(* The first half follows one socket through the queue of its unit.  The   *)
(* second follows what it asked: what a connection was sent and what it    *)
(* still gets is, at any moment, the answer to all it asked, the replies   *)
(* that are out, then those the handler at work has left, then the answers *)
(* to the packets behind it in the worker, in the queue and in flight.     *)
(***************************************************************************)
EXTENDS Consumer, SequenceLemmas

-----------------------------------------------------------------------------
(* The life of one socket, as a predicate of the queue of its unit, the     *)
(* socket, its state and whether it is registered.                          *)

Of(q, s, i)     == i \in 1 .. Len(q) /\ q[i].socket = s
At(q, k, s, i)  == Of(q, s, i) /\ q[i].kind = k

\* A connected event comes before every other event of its socket.
ConnectedFirst(q, s) ==
    \A i, j \in 1 .. Len(q) : At(q, "connected", s, i) /\ Of(q, s, j) /\ i # j => i < j

\* There is at most one disconnected event.
DisconnectedOnce(q, s) ==
    \A i, j \in 1 .. Len(q) : At(q, "disconnected", s, i) /\ At(q, "disconnected", s, j) => i = j

Waits(q, k, s) == \E i \in 1 .. Len(q) : At(q, k, s, i)

Lives(q, s, st, registered) ==
    /\ ConnectedFirst(q, s)
    /\ DisconnectedOnce(q, s)
    /\ Waits(q, "connected", s) => ~registered /\ st # "new"
    /\ Waits(q, "disconnected", s) => st = "closed"
    /\ registered => st # "new"
    /\ registered \/ Waits(q, "connected", s)
         => (st = "closed" <=> Waits(q, "disconnected", s))
    /\ Waits(q, "disconnected", s) \/ st \in {"open", "closing"}
         => registered \/ Waits(q, "connected", s)
    /\ st = "new" => \A i \in 1 .. Len(q) : ~Of(q, s, i)

LEMMA AppendFacts ==
    ASSUME NEW q \in Seq(Events), NEW e \in Events
    PROVE  /\ Append(q, e) \in Seq(Events)
           /\ Len(Append(q, e)) = Len(q) + 1
           /\ Len(q) \in Nat
           /\ \A i \in 1 .. Len(q) : Append(q, e)[i] = q[i]
           /\ Append(q, e)[Len(q) + 1] = e
    OBVIOUS

LEMMA TailFacts ==
    ASSUME NEW q \in Seq(Events), q # <<>>
    PROVE  /\ Tail(q) \in Seq(Events)
           /\ Len(q) \in Nat /\ Len(q) >= 1
           /\ Len(Tail(q)) = Len(q) - 1
           /\ \A i \in 1 .. Len(q) - 1 : Tail(q)[i] = q[i + 1]
           /\ Head(q) = q[1]
           /\ Head(q) \in Events
    OBVIOUS

\* What Append and Tail do to the events of a socket: a is q with e behind it, and t is
\* q without its first event.
Longer(a, q, e, s) ==
    /\ Len(q) \in Nat
    /\ Len(a) = Len(q) + 1
    /\ \A i \in 1 .. Len(q) : Of(a, s, i) <=> Of(q, s, i)
    /\ \A i \in 1 .. Len(q) : \A k : At(a, k, s, i) <=> At(q, k, s, i)
    /\ Of(a, s, Len(q) + 1) <=> e.socket = s
    /\ \A k : At(a, k, s, Len(q) + 1) <=> e.socket = s /\ e.kind = k

Shorter(t, q, s) ==
    /\ Len(q) \in Nat /\ Len(q) >= 1
    /\ Len(t) = Len(q) - 1
    /\ \A i \in 1 .. Len(q) - 1 : Of(t, s, i) <=> Of(q, s, i + 1)
    /\ \A i \in 1 .. Len(q) - 1 : \A k : At(t, k, s, i) <=> At(q, k, s, i + 1)
    /\ Of(q, s, 1) <=> Head(q).socket = s
    /\ \A k : At(q, k, s, 1) <=> Head(q).socket = s /\ Head(q).kind = k

LEMMA Appended ==
    ASSUME NEW q \in Seq(Events), NEW e \in Events, NEW s
    PROVE  Longer(Append(q, e), q, e, s)
<1> DEFINE a == Append(q, e)
<1>1. /\ Len(a) = Len(q) + 1
      /\ Len(q) \in Nat
      /\ \A i \in 1 .. Len(q) : a[i] = q[i]
      /\ a[Len(q) + 1] = e
  BY AppendFacts
<1> HIDE DEF a
<1>2. Longer(a, q, e, s)
  BY <1>1 DEF Longer, At, Of
<1> QED
  BY <1>2 DEF a

LEMMA Taken ==
    ASSUME NEW q \in Seq(Events), q # <<>>, NEW s
    PROVE  Shorter(Tail(q), q, s)
<1> DEFINE t == Tail(q)
<1>1. /\ Len(q) \in Nat /\ Len(q) >= 1
      /\ Len(t) = Len(q) - 1
      /\ \A i \in 1 .. Len(q) - 1 : t[i] = q[i + 1]
      /\ Head(q) = q[1]
  BY TailFacts
<1> HIDE DEF t
<1>2. Shorter(t, q, s)
  BY <1>1 DEF Shorter, At, Of
<1> QED
  BY <1>2 DEF t

\* Which places a longer queue has, and which events wait in it.
LEMMA Places ==
    ASSUME NEW a, NEW q, NEW e, NEW s, Longer(a, q, e, s)
    PROVE  /\ \A i \in 1 .. Len(a) : i \in 1 .. Len(q) \/ i = Len(q) + 1
           /\ \A i \in 1 .. Len(q) : i \in 1 .. Len(a) /\ i < Len(q) + 1
           /\ Len(q) + 1 \in 1 .. Len(a)
  BY DEF Longer

LEMMA WaitsInLonger ==
    ASSUME NEW a, NEW q, NEW e, NEW s, Longer(a, q, e, s)
    PROVE  \A k : Waits(a, k, s) <=> Waits(q, k, s) \/ (e.socket = s /\ e.kind = k)
<1> TAKE k
<1> DEFINE n == Len(q) + 1
<1>1. /\ \A i \in 1 .. Len(a) : i \in 1 .. Len(q) \/ i = n
      /\ \A i \in 1 .. Len(q) : i \in 1 .. Len(a)
      /\ n \in 1 .. Len(a)
  BY Places
<1>2. /\ \A i \in 1 .. Len(q) : At(a, k, s, i) <=> At(q, k, s, i)
      /\ At(a, k, s, n) <=> e.socket = s /\ e.kind = k
  BY DEF Longer
<1> HIDE DEF n
<1>3. ASSUME Waits(a, k, s) PROVE Waits(q, k, s) \/ (e.socket = s /\ e.kind = k)
  <2>1. PICK i \in 1 .. Len(a) : At(a, k, s, i)
    BY <1>3 DEF Waits
  <2>2. CASE i \in 1 .. Len(q)
    BY <1>2, <2>1, <2>2 DEF Waits
  <2>3. CASE i = n
    BY <1>2, <2>1, <2>3
  <2> QED
    BY <1>1, <2>2, <2>3
<1>4. Waits(q, k, s) \/ (e.socket = s /\ e.kind = k) => Waits(a, k, s)
  BY <1>1, <1>2 DEF Waits
<1> QED
  BY <1>3, <1>4

LEMMA LongerOrdered ==
    ASSUME NEW a, NEW q, NEW e, NEW s, Longer(a, q, e, s),
           ConnectedFirst(q, s), DisconnectedOnce(q, s)
    PROVE  /\ (e.socket = s /\ e.kind = "connected" => \A i \in 1 .. Len(q) : ~Of(q, s, i))
                => ConnectedFirst(a, s)
           /\ ~(e.socket = s /\ e.kind = "disconnected" /\ Waits(q, "disconnected", s))
                => DisconnectedOnce(a, s)
<1>1. ASSUME e.socket = s /\ e.kind = "connected" => \A i \in 1 .. Len(q) : ~Of(q, s, i)
      PROVE  ConnectedFirst(a, s)
  BY <1>1, Places DEF Longer, ConnectedFirst
<1>2. ASSUME ~(e.socket = s /\ e.kind = "disconnected" /\ Waits(q, "disconnected", s))
      PROVE  DisconnectedOnce(a, s)
  BY <1>2, Places DEF Longer, DisconnectedOnce, Waits
<1> QED
  BY <1>1, <1>2

\* An event of another socket is queued.
LEMMA OtherQueued ==
    ASSUME NEW a, NEW q, NEW e, NEW s, Longer(a, q, e, s), NEW st, NEW r \in BOOLEAN,
           Lives(q, s, st, r), e.socket # s
    PROVE  Lives(a, s, st, r)
<1>1. ~Of(a, s, Len(q) + 1)
  BY DEF Longer
<1>2. st = "new" => \A i \in 1 .. Len(a) : ~Of(a, s, i)
  BY <1>1, Places DEF Longer, Lives
<1>5. \A k : Waits(a, k, s) <=> Waits(q, k, s) \/ (e.socket = s /\ e.kind = k)
  BY WaitsInLonger
<1>3. /\ Waits(a, "connected", s) <=> Waits(q, "connected", s)
      /\ Waits(a, "disconnected", s) <=> Waits(q, "disconnected", s)
  BY <1>5
<1>4. ConnectedFirst(a, s) /\ DisconnectedOnce(a, s)
  BY LongerOrdered DEF Lives
<1> QED
  BY <1>2, <1>3, <1>4 DEF Lives

\* The socket is accepted.
LEMMA ConnectedQueued ==
    ASSUME NEW a, NEW q, NEW e, NEW s, Longer(a, q, e, s), NEW r \in BOOLEAN,
           Lives(q, s, "new", r), e.socket = s, e.kind = "connected"
    PROVE  Lives(a, s, "open", r)
<1>1. \A i \in 1 .. Len(q) : ~Of(q, s, i)
  BY DEF Lives
<1>2. ConnectedFirst(a, s) /\ DisconnectedOnce(a, s)
  BY <1>1, LongerOrdered DEF Lives
<1>3. \A k : Waits(a, k, s) <=> Waits(q, k, s) \/ (e.socket = s /\ e.kind = k)
  BY WaitsInLonger
<1>4. ~Waits(q, "disconnected", s)
  BY <1>1 DEF Waits, At
<1>5. Waits(a, "connected", s) /\ ~Waits(a, "disconnected", s)
  BY <1>3, <1>4
<1> QED
  BY <1>2, <1>5 DEF Lives

\* A segment of the socket is queued.
LEMMA ReceivedQueued ==
    ASSUME NEW a, NEW q, NEW e, NEW s, Longer(a, q, e, s), NEW st, NEW r \in BOOLEAN,
           Lives(q, s, st, r), e.socket = s, e.kind = "received", st # "new"
    PROVE  Lives(a, s, st, r)
<1>1. ConnectedFirst(a, s) /\ DisconnectedOnce(a, s)
  BY LongerOrdered DEF Lives
<1>2. \A k : Waits(a, k, s) <=> Waits(q, k, s) \/ (e.socket = s /\ e.kind = k)
  BY WaitsInLonger
<1>3. /\ Waits(a, "connected", s) <=> Waits(q, "connected", s)
      /\ Waits(a, "disconnected", s) <=> Waits(q, "disconnected", s)
  BY <1>2
<1> QED
  BY <1>1, <1>3 DEF Lives

\* The connection ends.
LEMMA Closes ==
    ASSUME NEW q, NEW s, NEW r \in BOOLEAN, Lives(q, s, "open", r)
    PROVE  Lives(q, s, "closing", r)
  BY DEF Lives

\* ... and its end is queued.
LEMMA DisconnectedQueued ==
    ASSUME NEW a, NEW q, NEW e, NEW s, Longer(a, q, e, s), NEW r \in BOOLEAN,
           Lives(q, s, "closing", r), e.socket = s, e.kind = "disconnected"
    PROVE  Lives(a, s, "closed", r)
<1>1. ~Waits(q, "disconnected", s)
  BY DEF Lives
<1>2. ConnectedFirst(a, s) /\ DisconnectedOnce(a, s)
  BY <1>1, LongerOrdered DEF Lives
<1>3. \A k : Waits(a, k, s) <=> Waits(q, k, s) \/ (e.socket = s /\ e.kind = k)
  BY WaitsInLonger
<1>4. /\ Waits(a, "connected", s) <=> Waits(q, "connected", s)
      /\ Waits(a, "disconnected", s)
  BY <1>3
<1> QED
  BY <1>2, <1>4 DEF Lives

LEMMA Shifted ==
    ASSUME NEW t, NEW q, NEW s, Shorter(t, q, s)
    PROVE  /\ \A i \in 1 .. Len(t) : i + 1 \in 1 .. Len(q) /\ (Of(t, s, i) <=> Of(q, s, i + 1))
           /\ \A i \in 1 .. Len(t) : \A k : At(t, k, s, i) <=> At(q, k, s, i + 1)
           /\ \A i \in 1 .. Len(q) : i = 1 \/ (i - 1 \in 1 .. Len(t) /\ i = (i - 1) + 1)
           /\ \A i, j \in 1 .. Len(t) : (i < j <=> i + 1 < j + 1) /\ (i = j <=> i + 1 = j + 1)
           /\ 1 \in 1 .. Len(q)
           /\ \A i \in 1 .. Len(q) : ~(i < 1)
           /\ \A i \in 1 .. Len(t) : i + 1 # 1
<1>1. /\ Len(q) \in Nat /\ Len(q) >= 1
      /\ Len(t) = Len(q) - 1
  BY DEF Shorter
<1>2. \A i \in 1 .. Len(t) : i + 1 \in 1 .. Len(q) /\ i \in 1 .. Len(q) - 1 /\ i + 1 # 1
  BY <1>1
<1>3. /\ \A i \in 1 .. Len(t) : Of(t, s, i) <=> Of(q, s, i + 1)
      /\ \A i \in 1 .. Len(t) : \A k : At(t, k, s, i) <=> At(q, k, s, i + 1)
  BY <1>2 DEF Shorter
<1>4. \A i \in 1 .. Len(q) : (i = 1 \/ (i - 1 \in 1 .. Len(t) /\ i = (i - 1) + 1)) /\ ~(i < 1)
  BY <1>1
<1>5. \A i, j \in 1 .. Len(t) : (i < j <=> i + 1 < j + 1) /\ (i = j <=> i + 1 = j + 1)
  BY <1>1
<1> QED
  BY <1>1, <1>2, <1>3, <1>4, <1>5

\* What is ordered in a queue is ordered in the rest of it.
LEMMA RestOrdered ==
    ASSUME NEW t, NEW q, NEW s, Shorter(t, q, s)
    PROVE  /\ ConnectedFirst(q, s) => ConnectedFirst(t, s)
           /\ DisconnectedOnce(q, s) => DisconnectedOnce(t, s)
  BY Shifted DEF ConnectedFirst, DisconnectedOnce

LEMMA WaitsInShorter ==
    ASSUME NEW t, NEW q, NEW s, Shorter(t, q, s), NEW k
    PROVE  Waits(q, k, s) <=> At(q, k, s, 1) \/ Waits(t, k, s)
<1>1. ASSUME Waits(q, k, s) PROVE At(q, k, s, 1) \/ Waits(t, k, s)
  <2>1. PICK i \in 1 .. Len(q) : At(q, k, s, i)
    BY <1>1 DEF Waits
  <2>2. CASE i = 1
    BY <2>1, <2>2
  <2>3. CASE i - 1 \in 1 .. Len(t) /\ i = (i - 1) + 1
    <3>1. At(t, k, s, i - 1)
      BY <2>1, <2>3, Shifted
    <3> QED
      BY <2>3, <3>1 DEF Waits
  <2> QED
    BY <2>2, <2>3, Shifted
<1>2. ASSUME At(q, k, s, 1) PROVE Waits(q, k, s)
  BY <1>2, Shifted DEF Waits
<1>3. ASSUME Waits(t, k, s) PROVE Waits(q, k, s)
  BY <1>3, Shifted DEF Waits
<1> QED
  BY <1>1, <1>2, <1>3

\* An event of another socket, or a segment of this one, is taken.
LEMMA OtherTaken ==
    ASSUME NEW t, NEW q, NEW s, Shorter(t, q, s), NEW st, NEW r \in BOOLEAN, Lives(q, s, st, r),
           ~At(q, "connected", s, 1), ~At(q, "disconnected", s, 1)
    PROVE  Lives(t, s, st, r)
<1>1. /\ Waits(q, "connected", s) <=> Waits(t, "connected", s)
      /\ Waits(q, "disconnected", s) <=> Waits(t, "disconnected", s)
  BY WaitsInShorter
<1>2. ConnectedFirst(t, s) /\ DisconnectedOnce(t, s)
  BY RestOrdered DEF Lives
<1>3. st = "new" => \A i \in 1 .. Len(t) : ~Of(t, s, i)
  BY Shifted DEF Lives
<1> QED
  BY <1>1, <1>2, <1>3 DEF Lives

\* The connected event is taken: the socket is not registered yet.
LEMMA ConnectedTaken ==
    ASSUME NEW t, NEW q, NEW s, Shorter(t, q, s), NEW st, NEW r \in BOOLEAN, Lives(q, s, st, r),
           At(q, "connected", s, 1)
    PROVE  ~r /\ Lives(t, s, st, TRUE)
<1>1. Waits(q, "connected", s)
  BY WaitsInShorter
<1>2. ~r /\ st # "new"
  BY <1>1 DEF Lives
<1>3. ~Waits(t, "connected", s)
  <2> SUFFICES ASSUME NEW i \in 1 .. Len(t), At(t, "connected", s, i) PROVE FALSE
    BY DEF Waits
  <2>1. i + 1 \in 1 .. Len(q) /\ At(q, "connected", s, i + 1) /\ i + 1 # 1 /\ 1 \in 1 .. Len(q)
    BY Shifted
  <2>2. i + 1 < 1
    BY <2>1 DEF Lives, ConnectedFirst, At
  <2> QED
    BY <2>1, <2>2, Shifted
<1>4. ConnectedFirst(t, s) /\ DisconnectedOnce(t, s)
  BY RestOrdered DEF Lives
<1>5. ~At(q, "disconnected", s, 1)
  BY DEF At
<1>6. Waits(q, "disconnected", s) <=> Waits(t, "disconnected", s)
  BY <1>5, WaitsInShorter
<1> QED
  BY <1>1, <1>2, <1>3, <1>4, <1>6 DEF Lives

\* The disconnected event is taken: the socket is registered.
LEMMA DisconnectedTaken ==
    ASSUME NEW t, NEW q, NEW s, Shorter(t, q, s), NEW st, NEW r \in BOOLEAN, Lives(q, s, st, r),
           At(q, "disconnected", s, 1)
    PROVE  r /\ Lives(t, s, st, FALSE)
<1>1. Waits(q, "disconnected", s)
  BY WaitsInShorter
<1>2. st = "closed"
  BY <1>1 DEF Lives
<1>3. ~Waits(q, "connected", s)
  <2> SUFFICES ASSUME NEW i \in 1 .. Len(q), At(q, "connected", s, i) PROVE FALSE
    BY DEF Waits
  <2>1. 1 \in 1 .. Len(q) /\ i # 1 /\ ~(i < 1)
    BY Shifted DEF At
  <2> QED
    BY <2>1 DEF Lives, ConnectedFirst, At
<1>4. ~Waits(t, "connected", s)
  BY <1>3, WaitsInShorter
<1>5. ~Waits(t, "disconnected", s)
  <2> SUFFICES ASSUME NEW i \in 1 .. Len(t), At(t, "disconnected", s, i) PROVE FALSE
    BY DEF Waits
  <2>1. i + 1 \in 1 .. Len(q) /\ At(q, "disconnected", s, i + 1) /\ i + 1 # 1 /\ 1 \in 1 .. Len(q)
    BY Shifted
  <2> QED
    BY <2>1 DEF Lives, DisconnectedOnce
<1>6. ConnectedFirst(t, s) /\ DisconnectedOnce(t, s)
  BY RestOrdered DEF Lives
<1>7. r
  BY <1>1, <1>3 DEF Lives
<1> QED
  BY <1>2, <1>4, <1>5, <1>6, <1>7 DEF Lives

\* An open socket whose segment is first in the queue is registered.
LEMMA OpenIsRegistered ==
    ASSUME NEW t, NEW q, NEW s, Shorter(t, q, s), NEW r \in BOOLEAN, Lives(q, s, "open", r),
           At(q, "received", s, 1)
    PROVE  r
<1> SUFFICES ASSUME ~r PROVE FALSE
  OBVIOUS
<1>1. PICK i \in 1 .. Len(q) : At(q, "connected", s, i)
  BY DEF Lives, Waits
<1>2. 1 \in 1 .. Len(q) /\ i # 1 /\ ~(i < 1)
  BY <1>1, Shifted DEF At
<1> QED
  BY <1>1, <1>2 DEF Lives, ConnectedFirst, At

-----------------------------------------------------------------------------
(* Types.                                                                  *)

Tasks == [at : {"alive", "packets", "sending"}, socket : Sockets,
          packets : Seq(Packets), left : Seq(Replies)]

\* What a handler sends are replies.
LEMMA Answers ==
    ASSUME NEW p \in Packets
    PROVE  Answer(p) \in Seq(Replies)
<1>1. LoginAnswer(p) \in Seq(Replies)
  <2>1. \A i \in 1 .. LoginReplies : [id |-> i - 1, account |-> p.account] \in Replies
    BY LoginRepliesAssumption DEF Replies
  <2> QED
    BY <2>1, LoginRepliesAssumption DEF LoginAnswer
<1>2. UnknownAnswer \in Seq(Replies)
  <2>1. [id |-> 4, account |-> "none"] \in Replies
    BY DEF Replies
  <2> QED
    BY <2>1 DEF UnknownAnswer
<1>3. << >> \in Seq(Replies)
  OBVIOUS
<1> QED
  BY <1>1, <1>2, <1>3 DEF Answer

\* A busy worker holds a task.
LEMMA BusyWorker ==
    ASSUME TypeOK, NEW u \in Units, worker[u] # Idle
    PROVE  worker[u] \in Tasks
  BY DEF TypeOK, Tasks

LEMMA WorkerType == TypeOK <=>
    /\ phase \in {"created", "running", "stopped"}
    /\ state \in [Sockets -> {"new", "open", "closing", "closed"}]
    /\ unit \in [Sockets -> Units]
    /\ requests \in [Sockets -> Seq(Packets)]
    /\ inflight \in [Sockets -> Seq(Packets)]
    /\ queue \in [Units -> Seq(Events)]
    /\ worker \in [Units -> {Idle} \cup Tasks]
    /\ clients \subseteq Sockets
    /\ replies \in [Sockets -> Seq(Replies)]
    /\ errors \subseteq {"received", "disconnected", "add"}
  BY DEF TypeOK, Tasks

\* Queueing an event and taking one keep the type of the queues.
LEMMA EnqueueType ==
    ASSUME TypeOK, NEW e \in Events, Enqueue(e)
    PROVE  queue' \in [Units -> Seq(Events)]
<1>1. e.socket \in Sockets
  BY DEF Events
<1>2. unit[e.socket] \in Units /\ queue[unit[e.socket]] \in Seq(Events)
  BY <1>1 DEF TypeOK
<1>3. Append(queue[unit[e.socket]], e) \in Seq(Events)
  BY <1>2, AppendFacts
<1> QED
  BY <1>2, <1>3 DEF TypeOK, Enqueue

LEMMA TakesType ==
    ASSUME TypeOK, NEW u \in Units, NEW k, Takes(u, k)
    PROVE  /\ queue' \in [Units -> Seq(Events)]
           /\ Head(queue[u]) \in Events
           /\ Head(queue[u]).socket \in Sockets
           /\ Head(queue[u]).packets \in Seq(Packets)
           /\ Head(queue[u]).kind = k
           /\ worker[u] = Idle
           /\ phase = "running"
<1>1. queue[u] \in Seq(Events) /\ queue[u] # <<>>
  BY DEF TypeOK, Takes
<1>2. Tail(queue[u]) \in Seq(Events) /\ Head(queue[u]) \in Events
  BY <1>1, TailFacts
<1>3. queue' \in [Units -> Seq(Events)]
  BY <1>2 DEF TypeOK, Takes
<1> QED
  BY <1>2, <1>3 DEF Takes, Events

LEMMA EventTypes ==
    ASSUME NEW s \in Sockets, NEW b \in Seq(Packets),
           NEW k \in {"connected", "received", "disconnected"}
    PROVE  Event(k, s, b) \in Events /\ Event(k, s, b).socket = s /\ Event(k, s, b).kind = k
  BY DEF Event, Events

LEMMA InitTypes == Init => TypeOK
  BY DEF Init, TypeOK

LEMMA StepTypes == TypeOK /\ [Next]_vars => TypeOK'
<1> SUFFICES ASSUME TypeOK, [Next]_vars PROVE TypeOK'
  OBVIOUS
<1>1. CASE Start
  BY <1>1 DEF Start, TypeOK, socketVars
<1>2. CASE Stop
  BY <1>2 DEF Stop, TypeOK, socketVars
<1>3. ASSUME NEW s \in Sockets, Accept(s) PROVE TypeOK'
  <2>1. << >> \in Seq(Packets)
    OBVIOUS
  <2>2. Event("connected", s, <<>>) \in Events
    BY <2>1, EventTypes
  <2>3. Enqueue(Event("connected", s, <<>>))
    BY <1>3 DEF Accept
  <2>4. queue' \in [Units -> Seq(Events)]
    BY <2>2, <2>3, EnqueueType
  <2> QED
    BY <1>3, <2>4 DEF Accept, TypeOK
<1>4. ASSUME NEW s \in Sockets, NEW batch \in Batches, Arrive(s, batch) PROVE TypeOK'
  <2>1. batch \in Seq(Packets) /\ requests[s] \o batch \in Seq(Packets)
    BY BatchesAssumption DEF TypeOK
  <2> QED
    BY <1>4, <2>1 DEF Arrive, TypeOK
<1>5. ASSUME NEW s \in Sockets, QueueReceived(s) PROVE TypeOK'
  <2>1. inflight[s] \in Seq(Packets)
    BY DEF TypeOK
  <2>2. queue' \in [Units -> Seq(Events)]
    BY <1>5, <2>1, EnqueueType, EventTypes DEF QueueReceived
  <2> QED
    BY <1>5, <2>2 DEF QueueReceived, TypeOK
<1>6. ASSUME NEW s \in Sockets, Close(s) PROVE TypeOK'
  BY <1>6 DEF Close, TypeOK
<1>7. ASSUME NEW s \in Sockets, QueueDisconnected(s) PROVE TypeOK'
  <2>1. << >> \in Seq(Packets)
    OBVIOUS
  <2>2. Event("disconnected", s, <<>>) \in Events
    BY <2>1, EventTypes
  <2>3. Enqueue(Event("disconnected", s, <<>>))
    BY <1>7 DEF QueueDisconnected
  <2>4. queue' \in [Units -> Seq(Events)]
    BY <2>2, <2>3, EnqueueType
  <2> QED
    BY <1>7, <2>4 DEF QueueDisconnected, TypeOK
<1>8. ASSUME NEW u \in Units, HandleConnected(u) PROVE TypeOK'
  <2>1. Takes(u, "connected")
    BY <1>8 DEF HandleConnected
  <2>2. queue' \in [Units -> Seq(Events)] /\ Head(queue[u]).socket \in Sockets
    BY <2>1, TakesType
  <2> QED
    BY <1>8, <2>2 DEF HandleConnected, TypeOK, socketVars
<1>9. ASSUME NEW u \in Units, HandleDisconnected(u) PROVE TypeOK'
  <2>1. Takes(u, "disconnected")
    BY <1>9 DEF HandleDisconnected
  <2>2. queue' \in [Units -> Seq(Events)]
    BY <2>1, TakesType
  <2> QED
    BY <1>9, <2>2 DEF HandleDisconnected, TypeOK, socketVars
<1>10. ASSUME NEW u \in Units, HandleReceived(u) PROVE TypeOK'
  <2>1. Takes(u, "received")
    BY <1>10 DEF HandleReceived
  <2>2. /\ queue' \in [Units -> Seq(Events)]
        /\ Head(queue[u]).socket \in Sockets
        /\ Head(queue[u]).packets \in Seq(Packets)
    BY <2>1, TakesType
  <2>3. Busy("alive", Head(queue[u]).socket, Head(queue[u]).packets, <<>>) \in Tasks
    BY <2>2 DEF Busy, Tasks
  <2>4. worker' \in [Units -> {Idle} \cup Tasks]
    BY <1>10, <2>3, WorkerType DEF HandleReceived
  <2> QED
    BY <1>10, <2>2, <2>4 DEF HandleReceived, TypeOK, Tasks, socketVars
<1>11. ASSUME NEW u \in Units, Lookup(u) PROVE TypeOK'
  <2>1. worker[u] \in Tasks
    BY <1>11, BusyWorker DEF Lookup
  <2>2. [worker[u] EXCEPT !.at = "packets"] \in Tasks
    BY <2>1 DEF Tasks
  <2>3. ASSUME worker[u].socket \in clients PROVE worker' \in [Units -> {Idle} \cup Tasks]
    <3>1. worker' = [worker EXCEPT ![u] = [worker[u] EXCEPT !.at = "packets"]]
      BY <1>11, <2>3 DEF Lookup
    <3> QED
      BY <1>11, <2>2, <3>1, WorkerType DEF Lookup
  <2>4. ASSUME worker[u].socket \notin clients PROVE worker' \in [Units -> {Idle} \cup Tasks]
    BY <1>11, <2>4, WorkerType DEF Lookup
  <2>5. worker' \in [Units -> {Idle} \cup Tasks] /\ errors' \subseteq {"received", "disconnected", "add"}
    <3>1. errors' \subseteq {"received", "disconnected", "add"}
      BY <1>11 DEF Lookup, TypeOK
    <3> QED
      BY <2>3, <2>4, <3>1
  <2> QED
    BY <1>11, <2>5 DEF Lookup, TypeOK, Tasks, socketVars
<1>12. ASSUME NEW u \in Units, HandlePacket(u) PROVE TypeOK'
  <2>1. worker[u] \in Tasks
    BY <1>12, BusyWorker DEF HandlePacket
  <2>2. worker[u].packets \in Seq(Packets) /\ worker[u].packets # <<>>
    BY <1>12, <2>1 DEF HandlePacket, Tasks
  <2>3. Head(worker[u].packets) \in Packets /\ Tail(worker[u].packets) \in Seq(Packets)
    BY <2>2
  <2>4. Answer(Head(worker[u].packets)) \in Seq(Replies)
    BY <2>3, Answers
  <2>5. worker' \in [Units -> {Idle} \cup Tasks]
    BY <1>12, <2>1, <2>3, <2>4, WorkerType DEF HandlePacket, Tasks
  <2> QED
    BY <1>12, <2>5 DEF HandlePacket, TypeOK, Tasks, socketVars
<1>13. ASSUME NEW u \in Units, Send(u) PROVE TypeOK'
  <2>1. worker[u] \in Tasks
    BY <1>13, BusyWorker DEF Send
  <2>2. worker[u].left \in Seq(Replies) /\ worker[u].left # <<>> /\ worker[u].socket \in Sockets
    BY <1>13, <2>1 DEF Send, Tasks
  <2>3. /\ Head(worker[u].left) \in Replies /\ Tail(worker[u].left) \in Seq(Replies)
        /\ replies[worker[u].socket] \in Seq(Replies)
    BY <2>2 DEF TypeOK
  <2>4. Append(replies[worker[u].socket], Head(worker[u].left)) \in Seq(Replies)
    BY <2>3
  <2>5. \A rest \in Seq(Replies) : [worker[u] EXCEPT !.left = rest] \in Tasks
    BY <2>1 DEF Tasks
  <2>6. PICK rest \in Seq(Replies) : worker' = [worker EXCEPT ![u] = [worker[u] EXCEPT !.left = rest]]
    <3>1. CASE state[worker[u].socket] = "open"
      BY <1>13, <2>3, <3>1 DEF Send
    <3>2. CASE state[worker[u].socket] # "open"
      <4>1. PICK rest \in {Tail(worker[u].left), <<>>} : worker' = [worker EXCEPT ![u].left = rest]
        BY <1>13, <3>2 DEF Send
      <4>2. rest \in Seq(Replies)
        <5>1. << >> \in Seq(Replies)
          OBVIOUS
        <5>2. CASE rest = << >>
          BY <5>1, <5>2
        <5>3. CASE rest = Tail(worker[u].left)
          BY <2>3, <5>3
        <5> QED
          BY <5>2, <5>3
      <4>3. [worker EXCEPT ![u].left = rest] = [worker EXCEPT ![u] = [worker[u] EXCEPT !.left = rest]]
        BY DEF TypeOK
      <4> QED
        BY <4>1, <4>2, <4>3
    <3> QED
      BY <3>1, <3>2
  <2>7. worker' \in [Units -> {Idle} \cup Tasks]
    BY <2>5, <2>6, WorkerType
  <2>8. replies' \in [Sockets -> Seq(Replies)]
    <3>1. CASE state[worker[u].socket] = "open"
      <4>1. replies' = [replies EXCEPT ![worker[u].socket] = Append(@, Head(worker[u].left))]
        BY <1>13, <3>1 DEF Send
      <4> QED
        BY <2>4, <4>1 DEF TypeOK
    <3>2. CASE state[worker[u].socket] # "open"
      BY <1>13, <3>2 DEF Send, TypeOK
    <3> QED
      BY <3>1, <3>2
  <2> QED
    BY <1>13, <2>7, <2>8 DEF Send, TypeOK, Tasks, socketVars
<1>14. ASSUME NEW u \in Units, Handled(u) PROVE TypeOK'
  <2>1. worker[u] \in Tasks
    BY <1>14, BusyWorker DEF Handled
  <2>2. worker' \in [Units -> {Idle} \cup Tasks]
    BY <1>14, <2>1, WorkerType DEF Handled, Tasks
  <2> QED
    BY <1>14, <2>2 DEF Handled, TypeOK, Tasks, socketVars
<1>15. ASSUME NEW u \in Units, Received(u) PROVE TypeOK'
  <2>1. worker' \in [Units -> {Idle} \cup Tasks]
    BY <1>15, WorkerType DEF Received
  <2> QED
    BY <1>15, <2>1 DEF Received, TypeOK, Tasks, socketVars
<1>16. CASE UNCHANGED vars
  BY <1>16 DEF vars, TypeOK
<1> QED
  BY <1>1, <1>2, <1>3, <1>4, <1>5, <1>6, <1>7, <1>8, <1>9, <1>10, <1>11, <1>12, <1>13,
     <1>14, <1>15, <1>16 DEF Next, Network, Work

\* Every variable of the consumer keeps its type: no event, task or reply of another
\* shape ever gets into a queue, a worker or a connection (Consumer.cs).
THEOREM TypeCorrect == Spec => []TypeOK
  BY InitTypes, StepTypes, PTL DEF Spec

-----------------------------------------------------------------------------
(* The registry.                                                           *)

\* The events of a socket are all in the queue of its unit.
Own == \A u \in Units : \A i \in 1 .. Len(queue[u]) : unit[queue[u][i].socket] = u

LivesAll == \A s \in Sockets : Lives(queue[unit[s]], s, state[s], s \in clients)

\* What waits to be queued came from a socket that was accepted.
Started == \A s \in Sockets : inflight[s] # <<>> => state[s] # "new"

\* The inductive invariant.  RegistryFollowsSockets alone is not inductive: it says
\* nothing of the order of the events that wait, nor that an end is announced once.
RegistryInv ==
    /\ TypeOK
    /\ Own
    /\ LivesAll
    /\ Started
    /\ HandledIsRegistered
    /\ NoLookupErrors

\* An event is queued: the other sockets live on as they did.
LEMMA EnqueueKeeps ==
    ASSUME TypeOK, Own, LivesAll, NEW e \in Events, Enqueue(e), unit' = unit
    PROVE  /\ Own'
           /\ Longer(queue'[unit[e.socket]], queue[unit[e.socket]], e, e.socket)
           /\ \A s \in Sockets : s # e.socket =>
                Lives(queue'[unit[s]], s, state[s], s \in clients)
<1> DEFINE v == unit[e.socket]
<1>1. v \in Units /\ queue[v] \in Seq(Events)
  BY DEF TypeOK, Events
<1>2. /\ queue'[v] = Append(queue[v], e)
      /\ \A u \in Units : u # v => queue'[u] = queue[u]
  BY <1>1 DEF Enqueue, TypeOK
<1>3. \A s : Longer(queue'[v], queue[v], e, s)
  BY <1>1, <1>2, Appended
<1>4. unit'[e.socket] = v
  OBVIOUS
<1> HIDE DEF v
<1>5. Own'
  <2> SUFFICES ASSUME NEW u \in Units, NEW i \in 1 .. Len(queue'[u])
               PROVE  unit[queue'[u][i].socket] = u
    BY DEF Own
  <2>1. CASE u # v
    BY <1>2, <2>1 DEF Own
  <2>2. CASE u = v
    <3>1. /\ Len(Append(queue[v], e)) = Len(queue[v]) + 1
          /\ Len(queue[v]) \in Nat
          /\ \A j \in 1 .. Len(queue[v]) : Append(queue[v], e)[j] = queue[v][j]
          /\ Append(queue[v], e)[Len(queue[v]) + 1] = e
      BY <1>1, AppendFacts
    <3>2. CASE i \in 1 .. Len(queue[v])
      BY <1>1, <1>2, <2>2, <3>1, <3>2 DEF Own
    <3>3. CASE i = Len(queue[v]) + 1
      BY <1>2, <1>4, <2>2, <3>1, <3>3
    <3> QED
      BY <1>2, <2>2, <3>1, <3>2, <3>3
  <2> QED
    BY <2>1, <2>2
<1>6. ASSUME NEW s \in Sockets, s # e.socket
      PROVE  Lives(queue'[unit[s]], s, state[s], s \in clients)
  <2>1. Lives(queue[unit[s]], s, state[s], s \in clients) /\ unit[s] \in Units
    BY DEF LivesAll, TypeOK
  <2>2. CASE unit[s] # v
    BY <1>2, <2>1, <2>2
  <2>3. CASE unit[s] = v
    <3> DEFINE a == queue'[v]
               q == queue[v]
               r == s \in clients
    <3>1. Longer(a, q, e, s)
      BY <1>3
    <3>2. r \in BOOLEAN
      OBVIOUS
    <3>3. Lives(q, s, state[s], r)
      BY <2>1, <2>3
    <3>4. Lives(a, s, state[s], r)
      <4> HIDE DEF a, q, r
      <4> QED
        BY <1>6, <3>1, <3>2, <3>3, OtherQueued
    <3> QED
      BY <2>3, <3>4
  <2> QED
    BY <2>2, <2>3
<1> QED
  BY <1>3, <1>5, <1>6 DEF v

\* The thread of u takes the first event of its queue.
LEMMA TakeKeeps ==
    ASSUME TypeOK, Own, LivesAll, NEW u \in Units, NEW k, Takes(u, k), unit' = unit
    PROVE  /\ Own'
           /\ LET s == Head(queue[u]).socket IN
                /\ s \in Sockets /\ unit[s] = u
                /\ Shorter(queue'[u], queue[u], s)
                /\ At(queue[u], k, s, 1)
           /\ \A s \in Sockets : s # Head(queue[u]).socket =>
                Lives(queue'[unit[s]], s, state[s], s \in clients)
<1> DEFINE h == Head(queue[u])
<1>1. queue[u] \in Seq(Events) /\ queue[u] # <<>> /\ h.kind = k
  BY DEF Takes, TypeOK
<1>2. /\ queue'[u] = Tail(queue[u])
      /\ \A v \in Units : v # u => queue'[v] = queue[v]
  BY DEF Takes, TypeOK
<1>3. \A s : Shorter(queue'[u], queue[u], s)
  BY <1>1, <1>2, Taken
<1>4. /\ Len(queue[u]) \in Nat /\ Len(queue[u]) >= 1
      /\ Len(queue'[u]) = Len(queue[u]) - 1
      /\ \A i \in 1 .. Len(queue[u]) - 1 : queue'[u][i] = queue[u][i + 1]
      /\ h = queue[u][1]
      /\ h.socket \in Sockets
  <2>1. h \in Events
    BY <1>1, TailFacts
  <2>2. h.socket \in Sockets
    BY <2>1 DEF Events
  <2> QED
    BY <1>1, <1>2, <2>2, TailFacts
<1> HIDE DEF h
<1>5. unit[h.socket] = u
  <2>1. 1 \in 1 .. Len(queue[u])
    BY <1>4
  <2> QED
    BY <1>4, <2>1 DEF Own
<1>6. At(queue[u], k, h.socket, 1)
  BY <1>1, <1>4 DEF At, Of
<1>7. Own'
  <2> SUFFICES ASSUME NEW v \in Units, NEW i \in 1 .. Len(queue'[v])
               PROVE  unit[queue'[v][i].socket] = v
    BY DEF Own
  <2>1. CASE v # u
    BY <1>2, <2>1 DEF Own
  <2>2. CASE v = u
    <3>1. i + 1 \in 1 .. Len(queue[u]) /\ queue'[u][i] = queue[u][i + 1]
      BY <1>4, <2>2
    <3> QED
      BY <2>2, <3>1 DEF Own
  <2> QED
    BY <2>1, <2>2
<1>8. ASSUME NEW s \in Sockets, s # h.socket
      PROVE  Lives(queue'[unit[s]], s, state[s], s \in clients)
  <2>1. Lives(queue[unit[s]], s, state[s], s \in clients) /\ unit[s] \in Units
    BY DEF LivesAll, TypeOK
  <2>2. CASE unit[s] # u
    BY <1>2, <2>1, <2>2
  <2>3. CASE unit[s] = u
    <3>1. ~At(queue[u], "connected", s, 1) /\ ~At(queue[u], "disconnected", s, 1)
      BY <1>4, <1>8 DEF At, Of
    <3>2. (s \in clients) \in BOOLEAN
      OBVIOUS
    <3>3. Lives(queue[u], s, state[s], s \in clients) /\ Shorter(queue'[u], queue[u], s)
      BY <1>3, <2>1, <2>3
    <3>4. Lives(queue'[u], s, state[s], s \in clients)
      BY <3>1, <3>2, <3>3, OtherTaken
    <3> QED
      BY <2>3, <3>4
  <2> QED
    BY <2>2, <2>3
<1> QED
  BY <1>3, <1>4, <1>5, <1>6, <1>7, <1>8 DEF h

LEMMA QueueUnchanged ==
    ASSUME LivesAll, Own, Started, NoLookupErrors,
           UNCHANGED <<state, unit, inflight, queue, clients, errors>>
    PROVE  LivesAll' /\ Own' /\ Started' /\ NoLookupErrors'
  BY DEF LivesAll, Own, Started, NoLookupErrors

\* An event of s is queued, and s lives on.
LEMMA QueueingKeeps ==
    ASSUME RegistryInv, NEW s \in Sockets, NEW b \in Seq(Packets),
           NEW k \in {"connected", "received", "disconnected"}, Enqueue(Event(k, s, b)),
           UNCHANGED <<unit, clients>>,
           \A r \in Sockets : r # s => state'[r] = state[r],
           \A a : Longer(a, queue[unit[s]], Event(k, s, b), s)
                    => Lives(a, s, state'[s], s \in clients)
    PROVE  Own' /\ LivesAll'
<1>1. Event(k, s, b) \in Events /\ Event(k, s, b).socket = s
  BY EventTypes
<1> DEFINE e == Event(k, s, b)
<1>2. TypeOK /\ Own /\ LivesAll
  BY DEF RegistryInv
<1>3. Enqueue(e) /\ e \in Events /\ e.socket = s
  BY <1>1
<1> HIDE DEF e
<1>4. /\ Own'
      /\ Longer(queue'[unit[e.socket]], queue[unit[e.socket]], e, e.socket)
      /\ \A r \in Sockets : r # e.socket =>
            Lives(queue'[unit[r]], r, state[r], r \in clients)
  BY <1>2, <1>3, EnqueueKeeps
<1>5. Longer(queue'[unit[s]], queue[unit[s]], Event(k, s, b), s)
  BY <1>3, <1>4 DEF e
<1>6. Lives(queue'[unit[s]], s, state'[s], s \in clients)
  BY <1>5
<1>7. \A r \in Sockets : r # s => Lives(queue'[unit[r]], r, state'[r], r \in clients)
  BY <1>3, <1>4
<1>8. \A r \in Sockets : Lives(queue'[unit'[r]], r, state'[r], r \in clients')
  BY <1>6, <1>7
<1> QED
  BY <1>4, <1>8 DEF LivesAll

\* The thread of u takes an event of s, and s lives on.
LEMMA TakingKeeps ==
    ASSUME RegistryInv, NEW u \in Units, NEW k, Takes(u, k), UNCHANGED <<unit, state>>,
           \A s \in Sockets : s # Head(queue[u]).socket => (s \in clients' <=> s \in clients),
           Lives(queue'[u], Head(queue[u]).socket, state[Head(queue[u]).socket],
                 Head(queue[u]).socket \in clients')
    PROVE  Own' /\ LivesAll'
<1> DEFINE s == Head(queue[u]).socket
<1>1. TypeOK /\ Own /\ LivesAll
  BY DEF RegistryInv
<1>2. /\ Own'
      /\ s \in Sockets /\ unit[s] = u
      /\ \A r \in Sockets : r # s => Lives(queue'[unit[r]], r, state[r], r \in clients)
  BY <1>1, TakeKeeps
<1>3. Lives(queue'[u], s, state[s], s \in clients')
  OBVIOUS
<1>4. \A r \in Sockets : r # s => (r \in clients' <=> r \in clients)
  OBVIOUS
<1> HIDE DEF s
<1>5. \A r \in Sockets : Lives(queue'[unit[r]], r, state[r], r \in clients')
  <2> TAKE r \in Sockets
  <2>1. CASE r = s
    BY <1>2, <1>3, <2>1
  <2>2. CASE r # s
    <3>1. Lives(queue'[unit[r]], r, state[r], r \in clients) /\ (r \in clients' <=> r \in clients)
      BY <1>2, <1>4, <2>2
    <3> QED
      BY <3>1 DEF Lives
  <2> QED
    BY <2>1, <2>2
<1> QED
  BY <1>2, <1>5 DEF LivesAll

\* What the thread of u finds first in its queue.
LEMMA FirstTaken ==
    ASSUME RegistryInv, NEW u \in Units, NEW k, Takes(u, k), unit' = unit,
           NEW s, s = Head(queue[u]).socket
    PROVE  /\ s \in Sockets /\ unit[s] = u
           /\ Shorter(queue'[u], queue[u], s)
           /\ At(queue[u], k, s, 1)
           /\ Lives(queue[u], s, state[s], s \in clients)
<1>1. TypeOK /\ Own /\ LivesAll
  BY DEF RegistryInv
<1>2. /\ s \in Sockets /\ unit[s] = u
      /\ Shorter(queue'[u], queue[u], s)
      /\ At(queue[u], k, s, 1)
  BY <1>1, TakeKeeps
<1>3. Lives(queue[unit[s]], s, state[s], s \in clients)
  BY <1>1, <1>2 DEF LivesAll
<1> QED
  BY <1>2, <1>3

LEMMA InitRegistry == Init => RegistryInv
<1> SUFFICES ASSUME Init PROVE RegistryInv
  OBVIOUS
<1>1. TypeOK
  BY InitTypes
<1>2. \A u \in Units : queue[u] = <<>>
  BY DEF Init
<1>3. Own
  BY <1>2 DEF Own
<1>4. LivesAll
  <2> SUFFICES ASSUME NEW s \in Sockets
               PROVE  Lives(queue[unit[s]], s, state[s], s \in clients)
    BY DEF LivesAll
  <2>1. state[s] = "new" /\ s \notin clients /\ unit[s] \in Units
    BY DEF Init
  <2>2. queue[unit[s]] = <<>>
    BY <1>2, <2>1
  <2>3. \A i \in 1 .. Len(queue[unit[s]]) : FALSE
    BY <2>2
  <2> HIDE DEF Init
  <2> QED
    BY <2>1, <2>3 DEF Lives, ConnectedFirst, DisconnectedOnce, Waits
<1>5. Started /\ HandledIsRegistered /\ NoLookupErrors
  BY DEF Init, Started, HandledIsRegistered, NoLookupErrors
<1> QED
  BY <1>1, <1>3, <1>4, <1>5 DEF RegistryInv

LEMMA AcceptKeeps ==
    ASSUME RegistryInv, TypeOK', NEW s \in Sockets, Accept(s)
    PROVE  RegistryInv'
<1> DEFINE r == s \in clients
           q == queue[unit[s]]
           e == Event("connected", s, <<>>)
<1>1. << >> \in Seq(Packets)
  OBVIOUS
<1>2. e.socket = s /\ e.kind = "connected"
  BY <1>1, EventTypes
<1>3. Lives(q, s, "new", r) /\ r \in BOOLEAN
  BY DEF RegistryInv, LivesAll, Accept
<1>4. ASSUME NEW a, Longer(a, q, e, s) PROVE Lives(a, s, "open", r)
  <2> HIDE DEF r, q, e
  <2> QED
    BY <1>2, <1>3, <1>4, ConnectedQueued
<1>5. state'[s] = "open" /\ \A x \in Sockets : x # s => state'[x] = state[x]
  BY DEF RegistryInv, TypeOK, Accept
<1>6. Enqueue(Event("connected", s, <<>>)) /\ UNCHANGED <<unit, clients, inflight, worker, errors>>
  BY DEF Accept
<1>7. Own' /\ LivesAll'
  BY <1>1, <1>4, <1>5, <1>6, QueueingKeeps
<1>8. Started' /\ HandledIsRegistered' /\ NoLookupErrors'
  BY <1>5, <1>6 DEF RegistryInv, Started, HandledIsRegistered, NoLookupErrors
<1> QED
  BY <1>7, <1>8 DEF RegistryInv

LEMMA QueueReceivedKeeps ==
    ASSUME RegistryInv, TypeOK', NEW s \in Sockets, QueueReceived(s)
    PROVE  RegistryInv'
<1> DEFINE r == s \in clients
           q == queue[unit[s]]
           b == inflight[s]
           e == Event("received", s, b)
<1>1. b \in Seq(Packets)
  BY DEF RegistryInv, TypeOK
<1>2. e.socket = s /\ e.kind = "received"
  BY <1>1, EventTypes
<1>3. Lives(q, s, state[s], r) /\ r \in BOOLEAN /\ state[s] # "new"
  BY DEF RegistryInv, LivesAll, Started, QueueReceived
<1>4. ASSUME NEW a, Longer(a, q, e, s) PROVE Lives(a, s, state[s], r)
  <2> HIDE DEF r, q, e
  <2> QED
    BY <1>2, <1>3, <1>4, ReceivedQueued
<1>5. UNCHANGED <<state, unit, clients, worker, errors>> /\ Enqueue(Event("received", s, b))
  BY DEF QueueReceived
<1> HIDE DEF b
<1>6. Own' /\ LivesAll'
  BY <1>1, <1>4, <1>5, QueueingKeeps
<1>7. Started'
  BY DEF RegistryInv, TypeOK, Started, QueueReceived
<1>8. HandledIsRegistered' /\ NoLookupErrors'
  BY <1>5 DEF RegistryInv, HandledIsRegistered, NoLookupErrors
<1> QED
  BY <1>6, <1>7, <1>8 DEF RegistryInv

LEMMA CloseKeeps ==
    ASSUME RegistryInv, TypeOK', NEW s \in Sockets, Close(s)
    PROVE  RegistryInv'
<1>1. UNCHANGED <<unit, inflight, queue, worker, clients, errors>>
  BY DEF Close
<1>2. state'[s] = "closing" /\ \A x \in Sockets : x # s => state'[x] = state[x]
  BY DEF RegistryInv, TypeOK, Close
<1>3. Lives(queue[unit[s]], s, "closing", s \in clients)
  <2> DEFINE r == s \in clients
             q == queue[unit[s]]
  <2>1. Lives(q, s, "open", r) /\ r \in BOOLEAN
    BY DEF RegistryInv, LivesAll, Close
  <2>2. Lives(q, s, "closing", r)
    <3> HIDE DEF r, q
    <3> QED
      BY <2>1, Closes
  <2> QED
    BY <2>2
<1>4. LivesAll'
  BY <1>1, <1>2, <1>3 DEF RegistryInv, LivesAll
<1>5. Own' /\ Started' /\ HandledIsRegistered' /\ NoLookupErrors'
  BY <1>1, <1>2 DEF RegistryInv, Own, Started, HandledIsRegistered, NoLookupErrors
<1> QED
  BY <1>4, <1>5 DEF RegistryInv

LEMMA QueueDisconnectedKeeps ==
    ASSUME RegistryInv, TypeOK', NEW s \in Sockets, QueueDisconnected(s)
    PROVE  RegistryInv'
<1> DEFINE r == s \in clients
           q == queue[unit[s]]
           e == Event("disconnected", s, <<>>)
<1>1. << >> \in Seq(Packets)
  OBVIOUS
<1>2. e.socket = s /\ e.kind = "disconnected"
  BY <1>1, EventTypes
<1>3. Lives(q, s, "closing", r) /\ r \in BOOLEAN
  BY DEF RegistryInv, LivesAll, QueueDisconnected
<1>4. ASSUME NEW a, Longer(a, q, e, s) PROVE Lives(a, s, "closed", r)
  <2> HIDE DEF r, q, e
  <2> QED
    BY <1>2, <1>3, <1>4, DisconnectedQueued
<1>5. state'[s] = "closed" /\ \A x \in Sockets : x # s => state'[x] = state[x]
  BY DEF RegistryInv, TypeOK, QueueDisconnected
<1>6. /\ Enqueue(Event("disconnected", s, <<>>))
      /\ UNCHANGED <<unit, clients, inflight, worker, errors>>
  BY DEF QueueDisconnected
<1>7. Own' /\ LivesAll'
  BY <1>1, <1>4, <1>5, <1>6, QueueingKeeps
<1>8. Started' /\ HandledIsRegistered' /\ NoLookupErrors'
  BY <1>5, <1>6 DEF RegistryInv, Started, HandledIsRegistered, NoLookupErrors
<1> QED
  BY <1>7, <1>8 DEF RegistryInv

LEMMA HandleConnectedKeeps ==
    ASSUME RegistryInv, TypeOK', NEW u \in Units, HandleConnected(u)
    PROVE  RegistryInv'
<1> DEFINE s == Head(queue[u]).socket
           r == s \in clients
           q == queue[u]
           t == queue'[u]
           st == state[s]
<1>1. Takes(u, "connected") /\ UNCHANGED <<state, unit, inflight, worker>>
  BY DEF HandleConnected, socketVars
<1>2. clients' = clients \cup {s} /\ (s \notin clients => errors' = errors)
  BY DEF HandleConnected
<1>3. /\ s \in Sockets /\ unit[s] = u
      /\ Shorter(t, q, s) /\ At(q, "connected", s, 1) /\ Lives(q, s, st, r)
      /\ r \in BOOLEAN
  BY <1>1, FirstTaken
<1>4. ~r /\ Lives(t, s, st, TRUE)
  <2> HIDE DEF s, r, q, t, st
  <2>1. CASE r = TRUE
    BY <1>3, <2>1, ConnectedTaken
  <2>2. CASE r = FALSE
    BY <1>3, <2>2, ConnectedTaken
  <2> QED
    BY <1>3, <2>1, <2>2
<1>5. s \in clients' /\ \A x \in Sockets : x # s => (x \in clients' <=> x \in clients)
  BY <1>2
<1>6. Lives(t, s, st, s \in clients')
  <2> HIDE DEF s, t, st
  <2> QED
    BY <1>4, <1>5 DEF Lives
<1>7. Own' /\ LivesAll'
  BY <1>1, <1>5, <1>6, TakingKeeps
<1>8. Started' /\ HandledIsRegistered' /\ NoLookupErrors'
  <2> HIDE DEF s
  <2> QED
    BY <1>1, <1>2, <1>4 DEF RegistryInv, Started, HandledIsRegistered, NoLookupErrors
<1> QED
  BY <1>7, <1>8 DEF RegistryInv

LEMMA HandleDisconnectedKeeps ==
    ASSUME RegistryInv, TypeOK', NEW u \in Units, HandleDisconnected(u)
    PROVE  RegistryInv'
<1> DEFINE s == Head(queue[u]).socket
           r == s \in clients
           q == queue[u]
           t == queue'[u]
           st == state[s]
<1>1. Takes(u, "disconnected") /\ UNCHANGED <<state, unit, inflight, worker>>
  BY DEF HandleDisconnected, socketVars
<1>2. clients' = clients \ {s} /\ (s \in clients => errors' = errors)
  BY DEF HandleDisconnected
<1>3. /\ s \in Sockets /\ unit[s] = u
      /\ Shorter(t, q, s) /\ At(q, "disconnected", s, 1) /\ Lives(q, s, st, r)
      /\ r \in BOOLEAN
  BY <1>1, FirstTaken
<1>4. r /\ Lives(t, s, st, FALSE)
  <2> HIDE DEF s, r, q, t, st
  <2>1. CASE r = TRUE
    BY <1>3, <2>1, DisconnectedTaken
  <2>2. CASE r = FALSE
    BY <1>3, <2>2, DisconnectedTaken
  <2> QED
    BY <1>3, <2>1, <2>2
<1>5. s \notin clients' /\ \A x \in Sockets : x # s => (x \in clients' <=> x \in clients)
  BY <1>2
<1>6. Lives(t, s, st, s \in clients')
  <2> HIDE DEF s, t, st
  <2> QED
    BY <1>4, <1>5 DEF Lives
<1>7. Own' /\ LivesAll'
  BY <1>1, <1>5, <1>6, TakingKeeps
<1>8. worker[u] = Idle
  BY <1>1 DEF Takes
<1>9. HandledIsRegistered'
  <2> HIDE DEF s
  <2> QED
    BY <1>1, <1>2, <1>3, <1>8 DEF RegistryInv, HandledIsRegistered
<1>10. Started' /\ NoLookupErrors'
  <2> HIDE DEF s
  <2> QED
    BY <1>1, <1>2, <1>4 DEF RegistryInv, Started, NoLookupErrors
<1> QED
  BY <1>7, <1>9, <1>10 DEF RegistryInv

LEMMA HandleReceivedKeeps ==
    ASSUME RegistryInv, TypeOK', NEW u \in Units, HandleReceived(u)
    PROVE  RegistryInv'
<1> DEFINE s == Head(queue[u]).socket
           r == s \in clients
           q == queue[u]
           t == queue'[u]
           st == state[s]
<1>1. Takes(u, "received") /\ UNCHANGED <<state, unit, inflight, clients, errors>>
  BY DEF HandleReceived, socketVars
<1>2. /\ s \in Sockets /\ unit[s] = u
      /\ Shorter(t, q, s) /\ At(q, "received", s, 1) /\ Lives(q, s, st, r)
      /\ r \in BOOLEAN
  BY <1>1, FirstTaken
<1>3. Lives(t, s, st, r)
  <2>1. ~At(q, "connected", s, 1) /\ ~At(q, "disconnected", s, 1)
    BY <1>2 DEF At
  <2> HIDE DEF s, r, q, t, st
  <2> QED
    BY <1>2, <2>1, OtherTaken
<1>4. st = "open" => r
  <2> HIDE DEF s, r, q, t, st
  <2> QED
    BY <1>2, OpenIsRegistered
<1>5. Own' /\ LivesAll'
  BY <1>1, <1>3, TakingKeeps
<1>6. /\ \A v \in Units : v # u => worker'[v] = worker[v]
      /\ worker'[u] # Idle => st = "open" /\ worker'[u].socket = s
  BY <1>1 DEF RegistryInv, TypeOK, HandleReceived, Takes, Busy
<1>7. HandledIsRegistered'
  <2> HIDE DEF s, st
  <2> QED
    BY <1>1, <1>2, <1>4, <1>6 DEF RegistryInv, HandledIsRegistered
<1>8. Started' /\ NoLookupErrors'
  BY <1>1 DEF RegistryInv, Started, NoLookupErrors
<1> QED
  BY <1>5, <1>7, <1>8 DEF RegistryInv

\* A step of a busy thread that stays with its socket, or is done with it.
LEMMA BusyStepKeeps ==
    ASSUME RegistryInv, TypeOK', NEW u \in Units, worker[u] # Idle,
           \A v \in Units : v # u => worker'[v] = worker[v],
           worker'[u] # Idle => worker'[u].socket = worker[u].socket,
           UNCHANGED <<state, unit, inflight, queue, clients, errors>>
    PROVE  RegistryInv'
<1>1. LivesAll' /\ Own' /\ Started' /\ NoLookupErrors'
  BY QueueUnchanged DEF RegistryInv
<1>2. HandledIsRegistered'
  BY DEF RegistryInv, HandledIsRegistered
<1> QED
  BY <1>1, <1>2 DEF RegistryInv

LEMMA StepRegistry == RegistryInv /\ [Next]_vars => RegistryInv'
<1> SUFFICES ASSUME RegistryInv, [Next]_vars PROVE RegistryInv'
  OBVIOUS
<1>1. TypeOK /\ TypeOK'
  BY StepTypes DEF RegistryInv
<1>2. CASE Start \/ Stop \/ UNCHANGED vars
  <2>1. UNCHANGED <<state, unit, inflight, queue, worker, clients, errors>>
    BY <1>2 DEF Start, Stop, vars, socketVars
  <2> QED
    BY <1>1, <2>1, QueueUnchanged DEF RegistryInv, HandledIsRegistered
<1>3. ASSUME NEW s \in Sockets, Network(s) PROVE RegistryInv'
  <2>1. CASE Accept(s)
    BY <1>1, <2>1, AcceptKeeps
  <2>2. CASE QueueReceived(s)
    BY <1>1, <2>2, QueueReceivedKeeps
  <2>3. CASE Close(s)
    BY <1>1, <2>3, CloseKeeps
  <2>4. CASE QueueDisconnected(s)
    BY <1>1, <2>4, QueueDisconnectedKeeps
  <2>5. ASSUME NEW batch \in Batches, Arrive(s, batch) PROVE RegistryInv'
    <3>1. UNCHANGED <<state, unit, queue, worker, clients, errors>> /\ state[s] = "open"
      BY <2>5 DEF Arrive
    <3>2. \A x \in Sockets : x # s => inflight'[x] = inflight[x]
      BY <1>1, <2>5 DEF Arrive, TypeOK
    <3>3. LivesAll' /\ Own' /\ HandledIsRegistered' /\ NoLookupErrors'
      BY <3>1 DEF RegistryInv, LivesAll, Own, HandledIsRegistered, NoLookupErrors
    <3>4. Started'
      BY <3>1, <3>2 DEF RegistryInv, Started
    <3> QED
      BY <1>1, <3>3, <3>4 DEF RegistryInv
  <2> QED
    BY <1>3, <2>1, <2>2, <2>3, <2>4, <2>5 DEF Network
<1>4. ASSUME NEW u \in Units, Work(u) PROVE RegistryInv'
  <2>1. CASE HandleConnected(u)
    BY <1>1, <2>1, HandleConnectedKeeps
  <2>2. CASE HandleDisconnected(u)
    BY <1>1, <2>2, HandleDisconnectedKeeps
  <2>3. CASE HandleReceived(u)
    BY <1>1, <2>3, HandleReceivedKeeps
  <2>4. CASE Lookup(u)
    <3>1. worker[u] # Idle /\ worker[u].socket \in clients
      BY <2>4 DEF Lookup, RegistryInv, HandledIsRegistered
    <3>2. worker' = [worker EXCEPT ![u].at = "packets"]
      BY <2>4, <3>1 DEF Lookup
    <3>3. UNCHANGED <<state, unit, inflight, queue, clients, errors>>
      BY <2>4, <3>1 DEF Lookup, socketVars
    <3>4. worker[u] \in Tasks
      BY <1>1, <3>1, BusyWorker
    <3>5. worker'[u].socket = worker[u].socket /\ \A v \in Units : v # u => worker'[v] = worker[v]
      BY <1>1, <3>2, <3>4 DEF TypeOK, Tasks
    <3> QED
      BY <1>1, <3>1, <3>3, <3>5, BusyStepKeeps
  <2>5. CASE HandlePacket(u)
    <3>1. worker[u] # Idle /\ UNCHANGED <<state, unit, inflight, queue, clients, errors>>
      BY <2>5 DEF HandlePacket, socketVars
    <3>2. worker[u] \in Tasks
      BY <1>1, <3>1, BusyWorker
    <3>3. worker'[u].socket = worker[u].socket /\ \A v \in Units : v # u => worker'[v] = worker[v]
      BY <1>1, <2>5, <3>2 DEF HandlePacket, TypeOK, Tasks
    <3> QED
      BY <1>1, <3>1, <3>3, BusyStepKeeps
  <2>6. CASE Send(u)
    <3>1. worker[u] # Idle /\ UNCHANGED <<state, unit, inflight, queue, clients, errors>>
      BY <2>6 DEF Send, socketVars
    <3>2. worker[u] \in Tasks
      BY <1>1, <3>1, BusyWorker
    <3>3. \E rest : worker' = [worker EXCEPT ![u].left = rest]
      BY <2>6 DEF Send
    <3>4. worker'[u].socket = worker[u].socket /\ \A v \in Units : v # u => worker'[v] = worker[v]
      BY <1>1, <3>2, <3>3 DEF TypeOK, Tasks
    <3> QED
      BY <1>1, <3>1, <3>4, BusyStepKeeps
  <2>7. CASE Handled(u)
    <3>1. worker[u] # Idle /\ UNCHANGED <<state, unit, inflight, queue, clients, errors>>
      BY <2>7 DEF Handled, socketVars
    <3>2. worker[u] \in Tasks
      BY <1>1, <3>1, BusyWorker
    <3>3. worker'[u].socket = worker[u].socket /\ \A v \in Units : v # u => worker'[v] = worker[v]
      BY <1>1, <2>7, <3>2 DEF Handled, TypeOK, Tasks
    <3> QED
      BY <1>1, <3>1, <3>3, BusyStepKeeps
  <2>8. CASE Received(u)
    <3>1. worker[u] # Idle /\ UNCHANGED <<state, unit, inflight, queue, clients, errors>>
      BY <2>8 DEF Received, socketVars
    <3>2. worker'[u] = Idle /\ \A v \in Units : v # u => worker'[v] = worker[v]
      BY <1>1, <2>8 DEF Received, TypeOK
    <3> QED
      BY <1>1, <3>1, <3>2, BusyStepKeeps
  <2> QED
    BY <1>4, <2>1, <2>2, <2>3, <2>4, <2>5, <2>6, <2>7, <2>8 DEF Work
<1> QED
  BY <1>2, <1>3, <1>4 DEF Next

LEMMA RegistryCorrect == Spec => []RegistryInv
  BY InitRegistry, StepRegistry, PTL DEF Spec

\* The lookups of HandleReceived and HandleDisconnected never miss, and no client is
\* added twice, however many units, sockets and threads there are (Consumer.cs).
THEOREM LookupsNeverMiss == Spec => []NoLookupErrors
<1>1. RegistryInv => NoLookupErrors
  BY DEF RegistryInv
<1> QED
  BY <1>1, RegistryCorrect, PTL

\* A client that was found under the lock stays registered while its packets are
\* handled without it, and only by the thread of its unit (HandleReceived).
THEOREM HandledStaysRegistered == Spec => []HandledIsRegistered
<1>1. RegistryInv => HandledIsRegistered
  BY DEF RegistryInv
<1> QED
  BY <1>1, RegistryCorrect, PTL

\* _clients is what the events handled so far say, for every number of sockets and
\* units and whatever waits in the queues (HandleConnected, HandleDisconnected).
THEOREM RegistryIsTrue == Spec => []RegistryFollowsSockets
<1>1. ASSUME RegistryInv PROVE RegistryFollowsSockets
  <2>1. \A s \in Sockets : Lives(queue[unit[s]], s, state[s], s \in clients)
    BY <1>1 DEF RegistryInv, LivesAll
  <2>2. \A s \in Sockets : \A k : Waits(queue[unit[s]], k, s) <=> Pending(k, s)
    BY DEF Waits, At, Of, Pending
  <2> QED
    BY <2>1, <2>2 DEF Lives, RegistryFollowsSockets
<1> QED
  BY <1>1, RegistryCorrect, PTL

-----------------------------------------------------------------------------
(* The inductive invariant.                                                *)

\* The answers to packets, one behind the other.
AnswersTo(ps) == FlattenSeq([i \in 1 .. Len(ps) |-> Answer(ps[i])])

\* The packets a queue holds for a socket.
Carried(e, s) == IF e.kind = "received" /\ e.socket = s THEN e.packets ELSE << >>
PacketsOf(q, s) == FlattenSeq([i \in 1 .. Len(q) |-> Carried(q[i], s)])

\* The replies and the packets a worker holds for a socket.
LeftIn(w, s)  == IF w # Idle /\ w.socket = s THEN w.left ELSE << >>
TakenIn(w, s) == IF w # Idle /\ w.socket = s THEN w.packets ELSE << >>

Left(s)    == LeftIn(worker[unit[s]], s)
Waiting(s) ==
    (TakenIn(worker[unit[s]], s) \o PacketsOf(queue[unit[s]], s)) \o inflight[s]

\* What was asked is what was replied, what the handler has left and what waits.
Told(asked, replied, left, waiting) ==
    AnswersTo(asked) = (replied \o left) \o AnswersTo(waiting)

AnswersInOrder ==
    \A s \in Sockets :
        state[s] \in {"new", "open"} => Told(requests[s], replies[s], Left(s), Waiting(s))

\* Only a handler has replies left.
LeftWhileSending ==
    \A u \in Units : worker[u] # Idle /\ worker[u].at # "sending" => worker[u].left = << >>

\* The promise itself is not inductive: it does not say where the requests are that
\* have no reply yet, and the registry decides whether they get one.
SessionInv ==
    /\ RegistryInv
    /\ LeftWhileSending
    /\ AnswersInOrder

-----------------------------------------------------------------------------
(* Answers and packets of sequences.                                       *)

LEMMA NoPackets == AnswersTo(<< >>) = << >> /\ \A s : PacketsOf(<< >>, s) = << >>
<1>1. AnswersTo(<< >>) = << >>
  <2> DEFINE ss == [i \in 1 .. Len(<< >>) |-> Answer(<< >>[i])]
  <2>1. Len(ss) = 0 /\ ss = << >>
    OBVIOUS
  <2> HIDE DEF ss
  <2>2. FlattenSeq(ss) = << >>
    BY <2>1, FlattenEmpty
  <2> QED
    BY <2>2 DEF AnswersTo, ss
<1>2. ASSUME NEW s PROVE PacketsOf(<< >>, s) = << >>
  <2> DEFINE ss == [i \in 1 .. Len(<< >>) |-> Carried(<< >>[i], s)]
  <2>1. Len(ss) = 0 /\ ss = << >>
    OBVIOUS
  <2> HIDE DEF ss
  <2>2. FlattenSeq(ss) = << >>
    BY <2>1, FlattenEmpty
  <2> QED
    BY <2>2 DEF PacketsOf, ss
<1> QED
  BY <1>1, <1>2

LEMMA AnswersType ==
    ASSUME NEW ps \in Seq(Packets)
    PROVE  /\ AnswersTo(ps) \in Seq(Replies)
           /\ [i \in 1 .. Len(ps) |-> Answer(ps[i])] \in Seq(Seq(Replies))
<1>1. \A i \in 1 .. Len(ps) : Answer(ps[i]) \in Seq(Replies)
  <2> TAKE i \in 1 .. Len(ps)
  <2>1. ps[i] \in Packets
    OBVIOUS
  <2> QED
    BY <2>1, Answers
<1>2. [i \in 1 .. Len(ps) |-> Answer(ps[i])] \in Seq(Seq(Replies))
  BY <1>1
<1> QED
  BY <1>2, FlattenType DEF AnswersTo

\* The answers to packets that arrive together come one after the other.
LEMMA AnswersConcat ==
    ASSUME NEW ps \in Seq(Packets), NEW qs \in Seq(Packets)
    PROVE  AnswersTo(ps \o qs) = AnswersTo(ps) \o AnswersTo(qs)
<1> DEFINE a == [i \in 1 .. Len(ps) |-> Answer(ps[i])]
           b == [i \in 1 .. Len(qs) |-> Answer(qs[i])]
           c == [i \in 1 .. Len(ps \o qs) |-> Answer((ps \o qs)[i])]
<1>1. a \in Seq(Seq(Replies)) /\ b \in Seq(Seq(Replies))
  BY AnswersType
<1>2. c = a \o b
  <2>1. /\ Len(ps) \in Nat /\ Len(qs) \in Nat /\ Len(ps \o qs) = Len(ps) + Len(qs)
        /\ \A i \in 1 .. Len(ps) : (ps \o qs)[i] = ps[i]
        /\ \A i \in Len(ps) + 1 .. Len(ps) + Len(qs) : (ps \o qs)[i] = qs[i - Len(ps)]
    OBVIOUS
  <2>2. Len(a) = Len(ps) /\ Len(b) = Len(qs)
    OBVIOUS
  <2>3. a \o b = [i \in 1 .. Len(ps) + Len(qs) |->
                    IF i <= Len(ps) THEN a[i] ELSE b[i - Len(ps)]]
    BY <1>1, <2>2
  <2>4. \A i \in 1 .. Len(ps) + Len(qs) :
            c[i] = IF i <= Len(ps) THEN a[i] ELSE b[i - Len(ps)]
    <3> TAKE i \in 1 .. Len(ps) + Len(qs)
    <3>1. CASE i <= Len(ps)
      BY <2>1, <3>1
    <3>2. CASE ~(i <= Len(ps))
      <4>1. i - Len(ps) \in 1 .. Len(qs) /\ i \in Len(ps) + 1 .. Len(ps) + Len(qs)
        BY <2>1, <3>2
      <4> QED
        BY <2>1, <3>2, <4>1
    <3> QED
      BY <3>1, <3>2
  <2>5. c = [i \in 1 .. Len(ps) + Len(qs) |-> c[i]]
    BY <2>1
  <2> HIDE DEF a, b, c
  <2> QED
    BY <2>3, <2>4, <2>5
<1> HIDE DEF a, b, c
<1>3. FlattenSeq(a \o b) = FlattenSeq(a) \o FlattenSeq(b)
  BY <1>1, FlattenConcat
<1> QED
  BY <1>2, <1>3 DEF AnswersTo, a, b, c

LEMMA AnswersFirst ==
    ASSUME NEW ps \in Seq(Packets), ps # << >>
    PROVE  /\ AnswersTo(ps) = Answer(Head(ps)) \o AnswersTo(Tail(ps))
           /\ Head(ps) \in Packets /\ Tail(ps) \in Seq(Packets)
<1> DEFINE p == Head(ps)
           ss == [i \in 1 .. Len(<<p>>) |-> Answer(<<p>>[i])]
<1>1. p \in Packets /\ Tail(ps) \in Seq(Packets) /\ <<p>> \in Seq(Packets) /\ ps = <<p>> \o Tail(ps)
  OBVIOUS
<1>2. AnswersTo(ps) = AnswersTo(<<p>>) \o AnswersTo(Tail(ps))
  <2> HIDE DEF p
  <2> QED
    BY <1>1, AnswersConcat
<1>3. AnswersTo(<<p>>) = Answer(p)
  <2>1. ss = <<Answer(p)>>
    OBVIOUS
  <2>2. Answer(p) \in Seq(Replies)
    BY <1>1, Answers
  <2> HIDE DEF p
  <2>3. FlattenSeq(<<Answer(p)>>) = Answer(p)
    BY <2>2, FlattenOne
  <2> QED
    BY <2>1, <2>3 DEF AnswersTo
<1> QED
  BY <1>1, <1>2, <1>3

LEMMA CarriedType ==
    ASSUME NEW e \in Events, NEW s
    PROVE  Carried(e, s) \in Seq(Packets)
<1>1. e.packets \in Seq(Packets) /\ << >> \in Seq(Packets)
  BY DEF Events
<1> QED
  BY <1>1 DEF Carried

LEMMA PacketsType ==
    ASSUME NEW q \in Seq(Events), NEW s
    PROVE  /\ PacketsOf(q, s) \in Seq(Packets)
           /\ [i \in 1 .. Len(q) |-> Carried(q[i], s)] \in Seq(Seq(Packets))
<1>1. \A i \in 1 .. Len(q) : Carried(q[i], s) \in Seq(Packets)
  <2> TAKE i \in 1 .. Len(q)
  <2>1. q[i] \in Events
    OBVIOUS
  <2> QED
    BY <2>1, CarriedType
<1>2. [i \in 1 .. Len(q) |-> Carried(q[i], s)] \in Seq(Seq(Packets))
  BY <1>1
<1> QED
  BY <1>2, FlattenType DEF PacketsOf

\* An event that is queued comes behind the packets of its socket that wait.
LEMMA PacketsAppended ==
    ASSUME NEW q \in Seq(Events), NEW e \in Events, NEW s
    PROVE  PacketsOf(Append(q, e), s) = PacketsOf(q, s) \o Carried(e, s)
<1> DEFINE a == [i \in 1 .. Len(q) |-> Carried(q[i], s)]
           c == [i \in 1 .. Len(Append(q, e)) |-> Carried(Append(q, e)[i], s)]
           x == Carried(e, s)
<1>1. a \in Seq(Seq(Packets)) /\ x \in Seq(Packets)
  BY PacketsType, CarriedType
<1>2. c = Append(a, x)
  <2>1. /\ Len(Append(q, e)) = Len(q) + 1 /\ Len(q) \in Nat /\ Append(q, e)[Len(q) + 1] = e
        /\ \A i \in 1 .. Len(q) : Append(q, e)[i] = q[i]
    BY AppendFacts
  <2>2. Len(a) = Len(q)
    OBVIOUS
  <2>3. Append(a, x) = [i \in 1 .. Len(q) + 1 |-> IF i = Len(q) + 1 THEN x ELSE a[i]]
    BY <1>1, <2>2
  <2>4. \A i \in 1 .. Len(q) + 1 : c[i] = IF i = Len(q) + 1 THEN x ELSE a[i]
    BY <2>1
  <2>5. c = [i \in 1 .. Len(q) + 1 |-> c[i]]
    BY <2>1
  <2> HIDE DEF a, c, x
  <2> QED
    BY <2>3, <2>4, <2>5
<1> HIDE DEF a, c, x
<1>3. FlattenSeq(Append(a, x)) = FlattenSeq(a) \o x
  BY <1>1, FlattenAppend
<1> QED
  BY <1>2, <1>3 DEF PacketsOf, a, c, x

\* ... and the event that is taken had the first of them.
LEMMA PacketsTaken ==
    ASSUME NEW q \in Seq(Events), q # << >>, NEW s
    PROVE  PacketsOf(q, s) = Carried(Head(q), s) \o PacketsOf(Tail(q), s)
<1> DEFINE a == [i \in 1 .. Len(q) |-> Carried(q[i], s)]
           c == [i \in 1 .. Len(Tail(q)) |-> Carried(Tail(q)[i], s)]
<1>1. a \in Seq(Seq(Packets))
  BY PacketsType
<1>2. /\ Len(q) \in Nat /\ Len(q) >= 1 /\ Len(Tail(q)) = Len(q) - 1
      /\ \A i \in 1 .. Len(q) - 1 : Tail(q)[i] = q[i + 1]
      /\ Head(q) = q[1]
  BY TailFacts
<1>3. Len(a) = Len(q) /\ a # << >>
  BY <1>2
<1>4. Head(a) = Carried(Head(q), s)
  BY <1>2, <1>3
<1>5. Tail(a) = c
  <2>1. Tail(a) = [i \in 1 .. Len(q) - 1 |-> a[i + 1]]
    BY <1>1, <1>3
  <2>2. \A i \in 1 .. Len(q) - 1 : c[i] = a[i + 1]
    BY <1>2
  <2>3. c = [i \in 1 .. Len(q) - 1 |-> c[i]]
    BY <1>2
  <2> HIDE DEF a, c
  <2> QED
    BY <2>1, <2>2, <2>3
<1> HIDE DEF a, c
<1>6. FlattenSeq(a) = Head(a) \o FlattenSeq(Tail(a))
  BY <1>1, <1>3, FlattenFirst
<1> QED
  BY <1>4, <1>5, <1>6 DEF PacketsOf, a, c

-----------------------------------------------------------------------------
(* What one step does to a connection that was told the truth.             *)

\* The client asks for more.
LEMMA MoreAsked ==
    ASSUME NEW asked \in Seq(Packets), NEW replied \in Seq(Replies), NEW left \in Seq(Replies),
           NEW waiting \in Seq(Packets), NEW batch \in Seq(Packets),
           Told(asked, replied, left, waiting)
    PROVE  Told(asked \o batch, replied, left, waiting \o batch)
<1>1. PICK x \in Seq(Replies), y \in Seq(Replies), z \in Seq(Replies) :
        x = replied \o left /\ y = AnswersTo(waiting) /\ z = AnswersTo(batch)
  BY AnswersType, ConcatProperties
<1>2. Joined(AnswersTo(asked), x, y)
  BY <1>1 DEF Told, Joined
<1>3. Joined(AnswersTo(asked \o batch), AnswersTo(asked), z)
  BY <1>1, AnswersConcat DEF Joined
<1>4. Joined(AnswersTo(waiting \o batch), y, z)
  BY <1>1, AnswersConcat DEF Joined
<1>5. Joined(AnswersTo(asked \o batch), x, AnswersTo(waiting \o batch))
  BY <1>2, <1>3, <1>4, JoinedBehind
<1> QED
  BY <1>1, <1>5 DEF Told, Joined

\* A handler takes the first packet that waits.
LEMMA FirstHandled ==
    ASSUME NEW asked \in Seq(Packets), NEW replied \in Seq(Replies),
           NEW waiting \in Seq(Packets), waiting # << >>,
           Told(asked, replied, << >>, waiting)
    PROVE  Told(asked, replied, Answer(Head(waiting)), Tail(waiting))
<1> DEFINE x == Answer(Head(waiting))
           y == AnswersTo(Tail(waiting))
<1>1. AnswersTo(waiting) = x \o y /\ x \in Seq(Replies) /\ y \in Seq(Replies)
  <2>1. Head(waiting) \in Packets /\ Tail(waiting) \in Seq(Packets)
    OBVIOUS
  <2>2. Answer(Head(waiting)) \in Seq(Replies)
    BY <2>1, Answers
  <2>3. AnswersTo(Tail(waiting)) \in Seq(Replies)
    BY <2>1, AnswersType
  <2> QED
    BY <2>2, <2>3, AnswersFirst
<1> HIDE DEF x, y
<1>2. (replied \o << >>) \o (x \o y) = (replied \o x) \o y
  BY <1>1
<1>3. AnswersTo(asked) = (replied \o x) \o y
  BY <1>1, <1>2 DEF Told
<1> QED
  BY <1>3 DEF Told, x, y

\* One of the replies that are left goes out: it is the next the client expects.
LEMMA OneReplied ==
    ASSUME NEW asked \in Seq(Packets), NEW replied \in Seq(Replies), NEW left \in Seq(Replies),
           NEW waiting \in Seq(Packets), left # << >>,
           Told(asked, replied, left, waiting)
    PROVE  /\ Told(asked, Append(replied, Head(left)), Tail(left), waiting)
           /\ Len(replied) < Len(AnswersTo(asked))
           /\ Head(left) = AnswersTo(asked)[Len(replied) + 1]
<1> DEFINE y == AnswersTo(waiting)
           all == AnswersTo(asked)
<1>1. y \in Seq(Replies) /\ all \in Seq(Replies) /\ all = (replied \o left) \o y
  BY AnswersType DEF Told
<1> HIDE DEF y, all
<1>2. Append(replied, Head(left)) \o Tail(left) = replied \o left
  OBVIOUS
<1>3. /\ Len(replied) \in Nat /\ Len(left) \in Nat /\ Len(left) > 0 /\ Len(y) \in Nat
      /\ Len(all) = (Len(replied) + Len(left)) + Len(y)
  BY <1>1
<1>4. all[Len(replied) + 1] = left[1]
  BY <1>1, <1>3
<1>5. Head(left) = left[1]
  OBVIOUS
<1>6. all = (Append(replied, Head(left)) \o Tail(left)) \o y
  BY <1>1, <1>2
<1> QED
  BY <1>3, <1>4, <1>5, <1>6 DEF Told, y, all

-----------------------------------------------------------------------------
(* What a worker and a queue hold for a socket.                            *)

LEMMA WorkTypes ==
    ASSUME TypeOK, NEW s \in Sockets
    PROVE  /\ unit[s] \in Units
           /\ queue[unit[s]] \in Seq(Events)
           /\ requests[s] \in Seq(Packets)
           /\ replies[s] \in Seq(Replies)
           /\ inflight[s] \in Seq(Packets)
           /\ Left(s) \in Seq(Replies)
           /\ TakenIn(worker[unit[s]], s) \in Seq(Packets)
           /\ PacketsOf(queue[unit[s]], s) \in Seq(Packets)
           /\ Waiting(s) \in Seq(Packets)
<1>1. /\ unit[s] \in Units /\ queue[unit[s]] \in Seq(Events)
      /\ requests[s] \in Seq(Packets) /\ replies[s] \in Seq(Replies)
      /\ inflight[s] \in Seq(Packets)
  BY DEF TypeOK
<1>2. /\ worker[unit[s]] # Idle => worker[unit[s]].left \in Seq(Replies)
      /\ worker[unit[s]] # Idle => worker[unit[s]].packets \in Seq(Packets)
  BY <1>1, BusyWorker DEF Tasks
<1>3. Left(s) \in Seq(Replies) /\ TakenIn(worker[unit[s]], s) \in Seq(Packets)
  <2>1. << >> \in Seq(Replies) /\ << >> \in Seq(Packets)
    OBVIOUS
  <2> QED
    BY <1>2, <2>1 DEF Left, LeftIn, TakenIn
<1>4. PacketsOf(queue[unit[s]], s) \in Seq(Packets)
  BY <1>1, PacketsType
<1>5. Waiting(s) \in Seq(Packets)
  BY <1>1, <1>3, <1>4 DEF Waiting
<1> QED
  BY <1>1, <1>3, <1>4, <1>5

\* A worker that is busy with another socket, or idle, holds nothing.
LEMMA NothingHeld ==
    ASSUME NEW w, NEW s, w = Idle \/ w.socket # s
    PROVE  LeftIn(w, s) = << >> /\ TakenIn(w, s) = << >>
  BY DEF LeftIn, TakenIn

LEMMA AllHeld ==
    ASSUME NEW w, NEW s, w # Idle, w.socket = s
    PROVE  LeftIn(w, s) = w.left /\ TakenIn(w, s) = w.packets
  BY DEF LeftIn, TakenIn

\* An event is queued.
LEMMA QueuedPackets ==
    ASSUME TypeOK, NEW e \in Events, Enqueue(e), unit' = unit, NEW s \in Sockets
    PROVE  PacketsOf(queue'[unit'[s]], s) = PacketsOf(queue[unit[s]], s) \o Carried(e, s)
<1>1. /\ e.socket \in Sockets /\ unit[e.socket] \in Units /\ unit[s] \in Units
      /\ queue[unit[s]] \in Seq(Events)
  BY DEF TypeOK, Events
<1>2. CASE unit[s] = unit[e.socket]
  <2>1. queue'[unit[s]] = Append(queue[unit[s]], e)
    BY <1>1, <1>2 DEF Enqueue, TypeOK
  <2> QED
    BY <1>1, <2>1, PacketsAppended
<1>3. CASE unit[s] # unit[e.socket]
  <2>1. queue'[unit[s]] = queue[unit[s]]
    BY <1>1, <1>3 DEF Enqueue, TypeOK
  <2>2. Carried(e, s) = << >>
    BY <1>3 DEF Carried
  <2>3. PacketsOf(queue[unit[s]], s) \in Seq(Packets)
    BY <1>1, PacketsType
  <2>4. PacketsOf(queue[unit[s]], s) \o << >> = PacketsOf(queue[unit[s]], s)
    BY <2>3
  <2> QED
    BY <2>1, <2>2, <2>4
<1> QED
  BY <1>2, <1>3

\* An event is taken.
LEMMA TakenPackets ==
    ASSUME TypeOK, Own, NEW u \in Units, NEW k, Takes(u, k), unit' = unit, NEW s \in Sockets
    PROVE  PacketsOf(queue[unit[s]], s)
             = Carried(Head(queue[u]), s) \o PacketsOf(queue'[unit'[s]], s)
<1>1. /\ queue[u] \in Seq(Events) /\ queue[u] # << >> /\ unit[s] \in Units
      /\ queue'[u] = Tail(queue[u])
      /\ \A v \in Units : v # u => queue'[v] = queue[v]
  BY DEF Takes, TypeOK
<1>2. CASE unit[s] = u
  BY <1>1, <1>2, PacketsTaken
<1>3. CASE unit[s] # u
  <2>1. Len(queue[u]) \in Nat /\ Len(queue[u]) >= 1 /\ Head(queue[u]) = queue[u][1]
    BY <1>1, TailFacts
  <2>2. unit[Head(queue[u]).socket] = u
    BY <2>1 DEF Own
  <2>3. Carried(Head(queue[u]), s) = << >>
    BY <1>3, <2>2 DEF Carried
  <2>4. queue[unit[s]] \in Seq(Events) /\ queue'[unit'[s]] = queue[unit[s]]
    BY <1>1, <1>3 DEF TypeOK
  <2>5. PacketsOf(queue[unit[s]], s) \in Seq(Packets)
    BY <2>4, PacketsType
  <2>6. << >> \o PacketsOf(queue[unit[s]], s) = PacketsOf(queue[unit[s]], s)
    BY <2>5
  <2> QED
    BY <2>3, <2>4, <2>6
<1> QED
  BY <1>2, <1>3

-----------------------------------------------------------------------------
(* The invariant is inductive.                                             *)

Sound(s) ==
    state[s] \in {"new", "open"} => Told(requests[s], replies[s], Left(s), Waiting(s))

LEMMA AllSound == AnswersInOrder <=> \A s \in Sockets : Sound(s)
  BY DEF AnswersInOrder, Sound

\* Nothing happens to the requests, the replies and what waits.
LEMMA StaysSound ==
    ASSUME NEW s \in Sockets, Sound(s),
           state'[s] \in {"new", "open"} => state[s] \in {"new", "open"},
           requests'[s] = requests[s], replies'[s] = replies[s],
           Left(s)' = Left(s), Waiting(s)' = Waiting(s)
    PROVE  Sound(s)'
<1>1. Sound(s)' <=>
        (state'[s] \in {"new", "open"} => Told(requests'[s], replies'[s], Left(s)', Waiting(s)'))
  BY DEF Sound, Told
<1> QED
  BY <1>1 DEF Sound

\* An event that carries no segment is queued.
LEMMA SignalSound ==
    ASSUME SessionInv, NEW r \in Sockets, NEW k \in {"connected", "disconnected"},
           Enqueue(Event(k, r, << >>)),
           UNCHANGED <<unit, requests, inflight, worker, replies>>,
           NEW s \in Sockets, state'[s] \in {"new", "open"} => state[s] \in {"new", "open"}
    PROVE  Sound(s)'
<1> DEFINE e == Event(k, r, << >>)
<1>1. TypeOK /\ Sound(s)
  BY AllSound DEF SessionInv, RegistryInv
<1>2. << >> \in Seq(Packets)
  OBVIOUS
<1>3. e \in Events /\ e.kind # "received"
  BY <1>2, EventTypes
<1>4. Carried(e, s) = << >>
  BY <1>3 DEF Carried
<1>5. Enqueue(e) /\ unit' = unit
  OBVIOUS
<1> HIDE DEF e
<1>6. PacketsOf(queue'[unit'[s]], s) = PacketsOf(queue[unit[s]], s) \o Carried(e, s)
  BY <1>1, <1>3, <1>5, QueuedPackets
<1>7. PacketsOf(queue[unit[s]], s) \in Seq(Packets)
  BY <1>1, WorkTypes
<1>8. PacketsOf(queue'[unit'[s]], s) = PacketsOf(queue[unit[s]], s)
  BY <1>4, <1>6, <1>7
<1>9. Left(s)' = Left(s) /\ Waiting(s)' = Waiting(s)
  BY <1>8 DEF Left, Waiting
<1> QED
  BY <1>1, <1>9, StaysSound

\* A segment gets from the server into a queue.
LEMMA SegmentSound ==
    ASSUME SessionInv, NEW r \in Sockets, QueueReceived(r), NEW s \in Sockets
    PROVE  Sound(s)'
<1> DEFINE b == inflight[r]
           e == Event("received", r, b)
           p == PacketsOf(queue[unit[s]], s)
           t == TakenIn(worker[unit[s]], s)
<1>1. TypeOK /\ Sound(s)
  BY AllSound DEF SessionInv, RegistryInv
<1>2. b \in Seq(Packets)
  BY <1>1 DEF TypeOK
<1>3. e \in Events
  BY <1>2, EventTypes
<1>4. Enqueue(e) /\ UNCHANGED <<state, unit, requests, worker, replies>>
  BY DEF QueueReceived
<1>5. PacketsOf(queue'[unit'[s]], s) = p \o Carried(e, s)
  <2> HIDE DEF e
  <2> QED
    BY <1>1, <1>3, <1>4, QueuedPackets
<1>6. p \in Seq(Packets) /\ t \in Seq(Packets) /\ inflight[s] \in Seq(Packets)
  BY <1>1, WorkTypes
<1>7. CASE s = r
  <2>1. Carried(e, s) = inflight[s] /\ inflight'[s] = << >>
    BY <1>1, <1>7 DEF Carried, Event, QueueReceived, TypeOK
  <2>2. (t \o (p \o inflight[s])) \o << >> = (t \o p) \o inflight[s]
    <3> DEFINE i == inflight[s]
    <3>1. t \in Seq(Packets) /\ p \in Seq(Packets) /\ i \in Seq(Packets)
      BY <1>6
    <3> HIDE DEF t, p, i
    <3>2. (t \o (p \o i)) \o << >> = (t \o p) \o i
      BY <3>1
    <3> QED
      BY <3>2 DEF i
  <2>3. Left(s)' = Left(s) /\ Waiting(s)' = Waiting(s)
    <3>1. TakenIn(worker'[unit'[s]], s) = t
      BY <1>4
    <3>2. Waiting(s)' = (t \o (p \o inflight[s])) \o << >>
      BY <1>5, <2>1, <3>1 DEF Waiting
    <3> QED
      BY <1>4, <2>2, <3>2 DEF Left, Waiting
  <2> QED
    BY <1>1, <1>4, <2>3, StaysSound
<1>8. CASE s # r
  <2>1. Carried(e, s) = << >> /\ inflight'[s] = inflight[s]
    BY <1>1, <1>8 DEF Carried, Event, QueueReceived, TypeOK
  <2>2. p \o << >> = p
    <3> HIDE DEF p
    <3> QED
      BY <1>6
  <2>3. Left(s)' = Left(s) /\ Waiting(s)' = Waiting(s)
    BY <1>4, <1>5, <2>1, <2>2 DEF Left, Waiting
  <2> QED
    BY <1>1, <1>4, <2>3, StaysSound
<1> QED
  BY <1>7, <1>8

\* A segment arrives.
LEMMA ArrivalSound ==
    ASSUME SessionInv, NEW r \in Sockets, NEW batch \in Batches, Arrive(r, batch),
           NEW s \in Sockets
    PROVE  Sound(s)'
<1> DEFINE x == TakenIn(worker[unit[s]], s) \o PacketsOf(queue[unit[s]], s)
<1>1. TypeOK /\ Sound(s) /\ batch \in Seq(Packets)
  BY AllSound, BatchesAssumption DEF SessionInv, RegistryInv
<1>2. UNCHANGED <<state, unit, queue, worker, replies>>
  BY DEF Arrive
<1>3. CASE s = r
  <2>1. /\ state[s] = "open" /\ inflight[s] = << >>
        /\ requests'[s] = requests[s] \o batch /\ inflight'[s] = batch
    BY <1>1, <1>3 DEF Arrive, TypeOK
  <2>2. x \in Seq(Packets)
    BY <1>1, WorkTypes
  <2>3. Waiting(s) = x /\ Waiting(s)' = x \o batch
    <3>1. Waiting(s) = x \o << >> /\ Waiting(s)' = x \o batch
      BY <1>2, <2>1 DEF Waiting
    <3> HIDE DEF x
    <3> QED
      BY <2>2, <3>1
  <2>4. Told(requests[s], replies[s], Left(s), Waiting(s))
    BY <1>1, <2>1 DEF Sound
  <2>5. Told(requests[s] \o batch, replies[s], Left(s), Waiting(s) \o batch)
    BY <1>1, <2>4, WorkTypes, MoreAsked
  <2>6. Left(s)' = Left(s) /\ replies'[s] = replies[s]
    BY <1>2 DEF Left
  <2>7. Told(requests'[s], replies'[s], Left(s)', Waiting(s)')
    BY <2>1, <2>3, <2>5, <2>6
  <2> QED
    BY <2>7 DEF Sound, Told
<1>4. CASE s # r
  <2>1. requests'[s] = requests[s] /\ inflight'[s] = inflight[s]
    BY <1>1, <1>4 DEF Arrive, TypeOK
  <2>2. Left(s)' = Left(s) /\ Waiting(s)' = Waiting(s)
    BY <1>2, <2>1 DEF Left, Waiting
  <2> QED
    BY <1>1, <1>2, <2>1, <2>2, StaysSound
<1> QED
  BY <1>3, <1>4

\* An event that carries no segment is taken.
LEMMA SignalTaken ==
    ASSUME SessionInv, NEW u \in Units, NEW k \in {"connected", "disconnected"}, Takes(u, k),
           UNCHANGED <<state, unit, requests, inflight, worker, replies>>, NEW s \in Sockets
    PROVE  Sound(s)'
<1>1. TypeOK /\ Own /\ Sound(s)
  BY AllSound DEF SessionInv, RegistryInv
<1>2. Carried(Head(queue[u]), s) = << >>
  BY DEF Takes, Carried
<1>3. PacketsOf(queue[unit[s]], s)
        = Carried(Head(queue[u]), s) \o PacketsOf(queue'[unit'[s]], s)
  BY <1>1, TakenPackets
<1>4. PacketsOf(queue'[unit'[s]], s) \in Seq(Packets)
  <2>1. queue'[unit'[s]] \in Seq(Events)
    BY <1>1, TakesType DEF TypeOK
  <2> QED
    BY <2>1, PacketsType
<1>5. PacketsOf(queue[unit[s]], s) = PacketsOf(queue'[unit'[s]], s)
  BY <1>2, <1>3, <1>4
<1>6. Left(s)' = Left(s) /\ Waiting(s)' = Waiting(s)
  BY <1>5 DEF Left, Waiting
<1> QED
  BY <1>1, <1>6, StaysSound

LEMMA BusySocket ==
    ASSUME NEW w, NEW at, NEW s, NEW batch, NEW left, w = Busy(at, s, batch, left)
    PROVE  w.socket = s
  BY DEF Busy

\* A segment is taken: an open socket is handled, and one that is not is no new one.
LEMMA SegmentTaken ==
    ASSUME SessionInv, NEW u \in Units, HandleReceived(u), NEW s \in Sockets
    PROVE  Sound(s)'
<1> DEFINE e == Head(queue[u])
           r == e.socket
           p == PacketsOf(queue'[unit'[s]], s)
<1>1. TypeOK /\ Own /\ RegistryInv /\ Sound(s)
  BY AllSound DEF SessionInv, RegistryInv
<1>2. /\ Takes(u, "received")
      /\ UNCHANGED <<state, unit, requests, inflight, replies>>
      /\ worker' = IF state[r] = "open"
                     THEN [worker EXCEPT ![u] = Busy("alive", r, e.packets, << >>)]
                     ELSE worker
  BY DEF HandleReceived, socketVars
<1>3. /\ r \in Sockets /\ unit[r] = u /\ At(queue[u], "received", r, 1)
      /\ Lives(queue[u], r, state[r], r \in clients)
      /\ Shorter(queue'[u], queue[u], r)
  BY <1>1, <1>2, FirstTaken
<1>4. worker[u] = Idle /\ e.kind = "received"
  BY <1>2 DEF Takes
<1>5. PacketsOf(queue[unit[s]], s) = Carried(e, s) \o p
  BY <1>1, <1>2, TakenPackets
<1>6. p \in Seq(Packets) /\ inflight[s] \in Seq(Packets) /\ e.packets \in Seq(Packets)
  <2>1. queue'[unit'[s]] \in Seq(Events) /\ e.packets \in Seq(Packets)
    BY <1>1, <1>2, TakesType DEF TypeOK
  <2> QED
    BY <1>1, <2>1, PacketsType, WorkTypes
<1>7. unit[s] \in Units /\ worker \in [Units -> {Idle} \cup Tasks]
  BY <1>1, WorkerType
<1>8. state[r] # "new"
  <2>1. Of(queue[u], r, 1) /\ 1 \in 1 .. Len(queue[u])
    BY <1>3 DEF At, Of
  <2> HIDE DEF r
  <2> QED
    BY <1>3, <2>1 DEF Lives
<1>9. CASE s # r
  <2>1. Carried(e, s) = << >>
    BY <1>9 DEF Carried
  <2>2. PacketsOf(queue[unit[s]], s) = p
    <3> HIDE DEF p
    <3> QED
      BY <1>5, <1>6, <2>1
  <2>3. /\ LeftIn(worker'[unit[s]], s) = LeftIn(worker[unit[s]], s)
        /\ TakenIn(worker'[unit[s]], s) = TakenIn(worker[unit[s]], s)
    <3>1. CASE worker'[unit[s]] = worker[unit[s]]
      BY <3>1
    <3>2. CASE worker'[unit[s]] # worker[unit[s]]
      <4>1. unit[s] = u
        BY <1>2, <1>7, <3>2
      <4>2. worker'[u] = Busy("alive", r, e.packets, << >>)
        BY <1>2, <1>7, <3>2, <4>1
      <4>3. worker'[unit[s]].socket # s
        <5> HIDE DEF e, r
        <5> QED
          BY <1>9, <4>1, <4>2, BusySocket
      <4> QED
        BY <1>4, <4>1, <4>3, NothingHeld
    <3> QED
      BY <3>1, <3>2
  <2>4. Left(s)' = Left(s) /\ Waiting(s)' = Waiting(s)
    BY <1>2, <2>2, <2>3 DEF Left, Waiting
  <2> QED
    BY <1>1, <1>2, <2>4, StaysSound
<1>10. CASE s = r /\ state[r] = "open"
  <2> DEFINE w == Busy("alive", s, e.packets, << >>)
  <2>1. worker'[u] = w /\ w # Idle /\ w.socket = s /\ w.packets = e.packets /\ w.left = << >>
    BY <1>2, <1>7, <1>10 DEF Busy, Idle
  <2>2. Carried(e, s) = e.packets
    BY <1>4, <1>10 DEF Carried
  <2>3. LeftIn(worker[u], s) = << >> /\ TakenIn(worker[u], s) = << >>
    BY <1>4, NothingHeld
  <2>4. LeftIn(worker'[u], s) = << >> /\ TakenIn(worker'[u], s) = e.packets
    BY <2>1, AllHeld
  <2>5. Left(s)' = Left(s)
    <3>1. unit[s] = u /\ unit'[s] = u
      BY <1>2, <1>3, <1>10
    <3>2. Left(s) = << >>
      BY <2>3, <3>1 DEF Left
    <3>3. Left(s)' = << >>
      BY <2>4, <3>1 DEF Left
    <3> QED
      BY <3>2, <3>3
  <2>6. Waiting(s) = (<< >> \o (e.packets \o p)) \o inflight[s]
    <3>1. unit[s] = u
      BY <1>3, <1>10
    <3>2. TakenIn(worker[unit[s]], s) = << >>
      BY <2>3, <3>1
    <3>3. PacketsOf(queue[unit[s]], s) = e.packets \o p
      BY <1>5, <2>2
    <3> QED
      BY <3>2, <3>3 DEF Waiting
  <2>7. Waiting(s)' = (e.packets \o p) \o inflight[s]
    BY <1>2, <1>3, <1>10, <2>4 DEF Waiting
  <2>8. << >> \o (e.packets \o p) = e.packets \o p
    <3> DEFINE x == e.packets
    <3>1. x \in Seq(Packets)
      BY <1>6
    <3> HIDE DEF p, x
    <3>2. << >> \o (x \o p) = x \o p
      BY <1>6, <3>1
    <3> QED
      BY <3>2 DEF x
  <2>9. Waiting(s)' = Waiting(s)
    BY <2>6, <2>7, <2>8
  <2> QED
    BY <1>1, <1>2, <2>5, <2>9, StaysSound
<1>11. CASE s = r /\ state[r] # "open"
  <2>1. ~(state'[s] \in {"new", "open"})
    BY <1>2, <1>8, <1>11
  <2> QED
    BY <2>1 DEF Sound
<1> QED
  BY <1>9, <1>10, <1>11

\* A worker goes on with its socket: the others do not notice.
LEMMA WorkerSound ==
    ASSUME SessionInv, NEW u \in Units, worker[u] # Idle, NEW w,
           NEW r, r = worker[u].socket, Sound(r)',
           worker' = [worker EXCEPT ![u] = w], w = Idle \/ w.socket = r,
           UNCHANGED <<state, unit, requests, inflight, queue>>,
           \A x \in Sockets : x # r => replies'[x] = replies[x],
           NEW s \in Sockets
    PROVE  Sound(s)'
<1>1. TypeOK /\ Sound(s)
  BY AllSound DEF SessionInv, RegistryInv
<1>2. unit[s] \in Units /\ worker'[u] = w /\ \A v \in Units : v # u => worker'[v] = worker[v]
  BY <1>1 DEF TypeOK
<1>3. CASE s = r
  BY <1>3
<1>4. CASE s # r
  <2>1. /\ LeftIn(worker'[unit[s]], s) = LeftIn(worker[unit[s]], s)
        /\ TakenIn(worker'[unit[s]], s) = TakenIn(worker[unit[s]], s)
    <3>1. CASE unit[s] # u
      BY <1>2, <3>1
    <3>2. CASE unit[s] = u
      BY <1>2, <1>4, <3>2, NothingHeld
    <3> QED
      BY <3>1, <3>2
  <2>2. Left(s)' = Left(s) /\ Waiting(s)' = Waiting(s)
    BY <2>1 DEF Left, Waiting
  <2> QED
    BY <1>1, <1>4, <2>2, StaysSound
<1> QED
  BY <1>3, <1>4

\* What a busy worker holds is what is left and what comes first for its socket.
LEMMA HeldByWorker ==
    ASSUME SessionInv, NEW u \in Units, worker[u] # Idle, NEW s, s = worker[u].socket
    PROVE  /\ s \in Sockets /\ unit[s] = u /\ state[s] # "new" /\ s \in clients
           /\ worker[u] \in Tasks
           /\ worker[u].left \in Seq(Replies) /\ worker[u].packets \in Seq(Packets)
           /\ Left(s) = worker[u].left
           /\ Waiting(s) = (worker[u].packets \o PacketsOf(queue[u], s)) \o inflight[s]
<1>1. TypeOK /\ HandledIsRegistered /\ LivesAll
  BY DEF SessionInv, RegistryInv
<1>2. /\ worker[u] \in Tasks /\ s \in Sockets
      /\ worker[u].left \in Seq(Replies) /\ worker[u].packets \in Seq(Packets)
  BY <1>1, BusyWorker DEF Tasks
<1>3. unit[s] = u /\ s \in clients
  BY <1>1 DEF HandledIsRegistered
<1>4. state[s] # "new"
  BY <1>1, <1>2, <1>3 DEF LivesAll, Lives
<1>5. LeftIn(worker[u], s) = worker[u].left /\ TakenIn(worker[u], s) = worker[u].packets
  BY AllHeld
<1> QED
  BY <1>2, <1>3, <1>4, <1>5 DEF Left, Waiting

\* The worker of an open socket goes on: what it holds then is still what is due.
LEMMA WorkDone ==
    ASSUME SessionInv, NEW u \in Units, worker[u] # Idle, NEW s, s = worker[u].socket,
           NEW w, worker' = [worker EXCEPT ![u] = w], w = Idle \/ w.socket = s,
           UNCHANGED <<state, unit, requests, inflight, queue>>,
           LET rest == PacketsOf(queue[u], s) IN
             state[s] = "open" => Told(requests[s], replies'[s], LeftIn(w, s),
                                       (TakenIn(w, s) \o rest) \o inflight[s])
    PROVE  Sound(s)'
<1>1. s \in Sockets /\ unit[s] = u /\ state[s] # "new" /\ TypeOK
  BY HeldByWorker DEF SessionInv, RegistryInv
<1>2. worker'[u] = w
  BY <1>1 DEF TypeOK
<1>3. Left(s)' = LeftIn(w, s)
  BY <1>1, <1>2 DEF Left
<1>4. Waiting(s)' = (TakenIn(w, s) \o PacketsOf(queue[u], s)) \o inflight[s]
  BY <1>1, <1>2 DEF Waiting
<1>5. state'[s] \in {"new", "open"} => Told(requests'[s], replies'[s], Left(s)', Waiting(s)')
  BY <1>1, <1>3, <1>4
<1> QED
  BY <1>5 DEF Sound, Told

\* The worker changes what it is at and keeps what it holds: Lookup, Handled, Received.
LEMMA HoldingSound ==
    ASSUME SessionInv, NEW u \in Units, worker[u] # Idle,
           NEW w, worker' = [worker EXCEPT ![u] = w], w = Idle \/ w.socket = worker[u].socket,
           LeftIn(w, worker[u].socket) = worker[u].left,
           TakenIn(w, worker[u].socket) = worker[u].packets,
           UNCHANGED <<state, unit, requests, inflight, queue, replies>>,
           NEW s \in Sockets
    PROVE  Sound(s)'
<1> DEFINE r == worker[u].socket
           h == (worker[u].packets \o PacketsOf(queue[u], r)) \o inflight[r]
<1>1. r = worker[u].socket
  OBVIOUS
<1> HIDE DEF r
<1>2. /\ r \in Sockets /\ Left(r) = worker[u].left /\ Waiting(r) = h
      /\ Sound(r)
  BY <1>1, HeldByWorker, AllSound DEF SessionInv
<1>3. state[r] = "open" => Told(requests[r], replies'[r], LeftIn(w, r),
                                (TakenIn(w, r) \o PacketsOf(queue[u], r)) \o inflight[r])
  BY <1>1, <1>2 DEF Sound
<1>4. PICK x : x = r
  OBVIOUS
<1>5. Sound(x)'
  BY <1>1, <1>3, <1>4, WorkDone
<1> QED
  BY <1>1, <1>4, <1>5, WorkerSound

LEMMA LookupSound ==
    ASSUME SessionInv, NEW u \in Units, Lookup(u), NEW s \in Sockets
    PROVE  Sound(s)'
<1> DEFINE w == [worker[u] EXCEPT !.at = "packets"]
<1>1. worker[u] # Idle /\ worker[u].socket \in clients /\ worker[u] \in Tasks
  BY HeldByWorker DEF Lookup
<1>2. worker' = [worker EXCEPT ![u] = w]
  BY <1>1 DEF Lookup
<1>3. /\ w # Idle /\ w.socket = worker[u].socket
      /\ w.left = worker[u].left /\ w.packets = worker[u].packets
  BY <1>1 DEF Tasks, Idle
<1>4. /\ LeftIn(w, worker[u].socket) = worker[u].left
      /\ TakenIn(w, worker[u].socket) = worker[u].packets
  BY <1>3, AllHeld
<1>5. UNCHANGED <<state, unit, requests, inflight, queue, replies>>
  BY DEF Lookup, socketVars
<1> HIDE DEF w
<1> QED
  BY <1>1, <1>2, <1>3, <1>4, <1>5, HoldingSound

LEMMA HandledSound ==
    ASSUME SessionInv, NEW u \in Units, Handled(u), NEW s \in Sockets
    PROVE  Sound(s)'
<1> DEFINE w == [worker[u] EXCEPT !.at = "packets"]
<1>1. worker[u] # Idle /\ worker[u] \in Tasks
  BY HeldByWorker DEF Handled
<1>2. worker' = [worker EXCEPT ![u] = w]
  BY <1>1 DEF Handled
<1>3. /\ w # Idle /\ w.socket = worker[u].socket
      /\ w.left = worker[u].left /\ w.packets = worker[u].packets
  BY <1>1 DEF Tasks, Idle
<1>4. /\ LeftIn(w, worker[u].socket) = worker[u].left
      /\ TakenIn(w, worker[u].socket) = worker[u].packets
  BY <1>3, AllHeld
<1>5. UNCHANGED <<state, unit, requests, inflight, queue, replies>>
  BY DEF Handled, socketVars
<1> HIDE DEF w
<1> QED
  BY <1>1, <1>2, <1>3, <1>4, <1>5, HoldingSound

LEMMA ReceivedSound ==
    ASSUME SessionInv, NEW u \in Units, Received(u), NEW s \in Sockets
    PROVE  Sound(s)'
<1>1. worker[u] # Idle /\ worker' = [worker EXCEPT ![u] = Idle]
  BY DEF Received
<1>2. worker[u].left = << >> /\ worker[u].packets = << >>
  BY DEF Received, SessionInv, LeftWhileSending
<1>3. /\ LeftIn(Idle, worker[u].socket) = worker[u].left
      /\ TakenIn(Idle, worker[u].socket) = worker[u].packets
  BY <1>2 DEF LeftIn, TakenIn
<1>4. UNCHANGED <<state, unit, requests, inflight, queue, replies>>
  BY DEF Received, socketVars
<1> QED
  BY <1>1, <1>3, <1>4, HoldingSound

LEMMA HandlePacketSound ==
    ASSUME SessionInv, NEW u \in Units, HandlePacket(u), NEW s \in Sockets
    PROVE  Sound(s)'
<1>1. PICK r : r = worker[u].socket
  OBVIOUS
<1> DEFINE ps == worker[u].packets
           rest == PacketsOf(queue[u], r)
           w == [worker[u] EXCEPT !.at = "sending", !.packets = Tail(ps), !.left = Answer(Head(ps))]
<1>2. worker[u] # Idle /\ worker[u].at = "packets" /\ ps # << >>
  BY DEF HandlePacket
<1>3. /\ r \in Sockets /\ worker[u] \in Tasks /\ ps \in Seq(Packets)
      /\ Left(r) = worker[u].left /\ Waiting(r) = (ps \o rest) \o inflight[r]
      /\ Sound(r) /\ TypeOK
  BY <1>1, <1>2, HeldByWorker, AllSound DEF SessionInv, RegistryInv
<1>4. Left(r) = << >>
  BY <1>2, <1>3 DEF SessionInv, LeftWhileSending
<1>5. worker' = [worker EXCEPT ![u] = w]
  BY <1>3 DEF HandlePacket, TypeOK
<1>6. w # Idle /\ w.socket = r /\ w.left = Answer(Head(ps)) /\ w.packets = Tail(ps)
  BY <1>1, <1>3 DEF Tasks, Idle
<1>7. UNCHANGED <<state, unit, requests, inflight, queue, replies>>
  BY DEF HandlePacket, socketVars
<1>8. unit[r] = u
  BY <1>1, <1>2, HeldByWorker
<1>9. /\ rest \in Seq(Packets) /\ inflight[r] \in Seq(Packets) /\ Waiting(r) \in Seq(Packets)
      /\ requests[r] \in Seq(Packets) /\ replies[r] \in Seq(Replies)
  BY <1>3, <1>8, WorkTypes
<1>10. /\ Waiting(r) # << >>
       /\ Head(Waiting(r)) = Head(ps)
       /\ Tail(Waiting(r)) = (Tail(ps) \o rest) \o inflight[r]
  <2> DEFINE i == inflight[r]
  <2>1. /\ Waiting(r) = (ps \o rest) \o i /\ ps # << >>
        /\ ps \in Seq(Packets) /\ rest \in Seq(Packets) /\ i \in Seq(Packets)
    BY <1>2, <1>3, <1>9
  <2> HIDE DEF ps, rest, i
  <2>2. /\ (ps \o rest) \o i # << >>
        /\ Head((ps \o rest) \o i) = Head(ps)
        /\ Tail((ps \o rest) \o i) = (Tail(ps) \o rest) \o i
    <3> DEFINE x == ps \o rest
    <3>1. x \in Seq(Packets) /\ x # << >> /\ Head(x) = Head(ps) /\ Tail(x) = Tail(ps) \o rest
      BY <2>1
    <3> HIDE DEF x
    <3>2. x \o i # << >> /\ Head(x \o i) = Head(x) /\ Tail(x \o i) = Tail(x) \o i
      BY <2>1, <3>1
    <3> QED
      BY <3>1, <3>2 DEF x
  <2> QED
    BY <2>1, <2>2 DEF i
<1>11. LeftIn(w, r) = Answer(Head(ps)) /\ TakenIn(w, r) = Tail(ps)
  BY <1>6, AllHeld
<1>12. state[r] = "open" => Told(requests[r], replies'[r], LeftIn(w, r),
                                 (TakenIn(w, r) \o rest) \o inflight[r])
  <2> SUFFICES ASSUME state[r] = "open"
               PROVE  Told(requests[r], replies[r], Answer(Head(ps)),
                           (Tail(ps) \o rest) \o inflight[r])
    BY <1>7, <1>11
  <2>1. Told(requests[r], replies[r], << >>, Waiting(r))
    BY <1>3, <1>4 DEF Sound
  <2>2. Told(requests[r], replies[r], Answer(Head(Waiting(r))), Tail(Waiting(r)))
    BY <1>9, <1>10, <2>1, FirstHandled
  <2> QED
    BY <1>10, <2>2
<1> HIDE DEF ps, w
<1>13. Sound(r)'
  BY <1>1, <1>2, <1>5, <1>6, <1>7, <1>12, WorkDone
<1> QED
  BY <1>1, <1>2, <1>5, <1>6, <1>7, <1>13, WorkerSound

\* A reply to an open socket, and where it comes in what the client expects.
LEMMA SendOpen ==
    ASSUME SessionInv, NEW u \in Units, Send(u), NEW r, r = worker[u].socket, state[r] = "open"
    PROVE  /\ r \in Sockets
           /\ Len(replies[r]) < Len(Expected(r))
           /\ replies' = [replies EXCEPT ![r] = Append(@, Expected(r)[Len(replies[r]) + 1])]
           /\ worker' = [worker EXCEPT ![u] = [worker[u] EXCEPT !.left = Tail(worker[u].left)]]
           /\ Told(requests[r], replies'[r], Tail(worker[u].left), Waiting(r))
<1> DEFINE left == worker[u].left
<1>1. /\ worker[u] # Idle /\ left # << >>
      /\ replies' = [replies EXCEPT ![r] = Append(@, Head(left))]
      /\ worker' = [worker EXCEPT ![u].left = Tail(@)]
  BY DEF Send
<1>2. /\ r \in Sockets /\ worker[u] \in Tasks /\ left \in Seq(Replies) /\ Left(r) = left
      /\ Sound(r) /\ TypeOK
  BY <1>1, HeldByWorker, AllSound DEF SessionInv, RegistryInv
<1>3. /\ requests[r] \in Seq(Packets) /\ replies[r] \in Seq(Replies)
      /\ Waiting(r) \in Seq(Packets)
  BY <1>2, WorkTypes
<1>4. Told(requests[r], replies[r], left, Waiting(r))
  BY <1>2 DEF Sound
<1>5. Expected(r) = AnswersTo(requests[r])
  BY DEF Expected, AnswersTo
<1>6. worker' = [worker EXCEPT ![u] = [worker[u] EXCEPT !.left = Tail(left)]]
  BY <1>1, <1>2 DEF TypeOK
<1>7. replies'[r] = Append(replies[r], Head(left))
  BY <1>1, <1>2 DEF TypeOK
<1> DEFINE asked == requests[r]
           replied == replies[r]
           waiting == Waiting(r)
<1>8. /\ asked \in Seq(Packets) /\ replied \in Seq(Replies) /\ waiting \in Seq(Packets)
      /\ Told(asked, replied, left, waiting)
  BY <1>3, <1>4
<1>9. /\ Told(asked, Append(replied, Head(left)), Tail(left), waiting)
      /\ Len(replied) < Len(AnswersTo(asked))
      /\ Head(left) = AnswersTo(asked)[Len(replied) + 1]
  <2> HIDE DEF left, asked, replied, waiting
  <2> QED
    BY <1>1, <1>2, <1>8, OneReplied
<1> QED
  BY <1>1, <1>2, <1>5, <1>6, <1>7, <1>9

LEMMA SendSound ==
    ASSUME SessionInv, NEW u \in Units, Send(u), NEW s \in Sockets
    PROVE  Sound(s)'
<1>1. PICK r : r = worker[u].socket
  OBVIOUS
<1>2. worker[u] # Idle /\ UNCHANGED <<state, unit, requests, inflight, queue>>
  BY DEF Send, socketVars
<1>3. /\ r \in Sockets /\ worker[u] \in Tasks /\ state[r] # "new" /\ TypeOK
      /\ Waiting(r) = (worker[u].packets \o PacketsOf(queue[u], r)) \o inflight[r]
  BY <1>1, <1>2, HeldByWorker DEF SessionInv, RegistryInv
<1>4. CASE state[r] = "open"
  <2> DEFINE w == [worker[u] EXCEPT !.left = Tail(worker[u].left)]
  <2>1. /\ worker' = [worker EXCEPT ![u] = w]
        /\ replies' = [replies EXCEPT ![r] = Append(@, Expected(r)[Len(replies[r]) + 1])]
        /\ Told(requests[r], replies'[r], Tail(worker[u].left), Waiting(r))
    BY <1>1, <1>4, SendOpen
  <2>2. /\ w # Idle /\ w.socket = r /\ w.left = Tail(worker[u].left)
        /\ w.packets = worker[u].packets
    BY <1>1, <1>3 DEF Tasks, Idle
  <2>3. LeftIn(w, r) = Tail(worker[u].left) /\ TakenIn(w, r) = worker[u].packets
    BY <2>2, AllHeld
  <2>4. \A x \in Sockets : x # r => replies'[x] = replies[x]
    BY <2>1, <1>3 DEF TypeOK
  <2>5. Told(requests[r], replies'[r], LeftIn(w, r),
             (TakenIn(w, r) \o PacketsOf(queue[u], r)) \o inflight[r])
    BY <1>3, <2>1, <2>3
  <2> HIDE DEF w
  <2>6. Sound(r)'
    BY <1>1, <1>2, <2>1, <2>2, <2>5, WorkDone
  <2> QED
    BY <1>1, <1>2, <2>1, <2>2, <2>4, <2>6, WorkerSound
<1>5. CASE state[r] # "open"
  <2>1. PICK rest \in {Tail(worker[u].left), << >>} : worker' = [worker EXCEPT ![u].left = rest]
    BY <1>1, <1>5 DEF Send
  <2> DEFINE w == [worker[u] EXCEPT !.left = rest]
  <2>2. worker' = [worker EXCEPT ![u] = w] /\ replies' = replies
    BY <1>1, <1>3, <1>5, <2>1 DEF Send, TypeOK
  <2>3. w.socket = r
    BY <1>1, <1>3 DEF Tasks
  <2> HIDE DEF w
  <2>4. Sound(r)'
    BY <1>2, <1>3, <1>5 DEF Sound
  <2> QED
    BY <1>1, <1>2, <2>2, <2>3, <2>4, WorkerSound
<1> QED
  BY <1>4, <1>5

\* Only Send leaves replies with a worker, and it is sending then.
LEMMA LeftKept ==
    ASSUME TypeOK, LeftWhileSending, NEW u \in Units, NEW w, worker' = [worker EXCEPT ![u] = w],
           w # Idle /\ w.at # "sending" => w.left = << >>
    PROVE  LeftWhileSending'
<1>1. \A v \in Units : worker'[v] = IF v = u THEN w ELSE worker[v]
  BY DEF TypeOK
<1> QED
  BY <1>1 DEF LeftWhileSending

LEMMA StepLeft ==
    ASSUME SessionInv, Next
    PROVE  LeftWhileSending'
<1>1. TypeOK /\ LeftWhileSending
  BY DEF SessionInv, RegistryInv
<1>2. ASSUME UNCHANGED worker PROVE LeftWhileSending'
  BY <1>1, <1>2 DEF LeftWhileSending
<1>3. CASE Start \/ Stop
  BY <1>2, <1>3 DEF Start, Stop
<1>4. ASSUME NEW s \in Sockets, Network(s) PROVE LeftWhileSending'
  BY <1>2, <1>4 DEF Network, Accept, QueueReceived, Close, QueueDisconnected, Arrive
<1>5. ASSUME NEW u \in Units, Work(u) PROVE LeftWhileSending'
  <2>1. CASE HandleConnected(u) \/ HandleDisconnected(u)
    BY <1>2, <2>1 DEF HandleConnected, HandleDisconnected
  <2>2. CASE HandleReceived(u)
    <3> DEFINE e == Head(queue[u])
               w == Busy("alive", e.socket, e.packets, << >>)
    <3>1. w.left = << >>
      BY DEF Busy
    <3>2. worker' = worker \/ worker' = [worker EXCEPT ![u] = w]
      BY <2>2 DEF HandleReceived
    <3> HIDE DEF w
    <3> QED
      BY <1>1, <1>2, <3>1, <3>2, LeftKept
  <2>3. CASE Lookup(u)
    <3> DEFINE w == [worker[u] EXCEPT !.at = "packets"]
    <3>1. worker[u] # Idle /\ worker[u] \in Tasks /\ worker[u].left = << >> /\ worker[u].socket \in clients
      BY <1>1, <2>3, HeldByWorker DEF Lookup, LeftWhileSending
    <3>2. worker' = [worker EXCEPT ![u] = w] /\ w.left = << >>
      BY <2>3, <3>1 DEF Lookup, Tasks
    <3> HIDE DEF w
    <3> QED
      BY <1>1, <3>2, LeftKept
  <2>4. CASE HandlePacket(u)
    <3> DEFINE w == [worker[u] EXCEPT !.at = "sending", !.packets = Tail(worker[u].packets),
                                      !.left = Answer(Head(worker[u].packets))]
    <3>1. worker[u] \in Tasks
      BY <2>4, HeldByWorker DEF HandlePacket
    <3>2. worker' = [worker EXCEPT ![u] = w] /\ w.at = "sending"
      BY <1>1, <2>4, <3>1 DEF HandlePacket, Tasks, TypeOK
    <3> HIDE DEF w
    <3> QED
      BY <1>1, <3>2, LeftKept
  <2>5. CASE Send(u)
    <3>1. worker[u] \in Tasks /\ worker[u].at = "sending"
      BY <2>5, HeldByWorker DEF Send
    <3>2. PICK rest : worker' = [worker EXCEPT ![u].left = rest]
      BY <2>5 DEF Send
    <3> DEFINE w == [worker[u] EXCEPT !.left = rest]
    <3>3. worker' = [worker EXCEPT ![u] = w] /\ w.at = "sending"
      BY <1>1, <3>1, <3>2 DEF Tasks, TypeOK
    <3> HIDE DEF w
    <3> QED
      BY <1>1, <3>3, LeftKept
  <2>6. CASE Handled(u)
    <3> DEFINE w == [worker[u] EXCEPT !.at = "packets"]
    <3>1. worker[u] \in Tasks /\ worker[u].left = << >>
      BY <2>6, HeldByWorker DEF Handled
    <3>2. worker' = [worker EXCEPT ![u] = w] /\ w.left = << >>
      BY <2>6, <3>1 DEF Handled, Tasks
    <3> HIDE DEF w
    <3> QED
      BY <1>1, <3>2, LeftKept
  <2>7. CASE Received(u)
    BY <1>1, <2>7, LeftKept DEF Received
  <2> QED
    BY <1>5, <2>1, <2>2, <2>3, <2>4, <2>5, <2>6, <2>7 DEF Work
<1> QED
  BY <1>3, <1>4, <1>5 DEF Next

LEMMA StepSound ==
    ASSUME SessionInv, Next
    PROVE  AnswersInOrder'
<1> SUFFICES ASSUME NEW s \in Sockets PROVE Sound(s)'
  BY DEF AnswersInOrder, Sound
<1>1. TypeOK /\ Sound(s)
  BY AllSound DEF SessionInv, RegistryInv
<1>2. CASE Start \/ Stop
  <2>1. UNCHANGED <<state, unit, requests, inflight, queue, worker, replies>>
    BY <1>2 DEF Start, Stop, socketVars
  <2>2. Left(s)' = Left(s) /\ Waiting(s)' = Waiting(s)
    BY <2>1 DEF Left, Waiting
  <2> QED
    BY <1>1, <2>1, <2>2, StaysSound
<1>3. ASSUME NEW r \in Sockets, Accept(r) PROVE Sound(s)'
  <2>1. /\ Enqueue(Event("connected", r, << >>))
        /\ UNCHANGED <<unit, requests, inflight, worker, replies>>
    BY <1>3 DEF Accept
  <2>2. state'[s] \in {"new", "open"} => state[s] \in {"new", "open"}
    BY <1>1, <1>3 DEF Accept, TypeOK
  <2> QED
    BY <2>1, <2>2, SignalSound
<1>4. ASSUME NEW r \in Sockets, QueueReceived(r) PROVE Sound(s)'
  BY <1>4, SegmentSound
<1>5. ASSUME NEW r \in Sockets, Close(r) PROVE Sound(s)'
  <2>1. UNCHANGED <<unit, requests, inflight, queue, worker, replies>>
    BY <1>5 DEF Close
  <2>2. state'[s] \in {"new", "open"} => state[s] \in {"new", "open"}
    BY <1>1, <1>5 DEF Close, TypeOK
  <2>3. Left(s)' = Left(s) /\ Waiting(s)' = Waiting(s)
    BY <2>1 DEF Left, Waiting
  <2> QED
    BY <1>1, <2>1, <2>2, <2>3, StaysSound
<1>6. ASSUME NEW r \in Sockets, QueueDisconnected(r) PROVE Sound(s)'
  <2>1. /\ Enqueue(Event("disconnected", r, << >>))
        /\ UNCHANGED <<unit, requests, inflight, worker, replies>>
    BY <1>6 DEF QueueDisconnected
  <2>2. state'[s] \in {"new", "open"} => state[s] \in {"new", "open"}
    BY <1>1, <1>6 DEF QueueDisconnected, TypeOK
  <2> QED
    BY <2>1, <2>2, SignalSound
<1>7. ASSUME NEW r \in Sockets, NEW batch \in Batches, Arrive(r, batch) PROVE Sound(s)'
  BY <1>7, ArrivalSound
<1>8. ASSUME NEW u \in Units, HandleConnected(u) \/ HandleDisconnected(u) PROVE Sound(s)'
  <2>1. /\ Takes(u, "connected") \/ Takes(u, "disconnected")
        /\ UNCHANGED <<state, unit, requests, inflight, worker, replies>>
    BY <1>8 DEF HandleConnected, HandleDisconnected, socketVars
  <2> QED
    BY <2>1, SignalTaken
<1>9. ASSUME NEW u \in Units, HandleReceived(u) PROVE Sound(s)'
  BY <1>9, SegmentTaken
<1>10. ASSUME NEW u \in Units, Lookup(u) PROVE Sound(s)'
  BY <1>10, LookupSound
<1>11. ASSUME NEW u \in Units, HandlePacket(u) PROVE Sound(s)'
  BY <1>11, HandlePacketSound
<1>12. ASSUME NEW u \in Units, Send(u) PROVE Sound(s)'
  BY <1>12, SendSound
<1>13. ASSUME NEW u \in Units, Handled(u) PROVE Sound(s)'
  BY <1>13, HandledSound
<1>14. ASSUME NEW u \in Units, Received(u) PROVE Sound(s)'
  BY <1>14, ReceivedSound
<1> QED
  BY <1>2, <1>3, <1>4, <1>5, <1>6, <1>7, <1>8, <1>9, <1>10, <1>11, <1>12, <1>13, <1>14
  DEF Next, Network, Work

LEMMA InitSessions == Init => SessionInv
<1> SUFFICES ASSUME Init PROVE SessionInv
  OBVIOUS
<1>1. RegistryInv
  BY InitRegistry
<1>2. LeftWhileSending
  BY DEF Init, LeftWhileSending
<1>3. ASSUME NEW s \in Sockets PROVE Sound(s)
  <2>1. /\ requests[s] = << >> /\ replies[s] = << >> /\ inflight[s] = << >>
        /\ unit[s] \in Units
    BY DEF Init
  <2>2. queue[unit[s]] = << >> /\ worker[unit[s]] = Idle
    BY <2>1 DEF Init
  <2>3. Left(s) = << >> /\ TakenIn(worker[unit[s]], s) = << >>
    BY <2>2, NothingHeld DEF Left
  <2>4. PacketsOf(queue[unit[s]], s) = << >> /\ AnswersTo(<< >>) = << >>
    BY <2>2, NoPackets
  <2>5. (<< >> \o << >>) \o << >> = << >>
    OBVIOUS
  <2>6. Waiting(s) = << >>
    BY <2>1, <2>3, <2>4, <2>5 DEF Waiting
  <2>7. Told(<< >>, << >>, << >>, << >>)
    BY <2>4, <2>5 DEF Told
  <2> QED
    BY <2>1, <2>3, <2>6, <2>7 DEF Sound
<1> QED
  BY <1>1, <1>2, <1>3, AllSound DEF SessionInv

LEMMA StepSessions == SessionInv /\ [Next]_vars => SessionInv'
<1> SUFFICES ASSUME SessionInv, [Next]_vars PROVE SessionInv'
  OBVIOUS
<1>1. RegistryInv'
  BY StepRegistry DEF SessionInv
<1>2. CASE Next
  BY <1>1, <1>2, StepLeft, StepSound DEF SessionInv
<1>3. CASE UNCHANGED vars
  <2>1. LeftWhileSending'
    BY <1>3 DEF vars, SessionInv, LeftWhileSending
  <2>2. ASSUME NEW s \in Sockets PROVE Sound(s)'
    <3>1. Sound(s)
      BY AllSound DEF SessionInv
    <3>2. Left(s)' = Left(s) /\ Waiting(s)' = Waiting(s)
      BY <1>3 DEF vars, Left, Waiting
    <3> QED
      BY <1>3, <3>1, <3>2, StaysSound DEF vars
  <2>3. AnswersInOrder'
    BY <2>2 DEF AnswersInOrder, Sound
  <2> QED
    BY <1>1, <2>1, <2>3 DEF SessionInv
<1> QED
  BY <1>2, <1>3

LEMMA SessionsCorrect == Spec => []SessionInv
  BY InitSessions, StepSessions, PTL DEF Spec

-----------------------------------------------------------------------------
(* The refinement.                                                         *)

LEMMA StepRefines ==
    ASSUME SessionInv, [Next]_vars
    PROVE  [Abstract!Next]_(Abstract!vars)
<1>1. TypeOK
  BY DEF SessionInv, RegistryInv
<1>2. ASSUME UNCHANGED <<state, requests, replies>> PROVE UNCHANGED Abstract!vars
  BY <1>2 DEF Abstract!vars
<1>3. CASE Start \/ Stop
  BY <1>2, <1>3 DEF Start, Stop, socketVars
<1>4. ASSUME NEW s \in Sockets, Accept(s) PROVE Abstract!Open(s)
  BY <1>1, <1>4 DEF Accept, Abstract!Open, TypeOK
<1>5. ASSUME NEW s \in Sockets, QueueReceived(s) PROVE UNCHANGED Abstract!vars
  BY <1>2, <1>5 DEF QueueReceived
<1>6. ASSUME NEW s \in Sockets, Close(s) PROVE Abstract!Close(s)
  BY <1>1, <1>6 DEF Close, Abstract!Close, TypeOK
<1>7. ASSUME NEW s \in Sockets, QueueDisconnected(s) PROVE UNCHANGED Abstract!vars
  BY <1>1, <1>7 DEF QueueDisconnected, Abstract!vars, TypeOK
<1>8. ASSUME NEW s \in Sockets, NEW batch \in Batches, Arrive(s, batch)
      PROVE  Abstract!Ask(s, batch)
  BY <1>1, <1>8 DEF Arrive, Abstract!Ask, TypeOK
<1>9. ASSUME NEW u \in Units, Send(u)
      PROVE  Abstract!Next \/ UNCHANGED Abstract!vars
  <2>1. PICK s : s = worker[u].socket
    OBVIOUS
  <2>2. UNCHANGED <<state, requests>>
    BY <1>9 DEF Send, socketVars
  <2>3. CASE state[s] = "open"
    <3>1. /\ s \in Sockets /\ Len(replies[s]) < Len(Expected(s))
          /\ replies' = [replies EXCEPT ![s] = Append(@, Expected(s)[Len(replies[s]) + 1])]
      BY <1>9, <2>1, <2>3, SendOpen
    <3>2. Expected(s) = Abstract!Expected(s)
      BY DEF Expected, Abstract!Expected, FlattenSeq, Abstract!FlattenSeq
    <3>3. Abstract!Reply(s)
      BY <2>2, <2>3, <3>1, <3>2 DEF Abstract!Reply
    <3> QED
      BY <3>1, <3>3 DEF Abstract!Next
  <2>4. CASE state[s] # "open"
    BY <1>2, <1>9, <2>1, <2>2, <2>4 DEF Send
  <2> QED
    BY <2>3, <2>4
<1>10. ASSUME NEW u \in Units, Work(u), ~Send(u) PROVE UNCHANGED Abstract!vars
  BY <1>2, <1>10 DEF Work, HandleConnected, HandleDisconnected, HandleReceived, Lookup,
                     HandlePacket, Handled, Received, socketVars
<1>11. CASE UNCHANGED vars
  BY <1>2, <1>11 DEF vars
<1> QED
  BY <1>3, <1>4, <1>5, <1>6, <1>7, <1>8, <1>9, <1>10, <1>11
  DEF Next, Network, Abstract!Next

\* Each client sees a session of its own, whatever the threads do: while its connection
\* is open it gets the answers to its requests, whole and in order, and nothing else
\* (Consumer.cs, LoginRequest.cs, UnknownRequest.cs).
THEOREM SessionsImplemented == Spec => ImplementsSessions
<1>1. Init => Abstract!Init
  BY DEF Init, Abstract!Init
<1>2. SessionInv /\ [Next]_vars => [Abstract!Next]_(Abstract!vars)
  BY StepRefines
<1> QED
  BY <1>1, <1>2, SessionsCorrect, PTL DEF Spec, ImplementsSessions, Abstract!Spec
=============================================================================
