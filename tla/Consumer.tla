------------------------------ MODULE Consumer ------------------------------
(***************************************************************************)
(* Network/Consumer.cs with Client.cs, the packet handlers and the         *)
(* KrGameServer that wires them: what happens to the events of the sockets.*)
(*                                                                         *)
(* AsyncEventServer and ThreadedBlockingQueueConsumer (Arrowgene.Networking)*)
(* are not part of the repository; they are modelled from how Consumer is  *)
(* used.  The server gives each accepted socket a unit of order, and its   *)
(* threads put the events of the socket into the queue of that unit.  One  *)
(* worker thread per unit takes the events out and calls the overrides     *)
(* HandleConnected, HandleReceived and HandleDisconnected.                 *)
(*                                                                         *)
(* Bytes are left out: a segment is the sequence of the packets it         *)
(* completes, which PacketFactory.tla justifies.                           *)
(***************************************************************************)
EXTENDS Integers, Sequences, SequencesExt

CONSTANTS
    Sockets,        \* the connections the server may accept
    Units,          \* the units of order: 1 .. Setting.SocketSettings.MaxUnitOfOrder
    Packets,        \* the packets clients send
    Batches,        \* the packets a segment may complete, as sequences
    LoginReplies,   \* the replies to a login, 1000 in the code
    MaxPackets      \* bound: how many packets a client sends

ASSUME BatchesAssumption == Batches \subseteq Seq(Packets)
ASSUME LoginRepliesAssumption == LoginReplies \in Nat \ {0}
ASSUME MaxPacketsAssumption == MaxPackets \in Nat
ASSUME PacketsAssumption ==
    \A p \in Packets : p.id \in Nat /\ p.whole \in BOOLEAN

\* The ids the constructor of KrGameServer registers handlers for.
LoginRequestId   == 257
UnknownRequestId == 3
HandlerIds       == {LoginRequestId, UnknownRequestId}

\* A packet has an id, the account a login names, and may be too short for its
\* handler, which then fails before it sends anything.
\* Faulty variant: the loop starts one too low.
LoginAnswerTooLow(p) == [i \in 1 .. LoginReplies |-> [id |-> i - 2, account |-> p.account]]

LoginAnswer(p)   == [i \in 1 .. LoginReplies |-> [id |-> i - 1, account |-> p.account]]
UnknownAnswer    == << [id |-> 4, account |-> "none"] >>

Answer(p) ==
    CASE p.id = LoginRequestId /\ p.whole -> LoginAnswer(p)
      [] p.id = UnknownRequestId          -> UnknownAnswer
      [] OTHER                            -> << >>

Replies == [id : Nat, account : {p.account : p \in Packets} \cup {"none"}]

-----------------------------------------------------------------------------
VARIABLES
    phase,      \* of the server: created, running or stopped
    state,      \* of a socket: new, open (IsAlive), closing (not announced yet), closed
    unit,       \* the unit of order of an accepted socket
    requests,   \* history: the packets each client sent
    inflight,   \* the segment a thread of the server has received and not yet queued
    queue,      \* the events of each unit
    worker,     \* what the thread of each unit is doing
    clients,    \* the keys of _clients
    replies,    \* what went out on each socket
    errors      \* history: the "does not exist in lookup" errors, and failing Adds

socketVars == <<state, unit, requests, inflight>>
vars == <<phase, state, unit, requests, inflight, queue, worker, clients, replies, errors>>

Event(kind, s, batch) == [kind |-> kind, socket |-> s, packets |-> batch]
Events == [kind : {"connected", "received", "disconnected"},
           socket : Sockets, packets : Seq(Packets)]

Idle == [at |-> "idle"]

\* HandleReceived: alive (the check is passed), then packets, and inside one of them
\* the replies that are still to be sent.
Busy(at, s, batch, left) ==
    [at |-> at, socket |-> s, packets |-> batch, left |-> left]

TypeOK ==
    /\ phase \in {"created", "running", "stopped"}
    /\ state \in [Sockets -> {"new", "open", "closing", "closed"}]
    /\ unit \in [Sockets -> Units]
    /\ requests \in [Sockets -> Seq(Packets)]
    /\ inflight \in [Sockets -> Seq(Packets)]
    /\ queue \in [Units -> Seq(Events)]
    /\ worker \in [Units -> {Idle} \cup
            [at : {"alive", "packets", "sending"}, socket : Sockets,
             packets : Seq(Packets), left : Seq(Replies)]]
    /\ clients \subseteq Sockets
    /\ replies \in [Sockets -> Seq(Replies)]
    /\ errors \subseteq {"received", "disconnected", "add"}

Init ==
    /\ phase = "created"
    /\ state = [s \in Sockets |-> "new"]
    /\ unit \in [Sockets -> Units]
    /\ requests = [s \in Sockets |-> <<>>]
    /\ inflight = [s \in Sockets |-> <<>>]
    /\ queue = [u \in Units |-> <<>>]
    /\ worker = [u \in Units |-> Idle]
    /\ clients = {}
    /\ replies = [s \in Sockets |-> <<>>]
    /\ errors = {}

Enqueue(e) == queue' = [queue EXCEPT ![unit[e.socket]] = Append(@, e)]

-----------------------------------------------------------------------------
(* KrGameServer and the threads of AsyncEventServer.                       *)

Start ==
    /\ phase = "created"
    /\ phase' = "running"
    /\ UNCHANGED <<socketVars, queue, worker, clients, replies, errors>>

\* The workers finish the event they are at and take no other.
Stop ==
    /\ phase = "running"
    /\ phase' = "stopped"
    /\ UNCHANGED <<socketVars, queue, worker, clients, replies, errors>>

\* The event is queued before the first receive is started.
Accept(s) ==
    /\ phase = "running" /\ state[s] = "new"
    /\ state' = [state EXCEPT ![s] = "open"]
    /\ Enqueue(Event("connected", s, <<>>))
    /\ UNCHANGED <<phase, unit, requests, inflight, worker, clients, replies, errors>>

\* A receive completes; one is outstanding per socket.
Arrive(s, batch) ==
    /\ phase = "running" /\ state[s] = "open" /\ inflight[s] = <<>>
    /\ Len(requests[s]) + Len(batch) <= MaxPackets
    /\ requests' = [requests EXCEPT ![s] = @ \o batch]
    /\ inflight' = [inflight EXCEPT ![s] = batch]
    /\ UNCHANGED <<phase, state, unit, queue, worker, clients, replies, errors>>

\* ... and its segment is queued, possibly after the socket died and said so.
QueueReceived(s) ==
    /\ inflight[s] # <<>>
    /\ inflight' = [inflight EXCEPT ![s] = <<>>]
    /\ Enqueue(Event("received", s, inflight[s]))
    /\ UNCHANGED <<phase, state, unit, requests, worker, clients, replies, errors>>

\* The peer, an error or the timeout thread of the server ends the connection.
Close(s) ==
    /\ state[s] = "open"
    /\ state' = [state EXCEPT ![s] = "closing"]
    /\ UNCHANGED <<phase, unit, requests, inflight, queue, worker, clients, replies, errors>>

QueueDisconnected(s) ==
    /\ state[s] = "closing"
    /\ state' = [state EXCEPT ![s] = "closed"]
    /\ Enqueue(Event("disconnected", s, <<>>))
    /\ UNCHANGED <<phase, unit, requests, inflight, worker, clients, replies, errors>>

-----------------------------------------------------------------------------
(* The thread of a unit.                                                   *)

\* Faulty variant: any thread that comes along takes the next event of the unit.
TakesBusy(u, kind) ==
    /\ phase = "running"
    /\ queue[u] # <<>> /\ Head(queue[u]).kind = kind
    /\ queue' = [queue EXCEPT ![u] = Tail(@)]

Takes(u, kind) ==
    /\ phase = "running" /\ worker[u] = Idle
    /\ queue[u] # <<>> /\ Head(queue[u]).kind = kind
    /\ queue' = [queue EXCEPT ![u] = Tail(@)]

\* Faulty variant: the client is made and not registered.
HandleConnectedUnregistered(u) ==
    /\ Takes(u, "connected")
    /\ UNCHANGED <<phase, socketVars, worker, clients, replies, errors>>

\* Dictionary.Add throws for a key that is there.
HandleConnected(u) ==
    /\ Takes(u, "connected")
    /\ LET s == Head(queue[u]).socket IN
         /\ clients' = clients \cup {s}
         /\ errors' = IF s \in clients THEN errors \cup {"add"} ELSE errors
    /\ UNCHANGED <<phase, socketVars, worker, replies>>

\* Faulty variant: the registry keeps a disconnected client.
HandleDisconnectedKeeping(u) ==
    /\ Takes(u, "disconnected")
    /\ errors' = IF Head(queue[u]).socket \in clients THEN errors
                 ELSE errors \cup {"disconnected"}
    /\ UNCHANGED <<phase, socketVars, worker, clients, replies>>

HandleDisconnected(u) ==
    /\ Takes(u, "disconnected")
    /\ LET s == Head(queue[u]).socket IN
         /\ clients' = clients \ {s}
         /\ errors' = IF s \in clients THEN errors ELSE errors \cup {"disconnected"}
    /\ UNCHANGED <<phase, socketVars, worker, replies>>

\* Faulty variant: the check of IsAlive is missing.
HandleReceivedUnchecked(u) ==
    /\ Takes(u, "received")
    /\ LET e == Head(queue[u]) IN
         worker' = [worker EXCEPT ![u] = Busy("alive", e.socket, e.packets, <<>>)]
    /\ UNCHANGED <<phase, socketVars, clients, replies, errors>>

\* HandleReceived up to its first return: the event of a dead socket is dropped.
HandleReceived(u) ==
    /\ Takes(u, "received")
    /\ LET e == Head(queue[u]) IN
         worker' = IF state[e.socket] = "open"
                     THEN [worker EXCEPT ![u] = Busy("alive", e.socket, e.packets, <<>>)]
                     ELSE worker
    /\ UNCHANGED <<phase, socketVars, clients, replies, errors>>

\* The locked lookup; the packets are then handled one after the other.
Lookup(u) ==
    /\ worker[u] # Idle /\ worker[u].at = "alive"
    /\ IF worker[u].socket \in clients
         THEN /\ worker' = [worker EXCEPT ![u].at = "packets"]
              /\ UNCHANGED errors
         ELSE /\ worker' = [worker EXCEPT ![u] = Idle]
              /\ errors' = errors \cup {"received"}
    /\ UNCHANGED <<phase, socketVars, queue, clients, replies>>

\* HandlePacket and the handler up to its first Send: a packet without a handler, or
\* one its handler cannot read (the exception is caught), has no answer.
HandlePacket(u) ==
    /\ worker[u] # Idle /\ worker[u].at = "packets" /\ worker[u].packets # <<>>
    /\ worker' = [worker EXCEPT ![u].at = "sending",
                                ![u].packets = Tail(@),
                                ![u].left = Answer(Head(worker[u].packets))]
    /\ UNCHANGED <<phase, socketVars, queue, clients, replies, errors>>

\* Faulty variant: the handler, one object for all units, keeps its client in a field,
\* which the thread of another unit may have set since.
SendThroughField(u) ==
    /\ worker[u] # Idle /\ worker[u].at = "sending" /\ worker[u].left # <<>>
    /\ \E v \in Units :
         /\ worker[v] # Idle
         /\ replies' = IF state[worker[v].socket] = "open"
                         THEN [replies EXCEPT ![worker[v].socket] = Append(@, Head(worker[u].left))]
                         ELSE replies
    /\ worker' = [worker EXCEPT ![u].left = Tail(@)]
    /\ UNCHANGED <<phase, socketVars, queue, clients, errors>>

\* One Client.Send of the handler.  A dead socket takes nothing, or throws, which
\* ends the handler.
Send(u) ==
    /\ worker[u] # Idle /\ worker[u].at = "sending" /\ worker[u].left # <<>>
    /\ LET s == worker[u].socket IN
         \/ /\ state[s] = "open"
            /\ replies' = [replies EXCEPT ![s] = Append(@, Head(worker[u].left))]
            /\ worker' = [worker EXCEPT ![u].left = Tail(@)]
         \/ /\ state[s] # "open"
            /\ \E rest \in {Tail(worker[u].left), <<>>} :
                 worker' = [worker EXCEPT ![u].left = rest]
            /\ UNCHANGED replies
    /\ UNCHANGED <<phase, socketVars, queue, clients, errors>>

\* The handler returns: the next packet, if there is one.
Handled(u) ==
    /\ worker[u] # Idle /\ worker[u].at = "sending" /\ worker[u].left = <<>>
    /\ worker' = [worker EXCEPT ![u].at = "packets"]
    /\ UNCHANGED <<phase, socketVars, queue, clients, replies, errors>>

Received(u) ==
    /\ worker[u] # Idle /\ worker[u].at = "packets" /\ worker[u].packets = <<>>
    /\ worker' = [worker EXCEPT ![u] = Idle]
    /\ UNCHANGED <<phase, socketVars, queue, clients, replies, errors>>

Work(u) ==
    \/ HandleConnected(u) \/ HandleDisconnected(u) \/ HandleReceived(u)
    \/ Lookup(u) \/ HandlePacket(u) \/ Send(u) \/ Handled(u) \/ Received(u)

Network(s) ==
    \/ Accept(s) \/ QueueReceived(s) \/ Close(s) \/ QueueDisconnected(s)
    \/ \E batch \in Batches : Arrive(s, batch)

Next ==
    \/ Start \/ Stop
    \/ \E s \in Sockets : Network(s)
    \/ \E u \in Units : Work(u)

Spec == Init /\ [][Next]_vars

\* The worker threads keep running, and what a thread of the server has begun to
\* queue gets queued.  Nothing makes a client send or go away.
Fairness ==
    /\ \A u \in Units : WF_vars(Work(u))
    /\ \A s \in Sockets : WF_vars(QueueReceived(s)) /\ WF_vars(QueueDisconnected(s))

FairSpec == Spec /\ Fairness

-----------------------------------------------------------------------------
(* Correctness.                                                            *)

Expected(s) == FlattenSeq([i \in 1 .. Len(requests[s]) |-> Answer(requests[s][i])])

Pending(kind, s) ==
    \E i \in 1 .. Len(queue[unit[s]]) :
        queue[unit[s]][i].kind = kind /\ queue[unit[s]][i].socket = s

\* The lookups of HandleReceived and HandleDisconnected never miss and no client is
\* added twice, although the events of a socket come from several threads and a
\* segment can be queued behind the end of its connection (Consumer.cs).
NoLookupErrors == errors = {}

\* _clients is what the events handled so far say: a socket is in it from its
\* connected event to its disconnected event, and an open socket that is not in it
\* still has its connected event to come (HandleConnected, HandleDisconnected).
RegistryFollowsSockets ==
    \A s \in Sockets :
        /\ s \in clients =>
             /\ state[s] # "new" /\ ~Pending("connected", s)
             /\ state[s] = "closed" => Pending("disconnected", s)
        /\ s \notin clients /\ state[s] \in {"open", "closing"} => Pending("connected", s)

\* A client found under the lock stays registered while its packets are handled
\* without it: its thread handles nothing else meanwhile (HandleReceived).
HandledIsRegistered ==
    \A u \in Units :
        worker[u] # Idle => unit[worker[u].socket] = u /\ worker[u].socket \in clients

\* A request on a connection that stays open is answered in the end, each of its
\* replies, unless the server is stopped (HandlePacket, LoginRequest.Handle).
Answered ==
    \A s \in Sockets : \A n \in 1 .. MaxPackets * LoginReplies :
        Len(Expected(s)) >= n
            ~> Len(replies[s]) >= n \/ state[s] # "open" \/ phase = "stopped"

\* A connection that ends leaves the registry for good (HandleDisconnected).
Forgotten ==
    \A s \in Sockets :
        state[s] = "closing" ~> (phase = "stopped" \/ [](s \notin clients))

\* Each client sees a session of its own: its answers, whole and in order, and no
\* reply to anybody else (Consumer.cs, LoginRequest.cs, UnknownRequest.cs).
Abstract == INSTANCE Sessions WITH
    state <- [s \in Sockets |-> IF state[s] = "closing" THEN "closed" ELSE state[s]]
ImplementsSessions == Abstract!Spec
=============================================================================
