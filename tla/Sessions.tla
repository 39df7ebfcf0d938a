------------------------------ MODULE Sessions ------------------------------
(***************************************************************************)
(* What the game server promises its clients, with threads, queues and the *)
(* client registry left out: a connection is opened once and closed once,  *)
(* and while it is open its requests are answered in the order they came,  *)
(* each with the whole answer of its handler, by nobody else's replies.    *)
(* Consumer.tla is shown to implement this specification.                  *)
(***************************************************************************)
EXTENDS Sequences, SequencesExt

CONSTANTS Sockets,      \* the connections
          Batches,      \* the requests a segment can carry, as sequences
          Answer(_)     \* the replies to a request, in order

VARIABLES state,        \* of each connection: new, open or closed
          requests,     \* what each connection asked so far
          replies       \* what each connection was answered so far

vars == <<state, requests, replies>>

Expected(s) == FlattenSeq([i \in 1 .. Len(requests[s]) |-> Answer(requests[s][i])])

Init ==
    /\ state = [s \in Sockets |-> "new"]
    /\ requests = [s \in Sockets |-> <<>>]
    /\ replies = [s \in Sockets |-> <<>>]

Open(s) ==
    /\ state[s] = "new"
    /\ state' = [state EXCEPT ![s] = "open"]
    /\ UNCHANGED <<requests, replies>>

Ask(s, batch) ==
    /\ state[s] = "open"
    /\ requests' = [requests EXCEPT ![s] = @ \o batch]
    /\ UNCHANGED <<state, replies>>

Reply(s) ==
    /\ state[s] = "open"
    /\ Len(replies[s]) < Len(Expected(s))
    /\ replies' = [replies EXCEPT ![s] = Append(@, Expected(s)[Len(@) + 1])]
    /\ UNCHANGED <<state, requests>>

Close(s) ==
    /\ state[s] = "open"
    /\ state' = [state EXCEPT ![s] = "closed"]
    /\ UNCHANGED <<requests, replies>>

Next ==
    \E s \in Sockets :
        \/ Open(s) \/ Reply(s) \/ Close(s)
        \/ \E batch \in Batches : Ask(s, batch)

Spec == Init /\ [][Next]_vars
=============================================================================
