----------------------------- MODULE MCConsumer -----------------------------
(***************************************************************************)
(* Consumer on a small instance: two connections, which share a unit or    *)
(* not, and a login that takes two replies.                                *)
(***************************************************************************)
EXTENDS Consumer

MCPackets == [id : {3, 7, 257}, account : {"a", "b"}, whole : BOOLEAN]

LoginOf(a) == [id |-> 257, account |-> a, whole |-> TRUE]
TooShort   == [id |-> 257, account |-> "a", whole |-> FALSE]
Unknown    == [id |-> 3, account |-> "a", whole |-> TRUE]
NoHandler  == [id |-> 7, account |-> "a", whole |-> TRUE]

\* A login, one that fails in front of another request, and a packet without handler.
MCBatches == { <<LoginOf("a")>>, <<TooShort, LoginOf("b")>>, <<NoHandler, Unknown>> }

\* For the liveness run: the requests that have an answer.
MCBatchesSmall == { <<LoginOf("a")>>, <<TooShort, Unknown>> }
=============================================================================
