---------------------------- MODULE PacketStream ----------------------------
(***************************************************************************)
(* What a connection promises, with bytes, segments and buffers left out:  *)
(* the packets one end writes come out of the other end once each, in the  *)
(* order they were written.  PacketFactory.tla, the decoder of the game    *)
(* server, is shown to implement this specification.                       *)
(***************************************************************************)
EXTENDS Naturals, Sequences

CONSTANT Packets      \* what can be written

VARIABLES sent,       \* the packets written so far, in order
          delivered   \* the packets handed to the reader so far, in order

vars == <<sent, delivered>>

Init == sent = <<>> /\ delivered = <<>>

Send(p) ==
    /\ sent' = Append(sent, p)
    /\ UNCHANGED delivered

Deliver ==
    /\ Len(delivered) < Len(sent)
    /\ delivered' = Append(delivered, sent[Len(delivered) + 1])
    /\ UNCHANGED sent

Next == (\E p \in Packets : Send(p)) \/ Deliver

Spec == Init /\ [][Next]_vars

\* The reader keeps asking, so a written packet does not wait for ever.
FairSpec == Spec /\ WF_vars(Deliver)
=============================================================================
