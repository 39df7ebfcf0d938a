--------------------------- MODULE MCPacketFactory ---------------------------
(***************************************************************************)
(* PacketFactory on a small instance.  A byte has four values, so a length *)
(* field holds 0..15 and its high byte is in use from 4 on.                *)
(***************************************************************************)
EXTENDS PacketFactory

\* No payload, one shorter than a header, and one that can pass for a header.
MCPayloads == {<<>>, <<2>>, <<1, 1, 1, 0, 3>>}

\* A payload whose frame needs the second byte of the length field to be read.
MCPayloadsSmall == {<<>>, <<1, 1, 1, 0>>}
=============================================================================
