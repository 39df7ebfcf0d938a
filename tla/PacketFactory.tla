---------------------------- MODULE PacketFactory ----------------------------
(***************************************************************************)
(* Network/PacketFactory.cs: the framing of the game protocol.             *)
(*                                                                         *)
(* A frame is a 16-bit length (header included), a 16-bit id, both little  *)
(* endian, and the payload.  Write builds one.  Read is called with each   *)
(* segment the socket hands over and returns the packets it completes; it  *)
(* keeps what is left in the fields of the factory.  One factory belongs   *)
(* to one client and is only ever used by one thread, so the steps of one  *)
(* Read (one per branch of its loop) interleave with nothing but the peer. *)
(*                                                                         *)
(* Definitions marked "Faulty variant" are not part of the specification:  *)
(* each is the definition below it with a plausible slip of the code.      *)
(*                                                                         *)
(* A byte is a number below ByteRange: 256 in the code, smaller under TLC, *)
(* where the width of the length field then has to matter sooner.          *)
(***************************************************************************)
EXTENDS Integers, Sequences

CONSTANTS
    ByteRange,          \* the number of values of a byte
    Ids,                \* the packet ids the peer uses
    Payloads,           \* the payloads the peer sends
    MalformedSizes,     \* length fields below the header size the peer may send
    SplitAfterHeader,   \* may a segment end right behind the header of a packet
                        \* whose payload is still to come?
    MaxSent             \* bound: how many frames the peer writes

PacketHeaderSize == 4

Bytes  == 0 .. ByteRange - 1
UShort == ByteRange * ByteRange     \* a ushort is a number below this

ASSUME ByteRangeAssumption == ByteRange \in Nat /\ ByteRange >= 2
ASSUME IdsAssumption == Ids \subseteq 0 .. UShort - 1
ASSUME PayloadsAssumption ==
    /\ Payloads \subseteq Seq(Bytes)
    /\ \A d \in Payloads : Len(d) + PacketHeaderSize < UShort
ASSUME MalformedAssumption == MalformedSizes \subseteq 0 .. PacketHeaderSize - 1
ASSUME SplitAssumption == SplitAfterHeader \in BOOLEAN
ASSUME MaxSentAssumption == MaxSent \in Nat

Packets == [id : Ids, data : Payloads]

-----------------------------------------------------------------------------
(* The wire format.                                                        *)

\* IBuffer.WriteUInt16 and ReadUInt16 (at index i): little endian.
PutUInt16(v)    == <<v % ByteRange, v \div ByteRange>>
GetUInt16(s, i) == s[i] + ByteRange * s[i + 1]

\* Faulty variant: the header is not counted.
LengthFieldOfData(data) == Len(data) % UShort

\* The length field of Write: the cast to ushort keeps the low 16 bits.
LengthField(data) == (Len(data) + PacketHeaderSize) % UShort

\* A frame with this length field.
Frame(size, id, data) == PutUInt16(size) \o PutUInt16(id) \o data

-----------------------------------------------------------------------------
VARIABLES
    log,        \* history: the frames the peer wrote, with their offsets
    stream,     \* history: every byte the peer wrote
    received,   \* how many bytes of the stream Read was given so far
    buffer,     \* _buffer; << >> stands for null (it is never empty otherwise)
    position,   \* _position, and the cursor of _buffer while Read runs
    readHeader, \* _readHeader
    dataSize,   \* _dataSize
    id,         \* _id
    reading,    \* Read is running
    delivered,  \* every packet the calls of Read returned
    dropped     \* history: what made Reset first throw away unread input

peerVars    == <<log, stream>>
factoryVars == <<buffer, position, readHeader, dataSize, id>>
vars        == <<log, stream, received, buffer, position, readHeader, dataSize,
                 id, reading, delivered, dropped>>

TypeOK ==
    /\ log \in Seq([at : Nat, size : 0 .. UShort - 1, id : Ids, data : Seq(Bytes)])
    /\ stream \in Seq(Bytes)
    /\ received \in 0 .. Len(stream)
    /\ buffer \in Seq(Bytes)
    /\ position \in 0 .. Len(buffer)
    /\ readHeader \in BOOLEAN
    /\ dataSize \in 0 .. UShort - 1
    /\ id \in 0 .. UShort - 1
    /\ reading \in BOOLEAN
    /\ delivered \in Seq([id : 0 .. UShort - 1, data : Seq(Bytes)])
    /\ dropped \in {"none", "malformed", "header"}

Init ==
    /\ log = <<>>
    /\ stream = <<>>
    /\ received = 0
    /\ buffer = <<>>
    /\ position = 0
    /\ readHeader = FALSE
    /\ dataSize = 0
    /\ id = 0
    /\ reading = FALSE
    /\ delivered = <<>>
    /\ dropped = "none"

-----------------------------------------------------------------------------
(* The peer and the network.                                               *)

PeerWrites(size, pid, data) ==
    /\ Len(log) < MaxSent
    /\ log' = Append(log, [at |-> Len(stream), size |-> size, id |-> pid, data |-> data])
    /\ stream' = stream \o Frame(size, pid, data)
    /\ UNCHANGED <<received, factoryVars, reading, delivered, dropped>>

\* Write, on the side of the peer.
PeerSend(p) == PeerWrites(LengthField(p.data), p.id, p.data)

\* A frame whose length field does not even cover its header.
PeerSendMalformed(size, pid) == PeerWrites(size, pid, <<>>)

\* The first r bytes of the stream end between the header and the payload of a frame.
HeaderAlone(r) ==
    \E i \in 1 .. Len(log) : log[i].data # <<>> /\ r = log[i].at + PacketHeaderSize

-----------------------------------------------------------------------------
(* Read.                                                                   *)

\* Faulty variant: the position survives the buffer.
ResetKeepingPosition ==
    /\ readHeader' = FALSE
    /\ dataSize' = 0
    /\ id' = 0
    /\ position' = position
    /\ buffer' = <<>>

\* Faulty variant: the header stays marked as read when its length and id are gone.
ResetKeepingHeader ==
    /\ readHeader' = readHeader
    /\ dataSize' = 0
    /\ id' = 0
    /\ position' = 0
    /\ buffer' = <<>>

Reset ==
    /\ readHeader' = FALSE
    /\ dataSize' = 0
    /\ id' = 0
    /\ position' = 0
    /\ buffer' = <<>>

\* Faulty variant: a later call replaces what an earlier one left.
ReadBeginReplacing(n) ==
    /\ ~reading
    /\ HeaderAlone(received + n) => SplitAfterHeader
    /\ buffer' = SubSeq(stream, received + 1, received + n)
    /\ received' = received + n
    /\ reading' = TRUE
    /\ position' = 0
    /\ UNCHANGED <<peerVars, readHeader, dataSize, id, delivered, dropped>>

\* Faulty variant: SetPositionEnd is forgotten, so the bytes land at the cursor.
ReadBeginAtCursor(n) ==
    /\ ~reading
    /\ HeaderAlone(received + n) => SplitAfterHeader
    /\ buffer' = SubSeq(buffer, 1, position)
                   \o SubSeq(stream, received + 1, received + n)
    /\ received' = received + n
    /\ reading' = TRUE
    /\ UNCHANGED <<peerVars, position, readHeader, dataSize, id, delivered, dropped>>

\* Read is called with the next n bytes: append them and go to the saved position.
ReadBegin(n) ==
    /\ ~reading
    /\ HeaderAlone(received + n) => SplitAfterHeader
    /\ buffer' = buffer \o SubSeq(stream, received + 1, received + n)
    /\ received' = received + n
    /\ reading' = TRUE
    /\ UNCHANGED <<peerVars, position, readHeader, dataSize, id, delivered, dropped>>

\* Faulty variant: a header needs a byte behind it.
HeaderReadyOffByOne == ~readHeader /\ Len(buffer) - position > PacketHeaderSize

HeaderReady == ~readHeader /\ Len(buffer) - position >= PacketHeaderSize
BodyReady   == readHeader /\ Len(buffer) - position >= dataSize

AnnouncedSize == GetUInt16(buffer, position + 1)

\* Faulty variant: the length field is taken for the length of the payload.
ReadHeaderWhole ==
    /\ reading /\ HeaderReady
    /\ AnnouncedSize >= PacketHeaderSize
    /\ dataSize' = AnnouncedSize
    /\ id' = GetUInt16(buffer, position + 3)
    /\ readHeader' = TRUE
    /\ position' = position + PacketHeaderSize
    /\ UNCHANGED <<peerVars, received, buffer, reading, delivered, dropped>>

\* The first branch of the loop: a header, kept for this and later calls.
ReadHeader ==
    /\ reading /\ HeaderReady
    /\ AnnouncedSize >= PacketHeaderSize
    /\ dataSize' = AnnouncedSize - PacketHeaderSize
    /\ id' = GetUInt16(buffer, position + 3)
    /\ readHeader' = TRUE
    /\ position' = position + PacketHeaderSize
    /\ UNCHANGED <<peerVars, received, buffer, reading, delivered, dropped>>

\* The early return: whatever was read before it is returned, the rest is gone.
ReadMalformed ==
    /\ reading /\ HeaderReady
    /\ AnnouncedSize < PacketHeaderSize
    /\ Reset
    /\ reading' = FALSE
    /\ dropped' = IF dropped = "none" THEN "malformed" ELSE dropped
    /\ UNCHANGED <<peerVars, received, delivered>>

\* Faulty variant: the header stays marked as read.
ReadBodyKeepingHeader ==
    /\ reading /\ BodyReady
    /\ delivered' = Append(delivered,
            [id |-> id, data |-> SubSeq(buffer, position + 1, position + dataSize)])
    /\ position' = position + dataSize
    /\ UNCHANGED <<peerVars, received, buffer, readHeader, dataSize, id, reading, dropped>>

\* The second branch: a payload, and with it a packet.
ReadBody ==
    /\ reading /\ BodyReady
    /\ delivered' = Append(delivered,
            [id |-> id, data |-> SubSeq(buffer, position + 1, position + dataSize)])
    /\ position' = position + dataSize
    /\ readHeader' = FALSE
    /\ UNCHANGED <<peerVars, received, buffer, dataSize, id, reading, dropped>>

\* Faulty variant: the position is not saved for the next call.
ReadEndRewinding ==
    /\ reading /\ ~HeaderReady /\ ~BodyReady
    /\ reading' = FALSE
    /\ IF position = Len(buffer)
         THEN /\ Reset
              /\ dropped' = IF readHeader /\ dropped = "none" THEN "header" ELSE dropped
         ELSE position' = 0 /\ UNCHANGED <<buffer, readHeader, dataSize, id, dropped>>
    /\ UNCHANGED <<peerVars, received, delivered>>

\* Neither branch applies: the loop ends.  A buffer read to its end is given up,
\* together with a header whose payload has not arrived.
ReadEnd ==
    /\ reading /\ ~HeaderReady /\ ~BodyReady
    /\ reading' = FALSE
    /\ IF position = Len(buffer)
         THEN /\ Reset
              /\ dropped' = IF readHeader /\ dropped = "none" THEN "header" ELSE dropped
         ELSE UNCHANGED <<factoryVars, dropped>>
    /\ UNCHANGED <<peerVars, received, delivered>>

ReadStep == ReadHeader \/ ReadMalformed \/ ReadBody \/ ReadEnd

Receive == \E n \in 1 .. Len(stream) - received : ReadBegin(n)

Next ==
    \/ \E p \in Packets : PeerSend(p)
    \/ \E size \in MalformedSizes, pid \in Ids : PeerSendMalformed(size, pid)
    \/ Receive
    \/ ReadStep

Spec == Init /\ [][Next]_vars

\* The network delivers what was written, and the worker thread keeps running.
Fairness == WF_vars(Receive) /\ WF_vars(ReadStep)

FairSpec == Spec /\ Fairness

-----------------------------------------------------------------------------
(* Correctness.                                                            *)

Sent == [i \in 1 .. Len(log) |-> [id |-> log[i].id, data |-> log[i].data]]

\* As long as no Reset threw input away, what Read returned over all its calls is a
\* prefix of what the peer wrote: no packet is lost, repeated, reordered, merged or
\* cut, however the segments fall (PacketFactory.Read).
InOrder ==
    dropped = "none" =>
        /\ Len(delivered) <= Len(log)
        /\ \A i \in 1 .. Len(delivered) : delivered[i] = Sent[i]

\* The same with no way out: it holds when no segment ends behind a lone header and
\* the peer's length fields are right.
InOrderAlways ==
    /\ Len(delivered) <= Len(log)
    /\ \A i \in 1 .. Len(delivered) : delivered[i] = Sent[i]

\* Between two calls of Read the factory stands at a frame boundary of the stream, or
\* right behind a header whose length and id it holds: the state it resumes from
\* is the state it stopped in (the fields of PacketFactory).
Cursor == received - Len(buffer) + position

\* Where frame k starts; the frame to be written next starts at the end of the stream.
Boundary(k) == IF k <= Len(log) THEN log[k].at ELSE Len(stream)

NextFrame == Boundary(Len(delivered) + 1)

Aligned ==
    dropped = "none" =>
        /\ Len(delivered) <= Len(log)
        /\ ~readHeader => Cursor = NextFrame
        /\ readHeader =>
             /\ Len(delivered) < Len(log)
             /\ LET f == log[Len(delivered) + 1]
                IN  /\ f.size = PacketHeaderSize + Len(f.data)
                    /\ Cursor = f.at + PacketHeaderSize
                    /\ dataSize = Len(f.data)
                    /\ id = f.id

\* Frame i ends where the next one starts, the length field is the true one or one
\* below the header size, and the stream holds it byte for byte.
FrameWhole(i) ==
    LET f == log[i] IN
    /\ f.at + PacketHeaderSize + Len(f.data) = Boundary(i + 1)
    /\ f.at + PacketHeaderSize + Len(f.data) <= Len(stream)
    /\ \/ f.size = PacketHeaderSize + Len(f.data)
       \/ f.size < PacketHeaderSize /\ f.data = <<>>
    /\ \A j \in 1 .. PacketHeaderSize + Len(f.data) :
         stream[f.at + j] = Frame(f.size, f.id, f.data)[j]

\* The frames lie in the stream one behind the other from its first byte to its last,
\* and the length field Write puts into one is its true length, unless the peer wrote
\* a length below the header size (PacketFactory.Write).
FramesWhole == Boundary(1) = 0 /\ \A i \in 1 .. Len(log) : FrameWhole(i)

\* What Read keeps is what came last, and nothing else: no byte is duplicated or
\* overwritten by the append at the end of the buffer, even after a Reset.
BufferIsTail ==
    /\ Len(buffer) <= received
    /\ \A k \in 1 .. Len(buffer) : buffer[k] = stream[received - Len(buffer) + k]

\* Packet p may have been read at offset a of the stream: its header and its data lie there.
ReadAt(p, a) ==
    /\ a + PacketHeaderSize + Len(p.data) <= received
    /\ GetUInt16(stream, a + 1) = PacketHeaderSize + Len(p.data)
    /\ GetUInt16(stream, a + 3) = p.id
    /\ \A j \in 1 .. Len(p.data) : stream[a + PacketHeaderSize + j] = p.data[j]

Offsets == {a \in 0 .. received : \E i \in 1 .. Len(delivered) : ReadAt(delivered[i], a)}

\* Whatever a Reset threw away, what Read returns was cut out of the stream: each packet
\* is a header and as many bytes as it announces, behind the packet returned before it.  No
\* byte is read twice, and none from before a Reset joins one from behind it, although after
\* a lost header the frames may not be those of the peer (PacketFactory.Reset).
CutFromStream ==
    \E cut \in [1 .. Len(delivered) -> Offsets] :
        /\ \A i \in 1 .. Len(delivered) : ReadAt(delivered[i], cut[i])
        /\ \A i \in 1 .. Len(delivered) - 1 :
             cut[i] + PacketHeaderSize + Len(delivered[i].data) <= cut[i + 1]

\* Every packet the peer wrote comes out of Read in the end.
EverythingArrives ==
    \A n \in 1 .. MaxSent : Len(log) >= n ~> Len(delivered) >= n

\* The decoder implements the abstract stream.
Abstract == INSTANCE PacketStream WITH sent <- Sent
ImplementsStream == Abstract!FairSpec
=============================================================================
