------------------------- MODULE PacketFactoryProofs -------------------------
(***************************************************************************)
(* Proofs about PacketFactory, for every width of a byte, every set of     *)
(* payloads that fit the length field and every segmentation.              *)
(***************************************************************************)
EXTENDS PacketFactory, SequenceTheorems, TLAPS

(***************************************************************************)
(* Arithmetic and wire format.                                             *)
(***************************************************************************)

\* What PutUInt16 writes, GetUInt16 reads back, for a value that fits a ushort.
LEMMA DivMod ==
    ASSUME NEW v \in 0 .. UShort - 1
    PROVE  /\ v % ByteRange \in Bytes
           /\ v \div ByteRange \in Bytes
           /\ (v % ByteRange) + ByteRange * (v \div ByteRange) = v
<1> DEFINE q == v \div ByteRange
           r == v % ByteRange
<1>1. /\ q \in Int /\ r \in 0 .. ByteRange - 1
      /\ v = ByteRange * q + r
  BY ByteRangeAssumption DEF UShort
<1>2. q >= 0
  BY <1>1, ByteRangeAssumption DEF UShort
<1>3. q < ByteRange
  BY <1>1, <1>2, ByteRangeAssumption, SMTT(30) DEF UShort
<1> QED
  BY <1>1, <1>2, <1>3, ByteRangeAssumption DEF Bytes

\* Concatenation, part by part.
LEMMA Concat ==
    ASSUME NEW a \in Seq(Bytes), NEW b \in Seq(Bytes), NEW c, c = a \o b
    PROVE  /\ c \in Seq(Bytes)
           /\ Len(c) = Len(a) + Len(b)
           /\ \A i \in 1 .. Len(a) : c[i] = a[i]
           /\ \A i \in 1 .. Len(b) : c[Len(a) + i] = b[i]
<1>1. \A i \in 1 .. Len(a) + Len(b) :
        (a \o b)[i] = IF i <= Len(a) THEN a[i] ELSE b[i - Len(a)]
  BY ConcatProperties
<1>2. /\ \A i \in 1 .. Len(a) : (a \o b)[i] = a[i]
      /\ \A i \in 1 .. Len(b) : (a \o b)[Len(a) + i] = b[i]
  BY <1>1, LenProperties
<1>3. a \o b \in Seq(Bytes) /\ Len(a \o b) = Len(a) + Len(b)
  OBVIOUS
<1> QED
  BY <1>2, <1>3

\* n bytes behind the first r of a sequence.
LEMMA Cut ==
    ASSUME NEW s \in Seq(Bytes), NEW r \in Nat, NEW n \in Nat, r + n <= Len(s)
    PROVE  LET c == SubSeq(s, r + 1, r + n) IN
           /\ c \in Seq(Bytes)
           /\ Len(c) = n
           /\ \A k \in 1 .. n : c[k] = s[r + k]
<1>1. SubSeq(s, r + 1, r + n) \in Seq(Bytes)
  OBVIOUS
<1>2. Len(SubSeq(s, r + 1, r + n)) = n
  OBVIOUS
<1>3. \A k \in 1 .. n : SubSeq(s, r + 1, r + n)[k] = s[r + k]
  OBVIOUS
<1> QED
  BY <1>1, <1>2, <1>3

\* A frame: four header bytes, then the payload.
LEMMA FrameLayout ==
    ASSUME NEW size \in 0 .. UShort - 1, NEW pid \in 0 .. UShort - 1,
           NEW data \in Seq(Bytes)
    PROVE  LET f == Frame(size, pid, data) IN
           /\ f \in Seq(Bytes)
           /\ Len(f) = PacketHeaderSize + Len(data)
           /\ GetUInt16(f, 1) = size
           /\ GetUInt16(f, 3) = pid
           /\ \A j \in 1 .. Len(data) : f[PacketHeaderSize + j] = data[j]
<1> DEFINE a == PutUInt16(size)
           b == PutUInt16(pid)
           h == a \o b
           f == h \o data
<1>1. /\ a \in Seq(Bytes) /\ Len(a) = 2 /\ a[1] + ByteRange * a[2] = size
      /\ b \in Seq(Bytes) /\ Len(b) = 2 /\ b[1] + ByteRange * b[2] = pid
  BY DivMod DEF PutUInt16
<1>1a. a \in Seq(Bytes) /\ b \in Seq(Bytes)
  BY <1>1
<1>1b. h = a \o b /\ f = h \o data
  OBVIOUS
<1> HIDE DEF a, b, h, f
<1>2. /\ h \in Seq(Bytes)
      /\ Len(h) = Len(a) + Len(b)
      /\ \A i \in 1 .. Len(a) : h[i] = a[i]
      /\ \A i \in 1 .. Len(b) : h[Len(a) + i] = b[i]
  BY <1>1a, <1>1b, Concat
<1>3. /\ f \in Seq(Bytes)
      /\ Len(f) = Len(h) + Len(data)
      /\ \A i \in 1 .. Len(h) : f[i] = h[i]
      /\ \A i \in 1 .. Len(data) : f[Len(h) + i] = data[i]
  BY <1>2, <1>1b, Concat
<1>4. h[1] = a[1] /\ h[2] = a[2] /\ h[3] = b[1] /\ h[4] = b[2] /\ Len(h) = 4
  BY <1>1, <1>2
<1>5. f[1] = a[1] /\ f[2] = a[2] /\ f[3] = b[1] /\ f[4] = b[2]
  BY <1>3, <1>4
<1>6. f = Frame(size, pid, data)
  BY DEF f, h, a, b, Frame
<1>7. /\ Len(f) = 4 + Len(data)
      /\ f[1] + ByteRange * f[2] = size
      /\ f[3] + ByteRange * f[4] = pid
      /\ \A j \in 1 .. Len(data) : f[4 + j] = data[j]
  BY <1>1, <1>3, <1>4, <1>5
<1>8. GetUInt16(f, 1) = f[1] + ByteRange * f[2] /\ GetUInt16(f, 3) = f[3] + ByteRange * f[4]
  BY DEF GetUInt16
<1> QED
  BY <1>3, <1>6, <1>7, <1>8 DEF PacketHeaderSize

\* A ushort read from bytes is a ushort, and the constants fit one.
LEMMA UShortFacts ==
    /\ UShort \in Nat /\ UShort >= 4
    /\ \A x, y \in Bytes : x + ByteRange * y \in 0 .. UShort - 1
    /\ \A data \in Seq(Bytes) : LengthField(data) \in 0 .. UShort - 1
    /\ \A size \in MalformedSizes : size \in 0 .. UShort - 1
    /\ \A pid \in Ids : pid \in 0 .. UShort - 1
    /\ \A data \in Payloads : data \in Seq(Bytes) /\ LengthField(data) = PacketHeaderSize + Len(data)
<1>1. UShort \in Nat /\ UShort >= 4
  BY ByteRangeAssumption DEF UShort
<1>2. ASSUME NEW x \in Bytes, NEW y \in Bytes
      PROVE  x + ByteRange * y \in 0 .. UShort - 1
  <2>1. y <= ByteRange - 1 /\ x <= ByteRange - 1 /\ x \in Nat /\ y \in Nat
    BY ByteRangeAssumption DEF Bytes
  <2>2. ByteRange * y <= ByteRange * (ByteRange - 1) /\ ByteRange * y \in Nat
    BY <2>1, ByteRangeAssumption
  <2> QED
    BY <2>1, <2>2, ByteRangeAssumption DEF UShort
<1>3. \A data \in Seq(Bytes) : LengthField(data) \in 0 .. UShort - 1
  BY <1>1 DEF LengthField, PacketHeaderSize
<1>4. \A size \in MalformedSizes : size \in 0 .. UShort - 1
  BY <1>1, MalformedAssumption DEF PacketHeaderSize
<1>5. \A pid \in Ids : pid \in 0 .. UShort - 1
  BY <1>1, IdsAssumption
<1>6. ASSUME NEW data \in Payloads
      PROVE  data \in Seq(Bytes) /\ LengthField(data) = PacketHeaderSize + Len(data)
  <2>1. data \in Seq(Bytes) /\ Len(data) + PacketHeaderSize < UShort
    BY PayloadsAssumption
  <2> QED
    BY <1>1, <2>1 DEF LengthField, PacketHeaderSize
<1> QED
  BY <1>1, <1>2, <1>3, <1>4, <1>5, <1>6

(***************************************************************************)
(* Type correctness.                                                       *)
(***************************************************************************)

\* What one frame of the peer adds to the stream and to the log.
LEMMA PeerWritesFacts ==
    ASSUME TypeOK, NEW size \in 0 .. UShort - 1, NEW pid \in Ids,
           NEW data \in Seq(Bytes), PeerWrites(size, pid, data)
    PROVE  LET f == [at |-> Len(stream), size |-> size, id |-> pid, data |-> data] IN
           /\ log' \in Seq([at : Nat, size : 0 .. UShort - 1, id : Ids, data : Seq(Bytes)])
           /\ Len(log') = Len(log) + 1
           /\ \A i \in 1 .. Len(log) : log'[i] = log[i]
           /\ log'[Len(log) + 1] = f
           /\ stream' \in Seq(Bytes)
           /\ Len(stream') = Len(stream) + PacketHeaderSize + Len(data)
           /\ \A j \in 1 .. Len(stream) : stream'[j] = stream[j]
           /\ \A j \in 1 .. PacketHeaderSize + Len(data) :
                stream'[Len(stream) + j] = Frame(size, pid, data)[j]
<1> DEFINE f == [at |-> Len(stream), size |-> size, id |-> pid, data |-> data]
           R == [at : Nat, size : 0 .. UShort - 1, id : Ids, data : Seq(Bytes)]
           bytes == Frame(size, pid, data)
<1>1. f \in R /\ log \in Seq(R) /\ stream \in Seq(Bytes)
  BY DEF TypeOK
<1>2. log' = Append(log, f) /\ stream' = stream \o bytes
  BY DEF PeerWrites
<1>3. bytes \in Seq(Bytes) /\ Len(bytes) = PacketHeaderSize + Len(data)
  BY FrameLayout, UShortFacts
<1> HIDE DEF f, R, bytes
<1>4. /\ log' \in Seq(R) /\ Len(log') = Len(log) + 1
      /\ \A i \in 1 .. Len(log) : log'[i] = log[i]
      /\ log'[Len(log) + 1] = f
  BY <1>1, <1>2, AppendProperties
<1>4a. stream \in Seq(Bytes) /\ bytes \in Seq(Bytes) /\ stream' = stream \o bytes
  BY <1>1, <1>2, <1>3
<1>5. /\ stream' \in Seq(Bytes) /\ Len(stream') = Len(stream) + Len(bytes)
      /\ \A j \in 1 .. Len(stream) : stream'[j] = stream[j]
      /\ \A j \in 1 .. Len(bytes) : stream'[Len(stream) + j] = bytes[j]
  BY <1>4a, Concat
<1>6. /\ Len(stream') = Len(stream) + PacketHeaderSize + Len(data)
      /\ \A j \in 1 .. PacketHeaderSize + Len(data) : stream'[Len(stream) + j] = bytes[j]
  BY <1>1, <1>3, <1>5 DEF PacketHeaderSize
<1> QED
  BY <1>4, <1>5, <1>6 DEF f, R, bytes

\* What one call of Read adds to the buffer.
LEMMA ReadBeginFacts ==
    ASSUME TypeOK, NEW n \in 1 .. Len(stream) - received, ReadBegin(n)
    PROVE  /\ received' = received + n
           /\ buffer' \in Seq(Bytes)
           /\ Len(buffer') = Len(buffer) + n
           /\ \A k \in 1 .. Len(buffer) : buffer'[k] = buffer[k]
           /\ \A k \in 1 .. n : buffer'[Len(buffer) + k] = stream[received + k]
<1> DEFINE s == SubSeq(stream, received + 1, received + n)
<1>1. received \in Nat /\ n \in Nat /\ received + n <= Len(stream)
  BY DEF TypeOK
<1>2. stream \in Seq(Bytes) /\ buffer \in Seq(Bytes)
  BY DEF TypeOK
<1>3. s \in Seq(Bytes) /\ Len(s) = n /\ \A k \in 1 .. n : s[k] = stream[received + k]
  BY <1>1, <1>2, Cut
<1>4. buffer' = buffer \o s /\ received' = received + n
  BY DEF ReadBegin
<1> HIDE DEF s
<1>5. buffer \in Seq(Bytes) /\ s \in Seq(Bytes) /\ buffer' = buffer \o s
  BY <1>2, <1>3, <1>4
<1>6. /\ buffer' \in Seq(Bytes) /\ Len(buffer') = Len(buffer) + Len(s)
      /\ \A k \in 1 .. Len(buffer) : buffer'[k] = buffer[k]
      /\ \A k \in 1 .. Len(s) : buffer'[Len(buffer) + k] = s[k]
  BY <1>5, Concat
<1> QED
  BY <1>3, <1>4, <1>6

\* The two fields Read takes from a header are ushorts.
LEMMA HeaderFields ==
    ASSUME TypeOK, HeaderReady
    PROVE  /\ AnnouncedSize \in 0 .. UShort - 1
           /\ GetUInt16(buffer, position + 3) \in 0 .. UShort - 1
           /\ position + PacketHeaderSize <= Len(buffer)
<1>1. /\ buffer \in Seq(Bytes) /\ position \in Nat /\ position + 4 <= Len(buffer)
  BY DEF TypeOK, HeaderReady, PacketHeaderSize
<1>2. /\ buffer[position + 1] \in Bytes /\ buffer[position + 1 + 1] \in Bytes
      /\ buffer[position + 3] \in Bytes /\ buffer[position + 3 + 1] \in Bytes
  BY <1>1
<1> QED
  BY <1>1, <1>2, UShortFacts DEF AnnouncedSize, GetUInt16, PacketHeaderSize

\* The payload Read cuts out of the buffer.
LEMMA BodyBytes ==
    ASSUME TypeOK, BodyReady
    PROVE  LET s == SubSeq(buffer, position + 1, position + dataSize) IN
           /\ s \in Seq(Bytes) /\ Len(s) = dataSize
           /\ \A j \in 1 .. dataSize : s[j] = buffer[position + j]
           /\ position + dataSize \in 0 .. Len(buffer)
<1>1. /\ buffer \in Seq(Bytes) /\ position \in Nat /\ dataSize \in Nat
      /\ position + dataSize <= Len(buffer)
  BY UShortFacts DEF TypeOK, BodyReady
<1> QED
  BY <1>1, Cut

LEMMA InitType == Init => TypeOK
<1> SUFFICES ASSUME Init PROVE TypeOK
  OBVIOUS
<1>1. 0 \in 0 .. UShort - 1
  BY UShortFacts
<1>2. \A S : << >> \in Seq(S)
  OBVIOUS
<1>3. Len(<< >>) = 0
  OBVIOUS
<1>4. /\ log \in Seq([at : Nat, size : 0 .. UShort - 1, id : Ids, data : Seq(Bytes)])
      /\ stream \in Seq(Bytes) /\ buffer \in Seq(Bytes)
      /\ delivered \in Seq([id : 0 .. UShort - 1, data : Seq(Bytes)])
  BY <1>2 DEF Init
<1>5. received \in 0 .. Len(stream) /\ position \in 0 .. Len(buffer)
  BY <1>3 DEF Init
<1>6. /\ dataSize \in 0 .. UShort - 1 /\ id \in 0 .. UShort - 1
      /\ readHeader \in BOOLEAN /\ reading \in BOOLEAN
      /\ dropped \in {"none", "malformed", "header"}
  BY <1>1 DEF Init
<1> QED
  BY <1>4, <1>5, <1>6 DEF TypeOK

LEMMA StepType == TypeOK /\ [Next]_vars => TypeOK'
<1> SUFFICES ASSUME TypeOK, [Next]_vars PROVE TypeOK'
  OBVIOUS
<1> DEFINE peerOK ==
             /\ log \in Seq([at : Nat, size : 0 .. UShort - 1, id : Ids, data : Seq(Bytes)])
             /\ stream \in Seq(Bytes)
<1>1. ASSUME NEW size \in 0 .. UShort - 1, NEW pid \in Ids, NEW data \in Seq(Bytes),
             PeerWrites(size, pid, data)
      PROVE  TypeOK'
  <2>1. /\ peerOK' /\ Len(stream') = Len(stream) + PacketHeaderSize + Len(data)
    BY <1>1, PeerWritesFacts
  <2>2. received' \in 0 .. Len(stream')
    BY <1>1, <2>1 DEF TypeOK, PeerWrites, PacketHeaderSize
  <2> QED
    BY <1>1, <2>1, <2>2 DEF TypeOK, PeerWrites, factoryVars
<1>2. ASSUME NEW p \in Packets, PeerSend(p) PROVE TypeOK'
  <2>1. p.id \in Ids /\ p.data \in Payloads
    BY DEF Packets
  <2> QED
    BY <1>1, <1>2, <2>1, UShortFacts DEF PeerSend
<1>3. ASSUME NEW size \in MalformedSizes, NEW pid \in Ids, PeerSendMalformed(size, pid)
      PROVE  TypeOK'
  <2>1. size \in 0 .. UShort - 1
    BY UShortFacts
  <2>2. << >> \in Seq(Bytes)
    OBVIOUS
  <2>3. PeerWrites(size, pid, << >>)
    BY <1>3 DEF PeerSendMalformed
  <2> QED
    BY <1>1, <2>1, <2>2, <2>3
<1>4. ASSUME NEW n \in 1 .. Len(stream) - received, ReadBegin(n) PROVE TypeOK'
  <2>1. /\ received' = received + n /\ buffer' \in Seq(Bytes)
        /\ Len(buffer') = Len(buffer) + n
    BY <1>4, ReadBeginFacts
  <2>2. peerOK' /\ received' \in 0 .. Len(stream')
    BY <1>4, <2>1 DEF TypeOK, ReadBegin, peerVars
  <2>3. position' \in 0 .. Len(buffer')
    BY <1>4, <2>1 DEF TypeOK, ReadBegin
  <2> QED
    BY <1>4, <2>1, <2>2, <2>3 DEF TypeOK, ReadBegin
<1>5. CASE ReadHeader
  <2>1. HeaderReady /\ AnnouncedSize >= PacketHeaderSize
    BY <1>5 DEF ReadHeader
  <2>1a. /\ AnnouncedSize \in 0 .. UShort - 1
         /\ GetUInt16(buffer, position + 3) \in 0 .. UShort - 1
         /\ position + PacketHeaderSize <= Len(buffer)
    BY <2>1, HeaderFields
  <2>1b. position \in Nat /\ Len(buffer) \in Nat /\ UShort \in Nat
    BY UShortFacts DEF TypeOK
  <2>2. /\ dataSize' \in 0 .. UShort - 1 /\ id' \in 0 .. UShort - 1
        /\ position' \in 0 .. Len(buffer)
    BY <1>5, <2>1, <2>1a, <2>1b DEF ReadHeader, PacketHeaderSize
  <2> QED
    BY <1>5, <2>2 DEF TypeOK, ReadHeader, peerVars
<1>6. ASSUME Reset, peerOK' = peerOK, received' = received, stream' = stream,
             reading' = FALSE, delivered' = delivered,
             dropped' \in {"none", "malformed", "header"}
      PROVE  TypeOK'
  <2>1. 0 \in 0 .. UShort - 1 /\ << >> \in Seq(Bytes) /\ Len(<< >>) = 0
    BY UShortFacts
  <2>2. received' \in 0 .. Len(stream')
    BY <1>6 DEF TypeOK
  <2>3. /\ buffer' = << >> /\ position' = 0 /\ readHeader' = FALSE
        /\ dataSize' = 0 /\ id' = 0
    BY <1>6 DEF Reset
  <2>4. peerOK' /\ delivered' \in Seq([id : 0 .. UShort - 1, data : Seq(Bytes)])
    BY <1>6 DEF TypeOK
  <2>5. position' \in 0 .. Len(buffer')
    BY <2>1, <2>3
  <2>6. buffer' \in Seq(Bytes) /\ dataSize' \in 0 .. UShort - 1 /\ id' \in 0 .. UShort - 1
    BY <2>1, <2>3
  <2> QED
    BY <1>6, <2>2, <2>3, <2>4, <2>5, <2>6 DEF TypeOK
<1>7. CASE ReadMalformed
  BY <1>6, <1>7 DEF ReadMalformed, TypeOK, peerVars
<1>8. CASE ReadBody
  <2> DEFINE s == SubSeq(buffer, position + 1, position + dataSize)
             P == [id : 0 .. UShort - 1, data : Seq(Bytes)]
  <2>1. s \in Seq(Bytes) /\ position + dataSize \in 0 .. Len(buffer)
    BY <1>8, BodyBytes DEF ReadBody
  <2>2. delivered' = Append(delivered, [id |-> id, data |-> s])
    BY <1>8 DEF ReadBody
  <2>3. [id |-> id, data |-> s] \in P /\ delivered \in Seq(P)
    BY <2>1 DEF TypeOK
  <2>4. delivered' \in Seq(P)
    BY <2>2, <2>3, AppendProperties
  <2> QED
    BY <1>8, <2>1, <2>4 DEF TypeOK, ReadBody, peerVars
<1>9. CASE ReadEnd
  <2>1. CASE position = Len(buffer)
    BY <1>6, <1>9, <2>1 DEF ReadEnd, TypeOK, peerVars
  <2>2. CASE position # Len(buffer)
    BY <1>9, <2>2 DEF ReadEnd, TypeOK, peerVars, factoryVars
  <2> QED
    BY <2>1, <2>2
<1>10. CASE UNCHANGED vars
  BY <1>10 DEF TypeOK, vars
<1> QED
  BY <1>2, <1>3, <1>4, <1>5, <1>7, <1>8, <1>9, <1>10 DEF Next, Receive, ReadStep

\* Every field of the factory keeps its range: the position stays inside the buffer
\* and the size and the id inside a ushort, however Read is fed (PacketFactory.Read).
THEOREM TypeCorrect == Spec => []TypeOK
<1> QED
  BY InitType, StepType, PTL DEF Spec

LEMMA LogEntries ==
    ASSUME TypeOK, NEW i \in 1 .. Len(log)
    PROVE  /\ log[i].at \in Nat /\ log[i].size \in 0 .. UShort - 1
           /\ log[i].id \in Ids /\ log[i].data \in Seq(Bytes) /\ Len(log[i].data) \in Nat
<1> DEFINE R == [at : Nat, size : 0 .. UShort - 1, id : Ids, data : Seq(Bytes)]
<1>1. log \in Seq(R)
  BY DEF TypeOK
<1> HIDE DEF R
<1>2. log[i] \in R
  BY <1>1
<1>3. log[i].data \in Seq(Bytes)
  BY <1>2 DEF R
<1> QED
  BY <1>2, <1>3 DEF R

(***************************************************************************)
(* The frames in the stream, and the buffer as the tail of what arrived.   *)
(***************************************************************************)

LEMMA InitFrames == Init => FramesWhole
  BY DEF Init, FramesWhole, Boundary

\* Only the peer touches the stream, and a new frame moves no old one.
LEMMA StepFrames == TypeOK /\ FramesWhole /\ [Next]_vars => FramesWhole'
<1> SUFFICES ASSUME TypeOK, FramesWhole, [Next]_vars PROVE FramesWhole'
  OBVIOUS
<1>1. ASSUME NEW size \in 0 .. UShort - 1, NEW pid \in Ids, NEW data \in Seq(Bytes),
             PeerWrites(size, pid, data),
             size = PacketHeaderSize + Len(data) \/ (size < PacketHeaderSize /\ data = <<>>)
      PROVE  FramesWhole'
  <2> DEFINE new == [at |-> Len(stream), size |-> size, id |-> pid, data |-> data]
  <2>0. PICK n \in Nat : n = Len(log)
    BY DEF TypeOK
  <2>1. /\ Len(log') = n + 1 /\ log'[n + 1] = new
        /\ \A i \in 1 .. n : log'[i] = log[i]
        /\ Len(stream') = Len(stream) + PacketHeaderSize + Len(data)
        /\ \A j \in 1 .. Len(stream) : stream'[j] = stream[j]
        /\ \A j \in 1 .. PacketHeaderSize + Len(data) :
             stream'[Len(stream) + j] = Frame(size, pid, data)[j]
    BY <1>1, <2>0, PeerWritesFacts
  <2>2. n = Len(log) /\ Len(stream) \in Nat /\ Len(data) \in Nat
    BY <2>0 DEF TypeOK
  <2>3. ASSUME NEW k \in 1 .. n + 1 PROVE Boundary(k)' = Boundary(k)
    <3>1. CASE k <= n
      BY <2>1, <2>2, <3>1 DEF Boundary
    <3>2. CASE k = n + 1
      BY <2>1, <2>2, <3>2 DEF Boundary
    <3> QED
      BY <2>2, <3>1, <3>2
  <2>4. Boundary(1)' = 0
    BY <2>2, <2>3 DEF FramesWhole
  <2>5. ASSUME NEW i \in 1 .. n PROVE FrameWhole(i)'
    <3> DEFINE f == log[i]
    <3>1. log'[i] = f /\ i + 1 \in 1 .. n + 1
      BY <2>1, <2>2
    <3>2. /\ f.at + PacketHeaderSize + Len(f.data) = Boundary(i + 1)
          /\ f.at + PacketHeaderSize + Len(f.data) <= Len(stream)
          /\ \/ f.size = PacketHeaderSize + Len(f.data)
             \/ f.size < PacketHeaderSize /\ f.data = <<>>
          /\ \A j \in 1 .. PacketHeaderSize + Len(f.data) :
               stream[f.at + j] = Frame(f.size, f.id, f.data)[j]
      BY <2>0 DEF FramesWhole, FrameWhole
    <3>3. f.at \in Nat /\ Len(f.data) \in Nat
      BY <2>0, LogEntries
    <3> HIDE DEF f
    <3>4. f.at + PacketHeaderSize + Len(f.data) <= Len(stream')
      BY <2>1, <2>2, <3>2, <3>3 DEF PacketHeaderSize
    <3>5. ASSUME NEW j \in 1 .. PacketHeaderSize + Len(f.data)
          PROVE  stream'[f.at + j] = Frame(f.size, f.id, f.data)[j]
      <4>1. f.at + j \in 1 .. Len(stream)
        BY <2>2, <3>2, <3>3 DEF PacketHeaderSize
      <4> QED
        BY <2>1, <3>2, <4>1
    <3>6. Boundary(i + 1)' = Boundary(i + 1)
      BY <2>3, <3>1
    <3> QED
      BY <3>1, <3>2, <3>4, <3>5, <3>6 DEF FrameWhole
  <2>6. FrameWhole(n + 1)'
    <3>1. Boundary(n + 1 + 1)' = Len(stream')
      BY <2>1, <2>2 DEF Boundary
    <3>2. Len(stream') <= Len(stream')
      BY <2>1, <2>2 DEF PacketHeaderSize
    <3> QED
      BY <1>1, <2>1, <3>1, <3>2 DEF FrameWhole
  <2>7. \A i \in 1 .. Len(log') : i \in 1 .. n \/ i = n + 1
    BY <2>1, <2>2
  <2> QED
    BY <2>4, <2>5, <2>6, <2>7 DEF FramesWhole
<1>2. ASSUME NEW p \in Packets, PeerSend(p) PROVE FramesWhole'
  <2> DEFINE size == LengthField(p.data)
             data == p.data
             pid == p.id
  <2>1. pid \in Ids /\ data \in Payloads
    BY DEF Packets
  <2>2. /\ data \in Seq(Bytes) /\ size \in 0 .. UShort - 1
        /\ size = PacketHeaderSize + Len(data)
    BY <2>1, UShortFacts
  <2>3. PeerWrites(size, pid, data)
    BY <1>2 DEF PeerSend
  <2> HIDE DEF size, data, pid
  <2>4. size = PacketHeaderSize + Len(data) \/ (size < PacketHeaderSize /\ data = <<>>)
    BY <2>2
  <2> QED
    BY <1>1, <2>1, <2>2, <2>3, <2>4
<1>3. ASSUME NEW size \in MalformedSizes, NEW pid \in Ids, PeerSendMalformed(size, pid)
      PROVE  FramesWhole'
  <2>1. size \in 0 .. UShort - 1 /\ size < PacketHeaderSize
    BY UShortFacts, MalformedAssumption DEF PacketHeaderSize
  <2>2. << >> \in Seq(Bytes)
    OBVIOUS
  <2>3. PeerWrites(size, pid, << >>)
    BY <1>3 DEF PeerSendMalformed
  <2> QED
    BY <1>1, <2>1, <2>2, <2>3
<1>4. ASSUME UNCHANGED peerVars PROVE FramesWhole'
  BY <1>4 DEF FramesWhole, FrameWhole, Boundary, peerVars
<1>5. ASSUME NEW n \in 1 .. Len(stream) - received, ReadBegin(n) PROVE FramesWhole'
  BY <1>4, <1>5 DEF ReadBegin
<1>6. CASE ReadStep
  BY <1>4, <1>6 DEF ReadStep, ReadHeader, ReadMalformed, ReadBody, ReadEnd
<1>7. CASE UNCHANGED vars
  BY <1>4, <1>7 DEF vars, peerVars
<1> QED
  BY <1>2, <1>3, <1>5, <1>6, <1>7 DEF Next, Receive

LEMMA InitTail == Init => BufferIsTail
<1>1. Len(<< >>) = 0
  OBVIOUS
<1> QED
  BY <1>1 DEF Init, BufferIsTail

\* The bytes already received are not written again, and Read appends the next ones.
LEMMA StepTail == TypeOK /\ BufferIsTail /\ [Next]_vars => BufferIsTail'
<1> SUFFICES ASSUME TypeOK, BufferIsTail, [Next]_vars PROVE BufferIsTail'
  OBVIOUS
<1>0. received \in Nat /\ received <= Len(stream) /\ Len(buffer) \in Nat /\ Len(stream) \in Nat
  BY DEF TypeOK
<1>1. ASSUME NEW size \in 0 .. UShort - 1, NEW pid \in Ids, NEW data \in Seq(Bytes),
             PeerWrites(size, pid, data)
      PROVE  BufferIsTail'
  <2>1. buffer' = buffer /\ received' = received
    BY <1>1 DEF PeerWrites, factoryVars
  <2>2. \A j \in 1 .. Len(stream) : stream'[j] = stream[j]
    BY <1>1, PeerWritesFacts
  <2>3. \A k \in 1 .. Len(buffer) : received - Len(buffer) + k \in 1 .. Len(stream)
    BY <1>0 DEF BufferIsTail
  <2> QED
    BY <2>1, <2>2, <2>3 DEF BufferIsTail
<1>2. ASSUME NEW p \in Packets, PeerSend(p) PROVE BufferIsTail'
  <2>1. p.id \in Ids /\ p.data \in Payloads
    BY DEF Packets
  <2>2. p.data \in Seq(Bytes) /\ LengthField(p.data) \in 0 .. UShort - 1
    BY <2>1, UShortFacts
  <2> QED
    BY <1>1, <1>2, <2>1, <2>2 DEF PeerSend
<1>3. ASSUME NEW size \in MalformedSizes, NEW pid \in Ids, PeerSendMalformed(size, pid)
      PROVE  BufferIsTail'
  <2>1. size \in 0 .. UShort - 1
    BY UShortFacts
  <2>2. << >> \in Seq(Bytes)
    OBVIOUS
  <2>3. PeerWrites(size, pid, << >>)
    BY <1>3 DEF PeerSendMalformed
  <2> QED
    BY <1>1, <2>1, <2>2, <2>3
<1>4. ASSUME NEW n \in 1 .. Len(stream) - received, ReadBegin(n) PROVE BufferIsTail'
  <2>1. /\ received' = received + n /\ Len(buffer') = Len(buffer) + n
        /\ \A k \in 1 .. Len(buffer) : buffer'[k] = buffer[k]
        /\ \A k \in 1 .. n : buffer'[Len(buffer) + k] = stream[received + k]
    BY <1>4, ReadBeginFacts
  <2>2. stream' = stream
    BY <1>4 DEF ReadBegin, peerVars
  <2>3. ASSUME NEW k \in 1 .. Len(buffer')
        PROVE  buffer'[k] = stream[received' - Len(buffer') + k]
    <3>1. received' - Len(buffer') + k = received - Len(buffer) + k
      BY <1>0, <2>1
    <3>2. CASE k <= Len(buffer)
      BY <1>0, <2>1, <3>1, <3>2 DEF BufferIsTail
    <3>3. CASE k > Len(buffer)
      <4>1. k - Len(buffer) \in 1 .. n /\ k = Len(buffer) + (k - Len(buffer))
        BY <1>0, <2>1, <3>3
      <4>2. buffer'[k] = stream[received + (k - Len(buffer))]
        BY <2>1, <4>1
      <4>3. received + (k - Len(buffer)) = received - Len(buffer) + k
        BY <1>0, <2>1
      <4> QED
        BY <3>1, <4>2, <4>3
    <3> QED
      BY <1>0, <2>1, <3>2, <3>3
  <2> QED
    BY <1>0, <2>1, <2>2, <2>3 DEF BufferIsTail
<1>5. ASSUME buffer' = << >>, UNCHANGED <<stream, received>> PROVE BufferIsTail'
  <2>1. Len(buffer') = 0
    BY <1>5
  <2> QED
    BY <1>0, <1>5, <2>1 DEF BufferIsTail
<1>6. ASSUME UNCHANGED <<buffer, stream, received>> PROVE BufferIsTail'
  BY <1>6 DEF BufferIsTail
<1>7. CASE ReadStep
  BY <1>5, <1>6, <1>7
  DEF ReadStep, ReadHeader, ReadMalformed, ReadBody, ReadEnd, Reset, peerVars, factoryVars
<1>8. CASE UNCHANGED vars
  BY <1>6, <1>8 DEF vars
<1> QED
  BY <1>2, <1>3, <1>4, <1>7, <1>8 DEF Next, Receive

(***************************************************************************)
(* The reader stands where the peer started a frame.                       *)
(***************************************************************************)

IInv == TypeOK /\ FramesWhole /\ BufferIsTail /\ Aligned /\ InOrder

\* The byte at distance j behind the cursor is the one the peer wrote there.
LEMMA BytesAhead ==
    ASSUME TypeOK, BufferIsTail, NEW j \in Nat, j >= 1, position + j <= Len(buffer)
    PROVE  buffer[position + j] = stream[Cursor + j]
<1>1. /\ Len(buffer) \in Nat /\ position \in Nat /\ received \in Nat
      /\ \A k \in 1 .. Len(buffer) : buffer[k] = stream[received - Len(buffer) + k]
  BY DEF TypeOK, BufferIsTail
<1>2. position + j \in 1 .. Len(buffer)
  BY <1>1
<1>3. received - Len(buffer) + (position + j) = Cursor + j
  BY <1>1 DEF Cursor
<1> QED
  BY <1>1, <1>2, <1>3

\* A complete header in front of the cursor is the one the peer wrote next.
LEMMA HeaderFound ==
    ASSUME IInv, HeaderReady, dropped = "none"
    PROVE  LET k == Len(delivered) + 1
               f == log[k] IN
           /\ k \in 1 .. Len(log)
           /\ Cursor = f.at
           /\ AnnouncedSize = f.size
           /\ GetUInt16(buffer, position + 3) = f.id
<1> DEFINE k == Len(delivered) + 1
           f == log[k]
<1>1. /\ ~readHeader /\ position + 4 <= Len(buffer)
      /\ position \in Nat /\ Len(buffer) \in Nat /\ received \in Nat /\ received <= Len(stream)
      /\ Len(stream) \in Nat /\ Len(log) \in Nat /\ Len(delivered) \in Nat
  BY DEF IInv, TypeOK, HeaderReady, PacketHeaderSize
<1>2. Len(delivered) <= Len(log) /\ Cursor = Boundary(k)
  BY <1>1 DEF IInv, Aligned, NextFrame
<1>3. Cursor + 4 <= Len(stream)
  BY <1>1 DEF Cursor
<1>4. k \in 1 .. Len(log) /\ Cursor = f.at
  <2>1. k # Len(log) + 1
    BY <1>1, <1>2, <1>3 DEF Boundary
  <2> QED
    BY <1>1, <1>2, <2>1 DEF Boundary
<1>5. /\ f.at \in Nat /\ f.size \in 0 .. UShort - 1 /\ f.id \in Ids
      /\ f.data \in Seq(Bytes) /\ Len(f.data) \in Nat
  BY <1>4, LogEntries DEF IInv
<1>6. f.id \in 0 .. UShort - 1
  BY <1>5, UShortFacts
<1> DEFINE bytes == Frame(f.size, f.id, f.data)
<1>7. \A j \in 1 .. PacketHeaderSize + Len(f.data) : stream[f.at + j] = bytes[j]
  BY <1>4 DEF IInv, FramesWhole, FrameWhole
<1>8. GetUInt16(bytes, 1) = f.size /\ GetUInt16(bytes, 3) = f.id
  BY <1>5, <1>6, FrameLayout
<1> HIDE DEF k, f, bytes
<1>9. ASSUME NEW j \in 1 .. 4 PROVE buffer[position + j] = bytes[j]
  <2>1. buffer[position + j] = stream[Cursor + j]
    BY <1>1, BytesAhead DEF IInv
  <2>2. j \in 1 .. PacketHeaderSize + Len(f.data)
    BY <1>5 DEF PacketHeaderSize
  <2> QED
    BY <1>4, <1>7, <2>1, <2>2
<1>10. /\ buffer[position + 1] = bytes[1] /\ buffer[position + 2] = bytes[2]
       /\ buffer[position + 3] = bytes[3] /\ buffer[position + 4] = bytes[4]
  BY <1>9
<1>11. position + 1 + 1 = position + 2 /\ position + 3 + 1 = position + 4
  BY <1>1
<1>12. AnnouncedSize = GetUInt16(bytes, 1) /\ GetUInt16(buffer, position + 3) = GetUInt16(bytes, 3)
  BY <1>10, <1>11 DEF AnnouncedSize, GetUInt16
<1> QED
  BY <1>4, <1>8, <1>12 DEF k, f

\* A complete payload in front of the cursor is the one whose header Read holds.
LEMMA BodyFound ==
    ASSUME IInv, BodyReady, dropped = "none"
    PROVE  LET k == Len(delivered) + 1
               f == log[k] IN
           /\ k \in 1 .. Len(log)
           /\ id = f.id
           /\ SubSeq(buffer, position + 1, position + dataSize) = f.data
           /\ Cursor + dataSize = Boundary(k + 1)
<1> DEFINE k == Len(delivered) + 1
           f == log[k]
           s == SubSeq(buffer, position + 1, position + dataSize)
<1>1. /\ readHeader /\ position + dataSize <= Len(buffer)
      /\ position \in Nat /\ Len(buffer) \in Nat /\ dataSize \in Nat
      /\ Len(log) \in Nat /\ Len(delivered) \in Nat
  BY UShortFacts DEF IInv, TypeOK, BodyReady
<1>2. /\ Len(delivered) < Len(log) /\ Cursor = f.at + PacketHeaderSize
      /\ dataSize = Len(f.data) /\ id = f.id
  BY <1>1 DEF IInv, Aligned
<1>3. k \in 1 .. Len(log)
  BY <1>1, <1>2
<1>4. /\ f.at \in Nat /\ f.size \in 0 .. UShort - 1 /\ f.id \in Ids
      /\ f.data \in Seq(Bytes) /\ Len(f.data) \in Nat
  BY <1>3, LogEntries DEF IInv
<1>5. f.id \in 0 .. UShort - 1
  BY <1>4, UShortFacts
<1> DEFINE bytes == Frame(f.size, f.id, f.data)
<1>6. /\ \A j \in 1 .. PacketHeaderSize + Len(f.data) : stream[f.at + j] = bytes[j]
      /\ f.at + PacketHeaderSize + Len(f.data) = Boundary(k + 1)
  BY <1>3 DEF IInv, FramesWhole, FrameWhole
<1>7. \A j \in 1 .. Len(f.data) : bytes[PacketHeaderSize + j] = f.data[j]
  BY <1>4, <1>5, FrameLayout
<1>8. /\ s \in Seq(Bytes) /\ Len(s) = dataSize
      /\ \A j \in 1 .. dataSize : s[j] = buffer[position + j]
  BY BodyBytes DEF IInv
<1> HIDE DEF k, f, s, bytes
<1>9. ASSUME NEW j \in 1 .. dataSize PROVE s[j] = f.data[j]
  <2>1. buffer[position + j] = stream[Cursor + j]
    BY <1>1, BytesAhead DEF IInv
  <2>2. /\ Cursor + j = f.at + (PacketHeaderSize + j)
        /\ PacketHeaderSize + j \in 1 .. PacketHeaderSize + Len(f.data)
    <3>1. f.at \in Nat /\ j \in Nat /\ 1 <= j /\ j <= Len(f.data) /\ Len(f.data) \in Nat
      BY <1>2, <1>4
    <3>2. Cursor = f.at + PacketHeaderSize
      BY <1>2
    <3> QED
      BY <3>1, <3>2 DEF PacketHeaderSize
  <2>3. stream[Cursor + j] = bytes[PacketHeaderSize + j]
    BY <1>6, <2>2
  <2>4. bytes[PacketHeaderSize + j] = f.data[j]
    BY <1>2, <1>7
  <2> QED
    BY <1>8, <2>1, <2>3, <2>4
<1>10. s = f.data
  BY <1>2, <1>4, <1>8, <1>9, SeqEqual
<1>11. Cursor + dataSize = Boundary(k + 1)
  BY <1>2, <1>6
<1> QED
  BY <1>2, <1>3, <1>10, <1>11 DEF k, f, s

LEMMA InitIInv == Init => IInv
<1> SUFFICES ASSUME Init PROVE IInv
  OBVIOUS
<1>1. TypeOK /\ FramesWhole /\ BufferIsTail
  BY InitType, InitFrames, InitTail
<1>2. Len(log) = 0 /\ Len(stream) = 0 /\ Len(buffer) = 0 /\ Len(delivered) = 0
  BY DEF Init
<1>3. InOrder
  BY <1>2 DEF InOrder
<1>4. Aligned
  <2>0. readHeader = FALSE /\ received = 0 /\ position = 0
    BY DEF Init
  <2>1. Cursor = 0 /\ NextFrame = 0
    BY <1>2, <2>0 DEF Cursor, NextFrame, Boundary
  <2> QED
    BY <1>2, <2>0, <2>1 DEF Aligned
<1> QED
  BY <1>1, <1>3, <1>4 DEF IInv

LEMMA StepReader == IInv /\ [Next]_vars => Aligned' /\ InOrder'
<1> SUFFICES ASSUME IInv, [Next]_vars PROVE Aligned' /\ InOrder'
  OBVIOUS
<1>0. PICK d \in Nat, n \in Nat : d = Len(delivered) /\ n = Len(log)
  BY DEF IInv, TypeOK
<1>t. /\ Len(stream) \in Nat /\ Len(buffer) \in Nat /\ received \in Nat /\ position \in Nat
      /\ TypeOK
  BY DEF IInv, TypeOK
<1>1. ASSUME NEW size \in 0 .. UShort - 1, NEW pid \in Ids, NEW data \in Seq(Bytes),
             PeerWrites(size, pid, data)
      PROVE  Aligned' /\ InOrder'
  <2> DEFINE new == [at |-> Len(stream), size |-> size, id |-> pid, data |-> data]
  <2>1. /\ Len(log') = n + 1 /\ log'[n + 1].at = Len(stream)
        /\ \A i \in 1 .. n : log'[i] = log[i]
    <3>1. /\ Len(log') = Len(log) + 1 /\ log'[Len(log) + 1] = new
          /\ \A i \in 1 .. Len(log) : log'[i] = log[i]
      BY <1>1, <1>t, PeerWritesFacts
    <3> QED
      BY <1>0, <3>1
  <2>2. UNCHANGED <<received, buffer, position, readHeader, dataSize, id, delivered, dropped>>
    BY <1>1 DEF PeerWrites, factoryVars
  <2>3. SUFFICES ASSUME dropped = "none" PROVE Aligned' /\ InOrder'
    BY <2>2 DEF Aligned, InOrder
  <2>4. d <= n
    BY <1>0, <2>3 DEF IInv, InOrder
  <2>5. Boundary(d + 1)' = Boundary(d + 1)
    <3>1. CASE d + 1 <= n
      BY <1>0, <2>1, <3>1 DEF Boundary
    <3>2. CASE d + 1 = n + 1
      BY <1>0, <2>1, <3>2 DEF Boundary
    <3> QED
      BY <1>0, <2>4, <3>1, <3>2
  <2>6. Cursor' = Cursor /\ NextFrame' = NextFrame
    BY <1>0, <2>2, <2>5 DEF Cursor, NextFrame
  <2>7. Aligned'
    <3>1. CASE ~readHeader
      BY <1>0, <2>1, <2>2, <2>3, <2>4, <2>6, <3>1 DEF IInv, Aligned
    <3>2. CASE readHeader
      <4>1. d + 1 \in 1 .. n /\ d < n + 1
        BY <1>0, <2>3, <3>2 DEF IInv, Aligned
      <4>2. log'[d + 1] = log[d + 1]
        BY <2>1, <4>1
      <4> QED
        BY <1>0, <2>1, <2>2, <2>3, <2>4, <2>6, <3>2, <4>1, <4>2 DEF IInv, Aligned
    <3> QED
      BY <3>1, <3>2
  <2>8. InOrder'
    <3>1. ASSUME NEW i \in 1 .. d PROVE Sent'[i] = Sent[i]
      BY <1>0, <2>1, <2>4, <3>1 DEF Sent
    <3> QED
      BY <1>0, <2>1, <2>2, <2>3, <2>4, <3>1 DEF IInv, InOrder
  <2> QED
    BY <2>7, <2>8
<1>2. ASSUME NEW p \in Packets, PeerSend(p) PROVE Aligned' /\ InOrder'
  <2>1. p.id \in Ids /\ p.data \in Payloads
    BY DEF Packets
  <2>2. p.data \in Seq(Bytes) /\ LengthField(p.data) \in 0 .. UShort - 1
    BY <2>1, UShortFacts
  <2> QED
    BY <1>1, <1>2, <2>1, <2>2 DEF PeerSend
<1>3. ASSUME NEW size \in MalformedSizes, NEW pid \in Ids, PeerSendMalformed(size, pid)
      PROVE  Aligned' /\ InOrder'
  <2>1. size \in 0 .. UShort - 1
    BY UShortFacts
  <2>2. << >> \in Seq(Bytes)
    OBVIOUS
  <2>3. PeerWrites(size, pid, << >>)
    BY <1>3 DEF PeerSendMalformed
  <2> QED
    BY <1>1, <2>1, <2>2, <2>3
<1>4. ASSUME NEW m \in 1 .. Len(stream) - received, ReadBegin(m) PROVE Aligned' /\ InOrder'
  <2>1. received' = received + m /\ Len(buffer') = Len(buffer) + m
    BY <1>4, <1>t, ReadBeginFacts
  <2>2. UNCHANGED <<log, stream, position, readHeader, dataSize, id, delivered, dropped>>
    BY <1>4 DEF ReadBegin, peerVars
  <2>3. Cursor' = Cursor
    BY <1>t, <2>1, <2>2 DEF Cursor
  <2> QED
    BY <2>2, <2>3 DEF IInv, Aligned, InOrder, Sent, NextFrame, Boundary
<1>5. CASE ReadHeader
  <2>1. /\ HeaderReady /\ AnnouncedSize >= PacketHeaderSize
        /\ dataSize' = AnnouncedSize - PacketHeaderSize
        /\ id' = GetUInt16(buffer, position + 3) /\ readHeader' = TRUE
        /\ position' = position + PacketHeaderSize
        /\ UNCHANGED <<log, stream, received, buffer, delivered, dropped>>
    BY <1>5 DEF ReadHeader, peerVars
  <2>2. InOrder'
    BY <2>1 DEF IInv, InOrder, Sent
  <2>3. ASSUME dropped = "none" PROVE Aligned'
    <3> DEFINE f == log[d + 1]
    <3>1. /\ d + 1 \in 1 .. n /\ Cursor = f.at /\ AnnouncedSize = f.size
          /\ GetUInt16(buffer, position + 3) = f.id
      BY <1>0, <2>1, <2>3, HeaderFound
    <3>2. FrameWhole(d + 1)
      BY <1>0, <3>1 DEF IInv, FramesWhole
    <3>3. f.size \in Nat /\ f.at \in Nat /\ Len(f.data) \in Nat
      BY <1>0, <1>t, <3>1, LogEntries, UShortFacts
    <3>4. f.size = PacketHeaderSize + Len(f.data)
      BY <2>1, <3>1, <3>2, <3>3 DEF FrameWhole, PacketHeaderSize
    <3>5. Cursor' = f.at + PacketHeaderSize
      BY <1>t, <2>1, <3>1 DEF Cursor, PacketHeaderSize
    <3>6. dataSize' = Len(f.data)
      BY <2>1, <3>1, <3>3, <3>4 DEF PacketHeaderSize
    <3>7. d < n
      BY <3>1
    <3> QED
      BY <1>0, <2>1, <3>1, <3>4, <3>5, <3>6, <3>7 DEF Aligned
  <2> QED
    BY <2>1, <2>2, <2>3 DEF Aligned
<1>6. CASE ReadMalformed
  <2>1. dropped' # "none"
    BY <1>6 DEF ReadMalformed
  <2> QED
    BY <2>1 DEF Aligned, InOrder
<1>7. CASE ReadBody
  <2> DEFINE s == SubSeq(buffer, position + 1, position + dataSize)
             p == [id |-> id, data |-> s]
  <2>1. /\ BodyReady /\ delivered' = Append(delivered, p)
        /\ position' = position + dataSize /\ readHeader' = FALSE
        /\ UNCHANGED <<log, stream, received, buffer, dropped>>
    BY <1>7 DEF ReadBody, peerVars
  <2>2. SUFFICES ASSUME dropped = "none" PROVE Aligned' /\ InOrder'
    BY <2>1 DEF Aligned, InOrder
  <2>3. /\ d + 1 \in 1 .. n /\ p = [id |-> log[d + 1].id, data |-> log[d + 1].data]
        /\ Cursor + dataSize = Boundary(d + 1 + 1)
    BY <1>0, <2>1, <2>2, BodyFound
  <2> HIDE DEF p
  <2>4. /\ Len(delivered') = d + 1 /\ delivered'[d + 1] = p
        /\ \A i \in 1 .. d : delivered'[i] = delivered[i]
    <3>1. delivered \in Seq([id : 0 .. UShort - 1, data : Seq(Bytes)])
      BY <1>t DEF TypeOK
    <3> QED
      BY <1>0, <2>1, <3>1
  <2>5. dataSize \in Nat
    BY <1>t, UShortFacts DEF TypeOK
  <2>6. Cursor' = Cursor + dataSize /\ NextFrame' = Boundary(d + 1 + 1)
    BY <1>t, <2>1, <2>4, <2>5 DEF Cursor, NextFrame, Boundary
  <2>7. Aligned'
    BY <1>0, <2>1, <2>3, <2>4, <2>6 DEF Aligned
  <2>8. ASSUME NEW i \in 1 .. d + 1 PROVE delivered'[i] = Sent'[i]
    <3>1. i \in 1 .. n /\ Sent' = Sent
      BY <2>1, <2>3 DEF Sent
    <3>2. CASE i = d + 1
      BY <1>0, <2>3, <2>4, <3>1, <3>2 DEF Sent
    <3>3. CASE i \in 1 .. d
      BY <1>0, <2>2, <2>4, <3>1, <3>3 DEF IInv, InOrder
    <3> QED
      BY <3>2, <3>3
  <2>9. InOrder'
    BY <1>0, <2>1, <2>3, <2>4, <2>8 DEF InOrder
  <2> QED
    BY <2>7, <2>9
<1>8. CASE ReadEnd
  <2>1. UNCHANGED <<log, stream, received, delivered>>
    BY <1>8 DEF ReadEnd, peerVars
  <2>2. CASE position = Len(buffer)
    <3>1. /\ buffer' = << >> /\ position' = 0 /\ readHeader' = FALSE
          /\ dropped' = IF readHeader /\ dropped = "none" THEN "header" ELSE dropped
      BY <1>8, <2>2 DEF ReadEnd, Reset
    <3>2. SUFFICES ASSUME dropped' = "none" PROVE Aligned' /\ InOrder'
      BY DEF Aligned, InOrder
    <3>3. ~readHeader /\ dropped = "none"
      BY <3>1, <3>2
    <3>4. Len(buffer') = 0
      BY <3>1
    <3>5. Cursor' = Cursor
      BY <1>t, <2>1, <2>2, <3>1, <3>4 DEF Cursor
    <3>6. NextFrame' = NextFrame
      BY <2>1 DEF NextFrame, Boundary
    <3> QED
      BY <2>1, <3>1, <3>3, <3>5, <3>6 DEF IInv, Aligned, InOrder, Sent
  <2>3. CASE position # Len(buffer)
    <3>1. UNCHANGED <<buffer, position, readHeader, dataSize, id, dropped>>
      BY <1>8, <2>3 DEF ReadEnd, factoryVars
    <3> QED
      BY <2>1, <3>1 DEF IInv, Aligned, InOrder, Sent, Cursor, NextFrame, Boundary
  <2> QED
    BY <2>2, <2>3
<1>9. CASE UNCHANGED vars
  BY <1>9 DEF vars, IInv, Aligned, InOrder, Sent, Cursor, NextFrame, Boundary
<1> QED
  BY <1>2, <1>3, <1>4, <1>5, <1>6, <1>7, <1>8, <1>9 DEF Next, Receive, ReadStep

LEMMA Inductive == Spec => []IInv
<1>1. IInv /\ [Next]_vars => IInv'
  BY StepType, StepFrames, StepTail, StepReader DEF IInv
<1> QED
  BY <1>1, InitIInv, PTL DEF Spec

\* The frames of the peer lie in the stream back to back and whole (PacketFactory.Write).
THEOREM FramesStayWhole == Spec => []FramesWhole
<1>1. IInv => FramesWhole
  BY DEF IInv
<1> QED
  BY <1>1, Inductive, PTL

\* The buffer is the last part of what arrived, byte for byte (PacketFactory.Read).
THEOREM BufferStaysTail == Spec => []BufferIsTail
<1>1. IInv => BufferIsTail
  BY DEF IInv
<1> QED
  BY <1>1, Inductive, PTL

\* Read resumes exactly where it stopped: at a frame boundary, or behind the header
\* whose size and id it kept (the fields of PacketFactory).
THEOREM ReaderStaysAligned == Spec => []Aligned
<1>1. IInv => Aligned
  BY DEF IInv
<1> QED
  BY <1>1, Inductive, PTL

\* However the segments fall, Read returns the peer's packets unchanged and in order
\* until a Reset throws input away (PacketFactory.Read).
THEOREM PacketsInOrder == Spec => []InOrder
<1>1. IInv => InOrder
  BY DEF IInv
<1> QED
  BY <1>1, Inductive, PTL

(***************************************************************************)
(* What Read returns is cut out of the stream, after lost input too.       *)
(***************************************************************************)

\* The header the reader holds is the four bytes in front of the cursor.
HeaderHeld ==
    readHeader =>
        /\ position >= PacketHeaderSize
        /\ GetUInt16(buffer, position - 3) = PacketHeaderSize + dataSize
        /\ GetUInt16(buffer, position - 1) = id

\* The stream is read up to here: a header that is held is not yet part of a packet.
Limit == Cursor - (IF readHeader THEN PacketHeaderSize ELSE 0)

Ends(cut, i) == cut[i] + PacketHeaderSize + Len(delivered[i].data)

\* The packets were cut at these offsets, all of them in front of the limit.
Cuts(cut) ==
    /\ \A i \in 1 .. Len(delivered) : cut[i] \in Nat /\ ReadAt(delivered[i], cut[i])
    /\ \A i \in 1 .. Len(delivered) : Ends(cut, i) <= Limit
    /\ \A i \in 1 .. Len(delivered) - 1 : Ends(cut, i) <= cut[i + 1]

CutInv == HeaderHeld /\ \E cut : Cuts(cut)

\* The bytes of a packet that lies in front of r.
LEMMA PacketIndices ==
    ASSUME NEW a \in Nat, NEW m \in Nat, NEW r \in Nat, a + 4 + m <= r
    PROVE  /\ a + 1 \in 1 .. r /\ a + 1 + 1 \in 1 .. r
           /\ a + 3 \in 1 .. r /\ a + 3 + 1 \in 1 .. r
           /\ \A j \in 1 .. m : a + 4 + j \in 1 .. r
           /\ \A s \in Nat : r <= s => a + 4 + m <= s
  OBVIOUS

\* The places of a packet in the stream and in the buffer that holds the stream's tail.
LEMMA TailIndices ==
    ASSUME NEW r \in Nat, NEW l \in Nat, NEW p \in Nat, NEW d \in Nat,
           l <= r, p >= 4, p + d <= l
    PROVE  /\ (r - l + p - 4) + 4 + d <= r
           /\ \A k \in 1 .. 4 : p - 4 + k \in 1 .. l
           /\ \A j \in 1 .. d : p + j \in 1 .. l
           /\ \A j \in 1 .. d : r - l + (p + j) = (r - l + p - 4) + 4 + j
           /\ r - l + (p + d) = (r - l + p - 4) + 4 + d
  OBVIOUS

\* The offset of a packet stays what it is while the stream grows and more is received.
LEMMA ReadAtKept ==
    ASSUME NEW p, NEW a \in Nat, ReadAt(p, a), Len(p.data) \in Nat, received \in Nat,
           received' \in Nat, received' >= received,
           \A j \in 1 .. received : stream'[j] = stream[j], NEW q, q = p
    PROVE  ReadAt(q, a)'
<1> PICK m \in Nat : m = Len(p.data)
  OBVIOUS
<1> PICK r \in Nat : r = received
  OBVIOUS
<1> PICK s \in Nat : s = received'
  OBVIOUS
<1>1. a + 4 + m <= r
  BY DEF ReadAt, PacketHeaderSize
<1>2. /\ a + 1 \in 1 .. r /\ a + 1 + 1 \in 1 .. r
      /\ a + 3 \in 1 .. r /\ a + 3 + 1 \in 1 .. r
      /\ \A j \in 1 .. m : a + 4 + j \in 1 .. r
      /\ \A x \in Nat : r <= x => a + 4 + m <= x
  BY <1>1, PacketIndices
<1>4. /\ GetUInt16(stream', a + 1) = GetUInt16(stream, a + 1)
      /\ GetUInt16(stream', a + 3) = GetUInt16(stream, a + 3)
  BY <1>2 DEF GetUInt16
<1>5. a + 4 + m <= s
  <2>1. r <= s
    OBVIOUS
  <2> QED
    BY <1>2, <2>1
<1>6. /\ GetUInt16(stream, a + 1) = 4 + m /\ GetUInt16(stream, a + 3) = p.id
      /\ \A j \in 1 .. m : stream[a + 4 + j] = p.data[j]
  BY DEF ReadAt, PacketHeaderSize
<1>7. \A j \in 1 .. m : stream'[a + 4 + j] = p.data[j]
  BY <1>2, <1>6
<1> QED
  BY <1>4, <1>5, <1>6, <1>7 DEF ReadAt, PacketHeaderSize

LEMMA PacketTypes ==
    ASSUME TypeOK, NEW i \in 1 .. Len(delivered)
    PROVE  delivered[i].data \in Seq(Bytes) /\ Len(delivered[i].data) \in Nat
<1> DEFINE P == [id : 0 .. UShort - 1, data : Seq(Bytes)]
<1>1. delivered \in Seq(P)
  BY DEF TypeOK
<1> HIDE DEF P
<1>2. delivered[i] \in P
  BY <1>1
<1>3. delivered[i].data \in Seq(Bytes)
  BY <1>2 DEF P
<1> QED
  BY <1>3

LEMMA LimitFacts ==
    ASSUME TypeOK, HeaderHeld
    PROVE  Limit \in Int /\ Limit <= received
  BY DEF TypeOK, HeaderHeld, Limit, Cursor, PacketHeaderSize

\* A step that delivers nothing and does not go back in the stream.
LEMMA CutsKept ==
    ASSUME TypeOK, TypeOK', CutInv, delivered' = delivered, HeaderHeld', Limit' >= Limit,
           received' >= received, \A j \in 1 .. received : stream'[j] = stream[j]
    PROVE  CutInv'
<1>1. PICK cut : Cuts(cut)
  BY DEF CutInv
<1>2. /\ received \in Nat /\ received' \in Nat /\ Limit \in Int /\ Limit' \in Int
  <2>1. Limit \in Int
    BY LimitFacts DEF CutInv
  <2>2. /\ received' \in Nat /\ Len(buffer') \in Nat /\ position' \in Nat
    BY DEF TypeOK
  <2>3. Cursor' \in Int
    BY <2>2 DEF Cursor
  <2>4. Limit' \in Int
    BY <2>3 DEF Limit, PacketHeaderSize
  <2> QED
    BY <2>1, <2>2, <2>4 DEF TypeOK
<1>3. ASSUME NEW i \in 1 .. Len(delivered)
      PROVE  /\ cut[i] \in Nat /\ ReadAt(delivered[i], cut[i])'
             /\ Ends(cut, i) \in Int
  <2>1. Len(delivered[i].data) \in Nat
    BY PacketTypes
  <2>2. cut[i] \in Nat /\ ReadAt(delivered[i], cut[i])
    BY <1>1 DEF Cuts
  <2>3. PICK p : p = delivered[i]
    OBVIOUS
  <2>4. PICK a \in Nat : a = cut[i]
    BY <2>2
  <2>5. ReadAt(p, a) /\ Len(p.data) \in Nat
    BY <2>1, <2>2, <2>3, <2>4
  <2>6. ReadAt(p, a)'
    BY <1>2, <2>5, ReadAtKept
  <2>7. ReadAt(delivered[i], cut[i])'
    BY <2>3, <2>4, <2>6
  <2>8. Ends(cut, i) \in Int
    BY <2>1, <2>2 DEF Ends, PacketHeaderSize
  <2> QED
    BY <2>2, <2>7, <2>8
<1>4. \A i \in 1 .. Len(delivered) : Ends(cut, i) <= Limit'
  BY <1>1, <1>2, <1>3 DEF Cuts
<1>5. \A i : Ends(cut, i)' = Ends(cut, i)
  BY DEF Ends
<1>6. Cuts(cut)'
  BY <1>1, <1>3, <1>4, <1>5 DEF Cuts
<1> QED
  BY <1>6 DEF CutInv

\* A packet is cut where its header was.
LEMMA CutBody ==
    ASSUME TypeOK, TypeOK', BufferIsTail, CutInv, ReadBody
    PROVE  CutInv'
<1> PICK data : data = SubSeq(buffer, position + 1, position + dataSize)
  OBVIOUS
<1> PICK p : p = [id |-> id, data |-> data]
  OBVIOUS
<1> PICK n : n = Len(delivered)
  OBVIOUS
<1> PICK at : at = Cursor - PacketHeaderSize
  OBVIOUS
<1>1. /\ readHeader /\ BodyReady /\ delivered' = Append(delivered, p)
      /\ position' = position + dataSize /\ readHeader' = FALSE
      /\ UNCHANGED <<stream, received, buffer>>
  BY DEF ReadBody, BodyReady, peerVars
<1>2. /\ data \in Seq(Bytes) /\ Len(data) = dataSize
      /\ \A j \in 1 .. dataSize : data[j] = buffer[position + j]
      /\ position + dataSize \in 0 .. Len(buffer)
  BY <1>1, BodyBytes
<1>3. p.id = id /\ p.data = data
  OBVIOUS
<1>4. /\ position \in Nat /\ position >= 4 /\ dataSize \in Nat /\ received \in Nat
      /\ Len(buffer) \in Nat /\ Len(buffer) <= received
      /\ GetUInt16(buffer, position - 3) = 4 + dataSize
      /\ GetUInt16(buffer, position - 1) = id
      /\ \A k \in 1 .. Len(buffer) : buffer[k] = stream[received - Len(buffer) + k]
  BY <1>1, UShortFacts DEF TypeOK, CutInv, HeaderHeld, BufferIsTail, PacketHeaderSize
<1>5. at = received - Len(buffer) + position - 4 /\ at \in Nat
  BY <1>4 DEF Cursor, PacketHeaderSize
<1>a. /\ at + 4 + dataSize <= received
      /\ \A k \in 1 .. 4 : position - 4 + k \in 1 .. Len(buffer)
      /\ \A j \in 1 .. dataSize : position + j \in 1 .. Len(buffer)
      /\ \A j \in 1 .. dataSize : received - Len(buffer) + (position + j) = at + 4 + j
      /\ received - Len(buffer) + (position + dataSize) = at + 4 + dataSize
  <2>1. position + dataSize <= Len(buffer)
    BY <1>2, <1>4
  <2>2. PICK r \in Nat, l \in Nat, x \in Nat, d \in Nat :
          r = received /\ l = Len(buffer) /\ x = position /\ d = dataSize
    BY <1>4
  <2>3. l <= r /\ x >= 4 /\ x + d <= l /\ at = r - l + x - 4
    BY <1>4, <1>5, <2>1, <2>2
  <2>4. /\ at + 4 + d <= r
        /\ \A k \in 1 .. 4 : x - 4 + k \in 1 .. l
        /\ \A j \in 1 .. d : x + j \in 1 .. l
        /\ \A j \in 1 .. d : r - l + (x + j) = at + 4 + j
        /\ r - l + (x + d) = at + 4 + d
    BY <2>3, TailIndices
  <2> QED
    BY <2>2, <2>4
<1>6. ReadAt(p, at)'
  <2>1. at + 4 + Len(data) <= received'
    BY <1>1, <1>2, <1>a
  <2>2. /\ stream[at + 1] = buffer[position - 3] /\ stream[at + 1 + 1] = buffer[position - 3 + 1]
        /\ stream[at + 3] = buffer[position - 1] /\ stream[at + 3 + 1] = buffer[position - 1 + 1]
    <3>1. \A k \in 1 .. 4 : position - 4 + k \in 1 .. Len(buffer)
      BY <1>a
    <3>2. \A k \in 1 .. 4 : stream[at + k] = buffer[position - 4 + k]
      <4>1. ASSUME NEW k \in 1 .. 4 PROVE stream[at + k] = buffer[position - 4 + k]
        <5>1. buffer[position - 4 + k] = stream[received - Len(buffer) + (position - 4 + k)]
          BY <1>4, <3>1
        <5>2. received - Len(buffer) + (position - 4 + k) = at + k
          BY <1>4, <1>5
        <5> QED
          BY <5>1, <5>2
      <4> QED
        BY <4>1
    <3>3. /\ position - 4 + 1 = position - 3 /\ position - 4 + 2 = position - 3 + 1
          /\ position - 4 + 3 = position - 1 /\ position - 4 + 4 = position - 1 + 1
          /\ at + 1 + 1 = at + 2 /\ at + 3 + 1 = at + 4
      BY <1>4, <1>5
    <3> QED
      BY <3>2, <3>3
  <2>3. ASSUME NEW j \in 1 .. Len(data) PROVE stream[at + 4 + j] = data[j]
    <3>1. j \in 1 .. dataSize /\ position + j \in 1 .. Len(buffer) /\ data[j] = buffer[position + j]
      BY <1>2, <1>a
    <3>2. buffer[position + j] = stream[received - Len(buffer) + (position + j)]
      BY <1>4, <3>1
    <3>3. received - Len(buffer) + (position + j) = at + 4 + j
      BY <1>a, <3>1
    <3> QED
      BY <3>1, <3>2, <3>3
  <2>4. GetUInt16(stream, at + 1) = 4 + Len(data) /\ GetUInt16(stream, at + 3) = id
    BY <1>2, <1>4, <2>2 DEF GetUInt16
  <2>5. stream' = stream
    BY <1>1
  <2> QED
    BY <1>3, <2>1, <2>3, <2>4, <2>5 DEF ReadAt, PacketHeaderSize
<1>7. /\ n \in Nat /\ Len(delivered') = n + 1 /\ delivered'[n + 1] = p
      /\ \A i \in 1 .. n : delivered'[i] = delivered[i]
  <2> DEFINE P == [id : 0 .. UShort - 1, data : Seq(Bytes)]
  <2>1. p \in P /\ delivered \in Seq(P)
    BY <1>2 DEF TypeOK
  <2> HIDE DEF P
  <2> QED
    BY <1>1, <2>1, AppendProperties
<1>8. PICK old : Cuts(old)
  BY DEF CutInv
<1> PICK cut : cut = [i \in 1 .. n + 1 |-> IF i = n + 1 THEN at ELSE old[i]]
  OBVIOUS
<1>9. cut[n + 1] = at /\ \A i \in 1 .. n : cut[i] = old[i] /\ i # n + 1
  BY <1>7
<1>10. Limit = at /\ Limit' = at + 4 + dataSize
  BY <1>1, <1>4, <1>5 DEF Limit, Cursor, PacketHeaderSize
<1>11. ASSUME NEW i \in 1 .. n
       PROVE  /\ cut[i] \in Nat /\ ReadAt(delivered[i], cut[i])'
              /\ Ends(cut, i)' = Ends(old, i) /\ Ends(old, i) <= at /\ Ends(old, i) \in Int
  <2>1. old[i] \in Nat /\ ReadAt(delivered[i], old[i]) /\ Ends(old, i) <= at
    BY <1>8, <1>10 DEF Cuts
  <2>2. Len(delivered[i].data) \in Nat
    BY PacketTypes
  <2>3. ReadAt(delivered[i], cut[i])'
    BY <1>1, <1>7, <1>9, <2>1 DEF ReadAt
  <2> QED
    BY <1>7, <1>9, <2>1, <2>2, <2>3 DEF Ends, PacketHeaderSize
<1>12. Ends(cut, n + 1)' = at + 4 + dataSize
  BY <1>2, <1>3, <1>7, <1>9 DEF Ends, PacketHeaderSize
<1>13. ASSUME NEW i \in 1 .. n + 1
       PROVE  /\ cut[i] \in Nat /\ ReadAt(delivered[i], cut[i])' /\ Ends(cut, i)' <= Limit'
              /\ i <= n => Ends(cut, i)' <= cut[i + 1]
  <2>1. CASE i = n + 1
    <3>1. cut[n + 1] \in Nat /\ Ends(cut, n + 1)' = Limit' /\ ~ (n + 1 <= n)
      BY <1>5, <1>7, <1>9, <1>10, <1>12
    <3>2. Limit' \in Int
      BY <1>4, <1>5, <1>10
    <3>3. ReadAt(delivered[n + 1], cut[n + 1])'
      BY <1>6, <1>7, <1>9
    <3> QED
      BY <2>1, <3>1, <3>2, <3>3
  <2>2. CASE i \in 1 .. n
    <3>1. Ends(cut, i)' <= Limit'
      <4>1. PICK e \in Int : e = Ends(old, i)
        BY <1>11, <2>2
      <4>2. Ends(cut, i)' = e /\ e <= at
        BY <1>11, <2>2, <4>1
      <4>3. e <= at + 4 + dataSize
        BY <1>4, <1>5, <4>2
      <4> QED
        BY <1>10, <4>2, <4>3
    <3>2. Ends(cut, i)' <= cut[i + 1]
      <4>1. CASE i = n
        BY <1>9, <1>11, <2>2, <4>1
      <4>2. CASE i # n
        <5>1. i \in 1 .. n - 1 /\ i + 1 \in 1 .. n
          BY <1>7, <2>2, <4>2
        <5> QED
          BY <1>8, <1>9, <1>11, <2>2, <5>1 DEF Cuts
      <4> QED
        BY <4>1, <4>2
    <3> QED
      BY <1>11, <2>2, <3>1, <3>2
  <2> QED
    BY <1>7, <2>1, <2>2
<1>14. Cuts(cut)'
  <2>1. \A i \in 1 .. n + 1 - 1 : i \in 1 .. n + 1 /\ i <= n
    BY <1>7
  <2>2. \A i \in 1 .. n + 1 - 1 : Ends(cut, i)' <= cut[i + 1]
    BY <1>13, <2>1
  <2>3. Len(delivered') = n + 1
    BY <1>7
  <2>4. \A i \in 1 .. Len(delivered') : cut[i] \in Nat /\ ReadAt(delivered[i], cut[i])'
    BY <1>13, <2>3
  <2>5. \A i \in 1 .. Len(delivered') : Ends(cut, i)' <= Limit'
    BY <1>13, <2>3
  <2>6. \A i \in 1 .. Len(delivered') - 1 : Ends(cut, i)' <= cut[i + 1]
    BY <2>2, <2>3
  <2> QED
    BY <2>4, <2>5, <2>6 DEF Cuts
<1> QED
  BY <1>1, <1>14 DEF CutInv, HeaderHeld

LEMMA StepCut == IInv /\ IInv' /\ CutInv /\ [Next]_vars => CutInv'
<1> SUFFICES ASSUME IInv, IInv', CutInv, [Next]_vars PROVE CutInv'
  OBVIOUS
<1>t. TypeOK /\ TypeOK' /\ BufferIsTail
  BY DEF IInv
<1>1. ASSUME NEW size, NEW pid, NEW data, UNCHANGED <<received, factoryVars, delivered>>,
             \A j \in 1 .. received : stream'[j] = stream[j]
      PROVE  CutInv'
  <2>1. HeaderHeld' /\ Limit' = Limit
    BY <1>1 DEF CutInv, HeaderHeld, Limit, Cursor, factoryVars
  <2>2. Limit \in Int /\ received \in Nat
    BY <1>t, LimitFacts DEF CutInv, TypeOK
  <2> QED
    BY <1>1, <1>t, <2>1, <2>2, CutsKept
<1>2. ASSUME NEW size \in 0 .. UShort - 1, NEW pid \in Ids, NEW data \in Seq(Bytes),
             PeerWrites(size, pid, data)
      PROVE  CutInv'
  <2>1. \A j \in 1 .. Len(stream) : stream'[j] = stream[j]
    BY <1>2, <1>t, PeerWritesFacts
  <2>2. \A j \in 1 .. received : stream'[j] = stream[j]
    BY <1>t, <2>1 DEF TypeOK
  <2>3. UNCHANGED <<received, factoryVars, delivered>>
    BY <1>2 DEF PeerWrites
  <2> QED
    BY <1>1, <2>2, <2>3
<1>3. ASSUME NEW p \in Packets, PeerSend(p) PROVE CutInv'
  <2>1. p.id \in Ids /\ p.data \in Payloads
    BY DEF Packets
  <2>2. p.data \in Seq(Bytes) /\ LengthField(p.data) \in 0 .. UShort - 1
    BY <2>1, UShortFacts
  <2> QED
    BY <1>2, <1>3, <2>1, <2>2 DEF PeerSend
<1>4. ASSUME NEW size \in MalformedSizes, NEW pid \in Ids, PeerSendMalformed(size, pid)
      PROVE  CutInv'
  <2>1. size \in 0 .. UShort - 1 /\ << >> \in Seq(Bytes)
    BY UShortFacts
  <2>2. PeerWrites(size, pid, << >>)
    BY <1>4 DEF PeerSendMalformed
  <2> QED
    BY <1>2, <2>1, <2>2
<1>5. ASSUME NEW n \in 1 .. Len(stream) - received, ReadBegin(n) PROVE CutInv'
  <2>1. /\ received' = received + n /\ Len(buffer') = Len(buffer) + n
        /\ \A k \in 1 .. Len(buffer) : buffer'[k] = buffer[k]
    BY <1>5, <1>t, ReadBeginFacts
  <2>2. UNCHANGED <<stream, position, readHeader, dataSize, id, delivered>>
    BY <1>5 DEF ReadBegin, peerVars
  <2>3. received \in Nat /\ n \in Nat /\ Len(buffer) \in Nat /\ position \in 0 .. Len(buffer)
    BY <1>t DEF TypeOK
  <2>4. Limit' = Limit /\ Limit \in Int
    BY <1>t, <2>1, <2>2, <2>3, LimitFacts DEF Limit, Cursor, PacketHeaderSize, CutInv
  <2>5. HeaderHeld'
    <3>1. SUFFICES ASSUME readHeader
                   PROVE  /\ position >= PacketHeaderSize
                          /\ GetUInt16(buffer', position - 3) = PacketHeaderSize + dataSize
                          /\ GetUInt16(buffer', position - 1) = id
      BY <2>2 DEF HeaderHeld
    <3>2. /\ position >= 4 /\ GetUInt16(buffer, position - 3) = PacketHeaderSize + dataSize
          /\ GetUInt16(buffer, position - 1) = id
      BY <3>1 DEF CutInv, HeaderHeld, PacketHeaderSize
    <3>3. /\ position - 3 \in 1 .. Len(buffer) /\ position - 3 + 1 \in 1 .. Len(buffer)
          /\ position - 1 \in 1 .. Len(buffer) /\ position - 1 + 1 \in 1 .. Len(buffer)
      BY <2>3, <3>2
    <3>4. /\ GetUInt16(buffer', position - 3) = GetUInt16(buffer, position - 3)
          /\ GetUInt16(buffer', position - 1) = GetUInt16(buffer, position - 1)
      BY <2>1, <3>3 DEF GetUInt16
    <3> QED
      BY <3>2, <3>4 DEF PacketHeaderSize
  <2>6. received' >= received /\ Limit' >= Limit
    BY <2>1, <2>3, <2>4
  <2> QED
    BY <1>t, <2>2, <2>5, <2>6, CutsKept
<1>6. CASE ReadHeader
  <2>1. /\ ~readHeader /\ readHeader' = TRUE /\ position' = position + PacketHeaderSize
        /\ dataSize' = AnnouncedSize - PacketHeaderSize
        /\ id' = GetUInt16(buffer, position + 3)
        /\ UNCHANGED <<stream, received, buffer, delivered>>
    BY <1>6 DEF ReadHeader, HeaderReady, peerVars
  <2>2. received \in Nat /\ Len(buffer) \in Nat /\ position \in Nat /\ AnnouncedSize \in Nat
    BY <1>6, <1>t, HeaderFields, UShortFacts DEF TypeOK, ReadHeader
  <2>3. Limit' = Limit /\ Limit \in Int
    BY <2>1, <2>2 DEF Limit, Cursor, PacketHeaderSize
  <2>4. HeaderHeld'
    <3>1. position + 4 - 3 = position + 1 /\ position + 4 - 1 = position + 3
      BY <2>2
    <3> QED
      BY <2>1, <2>2, <3>1 DEF HeaderHeld, AnnouncedSize, PacketHeaderSize
  <2> QED
    BY <1>t, <2>1, <2>2, <2>3, <2>4, CutsKept
<1>7. ASSUME Reset, UNCHANGED <<stream, received, delivered>> PROVE CutInv'
  <2>1. /\ buffer' = <<>> /\ position' = 0 /\ readHeader' = FALSE
    BY <1>7 DEF Reset
  <2>2. received \in Nat /\ Len(buffer') = 0
    BY <1>t, <2>1 DEF TypeOK
  <2>3. Limit' = received
    BY <1>7, <2>1, <2>2 DEF Limit, Cursor
  <2>4. Limit' >= Limit /\ HeaderHeld'
    BY <1>t, <2>1, <2>2, <2>3, LimitFacts DEF CutInv, HeaderHeld
  <2> QED
    BY <1>7, <1>t, <2>2, <2>4, CutsKept
<1>8. CASE ReadMalformed
  BY <1>7, <1>8 DEF ReadMalformed, peerVars
<1>9. CASE ReadBody
  BY <1>9, <1>t, CutBody
<1>10. CASE ReadEnd
  <2>1. UNCHANGED <<stream, received, delivered>>
    BY <1>10 DEF ReadEnd, peerVars
  <2>2. CASE position = Len(buffer)
    BY <1>7, <1>10, <2>1, <2>2 DEF ReadEnd
  <2>3. CASE position # Len(buffer)
    BY <1>1, <1>10, <2>1, <2>3 DEF ReadEnd
  <2> QED
    BY <2>2, <2>3
<1>11. CASE UNCHANGED vars
  BY <1>1, <1>11 DEF vars, factoryVars
<1> QED
  BY <1>3, <1>4, <1>5, <1>6, <1>8, <1>9, <1>10, <1>11 DEF Next, Receive, ReadStep

\* Every packet Read returns was cut out of the stream behind the one before it, whatever
\* was lost in between (PacketFactory.Read and Reset).
THEOREM PacketsAreCut == Spec => []CutFromStream
<1>1. Init => CutInv
  <2> SUFFICES ASSUME Init PROVE CutInv
    OBVIOUS
  <2>1. Len(delivered) = 0 /\ ~readHeader
    BY DEF Init
  <2>2. Cuts(<<>>)
    BY <2>1 DEF Cuts
  <2> QED
    BY <2>1, <2>2 DEF CutInv, HeaderHeld
<1>2. ASSUME IInv, CutInv PROVE CutFromStream
  <2>1. PICK cut : Cuts(cut)
    BY <1>2 DEF CutInv
  <2> DEFINE all == [i \in 1 .. Len(delivered) |-> cut[i]]
  <2>2. ASSUME NEW i \in 1 .. Len(delivered) PROVE cut[i] \in Offsets
    <3>1. cut[i] \in Nat /\ ReadAt(delivered[i], cut[i])
      BY <2>1 DEF Cuts
    <3>2. Len(delivered[i].data) \in Nat /\ received \in Nat
      BY <1>2 DEF IInv, TypeOK
    <3>3. cut[i] \in 0 .. received
      BY <3>1, <3>2 DEF ReadAt, PacketHeaderSize
    <3> QED
      BY <3>1, <3>3 DEF Offsets
  <2>3. all \in [1 .. Len(delivered) -> Offsets]
    BY <2>2
  <2>4. /\ \A i \in 1 .. Len(delivered) : ReadAt(delivered[i], all[i])
        /\ \A i \in 1 .. Len(delivered) - 1 :
             all[i] + PacketHeaderSize + Len(delivered[i].data) <= all[i + 1]
    <3>1. Len(delivered) \in Nat
      BY <1>2 DEF IInv, TypeOK
    <3>2. \A i \in 1 .. Len(delivered) - 1 : i \in 1 .. Len(delivered) /\ i + 1 \in 1 .. Len(delivered)
      BY <3>1
    <3> QED
      BY <2>1, <3>2 DEF Cuts, Ends
  <2> QED
    BY <2>3, <2>4 DEF CutFromStream
<1> QED
  BY <1>1, <1>2, StepCut, Inductive, PTL DEF Spec

(***************************************************************************)
(* Where the lengths are right and no segment ends behind a lone header,   *)
(* nothing is ever thrown away and the factory implements the stream.      *)
(***************************************************************************)

Clean == dropped = "none" /\ ~HeaderAlone(received)

\* Reset finds no header it would lose, and no length below the header size.
LEMMA StepClean ==
    ASSUME MalformedSizes = {}, SplitAfterHeader = FALSE
    PROVE  IInv /\ IInv' /\ Clean /\ (\A i \in 1 .. Len(log) : log[i].size >= PacketHeaderSize)
             /\ [Next]_vars
           => Clean' /\ (\A i \in 1 .. Len(log) : log[i].size >= PacketHeaderSize)'
<1> DEFINE Sized == \A i \in 1 .. Len(log) : log[i].size >= PacketHeaderSize
<1> SUFFICES ASSUME IInv, IInv', Clean, Sized, [Next]_vars PROVE Clean' /\ Sized'
  OBVIOUS
<1>0. PICK n \in Nat : n = Len(log)
  BY DEF IInv, TypeOK
<1>t. TypeOK /\ Len(stream) \in Nat /\ received \in Nat /\ received <= Len(stream)
  BY DEF IInv, TypeOK
<1>1. ASSUME NEW p \in Packets, PeerSend(p) PROVE Clean' /\ Sized'
  <2> DEFINE size == LengthField(p.data)
             data == p.data
             pid == p.id
             new == [at |-> Len(stream), size |-> size, id |-> pid, data |-> data]
  <2>1. pid \in Ids /\ data \in Payloads
    BY DEF Packets
  <2>2. /\ data \in Seq(Bytes) /\ size \in 0 .. UShort - 1
        /\ size = PacketHeaderSize + Len(data)
    BY <2>1, UShortFacts
  <2>3. PeerWrites(size, pid, data)
    BY <1>1 DEF PeerSend
  <2>3a. new.at = Len(stream) /\ new.size = size
    OBVIOUS
  <2> HIDE DEF size, data, pid
  <2>4. /\ Len(log') = Len(log) + 1 /\ log'[Len(log) + 1] = new
        /\ \A i \in 1 .. Len(log) : log'[i] = log[i]
    BY <1>t, <2>1, <2>2, <2>3, PeerWritesFacts
  <2> HIDE DEF new
  <2>5. received' = received /\ dropped' = dropped
    BY <2>3 DEF PeerWrites
  <2>6. size >= PacketHeaderSize
    BY <2>2 DEF PacketHeaderSize
  <2>7. ASSUME NEW i \in 1 .. Len(log')
        PROVE  /\ log'[i].size >= PacketHeaderSize
               /\ ~(log'[i].data # <<>> /\ received' = log'[i].at + PacketHeaderSize)
    <3>1. CASE i = Len(log) + 1
      <4>1. received # Len(stream) + PacketHeaderSize
        BY <1>t DEF PacketHeaderSize
      <4> QED
        BY <2>3a, <2>4, <2>5, <2>6, <3>1, <4>1
    <3>2. CASE i \in 1 .. Len(log)
      BY <2>4, <2>5, <3>2 DEF Clean, HeaderAlone
    <3> QED
      BY <1>0, <2>4, <3>1, <3>2
  <2> QED
    BY <2>5, <2>7 DEF Clean, HeaderAlone
<1>2. ASSUME NEW m \in 1 .. Len(stream) - received, ReadBegin(m) PROVE Clean' /\ Sized'
  <2>1. /\ ~HeaderAlone(received + m) /\ received' = received + m
        /\ log' = log /\ dropped' = dropped
    BY <1>2 DEF ReadBegin, peerVars
  <2> QED
    BY <2>1 DEF Clean, HeaderAlone
<1>3. ASSUME UNCHANGED <<log, received, dropped>> PROVE Clean' /\ Sized'
  BY <1>3 DEF Clean, HeaderAlone
<1>4. CASE ReadHeader \/ ReadBody
  BY <1>3, <1>4 DEF ReadHeader, ReadBody, peerVars
<1>5. ~ReadMalformed
  <2>1. SUFFICES ASSUME ReadMalformed PROVE FALSE
    OBVIOUS
  <2>2. HeaderReady /\ AnnouncedSize < PacketHeaderSize /\ dropped = "none"
    BY <2>1 DEF ReadMalformed, Clean
  <2>3. PICK k \in 1 .. Len(log) : AnnouncedSize = log[k].size
    BY <2>2, HeaderFound
  <2>4. log[k].size \in Nat /\ log[k].size >= PacketHeaderSize
    BY <1>t, LogEntries, UShortFacts
  <2> QED
    BY <2>2, <2>3, <2>4 DEF PacketHeaderSize
<1>6. CASE ReadEnd
  <2>1. UNCHANGED <<log, received>> /\ reading /\ ~BodyReady
    BY <1>6 DEF ReadEnd, peerVars
  <2>2. ASSUME readHeader, position = Len(buffer) PROVE FALSE
    <3> DEFINE k == Len(delivered) + 1
               f == log[k]
    <3>1. /\ k \in 1 .. Len(log) /\ Cursor = f.at + PacketHeaderSize /\ dataSize = Len(f.data)
      <4>0. Len(delivered) \in Nat /\ Len(log) \in Nat
        BY <1>t DEF TypeOK
      <4>1. Len(delivered) < Len(log)
        BY <2>2 DEF IInv, Aligned, Clean
      <4>2. Cursor = f.at + PacketHeaderSize /\ dataSize = Len(f.data)
        BY <2>2 DEF IInv, Aligned, Clean
      <4> QED
        BY <4>0, <4>1, <4>2
    <3>2. Cursor = received
      BY <1>t, <2>2 DEF Cursor, TypeOK
    <3>3. dataSize > 0
      BY <1>t, <2>1, <2>2, UShortFacts DEF BodyReady, TypeOK
    <3>4. f.data # << >>
      BY <3>1, <3>3
    <3> QED
      BY <3>1, <3>2, <3>4 DEF Clean, HeaderAlone
  <2>3. dropped' = dropped
    BY <1>6, <2>2 DEF ReadEnd
  <2> QED
    BY <1>3, <2>1, <2>3
<1>7. CASE UNCHANGED vars
  BY <1>3, <1>7 DEF vars
<1> QED
  BY <1>1, <1>2, <1>4, <1>5, <1>6, <1>7 DEF Next, Receive, ReadStep

LEMMA AlwaysClean ==
    ASSUME MalformedSizes = {}, SplitAfterHeader = FALSE
    PROVE  Spec => []Clean
<1> DEFINE Sized == \A i \in 1 .. Len(log) : log[i].size >= PacketHeaderSize
<1>1. Init => Clean /\ Sized
  <2> SUFFICES ASSUME Init PROVE Clean /\ Sized
    OBVIOUS
  <2>1. Len(log) = 0 /\ dropped = "none"
    BY DEF Init
  <2> QED
    BY <2>1 DEF Clean, HeaderAlone
<1>2. IInv /\ IInv' /\ Clean /\ Sized /\ [Next]_vars => Clean' /\ Sized'
  BY StepClean
<1> QED
  BY <1>1, <1>2, Inductive, PTL DEF Spec

\* A peer with right lengths whose segments never end behind a lone header has every
\* packet delivered unchanged and in order, with no exception (PacketFactory.Read).
THEOREM PacketsAlwaysInOrder ==
    ASSUME MalformedSizes = {}, SplitAfterHeader = FALSE
    PROVE  Spec => []InOrderAlways
<1>1. IInv /\ Clean => InOrderAlways
  BY DEF IInv, InOrder, Clean, InOrderAlways
<1> QED
  BY <1>1, Inductive, AlwaysClean, PTL

\* The packets of a log of frames; Sent is those of log.
LEMMA SentFacts ==
    ASSUME NEW l \in Seq([at : Nat, size : 0 .. UShort - 1, id : Ids, data : Seq(Bytes)]),
           NEW s, s = [i \in 1 .. Len(l) |-> [id |-> l[i].id, data |-> l[i].data]]
    PROVE  /\ Len(s) = Len(l) /\ s \in Seq([id : Ids, data : Seq(Bytes)])
           /\ \A i \in 1 .. Len(l) : s[i] = [id |-> l[i].id, data |-> l[i].data]
<1> DEFINE Q == [id : Ids, data : Seq(Bytes)]
           R == [at : Nat, size : 0 .. UShort - 1, id : Ids, data : Seq(Bytes)]
<1>0. l \in Seq(R)
  OBVIOUS
<1> HIDE DEF R
<1>1. ASSUME NEW i \in 1 .. Len(l) PROVE [id |-> l[i].id, data |-> l[i].data] \in Q
  <2>1. l[i] \in R
    BY <1>0
  <2> QED
    BY <2>1 DEF R
<1>2. Len(l) \in Nat
  OBVIOUS
<1> HIDE DEF Q
<1> QED
  BY <1>1, <1>2 DEF Q

\* A step of the factory is a step of the stream, or leaves it as it is.
LEMMA StepRefines ==
    ASSUME MalformedSizes = {}, SplitAfterHeader = FALSE
    PROVE  IInv /\ IInv' /\ Clean /\ [Next]_vars => [Abstract!Next]_(Abstract!vars)
<1> SUFFICES ASSUME IInv, IInv', Clean, [Next]_vars
             PROVE  Abstract!Next \/ (Sent' = Sent /\ delivered' = delivered)
  BY DEF Abstract!vars
<1> DEFINE Q == [id : Ids, data : Seq(Bytes)]
<1>t. TypeOK /\ TypeOK' /\ dropped = "none"
  BY DEF IInv, Clean
<1>1. ASSUME NEW p \in Packets, PeerSend(p) PROVE Abstract!Send(p)
  <2> DEFINE size == LengthField(p.data)
             data == p.data
             pid == p.id
             new == [at |-> Len(stream), size |-> size, id |-> pid, data |-> data]
  <2>1. pid \in Ids /\ data \in Payloads /\ p = [id |-> pid, data |-> data]
    BY DEF Packets
  <2>2. data \in Seq(Bytes) /\ size \in 0 .. UShort - 1
    BY <2>1, UShortFacts
  <2>3. PeerWrites(size, pid, data)
    BY <1>1 DEF PeerSend
  <2>4. new.id = pid /\ new.data = data
    OBVIOUS
  <2> HIDE DEF size, data, pid
  <2>5. /\ Len(log') = Len(log) + 1 /\ log'[Len(log) + 1] = new
        /\ \A i \in 1 .. Len(log) : log'[i] = log[i]
    BY <1>t, <2>1, <2>2, <2>3, PeerWritesFacts
  <2> HIDE DEF new
  <2>6. /\ Len(Sent) = Len(log) /\ Sent \in Seq(Q)
        /\ \A i \in 1 .. Len(log) : Sent[i] = [id |-> log[i].id, data |-> log[i].data]
    BY <1>t, SentFacts DEF TypeOK, Sent
  <2>7. /\ Len(Sent') = Len(log') /\ Sent' \in Seq(Q)
        /\ \A i \in 1 .. Len(log') : Sent'[i] = [id |-> log'[i].id, data |-> log'[i].data]
    BY <1>t, SentFacts DEF TypeOK, Sent
  <2>8. p \in Q
    BY <2>1, <2>2
  <2> DEFINE t == Append(Sent, p)
  <2>9. /\ t \in Seq(Q) /\ Len(t) = Len(Sent) + 1
        /\ \A i \in 1 .. Len(Sent) : t[i] = Sent[i]
        /\ t[Len(Sent) + 1] = p
    BY <2>6, <2>8, AppendProperties
  <2> HIDE DEF t, Q
  <2>10. Len(log) \in Nat
    BY <1>t DEF TypeOK
  <2>11. ASSUME NEW i \in 1 .. Len(log') PROVE Sent'[i] = t[i]
    <3>1. CASE i = Len(log) + 1
      BY <2>1, <2>4, <2>5, <2>6, <2>7, <2>9, <3>1
    <3>2. CASE i \in 1 .. Len(log)
      BY <2>5, <2>6, <2>7, <2>9, <3>2
    <3> QED
      BY <2>5, <2>10, <3>1, <3>2
  <2>12. Len(Sent') = Len(t)
    BY <2>5, <2>6, <2>7, <2>9
  <2>13. Sent' = t
    BY <2>7, <2>9, <2>11, <2>12, SeqEqual
  <2>14. delivered' = delivered
    BY <2>3 DEF PeerWrites
  <2> QED
    BY <2>13, <2>14 DEF t, Abstract!Send
<1>2. CASE ReadBody
  <2>1. /\ BodyReady /\ log' = log
        /\ delivered' = Append(delivered, [id |-> id,
                           data |-> SubSeq(buffer, position + 1, position + dataSize)])
    BY <1>2 DEF ReadBody, peerVars
  <2> DEFINE k == Len(delivered) + 1
  <2>2. /\ k \in 1 .. Len(log)
        /\ delivered' = Append(delivered, [id |-> log[k].id, data |-> log[k].data])
    BY <1>t, <2>1, BodyFound
  <2>3. Len(Sent) = Len(log) /\ Sent[k] = [id |-> log[k].id, data |-> log[k].data]
    BY <1>t, <2>2, SentFacts DEF TypeOK, Sent
  <2>4. Sent' = Sent
    BY <2>1 DEF Sent
  <2>5. Len(delivered) < Len(Sent)
    BY <1>t, <2>2, <2>3 DEF TypeOK
  <2>6. delivered' = Append(delivered, Sent[Len(delivered) + 1])
    BY <2>2, <2>3
  <2> QED
    BY <2>4, <2>5, <2>6 DEF Abstract!Next, Abstract!Deliver
<1>3. ASSUME UNCHANGED <<log, delivered>> PROVE Sent' = Sent /\ delivered' = delivered
  BY <1>3 DEF Sent
<1>4. CASE Receive
  BY <1>3, <1>4 DEF Receive, ReadBegin, peerVars
<1>5. CASE ReadHeader \/ ReadMalformed \/ ReadEnd
  BY <1>3, <1>5 DEF ReadHeader, ReadMalformed, ReadEnd, peerVars
<1>6. CASE UNCHANGED vars
  BY <1>3, <1>6 DEF vars
<1> QED
  BY <1>1, <1>2, <1>4, <1>5, <1>6 DEF Next, ReadStep, Abstract!Next

\* The framing implements a stream of packets: safety part of the refinement the model
\* checker confirms together with its fairness (PacketFactory.Read, PacketFactory.Write).
THEOREM Refinement ==
    ASSUME MalformedSizes = {}, SplitAfterHeader = FALSE
    PROVE  Spec => Abstract!Spec
<1>1. Init => Abstract!Init
  <2> SUFFICES ASSUME Init PROVE Sent = << >> /\ delivered = << >>
    BY DEF Abstract!Init
  <2>1. Len(Sent) = 0 /\ Sent \in Seq([id : Ids, data : Seq(Bytes)])
    BY InitType, SentFacts DEF Init, TypeOK, Sent
  <2> QED
    BY <2>1, EmptySeq DEF Init
<1>2. IInv /\ IInv' /\ Clean /\ [Next]_vars => [Abstract!Next]_(Abstract!vars)
  BY StepRefines
<1> QED
  BY <1>1, <1>2, Inductive, AlwaysClean, PTL DEF Spec, Abstract!Spec
=============================================================================
