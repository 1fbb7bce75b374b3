--------------------------- MODULE SendPathProofs ---------------------------
(***************************************************************************)
(* Proofs about the sending side.  SendPath: what the socket has taken is, *)
(* at any moment, the packets queued and part of the next one.  VarintCodec:*)
(* for every width and segment, what is written is read back, and only     *)
(* what is too long is rejected.                                           *)
(***************************************************************************)
EXTENDS SendPath, VarintCodec, WireProofs

-----------------------------------------------------------------------------
(* The inductive invariant.                                                *)

SendTypeOK ==
    /\ m_write_buffer \in Seq(VarintByte)
    /\ offset \in Nat
    /\ flushing \in BOOLEAN
    /\ written \in Seq(VarintByte)
    /\ queued \in Seq(PacketType)

\* While queue_send is in write_flush, also for good after the socket failed: the
\* buffer holds one packet, and the socket has taken the packets before and the
\* first bytes of this one.
Flushing(before, packets) ==
    /\ before \in Seq(VarintByte) /\ packets \in Seq(PacketType)
    /\ Carries(before, packets)
    /\ offset <= Len(m_write_buffer)
    /\ written = before \o SubSeq(m_write_buffer, 1, offset)
    /\ Len(m_write_buffer) # 0
    /\ Frame(m_write_buffer).size = Len(m_write_buffer)
    /\ queued = Append(packets, Frame(m_write_buffer).packet)

SendInv ==
    /\ SendTypeOK
    /\ flushing => \E before, packets : Flushing(before, packets)
    /\ ~flushing => m_write_buffer = <<>> /\ Carries(written, queued)

-----------------------------------------------------------------------------
LEMMA PayloadType == \A payload \in Payload : payload \in Seq(VarintByte)
<1>1. MaxPayload \in Nat
  BY SendAssumption
<1> QED BY <1>1 DEF Payload

LEMMA InitSendInv == Init => SendInv
<1> SUFFICES ASSUME Init PROVE SendInv
  OBVIOUS
<1>1. SendTypeOK
  <2>1. <<>> \in Seq(VarintByte) /\ <<>> \in Seq(PacketType) /\ 0 \in Nat
    OBVIOUS
  <2> QED BY <2>1 DEF Init, SendTypeOK
<1>2. Carries(<<>>, <<>>)
  BY CarriesNone
<1> QED BY <1>1, <1>2 DEF Init, SendInv

LEMMA QueueInv ==
    ASSUME SendInv, NEW id \in Id, NEW payload \in Payload, queue_send(id, payload)
    PROVE  SendInv'
<1> DEFINE s == Wire(id, payload)
<1>1. id \in Unsigned /\ payload \in Seq(VarintByte) /\ MaxLength \in Nat /\ MaxLength < SignBit
  BY SendAssumption, PayloadType
<1>2. s = Framed(id, payload) /\ Len(Encoded(id) \o payload) <= MaxLength
  BY DEF queue_send, Framed, body, Wire
<1>3. /\ s \in Seq(VarintByte) /\ Len(s) # 0 /\ Frame(s).size = Len(s)
      /\ Frame(s).packet = [id |-> ToSigned(id), payload |-> payload]
  BY <1>1, <1>2, FrameOfWire
<1>4. ~flushing /\ m_write_buffer = <<>> /\ Carries(written, queued)
      /\ written \in Seq(VarintByte) /\ queued \in Seq(PacketType)
  BY DEF SendInv, SendTypeOK, queue_send
<1> HIDE DEF s
<1>5. /\ m_write_buffer' = s /\ offset' = 0 /\ flushing' = TRUE /\ written' = written
      /\ queued' = Append(queued, Frame(s).packet)
  <2>1. <<>> \o s = s
    BY <1>3
  <2> QED BY <1>2, <1>3, <1>4, <2>1 DEF queue_send
<1>6. queued' \in Seq(PacketType)
  BY <1>3, <1>4, <1>5, FrameType
<1>7. \E before, packets : Flushing(before, packets)'
  <2>1. PICK before, packets : before = written /\ packets = queued
    OBVIOUS
  <2>2. SubSeq(s, 1, 0) = <<>> /\ before \o <<>> = before /\ 0 <= Len(s)
    BY <1>3, <1>4, <2>1
  <2>3. Flushing(before, packets)'
    BY <1>3, <1>4, <1>5, <2>1, <2>2 DEF Flushing
  <2> QED BY <2>3
<1> QED BY <1>3, <1>4, <1>5, <1>6, <1>7 DEF SendInv, SendTypeOK

LEMMA WriteInv ==
    ASSUME SendInv, NEW n \in 1..Len(m_write_buffer), write_some(n)
    PROVE  SendInv'
<1>1. /\ flushing /\ offset + n <= Len(m_write_buffer) /\ offset \in Nat /\ n \in Nat
      /\ m_write_buffer \in Seq(VarintByte) /\ written \in Seq(VarintByte)
      /\ Len(m_write_buffer) \in Nat
  BY DEF SendInv, SendTypeOK, write_some
<1>2. PICK before, packets : Flushing(before, packets)
  BY <1>1 DEF SendInv
<1> DEFINE done == SubSeq(m_write_buffer, 1, offset)
           some == SubSeq(m_write_buffer, offset + 1, offset + n)
<1>3. done \in Seq(VarintByte) /\ some \in Seq(VarintByte)
      /\ done \o some = SubSeq(m_write_buffer, 1, offset + n)
  <2>1. offset + 1 \in Int /\ offset + n \in offset..Len(m_write_buffer) /\ offset \in 1-1..Len(m_write_buffer)
        /\ 1 \in 1..Len(m_write_buffer)+1
    BY <1>1
  <2>2. \A i \in 1..Len(m_write_buffer) : m_write_buffer[i] \in VarintByte
    BY <1>1, ElementOfSeq
  <2>3. done \in Seq(VarintByte)
    BY <1>1, <2>2
  <2>4. some \in Seq(VarintByte)
    BY <1>1, <2>2
  <2>5. done \o some = SubSeq(m_write_buffer, 1, offset + n)
    BY <1>1, <2>1, ConcatAdjacentSubSeq
  <2> QED BY <2>3, <2>4, <2>5
<1>4. written' = before \o SubSeq(m_write_buffer, 1, offset + n) /\ written' \in Seq(VarintByte)
  <2>1. written = before \o done /\ written' = written \o some /\ before \in Seq(VarintByte)
    BY <1>2 DEF Flushing, write_some
  <2> HIDE DEF done, some
  <2>2. (before \o done) \o some = before \o (done \o some)
    <3>1. before \in Seq(VarintByte) /\ done \in Seq(VarintByte) /\ some \in Seq(VarintByte)
      BY <1>3, <2>1
    <3>2. Associate(before, done, some)
      BY <3>1, ConcatAssociates, Zenon
    <3> QED BY <3>2, Zenon DEF Associate
  <2> QED BY <1>1, <1>3, <2>1, <2>2
<1>5. Flushing(before, packets)'
  BY <1>1, <1>2, <1>4 DEF Flushing, write_some
<1>6. SendTypeOK'
  BY <1>1, <1>4 DEF SendInv, SendTypeOK, write_some
<1>7. flushing'
  BY <1>1 DEF write_some
<1> QED BY <1>5, <1>6, <1>7 DEF SendInv

\* The socket has taken the whole of the packet that is being flushed.
LEMMA WholeWritten ==
    ASSUME SendInv, flushing, offset = Len(m_write_buffer)
    PROVE  Carries(written, queued)
<1>1. PICK before, packets : Flushing(before, packets)
  BY DEF SendInv
<1>2. written = before \o m_write_buffer /\ m_write_buffer \in Seq(VarintByte)
  <2>1. m_write_buffer \in Seq(VarintByte)
    BY DEF SendInv, SendTypeOK
  <2>2. SubSeq(m_write_buffer, 1, Len(m_write_buffer)) = m_write_buffer
    BY <2>1, SubSeqFull
  <2> QED BY <1>1, <2>1, <2>2 DEF Flushing
<1> QED BY <1>1, <1>2, CarriesNext DEF Flushing

LEMMA FlushedInv == SendInv /\ flushed => SendInv'
<1> SUFFICES ASSUME SendInv, flushed PROVE SendInv'
  OBVIOUS
<1>1. Carries(written, queued)
  BY WholeWritten DEF flushed
<1>2. <<>> \in Seq(VarintByte)
  OBVIOUS
<1> QED BY <1>1, <1>2 DEF SendInv, SendTypeOK, flushed

\* A step that leaves what the invariant is about as it is.
LEMMA SameInv ==
    SendInv /\ UNCHANGED <<m_write_buffer, offset, flushing, written, queued>> => SendInv'
<1> SUFFICES ASSUME SendInv, m_write_buffer' = m_write_buffer, offset' = offset, flushing' = flushing,
                    written' = written, queued' = queued
             PROVE  SendInv'
  OBVIOUS
<1>1. SendTypeOK'
  BY DEF SendInv, SendTypeOK
<1> QED BY <1>1 DEF SendInv, Flushing

LEMMA NextSendInv == SendInv /\ [Next]_vars => SendInv'
<1> SUFFICES ASSUME SendInv, [Next]_vars PROVE SendInv'
  OBVIOUS
<1>1. CASE \E id \in Id, payload \in Payload : queue_send(id, payload)
  BY <1>1, QueueInv
<1>2. CASE \E id \in Id, payload \in Payload : queue_send_too_long(id, payload)
  BY <1>2, SameInv DEF queue_send_too_long
<1>3. CASE \E n \in 1..Len(m_write_buffer) : write_some(n)
  BY <1>3, WriteInv
<1>4. CASE write_fails
  BY <1>4, SameInv DEF write_fails
<1>5. CASE flushed
  BY <1>5, FlushedInv
<1>6. CASE UNCHANGED vars
  BY <1>6, SameInv DEF vars
<1> QED BY <1>1, <1>2, <1>3, <1>4, <1>5, <1>6 DEF Next

\* The invariant holds whatever is sent and wherever the socket stops or fails.
THEOREM SendInvariant == Spec => []SendInv
<1>1. Init => SendInv
  BY InitSendInv
<1>2. SendInv /\ [Next]_vars => SendInv'
  BY NextSendInv
<1> QED BY <1>1, <1>2, PTL DEF Spec

-----------------------------------------------------------------------------
(* What a receiver on the other side makes of it.                          *)

LEMMA SendInvPrefix == SendInv => PrefixOfQueued
<1> SUFFICES ASSUME SendInv PROVE PrefixOfQueued
  OBVIOUS
<1>1. written \in Seq(VarintByte) /\ queued \in Seq(PacketType) /\ Len(queued) \in Nat
  BY DEF SendInv, SendTypeOK
<1>2. CASE Carries(written, queued)
  <2>1. Frames(written) = queued
    BY <1>1, <1>2, CarriesAll
  <2> QED BY <1>1, <2>1 DEF PrefixOfQueued, IsPrefix
<1>3. CASE flushing /\ offset # Len(m_write_buffer)
  <2>1. PICK before, packets : Flushing(before, packets)
    BY <1>3 DEF SendInv
  <2> DEFINE p == Frame(m_write_buffer).packet
             part == SubSeq(m_write_buffer, 1, offset)
  <2>2. m_write_buffer \in Seq(VarintByte) /\ offset \in 0..Len(m_write_buffer)-1 /\ p \in PacketType
    <3>1. m_write_buffer \in Seq(VarintByte) /\ offset \in Nat
      BY DEF SendInv, SendTypeOK
    <3>2. p \in PacketType
      BY <2>1, <3>1, FrameType DEF Flushing
    <3> HIDE DEF p
    <3> QED BY <1>3, <2>1, <3>1, <3>2 DEF Flushing
  <2>3. Frames(part) = <<>>
    BY <2>1, <2>2, FramesOfPart DEF Flushing
  <2>4. part \in Seq(VarintByte)
    BY <2>2
  <2>5. Frames(written) = packets \o <<>>
    BY <2>1, <2>3, <2>4 DEF Flushing, Carries
  <2>6. packets \in Seq(PacketType) /\ queued = Append(packets, p)
    BY <2>1 DEF Flushing
  <2> HIDE DEF p, part
  <2>7. Frames(written) = packets
    BY <2>5, <2>6
  <2>8. IsPrefix(packets, Append(packets, p))
    BY <2>2, <2>6 DEF IsPrefix
  <2> QED BY <2>6, <2>7, <2>8 DEF PrefixOfQueued
<1> QED BY <1>2, <1>3, WholeWritten DEF SendInv

\* Wherever writing stops, a receiver finds the packets queued, in order, and
\* nothing else (write_flush): for every size of segment and value, every id and
\* payload, and however little the socket takes at a time.
THEOREM SentInOrder == Spec => []PrefixOfQueued
<1>1. SendInv => PrefixOfQueued
  BY SendInvPrefix
<1> QED BY <1>1, SendInvariant, PTL

LEMMA SendInvWhole == SendInv => WholeOnReturn
BY CarriesAll DEF SendInv, SendTypeOK, WholeOnReturn

\* When queue_send returns, everything queued is on its way (write_flush, clear).
THEOREM ReturnsWhole == Spec => []WholeOnReturn
<1>1. SendInv => WholeOnReturn
  BY SendInvWhole
<1> QED BY <1>1, SendInvariant, PTL

-----------------------------------------------------------------------------
(* VarintCodec: a value written and read back round by round.              *)

\* The reader has made of the bytes taken what Read makes of them, and the
\* writer has written what Wrote says.
CodecInv ==
    /\ origin \in {"local", "peer"}
    /\ input \in Unsigned
    /\ bytes \in Seq(VarintByte)
    /\ result \in Seq(VarintByte)
    /\ Len(result) <= Len(bytes)
    /\ result = SubSeq(bytes, 1, Len(result))
    /\ reader = Read(result)
    /\ origin = "local" =>
          /\ Wrote(input, bytes)
          /\ finished <=> Complete(input, bytes)
          /\ ~finished => value = Rest(input, Len(bytes))

LEMMA InitCodecInv == CodecInit => CodecInv
<1> SUFFICES ASSUME CodecInit PROVE CodecInv
  OBVIOUS
<1>1. input \in Unsigned /\ input \in Nat
  <2>1. 0 \in Unsigned
    BY ByteParts DEF Unsigned
  <2> QED BY <2>1, ByteParts DEF CodecInit, Unsigned
<1>2. <<>> \in Seq(VarintByte) /\ Len(<<>>) = 0 /\ SubSeq(<<>>, 1, 0) = <<>>
  OBVIOUS
<1>3. Wrote(input, <<>>) /\ ~Complete(input, <<>>)
  BY <1>2 DEF Wrote, Complete
<1>4. value = Rest(input, 0)
  BY <1>1, RestType DEF CodecInit
<1> QED BY <1>1, <1>2, <1>3, <1>4, ReadEmpty DEF CodecInit, CodecInv

LEMMA PrefixOfAppend ==
    ASSUME NEW M, NEW s \in Seq(M), NEW e \in M, NEW n \in 0..Len(s)
    PROVE  SubSeq(Append(s, e), 1, n) = SubSeq(s, 1, n)
OBVIOUS

LEMMA CodecWriteInv == CodecInv /\ Write => CodecInv'
<1> SUFFICES ASSUME CodecInv, Write PROVE CodecInv'
  OBVIOUS
<1> DEFINE n == Len(bytes)
           u == Rest(input, n)
           byte == WriteByte(u)
<1>1. /\ input \in Nat /\ n \in Nat /\ bytes \in Seq(VarintByte) /\ Wrote(input, bytes)
      /\ ~Complete(input, bytes) /\ value = u
      /\ result \in Seq(VarintByte) /\ Len(result) \in 0..n
  BY ByteParts DEF CodecInv, Write, Unsigned
<1>2. u \in Nat /\ Rest(input, n + 1) = WriteShift(u) /\ byte \in VarintByte
  BY <1>1, RestType, WriteByteType
<1>3. bytes' = Append(bytes, byte) /\ finished' = WriteLast(u) /\ value' = Rest(input, n + 1)
      /\ input' = input /\ result' = result /\ reader' = reader /\ origin' = origin
  BY <1>1, <1>2 DEF Write
<1> HIDE DEF byte
<1>4. /\ bytes' \in Seq(VarintByte) /\ Len(bytes') = n + 1 /\ bytes'[n + 1] = byte
      /\ \A i \in 1..n : bytes'[i] = bytes[i]
  BY <1>1, <1>2, <1>3
<1>5. Wrote(input, bytes')
  <2>1. \A i \in 1..n+1 : bytes'[i] = WriteByte(Rest(input, i - 1))
    <3> TAKE i \in 1..n+1
    <3>1. CASE i \in 1..n
      BY <1>1, <1>4, <3>1 DEF Wrote
    <3>2. CASE i = n + 1
      BY <1>1, <1>4, <3>2 DEF byte
    <3> QED BY <1>1, <3>1, <3>2
  <2>2. \A i \in 1..n : ~WriteLast(Rest(input, i - 1))
    <3> TAKE i \in 1..n
    <3>1. CASE i = n
      BY <1>1, <3>1 DEF Complete
    <3>2. CASE i # n
      <4>1. i \in 1..n-1
        BY <1>1, <3>2
      <4> QED BY <1>1, <4>1 DEF Wrote
    <3> QED BY <3>1, <3>2
  <2>3. (n + 1) - 1 = n
    BY <1>1
  <2> QED BY <1>4, <2>1, <2>2, <2>3 DEF Wrote
<1>6. Complete(input, bytes') <=> WriteLast(u)
  <2>1. (n + 1) - 1 = n /\ n + 1 > 0
    BY <1>1
  <2> QED BY <1>4, <2>1 DEF Complete
<1>7. Len(result) <= Len(bytes') /\ result = SubSeq(bytes', 1, Len(result))
  <2>1. SubSeq(bytes', 1, Len(result)) = SubSeq(bytes, 1, Len(result))
    BY <1>1, <1>2, <1>3, PrefixOfAppend
  <2> QED BY <1>1, <1>4, <2>1 DEF CodecInv
<1> QED BY <1>3, <1>4, <1>5, <1>6, <1>7 DEF CodecInv

LEMMA CodecPeerInv == CodecInv /\ Peer => CodecInv'
<1> SUFFICES ASSUME CodecInv, Peer PROVE CodecInv'
  OBVIOUS
<1>1. PICK byte \in VarintByte : bytes' = Append(bytes, byte)
  BY DEF Peer
<1>2. bytes \in Seq(VarintByte) /\ result \in Seq(VarintByte) /\ Len(result) \in 0..Len(bytes) /\ origin' = "peer"
  BY DEF CodecInv, Peer
<1>3. bytes' \in Seq(VarintByte) /\ Len(bytes') = Len(bytes) + 1
  BY <1>1, <1>2
<1>4. SubSeq(bytes', 1, Len(result)) = SubSeq(bytes, 1, Len(result))
  BY <1>1, <1>2, PrefixOfAppend
<1>5. Len(result) <= Len(bytes')
  BY <1>2, <1>3
<1> QED BY <1>2, <1>3, <1>4, <1>5 DEF CodecInv, Peer

LEMMA CodecTakeInv == CodecInv /\ TakeByte => CodecInv'
<1> SUFFICES ASSUME CodecInv, TakeByte PROVE CodecInv'
  OBVIOUS
<1> DEFINE n == Len(result)
           byte == bytes[n + 1]
<1>1. /\ bytes \in Seq(VarintByte) /\ result \in Seq(VarintByte) /\ n \in 0..Len(bytes)-1
      /\ reader.status = "reading" /\ reader = Read(result) /\ result = SubSeq(bytes, 1, n)
  BY DEF CodecInv, TakeByte
<1>2. byte \in VarintByte /\ SubSeq(bytes, 1, n + 1) = Append(SubSeq(bytes, 1, n), byte)
  BY <1>1, PrefixGrows
<1>3. reader' = ReadRound(reader, byte) /\ result' = Append(result, byte)
      /\ UNCHANGED <<origin, input, value, bytes, finished>>
  BY DEF TakeByte
<1> HIDE DEF byte
<1>4. result' \in Seq(VarintByte) /\ Len(result') = n + 1
  BY <1>1, <1>2, <1>3
<1>5. reader' = Read(result')
  BY <1>1, <1>2, <1>3, ReadAppend DEF ReadStep
<1>6. result' = SubSeq(bytes, 1, Len(result')) /\ Len(result') <= Len(bytes)
  <2>1. result' = SubSeq(bytes, 1, n + 1)
    BY <1>1, <1>2, <1>3
  <2> QED BY <1>1, <1>4, <2>1
<1> QED BY <1>3, <1>4, <1>5, <1>6 DEF CodecInv

LEMMA CodecInvariant == CodecSpec => []CodecInv
<1>1. CodecInit => CodecInv
  BY InitCodecInv
<1>2. CodecInv /\ [CodecNext]_codecVars => CodecInv'
  <2>1. CodecInv /\ UNCHANGED codecVars => CodecInv'
    BY DEF CodecInv, codecVars
  <2> QED BY <2>1, CodecWriteInv, CodecPeerInv, CodecTakeInv DEF CodecNext
<1> QED BY <1>1, <1>2, PTL DEF CodecSpec

LEMMA CodecInvRoundTrip == CodecInv => RoundTrip
<1> SUFFICES ASSUME CodecInv, origin = "local"
             PROVE  /\ reader.status # "invalid"
                    /\ reader.status = "done" => finished /\ result = bytes /\ reader.value = input
                    /\ finished /\ result = bytes => reader.status = "done"
  BY DEF RoundTrip
<1> DEFINE n == Len(result)
<1>1. /\ bytes \in Seq(VarintByte) /\ result \in Seq(VarintByte) /\ n \in 0..Len(bytes)
      /\ result = SubSeq(bytes, 1, n) /\ reader = Read(result)
      /\ Wrote(input, bytes) /\ (finished <=> Complete(input, bytes)) /\ input \in Unsigned
      /\ Len(bytes) \in Nat
  BY DEF CodecInv
<1>2. CASE n = Len(bytes)
  <2>1. result = bytes
    BY <1>1, <1>2, SubSeqFull
  <2>2. Read(bytes) = IF finished THEN Finished(input, n) ELSE Midway(input, n)
    BY <1>1, <1>2, ReadWrote
  <2> QED BY <1>1, <2>1, <2>2 DEF Finished, Midway
<1>3. CASE n # Len(bytes)
  <2>1. \A i \in 1..n : i \in 1..Len(bytes)-1 /\ i \in 1..Len(bytes) /\ result[i] = bytes[i]
    <3> DEFINE k == n
    <3>1. k \in 0..Len(bytes)-1 /\ result = SubSeq(bytes, 1, k)
      BY <1>1, <1>3
    <3> HIDE DEF k
    <3>2. \A i \in 1..k : i \in 1..Len(bytes)-1 /\ i \in 1..Len(bytes) /\ SubSeq(bytes, 1, k)[i] = bytes[i]
      BY <1>1, <3>1
    <3> QED BY <3>1, <3>2 DEF k
  <2>2. Wrote(input, result)
    <3>1. \A i \in 1..n : result[i] = WriteByte(Rest(input, i - 1)) /\ ~WriteLast(Rest(input, i - 1))
      BY <1>1, <2>1 DEF Wrote
    <3>2. \A i \in 1..n-1 : i \in 1..n
      BY <1>1
    <3> QED BY <1>1, <3>1, <3>2 DEF Wrote
  <2>3. ~Complete(input, result)
    <3>1. n > 0 => n \in 1..n /\ n \in 1..Len(bytes)-1
      BY <1>1, <1>3
    <3> QED BY <1>1, <3>1 DEF Wrote, Complete
  <2>4. reader = Midway(input, n)
    BY <1>1, <2>2, <2>3, ReadWrote
  <2> QED BY <1>3, <2>4 DEF Midway
<1> QED BY <1>2, <1>3

\* async_read_impl recovers exactly what write_impl wrote, for every width of a
\* segment and of a value, wherever the bytes are cut.
THEOREM ValuesReadBack == CodecSpec => []RoundTrip
<1>1. CodecInv => RoundTrip
  BY CodecInvRoundTrip
<1> QED BY <1>1, CodecInvariant, PTL

\* How far the reader is: a byte that continues while it reads, and it gives up
\* when a byte more could hold no bit of the value.
LimitInv ==
    /\ reader.status = "reading" =>
          /\ reader.position = SegmentWidth * Len(result)
          /\ reader.position < Digits
          /\ \A i \in 1..Len(result) : continues(result[i])
    /\ reader.status = "done" => result # <<>> /\ ~continues(result[Len(result)])
    /\ reader.status = "invalid" =>
          /\ result # <<>>
          /\ SegmentWidth * (Len(result) - 1) < Digits /\ Digits <= SegmentWidth * Len(result)
          /\ \A i \in 1..Len(result) : continues(result[i])

\* MaxBytes is Digits over SegmentWidth, rounded up.
LEMMA RoundedUp ==
    /\ MaxBytes \in Nat
    /\ Digits <= SegmentWidth * MaxBytes
    /\ \A n \in Nat : SegmentWidth * (n - 1) < Digits /\ Digits <= SegmentWidth * n
                          => n = MaxBytes
<1> DEFINE w == SegmentWidth
           d == Digits
           q == (d + w - 1) \div w
           r == (d + w - 1) % w
<1>1. w \in Nat \ {0} /\ d \in Nat \ {0} /\ d + w - 1 \in Nat
  BY VarintAssumption
<1>2. MaxBytes = q
  BY DEF MaxBytes
<1> HIDE DEF w, d
<1>3. q \in Nat /\ r \in 0..w-1 /\ d + w - 1 = w * q + r
  BY <1>1, DivMod
<1> HIDE DEF q, r
<1>4. w * q \in Nat
  BY <1>1, <1>3
<1>5. d <= w * q
  BY <1>1, <1>3, <1>4
<1>6. ASSUME NEW n \in Nat, w * (n - 1) < d, d <= w * n PROVE n = q
  <2> DEFINE t == d + w - 1 - w * n
  <2>1. w * (n - 1) = w * n - w /\ w * n \in Nat
    BY <1>1
  <2>2. t \in 0..w-1 /\ d + w - 1 = w * n + t
    <3> DEFINE x == w * n
    <3> HIDE DEF x
    <3>1. x \in Nat /\ x - w < d /\ d <= x
      BY <1>6, <2>1 DEF x
    <3>2. d + w - 1 - x \in 0..w-1 /\ d + w - 1 = x + (d + w - 1 - x)
      BY <1>1, <3>1
    <3> QED BY <3>2 DEF x
  <2> HIDE DEF t
  <2>3. (w * n + t) \div w = n
    BY <1>1, <2>2, DivModUnique
  <2> QED BY <2>2, <2>3 DEF q
<1> QED BY <1>2, <1>3, <1>5, <1>6 DEF w, d

LEMMA LimitTakeInv == CodecInv /\ LimitInv /\ TakeByte => LimitInv'
<1> SUFFICES ASSUME CodecInv, LimitInv, TakeByte PROVE LimitInv'
  OBVIOUS
<1> DEFINE n == Len(result)
           byte == bytes[n + 1]
<1>1. /\ bytes \in Seq(VarintByte) /\ result \in Seq(VarintByte) /\ n \in 0..Len(bytes)-1 /\ n \in Nat
      /\ reader.status = "reading"
  BY DEF CodecInv, TakeByte
<1>2. byte \in VarintByte
  BY <1>1, ElementOfSeq
<1>3. reader' = ReadRound(reader, byte) /\ result' = Append(result, byte)
  BY DEF TakeByte
<1> HIDE DEF byte
<1>4. /\ Len(result') = n + 1 /\ result'[n + 1] = byte /\ result' # <<>>
      /\ \A i \in 1..n : result'[i] = result[i]
  BY <1>1, <1>2, <1>3
<1>5. /\ SegmentWidth * n \in Nat /\ SegmentWidth * (n + 1) = SegmentWidth * n + SegmentWidth
      /\ (n + 1) - 1 = n /\ Digits \in Nat /\ SegmentWidth \in Nat
  BY <1>1, RoundsType, VarintAssumption
<1>6. /\ reader.position = SegmentWidth * n /\ reader.position < Digits
      /\ \A i \in 1..n : continues(result[i])
  BY <1>1 DEF LimitInv
<1>7. CASE ~continues(byte)
  <2>1. reader'.status = "done"
    BY <1>3, <1>7 DEF ReadRound
  <2> QED BY <1>4, <1>7, <2>1 DEF LimitInv
<1>8. CASE continues(byte)
  <2>1. \A i \in 1..n+1 : continues(result'[i])
    BY <1>1, <1>4, <1>6, <1>8
  <2>2. reader'.position = SegmentWidth * (n + 1)
        /\ reader'.status = IF SegmentWidth * (n + 1) >= Digits THEN "invalid" ELSE "reading"
    BY <1>3, <1>5, <1>6, <1>8 DEF ReadRound
  <2> DEFINE x == SegmentWidth * (n + 1)
             y == SegmentWidth * n
  <2>3. x \in Nat /\ y \in Nat /\ y < Digits
    BY <1>5, <1>6
  <2> HIDE DEF x, y
  <2>4. CASE x >= Digits
    <3>1. reader'.status = "invalid" /\ y < Digits /\ Digits <= x
      BY <1>5, <2>2, <2>3, <2>4 DEF x
    <3>2. SegmentWidth * (Len(result') - 1) = y /\ SegmentWidth * Len(result') = x
      BY <1>4, <1>5 DEF x, y
    <3> QED BY <1>4, <2>1, <3>1, <3>2 DEF LimitInv
  <2>5. CASE ~(x >= Digits)
    <3>1. reader'.status = "reading" /\ reader'.position = x /\ x < Digits
      BY <1>5, <2>2, <2>3, <2>5 DEF x
    <3>2. SegmentWidth * Len(result') = x
      BY <1>4 DEF x
    <3> QED BY <1>4, <2>1, <3>1, <3>2 DEF LimitInv
  <2> QED BY <2>4, <2>5
<1> QED BY <1>7, <1>8

LEMMA LimitInvariant == CodecSpec => []LimitInv
<1>1. CodecInit => LimitInv
  <2>1. SegmentWidth * 0 = 0 /\ 0 < Digits
    BY VarintAssumption
  <2> QED BY <2>1 DEF CodecInit, LimitInv, ReadStart
<1>2. CodecInv /\ LimitInv /\ [CodecNext]_codecVars => LimitInv'
  <2>1. LimitInv /\ UNCHANGED <<reader, result>> => LimitInv'
    BY DEF LimitInv
  <2> QED BY <2>1, LimitTakeInv DEF CodecNext, Write, Peer, codecVars
<1> QED BY <1>1, <1>2, CodecInvariant, PTL DEF CodecSpec

LEMMA LimitInvRejects == CodecInv /\ LimitInv => RejectsOnlyTooLong
<1> SUFFICES ASSUME CodecInv, LimitInv PROVE RejectsOnlyTooLong
  OBVIOUS
<1> DEFINE n == Len(result)
           m == MaxBytes
<1>1. result \in Seq(VarintByte) /\ n \in Nat /\ reader \in ReaderState
  BY ReadType DEF CodecInv
<1>2. reader.status \in {"reading", "done", "invalid"}
  BY <1>1 DEF ReaderState
<1>3. m \in Nat /\ Digits <= SegmentWidth * m /\ SegmentWidth * m \in Nat
      /\ SegmentWidth * 0 = 0 /\ Digits \in Nat /\ Digits > 0
  BY RoundedUp, VarintAssumption
<1>4. m # 0
  <2> HIDE DEF m
  <2> QED BY <1>3
<1>5. CASE reader.status = "invalid"
  <2>1. n = m /\ \A i \in 1..n : continues(result[i])
    BY <1>1, <1>5, RoundedUp DEF LimitInv
  <2>2. n \in 1..n
    BY <1>1, <1>4, <2>1
  <2> QED BY <1>5, <2>1, <2>2 DEF RejectsOnlyTooLong
<1>6. CASE reader.status = "done"
  <2>1. n \in 1..n /\ result # <<>> /\ ~continues(result[n])
    BY <1>1, <1>6 DEF LimitInv
  <2> QED BY <1>6, <2>1 DEF RejectsOnlyTooLong
<1>7. CASE reader.status = "reading"
  <2>1. n # m
    <3>1. SegmentWidth * n < Digits
      BY <1>7 DEF LimitInv
    <3> HIDE DEF m, n
    <3> QED BY <1>3, <3>1
  <2>2. result # <<>> => continues(result[n])
    <3>1. result # <<>> => n \in 1..n
      BY <1>1
    <3> QED BY <1>7, <3>1 DEF LimitInv
  <2> QED BY <1>7, <2>1, <2>2 DEF RejectsOnlyTooLong
<1> QED BY <1>2, <1>5, <1>6, <1>7

\* async_read_impl rejects exactly the encodings longer than the longest there is,
\* whoever wrote them, and stops at the first byte that does not continue.
THEOREM RejectsExactly == CodecSpec => []RejectsOnlyTooLong
<1>1. CodecInv /\ LimitInv => RejectsOnlyTooLong
  BY LimitInvRejects
<1> QED BY <1>1, CodecInvariant, LimitInvariant, PTL

\* The bits of the value so far are those of the segments taken.
SegmentBit(s, j) ==
    LET i == j \div SegmentWidth + 1
    IN  IF i <= Len(s) THEN Bit(segment(s[i]), j % SegmentWidth) ELSE 0

BitsInv ==
    /\ reader.status = "reading" => reader.value < Pow2[SegmentWidth * Len(result)]
    /\ \A j \in 0..Digits-1 : Bit(reader.value, j) = SegmentBit(result, j)

LEMMA BitsTakeInv == CodecInv /\ LimitInv /\ BitsInv /\ TakeByte => BitsInv'
<1> SUFFICES ASSUME CodecInv, LimitInv, BitsInv, TakeByte PROVE BitsInv'
  OBVIOUS
<1> DEFINE n == Len(result)
           byte == bytes[n + 1]
           x == reader.value
           y == segment(byte)
           k == SegmentWidth * n
           sum == x + y * Pow2[k]
<1>1. /\ bytes \in Seq(VarintByte) /\ result \in Seq(VarintByte) /\ n \in 0..Len(bytes)-1 /\ n \in Nat
      /\ reader.status = "reading" /\ reader \in ReaderState
  BY ReadType DEF CodecInv, TakeByte
<1>2. byte \in VarintByte
  BY <1>1, ElementOfSeq
<1>3. reader' = ReadRound(reader, byte) /\ result' = Append(result, byte)
  BY DEF TakeByte
<1> HIDE DEF byte
<1>4. /\ Len(result') = n + 1 /\ result'[n + 1] = byte
      /\ \A i \in 1..n : result'[i] = result[i]
  BY <1>1, <1>2, <1>3
<1>5. /\ SegmentWidth \in Nat \ {0} /\ k \in Nat /\ Digits \in Nat
      /\ SegmentWidth * (n + 1) = k + SegmentWidth
      /\ Pow2[k] \in Nat \ {0} /\ Pow2[SegmentWidth] \in Nat \ {0}
      /\ Pow2[SegmentWidth * (n + 1)] = Pow2[k] * Pow2[SegmentWidth]
  BY <1>1, RoundsType, VarintAssumption, Pow2Positive DEF CONTINUE_BIT
<1>6. x \in 0..Pow2[k]-1 /\ y \in 0..Pow2[SegmentWidth]-1
  <2>1. x \in Nat /\ x < Pow2[k]
    BY <1>1 DEF ReaderState, BitsInv
  <2>2. y \in 0..Pow2[SegmentWidth]-1
    BY <1>2, ByteParts DEF CONTINUE_BIT
  <2> HIDE DEF x, k
  <2> QED BY <1>5, <2>1, <2>2
<1>7. reader'.value = sum % Modulus
  BY <1>1, <1>3 DEF ReadRound, LimitInv
<1> HIDE DEF x, y, k
<1>8. sum \in Nat /\ sum < Pow2[k] * Pow2[SegmentWidth]
  <2> DEFINE p == Pow2[k] c == Pow2[SegmentWidth]
  <2>1. p \in Nat \ {0} /\ c \in Nat \ {0} /\ x \in 0..p-1 /\ y \in 0..c-1
    BY <1>5, <1>6
  <2> HIDE DEF p, c
  <2>2. y * p \in Nat /\ y * p <= (c - 1) * p
    BY <2>1
  <2>3. (c - 1) * p = p * c - p /\ p * c \in Nat
    BY <2>1
  <2>4. x + y * p \in Nat /\ x + y * p < p * c
    BY <2>1, <2>2, <2>3
  <2> QED BY <2>4 DEF p, c
<1> HIDE DEF sum
<1>9. sum % Modulus \in Nat /\ sum % Modulus <= sum
  <2> DEFINE m == Modulus q == sum \div m r == sum % m
  <2>1. m \in Nat \ {0}
    BY ByteParts
  <2> HIDE DEF m
  <2>2. q \in Nat /\ r \in 0..m-1 /\ sum = m * q + r
    BY <1>8, <2>1, DivMod
  <2> HIDE DEF q, r
  <2>3. m * q \in Nat
    BY <2>1, <2>2
  <2>4. r \in Nat /\ r <= sum
    BY <1>8, <2>1, <2>2, <2>3
  <2> QED BY <2>4 DEF m, r
<1>10. reader'.value < Pow2[SegmentWidth * Len(result')]
  <2>1. Pow2[SegmentWidth * Len(result')] = Pow2[k] * Pow2[SegmentWidth]
    BY <1>4, <1>5
  <2> DEFINE pc2 == Pow2[k] * Pow2[SegmentWidth]
  <2>2. pc2 \in Nat /\ sum < pc2
    BY <1>5, <1>8
  <2> HIDE DEF pc2
  <2> QED BY <1>7, <1>8, <1>9, <2>1, <2>2 DEF pc2
<1>11. ASSUME NEW j \in 0..Digits-1 PROVE Bit(reader'.value, j) = SegmentBit(result', j)
  <2> DEFINE q == j \div SegmentWidth
  <2>1. /\ q \in Nat /\ j \in Nat
        /\ j < k => q < n
        /\ k <= j /\ j < k + SegmentWidth => q = n /\ j % SegmentWidth = j - k
        /\ k + SegmentWidth <= j => n < q
    <3>1. SegmentWidth \in Nat \ {0} /\ n \in Nat /\ j \in Nat
      BY <1>1, <1>5, <1>11
    <3>2. /\ q \in Nat
          /\ j < SegmentWidth * n => q < n
          /\ SegmentWidth * n <= j /\ j < SegmentWidth * n + SegmentWidth
                => q = n /\ j % SegmentWidth = j - SegmentWidth * n
          /\ SegmentWidth * n + SegmentWidth <= j => n < q
      BY <3>1, SegmentOfBit, Zenon
    <3> QED BY <3>1, <3>2 DEF k
  <2>2. SegmentBit(result', j) = IF q + 1 <= n + 1 THEN Bit(segment(result'[q + 1]), j % SegmentWidth)
                                                   ELSE 0
    BY <1>4 DEF SegmentBit
  <2>3. SegmentBit(result, j) = IF q + 1 <= n THEN Bit(segment(result[q + 1]), j % SegmentWidth)
                                             ELSE 0
    BY DEF SegmentBit
  <2> HIDE DEF q
  <2>4. Bit(reader'.value, j) = Bit(sum, j)
    <3>1. Digits \in Nat /\ j \in 0..Digits-1
      BY <1>5, <1>11
    <3> QED BY <1>7, <1>8, <3>1, BitOfMod DEF Modulus
  <2>5. CASE j < k
    <3>1. q + 1 \in 1..n /\ q + 1 <= n /\ q + 1 <= n + 1
      BY <1>1, <2>1, <2>5
    <3>2. SegmentBit(result', j) = SegmentBit(result, j)
      BY <1>4, <2>2, <2>3, <3>1
    <3>3. Bit(sum, j) = Bit(x, j)
      <4>1. x \in Nat /\ y \in Nat /\ k \in Nat /\ j \in 0..k-1
        BY <1>5, <1>6, <2>1, <2>5
      <4> QED BY <4>1, BitOfSum, Zenon DEF sum
    <3>4. Bit(x, j) = SegmentBit(result, j)
      BY <1>11 DEF BitsInv, x
    <3> QED BY <2>4, <3>2, <3>3, <3>4
  <2>6. CASE k <= j
    <3>1. Bit(sum, j) = Bit(y, j - k)
      <4>1. y \in Nat /\ k \in Nat /\ j \in Nat /\ k <= j
        BY <1>5, <1>6, <2>1, <2>6
      <4> QED BY <1>6, <4>1, BitShifted, Zenon DEF sum
    <3>2. CASE j < k + SegmentWidth
      <4>1. q = n /\ j % SegmentWidth = j - k
        BY <2>1, <2>6, <3>2
      <4>2. SegmentBit(result', j) = Bit(segment(byte), j - k)
        BY <1>1, <1>4, <2>2, <4>1
      <4> QED BY <2>4, <3>1, <4>2 DEF y
    <3>3. CASE k + SegmentWidth <= j
      <4>1. n < q /\ ~(q + 1 <= n + 1)
        BY <1>1, <2>1, <3>3
      <4>2. SegmentBit(result', j) = 0
        BY <2>2, <4>1
      <4>3. Bit(y, j - k) = 0
        <5>1. j - k \in Nat /\ SegmentWidth <= j - k /\ SegmentWidth \in Nat
          BY <1>5, <2>1, <2>6, <3>3
        <5> QED BY <1>6, <5>1, BitAbove
      <4> QED BY <2>4, <3>1, <4>2, <4>3
    <3> QED BY <1>5, <2>1, <3>2, <3>3
  <2> QED BY <1>5, <2>1, <2>5, <2>6
<1> QED BY <1>10, <1>11 DEF BitsInv

LEMMA BitsInvariant == CodecSpec => []BitsInv
<1>1. CodecInit => BitsInv
  <2> SUFFICES ASSUME CodecInit PROVE BitsInv
    OBVIOUS
  <2>1. result = <<>> /\ Len(result) = 0 /\ reader.value = 0
    BY DEF CodecInit, ReadStart
  <2>2. 0 < Pow2[SegmentWidth * 0]
    <3>1. SegmentWidth * 0 = 0
      BY VarintAssumption
    <3> QED BY <3>1, Pow2Def
  <2>3. ASSUME NEW j \in 0..Digits-1 PROVE Bit(0, j) = 0 /\ SegmentBit(<<>>, j) = 0
    <3>1. j \in Nat /\ SegmentWidth \in Nat \ {0} /\ Pow2[j] \in Nat \ {0}
      BY VarintAssumption, Pow2Positive
    <3>2. 0 \div Pow2[j] = 0
      BY <3>1, ModSmall
    <3>3. j \div SegmentWidth \in Nat
      BY <3>1, DivMod
    <3>4. ~(j \div SegmentWidth + 1 <= 0)
      BY <3>3
    <3> QED BY <3>2, <3>4 DEF Bit, SegmentBit
  <2> QED BY <2>1, <2>2, <2>3 DEF BitsInv
<1>2. CodecInv /\ LimitInv /\ BitsInv /\ [CodecNext]_codecVars => BitsInv'
  <2>1. BitsInv /\ UNCHANGED <<reader, result>> => BitsInv'
    BY DEF BitsInv
  <2> QED BY <2>1, BitsTakeInv DEF CodecNext, Write, Peer, codecVars
<1> QED BY <1>1, <1>2, CodecInvariant, LimitInvariant, PTL DEF CodecSpec

\* Each bit of a value read is the bit the byte that carries it holds, whoever
\* wrote the bytes, and what passes the top of the type is dropped (async_read_impl).
THEOREM BitsRead == CodecSpec => []BitsInPlace
<1>1. BitsInv => BitsInPlace
  BY DEF BitsInv, Bit, SegmentBit, BitsInPlace, Pow2
<1> QED BY <1>1, BitsInvariant, PTL
=============================================================================
