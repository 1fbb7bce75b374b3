----------------------------- MODULE VarintCodec ----------------------------
(***************************************************************************)
(* A value written by the loop of write_impl and the bytes read back by    *)
(* the loop of async_read_impl, one round at a time.  The peer of a        *)
(* connection is another program, so the bytes may also be any bytes:      *)
(* CodecInit chooses whether write_impl (local) or a peer wrote them.      *)
(***************************************************************************)
EXTENDS Varint

VARIABLES
    origin,     \* "local": the bytes are written by write_impl; "peer"
    input,      \* the value to write
    value,      \* what write_impl has left to write
    bytes,      \* the bytes written
    finished,   \* whether the writer has written its last byte
    reader,     \* the locals of async_read_impl
    result      \* the bytes the reader has taken

codecVars == <<origin, input, value, bytes, finished, reader, result>>

\* The longest encoding: Digits over SegmentWidth, rounded up.
MaxBytes == (Digits + SegmentWidth - 1) \div SegmentWidth

CodecInit ==
    /\ origin \in {"local", "peer"}
    /\ input \in IF origin = "local" THEN Unsigned ELSE {0}
    /\ value = input
    /\ bytes = <<>>
    /\ finished = FALSE
    /\ reader = ReadStart
    /\ result = <<>>

\* A round of write_impl.
Write ==
    /\ origin = "local"
    /\ ~finished
    /\ bytes' = Append(bytes, WriteByte(value))
    /\ finished' = WriteLast(value)
    /\ value' = WriteShift(value)
    /\ UNCHANGED <<origin, input, reader, result>>

\* The peer sends a byte; MaxBytes + 1 of them show what reading does with more.
Peer ==
    /\ origin = "peer"
    /\ Len(bytes) <= MaxBytes
    /\ \E byte \in VarintByte : bytes' = Append(bytes, byte)
    /\ UNCHANGED <<origin, input, value, finished, reader, result>>

\* A round of async_read_impl, when the byte it awaits is there.
TakeByte ==
    /\ reader.status = "reading"
    /\ Len(result) < Len(bytes)
    /\ reader' = ReadRound(reader, bytes[Len(result) + 1])
    /\ result' = Append(result, bytes[Len(result) + 1])
    /\ UNCHANGED <<origin, input, value, bytes, finished>>

CodecNext == Write \/ Peer \/ TakeByte

CodecSpec == CodecInit /\ [][CodecNext]_codecVars
-----------------------------------------------------------------------------
\* async_read_impl recovers exactly what write_impl wrote: it neither rejects
\* the bytes, nor stops before the last of them, nor waits for more.
RoundTrip ==
    origin = "local" =>
        /\ reader.status # "invalid"
        /\ reader.status = "done" => finished /\ result = bytes /\ reader.value = input
        /\ finished /\ result = bytes => reader.status = "done"

\* Whoever wrote the bytes, each bit of the value read is the bit the byte that
\* carries it holds, and bits past the top of the type are dropped.
BitsInPlace ==
    \A j \in 0..Digits-1 :
        LET i == j \div SegmentWidth + 1
        IN  Bit(reader.value, j) =
                IF i <= Len(result)
                THEN Bit(segment(result[i]), j % SegmentWidth)
                ELSE 0

\* A reader gives up on exactly the encodings that are longer than the longest
\* one write_impl can write, and is done at the first byte that does not
\* continue.
RejectsOnlyTooLong ==
    /\ reader.status = "invalid" <=>
          Len(result) = MaxBytes /\ \A i \in 1..MaxBytes : continues(result[i])
    /\ reader.status = "done" <=>
          result # <<>> /\ ~continues(result[Len(result)])
=============================================================================
