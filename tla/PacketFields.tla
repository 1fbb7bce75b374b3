---------------------------- MODULE PacketFields ----------------------------
(***************************************************************************)
(* proto/packet.cc, proto/packet.hh: the fields of a packet, as            *)
(* packet_writer appends them to its buffer and packet_reader takes them   *)
(* off its bytes.  A byte has ByteBits bits (8 in the code); the widths of *)
(* the integers are in bytes (2, 4 and 8).                                 *)
(*                                                                         *)
(* Reading starts behind byte `at' of a packet and may take the bytes up   *)
(* to `end', the smallest of the m_remaining of the readers on top of each *)
(* other.  It ends "ok", "aborted" (an assertion) or "thrown"              *)
(* (decode_error); at and value count only if it is ok.                    *)
(***************************************************************************)
EXTENDS Varint, SequencesExt

CONSTANTS ByteBits, ShortBytes, IntBytes, LongBytes,
          PositionXZBits, PositionYBits     \* 26 and 12 in the code

ASSUME PacketFieldsAssumption ==
    /\ {ByteBits, ShortBytes, IntBytes, LongBytes, PositionXZBits, PositionYBits} \subseteq Nat \ {0}
    /\ SegmentWidth = ByteBits - 1 /\ ByteBits > 1
    /\ Digits = ByteBits * IntBytes
    /\ 2 * PositionXZBits + PositionYBits <= ByteBits * LongBytes

Byte == 0 .. Pow2[ByteBits] - 1

\* A number of n bits as an unsigned one and back (bit_cast).
ToUnsigned(x, n) == x % Pow2[n]

FromUnsigned(u, n) == IF u < Pow2[n - 1] THEN u ELSE u - Pow2[n]

IntWidth == [bool |-> 1, u8 |-> 1, i8 |-> 1, u16 |-> ShortBytes, i16 |-> ShortBytes,
             u32 |-> IntBytes, i32 |-> IntBytes, u64 |-> LongBytes, i64 |-> LongBytes]

IsSigned(kind) == kind \in {"i8", "i16", "i32", "i64"}
-----------------------------------------------------------------------------
\* Slip: the bytes appended as they lie in memory.
write_int_Native(value, n) ==
    [i \in 1..n |-> (ToUnsigned(value, n * ByteBits) \div Pow2[ByteBits * (i - 1)]) % Pow2[ByteBits]]

\* write_bytes with reverse: the bytes of a little-endian integer, last first.
write_int(value, n) ==
    Reverse([i \in 1..n |->
                (ToUnsigned(value, n * ByteBits) \div Pow2[ByteBits * (i - 1)]) % Pow2[ByteBits]])

write_varint(value) == Encoded(ToUnsigned(value, Digits))

\* What write_string refuses (encode_error), and what it appends otherwise.
StringTooLong(chars, max_code_points) == Len(chars) > max_code_points * 4

write_string(chars) == write_varint(Len(chars)) \o chars

\* The raw form of a position: its three numbers side by side.
PositionRaw(p) ==
    ToUnsigned(p.x, PositionXZBits) * Pow2[PositionXZBits + PositionYBits]
        + ToUnsigned(p.z, PositionXZBits) * Pow2[PositionYBits]
        + ToUnsigned(p.y, PositionYBits)

write_uuid(id) == write_int(id.high, LongBytes) \o write_int(id.low, LongBytes)

\* The bytes of a field f = [kind, value] (and the limit of a string).
write_field(f) ==
    CASE f.kind \in DOMAIN IntWidth -> write_int(f.value, IntWidth[f.kind])
      [] f.kind = "varint"   -> write_varint(f.value)
      [] f.kind = "string"   -> write_string(f.value)
      [] f.kind = "uuid"     -> write_uuid(f.value)
      [] f.kind = "position" -> write_int(PositionRaw(f.value), LongBytes)
-----------------------------------------------------------------------------
Ok(at, value) == [status |-> "ok", at |-> at, value |-> value]
Aborted == [status |-> "aborted"]
Thrown == [status |-> "thrown"]

\* What follows a read that went well.
Then(r, next(_, _)) == IF r.status = "ok" THEN next(r.at, r.value) ELSE r

\* read_byte_array, read_char_array: n bytes, or the assertion on m_remaining.
read_bytes(s, at, end, n) ==
    IF at + n <= end THEN Ok(at + n, SubSeq(s, at + 1, at + n)) ELSE Aborted

\* discard: the bytes are taken and dropped.
discard(s, at, end, n) == read_bytes(s, at, end, n)

\* The number of these bytes, the most significant first.
FromBytes(b) ==
    LET value[i \in 0..Len(b)] == IF i = 0 THEN 0 ELSE value[i - 1] * Pow2[ByteBits] + b[i]
    IN  value[Len(b)]

\* read_int_n<T>.
read_int(s, at, end, kind) ==
    LET n == IntWidth[kind]
    IN  Then(read_bytes(s, at, end, n),
             LAMBDA i, b : Ok(i, IF IsSigned(kind) THEN FromUnsigned(FromBytes(b), n * ByteBits)
                                                   ELSE FromBytes(b)))

read_bool(s, at, end) ==
    Then(read_int(s, at, end, "u8"),
         LAMBDA i, b : IF b \in {0, 1} THEN Ok(i, b) ELSE Thrown)

\* The rounds of the varint loop; a byte that is not there aborts.
read_varint(s, at, end) ==
    LET r == Read(SubSeq(s, at + 1, end))
    IN  CASE r.status = "done"    -> Ok(at + r.count, ToSigned(r.value))
          [] r.status = "invalid" -> Thrown
          [] r.status = "reading" -> Aborted

read_string(s, at, end, max_code_points) ==
    Then(read_varint(s, at, end),
         LAMBDA i, n : IF n < 0 \/ n > max_code_points THEN Thrown
                                                       ELSE read_bytes(s, i, end, n))

\* position(raw): each number from its own bits, sign_extend<N>.
PositionOf(raw) ==
    [x |-> FromUnsigned((raw \div Pow2[PositionXZBits + PositionYBits]) % Pow2[PositionXZBits], PositionXZBits),
     z |-> FromUnsigned((raw \div Pow2[PositionYBits]) % Pow2[PositionXZBits], PositionXZBits),
     y |-> FromUnsigned(raw % Pow2[PositionYBits], PositionYBits)]

read_position(s, at, end) ==
    Then(read_int(s, at, end, "u64"), LAMBDA i, raw : Ok(i, PositionOf(raw)))

read_uuid(s, at, end) ==
    Then(read_int(s, at, end, "u64"),
         LAMBDA i, high : Then(read_int(s, i, end, "u64"),
                               LAMBDA j, low : Ok(j, [high |-> high, low |-> low])))

read_field(f, s, at, end) ==
    CASE f.kind = "bool"     -> read_bool(s, at, end)
      [] f.kind \in DOMAIN IntWidth \ {"bool"} -> read_int(s, at, end, f.kind)
      [] f.kind = "varint"   -> read_varint(s, at, end)
      [] f.kind = "string"   -> read_string(s, at, end, f.max)
      [] f.kind = "uuid"     -> read_uuid(s, at, end)
      [] f.kind = "position" -> read_position(s, at, end)
=============================================================================
