------------------------------- MODULE Varint -------------------------------
(***************************************************************************)
(* proto/varint.hh: the variable-length integers of the protocol.  A byte  *)
(* carries SegmentWidth bits of the value, least significant first, and    *)
(* a continuation bit.  The code has SegmentWidth = 7 and Digits = 32      *)
(* (varint) or 64 (varlong); the shape that matters is that Digits is not  *)
(* a multiple of SegmentWidth, so the last byte overlaps the top.          *)
(*                                                                         *)
(* Values are kept unsigned (TU) while they are put together and are       *)
(* reinterpreted (bit_cast) at the end.                                    *)
(***************************************************************************)
EXTENDS Binary, Sequences

CONSTANTS SegmentWidth, Digits

ASSUME VarintAssumption ==
    /\ SegmentWidth \in Nat \ {0}
    /\ Digits \in Nat \ {0}
    /\ SegmentWidth < Digits

CONTINUE_BIT == Pow2[SegmentWidth]

VarintByte == 0 .. 2 * CONTINUE_BIT - 1

\* Values that are too large for TU, and those negative in TS.
Modulus == Pow2[Digits]

SignBit == Pow2[Digits - 1]

Unsigned == 0 .. Modulus - 1

segment(byte) == byte % CONTINUE_BIT

continues(byte) == byte >= CONTINUE_BIT

ToSigned(u) == IF u < SignBit THEN u ELSE u - Modulus

-----------------------------------------------------------------------------
\* One round of the loop of write_impl: the byte it writes and the value left.
WriteLast(value) == value < CONTINUE_BIT

WriteByte(value) == IF WriteLast(value) THEN value
                                        ELSE segment(value) + CONTINUE_BIT

WriteShift(value) == value \div CONTINUE_BIT

\* The whole of write_impl: the bytes of as many rounds as there are.
Encoded(value) ==
    LET left(i) == value \div Pow2[SegmentWidth * (i - 1)]
        rounds == CHOOSE n \in 1..Digits :
                      WriteLast(left(n)) /\ \A i \in 1..n-1 : ~WriteLast(left(i))
    IN  [i \in 1..rounds |-> WriteByte(left(i))]

-----------------------------------------------------------------------------
\* The locals of async_read_impl and how it stands: reading, done or invalid
\* (it has thrown decode_error).
ReadStart == [status |-> "reading", value |-> 0, position |-> 0, count |-> 0]

\* Slip: the position advanced by whole bytes.
ReadRound_ByteWise(r, byte) ==
    LET value == (r.value + segment(byte) * Pow2[r.position]) % Modulus
        last == ~continues(byte)
        position == IF last THEN r.position ELSE r.position + SegmentWidth + 1
    IN  [status |-> IF last THEN "done" ELSE IF position >= Digits THEN "invalid" ELSE "reading",
         value |-> value, position |-> position, count |-> r.count + 1]

\* Slip: the limit checked before the position has advanced.
ReadRound_LateCheck(r, byte) ==
    LET value == (r.value + segment(byte) * Pow2[r.position]) % Modulus
        last == ~continues(byte)
        position == IF last THEN r.position ELSE r.position + SegmentWidth
    IN  [status |-> IF last THEN "done" ELSE IF r.position >= Digits THEN "invalid" ELSE "reading",
         value |-> value, position |-> position, count |-> r.count + 1]

\* Slip: the limit checked one byte early.
ReadRound_EarlyCheck(r, byte) ==
    LET value == (r.value + segment(byte) * Pow2[r.position]) % Modulus
        last == ~continues(byte)
        position == IF last THEN r.position ELSE r.position + SegmentWidth
    IN  [status |-> IF last THEN "done" ELSE IF position + SegmentWidth >= Digits THEN "invalid" ELSE "reading",
         value |-> value, position |-> position, count |-> r.count + 1]

\* One round of its loop.  The segment shifted to position never overlaps the
\* bits below, so |= is an addition; what passes the top of TU is lost.
ReadRound(r, byte) ==
    LET value == (r.value + segment(byte) * Pow2[r.position]) % Modulus
        last == ~continues(byte)
        position == IF last THEN r.position ELSE r.position + SegmentWidth
    IN  [status |-> IF last THEN "done"
                    ELSE IF position >= Digits THEN "invalid" ELSE "reading",
         value |-> value,
         position |-> position,
         count |-> r.count + 1]

\* read_impl on the bytes of s: the state after the last byte it takes.
Read(s) ==
    LET after[i \in 0..Len(s)] ==
            IF i = 0 THEN ReadStart
            ELSE LET r == after[i - 1]
                 IN  IF r.status = "reading" THEN ReadRound(r, s[i]) ELSE r
    IN  after[Len(s)]
=============================================================================
