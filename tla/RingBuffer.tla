----------------------------- MODULE RingBuffer -----------------------------
(***************************************************************************)
(* utility/ring_buffer.hh: a buffer of N bytes between two free-running    *)
(* counters, m_read and m_written, that index the slots modulo N.  The     *)
(* producer asks for the two free spans (write_front, write_back), fills   *)
(* them in that order while the consumer may go on erasing, and then calls *)
(* mark_write; tcp_client hands the spans to async_read_some, so the two   *)
(* halves of a write are two steps here as well.                           *)
(*                                                                         *)
(* The counters are size_t in the code; 2^64 bytes are never received, so  *)
(* they are naturals here.  MaxStream bounds the bytes ever written.       *)
(***************************************************************************)
EXTENDS Integers, Sequences

CONSTANTS
    N,          \* the capacity, 2097151 in tcp_client
    Byte,       \* the values of a byte
    Unset,      \* an indeterminate byte: m_data has no initializer
    MaxStream   \* how many bytes are ever written

ASSUME RingAssumption ==
    /\ N \in Nat \ {0}
    /\ MaxStream \in Nat
    /\ Unset \notin Byte

VARIABLES
    m_read, m_written, m_data,
    spans,      \* the spans handed to the producer, or NoSpans
    stream      \* history: every byte ever written, oldest first

ringVars == <<m_read, m_written, m_data, spans, stream>>

-----------------------------------------------------------------------------
readable == m_written - m_read

\* Slip: the slot of the oldest unread byte counted as free.
writable_OneMore == N - readable + 1

writable == N - readable

clamp(v, h) == IF v > h THEN h ELSE v

FrontSpan(start, total) == [start |-> start, count |-> clamp(total, N - start)]

BackSpan(start, total) == [start |-> 0, count |-> total - clamp(total, N - start)]

\* Slip: reading from where the producer writes.
read_front_AtWritten == FrontSpan(m_written % N, readable)

read_front == FrontSpan(m_read % N, readable)

read_back == BackSpan(m_read % N, readable)

write_front == FrontSpan(m_written % N, writable)

write_back == BackSpan(m_written % N, writable)

\* The byte front() returns; the code asserts readable() >= 1 first.
front == m_data[m_read % N]

NoSpans == [front |-> FrontSpan(0, 0), back |-> FrontSpan(0, 0), handed |-> FALSE]

Room == spans.front.count + spans.back.count

\* The place, counted from 1, of slot i in the two spans one after the other.
Place(i) ==
    IF i >= spans.front.start /\ i < spans.front.start + spans.front.count
    THEN i - spans.front.start + 1
    ELSE i - spans.back.start + spans.front.count + 1

\* What the two read spans hold, one after the other.
Readable ==
    [j \in 1..readable |->
        IF j <= read_front.count THEN m_data[read_front.start + j - 1]
                                 ELSE m_data[read_back.start + j - read_front.count - 1]]

-----------------------------------------------------------------------------
RingInit ==
    /\ m_read = 0
    /\ m_written = 0
    /\ m_data = [i \in 0..N-1 |-> Unset]
    /\ spans = NoSpans
    /\ stream = <<>>

\* The producer takes write_front() and write_back().
TakeSpans ==
    /\ ~spans.handed
    /\ spans' = [front |-> write_front, back |-> write_back, handed |-> TRUE]
    /\ UNCHANGED <<m_read, m_written, m_data, stream>>

mark_write(n) ==
    /\ writable >= n
    /\ m_written' = m_written + n

\* The producer has put bytes into the spans, front first, and marks them.
Fill(bytes) ==
    /\ spans.handed
    /\ Len(bytes) <= Room
    /\ m_data' = [i \in 0..N-1 |-> IF Place(i) \in 1..Len(bytes) THEN bytes[Place(i)]
                                                               ELSE m_data[i]]
    /\ mark_write(Len(bytes))
    /\ stream' = stream \o bytes
    /\ spans' = NoSpans
    /\ UNCHANGED m_read

\* The producer gives the spans back without having written anything.
DropSpans ==
    /\ spans.handed
    /\ spans' = NoSpans
    /\ UNCHANGED <<m_read, m_written, m_data, stream>>

erase(n) ==
    /\ readable >= n
    /\ m_read' = m_read + n
    /\ UNCHANGED <<m_written, m_data, spans, stream>>

RingNext ==
    \/ TakeSpans
    \/ \E n \in 0..N : \E bytes \in [1..n -> Byte] :
          Len(stream) + n <= MaxStream /\ Fill(bytes)
    \/ DropSpans
    \/ \E n \in 1..N : erase(n)

RingSpec == RingInit /\ [][RingNext]_ringVars

-----------------------------------------------------------------------------
Span == [start : 0..N-1, count : 0..N]

\* The counters, the slots and the spans have the types the code gives them.
RingTypeOK ==
    /\ m_read \in Nat
    /\ m_written \in Nat
    /\ m_data \in [0..N-1 -> Byte \cup {Unset}]
    /\ spans \in [front : Span, back : Span, handed : BOOLEAN]
    /\ stream \in Seq(Byte)

\* The unread bytes never exceed the capacity and none is ever lost or made
\* up: the counters stay within N of each other while the producer fills spans
\* it took before the consumer's last erase.
CountersAgree ==
    /\ readable \in 0..N
    /\ m_written = Len(stream)

\* Every unread byte is still the byte that was written at its place in the
\* stream: no write wraps onto a byte that has not been read, and no
\* indeterminate byte of m_data is ever readable.
UnreadIntact == \A k \in m_read .. m_written - 1 : m_data[k % N] = stream[k + 1]

\* The slots handed to the producer are disjoint from the slots of the unread
\* bytes for as long as the producer may write to them.
SpansAreFree ==
    spans.handed =>
        \A k \in m_read .. m_written - 1 : Place(k % N) \notin 1..Room

\* The two read spans together show exactly the unread part of the stream.
ReadSpansExact == Readable = SubSeq(stream, m_read + 1, m_written)

\* A ring buffer is a first-in first-out queue of its unread bytes.
Queue == INSTANCE ByteQueue WITH Capacity <- N, queue <- Readable

ImplementsQueue == Queue!Spec
=============================================================================
