------------------------------ MODULE SendPath ------------------------------
(***************************************************************************)
(* How a packet gets out: proto::client::queue_send puts its id and its    *)
(* payload together, puts a length in front and everything into            *)
(* tcp_client's m_write_buffer, and write_flush writes that to the socket, *)
(* which takes as much as it has room for at a time.  Each call returns    *)
(* with the buffer empty or throws; nothing catches an exception.          *)
(***************************************************************************)
EXTENDS Framing, SequencesExt

CONSTANTS
    Id,         \* the ids of the packets sent
    MaxPayload, \* how long a packet's payload is
    MaxSent     \* how many packets are sent

ASSUME SendAssumption ==
    /\ {MaxLength, MaxPayload, MaxSent} \subseteq Nat
    /\ MaxLength < SignBit
    /\ Id \subseteq Unsigned

VARIABLES
    m_write_buffer,
    offset,     \* how much of it write_flush has written
    flushing,   \* whether queue_send is in write_flush
    process,    \* "running", or "terminated" by an exception
    written,    \* the bytes the socket has taken
    queued      \* history: the packets queue_send was called for and accepted

vars == <<m_write_buffer, offset, flushing, process, written, queued>>

Payload == UNION {[1..n -> VarintByte] : n \in 0..MaxPayload}

Init ==
    /\ m_write_buffer = <<>>
    /\ offset = 0
    /\ flushing = FALSE
    /\ process = "running"
    /\ written = <<>>
    /\ queued = <<>>

-----------------------------------------------------------------------------
\* The packet_writer's buffer: the id, then what packet::write writes.
body(id, payload) == Encoded(id) \o payload

\* What queue_send appends to the write buffer.
Framed(id, payload) == Encoded(Len(body(id, payload))) \o body(id, payload)

\* The whole of queue_send but for the loop of write_flush.
queue_send(id, payload) ==
    /\ process = "running" /\ ~flushing
    /\ Len(body(id, payload)) <= MaxLength
    /\ m_write_buffer' = m_write_buffer \o Framed(id, payload)
    /\ offset' = 0
    /\ flushing' = TRUE
    /\ queued' = Append(queued, [id |-> ToSigned(id), payload |-> payload])
    /\ UNCHANGED <<process, written>>

\* A packet that is too long throws encode_error before anything is buffered.
queue_send_too_long(id, payload) ==
    /\ process = "running" /\ ~flushing
    /\ Len(body(id, payload)) > MaxLength
    /\ process' = "terminated"
    /\ UNCHANGED <<m_write_buffer, offset, flushing, written, queued>>

\* Slip: every round of the loop starts at the beginning of the buffer.
write_some_FromStart(n) ==
    /\ process = "running" /\ flushing
    /\ offset + n <= Len(m_write_buffer)
    /\ written' = written \o SubSeq(m_write_buffer, 1, n)
    /\ offset' = offset + n
    /\ UNCHANGED <<m_write_buffer, flushing, process, queued>>

\* A round of the loop of write_flush: the socket takes n bytes.
write_some(n) ==
    /\ process = "running" /\ flushing
    /\ offset + n <= Len(m_write_buffer)
    /\ written' = written \o SubSeq(m_write_buffer, offset + 1, offset + n)
    /\ offset' = offset + n
    /\ UNCHANGED <<m_write_buffer, flushing, process, queued>>

\* The socket fails: the rest of the buffer stays where it is.
write_fails ==
    /\ process = "running" /\ flushing
    /\ offset < Len(m_write_buffer)
    /\ process' = "terminated"
    /\ UNCHANGED <<m_write_buffer, offset, flushing, written, queued>>

\* Slip: the buffer not cleared.
flushed_Uncleared ==
    /\ process = "running" /\ flushing
    /\ offset = Len(m_write_buffer)
    /\ flushing' = FALSE
    /\ UNCHANGED <<m_write_buffer, offset, process, written, queued>>

\* The end of the loop: the buffer is cleared and queue_send returns.
flushed ==
    /\ process = "running" /\ flushing
    /\ offset = Len(m_write_buffer)
    /\ m_write_buffer' = <<>>
    /\ flushing' = FALSE
    /\ UNCHANGED <<offset, process, written, queued>>

Next ==
    \/ \E id \in Id, payload \in Payload :
          Len(queued) < MaxSent /\ (queue_send(id, payload) \/ queue_send_too_long(id, payload))
    \/ \E n \in 1..Len(m_write_buffer) : write_some(n)
    \/ write_fails
    \/ flushed

Spec == Init /\ [][Next]_vars

-----------------------------------------------------------------------------
\* Wherever writing stops, in the middle of a packet too, a receiver that cuts
\* up the bytes as this program's own receiver does finds the packets queued,
\* in order, and nothing else (write_flush).
PrefixOfQueued == IsPrefix(Frames(written), queued)

\* Between two calls of queue_send everything queued is on its way, and no byte
\* of a packet is left behind for a later call to send (write_flush, clear).
WholeOnReturn ==
    process = "running" /\ ~flushing =>
        /\ m_write_buffer = <<>>
        /\ Frames(written) = queued
=============================================================================
