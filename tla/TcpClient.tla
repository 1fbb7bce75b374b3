----------------------------- MODULE TcpClient ------------------------------
(***************************************************************************)
(* The receiving half of proto/tcp_client: the socket, the read buffer and *)
(* the one coroutine that may be waiting for it.  A coroutine that needs   *)
(* more bytes calls resume_on_readable, which stores its handle and posts  *)
(* one async_read_some into the free spans of the ring; io_context::poll   *)
(* later runs the completion handler.                                      *)
(*                                                                         *)
(* The actions here leave the state of the coroutine to Receiver.          *)
(***************************************************************************)
EXTENDS RingBuffer

\* The coroutines that may wait, by what they wait in, and nullptr.
Handle == {"read_byte", "recv_until"}

NoHandle == "nullptr"

VARIABLES
    m_resume,   \* the handle stored by resume_on_readable
    wire,       \* bytes the peer has sent and no read has taken
    peer        \* "open", "closed" (it sent a FIN) or "reset"

tcpVars == <<m_resume, wire, peer>>

TcpInit ==
    /\ RingInit
    /\ m_resume = NoHandle
    /\ wire = <<>>
    /\ peer = "open"

-----------------------------------------------------------------------------
\* The other end of the connection.
PeerSend(byte) ==
    /\ peer = "open"
    /\ Len(stream) + Len(wire) < MaxStream
    /\ wire' = Append(wire, byte)
    /\ UNCHANGED <<peer, m_resume, ringVars>>

PeerCloses ==
    /\ peer = "open"
    /\ peer' \in {"closed", "reset"}
    /\ UNCHANGED <<wire, m_resume, ringVars>>

-----------------------------------------------------------------------------
\* The socket operation a read outstanding on the socket stands for.
ReadOutstanding == spans.handed

\* Posts a read into the free spans; the code asserts that nobody waits yet.
resume_on_readable(handle) ==
    /\ m_resume = NoHandle
    /\ m_resume' = handle
    /\ TakeSpans
    /\ UNCHANGED <<wire, peer>>

\* Slip: the handle kept after it has been resumed.
read_complete_KeepsHandle(n) ==
    /\ ReadOutstanding
    /\ n \in IF Room = 0 THEN {0} ELSE 1..Room
    /\ n <= Len(wire)
    /\ Fill(SubSeq(wire, 1, n))
    /\ wire' = SubSeq(wire, n + 1, Len(wire))
    /\ UNCHANGED <<m_resume, peer>>

\* Slip: the next read goes into the spans of this one.
read_complete_KeepsSpans(n) ==
    /\ ReadOutstanding
    /\ n \in 1..Room
    /\ n <= Len(wire)
    /\ m_data' = [i \in 0..N-1 |-> IF Place(i) \in 1..n THEN wire[Place(i)] ELSE m_data[i]]
    /\ mark_write(n)
    /\ stream' = stream \o SubSeq(wire, 1, n)
    /\ wire' = SubSeq(wire, n + 1, Len(wire))
    /\ m_resume' = NoHandle
    /\ UNCHANGED <<spans, m_read, peer>>

\* The completion handler for n bytes: a read into empty spans completes at
\* once with none, any other takes some of what is on the wire.
read_complete(n) ==
    /\ ReadOutstanding
    /\ n \in IF Room = 0 THEN {0} ELSE 1..Room
    /\ n <= Len(wire)
    /\ Fill(SubSeq(wire, 1, n))
    /\ wire' = SubSeq(wire, n + 1, Len(wire))
    /\ m_resume' = NoHandle
    /\ UNCHANGED peer

\* The completion handler for eof: it only logs, and m_resume stays.
read_eof ==
    /\ ReadOutstanding
    /\ peer = "closed"
    /\ wire = <<>>
    /\ DropSpans
    /\ UNCHANGED tcpVars

\* The completion handler for any other error: it only logs.
read_error ==
    /\ ReadOutstanding
    /\ peer = "reset"
    /\ DropSpans
    /\ UNCHANGED tcpVars

\* n calls of pop_front; each asserts that a byte is there.
pop_front(n) ==
    /\ erase(n)
    /\ UNCHANGED tcpVars

-----------------------------------------------------------------------------
TcpTypeOK ==
    /\ RingTypeOK
    /\ m_resume \in Handle \cup {NoHandle}
    /\ wire \in Seq(Byte)
    /\ peer \in {"open", "closed", "reset"}
=============================================================================
