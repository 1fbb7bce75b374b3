------------------------------ MODULE Receiver ------------------------------
(***************************************************************************)
(* proto::client on top of tcp_client: the coroutine receiver_task cuts    *)
(* the bytes of the connection into packets and calls the virtual          *)
(* on_packet_received for each.  Control passes from the main loop         *)
(* (io_context::poll) to the completion handler of the outstanding read,   *)
(* from there into the coroutine it resumes, back to the handler when the  *)
(* coroutine waits again or ends, and then to on_readable, which rethrows  *)
(* what ended the coroutine.  Only the peer acts while the coroutine runs. *)
(*                                                                         *)
(* What a handler of packets does is its own business (Client models it):  *)
(* here it reads any part of the packet, and returns, throws or aborts.    *)
(***************************************************************************)
EXTENDS TcpClient, Framing

ASSUME ReceiverAssumption ==
    /\ Byte = VarintByte
    /\ MaxLength \in 1..N      \* 2097151 is the ring's capacity too

VARIABLES
    pc,             \* where receiver_task stands
    varint,         \* the locals of the varint it reads
    packet_length,
    remaining,      \* packet_reader::m_remaining
    exception,      \* what ended the coroutine, if it ended
    control,        \* who runs: "app", "receiver", or the "caller" it returns to
    connection,     \* how far tcp_client::connect has come
    process,        \* "running", "terminated" by an exception, or "aborted"
    packets         \* history: the packets handed to on_packet_received

receiverVars == <<pc, varint, packet_length, remaining, exception>>

appVars == <<connection, process>>

vars == <<ringVars, tcpVars, receiverVars, appVars, control, packets>>

ReceiverInit ==
    /\ TcpInit
    /\ pc = "start"
    /\ varint = ReadStart
    /\ packet_length = 0
    /\ remaining = 0
    /\ exception = "none"
    /\ control = "app"
    /\ connection = "none"
    /\ process = "running"
    /\ packets = <<>>

-----------------------------------------------------------------------------
\* The coroutine runs only while the process does.
Running(where) == process = "running" /\ control = "receiver" /\ pc = where

\* The coroutine ends with an exception: control returns to who resumed it.
Throw(what) ==
    /\ pc' = "done"
    /\ exception' = what
    /\ control' = "caller"
    /\ UNCHANGED <<packet_length, appVars>>

\* connect(), as far as the first wait of the coroutine it starts.
on_tcp_connect ==
    /\ process = "running" /\ control = "app" /\ connection = "none"
    /\ connection' = "connecting"
    /\ control' = "receiver"
    /\ pc' = "length"
    /\ UNCHANGED <<ringVars, tcpVars, varint, packet_length, remaining, exception,
                   process, packets>>

\* connect() cannot reach the server: nothing catches what it throws.
connect_failed ==
    /\ process = "running" /\ control = "app" /\ connection = "none"
    /\ process' = "terminated"
    /\ UNCHANGED <<ringVars, tcpVars, receiverVars, control, connection, packets>>

\* The rest of connect(): the coroutine has been started, now the virtual
\* on_connect sends what it likes; nothing catches what that may throw.
on_connect ==
    /\ process = "running" /\ control = "caller" /\ connection = "connecting"
    /\ connection' = "connected"
    /\ control' = "app"
    /\ process' \in {"running", "terminated"}
    /\ UNCHANGED <<ringVars, tcpVars, receiverVars, packets>>

\* The coroutine waits: control returns to who resumed it.
Await(handle) ==
    /\ resume_on_readable(handle)
    /\ control' = "caller"
    /\ UNCHANGED <<receiverVars, appVars, packets>>

\* async_read_byte finds nothing to read.
AwaitByte == Running("length") /\ readable < 1 /\ Await("read_byte")

\* Slip: <= for <.
AwaitPacket_OneMore == Running("body") /\ readable <= packet_length /\ Await("recv_until")

\* async_recv_until finds less than the packet.
AwaitPacket == Running("body") /\ readable < packet_length /\ Await("recv_until")

\* Slip: no upper limit.
LengthOK_NoLimit(length) == length >= 1

\* The checks of a packet's length.
LengthOK(length) == length \in 1..MaxLength

\* A byte of the packet's length; with the last one the length is checked.
ReadLength ==
    LET r == ReadRound(varint, front)
        length == ToSigned(r.value)
    IN  /\ Running("length")
        /\ readable >= 1
        /\ pop_front(1)
        /\ varint' = r
        /\ \/ /\ r.status = "reading"
              /\ UNCHANGED <<pc, packet_length, exception, control, appVars>>
           \/ /\ r.status = "done" /\ LengthOK(length)
              /\ pc' = "body"
              /\ packet_length' = length
              /\ UNCHANGED <<exception, control, appVars>>
           \/ /\ r.status = "invalid" \/ (r.status = "done" /\ ~LengthOK(length))
              /\ Throw("decode_error")
        /\ UNCHANGED <<remaining, packets>>

\* Slip: the locals of the length's varint used again for the id's.
StartPacket_SameVarint ==
    /\ Running("body")
    /\ readable >= packet_length
    /\ pc' = "id"
    /\ remaining' = packet_length
    /\ UNCHANGED <<ringVars, tcpVars, varint, packet_length, exception, control, appVars, packets>>

\* async_recv_until finds the packet: a packet_reader is made for it.
StartPacket ==
    /\ Running("body")
    /\ readable >= packet_length
    /\ pc' = "id"
    /\ varint' = ReadStart
    /\ remaining' = packet_length
    /\ UNCHANGED <<ringVars, tcpVars, packet_length, exception, control, appVars, packets>>

\* A byte of the packet's id, through packet_reader::read_byte; with the last one
\* the packet is handed on.
ReadId ==
    LET r == ReadRound(varint, front)
    IN  /\ Running("id")
        /\ remaining > 0
        /\ remaining' = remaining - 1
        /\ pop_front(1)
        /\ varint' = r
        /\ \/ /\ r.status = "reading"
              /\ UNCHANGED <<pc, packet_length, exception, control, appVars, packets>>
           \/ /\ r.status = "done"
              /\ pc' = "handler"
              /\ packets' = Append(packets, [id |-> ToSigned(r.value),
                                            payload |-> SubSeq(Readable, 2, remaining)])
              /\ UNCHANGED <<packet_length, exception, control, appVars>>
           \/ /\ r.status = "invalid"
              /\ Throw("decode_error")
              /\ UNCHANGED packets

\* The id continues past the packet: assert(m_remaining > 0) fails.
IdPastEnd ==
    /\ Running("id")
    /\ remaining = 0
    /\ process' = "aborted"
    /\ UNCHANGED <<ringVars, tcpVars, receiverVars, control, connection, packets>>

\* on_packet_received reads n bytes and returns, throws or aborts; if it returns
\* having left any, that is an error too, else the loop begins again.
HandlePacket(n) ==
    /\ Running("handler")
    /\ n <= remaining
    /\ pop_front(n)
    /\ remaining' = remaining - n
    /\ \/ /\ n = remaining
          /\ pc' = "length"
          /\ varint' = ReadStart
          /\ UNCHANGED <<packet_length, exception, control, appVars>>
       \/ /\ n < remaining
          /\ Throw("decode_error")
          /\ UNCHANGED varint
       \/ /\ Throw("handler_error")
          /\ UNCHANGED varint
       \/ /\ process' = "aborted"
          /\ UNCHANGED <<pc, varint, packet_length, exception, control, connection>>
    /\ UNCHANGED packets

\* io_context::poll runs the completion handler: marks the bytes, resumes.
ReadComplete ==
    /\ process = "running" /\ control = "app" /\ connection = "connected"
    /\ \E n \in 0..N : read_complete(n)
    /\ control' = "receiver"
    /\ UNCHANGED <<receiverVars, appVars, packets>>

\* The completion handler for eof or an error: nobody is resumed.
ReadFailed ==
    /\ process = "running" /\ control = "app" /\ connection = "connected"
    /\ read_eof \/ read_error
    /\ UNCHANGED <<receiverVars, appVars, control, packets>>

\* Slip: what ended the coroutine not rethrown.
on_readable_NoRethrow ==
    /\ process = "running" /\ control = "caller" /\ connection = "connected"
    /\ control' = "app"
    /\ UNCHANGED <<ringVars, tcpVars, receiverVars, connection, process, packets>>

\* The end of the completion handler: what ended the coroutine is rethrown, and
\* nothing catches it.
on_readable ==
    /\ process = "running" /\ control = "caller" /\ connection = "connected"
    /\ process' = IF pc = "done" THEN "terminated" ELSE process
    /\ control' = "app"
    /\ UNCHANGED <<ringVars, tcpVars, receiverVars, connection, packets>>

Coroutine ==
    \/ AwaitByte \/ AwaitPacket \/ ReadLength \/ StartPacket \/ ReadId \/ IdPastEnd
    \/ \E n \in 0..MaxLength : HandlePacket(n)

App == on_tcp_connect \/ connect_failed \/ on_connect \/ ReadComplete \/ ReadFailed \/ on_readable

\* The peer, for as long as there is a client that could notice.
Peer ==
    /\ process = "running"
    /\ (\E byte \in Byte : PeerSend(byte)) \/ PeerCloses
    /\ connection # "none"
    /\ UNCHANGED <<receiverVars, appVars, control, packets>>

Next == Coroutine \/ App \/ Peer

\* The main loop polls the io_context every frame and the coroutine runs to its
\* next wait without yielding; the peer owes us nothing.
Fairness ==
    /\ WF_vars(Coroutine)
    /\ WF_vars(on_connect) /\ WF_vars(on_readable)
    /\ WF_vars(ReadComplete) /\ WF_vars(ReadFailed)

Spec == ReceiverInit /\ [][Next]_vars /\ Fairness
-----------------------------------------------------------------------------
\* Everything but the number a varint has reached so far.
ControlTypeOK ==
    /\ TcpTypeOK
    /\ pc \in {"start", "length", "body", "id", "handler", "done"}
    /\ varint.status \in {"reading", "done", "invalid"}
    /\ packet_length \in 0..MaxLength
    /\ remaining \in 0..MaxLength
    /\ exception \in {"none", "decode_error", "handler_error"}
    /\ control \in {"app", "receiver", "caller"}
    /\ connection \in {"none", "connecting", "connected"}
    /\ process \in {"running", "terminated", "aborted"}

Stream == INSTANCE PacketStream
            WITH arrived <- stream, delivered <- packets, failed <- process # "running"

\* However the peer's bytes are cut up and wrap around the ring, the packets
\* handed to on_packet_received are the packets of the stream.
DeliversStream == Stream!Spec

\* Whenever control is back in the main loop, every packet that has arrived
\* whole has been handed on: none is left in the buffer until more bytes come.
CaughtUp ==
    process = "running" /\ control = "app" => packets = Frames(stream)

\* Between two frames of a connected client exactly one read is outstanding,
\* with room for a byte, and the coroutine waits for it; the one exception is
\* a connection whose end has been logged, where it waits for ever.
OneReadOutstanding ==
    process = "running" /\ control = "app" /\ connection = "connected" =>
        /\ pc \in {"length", "body"}
        /\ m_resume = IF pc = "length" THEN "read_byte" ELSE "recv_until"
        /\ IF ReadOutstanding THEN Room >= 1 ELSE peer # "open"

\* While the coroutine runs nobody waits and nothing is posted, so neither the
\* assertion of resume_on_readable nor that of front can fail: the packet's
\* bytes that are still to be read are all in the ring, and a packet that is
\* not there yet fits the ring, which async_recv_until asserts, and leaves room to
\* read more of it.
AssertionsHold ==
    process = "running" /\ control = "receiver" =>
        /\ m_resume = NoHandle
        /\ ~ReadOutstanding
        /\ pc \in {"id", "handler"} => remaining <= readable
        /\ pc = "body" => packet_length <= N
        /\ pc = "body" /\ readable < packet_length => writable >= 1

\* An exception that ends the coroutine never goes unnoticed: by the time the
\* main loop runs again it has left io_context::poll.
FailureSurfaces ==
    control = "app" => (pc = "done" <=> exception # "none")
                       /\ (pc = "done" => process = "terminated")

\* No packet is handed on before connect has returned.
ConnectFirst == packets # <<>> => connection = "connected"

\* Every packet the peer has sent whole is handed on, unless the process ends
\* first or the connection is reset.  (A packet has two bytes at least.)
EventuallyDelivered ==
    \A k \in 1 .. MaxStream \div 2 :
        Len(Frames(stream \o wire)) >= k
            ~> \/ Len(packets) >= k
               \/ process # "running"
               \/ peer = "reset"

\* The end of the connection reaches the program as an exception: what the
\* comments in the completion handler ask for.
EofThrows == peer = "closed" /\ connection = "connected" ~> process # "running"

\* Every step leaves the ring as a step of the ring does, so that what is
\* proved of RingBuffer holds of the read buffer of a connection.
UsesRing == RingSpec
=============================================================================
