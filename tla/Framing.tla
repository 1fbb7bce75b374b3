------------------------------ MODULE Framing -------------------------------
(***************************************************************************)
(* How a connection's bytes are packets: a length, that many bytes, the    *)
(* first of them the packet's id, the others its payload.  This is the     *)
(* wire as proto::client::receiver_task reads it; what follows a malformed *)
(* length or id is not a packet.                                           *)
(***************************************************************************)
EXTENDS Varint

CONSTANTS MaxLength     \* the longest packet, 2097151 in the protocol

\* The packet that the bytes s begin with and how many bytes it takes, 0 if they
\* do not begin with a whole packet.
Frame(s) ==
    LET head == Read(s)
        length == ToSigned(head.value)
        size == head.count + length
        body == SubSeq(s, head.count + 1, size)
        id == Read(body)
    IN  IF /\ head.status = "done"
           /\ length \in 1..MaxLength
           /\ size <= Len(s)
           /\ id.status = "done"
        THEN [size |-> size,
              packet |-> [id |-> ToSigned(id.value),
                          payload |-> SubSeq(body, id.count + 1, length)]]
        ELSE [size |-> 0]

\* The packets of the bytes s: last[n] are those of the last n of them.
Frames(s) ==
    LET last[n \in 0..Len(s)] ==
            LET frame == Frame(SubSeq(s, Len(s) - n + 1, Len(s)))
            IN  IF frame.size = 0 THEN <<>>
                ELSE <<frame.packet>> \o last[n - frame.size]
    IN  last[Len(s)]
=============================================================================
