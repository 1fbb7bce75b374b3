------------------------------- MODULE Client -------------------------------
(***************************************************************************)
(* client::client: the protocol's state machine over whole packets.        *)
(* Receiver hands packets to on_packet_received one at a time and in       *)
(* order; here they wait in inbox.  Each handler is one action: what it    *)
(* parses, what it does to the game and to m_state, what it sends, and how *)
(* it ends.  A send writes to the socket at once and throws if it cannot;  *)
(* nothing catches an exception, so the process ends with it.              *)
(*                                                                         *)
(* What a packet's bytes are good for is its body: "ok", or "malformed"    *)
(* (the handler throws decode_error while parsing), or "truncated" (an     *)
(* assertion of packet_reader fails), or "trailing" (bytes are left over). *)
(***************************************************************************)
EXTENDS Integers, Sequences, SequencesExt

CONSTANTS
    Arg,            \* ids of queries and keep-alives, positions of chunks
    NoArg,          \* what a message without one has
    MaxReceived,    \* how many packets the server sends
    MaxInbox        \* how many of them wait to be handled

ASSUME ClientAssumption ==
    /\ NoArg \notin Arg
    /\ MaxReceived \in Nat
    /\ MaxInbox \in Nat

VARIABLES
    m_state,    \* the protocol state packets are interpreted in
    m_world,    \* game::m_world: <<>> or <<the columns of the world>>
    phase,      \* connect(): "connecting", "intention" sent, "connected"
    process,    \* "running", "terminated" by an exception, or "aborted"
    link,       \* "up", or "down": what is written may no longer arrive
    inbox,      \* packets that have arrived and are not yet handled
    sent,       \* packets written to the socket
    handled     \* history: the packets handled, and as what

clientVars == <<m_state, m_world, phase, process, link, inbox, sent, handled>>

-----------------------------------------------------------------------------
\* The ids of the packets the server may send, by state (a selection: one that
\* is handled or ignored in each way the code has).
CLIENTBOUND ==
    [HANDSHAKING |-> <<>>,
     LOGIN |-> <<"hello", "game_profile", "login_compression", "custom_query", "login_disconnect">>,
     PLAY |-> <<"login", "keep_alive", "level_chunk_with_light", "custom_payload", "add_entity">>]

PacketName(state, id) ==
    IF id \in DOMAIN CLIENTBOUND[state] THEN CLIENTBOUND[state][id] ELSE "unknown"

\* Packets with a handler that parses them, and of these the ones whose handler
\* reads to the end whatever is there.
Parsed == {"game_profile", "custom_query", "login", "keep_alive",
           "level_chunk_with_light", "custom_payload"}

ReadToEnd == {"custom_query", "level_chunk_with_light", "custom_payload"}

Ignored == {"login_disconnect", "add_entity"}

Unsupported == {"hello", "login_compression"}

Body == {"ok", "malformed", "truncated", "trailing"}

Packet == [id : 1..6, arg : Arg, body : Body]

Message(name, arg) == [name |-> name, arg |-> arg]

\* The protocol's order of the messages the client sends.
Turn == [client_intention |-> 0, hello |-> 1, custom_query |-> 2,
         custom_payload |-> 3, client_information |-> 3, keep_alive |-> 3]

-----------------------------------------------------------------------------
ClientInit ==
    /\ m_state = "HANDSHAKING"
    /\ m_world = <<>>
    /\ phase = "connecting"
    /\ process = "running"
    /\ link = "up"
    /\ inbox = <<>>
    /\ sent = <<>>
    /\ handled = <<>>

\* How many of a handler's messages get out before one cannot be written.
Written(messages) == IF link = "up" THEN {Len(messages)} ELSE 0..Len(messages)

\* Slip: a failed write ignored.
Send_Unnoticed(messages, after) ==
    \E n \in Written(messages) :
        /\ sent' = sent \o SubSeq(messages, 1, n)
        /\ process' = after

\* queue_send, once per message: the process goes on as after if all get out.
Send(messages, after) ==
    \E n \in Written(messages) :
        /\ sent' = sent \o SubSeq(messages, 1, n)
        /\ process' = IF n < Len(messages) THEN "terminated" ELSE after

-----------------------------------------------------------------------------
\* on_connect: the intention, then m_state, then hello.
send_intention ==
    /\ process = "running" /\ phase = "connecting"
    /\ Send(<<Message("client_intention", NoArg)>>, "running")
    /\ m_state' = IF process' = "running" THEN "LOGIN" ELSE m_state
    /\ phase' = "intention"
    /\ UNCHANGED <<m_world, link, inbox, handled>>

send_hello ==
    /\ process = "running" /\ phase = "intention"
    /\ Send(<<Message("hello", NoArg)>>, "running")
    /\ phase' = "connected"
    /\ UNCHANGED <<m_state, m_world, link, inbox, handled>>

-----------------------------------------------------------------------------
\* Slip: packets handled while connect is still sending.
Receive_BeforeConnected(p) ==
    LET name == PacketName(m_state, p.id)
    IN  /\ process = "running"
        /\ inbox' = Tail(inbox)
        /\ handled' = Append(handled, [state |-> m_state, name |-> name,
                                       arg |-> p.arg, body |-> p.body])
        /\ UNCHANGED <<phase, link>>

\* on_packet_received: the id says in m_state what the packet is.  Nothing is
\* received before connect has returned.
Receive(p) ==
    LET name == PacketName(m_state, p.id)
    IN  /\ process = "running" /\ phase = "connected"
        /\ inbox' = Tail(inbox)
        /\ handled' = Append(handled, [state |-> m_state, name |-> name,
                                       arg |-> p.arg, body |-> p.body])
        /\ UNCHANGED <<phase, link>>

\* Slip: the column put beside the world.
GetColumn_Beside(position) == m_world' = Append(m_world, {position})

\* chunk_manager::get: the column is found or made.
GetColumn(position) == m_world' = <<m_world[1] \cup {position}>>

\* The packet is one with this name whose body its handler can parse.
Handles(p, name) ==
    /\ Receive(p)
    /\ PacketName(m_state, p.id) = name
    /\ p.body \in {"ok", "trailing"}

\* What the receiver does after the handler: bytes left over are an error.
Afterwards(p, name) ==
    IF p.body = "trailing" /\ name \notin ReadToEnd THEN "terminated" ELSE "running"

\* No packet has this id in m_state.
handle_unknown(p) ==
    /\ Receive(p)
    /\ PacketName(m_state, p.id) = "unknown"
    /\ process' = "terminated"
    /\ UNCHANGED <<m_state, m_world, sent>>

\* Slip: the default handler discards nothing.
handle_ignored_Undiscarded(p) ==
    /\ Receive(p)
    /\ PacketName(m_state, p.id) \in Ignored
    /\ process' = "terminated"
    /\ UNCHANGED <<m_state, m_world, sent>>

\* The default handler discards the packet.
handle_ignored(p) ==
    /\ Receive(p)
    /\ PacketName(m_state, p.id) \in Ignored
    /\ UNCHANGED <<m_state, m_world, sent, process>>

\* Encryption and compression are not implemented: abort().
handle_unsupported(p) ==
    /\ Receive(p)
    /\ PacketName(m_state, p.id) \in Unsupported
    /\ process' = "aborted"
    /\ UNCHANGED <<m_state, m_world, sent>>

\* A body that cannot be parsed.  Keep-alive reads one number, which only a
\* truncated body fails.  The world is asked for in the middle of a chunk: what
\* is wrong behind that point is met with the column made, or not at all.
handle_unparsable(p) ==
    LET name == PacketName(m_state, p.id)
        fails == IF p.body = "malformed" THEN "terminated" ELSE "aborted"
    IN  /\ Receive(p)
        /\ name \in Parsed
        /\ p.body = "truncated" \/ (p.body = "malformed" /\ name # "keep_alive")
        /\ \/ process' = fails /\ UNCHANGED m_world
           \/ /\ name = "level_chunk_with_light"
              /\ IF m_world = <<>>
                 THEN process' = "terminated" /\ UNCHANGED m_world
                 ELSE process' = fails /\ GetColumn(p.arg)
        /\ UNCHANGED <<m_state, sent>>

handle_custom_query(p) ==
    /\ Handles(p, "custom_query")
    /\ Send(<<Message("custom_query", p.arg)>>, Afterwards(p, "custom_query"))
    /\ UNCHANGED <<m_state, m_world>>

\* Slip: m_state left as it is.
handle_game_profile_StaysInLogin(p) ==
    /\ Handles(p, "game_profile")
    /\ process' = Afterwards(p, "game_profile")
    /\ UNCHANGED <<m_state, m_world, sent>>

handle_game_profile(p) ==
    /\ Handles(p, "game_profile")
    /\ m_state' = "PLAY"
    /\ process' = Afterwards(p, "game_profile")
    /\ UNCHANGED <<m_world, sent>>

\* Slip: the world there is kept.
handle_login_KeepsWorld(p) ==
    /\ Handles(p, "login")
    /\ m_world' = IF m_world = <<>> THEN <<{}>> ELSE m_world
    /\ Send(<<Message("custom_payload", NoArg), Message("client_information", NoArg)>>,
            Afterwards(p, "login"))
    /\ UNCHANGED m_state

\* create_world replaces the world there was.
handle_login(p) ==
    /\ Handles(p, "login")
    /\ m_world' = <<{}>>
    /\ Send(<<Message("custom_payload", NoArg), Message("client_information", NoArg)>>,
            Afterwards(p, "login"))
    /\ UNCHANGED m_state

\* Slip: the answer sent twice.
handle_keep_alive_Twice(p) ==
    /\ Handles(p, "keep_alive")
    /\ Send(<<Message("keep_alive", p.arg), Message("keep_alive", p.arg)>>, Afterwards(p, "keep_alive"))
    /\ UNCHANGED <<m_state, m_world>>

\* Slip: no answer.
handle_keep_alive_Silent(p) ==
    /\ Handles(p, "keep_alive")
    /\ process' = Afterwards(p, "keep_alive")
    /\ UNCHANGED <<m_state, m_world, sent>>

handle_keep_alive(p) ==
    /\ Handles(p, "keep_alive")
    /\ Send(<<Message("keep_alive", p.arg)>>, Afterwards(p, "keep_alive"))
    /\ UNCHANGED <<m_state, m_world>>

handle_custom_payload(p) ==
    /\ Handles(p, "custom_payload")
    /\ process' = Afterwards(p, "custom_payload")
    /\ UNCHANGED <<m_state, m_world, sent>>

\* Without a world optional::value throws.  As many sections are loaded as the
\* column's m_count says, which no constructor sets: they may ask for more bytes
\* than the packet has, or for none.
handle_level_chunk_with_light(p) ==
    /\ Handles(p, "level_chunk_with_light")
    /\ IF m_world = <<>>
       THEN process' = "terminated" /\ UNCHANGED m_world
       ELSE process' \in {"running", "terminated", "aborted"} /\ GetColumn(p.arg)
    /\ UNCHANGED <<m_state, sent>>

on_packet_received(p) ==
    \/ handle_unknown(p) \/ handle_ignored(p) \/ handle_unsupported(p) \/ handle_unparsable(p)
    \/ handle_custom_query(p) \/ handle_game_profile(p)
    \/ handle_login(p) \/ handle_keep_alive(p) \/ handle_custom_payload(p)
    \/ handle_level_chunk_with_light(p)

ClientNext ==
    \/ send_intention
    \/ send_hello
    \/ inbox # <<>> /\ on_packet_received(Head(inbox))

-----------------------------------------------------------------------------
\* The network and a server that may send anything at any time.
Deliver(p) ==
    /\ process = "running" /\ link = "up"
    /\ Len(handled) + Len(inbox) < MaxReceived
    /\ Len(inbox) < MaxInbox
    /\ inbox' = Append(inbox, p)
    /\ UNCHANGED <<m_state, m_world, phase, process, link, sent, handled>>

LinkFails ==
    /\ process = "running"
    /\ link = "up"
    /\ link' = "down"
    /\ UNCHANGED <<m_state, m_world, phase, process, inbox, sent, handled>>

AnyServerNext == ClientNext \/ LinkFails \/ \E p \in Packet : Deliver(p)

AnyServerSpec == ClientInit /\ [][AnyServerNext]_clientVars

-----------------------------------------------------------------------------
Handled == [state : {"LOGIN", "PLAY"}, name : Parsed \cup Ignored \cup Unsupported \cup {"unknown"},
            arg : Arg, body : Body]

\* Every variable has its type.
ClientTypeOK ==
    /\ m_state \in DOMAIN CLIENTBOUND
    /\ m_world = <<>> \/ (Len(m_world) = 1 /\ m_world[1] \subseteq Arg)
    /\ phase \in {"connecting", "intention", "connected"}
    /\ process \in {"running", "terminated", "aborted"}
    /\ link \in {"up", "down"}
    /\ inbox \in Seq(Packet)
    /\ sent \in Seq([name : DOMAIN Turn, arg : Arg \cup {NoArg}])
    /\ handled \in Seq(Handled)

\* Whatever the server sends and whenever it arrives, the messages written are
\* in the order the protocol has its states: the intention first, hello second,
\* and nothing of the login once something of play has been written (on_connect
\* sends and sets m_state before any packet can be received, and m_state says
\* which handlers there are).
SessionOrder ==
    \A i \in 1..Len(sent) :
        /\ sent[i].name = "client_intention" <=> i = 1
        /\ sent[i].name = "hello" <=> i = 2
        /\ \A j \in 1..i : Turn[sent[j].name] <= Turn[sent[i].name]

\* A packet is read as one of PLAY exactly if the server's game_profile has been
\* read before it, so packets that arrive back to back with the profile are not
\* read in the state before it (handle_packet sets m_state before the receiver
\* reads the next packet).
PlayFollowsProfile ==
    \A i \in 1..Len(handled) :
        handled[i].state = "PLAY" <=> \E j \in 1..(i - 1) : handled[j].name = "game_profile"

\* The columns of the world are those of the chunks read since the last login,
\* and none of a world that login replaced (game::create_world, chunks().get).
ColumnsOfThisWorld ==
    LET Logins == {i \in 1..Len(handled) : handled[i].name = "login" /\ handled[i].body \in {"ok", "trailing"}}
        since == CHOOSE i \in Logins : \A j \in Logins : j <= i
        Chunks == {i \in since..Len(handled) : handled[i].name = "level_chunk_with_light"}
    IN  process = "running" =>
            m_world = IF Logins = {} THEN <<>> ELSE <<{handled[i].arg : i \in Chunks}>>

\* What a packet is answered with.
AnswersTo(h) ==
    CASE h.name = "custom_query" -> <<Message("custom_query", h.arg)>>
      [] h.name = "login" -> <<Message("custom_payload", NoArg), Message("client_information", NoArg)>>
      [] h.name = "keep_alive" -> <<Message("keep_alive", h.arg)>>
      [] OTHER -> <<>>

\* While the process runs every query and keep-alive read has been answered
\* once, with its own id and in the order they were read; when it ends, at most
\* the last packet lacks its answers or some of them (each handler sends before
\* it returns, and an exception on the way ends the process).
Answers ==
    LET all == FlattenSeq([i \in 1..Len(handled) |-> AnswersTo(handled[i])])
        written == SubSeq(sent, 3, Len(sent))
        last == AnswersTo(handled[Len(handled)])
    IN  phase = "connected" =>
            /\ IsPrefix(written, all)
            /\ process = "running" => written = all
            /\ handled # <<>> => Len(all) - Len(written) <= Len(last)
=============================================================================
