------------------------------ MODULE Session -------------------------------
(***************************************************************************)
(* client::client with a server that keeps to the protocol: it logs the    *)
(* client in, asks queries before it lets it in, sends login first and     *)
(* then what it likes, and has one query and one keep-alive at a time      *)
(* unanswered.  It sends without waiting wherever the protocol lets it, so *)
(* its packets cross the client's messages on the way.                     *)
(***************************************************************************)
EXTENDS Client

VARIABLES
    s_state,    \* the state the server is in
    s_read,     \* how many of the client's messages it has read
    s_query,    \* the query it waits to be answered, or NoArg
    s_alive,    \* the keep-alive it waits to be answered, or NoArg
    s_log,      \* history: the packets it has sent, and as what
    s_surprise  \* it has read a message it cannot make sense of

serverVars == <<s_state, s_read, s_query, s_alive, s_log, s_surprise>>

vars == <<clientVars, serverVars>>

SessionInit ==
    /\ ClientInit
    /\ s_state = "HANDSHAKING"
    /\ s_read = 0
    /\ s_query = NoArg
    /\ s_alive = NoArg
    /\ s_log = <<>>
    /\ s_surprise = FALSE

-----------------------------------------------------------------------------
\* The server reads the next message the client has written.
ServerReads(message) ==
    /\ link = "up"
    /\ s_read' = s_read + 1
    /\ UNCHANGED <<clientVars, s_log>>

Unsurprised == UNCHANGED s_surprise

read_intention(message) ==
    /\ ServerReads(message) /\ message.name = "client_intention"
    /\ s_state = "HANDSHAKING"
    /\ s_state' = "LOGIN"
    /\ UNCHANGED <<s_query, s_alive>> /\ Unsurprised

read_hello(message) ==
    /\ ServerReads(message) /\ message.name = "hello"
    /\ s_state = "LOGIN"
    /\ UNCHANGED <<s_state, s_query, s_alive>> /\ Unsurprised

read_answer(message) ==
    /\ ServerReads(message) /\ message.name = "custom_query"
    /\ s_state = "LOGIN" /\ s_query = message.arg
    /\ s_query' = NoArg
    /\ UNCHANGED <<s_state, s_alive>> /\ Unsurprised

read_keep_alive(message) ==
    /\ ServerReads(message) /\ message.name = "keep_alive"
    /\ s_state = "PLAY" /\ s_alive = message.arg
    /\ s_alive' = NoArg
    /\ UNCHANGED <<s_state, s_query>> /\ Unsurprised

read_settings(message) ==
    /\ ServerReads(message) /\ message.name \in {"custom_payload", "client_information"}
    /\ s_state = "PLAY"
    /\ UNCHANGED <<s_state, s_query, s_alive>> /\ Unsurprised

Expected(message) ==
    CASE message.name = "client_intention" -> s_state = "HANDSHAKING"
      [] message.name = "hello" -> s_state = "LOGIN"
      [] message.name = "custom_query" -> s_state = "LOGIN" /\ s_query = message.arg
      [] message.name = "keep_alive" -> s_state = "PLAY" /\ s_alive = message.arg
      [] OTHER -> s_state = "PLAY"

read_unexpected(message) ==
    /\ ServerReads(message) /\ ~Expected(message)
    /\ s_surprise' = TRUE
    /\ UNCHANGED <<s_state, s_query, s_alive>>

read(message) ==
    \/ read_intention(message) \/ read_hello(message) \/ read_answer(message)
    \/ read_keep_alive(message) \/ read_settings(message) \/ read_unexpected(message)

ServerRead == s_read < Len(sent) /\ read(sent[s_read + 1])

-----------------------------------------------------------------------------
\* The server sends the packet that has this name in its own state.
ServerSends(id, arg) ==
    LET name == PacketName(s_state, id)
    IN  /\ Deliver([id |-> id, arg |-> arg, body |-> "ok"])
        /\ s_log' = Append(s_log, [state |-> s_state, name |-> name, arg |-> arg, body |-> "ok"])
        /\ UNCHANGED <<s_read, s_surprise>>

LoginPacket(name) == CHOOSE id \in DOMAIN CLIENTBOUND.LOGIN : CLIENTBOUND.LOGIN[id] = name
PlayPacket(name) == CHOOSE id \in DOMAIN CLIENTBOUND.PLAY : CLIENTBOUND.PLAY[id] = name

\* It has read hello and waits for nothing.
Greeted == s_state = "LOGIN" /\ s_read >= 2 /\ s_query = NoArg

HasSent(name) == \E i \in 1..Len(s_log) : s_log[i].name = name

\* Nothing follows what ends the login.
LoginOver == HasSent("login_disconnect") \/ HasSent("hello") \/ HasSent("login_compression")

send_query(arg) ==
    /\ Greeted /\ ~LoginOver
    /\ ServerSends(LoginPacket("custom_query"), arg)
    /\ s_query' = arg
    /\ UNCHANGED <<s_state, s_alive>>

send_unsupported(name, arg) ==
    /\ Greeted /\ ~LoginOver
    /\ ServerSends(LoginPacket(name), arg)
    /\ UNCHANGED <<s_state, s_query, s_alive>>

send_profile(arg) ==
    /\ Greeted /\ ~LoginOver
    /\ ServerSends(LoginPacket("game_profile"), arg)
    /\ s_state' = "PLAY"
    /\ UNCHANGED <<s_query, s_alive>>

send_login(arg) ==
    /\ s_state = "PLAY" /\ ~HasSent("login")
    /\ ServerSends(PlayPacket("login"), arg)
    /\ UNCHANGED <<s_state, s_query, s_alive>>

send_keep_alive(arg) ==
    /\ HasSent("login") /\ s_alive = NoArg
    /\ ServerSends(PlayPacket("keep_alive"), arg)
    /\ s_alive' = arg
    /\ UNCHANGED <<s_state, s_query>>

send_play(name, arg) ==
    /\ HasSent("login")
    /\ ServerSends(PlayPacket(name), arg)
    /\ UNCHANGED <<s_state, s_query, s_alive>>

ServerSend ==
    \E arg \in Arg :
        \/ send_query(arg) \/ send_profile(arg) \/ send_login(arg) \/ send_keep_alive(arg)
        \/ \E name \in {"hello", "login_compression", "login_disconnect"} : send_unsupported(name, arg)
        \/ \E name \in {"level_chunk_with_light", "custom_payload", "add_entity"} : send_play(name, arg)

-----------------------------------------------------------------------------
ClientStep == ClientNext /\ UNCHANGED serverVars

SessionNext == ClientStep \/ (LinkFails /\ UNCHANGED serverVars) \/ ServerRead \/ ServerSend

\* The main loop polls the sockets in every frame; the server reads what it has.
SessionFairness == WF_vars(ClientStep) /\ WF_vars(ServerRead)

SessionSpec == SessionInit /\ [][SessionNext]_vars /\ SessionFairness

-----------------------------------------------------------------------------
\* The two sides agree on what each packet is: what the client has handled is
\* what the server sent, each packet read in the state and as the packet the
\* server meant by it, in order and none twice or skipped, although the server
\* sends past a change of state without waiting for the client to follow
\* (on_packet_received looks at m_state for every packet).
Understood == IsPrefix(handled, s_log)

\* No message reaches the server in a state that has no such message, or
\* answers a query or a keep-alive the server does not wait for (on_connect and
\* the handlers answer before the next packet is read, and once).
ServerNeverSurprised == ~s_surprise

\* A session ends on the client's side only when the link fails, when the
\* server turns on encryption or compression, which end in abort(), or with a
\* chunk, whose number of sections is not initialised.
ClientSurvives ==
    process # "running" =>
        \/ link = "down"
        \/ \E i \in 1..Len(handled) :
               handled[i].name \in {"hello", "login_compression", "level_chunk_with_light"}

\* The server gets an answer to every query and every keep-alive it sends, so
\* it never drops the client for silence, unless the session ends in one of the
\* ways above (handle_packet answers them at once).
AllAnswered ==
    \A arg \in Arg :
        /\ s_query = arg ~> s_query # arg \/ link = "down" \/ process # "running"
        /\ s_alive = arg ~> s_alive # arg \/ link = "down" \/ process # "running"
=============================================================================
