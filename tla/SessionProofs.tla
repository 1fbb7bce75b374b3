---------------------------- MODULE SessionProofs ---------------------------
(***************************************************************************)
(* Proofs about client::client and any server whatever: for every number   *)
(* of packets, every id of a query or a keep-alive and every length of the *)
(* inbox, the messages written keep to the protocol's order, packets are   *)
(* read in the state the server's profile puts them in, every query and    *)
(* keep-alive is answered once and in order, and the world is that of the  *)
(* last login.  Then about a session with a server that keeps to the       *)
(* protocol: it is one of the sessions Client allows with any server, so   *)
(* what is proved of those holds of it; the client reads every packet as   *)
(* the server meant it, no answer surprises the server, and the client     *)
(* ends only in the ways that are listed.                                  *)
(***************************************************************************)
EXTENDS Session, Induction, SequenceTheorems

Messages == [name : DOMAIN Turn, arg : Arg \cup {NoArg}]

\* What m_state and the progress of connect say of the messages written and of
\* the packets handled.
ProgressInv ==
    /\ phase = "connecting" => sent = <<>> /\ m_state = "HANDSHAKING"
    /\ phase # "connected" => handled = <<>>
    /\ process = "running" /\ phase = "intention" => Len(sent) = 1 /\ m_state = "LOGIN"
    /\ process = "running" /\ phase = "connected" => Len(sent) >= 2 /\ m_state # "HANDSHAKING"
    /\ m_state = "LOGIN" => \A i \in 1..Len(sent) : Turn[sent[i].name] <= 2
    /\ process = "running" =>
          (m_state = "PLAY" <=> \E j \in 1..Len(handled) : handled[j].name = "game_profile")

ClientInv == ClientTypeOK /\ ProgressInv /\ SessionOrder /\ PlayFollowsProfile

-----------------------------------------------------------------------------
LEMMA TurnTable ==
    /\ DOMAIN Turn = {"client_intention", "hello", "custom_query", "custom_payload",
                      "client_information", "keep_alive"}
    /\ Turn["client_intention"] = 0 /\ Turn["hello"] = 1 /\ Turn["custom_query"] = 2
    /\ Turn["custom_payload"] = 3 /\ Turn["client_information"] = 3 /\ Turn["keep_alive"] = 3
BY DEF Turn

\* A send appends some of its messages, all of them if the process goes on.
LEMMA SendAppends ==
    ASSUME NEW M, sent \in Seq(M), NEW messages \in Seq(M), NEW after, Send(messages, after)
    PROVE  \E n \in 0..Len(messages) :
              /\ sent' \in Seq(M)
              /\ Len(sent') = Len(sent) + n
              /\ \A i \in 1..Len(sent) : sent'[i] = sent[i]
              /\ \A i \in 1..n : sent'[Len(sent) + i] = messages[i]
              /\ process' = IF n < Len(messages) THEN "terminated" ELSE after
<1>1. PICK n \in Written(messages) :
          /\ sent' = sent \o SubSeq(messages, 1, n)
          /\ process' = IF n < Len(messages) THEN "terminated" ELSE after
  BY DEF Send
<1>2. n \in 0..Len(messages)
  BY DEF Written
<1> DEFINE tail == SubSeq(messages, 1, n)
<1>3. tail \in Seq(M) /\ Len(tail) = n /\ \A i \in 1..n : tail[i] = messages[i]
  BY <1>2, SubSeqProperties
<1>4. /\ sent' \in Seq(M) /\ Len(sent') = Len(sent) + n
      /\ \A i \in 1..Len(sent) : sent'[i] = sent[i]
      /\ \A i \in 1..n : sent'[Len(sent) + i] = tail[i]
  <2> HIDE DEF tail
  <2> QED BY <1>1, <1>3, ConcatProperties DEF tail
<1> QED BY <1>1, <1>2, <1>3, <1>4

\* Messages of one turn, not before any already written, keep the order.
LEMMA OrderKept ==
    ASSUME ClientTypeOK, SessionOrder,
           NEW messages \in Seq(Messages), NEW after, Send(messages, after),
           NEW turn \in {2, 3},
           \A i \in 1..Len(messages) : Turn[messages[i].name] = turn,
           \A i \in 1..Len(sent) : Turn[sent[i].name] <= turn,
           Len(sent) >= 2
    PROVE  /\ sent' \in Seq(Messages)
           /\ SessionOrder'
           /\ Len(sent') >= 2
           /\ \A i \in 1..Len(sent') : Turn[sent'[i].name] <= turn
           /\ process' \in {"terminated", after}
<1>1. sent \in Seq(Messages)
  BY DEF ClientTypeOK, Messages
<1>2. PICK n \in 0..Len(messages) :
              /\ sent' \in Seq(Messages)
              /\ Len(sent') = Len(sent) + n
              /\ \A i \in 1..Len(sent) : sent'[i] = sent[i]
              /\ \A i \in 1..n : sent'[Len(sent) + i] = messages[i]
              /\ process' = IF n < Len(messages) THEN "terminated" ELSE after
  BY <1>1, SendAppends
<1>3. ASSUME NEW i \in 1..Len(sent') PROVE
          \/ i \in 1..Len(sent) /\ sent'[i] = sent[i]
          \/ i > Len(sent) /\ Turn[sent'[i].name] = turn /\ sent'[i] \in Messages
  <2>1. CASE i <= Len(sent)
    BY <2>1, <1>2
  <2>2. CASE i > Len(sent)
    <3>1. i - Len(sent) \in 1..n /\ i = Len(sent) + (i - Len(sent))
      BY <2>2, <1>1, <1>2
    <3>2. sent'[i] = messages[i - Len(sent)]
      BY <3>1, <1>2
    <3> QED BY <3>1, <3>2, <2>2, <1>2
  <2> QED BY <2>1, <2>2, <1>1, <1>2
<1>4. \A i \in 1..Len(sent') : Turn[sent'[i].name] <= turn
  BY <1>3
<1>5. ASSUME NEW i \in 1..Len(sent') PROVE
          /\ sent'[i].name = "client_intention" <=> i = 1
          /\ sent'[i].name = "hello" <=> i = 2
          /\ \A j \in 1..i : Turn[sent'[j].name] <= Turn[sent'[i].name]
  <2>1. CASE i \in 1..Len(sent) /\ sent'[i] = sent[i]
    <3>1. \A j \in 1..i : j \in 1..Len(sent) /\ sent'[j] = sent[j]
      BY <2>1, <1>1, <1>2
    <3> QED BY <2>1, <3>1 DEF SessionOrder
  <2>2. CASE i > Len(sent) /\ Turn[sent'[i].name] = turn
    <3>1. sent'[i].name # "client_intention" /\ sent'[i].name # "hello" /\ i > 2
      BY <2>2, <1>1, TurnTable
    <3>2. \A j \in 1..i : j \in 1..Len(sent')
      OBVIOUS
    <3> QED BY <2>2, <3>1, <3>2, <1>4
  <2> QED BY <1>3, <2>1, <2>2
<1> QED BY <1>1, <1>2, <1>4, <1>5 DEF SessionOrder

-----------------------------------------------------------------------------
LEMMA InitClientInv == ClientAssumption /\ ClientInit => ClientInv
BY DEF ClientInit, ClientInv, ClientTypeOK, ProgressInv, SessionOrder, PlayFollowsProfile,
       CLIENTBOUND

LEMMA IntentionInv == ClientInv /\ send_intention => ClientInv'
<1> SUFFICES ASSUME ClientInv, send_intention PROVE ClientInv'
  OBVIOUS
<1> DEFINE messages == <<Message("client_intention", NoArg)>>
<1>1. sent = <<>> /\ m_state = "HANDSHAKING" /\ handled = <<>> /\ process = "running"
  BY DEF ClientInv, ProgressInv, send_intention
<1>2. messages \in Seq(Messages) /\ Len(messages) = 1 /\ messages[1].name = "client_intention"
  BY TurnTable DEF Messages, Message
<1>3. Send(messages, "running")
  BY DEF send_intention
<1> HIDE DEF messages
<1>4. PICK n \in 0..1 :
              /\ sent' \in Seq(Messages)
              /\ Len(sent') = n
              /\ \A i \in 1..n : sent'[i] = messages[i]
              /\ process' = IF n < 1 THEN "terminated" ELSE "running"
  <2>1. sent \in Seq(Messages) /\ Len(sent) = 0
    BY <1>1
  <2> QED BY <2>1, <1>2, <1>3, SendAppends
<1>5. ClientTypeOK'
  BY <1>1, <1>4 DEF ClientInv, ClientTypeOK, send_intention, Messages, CLIENTBOUND
<1>6. SessionOrder'
  <2> SUFFICES ASSUME NEW i \in 1..Len(sent')
               PROVE  /\ sent'[i].name = "client_intention" <=> i = 1
                      /\ sent'[i].name = "hello" <=> i = 2
                      /\ \A j \in 1..i : Turn[sent'[j].name] <= Turn[sent'[i].name]
    BY DEF SessionOrder
  <2>1. i = 1 /\ sent'[1].name = "client_intention"
    BY <1>2, <1>4
  <2> QED BY <2>1, TurnTable
<1>7. ProgressInv'
  BY <1>1, <1>2, <1>4, TurnTable DEF ProgressInv, send_intention
<1>8. PlayFollowsProfile'
  BY DEF ClientInv, PlayFollowsProfile, send_intention
<1> QED BY <1>5, <1>6, <1>7, <1>8 DEF ClientInv

LEMMA HelloInv == ClientInv /\ send_hello => ClientInv'
<1> SUFFICES ASSUME ClientInv, send_hello PROVE ClientInv'
  OBVIOUS
<1> DEFINE messages == <<Message("hello", NoArg)>>
<1>1. /\ sent \in Seq(Messages) /\ Len(sent) = 1 /\ m_state = "LOGIN" /\ handled = <<>>
      /\ sent[1].name = "client_intention"
  <2>1. sent \in Seq(Messages)
    BY DEF ClientInv, ClientTypeOK, Messages
  <2>2. Len(sent) = 1 /\ m_state = "LOGIN" /\ handled = <<>>
    BY DEF ClientInv, ProgressInv, send_hello
  <2>3. sent[1].name = "client_intention"
    BY <2>2 DEF ClientInv, SessionOrder
  <2> QED BY <2>1, <2>2, <2>3
<1>2. messages \in Seq(Messages) /\ Len(messages) = 1 /\ messages[1].name = "hello"
  BY TurnTable DEF Messages, Message
<1>3. Send(messages, "running")
  BY DEF send_hello
<1> HIDE DEF messages
<1>4. PICK n \in 0..1 :
              /\ sent' \in Seq(Messages)
              /\ Len(sent') = 1 + n
              /\ sent'[1] = sent[1]
              /\ n = 1 => sent'[2] = messages[1]
              /\ process' = IF n < 1 THEN "terminated" ELSE "running"
  <2>1. PICK n \in 0..Len(messages) :
              /\ sent' \in Seq(Messages)
              /\ Len(sent') = Len(sent) + n
              /\ \A i \in 1..Len(sent) : sent'[i] = sent[i]
              /\ \A i \in 1..n : sent'[Len(sent) + i] = messages[i]
              /\ process' = IF n < Len(messages) THEN "terminated" ELSE "running"
    BY <1>1, <1>2, <1>3, SendAppends
  <2>2. 1 \in 1..Len(sent) /\ (n = 1 => 1 \in 1..n)
    BY <1>1
  <2> QED BY <2>1, <2>2, <1>1, <1>2
<1>5. ClientTypeOK'
  BY <1>1, <1>4 DEF ClientInv, ClientTypeOK, send_hello, Messages
<1>6. SessionOrder'
  BY <1>1, <1>2, <1>4, TurnTable DEF SessionOrder
<1>7. ProgressInv'
  BY <1>1, <1>2, <1>4, TurnTable DEF ClientInv, ProgressInv, send_hello
<1>8. PlayFollowsProfile'
  BY DEF ClientInv, PlayFollowsProfile, send_hello
<1> QED BY <1>5, <1>6, <1>7, <1>8 DEF ClientInv

-----------------------------------------------------------------------------
Names == Parsed \cup Ignored \cup Unsupported \cup {"unknown"}

\* Which packets there are in which state.
LEMMA PacketNames ==
    ASSUME NEW state \in {"LOGIN", "PLAY"}, NEW id \in 1..6
    PROVE  /\ PacketName(state, id) \in Names
           /\ PacketName(state, id) \in {"custom_query", "game_profile"} => state = "LOGIN"
           /\ PacketName(state, id) \in {"login", "keep_alive"} => state = "PLAY"
<1>1. CASE state = "LOGIN"
  <2> DEFINE names == <<"hello", "game_profile", "login_compression", "custom_query",
                        "login_disconnect">>
  <2>1. CLIENTBOUND[state] = names
    BY <1>1 DEF CLIENTBOUND
  <2>2. DOMAIN names = 1..5 /\ \A i \in 1..5 : names[i] \in Names \ {"login", "keep_alive"}
    BY DEF Names, Parsed, Ignored, Unsupported
  <2> HIDE DEF names
  <2> QED BY <1>1, <2>1, <2>2 DEF PacketName, Names
<1>2. CASE state = "PLAY"
  <2> DEFINE names == <<"login", "keep_alive", "level_chunk_with_light", "custom_payload",
                        "add_entity">>
  <2>1. CLIENTBOUND[state] = names
    BY <1>2 DEF CLIENTBOUND
  <2>2. DOMAIN names = 1..5 /\ \A i \in 1..5 : names[i] \in Names \ {"custom_query", "game_profile"}
    BY DEF Names, Parsed, Ignored, Unsupported
  <2> HIDE DEF names
  <2> QED BY <1>2, <2>1, <2>2 DEF PacketName, Names
<1> QED BY <1>1, <1>2

\* What receiving a packet means for the history and the inbox.
LEMMA Received ==
    ASSUME ClientInv, inbox # <<>>, NEW p, p = Head(inbox), Receive(p)
    PROVE  /\ process = "running" /\ phase = "connected" /\ UNCHANGED <<phase, link>>
           /\ m_state \in {"LOGIN", "PLAY"}
           /\ p \in Packet
           /\ inbox' \in Seq(Packet)
           /\ handled' \in Seq(Handled)
           /\ PlayFollowsProfile'
           /\ (\E j \in 1..Len(handled') : handled'[j].name = "game_profile")
                 <=> \/ \E j \in 1..Len(handled) : handled[j].name = "game_profile"
                     \/ PacketName(m_state, p.id) = "game_profile"
<1> DEFINE this == [state |-> m_state, name |-> PacketName(m_state, p.id),
                    arg |-> p.arg, body |-> p.body]
<1>1. process = "running" /\ phase = "connected" /\ UNCHANGED <<phase, link>>
      /\ inbox' = Tail(inbox) /\ handled' = Append(handled, this)
  BY DEF Receive
<1>2. m_state \in {"LOGIN", "PLAY"}
  BY <1>1 DEF ClientInv, ClientTypeOK, ProgressInv, CLIENTBOUND
<1>3. inbox \in Seq(Packet) /\ handled \in Seq(Handled)
  BY DEF ClientInv, ClientTypeOK
<1>4. p \in Packet /\ inbox' \in Seq(Packet)
  BY <1>1, <1>3, HeadTailProperties
<1>5. this \in Handled
  BY <1>2, <1>4, PacketNames DEF Packet, Handled, Names
<1> HIDE DEF this
<1>6. /\ handled' \in Seq(Handled)
      /\ Len(handled') = Len(handled) + 1
      /\ \A i \in 1..Len(handled) : handled'[i] = handled[i]
      /\ handled'[Len(handled) + 1] = this
  BY <1>1, <1>3, <1>5, AppendProperties
<1>7. this.name = PacketName(m_state, p.id) /\ this.state = m_state
  BY DEF this
<1>8. Len(handled) \in Nat
  BY <1>3
<1>9. (\E j \in 1..Len(handled') : handled'[j].name = "game_profile")
         <=> \/ \E j \in 1..Len(handled) : handled[j].name = "game_profile"
             \/ PacketName(m_state, p.id) = "game_profile"
  BY <1>6, <1>7, <1>8
<1>10. ASSUME NEW i \in 1..Len(handled')
       PROVE  handled'[i].state = "PLAY" <=>
                  \E j \in 1..(i - 1) : handled'[j].name = "game_profile"
  <2>1. CASE i \in 1..Len(handled)
    <3>1. \A j \in 1..(i - 1) : j \in 1..Len(handled)
      BY <2>1, <1>8
    <3> QED BY <2>1, <3>1, <1>6 DEF ClientInv, PlayFollowsProfile
  <2>2. CASE i = Len(handled) + 1
    <3>1. 1..(i - 1) = 1..Len(handled)
      BY <2>2, <1>8
    <3>2. m_state = "PLAY" <=> \E j \in 1..Len(handled) : handled[j].name = "game_profile"
      BY <1>1 DEF ClientInv, ProgressInv
    <3> QED BY <2>2, <3>1, <3>2, <1>6, <1>7
  <2> QED BY <1>6, <1>8, <2>1, <2>2
<1> QED BY <1>1, <1>2, <1>4, <1>6, <1>9, <1>10 DEF PlayFollowsProfile

\* A handler that leaves m_state alone and goes on only if it is not the one of
\* the profile keeps the invariant if what it sends does.
LEMMA HandlerInv ==
    ASSUME ClientInv, inbox # <<>>, NEW p, p = Head(inbox), Receive(p), UNCHANGED m_state,
           m_world' = <<>> \/ (Len(m_world') = 1 /\ m_world'[1] \subseteq Arg),
           process' \in {"running", "terminated", "aborted"},
           process' = "running" => PacketName(m_state, p.id) # "game_profile",
           sent' \in Seq(Messages), SessionOrder', Len(sent') >= 2,
           m_state = "LOGIN" => \A i \in 1..Len(sent') : Turn[sent'[i].name] <= 2
    PROVE  ClientInv'
<1>1. ClientTypeOK'
  BY Received DEF ClientInv, ClientTypeOK, Messages
<1>2. ProgressInv'
  BY Received DEF ClientInv, ProgressInv
<1> QED BY <1>1, <1>2, Received DEF ClientInv

\* The messages there are when a packet is received.
LEMMA SentBefore ==
    ASSUME ClientInv, NEW p, Receive(p)
    PROVE  /\ sent \in Seq(Messages) /\ SessionOrder /\ Len(sent) >= 2
           /\ m_state = "LOGIN" => \A i \in 1..Len(sent) : Turn[sent[i].name] <= 2
           /\ \A i \in 1..Len(sent) : Turn[sent[i].name] <= 3
<1>1. sent \in Seq(Messages) /\ SessionOrder /\ Len(sent) >= 2
      /\ (m_state = "LOGIN" => \A i \in 1..Len(sent) : Turn[sent[i].name] <= 2)
  BY DEF ClientInv, ClientTypeOK, ProgressInv, Receive, Messages
<1>2. \A i \in 1..Len(sent) : sent[i] \in Messages
  BY <1>1
<1>3. \A i \in 1..Len(sent) : Turn[sent[i].name] <= 3
  BY <1>2, TurnTable DEF Messages
<1> QED BY <1>1, <1>3

-----------------------------------------------------------------------------
\* The worlds the handlers leave are worlds.
LEMMA WorldKept ==
    ASSUME ClientInv, NEW position \in Arg,
           UNCHANGED m_world \/ m_world' = <<{}>> \/ (m_world # <<>> /\ GetColumn(position))
    PROVE  m_world' = <<>> \/ (Len(m_world') = 1 /\ m_world'[1] \subseteq Arg)
BY DEF ClientInv, ClientTypeOK, GetColumn

\* A handler that sends nothing.
LEMMA SilentInv ==
    ASSUME ClientInv, inbox # <<>>, NEW p, p = Head(inbox), Receive(p), UNCHANGED <<m_state, sent>>,
           UNCHANGED m_world \/ (m_world # <<>> /\ GetColumn(p.arg)),
           process' \in {"running", "terminated", "aborted"},
           process' = "running" => PacketName(m_state, p.id) # "game_profile"
    PROVE  ClientInv'
<1>1. p.arg \in Arg
  BY Received DEF Packet
<1>2. m_world' = <<>> \/ (Len(m_world') = 1 /\ m_world'[1] \subseteq Arg)
  BY <1>1, WorldKept
<1>3. sent' \in Seq(Messages) /\ SessionOrder' /\ Len(sent') >= 2
      /\ (m_state = "LOGIN" => \A i \in 1..Len(sent') : Turn[sent'[i].name] <= 2)
  BY SentBefore DEF SessionOrder
<1> QED BY <1>2, <1>3, HandlerInv

\* A handler that answers with messages of one turn.
LEMMA AnswerInv ==
    ASSUME ClientInv, inbox # <<>>, NEW p, p = Head(inbox), Receive(p), UNCHANGED m_state,
           UNCHANGED m_world \/ m_world' = <<{}>>,
           NEW after \in {"running", "terminated"},
           NEW messages \in Seq(Messages), Send(messages, after),
           NEW turn \in {2, 3},
           \A i \in 1..Len(messages) : Turn[messages[i].name] = turn,
           m_state = IF turn = 2 THEN "LOGIN" ELSE "PLAY",
           PacketName(m_state, p.id) # "game_profile"
    PROVE  ClientInv'
<1>1. p.arg \in Arg
  BY Received DEF Packet
<1>2. m_world' = <<>> \/ (Len(m_world') = 1 /\ m_world'[1] \subseteq Arg)
  BY <1>1, WorldKept
<1>3. \A i \in 1..Len(sent) : Turn[sent[i].name] <= turn
  BY SentBefore
<1>4. /\ sent' \in Seq(Messages)
      /\ SessionOrder'
      /\ Len(sent') >= 2
      /\ \A i \in 1..Len(sent') : Turn[sent'[i].name] <= turn
      /\ process' \in {"terminated", after}
  <2>1. ClientTypeOK /\ SessionOrder /\ Len(sent) >= 2
    BY SentBefore DEF ClientInv
  <2> QED BY <1>3, <2>1, OrderKept
<1> QED BY <1>2, <1>4, HandlerInv

LEMMA AfterwardsRange ==
    ASSUME NEW p, NEW name PROVE Afterwards(p, name) \in {"running", "terminated"}
BY DEF Afterwards

LEMMA MessageType ==
    ASSUME NEW name \in DOMAIN Turn, NEW arg \in Arg \cup {NoArg}
    PROVE  /\ Message(name, arg) \in Messages
           /\ Message(name, arg).name = name
BY DEF Message, Messages

LEMMA PacketInv == ClientInv /\ inbox # <<>> /\ on_packet_received(Head(inbox)) => ClientInv'
<1> SUFFICES ASSUME ClientInv, inbox # <<>>, on_packet_received(Head(inbox)) PROVE ClientInv'
  OBVIOUS
<1> DEFINE p == Head(inbox)
<1>p. p = Head(inbox)
  OBVIOUS
<1> HIDE DEF p
<1>1. CASE handle_unknown(p)
  BY <1>p, <1>1, SilentInv DEF handle_unknown
<1>2. CASE handle_ignored(p)
  <2>1. process' = "running" /\ PacketName(m_state, p.id) # "game_profile"
    BY <1>2 DEF handle_ignored, Receive, Ignored
  <2> QED BY <1>p, <1>2, <2>1, SilentInv DEF handle_ignored
<1>3. CASE handle_unsupported(p)
  BY <1>p, <1>3, SilentInv DEF handle_unsupported
<1>4. CASE handle_unparsable(p)
  <2>1. Receive(p) /\ UNCHANGED <<m_state, sent>>
    BY <1>4 DEF handle_unparsable
  <2>2. process' \in {"terminated", "aborted"}
    BY <1>4 DEF handle_unparsable
  <2>3. UNCHANGED m_world \/ (m_world # <<>> /\ GetColumn(p.arg))
    BY <1>4 DEF handle_unparsable
  <2> QED BY <1>p, <2>1, <2>2, <2>3, SilentInv
<1>5. CASE handle_custom_query(p)
  <2> DEFINE messages == <<Message("custom_query", p.arg)>>
  <2>1. Receive(p) /\ PacketName(m_state, p.id) = "custom_query"
        /\ Send(messages, Afterwards(p, "custom_query")) /\ UNCHANGED <<m_state, m_world>>
    BY <1>5 DEF handle_custom_query, Handles
  <2>2. m_state = "LOGIN" /\ p.arg \in Arg
    BY <1>p, <2>1, Received, PacketNames DEF Packet
  <2>3. messages \in Seq(Messages) /\ \A i \in 1..Len(messages) : Turn[messages[i].name] = 2
    BY <2>2, MessageType, TurnTable
  <2> HIDE DEF messages
  <2> QED BY <1>p, <2>1, <2>2, <2>3, AnswerInv, AfterwardsRange
<1>6. CASE handle_game_profile(p)
  <2>1. Receive(p) /\ PacketName(m_state, p.id) = "game_profile" /\ m_state' = "PLAY"
        /\ process' = Afterwards(p, "game_profile") /\ UNCHANGED <<m_world, sent>>
    BY <1>6 DEF handle_game_profile, Handles
  <2>2. process' \in {"running", "terminated"}
    BY <2>1, AfterwardsRange
  <2>3. ClientTypeOK'
    BY <1>p, <2>1, <2>2, Received DEF ClientInv, ClientTypeOK, CLIENTBOUND
  <2>4. ProgressInv'
    BY <1>p, <2>1, <2>2, Received, SentBefore DEF ClientInv, ProgressInv
  <2>5. SessionOrder'
    BY <2>1 DEF ClientInv, SessionOrder
  <2> QED BY <1>p, <2>1, <2>3, <2>4, <2>5, Received DEF ClientInv
<1>7. CASE handle_login(p)
  <2> DEFINE messages == <<Message("custom_payload", NoArg), Message("client_information", NoArg)>>
  <2>1. Receive(p) /\ PacketName(m_state, p.id) = "login" /\ m_world' = <<{}>>
        /\ Send(messages, Afterwards(p, "login")) /\ UNCHANGED m_state
    BY <1>7 DEF handle_login, Handles
  <2>2. m_state = "PLAY"
    BY <1>p, <2>1, Received, PacketNames DEF Packet
  <2>3. messages \in Seq(Messages) /\ \A i \in 1..Len(messages) : Turn[messages[i].name] = 3
    BY MessageType, TurnTable
  <2> HIDE DEF messages
  <2> QED BY <1>p, <2>1, <2>2, <2>3, AnswerInv, AfterwardsRange
<1>8. CASE handle_keep_alive(p)
  <2> DEFINE messages == <<Message("keep_alive", p.arg)>>
  <2>1. Receive(p) /\ PacketName(m_state, p.id) = "keep_alive"
        /\ Send(messages, Afterwards(p, "keep_alive")) /\ UNCHANGED <<m_state, m_world>>
    BY <1>8 DEF handle_keep_alive, Handles
  <2>2. m_state = "PLAY" /\ p.arg \in Arg
    BY <1>p, <2>1, Received, PacketNames DEF Packet
  <2>3. messages \in Seq(Messages) /\ \A i \in 1..Len(messages) : Turn[messages[i].name] = 3
    BY <2>2, MessageType, TurnTable
  <2> HIDE DEF messages
  <2> QED BY <1>p, <2>1, <2>2, <2>3, AnswerInv, AfterwardsRange
<1>9. CASE handle_custom_payload(p)
  <2>1. Receive(p) /\ PacketName(m_state, p.id) = "custom_payload"
        /\ process' = Afterwards(p, "custom_payload") /\ UNCHANGED <<m_state, m_world, sent>>
    BY <1>9 DEF handle_custom_payload, Handles
  <2> QED BY <1>p, <2>1, AfterwardsRange, SilentInv
<1>10. CASE handle_level_chunk_with_light(p)
  <2>1. Receive(p) /\ PacketName(m_state, p.id) = "level_chunk_with_light"
        /\ UNCHANGED <<m_state, sent>> /\ process' \in {"running", "terminated", "aborted"}
        /\ (UNCHANGED m_world \/ (m_world # <<>> /\ GetColumn(p.arg)))
    BY <1>10 DEF handle_level_chunk_with_light, Handles
  <2> QED BY <1>p, <2>1, SilentInv
<1> QED BY <1>p, <1>1, <1>2, <1>3, <1>4, <1>5, <1>6, <1>7, <1>8, <1>9, <1>10
        DEF on_packet_received

LEMMA OutsideInv == ClientInv /\ (LinkFails \/ \E p \in Packet : Deliver(p)) => ClientInv'
<1> SUFFICES ASSUME ClientInv, LinkFails \/ \E p \in Packet : Deliver(p) PROVE ClientInv'
  OBVIOUS
<1>1. ClientTypeOK'
  <2>1. CASE LinkFails
    BY <2>1 DEF ClientInv, ClientTypeOK, LinkFails
  <2>2. ASSUME NEW p \in Packet, Deliver(p) PROVE ClientTypeOK'
    <3>1. inbox' \in Seq(Packet)
      BY <2>2, AppendProperties DEF ClientInv, ClientTypeOK, Deliver
    <3> QED BY <2>2, <3>1 DEF ClientInv, ClientTypeOK, Deliver
  <2> QED BY <2>1, <2>2
<1>2. UNCHANGED <<m_state, phase, process, sent, handled>>
  BY DEF LinkFails, Deliver
<1>3. ProgressInv' /\ SessionOrder' /\ PlayFollowsProfile'
  BY <1>2 DEF ClientInv, ProgressInv, SessionOrder, PlayFollowsProfile
<1> QED BY <1>1, <1>3 DEF ClientInv

LEMMA NextClientInv == ClientInv /\ [AnyServerNext]_clientVars => ClientInv'
<1> SUFFICES ASSUME ClientInv, [AnyServerNext]_clientVars PROVE ClientInv'
  OBVIOUS
<1>1. CASE ClientNext
  BY <1>1, IntentionInv, HelloInv, PacketInv DEF ClientNext
<1>2. CASE LinkFails \/ \E p \in Packet : Deliver(p)
  BY <1>2, OutsideInv
<1>3. CASE UNCHANGED clientVars
  BY <1>3 DEF clientVars, ClientInv, ClientTypeOK, ProgressInv, SessionOrder, PlayFollowsProfile
<1> QED BY <1>1, <1>2, <1>3 DEF AnyServerNext

LEMMA ClientInvariant == AnyServerSpec => []ClientInv
<1>1. ClientInit => ClientInv
  BY ClientAssumption, InitClientInv
<1> QED BY <1>1, NextClientInv, PTL DEF AnyServerSpec

-----------------------------------------------------------------------------
\* Every variable of client::client keeps its type, whatever arrives.
THEOREM ClientTypeSafe == AnyServerSpec => []ClientTypeOK
BY ClientInvariant, PTL DEF ClientInv

\* The messages written keep to the order the protocol has, whatever the server
\* sends and whenever it arrives (on_connect and the handlers).
THEOREM ClientSessionOrder == AnyServerSpec => []SessionOrder
BY ClientInvariant, PTL DEF ClientInv

\* Each packet is read as one of PLAY exactly if the profile was read before it
\* (on_packet_received, handle_packet<game_profile_packet>).
THEOREM ClientPlayFollowsProfile == AnyServerSpec => []PlayFollowsProfile
BY ClientInvariant, PTL DEF ClientInv

-----------------------------------------------------------------------------
(* What is answered.                                                       *)

LEMMA FlattenAppend ==
    ASSUME NEW M, NEW s \in Seq(Seq(M)), NEW e \in Seq(M)
    PROVE  FlattenSeq(Append(s, e)) = FlattenSeq(s) \o e
<1> DEFINE t == Append(s, e)
<1>1. /\ t \in Seq(Seq(M)) /\ Len(s) \in Nat /\ Len(t) = Len(s) + 1 /\ t[Len(s) + 1] = e
      /\ \A i \in 1..Len(s) : t[i] = s[i]
  OBVIOUS
<1> HIDE DEF t
<1>2. PICK g : Flattens(g, t, M) /\ FlattenSeq(t) = g[Len(t)]
  <2>1. Len(t) # 0
    BY <1>1
  <2> QED BY <1>1, <2>1, FlattenDef
<1>3. CASE Len(s) = 0
  <2>1. s = <<>>
    BY <1>3
  <2>2. FlattenSeq(s) = <<>>
    BY <2>1 DEF FlattenSeq
  <2>3. FlattenSeq(t) = e
    BY <1>1, <1>2, <1>3 DEF Flattens
  <2> QED BY <2>2, <2>3 DEF t
<1>4. CASE Len(s) # 0
  <2>1. PICK f : Flattens(f, s, M) /\ FlattenSeq(s) = f[Len(s)]
    BY <1>4, FlattenDef
  <2> DEFINE S == {i \in Nat : i \in 1..Len(s) => f[i] = g[i]}
  <2>2. 0 \in S
    OBVIOUS
  <2>3. ASSUME NEW i \in Nat, i \in S PROVE i + 1 \in S
    <3>1. CASE i + 1 \notin 1..Len(s)
      BY <3>1
    <3>2. CASE i + 1 = 1
      <4>1. f[1] = s[1] /\ g[1] = t[1] /\ s[1] = t[1]
        BY <1>1, <1>2, <1>4, <2>1 DEF Flattens
      <4> QED BY <3>2, <4>1
    <3>3. CASE i + 1 \in 1..Len(s) /\ i + 1 # 1
      <4>1. i + 1 \in 2..Len(s) /\ i + 1 \in 2..Len(t) /\ i \in 1..Len(s) /\ (i + 1) - 1 = i
        BY <1>1, <3>3
      <4>2. f[i + 1] = f[i] \o s[i + 1]
        BY <2>1, <4>1 DEF Flattens
      <4>3. g[i + 1] = g[i] \o t[i + 1]
        BY <1>2, <4>1 DEF Flattens
      <4>4. f[i] = g[i] /\ s[i + 1] = t[i + 1]
        BY <1>1, <2>3, <3>3, <4>1
      <4>5. f[i + 1] = g[i + 1]
        BY <4>2, <4>3, <4>4
      <4> QED BY <4>5
    <3> QED BY <3>1, <3>2, <3>3
  <2>4. Nat \subseteq S
    <3> HIDE DEF S
    <3> QED BY <2>2, <2>3, NaturalInduction
  <2>5. f[Len(s)] = g[Len(s)]
    BY <1>1, <1>4, <2>4
  <2>6. g[Len(t)] = g[Len(s)] \o e
    <3>1. Len(t) \in 2..Len(t) /\ Len(t) - 1 = Len(s)
      BY <1>1, <1>4
    <3> QED BY <1>1, <1>2, <3>1 DEF Flattens
  <2> QED BY <1>2, <2>1, <2>5, <2>6 DEF t
<1> QED BY <1>3, <1>4

\* What the packets of h are answered with, one after the other.
AllAnswers(h) == FlattenSeq([i \in 1..Len(h) |-> AnswersTo(h[i])])

LEMMA AnswersToType ==
    ASSUME NEW h \in Handled
    PROVE  AnswersTo(h) \in Seq(Messages)
<1>1. h.arg \in Arg
  BY DEF Handled
<1>2. /\ <<Message("custom_query", h.arg)>> \in Seq(Messages)
      /\ <<Message("keep_alive", h.arg)>> \in Seq(Messages)
      /\ <<Message("custom_payload", NoArg), Message("client_information", NoArg)>> \in Seq(Messages)
  BY <1>1, MessageType, TurnTable
<1>3. <<>> \in Seq(Messages)
  OBVIOUS
<1> QED BY <1>2, <1>3 DEF AnswersTo

LEMMA AnswersAppend ==
    ASSUME NEW h \in Seq(Handled), NEW x \in Handled
    PROVE  /\ AllAnswers(h) \in Seq(Messages)
           /\ AllAnswers(Append(h, x)) = AllAnswers(h) \o AnswersTo(x)
<1> DEFINE s == [i \in 1..Len(h) |-> AnswersTo(h[i])]
           t == [i \in 1..Len(Append(h, x)) |-> AnswersTo(Append(h, x)[i])]
<1>1. /\ Len(h) \in Nat /\ \A i \in 1..Len(h) : h[i] \in Handled
      /\ Len(Append(h, x)) = Len(h) + 1 /\ Append(h, x)[Len(h) + 1] = x
      /\ \A i \in 1..Len(h) : Append(h, x)[i] = h[i]
  OBVIOUS
<1>2. s \in Seq(Seq(Messages))
  <2>1. \A i \in 1..Len(h) : AnswersTo(h[i]) \in Seq(Messages)
    BY <1>1, AnswersToType
  <2> QED BY <1>1, <2>1
<1>3. Len(s) = Len(h)
  BY <1>1
<1>4. AnswersTo(x) \in Seq(Messages)
  BY AnswersToType
<1>5. t = Append(s, AnswersTo(x))
  <2>1. DOMAIN t = 1..(Len(h) + 1)
    BY <1>1
  <2>2. /\ Append(s, AnswersTo(x)) \in Seq(Seq(Messages))
        /\ Len(Append(s, AnswersTo(x))) = Len(h) + 1
        /\ Append(s, AnswersTo(x))[Len(h) + 1] = AnswersTo(x)
        /\ \A i \in 1..Len(h) : Append(s, AnswersTo(x))[i] = s[i]
    <3> HIDE DEF s
    <3> QED BY <1>2, <1>3, <1>4, AppendProperties
  <2>3. \A i \in 1..(Len(h) + 1) : t[i] = Append(s, AnswersTo(x))[i]
    <3> SUFFICES ASSUME NEW i \in 1..(Len(h) + 1) PROVE t[i] = Append(s, AnswersTo(x))[i]
      OBVIOUS
    <3>1. t[i] = AnswersTo(Append(h, x)[i])
      BY <1>1
    <3>2. CASE i = Len(h) + 1
      BY <3>1, <3>2, <1>1, <2>2
    <3>3. CASE i \in 1..Len(h)
      <4>1. s[i] = AnswersTo(h[i])
        BY <3>3
      <4> HIDE DEF s, t
      <4> QED BY <3>1, <3>3, <4>1, <1>1, <2>2
    <3> QED BY <1>1, <3>2, <3>3
  <2> HIDE DEF s
  <2>4. DOMAIN Append(s, AnswersTo(x)) = 1..(Len(h) + 1)
    BY <2>2
  <2>5. t \in Seq(Seq(Messages)) /\ Len(t) = Len(h) + 1
    <3>1. \A i \in 1..(Len(h) + 1) : Append(s, AnswersTo(x))[i] \in Seq(Messages)
      BY <1>1, <2>2, <2>4, ElementOfSeq
    <3>2. \A i \in 1..(Len(h) + 1) : t[i] \in Seq(Messages)
      <4> HIDE DEF t
      <4> QED BY <2>3, <3>1
    <3> QED BY <1>1, <3>2
  <2> DEFINE u == Append(s, AnswersTo(x))
  <2>6. u \in Seq(Seq(Messages)) /\ Len(u) = Len(h) + 1 /\ \A i \in 1..(Len(h) + 1) : t[i] = u[i]
    BY <2>2, <2>3
  <2>7. t = u
    <3> HIDE DEF t, u
    <3> QED BY <2>5, <2>6, SeqEqual
  <2> QED BY <2>7
<1>6. FlattenSeq(s) \in Seq(Messages)
  <2> HIDE DEF s
  <2> QED BY <1>2, FlattenType
<1>7. FlattenSeq(Append(s, AnswersTo(x))) = FlattenSeq(s) \o AnswersTo(x)
  <2> HIDE DEF s
  <2> QED BY <1>2, <1>4, FlattenAppend
<1> QED BY <1>5, <1>6, <1>7 DEF AllAnswers

\* What follows the first two messages grows as the messages do.
LEMMA RestAppend ==
    ASSUME NEW M, NEW s \in Seq(M), NEW e \in Seq(M), Len(s) >= 2
    PROVE  SubSeq(s \o e, 3, Len(s \o e)) = SubSeq(s, 3, Len(s)) \o e
<1>1. /\ Len(s) \in Nat /\ Len(e) \in Nat
      /\ s \o e \in Seq(M) /\ Len(s \o e) = Len(s) + Len(e)
      /\ \A i \in 1..(Len(s) + Len(e)) :
            (s \o e)[i] = IF i <= Len(s) THEN s[i] ELSE e[i - Len(s)]
  BY ConcatProperties
<1>0. Len(s) \in Nat /\ Len(s) >= 2
  OBVIOUS
<1> DEFINE l == SubSeq(s \o e, 3, Len(s \o e))
           r == SubSeq(s, 3, Len(s))
<1>2. r \in Seq(M) /\ Len(r) = Len(s) - 2 /\ \A i \in 1..(Len(s) - 2) : r[i] = s[i + 2]
  <2>1. /\ r \in Seq(M)
        /\ Len(r) = IF 3 <= Len(s) THEN Len(s) - 3 + 1 ELSE 0
        /\ \A i \in 1..(Len(s) - 3 + 1) : r[i] = s[3 + i - 1]
    BY SubSeqProperties
  <2> HIDE DEF l, r
  <2>2. Len(r) = Len(s) - 2
    <3>1. Len(r) = IF 3 <= Len(s) THEN Len(s) - 3 + 1 ELSE 0
      BY <2>1, Zenon
    <3>2. Len(s) \in Nat /\ (Len(s) = 2 \/ 3 <= Len(s))
      <4>1. \A k \in Nat : k >= 2 => k = 2 \/ 3 <= k
        OBVIOUS
      <4> QED BY <1>0, <4>1, Zenon
    <3>3. CASE Len(s) = 2
      BY <3>1, <3>3
    <3>4. CASE 3 <= Len(s)
      BY <3>1, <3>2, <3>4
    <3> QED BY <3>2, <3>3, <3>4
  <2>3. ASSUME NEW i \in 1..(Len(s) - 2) PROVE r[i] = s[i + 2]
    <3>1. i \in 1..(Len(s) - 3 + 1) /\ 3 + i - 1 = i + 2
      BY <1>1
    <3> QED BY <2>1, <3>1
  <2> QED BY <2>1, <2>2, <2>3
<1>3. l \in Seq(M) /\ Len(l) = Len(s) + Len(e) - 2
      /\ \A i \in 1..(Len(s) + Len(e) - 2) : l[i] = (s \o e)[i + 2]
  <2> DEFINE a == s \o e
  <2> HIDE DEF a
  <2>1. a \in Seq(M) /\ Len(a) = Len(s) + Len(e)
    BY <1>1 DEF a
  <2>2. /\ SubSeq(a, 3, Len(a)) \in Seq(M)
        /\ Len(SubSeq(a, 3, Len(a))) = IF 3 <= Len(a) THEN Len(a) - 3 + 1 ELSE 0
        /\ \A i \in 1..(Len(a) - 3 + 1) : SubSeq(a, 3, Len(a))[i] = a[3 + i - 1]
    BY <2>1, SubSeqProperties
  <2>3. /\ SubSeq(a, 3, Len(a)) \in Seq(M)
        /\ Len(SubSeq(a, 3, Len(a))) = Len(s) + Len(e) - 2
        /\ \A i \in 1..(Len(s) + Len(e) - 2) : SubSeq(a, 3, Len(a))[i] = a[i + 2]
    BY <1>1, <2>1, <2>2
  <2> QED BY <2>3 DEF a
<1> HIDE DEF l, r
<1>4. r \o e \in Seq(M) /\ Len(r \o e) = Len(s) + Len(e) - 2
      /\ \A i \in 1..(Len(s) + Len(e) - 2) :
            (r \o e)[i] = IF i <= Len(s) - 2 THEN r[i] ELSE e[i - (Len(s) - 2)]
  <2>1. /\ r \o e \in Seq(M) /\ Len(r \o e) = Len(r) + Len(e)
        /\ \A i \in 1..(Len(r) + Len(e)) :
              (r \o e)[i] = IF i <= Len(r) THEN r[i] ELSE e[i - Len(r)]
    BY <1>2, ConcatProperties
  <2>2. Len(r) = Len(s) - 2 /\ Len(r) + Len(e) = Len(s) + Len(e) - 2
    BY <1>1, <1>2
  <2> QED BY <2>1, <2>2
<1>5. ASSUME NEW i \in 1..(Len(s) + Len(e) - 2) PROVE l[i] = (r \o e)[i]
  <2>1. i + 2 \in 1..(Len(s) + Len(e)) /\ i + 2 - Len(s) = i - (Len(s) - 2)
    BY <1>1
  <2>2. l[i] = IF i + 2 <= Len(s) THEN s[i + 2] ELSE e[i - (Len(s) - 2)]
    BY <1>1, <1>3, <2>1
  <2>3. CASE i + 2 <= Len(s)
    BY <2>2, <2>3, <1>1, <1>2, <1>4
  <2>4. CASE ~(i + 2 <= Len(s))
    BY <2>2, <2>4, <1>1, <1>4
  <2> QED BY <2>3, <2>4
<1> QED BY <1>3, <1>4, <1>5, SeqEqual DEF l, r

LEMMA PrefixOfConcat ==
    ASSUME NEW M, NEW s \in Seq(M), NEW e \in Seq(M), NEW n \in 0..Len(e)
    PROVE  /\ IsPrefix(s \o SubSeq(e, 1, n), s \o e)
           /\ Len(s \o e) - Len(s \o SubSeq(e, 1, n)) <= Len(e)
           /\ n = Len(e) => s \o SubSeq(e, 1, n) = s \o e
<1> DEFINE r == SubSeq(e, 1, n)
<1>1. r \in Seq(M) /\ Len(r) = n /\ \A i \in 1..n : r[i] = e[i]
  BY SubSeqProperties
<1>2. n = Len(e) => r = e
  OBVIOUS
<1> HIDE DEF r
<1>3. /\ s \o e \in Seq(M) /\ Len(s \o e) = Len(s) + Len(e)
      /\ \A i \in 1..(Len(s) + Len(e)) :
            (s \o e)[i] = IF i <= Len(s) THEN s[i] ELSE e[i - Len(s)]
  BY ConcatProperties
<1>4. /\ s \o r \in Seq(M) /\ Len(s \o r) = Len(s) + n
      /\ \A i \in 1..(Len(s) + n) :
            (s \o r)[i] = IF i <= Len(s) THEN s[i] ELSE r[i - Len(s)]
  BY <1>1, ConcatProperties
<1>5. Len(s) \in Nat /\ Len(e) \in Nat
  OBVIOUS
<1>6. ASSUME NEW i \in 1..(Len(s) + n) PROVE (s \o r)[i] = (s \o e)[i]
  <2>1. i \in 1..(Len(s) + Len(e))
    BY <1>5
  <2>2. CASE i <= Len(s)
    BY <1>3, <1>4, <2>1, <2>2
  <2>3. CASE i > Len(s)
    <3>1. i - Len(s) \in 1..n
      BY <1>5, <2>3
    <3>2. ~(i <= Len(s))
      BY <1>5, <2>3
    <3>3. (s \o r)[i] = r[i - Len(s)]
      BY <1>4, <3>2
    <3>4. (s \o e)[i] = e[i - Len(s)]
      BY <1>3, <2>1, <3>2
    <3> QED BY <1>1, <3>1, <3>3, <3>4
  <2>4. i <= Len(s) \/ i > Len(s)
    BY <1>5
  <2> QED BY <2>2, <2>3, <2>4, Zenon
<1>7. SubSeq(s \o r, 1, Len(s \o r)) = SubSeq(s \o e, 1, Len(s \o r))
  <2> DEFINE a == s \o r
             b == s \o e
  <2>1. a \in Seq(M) /\ b \in Seq(M) /\ Len(a) <= Len(b) /\ \A i \in 1..Len(a) : a[i] = b[i]
    BY <1>3, <1>4, <1>5, <1>6
  <2> HIDE DEF a, b
  <2>2. SubSeq(a, 1, Len(a)) = SubSeq(b, 1, Len(a))
    BY <2>1
  <2> QED BY <2>2 DEF a, b
<1>8. IsPrefix(s \o r, s \o e)
  <2> DEFINE a == s \o r
             b == s \o e
  <2>1. Len(a) <= Len(b) /\ SubSeq(a, 1, Len(a)) = SubSeq(b, 1, Len(a))
    BY <1>3, <1>4, <1>5, <1>7
  <2> HIDE DEF a, b
  <2>2. IsPrefix(a, b)
    BY <2>1 DEF IsPrefix
  <2> QED BY <2>2 DEF a, b
<1>9. Len(s \o e) - Len(s \o r) <= Len(e)
  <2> QED BY <1>3, <1>4, <1>5
<1> QED BY <1>2, <1>8, <1>9 DEF r

LEMMA NoAnswers == AllAnswers(<<>>) = <<>>
<1>1. [i \in 1..Len(<<>>) |-> AnswersTo((<<>>)[i])] = <<>>
  OBVIOUS
<1> QED BY <1>1 DEF AllAnswers, FlattenSeq

\* The same as Answers, with the answers named.
LEMMA AnswersForm ==
    Answers <=>
        LET written == SubSeq(sent, 3, Len(sent))
        IN  phase = "connected" =>
                /\ IsPrefix(written, AllAnswers(handled))
                /\ process = "running" => written = AllAnswers(handled)
                /\ handled # <<>> => Len(AllAnswers(handled)) - Len(written)
                                        <= Len(AnswersTo(handled[Len(handled)]))
BY DEF Answers, AllAnswers

\* The packet p is handled as this, and answered with the first n of its answers,
\* with all if the process goes on.
AnsweredAs(p, this, n) ==
    /\ handled' = Append(handled, this)
    /\ this.state = m_state /\ this.name = PacketName(m_state, p.id)
    /\ this.arg = p.arg /\ this.body = p.body
    /\ sent' = sent \o SubSeq(AnswersTo(this), 1, n)
    /\ process' = "running" => n = Len(AnswersTo(this))

Answered(p) == \E this \in Handled : \E n \in 0..Len(AnswersTo(this)) : AnsweredAs(p, this, n)

LEMMA PacketAnswered ==
    ASSUME ClientInv, Answers, inbox # <<>>, NEW p, p = Head(inbox), Receive(p),
           NEW this \in Handled, handled' = Append(handled, this),
           NEW n \in 0..Len(AnswersTo(this)),
           sent' = sent \o SubSeq(AnswersTo(this), 1, n),
           process' = "running" => n = Len(AnswersTo(this))
    PROVE  Answers'
<1> DEFINE all == AllAnswers(handled)
           written == SubSeq(sent, 3, Len(sent))
           a == AnswersTo(this)
           some == SubSeq(AnswersTo(this), 1, n)
<1>1. handled \in Seq(Handled) /\ sent \in Seq(Messages) /\ Len(sent) >= 2
  BY SentBefore DEF ClientInv, ClientTypeOK
<1>2. process = "running" /\ phase = "connected"
  BY DEF Receive
<1>3. written = all
  BY <1>2, AnswersForm
<1>4. a \in Seq(Messages) /\ some \in Seq(Messages) /\ n \in 0..Len(a)
  <2>1. a \in Seq(Messages)
    BY AnswersToType
  <2>2. \A i \in 1..n : a[i] \in Messages
    BY <2>1, ElementOfSeq
  <2> HIDE DEF a
  <2>3. SubSeq(a, 1, n) \in Seq(Messages)
    BY <2>2, SubSeqProperties
  <2> QED BY <2>1, <2>3 DEF a
<1>5. all \in Seq(Messages) /\ AllAnswers(handled') = all \o a
  BY <1>1, AnswersAppend
<1>6. SubSeq(sent', 3, Len(sent')) = all \o some
  <2>1. sent' = sent \o some
    OBVIOUS
  <2> HIDE DEF some, all
  <2>2. SubSeq(sent', 3, Len(sent')) = written \o some
    BY <1>1, <1>4, <2>1, RestAppend
  <2> QED BY <1>3, <2>2
<1>7. /\ IsPrefix(all \o some, all \o a)
      /\ Len(all \o a) - Len(all \o some) <= Len(a)
      /\ n = Len(a) => all \o some = all \o a
  <2> HIDE DEF all, a
  <2>1. some = SubSeq(a, 1, n)
    BY DEF a
  <2> HIDE DEF some
  <2>2. /\ IsPrefix(all \o SubSeq(a, 1, n), all \o a)
        /\ Len(all \o a) - Len(all \o SubSeq(a, 1, n)) <= Len(a)
        /\ n = Len(a) => all \o SubSeq(a, 1, n) = all \o a
    BY <1>4, <1>5, PrefixOfConcat
  <2> QED BY <2>1, <2>2
<1>8. handled'[Len(handled')] = this
  BY <1>1, AppendProperties
<1>9. process' = "running" => n = Len(a)
  OBVIOUS
<1>10. AnswersTo(handled'[Len(handled')]) = a
  BY <1>8
<1> HIDE DEF all, a, some, written
<1>11. /\ IsPrefix(SubSeq(sent', 3, Len(sent')), AllAnswers(handled'))
       /\ process' = "running" => SubSeq(sent', 3, Len(sent')) = AllAnswers(handled')
       /\ Len(AllAnswers(handled')) - Len(SubSeq(sent', 3, Len(sent')))
              <= Len(AnswersTo(handled'[Len(handled')]))
  BY <1>5, <1>6, <1>7, <1>9, <1>10
<1>12. Answers' <=>
        (phase' = "connected" =>
                /\ IsPrefix(SubSeq(sent', 3, Len(sent')), AllAnswers(handled'))
                /\ process' = "running" => SubSeq(sent', 3, Len(sent')) = AllAnswers(handled')
                /\ handled' # <<>> => Len(AllAnswers(handled')) - Len(SubSeq(sent', 3, Len(sent')))
                                        <= Len(AnswersTo(handled'[Len(handled')])))
  BY DEF Answers, AllAnswers
<1> QED BY <1>11, <1>12, Zenon

\* The record of a packet received.
LEMMA ReceivedRecord ==
    ASSUME ClientInv, inbox # <<>>, NEW p, p = Head(inbox), Receive(p)
    PROVE  \E this \in Handled : /\ handled' = Append(handled, this)
                                 /\ this.name = PacketName(m_state, p.id)
                                 /\ this.arg = p.arg
                                 /\ this.body = p.body
                                 /\ this.state = m_state
<1> DEFINE this == [state |-> m_state, name |-> PacketName(m_state, p.id),
                    arg |-> p.arg, body |-> p.body]
<1>1. handled' = Append(handled, this)
  BY DEF Receive
<1>2. m_state \in {"LOGIN", "PLAY"} /\ p \in Packet
  BY Received
<1>3. this \in Handled
  BY <1>2, PacketNames DEF Packet, Handled, Names
<1> QED BY <1>1, <1>3

LEMMA PacketReceived ==
    ASSUME NEW p, on_packet_received(p) PROVE Receive(p)
BY DEF on_packet_received, handle_unknown, handle_ignored, handle_unsupported,
       handle_unparsable, handle_custom_query, handle_game_profile, handle_login,
       handle_keep_alive, handle_custom_payload, handle_level_chunk_with_light, Handles

LEMMA SilentAnswer ==
    ASSUME ClientInv, inbox # <<>>, NEW p, p = Head(inbox), Receive(p), UNCHANGED sent,
           process' = "running" => PacketName(m_state, p.id) \notin {"custom_query", "login", "keep_alive"}
    PROVE  Answered(p)
<1>1. PICK this \in Handled : /\ handled' = Append(handled, this)
                              /\ this.name = PacketName(m_state, p.id)
                              /\ this.arg = p.arg
                              /\ this.body = p.body
                              /\ this.state = m_state
  BY ReceivedRecord
<1>2. AnswersTo(this) \in Seq(Messages)
  BY AnswersToType
<1>3. process' = "running" => AnswersTo(this) = <<>>
  BY <1>1 DEF AnswersTo
<1>4. sent \in Seq(Messages)
  BY SentBefore
<1>5. SubSeq(AnswersTo(this), 1, 0) = <<>>
  BY SubSeqEmpty
<1>6. sent' = sent \o SubSeq(AnswersTo(this), 1, 0)
  BY <1>4, <1>5, ConcatEmptySeq
<1>7. 0 \in 0..Len(AnswersTo(this)) /\ (process' = "running" => 0 = Len(AnswersTo(this)))
  <2>1. Len(AnswersTo(this)) \in Nat
    BY <1>2
  <2> QED BY <1>3, <2>1
<1> QED BY <1>1, <1>6, <1>7 DEF Answered, AnsweredAs

LEMMA SpokenAnswer ==
    ASSUME ClientInv, inbox # <<>>, NEW p, p = Head(inbox), Receive(p),
           NEW messages \in Seq(Messages), NEW after, Send(messages, after),
           \A this \in Handled : this.name = PacketName(m_state, p.id) /\ this.arg = p.arg
                                    => AnswersTo(this) = messages
    PROVE  Answered(p)
<1>1. PICK this \in Handled : /\ handled' = Append(handled, this)
                              /\ this.name = PacketName(m_state, p.id)
                              /\ this.arg = p.arg
                              /\ this.body = p.body
                              /\ this.state = m_state
  BY ReceivedRecord
<1>2. AnswersTo(this) = messages
  BY <1>1
<1>3. PICK n \in Written(messages) :
          /\ sent' = sent \o SubSeq(messages, 1, n)
          /\ process' = IF n < Len(messages) THEN "terminated" ELSE after
  BY DEF Send
<1>4. Len(messages) \in Nat
  OBVIOUS
<1>5. n \in 0..Len(messages)
  BY <1>4 DEF Written
<1>6. process' = "running" => n = Len(messages)
  <2>1. n < Len(messages) \/ n = Len(messages)
    BY <1>4, <1>5
  <2> QED BY <1>3, <2>1
<1> QED BY <1>1, <1>2, <1>3, <1>5, <1>6 DEF Answered, AnsweredAs

\* Every packet is answered with as many of its answers as can be written.
LEMMA EveryPacketAnswered ==
    ClientInv /\ inbox # <<>> /\ on_packet_received(Head(inbox)) => Answered(Head(inbox))
<1> SUFFICES ASSUME ClientInv, inbox # <<>>, on_packet_received(Head(inbox))
             PROVE  Answered(Head(inbox))
  OBVIOUS
<1> DEFINE p == Head(inbox)
<1>p. p = Head(inbox)
  OBVIOUS
<1> HIDE DEF p
<1>2. CASE handle_unknown(p) \/ handle_ignored(p) \/ handle_unsupported(p)
  <2>1. Receive(p) /\ UNCHANGED sent
        /\ PacketName(m_state, p.id) \notin {"custom_query", "login", "keep_alive"}
    BY <1>2 DEF handle_unknown, handle_ignored, handle_unsupported, Ignored, Unsupported
  <2> QED BY <1>p, <2>1, SilentAnswer
<1>3. CASE handle_unparsable(p)
  <2>1. Receive(p) /\ UNCHANGED sent
    BY <1>3 DEF handle_unparsable
  <2>2. process' # "running"
    BY <1>3 DEF handle_unparsable
  <2> QED BY <1>p, <2>1, <2>2, SilentAnswer
<1>4. CASE handle_game_profile(p) \/ handle_custom_payload(p) \/ handle_level_chunk_with_light(p)
  <2>1. Receive(p) /\ UNCHANGED sent
        /\ PacketName(m_state, p.id) \notin {"custom_query", "login", "keep_alive"}
    BY <1>4 DEF handle_game_profile, handle_custom_payload, handle_level_chunk_with_light, Handles
  <2> QED BY <1>p, <2>1, SilentAnswer
<1>5. ASSUME Receive(p) PROVE p.arg \in Arg
  BY <1>p, <1>5, Received DEF Packet
<1>6. CASE handle_custom_query(p)
  <2> DEFINE messages == <<Message("custom_query", p.arg)>>
  <2>1. Receive(p) /\ PacketName(m_state, p.id) = "custom_query"
        /\ Send(messages, Afterwards(p, "custom_query"))
    BY <1>6 DEF handle_custom_query, Handles
  <2>2. messages \in Seq(Messages)
    BY <1>5, <2>1, MessageType, TurnTable
  <2>3. \A this \in Handled : this.name = PacketName(m_state, p.id) /\ this.arg = p.arg
                                 => AnswersTo(this) = messages
    BY <2>1 DEF AnswersTo
  <2> HIDE DEF messages
  <2> QED BY <1>p, <2>1, <2>2, <2>3, SpokenAnswer
<1>7. CASE handle_login(p)
  <2> DEFINE messages == <<Message("custom_payload", NoArg), Message("client_information", NoArg)>>
  <2>1. Receive(p) /\ PacketName(m_state, p.id) = "login" /\ Send(messages, Afterwards(p, "login"))
    BY <1>7 DEF handle_login, Handles
  <2>2. messages \in Seq(Messages)
    BY MessageType, TurnTable
  <2>3. \A this \in Handled : this.name = PacketName(m_state, p.id) /\ this.arg = p.arg
                                 => AnswersTo(this) = messages
    BY <2>1 DEF AnswersTo
  <2> HIDE DEF messages
  <2> QED BY <1>p, <2>1, <2>2, <2>3, SpokenAnswer
<1>8. CASE handle_keep_alive(p)
  <2> DEFINE messages == <<Message("keep_alive", p.arg)>>
  <2>1. Receive(p) /\ PacketName(m_state, p.id) = "keep_alive"
        /\ Send(messages, Afterwards(p, "keep_alive"))
    BY <1>8 DEF handle_keep_alive, Handles
  <2>2. messages \in Seq(Messages)
    BY <1>5, <2>1, MessageType, TurnTable
  <2>3. \A this \in Handled : this.name = PacketName(m_state, p.id) /\ this.arg = p.arg
                                 => AnswersTo(this) = messages
    BY <2>1 DEF AnswersTo
  <2> HIDE DEF messages
  <2> QED BY <1>p, <2>1, <2>2, <2>3, SpokenAnswer
<1> QED BY <1>p, <1>2, <1>3, <1>4, <1>6, <1>7, <1>8 DEF on_packet_received

LEMMA NextAnswers == ClientInv /\ Answers /\ [AnyServerNext]_clientVars => Answers'
<1> SUFFICES ASSUME ClientInv, Answers, [AnyServerNext]_clientVars PROVE Answers'
  OBVIOUS
<1>1. CASE send_intention
  BY <1>1 DEF send_intention, Answers
<1>2. CASE send_hello
  <2> DEFINE messages == <<Message("hello", NoArg)>>
  <2>1. sent \in Seq(Messages) /\ Len(sent) = 1 /\ handled = <<>>
    BY <1>2 DEF ClientInv, ClientTypeOK, ProgressInv, send_hello, Messages
  <2>2. messages \in Seq(Messages) /\ Len(messages) = 1
    BY TurnTable DEF Messages, Message
  <2>3. Send(messages, "running") /\ UNCHANGED handled
    BY <1>2 DEF send_hello
  <2> HIDE DEF messages
  <2>4. PICK n \in 0..Len(messages) : sent' \in Seq(Messages) /\ Len(sent') = Len(sent) + n
    BY <2>1, <2>2, <2>3, SendAppends
  <2>5. Len(sent') \in Int /\ Len(sent') < 3
    BY <2>1, <2>2, <2>4
  <2>6. SubSeq(sent', 3, Len(sent')) = <<>>
    BY <2>5, SubSeqEmpty
  <2>7. AllAnswers(handled') = <<>>
    BY <2>1, <2>3, NoAnswers
  <2>8. IsPrefix(<<>>, <<>>)
    BY DEF IsPrefix
  <2>9. FlattenSeq([i \in 1..Len(handled') |-> AnswersTo(handled'[i])]) = <<>> /\ handled' = <<>>
    BY <2>1, <2>3, <2>7 DEF AllAnswers
  <2> QED BY <2>6, <2>8, <2>9 DEF Answers
<1>3. CASE inbox # <<>> /\ on_packet_received(Head(inbox))
  <2>1. PICK this \in Handled : \E n \in 0..Len(AnswersTo(this)) : AnsweredAs(Head(inbox), this, n)
    BY <1>3, EveryPacketAnswered DEF Answered
  <2>2. PICK n \in 0..Len(AnswersTo(this)) : AnsweredAs(Head(inbox), this, n)
    BY <2>1
  <2>3. Receive(Head(inbox))
    BY <1>3, PacketReceived
  <2> QED BY <1>3, <2>2, <2>3, PacketAnswered DEF AnsweredAs
<1>4. CASE LinkFails \/ (\E p \in Packet : Deliver(p)) \/ UNCHANGED clientVars
  <2>1. UNCHANGED <<phase, process, sent, handled>>
    BY <1>4 DEF LinkFails, Deliver, clientVars
  <2> QED BY <2>1 DEF Answers
<1> QED BY <1>1, <1>2, <1>3, <1>4 DEF AnyServerNext, ClientNext

\* While the process runs every query and keep-alive read has been answered
\* once, with its own id and in the order they were read; when it ends, at most
\* the last packet lacks answers (each handler sends before it returns, and an
\* exception on the way ends the process).
THEOREM ClientAnswers == AnyServerSpec => []Answers
<1>1. ClientInit => ClientInv /\ Answers
  <2>1. ClientInit => Answers
    BY DEF ClientInit, Answers
  <2> QED BY <2>1, ClientAssumption, InitClientInv
<1>2. (ClientInv /\ Answers) /\ [AnyServerNext]_clientVars => (ClientInv /\ Answers)'
  BY NextAnswers, NextClientInv
<1> QED BY <1>1, <1>2, PTL DEF AnyServerSpec

-----------------------------------------------------------------------------
(* The world the packets make.                                             *)

\* The logins among the packets of h that can be read, and the chunks since one.
LoginsIn(h) == {i \in 1..Len(h) : h[i].name = "login" /\ h[i].body \in {"ok", "trailing"}}

ChunksSince(h, since) == {i \in since..Len(h) : h[i].name = "level_chunk_with_light"}

\* w is the world the packets of h have made.
WorldOf(h, w) ==
    \/ LoginsIn(h) = {} /\ w = <<>>
    \/ \E since \in LoginsIn(h) :
          /\ \A j \in LoginsIn(h) : j <= since
          /\ w = <<{h[i].arg : i \in ChunksSince(h, since)}>>

WorldInv == process = "running" => WorldOf(handled, m_world)

\* The last login is the only one none comes after.
LEMMA WorldInvMeans == ClientTypeOK /\ WorldInv => ColumnsOfThisWorld
<1> SUFFICES ASSUME ClientTypeOK, WorldInv, process = "running"
             PROVE  m_world = IF LoginsIn(handled) = {} THEN <<>>
                              ELSE <<{handled[i].arg : i \in ChunksSince(handled,
                                       CHOOSE i \in LoginsIn(handled) :
                                           \A j \in LoginsIn(handled) : j <= i)}>>
  BY DEF ColumnsOfThisWorld, LoginsIn, ChunksSince
<1>1. CASE LoginsIn(handled) = {}
  BY <1>1 DEF WorldInv, WorldOf
<1>2. CASE LoginsIn(handled) # {}
  <2> DEFINE L == LoginsIn(handled)
             last == CHOOSE i \in L : \A j \in L : j <= i
  <2>1. PICK since \in L :
          /\ \A j \in L : j <= since
          /\ m_world = <<{handled[i].arg : i \in ChunksSince(handled, since)}>>
    BY <1>2 DEF WorldInv, WorldOf
  <2>2. L \subseteq Int
    BY DEF LoginsIn
  <2> HIDE DEF L
  <2>3. last \in L /\ \A j \in L : j <= last
    BY <2>1
  <2> HIDE DEF last
  <2>4. last <= since /\ since <= last /\ last \in Int /\ since \in Int
    BY <2>1, <2>2, <2>3
  <2>5. last = since
    BY <2>4
  <2>6. m_world = <<{handled[i].arg : i \in ChunksSince(handled, last)}>>
    BY <2>1, <2>5
  <2> QED BY <1>2, <2>6 DEF L, last
<1> QED BY <1>1, <1>2

LEMMA LoginsAppend ==
    ASSUME NEW h \in Seq(Handled), NEW x \in Handled
    PROVE  LoginsIn(Append(h, x)) =
               LoginsIn(h) \cup (IF x.name = "login" /\ x.body \in {"ok", "trailing"}
                                 THEN {Len(h) + 1} ELSE {})
<1>1. /\ Len(h) \in Nat /\ Len(Append(h, x)) = Len(h) + 1 /\ Append(h, x)[Len(h) + 1] = x
      /\ \A i \in 1..Len(h) : Append(h, x)[i] = h[i]
  OBVIOUS
<1> DEFINE t == Append(h, x)
<1> HIDE DEF t
<1>2. /\ Len(h) \in Nat /\ Len(t) = Len(h) + 1 /\ t[Len(h) + 1] = x
      /\ \A i \in 1..Len(h) : t[i] = h[i]
  BY <1>1 DEF t
<1>3. 1..Len(t) = (1..Len(h)) \cup {Len(h) + 1}
  BY <1>2
<1>4. LoginsIn(t) = LoginsIn(h) \cup (IF x.name = "login" /\ x.body \in {"ok", "trailing"}
                                      THEN {Len(h) + 1} ELSE {})
  BY <1>2, <1>3 DEF LoginsIn
<1> QED BY <1>4 DEF t

LEMMA ChunksAppend ==
    ASSUME NEW h \in Seq(Handled), NEW x \in Handled, NEW since \in 1..Len(h)
    PROVE  {Append(h, x)[i].arg : i \in ChunksSince(Append(h, x), since)} =
               {h[i].arg : i \in ChunksSince(h, since)}
                   \cup (IF x.name = "level_chunk_with_light" THEN {x.arg} ELSE {})
<1>1. /\ Len(h) \in Nat /\ Len(Append(h, x)) = Len(h) + 1 /\ Append(h, x)[Len(h) + 1] = x
      /\ \A i \in 1..Len(h) : Append(h, x)[i] = h[i]
  OBVIOUS
<1> DEFINE t == Append(h, x)
<1> HIDE DEF t
<1>2. /\ Len(h) \in Nat /\ Len(t) = Len(h) + 1 /\ t[Len(h) + 1] = x
      /\ \A i \in 1..Len(h) : t[i] = h[i]
  BY <1>1 DEF t
<1>3. since..Len(t) = (since..Len(h)) \cup {Len(h) + 1} /\ since..Len(h) \subseteq 1..Len(h)
  BY <1>2
<1>4. ChunksSince(t, since) = ChunksSince(h, since)
          \cup (IF x.name = "level_chunk_with_light" THEN {Len(h) + 1} ELSE {})
  BY <1>2, <1>3 DEF ChunksSince
<1>5. \A i \in ChunksSince(h, since) : t[i] = h[i]
  BY <1>2, <1>3 DEF ChunksSince
<1>6. {t[i].arg : i \in ChunksSince(t, since)} =
               {h[i].arg : i \in ChunksSince(h, since)}
                   \cup (IF x.name = "level_chunk_with_light" THEN {x.arg} ELSE {})
  <2>1. CASE x.name = "level_chunk_with_light"
    BY <1>2, <1>4, <1>5, <2>1
  <2>2. CASE x.name # "level_chunk_with_light"
    BY <1>4, <1>5, <2>2
  <2> QED BY <2>1, <2>2
<1> QED BY <1>6 DEF t

\* A login that can be read makes an empty world.
LEMMA WorldMade ==
    ASSUME NEW h \in Seq(Handled), NEW x \in Handled,
           x.name = "login", x.body \in {"ok", "trailing"}
    PROVE  WorldOf(Append(h, x), <<{}>>)
<1> DEFINE t == Append(h, x)
           k == Len(h) + 1
<1>1. k \in LoginsIn(t) /\ \A j \in LoginsIn(t) : j <= k
  <2>1. LoginsIn(t) = LoginsIn(h) \cup {k}
    BY LoginsAppend
  <2>2. \A j \in LoginsIn(h) : j <= k
    BY DEF LoginsIn
  <2> HIDE DEF t
  <2> QED BY <2>1, <2>2
<1>2. Len(t) = k /\ k \in Nat /\ t[k] = x
  OBVIOUS
<1> HIDE DEF t, k
<1>3. ChunksSince(t, k) = {}
  BY <1>2 DEF ChunksSince
<1>4. <<{}>> = <<{t[i].arg : i \in ChunksSince(t, k)}>>
  BY <1>3
<1> QED BY <1>1, <1>4 DEF WorldOf, t

\* A chunk adds its column, another packet leaves the world as it is.
LEMMA WorldGrows ==
    ASSUME NEW h \in Seq(Handled), NEW x \in Handled, NEW w, WorldOf(h, w),
           ~ (x.name = "login" /\ x.body \in {"ok", "trailing"}),
           NEW v,
           IF x.name = "level_chunk_with_light" THEN w # <<>> /\ v = <<w[1] \cup {x.arg}>> ELSE v = w
    PROVE  WorldOf(Append(h, x), v)
<1>1. LoginsIn(Append(h, x)) = LoginsIn(h)
  BY LoginsAppend
<1>2. CASE LoginsIn(h) = {}
  <2>1. w = <<>>
    BY <1>2 DEF WorldOf
  <2> QED BY <1>1, <1>2, <2>1 DEF WorldOf
<1>3. CASE LoginsIn(h) # {}
  <2>1. PICK since \in LoginsIn(h) :
          /\ \A j \in LoginsIn(h) : j <= since
          /\ w = <<{h[i].arg : i \in ChunksSince(h, since)}>>
    BY <1>3 DEF WorldOf
  <2>2. since \in 1..Len(h)
    BY DEF LoginsIn
  <2> DEFINE C == {h[i].arg : i \in ChunksSince(h, since)}
             D == {Append(h, x)[i].arg : i \in ChunksSince(Append(h, x), since)}
  <2>3. D = C \cup (IF x.name = "level_chunk_with_light" THEN {x.arg} ELSE {})
    BY <2>2, ChunksAppend
  <2>4. w = <<C>>
    BY <2>1
  <2>5. v = <<D>>
    <3> HIDE DEF C, D
    <3> QED BY <2>3, <2>4
  <2>6. since \in LoginsIn(Append(h, x)) /\ \A j \in LoginsIn(Append(h, x)) : j <= since
    BY <1>1, <2>1
  <2> QED BY <2>5, <2>6 DEF WorldOf
<1> QED BY <1>2, <1>3

LEMMA PacketWorld ==
    ClientInv /\ WorldInv /\ inbox # <<>> /\ on_packet_received(Head(inbox)) => WorldInv'
<1> SUFFICES ASSUME ClientInv, WorldInv, inbox # <<>>, on_packet_received(Head(inbox)),
                    process' = "running"
             PROVE  WorldOf(handled', m_world')
  BY DEF WorldInv
<1> DEFINE p == Head(inbox)
<1>p. p = Head(inbox)
  OBVIOUS
<1> HIDE DEF p
<1>1. Receive(p)
  BY <1>p, PacketReceived
<1>2. PICK this \in Handled : /\ handled' = Append(handled, this)
                              /\ this.name = PacketName(m_state, p.id)
                              /\ this.arg = p.arg /\ this.body = p.body
  BY <1>p, <1>1, ReceivedRecord
<1>3. handled \in Seq(Handled) /\ WorldOf(handled, m_world)
  BY <1>1 DEF Receive, WorldInv, ClientInv, ClientTypeOK
<1>4. ASSUME this.name \notin {"login", "level_chunk_with_light"}, UNCHANGED m_world
      PROVE  WorldOf(handled', m_world')
  BY <1>2, <1>3, <1>4, WorldGrows
<1>5. CASE \/ handle_ignored(p) \/ handle_custom_query(p)
           \/ handle_game_profile(p) \/ handle_keep_alive(p) \/ handle_custom_payload(p)
  <2>1. UNCHANGED m_world /\ PacketName(m_state, p.id) \notin {"login", "level_chunk_with_light"}
    BY <1>5 DEF handle_ignored, handle_custom_query, handle_game_profile,
                handle_keep_alive, handle_custom_payload, Handles, Ignored
  <2> QED BY <1>2, <1>4, <2>1
<1>6. CASE handle_unknown(p) \/ handle_unsupported(p) \/ handle_unparsable(p)
  BY <1>6 DEF handle_unknown, handle_unsupported, handle_unparsable
<1>7. CASE handle_login(p)
  <2>1. m_world' = <<{}>> /\ PacketName(m_state, p.id) = "login" /\ p.body \in {"ok", "trailing"}
    BY <1>7 DEF handle_login, Handles
  <2> QED BY <1>2, <1>3, <2>1, WorldMade
<1>8. CASE handle_level_chunk_with_light(p)
  <2>1. PacketName(m_state, p.id) = "level_chunk_with_light" /\ m_world # <<>>
        /\ m_world' = <<m_world[1] \cup {p.arg}>>
    BY <1>8 DEF handle_level_chunk_with_light, Handles, GetColumn
  <2> QED BY <1>2, <1>3, <2>1, WorldGrows
<1> QED BY <1>p, <1>5, <1>6, <1>7, <1>8 DEF on_packet_received

LEMMA NextWorld == ClientInv /\ WorldInv /\ [AnyServerNext]_clientVars => WorldInv'
<1> SUFFICES ASSUME ClientInv, WorldInv, [AnyServerNext]_clientVars PROVE WorldInv'
  OBVIOUS
<1>1. CASE inbox # <<>> /\ on_packet_received(Head(inbox))
  BY <1>1, PacketWorld
<1>2. CASE \/ send_intention \/ send_hello \/ LinkFails
           \/ (\E p \in Packet : Deliver(p)) \/ UNCHANGED clientVars
  <2>1. UNCHANGED <<m_world, handled>> /\ (process' = "running" => process = "running")
    BY <1>2 DEF send_intention, send_hello, LinkFails, Deliver, clientVars
  <2> QED BY <2>1 DEF WorldInv
<1> QED BY <1>1, <1>2 DEF AnyServerNext, ClientNext

\* The columns of the world are those of the chunks read since the last login,
\* and none of a world that login replaced (game::create_world, chunks().get).
THEOREM ClientColumns == AnyServerSpec => []ColumnsOfThisWorld
<1>1. ClientInit => ClientInv /\ WorldInv
  <2>1. ClientInit => WorldInv
    BY DEF ClientInit, WorldInv, WorldOf, LoginsIn
  <2> QED BY <2>1, ClientAssumption, InitClientInv
<1>2. (ClientInv /\ WorldInv) /\ [AnyServerNext]_clientVars => (ClientInv /\ WorldInv)'
  BY NextWorld, NextClientInv
<1>3. ClientInv /\ WorldInv => ColumnsOfThisWorld
  BY WorldInvMeans DEF ClientInv
<1> QED BY <1>1, <1>2, <1>3, PTL DEF AnyServerSpec

-----------------------------------------------------------------------------
\* The server's own side: it has turned to PLAY with the profile it sent.
ServerInv ==
    /\ s_state \in {"HANDSHAKING", "LOGIN", "PLAY"}
    /\ s_log \in Seq(Handled)
    /\ s_log # <<>> => s_state # "HANDSHAKING"
    /\ s_state = "PLAY" <=> \E j \in 1..Len(s_log) : s_log[j].name = "game_profile"
    /\ \A i \in 1..Len(s_log) :
          /\ s_log[i].state = "PLAY" <=> \E j \in 1..(i - 1) : s_log[j].name = "game_profile"
          /\ s_log[i].name = "login" => s_log[i].state = "PLAY"

\* The packets the client has handled and those on the way are, one after the
\* other, the packets the server has sent, and one on the way will be what the
\* server meant if it is read in the state the server sent it in.
AgreementInv ==
    /\ Len(s_log) = Len(handled) + Len(inbox)
    /\ \A i \in 1..Len(handled) : handled[i] = s_log[i]
    /\ \A i \in 1..Len(inbox) :
          LET entry == s_log[Len(handled) + i]
          IN  /\ entry.name = PacketName(entry.state, inbox[i].id)
              /\ entry.arg = inbox[i].arg
              /\ entry.body = inbox[i].body

SessionInv == ClientInv /\ ServerInv /\ AgreementInv

-----------------------------------------------------------------------------
LEMMA LoginIds ==
    ASSUME NEW name \in {"hello", "game_profile", "login_compression", "custom_query",
                         "login_disconnect"}
    PROVE  /\ LoginPacket(name) \in 1..5
           /\ PacketName("LOGIN", LoginPacket(name)) = name
<1> DEFINE names == <<"hello", "game_profile", "login_compression", "custom_query",
                      "login_disconnect">>
<1>1. CLIENTBOUND.LOGIN = names /\ CLIENTBOUND["LOGIN"] = names
  BY DEF CLIENTBOUND
<1>2. DOMAIN names = 1..5 /\ \E id \in 1..5 : names[id] = name
  <2>1. names[1] = "hello" /\ names[2] = "game_profile" /\ names[3] = "login_compression"
        /\ names[4] = "custom_query" /\ names[5] = "login_disconnect"
    OBVIOUS
  <2> QED BY <2>1
<1> HIDE DEF names
<1> QED BY <1>1, <1>2 DEF LoginPacket, PacketName

LEMMA PlayIds ==
    ASSUME NEW name \in {"login", "keep_alive", "level_chunk_with_light", "custom_payload",
                         "add_entity"}
    PROVE  /\ PlayPacket(name) \in 1..5
           /\ PacketName("PLAY", PlayPacket(name)) = name
<1> DEFINE names == <<"login", "keep_alive", "level_chunk_with_light", "custom_payload",
                      "add_entity">>
<1>1. CLIENTBOUND.PLAY = names /\ CLIENTBOUND["PLAY"] = names
  BY DEF CLIENTBOUND
<1>2. DOMAIN names = 1..5 /\ \E id \in 1..5 : names[id] = name
  <2>1. names[1] = "login" /\ names[2] = "keep_alive" /\ names[3] = "level_chunk_with_light"
        /\ names[4] = "custom_payload" /\ names[5] = "add_entity"
    OBVIOUS
  <2> QED BY <2>1
<1> HIDE DEF names
<1> QED BY <1>1, <1>2 DEF PlayPacket, PacketName

-----------------------------------------------------------------------------
\* Every step of a session is a step of a session with any server.
LEMMA StepsOfClient == [SessionNext]_vars => [AnyServerNext]_clientVars
<1> SUFFICES ASSUME [SessionNext]_vars PROVE [AnyServerNext]_clientVars
  OBVIOUS
<1>1. CASE ClientStep
  BY <1>1 DEF ClientStep, AnyServerNext
<1>2. CASE LinkFails
  BY <1>2 DEF AnyServerNext
<1>3. CASE ServerRead
  BY <1>3 DEF ServerRead, read, read_intention, read_hello, read_answer, read_keep_alive,
              read_settings, read_unexpected, ServerReads
<1>4. ASSUME NEW id \in 1..6, NEW arg \in Arg, ServerSends(id, arg) PROVE AnyServerNext
  <2>1. [id |-> id, arg |-> arg, body |-> "ok"] \in Packet
    BY DEF Packet, Body
  <2> QED BY <1>4, <2>1 DEF ServerSends, AnyServerNext
<1>5. CASE ServerSend
  <2>1. PICK arg \in Arg :
            \/ send_query(arg) \/ send_profile(arg) \/ send_login(arg) \/ send_keep_alive(arg)
            \/ \E name \in {"hello", "login_compression", "login_disconnect"} :
                   send_unsupported(name, arg)
            \/ \E name \in {"level_chunk_with_light", "custom_payload", "add_entity"} :
                   send_play(name, arg)
    BY <1>5 DEF ServerSend
  <2>2. \E id \in 1..6 : ServerSends(id, arg)
    BY <2>1, LoginIds, PlayIds DEF send_query, send_profile, send_login, send_keep_alive,
                                   send_unsupported, send_play
  <2> QED BY <1>4, <2>2
<1>6. CASE UNCHANGED vars
  BY <1>6 DEF vars
<1> QED BY <1>1, <1>2, <1>3, <1>5, <1>6 DEF SessionNext

-----------------------------------------------------------------------------
LEMMA InitSessionInv == ClientAssumption /\ SessionInit => SessionInv
BY InitClientInv DEF SessionInit, ClientInit, SessionInv, ServerInv, AgreementInv

\* A packet the server sends joins the log and the inbox as the same packet.
LEMMA SendsInv ==
    ASSUME SessionInv, NEW id \in 1..6, NEW arg \in Arg, ServerSends(id, arg),
           s_state \in {"LOGIN", "PLAY"},
           s_state' = IF PacketName(s_state, id) = "game_profile" THEN "PLAY" ELSE s_state
    PROVE  ServerInv' /\ AgreementInv'
<1> DEFINE p == [id |-> id, arg |-> arg, body |-> "ok"]
           entry == [state |-> s_state, name |-> PacketName(s_state, id), arg |-> arg,
                     body |-> "ok"]
<1>1. inbox' = Append(inbox, p) /\ s_log' = Append(s_log, entry) /\ UNCHANGED handled
  BY DEF ServerSends, Deliver
<1>2. inbox \in Seq(Packet) /\ handled \in Seq(Handled) /\ s_log \in Seq(Handled)
  BY DEF SessionInv, ClientInv, ClientTypeOK, ServerInv
<1>3. p \in Packet /\ entry \in Handled
  BY PacketNames DEF Packet, Body, Handled, Names
<1>4. /\ entry.state = s_state /\ entry.name = PacketName(s_state, p.id)
      /\ entry.arg = p.arg /\ entry.body = p.body /\ p.id = id
      /\ entry.name = "login" => s_state = "PLAY"
  BY PacketNames
<1> HIDE DEF p, entry
<1>5. /\ Len(inbox') = Len(inbox) + 1
      /\ \A i \in 1..Len(inbox) : inbox'[i] = inbox[i]
      /\ inbox'[Len(inbox) + 1] = p
  BY <1>1, <1>2, <1>3, AppendProperties
<1>6. /\ s_log' \in Seq(Handled)
      /\ Len(s_log') = Len(s_log) + 1
      /\ \A i \in 1..Len(s_log) : s_log'[i] = s_log[i]
      /\ s_log'[Len(s_log) + 1] = entry
  BY <1>1, <1>2, <1>3, AppendProperties
<1>7. Len(s_log) \in Nat /\ Len(inbox) \in Nat /\ Len(handled) \in Nat
  BY <1>2
<1>8. ServerInv'
  <2>1. s_state' = "PLAY" <=> \E j \in 1..Len(s_log') : s_log'[j].name = "game_profile"
    <3>1. s_state = "PLAY" <=> \E j \in 1..Len(s_log) : s_log[j].name = "game_profile"
      BY DEF SessionInv, ServerInv
    <3>2. s_state' = "PLAY" <=> s_state = "PLAY" \/ entry.name = "game_profile"
      BY <1>4
    <3>3. Len(s_log) + 1 \in 1..Len(s_log')
          /\ \A j \in 1..Len(s_log) : j \in 1..Len(s_log') /\ s_log'[j].name = s_log[j].name
      BY <1>6, <1>7
    <3>4. s_log'[Len(s_log) + 1].name = entry.name
      BY <1>6
    <3>5. (\E j \in 1..Len(s_log') : s_log'[j].name = "game_profile")
             <=> (\E j \in 1..Len(s_log) : s_log[j].name = "game_profile") \/ entry.name = "game_profile"
      <4>1. ASSUME NEW j \in 1..Len(s_log'), s_log'[j].name = "game_profile"
            PROVE  (\E k \in 1..Len(s_log) : s_log[k].name = "game_profile") \/ entry.name = "game_profile"
        <5>1. CASE j \in 1..Len(s_log)
          BY <3>3, <4>1, <5>1, Zenon
        <5>2. CASE j = Len(s_log) + 1
          BY <3>4, <4>1, <5>2
        <5>3. j \in 1..Len(s_log) \/ j = Len(s_log) + 1
          BY <1>6, <1>7
        <5> QED BY <5>1, <5>2, <5>3, Zenon
      <4>2. ASSUME NEW k \in 1..Len(s_log), s_log[k].name = "game_profile"
            PROVE  \E j \in 1..Len(s_log') : s_log'[j].name = "game_profile"
        BY <3>3, <4>2, Zenon
      <4>3. ASSUME entry.name = "game_profile"
            PROVE  \E j \in 1..Len(s_log') : s_log'[j].name = "game_profile"
        BY <3>3, <3>4, <4>3, Zenon
      <4> QED BY <4>1, <4>2, <4>3, Zenon
    <3> QED BY <3>1, <3>2, <3>5, Zenon
  <2>2. ASSUME NEW i \in 1..Len(s_log')
        PROVE  /\ s_log'[i].state = "PLAY" <=>
                      \E j \in 1..(i - 1) : s_log'[j].name = "game_profile"
               /\ s_log'[i].name = "login" => s_log'[i].state = "PLAY"
    <3>1. CASE i \in 1..Len(s_log)
      <4>1. \A j \in 1..(i - 1) : j \in 1..Len(s_log)
        BY <3>1, <1>7
      <4> QED BY <3>1, <4>1, <1>6 DEF SessionInv, ServerInv
    <3>2. CASE i = Len(s_log) + 1
      <4>1. 1..(i - 1) = 1..Len(s_log)
        BY <3>2, <1>7
      <4>2. s_state = "PLAY" <=> \E j \in 1..Len(s_log) : s_log[j].name = "game_profile"
        BY DEF SessionInv, ServerInv
      <4> QED BY <3>2, <4>1, <4>2, <1>4, <1>6
    <3> QED BY <1>6, <1>7, <3>1, <3>2
  <2>3. s_state' \in {"LOGIN", "PLAY"}
    OBVIOUS
  <2> QED BY <1>6, <2>1, <2>2, <2>3 DEF ServerInv
<1>9. AgreementInv'
  <2>1. Len(s_log) = Len(handled) + Len(inbox)
    BY DEF SessionInv, AgreementInv
  <2>2. \A i \in 1..Len(handled) : handled[i] = s_log'[i]
    BY <2>1, <1>6, <1>7 DEF SessionInv, AgreementInv
  <2>3. ASSUME NEW i \in 1..Len(inbox')
        PROVE  /\ s_log'[Len(handled) + i].name
                      = PacketName(s_log'[Len(handled) + i].state, inbox'[i].id)
               /\ s_log'[Len(handled) + i].arg = inbox'[i].arg
               /\ s_log'[Len(handled) + i].body = inbox'[i].body
    <3>1. CASE i \in 1..Len(inbox)
      <4>1. Len(handled) + i \in 1..Len(s_log)
        BY <3>1, <2>1, <1>7
      <4> QED BY <3>1, <4>1, <1>5, <1>6 DEF SessionInv, AgreementInv
    <3>2. CASE i = Len(inbox) + 1
      <4>1. Len(handled) + i = Len(s_log) + 1
        BY <3>2, <2>1, <1>7
      <4> QED BY <3>2, <4>1, <1>4, <1>5, <1>6
    <3> QED BY <1>5, <1>7, <3>1, <3>2
  <2>4. handled' = handled /\ Len(s_log') = Len(handled') + Len(inbox')
    BY <1>1, <1>5, <1>6, <1>7, <2>1
  <2> QED BY <2>2, <2>3, <2>4 DEF AgreementInv
<1> QED BY <1>8, <1>9

\* What the client reads is what the server meant: m_state is PLAY exactly if
\* the profile has been handled, and the server's state was PLAY exactly if it
\* had been sent.
LEMMA ReceiveAgrees ==
    ASSUME SessionInv, inbox # <<>>, NEW p, p = Head(inbox), Receive(p), UNCHANGED s_log
    PROVE  AgreementInv'
<1> DEFINE this == [state |-> m_state, name |-> PacketName(m_state, p.id),
                    arg |-> p.arg, body |-> p.body]
           n == Len(handled)
<1>1. process = "running" /\ inbox' = Tail(inbox) /\ handled' = Append(handled, this)
  BY DEF Receive
<1>2. inbox \in Seq(Packet) /\ handled \in Seq(Handled) /\ s_log \in Seq(Handled)
  BY DEF SessionInv, ClientInv, ClientTypeOK, ServerInv
<1>3. m_state \in {"LOGIN", "PLAY"} /\ p \in Packet
  BY Received DEF SessionInv
<1>4. this \in Handled
  BY <1>3, PacketNames DEF Packet, Handled, Names
<1>5. Len(s_log) = n + Len(inbox) /\ n \in Nat /\ Len(inbox) \in Nat \ {0}
  BY <1>2, EmptySeq DEF SessionInv, AgreementInv
<1>6. p = inbox[1] /\ Len(inbox') = Len(inbox) - 1
      /\ \A i \in 1..Len(inbox') : inbox'[i] = inbox[i + 1]
  BY <1>1, <1>2, HeadTailProperties
<1>7. s_log[n + 1] = this
  <2>1. s_log[n + 1] \in Handled
    BY <1>2, <1>5
  <2>2. /\ s_log[n + 1].name = PacketName(s_log[n + 1].state, p.id)
        /\ s_log[n + 1].arg = p.arg
        /\ s_log[n + 1].body = p.body
    <3>1. 1 \in 1..Len(inbox)
      BY <1>5
    <3> QED BY <3>1, <1>6 DEF SessionInv, AgreementInv
  <2>3. s_log[n + 1].state = m_state
    <3>1. s_log[n + 1].state = "PLAY" <=> \E j \in 1..n : s_log[j].name = "game_profile"
      <4>1. n + 1 \in 1..Len(s_log) /\ (n + 1) - 1 = n
        BY <1>5
      <4>2. s_log[n + 1].state = "PLAY" <=>
               \E j \in 1..((n + 1) - 1) : s_log[j].name = "game_profile"
        BY <4>1 DEF SessionInv, ServerInv
      <4> QED BY <4>1, <4>2
    <3>2. m_state = "PLAY" <=> \E j \in 1..n : handled[j].name = "game_profile"
      BY <1>1 DEF SessionInv, ClientInv, ProgressInv
    <3>3. \A j \in 1..n : handled[j] = s_log[j]
      BY DEF SessionInv, AgreementInv
    <3>4. s_log[n + 1].state \in {"LOGIN", "PLAY"}
      BY <2>1 DEF Handled
    <3> QED BY <3>1, <3>2, <3>3, <3>4, <1>3
  <2> QED BY <2>1, <2>2, <2>3 DEF Handled
<1> HIDE DEF this
<1>8. /\ Len(handled') = n + 1
      /\ \A i \in 1..n : handled'[i] = handled[i]
      /\ handled'[n + 1] = this
  BY <1>1, <1>2, <1>4, AppendProperties
<1>9. ASSUME NEW i \in 1..Len(handled') PROVE handled'[i] = s_log[i]
  <2>1. CASE i \in 1..n
    BY <2>1, <1>8 DEF SessionInv, AgreementInv
  <2>2. CASE i = n + 1
    BY <2>2, <1>7, <1>8
  <2> QED BY <2>1, <2>2, <1>5, <1>8
<1>10. ASSUME NEW i \in 1..Len(inbox')
       PROVE  /\ s_log[Len(handled') + i].name
                     = PacketName(s_log[Len(handled') + i].state, inbox'[i].id)
              /\ s_log[Len(handled') + i].arg = inbox'[i].arg
              /\ s_log[Len(handled') + i].body = inbox'[i].body
  <2>1. i + 1 \in 1..Len(inbox) /\ Len(handled') + i = n + (i + 1)
    BY <1>5, <1>6, <1>8
  <2> QED BY <2>1, <1>6 DEF SessionInv, AgreementInv
<1> QED BY <1>5, <1>6, <1>8, <1>9, <1>10 DEF AgreementInv

-----------------------------------------------------------------------------
\* Steps that neither send nor receive a packet.
LEMMA QuietInv ==
    ASSUME SessionInv, UNCHANGED <<inbox, handled, s_log>>,
           s_state' = s_state \/ (s_state = "HANDSHAKING" /\ s_state' = "LOGIN")
    PROVE  ServerInv' /\ AgreementInv'
<1>1. ServerInv'
  BY DEF SessionInv, ServerInv
<1>2. AgreementInv'
  BY DEF SessionInv, AgreementInv
<1> QED BY <1>1, <1>2

LEMMA ClientStepInv == SessionInv /\ ClientStep => ServerInv' /\ AgreementInv'
<1> SUFFICES ASSUME SessionInv, ClientStep PROVE ServerInv' /\ AgreementInv'
  OBVIOUS
<1>1. UNCHANGED <<s_state, s_log>>
  BY DEF ClientStep, serverVars
<1>2. CASE send_intention \/ send_hello
  BY <1>1, <1>2, QuietInv DEF send_intention, send_hello
<1>3. CASE inbox # <<>> /\ on_packet_received(Head(inbox))
  <2>1. Receive(Head(inbox))
    BY <1>3, PacketReceived
  <2>2. AgreementInv'
    BY <1>1, <1>3, <2>1, ReceiveAgrees
  <2>3. ServerInv'
    BY <1>1 DEF SessionInv, ServerInv
  <2> QED BY <2>2, <2>3
<1> QED BY <1>2, <1>3 DEF ClientStep, ClientNext

\* A server that has sent login is in PLAY, and one greeted is in LOGIN.
LEMMA ServerSendInv == SessionInv /\ ServerSend => ServerInv' /\ AgreementInv'
<1> SUFFICES ASSUME SessionInv, ServerSend PROVE ServerInv' /\ AgreementInv'
  OBVIOUS
<1>1. HasSent("login") => s_state = "PLAY"
  <2> SUFFICES ASSUME NEW i \in 1..Len(s_log), s_log[i].name = "login" PROVE s_state = "PLAY"
    BY DEF HasSent
  <2>1. s_log[i].state = "PLAY"
    BY DEF SessionInv, ServerInv
  <2>2. PICK j \in 1..(i - 1) : s_log[j].name = "game_profile"
    BY <2>1 DEF SessionInv, ServerInv
  <2>3. j \in 1..Len(s_log)
    BY DEF SessionInv, ServerInv
  <2> QED BY <2>2, <2>3 DEF SessionInv, ServerInv
<1>2. PICK arg \in Arg :
          \/ send_query(arg) \/ send_profile(arg) \/ send_login(arg) \/ send_keep_alive(arg)
          \/ \E name \in {"hello", "login_compression", "login_disconnect"} :
                 send_unsupported(name, arg)
          \/ \E name \in {"level_chunk_with_light", "custom_payload", "add_entity"} :
                 send_play(name, arg)
  BY DEF ServerSend
<1>3. CASE send_profile(arg)
  <2>1. s_state = "LOGIN" /\ s_state' = "PLAY" /\ ServerSends(LoginPacket("game_profile"), arg)
    BY <1>3 DEF send_profile, Greeted
  <2>2. LoginPacket("game_profile") \in 1..6
        /\ PacketName(s_state, LoginPacket("game_profile")) = "game_profile"
    BY <2>1, LoginIds
  <2> QED BY <2>1, <2>2, SendsInv
<1>4. ASSUME NEW name \in {"hello", "login_compression", "login_disconnect", "custom_query"},
             ServerSends(LoginPacket(name), arg), s_state = "LOGIN", UNCHANGED s_state
      PROVE  ServerInv' /\ AgreementInv'
  <2>1. LoginPacket(name) \in 1..6 /\ PacketName(s_state, LoginPacket(name)) = name
    BY <1>4, LoginIds
  <2> QED BY <1>4, <2>1, SendsInv
<1>5. ASSUME NEW name \in {"login", "keep_alive", "level_chunk_with_light", "custom_payload",
                           "add_entity"},
             ServerSends(PlayPacket(name), arg), s_state = "PLAY", UNCHANGED s_state
      PROVE  ServerInv' /\ AgreementInv'
  <2>1. PlayPacket(name) \in 1..6 /\ PacketName(s_state, PlayPacket(name)) = name
    BY <1>5, PlayIds
  <2> QED BY <1>5, <2>1, SendsInv
<1>6. CASE send_query(arg)
  BY <1>4, <1>6 DEF send_query, Greeted
<1>7. ASSUME NEW name \in {"hello", "login_compression", "login_disconnect"},
             send_unsupported(name, arg)
      PROVE  ServerInv' /\ AgreementInv'
  BY <1>4, <1>7 DEF send_unsupported, Greeted
<1>8. CASE send_login(arg)
  BY <1>5, <1>8 DEF send_login
<1>9. CASE send_keep_alive(arg)
  BY <1>1, <1>5, <1>9 DEF send_keep_alive
<1>10. ASSUME NEW name \in {"level_chunk_with_light", "custom_payload", "add_entity"},
              send_play(name, arg)
       PROVE  ServerInv' /\ AgreementInv'
  BY <1>1, <1>5, <1>10 DEF send_play
<1> QED BY <1>2, <1>3, <1>6, <1>7, <1>8, <1>9, <1>10

LEMMA NextSessionInv == SessionInv /\ [SessionNext]_vars => SessionInv'
<1> SUFFICES ASSUME SessionInv, [SessionNext]_vars PROVE SessionInv'
  OBVIOUS
<1>1. ClientInv'
  BY StepsOfClient, NextClientInv DEF SessionInv
<1>2. ServerInv' /\ AgreementInv'
  <2>1. CASE ClientStep
    BY <2>1, ClientStepInv
  <2>2. CASE LinkFails /\ UNCHANGED serverVars
    BY <2>2, QuietInv DEF LinkFails, serverVars
  <2>3. CASE ServerRead
    <3>1. UNCHANGED <<inbox, handled, s_log>>
      BY <2>3 DEF ServerRead, read, read_intention, read_hello, read_answer, read_keep_alive,
                  read_settings, read_unexpected, ServerReads, clientVars
    <3>2. s_state' = s_state \/ (s_state = "HANDSHAKING" /\ s_state' = "LOGIN")
      BY <2>3 DEF ServerRead, read, read_intention, read_hello, read_answer, read_keep_alive,
                  read_settings, read_unexpected
    <3> QED BY <3>1, <3>2, QuietInv
  <2>4. CASE ServerSend
    BY <2>4, ServerSendInv
  <2>5. CASE UNCHANGED vars
    BY <2>5, QuietInv DEF vars, clientVars, serverVars
  <2> QED BY <2>1, <2>2, <2>3, <2>4, <2>5 DEF SessionNext
<1> QED BY <1>1, <1>2 DEF SessionInv

-----------------------------------------------------------------------------
\* A session with a server that keeps to the protocol is one that Client allows
\* with any server: the messages keep their order in it, and packets are read
\* in the state the profile puts them in (client::client).
THEOREM SessionImplementsClient == SessionSpec => AnyServerSpec
<1>1. SessionInit => ClientInit
  BY DEF SessionInit
<1> QED BY <1>1, StepsOfClient, PTL DEF SessionSpec, AnyServerSpec

\* What the client has handled is what the server has sent so far, each packet
\* read as the packet the server meant, however far the server is ahead
\* (on_packet_received reads m_state anew for every packet).
THEOREM SessionUnderstood == SessionSpec => []Understood
<1>1. SessionInit => SessionInv
  BY ClientAssumption, InitSessionInv
<1>2. SessionInv => Understood
  <2> SUFFICES ASSUME SessionInv PROVE Understood
    OBVIOUS
  <2>1. handled \in Seq(Handled) /\ s_log \in Seq(Handled) /\ inbox \in Seq(Packet)
    BY DEF SessionInv, ClientInv, ClientTypeOK, ServerInv
  <2>2. Len(handled) <= Len(s_log) /\ \A i \in 1..Len(handled) : handled[i] = s_log[i]
    BY <2>1 DEF SessionInv, AgreementInv
  <2>3. SubSeq(handled, 1, Len(handled)) = SubSeq(s_log, 1, Len(handled))
    BY <2>1, <2>2
  <2> QED BY <2>2, <2>3 DEF Understood, IsPrefix
<1> QED BY <1>1, <1>2, NextSessionInv, PTL DEF SessionSpec

-----------------------------------------------------------------------------
(* What the server waits for.                                              *)

\* The packets of this name on their way to the client, and the messages of this
\* name on their way to the server.
Coming(name) == {i \in Len(handled)+1..Len(s_log) : s_log[i].name = name}

Unread(name) == {i \in s_read+1..Len(sent) : sent[i].name = name}

\* A packet of this name on its way to the client, or the answer to it on its
\* way back, is the one the server waits for, in this state, and the only one.
Awaited(name, state, waiting) ==
    /\ Coming(name) # {} \/ Unread(name) # {} => s_state = state /\ waiting # NoArg
    /\ \A i \in Coming(name) : s_log[i].arg = waiting
    /\ \A i \in Unread(name) : sent[i].arg = waiting
    /\ \A i, j \in Coming(name) : i = j
    /\ \A i, j \in Unread(name) : i = j
    /\ Coming(name) = {} \/ Unread(name) = {}

Settings == {"custom_payload", "client_information"}

\* How far the server has read, and in what state it is.
ReadInv ==
    /\ s_read \in 0..Len(sent)
    /\ s_state = "HANDSHAKING" <=> s_read = 0
    /\ s_log # <<>> => s_read >= 2
    /\ \A i \in 1..Len(s_log) : s_log[i].body = "ok" /\ s_log[i].name # "unknown"
    /\ \A i \in s_read+1..Len(sent) : sent[i].name \in Settings => s_state = "PLAY"

ReplyInv ==
    /\ ReadInv
    /\ Awaited("custom_query", "LOGIN", s_query)
    /\ Awaited("keep_alive", "PLAY", s_alive)
    /\ ~s_surprise

-----------------------------------------------------------------------------
\* The same of the next state, where waiting may be waited for no longer.
AwaitedNext(name, state, waiting) ==
    /\ Coming(name)' # {} \/ Unread(name)' # {} => s_state' = state /\ waiting # NoArg
    /\ \A i \in Coming(name)' : s_log'[i].arg = waiting
    /\ \A i \in Unread(name)' : sent'[i].arg = waiting
    /\ \A i, j \in Coming(name)' : i = j
    /\ \A i, j \in Unread(name)' : i = j
    /\ Coming(name)' = {} \/ Unread(name)' = {}

\* What is on its way is still what it was, or less of it, and the server waits for
\* it in the state it did.
LEMMA AwaitedKept ==
    ASSUME NEW name, NEW state, NEW waiting, Awaited(name, state, waiting),
           Coming(name)' \subseteq Coming(name), Unread(name)' \subseteq Unread(name),
           \A i \in Coming(name) : s_log'[i] = s_log[i],
           \A i \in Unread(name) : sent'[i] = sent[i],
           s_state' = s_state
    PROVE  AwaitedNext(name, state, waiting)
<1> DEFINE C == Coming(name)
           U == Unread(name)
           D == Coming(name)'
           V == Unread(name)'
<1>1. /\ C # {} \/ U # {} => s_state = state /\ waiting # NoArg
      /\ \A i \in C : s_log[i].arg = waiting
      /\ \A i \in U : sent[i].arg = waiting
      /\ \A i, j \in C : i = j
      /\ \A i, j \in U : i = j
      /\ C = {} \/ U = {}
  BY DEF Awaited
<1>2. /\ D \subseteq C /\ V \subseteq U
      /\ \A i \in C : s_log'[i] = s_log[i]
      /\ \A i \in U : sent'[i] = sent[i]
  OBVIOUS
<1> HIDE DEF C, U, D, V
<1>3. /\ D # {} \/ V # {} => s_state' = state /\ waiting # NoArg
      /\ \A i \in D : s_log'[i].arg = waiting
      /\ \A i \in V : sent'[i].arg = waiting
      /\ \A i, j \in D : i = j
      /\ \A i, j \in V : i = j
      /\ D = {} \/ V = {}
  BY <1>1, <1>2
<1> QED BY <1>3 DEF D, V, AwaitedNext

\* Nothing is on its way.
LEMMA AwaitedNone ==
    ASSUME NEW name, NEW state, NEW waiting, Coming(name)' = {}, Unread(name)' = {}
    PROVE  AwaitedNext(name, state, waiting)
BY DEF AwaitedNext

\* What the answers to a packet can be.
LEMMA AnswerNames ==
    ASSUME NEW this \in Handled, NEW i \in 1..Len(AnswersTo(this))
    PROVE  LET a == AnswersTo(this)[i]
           IN  \/ /\ a.name \in {"custom_query", "keep_alive"} /\ this.name = a.name
                  /\ a.arg = this.arg /\ Len(AnswersTo(this)) = 1
               \/ a.name \in Settings /\ this.name = "login"
<1>1. this.arg \in Arg
  BY DEF Handled
<1>2. CASE this.name = "custom_query"
  <2>1. AnswersTo(this) = <<Message("custom_query", this.arg)>>
    BY <1>2 DEF AnswersTo
  <2>2. Len(AnswersTo(this)) = 1 /\ i = 1
    BY <2>1
  <2>3. AnswersTo(this)[1].name = "custom_query" /\ AnswersTo(this)[1].arg = this.arg
    BY <2>1 DEF Message
  <2> QED BY <1>2, <2>2, <2>3
<1>3. CASE this.name = "keep_alive"
  <2>1. AnswersTo(this) = <<Message("keep_alive", this.arg)>>
    BY <1>3 DEF AnswersTo
  <2>2. Len(AnswersTo(this)) = 1 /\ i = 1
    BY <2>1
  <2>3. AnswersTo(this)[1].name = "keep_alive" /\ AnswersTo(this)[1].arg = this.arg
    BY <2>1 DEF Message
  <2> QED BY <1>3, <2>2, <2>3
<1>4. CASE this.name = "login"
  <2>1. AnswersTo(this) = <<Message("custom_payload", NoArg), Message("client_information", NoArg)>>
    BY <1>4 DEF AnswersTo
  <2>2. i = 1 \/ i = 2
    BY <2>1
  <2>3. AnswersTo(this)[1].name = "custom_payload" /\ AnswersTo(this)[2].name = "client_information"
    BY <2>1 DEF Message
  <2> QED BY <1>4, <2>2, <2>3 DEF Settings
<1>5. CASE this.name \notin {"custom_query", "keep_alive", "login"}
  <2>1. AnswersTo(this) = <<>>
    BY <1>5 DEF AnswersTo
  <2> QED BY <2>1
<1> QED BY <1>2, <1>3, <1>4, <1>5

\* The messages there are after some of m have been appended.
LEMMA SomeAppended ==
    ASSUME NEW M, NEW s \in Seq(M), NEW m \in Seq(M), NEW n \in 0..Len(m),
           NEW t, t = s \o SubSeq(m, 1, n)
    PROVE  /\ t \in Seq(M) /\ Len(t) = Len(s) + n
           /\ \A i \in 1..Len(s) : t[i] = s[i]
           /\ \A i \in 1..n : t[Len(s) + i] = m[i]
           /\ \A i \in 1..Len(t) : i \in 1..Len(s) \/ (i - Len(s) \in 1..n /\ t[i] = m[i - Len(s)])
<1> DEFINE e == SubSeq(m, 1, n)
<1>1. e \in Seq(M) /\ Len(e) = n /\ \A i \in 1..n : e[i] = m[i]
  BY SubSeqProperties
<1>2. t = s \o e /\ Len(s) \in Nat
  OBVIOUS
<1> HIDE DEF e
<1>3. /\ t \in Seq(M) /\ Len(t) = Len(s) + n
      /\ \A i \in 1..Len(s) : t[i] = s[i]
      /\ \A i \in 1..n : t[Len(s) + i] = e[i]
  BY <1>1, <1>2, ConcatProperties
<1>4. \A i \in 1..n : t[Len(s) + i] = m[i]
  BY <1>1, <1>3
<1>5. ASSUME NEW i \in 1..Len(t)
      PROVE  i \in 1..Len(s) \/ (i - Len(s) \in 1..n /\ t[i] = m[i - Len(s)])
  <2>1. CASE i <= Len(s)
    BY <1>2, <2>1
  <2>2. CASE ~ (i <= Len(s))
    <3>1. i - Len(s) \in 1..n /\ i = Len(s) + (i - Len(s))
      BY <1>2, <1>3, <2>2
    <3>2. t[Len(s) + (i - Len(s))] = m[i - Len(s)]
      BY <1>4, <3>1
    <3> QED BY <3>1, <3>2
  <2> QED BY <2>1, <2>2
<1> QED BY <1>3, <1>4, <1>5

\* A packet handled is no longer on its way, the answer to it may be.
LEMMA AwaitedAnswered ==
    ASSUME NEW name \in {"custom_query", "keep_alive"}, NEW state, NEW waiting,
           Awaited(name, state, waiting),
           handled \in Seq(Handled), sent \in Seq(Messages), s_log \in Seq(Handled),
           NEW this \in Handled, NEW n \in 0..Len(AnswersTo(this)),
           handled' = Append(handled, this), sent' = sent \o SubSeq(AnswersTo(this), 1, n),
           Len(handled) + 1 \in 1..Len(s_log), s_log[Len(handled) + 1] = this,
           s_read \in 0..Len(sent), UNCHANGED <<s_log, s_read, s_state>>
    PROVE  AwaitedNext(name, state, waiting)
<1> DEFINE k == Len(handled) + 1
<1>1. Len(handled) \in Nat /\ Len(handled') = k /\ Len(s_log) \in Nat /\ Len(sent) \in Nat
  OBVIOUS
<1>2. AnswersTo(this) \in Seq(Messages)
  BY AnswersToType
<1>3. /\ Len(sent') = Len(sent) + n
      /\ \A i \in 1..Len(sent) : sent'[i] = sent[i]
      /\ \A i \in 1..Len(sent') : \/ i \in 1..Len(sent)
                                  \/ /\ i - Len(sent) \in 1..n
                                     /\ sent'[i] = AnswersTo(this)[i - Len(sent)]
  <2> DEFINE m == AnswersTo(this)
  <2>1. sent \in Seq(Messages) /\ m \in Seq(Messages) /\ n \in 0..Len(m)
        /\ sent' = sent \o SubSeq(m, 1, n)
    BY <1>2
  <2> HIDE DEF m
  <2>2. PICK t : t = sent \o SubSeq(m, 1, n)
    OBVIOUS
  <2>3. /\ Len(t) = Len(sent) + n
        /\ \A i \in 1..Len(sent) : t[i] = sent[i]
        /\ \A i \in 1..Len(t) : i \in 1..Len(sent) \/ (i - Len(sent) \in 1..n /\ t[i] = m[i - Len(sent)])
    BY <2>1, <2>2, SomeAppended
  <2>4. sent' = t
    BY <2>1, <2>2
  <2> QED BY <2>3, <2>4 DEF m
<1>4. \A i \in 1..n : i \in 1..Len(AnswersTo(this))
  BY <1>2
<1>5. Coming(name)' = Coming(name) \ {k}
  <2>1. Coming(name)' = {i \in Len(handled')+1..Len(s_log) : s_log[i].name = name}
    BY DEF Coming
  <2>2. Len(handled')+1..Len(s_log) = (k..Len(s_log)) \ {k}
    BY <1>1
  <2>3. Coming(name) = {i \in k..Len(s_log) : s_log[i].name = name}
    BY DEF Coming
  <2> HIDE DEF k
  <2> QED BY <2>1, <2>2, <2>3
<1>6. Unread(name)' = {i \in s_read+1..Len(sent') : sent'[i].name = name}
  BY DEF Unread
<1>7. CASE this.name = name
  <2>1. k \in Coming(name)
    BY <1>1, <1>7 DEF Coming
  <2> HIDE DEF k
  <2>2. Coming(name)' = {} /\ Unread(name) = {} /\ this.arg = waiting
        /\ s_state = state /\ waiting # NoArg
    <3>1. \A i, j \in Coming(name) : i = j
      BY DEF Awaited
    <3>2. Coming(name) = {k}
      BY <2>1, <3>1
    <3>3. s_log[k].arg = waiting /\ Unread(name) = {} /\ s_state = state /\ waiting # NoArg
      BY <2>1 DEF Awaited
    <3> QED BY <1>5, <3>2, <3>3 DEF k
  <2>3. ASSUME NEW i \in Unread(name)' PROVE i = Len(sent) + 1 /\ sent'[i].arg = this.arg
    <3>0. i \in s_read+1..Len(sent') /\ sent'[i].name = name
      BY <1>6
    <3>1. i \in s_read+1..Len(sent') /\ sent'[i].name = name /\ i \in 1..Len(sent')
      BY <1>1, <1>3, <3>0
    <3>2. i \notin 1..Len(sent)
      <4> SUFFICES ASSUME i \in 1..Len(sent) PROVE FALSE
        OBVIOUS
      <4>1. sent[i].name = name /\ i \in s_read+1..Len(sent)
        BY <1>3, <3>1
      <4> QED BY <2>2, <4>1 DEF Unread
    <3>3. i - Len(sent) \in 1..n /\ sent'[i] = AnswersTo(this)[i - Len(sent)]
      BY <1>3, <3>1, <3>2
    <3>4. PICK d \in 1..n : d = i - Len(sent)
      BY <3>3, Zenon
    <3>5. d \in 1..Len(AnswersTo(this)) /\ AnswersTo(this)[d].name = name
      BY <1>4, <3>1, <3>3, <3>4
    <3>6. AnswersTo(this)[d].arg = this.arg /\ Len(AnswersTo(this)) = 1
      BY <3>5, AnswerNames DEF Settings
    <3>7. i = Len(sent) + 1
      BY <1>1, <3>1, <3>4, <3>5, <3>6
    <3>8. sent'[i].arg = this.arg
      BY <3>3, <3>4, <3>6, Zenon
    <3> QED BY <3>7, <3>8, Zenon
  <2>4. \A i, j \in Unread(name)' : i = j
    BY <2>3
  <2>5. \A i \in Unread(name)' : sent'[i].arg = waiting
    BY <2>2, <2>3
  <2> QED BY <2>2, <2>4, <2>5 DEF AwaitedNext
<1>8. CASE this.name # name
  <2>1. Unread(name)' \subseteq Unread(name)
    <3> SUFFICES ASSUME NEW i \in Unread(name)' PROVE i \in Unread(name)
      OBVIOUS
    <3>0. i \in s_read+1..Len(sent') /\ sent'[i].name = name
      BY <1>6
    <3>1. i \in s_read+1..Len(sent') /\ sent'[i].name = name /\ i \in 1..Len(sent')
      BY <1>1, <1>3, <3>0
    <3>2. CASE i \in 1..Len(sent)
      <4>1. sent[i].name = name /\ i \in s_read+1..Len(sent)
        BY <1>3, <3>1, <3>2
      <4> QED BY <4>1 DEF Unread
    <3>3. CASE i \notin 1..Len(sent)
      <4> DEFINE d == i - Len(sent)
      <4>1. d \in 1..Len(AnswersTo(this)) /\ AnswersTo(this)[d].name = name
        BY <1>3, <1>4, <3>1, <3>3
      <4> HIDE DEF d
      <4> QED BY <1>8, <4>1, AnswerNames DEF Settings
    <3> QED BY <3>2, <3>3
  <2>2. Coming(name)' \subseteq Coming(name)
    BY <1>5
  <2>3. \A i \in Unread(name) : sent'[i] = sent[i]
    <3>1. \A i \in Unread(name) : i \in 1..Len(sent)
      BY <1>1 DEF Unread
    <3> QED BY <1>3, <3>1
  <2> QED BY <2>1, <2>2, <2>3, AwaitedKept
<1> QED BY <1>7, <1>8

LEMMA InitReply == ClientAssumption /\ SessionInit => ReplyInv
BY DEF SessionInit, ClientInit, ReplyInv, ReadInv, Awaited, Coming, Unread

\* How the pieces make up the invariant of the next state.
LEMMA ReplyInvNext ==
    ASSUME ReadInv', AwaitedNext("custom_query", "LOGIN", s_query),
           AwaitedNext("keep_alive", "PLAY", s_alive),
           UNCHANGED <<s_query, s_alive, s_surprise>>, ReplyInv
    PROVE  ReplyInv'
BY DEF ReplyInv, Awaited, AwaitedNext

LEMMA SessionTypes ==
    ASSUME SessionInv
    PROVE  /\ handled \in Seq(Handled) /\ inbox \in Seq(Packet) /\ sent \in Seq(Messages)
           /\ s_log \in Seq(Handled) /\ s_state \in {"HANDSHAKING", "LOGIN", "PLAY"}
           /\ Len(s_log) = Len(handled) + Len(inbox)
BY DEF SessionInv, ClientInv, ClientTypeOK, ServerInv, AgreementInv, Messages

\* A server that has sent a packet of PLAY is in PLAY.
LEMMA PlayMeansPlay ==
    ASSUME SessionInv, NEW i \in 1..Len(s_log), s_log[i].state = "PLAY"
    PROVE  s_state = "PLAY"
<1>1. PICK j \in 1..(i - 1) : s_log[j].name = "game_profile"
  BY DEF SessionInv, ServerInv
<1>2. j \in 1..Len(s_log)
  BY SessionTypes
<1> QED BY <1>1, <1>2 DEF SessionInv, ServerInv

\* A packet handled, with the answers that could be written.
LEMMA ReceiveReply ==
    ASSUME SessionInv, ReplyInv, inbox # <<>>, on_packet_received(Head(inbox)),
           UNCHANGED serverVars
    PROVE  ReplyInv'
<1>1. PICK this \in Handled : \E n \in 0..Len(AnswersTo(this)) : AnsweredAs(Head(inbox), this, n)
  BY EveryPacketAnswered DEF Answered, SessionInv
<1>2. PICK n \in 0..Len(AnswersTo(this)) : AnsweredAs(Head(inbox), this, n)
  BY <1>1
<1>3. /\ handled' = Append(handled, this)
      /\ sent' = sent \o SubSeq(AnswersTo(this), 1, n)
      /\ UNCHANGED <<s_log, s_read, s_state, s_query, s_alive, s_surprise>>
  BY <1>2 DEF AnsweredAs, serverVars
<1>4. handled \in Seq(Handled) /\ inbox \in Seq(Packet) /\ sent \in Seq(Messages)
      /\ s_log \in Seq(Handled) /\ Len(s_log) = Len(handled) + Len(inbox)
  BY SessionTypes
<1>5. Len(handled) + 1 \in 1..Len(s_log) /\ s_log[Len(handled) + 1] = this
  <2>1. Len(inbox) \in Nat \ {0} /\ Len(handled) \in Nat
    BY <1>4, EmptySeq
  <2>2. AgreementInv'
    BY <1>3, PacketReceived, ReceiveAgrees
  <2>3. Len(handled') = Len(handled) + 1 /\ handled'[Len(handled) + 1] = this
    BY <1>3, <1>4
  <2>4. Len(handled) + 1 \in 1..Len(handled')
    BY <2>1, <2>3
  <2>5. handled'[Len(handled) + 1] = s_log'[Len(handled) + 1]
    BY <2>2, <2>4 DEF AgreementInv
  <2> QED BY <1>3, <1>4, <2>1, <2>3, <2>5
<1>6. s_read \in 0..Len(sent)
  BY DEF ReplyInv, ReadInv
<1>7. AwaitedNext("custom_query", "LOGIN", s_query) /\ AwaitedNext("keep_alive", "PLAY", s_alive)
  BY <1>3, <1>4, <1>5, <1>6, AwaitedAnswered DEF ReplyInv
<1>8. AnswersTo(this) \in Seq(Messages)
  BY AnswersToType
<1>9. PICK t : t = sent \o SubSeq(AnswersTo(this), 1, n)
  OBVIOUS
<1>10. /\ Len(t) = Len(sent) + n
       /\ \A i \in 1..Len(sent) : t[i] = sent[i]
       /\ \A i \in 1..Len(t) : i \in 1..Len(sent)
                              \/ (i - Len(sent) \in 1..n /\ t[i] = AnswersTo(this)[i - Len(sent)])
  BY <1>4, <1>8, <1>9, SomeAppended
<1>11. sent' = t
  BY <1>3, <1>9
<1>12. ASSUME NEW i \in s_read+1..Len(t), t[i].name \in Settings PROVE s_state = "PLAY"
  <2>1. i \in 1..Len(t)
    BY <1>4, <1>6, <1>10
  <2>2. CASE i \in 1..Len(sent)
    <3>1. i \in s_read+1..Len(sent) /\ sent[i].name \in Settings
      BY <1>4, <1>6, <1>10, <1>12, <2>2
    <3> QED BY <3>1 DEF ReplyInv, ReadInv
  <2>3. CASE i - Len(sent) \in 1..n /\ t[i] = AnswersTo(this)[i - Len(sent)]
    <3> DEFINE d == i - Len(sent)
    <3>1. d \in 1..Len(AnswersTo(this)) /\ AnswersTo(this)[d].name \in Settings
      BY <1>8, <1>12, <2>3
    <3> HIDE DEF d
    <3>2. this.name = "login"
      BY <3>1, AnswerNames DEF Settings
    <3>3. s_log[Len(handled) + 1].state = "PLAY"
      BY <1>5, <3>2 DEF SessionInv, ServerInv
    <3> QED BY <1>5, <3>3, PlayMeansPlay
  <2> QED BY <1>10, <2>1, <2>2, <2>3
<1>13. ReadInv'
  <2>1. s_read' \in 0..Len(sent')
    BY <1>3, <1>4, <1>6, <1>10, <1>11
  <2>2. \A i \in s_read'+1..Len(sent') : sent'[i].name \in Settings => s_state' = "PLAY"
    BY <1>3, <1>11, <1>12
  <2> QED BY <1>3, <2>1, <2>2 DEF ReplyInv, ReadInv
<1> QED BY <1>3, <1>7, <1>13, ReplyInvNext

\* The messages of connect are no answers.
LEMMA GreetingReply ==
    ASSUME SessionInv, ReplyInv, send_intention \/ send_hello, UNCHANGED serverVars
    PROVE  ReplyInv'
<1>1. UNCHANGED <<handled, s_log, s_read, s_state, s_query, s_alive, s_surprise>>
  BY DEF send_intention, send_hello, serverVars
<1>2. PICK name \in {"client_intention", "hello"} : Send(<<Message(name, NoArg)>>, "running")
  BY DEF send_intention, send_hello
<1> DEFINE messages == <<Message(name, NoArg)>>
<1>3. sent \in Seq(Messages) /\ s_read \in 0..Len(sent)
  BY SessionTypes DEF ReplyInv, ReadInv
<1>4. messages \in Seq(Messages) /\ Len(messages) = 1 /\ messages[1].name = name
  BY MessageType, TurnTable
<1>5. Send(messages, "running")
  BY <1>2
<1> HIDE DEF messages
<1>6. PICK n \in 0..Len(messages) :
              /\ sent' \in Seq(Messages)
              /\ Len(sent') = Len(sent) + n
              /\ \A i \in 1..Len(sent) : sent'[i] = sent[i]
              /\ \A i \in 1..n : sent'[Len(sent) + i] = messages[i]
  BY <1>3, <1>4, <1>5, SendAppends
<1>7. ASSUME NEW i \in s_read+1..Len(sent')
      PROVE  (i \in s_read+1..Len(sent) /\ sent'[i] = sent[i]) \/ sent'[i].name = name
  <2>1. Len(sent) \in Nat
    BY <1>3
  <2>2. CASE i <= Len(sent)
    BY <1>3, <1>6, <2>1, <2>2
  <2>3. CASE ~ (i <= Len(sent))
    <3>1. i = Len(sent) + 1 /\ 1 \in 1..n
      BY <1>3, <1>4, <1>6, <2>1, <2>3
    <3> QED BY <1>4, <1>6, <3>1
  <2> QED BY <2>2, <2>3
<1>8. ASSUME NEW what \in {"custom_query", "keep_alive"}
      PROVE  /\ Coming(what)' \subseteq Coming(what) /\ Unread(what)' \subseteq Unread(what)
             /\ \A i \in Unread(what) : sent'[i] = sent[i]
  <2>1. Coming(what)' = Coming(what)
    BY <1>1 DEF Coming
  <2>2. Unread(what)' = {i \in s_read+1..Len(sent') : sent'[i].name = what}
    BY <1>1 DEF Unread
  <2>3. what # name
    OBVIOUS
  <2>4. Unread(what)' \subseteq Unread(what)
    BY <1>7, <2>2, <2>3 DEF Unread
  <2>5. \A i \in Unread(what) : i \in 1..Len(sent)
    BY <1>3 DEF Unread
  <2> QED BY <1>6, <2>1, <2>4, <2>5
<1>9. AwaitedNext("custom_query", "LOGIN", s_query) /\ AwaitedNext("keep_alive", "PLAY", s_alive)
  BY <1>1, <1>8, AwaitedKept DEF ReplyInv
<1>10. ReadInv'
  <2>1. s_read' \in 0..Len(sent')
    BY <1>1, <1>3, <1>6
  <2>2. \A i \in s_read'+1..Len(sent') : sent'[i].name \in Settings => s_state' = "PLAY"
    BY <1>1, <1>7 DEF ReplyInv, ReadInv, Settings
  <2> QED BY <1>1, <2>1, <2>2 DEF ReplyInv, ReadInv
<1> QED BY <1>1, <1>9, <1>10, ReplyInvNext

\* The message read is no longer on its way.
LEMMA ReadLess ==
    ASSUME SessionInv, ReplyInv, s_read < Len(sent), s_read' = s_read + 1,
           UNCHANGED <<sent, handled, s_log>>, NEW name
    PROVE  Coming(name)' = Coming(name) /\ Unread(name)' = Unread(name) \ {s_read + 1}
<1>1. Coming(name)' = Coming(name)
  BY DEF Coming
<1>2. Unread(name)' = {i \in (s_read + 1)+1..Len(sent) : sent[i].name = name}
  BY DEF Unread
<1>3. (s_read + 1)+1..Len(sent) = (s_read+1..Len(sent)) \ {s_read + 1}
  BY SessionTypes DEF ReplyInv, ReadInv
<1> QED BY <1>1, <1>2, <1>3 DEF Unread

\* What the server reads is what it expects.
LEMMA ReadExpected ==
    ASSUME SessionInv, ReplyInv, s_read < Len(sent)
    PROVE  Expected(sent[s_read + 1])
<1> DEFINE m == s_read + 1
<1>1. m \in 1..Len(sent) /\ m \in s_read+1..Len(sent) /\ sent[m].name \in DOMAIN Turn
      /\ s_read \in Nat
  <2>1. sent \in Seq(Messages) /\ s_read \in 0..Len(sent)
    BY SessionTypes DEF ReplyInv, ReadInv
  <2>2. m \in 1..Len(sent) /\ m \in s_read+1..Len(sent) /\ s_read \in Nat
    BY <2>1
  <2>3. sent[m] \in Messages
    BY <2>1, <2>2
  <2> QED BY <2>2, <2>3 DEF Messages
<1>2. CASE sent[m].name = "client_intention"
  <2>1. s_read = 0
    BY <1>1, <1>2 DEF SessionInv, ClientInv, SessionOrder
  <2> QED BY <1>2, <2>1 DEF Expected, ReplyInv, ReadInv
<1>3. CASE sent[m].name = "hello"
  <2>1. s_read = 1
    <3>1. m = 2
      BY <1>1, <1>3 DEF SessionInv, ClientInv, SessionOrder
    <3> QED BY <1>1, <3>1
  <2>2. s_state # "HANDSHAKING"
    BY <2>1 DEF ReplyInv, ReadInv
  <2>3. s_log = <<>>
    BY <2>1 DEF ReplyInv, ReadInv
  <2>4. s_state # "PLAY"
    BY <2>3 DEF SessionInv, ServerInv
  <2> QED BY <1>3, <2>2, <2>4, SessionTypes DEF Expected
<1>4. ASSUME NEW name \in {"custom_query", "keep_alive"}, sent[m].name = name
      PROVE  m \in Unread(name)
  BY <1>1, <1>4 DEF Unread
<1>5. CASE sent[m].name = "custom_query"
  <2>1. m \in Unread("custom_query")
    BY <1>4, <1>5
  <2> QED BY <1>5, <2>1 DEF Expected, ReplyInv, Awaited
<1>6. CASE sent[m].name = "keep_alive"
  <2>1. m \in Unread("keep_alive")
    BY <1>4, <1>6
  <2> QED BY <1>6, <2>1 DEF Expected, ReplyInv, Awaited
<1>7. CASE sent[m].name \in Settings
  <2>1. s_state = "PLAY"
    BY <1>1, <1>7 DEF ReplyInv, ReadInv
  <2> QED BY <1>7, <2>1 DEF Expected, Settings
<1> QED BY <1>1, <1>2, <1>3, <1>5, <1>6, <1>7, TurnTable DEF Settings

\* An answer read was the only thing on its way.
LEMMA AnswerRead ==
    ASSUME SessionInv, ReplyInv, s_read < Len(sent), s_read' = s_read + 1,
           UNCHANGED <<sent, handled, s_log>>,
           NEW name, NEW state, NEW waiting, Awaited(name, state, waiting),
           sent[s_read + 1].name = name
    PROVE  Coming(name)' = {} /\ Unread(name)' = {}
<1>1. s_read + 1 \in Unread(name)
  BY SessionTypes DEF Unread, ReplyInv, ReadInv
<1>2. Coming(name) = {} /\ \A i, j \in Unread(name) : i = j
  BY <1>1 DEF Awaited
<1>3. Unread(name) \ {s_read + 1} = {}
  BY <1>1, <1>2
<1> QED BY <1>2, <1>3, ReadLess

LEMMA ServerReadReply == SessionInv /\ ReplyInv /\ ServerRead => ReplyInv'
<1> SUFFICES ASSUME SessionInv, ReplyInv, ServerRead PROVE ReplyInv'
  OBVIOUS
<1> DEFINE message == sent[s_read + 1]
<1>1. s_read < Len(sent) /\ read(message) /\ Expected(message)
  BY ReadExpected DEF ServerRead
<1>2. /\ read_intention(message) \/ read_hello(message) \/ read_answer(message)
         \/ read_keep_alive(message) \/ read_settings(message)
      /\ UNCHANGED s_surprise
  BY <1>1 DEF read, read_unexpected, read_intention, read_hello, read_answer, read_keep_alive,
              read_settings, Unsurprised
<1>3. s_read' = s_read + 1 /\ UNCHANGED <<sent, handled, s_log>>
  BY <1>1 DEF read, read_unexpected, read_intention, read_hello, read_answer, read_keep_alive,
              read_settings, ServerReads, clientVars
<1>4. s_read \in 0..Len(sent) /\ Len(sent) \in Nat
  BY SessionTypes DEF ReplyInv, ReadInv
<1>5. ASSUME NEW name, NEW state, NEW waiting, Awaited(name, state, waiting), UNCHANGED s_state
      PROVE  AwaitedNext(name, state, waiting)
  <2>1. /\ Coming(name)' \subseteq Coming(name) /\ Unread(name)' \subseteq Unread(name)
        /\ \A i \in Coming(name) : s_log'[i] = s_log[i]
        /\ \A i \in Unread(name) : sent'[i] = sent[i]
    BY <1>1, <1>3, ReadLess
  <2> QED BY <1>5, <2>1, AwaitedKept
<1>6. ASSUME NEW i \in s_read'+1..Len(sent'), sent'[i].name \in Settings
      PROVE  s_state = "PLAY"
  <2>1. i \in s_read+1..Len(sent)
    BY <1>3, <1>4
  <2> QED BY <1>3, <1>6, <2>1 DEF ReplyInv, ReadInv
<1>7. ReadInv'
  <2>1. s_read' \in 0..Len(sent') /\ s_read' # 0
    BY <1>1, <1>3, <1>4
  <2>2. s_state' # "HANDSHAKING" /\ (s_state = "PLAY" => s_state' = "PLAY")
    BY <1>2 DEF read_intention, read_hello, read_answer, read_keep_alive, read_settings
  <2>3. \A i \in s_read'+1..Len(sent') : sent'[i].name \in Settings => s_state' = "PLAY"
    BY <1>6, <2>2
  <2>4. s_log' # <<>> => s_read' >= 2
    BY <1>3, <1>4 DEF ReplyInv, ReadInv
  <2>5. \A i \in 1..Len(s_log') : s_log'[i].body = "ok" /\ s_log'[i].name # "unknown"
    BY <1>3 DEF ReplyInv, ReadInv
  <2> QED BY <2>1, <2>2, <2>3, <2>4, <2>5 DEF ReadInv
<1>8. CASE read_hello(message) \/ read_settings(message)
  <2>1. UNCHANGED <<s_state, s_query, s_alive>>
    BY <1>8 DEF read_hello, read_settings
  <2>2. AwaitedNext("custom_query", "LOGIN", s_query) /\ AwaitedNext("keep_alive", "PLAY", s_alive)
    BY <1>5, <2>1 DEF ReplyInv
  <2> QED BY <1>2, <1>7, <2>1, <2>2, ReplyInvNext
<1>9. CASE read_intention(message)
  <2>1. s_state = "HANDSHAKING" /\ UNCHANGED <<s_query, s_alive>>
    BY <1>9 DEF read_intention
  <2>2. ASSUME NEW name \in {"custom_query", "keep_alive"}
        PROVE  Coming(name)' = {} /\ Unread(name)' = {}
    <3>1. Coming(name) = {} /\ Unread(name) = {}
      BY <2>1 DEF ReplyInv, Awaited
    <3> QED BY <1>1, <1>3, <3>1, ReadLess
  <2>3. AwaitedNext("custom_query", "LOGIN", s_query) /\ AwaitedNext("keep_alive", "PLAY", s_alive)
    BY <2>2, AwaitedNone
  <2> QED BY <1>2, <1>7, <2>1, <2>3, ReplyInvNext
<1>10. CASE read_answer(message)
  <2>1. message.name = "custom_query" /\ UNCHANGED <<s_state, s_alive>>
    BY <1>10 DEF read_answer
  <2>2. Coming("custom_query")' = {} /\ Unread("custom_query")' = {}
    BY <1>1, <1>3, <2>1, AnswerRead DEF ReplyInv
  <2>3. Awaited("custom_query", "LOGIN", s_query)'
    BY <2>2 DEF Awaited
  <2>4. AwaitedNext("keep_alive", "PLAY", s_alive)
    BY <1>5, <2>1 DEF ReplyInv
  <2>5. Awaited("keep_alive", "PLAY", s_alive)'
    BY <2>1, <2>4 DEF Awaited, AwaitedNext
  <2> QED BY <1>2, <1>7, <2>3, <2>5 DEF ReplyInv
<1>11. CASE read_keep_alive(message)
  <2>1. message.name = "keep_alive" /\ UNCHANGED <<s_state, s_query>>
    BY <1>11 DEF read_keep_alive
  <2>2. Coming("keep_alive")' = {} /\ Unread("keep_alive")' = {}
    BY <1>1, <1>3, <2>1, AnswerRead DEF ReplyInv
  <2>3. Awaited("keep_alive", "PLAY", s_alive)'
    BY <2>2 DEF Awaited
  <2>4. AwaitedNext("custom_query", "LOGIN", s_query)
    BY <1>5, <2>1 DEF ReplyInv
  <2>5. Awaited("custom_query", "LOGIN", s_query)'
    BY <2>1, <2>4 DEF Awaited, AwaitedNext
  <2> QED BY <1>2, <1>7, <2>3, <2>5 DEF ReplyInv
<1> QED BY <1>2, <1>8, <1>9, <1>10, <1>11

\* A packet sent is on its way.
LEMMA SentComing ==
    ASSUME SessionInv, ReplyInv, NEW id \in 1..6, NEW arg \in Arg, ServerSends(id, arg),
           s_state \in {"LOGIN", "PLAY"}, NEW name
    PROVE  /\ Coming(name)' = Coming(name)
                  \cup (IF PacketName(s_state, id) = name THEN {Len(s_log) + 1} ELSE {})
           /\ Unread(name)' = Unread(name)
           /\ \A i \in Coming(name) : s_log'[i] = s_log[i]
           /\ s_log'[Len(s_log) + 1].arg = arg
           /\ UNCHANGED <<handled, sent, s_read, s_surprise, process, link>>
           /\ process = "running"
<1> DEFINE entry == [state |-> s_state, name |-> PacketName(s_state, id), arg |-> arg,
                     body |-> "ok"]
           k == Len(s_log) + 1
<1>1. s_log' = Append(s_log, entry) /\ UNCHANGED <<handled, sent, s_read, s_surprise, process, link>>
      /\ process = "running"
  BY DEF ServerSends, Deliver
<1>2. s_log \in Seq(Handled) /\ handled \in Seq(Handled) /\ Len(handled) <= Len(s_log)
  BY SessionTypes
<1>3. entry \in Handled
  BY PacketNames DEF Body, Handled, Names
<1>4. entry.name = PacketName(s_state, id) /\ entry.arg = arg
  OBVIOUS
<1> HIDE DEF entry
<1>5. /\ s_log' \in Seq(Handled) /\ Len(s_log') = k
      /\ \A i \in 1..Len(s_log) : s_log'[i] = s_log[i]
      /\ s_log'[k] = entry
  BY <1>1, <1>2, <1>3, AppendProperties
<1>6. Len(handled) \in Nat /\ Len(s_log) \in Nat
  BY <1>2
<1>7. Len(handled)+1..k = (Len(handled)+1..Len(s_log)) \cup {k}
      /\ \A i \in Len(handled)+1..Len(s_log) : i \in 1..Len(s_log)
  BY <1>2, <1>6
<1>8. Coming(name)' = {i \in Len(handled)+1..k : s_log'[i].name = name}
  BY <1>1, <1>5 DEF Coming
<1>9. Coming(name)' = Coming(name) \cup (IF PacketName(s_state, id) = name THEN {k} ELSE {})
  <2> HIDE DEF k
  <2> QED BY <1>4, <1>5, <1>7, <1>8 DEF Coming
<1>10. \A i \in Coming(name) : s_log'[i] = s_log[i]
  BY <1>5, <1>7 DEF Coming
<1>11. Unread(name)' = Unread(name)
  BY <1>1 DEF Unread
<1> QED BY <1>1, <1>4, <1>5, <1>9, <1>10, <1>11

\* Sending leaves how far the server has read.
LEMMA SentRead ==
    ASSUME SessionInv, ReplyInv, NEW id \in 1..6, NEW arg \in Arg, ServerSends(id, arg),
           s_state \in {"LOGIN", "PLAY"}, PacketName(s_state, id) # "unknown", s_read >= 2,
           s_state' = s_state \/ s_state' = "PLAY"
    PROVE  ReadInv'
<1> DEFINE entry == [state |-> s_state, name |-> PacketName(s_state, id), arg |-> arg,
                     body |-> "ok"]
<1>1. s_log' = Append(s_log, entry) /\ UNCHANGED <<sent, s_read>>
  BY DEF ServerSends, Deliver
<1>2. s_log \in Seq(Handled)
  BY SessionTypes
<1>3. entry \in Handled
  BY PacketNames DEF Body, Handled, Names
<1>4. entry.name = PacketName(s_state, id) /\ entry.body = "ok"
  OBVIOUS
<1> HIDE DEF entry
<1>5. \A i \in 1..Len(s_log') : s_log'[i] = entry \/ (i \in 1..Len(s_log) /\ s_log'[i] = s_log[i])
  BY <1>1, <1>2, <1>3
<1>6. \A i \in 1..Len(s_log') : s_log'[i].body = "ok" /\ s_log'[i].name # "unknown"
  BY <1>4, <1>5 DEF ReplyInv, ReadInv
<1>7. /\ s_read' \in 0..Len(sent') /\ s_read' >= 2 /\ s_read' # 0
      /\ s_state' # "HANDSHAKING"
      /\ \A i \in s_read'+1..Len(sent') : sent'[i].name \in Settings => s_state' = "PLAY"
  BY <1>1 DEF ReplyInv, ReadInv
<1> QED BY <1>6, <1>7 DEF ReadInv

\* A server in PLAY has been greeted.
LEMMA PlayGreeted ==
    ASSUME SessionInv, ReplyInv, s_state = "PLAY"
    PROVE  s_read >= 2
<1>1. s_log # <<>>
  BY DEF SessionInv, ServerInv
<1> QED BY <1>1 DEF ReplyInv, ReadInv

LEMMA ServerSendReply == SessionInv /\ ReplyInv /\ ServerSend => ReplyInv'
<1> SUFFICES ASSUME SessionInv, ReplyInv, ServerSend PROVE ReplyInv'
  OBVIOUS
<1>1. HasSent("login") => s_state = "PLAY"
  <2> SUFFICES ASSUME NEW i \in 1..Len(s_log), s_log[i].name = "login" PROVE s_state = "PLAY"
    BY DEF HasSent
  <2>1. s_log[i].state = "PLAY"
    BY DEF SessionInv, ServerInv
  <2> QED BY <2>1, PlayMeansPlay
<1>2. PICK arg \in Arg :
          \/ send_query(arg) \/ send_profile(arg) \/ send_login(arg) \/ send_keep_alive(arg)
          \/ \E name \in {"hello", "login_compression", "login_disconnect"} :
                 send_unsupported(name, arg)
          \/ \E name \in {"level_chunk_with_light", "custom_payload", "add_entity"} :
                 send_play(name, arg)
  BY DEF ServerSend
\* What is not the packet sent is on its way as before.
<1>3. ASSUME NEW id \in 1..6, ServerSends(id, arg), s_state \in {"LOGIN", "PLAY"},
             NEW name, NEW state, NEW waiting, Awaited(name, state, waiting),
             PacketName(s_state, id) # name, UNCHANGED s_state
      PROVE  AwaitedNext(name, state, waiting)
  <2>1. /\ Coming(name)' \subseteq Coming(name) /\ Unread(name)' \subseteq Unread(name)
        /\ \A i \in Coming(name) : s_log'[i] = s_log[i]
        /\ \A i \in Unread(name) : sent'[i] = sent[i]
    BY <1>3, SentComing
  <2> QED BY <1>3, <2>1, AwaitedKept
\* Packets that are not answered.
<1>4. ASSUME NEW id \in 1..6, ServerSends(id, arg), s_state \in {"LOGIN", "PLAY"}, s_read >= 2,
             PacketName(s_state, id) \notin {"custom_query", "keep_alive", "unknown"},
             UNCHANGED <<s_state, s_query, s_alive>>
      PROVE  ReplyInv'
  <2>1. AwaitedNext("custom_query", "LOGIN", s_query) /\ AwaitedNext("keep_alive", "PLAY", s_alive)
    BY <1>3, <1>4 DEF ReplyInv
  <2>2. ReadInv'
    BY <1>4, SentRead
  <2> QED BY <1>4, <2>1, <2>2, ReplyInvNext, SentComing
\* The packet sent is the only one of its name on its way.
<1>5. ASSUME NEW id \in 1..6, ServerSends(id, arg), s_state \in {"LOGIN", "PLAY"},
             NEW name, Awaited(name, s_state, NoArg), PacketName(s_state, id) = name,
             UNCHANGED s_state
      PROVE  AwaitedNext(name, s_state, arg)
  <2>1. Coming(name) = {} /\ Unread(name) = {}
    BY <1>5 DEF Awaited
  <2>2. Coming(name)' = {Len(s_log) + 1} /\ Unread(name)' = {} /\ s_log'[Len(s_log) + 1].arg = arg
    BY <1>5, <2>1, SentComing
  <2>3. arg # NoArg
    BY ClientAssumption
  <2> QED BY <1>5, <2>2, <2>3 DEF AwaitedNext
<1>6. CASE send_query(arg)
  <2>1. /\ s_state = "LOGIN" /\ s_read >= 2 /\ s_query = NoArg
        /\ ServerSends(LoginPacket("custom_query"), arg)
        /\ s_query' = arg /\ UNCHANGED <<s_state, s_alive>>
    BY <1>6 DEF send_query, Greeted
  <2>2. LoginPacket("custom_query") \in 1..6
        /\ PacketName(s_state, LoginPacket("custom_query")) = "custom_query"
    BY <2>1, LoginIds
  <2>3. AwaitedNext("custom_query", "LOGIN", arg)
    BY <1>5, <2>1, <2>2 DEF ReplyInv
  <2>4. AwaitedNext("keep_alive", "PLAY", s_alive)
    BY <1>3, <2>1, <2>2 DEF ReplyInv
  <2>5. Awaited("custom_query", "LOGIN", s_query)' /\ Awaited("keep_alive", "PLAY", s_alive)'
    BY <2>1, <2>3, <2>4 DEF Awaited, AwaitedNext
  <2>6. ReadInv' /\ ~s_surprise'
    BY <2>1, <2>2, SentRead, SentComing DEF ReplyInv
  <2> QED BY <2>5, <2>6 DEF ReplyInv
<1>7. CASE send_profile(arg)
  <2>1. /\ s_state = "LOGIN" /\ s_state' = "PLAY" /\ s_read >= 2 /\ s_query = NoArg
        /\ ServerSends(LoginPacket("game_profile"), arg) /\ UNCHANGED <<s_query, s_alive>>
    BY <1>7 DEF send_profile, Greeted
  <2>2. LoginPacket("game_profile") \in 1..6
        /\ PacketName(s_state, LoginPacket("game_profile")) = "game_profile"
    BY <2>1, LoginIds
  <2>3. ASSUME NEW name \in {"custom_query", "keep_alive"}
        PROVE  Coming(name)' = {} /\ Unread(name)' = {}
    <3>1. Coming(name) = {} /\ Unread(name) = {}
      BY <2>1 DEF ReplyInv, Awaited
    <3> QED BY <2>1, <2>2, <3>1, SentComing
  <2>4. AwaitedNext("custom_query", "LOGIN", s_query) /\ AwaitedNext("keep_alive", "PLAY", s_alive)
    BY <2>3, AwaitedNone
  <2>5. ReadInv'
    BY <2>1, <2>2, SentRead
  <2> QED BY <2>1, <2>2, <2>4, <2>5, ReplyInvNext, SentComing
<1>8. ASSUME NEW name \in {"hello", "login_compression", "login_disconnect"},
             send_unsupported(name, arg)
      PROVE  ReplyInv'
  <2>1. s_state = "LOGIN" /\ s_read >= 2 /\ ServerSends(LoginPacket(name), arg)
        /\ UNCHANGED <<s_state, s_query, s_alive>>
    BY <1>8 DEF send_unsupported, Greeted
  <2>2. LoginPacket(name) \in 1..6 /\ PacketName(s_state, LoginPacket(name)) = name
    BY <2>1, LoginIds
  <2> QED BY <1>4, <2>1, <2>2
<1>9. ASSUME NEW name \in {"login", "level_chunk_with_light", "custom_payload", "add_entity"},
             s_state = "PLAY", ServerSends(PlayPacket(name), arg),
             UNCHANGED <<s_state, s_query, s_alive>>
      PROVE  ReplyInv'
  <2>1. PlayPacket(name) \in 1..6 /\ PacketName(s_state, PlayPacket(name)) = name
    BY <1>9, PlayIds
  <2> QED BY <1>4, <1>9, <2>1, PlayGreeted
<1>10. CASE send_login(arg)
  BY <1>9, <1>10 DEF send_login
<1>11. ASSUME NEW name \in {"level_chunk_with_light", "custom_payload", "add_entity"},
              send_play(name, arg)
       PROVE  ReplyInv'
  BY <1>1, <1>9, <1>11 DEF send_play
<1>12. CASE send_keep_alive(arg)
  <2>1. /\ s_state = "PLAY" /\ s_alive = NoArg /\ ServerSends(PlayPacket("keep_alive"), arg)
        /\ s_alive' = arg /\ UNCHANGED <<s_state, s_query>>
    BY <1>1, <1>12 DEF send_keep_alive
  <2>2. PlayPacket("keep_alive") \in 1..6
        /\ PacketName(s_state, PlayPacket("keep_alive")) = "keep_alive"
    BY <2>1, PlayIds
  <2>3. AwaitedNext("keep_alive", "PLAY", arg)
    BY <1>5, <2>1, <2>2 DEF ReplyInv
  <2>4. AwaitedNext("custom_query", "LOGIN", s_query)
    BY <1>3, <2>1, <2>2 DEF ReplyInv
  <2>5. Awaited("custom_query", "LOGIN", s_query)' /\ Awaited("keep_alive", "PLAY", s_alive)'
    BY <2>1, <2>3, <2>4 DEF Awaited, AwaitedNext
  <2>6. ReadInv' /\ ~s_surprise'
    BY <2>1, <2>2, PlayGreeted, SentRead, SentComing DEF ReplyInv
  <2> QED BY <2>5, <2>6 DEF ReplyInv
<1> QED BY <1>2, <1>6, <1>7, <1>8, <1>10, <1>11, <1>12

LEMMA NextReply == SessionInv /\ ReplyInv /\ [SessionNext]_vars => ReplyInv'
<1> SUFFICES ASSUME SessionInv, ReplyInv, [SessionNext]_vars PROVE ReplyInv'
  OBVIOUS
<1>1. CASE ClientStep
  BY <1>1, ReceiveReply, GreetingReply DEF ClientStep, ClientNext
<1>2. CASE ServerRead
  BY <1>2, ServerReadReply
<1>3. CASE ServerSend
  BY <1>3, ServerSendReply
<1>4. CASE (LinkFails /\ UNCHANGED serverVars) \/ UNCHANGED vars
  <2>1. UNCHANGED <<sent, handled, s_state, s_read, s_query, s_alive, s_log, s_surprise>>
    BY <1>4 DEF LinkFails, serverVars, clientVars, vars
  <2> QED BY <2>1 DEF ReplyInv, ReadInv, Awaited, Coming, Unread
<1> QED BY <1>1, <1>2, <1>3, <1>4 DEF SessionNext

-----------------------------------------------------------------------------
\* A send the process does not survive did not reach a link that is up.
LEMMA SendFails ==
    ASSUME ClientInv, NEW messages \in Seq(Messages), Send(messages, "running"), UNCHANGED link,
           process' # "running"
    PROVE  link' = "down"
<1>1. PICK n \in Written(messages) :
          process' = IF n < Len(messages) THEN "terminated" ELSE "running"
  BY DEF Send
<1>2. n < Len(messages) /\ Len(messages) \in Nat
  BY <1>1
<1> QED BY <1>2 DEF Written, ClientInv, ClientTypeOK

\* A packet of a server that keeps to the protocol is one it has sent.
LEMMA PacketSound ==
    ASSUME SessionInv, ReplyInv, inbox # <<>>, on_packet_received(Head(inbox)), UNCHANGED serverVars
    PROVE  /\ Head(inbox).body = "ok"
           /\ PacketName(m_state, Head(inbox).id) # "unknown"
           /\ \E i \in 1..Len(handled') : handled'[i].name = PacketName(m_state, Head(inbox).id)
           /\ Head(inbox) \in Packet /\ UNCHANGED link
<1> DEFINE p == Head(inbox)
           k == Len(handled) + 1
<1>1. Receive(p) /\ UNCHANGED s_log
  BY PacketReceived DEF serverVars
<1>2. PICK this \in Handled : /\ handled' = Append(handled, this)
                              /\ this.name = PacketName(m_state, p.id) /\ this.body = p.body
  BY <1>1, ReceivedRecord DEF SessionInv
<1>3. handled \in Seq(Handled) /\ inbox \in Seq(Packet) /\ s_log \in Seq(Handled)
      /\ Len(s_log) = Len(handled) + Len(inbox)
  BY SessionTypes
<1>4. k \in 1..Len(s_log) /\ k \in 1..Len(handled') /\ handled'[k] = this
  <2>1. Len(inbox) \in Nat \ {0} /\ Len(handled) \in Nat
    BY <1>3, EmptySeq
  <2> QED BY <1>2, <1>3, <2>1
<1>5. AgreementInv'
  BY <1>1, ReceiveAgrees
<1>6. s_log[k] = this
  BY <1>1, <1>4, <1>5 DEF AgreementInv
<1>7. this.body = "ok" /\ this.name # "unknown"
  BY <1>4, <1>6 DEF ReplyInv, ReadInv
<1>8. p \in Packet /\ UNCHANGED link
  BY <1>1, Received DEF SessionInv
<1> QED BY <1>2, <1>4, <1>7, <1>8

\* The handlers of the other packets let the process run on.
LEMMA PacketSurvives ==
    ASSUME SessionInv, ReplyInv, inbox # <<>>, on_packet_received(Head(inbox)),
           UNCHANGED serverVars, process' # "running"
    PROVE  \/ link' = "down"
           \/ \E i \in 1..Len(handled') :
                  handled'[i].name \in {"hello", "login_compression", "level_chunk_with_light"}
<1> DEFINE p == Head(inbox)
           name == PacketName(m_state, p.id)
<1>1. /\ p.body = "ok" /\ name # "unknown" /\ p.arg \in Arg /\ UNCHANGED link
      /\ \E i \in 1..Len(handled') : handled'[i].name = name
  BY PacketSound DEF Packet
<1>2. on_packet_received(p) /\ ClientInv /\ process = "running"
  BY PacketReceived DEF SessionInv, Receive
<1> HIDE DEF p
<1>3. CASE name \in {"hello", "login_compression", "level_chunk_with_light"}
  BY <1>1, <1>3
<1>4. CASE name \notin {"hello", "login_compression", "level_chunk_with_light"}
  <2>1. \/ handle_ignored(p) \/ handle_custom_query(p) \/ handle_game_profile(p)
        \/ handle_login(p) \/ handle_keep_alive(p) \/ handle_custom_payload(p)
    BY <1>1, <1>2, <1>4 DEF on_packet_received, handle_unknown, handle_unsupported, Unsupported,
           handle_unparsable, handle_level_chunk_with_light, Handles
  <2>2. \A what : Afterwards(p, what) = "running"
    BY <1>1 DEF Afterwards
  <2>3. CASE handle_ignored(p) \/ handle_game_profile(p) \/ handle_custom_payload(p)
    BY <1>2, <2>2, <2>3 DEF handle_ignored, handle_game_profile, handle_custom_payload
  <2>4. CASE handle_custom_query(p)
    <3>1. <<Message("custom_query", p.arg)>> \in Seq(Messages)
      BY <1>1, MessageType, TurnTable
    <3> QED BY <1>1, <1>2, <2>2, <2>4, <3>1, SendFails DEF handle_custom_query
  <2>5. CASE handle_login(p)
    <3>1. <<Message("custom_payload", NoArg), Message("client_information", NoArg)>> \in Seq(Messages)
      BY MessageType, TurnTable
    <3> QED BY <1>1, <1>2, <2>2, <2>5, <3>1, SendFails DEF handle_login
  <2>6. CASE handle_keep_alive(p)
    <3>1. <<Message("keep_alive", p.arg)>> \in Seq(Messages)
      BY <1>1, MessageType, TurnTable
    <3> QED BY <1>1, <1>2, <2>2, <2>6, <3>1, SendFails DEF handle_keep_alive
  <2> QED BY <2>1, <2>3, <2>4, <2>5, <2>6
<1> QED BY <1>3, <1>4

LEMMA NextSurvives ==
    SessionInv /\ ReplyInv /\ ClientSurvives /\ [SessionNext]_vars => ClientSurvives'
<1> SUFFICES ASSUME SessionInv, ReplyInv, ClientSurvives, [SessionNext]_vars PROVE ClientSurvives'
  OBVIOUS
<1>1. CASE inbox # <<>> /\ on_packet_received(Head(inbox)) /\ UNCHANGED serverVars
  BY <1>1, PacketSurvives DEF ClientSurvives
<1>2. CASE (send_intention \/ send_hello) /\ UNCHANGED serverVars
  <2>1. PICK name \in {"client_intention", "hello"} : Send(<<Message(name, NoArg)>>, "running")
    BY <1>2 DEF send_intention, send_hello
  <2>2. <<Message(name, NoArg)>> \in Seq(Messages)
    BY MessageType, TurnTable
  <2>3. UNCHANGED link /\ ClientInv
    BY <1>2 DEF send_intention, send_hello, SessionInv
  <2>4. process' # "running" => link' = "down"
    BY <2>1, <2>2, <2>3, SendFails
  <2> QED BY <2>4 DEF ClientSurvives
<1>3. CASE ServerRead \/ ServerSend \/ UNCHANGED vars
  <2>1. UNCHANGED <<process, link, handled>>
    BY <1>3 DEF ServerRead, read, read_unexpected, read_intention, read_hello, read_answer,
                read_keep_alive, read_settings, ServerReads, clientVars, vars, ServerSend,
                send_query, send_profile, send_login, send_keep_alive, send_unsupported, send_play,
                ServerSends, Deliver
  <2> QED BY <2>1 DEF ClientSurvives
<1>4. CASE LinkFails /\ UNCHANGED serverVars
  BY <1>4 DEF LinkFails, ClientSurvives
<1> QED BY <1>1, <1>2, <1>3, <1>4 DEF SessionNext, ClientStep, ClientNext

LEMMA SessionInvariant == SessionSpec => [](SessionInv /\ ReplyInv /\ ClientSurvives)
<1>1. SessionInit => SessionInv /\ ReplyInv /\ ClientSurvives
  <2>1. SessionInit => ClientSurvives
    BY DEF SessionInit, ClientInit, ClientSurvives
  <2> QED BY <2>1, ClientAssumption, InitSessionInv, InitReply
<1>2. (SessionInv /\ ReplyInv /\ ClientSurvives) /\ [SessionNext]_vars
          => (SessionInv /\ ReplyInv /\ ClientSurvives)'
  BY NextSessionInv, NextReply, NextSurvives
<1> QED BY <1>1, <1>2, PTL DEF SessionSpec

\* No message reaches the server in a state that has no such message, or
\* answers a query or a keep-alive the server does not wait for, however far its
\* packets are ahead of the answers (on_connect; the handlers answer before the
\* next packet is read, and once).
THEOREM SessionUnsurprised == SessionSpec => []ServerNeverSurprised
BY SessionInvariant, PTL DEF ReplyInv, ServerNeverSurprised

\* A session ends on the client's side only when the link fails, when the
\* server turns on encryption or compression, or with a chunk, whose number of
\* sections is not initialised (on_packet_received and its handlers).
THEOREM SessionSurvives == SessionSpec => []ClientSurvives
BY SessionInvariant, PTL
=============================================================================
