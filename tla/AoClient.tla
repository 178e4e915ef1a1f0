---- MODULE AoClient ----
(***************************************************************************)
(* The client from the server list to the courtroom: the network thread    *)
(* (WSClientThread::ws_loop with AOClient as its protocol handler), the    *)
(* AO2 server's half of the handshake, and the main thread, whose frame    *)
(* drains the session events, lets the active screen handle its events and *)
(* takes one input.  The threads share nothing but event channels.         *)
(* Every event a channel holds carries the number of the connection it was *)
(* published in; the code does not have that number.  A channel that is    *)
(* always drained whole, or only asked whether it is empty, is a set;      *)
(* those of requests to the server hold the packets flush_outgoing makes   *)
(* of them.                                                                *)
(***************************************************************************)
EXTENDS Integers, Sequences, FiniteSets

CONSTANTS
    Servers,
    MaxConns,     \* connections made
    MaxInputs     \* what the user does

VARIABLES
    \* main thread
    frame,        \* the next step of the frame: session start and asset URLs, session end and screen, input
    screen,       \* top of UIManager's stack: the server list under the character screen under the courtroom
    pending_connect,
    selected,     \* CharSelectScreen::selected is a character
    modal,        \* DisconnectModalWidget::show_modal_
    session,      \* active_session: the connection it was created for, 0 when there is none
    session_mounts,      \* its HTTP mounts from ASS packets
    \* channels
    ServerConnect, DisconnectRequest, Disconnect, SessionStartCh, SessionEndCh, AssetUrl, Ui, OutgoingChat, CharSelectRequest,
    \* network thread
    net,          \* idle, connecting, connected, loop (about to poll), pass (messages are being handled)
    server,       \* the server of this connection
    conn,         \* the number of the last connection made
    conn_state, char_id, buffered_messages,
    \* the connection
    to_server, to_client,
    proto,        \* AOProtocolState::state at the server
    posted,       \* chat the server accepted, with the connection it came by
    inputs

acMain == <<frame, screen, pending_connect, selected, modal, session, session_mounts>>
acNet == <<net, server, conn, conn_state, char_id, buffered_messages>>
acLink == <<to_server, to_client, proto, posted>>
acChannels == <<ServerConnect, DisconnectRequest, Disconnect, SessionStartCh, SessionEndCh, AssetUrl, Ui, OutgoingChat,
                CharSelectRequest>>
acVars == <<acMain, acNet, acLink, acChannels, inputs>>

Packet(k, v) == [kind |-> k, v |-> v]

----
(* Packet handlers.  The client's answer to each packet of the handshake;  *)
(* outside CONNECTED the handler throws and safe_dispatch drops the packet. *)

ReplyTo == [decryptor |-> "HI", ID |-> "ID", PN |-> "askchaa", SI |-> "RC", SC |-> "RM", SM |-> "RD"]

Reply_music(k) == IF k.kind = "SM" /\ k.v = 0 THEN <<>>
                   ELSE IF k.kind \in DOMAIN ReplyTo THEN <<Packet(ReplyTo[k.kind], 0)>> ELSE <<>>

Reply(k) == IF k.kind \in DOMAIN ReplyTo THEN <<Packet(ReplyTo[k.kind], 0)>> ELSE <<>>

----
(* Network thread.                                                         *)

\* The top of ws_loop: stale disconnect requests go, then the thread waits for a server to be chosen.
NetTake ==
    /\ net = "idle" /\ ServerConnect # <<>> /\ conn < MaxConns
    /\ net' = "connecting" /\ server' = Head(ServerConnect)
    /\ ServerConnect' = Tail(ServerConnect)
    /\ UNCHANGED <<conn, conn_state, char_id, buffered_messages, DisconnectRequest, Disconnect, SessionStartCh, SessionEndCh,
                   AssetUrl, Ui, OutgoingChat, CharSelectRequest, acMain, acLink, inputs>>

ConnectFails ==
    /\ net = "connecting"
    /\ net' = "idle" /\ Disconnect' = TRUE /\ DisconnectRequest' = {}
    /\ UNCHANGED <<server, conn, conn_state, char_id, buffered_messages, ServerConnect, SessionStartCh, SessionEndCh,
                   AssetUrl, Ui, OutgoingChat, CharSelectRequest, acMain, acLink, inputs>>

\* connect(), on_connect and the SessionStartEvent; the server greets with its decryptor.
ConnectSucceeds ==
    /\ net = "connecting"
    /\ net' = "connected" /\ conn' = conn + 1 /\ conn_state' = "CONNECTED"
    /\ SessionStartCh' = Append(SessionStartCh, conn + 1)
    /\ to_client' = <<Packet("decryptor", 0)>> /\ to_server' = <<>> /\ proto' = "CONNECTED"
    /\ UNCHANGED <<server, char_id, buffered_messages, ServerConnect, DisconnectRequest, Disconnect, SessionEndCh, AssetUrl,
                   Ui, OutgoingChat, CharSelectRequest, posted, acMain, inputs>>

\* "Drain disconnect requests that arrived during handshake."
EnterLoop ==
    /\ net = "connected"
    /\ net' = "loop" /\ DisconnectRequest' = {}
    /\ UNCHANGED <<server, conn, conn_state, char_id, buffered_messages, ServerConnect, Disconnect, SessionStartCh,
                   SessionEndCh, AssetUrl, Ui, OutgoingChat, CharSelectRequest, acMain, acLink, inputs>>

\* on_disconnect and the SessionEndEvent, then the top of the loop again.
Disconnected ==
    /\ net' = "idle" /\ conn_state' = "NOT_CONNECTED" /\ char_id' = -1 /\ buffered_messages' = <<>>
    /\ SessionEndCh' = Append(SessionEndCh, conn)
    /\ DisconnectRequest' = {}
    /\ to_client' = <<>> /\ to_server' = <<>> /\ proto' = "none"
    /\ UNCHANGED <<server, conn, ServerConnect, SessionStartCh, AssetUrl, Ui, OutgoingChat, CharSelectRequest, posted, acMain,
                   inputs>>

DisconnectRequested == net = "loop" /\ DisconnectRequest # {} /\ Disconnected /\ UNCHANGED Disconnect

ConnectionLost == net \in {"loop", "pass"} /\ Disconnected /\ Disconnect' = TRUE

\* The message loop polls, asks for a disconnect request, handles the packets it has read, then flushes.
InPass == net = "pass" \/ (net = "loop" /\ DisconnectRequest = {})

\* on_message for one packet of what was read.
HandleMessage ==
    /\ InPass /\ to_client # <<>>
    /\ net' = "pass"
    /\ LET k == Head(to_client)
           connected == conn_state = "CONNECTED"
       IN  /\ char_id' = IF k.kind = "PV" THEN k.v ELSE char_id
           /\ conn_state' = IF k.kind = "DONE" /\ connected THEN "JOINED" ELSE conn_state
           /\ Ui' = Ui \cup (IF k.kind = "PV" THEN {"entered"} ELSE IF k.kind = "DONE" /\ connected THEN {"loaded"} ELSE {})
           /\ AssetUrl' = AssetUrl \cup (IF k.kind = "ASS" /\ connected THEN {k.v} ELSE {})
           /\ buffered_messages' = buffered_messages \o (IF connected THEN Reply(k) ELSE <<>>)
    /\ to_client' = Tail(to_client)
    /\ UNCHANGED <<server, conn, ServerConnect, DisconnectRequest, Disconnect, SessionStartCh, SessionEndCh, OutgoingChat,
                   CharSelectRequest, to_server, proto, posted, acMain, inputs>>

\* What the handlers queued goes first, then what the channels hold.
flush_outgoing ==
    /\ InPass /\ (net = "pass" \/ OutgoingChat # <<>> \/ CharSelectRequest # <<>>)
    /\ net' = "loop"
    /\ to_server' = to_server \o buffered_messages \o OutgoingChat \o CharSelectRequest
    /\ buffered_messages' = <<>> /\ OutgoingChat' = <<>> /\ CharSelectRequest' = <<>>
    /\ UNCHANGED <<server, conn, conn_state, char_id, ServerConnect, DisconnectRequest, Disconnect, SessionStartCh,
                   SessionEndCh, AssetUrl, Ui, to_client, proto, posted, acMain, inputs>>

----
(* The server's handlers for this connection.                              *)

ServerReply(k) ==
    CASE k.kind = "HI" /\ proto = "CONNECTED" -> <<Packet("ID", 0), Packet("ASS", conn)>>
      [] k.kind = "ID" /\ proto = "IDENTIFIED" -> <<Packet("PN", 0), Packet("FL", 0)>>
      [] (k.kind = "HI" /\ proto # "CONNECTED") \/ (k.kind = "ID" /\ proto # "IDENTIFIED") -> <<Packet("CT", 0)>>
      [] k.kind = "askchaa" -> <<Packet("SI", 0)>>
      [] k.kind = "RC" -> <<Packet("SC", 0)>>
      [] k.kind = "RM" -> <<Packet("SM", 0)>>
      [] k.kind = "RD" -> <<Packet("CharsCheck", 0), Packet("DONE", 0), Packet("BN", 0)>>
      [] k.kind = "CC" /\ proto = "JOINED" -> <<Packet("PV", k.v)>>
      [] OTHER -> <<>>

ServerState(k) ==
    CASE k.kind = "HI" /\ proto = "CONNECTED" -> "IDENTIFIED"
      [] k.kind = "ID" /\ proto = "IDENTIFIED" -> "LOADING"
      [] k.kind = "RD" -> "JOINED"
      [] OTHER -> proto

ServerStep ==
    /\ to_server # <<>>
    /\ LET k == Head(to_server)
       IN  /\ to_server' = Tail(to_server)
           /\ to_client' = to_client \o ServerReply(k)
           /\ proto' = ServerState(k)
           /\ posted' = IF k.kind = "OOC" /\ proto = "JOINED" THEN posted \cup {<<k.v, conn>>} ELSE posted
    /\ UNCHANGED <<acMain, acNet, acChannels, inputs>>

----
(* The main thread's frame.                                                *)

SameNet == UNCHANGED <<acNet, acLink>>

\* The frame callback: one SessionStartEvent, then the asset URLs.  The new session is made before the old one goes.
FrameStart ==
    /\ frame = "start" /\ frame' = "end"
    /\ session' = IF SessionStartCh # <<>> THEN Head(SessionStartCh) ELSE session
    /\ SessionStartCh' = IF SessionStartCh # <<>> THEN Tail(SessionStartCh) ELSE SessionStartCh
    /\ session_mounts' = (IF SessionStartCh # <<>> THEN {} ELSE session_mounts) \cup (IF session' # 0 THEN AssetUrl ELSE {})
    /\ AssetUrl' = {}
    /\ UNCHANGED <<screen, pending_connect, selected, modal, ServerConnect, DisconnectRequest, Disconnect, SessionEndCh, Ui,
                   OutgoingChat, CharSelectRequest, inputs>> /\ SameNet

NextScreen ==
    CASE screen = "list" /\ pending_connect -> "chars"
      [] screen = "chars" /\ "entered" \in Ui -> "court"
      [] OTHER -> screen

\* One SessionEndEvent; then handle_events of the active screen, and the modal's.  Only the server list leaves
\* UI events in the channel.
FrameEnd ==
    /\ frame = "end" /\ frame' = "input"
    /\ IF SessionEndCh # <<>> THEN session' = 0 /\ session_mounts' = {} /\ SessionEndCh' = Tail(SessionEndCh)
       ELSE UNCHANGED <<session, session_mounts, SessionEndCh>>
    /\ screen' = NextScreen
    /\ pending_connect' = (pending_connect /\ screen # "list")
    /\ selected' = (selected /\ screen # "list")
    /\ Ui' = IF screen = "list" THEN Ui ELSE {}
    /\ modal' = (modal \/ Disconnect) /\ Disconnect' = FALSE
    /\ UNCHANGED <<ServerConnect, DisconnectRequest, SessionStartCh, AssetUrl, OutgoingChat, CharSelectRequest, inputs>>
    /\ SameNet

NoInput ==
    /\ frame = "input" /\ frame' = "start"
    /\ UNCHANGED <<screen, pending_connect, selected, modal, session, session_mounts, acChannels, inputs>> /\ SameNet

Input == frame = "input" /\ frame' = "start" /\ inputs < MaxInputs /\ inputs' = inputs + 1

select_server(s) ==
    /\ Input /\ screen = "list" /\ ~modal
    /\ Len(ServerConnect) + conn < MaxConns
    /\ pending_connect' = TRUE /\ ServerConnect' = Append(ServerConnect, s)
    /\ UNCHANGED <<screen, selected, modal, session, session_mounts, DisconnectRequest, Disconnect, SessionStartCh, SessionEndCh, AssetUrl, Ui,
                   OutgoingChat, CharSelectRequest>> /\ SameNet

\* A character is asked for; the one selected before is entered at once.
select_character(again) ==
    /\ Input /\ screen = "chars" /\ ~modal
    /\ IF again THEN selected /\ screen' = "court" /\ UNCHANGED <<selected, CharSelectRequest>>
       ELSE /\ selected' = TRUE
            /\ CharSelectRequest' = CharSelectRequest \o <<Packet("PW", 0), Packet("CC", 1)>>
            /\ UNCHANGED screen
    /\ UNCHANGED <<pending_connect, modal, session, session_mounts, ServerConnect, DisconnectRequest, Disconnect,
                   SessionStartCh, SessionEndCh, AssetUrl, Ui, OutgoingChat>> /\ SameNet

WriteChat ==
    /\ Input /\ screen # "list" /\ ~modal
    /\ OutgoingChat' = Append(OutgoingChat, Packet("OOC", conn))
    /\ UNCHANGED <<screen, pending_connect, selected, modal, session, session_mounts, ServerConnect, DisconnectRequest, Disconnect,
                   SessionStartCh, SessionEndCh, AssetUrl, Ui, CharSelectRequest>> /\ SameNet

\* Disconnect, or OK in the modal: POP_TO_ROOT.
PopToRoot ==
    /\ Input /\ (modal \/ screen # "list")
    /\ modal' = FALSE /\ screen' = "list"
    /\ DisconnectRequest' = DisconnectRequest \cup {conn}
    /\ UNCHANGED <<pending_connect, selected, session, session_mounts, ServerConnect, Disconnect, SessionStartCh, SessionEndCh, AssetUrl, Ui,
                   OutgoingChat, CharSelectRequest>> /\ SameNet

\* Change Character: POP_SCREEN.
PopScreen ==
    /\ Input /\ screen = "court" /\ ~modal
    /\ screen' = "chars"
    /\ UNCHANGED <<pending_connect, selected, modal, session, session_mounts, acChannels>> /\ SameNet

AcInit ==
    /\ frame = "start" /\ screen = "list" /\ pending_connect = FALSE /\ selected = FALSE /\ modal = FALSE /\ session = 0 /\ session_mounts = {}
    /\ ServerConnect = <<>> /\ DisconnectRequest = {} /\ Disconnect = FALSE /\ SessionStartCh = <<>> /\ SessionEndCh = <<>>
    /\ AssetUrl = {} /\ Ui = {} /\ OutgoingChat = <<>> /\ CharSelectRequest = <<>>
    /\ net = "idle" /\ server \in Servers /\ conn = 0 /\ conn_state = "NOT_CONNECTED" /\ char_id = -1
    /\ buffered_messages = <<>>
    /\ to_server = <<>> /\ to_client = <<>> /\ proto = "none" /\ posted = {} /\ inputs = 0

AcNext ==
    \/ NetTake \/ ConnectFails \/ ConnectSucceeds \/ EnterLoop \/ DisconnectRequested \/ ConnectionLost
    \/ HandleMessage \/ flush_outgoing
    \/ ServerStep
    \/ FrameStart \/ FrameEnd
    \/ NoInput \/ (\E s \in Servers : select_server(s)) \/ (\E again \in BOOLEAN : select_character(again)) \/ WriteChat \/ PopToRoot \/ PopScreen

AcSpec == AcInit /\ [][AcNext]_acVars

----
(* Properties                                                              *)

Chain == {"decryptor", "HI", "ID", "PN", "askchaa", "SI", "RC", "SC", "RM", "SM", "RD", "DONE"}
OnChain(q) == Cardinality({i \in DOMAIN q : q[i].kind \in Chain})

\* The packet handlers of the two ends (PacketBehavior.cpp, ServerPacketBehavior.cpp): until the client has
\* joined, exactly one packet of the handshake is on its way, whatever chat and requests go with it, so a
\* connection that lasts never stops half-way; and a client that has joined is joined at the server too.
HandshakeAlive ==
    net \in {"connected", "loop", "pass"} =>
        /\ conn_state = "CONNECTED" => OnChain(to_client) + OnChain(buffered_messages) + OnChain(to_server) = 1
        /\ conn_state = "JOINED" => proto = "JOINED"

\* AOClient::flush_outgoing: chat left in the channel when a connection ends is never posted on the next
\* server: it is sent before that server lets the client speak.
ChatStaysWithItsServer == \A c \in posted : c[1] = c[2]

\* WSClientThread::ws_loop: a disconnect request made before a connection never ends that connection.
NoStaleRequest == net \in {"loop", "pass"} => DisconnectRequest \subseteq {conn}

\* SDLGameWindow.cpp: "Signal the network thread to disconnect. The resulting SessionEndEvent triggers
\* Session destruction".  A user who went back to the server list is not left connected.
BackMeansGone == screen = "list" /\ ~pending_connect /\ frame = "start" => ~(net \in {"loop", "pass"} /\ DisconnectRequest = {})

\* Connections do not leak into each other, and a handshake never stops half-way (ws_loop, flush_outgoing, the handlers).
ConnectionSound == HandshakeAlive /\ ChatStaysWithItsServer /\ NoStaleRequest
====
