------------------------------ MODULE AOServer ------------------------------
(***************************************************************************)
(* The AO2 backend: one protocol state per WebSocket client, the handshake *)
(* HI -> ID -> RD, character selection and moderator login.  Callbacks and *)
(* packets run under the exclusive dispatch lock, so each is one action.   *)
(***************************************************************************)
EXTENDS GameRoom

VARIABLES
    proto_state,   \* AOProtocolState::state, "none" when proto_state_ has no entry
    ao_seen        \* ids already handed out by the WebSocket server

aoVars == <<proto_state, ao_seen>>

ProtoStates == {"none", "CONNECTED", "IDENTIFIED", "LOADING", "JOINED"}

AOTypeOK ==
    /\ proto_state \in [AOClients -> ProtoStates]
    /\ ao_seen \subseteq AOClients

AOInit ==
    /\ proto_state = [c \in AOClients |-> "none"]
    /\ ao_seen = {}

on_client_connected(c) ==
    /\ c \notin ao_seen
    /\ with_lock
    /\ ao_seen' = ao_seen \cup {c}
    /\ create_session(c)
    /\ proto_state' = [proto_state EXCEPT ![c] = "CONNECTED"]
    /\ UNCHANGED <<token_index, joined, moderator, character_id, char_taken, announced>>

\* The area cleanup of this handler is in AreaControl.
on_client_disconnected(c) ==
    /\ c \in ao_seen
    /\ proto_state[c] # "none"
    /\ with_lock
    /\ destroy_counters({c} \cap sessions)
    /\ destroy_erase({c})
    /\ proto_state' = [proto_state EXCEPT ![c] = "none"]
    /\ UNCHANGED <<ao_seen, joined, moderator, character_id, announced>>

\* on_client_message and dispatch: packets of unknown clients are dropped.
Dispatched(c) == with_lock /\ proto_state[c] # "none" /\ c \in sessions

Advance(c, s) == proto_state' = [proto_state EXCEPT ![c] = s]

\* HI, when neither a ban nor the network's reputation rejects the client.
AOPacketHI(c) ==
    /\ Dispatched(c)
    /\ proto_state[c] = "CONNECTED"
    /\ Advance(c, "IDENTIFIED")
    /\ UNCHANGED <<roomVars, ao_seen>>

AOPacketIDClient(c) ==
    /\ Dispatched(c)
    /\ proto_state[c] = "IDENTIFIED"
    /\ Advance(c, "LOADING")
    /\ UNCHANGED <<roomVars, ao_seen>>

\* RD examines no state: it joins from any state, and again when joined.
AOPacketRD(c) ==
    /\ Dispatched(c)
    /\ GaugesInBound
    /\ Advance(c, "JOINED")
    /\ joined' = [joined EXCEPT ![c] = TRUE]
    /\ stats' = [stats EXCEPT !.joined = @ + 1]
    /\ UNCHANGED <<sessions, token_index, moderator, character_id, char_taken,
                   announced, ao_seen>>

AOPacketCC(c, requested) ==
    /\ Dispatched(c)
    /\ joined[c]
    /\ GaugesInBound
    /\ handle_char_select(c, requested)
    /\ UNCHANGED aoVars

SetModerator(c, b) ==
    /\ Dispatched(c)
    /\ joined[c]
    /\ moderator[c] # b
    /\ moderator' = [moderator EXCEPT ![c] = b]
    /\ stats' = [stats EXCEPT !.moderators = @ + (IF b THEN 1 ELSE -1)]
    /\ UNCHANGED <<sessions, token_index, joined, character_id, char_taken,
                   announced, aoVars>>

LoginCommand(c) == SetModerator(c, TRUE)
LogoutCommand(c) == SetModerator(c, FALSE)

\* Requests include both sides of the range check.
Requests == -2 .. NumChars

AONext(c) ==
    \/ AOPacketHI(c)
    \/ AOPacketIDClient(c)
    \/ AOPacketRD(c)
    \/ \E requested \in Requests : AOPacketCC(c, requested)
    \/ LoginCommand(c)
    \/ LogoutCommand(c)
=============================================================================
