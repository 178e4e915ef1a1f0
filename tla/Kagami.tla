------------------------------- MODULE Kagami -------------------------------
(***************************************************************************)
(* The server: the AO2 and the REST backends on one GameRoom.  The poll    *)
(* thread fires the WebSocket callbacks and runs the expiry sweep, so no   *)
(* client connects or disconnects in the middle of a sweep.                *)
(***************************************************************************)
EXTENDS AOServer, NXServer

vars == <<roomVars, lockVars, aoVars, nxVars>>

TypeOK == RoomTypeOK /\ LockTypeOK /\ AOTypeOK /\ NXTypeOK

Init == RoomInit /\ LockInit /\ AOInit /\ NXInit

PollThread ==
    /\ to_expire = {}
    /\ \E c \in AOClients : on_client_connected(c) \/ on_client_disconnected(c)
    /\ UNCHANGED nxVars

AOPacket == (\E c \in AOClients : AONext(c)) /\ UNCHANGED nxVars

Next == PollThread \/ AOPacket \/ (NXNext /\ UNCHANGED aoVars)

(***************************************************************************)
(* Every thread that is running keeps running; clients may stop at will.   *)
(***************************************************************************)
Fairness ==
    /\ \A t \in RestThreads : WF_vars(RestStep(t) /\ UNCHANGED aoVars)
    /\ WF_vars(Sweep /\ UNCHANGED aoVars)

Spec == Init /\ [][Next]_vars
FairSpec == Spec /\ Fairness

(***************************************************************************)
(* apply_content_reload: the character list is replaced; each session      *)
(* keeps its character under its new index or loses it, and the taken      *)
(* flags are rebuilt from the sessions of the snapshot.                    *)
(***************************************************************************)
Reindex == [CharIds \cup {Spectator} -> CharIds \cup {Spectator}]

apply_content_reload(f) ==
    /\ f[Spectator] = Spectator
    /\ \A j, k \in CharIds : f[j] = f[k] /\ f[j] # Spectator => j = k
    /\ with_lock
    /\ character_id' = [c \in Clients |->
                          IF c \in sessions THEN f[character_id[c]] ELSE character_id[c]]
    /\ char_taken' = [k \in CharIds |-> \E c \in sessions : character_id'[c] = k]
    /\ announced' = char_taken'
    /\ UNCHANGED <<sessions, token_index, joined, moderator, stats, aoVars, nxVars>>

ReloadNext == Next \/ \E f \in Reindex : apply_content_reload(f)
ReloadSpec == Init /\ [][ReloadNext]_vars

-----------------------------------------------------------------------------
(***************************************************************************)
(* No character is lost: a taken character belongs to a session that is    *)
(* still registered, so it can be given back (GameRoom::char_taken against *)
(* sessions_).                                                             *)
(***************************************************************************)
NoLostCharacter ==
    \A k \in CharIds : char_taken[k] => \E c \in sessions : character_id[c] = k

(***************************************************************************)
(* The bearer-token index and the session map never disagree: a token      *)
(* resolves exactly while its REST session exists (state_swap_mutex_).     *)
(***************************************************************************)
TokensResolve == token_index = sessions \cap NXClients

(***************************************************************************)
(* AOServer's proto_state_ and the room's registry hold the same AO        *)
(* clients, and a live session is joined exactly when its handshake is.    *)
(***************************************************************************)
ProtoMatchesRoom ==
    \A c \in AOClients :
        /\ proto_state[c] # "none" <=> c \in sessions
        /\ c \in sessions => (joined[c] <=> proto_state[c] = "JOINED")

(***************************************************************************)
(* A handshake only moves forward: no packet takes a connected client back *)
(* to an earlier protocol state.                                           *)
(***************************************************************************)
Rank(s) == CASE s = "none" -> 0 [] s = "CONNECTED" -> 1 [] s = "IDENTIFIED" -> 2
             [] s = "LOADING" -> 3 [] s = "JOINED" -> 4

HandshakeForward ==
    [][\A c \in AOClients : proto_state'[c] # "none" =>
            Rank(proto_state'[c]) >= Rank(proto_state[c])]_vars

(***************************************************************************)
(* The AO session gauge is exact in every state, whatever the lock-free    *)
(* REST threads do meanwhile (stats.sessions_ao, create/destroy_session).  *)
(***************************************************************************)
AOGaugeExact == stats.sessions_ao = Cardinality(sessions \cap AOClients)

(***************************************************************************)
(* Clients may be shown a taken character that is free again, never a free *)
(* one that is taken: every path that takes a character broadcasts the     *)
(* flags before it ends (broadcast_chars_taken in handle_char_select).     *)
(***************************************************************************)
ShownFreeIsFree == \A k \in CharIds : char_taken[k] => announced[k]

(***************************************************************************)
(* The gauge of REST sessions never counts one that is gone, although a    *)
(* session is uncounted and erased in two steps and by competing threads   *)
(* (stats.sessions_nx in destroy_session).                                 *)
(***************************************************************************)
NXGaugeNeverOver == stats.sessions_nx <= Cardinality(sessions \cap NXClients)

(***************************************************************************)
(* Revoking an auth token removes, in the same exclusive section, every    *)
(* session bound to it so far (AuthLogoutEndpoint).                        *)
(***************************************************************************)
RevocationKills ==
    [][\A a \in AuthTokens : auth_state[a] # "revoked" /\ auth_state'[a] = "revoked" =>
            \A c \in sessions' \cap NXClients : auth_token_id'[c] # a]_vars

(***************************************************************************)
(* A REST session that stays idle past its TTL is removed by the sweep of  *)
(* the poll thread (find_expired_sessions, WsWorkerPool).                  *)
(***************************************************************************)
IdleSwept ==
    \A c \in NXClients : c \in sessions /\ idle[c] ~> c \notin sessions \/ ~idle[c]

(***************************************************************************)
(* Every accepted REST request is answered and its lock released.          *)
(***************************************************************************)
RequestsAnswered == \A t \in RestThreads : pc[t] # "idle" ~> pc[t] = "idle" /\ writer # t

-----------------------------------------------------------------------------
(* What the repository says of the room and the code does not keep. *)

(***************************************************************************)
(* Two live sessions never play one character (handle_char_select as the   *)
(* single source of truth for the taken state).                            *)
(***************************************************************************)
OneOwner ==
    \A c, d \in sessions :
        c # d /\ character_id[c] = character_id[d] => character_id[c] = Spectator

(***************************************************************************)
(* Revoking an auth token kills every session created with it, so no       *)
(* session is left bound to a revoked token (kill_sessions_for_token).     *)
(***************************************************************************)
RevokedUnbound ==
    \A c \in sessions \cap NXClients : auth_token_id[c] # NoAuth =>
        auth_state[auth_token_id[c]] # "revoked"

(***************************************************************************)
(* The registries that describe one set of sessions agree between any two  *)
(* steps: sessions and token index, room and protocol state, the AO gauge, *)
(* the taken flags and the flags clients were shown.                       *)
(***************************************************************************)
RoomConsistent == TokensResolve /\ ProtoMatchesRoom /\ AOGaugeExact /\ ShownFreeIsFree
=============================================================================
