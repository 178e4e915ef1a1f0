---------------------------- MODULE KagamiProofs ----------------------------
(***************************************************************************)
(* Proofs about Kagami, for every number of clients, characters, threads   *)
(* and requests.                                                           *)
(***************************************************************************)
EXTENDS Kagami, FiniteSetTheorems, TLAPS

(***************************************************************************)
(* The parts of destroy_session and handle_char_select keep the room's     *)
(* types.                                                                  *)
(***************************************************************************)
LEMMA CardinalityInt ==
    ASSUME NEW S, S \subseteq Clients
    PROVE  Cardinality(S) \in Nat /\ IsFiniteSet(S)
BY RoomAssumption, FS_Union, FS_Subset, FS_CardinalityType DEF Clients

LEMMA DestroyCountersType ==
    ASSUME RoomTypeOK, NEW S \in SUBSET Clients, destroy_counters(S)
    PROVE  stats' \in Stats /\ char_taken' \in [CharIds -> BOOLEAN]
<1>1. /\ Cardinality(S \cap AOClients) \in Nat
      /\ Cardinality(S \cap NXClients) \in Nat
      /\ Cardinality({c \in S : joined[c]}) \in Nat
      /\ Cardinality({c \in S : moderator[c]}) \in Nat
      /\ Cardinality({c \in S : character_id[c] \in CharIds}) \in Nat
  BY CardinalityInt
<1>2. stats' \in Stats
  <2> DEFINE A == Cardinality(S \cap AOClients)
             B == Cardinality(S \cap NXClients)
             J == Cardinality({c \in S : joined[c]})
             M == Cardinality({c \in S : moderator[c]})
             K == Cardinality({c \in S : character_id[c] \in CharIds})
  <2>1. stats' = [sessions_ao |-> stats.sessions_ao - A, sessions_nx |-> stats.sessions_nx - B,
                  joined |-> stats.joined - J, moderators |-> stats.moderators - M,
                  chars_taken |-> stats.chars_taken - K]
    BY DEF destroy_counters
  <2>2. A \in Nat /\ B \in Nat /\ J \in Nat /\ M \in Nat /\ K \in Nat
    BY <1>1
  <2> HIDE DEF A, B, J, M, K
  <2>3. stats \in Stats BY DEF RoomTypeOK
  <2> QED BY <2>1, <2>2, <2>3 DEF Stats
<1>3. char_taken' \in [CharIds -> BOOLEAN]
  BY DEF RoomTypeOK, destroy_counters, Holding
<1> QED BY <1>2, <1>3

LEMMA SelectType ==
    ASSUME RoomTypeOK, NEW c \in Clients, NEW r \in Int, handle_char_select(c, r)
    PROVE  RoomTypeOK'
<1>0. /\ stats \in Stats /\ char_taken \in [CharIds -> BOOLEAN]
      /\ AfterFree(c) \in [CharIds -> BOOLEAN] /\ FreedCount(c) \in Int
  BY DEF RoomTypeOK, AfterFree, FreedCount
<1>1. CASE SelectInvalid(c, r)
  BY <1>1 DEF SelectInvalid, roomVars, RoomTypeOK
<1>2. CASE SelectRejected(c, r)
  <2>1. stats' \in Stats BY <1>0, <1>2 DEF SelectRejected, Stats
  <2> QED BY <1>0, <1>2, <2>1 DEF SelectRejected, RoomTypeOK
<1>3. CASE SelectAccepted(c, r)
  <2>1. stats' \in Stats BY <1>0, <1>3 DEF SelectAccepted, Stats
  <2>2. char_taken' \in [CharIds -> BOOLEAN] BY <1>0, <1>3 DEF SelectAccepted
  <2> QED BY <1>3, <2>1, <2>2 DEF SelectAccepted, RoomTypeOK
<1> QED BY <1>1, <1>2, <1>3 DEF handle_char_select

-----------------------------------------------------------------------------
(* Type correctness. *)

LEMMA RoomTypeInit == RoomInit => RoomTypeOK
<1> SUFFICES ASSUME RoomInit PROVE RoomTypeOK OBVIOUS
<1>1. stats \in Stats BY DEF RoomInit, Stats
<1> QED BY <1>1 DEF RoomInit, RoomTypeOK, NoneTaken, Clients, Spectator

LEMMA TypeInit == Init => TypeOK
BY RoomTypeInit, RoomAssumption
   DEF Init, TypeOK, LockInit, LockTypeOK, AOInit, AOTypeOK, ProtoStates, NXInit, NXTypeOK, Steps

\* A step that leaves the room's fields other than the registry and the gauges.
LEMMA RoomTypeDestroy ==
    ASSUME RoomTypeOK, NEW S \in SUBSET Clients, destroy_counters(S), destroy_erase(S),
           UNCHANGED <<joined, moderator, character_id>>,
           announced' \in {announced, char_taken'}
    PROVE  RoomTypeOK'
BY DestroyCountersType DEF RoomTypeOK, destroy_erase

LEMMA AOTypeStep ==
    ASSUME TypeOK, NEW c \in AOClients,
           on_client_connected(c) \/ on_client_disconnected(c) \/ AONext(c),
           UNCHANGED nxVars
    PROVE  TypeOK'
<1> USE DEF TypeOK
<1>0. c \in Clients /\ UNCHANGED lockVars => LockTypeOK'
  BY DEF Clients, lockVars, LockTypeOK
<1>1. NXTypeOK' BY DEF NXTypeOK, nxVars
<1>2. ASSUME on_client_connected(c) PROVE RoomTypeOK' /\ LockTypeOK' /\ AOTypeOK'
  <2>1. stats' \in Stats
    BY <1>2 DEF on_client_connected, create_session, RoomTypeOK, Stats
  <2> QED BY <1>2, <2>1 DEF on_client_connected, create_session, with_lock, RoomTypeOK, Clients,
          lockVars, LockTypeOK, AOTypeOK, ProtoStates
<1>3. ASSUME on_client_disconnected(c) PROVE RoomTypeOK' /\ LockTypeOK' /\ AOTypeOK'
  <2>1. destroy_counters({c} \cap sessions) /\ {c} \cap sessions \in SUBSET Clients
    BY <1>3 DEF on_client_disconnected, RoomTypeOK
  <2>2. stats' \in Stats /\ char_taken' \in [CharIds -> BOOLEAN]
    BY <2>1, DestroyCountersType
  <2> QED BY <1>3, <2>2 DEF on_client_disconnected, destroy_erase, with_lock, RoomTypeOK,
          lockVars, LockTypeOK, AOTypeOK, ProtoStates
<1>4. ASSUME AOPacketHI(c) \/ AOPacketIDClient(c)
      PROVE  RoomTypeOK' /\ LockTypeOK' /\ AOTypeOK'
  BY <1>4 DEF AOPacketHI, AOPacketIDClient, Dispatched, Advance, with_lock, roomVars, RoomTypeOK,
     lockVars, LockTypeOK, AOTypeOK, ProtoStates
<1>5. ASSUME AOPacketRD(c) PROVE RoomTypeOK' /\ LockTypeOK' /\ AOTypeOK'
  <2>1. stats' \in Stats BY <1>5 DEF AOPacketRD, RoomTypeOK, Stats
  <2> QED BY <1>5, <2>1 DEF AOPacketRD, Dispatched, Advance, with_lock, RoomTypeOK, Clients,
          lockVars, LockTypeOK, AOTypeOK, ProtoStates
<1>6. ASSUME NEW r \in Requests, AOPacketCC(c, r) PROVE RoomTypeOK' /\ LockTypeOK' /\ AOTypeOK'
  <2>1. r \in Int /\ c \in Clients BY RoomAssumption DEF Requests, Clients
  <2>2. RoomTypeOK' BY <1>6, <2>1, SelectType DEF AOPacketCC
  <2> QED BY <1>6, <2>2 DEF AOPacketCC, Dispatched, with_lock, aoVars, lockVars, LockTypeOK, AOTypeOK
<1>7. ASSUME NEW b \in BOOLEAN, SetModerator(c, b) PROVE RoomTypeOK' /\ LockTypeOK' /\ AOTypeOK'
  <2>1. stats' \in Stats BY <1>7 DEF SetModerator, RoomTypeOK, Stats
  <2> QED BY <1>7, <2>1 DEF SetModerator, Dispatched, with_lock, RoomTypeOK, Clients,
          aoVars, lockVars, LockTypeOK, AOTypeOK
<1> QED BY <1>1, <1>2, <1>3, <1>4, <1>5, <1>6, <1>7 DEF AONext, LoginCommand, LogoutCommand

LEMMA LockTypeStep ==
    ASSUME LockTypeOK, NEW t \in RestThreads,
           LockExclusive(t) \/ LockShared(t) \/ Unlock(t) \/ UNCHANGED lockVars
    PROVE  LockTypeOK'
BY DEF LockTypeOK, LockExclusive, LockShared, Unlock, lockVars

\* Steps that change nothing of the room but the sessions' creation or removal.
LEMMA RestRequestType ==
    ASSUME TypeOK, NEW t \in RestThreads, RestRequest(t), UNCHANGED aoVars
    PROVE  TypeOK'
<1> USE DEF TypeOK
<1>0. AOTypeOK' BY DEF AOTypeOK, aoVars
<1>1. ASSUME NEW a \in AuthTokens \cup {NoAuth}, NEW c \in NXClients, SessionValidate(t, a, c)
      PROVE  RoomTypeOK' /\ LockTypeOK' /\ NXTypeOK'
  BY <1>1 DEF SessionValidate, Begin, Goto, roomVars, RoomTypeOK, lockVars, LockTypeOK, NXTypeOK, Steps
<1>2. ASSUME NEW c \in NXClients, SessionDelete(t, c)
      PROVE  RoomTypeOK' /\ LockTypeOK' /\ NXTypeOK'
  BY <1>2 DEF SessionDelete, Begin, Authenticate, Goto, roomVars, RoomTypeOK, lockVars, LockTypeOK,
     NXTypeOK, Steps
<1>3. ASSUME NEW c \in NXClients, CharacterSelect(t, c)
      PROVE  RoomTypeOK' /\ LockTypeOK' /\ NXTypeOK'
  BY <1>3, LockTypeStep DEF CharacterSelect, Begin, Authenticate, Goto, roomVars, RoomTypeOK,
     NXTypeOK, Steps
<1>4. ASSUME NEW c \in NXClients, AreaChat(t, c)
      PROVE  RoomTypeOK' /\ LockTypeOK' /\ NXTypeOK'
  BY <1>4, LockTypeStep DEF AreaChat, Begin, Authenticate, Goto, roomVars, RoomTypeOK,
     NXTypeOK, Steps
<1> QED BY <1>0, <1>1, <1>2, <1>3, <1>4 DEF RestRequest

LEMMA RestStepType ==
    ASSUME TypeOK, NEW t \in RestThreads, RestStep(t), UNCHANGED aoVars
    PROVE  TypeOK'
<1> USE DEF TypeOK
<1>0. AOTypeOK' BY DEF AOTypeOK, aoVars
<1> DEFINE c == target[t]
<1>c. pc[t] # "idle" => c \in NXClients /\ c \in Clients BY DEF NXTypeOK, Clients
<1>1. ASSUME SessionInsert(t) PROVE RoomTypeOK' /\ LockTypeOK' /\ NXTypeOK'
  BY <1>1, <1>c DEF SessionInsert, create_session_with_token, Goto, RoomTypeOK, lockVars,
     LockTypeOK, NXTypeOK, Steps
<1>2. ASSUME SessionBind(t) PROVE RoomTypeOK' /\ LockTypeOK' /\ NXTypeOK'
  <2>1. stats' \in Stats BY <1>2 DEF SessionBind, RoomTypeOK, Stats
  <2>2. RoomTypeOK' BY <1>2, <2>1 DEF SessionBind, RoomTypeOK, find_session_by_token
  <2>3. LockTypeOK' BY <1>2, LockTypeStep DEF SessionBind, Finish
  <2>4. NXTypeOK' BY <1>2 DEF SessionBind, Finish, NXTypeOK, Steps
  <2> QED BY <2>2, <2>3, <2>4
<1>3. ASSUME CharacterSelectHandle(t) PROVE RoomTypeOK' /\ LockTypeOK' /\ NXTypeOK'
  <2>1. RoomTypeOK'
    <3>1. CASE UNCHANGED roomVars BY <3>1 DEF roomVars, RoomTypeOK
    <3>2. ASSUME NEW k \in CharIds, handle_char_select(target[t], k) PROVE RoomTypeOK'
      BY <1>3, <1>c, <3>2, SelectType, RoomAssumption DEF CharIds, CharacterSelectHandle
    <3> QED BY <1>3, <3>1, <3>2 DEF CharacterSelectHandle
  <2>2. LockTypeOK' BY <1>3, LockTypeStep DEF CharacterSelectHandle, Finish
  <2>3. NXTypeOK' BY <1>3 DEF CharacterSelectHandle, Finish, NXTypeOK, Steps
  <2> QED BY <2>1, <2>2, <2>3
<1>4. ASSUME AreaChatPass(t) \/ DestroyGone(t) PROVE RoomTypeOK' /\ LockTypeOK' /\ NXTypeOK'
  BY <1>4, LockTypeStep DEF AreaChatPass, DestroyGone, Finish, roomVars, RoomTypeOK, NXTypeOK, Steps
<1>5. ASSUME AreaChatKick(t) PROVE RoomTypeOK' /\ LockTypeOK' /\ NXTypeOK'
  BY <1>5 DEF AreaChatKick, Goto, roomVars, RoomTypeOK, lockVars, LockTypeOK, NXTypeOK, Steps
<1>6. ASSUME DestroyFind(t) PROVE RoomTypeOK' /\ LockTypeOK' /\ NXTypeOK'
  <2>1. {c} \in SUBSET Clients /\ destroy_counters({c}) BY <1>6, <1>c DEF DestroyFind
  <2>2. stats' \in Stats /\ char_taken' \in [CharIds -> BOOLEAN] BY <2>1, DestroyCountersType
  <2> QED BY <1>6, <2>2 DEF DestroyFind, Goto, RoomTypeOK, lockVars, LockTypeOK, NXTypeOK, Steps
<1>7. ASSUME DestroyErase(t) PROVE RoomTypeOK' /\ LockTypeOK' /\ NXTypeOK'
  BY <1>7, LockTypeStep DEF DestroyErase, destroy_erase, Finish, RoomTypeOK, NXTypeOK, Steps
<1> QED BY <1>0, <1>1, <1>2, <1>3, <1>4, <1>5, <1>6, <1>7 DEF RestStep

LEMMA SharedStepType ==
    ASSUME TypeOK, UNCHANGED aoVars,
           \/ \E c \in NXClients : SessionRenew(c) \/ TtlElapses(c)
           \/ \E a \in AuthTokens : AuthLogin(a) \/ AuthLogout(a)
           \/ Sweep
    PROVE  TypeOK'
<1> USE DEF TypeOK
<1>0. AOTypeOK' BY DEF AOTypeOK, aoVars
<1>1. ASSUME NEW c \in NXClients, SessionRenew(c) \/ TtlElapses(c)
      PROVE  RoomTypeOK' /\ LockTypeOK' /\ NXTypeOK'
  <2>1. RoomTypeOK' /\ LockTypeOK'
    BY <1>1 DEF SessionRenew, TtlElapses, roomVars, RoomTypeOK, lockVars, LockTypeOK
  <2>2. /\ idle' = [idle EXCEPT ![c] = FALSE] \/ idle' = [idle EXCEPT ![c] = TRUE]
        /\ requests' = requests + 1 \/ requests' = requests
        /\ UNCHANGED <<nx_seen, auth_token_id, auth_state, pc, target, validated, to_expire>>
    BY <1>1 DEF SessionRenew, TtlElapses
  <2>3. idle' \in [NXClients -> BOOLEAN] BY <2>2 DEF NXTypeOK
  <2> QED BY <2>1, <2>2, <2>3 DEF NXTypeOK
<1>2. ASSUME NEW a \in AuthTokens, AuthLogin(a)
      PROVE  RoomTypeOK' /\ LockTypeOK' /\ NXTypeOK'
  BY <1>2 DEF AuthLogin, roomVars, RoomTypeOK, lockVars, LockTypeOK, NXTypeOK
<1>3. ASSUME NEW a \in AuthTokens, AuthLogout(a)
      PROVE  RoomTypeOK' /\ LockTypeOK' /\ NXTypeOK'
  <2>1. Bound(a) \in SUBSET Clients BY DEF Bound, RoomTypeOK
  <2>2. RoomTypeOK' BY <1>3, <2>1, RoomTypeDestroy DEF AuthLogout
  <2> QED BY <1>3, <2>2 DEF AuthLogout, with_lock, lockVars, LockTypeOK, NXTypeOK
<1>4. ASSUME SweepScan PROVE RoomTypeOK' /\ LockTypeOK' /\ NXTypeOK'
  <2>1. to_expire' \subseteq NXClients BY <1>4 DEF SweepScan, RoomTypeOK
  <2>2. RoomTypeOK' BY <1>4 DEF SweepScan, roomVars, RoomTypeOK
  <2>3. LockTypeOK' BY <1>4 DEF SweepScan, with_shared_lock, lockVars, LockTypeOK
  <2> QED BY <1>4, <2>1, <2>2, <2>3 DEF SweepScan, NXTypeOK
<1>5. ASSUME NEW batch \in SUBSET to_expire, SweepExpire(batch)
      PROVE  RoomTypeOK' /\ LockTypeOK' /\ NXTypeOK'
  <2>1. batch \cap sessions \in SUBSET Clients BY DEF RoomTypeOK
  <2>2. RoomTypeOK' BY <1>5, <2>1, RoomTypeDestroy DEF SweepExpire
  <2> QED BY <1>5, <2>2 DEF SweepExpire, with_lock, lockVars, LockTypeOK, NXTypeOK
<1> QED BY <1>0, <1>1, <1>2, <1>3, <1>4, <1>5 DEF Sweep

(***************************************************************************)
(* Every reachable state of the server is well typed: no handler writes an *)
(* out-of-range character index or an id nobody was issued.                *)
(***************************************************************************)
THEOREM TypeCorrect == Spec => []TypeOK
<1>1. TypeOK /\ [Next]_vars => TypeOK'
  <2> SUFFICES ASSUME TypeOK, [Next]_vars PROVE TypeOK' OBVIOUS
  <2>1. CASE PollThread BY <2>1, AOTypeStep DEF PollThread
  <2>2. CASE AOPacket BY <2>2, AOTypeStep DEF AOPacket
  <2>3. CASE NXNext /\ UNCHANGED aoVars
    BY <2>3, RestRequestType, RestStepType, SharedStepType DEF NXNext
  <2>4. CASE UNCHANGED vars
    BY <2>4 DEF vars, roomVars, lockVars, aoVars, nxVars, TypeOK, RoomTypeOK, LockTypeOK, AOTypeOK,
       NXTypeOK
  <2> QED BY <2>1, <2>2, <2>3, <2>4 DEF Next
<1> QED BY TypeInit, <1>1, PTL DEF Spec

-----------------------------------------------------------------------------
(***************************************************************************)
(* Safety of the shared room, for any number of clients, threads and       *)
(* characters: the registry, the token index and the AO backend's own map  *)
(* agree, the AO gauge is exact, no client is shown a free character that  *)
(* is taken, and a revocation removes what was bound to the token.         *)
(***************************************************************************)

-----------------------------------------------------------------------------
(* The token index. *)

\* A step of a REST thread keeps the token index equal to the REST sessions.
LEMMA TokensRest ==
    ASSUME TypeOK, TokensResolve, NEW t \in RestThreads, RestRequest(t) \/ RestStep(t)
    PROVE  TokensResolve'
<1> USE DEF TypeOK, TokensResolve
<1>1. CASE RestRequest(t)
  BY <1>1 DEF RestRequest, SessionValidate, SessionDelete, CharacterSelect, AreaChat, roomVars
<1>2. CASE RestStep(t)
  <2>1. CASE SessionInsert(t)
    BY <2>1 DEF SessionInsert, create_session_with_token, NXTypeOK
  <2>2. CASE SessionBind(t) \/ DestroyFind(t)
    BY <2>2 DEF SessionBind, DestroyFind
  <2>3. CASE CharacterSelectHandle(t)
    BY <2>3 DEF CharacterSelectHandle, handle_char_select, SelectInvalid, SelectRejected,
       SelectAccepted, roomVars
  <2>4. CASE AreaChatPass(t) \/ AreaChatKick(t) \/ DestroyGone(t)
    BY <2>4 DEF AreaChatPass, AreaChatKick, DestroyGone, roomVars
  <2>5. CASE DestroyErase(t)
    BY <2>5 DEF DestroyErase, destroy_erase, NXTypeOK
  <2> QED BY <1>2, <2>1, <2>2, <2>3, <2>4, <2>5 DEF RestStep
<1> QED BY <1>1, <1>2

LEMMA TokensShared ==
    ASSUME TypeOK, TokensResolve,
           \/ \E c \in NXClients : SessionRenew(c) \/ TtlElapses(c)
           \/ \E a \in AuthTokens : AuthLogin(a) \/ AuthLogout(a)
           \/ Sweep
    PROVE  TokensResolve'
BY DEF TokensResolve, SessionRenew, TtlElapses, AuthLogin, AuthLogout, Sweep, SweepScan,
   SweepExpire, destroy_erase, roomVars

LEMMA TokensAO ==
    ASSUME TypeOK, TokensResolve, NEW c \in AOClients,
           on_client_connected(c) \/ on_client_disconnected(c) \/ AONext(c)
    PROVE  TokensResolve'
<1> USE RoomAssumption DEF TokensResolve
<1>1. CASE on_client_connected(c) \/ on_client_disconnected(c)
  BY <1>1 DEF on_client_connected, create_session, on_client_disconnected, destroy_erase
<1>2. CASE AONext(c)
  BY <1>2 DEF AONext, AOPacketHI, AOPacketIDClient, AOPacketRD, AOPacketCC, LoginCommand,
     LogoutCommand, SetModerator, handle_char_select, SelectInvalid, SelectRejected,
     SelectAccepted, roomVars
<1> QED BY <1>1, <1>2

(***************************************************************************)
(* A bearer token resolves exactly while its session exists, in every      *)
(* reachable state, between any two steps of lock-free requests.           *)
(***************************************************************************)
THEOREM TokensAlwaysResolve == Spec => []TokensResolve
<1>1. Init => TokensResolve BY DEF Init, RoomInit, TokensResolve
<1>2. TypeOK /\ TokensResolve /\ [Next]_vars => TokensResolve'
  <2> SUFFICES ASSUME TypeOK, TokensResolve, [Next]_vars PROVE TokensResolve' OBVIOUS
  <2>1. CASE PollThread BY <2>1, TokensAO DEF PollThread
  <2>2. CASE AOPacket BY <2>2, TokensAO DEF AOPacket
  <2>3. CASE NXNext BY <2>3, TokensRest, TokensShared DEF NXNext
  <2>4. CASE UNCHANGED vars BY <2>4 DEF vars, roomVars, TokensResolve
  <2> QED BY <2>1, <2>2, <2>3, <2>4 DEF Next
<1> QED BY TypeCorrect, <1>1, <1>2, PTL DEF Spec

-----------------------------------------------------------------------------
(* The AO backend against the room. *)

\* An id the WebSocket server has not handed out has no state anywhere.
AOFresh == \A c \in AOClients : c \notin ao_seen => proto_state[c] = "none" /\ ~joined[c]

AOInv == ProtoMatchesRoom /\ AOFresh /\ AOGaugeExact

LEMMA DestroyNX ==
    ASSUME RoomTypeOK, NEW S \in SUBSET NXClients, destroy_counters(S)
    PROVE  stats'.sessions_ao = stats.sessions_ao
<1>1. S \cap AOClients = {} BY RoomAssumption
<1>2. Cardinality(S \cap AOClients) = 0 BY <1>1, FS_EmptySet
<1>3. stats.sessions_ao \in Int BY DEF RoomTypeOK, Stats
<1> QED BY <1>2, <1>3 DEF destroy_counters

LEMMA SelectKeepsAOPart ==
    ASSUME RoomTypeOK, NEW c, NEW r, handle_char_select(c, r)
    PROVE  UNCHANGED <<sessions, joined, stats.sessions_ao>>
BY DEF handle_char_select, SelectInvalid, SelectRejected, SelectAccepted, roomVars, RoomTypeOK,
   Stats

\* No step of the REST backend touches the AO clients' part of the room.
LEMMA NXKeepsAOPart ==
    ASSUME TypeOK, NXNext
    PROVE  /\ sessions' \cap AOClients = sessions \cap AOClients
           /\ \A c \in AOClients : joined'[c] = joined[c]
           /\ stats'.sessions_ao = stats.sessions_ao
<1> DEFINE Goal == /\ sessions' \cap AOClients = sessions \cap AOClients
                   /\ \A c \in AOClients : joined'[c] = joined[c]
                   /\ stats'.sessions_ao = stats.sessions_ao
<1> USE RoomAssumption DEF TypeOK
<1>1. ASSUME NEW t \in RestThreads, RestRequest(t) PROVE Goal
  BY <1>1 DEF RestRequest, SessionValidate, SessionDelete, CharacterSelect, AreaChat, roomVars
<1>2. ASSUME NEW t \in RestThreads, RestStep(t) PROVE Goal
  <2>c. pc[t] # "idle" => target[t] \in NXClients BY DEF NXTypeOK
  <2>1. CASE SessionInsert(t)
    BY <2>1, <2>c DEF SessionInsert, create_session_with_token
  <2>2. CASE SessionBind(t)
    <3>1. joined' = [joined EXCEPT ![target[t]] = TRUE] /\ target[t] \in NXClients
      BY <2>2, <2>c DEF SessionBind
    <3>2. stats'.sessions_ao = stats.sessions_ao /\ sessions' = sessions BY <2>2 DEF SessionBind
    <3>3. \A c \in AOClients : joined'[c] = joined[c] BY <3>1 DEF RoomTypeOK, Clients
    <3> QED BY <3>2, <3>3
  <2>3. CASE CharacterSelectHandle(t)
    BY <2>3, SelectKeepsAOPart DEF CharacterSelectHandle, roomVars
  <2>4. CASE AreaChatPass(t) \/ AreaChatKick(t) \/ DestroyGone(t)
    BY <2>4 DEF AreaChatPass, AreaChatKick, DestroyGone, roomVars
  <2>5. CASE DestroyFind(t)
    BY <2>5, <2>c, DestroyNX DEF DestroyFind
  <2>6. CASE DestroyErase(t)
    BY <2>6, <2>c DEF DestroyErase, destroy_erase
  <2> QED BY <1>2, <2>1, <2>2, <2>3, <2>4, <2>5, <2>6 DEF RestStep
<1>3. ASSUME NEW c \in NXClients, SessionRenew(c) \/ TtlElapses(c) PROVE Goal
  BY <1>3 DEF SessionRenew, TtlElapses, roomVars
<1>4. ASSUME NEW a \in AuthTokens, AuthLogin(a) \/ AuthLogout(a) PROVE Goal
  BY <1>4, DestroyNX DEF AuthLogin, AuthLogout, destroy_erase, Bound, roomVars
<1>5. CASE SweepScan BY <1>5 DEF SweepScan, roomVars
<1>6. ASSUME NEW batch \in SUBSET to_expire, SweepExpire(batch) PROVE Goal
  <2>1. batch \cap sessions \in SUBSET NXClients BY DEF NXTypeOK
  <2> QED BY <1>6, <2>1, DestroyNX DEF SweepExpire, destroy_erase
<1> QED BY <1>1, <1>2, <1>3, <1>4, <1>5, <1>6 DEF NXNext, Sweep

LEMMA AOInvStep ==
    ASSUME TypeOK, AOInv, NEW c \in AOClients,
           on_client_connected(c) \/ on_client_disconnected(c) \/ AONext(c)
    PROVE  AOInv'
<1> USE DEF TypeOK, AOInv
<1>0. /\ IsFiniteSet(sessions \cap AOClients) /\ stats.sessions_ao \in Int
      /\ c \in Clients
  BY RoomAssumption, FS_Intersection DEF RoomTypeOK, Stats, Clients
<1>1. CASE on_client_connected(c)
  <2>1. c \notin sessions /\ ~joined[c] BY <1>1 DEF on_client_connected, AOFresh, ProtoMatchesRoom
  <2>2. sessions' \cap AOClients = (sessions \cap AOClients) \cup {c}
    BY <1>1 DEF on_client_connected, create_session
  <2>3. Cardinality(sessions' \cap AOClients) = Cardinality(sessions \cap AOClients) + 1
    BY <1>0, <2>1, <2>2, FS_AddElement
  <2>4. stats'.sessions_ao = stats.sessions_ao + 1
    BY <1>1 DEF on_client_connected, create_session, RoomTypeOK, Stats
  <2>5. AOGaugeExact' BY <2>3, <2>4 DEF AOGaugeExact
  <2>6. AOFresh' BY <1>1 DEF on_client_connected, AOFresh, AOTypeOK
  <2>7. ProtoMatchesRoom'
    <3>1. /\ proto_state' = [proto_state EXCEPT ![c] = "CONNECTED"]
          /\ sessions' = sessions \cup {c} /\ joined' = joined /\ joined[c] = FALSE
      BY <1>0, <1>1, <2>1 DEF on_client_connected, create_session, RoomTypeOK
    <3> QED BY <3>1 DEF ProtoMatchesRoom, AOTypeOK
  <2> QED BY <2>5, <2>6, <2>7
<1>2. CASE on_client_disconnected(c)
  <2>1. c \in sessions /\ {c} \cap sessions = {c}
    BY <1>2 DEF on_client_disconnected, ProtoMatchesRoom
  <2>2. sessions' \cap AOClients = (sessions \cap AOClients) \ {c}
    BY <1>2 DEF on_client_disconnected, destroy_erase
  <2>3. Cardinality(sessions' \cap AOClients) = Cardinality(sessions \cap AOClients) - 1
    BY <1>0, <2>1, <2>2, FS_RemoveElement
  <2>4. Cardinality({c} \cap AOClients) = 1
    <3>1. {c} \cap AOClients = {c} OBVIOUS
    <3> QED BY <3>1, FS_Singleton
  <2>5. stats'.sessions_ao = stats.sessions_ao - 1
    BY <1>0, <1>2, <2>1, <2>4 DEF on_client_disconnected, destroy_counters
  <2>6. AOGaugeExact' BY <2>3, <2>5 DEF AOGaugeExact
  <2>7. AOFresh' BY <1>2 DEF on_client_disconnected, AOFresh, AOTypeOK
  <2>8. ProtoMatchesRoom'
    BY <1>2 DEF on_client_disconnected, destroy_erase, ProtoMatchesRoom, AOTypeOK
  <2> QED BY <2>6, <2>7, <2>8
<1>3. CASE AOPacketHI(c) \/ AOPacketIDClient(c)
  BY <1>3 DEF AOPacketHI, AOPacketIDClient, Dispatched, Advance, roomVars, AOGaugeExact, AOFresh,
     ProtoMatchesRoom, AOTypeOK
<1>4. CASE AOPacketRD(c)
  <2>1. stats'.sessions_ao = stats.sessions_ao BY <1>4 DEF AOPacketRD, RoomTypeOK, Stats
  <2>2. AOGaugeExact' BY <1>4, <2>1 DEF AOPacketRD, AOGaugeExact
  <2>3. /\ proto_state' = [proto_state EXCEPT ![c] = "JOINED"]
        /\ joined' = [joined EXCEPT ![c] = TRUE]
        /\ UNCHANGED <<sessions, ao_seen>> /\ c \in sessions /\ proto_state[c] # "none"
    BY <1>4 DEF AOPacketRD, Dispatched, Advance
  <2>4. AOFresh' BY <2>3 DEF AOFresh, AOTypeOK, RoomTypeOK
  <2>5. ProtoMatchesRoom' BY <2>3 DEF ProtoMatchesRoom, AOTypeOK, RoomTypeOK, Clients
  <2> QED BY <2>2, <2>4, <2>5
<1>5. ASSUME NEW r \in Requests, AOPacketCC(c, r) PROVE AOInv'
  BY <1>5, SelectKeepsAOPart DEF AOPacketCC, aoVars, AOGaugeExact, AOFresh, ProtoMatchesRoom
<1>6. ASSUME NEW b \in BOOLEAN, SetModerator(c, b) PROVE AOInv'
  <2>1. stats'.sessions_ao = stats.sessions_ao BY <1>6 DEF SetModerator, RoomTypeOK, Stats
  <2> QED BY <1>6, <2>1 DEF SetModerator, aoVars, AOGaugeExact, AOFresh, ProtoMatchesRoom
<1> QED BY <1>1, <1>2, <1>3, <1>4, <1>5, <1>6 DEF AONext, LoginCommand, LogoutCommand

\* The three facts about the AO clients are inductive together.
LEMMA AOInvariant == Spec => []AOInv
<1>1. Init => AOInv
  <2> SUFFICES ASSUME Init PROVE AOInv OBVIOUS
  <2>1. Cardinality(sessions \cap AOClients) = 0
    <3>1. sessions \cap AOClients = {} BY DEF Init, RoomInit
    <3> QED BY <3>1, FS_EmptySet
  <2>2. AOGaugeExact BY <2>1 DEF Init, RoomInit, AOGaugeExact
  <2> QED BY <2>2 DEF Init, RoomInit, AOInit, AOInv, AOFresh, ProtoMatchesRoom, Clients
<1>2. TypeOK /\ AOInv /\ [Next]_vars => AOInv'
  <2> SUFFICES ASSUME TypeOK, AOInv, [Next]_vars PROVE AOInv' OBVIOUS
  <2>1. CASE PollThread BY <2>1, AOInvStep DEF PollThread
  <2>2. CASE AOPacket BY <2>2, AOInvStep DEF AOPacket
  <2>3. CASE NXNext /\ UNCHANGED aoVars
    <3>1. /\ sessions' \cap AOClients = sessions \cap AOClients
          /\ \A c \in AOClients : joined'[c] = joined[c]
          /\ stats'.sessions_ao = stats.sessions_ao
      BY <2>3, NXKeepsAOPart
    <3>2. UNCHANGED <<proto_state, ao_seen>> BY <2>3 DEF aoVars
    <3>3. AOGaugeExact' BY <3>1 DEF AOInv, AOGaugeExact
    <3>4. AOFresh' BY <3>1, <3>2 DEF AOInv, AOFresh
    <3>5. ProtoMatchesRoom' BY <3>1, <3>2 DEF AOInv, ProtoMatchesRoom
    <3> QED BY <3>3, <3>4, <3>5 DEF AOInv
  <2>4. CASE UNCHANGED vars
    BY <2>4 DEF vars, roomVars, aoVars, AOInv, AOGaugeExact, AOFresh, ProtoMatchesRoom
  <2> QED BY <2>1, <2>2, <2>3, <2>4 DEF Next
<1> QED BY TypeCorrect, <1>1, <1>2, PTL DEF Spec

(***************************************************************************)
(* AOServer's own map of protocol states and the room's registry never     *)
(* disagree about who is connected and who has joined.                     *)
(***************************************************************************)
THEOREM ProtoAlwaysMatches == Spec => []ProtoMatchesRoom
BY AOInvariant, PTL DEF AOInv

(***************************************************************************)
(* The gauge of AO sessions is exact in every reachable state.             *)
(***************************************************************************)
THEOREM AOGaugeAlwaysExact == Spec => []AOGaugeExact
BY AOInvariant, PTL DEF AOInv

(***************************************************************************)
(* No packet and no callback moves a handshake backwards.                  *)
(***************************************************************************)
THEOREM HandshakeNeverBackward == Spec => HandshakeForward
<1> DEFINE Fwd == \A c \in AOClients : proto_state'[c] # "none" =>
                      Rank(proto_state'[c]) >= Rank(proto_state[c])
<1>1. TypeOK /\ AOInv /\ [Next]_vars => [Fwd]_vars
  <2> SUFFICES ASSUME TypeOK, AOInv, [Next]_vars PROVE Fwd \/ UNCHANGED vars OBVIOUS
  <2>0. ASSUME UNCHANGED proto_state PROVE Fwd
    BY <2>0 DEF TypeOK, AOTypeOK, ProtoStates, Rank
  <2>1. ASSUME NEW c \in AOClients,
               on_client_connected(c) \/ on_client_disconnected(c) \/ AONext(c) PROVE Fwd
    <3>0. proto_state \in [AOClients -> ProtoStates] BY DEF TypeOK, AOTypeOK
    <3>1. CASE on_client_connected(c)
      BY <3>0, <3>1 DEF on_client_connected, AOInv, AOFresh, Rank, ProtoStates
    <3>2. CASE on_client_disconnected(c)
      BY <3>0, <3>2 DEF on_client_disconnected, Rank, ProtoStates
    <3>3. CASE AOPacketHI(c) \/ AOPacketIDClient(c) \/ AOPacketRD(c)
      BY <3>0, <3>3 DEF AOPacketHI, AOPacketIDClient, AOPacketRD, Advance, Rank, ProtoStates
    <3>4. CASE (\E r \in Requests : AOPacketCC(c, r)) \/ LoginCommand(c) \/ LogoutCommand(c)
      BY <2>0, <3>4 DEF AOPacketCC, LoginCommand, LogoutCommand, SetModerator, aoVars
    <3> QED BY <2>1, <3>1, <3>2, <3>3, <3>4 DEF AONext
  <2>2. CASE NXNext /\ UNCHANGED aoVars BY <2>0, <2>2 DEF aoVars
  <2> QED BY <2>1, <2>2 DEF Next, PollThread, AOPacket
<1> QED BY TypeCorrect, AOInvariant, <1>1, PTL DEF Spec, HandshakeForward

-----------------------------------------------------------------------------
(* The taken flags and what the clients were told of them. *)

\* A step that announces the flags, or takes no character.
Told == \/ announced' = char_taken'
        \/ announced' = announced /\ \A k \in CharIds : char_taken'[k] => char_taken[k]

LEMMA SelectTold ==
    ASSUME RoomTypeOK, NEW c, NEW r, handle_char_select(c, r)
    PROVE  Told
BY DEF Told, handle_char_select, SelectInvalid, SelectRejected, SelectAccepted, AfterFree, roomVars,
   RoomTypeOK

LEMMA DestroyTold ==
    ASSUME RoomTypeOK, NEW S, destroy_counters(S), announced' \in {announced, char_taken'}
    PROVE  Told
BY DEF Told, destroy_counters, RoomTypeOK

LEMMA QuietTold ==
    ASSUME UNCHANGED <<char_taken, announced>>
    PROVE  Told
BY DEF Told

\* Every step of the server is of that kind.
LEMMA NextTold ==
    ASSUME TypeOK, [Next]_vars
    PROVE  Told
<1> USE DEF TypeOK
<1>1. ASSUME NEW c \in AOClients,
             on_client_connected(c) \/ on_client_disconnected(c) \/ AONext(c)
      PROVE  Told
  <2>1. CASE on_client_connected(c) BY <2>1, QuietTold DEF on_client_connected
  <2>2. CASE on_client_disconnected(c) BY <2>2, DestroyTold DEF on_client_disconnected
  <2>3. CASE AOPacketHI(c) \/ AOPacketIDClient(c) \/ AOPacketRD(c) \/ LoginCommand(c)
             \/ LogoutCommand(c)
    BY <2>3, QuietTold DEF AOPacketHI, AOPacketIDClient, AOPacketRD, LoginCommand, LogoutCommand,
       SetModerator, roomVars
  <2>4. CASE \E r \in Requests : AOPacketCC(c, r) BY <2>4, SelectTold DEF AOPacketCC
  <2> QED BY <1>1, <2>1, <2>2, <2>3, <2>4 DEF AONext
<1>2. ASSUME NEW t \in RestThreads, RestRequest(t) PROVE Told
  BY <1>2, QuietTold DEF RestRequest, SessionValidate, SessionDelete, CharacterSelect, AreaChat,
     roomVars
<1>3. ASSUME NEW t \in RestThreads, RestStep(t) PROVE Told
  <2>1. CASE CharacterSelectHandle(t)
    BY <2>1, SelectTold, QuietTold DEF CharacterSelectHandle, roomVars
  <2>2. CASE DestroyFind(t) BY <2>2, DestroyTold DEF DestroyFind
  <2>3. CASE SessionInsert(t) \/ SessionBind(t) \/ AreaChatPass(t) \/ AreaChatKick(t)
             \/ DestroyGone(t) \/ DestroyErase(t)
    BY <2>3, QuietTold DEF SessionInsert, SessionBind, AreaChatPass, AreaChatKick, DestroyGone,
       DestroyErase, roomVars
  <2> QED BY <1>3, <2>1, <2>2, <2>3 DEF RestStep
<1>4. ASSUME NEW c \in NXClients, SessionRenew(c) \/ TtlElapses(c) PROVE Told
  BY <1>4, QuietTold DEF SessionRenew, TtlElapses, roomVars
<1>5. ASSUME NEW a \in AuthTokens, AuthLogin(a) \/ AuthLogout(a) PROVE Told
  BY <1>5, QuietTold, DestroyTold DEF AuthLogin, AuthLogout, roomVars
<1>6. CASE Sweep
  BY <1>6, QuietTold, DestroyTold DEF Sweep, SweepScan, SweepExpire, roomVars
<1>7. CASE UNCHANGED vars BY <1>7, QuietTold DEF vars, roomVars
<1> QED BY <1>1, <1>2, <1>3, <1>4, <1>5, <1>6, <1>7 DEF Next, PollThread, AOPacket, NXNext

(***************************************************************************)
(* No client is ever shown a free character that is taken, although a      *)
(* disconnection or a rejected selection frees one without telling anyone. *)
(***************************************************************************)
THEOREM FreeCharactersAreFree == Spec => []ShownFreeIsFree
<1>1. Init => ShownFreeIsFree BY DEF Init, RoomInit, ShownFreeIsFree
<1>2. TypeOK /\ ShownFreeIsFree /\ [Next]_vars => ShownFreeIsFree'
  BY NextTold DEF Told, ShownFreeIsFree
<1> QED BY TypeCorrect, <1>1, <1>2, PTL DEF Spec

(***************************************************************************)
(* The registries that describe the sessions agree in every reachable      *)
(* state: the four theorems above together.                                *)
(***************************************************************************)
THEOREM RoomAlwaysConsistent == Spec => []RoomConsistent
BY TokensAlwaysResolve, ProtoAlwaysMatches, AOGaugeAlwaysExact, FreeCharactersAreFree, PTL DEF RoomConsistent

(***************************************************************************)
(* Revoking an auth token leaves no session that was bound to it, whatever *)
(* other threads are in the middle of.                                     *)
(***************************************************************************)
THEOREM RevocationAlwaysKills == Spec => RevocationKills
<1> DEFINE Kills == \A a \in AuthTokens : auth_state[a] # "revoked" /\ auth_state'[a] = "revoked" =>
                        \A c \in sessions' \cap NXClients : auth_token_id'[c] # a
<1>1. TypeOK /\ [Next]_vars => [Kills]_vars
  <2> SUFFICES ASSUME TypeOK, Next PROVE Kills OBVIOUS
  <2>1. CASE UNCHANGED auth_state BY <2>1
  <2>2. ASSUME NEW a \in AuthTokens, AuthLogin(a) PROVE Kills
    BY <2>2 DEF AuthLogin, TypeOK, NXTypeOK
  <2>3. ASSUME NEW a \in AuthTokens, AuthLogout(a) PROVE Kills
    BY <2>3 DEF AuthLogout, destroy_erase, Bound, TypeOK, NXTypeOK
  <2>4. \/ UNCHANGED auth_state
        \/ \E a \in AuthTokens : AuthLogin(a) \/ AuthLogout(a)
    BY DEF Next, PollThread, AOPacket, NXNext, nxVars, RestRequest, SessionValidate, SessionDelete,
       CharacterSelect, AreaChat, RestStep, SessionInsert, SessionBind, CharacterSelectHandle,
       AreaChatPass, AreaChatKick, DestroyFind, DestroyGone, DestroyErase, SessionRenew,
       TtlElapses, Sweep, SweepScan, SweepExpire
  <2> QED BY <2>1, <2>2, <2>3, <2>4
<1> QED BY TypeCorrect, <1>1, PTL DEF Spec, RevocationKills

-----------------------------------------------------------------------------
(***************************************************************************)
(* No character is lost, provided a client waits for the answer to its     *)
(* request before it sends the next one.                                   *)
(*                                                                         *)
(* NoLostCharacter is not inductive: a thread inside destroy_session has   *)
(* given the session's character back but not yet erased the session, so   *)
(* the owner the invariant points at may be about to vanish.  The          *)
(* strengthening asks for an owner that no thread is erasing; keeping it   *)
(* through a character selection needs that the selecting client is not    *)
(* the one being erased, which is one request per client.                  *)
(***************************************************************************)

Erasing(c) == \E t \in RestThreads : pc[t] = "erase" /\ target[t] = c

TakenHasOwner ==
    \A k \in CharIds : char_taken[k] =>
        \E c \in sessions : character_id[c] = k /\ ~Erasing(c)

OneRequestPerClient ==
    \A t, u \in RestThreads :
        t # u /\ pc[t] # "idle" /\ pc[u] # "idle" => target[t] # target[u]

TargetsSeen == \A t \in RestThreads : pc[t] # "idle" => target[t] \in nx_seen

TokensSeen == token_index \subseteq nx_seen

RequestInv == OneRequestPerClient /\ TargetsSeen /\ TokensSeen

-----------------------------------------------------------------------------
(* Requests. *)

\* A step that starts no request keeps the requests apart.
LEMMA RequestsContinue ==
    ASSUME TypeOK, RequestInv, NEW t \in RestThreads, RestStep(t)
    PROVE  RequestInv'
<1>1. pc[t] # "idle" /\ nx_seen' = nx_seen
  BY DEF RestStep, SessionInsert, SessionBind, CharacterSelectHandle, AreaChatPass, AreaChatKick,
     DestroyFind, DestroyGone, DestroyErase
<1>2. \/ (\E s \in Steps : pc' = [pc EXCEPT ![t] = s]) /\ target' = target
      \/ pc' = [pc EXCEPT ![t] = "idle"] /\ target' = [target EXCEPT ![t] = NoThread]
  BY DEF RestStep, SessionInsert, SessionBind, CharacterSelectHandle, AreaChatPass, AreaChatKick,
     DestroyFind, DestroyGone, DestroyErase, Goto, Finish, Steps
<1>3. OneRequestPerClient' /\ TargetsSeen'
  BY <1>1, <1>2 DEF RequestInv, OneRequestPerClient, TargetsSeen, TypeOK, NXTypeOK
<1>4. token_index' \subseteq token_index \cup {target[t]}
  BY DEF RestStep, SessionInsert, SessionBind, CharacterSelectHandle, AreaChatPass, AreaChatKick,
     DestroyFind, DestroyGone, DestroyErase, create_session_with_token, destroy_erase, roomVars,
     handle_char_select, SelectInvalid, SelectRejected, SelectAccepted
<1> QED BY <1>1, <1>3, <1>4 DEF RequestInv, TargetsSeen, TokensSeen

LEMMA RequestsBegin ==
    ASSUME TypeOK, RequestInv, OverlappingRequests = FALSE,
           NEW t \in RestThreads, RestRequest(t)
    PROVE  RequestInv'
<1>1. PICK c \in NXClients :
        /\ pc[t] = "idle" /\ \E s \in Steps : pc' = [pc EXCEPT ![t] = s]
        /\ target' = [target EXCEPT ![t] = c]
        /\ nx_seen' = nx_seen \cup {c}
        /\ \A u \in RestThreads : pc[u] # "idle" => target[u] # c
  <2>1. ASSUME NEW a \in AuthTokens \cup {NoAuth}, NEW c \in NXClients, SessionValidate(t, a, c)
        PROVE  /\ pc[t] = "idle" /\ \E s \in Steps : pc' = [pc EXCEPT ![t] = s]
               /\ target' = [target EXCEPT ![t] = c]
               /\ nx_seen' = nx_seen \cup {c}
               /\ \A u \in RestThreads : pc[u] # "idle" => target[u] # c
    BY <2>1 DEF SessionValidate, Begin, Goto, Steps, RequestInv, TargetsSeen
  <2>2. ASSUME NEW c \in NXClients, SessionDelete(t, c) \/ CharacterSelect(t, c) \/ AreaChat(t, c)
        PROVE  /\ pc[t] = "idle" /\ \E s \in Steps : pc' = [pc EXCEPT ![t] = s]
               /\ target' = [target EXCEPT ![t] = c]
               /\ nx_seen' = nx_seen \cup {c}
               /\ \A u \in RestThreads : pc[u] # "idle" => target[u] # c
    BY <2>2 DEF SessionDelete, CharacterSelect, AreaChat, Begin, Goto, Steps, Authenticate,
       MayRequest, find_session_by_token, RequestInv, TokensSeen
  <2> QED BY <2>1, <2>2 DEF RestRequest
<1>2. token_index' = token_index
  BY DEF RestRequest, SessionValidate, SessionDelete, CharacterSelect, AreaChat, roomVars
<1>3. OneRequestPerClient' /\ TargetsSeen'
  BY <1>1 DEF RequestInv, OneRequestPerClient, TargetsSeen, TypeOK, NXTypeOK
<1> QED BY <1>1, <1>2, <1>3 DEF RequestInv, TokensSeen

\* The steps that neither start nor continue a request.
LEMMA RequestsUntouched ==
    ASSUME RequestInv, UNCHANGED <<pc, target, nx_seen>>, token_index' \subseteq token_index
    PROVE  RequestInv'
BY DEF RequestInv, OneRequestPerClient, TargetsSeen, TokensSeen

-----------------------------------------------------------------------------
(* Owners. *)

\* Destroying sessions frees every character they hold, so an owner survives.
LEMMA OwnersSurviveDestroy ==
    ASSUME TakenHasOwner, NEW S, destroy_counters(S), sessions' = sessions \ S,
           UNCHANGED <<character_id, pc, target>>
    PROVE  TakenHasOwner'
BY DEF TakenHasOwner, Erasing, destroy_counters, Holding

\* A selection leaves every taken character with an owner when the selecting
\* session is not being erased, before or after the step.
LEMMA OwnersSurviveSelect ==
    ASSUME TypeOK, TakenHasOwner, NEW c \in Clients, NEW r, handle_char_select(c, r),
           ~Erasing(c), \A d \in Clients : Erasing(d)' => Erasing(d)
    PROVE  TakenHasOwner'
<1> USE DEF TypeOK
<1>0. sessions \subseteq Clients /\ character_id \in [Clients -> CharIds \cup {Spectator}]
  BY DEF RoomTypeOK
<1>1. CASE SelectInvalid(c, r)
  BY <1>0, <1>1 DEF SelectInvalid, roomVars, TakenHasOwner
<1>2. CASE SelectRejected(c, r)
  BY <1>0, <1>2 DEF SelectRejected, AfterFree, TakenHasOwner
<1>3. CASE SelectAccepted(c, r)
  <2>1. /\ c \in sessions /\ sessions' = sessions
        /\ char_taken' = [k \in CharIds |-> AfterFree(c)[k] \/ k = r]
        /\ character_id' = [character_id EXCEPT ![c] = r]
    BY <1>3 DEF SelectAccepted
  <2> SUFFICES ASSUME NEW k \in CharIds, char_taken'[k]
               PROVE  \E d \in sessions : character_id'[d] = k /\ ~Erasing(d)'
    BY <2>1 DEF TakenHasOwner
  <2>2. CASE k = r BY <1>0, <2>1, <2>2
  <2>3. CASE k # r
    <3>1. char_taken[k] /\ k # character_id[c] BY <2>1, <2>3 DEF AfterFree
    <3>2. PICK d \in sessions : character_id[d] = k /\ ~Erasing(d) BY <3>1 DEF TakenHasOwner
    <3>3. d # c /\ character_id'[d] = k BY <1>0, <2>1, <3>1, <3>2
    <3> QED BY <1>0, <3>2, <3>3
  <2> QED BY <2>2, <2>3
<1> QED BY <1>1, <1>2, <1>3 DEF handle_char_select

LEMMA OwnersRest ==
    ASSUME TypeOK, RequestInv, TakenHasOwner, NEW t \in RestThreads, RestStep(t)
    PROVE  TakenHasOwner'
<1> USE DEF TypeOK
<1>c. /\ pc[t] # "idle" => target[t] \in NXClients /\ target[t] \in Clients
      /\ pc \in [RestThreads -> Steps] /\ target \in [RestThreads -> NXClients \cup {NoThread}]
  BY DEF NXTypeOK, Clients
<1>1. CASE SessionInsert(t) \/ SessionBind(t) \/ AreaChatPass(t) \/ AreaChatKick(t) \/ DestroyGone(t)
  <2>1. sessions \subseteq sessions' /\ UNCHANGED <<character_id, char_taken>>
    BY <1>1 DEF SessionInsert, create_session_with_token, SessionBind, AreaChatPass, AreaChatKick,
       DestroyGone, roomVars
  <2>2. \A d : Erasing(d)' => Erasing(d)
    BY <1>1, <1>c DEF SessionInsert, SessionBind, AreaChatPass, AreaChatKick, DestroyGone, Goto,
       Finish, Erasing
  <2> QED BY <2>1, <2>2 DEF TakenHasOwner
<1>2. CASE CharacterSelectHandle(t)
  <2>1. ~Erasing(target[t])
    BY <1>2 DEF CharacterSelectHandle, Erasing, RequestInv, OneRequestPerClient
  <2>2. \A d \in Clients : Erasing(d)' => Erasing(d)
    BY <1>2, <1>c DEF CharacterSelectHandle, Finish, Erasing
  <2>3. CASE UNCHANGED roomVars
    BY <2>2, <2>3 DEF roomVars, TakenHasOwner, RoomTypeOK
  <2>4. CASE \E k \in CharIds : handle_char_select(target[t], k)
    BY <1>2, <1>c, <2>1, <2>2, <2>4, OwnersSurviveSelect DEF CharacterSelectHandle
  <2> QED BY <1>2, <2>3, <2>4 DEF CharacterSelectHandle
<1>3. CASE DestroyFind(t)
  <2>1. /\ char_taken' = [k \in CharIds |-> char_taken[k] /\ ~Holding({target[t]}, k)]
        /\ UNCHANGED <<sessions, character_id, target>> /\ pc' = [pc EXCEPT ![t] = "erase"]
    BY <1>3 DEF DestroyFind, destroy_counters, Goto
  <2>2. \A d : Erasing(d)' => Erasing(d) \/ d = target[t] BY <1>c, <2>1 DEF Erasing
  <2> SUFFICES ASSUME NEW k \in CharIds, char_taken'[k]
               PROVE  \E d \in sessions' : character_id'[d] = k /\ ~Erasing(d)'
    BY DEF TakenHasOwner
  <2>3. char_taken[k] /\ character_id[target[t]] # k BY <2>1 DEF Holding
  <2> QED BY <2>1, <2>2, <2>3 DEF TakenHasOwner
<1>4. CASE DestroyErase(t)
  <2>1. /\ Erasing(target[t]) /\ sessions' = sessions \ {target[t]}
        /\ UNCHANGED <<character_id, char_taken>>
    BY <1>4 DEF DestroyErase, destroy_erase, Erasing
  <2>2. \A d : Erasing(d)' => Erasing(d) BY <1>4, <1>c DEF DestroyErase, Finish, Erasing
  <2> QED BY <2>1, <2>2 DEF TakenHasOwner
<1> QED BY <1>1, <1>2, <1>3, <1>4 DEF RestStep

LEMMA OwnersAO ==
    ASSUME TypeOK, TakenHasOwner, NEW c \in AOClients, UNCHANGED nxVars,
           on_client_connected(c) \/ on_client_disconnected(c) \/ AONext(c)
    PROVE  TakenHasOwner'
<1> USE DEF TypeOK
<1>0. ~Erasing(c) /\ c \in Clients /\ \A d : Erasing(d)' <=> Erasing(d)
  BY RoomAssumption DEF Erasing, NXTypeOK, nxVars, Clients
<1>1. CASE on_client_connected(c)
  BY <1>0, <1>1 DEF on_client_connected, create_session, TakenHasOwner
<1>2. CASE on_client_disconnected(c)
  <2>1. sessions' = sessions \ ({c} \cap sessions) /\ destroy_counters({c} \cap sessions)
    BY <1>2 DEF on_client_disconnected, destroy_erase
  <2> QED BY <1>2, <2>1, OwnersSurviveDestroy DEF on_client_disconnected, nxVars
<1>3. CASE AOPacketHI(c) \/ AOPacketIDClient(c) \/ AOPacketRD(c) \/ LoginCommand(c) \/ LogoutCommand(c)
  BY <1>0, <1>3 DEF AOPacketHI, AOPacketIDClient, AOPacketRD, LoginCommand, LogoutCommand,
     SetModerator, roomVars, TakenHasOwner
<1>4. ASSUME NEW r \in Requests, AOPacketCC(c, r) PROVE TakenHasOwner'
  BY <1>0, <1>4, OwnersSurviveSelect DEF AOPacketCC
<1> QED BY <1>1, <1>2, <1>3, <1>4 DEF AONext

LEMMA OwnersShared ==
    ASSUME TypeOK, TakenHasOwner, UNCHANGED <<pc, target>>,
           \/ \E c \in NXClients : SessionRenew(c) \/ TtlElapses(c)
           \/ \E a \in AuthTokens : AuthLogin(a) \/ AuthLogout(a)
           \/ Sweep
    PROVE  TakenHasOwner'
<1>0. \A d : Erasing(d)' <=> Erasing(d) BY DEF Erasing
<1>1. CASE UNCHANGED roomVars BY <1>0, <1>1 DEF roomVars, TakenHasOwner
<1>2. ASSUME NEW a \in AuthTokens, AuthLogout(a) PROVE TakenHasOwner'
  BY <1>2, OwnersSurviveDestroy DEF AuthLogout, destroy_erase
<1>3. ASSUME NEW batch \in SUBSET to_expire, SweepExpire(batch) PROVE TakenHasOwner'
  BY <1>3, OwnersSurviveDestroy DEF SweepExpire, destroy_erase
<1> QED BY <1>1, <1>2, <1>3 DEF SessionRenew, TtlElapses, AuthLogin, Sweep, SweepScan

LEMMA OwnersBegin ==
    ASSUME TypeOK, TakenHasOwner, NEW t \in RestThreads, RestRequest(t)
    PROVE  TakenHasOwner'
<1>0. pc[t] = "idle" /\ UNCHANGED roomVars
  BY DEF RestRequest, SessionValidate, SessionDelete, CharacterSelect, AreaChat, Begin
<1>1. \A d : Erasing(d)' => Erasing(d)
  BY <1>0 DEF RestRequest, SessionValidate, SessionDelete, CharacterSelect, AreaChat, Goto,
     Authenticate, Erasing, TypeOK, NXTypeOK
<1> QED BY <1>0, <1>1 DEF roomVars, TakenHasOwner

(***************************************************************************)
(* When a client has at most one request in flight, every taken character  *)
(* belongs to a registered session, for any number of clients, threads and *)
(* characters, whatever the lock-free deletions interleave with.           *)
(***************************************************************************)
THEOREM NoCharacterLost ==
    ASSUME OverlappingRequests = FALSE
    PROVE  Spec => []NoLostCharacter
<1> DEFINE IInv == RequestInv /\ TakenHasOwner
<1>1. Init => IInv
  BY DEF Init, RoomInit, NXInit, NoneTaken, RequestInv, OneRequestPerClient, TargetsSeen,
     TokensSeen, TakenHasOwner
<1>2. TypeOK /\ IInv /\ [Next]_vars => IInv'
  <2> SUFFICES ASSUME TypeOK, IInv, [Next]_vars PROVE IInv' OBVIOUS
  <2>1. ASSUME NEW c \in AOClients, UNCHANGED nxVars,
               on_client_connected(c) \/ on_client_disconnected(c) \/ AONext(c) PROVE IInv'
    <3>1. token_index' \subseteq token_index
      BY <2>1 DEF on_client_connected, on_client_disconnected, destroy_erase, AONext, AOPacketHI,
         AOPacketIDClient, AOPacketRD, AOPacketCC, LoginCommand, LogoutCommand, SetModerator,
         handle_char_select, SelectInvalid, SelectRejected, SelectAccepted, roomVars
    <3>2. RequestInv' BY <2>1, <3>1, RequestsUntouched DEF nxVars
    <3>3. TakenHasOwner' BY <2>1, OwnersAO
    <3> QED BY <3>2, <3>3
  <2>2. ASSUME NEW t \in RestThreads, RestRequest(t) PROVE IInv'
    BY <2>2, RequestsBegin, OwnersBegin
  <2>3. ASSUME NEW t \in RestThreads, RestStep(t) PROVE IInv'
    BY <2>3, RequestsContinue, OwnersRest
  <2>4. ASSUME \/ \E c \in NXClients : SessionRenew(c) \/ TtlElapses(c)
               \/ \E a \in AuthTokens : AuthLogin(a) \/ AuthLogout(a)
               \/ Sweep
        PROVE  IInv'
    <3>1. UNCHANGED <<pc, target, nx_seen>> /\ token_index' \subseteq token_index
      BY <2>4 DEF SessionRenew, TtlElapses, AuthLogin, AuthLogout, Sweep, SweepScan, SweepExpire,
         destroy_erase, roomVars
    <3>2. RequestInv' BY <3>1, RequestsUntouched
    <3>3. TakenHasOwner' BY <2>4, <3>1, OwnersShared
    <3> QED BY <3>2, <3>3
  <2>5. CASE UNCHANGED vars
    <3>1. UNCHANGED <<pc, target, nx_seen, token_index, sessions, character_id, char_taken>>
      BY <2>5 DEF vars, roomVars, nxVars
    <3>2. RequestInv' BY <3>1, RequestsUntouched
    <3>3. TakenHasOwner' BY <3>1 DEF TakenHasOwner, Erasing
    <3> QED BY <3>2, <3>3
  <2> QED BY <2>1, <2>2, <2>3, <2>4, <2>5 DEF Next, PollThread, AOPacket, NXNext
<1>3. IInv => NoLostCharacter BY DEF TakenHasOwner, NoLostCharacter
<1> QED BY TypeCorrect, <1>1, <1>2, <1>3, PTL DEF Spec

-----------------------------------------------------------------------------
(***************************************************************************)
(* The gauge of REST sessions.  It lags behind the registry on both sides: *)
(* POST /session counts a session after it has inserted it, destroy_session *)
(* uncounts one before it erases it.  Counted are the sessions no thread   *)
(* has in such a gap.                                                      *)
(*                                                                         *)
(* A session is counted while it is registered only if nothing can remove  *)
(* it between its insertion and SessionBind: its client does not know the  *)
(* token yet, it is not idle, it is bound to no auth token.                *)
(***************************************************************************)

Uncounted(c) == \E t \in RestThreads : pc[t] \in {"created", "erase"} /\ target[t] = c

Counted == {c \in sessions \cap NXClients : ~Uncounted(c)}

GaugeCovered == stats.sessions_nx <= Cardinality(Counted)

\* Nothing but its request can reach a session before its client is answered.
Untouched(c) == c \notin to_expire /\ ~idle[c] /\ auth_token_id[c] = NoAuth

FreshIds ==
    \A c \in NXClients \ nx_seen :
        c \notin sessions /\ Untouched(c) /\ \A t \in RestThreads : pc[t] # "idle" => target[t] # c

NewSession(t) ==
    /\ target[t] \in nx_seen /\ Untouched(target[t])
    /\ target[t] \in sessions <=> pc[t] = "created"
    /\ \A u \in RestThreads : u # t /\ pc[u] # "idle" => target[u] # target[t]

NewSessions == \A t \in RestThreads : pc[t] \in {"validated", "created"} => NewSession(t)

GaugeInv == FreshIds /\ NewSessions /\ GaugeCovered

\* The sessions of C are covered by those of D and S.
LEMMA CardinalityCover ==
    ASSUME NEW C, NEW D, NEW S, C \subseteq Clients, D \subseteq Clients, S \subseteq Clients, C \subseteq D \cup S
    PROVE  Cardinality(C) <= Cardinality(D) + Cardinality(S)
<1>1. IsFiniteSet(D) /\ IsFiniteSet(S) /\ Cardinality(D) \in Nat /\ Cardinality(S) \in Nat
      /\ Cardinality(D \cap S) \in Nat
  BY CardinalityInt
<1>2. IsFiniteSet(D \cup S) /\ Cardinality(D \cup S) = Cardinality(D) + Cardinality(S) - Cardinality(D \cap S)
  BY <1>1, FS_Union
<1>3. Cardinality(C) <= Cardinality(D \cup S) /\ Cardinality(C) \in Nat /\ Cardinality(D \cup S) \in Nat
  BY <1>2, FS_Subset, CardinalityInt
<1> QED BY <1>1, <1>2, <1>3

\* What a step must do for the gauge to stay covered: add or take off no more than it registers or erases.
LEMMA GaugeMoves ==
    ASSUME TypeOK, TypeOK', GaugeCovered,
           NEW S \in SUBSET NXClients, stats'.sessions_nx = stats.sessions_nx - Cardinality(S),
           Counted \subseteq Counted' \cup S
    PROVE  GaugeCovered'
<1>1. Counted \subseteq Clients /\ Counted' \subseteq Clients /\ S \subseteq Clients
  BY DEF Counted, Clients
<1>2. Cardinality(Counted) <= Cardinality(Counted') + Cardinality(S)
  BY <1>1, CardinalityCover
<1>3. Cardinality(Counted) \in Nat /\ Cardinality(Counted') \in Nat /\ Cardinality(S) \in Nat /\ stats.sessions_nx \in Int
  BY <1>1, CardinalityInt DEF TypeOK, RoomTypeOK, Stats
<1> QED BY <1>2, <1>3 DEF GaugeCovered

LEMMA GaugeStays ==
    ASSUME TypeOK, TypeOK', GaugeCovered, stats'.sessions_nx = stats.sessions_nx, Counted \subseteq Counted'
    PROVE  GaugeCovered'
<1>1. Cardinality({}) = 0 /\ {} \in SUBSET NXClients
  BY FS_EmptySet
<1>2. stats'.sessions_nx = stats.sessions_nx - Cardinality({})
  BY <1>1 DEF TypeOK, RoomTypeOK, Stats
<1> QED BY <1>1, <1>2, GaugeMoves, Zenon

\* A step that leaves the REST part alone.
LEMMA GaugeUntouched ==
    ASSUME TypeOK, TypeOK', GaugeInv, sessions' \cap NXClients = sessions \cap NXClients,
           stats'.sessions_nx = stats.sessions_nx, UNCHANGED <<nx_seen, idle, auth_token_id, pc, target, to_expire>>
    PROVE  GaugeInv'
<1>1. Counted' = Counted
  BY DEF Counted, Uncounted
<1>2. GaugeCovered'
  BY <1>1, GaugeStays DEF GaugeInv
<1>3. FreshIds'
  BY DEF GaugeInv, FreshIds, Untouched
<1>4. NewSessions'
  <2>1. \A t \in RestThreads : pc[t] # "idle" => target[t] \in NXClients
    BY DEF TypeOK, NXTypeOK
  <2> QED BY <2>1 DEF GaugeInv, NewSessions, NewSession, Untouched
<1> QED BY <1>2, <1>3, <1>4 DEF GaugeInv

LEMMA GaugeAO ==
    ASSUME TypeOK, TypeOK', GaugeInv, NEW c \in AOClients, UNCHANGED nxVars,
           on_client_connected(c) \/ on_client_disconnected(c) \/ AONext(c)
    PROVE  GaugeInv'
<1> USE RoomAssumption
<1>0. stats \in Stats /\ c \notin NXClients
  BY DEF TypeOK, RoomTypeOK
<1>1. sessions' \cap NXClients = sessions \cap NXClients /\ stats'.sessions_nx = stats.sessions_nx
  <2>1. CASE on_client_connected(c)
    BY <1>0, <2>1 DEF on_client_connected, create_session, Stats
  <2>2. CASE on_client_disconnected(c)
    <3>1. ({c} \cap sessions) \cap NXClients = {}
      BY <1>0
    <3>2. Cardinality(({c} \cap sessions) \cap NXClients) = 0
      BY <3>1, FS_EmptySet
    <3>3. stats'.sessions_nx = stats.sessions_nx
      BY <1>0, <2>2, <3>2 DEF on_client_disconnected, destroy_counters, Stats
    <3> QED BY <1>0, <2>2, <3>3 DEF on_client_disconnected, destroy_erase
  <2>3. CASE AOPacketHI(c) \/ AOPacketIDClient(c) \/ AOPacketRD(c) \/ LoginCommand(c) \/ LogoutCommand(c)
    BY <1>0, <2>3 DEF AOPacketHI, AOPacketIDClient, AOPacketRD, LoginCommand, LogoutCommand, SetModerator, roomVars, Stats
  <2>4. ASSUME NEW r \in Requests, AOPacketCC(c, r)
        PROVE  sessions' = sessions /\ stats'.sessions_nx = stats.sessions_nx
    BY <1>0, <2>4 DEF AOPacketCC, handle_char_select, SelectInvalid, SelectRejected, SelectAccepted, roomVars, Stats
  <2> QED BY <2>1, <2>2, <2>3, <2>4 DEF AONext
<1> QED BY <1>1, GaugeUntouched DEF nxVars

\* A request that begins: the thread was idle, and its session is fresh or not one that is being created.
LEMMA GaugeBegin ==
    ASSUME TypeOK, TypeOK', GaugeInv, NEW t \in RestThreads, RestRequest(t)
    PROVE  GaugeInv'
<1>0. /\ pc[t] = "idle" /\ UNCHANGED <<sessions, stats, auth_token_id, to_expire>>
      /\ pc \in [RestThreads -> Steps] /\ target \in [RestThreads -> NXClients \cup {NoThread}]
      /\ idle \in [NXClients -> BOOLEAN]
  BY DEF RestRequest, SessionValidate, SessionDelete, CharacterSelect, AreaChat, Begin, roomVars, TypeOK, NXTypeOK
<1>1. ASSUME NEW a \in AuthTokens \cup {NoAuth}, NEW c \in NXClients, SessionValidate(t, a, c) PROVE GaugeInv'
  <2>1. /\ c \notin nx_seen /\ nx_seen' = nx_seen \cup {c} /\ idle' = idle
        /\ pc' = [pc EXCEPT ![t] = "validated"] /\ target' = [target EXCEPT ![t] = c]
    BY <1>1 DEF SessionValidate, Goto
  <2>2. \A u \in RestThreads : u # t => pc'[u] = pc[u] /\ target'[u] = target[u]
    BY <1>0, <2>1
  <2>3. pc'[t] = "validated" /\ target'[t] = c
    BY <1>0, <2>1
  <2>4. Counted' = Counted
    BY <1>0, <2>2, <2>3 DEF Counted, Uncounted
  <2>5. GaugeCovered'
    BY <1>0, <2>4, GaugeStays DEF GaugeInv
  <2>6. FreshIds'
    BY <1>0, <2>1, <2>2, <2>3 DEF GaugeInv, FreshIds, Untouched
  <2>7. NewSessions'
    BY <1>0, <2>1, <2>2, <2>3 DEF GaugeInv, FreshIds, NewSessions, NewSession, Untouched
  <2> QED BY <2>5, <2>6, <2>7 DEF GaugeInv
<1>2. ASSUME NEW c \in NXClients, SessionDelete(t, c) \/ CharacterSelect(t, c) \/ AreaChat(t, c) PROVE GaugeInv'
  <2>1. /\ c \in sessions /\ nx_seen' = nx_seen /\ idle' = [idle EXCEPT ![c] = FALSE] /\ MayRequest(c)
        /\ target' = [target EXCEPT ![t] = c]
        /\ \E s \in {"destroy", "select", "chat"} : pc' = [pc EXCEPT ![t] = s]
    BY <1>2 DEF SessionDelete, CharacterSelect, AreaChat, Authenticate, find_session_by_token, Goto
  <2>2. \A u \in RestThreads : u # t => pc'[u] = pc[u] /\ target'[u] = target[u]
    BY <1>0, <2>1
  <2>3. pc'[t] \in {"destroy", "select", "chat"} /\ target'[t] = c
    BY <1>0, <2>1
  <2>4. Counted' = Counted
    BY <1>0, <2>2, <2>3 DEF Counted, Uncounted
  <2>5. GaugeCovered'
    BY <1>0, <2>4, GaugeStays DEF GaugeInv
  <2>6. FreshIds'
    BY <1>0, <2>1, <2>2, <2>3 DEF GaugeInv, FreshIds, Untouched
  <2>7. \A u \in RestThreads : pc[u] \in {"validated", "created"} => target[u] # c
    BY <2>1 DEF GaugeInv, NewSessions, NewSession, MayRequest
  <2>8. NewSessions'
    <3> SUFFICES ASSUME NEW u \in RestThreads, pc'[u] \in {"validated", "created"} PROVE NewSession(u)'
      BY DEF NewSessions
    <3>1. u # t /\ pc'[u] = pc[u] /\ target'[u] = target[u] /\ target[u] # c /\ NewSession(u)
      BY <2>2, <2>3, <2>7 DEF GaugeInv, NewSessions
    <3>2. target[u] \in NXClients
      BY <3>1 DEF TypeOK, NXTypeOK
    <3>3. Untouched(target[u])'
      BY <1>0, <2>1, <3>1, <3>2 DEF NewSession, Untouched
    <3> QED BY <1>0, <2>1, <2>2, <2>3, <3>1, <3>3 DEF NewSession, Untouched
  <2> QED BY <2>5, <2>6, <2>8 DEF GaugeInv
<1> QED BY <1>1, <1>2 DEF RestRequest

\* What a step that creates no session leaves of the others: it erases at most the session of its own request.
LEMMA NewSessionsContinue ==
    ASSUME TypeOK, FreshIds, NewSessions, NEW t \in RestThreads, pc[t] \notin {"idle", "validated", "created"},
           UNCHANGED <<nx_seen, idle, auth_token_id, to_expire>>,
           sessions' \subseteq sessions, sessions \ {target[t]} \subseteq sessions',
           \/ (\E s \in {"destroy", "erase"} : pc' = [pc EXCEPT ![t] = s]) /\ target' = target
           \/ pc' = [pc EXCEPT ![t] = "idle"] /\ target' = [target EXCEPT ![t] = NoThread]
    PROVE  FreshIds' /\ NewSessions'
<1>0. /\ pc \in [RestThreads -> Steps] /\ target \in [RestThreads -> NXClients \cup {NoThread}]
  BY DEF TypeOK, NXTypeOK
<1>1. \A u \in RestThreads : u # t => pc'[u] = pc[u] /\ target'[u] = target[u]
  BY <1>0
<1>2. pc'[t] \in {"destroy", "erase", "idle"} /\ (pc'[t] # "idle" => target'[t] = target[t])
  BY <1>0
<1>3. FreshIds'
  BY <1>1, <1>2 DEF FreshIds, Untouched
<1>4. NewSessions'
  <2> SUFFICES ASSUME NEW u \in RestThreads, pc'[u] \in {"validated", "created"} PROVE NewSession(u)'
    BY DEF NewSessions
  <2>1. u # t /\ pc'[u] = pc[u] /\ target'[u] = target[u] /\ NewSession(u)
    BY <1>1, <1>2 DEF NewSessions
  <2>2. target[u] # target[t]
    BY <2>1 DEF NewSession
  <2>3. Untouched(target[u])'
    BY <2>1 DEF NewSession, Untouched
  <2> QED BY <1>1, <1>2, <2>1, <2>2, <2>3 DEF NewSession, Untouched
<1> QED BY <1>3, <1>4

LEMMA GaugeCreates ==
    ASSUME TypeOK, TypeOK', GaugeInv, NEW t \in RestThreads, SessionInsert(t) \/ SessionBind(t)
    PROVE  GaugeInv'
<1>0. /\ pc \in [RestThreads -> Steps] /\ target \in [RestThreads -> NXClients \cup {NoThread}]
      /\ auth_token_id \in [NXClients -> AuthTokens \cup {NoAuth}] /\ stats.sessions_nx \in Int
      /\ pc[t] \in {"validated", "created"} /\ target[t] \in NXClients
  BY DEF TypeOK, NXTypeOK, RoomTypeOK, Stats, SessionInsert, SessionBind
<1>1. /\ NewSession(t) /\ UNCHANGED <<nx_seen, idle, to_expire>>
      /\ FreshIds /\ NewSessions /\ GaugeCovered
  BY <1>0 DEF GaugeInv, NewSessions, SessionInsert, SessionBind
<1>2. CASE SessionInsert(t)
  <2>1. /\ pc' = [pc EXCEPT ![t] = "created"] /\ target' = target /\ auth_token_id' = auth_token_id /\ stats' = stats
        /\ sessions' = sessions \cup {target[t]} /\ pc[t] = "validated" /\ target[t] \notin sessions
    BY <1>1, <1>2 DEF SessionInsert, create_session_with_token, Goto, NewSession
  <2>2. pc'[t] = "created" /\ \A u \in RestThreads : u # t => pc'[u] = pc[u]
    BY <1>0, <2>1
  <2>3. Counted \subseteq Counted'
    BY <2>1, <2>2 DEF Counted, Uncounted
  <2>4. GaugeCovered'
    BY <1>1, <2>1, <2>3, GaugeStays
  <2>5. FreshIds'
    BY <1>0, <1>1, <2>1, <2>2 DEF FreshIds, NewSession, Untouched
  <2>6. NewSessions'
    <3> SUFFICES ASSUME NEW u \in RestThreads, pc'[u] \in {"validated", "created"} PROVE NewSession(u)'
      BY DEF NewSessions
    <3>1. CASE u = t
      BY <1>1, <2>1, <2>2, <3>1 DEF NewSession, Untouched
    <3>2. CASE u # t
      <4>1. pc'[u] = pc[u] /\ NewSession(u) /\ target[u] # target[t]
        BY <1>0, <1>1, <2>2, <3>2 DEF NewSessions, NewSession
      <4> QED BY <1>0, <1>1, <2>1, <2>2, <3>2, <4>1 DEF NewSession, Untouched
    <3> QED BY <3>1, <3>2
  <2> QED BY <2>4, <2>5, <2>6 DEF GaugeInv
<1>3. CASE SessionBind(t)
  <2>1. /\ pc' = [pc EXCEPT ![t] = "idle"] /\ target' = [target EXCEPT ![t] = NoThread]
        /\ \E a : auth_token_id' = [auth_token_id EXCEPT ![target[t]] = a]
        /\ sessions' = sessions /\ pc[t] = "created" /\ target[t] \in sessions
        /\ stats'.sessions_nx = stats.sessions_nx + 1
    BY <1>1, <1>3 DEF SessionBind, Finish, NewSession
  <2>2. pc'[t] = "idle" /\ \A u \in RestThreads : u # t => pc'[u] = pc[u] /\ target'[u] = target[u]
    BY <1>0, <2>1
  <2>3. Counted' = Counted \cup {target[t]} /\ target[t] \notin Counted
    BY <1>0, <1>1, <2>1, <2>2 DEF Counted, Uncounted, NewSession
  <2>4. GaugeCovered'
    <3>1. IsFiniteSet(Counted) /\ Cardinality(Counted) \in Nat
      BY CardinalityInt DEF Counted, Clients
    <3>2. Cardinality(Counted') = Cardinality(Counted) + 1
      BY <2>3, <3>1, FS_AddElement
    <3> QED BY <1>0, <1>1, <2>1, <3>1, <3>2 DEF GaugeCovered
  <2>5. FreshIds'
    <3> SUFFICES ASSUME NEW c \in NXClients \ nx_seen
                 PROVE  c \notin sessions' /\ Untouched(c)' /\ \A u \in RestThreads : pc'[u] # "idle" => target'[u] # c
      BY <1>1 DEF FreshIds
    <3>1. c # target[t] /\ c \notin sessions /\ Untouched(c) /\ \A u \in RestThreads : pc[u] # "idle" => target[u] # c
      BY <1>1 DEF FreshIds, NewSession
    <3>2. Untouched(c)'
      BY <1>0, <1>1, <2>1, <3>1 DEF Untouched
    <3> QED BY <2>1, <2>2, <3>1, <3>2
  <2>6. NewSessions'
    <3> SUFFICES ASSUME NEW u \in RestThreads, pc'[u] \in {"validated", "created"} PROVE NewSession(u)'
      BY DEF NewSessions
    <3>1. u # t /\ pc'[u] = pc[u] /\ target'[u] = target[u] /\ NewSession(u) /\ target[u] # target[t]
      BY <1>0, <1>1, <2>2 DEF NewSessions, NewSession
    <3>2. target[u] \in NXClients
      BY <3>1, <2>2 DEF TypeOK, NXTypeOK
    <3>3. Untouched(target[u])'
      BY <1>0, <1>1, <2>1, <3>1, <3>2 DEF Untouched, NewSession
    <3> QED BY <1>0, <1>1, <2>1, <2>2, <3>1, <3>3 DEF NewSession, Untouched
  <2> QED BY <2>4, <2>5, <2>6 DEF GaugeInv
<1> QED BY <1>2, <1>3

\* The other steps of a request: a destruction uncounts the session before it erases it.
LEMMA GaugeContinues ==
    ASSUME TypeOK, TypeOK', GaugeInv, NEW t \in RestThreads, RestStep(t), ~SessionInsert(t), ~SessionBind(t)
    PROVE  GaugeInv'
<1>0. /\ pc \in [RestThreads -> Steps] /\ target \in [RestThreads -> NXClients \cup {NoThread}]
      /\ stats \in Stats /\ (pc[t] # "idle" => target[t] \in NXClients)
      /\ FreshIds /\ NewSessions /\ GaugeCovered
  BY DEF TypeOK, NXTypeOK, RoomTypeOK, GaugeInv
<1>1. CASE CharacterSelectHandle(t) \/ AreaChatPass(t) \/ AreaChatKick(t) \/ DestroyGone(t)
  <2>1. pc[t] \in {"select", "chat", "destroy"} /\ UNCHANGED <<nx_seen, idle, auth_token_id, to_expire>>
    BY <1>1 DEF CharacterSelectHandle, AreaChatPass, AreaChatKick, DestroyGone
  <2>2. sessions' = sessions /\ stats'.sessions_nx = stats.sessions_nx
    BY <1>0, <1>1 DEF CharacterSelectHandle, AreaChatPass, AreaChatKick, DestroyGone, roomVars, handle_char_select,
       SelectInvalid, SelectRejected, SelectAccepted, Stats
  <2>3. \/ pc' = [pc EXCEPT ![t] = "destroy"] /\ target' = target
        \/ pc' = [pc EXCEPT ![t] = "idle"] /\ target' = [target EXCEPT ![t] = NoThread]
    BY <1>1 DEF CharacterSelectHandle, AreaChatPass, AreaChatKick, DestroyGone, Finish, Goto
  <2>4. FreshIds' /\ NewSessions'
    BY <1>0, <2>1, <2>2, <2>3, NewSessionsContinue
  <2>5. Counted \subseteq Counted'
    BY <1>0, <2>1, <2>2, <2>3 DEF Counted, Uncounted
  <2>6. GaugeCovered'
    BY <1>0, <2>2, <2>5, GaugeStays
  <2> QED BY <2>4, <2>6 DEF GaugeInv
<1>2. CASE DestroyFind(t)
  <2>1. /\ pc[t] = "destroy" /\ UNCHANGED <<nx_seen, idle, auth_token_id, to_expire, sessions, target>>
        /\ pc' = [pc EXCEPT ![t] = "erase"] /\ destroy_counters({target[t]}) /\ target[t] \in NXClients
    BY <1>0, <1>2 DEF DestroyFind, Goto
  <2>2. FreshIds' /\ NewSessions'
    BY <1>0, <2>1, NewSessionsContinue
  <2>3. {target[t]} \cap NXClients = {target[t]}
    BY <2>1
  <2>4. stats'.sessions_nx = stats.sessions_nx - Cardinality({target[t]})
    BY <2>1, <2>3 DEF destroy_counters
  <2>5. Counted \subseteq Counted' \cup {target[t]}
    BY <1>0, <2>1 DEF Counted, Uncounted
  <2>6. GaugeCovered'
    BY <1>0, <2>1, <2>4, <2>5, GaugeMoves
  <2> QED BY <2>2, <2>6 DEF GaugeInv
<1>3. CASE DestroyErase(t)
  <2>1. /\ pc[t] = "erase" /\ UNCHANGED <<nx_seen, idle, auth_token_id, to_expire, stats>>
        /\ pc' = [pc EXCEPT ![t] = "idle"] /\ target' = [target EXCEPT ![t] = NoThread]
        /\ sessions' = sessions \ {target[t]}
    BY <1>3 DEF DestroyErase, Finish, destroy_erase
  <2>2. FreshIds' /\ NewSessions'
    BY <1>0, <2>1, NewSessionsContinue
  <2>3. Counted \subseteq Counted'
    BY <1>0, <2>1 DEF Counted, Uncounted
  <2>4. GaugeCovered'
    BY <1>0, <2>1, <2>3, GaugeStays
  <2> QED BY <2>2, <2>4 DEF GaugeInv
<1> QED BY <1>1, <1>2, <1>3 DEF RestStep

\* Whole sections under the dispatch lock: sessions are uncounted and erased in one step.
LEMMA GaugeErases ==
    ASSUME TypeOK, TypeOK', GaugeInv, NEW S \in SUBSET (sessions \cap NXClients), destroy_counters(S), destroy_erase(S),
           UNCHANGED <<nx_seen, idle, auth_token_id, pc, target>>, to_expire' \subseteq to_expire,
           \A t \in RestThreads : pc[t] \in {"validated", "created"} => target[t] \notin S
    PROVE  GaugeInv'
<1>1. sessions' = sessions \ S /\ S \cap NXClients = S
  BY DEF destroy_erase
<1>2. stats'.sessions_nx = stats.sessions_nx - Cardinality(S)
  BY <1>1 DEF destroy_counters
<1>3. Counted \subseteq Counted' \cup S
  BY <1>1 DEF Counted, Uncounted
<1>4. GaugeCovered'
  BY <1>2, <1>3, GaugeMoves DEF GaugeInv
<1>5. FreshIds'
  BY <1>1 DEF GaugeInv, FreshIds, Untouched
<1>6. NewSessions'
  BY <1>1 DEF GaugeInv, NewSessions, NewSession, Untouched
<1> QED BY <1>4, <1>5, <1>6 DEF GaugeInv

LEMMA GaugeShared ==
    ASSUME TypeOK, TypeOK', GaugeInv,
           \/ \E c \in NXClients : SessionRenew(c) \/ TtlElapses(c)
           \/ \E a \in AuthTokens : AuthLogin(a) \/ AuthLogout(a)
           \/ Sweep
    PROVE  GaugeInv'
<1>0. FreshIds /\ NewSessions /\ GaugeCovered /\ idle \in [NXClients -> BOOLEAN] /\ to_expire \subseteq NXClients
      /\ \A t \in RestThreads : pc[t] # "idle" => target[t] \in NXClients
  BY DEF GaugeInv, TypeOK, NXTypeOK
<1>1. ASSUME NEW c \in NXClients, SessionRenew(c) \/ TtlElapses(c) PROVE GaugeInv'
  <2>1. /\ UNCHANGED <<sessions, stats, nx_seen, auth_token_id, pc, target, to_expire>> /\ c \in sessions
        /\ \E b \in BOOLEAN : /\ idle' = [idle EXCEPT ![c] = b]
                              /\ b => \A t \in RestThreads : target[t] # c
    BY <1>1 DEF SessionRenew, TtlElapses, roomVars, find_session_by_token
  <2>2. GaugeCovered'
    <3>1. Counted' = Counted
      BY <2>1 DEF Counted, Uncounted
    <3> QED BY <1>0, <2>1, <3>1, GaugeStays
  <2>3. FreshIds'
    BY <1>0, <2>1 DEF FreshIds, Untouched
  <2>4. NewSessions'
    BY <1>0, <2>1 DEF NewSessions, NewSession, Untouched
  <2> QED BY <2>2, <2>3, <2>4 DEF GaugeInv
<1>2. ASSUME NEW a \in AuthTokens, AuthLogin(a) PROVE GaugeInv'
  BY <1>2, GaugeUntouched DEF AuthLogin, roomVars
<1>3. ASSUME NEW a \in AuthTokens, AuthLogout(a) PROVE GaugeInv'
  <2>1. Bound(a) \in SUBSET (sessions \cap NXClients)
    BY DEF Bound
  <2>2. \A t \in RestThreads : pc[t] \in {"validated", "created"} => target[t] \notin Bound(a)
    BY <1>0, NXAssumption DEF NewSessions, NewSession, Untouched, Bound
  <2> QED BY <1>3, <2>1, <2>2, GaugeErases DEF AuthLogout
<1>4. CASE SweepScan
  <2>1. /\ UNCHANGED <<sessions, stats, nx_seen, auth_token_id, pc, target, idle>>
        /\ to_expire' \subseteq {c \in sessions : idle[c]}
    BY <1>4 DEF SweepScan, roomVars
  <2>2. GaugeCovered'
    <3>1. Counted' = Counted
      BY <2>1 DEF Counted, Uncounted
    <3> QED BY <1>0, <2>1, <3>1, GaugeStays
  <2>3. FreshIds'
    BY <1>0, <2>1 DEF FreshIds, Untouched
  <2>4. NewSessions'
    BY <1>0, <2>1 DEF NewSessions, NewSession, Untouched
  <2> QED BY <2>2, <2>3, <2>4 DEF GaugeInv
<1>5. ASSUME NEW batch \in SUBSET to_expire, SweepExpire(batch) PROVE GaugeInv'
  <2>1. batch \cap sessions \in SUBSET (sessions \cap NXClients)
    BY <1>0
  <2>2. \A t \in RestThreads : pc[t] \in {"validated", "created"} => target[t] \notin batch \cap sessions
    BY <1>0 DEF NewSessions, NewSession, Untouched
  <2>3. to_expire' \subseteq to_expire
    BY <1>5 DEF SweepExpire
  <2> QED BY <1>5, <2>1, <2>2, <2>3, GaugeErases DEF SweepExpire
<1> QED BY <1>1, <1>2, <1>3, <1>4, <1>5 DEF Sweep

(***************************************************************************)
(* The gauge of REST sessions never counts one that is gone, for any       *)
(* number of clients and of threads that create, delete, kick, expire and  *)
(* revoke at once (stats.sessions_nx, destroy_session, POST /session).     *)
(***************************************************************************)
THEOREM NXGaugeAlwaysCovered == Spec => []NXGaugeNeverOver
<1>1. Init => GaugeInv
  <2> SUFFICES ASSUME Init PROVE GaugeInv OBVIOUS
  <2>1. Counted = {} BY DEF Init, RoomInit, Counted
  <2>2. GaugeCovered BY <2>1, FS_EmptySet DEF Init, RoomInit, GaugeCovered
  <2>3. FreshIds /\ NewSessions BY DEF Init, RoomInit, NXInit, FreshIds, NewSessions, Untouched
  <2> QED BY <2>2, <2>3 DEF GaugeInv
<1>2. TypeOK /\ TypeOK' /\ GaugeInv /\ [Next]_vars => GaugeInv'
  <2> SUFFICES ASSUME TypeOK, TypeOK', GaugeInv, [Next]_vars PROVE GaugeInv' OBVIOUS
  <2>1. CASE PollThread BY <2>1, GaugeAO DEF PollThread
  <2>2. CASE AOPacket BY <2>2, GaugeAO DEF AOPacket
  <2>3. CASE NXNext
    BY <2>3, GaugeBegin, GaugeCreates, GaugeContinues, GaugeShared DEF NXNext
  <2>4. CASE UNCHANGED vars BY <2>4, GaugeUntouched DEF vars, roomVars, nxVars
  <2> QED BY <2>1, <2>2, <2>3, <2>4 DEF Next
<1>3. TypeOK /\ GaugeInv => NXGaugeNeverOver
  <2> SUFFICES ASSUME TypeOK, GaugeInv PROVE NXGaugeNeverOver OBVIOUS
  <2>1. Counted \subseteq sessions \cap NXClients /\ sessions \cap NXClients \subseteq Clients
    BY DEF Counted, Clients
  <2>2. /\ Cardinality(Counted) <= Cardinality(sessions \cap NXClients)
        /\ Cardinality(Counted) \in Nat /\ Cardinality(sessions \cap NXClients) \in Nat
    BY <2>1, CardinalityInt, FS_Subset
  <2> QED BY <2>2 DEF GaugeInv, GaugeCovered, NXGaugeNeverOver, TypeOK, RoomTypeOK, Stats
<1> QED BY TypeCorrect, <1>1, <1>2, <1>3, PTL DEF Spec
=============================================================================
