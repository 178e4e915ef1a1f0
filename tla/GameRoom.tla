------------------------------ MODULE GameRoom ------------------------------
(***************************************************************************)
(* The protocol-agnostic room of the kagami server: the session registry,  *)
(* the bearer-token index, the taken flags of the characters and the       *)
(* aggregate gauges.  Both protocol backends (AOServer, NXServer) act on   *)
(* this state; the operators below are the steps of GameRoom's methods.    *)
(*                                                                         *)
(* A session is identified by its client id.  WebSocket ids and REST ids   *)
(* are issued once and never reused, and a REST session's bearer token is  *)
(* a fresh 256-bit hash, so a token is identified with the id it was       *)
(* issued for.                                                             *)
(***************************************************************************)
EXTENDS Integers, FiniteSets

CONSTANTS
    AOClients,   \* ids the WebSocket server hands out
    NXClients,   \* ids the REST backend hands out
    NumChars,    \* length of the character list
    GaugeBound   \* bound on the drift of the gauges that can grow without end

ASSUME RoomAssumption ==
    /\ IsFiniteSet(AOClients)
    /\ IsFiniteSet(NXClients)
    /\ AOClients \cap NXClients = {}
    /\ NumChars \in Nat
    /\ GaugeBound \in Nat

Clients == AOClients \cup NXClients
CharIds == 0 .. NumChars - 1
Spectator == -1

VARIABLES
    sessions,      \* keys of sessions_
    token_index,   \* tokens of token_index_
    joined,        \* ServerSession::joined of each session
    moderator,     \* ServerSession::moderator
    character_id,  \* ServerSession::character_id
    char_taken,    \* per-character taken flag
    stats,         \* the atomic gauges
    announced      \* the last array given to the chars_taken broadcasts

roomVars == <<sessions, token_index, joined, moderator, character_id,
              char_taken, stats, announced>>

Stats == [sessions_ao : Int, sessions_nx : Int, joined : Int,
          moderators : Int, chars_taken : Int]

RoomTypeOK ==
    /\ sessions \subseteq Clients
    /\ token_index \subseteq NXClients
    /\ joined \in [Clients -> BOOLEAN]
    /\ moderator \in [Clients -> BOOLEAN]
    /\ character_id \in [Clients -> CharIds \cup {Spectator}]
    /\ char_taken \in [CharIds -> BOOLEAN]
    /\ stats \in Stats
    /\ announced \in [CharIds -> BOOLEAN]

\* Repeated RD packets and repeated rejected selections drift a gauge forever.
GaugesInBound == stats.joined < GaugeBound /\ stats.chars_taken > -GaugeBound

NoneTaken == [k \in CharIds |-> FALSE]

RoomInit ==
    /\ sessions = {}
    /\ token_index = {}
    /\ joined = [c \in Clients |-> FALSE]
    /\ moderator = [c \in Clients |-> FALSE]
    /\ character_id = [c \in Clients |-> Spectator]
    /\ char_taken = NoneTaken
    /\ stats = [sessions_ao |-> 0, sessions_nx |-> 0, joined |-> 0,
                moderators |-> 0, chars_taken |-> 0]
    /\ announced = NoneTaken

(***************************************************************************)
(* create_session: the swap of the session map and the gauge increment.    *)
(***************************************************************************)
create_session(c) ==
    /\ sessions' = sessions \cup {c}
    /\ stats' = [stats EXCEPT !.sessions_ao = @ + 1]

(* create_session_with_token: session and token in one swap-mutex section. *)
create_session_with_token(c) ==
    /\ sessions' = sessions \cup {c}
    /\ token_index' = token_index \cup {c}

(***************************************************************************)
(* destroy_session, for every session of S that find() still sees: first   *)
(* the gauges and the taken flags, then the erasure of session and token   *)
(* under the swap mutex.  A thread without the dispatch lock can be seen   *)
(* between the two parts.                                                  *)
(***************************************************************************)
Holding(S, k) == \E c \in S : character_id[c] = k

destroy_keeps_taken(S) ==
    /\ stats' = [stats EXCEPT !.sessions_ao = @ - Cardinality(S \cap AOClients)]
    /\ UNCHANGED char_taken

destroy_misses_nx(S) ==
    /\ stats' = [stats EXCEPT !.sessions_ao = @ - Cardinality(S \cap AOClients)]
    /\ char_taken' = [k \in CharIds |-> char_taken[k] /\ ~Holding(S, k)]

destroy_counters(S) ==
    /\ stats' = [
         sessions_ao |-> stats.sessions_ao - Cardinality(S \cap AOClients),
         sessions_nx |-> stats.sessions_nx - Cardinality(S \cap NXClients),
         joined      |-> stats.joined - Cardinality({c \in S : joined[c]}),
         moderators  |-> stats.moderators - Cardinality({c \in S : moderator[c]}),
         chars_taken |-> stats.chars_taken
                           - Cardinality({c \in S : character_id[c] \in CharIds})]
    /\ char_taken' = [k \in CharIds |-> char_taken[k] /\ ~Holding(S, k)]

destroy_keeps_token(S) == sessions' = sessions \ S /\ UNCHANGED token_index

destroy_erase(S) ==
    /\ sessions' = sessions \ S
    /\ token_index' = token_index \ S

(***************************************************************************)
(* find_session_by_token: both maps are read from one snapshot.            *)
(***************************************************************************)
find_session_by_token(c) == c \in token_index /\ c \in sessions

(***************************************************************************)
(* handle_char_select.  The old character is freed before the requested    *)
(* one is examined; a rejected request leaves it freed, leaves the session *)
(* pointing at it, and broadcasts nothing.                                 *)
(***************************************************************************)
AfterFree(c) == [k \in CharIds |-> char_taken[k] /\ k # character_id[c]]
FreedCount(c) == IF character_id[c] \in CharIds THEN 1 ELSE 0

SelectInvalid(c, requested) ==
    /\ c \notin sessions \/ requested \notin -1 .. NumChars - 1
    /\ UNCHANGED roomVars

SelectRejected(c, requested) ==
    /\ c \in sessions
    /\ requested \in CharIds
    /\ AfterFree(c)[requested]
    /\ char_taken' = AfterFree(c)
    /\ stats' = [stats EXCEPT !.chars_taken = @ - FreedCount(c)]
    /\ UNCHANGED <<sessions, token_index, joined, moderator, character_id, announced>>

SelectOffByOne(c, requested) ==
    /\ c \in sessions
    /\ requested \in CharIds \cup {Spectator, NumChars}
    /\ requested \in CharIds => ~AfterFree(c)[requested]
    /\ char_taken' = [k \in CharIds |-> AfterFree(c)[k] \/ k = requested]
    /\ character_id' = [character_id EXCEPT ![c] = requested]
    /\ announced' = char_taken'
    /\ UNCHANGED <<sessions, token_index, joined, moderator, stats>>

SelectAccepted(c, requested) ==
    /\ c \in sessions
    /\ requested \in CharIds \cup {Spectator}
    /\ requested \in CharIds => ~AfterFree(c)[requested]
    /\ char_taken' = [k \in CharIds |-> AfterFree(c)[k] \/ k = requested]
    /\ stats' = [stats EXCEPT !.chars_taken =
                    @ - FreedCount(c) + (IF requested \in CharIds THEN 1 ELSE 0)]
    /\ character_id' = [character_id EXCEPT ![c] = requested]
    /\ announced' = char_taken'
    /\ UNCHANGED <<sessions, token_index, joined, moderator>>

handle_char_select(c, requested) ==
    \/ SelectInvalid(c, requested)
    \/ SelectRejected(c, requested)
    \/ SelectAccepted(c, requested)

(***************************************************************************)
(* The dispatch lock of RestRouter, a shared_mutex.  Every AO callback and *)
(* packet holds it exclusively; REST endpoints hold it exclusively, shared *)
(* or not at all.                                                          *)
(***************************************************************************)
CONSTANTS RestThreads, NoThread

ASSUME ThreadAssumption == NoThread \notin RestThreads

VARIABLES writer, readers

lockVars == <<writer, readers>>
LockTypeOK == writer \in RestThreads \cup {NoThread} /\ readers \subseteq RestThreads
LockInit == writer = NoThread /\ readers = {}

\* An exclusive section entered and left in one step.
with_lock == writer = NoThread /\ readers = {} /\ UNCHANGED lockVars
with_shared_lock == writer = NoThread /\ UNCHANGED lockVars
LockExclusive(t) == writer = NoThread /\ readers = {} /\ writer' = t /\ UNCHANGED readers
LockShared(t) == writer = NoThread /\ readers' = readers \cup {t} /\ UNCHANGED writer
Unlock(t) ==
    /\ writer' = IF writer = t THEN NoThread ELSE writer
    /\ readers' = readers \ {t}
=============================================================================
