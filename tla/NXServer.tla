------------------------------ MODULE NXServer ------------------------------
(***************************************************************************)
(* The REST backend: HTTP worker threads run endpoints against GameRoom.   *)
(* RestRouter takes the dispatch lock each endpoint asks for: POST and     *)
(* DELETE /session and POST /auth/login take none, chat takes it shared,   *)
(* character selection and POST /auth/logout exclusively.  The poll thread *)
(* sweeps idle REST sessions.  A thread's request proceeds in steps, so    *)
(* that threads without the lock interleave with everyone.                 *)
(***************************************************************************)
EXTENDS GameRoom

CONSTANTS
    AuthTokens, NoAuth,     \* durable moderator tokens
    OverlappingRequests,    \* may one client have two requests in flight?
    SweepBatch,             \* BATCH_SIZE of the expiry sweep
    MaxRequests             \* bound on the requests a run serves

ASSUME NXAssumption ==
    /\ NoAuth \notin AuthTokens
    /\ OverlappingRequests \in BOOLEAN
    /\ SweepBatch \in Nat \ {0}
    /\ MaxRequests \in Nat

VARIABLES
    nx_seen,        \* REST ids issued by next_rest_id_
    idle,           \* last_activity is older than the session TTL
    auth_token_id,  \* ServerSession::auth_token_id
    auth_state,     \* rows of the auth-token table
    pc,             \* step of the request a thread is serving
    target,         \* the session that request is about
    validated,      \* the auth token POST /session validated
    to_expire,      \* the poll thread's list of sessions to destroy
    requests        \* requests accepted so far

nxVars == <<nx_seen, idle, auth_token_id, auth_state, pc, target, validated,
            to_expire, requests>>

Steps == {"idle", "validated", "created", "select", "chat", "destroy", "erase"}

NXTypeOK ==
    /\ nx_seen \subseteq NXClients
    /\ idle \in [NXClients -> BOOLEAN]
    /\ auth_token_id \in [NXClients -> AuthTokens \cup {NoAuth}]
    /\ auth_state \in [AuthTokens -> {"absent", "valid", "revoked"}]
    /\ pc \in [RestThreads -> Steps]
    /\ target \in [RestThreads -> NXClients \cup {NoThread}]
    /\ \A t \in RestThreads :
          pc[t] # "idle" => target[t] \in NXClients
    /\ validated \in [RestThreads -> AuthTokens \cup {NoAuth}]
    /\ to_expire \subseteq NXClients
    /\ requests \in Nat

NXInit ==
    /\ nx_seen = {}
    /\ idle = [c \in NXClients |-> FALSE]
    /\ auth_token_id = [c \in NXClients |-> NoAuth]
    /\ auth_state = [a \in AuthTokens |-> "absent"]
    /\ pc = [t \in RestThreads |-> "idle"]
    /\ target = [t \in RestThreads |-> NoThread]
    /\ validated = [t \in RestThreads |-> NoAuth]
    /\ to_expire = {}
    /\ requests = 0

Goto(t, step) == pc' = [pc EXCEPT ![t] = step]

Begin(t) ==
    /\ pc[t] = "idle"
    /\ requests < MaxRequests
    /\ requests' = requests + 1

\* A client knows its token once POST /session has answered.
MayRequest(c) ==
    \A t \in RestThreads : pc[t] # "idle" /\ target[t] = c =>
                               OverlappingRequests /\ pc[t] # "created"

\* RestRouter::dispatch: the token lookup and the touch.
Authenticate(t, c) ==
    /\ MayRequest(c)
    /\ find_session_by_token(c)
    /\ target' = [target EXCEPT ![t] = c]
    /\ idle' = [idle EXCEPT ![c] = FALSE]

Finish(t) ==
    /\ pc' = [pc EXCEPT ![t] = "idle"]
    /\ target' = [target EXCEPT ![t] = NoThread]
    /\ Unlock(t)

(***************************************************************************)
(* POST /session: validate the optional auth token in the database, insert *)
(* session and token, then fill in the session and bind the identity.      *)
(***************************************************************************)
SessionValidate(t, a, c) ==
    /\ Begin(t)
    /\ c \notin nx_seen   \* the id next_rest_id_ will hand out
    /\ nx_seen' = nx_seen \cup {c}
    /\ target' = [target EXCEPT ![t] = c]
    /\ a = NoAuth \/ (a \in AuthTokens /\ auth_state[a] = "valid")
    /\ validated' = [validated EXCEPT ![t] = a]
    /\ Goto(t, "validated")
    /\ UNCHANGED <<roomVars, lockVars, idle, auth_token_id, auth_state, to_expire>>

SessionInsert(t) ==
    /\ pc[t] = "validated"
    /\ create_session_with_token(target[t])
    /\ Goto(t, "created")
    /\ UNCHANGED <<joined, moderator, character_id, char_taken, stats, announced, lockVars,
                   nx_seen, idle, auth_token_id, auth_state, target, validated, to_expire,
                   requests>>

SessionBind(t) ==
    LET c == target[t]
        bound == validated[t] # NoAuth /\ find_session_by_token(c) IN
    /\ pc[t] = "created"
    /\ joined' = [joined EXCEPT ![c] = TRUE]
    /\ moderator' = [moderator EXCEPT ![c] = bound]
    /\ auth_token_id' = [auth_token_id EXCEPT ![c] = IF bound THEN validated[t] ELSE NoAuth]
    /\ stats' = [sessions_ao |-> stats.sessions_ao, sessions_nx |-> stats.sessions_nx + 1,
                 joined |-> stats.joined + 1, chars_taken |-> stats.chars_taken,
                 moderators |-> stats.moderators + (IF bound THEN 1 ELSE 0)]
    /\ Finish(t)
    /\ UNCHANGED <<sessions, token_index, character_id, char_taken, announced,
                   nx_seen, idle, auth_state, validated, to_expire, requests>>

\* PATCH /session and the SSE stream's touch: only the activity time changes.
SessionRenew(c) ==
    /\ find_session_by_token(c)
    /\ MayRequest(c)
    /\ idle[c]
    /\ requests < MaxRequests
    /\ requests' = requests + 1
    /\ idle' = [idle EXCEPT ![c] = FALSE]
    /\ UNCHANGED <<roomVars, lockVars, nx_seen, auth_token_id, auth_state, pc, target,
                   validated, to_expire>>

\* DELETE /session: lock-free.
SessionDelete(t, c) ==
    /\ Begin(t)
    /\ Authenticate(t, c)
    /\ Goto(t, "destroy")
    /\ UNCHANGED <<roomVars, lockVars, nx_seen, auth_token_id, auth_state, validated, to_expire>>

\* POST /characters/select: exclusive.
CharacterSelect(t, c) ==
    /\ Begin(t)
    /\ GaugesInBound
    /\ LockExclusive(t)
    /\ Authenticate(t, c)
    /\ Goto(t, "select")
    /\ UNCHANGED <<roomVars, nx_seen, auth_token_id, auth_state, validated, to_expire>>

CharacterSelectHandle(t) ==
    /\ pc[t] = "select"
    /\ \/ \E k \in CharIds : handle_char_select(target[t], k)
       \/ UNCHANGED roomVars   \* rate-limited, or no such character
    /\ Finish(t)
    /\ UNCHANGED <<nx_seen, idle, auth_token_id, auth_state, validated, to_expire, requests>>

\* POST /areas/:id/ic and /ooc: shared.
AreaChat(t, c) ==
    /\ Begin(t)
    /\ LockShared(t)
    /\ Authenticate(t, c)
    /\ Goto(t, "chat")
    /\ UNCHANGED <<roomVars, nx_seen, auth_token_id, auth_state, validated, to_expire>>

\* apply_content_verdict: KICK and BAN destroy the session, the others do not.
AreaChatPass(t) ==
    /\ pc[t] = "chat"
    /\ Finish(t)
    /\ UNCHANGED <<roomVars, nx_seen, idle, auth_token_id, auth_state, validated, to_expire,
                   requests>>

AreaChatKick(t) ==
    /\ pc[t] = "chat"
    /\ Goto(t, "destroy")
    /\ UNCHANGED <<roomVars, lockVars, nx_seen, idle, auth_token_id, auth_state, target,
                   validated, to_expire, requests>>

\* GameRoom::destroy_session on a REST thread, in its two parts.
DestroyFind(t) ==
    /\ pc[t] = "destroy"
    /\ target[t] \in sessions
    /\ destroy_counters({target[t]})
    /\ Goto(t, "erase")
    /\ UNCHANGED <<sessions, token_index, joined, moderator, character_id, announced, lockVars,
                   nx_seen, idle, auth_token_id, auth_state, target, validated, to_expire,
                   requests>>

DestroyRetries(t) ==
    /\ pc[t] = "destroy"
    /\ target[t] \notin sessions
    /\ UNCHANGED <<roomVars, lockVars, nxVars>>

DestroyGone(t) ==
    /\ pc[t] = "destroy"
    /\ target[t] \notin sessions
    /\ Finish(t)
    /\ UNCHANGED <<roomVars, nx_seen, idle, auth_token_id, auth_state, validated, to_expire,
                   requests>>

DestroyErase(t) ==
    /\ pc[t] = "erase"
    /\ destroy_erase({target[t]})
    /\ Finish(t)
    /\ UNCHANGED <<joined, moderator, character_id, char_taken, stats, announced, nx_seen, idle,
                   auth_token_id, auth_state, validated, to_expire, requests>>

\* POST /auth/login stores a fresh token; lock-free.
AuthLogin(a) ==
    /\ auth_state[a] = "absent"
    /\ auth_state' = [auth_state EXCEPT ![a] = "valid"]
    /\ UNCHANGED <<roomVars, lockVars, nx_seen, idle, auth_token_id, pc, target, validated,
                   to_expire, requests>>

\* POST /auth/logout: revoke, then kill_sessions_for_token, all exclusive.
Bound(a) == {c \in sessions \cap NXClients : auth_token_id[c] = a}

AuthLogout_revoke_only(a) ==
    /\ with_lock
    /\ auth_state[a] = "valid"
    /\ auth_state' = [auth_state EXCEPT ![a] = "revoked"]
    /\ UNCHANGED <<roomVars, nx_seen, idle, auth_token_id, pc, target, validated, to_expire,
                   requests>>

AuthLogout(a) ==
    /\ with_lock
    /\ auth_state[a] = "valid"
    /\ auth_state' = [auth_state EXCEPT ![a] = "revoked"]
    /\ destroy_counters(Bound(a))
    /\ destroy_erase(Bound(a))
    /\ UNCHANGED <<joined, moderator, character_id, announced, nx_seen, idle, auth_token_id, pc,
                   target, validated, to_expire, requests>>

\* The TTL of a session elapses without a request.  A request takes far less
\* than a TTL, so the time does not elapse while one is being served.
TtlElapses(c) ==
    /\ c \in sessions
    /\ \A t \in RestThreads : target[t] # c
    /\ ~idle[c]
    /\ idle' = [idle EXCEPT ![c] = TRUE]
    /\ UNCHANGED <<roomVars, lockVars, nx_seen, auth_token_id, auth_state, pc, target, validated,
                   to_expire, requests>>

\* find_expired_sessions, under the shared lock, on the poll thread.
SweepScan_active ==
    /\ to_expire = {}
    /\ with_shared_lock
    /\ to_expire' = {c \in token_index \cap sessions : ~idle[c]}
    /\ to_expire' # {}
    /\ UNCHANGED <<roomVars, nx_seen, idle, auth_token_id, auth_state, pc, target, validated,
                   requests>>

SweepScan ==
    /\ to_expire = {}
    /\ with_shared_lock
    /\ to_expire' = {c \in token_index \cap sessions : idle[c]}
    /\ to_expire' # {}
    /\ UNCHANGED <<roomVars, nx_seen, idle, auth_token_id, auth_state, pc, target, validated,
                   requests>>

\* One batch of the sweep, under the exclusive lock; nothing is re-checked.
SweepExpire(batch) ==
    LET found == batch \cap sessions IN
    /\ batch # {}
    /\ Cardinality(batch) <= SweepBatch
    /\ Cardinality(batch) = SweepBatch \/ batch = to_expire
    /\ with_lock
    /\ destroy_counters(found)
    /\ destroy_erase(found)
    /\ announced' = char_taken'
    /\ to_expire' = to_expire \ batch
    /\ UNCHANGED <<joined, moderator, character_id, nx_seen, idle, auth_token_id, auth_state, pc,
                   target, validated, requests>>

Sweep == SweepScan \/ \E batch \in SUBSET to_expire : SweepExpire(batch)

\* Steps a thread takes once its request is accepted.
RestStep(t) ==
    \/ SessionInsert(t)
    \/ SessionBind(t)
    \/ CharacterSelectHandle(t)
    \/ AreaChatPass(t)
    \/ AreaChatKick(t)
    \/ DestroyFind(t)
    \/ DestroyGone(t)
    \/ DestroyErase(t)

RestRequest(t) ==
    \/ \E a \in AuthTokens \cup {NoAuth}, c \in NXClients : SessionValidate(t, a, c)
    \/ \E c \in NXClients : SessionDelete(t, c) \/ CharacterSelect(t, c) \/ AreaChat(t, c)

NXNext ==
    \/ \E t \in RestThreads : RestRequest(t) \/ RestStep(t)
    \/ \E c \in NXClients : SessionRenew(c) \/ TtlElapses(c)
    \/ \E a \in AuthTokens : AuthLogin(a) \/ AuthLogout(a)
    \/ Sweep
=============================================================================
