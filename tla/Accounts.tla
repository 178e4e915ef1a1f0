------------------------------ MODULE Accounts ------------------------------
(***************************************************************************)
(* Moderator accounts: the users and auth tokens in the database, the      *)
(* roles the live sessions hold, the commands that change either, and the  *)
(* REST login and session endpoints, which run without the dispatch lock.  *)
(*                                                                         *)
(* A command that waits for the database (.get()) returns when the worker  *)
(* has run everything queued before its task and the task itself: Sync.    *)
(* Passwords are the right one or a wrong one; salts and hashes, which     *)
(* nothing else compares, are left out.                                    *)
(***************************************************************************)
EXTENDS Database

CONSTANTS
    Names,         \* user names besides "root"
    AoClients,     \* sessions that can run commands
    NxClients,     \* sessions made by the REST API
    Threads,       \* REST threads
    TokenTtl,      \* auth_token_ttl_seconds, 0 for ever
    MaxTokens,     \* bound on the tokens issued
    MaxChanges,    \* bound on account commands
    MaxFailures    \* bound on failed logins of one session

ASSUME AccountsAssumption ==
    /\ "root" \notin Names /\ "" \notin Names /\ AoClients \cap NxClients = {}
    /\ IsFiniteSet(AoClients \cup NxClients) /\ NxClients \cap Nat = {}
    /\ TokenTtl \in Nat /\ MaxTokens \in Nat /\ MaxChanges \in Nat
    /\ MaxFailures \in Nat

VARIABLES
    auth_type,     \* "SIMPLE", "ADVANCED"
    sess,          \* the live sessions' identity, or Gone
    moderators,    \* stats.moderators
    fails, wait,   \* login_failures; what is left of the cooldown
    rest,          \* what each REST thread holds between two database calls
    changes,       \* account commands run so far
    outrun,         \* history: tokens and sessions made from a stale read
    early          \* history: an account was created under SIMPLE

acVars == <<auth_type, sess, moderators, fails, wait, rest, changes, outrun, early>>

Users == Names \cup {"root"}
Gone == [live |-> FALSE, mod |-> FALSE, role |-> "", name |-> "", tok |-> 0, chg |-> FALSE]
Guest == [Gone EXCEPT !.live = TRUE]
Idle == [at |-> "idle", user |-> "", acl |-> "", tok |-> 0, stale |-> FALSE]

AcInit ==
    /\ auth_type = "SIMPLE"
    /\ sess = [c \in AoClients \cup NxClients |-> IF c \in AoClients THEN Guest ELSE Gone]
    /\ moderators = 0 /\ fails = [c \in AoClients |-> 0] /\ wait = [c \in AoClients |-> 0]
    /\ rest = [t \in Threads |-> Idle] /\ changes = 0 /\ outrun = {} /\ early = FALSE

dbRest == <<dbState, dbVersion, dbTx, now>>

\* dispatch(task).get() on a database that is_open, and what is queued after it
\* without waiting.
Sync(t, after) == dbState = "open" /\ db' = Run(now, Drained, t) /\ dbQueue' = after
Read == dbState = "open" /\ db' = Drained /\ dbQueue' = <<>>

-----------------------------------------------------------------------------
(* Logging in and out.                                                     *)

\* login_cooldown_seconds: 1 << failures in 32 bits; a shift by 32 or more is
\* undefined, and the usual builds shift by its low five bits.
Shift32(f) == IF f % 32 = 31 THEN -2147483647 - 1 ELSE 2 ^ (f % 32)
login_cooldown_seconds(f) ==
    IF f <= 0 THEN 0 ELSE IF Shift32(f) > 60 THEN 60 ELSE Shift32(f)

\* login_failed.
login_failed(c) ==
    /\ fails[c] < MaxFailures
    /\ fails' = [fails EXCEPT ![c] = @ + 1]
    /\ wait' = [wait EXCEPT ![c] = login_cooldown_seconds(fails'[c])]
    /\ UNCHANGED <<auth_type, sess, moderators, rest, changes, outrun, early>>

LoggedIn(c, role, name) ==
    /\ sess' = [sess EXCEPT ![c].mod = TRUE, ![c].role = role, ![c].name = name]
    /\ fails' = [fails EXCEPT ![c] = 0]
    /\ moderators' = moderators + 1
    /\ UNCHANGED <<auth_type, wait, rest, changes, outrun, early>>

MayTry(c) == sess[c].live /\ ~sess[c].mod /\ wait[c] <= 0

login_simple(c, right) ==
    /\ MayTry(c) /\ auth_type = "SIMPLE"
    /\ IF right THEN LoggedIn(c, "SUPER", "") ELSE login_failed(c)
    /\ UNCHANGED dbVars

login_advanced(c, u, right) ==
    /\ MayTry(c) /\ auth_type = "ADVANCED" /\ Read
    /\ IF Exists(db', u) /\ right THEN LoggedIn(c, db'.users[u].acl, u) ELSE login_failed(c)
    /\ UNCHANGED dbRest

CooldownOver(c) ==
    /\ wait[c] > 0 /\ wait' = [wait EXCEPT ![c] = 0]
    /\ UNCHANGED <<dbVars, auth_type, sess, moderators, fails, rest, changes, outrun, early>>

Demote(c) == [sess EXCEPT ![c].mod = FALSE, ![c].role = "", ![c].name = "", ![c].chg = FALSE]

logout(c) ==
    /\ sess[c].live /\ sess[c].mod
    /\ sess' = Demote(c) /\ moderators' = moderators - 1
    /\ UNCHANGED <<dbVars, auth_type, fails, wait, rest, changes, outrun, early>>

-----------------------------------------------------------------------------
(* Account commands; CommandRegistry::try_dispatch checks the permission.  *)

\* Only SUPER holds any permission.
has_permission(c) == sess[c].live /\ sess[c].mod /\ sess[c].role = "SUPER"

Command(c) == has_permission(c) /\ changes < MaxChanges /\ changes' = changes + 1

adduser(c, u) ==
    /\ Command(c)
    /\ Sync([op |-> "create_user", user |-> u, pw |-> 1, acl |-> "NONE"], <<>>)
    /\ early' = (early \/ auth_type = "SIMPLE")
    /\ UNCHANGED <<dbRest, auth_type, sess, moderators, fails, wait, rest, outrun>>

\* What removeuser and setperms queue behind their change, without waiting.
RevokeNone(u) == <<>>

RevokeAfter(u) == <<[op |-> "revoke_all_tokens_for_user", user |-> u]>>

\* A thread that has read u's row or one of its tokens now holds a stale copy.
Stale(u) == [t \in Threads |-> IF rest[t].user = u THEN [rest[t] EXCEPT !.stale = TRUE] ELSE rest[t]]

\* send_kick_message from an AO session reaches AO clients only: the client ids
\* of REST sessions mean nothing to the WebSocket server.  outrun marks the REST
\* sessions that should have been killed.
Bound(u) == {n \in NxClients : sess[n].live /\ sess[n].name = u /\ sess[n].tok > 0}

removeuser(c, u) ==
    /\ Command(c) /\ u # "root"
    /\ Exists(Drained, u)
    /\ Sync([op |-> "delete_user", user |-> u], RevokeAfter(u))
    /\ rest' = Stale(u) /\ outrun' = outrun \cup Bound(u)
    /\ UNCHANGED <<dbRest, auth_type, sess, moderators, fails, wait, early>>

setperms(c, u, role) ==
    /\ Command(c) /\ u # "root"
    /\ Exists(Drained, u)
    /\ Sync([op |-> "update_acl", user |-> u, acl |-> role], RevokeAfter(u))
    /\ rest' = Stale(u) /\ outrun' = outrun \cup Bound(u)
    /\ UNCHANGED <<dbRest, auth_type, sess, moderators, fails, wait, early>>

removeperms(c, u) == setperms(c, u, "NONE")

changeauth(c) ==
    /\ Command(c) /\ auth_type = "SIMPLE"
    /\ sess' = [sess EXCEPT ![c].chg = TRUE]
    /\ UNCHANGED <<dbVars, auth_type, moderators, fails, wait, rest, outrun, early>>

rootpass(c) ==
    /\ Command(c) /\ sess[c].chg /\ ~Exists(Drained, "root")
    /\ Sync([op |-> "create_user", user |-> "root", pw |-> 1, acl |-> "SUPER"], <<>>)
    /\ auth_type' = "ADVANCED" /\ sess' = Demote(c) /\ moderators' = moderators - 1
    /\ UNCHANGED <<dbRest, fails, wait, rest, outrun, early>>

\* changepass of oneself, knowing the old password, or by a SUPER of another.
changepass(c, u) ==
    /\ sess[c].live /\ sess[c].mod /\ changes < MaxChanges /\ changes' = changes + 1
    /\ \/ u = sess[c].name /\ Exists(Drained, u)
       \/ u # sess[c].name /\ has_permission(c)
    /\ Sync([op |-> "update_password", user |-> u, pw |-> 2], <<>>)
    /\ UNCHANGED <<dbRest, auth_type, sess, moderators, fails, wait, rest, outrun, early>>

-----------------------------------------------------------------------------
(* The REST endpoints, one database call at a time.                        *)

RestKeeps == UNCHANGED <<dbRest, auth_type, fails, wait, changes, early>>

\* AuthLoginEndpoint: get_user and verify_password ...
RestLookup(t, u) ==
    /\ rest[t].at = "idle" /\ Read /\ Exists(db', u)
    /\ rest' = [rest EXCEPT ![t] = [Idle EXCEPT !.at = "login", !.user = u, !.acl = db'.users[u].acl]]
    /\ RestKeeps /\ UNCHANGED <<sess, moderators, outrun>>

\* ... then create_auth_token with what it read.
RestToken(t) ==
    /\ rest[t].at = "login" /\ Len(Drained.tokens) < MaxTokens
    /\ Sync([op |-> "create_auth_token", user |-> rest[t].user, acl |-> rest[t].acl,
             expires |-> IF TokenTtl > 0 THEN now + TokenTtl ELSE 0], <<>>)
    /\ outrun' = IF rest[t].stale THEN outrun \cup {Len(db'.tokens)} ELSE outrun
    /\ rest' = [rest EXCEPT ![t] = Idle]
    /\ RestKeeps /\ UNCHANGED <<sess, moderators>>

\* SessionCreateEndpoint: validate_auth_token ...
RestValidate(t, tok) ==
    /\ rest[t].at = "idle" /\ Read /\ validate_auth_token(db', tok)
    /\ rest' = [rest EXCEPT ![t] = [Idle EXCEPT !.at = "bind", !.user = db'.tokens[tok].user,
                                                !.acl = db'.tokens[tok].acl, !.tok = tok]]
    /\ RestKeeps /\ UNCHANGED <<sess, moderators, outrun>>

\* ... then the session is created and bound to what was read.
RestBind(t, n) ==
    /\ rest[t].at = "bind" /\ ~sess[n].live
    /\ sess' = [sess EXCEPT ![n] = [Guest EXCEPT !.mod = TRUE, !.role = rest[t].acl,
                                                 !.name = rest[t].user, !.tok = rest[t].tok]]
    /\ moderators' = moderators + 1
    /\ outrun' = IF rest[t].stale \/ rest[t].tok \in outrun THEN outrun \cup {n} ELSE outrun \ {n}
    /\ rest' = [rest EXCEPT ![t] = Idle]
    /\ RestKeeps /\ UNCHANGED <<db, dbQueue>>

Ended(S) ==
    /\ sess' = [c \in DOMAIN sess |-> IF c \in S THEN Gone ELSE sess[c]]
    /\ moderators' = moderators - Cardinality({c \in S : sess[c].mod})

\* AuthLogoutEndpoint, under the dispatch lock: revoke, then kill_sessions_for_token.
AuthLogout(tok) ==
    /\ tok \in DOMAIN Drained.tokens /\ ~Drained.tokens[tok].revoked
    /\ Sync([op |-> "revoke_auth_token", token |-> tok], <<>>)
    /\ Ended({n \in NxClients : sess[n].tok = tok})
    /\ rest' = [t \in Threads |-> IF rest[t].tok = tok THEN [rest[t] EXCEPT !.stale = TRUE] ELSE rest[t]]
    /\ outrun' = outrun \ {n \in NxClients : sess[n].tok = tok}
    /\ RestKeeps

\* A session goes: SessionDelete, expiry, disconnection.
Leave(c) ==
    /\ sess[c].live /\ c \in NxClients /\ Ended({c}) /\ outrun' = outrun \ {c}
    /\ UNCHANGED <<dbVars, auth_type, fails, wait, rest, changes, early>>

AcOpen == (open \/ Migration) /\ UNCHANGED acVars

AcWorker == worker_loop /\ UNCHANGED acVars

AcTick ==
    /\ now < MaxTime /\ now' = now + 1
    /\ UNCHANGED <<db, dbQueue, dbState, dbVersion, dbTx, acVars>>

\* An orderly restart; main picks ADVANCED when the users table is not empty.
AcRestart ==
    /\ dbState = "open" /\ changes < MaxChanges /\ changes' = changes + 1
    /\ db' = Drained /\ dbQueue' = <<>>
    /\ auth_type' = (IF DOMAIN db'.users # {} THEN "ADVANCED" ELSE "SIMPLE")
    /\ sess' = [c \in DOMAIN sess |-> IF c \in AoClients THEN Guest ELSE Gone]
    /\ moderators' = 0 /\ fails' = [c \in AoClients |-> 0] /\ wait' = [c \in AoClients |-> 0]
    /\ rest' = [t \in Threads |-> Idle] /\ outrun' = outrun \ NxClients
    /\ UNCHANGED <<dbRest, early>>

AcNext ==
    \/ AcOpen \/ AcWorker \/ AcTick \/ AcRestart
    \/ \E c \in AoClients :
         \/ \E r \in BOOLEAN : login_simple(c, r) \/ \E u \in Users : login_advanced(c, u, r)
         \/ CooldownOver(c) \/ logout(c) \/ changeauth(c) \/ rootpass(c)
         \/ \E u \in Names : adduser(c, u) \/ removeuser(c, u) \/ setperms(c, u, "SUPER") \/ removeperms(c, u)
         \/ \E u \in Users : changepass(c, u)
    \/ \E t \in Threads :
         \/ \E u \in Users : RestLookup(t, u)
         \/ RestToken(t)
         \/ \E tok \in 1 .. MaxTokens : RestValidate(t, tok)
         \/ \E n \in NxClients : RestBind(t, n)
    \/ \E tok \in 1 .. MaxTokens : AuthLogout(tok)
    \/ \E c \in NxClients : Leave(c)

AcSpec == DbInit /\ AcInit /\ [][AcNext]_<<dbVars, acVars>>

-----------------------------------------------------------------------------
\* stats.moderators counts the sessions that are moderators, whatever mix of
\* logins, logouts, kills and mode switches led there.
ModeratorGauge == moderators = Cardinality({c \in DOMAIN sess : sess[c].mod})

\* Once the worker has caught up, a live token belongs to an account that exists
\* and carries that account's role, unless its login read the account before the
\* role changed: what removeuser and setperms revoke the tokens for.
TokensFollowAccounts ==
    \A k \in DOMAIN Drained.tokens :
       (~Drained.tokens[k].revoked /\ k \notin outrun) =>
          /\ Exists(Drained, Drained.tokens[k].user)
          /\ Drained.users[Drained.tokens[k].user].acl = Drained.tokens[k].acl

\* A REST session never outlives the token it is bound to, but for the ones that
\* outrun a revocation or that a kick from an AO session failed to reach.
SessionsFollowTokens ==
    \A n \in NxClients \ outrun :
       (sess[n].live /\ sess[n].tok > 0) => ~Drained.tokens[sess[n].tok].revoked

\* Under ADVANCED somebody can still administer the server: the root account is
\* there with SUPER, unless accounts were created before the switch.
RootStays ==
    (auth_type = "ADVANCED" /\ ~early) =>
       Exists(Drained, "root") /\ Drained.users["root"].acl = "SUPER"

\* What the comment in setperms and removeuser says: "Revoke auth tokens (stale
\* ACL) and kill bound sessions."  After the command no REST session still acts
\* with a role that its account does not have.
BoundSessionsKilled ==
    \A n \in NxClients :
       (sess[n].live /\ sess[n].tok > 0) =>
          Exists(Drained, sess[n].name) /\ Drained.users[sess[n].name].acl = sess[n].role

\* Accounts, auth tokens, sessions and the moderator gauge agree, in whatever order logins, commands, restarts and the
\* database worker act: nobody keeps a right its account has lost, and the root account stays.
AccountsAgree == TokensFollowAccounts /\ SessionsFollowTokens /\ RootStays /\ ModeratorGauge
=============================================================================
