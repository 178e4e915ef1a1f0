------------------------------ MODULE Database ------------------------------
(***************************************************************************)
(* DatabaseManager: one worker thread that owns the SQLite handle and runs *)
(* the tasks the other threads queue.  A task is a record with the name of *)
(* the member function that queued it; running a task maps the tables to   *)
(* new tables.  Tables survive a crash, the queue does not.                *)
(*                                                                         *)
(* Row ids are positions in the table, as AUTOINCREMENT gives them; users  *)
(* are found by their name, which is UNIQUE.  Text that nothing compares   *)
(* (reasons, salts, descriptions) is left out.                             *)
(***************************************************************************)
EXTENDS Integers, Sequences, FiniteSets

CONSTANTS
    DbVersion,     \* DB_VERSION
    OldVersion,    \* user_version of the file the server first meets
    MaxQueue,      \* bound on the tasks waiting for the worker
    MaxTime        \* bound on the clock

ASSUME DatabaseAssumption ==
    /\ OldVersion \in Nat /\ DbVersion \in Nat /\ OldVersion <= DbVersion
    /\ MaxQueue \in Nat \ {0} /\ MaxTime \in Nat

VARIABLES
    db,            \* the tables: [bans, users, tokens, mutes, events]
    dbQueue,       \* queue_
    dbState,       \* "closed", "migrating", "open"
    dbVersion,     \* user_version on disk
    dbTx,          \* user_version inside the open migration transaction
    now            \* system_clock, in abstract seconds

dbVars == <<db, dbQueue, dbState, dbVersion, dbTx, now>>

Permanent == -2
NoTables == [bans |-> <<>>, users |-> [u \in {} |-> 0], tokens |-> <<>>, mutes |-> {}, events |-> <<>>]

DbInit ==
    /\ db = NoTables /\ dbQueue = <<>> /\ dbState = "closed"
    /\ dbVersion = OldVersion /\ dbTx = OldVersion /\ now = 1

-----------------------------------------------------------------------------
(* Bans. *)

\* BanEntry::is_expired: a duration of 0 marks a ban that was lifted.
is_expired(e) ==
    e.dur # Permanent /\ (e.dur = 0 \/ now > e.time + e.dur)

is_ban_active(e) == e.dur # 0 /\ ~is_expired(e)

add_ban(d, t) == [d EXCEPT !.bans = Append(@, t.entry)]

invalidate_ban(d, t) ==
    IF t.id \in DOMAIN d.bans THEN [d EXCEPT !.bans[t.id].dur = 0] ELSE d

\* Only "duration" is compared; an update of "reason" leaves the model's row alone.
update_ban(d, t) ==
    IF t.field = "duration" /\ t.id \in DOMAIN d.bans
      THEN [d EXCEPT !.bans[t.id].dur = t.value] ELSE d

\* all_active_bans: the ids of the active rows.
all_active_bans(d) == {k \in DOMAIN d.bans : is_ban_active(d.bans[k])}

-----------------------------------------------------------------------------
(* Users and the tokens of the REST login.                                 *)

Exists(d, u) == u \in DOMAIN d.users

create_user(d, t) ==
    IF Exists(d, t.user) THEN d
    ELSE [d EXCEPT !.users = [u \in DOMAIN @ \cup {t.user} |-> IF u = t.user THEN [pw |-> t.pw, acl |-> t.acl] ELSE @[u]]]

delete_user(d, t) == [d EXCEPT !.users = [u \in DOMAIN @ \ {t.user} |-> @[u]]]

update_acl(d, t) == IF Exists(d, t.user) THEN [d EXCEPT !.users[t.user].acl = t.acl] ELSE d

update_password(d, t) == IF Exists(d, t.user) THEN [d EXCEPT !.users[t.user].pw = t.pw] ELSE d

create_auth_token(d, t) ==
    [d EXCEPT !.tokens = Append(@, [user |-> t.user, acl |-> t.acl, expires |-> t.expires,
                                    revoked |-> FALSE])]

\* validate_auth_token: an unrevoked token whose time (0 is for ever) has not come.
validate_auth_token(d, tok) ==
    /\ tok \in DOMAIN d.tokens /\ ~d.tokens[tok].revoked
    /\ (d.tokens[tok].expires > 0 => now < d.tokens[tok].expires)

revoke_auth_token(d, t) ==
    IF t.token \in DOMAIN d.tokens THEN [d EXCEPT !.tokens[t.token].revoked = TRUE] ELSE d

revoke_all_tokens_for_user(d, t) ==
    [d EXCEPT !.tokens = [i \in DOMAIN @ |->
        IF @[i].user = t.user THEN [@[i] EXCEPT !.revoked = TRUE] ELSE @[i]]]

-----------------------------------------------------------------------------
(* Mutes and the moderation log.                                           *)

add_mute(d, t) == [d EXCEPT !.mutes = @ \cup {t.mute}]

active_mutes(d) == {m \in d.mutes : m.expires = 0 \/ m.expires > now}

delete_mutes_by_ipid(d, t) == [d EXCEPT !.mutes = {m \in @ : m.ipid # t.ipid}]

prune_expired_mutes(d, at) == [d EXCEPT !.mutes = {m \in @ : ~(m.expires > 0 /\ m.expires <= at)}]

record_moderation_event(d, t) == [d EXCEPT !.events = Append(@, t.event)]

-----------------------------------------------------------------------------
(* The worker.                                                             *)

\* The task t run at time at.
Run(at, d, t) ==
    CASE t.op = "add_ban" -> add_ban(d, t)
      [] t.op = "invalidate_ban" -> invalidate_ban(d, t)
      [] t.op = "update_ban" -> update_ban(d, t)
      [] t.op = "create_user" -> create_user(d, t)
      [] t.op = "delete_user" -> delete_user(d, t)
      [] t.op = "update_acl" -> update_acl(d, t)
      [] t.op = "update_password" -> update_password(d, t)
      [] t.op = "create_auth_token" -> create_auth_token(d, t)
      [] t.op = "revoke_auth_token" -> revoke_auth_token(d, t)
      [] t.op = "revoke_all_tokens_for_user" -> revoke_all_tokens_for_user(d, t)
      [] t.op = "add_mute" -> add_mute(d, t)
      [] t.op = "delete_mutes_by_ipid" -> delete_mutes_by_ipid(d, t)
      [] t.op = "prune_expired_mutes" -> prune_expired_mutes(d, at)
      [] t.op = "record_moderation_event" -> record_moderation_event(d, t)

\* What the tables d become once the tasks q have been run in order, and what they become with the whole queue.
RunAll(at, d, q) ==
    LET after[k \in 0..Len(q)] == IF k = 0 THEN d ELSE Run(at, after[k - 1], q[k])
    IN  after[Len(q)]

Drained == RunAll(now, db, dbQueue)

Room == Len(dbQueue) < MaxQueue
enqueue(t) == dbQueue' = Append(dbQueue, t)

\* One turn of worker_loop.
worker_loop ==
    /\ dbState = "open" /\ dbQueue # <<>>
    /\ db' = Run(now, db, Head(dbQueue))
    /\ dbQueue' = Tail(dbQueue)
    /\ UNCHANGED <<dbState, dbVersion, dbTx, now>>

\* open: the migration runs inside BEGIN IMMEDIATE ... COMMIT.
open ==
    /\ dbState = "closed"
    /\ dbState' = (IF dbVersion >= DbVersion THEN "open" ELSE "migrating")
    /\ dbTx' = dbVersion
    /\ UNCHANGED <<db, dbQueue, dbVersion, now>>

migrate_step ==
    /\ dbState = "migrating" /\ dbTx < DbVersion
    /\ dbTx' = dbTx + 1
    /\ UNCHANGED <<db, dbQueue, dbState, dbVersion, now>>

migrate_commit ==
    /\ dbState = "migrating" /\ dbTx = DbVersion
    /\ dbVersion' = dbTx /\ dbState' = "open"
    /\ UNCHANGED <<db, dbQueue, dbTx, now>>

\* A statement of the migration fails: ROLLBACK, and the file is closed again.
migrate_rollback ==
    /\ dbState = "migrating"
    /\ dbTx' = dbVersion /\ dbState' = "closed"
    /\ UNCHANGED <<db, dbQueue, dbVersion, now>>

\* close: the worker drains the queue before it is joined.
close_loses_queue ==
    /\ dbState = "open"
    /\ db' = db /\ dbQueue' = <<>> /\ dbState' = "closed"
    /\ UNCHANGED <<dbVersion, dbTx, now>>

close ==
    /\ dbState = "open"
    /\ db' = Drained /\ dbQueue' = <<>> /\ dbState' = "closed"
    /\ UNCHANGED <<dbVersion, dbTx, now>>

\* The process dies: what was queued is gone, what was committed stays.
DbCrash ==
    /\ dbState # "closed"
    /\ dbQueue' = <<>> /\ dbState' = "closed" /\ dbTx' = dbVersion
    /\ UNCHANGED <<db, dbVersion, now>>

Migration == migrate_step \/ migrate_commit \/ migrate_rollback

\* The schema version on disk is the old one or the current one: a crash or a
\* failed step in the middle of migrate never leaves one in between.
MigrationAtomic == dbVersion \in {OldVersion, DbVersion}
=============================================================================
