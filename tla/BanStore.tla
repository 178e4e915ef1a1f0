------------------------------ MODULE BanStore ------------------------------
(***************************************************************************)
(* BanManager over the database and the FirewallManager: bans are kept in  *)
(* memory, written to the database by its worker, and pushed to the kernel *)
(* by the firewall's helper thread.  The server may stop, crash and start  *)
(* again at any point; the tables, the kernel's set and firewall_rules     *)
(* survive a crash, memory and both queues do not.                         *)
(*                                                                         *)
(* An IPID stands for the address it is the hash of.                       *)
(***************************************************************************)
EXTENDS Database, SequencesExt

CONSTANTS
    Ipids,         \* the addresses
    Hdids,         \* hardware ids; NoHdid is the empty one
    NoHdid,
    Durations,     \* what parse_ban_duration accepts: Permanent, 0, n
    MaxBans,       \* bound on the bans issued
    MaxRestarts,   \* bound on crashes and shutdowns
    MaxEdits       \* bound on unbans, edits and /firewall commands

ASSUME BanAssumption ==
    /\ IsFiniteSet(Ipids) /\ NoHdid \notin Hdids
    /\ Durations \subseteq {Permanent} \cup Nat
    /\ MaxBans \in Nat /\ MaxRestarts \in Nat /\ MaxEdits \in Nat

VARIABLES
    up,            \* the server runs (past load_from_db)
    bans,          \* bans_: a partial function of the IPIDs
    fwRules,       \* rules_: expiry of each rule, 0 for ever
    fwQueue,       \* exec_queue_
    fwSweep,       \* rules sweep_expired has erased and still has to queue
    fwFile,        \* firewall_rules.json
    kernel,        \* the addresses in the kernel's set
    table,         \* the nftables table exists
    restarts, edits,
    owed,          \* history: bans on disk, not lifted or edited since
    edited,        \* history: IPIDs whose ban was edited since it was issued
    lifted,        \* history: IPIDs whose last ban a moderator lifted
    raced,         \* history: blocked while their removal was still to be queued
    leftover,      \* history: kernel entries an earlier process left behind
    flushed        \* history: a moderator flushed the firewall in this process

fwVars == <<fwRules, fwQueue, fwSweep, fwFile, kernel, table>>
histVars == <<owed, edited, lifted, raced, leftover, flushed>>
banVars == <<up, bans, fwVars, restarts, edits, histVars>>

Nobody == [i \in {} |-> 0]
Without(f, S) == Restrict(f, DOMAIN f \ S)
With(f, k, v) == [i \in DOMAIN f \cup {k} |-> IF i = k THEN v ELSE f[i]]

BanInit ==
    /\ up = FALSE /\ bans = Nobody
    /\ fwRules = Nobody /\ fwQueue = <<>> /\ fwSweep = {} /\ fwFile = Nobody
    /\ kernel = {} /\ table = FALSE
    /\ restarts = 0 /\ edits = 0
    /\ owed = Nobody /\ edited = {} /\ lifted = {} /\ raced = {} /\ leftover = {} /\ flushed = FALSE

-----------------------------------------------------------------------------
(* The firewall.                                                           *)

Expiry(dur) == IF dur = Permanent THEN 0 ELSE now + dur

\* One helper command: [action, target].  Every element command fails when the
\* table does not exist, and flush deletes the table: kagami-fw-helper.c.
Helper(k, c) ==
    CASE c.action = "init" -> [k EXCEPT !.table = TRUE]
      [] c.action = "flush" -> [table |-> FALSE, set |-> {}]
      [] c.action = "add" -> IF k.table THEN [k EXCEPT !.set = @ \cup {c.target}] ELSE k
      [] c.action = "remove" -> [k EXCEPT !.set = @ \ {c.target}]

Cmd(a, i) == [action |-> a, target |-> i]
Kernel == [table |-> table, set |-> kernel]
\* What the kernel will hold once the helper thread has run its queue.
HelpAll(k, q) ==
    LET after[n \in 0..Len(q)] == IF n = 0 THEN k ELSE Helper(after[n - 1], q[n])
    IN  after[Len(q)]

FinalKernel == HelpAll(Kernel, fwQueue)

block_ip(i, dur) ==
    /\ fwRules' = With(fwRules, i, Expiry(dur))
    /\ fwQueue' = Append(fwQueue, Cmd("add", i))
    /\ raced' = IF i \in fwSweep THEN raced \cup {i} ELSE raced \ {i}

unblock_ip(i) ==
    IF i \in DOMAIN fwRules
      THEN fwRules' = Without(fwRules, {i}) /\ fwQueue' = Append(fwQueue, Cmd("remove", i))
      ELSE UNCHANGED <<fwRules, fwQueue>>

\* unblock_ip and block_ip in a row, as update_ban calls them.
reblock_swapped(i) ==
    <<Cmd("add", i)>> \o IF i \in DOMAIN fwRules THEN <<Cmd("remove", i)>> ELSE <<>>

reblock(i) ==
    (IF i \in DOMAIN fwRules THEN <<Cmd("remove", i)>> ELSE <<>>) \o <<Cmd("add", i)>>

exec_loop ==
    /\ fwQueue # <<>> /\ up
    /\ LET k == Helper(Kernel, Head(fwQueue)) IN kernel' = k.set /\ table' = k.table
    /\ fwQueue' = Tail(fwQueue)
    /\ leftover' = leftover \cap kernel'
    /\ UNCHANGED <<dbVars, up, bans, fwRules, fwSweep, fwFile, restarts, edits, owed, edited, lifted, raced, flushed>>

Due == {i \in DOMAIN fwRules : fwRules[i] > 0 /\ fwRules[i] <= now}

\* sweep_expired runs on the poll thread: it erases under the lock ...
sweep_erase ==
    /\ up /\ fwSweep = {} /\ Due # {}
    /\ fwRules' = Without(fwRules, Due) /\ fwSweep' = Due
    /\ UNCHANGED <<dbVars, up, bans, fwQueue, fwFile, kernel, table, restarts, edits, histVars>>

\* ... and queues the removals after it has released it.
sweep_enqueue(i) ==
    /\ up /\ i \in fwSweep
    /\ fwQueue' = Append(fwQueue, Cmd("remove", i)) /\ fwSweep' = fwSweep \ {i}
    /\ UNCHANGED <<dbVars, up, bans, fwRules, fwFile, kernel, table, restarts, edits, histVars>>

\* /firewall add, remove and flush, each followed by save_sync.
FirewallAdd(i, dur) ==
    /\ up /\ edits < MaxEdits /\ edits' = edits + 1
    /\ block_ip(i, dur) /\ fwFile' = fwRules'
    /\ UNCHANGED <<dbVars, up, bans, fwSweep, kernel, table, restarts, owed, edited, lifted, leftover, flushed>>

FirewallRemove(i) ==
    /\ up /\ edits < MaxEdits /\ edits' = edits + 1 /\ i \in DOMAIN fwRules
    /\ unblock_ip(i) /\ fwFile' = fwRules'
    /\ UNCHANGED <<dbVars, up, bans, fwSweep, kernel, table, restarts, histVars>>

flush ==
    /\ up /\ edits < MaxEdits /\ edits' = edits + 1
    /\ fwRules' = Nobody /\ fwQueue' = Append(fwQueue, Cmd("flush", "none"))
    /\ fwFile' = Nobody /\ flushed' = TRUE
    /\ UNCHANGED <<dbVars, up, bans, fwSweep, kernel, table, restarts, owed, edited, lifted, raced, leftover>>

-----------------------------------------------------------------------------
(* Bans.                                                                   *)

Banned(i) == i \in DOMAIN bans /\ ~is_expired(bans[i])

\* check_ban: by IPID, then by any entry with the same hardware id.
check_ban(i, h) ==
    \/ Banned(i)
    \/ h # NoHdid /\ \E j \in DOMAIN bans : bans[j].hdid = h /\ ~is_expired(bans[j])

\* BanManager::add_ban, from /ban, the MA packet, the content moderator and the
\* spam detector.  The entry keeps id 0: nobody waits for the row's id.
BanAdd(i, h, withIp, dur) ==
    LET e == [id |-> 0, ipid |-> i, hdid |-> h, ip |-> withIp, time |-> now, dur |-> dur] IN
    /\ up /\ Room /\ Len(Drained.bans) < MaxBans
    /\ IF withIp THEN block_ip(i, dur) ELSE UNCHANGED <<fwRules, fwQueue, raced>>
    /\ bans' = With(bans, i, e)
    /\ enqueue([op |-> "add_ban", entry |-> e])
    /\ lifted' = lifted \ {i} /\ edited' = edited \ {i} /\ owed' = Without(owed, {i})
    /\ UNCHANGED <<db, dbState, dbVersion, dbTx, now, up, fwSweep, fwFile, kernel, table,
                   restarts, edits, leftover, flushed>>

\* remove_ban: the row is invalidated only if the entry in memory knows its id.
BanRemove(i) ==
    /\ up /\ Room /\ edits < MaxEdits /\ edits' = edits + 1 /\ i \in DOMAIN bans
    /\ bans' = Without(bans, {i})
    /\ IF bans[i].id > 0 THEN enqueue([op |-> "invalidate_ban", id |-> bans[i].id])
                         ELSE UNCHANGED dbQueue
    /\ IF bans[i].ip THEN unblock_ip(i) ELSE UNCHANGED <<fwRules, fwQueue>>
    /\ lifted' = lifted \cup {i} /\ owed' = Without(owed, {i})
    /\ UNCHANGED <<db, dbState, dbVersion, dbTx, now, up, fwSweep, fwFile, kernel, table,
                   restarts, edited, raced, leftover, flushed>>

\* update_ban(ipid, "duration", d): memory, then the row if its id is known, then
\* the firewall rule is taken out and put back.
BanEdit(i, d) ==
    /\ up /\ Room /\ edits < MaxEdits /\ edits' = edits + 1 /\ i \in DOMAIN bans
    /\ bans' = [bans EXCEPT ![i].dur = d]
    /\ IF bans[i].id > 0
         THEN enqueue([op |-> "update_ban", id |-> bans[i].id, field |-> "duration", value |-> d])
         ELSE UNCHANGED dbQueue
    /\ IF bans[i].ip
         THEN /\ fwRules' = With(fwRules, i, Expiry(d))
              /\ fwQueue' = fwQueue \o reblock(i)
              /\ raced' = IF i \in fwSweep THEN raced \cup {i} ELSE raced \ {i}
         ELSE UNCHANGED <<fwRules, fwQueue, raced>>
    /\ owed' = Without(owed, {i}) /\ edited' = edited \cup {i}
    /\ UNCHANGED <<db, dbState, dbVersion, dbTx, now, up, fwSweep, fwFile, kernel, table,
                   restarts, lifted, leftover, flushed>>

\* Bans of i that are still to be written.
Unwritten(i, q) == {k \in DOMAIN q : q[k].op = "add_ban" /\ q[k].entry.ipid = i}

\* The database worker; a ban is owed from the moment its row is on disk, if none of its IPID follows.
Worker ==
    /\ up /\ worker_loop
    /\ LET t == Head(dbQueue) IN
       owed' = IF /\ t.op = "add_ban" /\ t.entry.ipid \in DOMAIN bans \ edited
                  /\ bans[t.entry.ipid] = t.entry /\ Unwritten(t.entry.ipid, Tail(dbQueue)) = {}
                 THEN With(owed, t.entry.ipid, t.entry) ELSE owed
    /\ UNCHANGED <<up, bans, fwVars, restarts, edits, edited, lifted, raced, leftover, flushed>>

-----------------------------------------------------------------------------
(* Start, stop and crash.                                                  *)

DbOpen ==
    /\ ~up /\ (open \/ Migration)
    /\ UNCHANGED <<up, bans, fwVars, restarts, edits, histVars>>

\* Later rows of the same IPID overwrite earlier ones.
LastRow(rows, i) == Max({k \in rows : db.bans[k].ipid = i})

LoadedBans ==
    LET rows == all_active_bans(db)
    IN  [i \in {db.bans[k].ipid : k \in rows} |-> [db.bans[LastRow(rows, i)] EXCEPT !.id = LastRow(rows, i)]]

\* firewall.load, then load_from_db: every active row with an address is blocked
\* again for its whole duration.
load_from_db ==
    LET rows == {k \in all_active_bans(db) : db.bans[k].ip}
        kept == Restrict(fwFile, {i \in DOMAIN fwFile : ~(fwFile[i] > 0 /\ fwFile[i] <= now)})
        blocked == {db.bans[k].ipid : k \in rows}
        Adds(s) == [n \in DOMAIN s |-> Cmd("add", s[n])]
        ids == SetToSeq(rows)
    IN
    /\ ~up /\ dbState = "open" /\ up' = TRUE
    /\ bans' = LoadedBans
    /\ fwRules' = [i \in DOMAIN kept \cup blocked |->
                     IF i \in blocked THEN Expiry(db.bans[LastRow(rows, i)].dur) ELSE kept[i]]
    /\ fwQueue' = <<Cmd("init", "none")>> \o Adds(SetToSeq(DOMAIN kept)) \o Adds([n \in DOMAIN ids |-> db.bans[ids[n]].ipid])
    /\ UNCHANGED <<dbVars, fwSweep, fwFile, kernel, table, restarts, edits, histVars>>

Forget == bans' = Nobody /\ fwRules' = Nobody /\ fwQueue' = <<>> /\ fwSweep' = {} /\ up' = FALSE

\* What ~FirewallManager leaves in the kernel: it flushes, and only then does the
\* helper thread run what is still queued.
ShutKernel == HelpAll([table |-> FALSE, set |-> {}], fwQueue)

\* Orderly shutdown: the firewall manager goes first, then the database drains
\* its queue.
Shutdown ==
    /\ up /\ restarts < MaxRestarts /\ restarts' = restarts + 1
    /\ close
    /\ owed' = [i \in {j \in DOMAIN bans : j \notin edited \/ bans[j].id > 0} |-> bans[i]]
    /\ kernel' = ShutKernel.set /\ table' = ShutKernel.table
    /\ leftover' = ShutKernel.set /\ raced' = {} /\ flushed' = FALSE
    /\ Forget /\ edited' = {}
    /\ UNCHANGED <<fwFile, edits, lifted>>

Crash ==
    /\ up /\ restarts < MaxRestarts /\ restarts' = restarts + 1
    /\ DbCrash
    /\ leftover' = kernel /\ raced' = {} /\ flushed' = FALSE
    /\ Forget /\ edited' = {}
    /\ UNCHANGED <<fwFile, kernel, table, edits, owed, lifted>>

CrashWhileMigrating ==
    /\ ~up /\ dbState = "migrating" /\ restarts < MaxRestarts /\ restarts' = restarts + 1
    /\ DbCrash
    /\ UNCHANGED <<up, bans, fwVars, edits, histVars>>

Tick ==
    /\ now < MaxTime /\ now' = now + 1
    /\ UNCHANGED <<db, dbQueue, dbState, dbVersion, dbTx, up, bans, fwVars, restarts, edits, histVars>>

BanNext ==
    \/ DbOpen \/ load_from_db \/ Worker \/ exec_loop \/ sweep_erase \/ flush
    \/ \E i \in Ipids :
         \/ sweep_enqueue(i) \/ FirewallRemove(i) \/ BanRemove(i)
         \/ \E d \in Durations :
              \/ FirewallAdd(i, d) \/ BanEdit(i, d)
              \/ \E h \in Hdids \cup {NoHdid}, a \in BOOLEAN : BanAdd(i, h, a, d)
    \/ Shutdown \/ Crash \/ CrashWhileMigrating \/ Tick

BanSpec == DbInit /\ BanInit /\ [][BanNext]_<<dbVars, banVars>>

-----------------------------------------------------------------------------
\* A ban whose row reached the disk, or that stood when the server was stopped in
\* order, keeps its address out whenever the server runs, through crashes and
\* restarts, until it expires or is lifted or edited: add_ban, close,
\* all_active_bans and load_from_db together.
OwedBansEnforced ==
    up => \A i \in DOMAIN owed : is_ban_active(owed[i]) => check_ban(i, NoHdid)

\* A rule of the firewall manager is in the kernel once the helper's queue has
\* run, unless its address was blocked while the sweep still had to queue its
\* removal, or /firewall flush deleted the table, which only init creates.
RulesReachKernel ==
    (up /\ ~flushed) => DOMAIN fwRules \ raced \subseteq FinalKernel.set

\* No address stays blocked in the kernel without a rule to lift it: it has a
\* rule, or its removal is on its way, or an earlier process left it behind.
NoStuckBlock ==
    up => FinalKernel.set \subseteq DOMAIN fwRules \cup fwSweep \cup leftover

\* What remove_ban's comment promises: a ban a moderator lifted is gone, after a
\* restart too.
LiftedStaysLifted == \A i \in lifted : ~Banned(i)

\* What reached the disk is kept, through crashes, restarts and migrations (add_ban, close, migrate, load_from_db).
StoreKept == OwedBansEnforced /\ MigrationAtomic

\* The rules of the firewall manager and the kernel's set agree once the helper's queue has run, both ways.
FirewallInStep == RulesReachKernel /\ NoStuckBlock
=============================================================================
