----------------------------- MODULE Reputation -----------------------------
(***************************************************************************)
(* IPReputationService and ASNReputationManager: what is known of an       *)
(* address is fetched in batches by a worker thread and cached with a time *)
(* to live; a network (ASN) climbs from NORMAL to BLOCKED as abuse is      *)
(* reported, and its file is written by a writer thread.                   *)
(***************************************************************************)
EXTENDS Integers, Sequences, SequencesExt, FiniteSets

CONSTANTS
    Hosts, Nets, NetOf,      \* addresses, networks, the network of an address
    Visitors, HostOf,        \* AO clients and the address each comes from
    Details,                 \* what an abuse report is counted by
    WhiteNets, Multiplier, WatchT, RateT, BlockT,
    EventWindow, Sustained,  \* window_minutes; the 15 minutes of sustained abuse
    BlockFor, AutoBlock,     \* durations of /asn block, and auto_block_duration; 0 for ever
    CacheTtl, FailTtl, BatchMax, Budget,
    MaxClock, MaxReports

ASSUME ReputationAssumption ==
    /\ NetOf \in [Hosts -> Nets] /\ HostOf \in [Visitors -> Hosts]
    /\ {WatchT, RateT, BlockT} \subseteq Nat /\ Multiplier \in Nat \ {0}
    /\ BlockFor \subseteq Nat /\ AutoBlock \in Nat /\ BatchMax \in Nat \ {0}

VARIABLES
    clock,
    cache,         \* cache_: [asn, failed, until, rich] of some addresses
    lookups,       \* queue_: [ip, who]
    batch,         \* what the worker has taken: [ip, who, ok]
    enrich,        \* proxies of the last batch still to be asked of AbuseIPDB
    used,          \* abuseipdb_used_
    asns,          \* asns_
    asnSnap,       \* writer_snapshot_: empty, or one copy
    asnFile,       \* asn_reputation.json
    visitor,       \* "out", "in" or "closed"
    reports,
    told,          \* history: visitors whose callback has run
    dropped,       \* history: visitors whose callback lookup did not keep
    manual,        \* history: networks blocked by a moderator
    owedBlock      \* history: manual blocks on disk, not lifted since

ipVars == <<cache, lookups, batch, enrich, used>>
asnVars == <<asns, asnSnap, asnFile>>
repVars == <<clock, ipVars, asnVars, visitor, reports, told, dropped, manual, owedBlock>>

\* keys is history: what the network has been reported for since it was last NORMAL.
Fresh == [status |-> "NORMAL", ips |-> {}, keys |-> {}, times |-> <<>>, changed |-> 0, until |-> 0]
NoSnap == <<>>
RPut(f, k, v) == [x \in DOMAIN f \cup {k} |-> IF x = k THEN v ELSE f[x]]
Empty == [x \in {} |-> 0]

RepInit ==
    /\ clock = 1 /\ cache = Empty /\ lookups = <<>> /\ batch = <<>> /\ enrich = <<>> /\ used = 0
    /\ asns = Empty /\ asnSnap = NoSnap /\ asnFile = Empty
    /\ visitor = [v \in Visitors |-> "out"] /\ reports = 0
    /\ told = {} /\ dropped = {} /\ manual = {} /\ owedBlock = Empty

-----------------------------------------------------------------------------
(* Addresses.                                                              *)

find_cached(h) == h \in DOMAIN cache /\ cache[h].until > clock
make_expiry(failed) == clock + IF failed THEN FailTtl ELSE CacheTtl

BlockOver(e) == e.until > 0 /\ e.until <= clock
check_blocked(n) == n \in DOMAIN asns /\ asns[n].status = "BLOCKED" /\ ~BlockOver(asns[n])

\* The reputation part of the HI handler: a cached answer is judged at once ...
HiCached(v) ==
    /\ visitor[v] = "out" /\ find_cached(HostOf[v])
    /\ visitor' = [visitor EXCEPT ![v] = IF cache[HostOf[v]].asn # "none" /\ check_blocked(cache[HostOf[v]].asn)
                                           THEN "closed" ELSE "in"]
    /\ told' = told \cup {v}
    /\ UNCHANGED <<clock, cache, lookups, batch, enrich, used, asns, asnSnap, asnFile, reports,
                   dropped, manual, owedBlock>>

\* ... otherwise lookup queues the address with a callback, unless it is queued already.
HiLookup(v) ==
    LET queued == \E i \in DOMAIN lookups : lookups[i].ip = HostOf[v] IN
    /\ visitor[v] = "out" /\ ~find_cached(HostOf[v])
    /\ visitor' = [visitor EXCEPT ![v] = "in"]
    /\ lookups' = IF queued THEN lookups ELSE Append(lookups, [ip |-> HostOf[v], who |-> v])
    /\ dropped' = IF queued THEN dropped \cup {v} ELSE dropped
    /\ UNCHANGED <<clock, cache, batch, enrich, used, asns, asnSnap, asnFile, reports, told, manual, owedBlock>>

\* worker_loop takes up to a batch and asks ip-api for all of it: some answer,
\* or none when the query fails.
WorkerTake(answered) ==
    /\ batch = <<>> /\ enrich = <<>> /\ lookups # <<>>
    /\ LET n == IF Len(lookups) < BatchMax THEN Len(lookups) ELSE BatchMax IN
       /\ batch' = [i \in 1 .. n |-> [ip |-> lookups[i].ip, who |-> lookups[i].who, ok |-> lookups[i].ip \in answered]]
       /\ lookups' = SubSeq(lookups, n + 1, Len(lookups))
    /\ UNCHANGED <<clock, cache, enrich, used, asns, asnSnap, asnFile, visitor, reports, told, dropped, manual, owedBlock>>

EntryOf(b) ==
    [asn |-> IF b.ok THEN NetOf[b.ip] ELSE "none", failed |-> ~b.ok, until |-> make_expiry(~b.ok), rich |-> FALSE]

\* The callback of the HI handler: close_client_deferred when the network is blocked.
CallBack(v, e) ==
    visitor' = [visitor EXCEPT ![v] = IF e.asn # "none" /\ check_blocked(e.asn) /\ @ = "in" THEN "closed" ELSE @]

WorkerDeliver_only_answered ==
    /\ batch # <<>>
    /\ IF Head(batch).ok
         THEN /\ cache' = RPut(cache, Head(batch).ip, EntryOf(Head(batch)))
              /\ CallBack(Head(batch).who, EntryOf(Head(batch))) /\ told' = told \cup {Head(batch).who}
              /\ enrich' = Append(enrich, Head(batch).ip)
         ELSE UNCHANGED <<cache, visitor, told, enrich>>
    /\ batch' = Tail(batch)
    /\ UNCHANGED <<clock, lookups, used, asns, asnSnap, asnFile, reports, dropped, manual, owedBlock>>

WorkerDeliver ==
    /\ batch # <<>>
    /\ cache' = RPut(cache, Head(batch).ip, EntryOf(Head(batch)))
    /\ CallBack(Head(batch).who, EntryOf(Head(batch))) /\ told' = told \cup {Head(batch).who}
    /\ enrich' = IF Head(batch).ok THEN Append(enrich, Head(batch).ip) ELSE enrich
    /\ batch' = Tail(batch)
    /\ UNCHANGED <<clock, lookups, used, asns, asnSnap, asnFile, reports, dropped, manual, owedBlock>>

query_abuseipdb(ask) == used' = IF ask THEN used + 1 ELSE used

\* AbuseIPDB for the proxies among the answers, within the day's budget; the
\* answer is merged into the entry that is cached by then.
WorkerEnrich(proxy, ok) ==
    /\ batch = <<>> /\ enrich # <<>>
    /\ LET h == Head(enrich)
           ask == proxy /\ used < Budget
           base == IF find_cached(h) THEN cache[h] ELSE [asn |-> "none", failed |-> FALSE, until |-> 0, rich |-> FALSE]
       IN /\ query_abuseipdb(ask)
          /\ cache' = IF ask /\ ok THEN RPut(cache, h, [base EXCEPT !.rich = TRUE, !.until = make_expiry(FALSE)])
                      ELSE cache
    /\ enrich' = Tail(enrich)
    /\ UNCHANGED <<clock, lookups, batch, asns, asnSnap, asnFile, visitor, reports, told, dropped, manual, owedBlock>>

sweep_expired ==
    /\ \E h \in DOMAIN cache : cache[h].until <= clock
    /\ cache' = [h \in {x \in DOMAIN cache : cache[x].until > clock} |-> cache[h]]
    /\ UNCHANGED <<clock, lookups, batch, enrich, used, asns, asnSnap, asnFile, visitor, reports, told,
                   dropped, manual, owedBlock>>

-----------------------------------------------------------------------------
(* Networks.                                                               *)

effective_threshold(t, n) == IF n \in WhiteNets THEN t * Multiplier ELSE t

prune_window(times) == SelectSeq(times, LAMBDA t : t >= clock - EventWindow)

Until(d) == IF d = 0 THEN 0 ELSE clock + d

Escalated(e, s) == [e EXCEPT !.status = s, !.changed = clock,
                             !.until = IF s = "BLOCKED" THEN Until(AutoBlock) ELSE @]

\* One level per report at most.
evaluate_escalation(n, e) ==
    LET k == Cardinality(e.ips) IN
    CASE e.status = "NORMAL" /\ k >= effective_threshold(WatchT, n) -> Escalated(e, "WATCHED")
      [] e.status = "WATCHED" /\ k >= effective_threshold(RateT, n) -> Escalated(e, "RATE_LIMITED")
      [] e.status = "RATE_LIMITED" /\ k >= effective_threshold(BlockT, n) -> Escalated(e, "BLOCKED")
      [] e.status = "RATE_LIMITED" /\ k < effective_threshold(BlockT, n)
           /\ clock - e.changed > Sustained /\ e.times # <<>> -> Escalated(e, "BLOCKED")
      [] OTHER -> e

Entry(n) == IF n \in DOMAIN asns THEN asns[n] ELSE Fresh

\* report_abuse: the spam callback passes the verdict's detail where the address
\* belongs, so detail is what is counted.
report_abuse(n, detail) ==
    LET seen == [Entry(n) EXCEPT !.ips = @ \cup {detail}, !.keys = @ \cup {detail},
                                !.times = prune_window(Append(@, clock))] IN
    /\ reports < MaxReports /\ reports' = reports + 1
    /\ Entry(n).status # "BLOCKED"
    /\ asns' = RPut(asns, n, evaluate_escalation(n, seen))
    /\ UNCHANGED <<clock, cache, lookups, batch, enrich, used, asnSnap, asnFile, visitor, told, dropped,
                   manual, owedBlock>>

\* /asn block and /asn unblock, each followed by save_async.
block_asn(n, d) ==
    /\ reports < MaxReports /\ reports' = reports + 1
    /\ asns' = RPut(asns, n, [Entry(n) EXCEPT !.status = "BLOCKED", !.changed = clock,
                                              !.until = Until(d)])
    /\ asnSnap' = <<asns'>> /\ manual' = manual \cup {n} /\ owedBlock' = [x \in DOMAIN owedBlock \ {n} |-> owedBlock[x]]
    /\ UNCHANGED <<clock, cache, lookups, batch, enrich, used, asnFile, visitor, told, dropped>>

unblock_asn(n) ==
    /\ reports < MaxReports /\ reports' = reports + 1 /\ n \in DOMAIN asns
    /\ asns' = [asns EXCEPT ![n] = [Fresh EXCEPT !.changed = clock]]
    /\ asnSnap' = <<asns'>> /\ manual' = manual \ {n} /\ owedBlock' = [x \in DOMAIN owedBlock \ {n} |-> owedBlock[x]]
    /\ UNCHANGED <<clock, cache, lookups, batch, enrich, used, asnFile, visitor, told, dropped>>

AsnCommand(n) == unblock_asn(n) \/ \E d \in BlockFor : block_asn(n, d)

\* ASNReputationManager::sweep: expired blocks, old events, and the reporters
\* once no event is left.
Swept(e) ==
    LET over == e.status = "BLOCKED" /\ BlockOver(e)
        times == prune_window(e.times)
        ips == IF times = <<>> THEN {} ELSE e.ips
    IN  [e EXCEPT !.status = IF over THEN "NORMAL" ELSE @, !.changed = IF over THEN clock ELSE @,
                  !.times = times, !.ips = ips, !.keys = IF over THEN ips ELSE @]

asn_sweep ==
    LET new == [n \in DOMAIN asns |-> Swept(asns[n])] IN
    /\ new # asns /\ asns' = new
    /\ manual' = {n \in manual : new[n].status = "BLOCKED"}
    /\ UNCHANGED <<clock, cache, lookups, batch, enrich, used, asnSnap, asnFile, visitor, reports, told,
                   dropped, owedBlock>>

\* write_to_disk leaves out the window: only the status and its times are kept.
Saved(s) == [n \in DOMAIN s |-> [s[n] EXCEPT !.ips = {}, !.times = <<>>]]

writer_loop ==
    /\ asnSnap # NoSnap
    /\ asnFile' = Saved(asnSnap[1]) /\ asnSnap' = NoSnap
    /\ owedBlock' = [n \in {x \in manual : x \in DOMAIN asnSnap[1] /\ asnSnap[1][x].status = "BLOCKED"
                                            /\ asnSnap[1][x].until = Entry(x).until} |-> asnSnap[1][n].until]
    /\ UNCHANGED <<clock, cache, lookups, batch, enrich, used, asns, visitor, reports, told, dropped, manual>>

Loaded(e) == IF e.status = "BLOCKED" /\ BlockOver(e) THEN [e EXCEPT !.status = "NORMAL", !.keys = e.ips] ELSE e

\* The process dies and starts again: load.
RepRestart ==
    /\ reports < MaxReports /\ reports' = reports + 1
    /\ asns' = [n \in DOMAIN asnFile |-> Loaded(asnFile[n])]
    /\ cache' = Empty /\ lookups' = <<>> /\ batch' = <<>> /\ enrich' = <<>> /\ used' = 0 /\ asnSnap' = NoSnap
    /\ visitor' = [v \in Visitors |-> "out"] /\ told' = {} /\ dropped' = {}
    /\ manual' = {n \in DOMAIN asns' : asns'[n].status = "BLOCKED"}
    /\ UNCHANGED <<clock, asnFile, owedBlock>>

RepTick ==
    /\ clock < MaxClock /\ clock' = clock + 1
    /\ UNCHANGED <<cache, lookups, batch, enrich, used, asns, asnSnap, asnFile, visitor, reports, told,
                   dropped, manual, owedBlock>>

RepNext ==
    \/ \E v \in Visitors : HiCached(v) \/ HiLookup(v)
    \/ \E S \in SUBSET Hosts : WorkerTake(S)
    \/ WorkerDeliver \/ \E p, ok \in BOOLEAN : WorkerEnrich(p, ok)
    \/ sweep_expired \/ asn_sweep \/ writer_loop \/ RepRestart \/ RepTick
    \/ \E n \in Nets : AsnCommand(n) \/ \E d \in Details : report_abuse(n, d)

RepSpec == RepInit /\ [][RepNext]_repVars

-----------------------------------------------------------------------------
\* A visitor let in without an answer is judged when there is one: while he has
\* not been, his callback is queued or in the worker's batch, whatever the queries
\* answer.  The ones lookup dropped because their address was queued are left out.
CallbacksNotLost ==
    \A v \in Visitors \ (told \cup dropped) :
       visitor[v] = "in" => \/ \E i \in DOMAIN lookups : lookups[i].who = v
                            \/ \E i \in DOMAIN batch : batch[i].who = v

\* A network is blocked by the machine only when it has been reported for enough
\* different reasons to be rate limited first, a whitelisted one for Multiplier
\* times as many.
AutoBlockEarned ==
    \A n \in DOMAIN asns \ manual :
       asns[n].status = "BLOCKED" =>
          Cardinality(asns[n].keys) >= IF n \in WhiteNets THEN RateT * Multiplier ELSE RateT

\* A moderator's block that has reached the disk holds until it expires or is
\* lifted, through restarts.
BlocksSurvive ==
    \A n \in DOMAIN owedBlock :
       (owedBlock[n] = 0 \/ owedBlock[n] > clock) => check_blocked(n)

\* Visitors and networks are judged by what the service and the reports said: no answer is lost on its way to a visitor,
\* no network is blocked unearned, and a moderator's block holds through restarts (lookup, report, load_from_db).
NetworksJudged == CallbacksNotLost /\ AutoBlockEarned /\ BlocksSurvive
=============================================================================
