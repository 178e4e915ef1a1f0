----------------------------- MODULE Moderation -----------------------------
(***************************************************************************)
(* ContentModerator: the score of a message, the heat it adds to its       *)
(* speaker, the verdict the heat decides, the mute and the rows that       *)
(* follow, and what the packet handlers do with the verdict.  Mutes and    *)
(* events go to the database's queue; a ban goes there behind the event.   *)
(*                                                                         *)
(* Scores are hundredths, heat is ten-thousandths of the code's unit.  A   *)
(* tick is one half-life.  Cosine similarity is abstracted: two messages   *)
(* are near-duplicates when their vec is equal.                            *)
(***************************************************************************)
EXTENDS Database

CONSTANTS
    Speakers,      \* IPIDs
    Messages,      \* records [scores |-> [axis -> 0..100], vec |-> value]
    HeatCfg,       \* weights, floors, the ladder, mute_duration, prune_below, sweep_idle
    TrustReward, MaxTrust,
    RingSize, Window, ClusterThreshold,
    MaxMessages,   \* bound on the messages checked
    MaxResets      \* bound on /modheat reset, /noheat, reloads and restarts

ASSUME ModerationAssumption ==
    /\ TrustReward \in Nat /\ MaxTrust \in Nat /\ RingSize \in Nat \ {0}
    /\ Window \in Nat /\ ClusterThreshold \in Nat /\ MaxMessages \in Nat /\ MaxResets \in Nat

Axes == {"visual_noise", "link_risk", "slurs", "hate", "semantic_echo"}

ASSUME MessagesAssumption == \A m \in Messages : m.scores \in [Axes -> 0..100]

ASSUME HeatAssumption ==
    /\ HeatCfg.floor \in [Axes -> Int] /\ HeatCfg.weight \in [Axes -> Int]
    /\ HeatCfg.mute_duration \in Int /\ HeatCfg.prune_below \in Int /\ HeatCfg.sweep_idle \in Int
    /\ {HeatCfg.censor, HeatCfg.drop, HeatCfg.mute, HeatCfg.kick, HeatCfg.ban, HeatCfg.perma} \subseteq Int

VARIABLES
    heat,          \* state_: [h, at] of the speakers it has an entry for
    mutes,         \* active_mutes_: expiry of each muted speaker
    noheat,        \* noheat_ipids_
    ring,          \* SemanticClusterer::ring_
    backend,       \* the embedding backend has been set
    cmDb,          \* db_ has been set
    serving,       \* main has handed the moderator to the room
    verdict,       \* the last verdict
    checked, resets,
    cleared,       \* history: speakers reset since their last offence
    spoken,        \* history: who said what when, within the window
    muted          \* history: the latest mute issued to each speaker

heatVars == <<heat, noheat>>
echoVars == <<ring, backend>>
modVars == <<heatVars, echoVars, mutes, cmDb, serving, verdict, checked, resets, cleared, spoken, muted>>

Ladder == <<"NONE", "LOG", "CENSOR", "DROP", "MUTE", "KICK", "BAN", "PERMA_BAN">>
Rank(a) == CHOOSE i \in DOMAIN Ladder : Ladder[i] = a
NoVerdict == [action |-> "NONE", delta |-> 0, exempt |-> FALSE, echo |-> FALSE,
              vec |-> "none", at |-> 0]

ModInit ==
    /\ heat = [s \in {} |-> 0] /\ mutes = [s \in {} |-> 0] /\ noheat = {} /\ ring = <<>>
    /\ backend = FALSE /\ cmDb = FALSE /\ serving = FALSE /\ verdict = NoVerdict
    /\ checked = 0 /\ resets = 0 /\ cleared = {} /\ spoken = {} /\ muted = [s \in {} |-> 0]

Put(f, k, v) == [x \in DOMAIN f \cup {k} |-> IF x = k THEN v ELSE f[x]]
Drop(f, S) == [x \in DOMAIN f \ S |-> f[x]]

-----------------------------------------------------------------------------
(* ModerationHeat.                                                         *)

\* decay_locked: halved for every tick since the last update; what becomes too small is zero.
Half(h) == IF h < 0 THEN -((-h) \div 2) ELSE h \div 2

Halve(h, n) ==
    LET after[k \in 0..n] == IF k = 0 THEN h ELSE Half(after[k - 1])
    IN  after[n]

decay(s) == IF s \in DOMAIN heat THEN Halve(heat[s].h, now - heat[s].at) ELSE 0

peek(s) == decay(s)

\* apply: trust is wiped before the delta is added.
apply_on_trust(s, delta) == decay(s) + delta

apply(s, delta) == (IF decay(s) < 0 THEN 0 ELSE decay(s)) + delta

\* Only a speaker without heat earns trust, down to the floor.
accrue_trust(s, amount, floor) ==
    IF decay(s) > 0 THEN decay(s)
    ELSE IF decay(s) - amount < floor THEN floor ELSE decay(s) - amount

\* The strongest action whose threshold the heat has reached.
decide(h) ==
    IF h >= HeatCfg.perma THEN "PERMA_BAN"
    ELSE IF h >= HeatCfg.ban THEN "BAN"
    ELSE IF h >= HeatCfg.kick THEN "KICK"
    ELSE IF h >= HeatCfg.mute THEN "MUTE"
    ELSE IF h >= HeatCfg.drop THEN "DROP"
    ELSE IF h >= HeatCfg.censor THEN "CENSOR"
    ELSE IF h > 0 THEN "LOG" ELSE "NONE"

\* ModerationHeat::sweep: the idle time is looked at before the decay refreshes it.
SweptHeat ==
    LET small(s) == decay(s) < HeatCfg.prune_below /\ -decay(s) < HeatCfg.prune_below
        idle(s) == now - heat[s].at > HeatCfg.sweep_idle
    IN  [s \in {x \in DOMAIN heat : ~(small(x) /\ idle(x))} |-> [h |-> decay(s), at |-> now]]

-----------------------------------------------------------------------------
(* The scores of one message.                                              *)

\* heat_delta_from, one axis: linear above the floor, quadratic and small below.
contrib(score, floor) ==
    IF score <= 0 THEN 0 ELSE IF score > floor THEN (score - floor) * 100 ELSE (score * score) \div 100

heat_delta_from(scores) ==
    LET part(a) == contrib(scores[a], HeatCfg.floor[a]) * HeatCfg.weight[a]
    IN  part("visual_noise") + part("link_risk") + part("slurs") + part("hate") + part("semantic_echo")

\* How many entries at the front of r are older than cutoff, and r without its first ones beyond the ring.
Outdated(r, cutoff) ==
    CHOOSE k \in 0..Len(r) : (\A i \in 1..k : r[i].at < cutoff) /\ (k < Len(r) => r[k + 1].at >= cutoff)

Fitting(r) == SubSeq(r, (IF Len(r) > RingSize THEN Len(r) - RingSize ELSE 0) + 1, Len(r))

\* prune_locked.
Pruned(r) == Fitting(SubSeq(r, Outdated(r, now - Window) + 1, Len(r)))

\* score_with_embedding: other speakers of the same message, then it is inserted.
distinct_others(s, m) == {e.who : e \in {x \in {Pruned(ring)[i] : i \in DOMAIN Pruned(ring)} : x.vec = m.vec}} \ {s}

Echo(s, m) == backend /\ Cardinality(distinct_others(s, m)) + 1 >= ClusterThreshold

Inserted(s, m) == Fitting(Append(Pruned(ring), [who |-> s, vec |-> m.vec, at |-> now]))

Scores(s, m) == [m.scores EXCEPT !["semantic_echo"] = IF Echo(s, m) THEN 100 ELSE 0]

-----------------------------------------------------------------------------
(* check, and what the handler does with the verdict.                      *)

KCleanEpsilon == 100

\* The rows behind one enforced verdict, in the order they are queued.
Mute(s) == [op |-> "add_mute", mute |-> [ipid |-> s, expires |-> now + HeatCfg.mute_duration]]
Event(s, a) == [op |-> "record_moderation_event", event |-> [ipid |-> s, action |-> a]]
Ban(s, a) == [op |-> "add_ban", entry |-> [id |-> 0, ipid |-> s, hdid |-> "none", ip |-> TRUE, time |-> now,
                dur |-> IF a = "PERMA_BAN" THEN Permanent ELSE 24]]

RowsOf(s, a) ==
    (IF a = "MUTE" THEN <<Mute(s)>> ELSE <<>>)
    \o <<Event(s, a)>>
    \o (IF a \in {"BAN", "PERMA_BAN"} THEN <<Ban(s, a)>> ELSE <<>>)

Said(s, m) ==
    /\ serving /\ checked < MaxMessages /\ checked' = checked + 1
    /\ ring' = IF backend THEN Inserted(s, m) ELSE ring
    /\ spoken' = IF backend THEN spoken \cup {[who |-> s, vec |-> m.vec, at |-> now]} ELSE spoken
    /\ UNCHANGED <<backend, cmDb, serving, resets>>

Verdict(s, m, a, d, e) ==
    verdict' = [action |-> a, delta |-> d, exempt |-> e, echo |-> Echo(s, m), vec |-> m.vec,
                at |-> now]

\* A message whose delta is below the clean epsilon earns trust.
CheckClean(s, m) ==
    /\ Said(s, m)
    /\ heat_delta_from(Scores(s, m)) < KCleanEpsilon
    /\ heat' = Put(heat, s, [h |-> accrue_trust(s, TrustReward, -MaxTrust), at |-> now])
    /\ Verdict(s, m, "NONE", 0, s \in noheat)
    /\ UNCHANGED <<dbVars, mutes, noheat, cleared, muted>>

\* A speaker under /noheat is scored and nothing else.
CheckExempt(s, m) ==
    /\ Said(s, m) /\ s \in noheat
    /\ heat_delta_from(Scores(s, m)) >= KCleanEpsilon
    /\ Verdict(s, m, "NONE", heat_delta_from(Scores(s, m)), TRUE)
    /\ heat' = IF s \in DOMAIN heat THEN Put(heat, s, [h |-> peek(s), at |-> now]) ELSE heat
    /\ UNCHANGED <<dbVars, mutes, noheat, cleared, muted>>

CheckEnforced(s, m) ==
    LET delta == heat_delta_from(Scores(s, m))
        after == apply(s, delta)
        act == decide(after)
    IN
    /\ Said(s, m) /\ s \notin noheat /\ delta >= KCleanEpsilon
    /\ Len(dbQueue) + Len(RowsOf(s, act)) <= MaxQueue
    /\ heat' = Put(heat, s, [h |-> after, at |-> now])
    /\ Verdict(s, m, act, delta, FALSE)
    /\ mutes' = IF act = "MUTE" THEN Put(mutes, s, now + HeatCfg.mute_duration) ELSE mutes
    /\ muted' = IF act = "MUTE" THEN Put(muted, s, now + HeatCfg.mute_duration) ELSE muted
    /\ dbQueue' = IF cmDb THEN dbQueue \o RowsOf(s, act) ELSE dbQueue
    /\ cleared' = cleared \ {s}
    /\ UNCHANGED <<db, dbState, dbVersion, dbTx, now, noheat>>

is_muted(s) == s \in DOMAIN mutes /\ mutes[s] > now

-----------------------------------------------------------------------------
(* Commands, sweep, reload, restart.                                       *)

reset_state_in_memory(s) ==
    /\ serving /\ resets < MaxResets /\ resets' = resets + 1
    /\ mutes' = Drop(mutes, {s}) /\ heat' = Drop(heat, {s})
    /\ cleared' = cleared \cup {s} /\ muted' = Drop(muted, {s})
    /\ UNCHANGED <<dbVars, noheat, ring, backend, cmDb, serving, verdict, checked, spoken>>

\* /modheat reset.
reset_state(s) ==
    /\ serving /\ Room /\ resets < MaxResets /\ resets' = resets + 1
    /\ mutes' = Drop(mutes, {s}) /\ heat' = Drop(heat, {s})
    /\ dbQueue' = IF cmDb THEN Append(dbQueue, [op |-> "delete_mutes_by_ipid", ipid |-> s]) ELSE dbQueue
    /\ cleared' = cleared \cup {s} /\ muted' = Drop(muted, {s})
    /\ UNCHANGED <<db, dbState, dbVersion, dbTx, now, noheat, ring, backend, cmDb, serving, verdict, checked, spoken>>

\* /noheat toggles.
set_noheat(s) ==
    /\ serving /\ resets < MaxResets /\ resets' = resets + 1
    /\ noheat' = IF s \in noheat THEN noheat \ {s} ELSE noheat \cup {s}
    /\ UNCHANGED <<dbVars, heat, mutes, ring, backend, cmDb, serving, verdict, checked, cleared, spoken, muted>>

sweep ==
    /\ serving /\ Room
    /\ \/ \E s \in DOMAIN mutes : mutes[s] <= now
       \/ \E s \in DOMAIN heat : heat[s].at # now
       \/ Pruned(ring) # ring
    /\ heat' = SweptHeat /\ ring' = Pruned(ring)
    /\ mutes' = Drop(mutes, {s \in DOMAIN mutes : mutes[s] <= now})
    /\ dbQueue' = IF cmDb THEN Append(dbQueue, [op |-> "prune_expired_mutes"]) ELSE dbQueue
    /\ UNCHANGED <<db, dbState, dbVersion, dbTx, now, noheat, backend, cmDb, serving, verdict, checked,
                   resets, cleared, spoken, muted>>

\* What configure leaves in active_mutes_: what the database still holds, if it
\* is known by then.  Rows come in insertion order and the last one wins.
LoadedMutes(d) ==
    [s \in {m.ipid : m \in active_mutes(d)} |->
        CHOOSE x \in {m.expires : m \in {n \in active_mutes(d) : n.ipid = s}} :
          \A m \in active_mutes(d) : m.ipid = s => m.expires <= x]

configure ==
    /\ IF cmDb THEN db' = Drained /\ dbQueue' = <<>> ELSE UNCHANGED <<db, dbQueue>>
    /\ mutes' = IF cmDb THEN LoadedMutes(db') ELSE [s \in {} |-> 0]

\* /reload while the server runs.
Reconfigure ==
    /\ serving /\ resets < MaxResets /\ resets' = resets + 1
    /\ configure
    /\ UNCHANGED <<dbState, dbVersion, dbTx, now, heat, noheat, ring, backend, cmDb, serving, verdict,
                   checked, cleared, spoken, muted>>

\* main: configure first, set_database afterwards, then the room gets the moderator.
Boot ==
    /\ ~serving /\ dbState = "open"
    /\ configure /\ cmDb' = TRUE /\ serving' = TRUE
    /\ UNCHANGED <<dbState, dbVersion, dbTx, now, heat, noheat, ring, backend, verdict, checked, resets,
                   cleared, spoken, muted>>

\* The model fetch thread sets the backend whenever it is done.
set_embedding_backend ==
    /\ serving /\ ~backend /\ backend' = TRUE
    /\ UNCHANGED <<dbVars, heat, mutes, noheat, ring, cmDb, serving, verdict, checked, resets, cleared, spoken, muted>>

Forgotten ==
    /\ heat' = [s \in {} |-> 0] /\ mutes' = [s \in {} |-> 0] /\ noheat' = {} /\ ring' = <<>>
    /\ backend' = FALSE /\ cmDb' = FALSE /\ serving' = FALSE /\ verdict' = NoVerdict /\ spoken' = {}

ModCrash ==
    /\ serving /\ resets < MaxResets /\ resets' = resets + 1
    /\ DbCrash /\ Forgotten
    \* A mute or a reset whose task died with the queue is not owed any more.
    /\ muted' = Drop(muted, {s \in DOMAIN muted : [ipid |-> s, expires |-> muted[s]] \notin db.mutes})
    /\ cleared' = {s \in cleared : \A m \in db.mutes : m.ipid # s}
    /\ UNCHANGED checked

ModShutdown ==
    /\ serving /\ resets < MaxResets /\ resets' = resets + 1
    /\ close /\ Forgotten
    /\ UNCHANGED <<checked, cleared, muted>>

ModOpen == ~serving /\ (open \/ Migration) /\ UNCHANGED modVars

ModWorker == worker_loop /\ UNCHANGED modVars

ModTick ==
    /\ now < MaxTime /\ now' = now + 1
    /\ spoken' = {x \in spoken : x.at >= now' - Window}
    /\ UNCHANGED <<db, dbQueue, dbState, dbVersion, dbTx, heat, mutes, noheat, ring, backend, cmDb,
                   serving, verdict, checked, resets, cleared, muted>>

ModNext ==
    \/ ModOpen \/ Boot \/ ModWorker \/ ModTick \/ sweep \/ Reconfigure
    \/ set_embedding_backend \/ ModCrash \/ ModShutdown
    \/ \E s \in Speakers :
         \/ reset_state(s) \/ set_noheat(s)
         \/ \E m \in Messages : CheckClean(s, m) \/ CheckExempt(s, m) \/ CheckEnforced(s, m)

ModSpec == DbInit /\ ModInit /\ [][ModNext]_<<dbVars, modVars>>

-----------------------------------------------------------------------------
\* Trust never shields: whatever credit a speaker has earned, an enforced message
\* gets at least the action it would get from a stranger (a clean one, whose delta is below
\* the epsilon, is not enforced).  (The comment in
\* ModerationHeat::apply: never the decision to enforce.)
TrustNeverShields ==
    verdict.exempt \/ verdict.delta < KCleanEpsilon \/ Rank(verdict.action) >= Rank(decide(verdict.delta))

\* Once the worker has caught up, every mute in memory that still runs is on
\* disk with the same expiry, so that a reload cannot shorten or free it.
MutesBacked ==
    serving => \A s \in DOMAIN mutes :
        mutes[s] > now => [ipid |-> s, expires |-> mutes[s]] \in Drained.mutes

\* A speaker a moderator has reset is not muted again by anything but a new
\* offence: not by a task still queued, not by a reload.
ResetSticks == \A s \in cleared : ~is_muted(s) /\ \A m \in active_mutes(Drained) : m.ipid # s

\* The log accounts for every content ban, whenever the process dies: the event
\* of a ban is on disk before its row.
BanHasEvent ==
    \A i \in DOMAIN db.bans :
       Cardinality({k \in DOMAIN db.events : db.events[k].ipid = db.bans[i].ipid /\ db.events[k].action \in {"BAN", "PERMA_BAN"}})
         >= Cardinality({k \in DOMAIN db.bans : db.bans[k].ipid = db.bans[i].ipid})

\* The echo axis fires only on a crowd: enough different speakers said the same
\* thing within the window, whatever the ring has dropped.
EchoNeedsCrowd ==
    (verdict.echo /\ verdict.at = now) =>
       Cardinality({x.who : x \in {y \in spoken : y.vec = verdict.vec}})
         >= ClusterThreshold

\* What the comment in configure promises: "load active mutes so server restarts
\* don't free muted users".
MutesSurviveRestart == serving => \A s \in DOMAIN muted : muted[s] > now => is_muted(s)

\* Mutes in memory, on disk and in the queue agree, also after a moderator's reset (apply_decision, reset_state).
MutesKept == MutesBacked /\ ResetSticks

\* A verdict is what the offence earned and is on record: trust never softens it, only a crowd is an echo, and no ban
\* is without its event (ModerationHeat::apply, the echo axis, the writes of a decision).
VerdictsEarned == TrustNeverShields /\ EchoNeedsCrowd /\ BanHasEvent
=============================================================================
