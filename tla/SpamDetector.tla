---------------------------- MODULE SpamDetector ----------------------------
(***************************************************************************)
(* SpamDetector: several hosts saying the same thing, or saying it right   *)
(* after joining, are banned together; bursts of connections and shared    *)
(* hardware ids are only reported.  Calls come from the handlers under the *)
(* dispatch lock, the sweep from the poll thread.  H5 and H6 are left out: *)
(* no handler knows a user name or reports a ghost connection.             *)
(***************************************************************************)
EXTENDS Integers, Sequences, SequencesExt, FiniteSets

CONSTANTS
    Chatters, Hwids,
    Lines,                \* what may be said: [words, style], style being case and spacing
    EchoThreshold, EchoWindow, JoinMax, BurstThreshold, BurstWindow, HwidThreshold,
    JoinKept, HwidKept,   \* how long the sweep keeps join times and hardware ids
    MaxInstant, MaxSaid, MaxBurst

ASSUME SpamAssumption == EchoThreshold \in Nat /\ EchoWindow \in Nat

VARIABLES
    instant,
    clusters,      \* fingerprint_clusters_
    joins,         \* join_times_
    burst,         \* connection_times_
    hwids,         \* hwid_map_
    ipid_to_ip,    \* the ipids whose address is known
    sdBans,        \* ipids the callback has banned
    abuse,         \* reports made to the ASN reputation: their heuristics
    said,          \* history: [who, words, at]
    alerts         \* history: [kind, words, at, who]

sdVars == <<instant, clusters, joins, burst, hwids, ipid_to_ip, sdBans, abuse, said, alerts>>

SPut(f, k, v) == [x \in DOMAIN f \cup {k} |-> IF x = k THEN v ELSE f[x]]
Nothing == [x \in {} |-> 0]

SdInit ==
    /\ instant = 1 /\ clusters = Nothing /\ joins = Nothing /\ burst = <<>> /\ hwids = Nothing
    /\ ipid_to_ip = {} /\ sdBans = {} /\ abuse = <<>> /\ said = {} /\ alerts = {}

\* Lower case, white space collapsed and trimmed: the words are what is left.
fingerprint(m) == m.words

\* main's callback: every heuristic is reported, two of them also ban.
Callback(kind, participants) ==
    /\ abuse' = IF kind = "none" THEN abuse ELSE Append(abuse, kind)
    /\ sdBans' = IF kind \in {"echo", "join_spam"} THEN sdBans \cup participants ELSE sdBans

Updated(c, h) ==
    IF c \in DOMAIN clusters
      THEN [clusters[c] EXCEPT !.ipids = @ \cup {h}, !.last = instant]
      ELSE [ipids |-> {h}, first |-> instant, last |-> instant, alerted |-> FALSE]

in_window_from_last(c) == instant - c.last <= EchoWindow

in_window(c) == instant - c.first <= EchoWindow

is_echo(c) == in_window(c) /\ Cardinality(c.ipids) >= EchoThreshold /\ ~c.alerted

JoinedFast(h, at) == h \in DOMAIN joins /\ at - joins[h] < JoinMax

fast_joiners(c) == {h \in c.ipids : JoinedFast(h, c.last)}

is_join_spam(h, c) ==
    JoinedFast(h, instant) /\ Cardinality(fast_joiners(c)) >= EchoThreshold /\ ~c.alerted

\* Both heuristics ban the whole cluster, as far as its addresses are known; a
\* banned host that is still connected goes on talking.
check_message(h, m) ==
    LET c == Updated(fingerprint(m), h)
        kind == IF is_echo(c) THEN "echo" ELSE IF is_join_spam(h, c) THEN "join_spam" ELSE "none"
        participants == c.ipids \cap (ipid_to_ip \cup {h})
    IN  /\ Cardinality(said) < MaxSaid
        /\ ipid_to_ip' = ipid_to_ip \cup {h}
        /\ clusters' = SPut(clusters, fingerprint(m), [c EXCEPT !.alerted = @ \/ kind # "none"])
        /\ Callback(kind, participants)
        /\ said' = said \cup {[who |-> h, words |-> m.words, at |-> instant]}
        /\ alerts' = IF kind = "none" THEN alerts
                     ELSE alerts \cup {[kind |-> kind, words |-> m.words, at |-> instant, who |-> participants]}
        /\ UNCHANGED <<instant, joins, burst, hwids>>

Recent(times) == SelectSeq(times, LAMBDA t : t >= instant - BurstWindow)

\* on_connection and record_join_time, at the end of the HI handler: a burst is
\* reported, or else a hardware id seen from many hosts, once.
on_connection(h, hwid) ==
    LET times == Recent(Append(burst, instant))
        old == IF hwid \in DOMAIN hwids THEN hwids[hwid] ELSE [ipids |-> {}, last |-> 0, alerted |-> FALSE]
        hr == [old EXCEPT !.ipids = @ \cup {h}, !.last = instant]
        reuse == Cardinality(hr.ipids) >= HwidThreshold /\ ~hr.alerted
        kind == IF Len(times) >= BurstThreshold THEN "burst" ELSE IF reuse THEN "hwid_reuse" ELSE "none"
    IN  /\ Len(burst) < MaxBurst /\ Len(abuse) < MaxSaid /\ h \notin sdBans
        /\ ipid_to_ip' = ipid_to_ip \cup {h} /\ burst' = times
        /\ hwids' = SPut(hwids, hwid, [hr EXCEPT !.alerted = @ \/ reuse])
        /\ joins' = SPut(joins, h, instant)
        /\ Callback(kind, {})
        /\ UNCHANGED <<instant, clusters, said, alerts>>

sd_sweep ==
    LET live == Restrict(clusters, {w \in DOMAIN clusters : clusters[w].last >= instant - EchoWindow}) IN
    /\ clusters' = live
    /\ burst' = Recent(burst)
    /\ joins' = Restrict(joins, {h \in DOMAIN joins : joins[h] >= instant - JoinKept})
    /\ hwids' = Restrict(hwids, {x \in DOMAIN hwids : hwids[x].last >= instant - HwidKept})
    /\ ipid_to_ip' = ipid_to_ip \cap UNION {live[c].ipids : c \in DOMAIN live}
    /\ UNCHANGED <<instant, sdBans, abuse, said, alerts>>

SdTick ==
    /\ instant < MaxInstant /\ instant' = instant + 1
    /\ UNCHANGED <<clusters, joins, burst, hwids, ipid_to_ip, sdBans, abuse, said, alerts>>

SdNext ==
    \/ \E h \in Chatters : \/ \E m \in Lines : check_message(h, m)
                           \/ \E x \in Hwids : on_connection(h, x)
    \/ sd_sweep \/ SdTick

SdSpec == SdInit /\ [][SdNext]_sdVars

-----------------------------------------------------------------------------
\* Nobody is banned for an echo unless EchoThreshold hosts said the same within
\* the window that ends with the alert, each banned host among them.
EchoEarned ==
    \A a \in alerts : a.kind = "echo" =>
       LET heard == {s \in said : s.words = a.words /\ s.at >= a.at - EchoWindow /\ s.at <= a.at} IN
       /\ Cardinality({s.who : s \in heard}) >= EchoThreshold
       /\ a.who \subseteq {s.who : s \in heard}

\* One outbreak is one alert: two about the same words lie more than a window apart.
AlertsApart ==
    \A a, b \in alerts : (a # b /\ a.words = b.words) => (a.at - b.at > EchoWindow \/ b.at - a.at > EchoWindow)

\* Echo bans are earned, and one outbreak is one alert (check_echo, sweep).
SpamAlertsEarned == EchoEarned /\ AlertsApart
=============================================================================
