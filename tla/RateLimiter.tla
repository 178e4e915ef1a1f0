----------------------------- MODULE RateLimiter -----------------------------
(***************************************************************************)
(* RateLimiter: a token bucket per action and key, created full by the     *)
(* first request with the rule of that moment, and evicted when idle.      *)
(* Time is in units in which a rate is a whole number of tokens.           *)
(***************************************************************************)
EXTENDS Integers, Sequences, FiniteSets

CONSTANTS
    Actions, Keys,
    Rules,         \* [rate, burst] a configuration may give an action
    Costs, MaxIdle, MaxMoment, MaxAsked

\* The five idle minutes refill any bucket of the default rules.
ASSUME RateAssumption ==
    /\ \A r \in Rules : r.rate \in Nat /\ r.burst \in Nat /\ r.rate * MaxIdle >= r.burst
    /\ Costs \subseteq Nat /\ MaxIdle \in Nat

VARIABLES
    moment,
    rules,         \* shards_: the rule of each configured action
    buckets,       \* [action, key] -> [rate, max_tokens, tokens, last_refill]
    granted,       \* history: [action, key, at, before] in order; before is what spent was then
    spent,         \* history: <<action, key>> -> tokens granted so far
    asked

rlVars == <<moment, rules, buckets, granted, spent, asked>>

RlInit ==
    /\ moment = 1 /\ rules = [x \in {} |-> 0] /\ buckets = [x \in {} |-> 0] /\ asked = 0
    /\ granted = <<>> /\ spent = [x \in Actions \X Keys |-> 0]

\* At start and on reload; buckets already there keep their rule.
rl_configure(a, r) ==
    /\ ~(a \in DOMAIN rules /\ rules[a] = r)
    /\ rules' = [x \in DOMAIN rules \cup {a} |-> IF x = a THEN r ELSE rules[x]]
    /\ UNCHANGED <<moment, buckets, granted, spent, asked>>

NewBucket(a) == [rate |-> rules[a].rate, max_tokens |-> rules[a].burst, tokens |-> rules[a].burst, last_refill |-> moment]

Refilled_uncapped(b) == [b EXCEPT !.tokens = @ + (moment - b.last_refill) * b.rate, !.last_refill = moment]

Refilled(b) ==
    LET t == b.tokens + (moment - b.last_refill) * b.rate IN
    [b EXCEPT !.tokens = IF t > b.max_tokens THEN b.max_tokens ELSE t, !.last_refill = moment]

allow(a, k, cost) ==
    /\ asked < MaxAsked /\ asked' = asked + 1
    /\ IF a \notin DOMAIN rules THEN UNCHANGED <<buckets, granted, spent>>
       ELSE LET b == Refilled(IF <<a, k>> \in DOMAIN buckets THEN buckets[<<a, k>>] ELSE NewBucket(a))
                ok == b.tokens >= cost
                left == IF ok THEN [b EXCEPT !.tokens = @ - cost] ELSE b
            IN  /\ buckets' = [x \in DOMAIN buckets \cup {<<a, k>>} |-> IF x = <<a, k>> THEN left ELSE buckets[x]]
                /\ granted' = IF ok THEN Append(granted, [action |-> a, key |-> k, at |-> moment, before |-> spent[<<a, k>>]])
                                    ELSE granted
                /\ spent' = IF ok THEN [spent EXCEPT ![<<a, k>>] = @ + cost] ELSE spent
    /\ UNCHANGED <<moment, rules>>

rl_sweep ==
    /\ buckets' = [x \in {y \in DOMAIN buckets : moment - buckets[y].last_refill <= MaxIdle} |-> buckets[x]]
    /\ UNCHANGED <<moment, rules, granted, spent, asked>>

RlTick == moment < MaxMoment /\ moment' = moment + 1 /\ UNCHANGED <<rules, buckets, granted, spent, asked>>

RlNext ==
    \/ \E a \in Actions : \/ \E r \in Rules : rl_configure(a, r)
                          \/ \E k \in Keys, c \in Costs : allow(a, k, c)
    \/ rl_sweep \/ RlTick

RlSpec == RlInit /\ [][RlNext]_rlVars

-----------------------------------------------------------------------------
\* What a key was granted from one grant on, that one included.
SpentSince(g) == spent[<<g.action, g.key>>] - g.before

\* What a key is granted from one grant on stays within a burst and the rate of
\* the most generous rule there has been, through evictions and reloads.
RateBound ==
    \A i \in DOMAIN granted :
       \E r \in Rules : SpentSince(granted[i]) <= r.burst + r.rate * (moment - granted[i].at)
=============================================================================
