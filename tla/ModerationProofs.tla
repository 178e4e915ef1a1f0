-------------------------- MODULE ModerationProofs --------------------------
(***************************************************************************)
(* The moderation services whose state outlives a call, for every number   *)
(* of hosts, keys, rules, restarts and retries: the caches the text layers *)
(* start from, the rate limiter's buckets, the spam detector's bans, and   *)
(* the reputation of addresses and networks.                               *)
(***************************************************************************)
EXTENDS LayerBoot, RateLimiter, SpamDetector, Reputation, DataLemmas

-----------------------------------------------------------------------------
(* The caches.  A list known to be whole is in its file, so that a failed  *)
(* fetch finds it; this is the strengthening ListsSurviveOutage needs.     *)
Files == {"absent", "partial", "whole"}

LbTypeOK ==
    /\ modelFile \in Files /\ listFile \in [Lists -> Files]
    /\ embedPc \in {"model", "download", "load", "anchors", "inert", "done"}
    /\ slurPc \in {"slurs", "exceptions", "done"} /\ loaded \subseteq Lists

WholeIsThere == \A l \in Lists : l \in whole => listFile[l] # "absent"

BootInv == LbTypeOK /\ WholeIsThere /\ CachesHold

\* The fetches of the model and its loading leave the lists alone.
LEMMA ModelKeeps ==
    ASSUME BootInv, CacheHit \/ BeginDownload \/ Redirected \/ Downloaded \/ DownloadFailed \/ \E b \in BOOLEAN : LoadBackend(b)
    PROVE  BootInv'
<1> USE DEF BootInv, LbTypeOK, WholeIsThere, CachesHold, NoHalfModel, ListsSurviveOutage, Lists, Files
<1>1. CASE CacheHit
  BY <1>1 DEF CacheHit
<1>2. CASE BeginDownload
  BY <1>2 DEF BeginDownload
<1>3. CASE Redirected
  BY <1>3 DEF Redirected
<1>4. CASE Downloaded
  BY <1>4 DEF Downloaded
<1>5. CASE DownloadFailed
  BY <1>5 DEF DownloadFailed
<1>6. CASE \E b \in BOOLEAN : LoadBackend(b)
  <2>1. UNCHANGED <<modelFile, listFile, slurPc, loaded, torn, whole>> /\ embedPc = "load" /\ embedPc' \in {"anchors", "inert"}
    BY <1>6 DEF LoadBackend
  <2> QED
    BY <2>1
<1> QED
  BY <1>1, <1>2, <1>3, <1>4, <1>5, <1>6

\* A list that is fetched, or found in its file when the fetch fails, is installed before its thread goes on.
LEMMA ListKeeps ==
    ASSUME BootInv, NEW l \in Lists, NEW t, t = IF l = "anchors" THEN "embed" ELSE "slur",
           (\E b \in BOOLEAN : ListFetched(t, l, b)) \/ ListFailed(t, l)
    PROVE  BootInv'
<1>1. ASSUME NEW b \in BOOLEAN, ListFetched(t, l, b) PROVE BootInv'
  <2>1. /\ UNCHANGED modelFile /\ loaded' = loaded \cup {l}
        /\ IF l = "anchors" THEN embedPc = l /\ embedPc' = "done" /\ slurPc' = slurPc
                            ELSE slurPc = l /\ slurPc' = NextList(l) /\ embedPc' = embedPc
    BY <1>1 DEF ListFetched, Thread, Advance, NextList, Lists
  <2>2. \/ UNCHANGED <<listFile, whole, torn>>
        \/ listFile' = [listFile EXCEPT ![l] = "whole"] /\ whole' = whole \cup {l} /\ torn' = torn \ {l}
    BY <1>1 DEF ListFetched
  <2> QED
    BY <2>1, <2>2 DEF BootInv, LbTypeOK, WholeIsThere, CachesHold, NoHalfModel, ListsSurviveOutage, Lists, Files, NextList
<1>2. ASSUME ListFailed(t, l) PROVE BootInv'
  <2>1. UNCHANGED <<modelFile, listFile, torn, whole>>
    BY <1>2 DEF ListFailed
  <2>2. \/ UNCHANGED <<loaded, embedPc, slurPc>>
        \/ /\ IF listFile[l] # "absent" THEN loaded' = loaded \cup {l} ELSE loaded' = loaded
           /\ IF l = "anchors" THEN embedPc = l /\ embedPc' = "done" /\ slurPc' = slurPc
                               ELSE slurPc = l /\ slurPc' = NextList(l) /\ embedPc' = embedPc
    BY <1>2 DEF ListFailed, Thread, Advance, NextList, Lists
  <2> QED
    BY <2>1, <2>2 DEF BootInv, LbTypeOK, WholeIsThere, CachesHold, NoHalfModel, ListsSurviveOutage, Lists, Files, NextList
<1> QED
  BY <1>1, <1>2

\* A crash may tear what was being written; what it tore no longer counts as whole.
LEMMA RestartKeeps ==
    ASSUME BootInv, NEW T \in SUBSET Lists, LbRestart(T)
    PROVE  BootInv'
BY DEF LbRestart, BootInv, LbTypeOK, WholeIsThere, CachesHold, NoHalfModel, ListsSurviveOutage, Lists, Files

\* Whatever fails and whenever the process dies, half a model is never taken for the model and a list once cached arms
\* its layer at every later start (resolve_hf_model, download_with_redirects, fetch_text_list).
THEOREM CachesAlwaysHold == LbSpec => []CachesHold
<1>1. LbInit => BootInv
  BY DEF LbInit, BootInv, LbTypeOK, WholeIsThere, CachesHold, NoHalfModel, ListsSurviveOutage, Lists, Files
<1>2. ASSUME BootInv, [LbNext]_lbVars PROVE BootInv'
  <2>1. CASE UNCHANGED lbVars
    BY <1>2, <2>1 DEF lbVars, BootInv, LbTypeOK, WholeIsThere, CachesHold, NoHalfModel, ListsSurviveOutage
  <2>2. CASE LbNext
    BY <1>2, <2>2, ModelKeeps, ListKeeps, RestartKeeps DEF LbNext
  <2> QED
    BY <1>2, <2>1, <2>2
<1>3. BootInv => CachesHold
  BY DEF BootInv
<1> QED
  BY <1>1, <1>2, <1>3, PTL DEF LbSpec

-----------------------------------------------------------------------------
(* The rate limiter.  For each grant, what its key spent since is weighed  *)
(* with the tokens left: under a rule at least as fast as the bucket's     *)
(* they fit into a burst and the time up to the last refill.  An evicted   *)
(* bucket was idle long enough for its rule to make up for a new burst.    *)
Grants == [action : Actions, key : Keys, at : Nat, before : Nat]

\* A bucket has the rate and the burst of a rule, however old.
BucketOk(b) ==
    /\ b \in [rate : Nat, max_tokens : Nat, tokens : Nat, last_refill : Nat] /\ b.last_refill <= moment
    /\ b.tokens <= b.max_tokens /\ \E q \in Rules : b.rate = q.rate /\ b.max_tokens = q.burst

RlTypeOK ==
    /\ moment \in Nat
    /\ DOMAIN rules \subseteq Actions /\ \A a \in DOMAIN rules : rules[a] \in Rules
    /\ buckets = [x \in DOMAIN buckets |-> buckets[x]] /\ \A x \in DOMAIN buckets : BucketOk(buckets[x])
    /\ granted \in Seq(Grants) /\ spent \in [Actions \X Keys -> Nat]

\* n tokens spent since the moment at, with those in bucket b; the bucket gone since before moment m - MaxIdle.
Covered(n, at, b) ==
    at <= b.last_refill /\ \E r \in Rules : r.rate >= b.rate /\ n + b.tokens <= r.burst + r.rate * (b.last_refill - at)
Rested(n, at, m) ==
    at <= m - MaxIdle /\ \E r \in Rules : n <= r.burst + r.rate * (m - MaxIdle - at)

GrantOk(g) ==
    LET x == <<g.action, g.key>> IN
    /\ g.before <= spent[x]
    /\ IF x \in DOMAIN buckets THEN Covered(SpentSince(g), g.at, buckets[x]) ELSE Rested(SpentSince(g), g.at, moment)

GrantsInv == \A i \in DOMAIN granted : GrantOk(granted[i])

RateInv == RlTypeOK /\ GrantsInv

\* Products of rates and times.
LEMMA RateTimes ==
    ASSUME NEW p \in Nat, NEW q \in Nat, NEW x \in Nat, NEW y \in Nat
    PROVE  /\ p * (x + y) = p * x + p * y /\ p * x \in Nat
           /\ p <= q => p * x <= q * x
<1>1. p * (x + y) = p * x + p * y
  OBVIOUS
<1>2. p * x \in Nat
  OBVIOUS
<1>3. ASSUME p <= q PROVE p * x <= q * x
  <2>1. PICK d \in Nat : q = p + d
    <3>1. q - p \in Nat /\ q = p + (q - p)
      BY <1>3
    <3> QED
      BY <3>1
  <2>2. q * x = p * x + d * x /\ d * x \in Nat /\ p * x \in Nat
    BY <2>1
  <2> QED
    BY <2>2
<1> QED
  BY <1>1, <1>2, <1>3

LEMMA RuleFields ==
    /\ \A r \in Rules : r.rate \in Nat /\ r.burst \in Nat /\ r.rate * MaxIdle >= r.burst
    /\ Costs \subseteq Nat /\ MaxIdle \in Nat
BY RateAssumption

\* A refill adds at most what the covering rule earns in the same time.
LEMMA RefillCovers ==
    ASSUME moment \in Nat, NEW b, BucketOk(b)
    PROVE  /\ BucketOk(Refilled(b)) /\ Refilled(b).last_refill = moment
           /\ \A n \in Nat, at \in Nat : Covered(n, at, b) => Covered(n, at, Refilled(b))
<1>1. PICK rate \in Nat, top \in Nat, have \in Nat, last \in Nat, q \in Rules :
          /\ b = [rate |-> rate, max_tokens |-> top, tokens |-> have, last_refill |-> last]
          /\ last <= moment /\ have <= top /\ rate = q.rate /\ top = q.burst
  BY DEF BucketOk
<1>2. PICK d \in Nat : moment = last + d /\ moment - last = d
  <2>1. moment - last \in Nat /\ moment = last + (moment - last)
    BY <1>1
  <2> QED
    BY <2>1
<1>3. PICK e \in Nat : e = d * rate /\ e = rate * d
  BY RateTimes
<1>4. PICK now \in Nat : now = IF have + e > top THEN top ELSE have + e
  OBVIOUS
<1>5. now <= have + e /\ now <= top
  BY <1>1, <1>4
<1>6. /\ Refilled(b) \in [rate : Nat, max_tokens : Nat, tokens : Nat, last_refill : Nat] /\ Refilled(b).rate = rate
      /\ Refilled(b).max_tokens = top /\ Refilled(b).tokens = now /\ Refilled(b).last_refill = moment
  <2>1. Refilled(b) = [b EXCEPT !.tokens = now, !.last_refill = moment]
    BY <1>1, <1>2, <1>3, <1>4 DEF Refilled
  <2> QED
    BY <1>1, <2>1
<1>7. BucketOk(Refilled(b))
  BY <1>1, <1>5, <1>6 DEF BucketOk
<1>8. ASSUME NEW n \in Nat, NEW at \in Nat, Covered(n, at, b) PROVE Covered(n, at, Refilled(b))
  <2>1. PICK r \in Rules : r.rate >= rate /\ n + have <= r.burst + r.rate * (last - at) /\ at <= last
    BY <1>1, <1>8 DEF Covered
  <2>2. PICK x \in Nat : last = at + x /\ last - at = x
    <3>1. last - at \in Nat /\ last = at + (last - at)
      BY <2>1
    <3> QED
      BY <3>1
  <2>3. moment - at = x + d /\ at <= moment
    BY <1>2, <2>2
  <2>4. r.rate \in Nat /\ r.burst \in Nat
    BY RuleFields
  <2>5. r.rate * (x + d) = r.rate * x + r.rate * d /\ rate * d <= r.rate * d /\ r.rate * x \in Nat /\ r.rate * d \in Nat
    BY <2>1, <2>4, RateTimes
  <2>6. n + now <= r.burst + r.rate * (moment - at)
    <3>1. PICK rx \in Nat, rd \in Nat : rx = r.rate * x /\ rd = r.rate * d
      BY <2>5
    <3>2. n + have <= r.burst + rx /\ e <= rd /\ r.rate * (moment - at) = rx + rd
      BY <1>3, <2>1, <2>2, <2>3, <2>5, <3>1
    <3>3. n + now <= r.burst + (rx + rd)
      BY <1>5, <2>4, <3>2
    <3> QED
      BY <3>2, <3>3
  <2> QED
    BY <1>6, <2>1, <2>3, <2>6 DEF Covered
<1> QED
  BY <1>6, <1>7, <1>8

\* Tokens spent are tokens gone.
LEMMA SpendCovers ==
    ASSUME NEW n \in Nat, NEW at \in Nat, NEW b, BucketOk(b), NEW cost \in Nat, b.tokens >= cost
    PROVE  /\ BucketOk([b EXCEPT !.tokens = @ - cost])
           /\ Covered(n, at, b) => Covered(n + cost, at, [b EXCEPT !.tokens = @ - cost])
           /\ (at = b.last_refill) => Covered(cost, at, [b EXCEPT !.tokens = @ - cost])
<1>1. PICK rate \in Nat, top \in Nat, have \in Nat, last \in Nat, q \in Rules :
          /\ b = [rate |-> rate, max_tokens |-> top, tokens |-> have, last_refill |-> last]
          /\ last <= moment /\ have <= top /\ rate = q.rate /\ top = q.burst
  BY DEF BucketOk
<1>2. PICK left \in Nat : left = have - cost /\ left + cost = have /\ left <= top
  <2>1. have - cost \in Nat /\ (have - cost) + cost = have /\ have - cost <= top
    BY <1>1
  <2> QED
    BY <2>1
<1>3. PICK c : /\ c = [b EXCEPT !.tokens = @ - cost] /\ c \in [rate : Nat, max_tokens : Nat, tokens : Nat, last_refill : Nat]
               /\ c.rate = rate /\ c.max_tokens = top /\ c.tokens = left /\ c.last_refill = last
  <2>1. PICK c : c = [b EXCEPT !.tokens = @ - cost]
    OBVIOUS
  <2>2. c = [b EXCEPT !.tokens = left]
    BY <1>1, <1>2, <2>1
  <2>3. c \in [rate : Nat, max_tokens : Nat, tokens : Nat, last_refill : Nat]
    BY <1>1, <2>2
  <2>4. c.rate = rate /\ c.max_tokens = top /\ c.tokens = left /\ c.last_refill = last
    BY <1>1, <2>2
  <2> QED
    BY <2>1, <2>3, <2>4
<1>4. BucketOk(c)
  BY <1>1, <1>2, <1>3 DEF BucketOk
<1>5. ASSUME Covered(n, at, b) PROVE Covered(n + cost, at, c)
  <2>1. n + have = (n + cost) + left
    BY <1>2
  <2> QED
    BY <1>1, <1>3, <1>5, <2>1 DEF Covered
<1>6. ASSUME at = b.last_refill PROVE Covered(cost, at, c)
  <2>1. at = last /\ last - at = 0 /\ at <= last
    BY <1>1, <1>6
  <2>2. q.rate \in Nat /\ q.burst \in Nat /\ q.rate * 0 = 0
    BY RuleFields
  <2>3. cost + left <= q.burst + q.rate * (last - at)
    BY <1>1, <1>2, <2>1, <2>2
  <2> QED
    BY <1>1, <1>3, <2>1, <2>2, <2>3 DEF Covered
<1> QED
  BY <1>3, <1>4, <1>5, <1>6

\* A bucket is evicted only after MaxIdle without a request.
LEMMA EvictionRests ==
    ASSUME NEW n \in Nat, NEW at \in Nat, moment \in Nat, NEW b, BucketOk(b), Covered(n, at, b), moment - b.last_refill > MaxIdle
    PROVE  Rested(n, at, moment)
<1>1. PICK last \in Nat, have \in Nat : last = b.last_refill /\ have = b.tokens
  BY DEF BucketOk
<1>2. PICK r \in Rules : at <= last /\ n + have <= r.burst + r.rate * (last - at)
  BY <1>1 DEF Covered
<1>3. r.rate \in Nat /\ r.burst \in Nat /\ MaxIdle \in Nat
  BY RuleFields
<1>4. PICK x \in Nat, y \in Nat : last - at = x /\ moment - MaxIdle - at = x + y /\ at <= moment - MaxIdle
  <2>1. last - at \in Nat /\ moment - MaxIdle - last \in Nat /\ moment - MaxIdle - at = (last - at) + (moment - MaxIdle - last)
    BY <1>1, <1>2, <1>3
  <2>2. at <= moment - MaxIdle
    BY <1>1, <1>2, <1>3
  <2> QED
    BY <2>1, <2>2
<1>5. r.rate * (x + y) = r.rate * x + r.rate * y /\ r.rate * x \in Nat /\ r.rate * y \in Nat
  BY <1>3, RateTimes
<1>6. n <= r.burst + r.rate * (x + y)
  <2>1. PICK rx \in Nat, ry \in Nat : rx = r.rate * x /\ ry = r.rate * y
    BY <1>5
  <2>2. n + have <= r.burst + rx
    BY <1>2, <1>4, <2>1
  <2>3. n <= r.burst + (rx + ry)
    BY <1>3, <2>2
  <2> QED
    BY <1>5, <2>1, <2>3
<1> QED
  BY <1>4, <1>6 DEF Rested

LEMMA RestsLonger ==
    ASSUME NEW n \in Nat, NEW at \in Nat, NEW m \in Nat, Rested(n, at, m)
    PROVE  Rested(n, at, m + 1)
<1>1. PICK r \in Rules : at <= m - MaxIdle /\ n <= r.burst + r.rate * (m - MaxIdle - at)
  BY DEF Rested
<1>2. r.rate \in Nat /\ r.burst \in Nat /\ MaxIdle \in Nat
  BY RuleFields
<1>3. PICK x \in Nat : m - MaxIdle - at = x /\ (m + 1) - MaxIdle - at = x + 1 /\ at <= (m + 1) - MaxIdle
  <2>1. m - MaxIdle - at \in Nat /\ (m + 1) - MaxIdle - at = (m - MaxIdle - at) + 1 /\ at <= (m + 1) - MaxIdle
    BY <1>1, <1>2
  <2> QED
    BY <2>1
<1>4. r.rate * (x + 1) = r.rate * x + r.rate /\ r.rate * x \in Nat
  BY <1>2, RateTimes
<1>5. n <= r.burst + r.rate * (x + 1)
  <2>1. PICK rx \in Nat : rx = r.rate * x
    BY <1>4
  <2>2. n <= r.burst + rx
    BY <1>1, <1>3, <2>1
  <2>3. n <= r.burst + (rx + r.rate)
    BY <1>2, <2>2
  <2> QED
    BY <1>4, <2>1, <2>3
<1> QED
  BY <1>3, <1>5 DEF Rested

\* A new bucket's burst: the faster of the old and the new rule covers both.
LEMMA FreshCovers ==
    ASSUME NEW n \in Nat, NEW at \in Nat, moment \in Nat, NEW q \in Rules, Rested(n, at, moment),
           NEW b, b = [rate |-> q.rate, max_tokens |-> q.burst, tokens |-> q.burst, last_refill |-> moment]
    PROVE  Covered(n, at, b)
<1>1. PICK r \in Rules : at <= moment - MaxIdle /\ n <= r.burst + r.rate * (moment - MaxIdle - at)
  BY DEF Rested
<1>2. /\ r.rate \in Nat /\ r.burst \in Nat /\ q.rate \in Nat /\ q.burst \in Nat /\ MaxIdle \in Nat
      /\ q.burst <= q.rate * MaxIdle /\ r.burst <= r.rate * MaxIdle
  BY RuleFields
<1>3. PICK x \in Nat : moment - MaxIdle - at = x /\ moment - at = x + MaxIdle /\ at <= moment
  <2>1. moment - MaxIdle - at \in Nat /\ moment - at = (moment - MaxIdle - at) + MaxIdle /\ at <= moment
    BY <1>1, <1>2
  <2> QED
    BY <2>1
<1>4. PICK rx \in Nat, rm \in Nat, qm \in Nat :
          rx = r.rate * x /\ rm = r.rate * MaxIdle /\ qm = q.rate * MaxIdle /\ r.rate * (x + MaxIdle) = rx + rm
  BY <1>2, RateTimes
<1>5. n <= r.burst + rx /\ q.burst <= qm /\ r.burst <= rm
  BY <1>1, <1>2, <1>3, <1>4
<1>6. CASE r.rate >= q.rate
  <2>1. qm <= rm
    BY <1>2, <1>4, <1>6, RateTimes
  <2>2. n + q.burst <= r.burst + (rx + rm)
    BY <1>2, <1>5, <2>1
  <2> QED
    BY <1>3, <1>4, <1>6, <2>2 DEF Covered
<1>7. CASE r.rate < q.rate
  <2>1. r.rate <= q.rate /\ x + MaxIdle \in Nat
    BY <1>2, <1>7
  <2>2. r.rate * (x + MaxIdle) <= q.rate * (x + MaxIdle) /\ q.rate * (x + MaxIdle) \in Nat
    BY <1>2, <2>1, RateTimes
  <2>3. PICK qx \in Nat : qx = q.rate * (x + MaxIdle) /\ rx + rm <= qx
    BY <1>4, <2>2
  <2>4. n + q.burst <= q.burst + qx
    BY <1>2, <1>5, <2>3
  <2> QED
    BY <1>2, <1>3, <2>3, <2>4 DEF Covered
<1> QED
  BY <1>2, <1>6, <1>7

LEMMA NewBucketOk ==
    ASSUME RlTypeOK, NEW a \in DOMAIN rules
    PROVE  BucketOk(NewBucket(a))
<1>1. PICK q \in Rules : q = rules[a]
  BY DEF RlTypeOK
<1>2. q.rate \in Nat /\ q.burst \in Nat /\ moment \in Nat
  BY RuleFields DEF RlTypeOK
<1>3. NewBucket(a) = [rate |-> q.rate, max_tokens |-> q.burst, tokens |-> q.burst, last_refill |-> moment]
  BY <1>1 DEF NewBucket
<1> QED
  BY <1>2, <1>3 DEF BucketOk

\* The bucket a request finds, or makes, covers the key's earlier grants.
LEMMA FoundCovers ==
    ASSUME RateInv, NEW a \in DOMAIN rules, NEW k \in Keys, NEW old,
           old = IF <<a, k>> \in DOMAIN buckets THEN buckets[<<a, k>>] ELSE NewBucket(a)
    PROVE  /\ BucketOk(old)
           /\ \A g \in Grants : (GrantOk(g) /\ <<g.action, g.key>> = <<a, k>>) => Covered(SpentSince(g), g.at, old)
<1>1. BucketOk(old)
  BY NewBucketOk DEF RateInv, RlTypeOK
<1>2. ASSUME NEW g \in Grants, GrantOk(g), <<g.action, g.key>> = <<a, k>> PROVE Covered(SpentSince(g), g.at, old)
  <2>1. CASE <<a, k>> \in DOMAIN buckets
    BY <1>2, <2>1 DEF GrantOk
  <2>2. CASE <<a, k>> \notin DOMAIN buckets
    <3>1. Rested(SpentSince(g), g.at, moment)
      BY <1>2, <2>2 DEF GrantOk
    <3>2. PICK q \in Rules : q = rules[a]
      BY DEF RateInv, RlTypeOK
    <3>3. old = [rate |-> q.rate, max_tokens |-> q.burst, tokens |-> q.burst, last_refill |-> moment]
      BY <2>2, <3>2 DEF NewBucket
    <3>4. SpentSince(g) \in Nat /\ g.at \in Nat /\ moment \in Nat
      <4>1. a \in Actions /\ spent[<<a, k>>] \in Nat /\ g.before \in Nat /\ g.before <= spent[<<a, k>>]
        BY <1>2 DEF RateInv, RlTypeOK, GrantOk, Grants
      <4> QED
        BY <1>2, <4>1 DEF RateInv, RlTypeOK, SpentSince, Grants
    <3> QED
      BY <3>1, <3>3, <3>4, FreshCovers
  <2> QED
    BY <2>1, <2>2
<1> QED
  BY <1>1, <1>2

LEMMA GrantFields ==
    ASSUME RlTypeOK, NEW g \in Grants, GrantOk(g)
    PROVE  SpentSince(g) \in Nat /\ g.at \in Nat /\ g.before \in Nat /\ <<g.action, g.key>> \in Actions \X Keys
<1>1. <<g.action, g.key>> \in Actions \X Keys /\ g.before \in Nat /\ g.at \in Nat
  BY DEF Grants
<1>2. spent[<<g.action, g.key>>] \in Nat /\ g.before <= spent[<<g.action, g.key>>]
  BY <1>1 DEF RlTypeOK, GrantOk
<1> QED
  BY <1>1, <1>2 DEF SpentSince

\* What a request leaves: a bucket that covers every earlier grant of the key and, if it was granted, this one too.
LEMMA AllowKeeps ==
    ASSUME RateInv, NEW a \in Actions, NEW k \in Keys, NEW cost \in Costs, allow(a, k, cost)
    PROVE  RateInv'
<1>1. CASE a \notin DOMAIN rules
  <2>1. UNCHANGED <<moment, rules, buckets, granted, spent>>
    BY <1>1 DEF allow
  <2> QED
    BY <2>1 DEF RateInv, RlTypeOK, BucketOk, GrantsInv, GrantOk, SpentSince, Covered, Rested
<1>2. CASE a \in DOMAIN rules
  <2>1. PICK x \in Actions \X Keys : x = <<a, k>>
    OBVIOUS
  <2>2. PICK old : old = IF x \in DOMAIN buckets THEN buckets[x] ELSE NewBucket(a)
    OBVIOUS
  <2>3. PICK b : b = Refilled(old)
    OBVIOUS
  <2>4. PICK ok \in BOOLEAN : ok <=> b.tokens >= cost
    OBVIOUS
  <2>5. PICK left : left = IF ok THEN [b EXCEPT !.tokens = @ - cost] ELSE b
    OBVIOUS
  <2>6. /\ buckets' = [y \in DOMAIN buckets \cup {x} |-> IF y = x THEN left ELSE buckets[y]]
        /\ granted' = IF ok THEN Append(granted, [action |-> a, key |-> k, at |-> moment, before |-> spent[x]]) ELSE granted
        /\ spent' = IF ok THEN [spent EXCEPT ![x] = @ + cost] ELSE spent
        /\ UNCHANGED <<moment, rules>>
    BY <1>2, <2>1, <2>2, <2>3, <2>4, <2>5 DEF allow
  <2>7. moment \in Nat /\ cost \in Nat /\ granted \in Seq(Grants) /\ spent \in [Actions \X Keys -> Nat] /\ RlTypeOK
    BY RuleFields DEF RateInv, RlTypeOK
  <2>8. BucketOk(old)
    BY <1>2, <2>1, <2>2, FoundCovers
  <2>9. BucketOk(b) /\ b.last_refill = moment
    BY <2>3, <2>7, <2>8, RefillCovers
  <2>10. BucketOk(left)
    BY <2>4, <2>5, <2>7, <2>9, SpendCovers
  <2>11. ASSUME NEW g \in Grants, GrantOk(g) PROVE GrantOk(g)'
    <3>1. SpentSince(g) \in Nat /\ g.at \in Nat /\ g.before \in Nat /\ <<g.action, g.key>> \in Actions \X Keys
      BY <2>7, <2>11, GrantFields
    <3>2. PICK y \in Actions \X Keys : y = <<g.action, g.key>>
      BY <3>1
    <3>3. g.before <= spent[y] /\ SpentSince(g) = spent[y] - g.before /\ SpentSince(g)' = spent'[y] - g.before /\ spent[y] \in Nat
      BY <2>7, <2>11, <3>2 DEF GrantOk, SpentSince
    <3>4. CASE y = x
      <4>1. Covered(SpentSince(g), g.at, b)
        BY <1>2, <2>1, <2>2, <2>3, <2>7, <2>8, <2>11, <3>1, <3>2, <3>4, FoundCovers, RefillCovers
      <4>2. x \in DOMAIN buckets' /\ buckets'[x] = left
        BY <2>6
      <4>3. CASE ok
        <5>1. spent'[y] = spent[y] + cost
          BY <2>6, <2>7, <3>4, <4>3
        <5>2. SpentSince(g)' = SpentSince(g) + cost /\ g.before <= spent'[y]
          BY <2>7, <3>1, <3>3, <5>1
        <5>3. Covered(SpentSince(g) + cost, g.at, left)
          BY <2>4, <2>5, <2>7, <2>9, <3>1, <4>1, <4>3, SpendCovers
        <5> QED
          BY <3>2, <3>4, <4>2, <5>2, <5>3 DEF GrantOk, Covered
      <4>4. CASE ~ok
        <5>1. spent' = spent /\ left = b
          BY <2>5, <2>6, <4>4
        <5>2. SpentSince(g)' = SpentSince(g) /\ g.before <= spent'[y]
          BY <3>3, <5>1
        <5> QED
          BY <3>2, <3>4, <4>1, <4>2, <5>1, <5>2 DEF GrantOk, Covered
      <4> QED
        BY <4>3, <4>4
    <3>5. CASE y # x
      <4>1. spent'[y] = spent[y]
        BY <2>6, <2>7, <3>5
      <4>2. SpentSince(g)' = SpentSince(g) /\ g.before <= spent'[y]
        BY <3>3, <4>1
      <4>3. (y \in DOMAIN buckets' <=> y \in DOMAIN buckets) /\ (y \in DOMAIN buckets => buckets'[y] = buckets[y])
        BY <2>6, <3>5
      <4> QED
        BY <2>6, <2>11, <3>2, <4>2, <4>3 DEF GrantOk, Covered, Rested
    <3> QED
      BY <3>4, <3>5
  <2>12. PICK h \in Grants : h = [action |-> a, key |-> k, at |-> moment, before |-> spent[x]]
    BY <2>7 DEF Grants
  <2>13. h.action = a /\ h.key = k /\ h.at = moment /\ h.before = spent[x]
    BY <2>12
  <2>14. ASSUME ok PROVE GrantOk(h)'
    <3>1. spent'[x] = spent[x] + cost /\ spent[x] \in Nat
      BY <2>6, <2>7, <2>14
    <3>2. SpentSince(h)' = cost /\ h.before <= spent'[x]
      <4>1. SpentSince(h)' = spent'[x] - spent[x]
        BY <2>1, <2>13 DEF SpentSince
      <4>2. spent'[x] - spent[x] = cost /\ spent[x] <= spent'[x]
        BY <2>7, <3>1
      <4> QED
        BY <2>13, <4>1, <4>2
    <3>3. Covered(cost, moment, left)
      BY <2>4, <2>5, <2>7, <2>9, <2>14, SpendCovers
    <3>4. x \in DOMAIN buckets' /\ buckets'[x] = left
      BY <2>6
    <3> QED
      BY <2>1, <2>13, <3>2, <3>3, <3>4 DEF GrantOk, Covered
  <2>15. granted' \in Seq(Grants) /\ \A i \in DOMAIN granted' : (i \in DOMAIN granted /\ granted'[i] = granted[i]) \/ (ok /\ granted'[i] = h)
    <3>1. CASE ok
      <4>1. granted' = Append(granted, h)
        BY <2>6, <2>12, <3>1
      <4> QED
        BY <2>7, <3>1, <4>1
    <3>2. CASE ~ok
      BY <2>6, <2>7, <3>2
    <3> QED
      BY <3>1, <3>2
  <2>16. GrantsInv'
    <3> SUFFICES ASSUME NEW i \in DOMAIN granted', NEW g, g = granted'[i] PROVE GrantOk(g)'
      BY DEF GrantsInv
    <3>1. CASE i \in DOMAIN granted /\ g = granted[i]
      <4>1. g \in Grants /\ GrantOk(g)
        BY <2>7, <3>1, SeqIsFunction DEF RateInv, GrantsInv
      <4> QED
        BY <2>11, <4>1
    <3>2. CASE ok /\ g = h
      BY <2>14, <3>2
    <3> QED
      BY <2>15, <3>1, <3>2
  <2>17. RlTypeOK'
    <3>1. spent' \in [Actions \X Keys -> Nat]
      <4>1. spent[x] + cost \in Nat
        BY <2>7
      <4> QED
        BY <2>6, <2>7, <4>1
    <3>2. \A y \in DOMAIN buckets' : BucketOk(buckets'[y])
      BY <2>6, <2>7, <2>10 DEF RlTypeOK
    <3>3. \A y \in DOMAIN buckets' : BucketOk(buckets[y])'
      BY <2>6, <3>2 DEF BucketOk
    <3>4. buckets' = [y \in DOMAIN buckets' |-> buckets'[y]]
      BY <2>6
    <3> QED
      BY <2>6, <2>7, <2>15, <3>1, <3>3, <3>4 DEF RlTypeOK
  <2> QED
    BY <2>16, <2>17 DEF RateInv
<1> QED
  BY <1>1, <1>2

\* Eviction, the passing of time and a new rule.
LEMMA SweepKeeps ==
    ASSUME RateInv, rl_sweep
    PROVE  RateInv'
<1>1. /\ buckets' = [x \in {y \in DOMAIN buckets : moment - buckets[y].last_refill <= MaxIdle} |-> buckets[x]]
      /\ UNCHANGED <<moment, rules, granted, spent>>
  BY DEF rl_sweep
<1>2. RlTypeOK /\ moment \in Nat /\ MaxIdle \in Nat /\ granted \in Seq(Grants)
  BY RuleFields DEF RateInv, RlTypeOK
<1>3. ASSUME NEW g \in Grants, GrantOk(g) PROVE GrantOk(g)'
  <2>1. SpentSince(g) \in Nat /\ g.at \in Nat
    BY <1>2, <1>3, GrantFields
  <2>2. PICK y : y = <<g.action, g.key>>
    OBVIOUS
  <2>3. SpentSince(g)' = SpentSince(g) /\ g.before <= spent'[y]
    BY <1>1, <1>3, <2>2 DEF SpentSince, GrantOk
  <2>4. CASE y \in DOMAIN buckets'
    <3>1. Covered(SpentSince(g), g.at, buckets[y]) /\ buckets'[y] = buckets[y]
      BY <1>1, <1>3, <2>2, <2>4 DEF GrantOk
    <3> QED
      BY <2>2, <2>3, <2>4, <3>1 DEF GrantOk, Covered
  <2>5. CASE y \notin DOMAIN buckets'
    <3>1. CASE y \in DOMAIN buckets
      <4>1. PICK b : b = buckets[y] /\ BucketOk(b) /\ Covered(SpentSince(g), g.at, b)
        BY <1>2, <1>3, <2>2, <3>1 DEF RlTypeOK, GrantOk
      <4>2. PICK last \in Nat : last = b.last_refill
        BY <4>1 DEF BucketOk
      <4>3. ~(moment - last <= MaxIdle)
        BY <1>1, <2>5, <3>1, <4>1, <4>2
      <4>4. moment - b.last_refill > MaxIdle
        BY <1>2, <4>2, <4>3
      <4>5. Rested(SpentSince(g), g.at, moment)
        BY <1>2, <2>1, <4>1, <4>4, EvictionRests
      <4> QED
        BY <1>1, <2>2, <2>3, <2>5, <4>5 DEF GrantOk, Rested
    <3>2. CASE y \notin DOMAIN buckets
      BY <1>1, <1>3, <2>2, <2>3, <2>5, <3>2 DEF GrantOk, Rested
    <3> QED
      BY <3>1, <3>2
  <2> QED
    BY <2>4, <2>5
<1>4. GrantsInv'
  <2> SUFFICES ASSUME NEW i \in DOMAIN granted', NEW g, g = granted'[i] PROVE GrantOk(g)'
    BY DEF GrantsInv
  <2>1. g \in Grants /\ GrantOk(g)
    BY <1>1, <1>2, SeqIsFunction DEF RateInv, GrantsInv
  <2> QED
    BY <1>3, <2>1
<1>5. RlTypeOK'
  BY <1>1, <1>2 DEF RlTypeOK, BucketOk
<1> QED
  BY <1>4, <1>5 DEF RateInv

LEMMA TickKeeps ==
    ASSUME RateInv, RlTick
    PROVE  RateInv'
<1>1. moment' = moment + 1 /\ UNCHANGED <<rules, buckets, granted, spent>>
  BY DEF RlTick
<1>2. RlTypeOK /\ moment \in Nat /\ granted \in Seq(Grants)
  BY DEF RateInv, RlTypeOK
<1>3. ASSUME NEW g \in Grants, GrantOk(g) PROVE GrantOk(g)'
  <2>1. SpentSince(g) \in Nat /\ g.at \in Nat
    BY <1>2, <1>3, GrantFields
  <2>2. Rested(SpentSince(g), g.at, moment) => Rested(SpentSince(g), g.at, moment + 1)
    BY <1>2, <2>1, RestsLonger
  <2> QED
    BY <1>1, <1>3, <2>2 DEF GrantOk, SpentSince, Covered, Rested
<1>4. GrantsInv'
  <2> SUFFICES ASSUME NEW i \in DOMAIN granted', NEW g, g = granted'[i] PROVE GrantOk(g)'
    BY DEF GrantsInv
  <2>1. g \in Grants /\ GrantOk(g)
    BY <1>1, <1>2, SeqIsFunction DEF RateInv, GrantsInv
  <2> QED
    BY <1>3, <2>1
<1>5. RlTypeOK'
  <2>1. ASSUME NEW x \in DOMAIN buckets, BucketOk(buckets[x]) PROVE BucketOk(buckets[x])'
    <3>1. PICK last \in Nat : last = buckets[x].last_refill /\ last <= moment
      BY <2>1 DEF BucketOk
    <3>2. last <= moment + 1
      BY <1>2, <3>1
    <3> QED
      BY <1>1, <2>1, <3>1, <3>2 DEF BucketOk
  <2> QED
    BY <1>1, <1>2, <2>1 DEF RlTypeOK
<1> QED
  BY <1>4, <1>5 DEF RateInv

LEMMA ConfigureKeeps ==
    ASSUME RateInv, NEW a \in Actions, NEW r \in Rules, rl_configure(a, r)
    PROVE  RateInv'
<1>1. /\ rules' = [x \in DOMAIN rules \cup {a} |-> IF x = a THEN r ELSE rules[x]]
      /\ UNCHANGED <<moment, buckets, granted, spent>>
  BY DEF rl_configure
<1>2. DOMAIN rules' \subseteq Actions /\ \A x \in DOMAIN rules' : rules'[x] \in Rules
  BY <1>1 DEF RateInv, RlTypeOK
<1> QED
  BY <1>1, <1>2 DEF RateInv, RlTypeOK, BucketOk, GrantsInv, GrantOk, SpentSince, Covered, Rested

\* What the invariant says of one grant.
LEMMA GrantBounded ==
    ASSUME RlTypeOK, NEW g \in Grants, GrantOk(g)
    PROVE  \E r \in Rules : SpentSince(g) <= r.burst + r.rate * (moment - g.at)
<1>1. SpentSince(g) \in Nat /\ g.at \in Nat /\ moment \in Nat
  BY GrantFields DEF RlTypeOK
<1>2. PICK r \in Rules, x \in Nat, y \in Nat : moment - g.at = x + y /\ SpentSince(g) <= r.burst + r.rate * x
  <2>1. PICK z : z = <<g.action, g.key>>
    OBVIOUS
  <2>2. CASE z \in DOMAIN buckets
    <3>1. PICK b : b = buckets[z] /\ BucketOk(b) /\ Covered(SpentSince(g), g.at, b)
      BY <2>1, <2>2 DEF RlTypeOK, GrantOk
    <3>2. PICK last \in Nat, have \in Nat : last = b.last_refill /\ have = b.tokens /\ last <= moment
      BY <3>1 DEF BucketOk
    <3>3. PICK r \in Rules : g.at <= last /\ SpentSince(g) + have <= r.burst + r.rate * (last - g.at)
      BY <3>1, <3>2 DEF Covered
    <3>4. PICK x \in Nat, y \in Nat : last - g.at = x /\ moment - last = y /\ moment - g.at = x + y
      <4>1. last - g.at \in Nat /\ moment - last \in Nat /\ moment - g.at = (last - g.at) + (moment - last)
        BY <1>1, <3>2, <3>3
      <4> QED
        BY <4>1
    <3>5. PICK rx \in Nat : rx = r.rate * x /\ r.burst \in Nat
      BY RuleFields, RateTimes
    <3>6. SpentSince(g) <= r.burst + rx
      <4>1. SpentSince(g) + have <= r.burst + rx
        BY <3>3, <3>4, <3>5
      <4> QED
        BY <1>1, <3>5, <4>1
    <3> QED
      BY <3>4, <3>5, <3>6
  <2>3. CASE z \notin DOMAIN buckets
    <3>1. PICK r \in Rules : g.at <= moment - MaxIdle /\ SpentSince(g) <= r.burst + r.rate * (moment - MaxIdle - g.at)
      BY <2>1, <2>3 DEF GrantOk, Rested
    <3>2. MaxIdle \in Nat
      BY RuleFields
    <3>3. moment - MaxIdle - g.at \in Nat /\ moment - g.at = (moment - MaxIdle - g.at) + MaxIdle
      BY <1>1, <3>1, <3>2
    <3> QED
      BY <3>1, <3>2, <3>3
  <2> QED
    BY <2>2, <2>3
<1>3. r.rate * (x + y) = r.rate * x + r.rate * y /\ r.rate * x \in Nat /\ r.rate * y \in Nat /\ r.burst \in Nat
  BY RuleFields, RateTimes
<1>4. SpentSince(g) <= r.burst + r.rate * (x + y)
  <2>1. PICK rx \in Nat, ry \in Nat : rx = r.rate * x /\ ry = r.rate * y
    BY <1>3
  <2>2. SpentSince(g) <= r.burst + rx
    BY <1>2, <2>1
  <2>3. SpentSince(g) <= r.burst + (rx + ry)
    BY <1>1, <1>3, <2>2
  <2> QED
    BY <1>3, <2>1, <2>3
<1> QED
  BY <1>2, <1>4

\* No key is granted more than a burst and the rate of one rule allow, from any grant on, for any rules whose idle time
\* refills a bucket, through evictions and reloads (RateLimiter::allow, sweep, configure).
THEOREM RateAlwaysBounded == RlSpec => []RateBound
<1>1. RlInit => RateInv
  <2> SUFFICES ASSUME RlInit PROVE RateInv
    OBVIOUS
  <2>1. RlTypeOK
    BY DEF RlInit, RlTypeOK
  <2>2. GrantsInv
    BY DEF RlInit, GrantsInv
  <2> QED
    BY <2>1, <2>2 DEF RateInv
<1>2. ASSUME RateInv, [RlNext]_rlVars PROVE RateInv'
  <2>1. CASE UNCHANGED rlVars
    <3>1. UNCHANGED <<moment, rules, buckets, granted, spent>>
      BY <2>1 DEF rlVars
    <3> QED
      BY <1>2, <3>1 DEF RateInv, RlTypeOK, BucketOk, GrantsInv, GrantOk, SpentSince, Covered, Rested
  <2>2. CASE RlNext
    BY <1>2, <2>2, AllowKeeps, SweepKeeps, TickKeeps, ConfigureKeeps DEF RlNext
  <2> QED
    BY <1>2, <2>1, <2>2
<1>3. ASSUME RateInv PROVE RateBound
  <2> SUFFICES ASSUME NEW i \in DOMAIN granted PROVE \E r \in Rules : SpentSince(granted[i]) <= r.burst + r.rate * (moment - granted[i].at)
    BY DEF RateBound
  <2>1. granted[i] \in Grants /\ GrantOk(granted[i]) /\ RlTypeOK
    BY <1>3, SeqIsFunction DEF RateInv, GrantsInv, RlTypeOK
  <2> QED
    BY <2>1, GrantBounded
<1> QED
  BY <1>1, <1>2, <1>3, PTL DEF RlSpec

-----------------------------------------------------------------------------
(* The spam detector.  Every member of a cluster said the words between    *)
(* the cluster's first and last moment, which is what makes a ban earned;  *)
(* an alert lies more than a window before the cluster of its words began, *)
(* or that cluster is the one it marked, which is what keeps alerts apart. *)
Clusters == [ipids : SUBSET Chatters, first : Nat, last : Nat, alerted : BOOLEAN]

SdTypeOK ==
    /\ instant \in Nat /\ IsFiniteSet(said) /\ \A s \in said : s.at \in Nat
    /\ \A w \in DOMAIN clusters : clusters[w] \in Clusters
    /\ \A a \in alerts : a.at \in Nat /\ a.at <= instant

\* c is what is known of the words w: who said them, and from when to when.
Witnessed(S, now, w, c) ==
    /\ c.first <= c.last /\ c.last <= now
    /\ \A h \in c.ipids : \E s \in S : s.who = h /\ s.words = w /\ s.at >= c.first /\ s.at <= c.last

Heard(S, a) == {s \in S : s.words = a.words /\ s.at >= a.at - EchoWindow /\ s.at <= a.at}
Earned(S, a) ==
    a.kind = "echo" => /\ Cardinality({s.who : s \in Heard(S, a)}) >= EchoThreshold
                       /\ a.who \subseteq {s.who : s \in Heard(S, a)}

\* The alert lies a window before the cluster c began, or c is marked with it.
Settled(a, c) == c.first - a.at > EchoWindow \/ (c.alerted /\ a.at <= c.last)

ClustersInv == \A w \in DOMAIN clusters : Witnessed(said, instant, w, clusters[w])
EarnedInv == \A a \in alerts : Earned(said, a)
SettledInv ==
    \A a \in alerts : IF a.words \in DOMAIN clusters THEN Settled(a, clusters[a.words]) ELSE instant - a.at > EchoWindow

SpamInv == SdTypeOK /\ ClustersInv /\ EarnedInv /\ SettledInv /\ AlertsApart

LEMMA WindowNat == EchoThreshold \in Nat /\ EchoWindow \in Nat
BY SpamAssumption

LEMMA ClusterFields ==
    ASSUME NEW c \in Clusters
    PROVE  c.ipids \subseteq Chatters /\ c.first \in Nat /\ c.last \in Nat /\ c.alerted \in BOOLEAN
BY DEF Clusters

\* The speakers of a finite set of messages.
LEMMA SpeakersFinite ==
    ASSUME NEW M, IsFiniteSet(M)
    PROVE  IsFiniteSet({s.who : s \in M})
<1> DEFINE f == [s \in M |-> s.who]
<1>1. f \in Surjection(M, {s.who : s \in M})
  BY DEF Surjection
<1> QED
  BY <1>1, FS_Surjection

\* An alert that was earned stays earned when more is said.
LEMMA EarnedStays ==
    ASSUME SdTypeOK, IsFiniteSet(said'), said \subseteq said', NEW a, Earned(said, a)
    PROVE  Earned(said', a)
<1> SUFFICES ASSUME a.kind = "echo"
             PROVE  /\ Cardinality({s.who : s \in Heard(said', a)}) >= EchoThreshold
                    /\ a.who \subseteq {s.who : s \in Heard(said', a)}
  BY DEF Earned
<1>1. PICK A, B : A = {s.who : s \in Heard(said, a)} /\ B = {s.who : s \in Heard(said', a)}
  OBVIOUS
<1>2. Heard(said, a) \subseteq Heard(said', a)
  BY DEF Heard
<1>3. A \subseteq B
  BY <1>1, <1>2
<1>4. IsFiniteSet(B)
  <2>1. IsFiniteSet(Heard(said', a))
    BY FS_Subset DEF Heard
  <2> QED
    BY <1>1, <2>1, SpeakersFinite
<1>5. Cardinality(A) <= Cardinality(B) /\ Cardinality(A) \in Nat /\ Cardinality(B) \in Nat
  BY <1>3, <1>4, FS_Subset, FS_CardinalityType
<1>6. Cardinality(A) >= EchoThreshold /\ a.who \subseteq A
  BY <1>1 DEF Earned
<1>7. Cardinality(B) >= EchoThreshold
  BY <1>5, <1>6, WindowNat
<1> QED
  BY <1>1, <1>3, <1>6, <1>7

\* A cluster that passes the echo test has its witnesses within the window.
LEMMA EchoIsEarned ==
    ASSUME NEW S, IsFiniteSet(S), NEW now \in Nat, \A s \in S : s.at \in Nat, NEW w, NEW c \in Clusters,
           Witnessed(S, now, w, c), now - c.first <= EchoWindow, Cardinality(c.ipids) >= EchoThreshold,
           NEW a, a.words = w, a.at = now, a.who \subseteq c.ipids
    PROVE  Earned(S, a)
<1>1. c.first \in Nat /\ c.last \in Nat /\ EchoWindow \in Nat /\ EchoThreshold \in Nat
  BY ClusterFields, WindowNat
<1>2. PICK B : B = {s.who : s \in Heard(S, a)}
  OBVIOUS
<1>3. ASSUME NEW h \in c.ipids PROVE h \in B
  <2>1. PICK s \in S : s.who = h /\ s.words = w /\ s.at >= c.first /\ s.at <= c.last
    BY <1>3 DEF Witnessed
  <2>2. s.at \in Nat /\ c.last <= now
    BY <2>1 DEF Witnessed
  <2>3. s.at >= now - EchoWindow /\ s.at <= now
    BY <1>1, <2>1, <2>2
  <2>4. s \in Heard(S, a)
    BY <2>1, <2>3 DEF Heard
  <2> QED
    BY <1>2, <2>1, <2>4
<1>4. IsFiniteSet(B)
  <2>1. IsFiniteSet(Heard(S, a))
    BY FS_Subset DEF Heard
  <2> QED
    BY <1>2, <2>1, SpeakersFinite
<1>5. c.ipids \subseteq B
  BY <1>3
<1>6. Cardinality(c.ipids) <= Cardinality(B) /\ Cardinality(c.ipids) \in Nat /\ Cardinality(B) \in Nat
  BY <1>4, <1>5, FS_Subset, FS_CardinalityType
<1>7. Cardinality(B) >= EchoThreshold
  BY <1>1, <1>6
<1> QED
  BY <1>2, <1>5, <1>7 DEF Earned

\* What a message makes of the cluster of its words.
Refreshed(u, w, h) ==
    /\ u \in Clusters /\ u.first <= u.last /\ u.last = instant
    /\ w \in DOMAIN clusters => (u.first = clusters[w].first /\ u.alerted = clusters[w].alerted
                                 /\ u.ipids = clusters[w].ipids \cup {h})
    /\ w \notin DOMAIN clusters => (u.first = instant /\ u.alerted = FALSE /\ u.ipids = {h})

LEMMA UpdatedSuits ==
    ASSUME SpamInv, NEW h \in Chatters, NEW w
    PROVE  Refreshed(Updated(w, h), w, h)
<1> DEFINE u == Updated(w, h)
<1> SUFFICES Refreshed(u, w, h)
  OBVIOUS
<1> HIDE DEF u
<1>1. instant \in Nat
  BY DEF SpamInv, SdTypeOK
<1>2. CASE w \in DOMAIN clusters
  <2>1. PICK c \in Clusters : c = clusters[w] /\ Witnessed(said, instant, w, c)
    BY <1>2 DEF SpamInv, SdTypeOK, ClustersInv
  <2>2. c.ipids \cup {h} \subseteq Chatters /\ c.first \in Nat /\ c.last \in Nat /\ c.first <= instant
    <3>1. c.ipids \subseteq Chatters /\ c.first \in Nat /\ c.last \in Nat
      BY ClusterFields
    <3>2. c.first <= c.last /\ c.last <= instant
      BY <2>1 DEF Witnessed
    <3> QED
      BY <1>1, <3>1, <3>2
  <2>3. PICK I \in SUBSET Chatters : I = c.ipids \cup {h}
    BY <2>2
  <2>4. u = [c EXCEPT !.ipids = I, !.last = instant]
    BY <1>2, <2>1, <2>3 DEF Updated, u
  <2>5. u \in Clusters /\ u.first = c.first /\ u.alerted = c.alerted /\ u.ipids = I /\ u.last = instant
    BY <1>1, <2>4 DEF Clusters
  <2> QED
    BY <1>2, <2>1, <2>2, <2>3, <2>5 DEF Refreshed
<1>3. CASE w \notin DOMAIN clusters
  <2>1. u = [ipids |-> {h}, first |-> instant, last |-> instant, alerted |-> FALSE]
    BY <1>3 DEF Updated, u
  <2>2. u \in Clusters /\ u.ipids = {h} /\ u.first = instant /\ u.last = instant /\ u.alerted = FALSE
    BY <1>1, <2>1 DEF Clusters
  <2> QED
    BY <1>1, <1>3, <2>2 DEF Refreshed
<1> QED
  BY <1>2, <1>3

LEMMA MessageKeeps ==
    ASSUME SpamInv, NEW h \in Chatters, NEW m \in Lines, check_message(h, m)
    PROVE  SpamInv'
<1>1. PICK w, u, e : w = m.words /\ u = Updated(w, h) /\ e = [who |-> h, words |-> w, at |-> instant]
  OBVIOUS
<1>2. PICK kind : kind = IF is_echo(u) THEN "echo" ELSE IF is_join_spam(h, u) THEN "join_spam" ELSE "none"
  OBVIOUS
<1>3. PICK P, v : P = u.ipids \cap (ipid_to_ip \cup {h}) /\ v = [u EXCEPT !.alerted = @ \/ kind # "none"]
  OBVIOUS
<1>4. PICK b : b = [kind |-> kind, words |-> w, at |-> instant, who |-> P]
  OBVIOUS
<1>5. /\ clusters' = [x \in DOMAIN clusters \cup {w} |-> IF x = w THEN v ELSE clusters[x]]
      /\ said' = said \cup {e} /\ UNCHANGED instant
      /\ alerts' = IF kind = "none" THEN alerts ELSE alerts \cup {b}
  BY <1>1, <1>2, <1>3, <1>4 DEF check_message, fingerprint, SPut
<1>6. instant \in Nat /\ SdTypeOK /\ EchoWindow \in Nat
  BY WindowNat DEF SpamInv, SdTypeOK
<1>7. /\ u \in Clusters /\ u.first <= u.last /\ u.last = instant
      /\ w \in DOMAIN clusters => (u.first = clusters[w].first /\ u.alerted = clusters[w].alerted
                                   /\ u.ipids = clusters[w].ipids \cup {h})
      /\ w \notin DOMAIN clusters => (u.first = instant /\ u.alerted = FALSE /\ u.ipids = {h})
  BY <1>1, UpdatedSuits DEF Refreshed
<1>8. e.who = h /\ e.words = w /\ e.at = instant /\ b.kind = kind /\ b.words = w /\ b.at = instant /\ b.who = P
  BY <1>1, <1>4
<1>9. /\ v \in Clusters /\ v.first = u.first /\ v.last = u.last /\ v.ipids = u.ipids
      /\ (v.alerted <=> (u.alerted \/ kind # "none"))
  <2>1. PICK al \in BOOLEAN : al <=> (u.alerted \/ kind # "none")
    OBVIOUS
  <2>2. v = [u EXCEPT !.alerted = al]
    <3>1. al = (u.alerted \/ kind # "none")
      BY <1>7, <2>1, ClusterFields
    <3> QED
      BY <1>3, <3>1
  <2>3. v \in Clusters /\ v.first = u.first /\ v.last = u.last /\ v.ipids = u.ipids /\ v.alerted = al
    BY <1>7, <2>2 DEF Clusters
  <2> QED
    BY <2>1, <2>3
<1>10. IsFiniteSet(said') /\ said \subseteq said' /\ \A s \in said' : s.at \in Nat
  <2>1. IsFiniteSet(said) /\ \A s \in said : s.at \in Nat
    BY <1>6 DEF SdTypeOK
  <2>2. IsFiniteSet(said \cup {e})
    BY <2>1, FS_AddElement
  <2> QED
    BY <1>5, <1>6, <1>8, <2>1, <2>2
<1>11. SdTypeOK'
  <2>1. \A x \in DOMAIN clusters' : clusters'[x] \in Clusters
    BY <1>5, <1>6, <1>9 DEF SdTypeOK
  <2>2. \A a \in alerts' : a.at \in Nat /\ a.at <= instant'
    BY <1>5, <1>6, <1>8 DEF SdTypeOK
  <2> QED
    BY <1>5, <1>6, <1>10, <2>1, <2>2 DEF SdTypeOK
<1>12. Witnessed(said', instant', w, u)
  <2>1. ASSUME NEW g \in u.ipids PROVE \E s \in said' : s.who = g /\ s.words = w /\ s.at >= u.first /\ s.at <= u.last
    <3>1. CASE g = h
      <4>1. e \in said' /\ instant >= u.first /\ instant <= u.last
        <5>1. u.first \in Nat
          BY <1>7, ClusterFields
        <5> QED
          BY <1>5, <1>6, <1>7, <5>1
      <4> QED
        BY <1>8, <3>1, <4>1
    <3>2. CASE g # h
      <4>1. w \in DOMAIN clusters /\ g \in clusters[w].ipids
        BY <1>7, <2>1, <3>2
      <4>2. PICK c \in Clusters : c = clusters[w] /\ Witnessed(said, instant, w, c)
        BY <1>6, <4>1 DEF SpamInv, SdTypeOK, ClustersInv
      <4>3. PICK s \in said : s.who = g /\ s.words = w /\ s.at >= c.first /\ s.at <= c.last /\ c.last <= instant /\ s.at \in Nat
        BY <1>6, <4>1, <4>2 DEF Witnessed, SdTypeOK
      <4>4. s.at <= u.last
        BY <1>6, <1>7, <4>2, <4>3, ClusterFields
      <4> QED
        BY <1>7, <1>10, <4>1, <4>2, <4>3, <4>4
    <3> QED
      BY <3>1, <3>2
  <2>2. u.last <= instant
    BY <1>6, <1>7
  <2> QED
    BY <1>5, <1>7, <2>1, <2>2 DEF Witnessed
<1>13. ClustersInv'
  <2>1. Witnessed(said', instant', w, v)
    BY <1>9, <1>12 DEF Witnessed
  <2>2. ASSUME NEW x \in DOMAIN clusters, x # w PROVE Witnessed(said', instant', x, clusters'[x])
    <3>1. clusters'[x] = clusters[x] /\ Witnessed(said, instant, x, clusters[x])
      BY <1>5, <2>2 DEF SpamInv, ClustersInv
    <3> QED
      BY <1>5, <1>10, <3>1 DEF Witnessed
  <2>3. \A x \in DOMAIN clusters' : (x = w /\ clusters'[x] = v) \/ (x \in DOMAIN clusters /\ x # w)
    BY <1>5
  <2>4. ASSUME NEW x \in DOMAIN clusters' PROVE Witnessed(said', instant', x, clusters'[x])
    BY <2>1, <2>2, <2>3 DEF Witnessed
  <2> QED
    BY <2>4 DEF ClustersInv
<1>14. EarnedInv'
  <2>1. \A a \in alerts : Earned(said', a)
    BY <1>6, <1>10, EarnedStays DEF SpamInv, EarnedInv
  <2>2. ASSUME kind # "none" PROVE Earned(said', b)
    <3>1. CASE kind = "echo"
      <4>1. instant - u.first <= EchoWindow /\ Cardinality(u.ipids) >= EchoThreshold
        BY <1>2, <3>1 DEF is_echo, in_window
      <4>2. b.who \subseteq u.ipids
        BY <1>3, <1>8
      <4>3. \A s \in said' : s.at \in Nat
        BY <1>10
      <4> QED
        BY <1>5, <1>6, <1>7, <1>8, <1>10, <1>12, <4>1, <4>2, EchoIsEarned
    <3>2. CASE kind # "echo"
      BY <1>8, <3>2 DEF Earned
    <3> QED
      BY <3>1, <3>2
  <2>3. \A a \in alerts' : a \in alerts \/ (kind # "none" /\ a = b)
    BY <1>5
  <2>4. ASSUME NEW a \in alerts' PROVE Earned(said', a)
    BY <2>1, <2>2, <2>3 DEF Earned, Heard
  <2> QED
    BY <2>4 DEF EarnedInv
<1>15. ASSUME NEW a \in alerts, a.words = w, ~u.alerted PROVE u.first - a.at > EchoWindow /\ instant - a.at > EchoWindow
  <2>1. a.at \in Nat /\ u.first \in Nat /\ u.first <= instant
    BY <1>6, <1>7, ClusterFields DEF SdTypeOK
  <2>2. CASE w \in DOMAIN clusters
    <3>1. Settled(a, clusters[w]) /\ ~clusters[w].alerted
      BY <1>7, <1>15, <2>2 DEF SpamInv, SettledInv
    <3>2. u.first - a.at > EchoWindow
      BY <1>7, <2>2, <3>1 DEF Settled
    <3> QED
      BY <1>6, <2>1, <3>2
  <2>3. CASE w \notin DOMAIN clusters
    BY <1>7, <1>15, <2>3 DEF SpamInv, SettledInv
  <2> QED
    BY <2>2, <2>3
<1>16. kind # "none" => ~u.alerted
  BY <1>2 DEF is_echo, is_join_spam
<1>17. SettledInv'
  <2>1. ASSUME NEW a \in alerts, a.words = w PROVE Settled(a, v)
    <3>1. CASE ~u.alerted
      BY <1>9, <1>15, <2>1, <3>1 DEF Settled
    <3>2. CASE u.alerted
      <4>1. w \in DOMAIN clusters
        BY <1>7, <3>2
      <4>2. Settled(a, clusters[w]) /\ a.at <= instant
        BY <1>6, <2>1, <4>1 DEF SpamInv, SettledInv, SdTypeOK
      <4> QED
        BY <1>7, <1>9, <3>2, <4>1, <4>2 DEF Settled
    <3> QED
      BY <3>1, <3>2
  <2>2. kind # "none" => Settled(b, v)
    BY <1>6, <1>7, <1>8, <1>9 DEF Settled
  <2>3. ASSUME NEW a \in alerts' PROVE IF a.words \in DOMAIN clusters' THEN Settled(a, clusters'[a.words]) ELSE instant' - a.at > EchoWindow
    <3>1. CASE a.words = w
      <4>1. a \in alerts \/ (kind # "none" /\ a = b)
        BY <1>5
      <4>2. Settled(a, v)
        BY <2>1, <2>2, <3>1, <4>1
      <4>3. w \in DOMAIN clusters' /\ clusters'[w] = v
        BY <1>5
      <4> QED
        BY <3>1, <4>2, <4>3
    <3>2. CASE a.words # w
      <4>1. a \in alerts
        BY <1>5, <1>8, <3>2
      <4>2. /\ a.words \in DOMAIN clusters' <=> a.words \in DOMAIN clusters
            /\ a.words \in DOMAIN clusters => clusters'[a.words] = clusters[a.words]
        BY <1>5, <3>2
      <4> QED
        BY <1>5, <4>1, <4>2 DEF SpamInv, SettledInv
    <3> QED
      BY <3>1, <3>2
  <2> QED
    BY <2>3 DEF SettledInv, Settled
<1>18. AlertsApart'
  <2>1. \A a \in alerts : (kind # "none" /\ a.words = w) => instant - a.at > EchoWindow
    BY <1>15, <1>16
  <2>2. \A a \in alerts' : a \in alerts \/ (kind # "none" /\ a = b)
    BY <1>5
  <2> QED
    BY <1>8, <2>1, <2>2 DEF SpamInv, AlertsApart
<1> QED
  BY <1>11, <1>13, <1>14, <1>17, <1>18 DEF SpamInv

\* The sweep forgets a cluster only when a whole window has passed since its last message.
LEMMA SpamSweepKeeps ==
    ASSUME SpamInv, sd_sweep
    PROVE  SpamInv'
<1>1. PICK live : live = Restrict(clusters, {w \in DOMAIN clusters : clusters[w].last >= instant - EchoWindow})
  OBVIOUS
<1>2. clusters' = live /\ UNCHANGED <<instant, said, alerts>>
  BY <1>1 DEF sd_sweep
<1>3. /\ DOMAIN clusters' = {w \in DOMAIN clusters : clusters[w].last >= instant - EchoWindow}
      /\ \A w \in DOMAIN clusters' : clusters'[w] = clusters[w]
  BY <1>1, <1>2 DEF Restrict
<1>4. SdTypeOK'
  BY <1>2, <1>3 DEF SpamInv, SdTypeOK
<1>5. ClustersInv' /\ EarnedInv' /\ AlertsApart'
  BY <1>2, <1>3 DEF SpamInv, ClustersInv, EarnedInv, AlertsApart
<1>6. SettledInv'
  <2>1. ASSUME NEW a \in alerts, a.words \in DOMAIN clusters, a.words \notin DOMAIN clusters' PROVE instant - a.at > EchoWindow
    <3>1. PICK c \in Clusters : c = clusters[a.words] /\ Settled(a, c) /\ Witnessed(said, instant, a.words, c)
      BY <2>1 DEF SpamInv, SdTypeOK, SettledInv, ClustersInv
    <3>2. c.first \in Nat /\ c.last \in Nat /\ a.at \in Nat /\ instant \in Nat /\ EchoWindow \in Nat /\ c.first <= c.last
      BY <2>1, <3>1, ClusterFields, WindowNat DEF SpamInv, SdTypeOK, Witnessed
    <3>3. ~(c.last >= instant - EchoWindow)
      BY <1>3, <2>1, <3>1
    <3>4. a.at <= c.last
      BY <3>1, <3>2 DEF Settled
    <3> QED
      BY <3>2, <3>3, <3>4
  <2>2. ASSUME NEW a \in alerts
        PROVE  IF a.words \in DOMAIN clusters' THEN Settled(a, clusters'[a.words]) ELSE instant - a.at > EchoWindow
    BY <1>3, <2>1 DEF SpamInv, SettledInv
  <2> QED
    BY <1>2, <2>2 DEF SettledInv, Settled
<1> QED
  BY <1>4, <1>5, <1>6 DEF SpamInv

LEMMA SpamTickKeeps ==
    ASSUME SpamInv, SdTick
    PROVE  SpamInv'
<1>1. instant' = instant + 1 /\ instant \in Nat /\ EchoWindow \in Nat /\ UNCHANGED <<clusters, said, alerts>>
  BY WindowNat DEF SdTick, SpamInv, SdTypeOK
<1>2. SdTypeOK'
  <2>1. \A a \in alerts : a.at \in Nat /\ a.at <= instant + 1
    BY <1>1 DEF SpamInv, SdTypeOK
  <2> QED
    BY <1>1, <2>1 DEF SpamInv, SdTypeOK
<1>3. ClustersInv'
  <2>1. ASSUME NEW w \in DOMAIN clusters PROVE Witnessed(said, instant + 1, w, clusters[w])
    <3>1. PICK c \in Clusters : c = clusters[w] /\ Witnessed(said, instant, w, c)
      BY <2>1 DEF SpamInv, SdTypeOK, ClustersInv
    <3>2. c.last \in Nat /\ c.last <= instant
      BY <3>1, ClusterFields DEF Witnessed
    <3>3. c.last <= instant + 1
      BY <1>1, <3>2
    <3> QED
      BY <3>1, <3>3 DEF Witnessed
  <2> QED
    BY <1>1, <2>1 DEF ClustersInv
<1>4. EarnedInv' /\ AlertsApart'
  BY <1>1 DEF SpamInv, EarnedInv, AlertsApart
<1>5. SettledInv'
  <2>1. \A a \in alerts : a.at \in Nat
    BY DEF SpamInv, SdTypeOK
  <2>2. ASSUME NEW a \in alerts'
        PROVE  IF a.words \in DOMAIN clusters' THEN Settled(a, clusters'[a.words]) ELSE instant' - a.at > EchoWindow
    <3>1. a \in alerts /\ a.at \in Nat
      BY <1>1, <2>1, <2>2
    <3>2. CASE a.words \in DOMAIN clusters
      BY <1>1, <3>1, <3>2 DEF SpamInv, SettledInv
    <3>3. CASE a.words \notin DOMAIN clusters
      <4>1. instant - a.at > EchoWindow
        BY <3>1, <3>3 DEF SpamInv, SettledInv
      <4>2. instant' - a.at > EchoWindow
        BY <1>1, <3>1, <4>1
      <4> QED
        BY <1>1, <3>3, <4>2
    <3> QED
      BY <3>2, <3>3
  <2> QED
    BY <2>2 DEF SettledInv, Settled
<1> QED
  BY <1>2, <1>3, <1>4, <1>5 DEF SpamInv

LEMMA SpamUntouched ==
    ASSUME SpamInv, UNCHANGED <<instant, clusters, said, alerts>>
    PROVE  SpamInv'
BY DEF SpamInv, SdTypeOK, ClustersInv, EarnedInv, SettledInv, Settled, AlertsApart

\* Nobody is banned for an echo that EchoThreshold hosts, the banned among them, did not make within one window, and two
\* alerts about the same words lie more than a window apart, for any number of hosts (check_echo, check_join_spam, sweep).
THEOREM SpamAlertsAlwaysEarned == SdSpec => []SpamAlertsEarned
<1>1. SdInit => SpamInv
  <2> SUFFICES ASSUME SdInit PROVE SpamInv
    OBVIOUS
  <2>1. instant = 1 /\ DOMAIN clusters = {} /\ said = {} /\ alerts = {}
    BY DEF SdInit, Nothing
  <2>2. IsFiniteSet({})
    BY FS_EmptySet
  <2> QED
    BY <2>1, <2>2 DEF SpamInv, SdTypeOK, ClustersInv, EarnedInv, SettledInv, AlertsApart
<1>2. ASSUME SpamInv, [SdNext]_sdVars PROVE SpamInv'
  <2>1. CASE \E h \in Chatters, m \in Lines : check_message(h, m)
    BY <1>2, <2>1, MessageKeeps
  <2>2. CASE \E h \in Chatters, x \in Hwids : on_connection(h, x)
    <3>1. UNCHANGED <<instant, clusters, said, alerts>>
      BY <2>2 DEF on_connection
    <3> QED
      BY <1>2, <3>1, SpamUntouched
  <2>3. CASE sd_sweep
    BY <1>2, <2>3, SpamSweepKeeps
  <2>4. CASE SdTick
    BY <1>2, <2>4, SpamTickKeeps
  <2>5. CASE UNCHANGED sdVars
    <3>1. UNCHANGED <<instant, clusters, said, alerts>>
      BY <2>5 DEF sdVars
    <3> QED
      BY <1>2, <3>1, SpamUntouched
  <2> QED
    BY <1>2, <2>1, <2>2, <2>3, <2>4, <2>5 DEF SdNext
<1>3. SpamInv => SpamAlertsEarned
  BY DEF SpamInv, EarnedInv, Earned, Heard, SpamAlertsEarned, EchoEarned
<1> QED
  BY <1>1, <1>2, <1>3, PTL DEF SdSpec

-----------------------------------------------------------------------------
(* Reputation: NetworksJudged.                                             *)

Lookup == [ip : Hosts, who : Visitors]
Lookup3 == [ip : Hosts, who : Visitors, ok : BOOLEAN]
NetStatus == {"NORMAL", "WATCHED", "RATE_LIMITED", "BLOCKED"}

Enough(n, ks) == Cardinality(ks) >= effective_threshold(RateT, n)

\* One network, in memory, in the writer's copy or in the file.
NetOK(n, e) ==
    /\ DOMAIN e = {"status", "ips", "keys", "times", "changed", "until"}
    /\ e.status \in NetStatus /\ e.until \in Nat /\ IsFiniteSet(e.keys) /\ e.ips \subseteq e.keys
    /\ e.status = "RATE_LIMITED" => Enough(n, e.keys)

NetsOK(tab) == \A n \in DOMAIN tab : NetOK(n, tab[n])

\* A block that is owed is in memory and in the file until it expires.
Held(n, until, tab) == n \in DOMAIN tab /\ tab[n].status = "BLOCKED" /\ tab[n].until = until

OwedHeld ==
    \A n \in DOMAIN owedBlock :
        /\ owedBlock[n] \in Nat
        /\ (owedBlock[n] = 0 \/ owedBlock[n] > clock) => Held(n, owedBlock[n], asns) /\ Held(n, owedBlock[n], asnFile)

NetsInv ==
    /\ clock \in Nat /\ NetsOK(asns) /\ NetsOK(asnFile) /\ (asnSnap # NoSnap => NetsOK(asnSnap[1]))
    /\ \A n \in DOMAIN asns \ manual : asns[n].status = "BLOCKED" => Enough(n, asns[n].keys)
    /\ \A n \in manual : n \in DOMAIN asns /\ asns[n].status = "BLOCKED"
    /\ OwedHeld

CallsInv == lookups \in Seq(Lookup) /\ batch \in Seq(Lookup3) /\ DOMAIN visitor = Visitors /\ CallbacksNotLost

LEMMA ThresholdType == ASSUME NEW n PROVE effective_threshold(RateT, n) \in Nat
<1>1. RateT \in Nat /\ Multiplier \in Nat
  BY ReputationAssumption
<1>2. RateT * Multiplier \in Nat
  BY <1>1
<1> QED BY <1>1, <1>2 DEF effective_threshold

LEMMA EnoughGrows ==
    ASSUME NEW n, NEW S, NEW T, S \subseteq T, IsFiniteSet(T), Enough(n, S)
    PROVE  Enough(n, T)
<1>1. Cardinality(S) <= Cardinality(T) /\ Cardinality(T) \in Nat /\ Cardinality(S) \in Nat
  BY FS_Subset, FS_CardinalityType
<1> QED BY <1>1, ThresholdType DEF Enough

LEMMA FreshOK == \A n : NetOK(n, Fresh) /\ Fresh.status = "NORMAL"
BY FS_EmptySet DEF NetOK, Fresh, NetStatus

\* A report and what it escalates to.
LEMMA SeenOK ==
    ASSUME NEW n, NEW e, NetOK(n, e), NEW d, NEW f, f.keys = e.keys \cup {d}, f.ips = e.ips \cup {d}, f.status = e.status,
           f.until = e.until, DOMAIN f = DOMAIN e
    PROVE  NetOK(n, f)
<1>1. IsFiniteSet(f.keys)
  BY FS_AddElement DEF NetOK
<1>2. f.status = "RATE_LIMITED" => Enough(n, f.keys)
  BY <1>1, EnoughGrows DEF NetOK
<1> QED BY <1>1, <1>2 DEF NetOK

LEMMA EscalationOK ==
    ASSUME NEW n, NEW e, NetOK(n, e), e.status # "BLOCKED", clock \in Nat
    PROVE  /\ NetOK(n, evaluate_escalation(n, e))
           /\ evaluate_escalation(n, e).status = "BLOCKED" => Enough(n, evaluate_escalation(n, e).keys)
<1>1. Until(AutoBlock) \in Nat
  BY ReputationAssumption DEF Until
<1>2. ASSUME NEW s \in NetStatus, s \in {"RATE_LIMITED", "BLOCKED"} => Enough(n, e.keys)
      PROVE  NetOK(n, Escalated(e, s)) /\ (Escalated(e, s).status = "BLOCKED" => Enough(n, Escalated(e, s).keys))
  <2> DEFINE f == Escalated(e, s)
             u == IF s = "BLOCKED" THEN Until(AutoBlock) ELSE e.until
  <2>1. f = [e EXCEPT !.status = s, !.changed = clock, !.until = u]
    BY DEF Escalated
  <2>2. u \in Nat
    BY <1>1 DEF NetOK
  <2> HIDE DEF f, u
  <2>3. f.status = s /\ f.until = u /\ f.keys = e.keys /\ f.ips = e.ips /\ DOMAIN f = DOMAIN e
    BY <2>1 DEF NetOK
  <2>4. NetOK(n, f) /\ (f.status = "BLOCKED" => Enough(n, f.keys))
    BY <1>2, <2>2, <2>3 DEF NetOK
  <2> QED BY <2>4 DEF f
<1> DEFINE k == Cardinality(e.ips)
<1>3. k >= effective_threshold(RateT, n) => Enough(n, e.keys)
  <2>1. k >= effective_threshold(RateT, n) => Enough(n, e.ips)
    BY DEF Enough
  <2> QED BY <2>1, EnoughGrows DEF NetOK
<1>4. e.status \in {"NORMAL", "WATCHED", "RATE_LIMITED"}
  BY DEF NetOK, NetStatus
<1>5. /\ NetOK(n, Escalated(e, "WATCHED")) /\ Escalated(e, "WATCHED").status = "WATCHED"
      /\ e.status = "RATE_LIMITED" => /\ NetOK(n, Escalated(e, "BLOCKED")) /\ Enough(n, Escalated(e, "BLOCKED").keys)
      /\ k >= effective_threshold(RateT, n) => NetOK(n, Escalated(e, "RATE_LIMITED")) /\ Escalated(e, "RATE_LIMITED").status = "RATE_LIMITED"
  <2>1. \A s \in NetStatus : Escalated(e, s).status = s
    BY DEF Escalated, NetOK
  <2>2. e.status = "RATE_LIMITED" => Enough(n, e.keys)
    BY DEF NetOK
  <2> QED BY <1>2, <1>3, <2>1, <2>2 DEF NetStatus
<1>6. \/ evaluate_escalation(n, e) = e
      \/ evaluate_escalation(n, e) = Escalated(e, "WATCHED")
      \/ k >= effective_threshold(RateT, n) /\ evaluate_escalation(n, e) = Escalated(e, "RATE_LIMITED")
      \/ e.status = "RATE_LIMITED" /\ evaluate_escalation(n, e) = Escalated(e, "BLOCKED")
  BY <1>4, Zenon DEF evaluate_escalation
<1> HIDE DEF k
<1> QED BY <1>5, <1>6

LEMMA SweptOK ==
    ASSUME NEW n, NEW e, NetOK(n, e)
    PROVE  /\ NetOK(n, Swept(e))
           /\ ~(e.status = "BLOCKED" /\ BlockOver(e)) =>
                Swept(e).status = e.status /\ Swept(e).until = e.until /\ Swept(e).keys = e.keys
           /\ e.status = "BLOCKED" /\ BlockOver(e) => Swept(e).status = "NORMAL"
<1> DEFINE over == e.status = "BLOCKED" /\ BlockOver(e)
           times == prune_window(e.times)
           ips == IF times = <<>> THEN {} ELSE e.ips
           f == Swept(e)
<1>1. f = [e EXCEPT !.status = IF over THEN "NORMAL" ELSE @, !.changed = IF over THEN clock ELSE @,
                    !.times = times, !.ips = ips, !.keys = IF over THEN ips ELSE @]
  BY DEF Swept
<1>2. ips \subseteq e.ips
  OBVIOUS
<1>3. over \in BOOLEAN
  BY DEF BlockOver
<1> HIDE DEF over, times, ips, f
<1>4. /\ f.status = (IF over THEN "NORMAL" ELSE e.status) /\ f.until = e.until /\ DOMAIN f = DOMAIN e
      /\ f.ips = ips /\ f.keys = IF over THEN ips ELSE e.keys
  BY <1>1 DEF NetOK
<1>5. IsFiniteSet(f.keys)
  BY <1>2, <1>4, FS_Subset DEF NetOK
<1>6. NetOK(n, f)
  BY <1>2, <1>3, <1>4, <1>5 DEF NetOK, NetStatus
<1> QED BY <1>3, <1>4, <1>6 DEF over, f

\* Through the file.
LEMMA SavedOK ==
    ASSUME NEW tab, NetsOK(tab)
    PROVE  NetsOK(Saved(tab)) /\ \A n, u : Held(n, u, tab) => Held(n, u, Saved(tab))
<1>1. DOMAIN Saved(tab) = DOMAIN tab
  BY DEF Saved
<1>2. ASSUME NEW n \in DOMAIN tab
      PROVE  NetOK(n, Saved(tab)[n]) /\ Saved(tab)[n].status = tab[n].status /\ Saved(tab)[n].until = tab[n].until
  <2>1. Saved(tab)[n] = [tab[n] EXCEPT !.ips = {}, !.times = <<>>]
    BY DEF Saved
  <2>2. NetOK(n, tab[n])
    BY DEF NetsOK
  <2> DEFINE e == tab[n]
             f == [e EXCEPT !.ips = {}, !.times = <<>>]
  <2> HIDE DEF e
  <2>3. NetOK(n, e)
    BY <2>2 DEF e
  <2>4. f.status = e.status /\ f.until = e.until /\ f.keys = e.keys /\ f.ips = {} /\ DOMAIN f = DOMAIN e
    BY <2>3 DEF NetOK
  <2> HIDE DEF f
  <2>5. NetOK(n, f)
    BY <2>3, <2>4 DEF NetOK
  <2> QED BY <2>1, <2>4, <2>5 DEF e, f
<1> QED BY <1>1, <1>2 DEF NetsOK, Held

LEMMA LoadedOK ==
    ASSUME NEW n, NEW e, NetOK(n, e), clock \in Nat
    PROVE  /\ NetOK(n, Loaded(e))
           /\ e.status = "BLOCKED" /\ (e.until = 0 \/ e.until > clock) => Loaded(e) = e
<1>1. CASE ~(e.status = "BLOCKED" /\ BlockOver(e))
  BY <1>1 DEF Loaded
<1>2. CASE e.status = "BLOCKED" /\ BlockOver(e)
  <2> DEFINE f == [e EXCEPT !.status = "NORMAL", !.keys = e.ips]
  <2>1. Loaded(e) = f
    BY <1>2 DEF Loaded
  <2>2. f.status = "NORMAL" /\ f.until = e.until /\ f.keys = e.ips /\ f.ips = e.ips /\ DOMAIN f = DOMAIN e
    BY DEF NetOK
  <2> HIDE DEF f
  <2>3. IsFiniteSet(f.keys)
    BY <2>2, FS_Subset DEF NetOK
  <2>4. NetOK(n, f)
    BY <2>2, <2>3 DEF NetOK, NetStatus
  <2>5. ~(e.until = 0 \/ e.until > clock)
    BY <1>2 DEF BlockOver, NetOK
  <2> QED BY <2>1, <2>4, <2>5
<1> QED BY <1>1, <1>2

\* What a table becomes when one network is written.
LEMMA RPutIs ==
    ASSUME NEW f, NEW k, NEW v
    PROVE  /\ DOMAIN RPut(f, k, v) = DOMAIN f \cup {k} /\ RPut(f, k, v)[k] = v
           /\ \A x \in DOMAIN f : x # k => RPut(f, k, v)[x] = f[x]
BY DEF RPut

LEMMA EntryOK == ASSUME NetsOK(asns), NEW n PROVE NetOK(n, Entry(n))
BY FreshOK DEF Entry, NetsOK

LEMMA NetsInitOK == ASSUME RepInit PROVE NetsInv
BY DEF RepInit, NetsInv, NetsOK, OwedHeld, Empty, NoSnap

LEMMA NetsQuiet ==
    ASSUME NetsInv, UNCHANGED <<clock, asns, asnSnap, asnFile, manual, owedBlock>>
    PROVE  NetsInv'
<1>1. OwedHeld'
  BY DEF NetsInv, OwedHeld
<1> QED BY <1>1 DEF NetsInv

LEMMA NetsTick == ASSUME NetsInv, RepTick PROVE NetsInv'
<1>1. clock' = clock + 1 /\ clock \in Nat /\ UNCHANGED <<asns, asnSnap, asnFile, manual, owedBlock>>
  BY DEF RepTick, NetsInv
<1>2. OwedHeld'
  <2> SUFFICES ASSUME NEW n \in DOMAIN owedBlock
               PROVE  /\ owedBlock[n] \in Nat
                      /\ (owedBlock[n] = 0 \/ owedBlock[n] > clock') => Held(n, owedBlock[n], asns) /\ Held(n, owedBlock[n], asnFile)
    BY <1>1 DEF OwedHeld
  <2>1. owedBlock[n] \in Nat
    BY DEF NetsInv, OwedHeld
  <2>2. owedBlock[n] > clock' => owedBlock[n] > clock
    BY <1>1, <2>1
  <2> QED BY <2>1, <2>2 DEF NetsInv, OwedHeld
<1> QED BY <1>1, <1>2 DEF NetsInv

LEMMA NetsReport == ASSUME NetsInv, NEW n \in Nets, NEW d \in Details, report_abuse(n, d) PROVE NetsInv'
<1> DEFINE seen == [Entry(n) EXCEPT !.ips = @ \cup {d}, !.keys = @ \cup {d}, !.times = prune_window(Append(@, clock))]
           e == evaluate_escalation(n, seen)
<1>1. /\ Entry(n).status # "BLOCKED" /\ asns' = RPut(asns, n, e) /\ clock \in Nat
      /\ UNCHANGED <<clock, asnSnap, asnFile, manual, owedBlock>>
  BY DEF report_abuse, NetsInv
<1>2. NetOK(n, seen) /\ seen.status # "BLOCKED"
  <2>1. NetOK(n, Entry(n))
    BY EntryOK DEF NetsInv
  <2> DEFINE e0 == Entry(n)
             tm == prune_window(Append(e0.times, clock))
  <2>2. seen = [e0 EXCEPT !.ips = @ \cup {d}, !.keys = @ \cup {d}, !.times = tm]
    OBVIOUS
  <2>3. NetOK(n, e0) /\ e0.status # "BLOCKED"
    BY <1>1, <2>1
  <2> HIDE DEF seen, e0, tm
  <2>4. seen.keys = e0.keys \cup {d} /\ seen.ips = e0.ips \cup {d} /\ seen.status = e0.status /\ seen.until = e0.until /\ DOMAIN seen = DOMAIN e0
    BY <2>2, <2>3 DEF NetOK
  <2> QED BY <2>3, <2>4, SeenOK
<1> HIDE DEF seen
<1>3. NetOK(n, e) /\ (e.status = "BLOCKED" => Enough(n, e.keys))
  BY <1>1, <1>2, EscalationOK
<1> HIDE DEF e
<1>4. DOMAIN asns' = DOMAIN asns \cup {n} /\ asns'[n] = e /\ \A x \in DOMAIN asns : x # n => asns'[x] = asns[x]
  BY <1>1 DEF RPut
<1>5. NetsOK(asns')
  BY <1>3, <1>4 DEF NetsInv, NetsOK
<1>6. \A x \in DOMAIN asns' \ manual : asns'[x].status = "BLOCKED" => Enough(x, asns'[x].keys)
  BY <1>3, <1>4 DEF NetsInv
<1>7. n \in DOMAIN asns => asns[n].status # "BLOCKED"
  BY <1>1 DEF Entry
<1>8. \A x \in manual : x \in DOMAIN asns' /\ asns'[x].status = "BLOCKED"
  BY <1>4, <1>7 DEF NetsInv
<1>9. \A x, u : Held(x, u, asns) => Held(x, u, asns')
  BY <1>4, <1>7 DEF Held
<1>10. OwedHeld'
  BY <1>1, <1>9 DEF NetsInv, OwedHeld
<1> QED BY <1>1, <1>5, <1>6, <1>8, <1>10 DEF NetsInv

LEMMA NetsBlock == ASSUME NetsInv, NEW n \in Nets, NEW d \in BlockFor, block_asn(n, d) PROVE NetsInv'
<1> DEFINE e == Entry(n)
           f == [e EXCEPT !.status = "BLOCKED", !.changed = clock, !.until = Until(d)]
<1>1. /\ asns' = RPut(asns, n, f) /\ asnSnap' = <<asns'>> /\ manual' = manual \cup {n}
      /\ owedBlock' = [x \in DOMAIN owedBlock \ {n} |-> owedBlock[x]] /\ UNCHANGED <<clock, asnFile>> /\ clock \in Nat
  BY DEF block_asn, NetsInv
<1>2. Until(d) \in Nat
  BY <1>1, ReputationAssumption DEF Until
<1>3. NetOK(n, e)
  BY EntryOK DEF NetsInv
<1> HIDE DEF e
<1>4. f.status = "BLOCKED" /\ f.until = Until(d) /\ f.ips = e.ips /\ f.keys = e.keys /\ DOMAIN f = DOMAIN e
  BY <1>3 DEF NetOK
<1> HIDE DEF f
<1>5. NetOK(n, f)
  BY <1>2, <1>3, <1>4 DEF NetOK, NetStatus
<1>6. DOMAIN asns' = DOMAIN asns \cup {n} /\ asns'[n] = f /\ \A x \in DOMAIN asns : x # n => asns'[x] = asns[x]
  BY <1>1 DEF RPut
<1>7. NetsOK(asns')
  BY <1>5, <1>6 DEF NetsInv, NetsOK
<1>8. asnSnap'[1] = asns'
  BY <1>1
<1>9. \A x \in DOMAIN asns' \ manual' : x \in DOMAIN asns \ manual /\ asns'[x] = asns[x]
  BY <1>1, <1>6
<1>10. \A x \in manual' : x \in DOMAIN asns' /\ asns'[x].status = "BLOCKED"
  BY <1>1, <1>4, <1>6 DEF NetsInv
<1>11. \A x, u : x # n /\ Held(x, u, asns) => Held(x, u, asns')
  BY <1>6 DEF Held
<1>12. OwedHeld'
  <2> SUFFICES ASSUME NEW x \in DOMAIN owedBlock'
               PROVE  /\ owedBlock'[x] \in Nat
                      /\ (owedBlock'[x] = 0 \/ owedBlock'[x] > clock) => Held(x, owedBlock'[x], asns') /\ Held(x, owedBlock'[x], asnFile)
    BY <1>1 DEF OwedHeld
  <2>1. x \in DOMAIN owedBlock /\ x # n /\ owedBlock'[x] = owedBlock[x]
    BY <1>1
  <2> QED BY <1>11, <2>1 DEF NetsInv, OwedHeld
<1>13. \A x \in DOMAIN asns' \ manual' : asns'[x].status = "BLOCKED" => Enough(x, asns'[x].keys)
  BY <1>9 DEF NetsInv
<1> QED BY <1>1, <1>7, <1>8, <1>10, <1>12, <1>13 DEF NetsInv

LEMMA NetsUnblock == ASSUME NetsInv, NEW n \in Nets, unblock_asn(n) PROVE NetsInv'
<1> DEFINE f == [Fresh EXCEPT !.changed = clock]
<1>1. /\ n \in DOMAIN asns /\ asns' = [asns EXCEPT ![n] = f] /\ asnSnap' = <<asns'>> /\ manual' = manual \ {n}
      /\ owedBlock' = [x \in DOMAIN owedBlock \ {n} |-> owedBlock[x]] /\ UNCHANGED <<clock, asnFile>> /\ clock \in Nat
  BY DEF unblock_asn, NetsInv
<1>2. NetOK(n, f) /\ f.status = "NORMAL"
  BY FS_EmptySet DEF Fresh, NetOK, NetStatus
<1> HIDE DEF f
<1>3. DOMAIN asns' = DOMAIN asns /\ asns'[n] = f /\ \A x \in DOMAIN asns : x # n => asns'[x] = asns[x]
  BY <1>1
<1>4. NetsOK(asns')
  BY <1>2, <1>3 DEF NetsInv, NetsOK
<1>5. asnSnap'[1] = asns'
  BY <1>1
<1>6. \A x \in DOMAIN asns' \ manual' : asns'[x].status = "BLOCKED" => Enough(x, asns'[x].keys)
  BY <1>1, <1>2, <1>3 DEF NetsInv
<1>7. \A x \in manual' : x \in DOMAIN asns' /\ asns'[x].status = "BLOCKED"
  BY <1>1, <1>3 DEF NetsInv
<1>8. OwedHeld'
  <2> SUFFICES ASSUME NEW x \in DOMAIN owedBlock'
               PROVE  /\ owedBlock'[x] \in Nat
                      /\ (owedBlock'[x] = 0 \/ owedBlock'[x] > clock) => Held(x, owedBlock'[x], asns') /\ Held(x, owedBlock'[x], asnFile)
    BY <1>1 DEF OwedHeld
  <2>1. x \in DOMAIN owedBlock /\ x # n /\ owedBlock'[x] = owedBlock[x]
    BY <1>1
  <2> QED BY <1>3, <2>1 DEF NetsInv, OwedHeld, Held
<1> QED BY <1>1, <1>4, <1>5, <1>6, <1>7, <1>8 DEF NetsInv

LEMMA NetsSweep == ASSUME NetsInv, asn_sweep PROVE NetsInv'
<1>1. /\ DOMAIN asns' = DOMAIN asns /\ \A x \in DOMAIN asns : asns'[x] = Swept(asns[x])
      /\ manual' = {x \in manual : asns'[x].status = "BLOCKED"} /\ UNCHANGED <<clock, asnSnap, asnFile, owedBlock>>
  BY DEF asn_sweep
<1>2. \A x \in DOMAIN asns : NetOK(x, asns[x])
  BY DEF NetsInv, NetsOK
<1>3. NetsOK(asns')
  BY <1>1, <1>2, SweptOK DEF NetsOK
<1>4. \A x \in DOMAIN asns : asns'[x].status = "BLOCKED" =>
         asns[x].status = "BLOCKED" /\ asns'[x].keys = asns[x].keys
  BY <1>1, <1>2, SweptOK
<1>5. \A x \in DOMAIN asns' \ manual' : asns'[x].status = "BLOCKED" => Enough(x, asns'[x].keys)
  BY <1>1, <1>4 DEF NetsInv
<1>6. \A x \in manual' : x \in DOMAIN asns' /\ asns'[x].status = "BLOCKED"
  BY <1>1 DEF NetsInv
<1>7. ASSUME NEW x, NEW u \in Nat, u = 0 \/ u > clock, Held(x, u, asns) PROVE Held(x, u, asns')
  <2>1. x \in DOMAIN asns /\ asns[x].status = "BLOCKED" /\ asns[x].until = u
    BY <1>7 DEF Held
  <2>2. ~BlockOver(asns[x])
    BY <1>7, <2>1 DEF BlockOver, NetsInv
  <2> QED BY <1>1, <1>2, <2>1, <2>2, SweptOK DEF Held
<1>8. OwedHeld'
  BY <1>1, <1>7 DEF NetsInv, OwedHeld
<1> QED BY <1>1, <1>3, <1>5, <1>6, <1>8 DEF NetsInv

LEMMA NetsWrite == ASSUME NetsInv, writer_loop PROVE NetsInv'
<1> DEFINE s == asnSnap[1]
<1>1. /\ asnSnap # NoSnap /\ asnFile' = Saved(s) /\ asnSnap' = NoSnap /\ UNCHANGED <<clock, asns, manual>>
      /\ owedBlock' = [n \in {x \in manual : x \in DOMAIN s /\ s[x].status = "BLOCKED" /\ s[x].until = Entry(x).until} |-> s[n].until]
  BY DEF writer_loop
<1>2. NetsOK(s)
  BY <1>1 DEF NetsInv
<1> HIDE DEF s
<1>3. NetsOK(asnFile') /\ \A n, u : Held(n, u, s) => Held(n, u, asnFile')
  BY <1>1, <1>2, SavedOK
<1>4. OwedHeld'
  <2> SUFFICES ASSUME NEW n \in DOMAIN owedBlock'
               PROVE  owedBlock'[n] \in Nat /\ Held(n, owedBlock'[n], asns) /\ Held(n, owedBlock'[n], asnFile')
    BY <1>1 DEF OwedHeld
  <2>1. n \in manual /\ n \in DOMAIN s /\ s[n].status = "BLOCKED" /\ s[n].until = Entry(n).until /\ owedBlock'[n] = s[n].until
    BY <1>1
  <2>2. Held(n, owedBlock'[n], s) /\ owedBlock'[n] \in Nat
    BY <1>2, <2>1 DEF Held, NetsOK, NetOK
  <2>3. n \in DOMAIN asns /\ asns[n].status = "BLOCKED" /\ Entry(n) = asns[n]
    BY <2>1 DEF NetsInv, Entry
  <2>4. Held(n, owedBlock'[n], asns)
    BY <2>1, <2>3 DEF Held
  <2> QED BY <1>3, <2>2, <2>4
<1> QED BY <1>1, <1>3, <1>4 DEF NetsInv

LEMMA NetsRestart == ASSUME NetsInv, RepRestart PROVE NetsInv'
<1>1. /\ asns' = [n \in DOMAIN asnFile |-> Loaded(asnFile[n])] /\ asnSnap' = NoSnap /\ UNCHANGED <<clock, asnFile, owedBlock>>
      /\ manual' = {n \in DOMAIN asns' : asns'[n].status = "BLOCKED"} /\ clock \in Nat
  BY DEF RepRestart, NetsInv
<1>2. \A n \in DOMAIN asnFile : NetOK(n, asnFile[n])
  BY DEF NetsInv, NetsOK
<1>3. DOMAIN asns' = DOMAIN asnFile /\ \A n \in DOMAIN asnFile : asns'[n] = Loaded(asnFile[n])
  BY <1>1
<1>4. NetsOK(asns')
  BY <1>1, <1>2, <1>3, LoadedOK DEF NetsOK
<1>5. ASSUME NEW n, NEW u, u = 0 \/ u > clock, Held(n, u, asnFile) PROVE Held(n, u, asns')
  <2>1. n \in DOMAIN asnFile /\ asnFile[n].status = "BLOCKED" /\ asnFile[n].until = u
    BY <1>5 DEF Held
  <2>2. Loaded(asnFile[n]) = asnFile[n]
    BY <1>1, <1>2, <1>5, <2>1, LoadedOK
  <2> QED BY <1>3, <2>1, <2>2 DEF Held
<1>6. OwedHeld'
  BY <1>1, <1>5 DEF NetsInv, OwedHeld
<1> QED BY <1>1, <1>4, <1>6 DEF NetsInv

LEMMA NetsStep == ASSUME NetsInv, [RepNext]_repVars PROVE NetsInv'
<1> USE DEF repVars, ipVars, asnVars
<1>1. CASE UNCHANGED repVars
  BY <1>1, NetsQuiet
<1>2. ASSUME NEW v \in Visitors, HiCached(v) \/ HiLookup(v) PROVE NetsInv'
  BY <1>2, NetsQuiet DEF HiCached, HiLookup
<1>3. ASSUME NEW S \in SUBSET Hosts, WorkerTake(S) PROVE NetsInv'
  BY <1>3, NetsQuiet DEF WorkerTake
<1>4. CASE WorkerDeliver \/ sweep_expired
  BY <1>4, NetsQuiet DEF WorkerDeliver, sweep_expired
<1>5. ASSUME NEW p \in BOOLEAN, NEW ok \in BOOLEAN, WorkerEnrich(p, ok) PROVE NetsInv'
  BY <1>5, NetsQuiet DEF WorkerEnrich
<1> QED BY <1>1, <1>2, <1>3, <1>4, <1>5, NetsTick, NetsReport, NetsBlock, NetsUnblock, NetsSweep, NetsWrite, NetsRestart DEF RepNext, AsnCommand

LEMMA CallsInitOK == ASSUME RepInit PROVE CallsInv
<1>1. lookups \in Seq(Lookup) /\ batch \in Seq(Lookup3) /\ visitor = [v \in Visitors |-> "out"]
  BY DEF RepInit
<1> QED BY <1>1 DEF CallsInv, CallbacksNotLost

LEMMA CallsQuiet == ASSUME CallsInv, UNCHANGED <<lookups, batch, visitor, told, dropped>> PROVE CallsInv'
BY DEF CallsInv, CallbacksNotLost

LEMMA CallsHi == ASSUME CallsInv, NEW v \in Visitors, HiCached(v) \/ HiLookup(v) PROVE CallsInv'
<1>1. CASE HiCached(v)
  <2>1. /\ \A w \in Visitors : w # v => visitor'[w] = visitor[w]
        /\ told' = told \cup {v} /\ DOMAIN visitor' = Visitors /\ UNCHANGED <<lookups, batch, dropped>>
    BY <1>1 DEF HiCached, CallsInv
  <2> QED BY <2>1 DEF CallsInv, CallbacksNotLost
<1>2. CASE HiLookup(v)
  <2> DEFINE x == [ip |-> HostOf[v], who |-> v]
             queued == \E i \in DOMAIN lookups : lookups[i].ip = HostOf[v]
  <2>1. /\ lookups' = (IF queued THEN lookups ELSE Append(lookups, x)) /\ dropped' = (IF queued THEN dropped \cup {v} ELSE dropped)
        /\ \A w \in Visitors : w # v => visitor'[w] = visitor[w]
        /\ DOMAIN visitor' = Visitors /\ UNCHANGED <<batch, told>>
    BY <1>2 DEF HiLookup, CallsInv
  <2>2. x \in Lookup /\ x.who = v
    BY ReputationAssumption DEF Lookup
  <2> HIDE DEF x, queued
  <2>3. lookups \in Seq(Lookup)
    BY DEF CallsInv
  <2>4. CASE queued
    BY <2>1, <2>4 DEF CallsInv, CallbacksNotLost
  <2>5. CASE ~queued
    <3>1. lookups' = Append(lookups, x) /\ dropped' = dropped
      BY <2>1, <2>5
    <3>2. /\ lookups' \in Seq(Lookup) /\ DOMAIN lookups \subseteq DOMAIN lookups' /\ \A i \in DOMAIN lookups : lookups'[i] = lookups[i]
          /\ \E i \in DOMAIN lookups' : lookups'[i] = x
      BY <2>2, <2>3, <3>1
    <3>3. \A w \in Visitors : (\E i \in DOMAIN lookups : lookups[i].who = w) \/ w = v => \E i \in DOMAIN lookups' : lookups'[i].who = w
      BY <2>2, <3>2
    <3> QED BY <2>1, <3>1, <3>2, <3>3 DEF CallsInv, CallbacksNotLost
  <2> QED BY <2>4, <2>5
<1> QED BY <1>1, <1>2

\* What the worker takes is in its batch, the rest stays queued.
LEMMA CallsTake == ASSUME CallsInv, NEW S \in SUBSET Hosts, WorkerTake(S) PROVE CallsInv'
<1> DEFINE n == IF Len(lookups) < BatchMax THEN Len(lookups) ELSE BatchMax
<1>1. /\ batch = <<>> /\ lookups # <<>> /\ lookups \in Seq(Lookup)
      /\ batch' = [i \in 1..n |-> [ip |-> lookups[i].ip, who |-> lookups[i].who, ok |-> lookups[i].ip \in S]]
      /\ lookups' = SubSeq(lookups, n + 1, Len(lookups)) /\ UNCHANGED <<visitor, told, dropped>>
  BY DEF WorkerTake, CallsInv
<1>2. n \in 0..Len(lookups) /\ Len(lookups) \in Nat
  BY <1>1, ReputationAssumption
<1> HIDE DEF n
<1>3. \A i \in 1..Len(lookups) : lookups[i].ip \in Hosts /\ lookups[i].who \in Visitors
  <2>1. \A i \in 1..Len(lookups) : lookups[i] \in Lookup
    BY <1>1
  <2> QED BY <2>1, Zenon DEF Lookup
<1>4. batch' \in Seq(Lookup3) /\ DOMAIN batch' = 1..n /\ \A i \in 1..n : batch'[i].who = lookups[i].who
  <2>1. \A i \in 1..n : [ip |-> lookups[i].ip, who |-> lookups[i].who, ok |-> lookups[i].ip \in S] \in Lookup3
    BY <1>2, <1>3 DEF Lookup3
  <2> QED BY <1>1, <1>2, <2>1
<1>5. /\ lookups' \in Seq(Lookup) /\ DOMAIN lookups' = 1..(Len(lookups) - n)
      /\ \A i \in 1..(Len(lookups) - n) : lookups'[i] = lookups[i + n]
  BY <1>1, <1>2
<1>6. ASSUME NEW v, NEW i \in DOMAIN lookups, lookups[i].who = v
      PROVE  (\E k \in DOMAIN lookups' : lookups'[k].who = v) \/ (\E k \in DOMAIN batch' : batch'[k].who = v)
  <2>1. CASE i <= n
    BY <1>1, <1>2, <1>4, <1>6, <2>1
  <2>2. CASE ~(i <= n)
    <3>1. i - n \in DOMAIN lookups' /\ (i - n) + n = i
      BY <1>1, <1>2, <1>5, <2>2
    <3> QED BY <1>5, <1>6, <3>1
  <2> QED BY <2>1, <2>2
<1>7. ~\E i \in DOMAIN batch : TRUE
  BY <1>1
<1> QED BY <1>1, <1>4, <1>5, <1>6, <1>7 DEF CallsInv, CallbacksNotLost

LEMMA CallsDeliver == ASSUME CallsInv, WorkerDeliver PROVE CallsInv'
<1> DEFINE h == Head(batch)
<1>1. /\ batch # <<>> /\ batch \in Seq(Lookup3) /\ batch' = Tail(batch) /\ told' = told \cup {h.who} /\ UNCHANGED <<lookups, dropped>>
      /\ CallBack(h.who, EntryOf(h))
  BY DEF WorkerDeliver, CallsInv
<1>2. DOMAIN visitor' = Visitors /\ \A w \in Visitors : visitor'[w] = "in" => visitor[w] = "in"
  BY <1>1 DEF CallBack, CallsInv
<1>3. /\ batch' \in Seq(Lookup3) /\ DOMAIN batch' = 1..(Len(batch) - 1) /\ Len(batch) \in Nat /\ DOMAIN batch = 1..Len(batch)
      /\ h = batch[1] /\ \A i \in 1..(Len(batch) - 1) : batch'[i] = batch[i + 1]
  BY <1>1
<1> HIDE DEF h
<1>4. ASSUME NEW v, NEW i \in DOMAIN batch, batch[i].who = v, v # h.who PROVE \E k \in DOMAIN batch' : batch'[k].who = v
  <2>1. i # 1
    BY <1>3, <1>4
  <2>2. i - 1 \in DOMAIN batch' /\ batch'[i - 1] = batch[i]
    BY <1>3, <2>1
  <2> QED BY <1>4, <2>2
<1> QED BY <1>1, <1>2, <1>3, <1>4 DEF CallsInv, CallbacksNotLost

LEMMA CallsStep == ASSUME CallsInv, [RepNext]_repVars PROVE CallsInv'
<1> USE DEF repVars, ipVars, asnVars
<1>1. CASE UNCHANGED repVars
  BY <1>1, CallsQuiet
<1>2. ASSUME NEW p \in BOOLEAN, NEW ok \in BOOLEAN, WorkerEnrich(p, ok) PROVE CallsInv'
  BY <1>2, CallsQuiet DEF WorkerEnrich
<1>3. CASE sweep_expired \/ asn_sweep \/ writer_loop \/ RepTick
  BY <1>3, CallsQuiet DEF sweep_expired, asn_sweep, writer_loop, RepTick
<1>4. ASSUME NEW n \in Nets, AsnCommand(n) PROVE CallsInv'
  BY <1>4, CallsQuiet DEF AsnCommand, unblock_asn, block_asn
<1>5. ASSUME NEW n \in Nets, NEW d \in Details, report_abuse(n, d) PROVE CallsInv'
  BY <1>5, CallsQuiet DEF report_abuse
<1>6. CASE RepRestart
  <2>1. lookups' = <<>> /\ batch' = <<>> /\ visitor' = [v \in Visitors |-> "out"]
    BY <1>6 DEF RepRestart
  <2>2. lookups' \in Seq(Lookup) /\ batch' \in Seq(Lookup3) /\ DOMAIN visitor' = Visitors /\ \A v \in Visitors : visitor'[v] = "out"
    BY <2>1
  <2> QED BY <2>2 DEF CallsInv, CallbacksNotLost
<1> QED BY <1>1, <1>2, <1>3, <1>4, <1>5, <1>6, CallsHi, CallsTake, CallsDeliver DEF RepNext

\* For any number of addresses, networks, visitors and reports, and whatever the queries answer: a visitor who was let in
\* unjudged is still waited for, the machine blocks only a network reported for enough, and a moderator's block that has
\* reached the file outlives every restart.
THEOREM NetworksAlwaysJudged == RepSpec => []NetworksJudged
<1>1. RepInit => NetsInv /\ CallsInv
  BY NetsInitOK, CallsInitOK
<1>2. NetsInv /\ CallsInv /\ [RepNext]_repVars => NetsInv' /\ CallsInv'
  BY NetsStep, CallsStep
<1>3. NetsInv /\ CallsInv => NetworksJudged
  <2> SUFFICES ASSUME NetsInv, CallsInv PROVE NetworksJudged
    OBVIOUS
  <2>1. AutoBlockEarned
    BY DEF NetsInv, AutoBlockEarned, Enough, effective_threshold
  <2>2. BlocksSurvive
    <3> SUFFICES ASSUME NEW n \in DOMAIN owedBlock, owedBlock[n] = 0 \/ owedBlock[n] > clock PROVE check_blocked(n)
      BY DEF BlocksSurvive
    <3>1. Held(n, owedBlock[n], asns) /\ owedBlock[n] \in Nat /\ clock \in Nat
      BY DEF NetsInv, OwedHeld
    <3> QED BY <3>1 DEF Held, check_blocked, BlockOver
  <2> QED BY <2>1, <2>2 DEF CallsInv, NetworksJudged
<1> QED BY <1>1, <1>2, <1>3, PTL DEF RepSpec
=============================================================================
