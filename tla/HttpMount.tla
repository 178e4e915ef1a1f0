----------------------------- MODULE HttpMount -----------------------------
(***************************************************************************)
(* Fetching over HTTP: MountManager asks the local mounts, then the first  *)
(* HTTP mount, and a further one only for what the first cannot have.      *)
(* Each MountHttp remembers what it has, waits for and has given up; the   *)
(* pool's callbacks come later, or after the mount is gone.                *)
(***************************************************************************)
EXTENDS Integers, Sequences, SequencesExt, FiniteSets, FiniteSetsExt

CONSTANTS
    Files, ConfigFiles,   \* ConfigFiles \subseteq Files: fetched on demand, the others only by prefetch
    LocalFiles,           \* files of the directory, archive or embedded mounts
    MaxMounts,            \* HTTP mounts ever made; they are numbered
    max_retries,
    MaxJobs               \* requests ever given to the pool

ASSUME MountAssumption == MaxMounts \in Nat /\ MaxJobs \in Nat /\ max_retries \in Nat /\ ConfigFiles \subseteq Files

VARIABLES
    mounted,       \* loaded_mounts: the HTTP ones, in order of priority
    made,          \* HTTP mounts made so far
    hcache, hpending, hfailed,  \* mount -> files
    transient_failures,         \* mount -> file -> count
    jobs,          \* the pool: a set of [id, m, f, prio, stream]
    job_count,
    streaming,     \* <<>> or the audio download in progress: [f, left: mounts still to try, on]
    misses,        \* history: mount -> file -> requests that failed since the last success
    touched_dead   \* history: a prefetch callback has touched a mount that was destroyed

hmVars == <<mounted, made, hcache, hpending, hfailed, transient_failures, jobs, job_count, streaming, misses, touched_dead>>

HttpMounts == 1..MaxMounts
HmInit ==
    /\ mounted = <<>> /\ made = 0 /\ jobs = {} /\ job_count = 0 /\ streaming = <<>> /\ touched_dead = FALSE
    /\ hcache = [m \in HttpMounts |-> {}] /\ hpending = hcache /\ hfailed = hcache
    /\ transient_failures = [m \in HttpMounts |-> [f \in Files |-> 0]] /\ misses = transient_failures

-----------------------------------------------------------------------------
(* MountManager: mounts of a session come and go.  A later one has the same *)
(* priority and stands behind.                                              *)
add_mount ==
    /\ made < MaxMounts /\ made' = made + 1 /\ mounted' = Append(mounted, made + 1)
    /\ UNCHANGED <<hcache, hpending, hfailed, transient_failures, jobs, job_count, streaming, misses, touched_dead>>

\* The mount is destroyed with what it cached; its requests stay in the pool.
remove_mount(m) ==
    /\ \E i \in DOMAIN mounted : mounted[i] = m /\ mounted' = RemoveAt(mounted, i)
    /\ UNCHANGED <<made, hcache, hpending, hfailed, transient_failures, jobs, job_count, streaming, misses, touched_dead>>

\* request(): not what is there, on its way or known not to exist.
Wanted(m, f) == f \notin hcache[m] \cup hpending[m] \cup hfailed[m]

TooOften(m, f) == transient_failures[m][f] >= max_retries

\* request(f) on each of the mounts ms: given up at the last retry, else pending and in the pool.
request(ms, f, prio) ==
    LET asked == {m \in ms : Wanted(m, f)}
        quit == {m \in asked : TooOften(m, f)}
        go == SetToSeq(asked \ quit)
    IN  /\ job_count + Len(go) <= MaxJobs /\ job_count' = job_count + Len(go)
        /\ jobs' = jobs \cup {[id |-> job_count + i, m |-> go[i], f |-> f, prio |-> prio, stream |-> FALSE] : i \in DOMAIN go}
        /\ hfailed' = [m \in HttpMounts |-> IF m \in quit THEN hfailed[m] \cup {f} ELSE hfailed[m]]
        /\ hpending' = [m \in HttpMounts |-> IF m \in Range(go) THEN hpending[m] \cup {f} ELSE hpending[m]]
        /\ transient_failures' = [m \in HttpMounts |-> IF m \in quit THEN [transient_failures[m] EXCEPT ![f] = 0] ELSE transient_failures[m]]
        /\ UNCHANGED <<mounted, made, hcache, streaming, misses, touched_dead>>

\* The primary is asked first; whether it has failed is looked at afterwards.
PrimaryFailed(f) == LET m == Head(mounted) IN f \in hfailed[m] \/ (Wanted(m, f) /\ TooOften(m, f))

prefetch(f, prio) ==
    /\ f \notin LocalFiles /\ mounted # <<>>
    /\ request(IF PrimaryFailed(f) THEN Range(mounted) ELSE {Head(mounted)}, f, prio)

InMounts(f) == f \in LocalFiles \/ \E m \in Range(mounted) : f \in hcache[m]

\* fetch_data of a configuration file that no mount has asks every mount that has not failed.
fetch_missing(f) ==
    /\ f \in ConfigFiles /\ ~InMounts(f) /\ mounted # <<>>
    /\ request({m \in Range(mounted) : f \notin hfailed[m]}, f, 2)

\* Decoded data needs its raw bytes no longer.
release_http(f) ==
    /\ \E m \in Range(mounted) : f \in hcache[m]
    /\ hcache' = [m \in HttpMounts |-> IF m \in Range(mounted) THEN hcache[m] \ {f} ELSE hcache[m]]
    /\ UNCHANGED <<mounted, made, hpending, hfailed, transient_failures, jobs, job_count, streaming, misses, touched_dead>>

-----------------------------------------------------------------------------
(* The callbacks. *)
alive_unchecked(m) == m <= made

alive(m) == m \in Range(mounted)

Count(fn, m, f) == [fn EXCEPT ![m][f] = @ + 1]

\* How a request ends; res is "ok", "404", "error", or "dropped" from drop_http_below.
Callback(j, res) ==
    IF alive(j.m) /\ j.f \in hpending[j.m]
    THEN /\ hpending' = [hpending EXCEPT ![j.m] = @ \ {j.f}]
         /\ hcache' = IF res = "ok" THEN [hcache EXCEPT ![j.m] = @ \cup {j.f}] ELSE hcache
         /\ hfailed' = IF res = "404" THEN [hfailed EXCEPT ![j.m] = @ \cup {j.f}] ELSE hfailed
         /\ transient_failures' = CASE res = "ok" -> [transient_failures EXCEPT ![j.m][j.f] = 0]
                                    [] res = "error" -> Count(transient_failures, j.m, j.f)
                                    [] OTHER -> transient_failures
         /\ misses' = CASE res = "ok" -> [misses EXCEPT ![j.m][j.f] = 0]
                        [] res \in {"404", "error"} -> Count(misses, j.m, j.f) [] OTHER -> misses
         /\ touched_dead' = (touched_dead \/ j.m \notin Range(mounted))
    ELSE UNCHANGED <<hpending, hcache, hfailed, transient_failures, misses, touched_dead>>

Answer(j) ==
    /\ j \in jobs /\ ~j.stream /\ jobs' = jobs \ {j}
    /\ \E res \in {"ok", "404", "error"} : Callback(j, res)
    /\ UNCHANGED <<mounted, made, job_count, streaming>>

\* One callback at a time; the queue of low priority is emptied by repetition.
DropOne(j) ==
    /\ j \in jobs /\ ~j.stream /\ j.prio = 0 /\ jobs' = jobs \ {j}
    /\ Callback(j, "dropped")
    /\ UNCHANGED <<mounted, made, job_count, streaming>>

-----------------------------------------------------------------------------
(* The audio download thread: the mounts are taken down under the lock and  *)
(* tried one after the other without it.                                    *)
StreamBegin(f) ==
    /\ streaming = <<>> /\ mounted # <<>>
    /\ streaming' = <<[f |-> f, left |-> mounted, on |-> FALSE]>>
    /\ UNCHANGED <<mounted, made, hcache, hpending, hfailed, transient_failures, jobs, job_count, misses, touched_dead>>

Current == streaming[1]
\* From the cache at once, not at all if it failed before, else through the pool.  (A mount removed meanwhile is
\* used all the same in the code; here the download ends.)
fetch_streaming ==
    /\ streaming # <<>> /\ ~Current.on
    /\ LET m == Head(Current.left) IN
       IF Current.left = <<>> \/ m \notin Range(mounted) \/ Current.f \in hcache[m]
       THEN streaming' = <<>> /\ UNCHANGED <<jobs, job_count>>
       ELSE IF Current.f \in hfailed[m] THEN streaming' = <<[Current EXCEPT !.left = Tail(@)]>> /\ UNCHANGED <<jobs, job_count>>
       ELSE /\ job_count < MaxJobs /\ job_count' = job_count + 1
            /\ jobs' = jobs \cup {[id |-> job_count + 1, m |-> m, f |-> Current.f, prio |-> 2, stream |-> TRUE]}
            /\ streaming' = <<[Current EXCEPT !.on = TRUE]>>
    /\ UNCHANGED <<mounted, made, hcache, hpending, hfailed, transient_failures, misses, touched_dead>>

StreamEnd(j) ==
    /\ j \in jobs /\ j.stream /\ jobs' = jobs \ {j}
    /\ \E res \in {"ok", "404", "error"} :
        /\ streaming' = IF res = "ok" THEN <<>> ELSE <<[Current EXCEPT !.on = FALSE, !.left = Tail(@)]>>
        /\ hfailed' = IF res = "404" THEN [hfailed EXCEPT ![j.m] = @ \cup {j.f}] ELSE hfailed
        /\ transient_failures' = IF res = "error" THEN Count(transient_failures, j.m, j.f) ELSE transient_failures
    /\ UNCHANGED <<mounted, made, hcache, hpending, job_count, misses, touched_dead>>

HmNext ==
    \/ add_mount \/ fetch_streaming \/ \E m \in HttpMounts : remove_mount(m)
    \/ \E f \in Files : fetch_missing(f) \/ release_http(f) \/ StreamBegin(f) \/ \E p \in {0, 1} : prefetch(f, p)
    \/ \E j \in jobs : Answer(j) \/ DropOne(j) \/ StreamEnd(j)

HmSpec == HmInit /\ [][HmNext]_hmVars

-----------------------------------------------------------------------------
\* A file a mount waits for is in the pool, once, and nothing else is: a drop, an answer, a retry or a second prefetch
\* leaves neither a file that is never asked for again nor two downloads of one file.
PendingIsInPool ==
    \A m \in Range(mounted) :
        /\ hpending[m] = {j.f : j \in {x \in jobs : x.m = m /\ ~x.stream}}
        /\ \A f \in hpending[m] : Cardinality({j \in jobs : j.m = m /\ j.f = f /\ ~j.stream}) = 1

\* After max_retries_ failures of a file, or one 404, a mount stops asking for it.
TriesBounded == \A m \in HttpMounts, f \in Files : misses[m][f] <= max_retries

\* The alive_ flag: no callback of a prefetch works on a mount that was removed while the request was in the pool.
NoDeadMount == ~touched_dead

\* A mount's waiting files, the pool's jobs and the retries agree, and a dead mount is left alone (request, release).
DownloadsInStep == PendingIsInPool /\ TriesBounded /\ NoDeadMount
=============================================================================
