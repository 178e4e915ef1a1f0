------------------------------ MODULE HttpPool ------------------------------
(***************************************************************************)
(* The pool that fetches assets: prioritised queues, workers with an       *)
(* HTTP/1.1 client each, and one shared HTTP/2 connection to the host once *)
(* HTTP/1.1 has worked.  Results wait for poll() on the owner's thread.    *)
(* Requests are numbered as they come, which the code does not do: a queue *)
(* is the set of its requests and its front the least number; results and  *)
(* callbacks are counted for each request.                                 *)
(***************************************************************************)
EXTENDS Integers, FiniteSets, Sequences

CONSTANTS
    Fetchers,      \* worker threads
    Priorities,    \* a range of Nat, higher first
    MaxFetches, MaxH2  \* requests made, HTTP/2 connections made

ASSUME HpAssumption == MaxFetches \in Nat /\ Priorities \subseteq Nat

VARIABLES
    work_queues,   \* Priorities -> set of requests [n, streaming]
    fetcher,       \* Fetchers -> [pc, req, h2: the connection it was handed]
    h2_host,       \* subset of {"eligible", "failed", "connecting"}
    h2_conn,       \* h2_connections_: <<>> or <<connection number>>
    h2,            \* connection number -> [alive, streams]
    result_queue,  \* request -> its results that wait for poll()
    pending,       \* pending_
    fetches,       \* requests made so far
    called,        \* history: request -> the times its callback ran
    pool_stopped

hpVars == <<work_queues, fetcher, h2_host, h2_conn, h2, result_queue, pending, fetches, called, pool_stopped>>

Numbers == 1..MaxFetches
NoFetch == [pc |-> "idle", req |-> <<>>, h2 |-> 0]

HpInit ==
    /\ work_queues = [p \in Priorities |-> {}] /\ fetcher = [w \in Fetchers |-> NoFetch] /\ h2_host = {}
    /\ h2_conn = <<>> /\ h2 = <<>> /\ result_queue = [n \in Numbers |-> 0] /\ pending = 0 /\ fetches = 0
    /\ called = [n \in Numbers |-> 0] /\ pool_stopped = FALSE

\* The requests in s are counted once more in f.
Counting(f, s) == [n \in Numbers |-> IF n \in s THEN f[n] + 1 ELSE f[n]]

PoolGet(p, streaming) ==
    /\ fetches < MaxFetches /\ ~pool_stopped /\ fetches' = fetches + 1 /\ pending' = pending + 1
    /\ work_queues' = [work_queues EXCEPT ![p] = @ \cup {[n |-> fetches + 1, streaming |-> streaming]}]
    /\ UNCHANGED <<fetcher, h2_host, h2_conn, h2, result_queue, called, pool_stopped>>

NumbersOf(s) == {r.n : r \in s}

drop_below(t) ==
    LET low == {p \in Priorities : p < t}
        dropped == NumbersOf(UNION {work_queues[p] : p \in low})
    IN  /\ dropped # {}
        /\ work_queues' = [p \in Priorities |-> IF p \in low THEN {} ELSE work_queues[p]]
        /\ pending' = pending - Cardinality(dropped)
        /\ called' = Counting(called, dropped)
        /\ UNCHANGED <<fetcher, h2_host, h2_conn, h2, result_queue, fetches, pool_stopped>>

\* poll(): the batch is swapped out and its callbacks run.
PoolPoll ==
    /\ \E n \in Numbers : result_queue[n] # 0
    /\ called' = [n \in Numbers |-> called[n] + result_queue[n]]
    /\ result_queue' = [n \in Numbers |-> 0]
    /\ UNCHANGED <<work_queues, fetcher, h2_host, h2_conn, h2, pending, fetches, pool_stopped>>

Oldest(s) == {r \in s : \A q \in s : r.n <= q.n}

pop_highest(w) ==
    /\ fetcher[w].pc = "idle" /\ ~pool_stopped
    /\ \E p \in Priorities : \E r \in Oldest(work_queues[p]) :
        /\ \A q \in Priorities : q > p => work_queues[q] = {}
        /\ work_queues' = [work_queues EXCEPT ![p] = @ \ {r}]
        /\ fetcher' = [fetcher EXCEPT ![w] = [pc |-> IF r.streaming THEN "h1" ELSE "choose", req |-> <<r>>, h2 |-> 0]]
    /\ UNCHANGED <<h2_host, h2_conn, h2, result_queue, pending, fetches, called, pool_stopped>>

Held(c) == \E w \in Fetchers : fetcher[w].h2 = c

\* The callback of an HTTP/2 request: a result for poll(), and one request less to wait for.
Deliver(s) == result_queue' = Counting(result_queue, s) /\ pending' = pending - Cardinality(s)

\* get_h2 under h2_mutex_: a dead connection is erased, which joins its I/O thread, whose end fails every stream,
\* unless someone still holds it.
Choose(w) ==
    /\ fetcher[w].pc = "choose"
    /\ LET dead == h2_conn # <<>> /\ ~h2[h2_conn[1]].alive
           ended == IF dead /\ ~Held(h2_conn[1]) THEN {h2_conn[1]} ELSE {}
       IN  /\ h2_conn' = IF dead THEN <<>> ELSE h2_conn
           /\ Deliver(UNION {h2[c].streams : c \in ended})
           /\ h2' = [c \in DOMAIN h2 |-> IF c \in ended THEN [alive |-> FALSE, streams |-> {}] ELSE h2[c]]
           /\ IF "failed" \in h2_host
              THEN fetcher' = [fetcher EXCEPT ![w].pc = "h1"] /\ UNCHANGED h2_host
              ELSE IF h2_conn # <<>> /\ ~dead
              THEN fetcher' = [fetcher EXCEPT ![w].pc = "submit", ![w].h2 = h2_conn[1]] /\ UNCHANGED h2_host
              ELSE IF "eligible" \notin h2_host \/ "connecting" \in h2_host
              THEN fetcher' = [fetcher EXCEPT ![w].pc = "h1"] /\ UNCHANGED h2_host
              ELSE fetcher' = [fetcher EXCEPT ![w].pc = "connect"] /\ h2_host' = h2_host \cup {"connecting"}
    /\ UNCHANGED <<work_queues, fetches, called, pool_stopped>>

\* Connecting happens outside the lock; no ALPN, or an error, rules HTTP/2 out for good.
H2Connect(w) ==
    /\ fetcher[w].pc = "connect"
    /\ \/ /\ Len(h2) < MaxH2
          /\ h2' = Append(h2, [alive |-> TRUE, streams |-> {}]) /\ h2_conn' = <<Len(h2) + 1>>
          /\ h2_host' = h2_host \ {"connecting"}
          /\ fetcher' = [fetcher EXCEPT ![w].pc = "submit", ![w].h2 = Len(h2) + 1]
       \/ /\ h2_host' = (h2_host \ {"connecting"}) \cup {"failed"}
          /\ fetcher' = [fetcher EXCEPT ![w].pc = "h1"] /\ UNCHANGED <<h2, h2_conn>>
    /\ UNCHANGED <<work_queues, result_queue, pending, fetches, called, pool_stopped>>

\* submit_get_async: a stream, or the callback at once when the connection has died meanwhile or refuses the stream.
SubmitAsync(w) ==
    /\ fetcher[w].pc = "submit" /\ fetcher' = [fetcher EXCEPT ![w] = NoFetch]
    /\ LET c == fetcher[w].h2
           n == fetcher[w].req[1].n
       IN  \/ /\ h2[c].alive
              /\ h2' = [h2 EXCEPT ![c].streams = @ \cup {n}]
              /\ UNCHANGED <<result_queue, pending>>
           \/ Deliver({n}) /\ UNCHANGED h2
    /\ UNCHANGED <<work_queues, h2_host, h2_conn, fetches, called, pool_stopped>>

\* The HTTP/1.1 answer, or its error; a streaming request is called back from here, on the worker.
H1Done(w) ==
    /\ fetcher[w].pc = "h1"
    /\ \E ok \in BOOLEAN :
        h2_host' = IF ok /\ "failed" \notin h2_host /\ ~pool_stopped THEN h2_host \cup {"eligible"} ELSE h2_host
    /\ LET r == fetcher[w].req[1]
       IN  /\ called' = IF r.streaming /\ ~pool_stopped THEN Counting(called, {r.n}) ELSE called
           /\ result_queue' = IF r.streaming \/ pool_stopped THEN result_queue ELSE Counting(result_queue, {r.n})
    /\ pending' = pending - 1
    /\ fetcher' = [fetcher EXCEPT ![w] = NoFetch]
    /\ UNCHANGED <<work_queues, h2_conn, h2, fetches, pool_stopped>>

-----------------------------------------------------------------------------
(* The HTTP/2 connection's I/O thread. *)
StreamClose(c, n) ==
    /\ n \in h2[c].streams /\ h2' = [h2 EXCEPT ![c].streams = @ \ {n}]
    /\ Deliver({n})
    /\ UNCHANGED <<work_queues, fetcher, h2_host, h2_conn, fetches, called, pool_stopped>>

GoAway(c) ==
    /\ h2[c].alive /\ h2' = [h2 EXCEPT ![c].alive = FALSE]
    /\ UNCHANGED <<work_queues, fetcher, h2_host, h2_conn, result_queue, pending, fetches, called, pool_stopped>>

\* io_loop leaves: alive_ is cleared before the lock is taken, so no stream can follow the ones it fails here.
IoExit_late(c) ==
    /\ h2[c].streams # {} /\ Deliver(h2[c].streams)
    /\ UNCHANGED <<work_queues, fetcher, h2_host, h2_conn, h2, fetches, called, pool_stopped>>

IoExit(c) ==
    /\ h2[c].alive \/ h2[c].streams # {}
    /\ Deliver(h2[c].streams)
    /\ h2' = [h2 EXCEPT ![c] = [alive |-> FALSE, streams |-> {}]]
    /\ UNCHANGED <<work_queues, fetcher, h2_host, h2_conn, fetches, called, pool_stopped>>

\* stop(): the queues are cleared without a word to their callers, the connections shut down.
PoolStop ==
    /\ ~pool_stopped /\ pool_stopped' = TRUE
    /\ work_queues' = [p \in Priorities |-> {}] /\ h2_host' = {} /\ h2_conn' = <<>>
    /\ h2' = [c \in DOMAIN h2 |-> [alive |-> FALSE, streams |-> h2[c].streams]]
    /\ UNCHANGED <<fetcher, result_queue, pending, fetches, called>>

HpNext ==
    \/ \E p \in Priorities : drop_below(p) \/ \E s \in BOOLEAN : PoolGet(p, s)
    \/ PoolPoll \/ PoolStop
    \/ \E w \in Fetchers : pop_highest(w) \/ Choose(w) \/ H2Connect(w) \/ SubmitAsync(w) \/ H1Done(w)
    \/ \E c \in DOMAIN h2 : GoAway(c) \/ IoExit(c) \/ \E n \in 1..fetches : StreamClose(c, n)

HpSpec == HpInit /\ [][HpNext]_hpVars

-----------------------------------------------------------------------------
Answers(n) == result_queue[n] + called[n]
Queues(n) == {p \in Priorities : n \in NumbersOf(work_queues[p])}
Working(n) == {w \in Fetchers : fetcher[w].req # <<>> /\ fetcher[w].req[1].n = n}
Streaming(n) == {c \in DOMAIN h2 : n \in h2[c].streams}

\* Until the pool is stopped every request is in one place: a queue, a worker, an HTTP/2 stream, the result queue, or
\* called back, once: it is neither lost nor answered twice, whichever way its connection ends.
FetchInOnePlace ==
    ~pool_stopped => \A n \in 1..fetches :
        Cardinality(Queues(n)) + Cardinality(Working(n)) + Cardinality(Streaming(n)) + Answers(n) = 1

Unanswered == {n \in 1..fetches : Answers(n) = 0}

\* pending() is what callers wait on: until the pool is stopped it is the number of requests without an answer yet.
PendingExact == ~pool_stopped => pending = Cardinality(Unanswered)

\* Every request of the pool is accounted for, in its place and in pending() (get, submit, the I/O thread's end).
FetchesAccounted == FetchInOnePlace /\ PendingExact
=============================================================================
