----------------------------- MODULE HttpServer -----------------------------
(***************************************************************************)
(* The HTTP server: one poll thread that accepts, receives, validates and  *)
(* sends, and a pool of workers that run the handlers.  They meet in two   *)
(* channels: WorkItems go out, WorkResults come back with a notification.  *)
(* A request is a kind; its bytes arrive as chunks.  What carries a        *)
(* request or its response also carries its number on its connection,      *)
(* which the code does not have and no step looks at.                      *)
(***************************************************************************)
EXTENDS Integers, Sequences, SequencesExt, FiniteSets, FiniteSetsExt

CONSTANTS
    Ids,           \* connection ids, never used twice
    HttpWorkers,
    SentKinds,     \* the kinds of request the clients send
    MaxRequests    \* how many, altogether

\* What validation, routing and the handler make of a request.
Rejected == {"long", "obsfold", "chunked", "huge", "nohost"}
Handled == {"get", "close", "post", "nohandler", "throws"}
ReqKinds == Rejected \cup Handled \cup {"sse", "sse_no", "inline"}

ASSUME KindsAssumption == SentKinds \subseteq ReqKinds

VARIABLES
    completion,       \* the poller sends asynchronously (io_uring) or not (epoll)
    running,
    seen,             \* ids given out: next_conn_id
    connections,      \* id -> [recv_buf, headers_complete, dispatched, pending_send, send_keep_alive]
    inflight,         \* ids whose pending_send the kernel is reading
    streams,          \* sse_by_fd: the connections that became event streams
    open_connections,
    work_channel, result_channel,
    notified,         \* the poller's eventfd
    poll_pc,          \* "poll", or "drain" inside the loop over the results
    worker,           \* HttpWorkers -> [pc, item]
    wire,             \* id -> chunks sent by the client and not received yet
    fin,              \* id -> the client has closed: "no", "yes", "seen" once recv returned 0
    asked, answered   \* history: id -> the kinds sent, and the responses written: [k, n]

hsVars == <<completion, running, seen, connections, inflight, streams, open_connections, work_channel,
            result_channel, notified, poll_pc, worker, wire, fin, asked, answered>>

Idle == [pc |-> "check", item |-> <<>>]
Fresh == [recv_buf |-> <<>>, headers_complete |-> FALSE, dispatched |-> FALSE, pending_send |-> <<>>,
          send_keep_alive |-> FALSE]

HsInit ==
    /\ completion \in BOOLEAN /\ running = TRUE /\ seen = {} /\ connections = [c \in {} |-> Fresh]
    /\ inflight = {} /\ streams = {} /\ open_connections = 0 /\ work_channel = <<>> /\ result_channel = <<>>
    /\ notified = FALSE /\ poll_pc = "poll" /\ worker = [w \in HttpWorkers |-> Idle]
    /\ wire = [c \in Ids |-> <<>>] /\ fin = [c \in Ids |-> "no"]
    /\ asked = [c \in Ids |-> <<>>] /\ answered = [c \in Ids |-> <<>>]

-----------------------------------------------------------------------------
(* Clients. *)
Chunk(t, k, n) == [t |-> t, k |-> k, n |-> n]
ChunksOf(k, n) == <<Chunk("line", k, n), Chunk("head", k, n)>> \o (IF k = "post" THEN <<Chunk("body", k, n)>> ELSE <<>>)

AskedSoFar == MapThenSumSet(LAMBDA d : Len(asked[d]), Ids)

ClientSend(c, k) ==
    /\ c \in seen /\ fin[c] = "no"
    /\ AskedSoFar < MaxRequests
    /\ wire' = [wire EXCEPT ![c] = @ \o ChunksOf(k, Len(asked[c]) + 1)]
    /\ asked' = [asked EXCEPT ![c] = Append(@, k)]
    /\ UNCHANGED <<completion, running, seen, connections, inflight, streams, open_connections, work_channel,
                   result_channel, notified, poll_pc, worker, fin, answered>>

ClientClose(c) ==
    /\ c \in seen /\ fin[c] = "no" /\ fin' = [fin EXCEPT ![c] = "yes"]
    /\ UNCHANGED <<completion, running, seen, connections, inflight, streams, open_connections, work_channel,
                   result_channel, notified, poll_pc, worker, wire, asked, answered>>

-----------------------------------------------------------------------------
(* The poll thread. *)
Polling == running /\ poll_pc = "poll"

HttpAccept(c) ==
    /\ Polling /\ c \in Ids \ seen /\ \A d \in Ids \ seen : c <= d
    /\ seen' = seen \cup {c}
    /\ connections' = [d \in DOMAIN connections \cup {c} |-> IF d = c THEN Fresh ELSE connections[d]]
    /\ open_connections' = open_connections + 1
    /\ UNCHANGED <<completion, running, inflight, streams, work_channel, result_channel, notified, poll_pc, worker,
                   wire, fin, asked, answered>>

Without(c) == [d \in DOMAIN connections \ {c} |-> connections[d]]

\* remove_connection: out of the poller, of both maps and of the gauge.
remove_connection(c) ==
    /\ connections' = Without(c)
    /\ open_connections' = open_connections - 1

find_header_end(buf) == \E i \in DOMAIN buf : buf[i].t = "head"

\* The request the buffer starts with; the remainder of one whose beginning was discarded has no request line to parse.
FirstHead(buf) == IF buf[1].t = "line" THEN buf[1].k ELSE "torn"
Reply(buf) == [k |-> FirstHead(buf), n |-> buf[1].n]

\* 414 needs only the request line; the other rejections come with the header section.
UriTooLong(buf) == buf # <<>> /\ FirstHead(buf) = "long"
validate_raw_request(k) == k = "obsfold"
has_transfer_encoding_raw(k) == k = "chunked"
extract_content_length_raw(k) == CASE k = "post" -> 1 [] k = "huge" -> 2 [] OTHER -> 0
MaxBody == 1
validate_parsed_request(k) == k = "nohost"
BodyReceived(buf) == Cardinality({i \in DOMAIN buf : buf[i].t = "body"})

\* The two phases: complete headers are validated once, then the body is awaited and the request handed on.
Progress(conn, buf, closed) ==
    LET k == FirstHead(buf) IN
    CASE ~conn.headers_complete /\ UriTooLong(buf) -> "reject"
      [] ~find_header_end(buf) /\ ~UriTooLong(buf) -> "wait"
      [] find_header_end(buf) /\ ~conn.headers_complete
         /\ (validate_raw_request(k) \/ has_transfer_encoding_raw(k) \/ extract_content_length_raw(k) > MaxBody) -> "reject"
      [] find_header_end(buf) /\ BodyReceived(buf) < extract_content_length_raw(k) -> IF closed THEN "remove" ELSE "wait"
      [] OTHER -> IF validate_parsed_request(k) \/ k = "sse_no" \/ k = "inline" THEN "reject"
                  ELSE IF k = "sse" THEN "stream" ELSE "dispatch"

\* What the receive handler does with a connection and the bytes it now holds; a dispatched one only buffers.
Verdict(conn, buf, closed) ==
    IF closed /\ buf = <<>> THEN "remove" ELSE IF conn.dispatched THEN "wait" ELSE Progress(conn, buf, closed)

\* publish, then notify_one: it wakes a worker that is blocked, if there is one.
Dispatch(c, reply) ==
    /\ work_channel' = Append(work_channel, [id |-> c, reply |-> reply])
    /\ LET blocked == {w \in HttpWorkers : worker[w].pc = "blocked"} IN
       IF blocked = {} THEN UNCHANGED worker
       ELSE \E w \in blocked : worker' = [worker EXCEPT ![w].pc = "check"]

\* A readable descriptor: whatever has arrived is appended and the request handled as far as it goes.
Recv(c) ==
    /\ Polling /\ c \in DOMAIN connections
    /\ \E n \in 0..Len(wire[c]) :
        LET closed == fin[c] = "yes" /\ n = Len(wire[c])
            conn == connections[c]
            buf == conn.recv_buf \o SubSeq(wire[c], 1, n)
            v == Verdict(conn, buf, closed)
            kept == [conn EXCEPT !.recv_buf = buf, !.headers_complete = find_header_end(buf), !.dispatched = @ \/ v = "dispatch"]
        IN  /\ n > 0 \/ closed
            /\ wire' = [wire EXCEPT ![c] = SubSeq(@, n + 1, Len(@))]
            /\ fin' = IF closed THEN [fin EXCEPT ![c] = "seen"] ELSE fin
            /\ CASE v = "wait" -> /\ connections' = [connections EXCEPT ![c] = kept]
                                  /\ UNCHANGED <<streams, open_connections, work_channel, worker, answered>>
                 [] v = "remove" -> remove_connection(c) /\ UNCHANGED <<streams, work_channel, worker, answered>>
                 [] v = "reject" -> /\ remove_connection(c)
                                    /\ answered' = [answered EXCEPT ![c] = Append(@, Reply(buf))]
                                    /\ UNCHANGED <<streams, work_channel, worker>>
                 [] v = "stream" -> \* erased from the maps, not through remove_connection: the gauge keeps it
                                    /\ connections' = Without(c) /\ streams' = streams \cup {c}
                                    /\ answered' = [answered EXCEPT ![c] = Append(@, Reply(buf))]
                                    /\ UNCHANGED <<open_connections, work_channel, worker>>
                 [] v = "dispatch" -> /\ connections' = [connections EXCEPT ![c] = kept]
                                      /\ Dispatch(c, Reply(buf))
                                      /\ UNCHANGED <<streams, open_connections, answered>>
    /\ UNCHANGED <<completion, running, seen, inflight, result_channel, notified, poll_pc, asked>>

\* A stream's descriptor hung up.
StreamGone(c) ==
    /\ Polling /\ c \in streams /\ fin[c] = "yes"
    /\ streams' = streams \ {c} /\ fin' = [fin EXCEPT ![c] = "seen"]
    /\ UNCHANGED <<completion, running, seen, connections, inflight, open_connections, work_channel, result_channel,
                   notified, poll_pc, worker, wire, asked, answered>>

Drain ==
    /\ Polling /\ notified /\ notified' = FALSE /\ poll_pc' = "drain"
    /\ UNCHANGED <<completion, running, seen, connections, inflight, streams, open_connections, work_channel,
                   result_channel, worker, wire, fin, asked, answered>>

\* Keep-alive: the connection starts over, and what it had received meanwhile goes with the request.
Reset_flag_only(conn) == [conn EXCEPT !.dispatched = FALSE, !.pending_send = <<>>]

Reset(conn) == [conn EXCEPT !.headers_complete = FALSE, !.dispatched = FALSE, !.pending_send = <<>>, !.recv_buf = <<>>]

Sent(c, r, ok, keep) ==
    /\ answered' = IF ok THEN [answered EXCEPT ![c] = Append(@, r)] ELSE answered
    /\ IF ok /\ keep THEN /\ connections' = [connections EXCEPT ![c] = Reset(@)]
                          /\ UNCHANGED open_connections
       ELSE remove_connection(c)

\* A result whose connection is gone is dropped.
SendResult ==
    /\ running /\ poll_pc = "drain" /\ result_channel # <<>>
    /\ result_channel' = Tail(result_channel)
    /\ LET r == Head(result_channel) IN
       IF r.id \notin DOMAIN connections THEN UNCHANGED <<connections, open_connections, inflight, answered>>
       ELSE IF completion
       THEN /\ connections' = [connections EXCEPT ![r.id].pending_send = <<r.reply>>, ![r.id].send_keep_alive = r.keep,
                                                   ![r.id].dispatched = TRUE]
            /\ inflight' = inflight \cup {r.id}
            /\ UNCHANGED <<open_connections, answered>>
       ELSE \E ok \in IF fin[r.id] = "no" THEN {TRUE} ELSE BOOLEAN : Sent(r.id, r.reply, ok, r.keep) /\ UNCHANGED inflight
    /\ UNCHANGED <<completion, running, seen, streams, work_channel, notified, poll_pc, worker, wire, fin, asked>>

DrainDone ==
    /\ running /\ poll_pc = "drain" /\ result_channel = <<>> /\ poll_pc' = "poll"
    /\ UNCHANGED <<completion, running, seen, connections, inflight, streams, open_connections, work_channel,
                   result_channel, notified, worker, wire, fin, asked, answered>>

\* The completion of an asynchronous send.
SendDone(c) ==
    /\ Polling /\ c \in inflight /\ c \in DOMAIN connections
    /\ inflight' = inflight \ {c}
    /\ \E ok \in IF fin[c] = "no" THEN {TRUE} ELSE BOOLEAN :
          Sent(c, connections[c].pending_send[1], ok, connections[c].send_keep_alive)
    /\ UNCHANGED <<completion, running, seen, streams, work_channel, result_channel, notified, poll_pc, worker, wire,
                   fin, asked>>

-----------------------------------------------------------------------------
(* The workers: the predicate of the wait is evaluated, and only then does  *)
(* the worker block; the publisher does not hold work_mutex in between.     *)
WorkerCheck(w) ==
    /\ worker[w].pc = "check" /\ running
    /\ worker' = [worker EXCEPT ![w].pc = IF work_channel = <<>> THEN "blocking" ELSE "dequeue"]
    /\ UNCHANGED <<completion, running, seen, connections, inflight, streams, open_connections, work_channel,
                   result_channel, notified, poll_pc, wire, fin, asked, answered>>

WorkerBlock(w) ==
    /\ worker[w].pc = "blocking" /\ worker' = [worker EXCEPT ![w].pc = "blocked"]
    /\ UNCHANGED <<completion, running, seen, connections, inflight, streams, open_connections, work_channel,
                   result_channel, notified, poll_pc, wire, fin, asked, answered>>

\* get_event may find the queue emptied by another worker.
WorkerDequeue(w) ==
    /\ worker[w].pc = "dequeue"
    /\ IF work_channel = <<>> THEN worker' = [worker EXCEPT ![w] = Idle] /\ UNCHANGED work_channel
       ELSE /\ worker' = [worker EXCEPT ![w] = [pc |-> "busy", item |-> <<Head(work_channel)>>]]
            /\ work_channel' = Tail(work_channel)
    /\ UNCHANGED <<completion, running, seen, connections, inflight, streams, open_connections, result_channel,
                   notified, poll_pc, wire, fin, asked, answered>>

\* The handler has run (404 without one, 500 if it threw); the result is published, then the poller notified.
WorkerPublish(w) ==
    /\ worker[w].pc = "busy"
    /\ LET i == worker[w].item[1] IN
       result_channel' = Append(result_channel, [id |-> i.id, reply |-> i.reply, keep |-> i.reply.k # "close"])
    /\ worker' = [worker EXCEPT ![w].pc = "notify"]
    /\ UNCHANGED <<completion, running, seen, connections, inflight, streams, open_connections, work_channel, notified,
                   poll_pc, wire, fin, asked, answered>>

WorkerNotify(w) ==
    /\ worker[w].pc = "notify" /\ notified' = TRUE /\ worker' = [worker EXCEPT ![w] = Idle]
    /\ UNCHANGED <<completion, running, seen, connections, inflight, streams, open_connections, work_channel,
                   result_channel, poll_pc, wire, fin, asked, answered>>

\* stop(): the poll loop ends at its next turn; the workers finish what they hold and leave.
HttpStop ==
    /\ Polling /\ running' = FALSE
    /\ streams' = {}
    /\ UNCHANGED <<completion, seen, connections, inflight, open_connections, work_channel, result_channel, notified,
                   poll_pc, worker, wire, fin, asked, answered>>

WorkerStop(w) ==
    /\ ~running /\ worker[w].pc \in {"check", "blocking", "blocked"}
    /\ worker' = [worker EXCEPT ![w] = [pc |-> "stopped", item |-> <<>>]]
    /\ UNCHANGED <<completion, running, seen, connections, inflight, streams, open_connections, work_channel,
                   result_channel, notified, poll_pc, wire, fin, asked, answered>>

HsNext ==
    \/ \E c \in Ids : \/ \E k \in SentKinds : ClientSend(c, k)
                      \/ ClientClose(c) \/ HttpAccept(c) \/ Recv(c) \/ StreamGone(c) \/ SendDone(c)
    \/ Drain \/ SendResult \/ DrainDone \/ HttpStop
    \/ \E w \in HttpWorkers : WorkerCheck(w) \/ WorkerBlock(w) \/ WorkerDequeue(w) \/ WorkerPublish(w)
                              \/ WorkerNotify(w) \/ WorkerStop(w)

HsSpec == HsInit /\ [][HsNext]_hsVars

-----------------------------------------------------------------------------
(* Properties. *)

\* At any time a connection has at most one request between its dispatch and the end of its response: in the work
\* queue, in a worker, in the result queue or in the kernel (the dispatched flag of HttpConnection).
OneRequestInFlight ==
    \A c \in Ids :
        Cardinality({i \in DOMAIN work_channel : work_channel[i].id = c})
        + Cardinality({i \in DOMAIN result_channel : result_channel[i].id = c})
        + Cardinality({w \in HttpWorkers : worker[w].pc = "busy" /\ worker[w].item[1].id = c})
        + (IF c \in inflight THEN 1 ELSE 0) <= 1

\* While the kernel reads a response (io_uring keeps the pointer), the connection that owns the buffer is there and
\* still holds that response: neither a hang-up nor more input of the client may free or overwrite it.
SendBufferStable == \A c \in inflight : c \in DOMAIN connections /\ connections[c].pending_send # <<>>

\* The responses written on a connection answer its requests, each at most once and in the order they were sent;
\* requests sent before the previous response may be lost with recv_buf, or cut and answered 404.
AnswersInOrder ==
    \A c \in Ids : \A i \in DOMAIN answered[c] : answered[c][i].k # "torn" =>
        /\ answered[c][i].n \in DOMAIN asked[c] /\ answered[c][i].k = asked[c][answered[c][i].n]
        /\ \A j \in 1..(i - 1) : answered[c][j].k # "torn" => answered[c][j].n < answered[c][i].n

\* The open_connections gauge counts the requests' connections and, for good, every one that became an event stream.
GaugeExact ==
    open_connections = Cardinality(DOMAIN connections) + Cardinality({c \in Ids : \E i \in DOMAIN answered[c] : answered[c][i].k = "sse"})

\* Requests and connections stay in step between the poll thread, the workers and the kernel: one request of a
\* connection at a time, its buffer left alone, the answers in order, every connection counted.
RequestsInStep == OneRequestInFlight /\ SendBufferStable /\ AnswersInOrder /\ GaugeExact
=============================================================================
