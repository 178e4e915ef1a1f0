------------------------------- MODULE SseHub -------------------------------
(***************************************************************************)
(* Server-sent events: push_sse numbers an event, keeps it in a bounded    *)
(* buffer and writes it to the matching streams; a client that reconnects  *)
(* names the last id it saw and is sent what the buffer holds after it.    *)
(* All of it runs on the poll thread, an event at a time.                  *)
(***************************************************************************)
EXTENDS Integers, Sequences, SequencesExt, FiniteSets

CONSTANTS
    Readers,       \* clients; each stands for one session
    ReaderArea,    \* Readers -> the area in the query, "" for none
    EventAreas,    \* areas an event may be pushed to, "" for all
    BufferCap,     \* SSE_BUFFER_CAPACITY
    MaxPushed, MaxConnects

ASSUME SseAssumption == BufferCap \in Nat

VARIABLES
    sse_channel,       \* SSEEvents published and not drained yet
    next_event_id,
    sse_event_buffer,  \* [id, area, to] in order; to is kept only for the properties
    live,              \* readers with a stream the server writes to
    broken,            \* readers whose stream is cut without the server knowing
    got,               \* Readers -> ids received, over all its streams
    pushed,            \* history: every event, in order
    connects, touched  \* touched: sessions refreshed by the last keepalive

seVars == <<sse_channel, next_event_id, sse_event_buffer, live, broken, got, pushed, connects, touched>>

SeInit ==
    /\ sse_channel = <<>> /\ next_event_id = 1 /\ sse_event_buffer = <<>> /\ live = {} /\ broken = {}
    /\ got = [r \in Readers |-> <<>>] /\ pushed = <<>> /\ connects = 0 /\ touched = {}

\* Game logic publishes to the event manager; to is {} for a broadcast, else the session.
PublishSse(a, to) ==
    /\ Len(pushed) + Len(sse_channel) < MaxPushed
    /\ sse_channel' = Append(sse_channel, [area |-> a, to |-> to])
    /\ UNCHANGED <<next_event_id, sse_event_buffer, live, broken, got, pushed, connects, touched>>

AreaMatches(a, r) == a = "" \/ ReaderArea[r] = "" \/ a = ReaderArea[r]
Receivers(e) == {r \in live : (e.to = {} \/ r \in e.to) /\ AreaMatches(e.area, r)}

Kept(buf) == IF Len(buf) > BufferCap THEN Tail(buf) ELSE buf

\* The poll thread drains the channel; a stream the frame cannot be written to is dropped.
push_sse ==
    /\ sse_channel # <<>> /\ sse_channel' = Tail(sse_channel)
    /\ LET e == [id |-> next_event_id, area |-> Head(sse_channel).area, to |-> Head(sse_channel).to]
           to == Receivers(e)
       IN  /\ sse_event_buffer' = Kept(Append(sse_event_buffer, e))
           /\ pushed' = Append(pushed, e)
           /\ got' = [r \in Readers |-> IF r \in to \ broken THEN Append(got[r], e.id) ELSE got[r]]
           /\ live' = live \ (to \cap broken) /\ broken' = broken \ to
    /\ next_event_id' = next_event_id + 1
    /\ UNCHANGED <<connects, touched>>

LastId(r) == IF got[r] = <<>> THEN 0 ELSE Last(got[r])

\* The events at the places I of the buffer, as the loop over it meets them.
EventsAt(I) ==
    LET q == CHOOSE s \in SetToSeqs(I) : \A i, j \in DOMAIN s : i < j => s[i] < s[j]
    IN  [k \in DOMAIN q |-> sse_event_buffer[q[k]]]

Replay_inclusive(r, last) ==
    EventsAt({i \in DOMAIN sse_event_buffer : last > 0 /\ sse_event_buffer[i].id >= last /\ AreaMatches(sse_event_buffer[i].area, r)})

\* Nothing without a Last-Event-ID; the target of an event is not in the buffer, so it is not looked at.
Replay(r, last) ==
    EventsAt({i \in DOMAIN sse_event_buffer : last > 0 /\ sse_event_buffer[i].id > last /\ AreaMatches(sse_event_buffer[i].area, r)})

\* A stream is accepted: replay first, then the live set.  A new stream of a session whose old one is
\* still in the set is a second descriptor; readers here reconnect only after theirs was cut.
AcceptStream(r) ==
    /\ connects < MaxConnects /\ connects' = connects + 1
    /\ r \notin live
    /\ LET frames == Replay(r, LastId(r)) IN got' = [got EXCEPT ![r] = @ \o [i \in DOMAIN frames |-> frames[i].id]]
    /\ live' = live \cup {r} /\ broken' = broken \ {r}
    /\ UNCHANGED <<sse_channel, next_event_id, sse_event_buffer, pushed, touched>>

StreamCut(r) ==
    /\ r \in live \ broken /\ broken' = broken \cup {r}
    /\ UNCHANGED <<sse_channel, next_event_id, sse_event_buffer, live, got, pushed, connects, touched>>

\* The poller reports the hang-up.
StreamHangUp(r) ==
    /\ r \in live \cap broken /\ live' = live \ {r} /\ broken' = broken \ {r}
    /\ UNCHANGED <<sse_channel, next_event_id, sse_event_buffer, got, pushed, connects, touched>>

\* Every 30 s: a comment to every stream; the sessions of those that took it are refreshed.
Keepalive ==
    /\ live' = live \ broken /\ broken' = {} /\ touched' = live \ broken
    /\ UNCHANGED <<sse_channel, next_event_id, sse_event_buffer, got, pushed, connects>>

SeNext ==
    \/ push_sse \/ Keepalive
    \/ \E a \in EventAreas, to \in {{}} \cup {{r} : r \in Readers} : PublishSse(a, to)
    \/ \E r \in Readers : AcceptStream(r) \/ StreamCut(r) \/ StreamHangUp(r)

SeSpec == SeInit /\ [][SeNext]_seVars

\* Over all its streams a reader sees event ids that only grow: replay and live delivery neither repeat nor reorder.
IdsGrow == \A r \in Readers : \A i, j \in DOMAIN got[r] : i < j => got[r][i] < got[r][j]

\* A reader that saw an event misses none of its area's broadcasts up to the last it saw, except what the buffer of the
\* last events had already dropped: from any event received to the next one, at most the replay buffer's reach is lost.
NoGapWithinBuffer ==
    \A r \in live \ broken : got[r] # <<>> =>
        \A e \in Range(pushed) : (e.id > got[r][1] /\ e.to = {} /\ AreaMatches(e.area, r)
                                  /\ e.id > next_event_id - 1 - BufferCap) => e.id \in Range(got[r])

\* An event with a target token reaches only the stream of that session (SSEEvent.h), replays included.
TargetOnly == \A r \in Readers : \A e \in Range(pushed) : (e.to # {} /\ e.id \in Range(got[r])) => r \in e.to

\* Over reconnections a stream repeats nothing and misses nothing the replay buffer still held (push_sse, the replay).
StreamsComplete == IdsGrow /\ NoGapWithinBuffer
=============================================================================
