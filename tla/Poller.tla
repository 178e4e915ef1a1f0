------------------------------- MODULE Poller -------------------------------
(***************************************************************************)
(* The io_uring poller: receives run in the kernel into a pool of shared   *)
(* buffers, their completions wait in a ring that poll() empties into a    *)
(* bounded array of events, and the caller gives each buffer back.  A      *)
(* completion carries a descriptor number only; gen tells apart the        *)
(* sockets that have had the same number.                                  *)
(***************************************************************************)
EXTENDS Integers, Sequences, SequencesExt, FiniteSets

CONSTANTS
    Fds, Buffers,
    MaxEvents,     \* capacity of the caller's array
    MaxSockets,    \* registrations
    MaxRecvs       \* receives with data

\* max_events is the length of the caller's array.
ASSUME PollerAssumption == MaxEvents \in Nat

VARIABLES
    pfds,          \* fds: registered descriptor -> [gen, recv_pending]
    flight,        \* the kernel: a set of [fd, gen, op]
    ring,          \* completions not reaped yet: [fd, gen, op, res, bid]
    free_bufs,     \* the provided buffers the kernel may fill
    events,        \* what poll() has written for the caller
    poll_state,    \* "reap" inside poll(), "handle" in the caller's loop
    hungup,        \* generations whose end of stream or error was completed
    gens, recvs,
    lost           \* buffers no one will give back

poVars == <<pfds, flight, ring, free_bufs, events, poll_state, hungup, gens, recvs, lost>>

PoInit ==
    /\ pfds = [f \in {} |-> 0] /\ flight = {} /\ ring = <<>> /\ free_bufs = Buffers /\ events = <<>>
    /\ poll_state = "handle" /\ hungup = {} /\ gens = 0 /\ recvs = 0 /\ lost = {}

Op(f, g, o) == [fd |-> f, gen |-> g, op |-> o]
Cqe(o, res, b) == [fd |-> o.fd, gen |-> o.gen, op |-> o.op, res |-> res, bid |-> b]

\* add(): a connection socket is armed with a receive.
PollAdd(f) ==
    /\ poll_state = "handle" /\ f \notin DOMAIN pfds /\ gens < MaxSockets /\ gens' = gens + 1
    /\ pfds' = [x \in DOMAIN pfds \cup {f} |-> IF x = f THEN [gen |-> gens + 1, recv_pending |-> TRUE] ELSE pfds[x]]
    /\ flight' = flight \cup {Op(f, gens + 1, "recv")}
    /\ UNCHANGED <<ring, free_bufs, events, poll_state, hungup, recvs, lost>>

\* The completions of the operations of f that are cancelled.
Cancelled(f) == SetToSeq({Cqe(o, "canceled", {}) : o \in {x \in flight : x.fd = f}})

\* remove(): what is in flight is cancelled; what has completed already stays in the ring.
PollRemove(f) ==
    /\ poll_state = "handle" /\ f \in DOMAIN pfds
    /\ pfds' = [x \in DOMAIN pfds \ {f} |-> pfds[x]]
    /\ flight' = {o \in flight : o.fd # f}
    /\ ring' = ring \o Cancelled(f)
    /\ UNCHANGED <<free_bufs, events, poll_state, hungup, gens, recvs, lost>>

\* The kernel completes an operation.
KernelRecv(o) ==
    /\ o \in flight /\ o.op = "recv" /\ o.gen \notin hungup
    /\ flight' = flight \ {o}
    /\ \/ /\ free_bufs = {} /\ ring' = Append(ring, Cqe(o, "enobufs", {})) /\ UNCHANGED <<free_bufs, hungup, recvs>>
       \/ /\ recvs < MaxRecvs /\ recvs' = recvs + 1
          /\ \E b \in free_bufs : /\ free_bufs' = free_bufs \ {b}
                                  /\ ring' = Append(ring, Cqe(o, "data", {b}))
          /\ UNCHANGED hungup
       \/ /\ \E r \in {"eof", "error"} : ring' = Append(ring, Cqe(o, r, {}))
          /\ hungup' = hungup \cup {o.gen} /\ UNCHANGED <<free_bufs, recvs>>
    /\ UNCHANGED <<pfds, events, poll_state, gens, lost>>

KernelReady(o) ==
    /\ o \in flight /\ o.op = "poll"
    /\ flight' = flight \ {o} /\ ring' = Append(ring, Cqe(o, "ready", {}))
    /\ UNCHANGED <<pfds, free_bufs, events, poll_state, hungup, gens, recvs, lost>>

PollBegin ==
    /\ poll_state = "handle" /\ events = <<>> /\ ring # <<>> /\ poll_state' = "reap"
    /\ UNCHANGED <<pfds, flight, ring, free_bufs, events, hungup, gens, recvs, lost>>

\* submit_recv does nothing while a receive of the descriptor is pending.
Armed(f, g) == flight \cup {Op(f, g, "recv")}

Rearmed_no_fallback(c, g) == IF c.op = "recv" /\ c.res = "data" THEN Armed(c.fd, g) ELSE flight

\* What a completion puts back in flight: the next receive, or a poll when the buffers ran out.
Rearmed(c, g) ==
    IF c.op = "recv" THEN CASE c.res = "data" -> Armed(c.fd, g)
                            [] c.res = "enobufs" -> flight \cup {Op(c.fd, g, "poll")}
                            [] OTHER -> flight
    ELSE flight \cup {Op(c.fd, g, "poll")}

Shown(c) == c.res \in {"data", "eof", "error", "ready"}

\* A full array: the data is discarded and its buffer given back at once.
Recycled(c) == IF Len(events) >= MaxEvents THEN free_bufs \cup c.bid ELSE free_bufs

\* One completion of poll()'s loop; a descriptor that is gone is skipped, its buffer with it.
Reap ==
    /\ poll_state = "reap" /\ ring # <<>> /\ ring' = Tail(ring)
    /\ LET c == Head(ring) IN
       IF c.fd \notin DOMAIN pfds
       THEN lost' = lost \cup c.bid /\ UNCHANGED <<pfds, flight, free_bufs, events>>
       ELSE /\ flight' = Rearmed(c, pfds[c.fd].gen)
            /\ pfds' = IF c.op = "recv" THEN [pfds EXCEPT ![c.fd].recv_pending = c.res = "data"] ELSE pfds
            /\ events' = IF Shown(c) /\ Len(events) < MaxEvents THEN Append(events, c) ELSE events
            /\ free_bufs' = Recycled(c)
            /\ UNCHANGED lost
    /\ UNCHANGED <<poll_state, hungup, gens, recvs>>

PollEnd ==
    /\ poll_state = "reap" /\ ring = <<>> /\ poll_state' = "handle"
    /\ UNCHANGED <<pfds, flight, ring, free_bufs, events, hungup, gens, recvs, lost>>

\* The caller's loop: the bytes are taken and the buffer recycled, unless the descriptor is no longer known.
HandleEvent ==
    /\ poll_state = "handle" /\ events # <<>> /\ events' = Tail(events)
    /\ IF Head(events).fd \in DOMAIN pfds THEN free_bufs' = free_bufs \cup Head(events).bid /\ UNCHANGED lost
       ELSE lost' = lost \cup Head(events).bid /\ UNCHANGED free_bufs
    /\ UNCHANGED <<pfds, flight, ring, poll_state, hungup, gens, recvs>>

PoNext ==
    \/ \E f \in Fds : PollAdd(f) \/ PollRemove(f)
    \/ \E o \in flight : KernelRecv(o) \/ KernelReady(o)
    \/ PollBegin \/ Reap \/ PollEnd \/ HandleEvent

PoSpec == PoInit /\ [][PoNext]_poVars

\* A buffer the kernel may fill is in no completion and no event that still has to be read, and no two of those
\* share one: recycle_buffer is called once per delivery, also when the event array was full.
BufferHasOneOwner ==
    LET held == [i \in DOMAIN ring |-> ring[i].bid] \o [i \in DOMAIN events |-> events[i].bid] IN
    /\ \A i \in DOMAIN held : held[i] \cap (free_bufs \cup lost) = {}
    /\ \A i, j \in DOMAIN held : i # j => held[i] \cap held[j] = {}
    /\ free_bufs \cap lost = {}

\* A registered socket whose stream goes on never goes deaf: some operation of it is in flight or completed, through
\* exhausted buffers, full event arrays, cancellations and completions left over from the descriptor's last owner.
NeverDeaf ==
    \A f \in DOMAIN pfds : pfds[f].gen \notin hungup =>
        \/ \E o \in flight : o.fd = f /\ o.gen = pfds[f].gen
        \/ \E i \in DOMAIN ring : ring[i].fd = f /\ ring[i].gen = pfds[f].gen

\* Buffers and operations of the ring are accounted for: each buffer has one owner, each socket something armed.
RingSound == BufferHasOneOwner /\ NeverDeaf
=============================================================================
