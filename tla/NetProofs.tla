----------------------------- MODULE NetProofs -----------------------------
(***************************************************************************)
(* The network layer.  The io_uring poller, for any number of descriptors, *)
(* buffers, events and receives: every receive buffer has one owner, and   *)
(* no registered socket is left with nothing in flight.  The server-sent   *)
(* events, for any number of readers and events and any buffer: a reader   *)
(* that reconnects is sent what it missed, once and in order.  The         *)
(* address of a request, for any trusted networks, preambles and chains.   *)
(* The HTTP server, for any number of connections, workers and requests:   *)
(* a connection has one request on its way, and answers in order.  The     *)
(* pool of fetches, for any workers, priorities and requests: each is in   *)
(* one place and answered once, and pending() is exact.                    *)
(***************************************************************************)
EXTENDS Poller, SseHub, ProxyAddr, HttpServer, HttpPool, DataLemmas

-----------------------------------------------------------------------------
(* The inductive invariant. *)
Operations == [fd : Fds, gen : Nat, op : {"recv", "poll"}]
Results == {"data", "enobufs", "eof", "error", "canceled", "ready"}
Completions == [fd : Fds, gen : Nat, op : {"recv", "poll"}, res : Results, bid : SUBSET Buffers]

PoTypeOK ==
    /\ gens \in Nat
    /\ DOMAIN pfds \subseteq Fds
    /\ \A f \in DOMAIN pfds : pfds[f] \in [gen : Nat, recv_pending : BOOLEAN]
    /\ flight \subseteq Operations /\ IsFiniteSet(flight)
    /\ ring \in Seq(Completions) /\ events \in Seq(Completions)
    /\ free_bufs \subseteq Buffers /\ lost \subseteq Buffers

\* Numbers are given out once: nothing in flight or completed is younger than the last registration.
GensInv ==
    /\ \A f \in DOMAIN pfds : pfds[f].gen <= gens
    /\ \A o \in flight : o.gen <= gens
    /\ \A i \in DOMAIN ring : ring[i].gen <= gens

\* What a completion says about its socket: only data comes with a buffer, an end of stream has been recorded, and
\* a cancelled operation belongs to an earlier owner of its descriptor.
CompletionInv(c) ==
    /\ c.bid # {} => c.res = "data"
    /\ c.res = "ready" => c.op = "poll"
    /\ c.res \in {"eof", "error"} => c.gen \in hungup
    /\ (c.res = "canceled" /\ c.fd \in DOMAIN pfds) => c.gen < pfds[c.fd].gen

CompletionsInv == \A i \in DOMAIN ring : CompletionInv(ring[i])

\* BufferHasOneOwner, without the concatenation.
BuffersInv ==
    /\ free_bufs \cap lost = {}
    /\ \A i \in DOMAIN ring : ring[i].bid \cap (free_bufs \cup lost) = {}
    /\ \A i \in DOMAIN events : events[i].bid \cap (free_bufs \cup lost) = {}
    /\ \A i, j \in DOMAIN ring : i # j => ring[i].bid \cap ring[j].bid = {}
    /\ \A i, j \in DOMAIN events : i # j => events[i].bid \cap events[j].bid = {}
    /\ \A i \in DOMAIN ring, j \in DOMAIN events : ring[i].bid \cap events[j].bid = {}

PollerInv == PoTypeOK /\ GensInv /\ CompletionsInv /\ BuffersInv /\ NeverDeaf

-----------------------------------------------------------------------------
(* Completions and the lists that hold them. *)
LEMMA OpFields ==
    ASSUME NEW f \in Fds, NEW g \in Nat, NEW o \in {"recv", "poll"}
    PROVE  Op(f, g, o) \in Operations /\ Op(f, g, o).fd = f /\ Op(f, g, o).gen = g /\ Op(f, g, o).op = o
BY DEF Op, Operations

LEMMA CqeFields ==
    ASSUME NEW o \in Operations, NEW res \in Results, NEW b \in SUBSET Buffers
    PROVE  /\ Cqe(o, res, b) \in Completions /\ Cqe(o, res, b).fd = o.fd /\ Cqe(o, res, b).gen = o.gen
           /\ Cqe(o, res, b).op = o.op /\ Cqe(o, res, b).res = res /\ Cqe(o, res, b).bid = b
BY DEF Cqe, Operations, Completions

\* Each place of a list that has grown by one holds what it held, or is the new last one.
LEMMA AppendCases ==
    ASSUME NEW S, NEW s \in Seq(S), NEW e \in S
    PROVE  /\ DOMAIN s \subseteq DOMAIN Append(s, e)
           /\ \A i \in DOMAIN Append(s, e) : \/ i \in DOMAIN s /\ Append(s, e)[i] = s[i]
                                             \/ i \notin DOMAIN s /\ i = Len(s) + 1 /\ Append(s, e)[i] = e
BY ToSetAppend

LEMMA ConcatCases ==
    ASSUME NEW S, NEW s \in Seq(S), NEW t \in Seq(S), NEW u, u = s \o t
    PROVE  /\ u \in Seq(S) /\ DOMAIN s \subseteq DOMAIN u
           /\ \A i \in DOMAIN u : \/ i \in DOMAIN s /\ u[i] = s[i]
                                  \/ i - Len(s) \in DOMAIN t /\ u[i] = t[i - Len(s)]
OBVIOUS

\* What remove() adds to the ring: the cancelled operations of f.
LEMMA CancelledList ==
    ASSUME NEW f, PoTypeOK
    PROVE  /\ Cancelled(f) \in Seq(Completions)
           /\ \A i \in DOMAIN Cancelled(f) : \E o \in flight : o.fd = f /\ Cancelled(f)[i] = Cqe(o, "canceled", {})
<1> DEFINE Mine == {x \in flight : x.fd = f}
           Gone == {Cqe(o, "canceled", {}) : o \in Mine}
<1>1. IsFiniteSet(flight) /\ flight \subseteq Operations
  BY DEF PoTypeOK
<1>2. IsFiniteSet(Mine)
  BY <1>1, FS_Subset
<1>3. IsFiniteSet(Gone)
  <2> DEFINE h == [o \in Mine |-> Cqe(o, "canceled", {})]
  <2>1. h \in Surjection(Mine, Gone)
    BY DEF Surjection
  <2> QED
    BY <1>2, <2>1, FS_Surjection
<1>4. Gone \subseteq Completions
  BY <1>1, CqeFields DEF Results
<1>5. SetToSeq(Gone) \in Seq(Gone)
  BY <1>3, SetToSeqLists
<1>6. Cancelled(f) \in Seq(Gone)
  BY <1>5 DEF Cancelled
<1>7. Cancelled(f) \in Seq(Completions) /\ \A i \in DOMAIN Cancelled(f) : Cancelled(f)[i] \in Gone
  BY <1>4, <1>6
<1> QED
  BY <1>7

\* The ring after remove(): the completions that were there, then those.
AfterRemove(new, f) ==
    /\ new \in Seq(Completions) /\ DOMAIN ring \subseteq DOMAIN new
    /\ \A i \in DOMAIN ring : new[i] = ring[i]
    /\ \A i \in DOMAIN new : \/ i \in DOMAIN ring /\ new[i] = ring[i]
                             \/ /\ i \notin DOMAIN ring
                                /\ \E o \in flight : o.fd = f /\ new[i] = Cqe(o, "canceled", {})

LEMMA CancelledRing ==
    ASSUME NEW f, PoTypeOK, NEW new, new = ring \o Cancelled(f)
    PROVE  AfterRemove(new, f)
<1>1. PICK q \in Seq(Completions) : /\ new = ring \o q
                                    /\ \A i \in DOMAIN q : \E o \in flight : o.fd = f /\ q[i] = Cqe(o, "canceled", {})
  BY CancelledList
<1>2. ring \in Seq(Completions)
  BY DEF PoTypeOK
<1>3. \A i \in DOMAIN ring : new[i] = ring[i]
  BY <1>1, <1>2
<1>4. /\ new \in Seq(Completions) /\ DOMAIN ring \subseteq DOMAIN new
      /\ \A i \in DOMAIN new : \/ i \in DOMAIN ring /\ new[i] = ring[i]
                               \/ i - Len(ring) \in DOMAIN q /\ new[i] = q[i - Len(ring)]
  BY <1>1, <1>2, ConcatCases
<1> QED
  BY <1>1, <1>3, <1>4 DEF AfterRemove

LEMMA RingEntries ==
    ASSUME PoTypeOK
    PROVE  /\ \A i \in DOMAIN ring : ring[i] \in Completions /\ ring[i].gen \in Nat /\ ring[i].fd \in Fds
           /\ \A i \in DOMAIN events : events[i] \in Completions
<1>1. ring \in Seq(Completions) /\ events \in Seq(Completions)
  BY DEF PoTypeOK
<1>2. /\ \A i \in DOMAIN ring : ring[i] \in Completions
      /\ \A i \in DOMAIN events : events[i] \in Completions
  BY <1>1, SeqIsFunction
<1> QED
  BY <1>2 DEF Completions

-----------------------------------------------------------------------------
(* The initial state, and what is put back in flight. *)
LEMMA PoInitInv == PoInit => PollerInv
<1> SUFFICES ASSUME PoInit PROVE PollerInv
  OBVIOUS
<1> USE DEF PoInit
<1>1. PoTypeOK
  BY FS_EmptySet DEF PoTypeOK
<1>2. GensInv /\ CompletionsInv /\ BuffersInv /\ NeverDeaf
  BY DEF GensInv, CompletionsInv, BuffersInv, NeverDeaf
<1> QED
  BY <1>1, <1>2 DEF PollerInv

LEMMA RearmedType ==
    ASSUME PoTypeOK, NEW c \in Completions, NEW g \in Nat
    PROVE  /\ Rearmed(c, g) \subseteq Operations /\ IsFiniteSet(Rearmed(c, g)) /\ flight \subseteq Rearmed(c, g)
           /\ \A o \in Rearmed(c, g) : o \in flight \/ (o.fd = c.fd /\ o.gen = g)
           /\ (c.op = "poll" \/ c.res \in {"data", "enobufs"}) => \E o \in Rearmed(c, g) : o.fd = c.fd /\ o.gen = g
<1> DEFINE r == Op(c.fd, g, "recv")
           p == Op(c.fd, g, "poll")
<1>1. c.fd \in Fds /\ c.op \in {"recv", "poll"}
  BY DEF Completions
<1>2. r \in Operations /\ r.fd = c.fd /\ r.gen = g /\ p \in Operations /\ p.fd = c.fd /\ p.gen = g
  BY <1>1, OpFields
<1> HIDE DEF r, p
<1>3. flight \subseteq Operations /\ IsFiniteSet(flight) /\ IsFiniteSet(flight \cup {r}) /\ IsFiniteSet(flight \cup {p})
  BY FS_AddElement DEF PoTypeOK
<1>4. \/ Rearmed(c, g) = flight /\ c.op = "recv" /\ c.res \notin {"data", "enobufs"}
      \/ Rearmed(c, g) = flight \cup {r}
      \/ Rearmed(c, g) = flight \cup {p}
  BY <1>1 DEF Rearmed, Armed, r, p
<1> QED
  BY <1>2, <1>3, <1>4

-----------------------------------------------------------------------------
(* The invariant is kept by every step. *)
LEMMA AddKeeps ==
    ASSUME PollerInv, NEW f \in Fds, PollAdd(f)
    PROVE  PollerInv'
<1> DEFINE new == Op(f, gens + 1, "recv")
<1>1. /\ f \notin DOMAIN pfds /\ gens' = gens + 1 /\ flight' = flight \cup {new}
      /\ DOMAIN pfds' = DOMAIN pfds \cup {f} /\ pfds'[f] = [gen |-> gens + 1, recv_pending |-> TRUE]
      /\ \A x \in DOMAIN pfds : x # f /\ pfds'[x] = pfds[x]
      /\ UNCHANGED <<ring, free_bufs, events, poll_state, hungup, recvs, lost>>
  BY DEF PollAdd
<1>2. gens \in Nat /\ flight \subseteq Operations /\ IsFiniteSet(flight) /\ DOMAIN pfds \subseteq Fds
      /\ ring \in Seq(Completions)
  BY DEF PollerInv, PoTypeOK
<1>3. new \in Operations /\ new.fd = f /\ new.gen = gens + 1
  BY <1>2, OpFields
<1> HIDE DEF new
<1>4. PoTypeOK'
  <2>1. IsFiniteSet(flight')
    BY <1>1, <1>2, FS_AddElement
  <2>2. \A x \in DOMAIN pfds' : pfds'[x] \in [gen : Nat, recv_pending : BOOLEAN]
    <3>1. pfds'[f] \in [gen : Nat, recv_pending : BOOLEAN]
      BY <1>1, <1>2
    <3>2. \A x \in DOMAIN pfds : pfds'[x] \in [gen : Nat, recv_pending : BOOLEAN]
      BY <1>1 DEF PollerInv, PoTypeOK
    <3> QED
      BY <1>1, <3>1, <3>2
  <2> QED
    BY <1>1, <1>2, <1>3, <2>1, <2>2 DEF PollerInv, PoTypeOK
<1>5. GensInv'
  <2>1. \A x \in DOMAIN pfds : pfds[x].gen \in Nat /\ pfds[x].gen <= gens
    BY DEF PollerInv, PoTypeOK, GensInv
  <2>2. \A x \in DOMAIN pfds' : pfds'[x].gen <= gens'
    BY <1>1, <1>2, <2>1
  <2>3. \A o \in flight : o.gen \in Nat /\ o.gen <= gens
    BY <1>2 DEF PollerInv, GensInv, Operations
  <2>4. \A o \in flight' : o.gen <= gens'
    BY <1>1, <1>2, <1>3, <2>3
  <2>5. \A i \in DOMAIN ring : ring[i].gen \in Nat /\ ring[i].gen <= gens
    BY RingEntries DEF PollerInv, GensInv
  <2> QED
    BY <1>1, <1>2, <2>2, <2>4, <2>5 DEF GensInv
<1>6. CompletionsInv'
  <2> SUFFICES ASSUME NEW i \in DOMAIN ring PROVE CompletionInv(ring[i])'
    BY <1>1 DEF CompletionsInv
  <2>1. CompletionInv(ring[i]) /\ ring[i].gen \in Nat /\ ring[i].gen <= gens
    BY RingEntries DEF PollerInv, CompletionsInv, GensInv
  <2>2. ASSUME ring[i].fd = f PROVE ring[i].gen < pfds'[f].gen
    BY <1>1, <1>2, <2>1
  <2> QED
    BY <1>1, <2>1, <2>2 DEF CompletionInv
<1>7. BuffersInv'
  BY <1>1 DEF PollerInv, BuffersInv
<1>8. NeverDeaf'
  <2> SUFFICES ASSUME NEW x \in DOMAIN pfds', pfds'[x].gen \notin hungup'
               PROVE  \/ \E o \in flight' : o.fd = x /\ o.gen = pfds'[x].gen
                      \/ \E i \in DOMAIN ring' : ring'[i].fd = x /\ ring'[i].gen = pfds'[x].gen
    BY DEF NeverDeaf
  <2>1. CASE x = f
    BY <1>1, <1>3, <2>1
  <2>2. CASE x # f
    BY <1>1, <2>2 DEF PollerInv, NeverDeaf
  <2> QED
    BY <2>1, <2>2
<1> QED
  BY <1>4, <1>5, <1>6, <1>7, <1>8 DEF PollerInv

LEMMA RemoveKeeps ==
    ASSUME PollerInv, NEW f \in Fds, PollRemove(f)
    PROVE  PollerInv'
<1>1. /\ DOMAIN pfds' = DOMAIN pfds \ {f} /\ \A x \in DOMAIN pfds' : pfds'[x] = pfds[x]
      /\ flight' = {o \in flight : o.fd # f} /\ ring' = ring \o Cancelled(f)
      /\ UNCHANGED <<free_bufs, events, poll_state, hungup, gens, recvs, lost>>
  BY DEF PollRemove
<1>2. gens \in Nat /\ flight \subseteq Operations /\ IsFiniteSet(flight) /\ ring \in Seq(Completions) /\ PoTypeOK
  BY DEF PollerInv, PoTypeOK
<1>3. AfterRemove(ring', f)
  BY <1>1, <1>2, CancelledRing
<1>4. \A o \in flight : LET c == Cqe(o, "canceled", {}) IN
          c.fd = o.fd /\ c.gen = o.gen /\ c.res = "canceled" /\ c.bid = {}
  BY <1>2, CqeFields DEF Results
<1>5. \A i \in DOMAIN ring' : \/ i \in DOMAIN ring /\ ring'[i] = ring[i]
                              \/ /\ i \notin DOMAIN ring /\ ring'[i].fd = f /\ ring'[i].bid = {}
                                 /\ ring'[i].res = "canceled" /\ ring'[i].gen <= gens
  BY <1>3, <1>4 DEF PollerInv, GensInv, AfterRemove
<1>6. PoTypeOK'
  <2>1. IsFiniteSet(flight')
    BY <1>1, <1>2, FS_Subset
  <2> QED
    BY <1>1, <1>2, <1>3, <2>1 DEF PoTypeOK, AfterRemove
<1>7. GensInv'
  BY <1>1, <1>5 DEF PollerInv, GensInv
<1>8. CompletionsInv'
  <2> SUFFICES ASSUME NEW i \in DOMAIN ring' PROVE CompletionInv(ring[i])'
    BY DEF CompletionsInv
  <2>1. CASE i \in DOMAIN ring /\ ring'[i] = ring[i]
    BY <1>1, <2>1 DEF PollerInv, CompletionsInv, CompletionInv
  <2>2. CASE ring'[i].fd = f /\ ring'[i].bid = {} /\ ring'[i].res = "canceled"
    BY <1>1, <2>2 DEF CompletionInv
  <2> QED
    BY <1>5, <2>1, <2>2
<1>9. BuffersInv'
  BY <1>1, <1>5 DEF PollerInv, BuffersInv
<1>10. NeverDeaf'
  <2> SUFFICES ASSUME NEW x \in DOMAIN pfds', pfds'[x].gen \notin hungup'
               PROVE  \/ \E o \in flight' : o.fd = x /\ o.gen = pfds'[x].gen
                      \/ \E i \in DOMAIN ring' : ring'[i].fd = x /\ ring'[i].gen = pfds'[x].gen
    BY DEF NeverDeaf
  <2>1. x \in DOMAIN pfds /\ x # f /\ pfds'[x] = pfds[x] /\ pfds[x].gen \notin hungup
    BY <1>1
  <2>2. CASE \E o \in flight : o.fd = x /\ o.gen = pfds[x].gen
    BY <1>1, <2>1, <2>2
  <2>3. CASE \E i \in DOMAIN ring : ring[i].fd = x /\ ring[i].gen = pfds[x].gen
    BY <1>3, <2>1, <2>3 DEF AfterRemove
  <2> QED
    BY <2>1, <2>2, <2>3 DEF PollerInv, NeverDeaf
<1> QED
  BY <1>6, <1>7, <1>8, <1>9, <1>10 DEF PollerInv

\* A completion of one operation, moved from the kernel to the ring: what KernelRecv and KernelReady share.
Completed(o, c) ==
    /\ flight' = flight \ {o} /\ ring' = Append(ring, c)
    /\ UNCHANGED <<pfds, events, gens, lost>>

LEMMA CompletedKeeps ==
    ASSUME PollerInv, NEW o \in flight, NEW c \in Completions, Completed(o, c),
           c.fd = o.fd, c.gen = o.gen, hungup \subseteq hungup', free_bufs' \subseteq free_bufs,
           c.res # "canceled", c.bid # {} => c.res = "data", c.res = "ready" => c.op = "poll",
           c.res \in {"eof", "error"} => c.gen \in hungup', c.bid \subseteq free_bufs, c.bid \cap free_bufs' = {}
    PROVE  PollerInv'
<1>1. /\ flight' = flight \ {o} /\ ring' = Append(ring, c)
      /\ pfds' = pfds /\ events' = events /\ gens' = gens /\ lost' = lost
  BY DEF Completed
<1>2. ring \in Seq(Completions) /\ PoTypeOK
  BY DEF PollerInv, PoTypeOK
<1>3. /\ ring' \in Seq(Completions) /\ DOMAIN ring \subseteq DOMAIN ring' /\ Len(ring) + 1 \in DOMAIN ring'
      /\ ring'[Len(ring) + 1] = c
      /\ \A i \in DOMAIN ring : ring'[i] = ring[i]
      /\ \A i \in DOMAIN ring' : i \in DOMAIN ring \/ (i \notin DOMAIN ring /\ i = Len(ring) + 1)
  BY <1>1, <1>2, ToSetAppend
<1>4. PoTypeOK'
  <2>1. IsFiniteSet(flight') /\ flight' \subseteq Operations
    BY <1>1, <1>2, FS_Subset DEF PoTypeOK
  <2> QED
    BY <1>1, <1>2, <1>3, <2>1 DEF PoTypeOK
<1>5. GensInv'
  BY <1>1, <1>3 DEF PollerInv, GensInv
<1>6. CompletionsInv'
  <2> SUFFICES ASSUME NEW i \in DOMAIN ring' PROVE CompletionInv(ring[i])'
    BY DEF CompletionsInv
  <2>1. CASE i \in DOMAIN ring
    BY <1>1, <1>3, <2>1 DEF PollerInv, CompletionsInv, CompletionInv
  <2>2. CASE i = Len(ring) + 1
    BY <1>3, <2>2 DEF CompletionInv
  <2> QED
    BY <1>3, <2>1, <2>2
<1>7. BuffersInv'
  <2>1. \A i \in DOMAIN ring : ring[i].bid \cap c.bid = {}
    BY DEF PollerInv, BuffersInv
  <2>2. \A i \in DOMAIN events : events[i].bid \cap c.bid = {}
    BY DEF PollerInv, BuffersInv
  <2>3. c.bid \cap lost = {}
    BY DEF PollerInv, BuffersInv
  <2>4. \A i \in DOMAIN ring' : ring'[i].bid \cap (free_bufs' \cup lost) = {}
    BY <1>3, <2>3 DEF PollerInv, BuffersInv
  <2>5. \A i, j \in DOMAIN ring' : i # j => ring'[i].bid \cap ring'[j].bid = {}
    BY <1>3, <2>1 DEF PollerInv, BuffersInv
  <2>6. \A i \in DOMAIN ring', j \in DOMAIN events : ring'[i].bid \cap events[j].bid = {}
    BY <1>3, <2>2 DEF PollerInv, BuffersInv
  <2> QED
    BY <1>1, <2>4, <2>5, <2>6 DEF PollerInv, BuffersInv
<1>8. NeverDeaf'
  <2> SUFFICES ASSUME NEW x \in DOMAIN pfds', pfds'[x].gen \notin hungup'
               PROVE  \/ \E p \in flight' : p.fd = x /\ p.gen = pfds'[x].gen
                      \/ \E i \in DOMAIN ring' : ring'[i].fd = x /\ ring'[i].gen = pfds'[x].gen
    BY DEF NeverDeaf
  <2>1. x \in DOMAIN pfds /\ pfds'[x] = pfds[x] /\ pfds[x].gen \notin hungup
    BY <1>1
  <2>2. CASE \E p \in flight : p # o /\ p.fd = x /\ p.gen = pfds[x].gen
    BY <1>1, <2>1, <2>2
  <2>3. CASE o.fd = x /\ o.gen = pfds[x].gen
    BY <1>3, <2>1, <2>3
  <2>4. CASE \E i \in DOMAIN ring : ring[i].fd = x /\ ring[i].gen = pfds[x].gen
    BY <1>3, <2>1, <2>4
  <2> QED
    BY <2>1, <2>2, <2>3, <2>4 DEF PollerInv, NeverDeaf
<1> QED
  BY <1>4, <1>5, <1>6, <1>7, <1>8 DEF PollerInv

LEMMA KernelKeeps ==
    ASSUME PollerInv, NEW o \in flight, KernelRecv(o) \/ KernelReady(o)
    PROVE  PollerInv'
<1>1. o \in Operations /\ free_bufs \subseteq Buffers
  BY DEF PollerInv, PoTypeOK
<1>2. CASE KernelReady(o)
  <2> DEFINE c == Cqe(o, "ready", {})
  <2>1. c \in Completions /\ c.fd = o.fd /\ c.gen = o.gen /\ c.op = o.op /\ c.res = "ready" /\ c.bid = {}
    BY <1>1, CqeFields DEF Results
  <2>2. Completed(o, c) /\ o.op = "poll" /\ hungup' = hungup /\ free_bufs' = free_bufs
    BY <1>2 DEF KernelReady, Completed
  <2> HIDE DEF c
  <2> QED
    BY <2>1, <2>2, CompletedKeeps
<1>3. ASSUME KernelRecv(o), free_bufs = {}, ring' = Append(ring, Cqe(o, "enobufs", {})), UNCHANGED <<free_bufs, hungup>>
      PROVE  PollerInv'
  <2> DEFINE c == Cqe(o, "enobufs", {})
  <2>1. c \in Completions /\ c.fd = o.fd /\ c.gen = o.gen /\ c.op = o.op /\ c.res = "enobufs" /\ c.bid = {}
    BY <1>1, CqeFields DEF Results
  <2>2. Completed(o, c) /\ hungup' = hungup /\ free_bufs' = free_bufs
    BY <1>3 DEF KernelRecv, Completed
  <2> HIDE DEF c
  <2> QED
    BY <2>1, <2>2, CompletedKeeps
<1>4. ASSUME KernelRecv(o), NEW b \in free_bufs, free_bufs' = free_bufs \ {b},
             ring' = Append(ring, Cqe(o, "data", {b})), UNCHANGED hungup
      PROVE  PollerInv'
  <2> DEFINE c == Cqe(o, "data", {b})
  <2>1. c \in Completions /\ c.fd = o.fd /\ c.gen = o.gen /\ c.op = o.op /\ c.res = "data" /\ c.bid = {b}
    BY <1>1, CqeFields DEF Results
  <2>2. Completed(o, c) /\ hungup' = hungup /\ free_bufs' = free_bufs \ {b}
    BY <1>4 DEF KernelRecv, Completed
  <2> HIDE DEF c
  <2>3. c.bid \subseteq free_bufs /\ c.bid \cap free_bufs' = {} /\ free_bufs' \subseteq free_bufs
    BY <2>1, <2>2
  <2> QED
    BY <2>1, <2>2, <2>3, CompletedKeeps
<1>5. ASSUME KernelRecv(o), NEW r \in {"eof", "error"}, ring' = Append(ring, Cqe(o, r, {})),
             hungup' = hungup \cup {o.gen}, UNCHANGED free_bufs
      PROVE  PollerInv'
  <2> DEFINE c == Cqe(o, r, {})
  <2>1. c \in Completions /\ c.fd = o.fd /\ c.gen = o.gen /\ c.op = o.op /\ c.res = r /\ c.bid = {}
    BY <1>1, CqeFields DEF Results
  <2>2. Completed(o, c) /\ hungup' = hungup \cup {o.gen} /\ free_bufs' = free_bufs
    BY <1>5 DEF KernelRecv, Completed
  <2> HIDE DEF c
  <2>3. c.gen \in hungup' /\ hungup \subseteq hungup' /\ c.res # "canceled" /\ c.res # "ready"
    BY <2>1, <2>2
  <2> QED
    BY <2>1, <2>2, <2>3, CompletedKeeps
<1> QED
  BY <1>2, <1>3, <1>4, <1>5 DEF KernelRecv

\* One completion of poll()'s loop: its buffer goes to exactly one of the free buffers, the lost ones and the events.
LEMMA ReapBuffers ==
    ASSUME PollerInv, ring # <<>>, ring' = Tail(ring),
           \/ events' = events /\ free_bufs' = free_bufs /\ lost' = lost \cup Head(ring).bid
           \/ events' = events /\ free_bufs' = free_bufs \cup Head(ring).bid /\ lost' = lost
           \/ events' = Append(events, Head(ring)) /\ free_bufs' = free_bufs /\ lost' = lost
    PROVE  BuffersInv'
<1>1. ring \in Seq(Completions) /\ events \in Seq(Completions)
  BY DEF PollerInv, PoTypeOK
<1>2. PICK c \in Completions : c = Head(ring) /\ c = ring[1] /\ 1 \in DOMAIN ring
  BY <1>1, ToSetTail
<1>3. \A i \in DOMAIN ring' : i \in Nat /\ i + 1 \in DOMAIN ring /\ i + 1 # 1 /\ ring'[i] = ring[i + 1]
  BY <1>1, ToSetTail
<1>4. /\ free_bufs \cap lost = {} /\ c.bid \cap free_bufs = {} /\ c.bid \cap lost = {}
      /\ \A i \in DOMAIN events : /\ events[i].bid \cap c.bid = {} /\ events[i].bid \cap free_bufs = {}
                                  /\ events[i].bid \cap lost = {}
      /\ \A i, j \in DOMAIN events : i # j => events[i].bid \cap events[j].bid = {}
  BY <1>2 DEF PollerInv, BuffersInv
<1>5. \A i \in DOMAIN ring' : /\ ring'[i].bid \cap c.bid = {} /\ ring'[i].bid \cap free_bufs = {}
                              /\ ring'[i].bid \cap lost = {}
                              /\ \A j \in DOMAIN events : ring'[i].bid \cap events[j].bid = {}
  BY <1>2, <1>3 DEF PollerInv, BuffersInv
<1>6. \A i, j \in DOMAIN ring' : i # j => ring'[i].bid \cap ring'[j].bid = {}
  <2> SUFFICES ASSUME NEW i \in DOMAIN ring', NEW j \in DOMAIN ring', i # j PROVE ring'[i].bid \cap ring'[j].bid = {}
    OBVIOUS
  <2>1. i + 1 # j + 1
    BY <1>3
  <2> QED
    BY <1>3, <2>1 DEF PollerInv, BuffersInv
<1>7. CASE events' = events
  BY <1>2, <1>4, <1>5, <1>6, <1>7 DEF BuffersInv
<1>8. CASE events' = Append(events, c) /\ free_bufs' = free_bufs /\ lost' = lost
  <2>1. \A i \in DOMAIN events' : \/ i \in DOMAIN events /\ events'[i] = events[i]
                                  \/ i \notin DOMAIN events /\ i = Len(events) + 1 /\ events'[i] = c
    BY <1>1, <1>8, AppendCases
  <2>2. \A i \in DOMAIN events' : events'[i].bid \cap (free_bufs \cup lost) = {}
    BY <1>4, <2>1
  <2>3. \A i, j \in DOMAIN events' : i # j => events'[i].bid \cap events'[j].bid = {}
    BY <1>4, <2>1
  <2>4. \A i \in DOMAIN ring', j \in DOMAIN events' : ring'[i].bid \cap events'[j].bid = {}
    BY <1>5, <2>1
  <2> QED
    BY <1>4, <1>5, <1>6, <1>8, <2>2, <2>3, <2>4 DEF BuffersInv
<1> QED
  BY <1>2, <1>7, <1>8

LEMMA ReapKeeps ==
    ASSUME PollerInv, Reap
    PROVE  PollerInv'
<1>1. ring # <<>> /\ ring' = Tail(ring) /\ UNCHANGED <<poll_state, hungup, gens, recvs>>
  BY DEF Reap
<1>2. /\ ring \in Seq(Completions) /\ events \in Seq(Completions) /\ gens \in Nat /\ PoTypeOK
      /\ DOMAIN pfds \subseteq Fds /\ free_bufs \subseteq Buffers /\ lost \subseteq Buffers
  BY DEF PollerInv, PoTypeOK
<1>3. PICK c \in Completions : c = Head(ring) /\ c = ring[1] /\ 1 \in DOMAIN ring
  BY <1>1, <1>2, ToSetTail
<1>4. ring' \in Seq(Completions) /\ \A i \in DOMAIN ring' : i + 1 \in DOMAIN ring /\ ring'[i] = ring[i + 1]
  BY <1>1, <1>2, ToSetTail
<1>5. \A i \in DOMAIN ring : i = 1 \/ (i - 1 \in DOMAIN ring' /\ ring'[i - 1] = ring[i])
  BY <1>1, <1>2
<1>6. CompletionInv(c) /\ c.bid \subseteq Buffers /\ c.gen \in Nat
  BY <1>3 DEF PollerInv, CompletionsInv, Completions
<1>7. CASE c.fd \notin DOMAIN pfds
  <2>1. lost' = lost \cup c.bid /\ pfds' = pfds /\ flight' = flight /\ free_bufs' = free_bufs /\ events' = events
    BY <1>3, <1>7 DEF Reap
  <2>2. PoTypeOK'
    BY <1>1, <1>2, <1>4, <1>6, <2>1 DEF PoTypeOK
  <2>3. GensInv'
    BY <1>1, <1>4, <2>1 DEF PollerInv, GensInv
  <2>4. CompletionsInv'
    BY <1>1, <1>4, <2>1 DEF PollerInv, CompletionsInv, CompletionInv
  <2>5. BuffersInv'
    BY <1>1, <1>3, <2>1, ReapBuffers
  <2>6. NeverDeaf'
    <3> SUFFICES ASSUME NEW x \in DOMAIN pfds, pfds[x].gen \notin hungup
                 PROVE  \/ \E o \in flight : o.fd = x /\ o.gen = pfds[x].gen
                        \/ \E i \in DOMAIN ring' : ring'[i].fd = x /\ ring'[i].gen = pfds[x].gen
      BY <1>1, <2>1 DEF NeverDeaf
    <3>1. CASE \E o \in flight : o.fd = x /\ o.gen = pfds[x].gen
      BY <3>1
    <3>2. CASE \E i \in DOMAIN ring : ring[i].fd = x /\ ring[i].gen = pfds[x].gen
      BY <1>3, <1>5, <1>7, <3>2
    <3> QED
      BY <3>1, <3>2 DEF PollerInv, NeverDeaf
  <2> QED
    BY <2>2, <2>3, <2>4, <2>5, <2>6 DEF PollerInv
<1>8. CASE c.fd \in DOMAIN pfds
  <2> DEFINE g == pfds[c.fd].gen
  <2>1. /\ flight' = Rearmed(c, g) /\ lost' = lost
        /\ pfds' = IF c.op = "recv" THEN [pfds EXCEPT ![c.fd].recv_pending = c.res = "data"] ELSE pfds
        /\ events' = IF Shown(c) /\ Len(events) < MaxEvents THEN Append(events, c) ELSE events
        /\ free_bufs' = Recycled(c)
    BY <1>3, <1>8 DEF Reap
  <2>2. g \in Nat /\ g <= gens
    BY <1>8 DEF PollerInv, PoTypeOK, GensInv
  <2>3. /\ flight' \subseteq Operations /\ IsFiniteSet(flight') /\ flight \subseteq flight'
        /\ \A o \in flight' : o \in flight \/ (o.fd = c.fd /\ o.gen = g)
        /\ (c.op = "poll" \/ c.res \in {"data", "enobufs"}) => \E o \in flight' : o.fd = c.fd /\ o.gen = g
    BY <1>2, <2>1, <2>2, RearmedType
  <2>4. /\ DOMAIN pfds' = DOMAIN pfds
        /\ \A x \in DOMAIN pfds : pfds'[x] \in [gen : Nat, recv_pending : BOOLEAN] /\ pfds'[x].gen = pfds[x].gen
    <3>1. \A x \in DOMAIN pfds : pfds[x] \in [gen : Nat, recv_pending : BOOLEAN]
      BY <1>2 DEF PoTypeOK
    <3> QED
      BY <1>8, <2>1, <3>1
  <2>5. \/ events' = events /\ free_bufs' = free_bufs /\ lost' = lost \cup c.bid
        \/ events' = events /\ free_bufs' = free_bufs \cup c.bid /\ lost' = lost
        \/ events' = Append(events, c) /\ free_bufs' = free_bufs /\ lost' = lost
    <3>1. Len(events) \in Nat /\ MaxEvents \in Nat
      BY <1>2, PollerAssumption
    <3>2. CASE Len(events) >= MaxEvents
      BY <2>1, <3>1, <3>2 DEF Recycled
    <3>3. CASE ~(Len(events) >= MaxEvents) /\ Shown(c)
      BY <2>1, <3>1, <3>3 DEF Recycled
    <3>4. CASE ~(Len(events) >= MaxEvents) /\ ~Shown(c)
      BY <1>6, <2>1, <3>1, <3>4 DEF Recycled, Shown, CompletionInv
    <3> QED
      BY <3>2, <3>3, <3>4
  <2>6. PoTypeOK'
    <3>1. events' \in Seq(Completions)
      BY <1>2, <2>5, ToSetAppend
    <3>2. free_bufs' \subseteq Buffers /\ lost' \subseteq Buffers
      BY <1>2, <1>6, <2>5
    <3> QED
      BY <1>1, <1>2, <1>4, <2>3, <2>4, <3>1, <3>2 DEF PoTypeOK
  <2>7. GensInv'
    BY <1>1, <1>4, <2>2, <2>3, <2>4 DEF PollerInv, GensInv
  <2>8. CompletionsInv'
    BY <1>1, <1>4, <2>4 DEF PollerInv, CompletionsInv, CompletionInv
  <2>9. BuffersInv'
    BY <1>1, <1>3, <2>5, ReapBuffers
  <2>10. NeverDeaf'
    <3> SUFFICES ASSUME NEW x \in DOMAIN pfds, pfds[x].gen \notin hungup
                 PROVE  \/ \E o \in flight' : o.fd = x /\ o.gen = pfds[x].gen
                        \/ \E i \in DOMAIN ring' : ring'[i].fd = x /\ ring'[i].gen = pfds[x].gen
      BY <1>1, <2>4 DEF NeverDeaf
    <3>1. CASE \E o \in flight : o.fd = x /\ o.gen = pfds[x].gen
      BY <2>3, <3>1
    <3>2. CASE \E i \in DOMAIN ring : i # 1 /\ ring[i].fd = x /\ ring[i].gen = pfds[x].gen
      BY <1>5, <3>2
    <3>3. CASE c.fd = x /\ c.gen = pfds[x].gen
      <4>1. c.op \in {"recv", "poll"} /\ c.res \in Results
        BY DEF Completions
      <4>2. c.res \notin {"eof", "error", "canceled"}
        BY <1>6, <1>8, <2>2, <3>3 DEF CompletionInv
      <4>3. c.op = "poll" \/ c.res \in {"data", "enobufs"}
        BY <1>6, <4>1, <4>2 DEF CompletionInv, Results
      <4> QED
        BY <2>3, <3>3, <4>3
    <3> QED
      BY <1>3, <3>1, <3>2, <3>3 DEF PollerInv, NeverDeaf
  <2> QED
    BY <2>6, <2>7, <2>8, <2>9, <2>10 DEF PollerInv
<1> QED
  BY <1>7, <1>8

LEMMA HandleKeeps ==
    ASSUME PollerInv, HandleEvent
    PROVE  PollerInv'
<1>1. /\ events # <<>> /\ events' = Tail(events)
      /\ UNCHANGED <<pfds, flight, ring, poll_state, hungup, gens, recvs>>
  BY DEF HandleEvent
<1>2. events \in Seq(Completions) /\ free_bufs \subseteq Buffers /\ lost \subseteq Buffers
  BY DEF PollerInv, PoTypeOK
<1>3. PICK c \in Completions : c = Head(events) /\ c = events[1] /\ 1 \in DOMAIN events
  BY <1>1, <1>2, ToSetTail
<1>4. /\ events' \in Seq(Completions)
      /\ \A i \in DOMAIN events' : i \in Nat /\ i + 1 \in DOMAIN events /\ i + 1 # 1 /\ events'[i] = events[i + 1]
  BY <1>1, <1>2, ToSetTail
<1>5. \/ free_bufs' = free_bufs \cup c.bid /\ lost' = lost
      \/ free_bufs' = free_bufs /\ lost' = lost \cup c.bid
  BY <1>3 DEF HandleEvent
<1>6. c.bid \subseteq Buffers
  BY DEF Completions
<1>7. PoTypeOK'
  BY <1>1, <1>2, <1>4, <1>5, <1>6 DEF PollerInv, PoTypeOK
<1>8. GensInv' /\ CompletionsInv' /\ NeverDeaf'
  BY <1>1 DEF PollerInv, GensInv, CompletionsInv, CompletionInv, NeverDeaf
<1>9. BuffersInv'
  <2>1. /\ free_bufs \cap lost = {} /\ c.bid \cap free_bufs = {} /\ c.bid \cap lost = {}
        /\ \A i \in DOMAIN ring : ring[i].bid \cap c.bid = {}
    BY <1>3 DEF PollerInv, BuffersInv
  <2>2. \A i \in DOMAIN events' : /\ events'[i].bid \cap c.bid = {}
                                  /\ events'[i].bid \cap (free_bufs \cup lost) = {}
                                  /\ \A j \in DOMAIN ring : ring[j].bid \cap events'[i].bid = {}
    BY <1>3, <1>4 DEF PollerInv, BuffersInv
  <2>3. \A i, j \in DOMAIN events' : i # j => events'[i].bid \cap events'[j].bid = {}
    <3> SUFFICES ASSUME NEW i \in DOMAIN events', NEW j \in DOMAIN events', i # j
                 PROVE  events'[i].bid \cap events'[j].bid = {}
      OBVIOUS
    <3>1. i + 1 # j + 1
      BY <1>4
    <3> QED
      BY <1>4, <3>1 DEF PollerInv, BuffersInv
  <2>4. /\ \A i \in DOMAIN ring : ring[i].bid \cap (free_bufs \cup lost) = {}
        /\ \A i, j \in DOMAIN ring : i # j => ring[i].bid \cap ring[j].bid = {}
    BY DEF PollerInv, BuffersInv
  <2>5. free_bufs' \cup lost' = free_bufs \cup lost \cup c.bid /\ free_bufs' \cap lost' = {} /\ ring' = ring
    BY <1>1, <1>5, <2>1
  <2> QED
    BY <2>1, <2>2, <2>3, <2>4, <2>5 DEF BuffersInv
<1> QED
  BY <1>7, <1>8, <1>9 DEF PollerInv

LEMMA QuietKeeps ==
    ASSUME PollerInv, PollBegin \/ PollEnd \/ UNCHANGED poVars
    PROVE  PollerInv'
<1>1. UNCHANGED <<pfds, flight, ring, free_bufs, events, hungup, gens, recvs, lost>>
  BY DEF PollBegin, PollEnd, poVars
<1>2. PoTypeOK' /\ GensInv'
  BY <1>1 DEF PollerInv, PoTypeOK, GensInv
<1>3. CompletionsInv' /\ BuffersInv' /\ NeverDeaf'
  BY <1>1 DEF PollerInv, CompletionsInv, CompletionInv, BuffersInv, NeverDeaf
<1> QED
  BY <1>2, <1>3 DEF PollerInv

\* The inductive invariant holds in every reachable state of the poller.
THEOREM PollerInvariant == PoSpec => []PollerInv
<1>1. PollerInv /\ [PoNext]_poVars => PollerInv'
  <2> SUFFICES ASSUME PollerInv, [PoNext]_poVars PROVE PollerInv'
    OBVIOUS
  <2> QED
    BY AddKeeps, RemoveKeeps, KernelKeeps, ReapKeeps, HandleKeeps, QuietKeeps DEF PoNext
<1> QED
  BY PoInitInv, <1>1, PTL DEF PoSpec

LEMMA OneOwnerFromBuffers == PoTypeOK /\ BuffersInv => BufferHasOneOwner
<1> SUFFICES ASSUME PoTypeOK, BuffersInv PROVE BufferHasOneOwner
  OBVIOUS
<1> DEFINE r == [i \in DOMAIN ring |-> ring[i].bid]
           e == [i \in DOMAIN events |-> events[i].bid]
<1>1. ring \in Seq(Completions) /\ events \in Seq(Completions)
  BY DEF PoTypeOK
<1>2. /\ Len(ring) \in Nat /\ DOMAIN ring = 1..Len(ring) /\ Len(events) \in Nat /\ DOMAIN events = 1..Len(events)
      /\ \A i \in DOMAIN ring : ring[i] \in Completions
      /\ \A i \in DOMAIN events : events[i] \in Completions
  BY <1>1, SeqIsFunction
<1>3. r \in [1..Len(ring) -> SUBSET Buffers] /\ e \in [1..Len(events) -> SUBSET Buffers]
  BY <1>2 DEF Completions
<1>4. r \in Seq(SUBSET Buffers) /\ e \in Seq(SUBSET Buffers) /\ Len(r) = Len(ring) /\ Len(e) = Len(events)
  BY <1>2, <1>3, FunctionIsSeq
<1>5. /\ \A i \in DOMAIN r : i \in DOMAIN ring /\ r[i] = ring[i].bid
      /\ \A i \in DOMAIN e : i \in DOMAIN events /\ e[i] = events[i].bid
  OBVIOUS
<1> HIDE DEF r, e
<1>6. PICK held : held = r \o e
  OBVIOUS
<1>7. \A i \in DOMAIN held : \/ i \in DOMAIN r /\ held[i] = r[i]
                             \/ i \notin DOMAIN r /\ i - Len(r) \in DOMAIN e /\ held[i] = e[i - Len(r)]
  BY <1>4, <1>6
<1>8. \A i \in DOMAIN held : held[i] \cap (free_bufs \cup lost) = {}
  BY <1>5, <1>7 DEF BuffersInv
<1>9. \A i, j \in DOMAIN held : i # j => held[i] \cap held[j] = {}
  <2> SUFFICES ASSUME NEW i \in DOMAIN held, NEW j \in DOMAIN held, i # j PROVE held[i] \cap held[j] = {}
    OBVIOUS
  <2>1. CASE i \in DOMAIN r /\ j \in DOMAIN r
    BY <1>5, <1>7, <2>1 DEF BuffersInv
  <2>2. CASE i \in DOMAIN r /\ j \notin DOMAIN r
    BY <1>5, <1>7, <2>2 DEF BuffersInv
  <2>3. CASE i \notin DOMAIN r /\ j \in DOMAIN r
    BY <1>5, <1>7, <2>3 DEF BuffersInv
  <2>4. CASE i \notin DOMAIN r /\ j \notin DOMAIN r
    <3>1. i \in Int /\ j \in Int /\ Len(r) \in Int
      BY <1>4, <1>6
    <3>2. i - Len(r) # j - Len(r)
      BY <3>1
    <3> QED
      BY <1>5, <1>7, <2>4, <3>2 DEF BuffersInv
  <2> QED
    BY <2>1, <2>2, <2>3, <2>4
<1>10. held = [i \in DOMAIN ring |-> ring[i].bid] \o [i \in DOMAIN events |-> events[i].bid]
  BY <1>6 DEF r, e
<1> QED
  BY <1>8, <1>9, <1>10 DEF BufferHasOneOwner, BuffersInv

\* The poller's receive buffers and operations are accounted for in every reachable state: a buffer the kernel may fill
\* is in no completion and no event (recycle_buffer runs once per delivery), and a registered socket whose stream goes
\* on has an operation in flight or completed (poll re-arms on every path), for any number of sockets and buffers.
THEOREM RingAlwaysSound == PoSpec => []RingSound
<1>1. PollerInv => RingSound
  BY OneOwnerFromBuffers DEF PollerInv, RingSound
<1> QED
  BY PollerInvariant, <1>1, PTL

-----------------------------------------------------------------------------
(* Server-sent events: the inductive invariant. *)
SseEvents == [id : Nat, area : EventAreas, to : SUBSET Readers]

SeTypeOK ==
    /\ sse_channel \in Seq([area : EventAreas, to : SUBSET Readers])
    /\ pushed \in Seq(SseEvents) /\ sse_event_buffer \in Seq(SseEvents)
    /\ got \in [Readers -> Seq(Nat)]
    /\ live \subseteq Readers

\* Events are numbered in the order they are pushed.
NumbersInv ==
    /\ next_event_id = Len(pushed) + 1
    /\ \A i \in DOMAIN pushed : pushed[i].id = i

\* The replay buffer is the end of what was pushed.
ReplayInv ==
    /\ Len(sse_event_buffer) = IF Len(pushed) <= BufferCap THEN Len(pushed) ELSE BufferCap
    /\ \A i \in DOMAIN sse_event_buffer : sse_event_buffer[i] = pushed[Len(pushed) - Len(sse_event_buffer) + i]

\* A reader has seen ids that were given out, in order.
SeenInv ==
    \A r \in Readers : /\ \A i \in DOMAIN got[r] : got[r][i] \in 1..Len(pushed)
                       /\ \A i, j \in DOMAIN got[r] : i < j => got[r][i] < got[r][j]

\* The broadcasts of r's area that the buffer still reaches.
Reached(r, k) == k > Len(pushed) - BufferCap /\ pushed[k].to = {} /\ AreaMatches(pushed[k].area, r)

\* A reader has all of those from the first event it saw to the last, and with a working stream all there are.
GapInv ==
    \A r \in Readers : got[r] # <<>> =>
        \A k \in DOMAIN pushed :
            (Reached(r, k) /\ k > got[r][1] /\ (r \in live \ broken \/ k <= got[r][Len(got[r])])) => k \in ToSet(got[r])

StreamInv == SeTypeOK /\ NumbersInv /\ ReplayInv /\ SeenInv /\ GapInv

LEMMA SeFacts ==
    ASSUME StreamInv
    PROVE  /\ Len(pushed) \in Nat /\ DOMAIN pushed = 1..Len(pushed) /\ \A i \in DOMAIN pushed : pushed[i] \in SseEvents
           /\ Len(sse_event_buffer) \in Nat /\ DOMAIN sse_event_buffer = 1..Len(sse_event_buffer)
           /\ \A r \in Readers : /\ got[r] \in Seq(Nat) /\ Len(got[r]) \in Nat /\ DOMAIN got[r] = 1..Len(got[r])
                                 /\ \A i \in DOMAIN got[r] : got[r][i] \in Nat
           /\ BufferCap \in Nat
<1>1. pushed \in Seq(SseEvents) /\ sse_event_buffer \in Seq(SseEvents) /\ got \in [Readers -> Seq(Nat)]
  BY DEF StreamInv, SeTypeOK
<1>2. \A r \in Readers : got[r] \in Seq(Nat)
  BY <1>1
<1>3. \A r \in Readers : /\ Len(got[r]) \in Nat /\ DOMAIN got[r] = 1..Len(got[r])
                         /\ \A i \in DOMAIN got[r] : got[r][i] \in Nat
  BY <1>2, SeqIsFunction
<1> QED
  BY <1>1, <1>2, <1>3, SeqIsFunction, SseAssumption

LEMMA SeInitInv == SeInit => StreamInv
<1> SUFFICES ASSUME SeInit PROVE StreamInv
  OBVIOUS
<1>1. SeTypeOK /\ NumbersInv
  BY DEF SeInit, SeTypeOK, NumbersInv
<1>2. ReplayInv /\ SeenInv /\ GapInv
  BY SseAssumption DEF SeInit, ReplayInv, SeenInv, GapInv
<1> QED
  BY <1>1, <1>2 DEF StreamInv

\* One event more: its number, the streams that get it, and those that are found cut.
LEMMA PushKeeps ==
    ASSUME StreamInv, push_sse
    PROVE  StreamInv'
<1>0. PICK n : n = Len(pushed)
  OBVIOUS
<1>1. /\ n = Len(pushed) /\ n \in Nat /\ DOMAIN pushed = 1..n /\ next_event_id = n + 1
      /\ pushed \in Seq(SseEvents) /\ sse_event_buffer \in Seq(SseEvents) /\ got \in [Readers -> Seq(Nat)]
      /\ sse_channel \in Seq([area : EventAreas, to : SUBSET Readers]) /\ live \subseteq Readers /\ BufferCap \in Nat
  BY <1>0, SeFacts DEF StreamInv, SeTypeOK, NumbersInv
<1>2. sse_channel # <<>> /\ sse_channel' = Tail(sse_channel) /\ next_event_id' = next_event_id + 1
  BY DEF push_sse
<1>3. Head(sse_channel) \in [area : EventAreas, to : SUBSET Readers] /\ sse_channel' \in Seq([area : EventAreas, to : SUBSET Readers])
  BY <1>1, <1>2, ToSetTail
<1>4. PICK e : /\ e = [id |-> n + 1, area |-> Head(sse_channel).area, to |-> Head(sse_channel).to]
               /\ sse_event_buffer' = Kept(Append(sse_event_buffer, e)) /\ pushed' = Append(pushed, e)
               /\ got' = [r \in Readers |-> IF r \in Receivers(e) \ broken THEN Append(got[r], e.id) ELSE got[r]]
               /\ live' = live \ (Receivers(e) \cap broken) /\ broken' = broken \ Receivers(e)
  BY <1>1 DEF push_sse
<1>5. e \in SseEvents /\ e.id = n + 1
  BY <1>1, <1>3, <1>4 DEF SseEvents
<1>6. /\ pushed' \in Seq(SseEvents) /\ Len(pushed') = n + 1 /\ DOMAIN pushed' = 1..(n + 1) /\ pushed'[n + 1] = e
      /\ \A i \in 1..n : pushed'[i] = pushed[i]
  BY <1>1, <1>4, <1>5, ToSetAppend
<1>7. \A r \in Readers : /\ r \in Receivers(e) \ broken => got'[r] = Append(got[r], n + 1)
                         /\ r \notin Receivers(e) \ broken => got'[r] = got[r]
  BY <1>4, <1>5
<1>8. \A r \in Readers : /\ Append(got[r], n + 1) \in Seq(Nat) /\ Append(got[r], n + 1) # <<>>
                         /\ Len(Append(got[r], n + 1)) = Len(got[r]) + 1
                         /\ DOMAIN Append(got[r], n + 1) = 1..(Len(got[r]) + 1)
                         /\ \A i \in DOMAIN got[r] : Append(got[r], n + 1)[i] = got[r][i]
                         /\ Append(got[r], n + 1)[Len(got[r]) + 1] = n + 1
                         /\ ToSet(Append(got[r], n + 1)) = ToSet(got[r]) \cup {n + 1}
  <2>1. \A r \in Readers : got[r] \in Seq(Nat) /\ n + 1 \in Nat
    BY <1>1
  <2> QED
    BY <2>1, ToSetAppend
<1>9. PICK b : b = Append(sse_event_buffer, e)
  OBVIOUS
<1>10. /\ b \in Seq(SseEvents) /\ b # <<>> /\ Len(b) = Len(sse_event_buffer) + 1 /\ DOMAIN b = 1..Len(b)
       /\ \A i \in DOMAIN sse_event_buffer : b[i] = sse_event_buffer[i]
       /\ b[Len(b)] = e /\ Len(sse_event_buffer) \in Nat
  <2>1. Len(sse_event_buffer) \in Nat
    BY <1>1
  <2> QED
    BY <1>1, <1>5, <1>9, <2>1, ToSetAppend
<1>11. sse_event_buffer' = IF Len(b) > BufferCap THEN Tail(b) ELSE b
  BY <1>4, <1>9 DEF Kept
<1>12. SeTypeOK'
  <2>1. got' \in [Readers -> Seq(Nat)]
    <3>1. \A r \in Readers : got'[r] \in Seq(Nat)
      BY <1>1, <1>7, <1>8
    <3> QED
      BY <1>4, <3>1
  <2>2. sse_event_buffer' \in Seq(SseEvents)
    BY <1>10, <1>11, ToSetTail
  <2> QED
    BY <1>1, <1>3, <1>4, <1>6, <2>1, <2>2 DEF SeTypeOK
<1>13. NumbersInv'
  <2>1. \A i \in 1..n : pushed[i].id = i
    BY <1>1 DEF StreamInv, NumbersInv
  <2>2. \A i \in DOMAIN pushed' : pushed'[i].id = i
    BY <1>1, <1>5, <1>6, <2>1
  <2> QED
    BY <1>1, <1>2, <1>6, <2>2 DEF NumbersInv
<1>14. ReplayInv'
  <2>1. /\ Len(sse_event_buffer) = IF n <= BufferCap THEN n ELSE BufferCap
        /\ DOMAIN sse_event_buffer = 1..Len(sse_event_buffer)
        /\ \A i \in DOMAIN sse_event_buffer : sse_event_buffer[i] = pushed[n - Len(sse_event_buffer) + i]
    BY <1>1 DEF StreamInv, ReplayInv
  <2>2. \A i \in 1..Len(b) : b[i] = pushed'[(n + 1) - Len(b) + i]
    <3> SUFFICES ASSUME NEW i \in 1..Len(b) PROVE b[i] = pushed'[(n + 1) - Len(b) + i]
      OBVIOUS
    <3>1. CASE i = Len(b)
      BY <1>1, <1>6, <1>10, <3>1
    <3>2. CASE i # Len(b)
      <4>1. i \in DOMAIN sse_event_buffer /\ n - Len(sse_event_buffer) + i \in 1..n
        BY <1>1, <1>10, <2>1, <3>2
      <4>2. (n + 1) - Len(b) + i = n - Len(sse_event_buffer) + i
        BY <1>1, <1>10
      <4> QED
        BY <1>6, <1>10, <2>1, <4>1, <4>2
    <3> QED
      BY <3>1, <3>2
  <2>3. CASE Len(b) > BufferCap
    <3>1. /\ Len(sse_event_buffer') = Len(b) - 1
          /\ \A i \in DOMAIN sse_event_buffer' : i + 1 \in DOMAIN b /\ sse_event_buffer'[i] = b[i + 1]
      BY <1>10, <1>11, <2>3, ToSetTail
    <3>2. Len(b) - 1 = BufferCap /\ n + 1 > BufferCap
      BY <1>1, <1>10, <2>1, <2>3
    <3>3. Len(sse_event_buffer') = IF Len(pushed') <= BufferCap THEN Len(pushed') ELSE BufferCap
      BY <1>1, <1>6, <3>1, <3>2
    <3>4. ASSUME NEW i \in DOMAIN sse_event_buffer'
          PROVE  sse_event_buffer'[i] = pushed'[Len(pushed') - Len(sse_event_buffer') + i]
      <4>1. i + 1 \in 1..Len(b) /\ i \in Int /\ sse_event_buffer'[i] = b[i + 1]
        BY <1>10, <3>1, <1>11, <2>3, ToSetTail
      <4>2. (n + 1) - Len(b) + (i + 1) = Len(pushed') - Len(sse_event_buffer') + i
        BY <1>1, <1>6, <1>10, <3>1, <4>1
      <4> QED
        BY <2>2, <4>1, <4>2
    <3> QED
      BY <3>3, <3>4 DEF ReplayInv
  <2>4. CASE ~(Len(b) > BufferCap)
    <3>1. sse_event_buffer' = b
      BY <1>11, <2>4
    <3>2. Len(b) = n + 1 /\ n + 1 <= BufferCap
      BY <1>1, <1>10, <2>1, <2>4
    <3> QED
      BY <1>6, <1>10, <2>2, <3>1, <3>2 DEF ReplayInv
  <2> QED
    BY <2>3, <2>4
<1>15. SeenInv'
  <2> SUFFICES ASSUME NEW r \in Readers
               PROVE  /\ \A i \in DOMAIN got'[r] : got'[r][i] \in 1..(n + 1)
                      /\ \A i, j \in DOMAIN got'[r] : i < j => got'[r][i] < got'[r][j]
    BY <1>6 DEF SeenInv
  <2>1. /\ \A i \in DOMAIN got[r] : got[r][i] \in 1..n
        /\ \A i, j \in DOMAIN got[r] : i < j => got[r][i] < got[r][j]
        /\ DOMAIN got[r] = 1..Len(got[r]) /\ Len(got[r]) \in Nat
    BY <1>1, SeFacts DEF StreamInv, SeenInv
  <2>2. CASE r \in Receivers(e) \ broken
    <3>0. PICK g : g = Append(got[r], n + 1)
      OBVIOUS
    <3>1. /\ got'[r] = g /\ DOMAIN g = 1..(Len(got[r]) + 1) /\ g[Len(got[r]) + 1] = n + 1
          /\ \A i \in DOMAIN got[r] : g[i] = got[r][i]
      BY <1>7, <1>8, <2>2, <3>0
    <3>2. \A i \in DOMAIN g : g[i] \in 1..(n + 1) /\ (i \in DOMAIN got[r] => g[i] \in 1..n)
      BY <1>1, <2>1, <3>1
    <3>3. \A i, j \in DOMAIN g : i < j => i \in DOMAIN got[r] /\ (j \in DOMAIN got[r] \/ j = Len(got[r]) + 1)
      BY <2>1, <3>1
    <3>4. ASSUME NEW i \in DOMAIN g, NEW j \in DOMAIN g, i < j PROVE g[i] < g[j]
      <4>1. i \in DOMAIN got[r] /\ g[i] = got[r][i] /\ g[i] \in 1..n
        BY <3>1, <3>2, <3>3, <3>4
      <4>2. CASE j \in DOMAIN got[r]
        BY <2>1, <3>1, <3>4, <4>1, <4>2
      <4>3. CASE j = Len(got[r]) + 1
        BY <1>1, <3>1, <4>1, <4>3
      <4> QED
        BY <3>3, <3>4, <4>2, <4>3
    <3> QED
      BY <3>1, <3>2, <3>4
  <2>3. CASE r \notin Receivers(e) \ broken
    <3>1. got'[r] = got[r]
      BY <1>7, <2>3
    <3>2. \A i \in DOMAIN got[r] : got[r][i] \in 1..(n + 1)
      BY <1>1, <2>1
    <3> QED
      BY <2>1, <3>1, <3>2
  <2> QED
    BY <2>2, <2>3
<1>16. GapInv'
  <2> SUFFICES ASSUME NEW r \in Readers, got'[r] # <<>>, NEW k \in 1..(n + 1), Reached(r, k)', k > got'[r][1],
                      r \in live' \ broken' \/ k <= got'[r][Len(got'[r])]
               PROVE  k \in ToSet(got'[r])
    BY <1>6 DEF GapInv
  <2>1. /\ \A i \in DOMAIN got[r] : got[r][i] \in 1..n
        /\ DOMAIN got[r] = 1..Len(got[r]) /\ Len(got[r]) \in Nat /\ got[r] \in Seq(Nat)
    BY <1>1, SeFacts DEF StreamInv, SeenInv
  <2>2. r \in live' \ broken' => r \in live \ broken
    BY <1>4
  <2>3. CASE k \in 1..n
    <3>1. Reached(r, k)
      <4>1. k > (n + 1) - BufferCap /\ pushed'[k] = pushed[k] /\ pushed[k].to = {}
        BY <1>6, <2>3 DEF Reached
      <4>2. AreaMatches(pushed[k].area, r)
        BY <4>1 DEF Reached, AreaMatches
      <4>3. k > n - BufferCap
        BY <1>1, <4>1
      <4> QED
        BY <1>1, <4>1, <4>2, <4>3 DEF Reached
    <3>2. CASE r \in Receivers(e) \ broken
      <4>1. r \in live \ broken
        BY <3>2 DEF Receivers
      <4>2. CASE got[r] = <<>>
        \* the new event is the first it sees, and k is not younger
        BY <1>1, <1>7, <1>8, <2>1, <2>3, <3>2, <4>2
      <4>3. CASE got[r] # <<>>
        <5>0. 1 \in DOMAIN got[r]
          BY <2>1, <4>3
        <5>1. k > got[r][1]
          <6>1. got'[r] = Append(got[r], n + 1) /\ Append(got[r], n + 1)[1] = got[r][1]
            BY <1>7, <1>8, <3>2, <5>0
          <6> QED
            BY <6>1
        <5>2. k \in ToSet(got[r])
          BY <1>1, <2>3, <3>1, <4>1, <4>3, <5>1 DEF StreamInv, GapInv
        <5> QED
          BY <1>7, <1>8, <3>2, <5>2
      <4> QED
        BY <4>2, <4>3
    <3>3. CASE r \notin Receivers(e) \ broken
      BY <1>1, <1>7, <2>2, <2>3, <3>1, <3>3 DEF StreamInv, GapInv
    <3> QED
      BY <3>2, <3>3
  <2>4. CASE k = n + 1
    <3>1. CASE r \in Receivers(e) \ broken
      BY <1>7, <1>8, <2>4, <3>1
    <3>2. CASE r \notin Receivers(e) \ broken
      <4>1. got'[r] = got[r] /\ got[r] # <<>>
        BY <1>7, <3>2
      <4>2. got[r][Len(got[r])] \in 1..n
        BY <2>1, <4>1
      <4>3. r \in live \ broken
        BY <1>1, <2>2, <2>4, <4>1, <4>2
      <4>4. e.to = {} /\ AreaMatches(e.area, r)
        BY <1>6, <2>4 DEF Reached, AreaMatches
      <4> QED
        BY <3>2, <4>3, <4>4 DEF Receivers
    <3> QED
      BY <3>1, <3>2
  <2> QED
    BY <1>1, <2>3, <2>4
<1> QED
  BY <1>12, <1>13, <1>14, <1>15, <1>16 DEF StreamInv

\* What a replay sends: the ids of the buffer after the last one seen, in order, and every broadcast of the reader's
\* area among them.
ReplaySends(s, r, last) ==
    /\ s \in Seq(Nat)
    /\ \A i \in DOMAIN s : last > 0 /\ s[i] > last /\ s[i] \in 1..Len(pushed)
    /\ \A i, j \in DOMAIN s : i < j => s[i] < s[j]
    /\ \A k \in DOMAIN pushed : (last > 0 /\ k > last /\ Reached(r, k)) => k \in ToSet(s)

InPlaceOrder(frames, I) ==
    \E q \in Seq(I) : /\ ToSet(q) = I /\ \A i, j \in DOMAIN q : i < j => q[i] < q[j]
                      /\ frames = [k \in DOMAIN q |-> sse_event_buffer[q[k]]]

LEMMA EventsAtLists ==
    ASSUME NEW I, IsFiniteSet(I), I \subseteq Int
    PROVE  InPlaceOrder(EventsAt(I), I)
<1> DEFINE q == CHOOSE s \in SetToSeqs(I) : \A i, j \in DOMAIN s : i < j => s[i] < s[j]
<1>1. q \in SetToSeqs(I) /\ \A i, j \in DOMAIN q : i < j => q[i] < q[j]
  BY AscendingExists
<1>2. EventsAt(I) = [k \in DOMAIN q |-> sse_event_buffer[q[k]]]
  BY DEF EventsAt
<1> HIDE DEF q
<1>3. q \in Seq(I) /\ ToSet(q) = I
  BY <1>1, EnumerationLists
<1> QED
  BY <1>1, <1>2, <1>3 DEF InPlaceOrder

LEMMA ReplayLists ==
    ASSUME StreamInv, NEW r \in Readers, NEW last \in Nat, NEW frames, frames = Replay(r, last)
    PROVE  ReplaySends([i \in DOMAIN frames |-> frames[i].id], r, last)
<1>0. PICK n, m : n = Len(pushed) /\ m = Len(sse_event_buffer)
  OBVIOUS
<1>1. /\ n \in Nat /\ m \in Nat /\ DOMAIN pushed = 1..n /\ DOMAIN sse_event_buffer = 1..m /\ BufferCap \in Nat
      /\ m = IF n <= BufferCap THEN n ELSE BufferCap
  BY <1>0, SeFacts DEF StreamInv, ReplayInv
<1>2. \A i \in 1..m : /\ n - m + i \in 1..n /\ sse_event_buffer[i] = pushed[n - m + i]
                      /\ sse_event_buffer[i].id = n - m + i
  <2>1. \A i \in 1..m : n - m + i \in 1..n
    BY <1>1
  <2>2. \A i \in 1..m : sse_event_buffer[i] = pushed[n - m + i]
    BY <1>0, <1>1 DEF StreamInv, ReplayInv
  <2>3. \A i \in 1..n : pushed[i].id = i
    BY <1>1 DEF StreamInv, NumbersInv
  <2> QED
    BY <2>1, <2>2, <2>3
<1>3. PICK I : I = {i \in 1..m : last > 0 /\ sse_event_buffer[i].id > last /\ AreaMatches(sse_event_buffer[i].area, r)}
  OBVIOUS
<1>4. IsFiniteSet(I) /\ I \subseteq Int /\ I \subseteq 1..m
  <2>1. I \in SUBSET (1..m) /\ IsFiniteSet(1..m)
    BY <1>1, <1>3, FS_Interval
  <2>2. IsFiniteSet(I)
    BY <2>1, FS_Subset
  <2> QED
    BY <1>1, <2>1, <2>2
<1>5. frames = EventsAt(I)
  BY <1>1, <1>3 DEF Replay
<1>6. PICK q \in Seq(I) : /\ ToSet(q) = I /\ \A i, j \in DOMAIN q : i < j => q[i] < q[j]
                          /\ frames = [k \in DOMAIN q |-> sse_event_buffer[q[k]]]
  <2>1. InPlaceOrder(frames, I)
    BY <1>4, <1>5, EventsAtLists
  <2> QED
    BY <2>1 DEF InPlaceOrder
<1>7. Len(q) \in Nat /\ DOMAIN q = 1..Len(q) /\ \A i \in DOMAIN q : q[i] \in I
  BY <1>6, SeqIsFunction
<1>8. PICK s : s = [i \in DOMAIN frames |-> frames[i].id]
  OBVIOUS
<1>9. DOMAIN s = 1..Len(q) /\ \A i \in 1..Len(q) : s[i] = n - m + q[i] /\ s[i] \in 1..n
  <2>1. DOMAIN s = 1..Len(q) /\ \A i \in 1..Len(q) : s[i] = sse_event_buffer[q[i]].id
    BY <1>6, <1>7, <1>8
  <2> QED
    BY <1>2, <1>4, <1>7, <2>1
<1>10. s \in Seq(Nat)
  <2>1. s \in [1..Len(q) -> Nat]
    BY <1>1, <1>8, <1>9
  <2> QED
    BY <1>7, <2>1, FunctionIsSeq
<1>11. \A i \in DOMAIN s : last > 0 /\ s[i] > last /\ s[i] \in 1..n
  BY <1>2, <1>3, <1>4, <1>7, <1>9
<1>12. \A i, j \in DOMAIN s : i < j => s[i] < s[j]
  <2> SUFFICES ASSUME NEW i \in 1..Len(q), NEW j \in 1..Len(q), i < j PROVE s[i] < s[j]
    BY <1>9
  <2>1. q[i] < q[j] /\ q[i] \in Int /\ q[j] \in Int
    BY <1>4, <1>6, <1>7
  <2> QED
    BY <1>1, <1>9, <2>1
<1>13. ASSUME NEW k \in 1..n, last > 0, k > last, Reached(r, k) PROVE k \in ToSet(s)
  <2>1. k > n - BufferCap /\ AreaMatches(pushed[k].area, r)
    BY <1>0, <1>13 DEF Reached
  <2>2. k - (n - m) \in 1..m /\ n - m + (k - (n - m)) = k
    BY <1>1, <2>1
  <2>3. k - (n - m) \in I
    BY <1>2, <1>3, <1>13, <2>1, <2>2
  <2>4. PICK i \in DOMAIN q : q[i] = k - (n - m)
    BY <1>6, <2>3 DEF ToSet
  <2>5. s[i] = k /\ i \in DOMAIN s
    BY <1>7, <1>9, <2>2, <2>4
  <2> QED
    BY <2>5 DEF ToSet
<1>14. ReplaySends(s, r, last)
  BY <1>0, <1>1, <1>10, <1>11, <1>12, <1>13 DEF ReplaySends
<1> QED
  BY <1>8, <1>14

LEMMA AcceptKeeps ==
    ASSUME StreamInv, NEW r \in Readers, AcceptStream(r)
    PROVE  StreamInv'
<1>0. PICK n, g : n = Len(pushed) /\ g = got[r]
  OBVIOUS
<1>1. /\ n \in Nat /\ DOMAIN pushed = 1..n /\ got \in [Readers -> Seq(Nat)] /\ live \subseteq Readers
      /\ g \in Seq(Nat) /\ Len(g) \in Nat /\ DOMAIN g = 1..Len(g) /\ \A i \in DOMAIN g : g[i] \in 1..n
      /\ \A i, j \in DOMAIN g : i < j => g[i] < g[j]
  BY <1>0, SeFacts DEF StreamInv, SeTypeOK, SeenInv
<1>2. PICK last : last = LastId(r)
  OBVIOUS
<1>3. /\ last \in Nat /\ (g = <<>> => last = 0)
      /\ g # <<>> => (last = g[Len(g)] /\ last > 0 /\ 1 \in DOMAIN g /\ Len(g) \in DOMAIN g)
  BY <1>0, <1>1, <1>2 DEF LastId, Last
<1>4. PICK frames, s : frames = Replay(r, last) /\ s = [i \in DOMAIN frames |-> frames[i].id]
  OBVIOUS
<1>5. ReplaySends(s, r, last)
  <2>1. last \in Nat /\ frames = Replay(r, last)
    BY <1>3, <1>4
  <2>2. ReplaySends([i \in DOMAIN frames |-> frames[i].id], r, last)
    BY <2>1, ReplayLists
  <2> QED
    BY <1>4, <2>2
<1>6. /\ got' = [got EXCEPT ![r] = g \o s] /\ live' = live \cup {r} /\ broken' = broken \ {r}
      /\ UNCHANGED <<sse_channel, next_event_id, sse_event_buffer, pushed>>
  BY <1>0, <1>2, <1>4 DEF AcceptStream
<1>7. /\ s \in Seq(Nat) /\ Len(s) \in Nat /\ DOMAIN s = 1..Len(s)
      /\ \A i \in DOMAIN s : last > 0 /\ s[i] > last /\ s[i] \in 1..n
      /\ \A i, j \in DOMAIN s : i < j => s[i] < s[j]
  BY <1>0, <1>5, SeqIsFunction DEF ReplaySends
<1>8. PICK h : h = g \o s
  OBVIOUS
<1>9. /\ h \in Seq(Nat) /\ DOMAIN h = 1..(Len(g) + Len(s)) /\ Len(h) = Len(g) + Len(s)
      /\ \A i \in 1..Len(g) : h[i] = g[i]
      /\ \A i \in 1..Len(s) : h[Len(g) + i] = s[i]
      /\ ToSet(h) = ToSet(g) \cup ToSet(s)
  BY <1>1, <1>7, <1>8, ToSetConcat
<1>10. \A x \in Readers : got'[x] = IF x = r THEN h ELSE got[x]
  BY <1>1, <1>6, <1>8
<1>11. SeTypeOK' /\ NumbersInv' /\ ReplayInv'
  <2>1. got' \in [Readers -> Seq(Nat)]
    BY <1>1, <1>6, <1>8, <1>9
  <2> QED
    BY <1>1, <1>6, <2>1 DEF StreamInv, SeTypeOK, NumbersInv, ReplayInv
<1>12. \A i \in DOMAIN h : \/ i \in 1..Len(g) /\ h[i] = g[i]
                           \/ i - Len(g) \in 1..Len(s) /\ i > Len(g) /\ h[i] = s[i - Len(g)]
  <2> SUFFICES ASSUME NEW i \in DOMAIN h, i \notin 1..Len(g)
               PROVE  i - Len(g) \in 1..Len(s) /\ i > Len(g) /\ h[i] = s[i - Len(g)]
    BY <1>9
  <2>1. i - Len(g) \in 1..Len(s) /\ i > Len(g) /\ Len(g) + (i - Len(g)) = i
    BY <1>1, <1>7, <1>9
  <2> QED
    BY <1>9, <2>1
<1>13. g = <<>> => s = <<>>
  <2> SUFFICES ASSUME g = <<>>, s # <<>> PROVE FALSE
    OBVIOUS
  <2>1. 1 \in DOMAIN s
    BY <1>7
  <2> QED
    BY <1>3, <1>7, <2>1
<1>14. \A i \in DOMAIN h : h[i] \in 1..n
  BY <1>1, <1>7, <1>12
<1>15. \A i, j \in DOMAIN h : i < j => h[i] < h[j]
  <2> SUFFICES ASSUME NEW i \in DOMAIN h, NEW j \in DOMAIN h, i < j PROVE h[i] < h[j]
    OBVIOUS
  <2>0. i \in Int /\ j \in Int /\ Len(g) \in Int
    BY <1>1, <1>9
  <2>1. CASE i \in 1..Len(g) /\ h[i] = g[i] /\ j \in 1..Len(g) /\ h[j] = g[j]
    BY <1>1, <2>1
  <2>2. CASE i \in 1..Len(g) /\ h[i] = g[i] /\ j - Len(g) \in 1..Len(s) /\ h[j] = s[j - Len(g)]
    <3>1. g # <<>> /\ last = g[Len(g)] /\ h[j] > last /\ h[j] \in 1..n
      BY <1>1, <1>3, <1>7, <2>2
    <3>2. g[i] <= g[Len(g)]
      <4>1. i = Len(g) \/ i < Len(g)
        BY <1>1, <2>2
      <4>2. g[i] \in Int /\ g[Len(g)] \in Int
        BY <1>1, <1>3, <2>2, <3>1
      <4>3. i < Len(g) => g[i] < g[Len(g)]
        BY <1>1, <1>3, <2>2, <3>1
      <4> QED
        BY <4>1, <4>2, <4>3
    <3> QED
      BY <1>1, <1>3, <2>2, <3>1, <3>2
  <2>3. CASE i - Len(g) \in 1..Len(s) /\ h[i] = s[i - Len(g)] /\ j - Len(g) \in 1..Len(s) /\ h[j] = s[j - Len(g)]
    <3>1. i - Len(g) < j - Len(g)
      BY <2>0
    <3> QED
      BY <1>7, <2>3, <3>1
  <2> QED
    BY <1>12, <2>0, <2>1, <2>2, <2>3
<1>16. SeenInv'
  <2> SUFFICES ASSUME NEW x \in Readers
               PROVE  /\ \A i \in DOMAIN got'[x] : got'[x][i] \in 1..Len(pushed')
                      /\ \A i, j \in DOMAIN got'[x] : i < j => got'[x][i] < got'[x][j]
    BY DEF SeenInv
  <2>1. CASE x = r
    BY <1>0, <1>6, <1>10, <1>14, <1>15, <2>1
  <2>2. CASE x # r
    BY <1>6, <1>10, <2>2 DEF StreamInv, SeenInv
  <2> QED
    BY <2>1, <2>2
<1>17. GapInv'
  <2> SUFFICES ASSUME NEW x \in Readers, got'[x] # <<>>, NEW k \in 1..n, Reached(x, k), k > got'[x][1],
                      x \in live' \ broken' \/ k <= got'[x][Len(got'[x])]
               PROVE  k \in ToSet(got'[x])
    <3>1. \A x \in Readers, k \in 1..n : Reached(x, k)' <=> Reached(x, k)
      BY <1>6 DEF Reached, AreaMatches
    <3> QED
      BY <1>1, <1>6, <3>1 DEF GapInv
  <2>1. CASE x # r
    BY <1>1, <1>6, <1>10, <2>1 DEF StreamInv, GapInv
  <2>2. CASE x = r
    <3>1. got'[r] = h /\ g # <<>> /\ h[1] = g[1]
      <4>1. got'[r] = h /\ h # <<>>
        BY <1>10, <2>2
      <4>2. g # <<>>
        BY <1>1, <1>7, <1>8, <1>13, <4>1
      <4> QED
        BY <1>3, <1>1, <1>9, <4>1, <4>2
    <3>2. CASE k <= last
      <4>1. k \in ToSet(g)
        BY <1>0, <1>1, <1>3, <2>2, <3>1, <3>2 DEF StreamInv, GapInv
      <4> QED
        BY <1>9, <2>2, <3>1, <4>1
    <3>3. CASE k > last
      <4>1. k \in ToSet(s)
        BY <1>1, <1>3, <1>5, <2>2, <3>1, <3>3 DEF ReplaySends
      <4> QED
        BY <1>9, <2>2, <3>1, <4>1
    <3> QED
      BY <1>1, <1>3, <3>2, <3>3
  <2> QED
    BY <2>1, <2>2
<1> QED
  BY <1>11, <1>16, <1>17 DEF StreamInv

\* The other steps change no event and no reader's history, and mend no stream.
LEMMA StreamsKeep ==
    ASSUME StreamInv, UNCHANGED <<next_event_id, sse_event_buffer, got, pushed>>, live' \subseteq Readers,
           live' \ broken' \subseteq live \ broken, sse_channel' \in Seq([area : EventAreas, to : SUBSET Readers])
    PROVE  StreamInv'
<1>1. SeTypeOK' /\ NumbersInv' /\ ReplayInv' /\ SeenInv'
  BY DEF StreamInv, SeTypeOK, NumbersInv, ReplayInv, SeenInv
<1>2. GapInv'
  <2>1. \A r \in Readers, k \in DOMAIN pushed : Reached(r, k)' <=> Reached(r, k)
    BY DEF Reached, AreaMatches
  <2> QED
    BY <2>1 DEF StreamInv, GapInv
<1> QED
  BY <1>1, <1>2 DEF StreamInv

\* The inductive invariant holds in every reachable state of the event streams.
THEOREM StreamInvariant == SeSpec => []StreamInv
<1>1. StreamInv /\ [SeNext]_seVars => StreamInv'
  <2> SUFFICES ASSUME StreamInv, [SeNext]_seVars PROVE StreamInv'
    OBVIOUS
  <2>1. live \subseteq Readers /\ sse_channel \in Seq([area : EventAreas, to : SUBSET Readers])
    BY DEF StreamInv, SeTypeOK
  <2>2. CASE Keepalive
    BY <2>1, <2>2, StreamsKeep DEF Keepalive
  <2>3. ASSUME NEW a \in EventAreas, NEW to \in {{}} \cup {{r} : r \in Readers}, PublishSse(a, to) PROVE StreamInv'
    <3>1. [area |-> a, to |-> to] \in [area : EventAreas, to : SUBSET Readers]
      OBVIOUS
    <3>2. sse_channel' \in Seq([area : EventAreas, to : SUBSET Readers])
      BY <2>1, <2>3, <3>1, ToSetAppend DEF PublishSse
    <3> QED
      BY <2>1, <2>3, <3>2, StreamsKeep DEF PublishSse
  <2>4. ASSUME NEW r \in Readers, StreamCut(r) \/ StreamHangUp(r) PROVE StreamInv'
    BY <2>1, <2>4, StreamsKeep DEF StreamCut, StreamHangUp
  <2>5. CASE UNCHANGED seVars
    BY <2>1, <2>5, StreamsKeep DEF seVars
  <2> QED
    BY <2>2, <2>3, <2>4, <2>5, PushKeeps, AcceptKeeps DEF SeNext
<1> QED
  BY SeInitInv, <1>1, PTL DEF SeSpec

\* Over any number of reconnections a stream repeats nothing, reorders nothing and misses no broadcast of its area that
\* the replay buffer still held (push_sse, the replay on Last-Event-ID), for any number of readers and any buffer size.
THEOREM StreamsAlwaysComplete == SeSpec => []StreamsComplete
<1>1. StreamInv => StreamsComplete
  <2> SUFFICES ASSUME StreamInv PROVE StreamsComplete
    OBVIOUS
  <2>1. IdsGrow
    BY DEF StreamInv, SeenInv, IdsGrow
  <2>2. NoGapWithinBuffer
    <3> SUFFICES ASSUME NEW r \in live \ broken, got[r] # <<>>, NEW e \in Range(pushed), e.id > got[r][1], e.to = {},
                        AreaMatches(e.area, r), e.id > next_event_id - 1 - BufferCap
                 PROVE  e.id \in Range(got[r])
      BY DEF NoGapWithinBuffer
    <3>1. PICK k \in DOMAIN pushed : e = pushed[k]
      BY DEF Range
    <3>2. e.id = k /\ next_event_id - 1 = Len(pushed) /\ r \in Readers
      BY <3>1, SeFacts DEF StreamInv, NumbersInv, SeTypeOK
    <3>3. Reached(r, k)
      BY <3>1, <3>2 DEF Reached
    <3>4. k \in ToSet(got[r])
      BY <3>2, <3>3 DEF StreamInv, GapInv
    <3> QED
      BY <3>2, <3>4, SeFacts DEF Range, ToSet
  <2> QED
    BY <2>1, <2>2 DEF StreamsComplete
<1> QED
  BY StreamInvariant, <1>1, PTL

-----------------------------------------------------------------------------
(* Addresses: a network by its prefix is the span it covers. *)
LEMMA Multiples ==
    ASSUME NEW a \in Nat, NEW b \in Nat, NEW k \in Nat, a >= b + 1
    PROVE  k * a >= k * b + k
<1>1. a - b - 1 \in Nat /\ a = b + 1 + (a - b - 1)
  OBVIOUS
<1>2. PICK d \in Nat : a = b + 1 + d
  BY <1>1
<1>3. k * a = k * b + k + k * d
  BY <1>2
<1>4. k * d \in Nat /\ k * b \in Nat
  OBVIOUS
<1> QED
  BY <1>3, <1>4

LEMMA SameBlock ==
    ASSUME NEW n \in Nat, NEW m \in Nat, NEW k \in Nat \ {0}
    PROVE  n \div k = m \div k <=> (m - (m % k) <= n /\ n < m - (m % k) + k)
<1>1. n = k * (n \div k) + (n % k) /\ n % k \in 0..(k - 1) /\ n \div k \in Nat
  OBVIOUS
<1>2. m = k * (m \div k) + (m % k) /\ m % k \in 0..(k - 1) /\ m \div k \in Nat
  OBVIOUS
<1>3. PICK a \in Nat, b \in Nat, r \in 0..(k - 1), s \in 0..(k - 1) :
          n = k * a + r /\ m = k * b + s /\ a = n \div k /\ b = m \div k /\ s = m % k
  BY <1>1, <1>2
<1>4. k * a \in Nat /\ k * b \in Nat /\ m - (m % k) = k * b
  BY <1>3
<1>5. CASE a = b
  BY <1>3, <1>4, <1>5
<1>6. CASE a >= b + 1
  <2>1. k * a >= k * b + k
    BY <1>6, Multiples
  <2>2. ~(n < k * b + k) /\ a # b
    BY <1>3, <1>4, <1>6, <2>1
  <2> QED
    BY <1>3, <1>4, <2>2
<1>7. CASE b >= a + 1
  <2>1. k * b >= k * a + k
    BY <1>7, Multiples
  <2>2. ~(k * b <= n) /\ a # b
    BY <1>3, <1>4, <1>7, <2>1
  <2> QED
    BY <1>3, <1>4, <2>2
<1> QED
  BY <1>5, <1>6, <1>7

\* The trusted networks after configure.
EntriesInv == \A e \in entries : e \in [v : {4, 6}, n : Nat, prefix : Int] /\ Valid(e)

Covered(a) == \E e \in entries : e.v = (IF a.v = 6 THEN 6 ELSE 4) /\ InSpan(a.n, e)

LEMMA TrustedIsCovered ==
    ASSUME EntriesInv, NEW a \in Address
    PROVE  is_trusted(a) <=> Covered(a)
<1>1. a.n \in Nat
  BY DEF Address
<1>2. ASSUME NEW e \in entries PROVE PrefixMatch(a.n, e) <=> InSpan(a.n, e)
  <2>1. PICK k \in Nat \ {0} : k = 2^(AddrBits - e.prefix)
    <3>1. AddrBits - e.prefix \in 0..AddrBits
      BY <1>2, ProxyAssumption DEF EntriesInv, Valid
    <3> QED
      BY <3>1, ProxyAssumption
  <2>2. e.n \in Nat
    BY DEF EntriesInv
  <2>3. PrefixMatch(a.n, e) <=> a.n \div k = e.n \div k
    BY <2>1 DEF PrefixMatch
  <2>4. InSpan(a.n, e) <=> (e.n - (e.n % k) <= a.n /\ a.n < e.n - (e.n % k) + k)
    BY <2>1 DEF InSpan
  <2> QED
    BY <1>1, <2>2, <2>3, <2>4, SameBlock
<1> QED
  BY <1>2 DEF is_trusted, Covered

-----------------------------------------------------------------------------
(* The address of a request: the inductive invariant. *)
\* The peer's header is looked for.
Heeded == proxy_protocol /\ Covered(peer[1])

\* Until a header has been found or ruled out nothing of the stream is consumed; afterwards it is gone, whole.
HeaderInv(p) ==
    /\ pbuf \in Nat /\ left \in Nat
    /\ ~proxy_protocol_parsed => /\ remote_addr = peer /\ pbuf + left = HeaderCells(p) + 1
                                 /\ Heeded => pbuf < 3 /\ (p.ver = 0 => pbuf = 0)
    /\ (proxy_protocol_parsed /\ Heeded) => /\ pbuf + left = 1
                                            /\ remote_addr = IF p.src = <<>> THEN peer ELSE p.src
    /\ ~Heeded => remote_addr = peer

ProxyInv ==
    /\ EntriesInv
    /\ peer = <<>> => left = 0 /\ pbuf = 0 /\ request_addr = <<>> /\ ~proxy_protocol_parsed
    /\ peer # <<>> => \E a \in Addresses, p \in Preambles : peer = <<a>> /\ preamble = <<p>> /\ HeaderInv(p)
    /\ (request_addr # <<>> /\ ~Covered(peer[1])) => request_addr = peer

LEMMA PaInitInv == PaInit => ProxyInv
<1> SUFFICES ASSUME PaInit PROVE ProxyInv
  OBVIOUS
<1>1. EntriesInv
  BY ProxyAssumption DEF PaInit, EntriesInv
<1> QED
  BY <1>1 DEF PaInit, ProxyInv

\* What the settings and the peer decide is the same after a step that leaves them alone.
LEMMA SettingsKept ==
    ASSUME UNCHANGED <<entries, proxy_protocol, peer>>
    PROVE  EntriesInv' = EntriesInv /\ Covered(peer[1])' = Covered(peer[1]) /\ Heeded' = Heeded
BY DEF EntriesInv, Valid, Covered, InSpan, Heeded

LEMMA ConnectKeeps ==
    ASSUME ProxyInv, NEW a \in Addresses, NEW p \in Preambles, PeerConnects(a, p)
    PROVE  ProxyInv'
<1>1. /\ peer = <<>> /\ peer' = <<a>> /\ remote_addr' = <<a>> /\ preamble' = <<p>> /\ left' = HeaderCells(p) + 1
      /\ UNCHANGED <<entries, proxy_protocol, pbuf, proxy_protocol_parsed, request_addr>>
  BY DEF PeerConnects
<1>2. pbuf' = 0 /\ ~proxy_protocol_parsed' /\ request_addr' = <<>>
  BY <1>1 DEF ProxyInv
<1>3. HeaderCells(p) \in Nat
  BY DEF HeaderCells
<1>4. HeaderInv(p)'
  BY <1>1, <1>2, <1>3 DEF HeaderInv, HeaderCells
<1>5. EntriesInv'
  BY <1>1 DEF ProxyInv, EntriesInv, Valid
<1> QED
  BY <1>1, <1>2, <1>4, <1>5 DEF ProxyInv

LEMMA BytesKeep ==
    ASSUME ProxyInv, NEW n \in 1..4, BytesArrive(n)
    PROVE  ProxyInv'
<1>1. /\ n \in 1..left /\ left' = left - n
      /\ UNCHANGED <<entries, proxy_protocol, reverse_proxy, peer, preamble, request_addr>>
  BY DEF BytesArrive
<1>2. peer # <<>>
  BY <1>1 DEF ProxyInv
<1>3. PICK a \in Addresses, p \in Preambles : peer = <<a>> /\ preamble = <<p>> /\ HeaderInv(p)
  BY <1>2 DEF ProxyInv
<1>4. EntriesInv' /\ Covered(peer[1])' = Covered(peer[1]) /\ Heeded' = Heeded /\ EntriesInv
  BY <1>1, SettingsKept DEF ProxyInv
<1>5. peer[1] = a /\ preamble[1] = p /\ (is_trusted(a) <=> Covered(a)) /\ p.ver \in 0..2
  BY <1>3, <1>4, TrustedIsCovered, ProxyAssumption
<1>6. PICK h, l : h = pbuf + n /\ l = left - n
  OBVIOUS
<1>7. left' = l /\ h \in Nat /\ h > 0 /\ pbuf \in Nat /\ left \in Nat /\ l \in Nat /\ h + l = pbuf + left
  BY <1>1, <1>3, <1>6 DEF HeaderInv
<1>8. CASE ~proxy_protocol_parsed /\ Heeded
  <2>1. remote_addr = peer /\ pbuf + left = HeaderCells(p) + 1
    BY <1>3, <1>8 DEF HeaderInv
  <2>2. proxy_protocol /\ is_trusted(remote_addr[1])
    BY <1>5, <1>8, <2>1 DEF Heeded
  <2>3. PICK pp : pp = parse_proxy_protocol(p, h)
    OBVIOUS
  <2>4. /\ proxy_protocol_parsed' = ~pp.more /\ pbuf' = h - pp.len
        /\ remote_addr' = IF pp.addr # <<>> THEN pp.addr ELSE remote_addr
    BY <1>5, <1>6, <1>8, <2>2, <2>3 DEF BytesArrive
  <2>5. h + l = HeaderCells(p) + 1
    BY <1>7, <2>1
  <2>6. HeaderInv(p)'
    <3>1. CASE p.ver = 0
      <4>1. pp = NoHeader
        BY <1>7, <2>3, <3>1 DEF parse_proxy_protocol
      <4>2. pp.more = FALSE /\ pp.len = 0 /\ pp.addr = <<>>
        BY <4>1 DEF NoHeader
      <4>3. proxy_protocol_parsed' = TRUE /\ pbuf' = h /\ remote_addr' = peer
        <5>1. pbuf' = h - 0 /\ remote_addr' = peer
          BY <2>1, <2>4, <4>2
        <5>2. proxy_protocol_parsed' = TRUE
          BY <2>4, <4>2
        <5> QED
          BY <1>7, <5>1, <5>2
      <4>4. p.src = <<>>
        BY <3>1, ProxyAssumption
      <4>5. h + l = 1
        <5>1. HeaderCells(p) = 0
          BY <3>1 DEF HeaderCells
        <5> QED
          BY <2>5, <5>1
      <4> QED
        BY <1>1, <1>4, <1>7, <1>8, <4>3, <4>4, <4>5 DEF HeaderInv
    <3>2. CASE p.ver # 0 /\ h < 3
      <4>1. pp = NeedMore
        BY <1>5, <1>7, <2>3, <3>2 DEF parse_proxy_protocol, parse_v1, parse_v2
      <4>2. pp.more = TRUE /\ pp.len = 0 /\ pp.addr = <<>>
        BY <4>1 DEF NoHeader, NeedMore
      <4>3. proxy_protocol_parsed' = FALSE /\ pbuf' = h /\ remote_addr' = peer
        <5>1. pbuf' = h - 0 /\ remote_addr' = peer
          BY <2>1, <2>4, <4>2
        <5>2. proxy_protocol_parsed' = FALSE
          BY <2>4, <4>2
        <5> QED
          BY <1>7, <5>1, <5>2
      <4>4. h + l = HeaderCells(p) + 1
        BY <2>5
      <4> QED
        BY <1>1, <1>4, <1>7, <1>8, <3>2, <4>3, <4>4 DEF HeaderInv, HeaderCells
    <3>3. CASE p.ver # 0 /\ ~(h < 3)
      <4>1. pp = [more |-> FALSE, addr |-> p.src, len |-> 3]
        BY <1>5, <1>7, <2>3, <3>3 DEF parse_proxy_protocol, parse_v1, parse_v2
      <4>2. proxy_protocol_parsed' = TRUE /\ pbuf' = h - 3 /\ remote_addr' = IF p.src = <<>> THEN peer ELSE p.src
        BY <2>1, <2>4, <4>1
      <4>3. HeaderCells(p) = 3
        BY <3>3 DEF HeaderCells
      <4>4. (h - 3) + l = 1 /\ h - 3 \in Nat
        <5>1. h \in Nat /\ ~(h < 3) /\ l \in Nat
          BY <1>7, <3>3
        <5>2. h + l = 4
          BY <2>5, <4>3
        <5> QED
          BY <5>1, <5>2
      <4> QED
        BY <1>1, <1>4, <1>7, <1>8, <4>2, <4>4 DEF HeaderInv
    <3> QED
      BY <3>1, <3>2, <3>3
  <2> QED
    BY <1>1, <1>2, <1>3, <1>4, <2>6 DEF ProxyInv
<1>9. CASE proxy_protocol_parsed \/ ~Heeded
  <2>1. ~(proxy_protocol /\ ~proxy_protocol_parsed /\ is_trusted(remote_addr[1]))
    <3>1. CASE proxy_protocol_parsed
      BY <3>1
    <3>2. CASE ~Heeded
      BY <1>3, <1>5, <3>2 DEF Heeded, HeaderInv
    <3> QED
      BY <1>9, <3>1, <3>2
  <2>2. proxy_protocol_parsed' = TRUE /\ pbuf' = h /\ remote_addr' = remote_addr
    BY <1>6, <2>1 DEF BytesArrive
  <2>3. HeaderInv(p)'
    BY <1>1, <1>3, <1>4, <1>7, <1>9, <2>2 DEF HeaderInv
  <2> QED
    BY <1>1, <1>2, <1>3, <1>4, <2>3 DEF ProxyInv
<1> QED
  BY <1>8, <1>9

LEMMA DispatchKeeps ==
    ASSUME ProxyInv, NEW c \in Chains, DispatchFrom(c)
    PROVE  ProxyInv'
<1>1. /\ peer # <<>> /\ request_addr' = Forwarded(c)
      /\ UNCHANGED <<entries, proxy_protocol, reverse_proxy, peer, preamble, pbuf, left, remote_addr, proxy_protocol_parsed>>
  BY DEF DispatchFrom
<1>2. PICK a \in Addresses, p \in Preambles : peer = <<a>> /\ preamble = <<p>> /\ HeaderInv(p)
  BY <1>1 DEF ProxyInv
<1>3. EntriesInv' /\ Covered(peer[1])' = Covered(peer[1]) /\ Heeded' = Heeded /\ EntriesInv
  BY <1>1, SettingsKept DEF ProxyInv
<1>4. HeaderInv(p)'
  BY <1>1, <1>2, <1>3 DEF HeaderInv
<1>5. ASSUME ~Covered(peer[1]) PROVE request_addr' = peer
  <2>1. remote_addr = peer /\ peer[1] = a
    BY <1>2, <1>5 DEF HeaderInv, Heeded
  <2>2. ~is_trusted(remote_addr[1])
    BY <1>3, <1>5, <2>1, TrustedIsCovered, ProxyAssumption
  <2> QED
    BY <1>1, <2>1, <2>2 DEF Forwarded
<1> QED
  BY <1>1, <1>2, <1>3, <1>4, <1>5 DEF ProxyInv

\* The inductive invariant holds in every reachable state of a connection.
THEOREM ProxyInvariant == PaSpec => []ProxyInv
<1>1. ProxyInv /\ [PaNext]_paVars => ProxyInv'
  <2> SUFFICES ASSUME ProxyInv, [PaNext]_paVars PROVE ProxyInv'
    OBVIOUS
  <2>1. CASE UNCHANGED paVars
    <3>1. UNCHANGED <<entries, proxy_protocol, reverse_proxy, peer, preamble, pbuf, left, remote_addr,
                      proxy_protocol_parsed, request_addr>>
      BY <2>1 DEF paVars
    <3>2. EntriesInv' = EntriesInv /\ Covered(peer[1])' = Covered(peer[1]) /\ Heeded' = Heeded
      BY <3>1, SettingsKept
    <3>3. \A p \in Preambles : HeaderInv(p)' = HeaderInv(p)
      BY <3>1, <3>2 DEF HeaderInv
    <3> QED
      BY <3>1, <3>2, <3>3 DEF ProxyInv
  <2> QED
    BY <2>1, ConnectKeeps, BytesKeep, DispatchKeeps DEF PaNext
<1> QED
  BY PaInitInv, <1>1, PTL DEF PaSpec

\* Of a chain of hops the rightmost that is no trusted proxy is taken.
LEMMA RightmostHop ==
    ASSUME NEW c \in Seq(Hop), Len(c) > 1
    PROVE  \/ \A i \in DOMAIN c : c[i] # <<>> => is_trusted(c[i][1])
           \/ \E i \in DOMAIN c : /\ extract_forwarded_ip(c) = c[i] /\ ~is_trusted(c[i][1])
                                  /\ \A j \in (i + 1)..Len(c) : c[j] # <<>> => is_trusted(c[j][1])
<1>1. PICK far : far = {i \in DOMAIN c : c[i] # <<>> /\ ~is_trusted(c[i][1])}
  OBVIOUS
<1>2. Len(c) \in Nat /\ DOMAIN c = 1..Len(c)
  BY SeqIsFunction
<1>3. CASE far = {}
  BY <1>1, <1>3
<1>4. CASE far # {}
  <2>1. PICK T \in SUBSET Nat : T = {Len(c) - i : i \in far}
    <3>1. {Len(c) - i : i \in far} \in SUBSET Nat
      BY <1>1, <1>2
    <3> QED
      BY <3>1
  <2>2. PICK x \in T : \A y \in T : x <= y
    <3>1. T # {}
      BY <1>4, <2>1
    <3> QED
      BY <3>1, LeastNat
  <2>3. PICK m \in far : x = Len(c) - m
    BY <2>1, <2>2
  <2>4. \A j \in far : j <= m
    <3> SUFFICES ASSUME NEW j \in far PROVE j <= m
      OBVIOUS
    <3>1. Len(c) - j \in T /\ Len(c) - m <= Len(c) - j
      BY <2>1, <2>2, <2>3
    <3> QED
      BY <1>1, <1>2, <2>3, <3>1
  <2>5. PICK i \in far : i = (CHOOSE k \in far : \A j \in far : j <= k) /\ \A j \in far : j <= i
    BY <2>4
  <2>6. extract_forwarded_ip(c) = c[i]
    <3>1. {k \in {l \in DOMAIN c : c[l] # <<>>} : ~is_trusted(c[k][1])} = far
      BY <1>1
    <3> QED
      BY <1>2, <1>4, <2>5, <3>1 DEF extract_forwarded_ip
  <2>7. i \in DOMAIN c /\ ~is_trusted(c[i][1])
    BY <1>1
  <2>8. ASSUME NEW j \in (i + 1)..Len(c), c[j] # <<>> PROVE is_trusted(c[j][1])
    <3>1. j \in DOMAIN c /\ ~(j <= i)
      BY <1>2, <2>7
    <3> QED
      BY <1>1, <2>5, <2>8, <3>1
  <2> QED
    BY <2>6, <2>7, <2>8
<1> QED
  BY <1>3, <1>4

\* A request is attributed to the right address in every reachable state: its own for a peer outside the trusted
\* networks whatever it sends, the PROXY header's for one inside however the reads split it, and the last untrusted hop
\* of a forwarding chain (TrustedProxyList, parse_proxy_protocol, extract_forwarded_ip), for every configuration.
THEOREM AddressAlwaysRight == PaSpec => []AddressRight
<1>1. ProxyInv => AddressRight
  <2> SUFFICES ASSUME ProxyInv PROVE AddressRight
    OBVIOUS
  <2>1. UntrustedKeepsItsAddress
    BY DEF ProxyInv, UntrustedKeepsItsAddress, Covered
  <2>2. SplitsDoNotMatter
    <3> SUFFICES ASSUME peer # <<>>, left = 0, proxy_protocol, Covered(peer[1])
                 PROVE  pbuf = 1 /\ remote_addr = (IF preamble[1].src = <<>> THEN peer ELSE preamble[1].src)
      BY DEF SplitsDoNotMatter, Covered
    <3>1. PICK a \in Addresses, p \in Preambles : peer = <<a>> /\ preamble = <<p>> /\ HeaderInv(p)
      BY DEF ProxyInv
    <3>2. Heeded /\ preamble[1] = p
      BY <3>1 DEF Heeded
    <3>3. proxy_protocol_parsed
      BY <3>1, <3>2 DEF HeaderInv, HeaderCells
    <3> QED
      BY <3>1, <3>2, <3>3 DEF HeaderInv
  <2>3. LastUntrustedHop
    BY RightmostHop, ProxyAssumption DEF LastUntrustedHop
  <2> QED
    BY <2>1, <2>2, <2>3 DEF AddressRight
<1> QED
  BY ProxyInvariant, <1>1, PTL

-----------------------------------------------------------------------------
(* The HTTP server.  The inductive invariant follows a request from the    *)
(* buffer of its connection through the channels and the workers to the    *)
(* response.                                                               *)
Chunks == [t : {"line", "head", "body"}, k : ReqKinds, n : Nat]
Replies == [k : ReqKinds \cup {"torn"}, n : Nat]
WorkItems == [id : Ids, reply : Replies]
WorkerStates == [pc : {"check", "blocking", "blocked", "dequeue", "busy", "notify", "stopped"}, item : Seq(WorkItems)]
WorkResults == [id : Ids, reply : Replies, keep : BOOLEAN]
HttpConnections == [recv_buf : Seq(Chunks), headers_complete : BOOLEAN, dispatched : BOOLEAN,
                    pending_send : Seq(Replies), send_keep_alive : BOOLEAN]

HsTypeOK ==
    /\ completion \in BOOLEAN /\ running \in BOOLEAN /\ seen \in SUBSET Ids /\ IsFiniteSet(seen)
    /\ DOMAIN connections \subseteq seen /\ connections \in [DOMAIN connections -> HttpConnections]
    /\ inflight \subseteq seen /\ open_connections \in Int
    /\ work_channel \in Seq(WorkItems) /\ result_channel \in Seq(WorkResults)
    /\ worker \in [HttpWorkers -> WorkerStates]
    /\ \A w \in HttpWorkers : worker[w].pc = "busy" => worker[w].item # <<>>
    /\ wire \in [Ids -> Seq(Chunks)] /\ fin \in [Ids -> {"no", "yes", "seen"}]
    /\ asked \in [Ids -> Seq(ReqKinds)] /\ answered \in [Ids -> Seq(Replies)]

\* Where the request of connection c may be.
Works(w, c) == worker[w].pc = "busy" /\ worker[w].item[1].id = c
InWork(c) == \E i \in DOMAIN work_channel : work_channel[i].id = c
InWorker(c) == \E w \in HttpWorkers : Works(w, c)
InResult(c) == \E i \in DOMAIN result_channel : result_channel[i].id = c

\* It is in one place at a time.
PlaceInv ==
    /\ \A i, j \in DOMAIN work_channel : work_channel[i].id = work_channel[j].id => i = j
    /\ \A i, j \in DOMAIN result_channel : result_channel[i].id = result_channel[j].id => i = j
    /\ \A v, w \in HttpWorkers : \A c \in Ids : Works(v, c) /\ Works(w, c) => v = w
    /\ \A c \in Ids : /\ InWork(c) => ~InWorker(c) /\ ~InResult(c) /\ c \notin inflight
                      /\ InWorker(c) => ~InResult(c) /\ c \notin inflight
                      /\ InResult(c) => c \notin inflight

\* The reply r answers the request that connection c has received first and not yet let go.
Owes(c, r) ==
    /\ c \in seen /\ r.k # "sse"
    /\ c \in DOMAIN connections => /\ connections[c].dispatched /\ connections[c].recv_buf # <<>>
                                   /\ r = Reply(connections[c].recv_buf)

CarriedInv ==
    /\ \A i \in DOMAIN work_channel : Owes(work_channel[i].id, work_channel[i].reply)
    /\ \A w \in HttpWorkers : worker[w].pc = "busy" => Owes(worker[w].item[1].id, worker[w].item[1].reply)
    /\ \A i \in DOMAIN result_channel : Owes(result_channel[i].id, result_channel[i].reply)
    /\ \A c \in inflight : /\ c \in DOMAIN connections /\ connections[c].pending_send # <<>>
                           /\ Owes(c, connections[c].pending_send[1])

\* What a connection holds and what is still to come.
InputOf(c) == connections[c].recv_buf \o wire[c]

\* Every chunk of s is of a request in req; a request line begins a later request than what stands before it.
InputOk(s, req) ==
    /\ \A i \in DOMAIN s : s[i].n \in DOMAIN req /\ s[i].k = req[s[i].n]
    /\ \A i, j \in DOMAIN s : i < j /\ s[j].t = "line" => s[i].n < s[j].n

\* The answers in a are to earlier requests than those whose line is in s.
AnswersBefore(a, s) ==
    \A i \in DOMAIN a, j \in DOMAIN s : a[i].k # "torn" /\ s[j].t = "line" => a[i].n < s[j].n

\* The answers in a are to requests in req, each at most once and in order.
AnswersOk(a, req) ==
    \A i \in DOMAIN a : a[i].k # "torn" =>
        /\ a[i].n \in DOMAIN req /\ a[i].k = req[a[i].n]
        /\ \A j \in 1..(i - 1) : a[j].k # "torn" => a[j].n < a[i].n

InputInv ==
    \A c \in Ids : /\ c \in DOMAIN connections => InputOk(InputOf(c), asked[c]) /\ AnswersBefore(answered[c], InputOf(c))
                   /\ c \notin seen => wire[c] = <<>>

Streamed == {c \in Ids : \E i \in DOMAIN answered[c] : answered[c][i].k = "sse"}

\* Event streams are connections no longer, and stay in the gauge.
CountedInv ==
    /\ GaugeExact /\ Streamed \subseteq seen /\ Streamed \cap DOMAIN connections = {}

HttpServerInv == HsTypeOK /\ PlaceInv /\ CarriedInv /\ InputInv /\ AnswersInOrder /\ CountedInv

-----------------------------------------------------------------------------
(* Input and answers of one connection. *)

LEMMA JoinIs ==
    ASSUME NEW T, NEW s \in Seq(T), NEW t \in Seq(T)
    PROVE  /\ s \o t \in Seq(T) /\ Len(s \o t) = Len(s) + Len(t)
           /\ \A i \in 1..Len(s) : (s \o t)[i] = s[i]
           /\ \A i \in 1..Len(t) : (s \o t)[Len(s) + i] = t[i]
           /\ \A i \in DOMAIN (s \o t) : i \in 1..Len(s) \/ i - Len(s) \in 1..Len(t)
OBVIOUS

\* Bytes that move from the wire to the buffer leave the input as it is.
LEMMA InputMoves ==
    ASSUME NEW T, NEW b \in Seq(T), NEW w \in Seq(T), NEW n \in 0..Len(w)
    PROVE  /\ SubSeq(w, 1, n) \in Seq(T) /\ SubSeq(w, n + 1, Len(w)) \in Seq(T)
           /\ (b \o SubSeq(w, 1, n)) \o SubSeq(w, n + 1, Len(w)) = b \o w
<1>1. PICK u : u = SubSeq(w, 1, n)
  OBVIOUS
<1>2. PICK v : v = SubSeq(w, n + 1, Len(w))
  OBVIOUS
<1>3. u \in Seq(T) /\ Len(u) = n /\ \A i \in 1..n : u[i] = w[i]
  BY <1>1
<1>4. v \in Seq(T) /\ Len(v) = Len(w) - n /\ \A i \in 1..(Len(w) - n) : v[i] = w[n + i]
  BY <1>2
<1>5. PICK x : x = b \o u
  OBVIOUS
<1>6. /\ x \in Seq(T) /\ Len(x) = Len(b) + n /\ \A i \in 1..Len(b) : x[i] = b[i]
      /\ \A i \in 1..n : x[Len(b) + i] = w[i]
  <2>1. /\ x \in Seq(T) /\ Len(x) = Len(b) + Len(u) /\ \A i \in 1..Len(b) : x[i] = b[i]
        /\ \A i \in 1..Len(u) : x[Len(b) + i] = u[i]
    <3>1. u \in Seq(T)
      BY <1>3
    <3>2. x \in Seq(T) /\ Len(x) = Len(b) + Len(u)
      BY <3>1, <1>5
    <3>3. \A i \in 1..Len(b) : x[i] = b[i]
      BY <3>1, <1>5
    <3>4. \A i \in 1..Len(u) : x[Len(b) + i] = u[i]
      BY <3>1, <1>5
    <3> QED BY <3>2, <3>3, <3>4
  <2> QED BY <1>3, <2>1
<1>a. Len(b) \in Nat /\ Len(w) \in Nat /\ n \in Nat /\ n <= Len(w)
  OBVIOUS
<1>7. x \o v \in Seq(T) /\ Len(x \o v) = Len(b) + Len(w) /\ b \o w \in Seq(T) /\ Len(b \o w) = Len(b) + Len(w)
  <2>1. x \o v \in Seq(T) /\ Len(x \o v) = Len(x) + Len(v)
    BY <1>4, <1>6, JoinIs
  <2> QED BY <1>4, <1>6, <1>a, <2>1
<1>8. ASSUME NEW i \in 1..(Len(b) + Len(w)) PROVE (x \o v)[i] = (b \o w)[i]
  <2>1. CASE i <= Len(b)
    BY <2>1, <1>4, <1>6
  <2>2. CASE i > Len(b) /\ i <= Len(b) + n
    <3>1. i - Len(b) \in 1..n /\ i = Len(b) + (i - Len(b)) /\ i - Len(b) \in 1..Len(w)
      BY <2>2
    <3>2. (x \o v)[i] = x[i] /\ x[i] = w[i - Len(b)]
      BY <2>2, <3>1, <1>4, <1>6
    <3>3. (b \o w)[i] = w[i - Len(b)]
      BY <2>2, <3>1
    <3> QED BY <3>2, <3>3
  <2>3. CASE i > Len(b) + n
    <3>1. i - Len(x) \in 1..(Len(w) - n) /\ n + (i - Len(x)) = i - Len(b) /\ i > Len(x) /\ i \in 1..(Len(x) + Len(v))
      BY <2>3, <1>4, <1>6
    <3>2. (x \o v)[i] = v[i - Len(x)]
      BY <3>1, <1>4, <1>6
    <3>3. (b \o w)[i] = w[i - Len(b)]
      BY <2>3
    <3> QED BY <3>1, <3>2, <3>3, <1>4
  <2>4. i <= Len(b) \/ (i > Len(b) /\ i <= Len(b) + n) \/ i > Len(b) + n
    BY <1>a
  <2> QED BY <2>1, <2>2, <2>3, <2>4
<1>9. x \o v = b \o w
  <2>1. PICK y : y = x \o v
    OBVIOUS
  <2>2. PICK z : z = b \o w
    OBVIOUS
  <2>3. y \in [1..(Len(b) + Len(w)) -> T] /\ z \in [1..(Len(b) + Len(w)) -> T]
    BY <2>1, <2>2, <1>7, SeqIsFunction
  <2>4. \A i \in 1..(Len(b) + Len(w)) : y[i] = z[i]
    BY <2>1, <2>2, <1>8
  <2>5. y = z
    BY <2>3, <2>4
  <2> QED BY <2>1, <2>2, <2>5
<1> QED BY <1>1, <1>2, <1>3, <1>4, <1>5, <1>9

\* When the request at the front is answered, what has not been received yet begins later.
LEMMA FrontAnswered ==
    ASSUME NEW b \in Seq(Chunks), b # <<>>, NEW w \in Seq(Chunks), NEW a \in Seq(Replies), NEW req \in Seq(ReqKinds),
           InputOk(b \o w, req), AnswersBefore(a, b \o w), AnswersOk(a, req)
    PROVE  /\ Reply(b) \in Replies
           /\ InputOk(w, req) /\ AnswersBefore(Append(a, Reply(b)), w) /\ AnswersOk(Append(a, Reply(b)), req)
<1>1. PICK s : s = b \o w
  OBVIOUS
<1>2. /\ s \in Seq(Chunks) /\ Len(s) = Len(b) + Len(w) /\ Len(b) \in Nat \ {0} /\ Len(w) \in Nat
      /\ s[1] = b[1] /\ \A i \in 1..Len(w) : s[Len(b) + i] = w[i]
  BY <1>1
<1>3. PICK r : r = Reply(b)
  OBVIOUS
<1>4. b[1] \in Chunks
  BY <1>2
<1>5. r \in Replies /\ r.n = b[1].n /\ (r.k # "torn" => b[1].t = "line" /\ r.k = b[1].k)
  <2>1. r = [k |-> FirstHead(b), n |-> b[1].n]
    BY <1>3 DEF Reply
  <2>2. FirstHead(b) = IF b[1].t = "line" THEN b[1].k ELSE "torn"
    BY DEF FirstHead
  <2>3. b[1].k \in ReqKinds /\ b[1].n \in Nat
    BY <1>4 DEF Chunks
  <2> QED BY <2>1, <2>2, <2>3 DEF Replies
<1>6. PICK e : e = Append(a, r)
  OBVIOUS
<1>7. /\ e \in Seq(Replies) /\ Len(e) = Len(a) + 1 /\ Len(a) \in Nat /\ e[Len(a) + 1] = r
      /\ \A i \in 1..Len(a) : e[i] = a[i]
  BY <1>5, <1>6
<1>8. /\ \A i \in 1..Len(s) : s[i].n \in DOMAIN req /\ s[i].k = req[s[i].n]
      /\ \A i, j \in 1..Len(s) : i < j /\ s[j].t = "line" => s[i].n < s[j].n
      /\ \A i \in 1..Len(a), j \in 1..Len(s) : a[i].k # "torn" /\ s[j].t = "line" => a[i].n < s[j].n
  <2>1. DOMAIN s = 1..Len(s) /\ DOMAIN a = 1..Len(a)
    BY <1>2
  <2>2. InputOk(s, req) /\ AnswersBefore(a, s)
    BY <1>1
  <2> QED BY <2>1, <2>2 DEF InputOk, AnswersBefore
<1>b. DOMAIN w = 1..Len(w) /\ Len(s) = Len(b) + Len(w) /\ Len(b) \in Nat /\ Len(b) >= 1 /\ Len(w) \in Nat
  BY <1>2
<1>9. InputOk(w, req)
  <2>1. \A i \in DOMAIN w : Len(b) + i \in 1..Len(s) /\ w[i] = s[Len(b) + i] /\ i \in Nat
    BY <1>2, <1>b
  <2>2. \A i \in DOMAIN w : w[i].n \in DOMAIN req /\ w[i].k = req[w[i].n]
    BY <1>8, <2>1
  <2>3. \A i, j \in DOMAIN w : i < j /\ w[j].t = "line" => w[i].n < w[j].n
    <3> SUFFICES ASSUME NEW i \in DOMAIN w, NEW j \in DOMAIN w, i < j, w[j].t = "line" PROVE w[i].n < w[j].n
      OBVIOUS
    <3>1. Len(b) + i < Len(b) + j
      BY <2>1, <1>b
    <3> QED BY <3>1, <2>1, <1>8
  <2> QED BY <2>2, <2>3 DEF InputOk
<1>10. AnswersBefore(e, w)
  <2> SUFFICES ASSUME NEW i \in DOMAIN e, NEW j \in DOMAIN w, e[i].k # "torn", w[j].t = "line" PROVE e[i].n < w[j].n
    BY DEF AnswersBefore
  <2>1. Len(b) + j \in 1..Len(s) /\ 1 \in 1..Len(s) /\ 1 < Len(b) + j /\ w[j] = s[Len(b) + j]
    BY <1>2, <1>b
  <2>2. CASE i \in 1..Len(a)
    BY <2>1, <2>2, <1>7, <1>8
  <2>3. CASE i = Len(a) + 1
    <3>1. e[i].n = s[1].n
      BY <2>3, <1>2, <1>5, <1>7
    <3> QED BY <3>1, <2>1, <1>8
  <2> QED BY <2>2, <2>3, <1>7
<1>11. AnswersOk(e, req)
  <2> SUFFICES ASSUME NEW i \in DOMAIN e, e[i].k # "torn"
               PROVE  /\ e[i].n \in DOMAIN req /\ e[i].k = req[e[i].n]
                      /\ \A j \in 1..(i - 1) : e[j].k # "torn" => e[j].n < e[i].n
    BY DEF AnswersOk
  <2>2. CASE i \in 1..Len(a)
    <3>1. e[i] = a[i] /\ \A j \in 1..(i - 1) : e[j] = a[j]
      BY <2>2, <1>7
    <3>2. i \in DOMAIN a
      BY <2>2
    <3> QED BY <3>1, <3>2 DEF AnswersOk
  <2>3. CASE i = Len(a) + 1
    <3>1. e[i] = r /\ s[1].t = "line" /\ r.n = s[1].n /\ r.k = s[1].k /\ 1 \in 1..Len(s)
      BY <2>3, <1>2, <1>5, <1>7
    <3>2. \A j \in 1..(i - 1) : e[j] = a[j] /\ j \in 1..Len(a)
      BY <2>3, <1>7
    <3> QED BY <3>1, <3>2, <1>8
  <2> QED BY <2>2, <2>3, <1>7
<1> QED BY <1>3, <1>5, <1>6, <1>9, <1>10, <1>11

\* A client sends one more request.
LEMMA OneMoreRequest ==
    ASSUME NEW b \in Seq(Chunks), NEW w \in Seq(Chunks), NEW a \in Seq(Replies), NEW req \in Seq(ReqKinds), NEW k \in ReqKinds,
           AnswersOk(a, req)
    PROVE  /\ ChunksOf(k, Len(req) + 1) \in Seq(Chunks) /\ Append(req, k) \in Seq(ReqKinds)
           /\ AnswersOk(a, Append(req, k))
           /\ InputOk(b \o w, req) /\ AnswersBefore(a, b \o w)
                => /\ InputOk(b \o (w \o ChunksOf(k, Len(req) + 1)), Append(req, k))
                   /\ AnswersBefore(a, b \o (w \o ChunksOf(k, Len(req) + 1)))
<1>1. PICK n : n = Len(req) + 1
  OBVIOUS
<1>2. n \in Nat /\ Len(req) \in Nat /\ DOMAIN req = 1..Len(req)
  BY <1>1
<1>3. PICK c : c = ChunksOf(k, n)
  OBVIOUS
<1>4. /\ c \in Seq(Chunks) /\ \A i \in DOMAIN c : c[i].n = n /\ c[i].k = k /\ (c[i].t = "line" => i = 1)
  <2>1. Chunk("line", k, n) \in Chunks /\ Chunk("head", k, n) \in Chunks /\ Chunk("body", k, n) \in Chunks
    BY <1>2 DEF Chunk, Chunks
  <2>2. PICK p : p = <<Chunk("line", k, n), Chunk("head", k, n)>>
    OBVIOUS
  <2>3. p \in Seq(Chunks) /\ Len(p) = 2 /\ p[1] = Chunk("line", k, n) /\ p[2] = Chunk("head", k, n)
    BY <2>1, <2>2
  <2>4. PICK e : e = IF k = "post" THEN <<Chunk("body", k, n)>> ELSE <<>>
    OBVIOUS
  <2>5. e \in Seq(Chunks) /\ \A i \in 1..Len(e) : e[i] = Chunk("body", k, n)
    BY <2>1, <2>4
  <2>6. c = p \o e
    BY <1>3, <2>2, <2>4 DEF ChunksOf
  <2>7. /\ c \in Seq(Chunks) /\ Len(c) = 2 + Len(e) /\ c[1] = p[1] /\ c[2] = p[2] /\ Len(e) \in Nat
        /\ \A i \in 1..Len(e) : c[2 + i] = e[i]
    <3>0. p \in Seq(Chunks) /\ e \in Seq(Chunks)
      BY <2>3, <2>5
    <3>1. c \in Seq(Chunks) /\ Len(c) = Len(p) + Len(e) /\ Len(e) \in Nat
      BY <3>0, <2>6
    <3>2. \A i \in 1..Len(p) : c[i] = p[i]
      BY <3>0, <2>6
    <3>3. \A i \in 1..Len(e) : c[Len(p) + i] = e[i]
      BY <3>0, <2>6
    <3> QED BY <2>3, <3>1, <3>2, <3>3
  <2>8. \A i \in DOMAIN c : i = 1 \/ i = 2 \/ (i - 2 \in 1..Len(e) /\ i = 2 + (i - 2))
    BY <2>7
  <2>9. \A i \in DOMAIN c : c[i] \in {Chunk("head", k, n), Chunk("body", k, n)} \/ (i = 1 /\ c[i] = Chunk("line", k, n))
    BY <2>3, <2>5, <2>7, <2>8
  <2> QED BY <2>7, <2>9 DEF Chunk
<1>5. PICK q : q = Append(req, k)
  OBVIOUS
<1>6. q \in Seq(ReqKinds) /\ DOMAIN q = 1..n /\ q[n] = k /\ (\A i \in DOMAIN req : i \in DOMAIN q /\ q[i] = req[i])
  BY <1>1, <1>5
<1>7. AnswersOk(a, q)
  BY <1>6 DEF AnswersOk
<1>8. ASSUME InputOk(b \o w, req), AnswersBefore(a, b \o w)
      PROVE  InputOk(b \o (w \o c), q) /\ AnswersBefore(a, b \o (w \o c))
  <2>1. PICK s : s = b \o w
    OBVIOUS
  <2>2. PICK t : t = b \o (w \o c)
    OBVIOUS
  <2>3. s \in Seq(Chunks) /\ Len(s) \in Nat /\ Len(s) = Len(b) + Len(w)
    BY <2>1
  <2>4. /\ t \in Seq(Chunks) /\ Len(t) = Len(s) + Len(c) /\ Len(c) \in Nat
        /\ \A i \in 1..Len(s) : t[i] = s[i]
        /\ \A i \in 1..Len(c) : t[Len(s) + i] = c[i]
    <3>1. PICK x : x = w \o c
      OBVIOUS
    <3>2. /\ x \in Seq(Chunks) /\ Len(x) = Len(w) + Len(c) /\ \A i \in 1..Len(w) : x[i] = w[i]
          /\ \A i \in 1..Len(c) : x[Len(w) + i] = c[i]
      BY <3>1, <1>4
    <3>3. /\ t \in Seq(Chunks) /\ Len(t) = Len(b) + Len(x) /\ \A i \in 1..Len(b) : t[i] = b[i]
          /\ \A i \in 1..Len(x) : t[Len(b) + i] = x[i]
      BY <2>2, <3>1, <3>2
    <3>4. (\A i \in 1..Len(b) : s[i] = b[i]) /\ \A i \in 1..Len(w) : s[Len(b) + i] = w[i]
      BY <2>1
    <3>5. Len(b) \in Nat /\ Len(w) \in Nat /\ Len(c) \in Nat
      BY <1>4
    <3>6. ASSUME NEW i \in 1..Len(s) PROVE t[i] = s[i]
      <4>1. CASE i <= Len(b)
        BY <4>1, <3>3, <3>4, <3>5
      <4>2. CASE i > Len(b)
        <5>1. i - Len(b) \in 1..Len(w) /\ i - Len(b) \in 1..Len(x) /\ i = Len(b) + (i - Len(b))
          BY <4>2, <2>3, <3>2, <3>5
        <5>2. t[i] = x[i - Len(b)]
          BY <5>1, <3>3
        <5>3. s[i] = w[i - Len(b)]
          BY <5>1, <3>4
        <5> QED BY <5>1, <5>2, <5>3, <3>2
      <4> QED BY <4>1, <4>2, <2>3, <3>5
    <3>7. ASSUME NEW i \in 1..Len(c) PROVE t[Len(s) + i] = c[i]
      <4>1. Len(w) + i \in 1..Len(x) /\ Len(s) + i = Len(b) + (Len(w) + i)
        BY <2>3, <3>2, <3>5
      <4> QED BY <4>1, <3>2, <3>3
    <3> QED BY <3>2, <3>3, <3>5, <3>6, <3>7, <2>3
  <2>5. \A i \in DOMAIN t : i \in 1..Len(s) \/ (i - Len(s) \in 1..Len(c) /\ t[i] = c[i - Len(s)] /\ i > Len(s))
    BY <2>3, <2>4
  <2>6. /\ \A i \in 1..Len(s) : s[i].n \in DOMAIN req /\ s[i].k = req[s[i].n]
        /\ \A i, j \in 1..Len(s) : i < j /\ s[j].t = "line" => s[i].n < s[j].n
        /\ \A i \in DOMAIN a, j \in 1..Len(s) : a[i].k # "torn" /\ s[j].t = "line" => a[i].n < s[j].n
    <3>1. DOMAIN s = 1..Len(s)
      BY <2>3
    <3>2. InputOk(s, req) /\ AnswersBefore(a, s)
      BY <1>8, <2>1
    <3> QED BY <3>1, <3>2 DEF InputOk, AnswersBefore
  <2>7. ASSUME NEW i \in DOMAIN t PROVE t[i].n \in DOMAIN q /\ t[i].k = q[t[i].n]
    <3>1. CASE i \in 1..Len(s)
      <4>1. t[i] = s[i] /\ s[i].n \in DOMAIN req /\ s[i].k = req[s[i].n]
        BY <3>1, <2>4, <2>6
      <4> QED BY <4>1, <1>6
    <3>2. CASE i \notin 1..Len(s)
      <4>1. i - Len(s) \in DOMAIN c /\ t[i] = c[i - Len(s)]
        BY <3>2, <2>5, <1>4
      <4>2. t[i].n = n /\ t[i].k = k
        BY <4>1, <1>4
      <4>3. n \in 1..n
        BY <1>1, <1>2
      <4> QED BY <4>2, <4>3, <1>6
    <3> QED BY <3>1, <3>2
  <2>8. ASSUME NEW i \in DOMAIN t, NEW j \in DOMAIN t, i < j, t[j].t = "line" PROVE t[i].n < t[j].n
    <3>1. CASE j \in 1..Len(s)
      <4>1. i \in 1..Len(s)
        BY <3>1, <2>3, <2>4, <2>8
      <4> QED BY <3>1, <4>1, <2>4, <2>6, <2>8
    <3>2. CASE j \notin 1..Len(s)
      <4>1. j - Len(s) \in DOMAIN c /\ t[j] = c[j - Len(s)]
        BY <3>2, <2>5, <1>4
      <4>2. j - Len(s) = 1 /\ t[j].n = n
        BY <4>1, <2>8, <1>4
      <4>3. i \in 1..Len(s)
        BY <4>2, <2>3, <2>4, <2>8
      <4>4. t[i].n \in 1..Len(req)
        BY <4>3, <2>4, <2>6, <1>2
      <4> QED BY <4>2, <4>4, <1>1, <1>2
    <3> QED BY <3>1, <3>2
  <2>9. ASSUME NEW i \in DOMAIN a, NEW j \in DOMAIN t, a[i].k # "torn", t[j].t = "line" PROVE a[i].n < t[j].n
    <3>1. CASE j \in 1..Len(s)
      BY <3>1, <2>4, <2>6, <2>9
    <3>2. CASE j \notin 1..Len(s)
      <4>1. j - Len(s) \in DOMAIN c /\ t[j] = c[j - Len(s)]
        BY <3>2, <2>5, <1>4
      <4>2. t[j].n = n
        BY <4>1, <1>4
      <4>3. a[i].n \in 1..Len(req)
        BY <2>9, <1>2 DEF AnswersOk
      <4> QED BY <4>2, <4>3, <1>1, <1>2
    <3> QED BY <3>1, <3>2
  <2>10. InputOk(t, q)
    BY <2>7, <2>8 DEF InputOk
  <2>11. AnswersBefore(a, t)
    BY <2>9 DEF AnswersBefore
  <2> QED BY <2>2, <2>10, <2>11
<1> QED BY <1>1, <1>3, <1>4, <1>5, <1>6, <1>7, <1>8

\* What the receive handler may decide.
LEMMA VerdictIs ==
    ASSUME NEW conn \in HttpConnections, NEW buf \in Seq(Chunks), NEW closed \in BOOLEAN
    PROVE  /\ Verdict(conn, buf, closed) \in {"wait", "remove", "reject", "stream", "dispatch"}
           /\ Verdict(conn, buf, closed) \in {"reject", "stream", "dispatch"} => buf # <<>> /\ ~conn.dispatched
           /\ Verdict(conn, buf, closed) = "remove" => buf = <<>> \/ ~conn.dispatched
           /\ Verdict(conn, buf, closed) = "stream" => FirstHead(buf) = "sse"
           /\ Verdict(conn, buf, closed) \in {"reject", "dispatch"} => FirstHead(buf) # "sse"
<1>1. PICK k : k = FirstHead(buf)
  OBVIOUS
<1>2. PICK p : p = Progress(conn, buf, closed)
  OBVIOUS
<1>3. buf = <<>> => ~find_header_end(buf) /\ ~UriTooLong(buf)
  BY DEF find_header_end, UriTooLong
<1>4. UriTooLong(buf) => k = "long"
  BY <1>1 DEF UriTooLong
<1>5. /\ p \in {"wait", "remove", "reject", "stream", "dispatch"}
      /\ p \in {"reject", "stream", "dispatch"} => find_header_end(buf) \/ UriTooLong(buf)
      /\ p = "stream" => k = "sse"
      /\ p \in {"reject", "dispatch"} => k # "sse"
  BY <1>1, <1>2, <1>4 DEF Progress, validate_raw_request, has_transfer_encoding_raw, extract_content_length_raw, MaxBody,
     validate_parsed_request
<1> QED BY <1>1, <1>2, <1>3, <1>5 DEF Verdict


-----------------------------------------------------------------------------
(* The steps. *)

LEMMA HsInitially == HsInit => HttpServerInv
<1> SUFFICES ASSUME HsInit PROVE HttpServerInv
  OBVIOUS
<1>1. DOMAIN connections = {} /\ connections \in [{} -> HttpConnections]
  BY DEF HsInit
<1>2. IsFiniteSet({}) /\ Cardinality({}) = 0
  BY FS_EmptySet
<1>3. HsTypeOK
  BY <1>1, <1>2 DEF HsInit, HsTypeOK, WorkerStates, Idle
<1>4. PlaceInv /\ CarriedInv
  BY DEF HsInit, PlaceInv, CarriedInv, Works, Idle, InWork, InWorker, InResult
<1>5. InputInv /\ AnswersInOrder
  BY <1>1 DEF HsInit, InputInv, AnswersInOrder
<1>6. Streamed = {}
  BY DEF HsInit, Streamed
<1>7. open_connections = Cardinality(DOMAIN connections) + Cardinality(Streamed)
  BY <1>1, <1>2, <1>6 DEF HsInit
<1>8. CountedInv
  BY <1>1, <1>6, <1>7 DEF CountedInv, GaugeExact, Streamed
<1> QED BY <1>3, <1>4, <1>5, <1>8 DEF HttpServerInv

\* The steps that leave requests and connections alone.
LEMMA HsElsewhere ==
    ASSUME HttpServerInv, UNCHANGED <<completion, seen, connections, inflight, open_connections, work_channel, result_channel,
                                      worker, wire, asked, answered>>,
           running' \in BOOLEAN, fin' \in [Ids -> {"no", "yes", "seen"}]
    PROVE  HttpServerInv'
BY DEF HttpServerInv, HsTypeOK, PlaceInv, CarriedInv, Works, InWork, InWorker, InResult, Owes, InputInv, InputOf,
       AnswersInOrder, CountedInv, GaugeExact, Streamed

\* A worker moves without taking or giving a request.
LEMMA HsWorkerMoves ==
    ASSUME HttpServerInv, UNCHANGED <<completion, running, seen, connections, inflight, open_connections, work_channel,
                                      result_channel, wire, fin, asked, answered>>,
           worker' \in [HttpWorkers -> WorkerStates],
           \A w \in HttpWorkers : worker'[w].pc = "busy" => worker'[w] = worker[w]
    PROVE  HttpServerInv'
<1>1. HsTypeOK'
  BY DEF HttpServerInv, HsTypeOK
<1>2. PlaceInv'
  BY DEF HttpServerInv, PlaceInv, Works, InWork, InWorker, InResult
<1>3. CarriedInv'
  BY DEF HttpServerInv, CarriedInv, Owes
<1>4. InputInv' /\ AnswersInOrder' /\ CountedInv'
  BY DEF HttpServerInv, InputInv, InputOf, AnswersInOrder, CountedInv, GaugeExact, Streamed
<1> QED BY <1>1, <1>2, <1>3, <1>4 DEF HttpServerInv

LEMMA HsClientSend ==
    ASSUME NEW c \in Ids, NEW k \in SentKinds, HttpServerInv, ClientSend(c, k)
    PROVE  HttpServerInv'
<1> USE DEF HttpServerInv
<1>0. k \in ReqKinds
  BY KindsAssumption
<1>1. /\ c \in seen /\ wire' = [wire EXCEPT ![c] = wire[c] \o ChunksOf(k, Len(asked[c]) + 1)]
      /\ asked' = [asked EXCEPT ![c] = Append(asked[c], k)]
      /\ UNCHANGED <<completion, running, seen, connections, inflight, open_connections, work_channel,
                     result_channel, worker, fin, answered>>
  BY DEF ClientSend
<1>2. wire[c] \in Seq(Chunks) /\ asked[c] \in Seq(ReqKinds) /\ answered[c] \in Seq(Replies)
  BY DEF HsTypeOK
<1>3. AnswersOk(answered[c], asked[c])
  BY DEF AnswersInOrder, AnswersOk
<1>4. /\ ChunksOf(k, Len(asked[c]) + 1) \in Seq(Chunks) /\ Append(asked[c], k) \in Seq(ReqKinds)
      /\ AnswersOk(answered[c], Append(asked[c], k))
  BY <1>0, <1>2, <1>3, OneMoreRequest
<1>5. wire[c] \o ChunksOf(k, Len(asked[c]) + 1) \in Seq(Chunks)
  BY <1>2, <1>4, JoinIs
<1>6. HsTypeOK'
  BY <1>1, <1>4, <1>5 DEF HsTypeOK
<1>7. PlaceInv' /\ CarriedInv'
  BY <1>1 DEF PlaceInv, Works, InWork, InWorker, InResult, CarriedInv, Owes
<1>8. AnswersInOrder'
  <2>1. \A d \in Ids : AnswersOk(answered[d], asked'[d])
    BY <1>1, <1>4 DEF HsTypeOK, AnswersInOrder, AnswersOk
  <2> QED BY <1>1, <2>1 DEF AnswersInOrder, AnswersOk
<1>9. InputInv'
  <2>1. CASE c \in DOMAIN connections
    <3>1. connections[c].recv_buf \in Seq(Chunks)
      BY <2>1 DEF HsTypeOK, HttpConnections
    <3>2. InputOk(connections[c].recv_buf \o wire[c], asked[c]) /\ AnswersBefore(answered[c], connections[c].recv_buf \o wire[c])
      BY <2>1 DEF InputInv, InputOf
    <3>3. /\ InputOk(connections[c].recv_buf \o (wire[c] \o ChunksOf(k, Len(asked[c]) + 1)), Append(asked[c], k))
          /\ AnswersBefore(answered[c], connections[c].recv_buf \o (wire[c] \o ChunksOf(k, Len(asked[c]) + 1)))
      BY <1>0, <1>2, <1>3, <3>1, <3>2, OneMoreRequest
    <3>4. wire'[c] = wire[c] \o ChunksOf(k, Len(asked[c]) + 1) /\ asked'[c] = Append(asked[c], k)
      BY <1>1 DEF HsTypeOK
    <3>5. InputOk(InputOf(c)', asked'[c]) /\ AnswersBefore(answered[c], InputOf(c)')
      BY <1>1, <3>3, <3>4 DEF InputOf
    <3>6. \A d \in Ids \ {c} : wire'[d] = wire[d] /\ asked'[d] = asked[d]
      BY <1>1 DEF HsTypeOK
    <3> QED BY <1>1, <3>5, <3>6 DEF InputInv, InputOf
  <2>2. CASE c \notin DOMAIN connections
    <3>1. \A d \in Ids \ {c} : wire'[d] = wire[d] /\ asked'[d] = asked[d]
      BY <1>1 DEF HsTypeOK
    <3> QED BY <1>1, <2>2, <3>1 DEF InputInv, InputOf
  <2> QED BY <2>1, <2>2
<1>10. CountedInv'
  BY <1>1 DEF CountedInv, GaugeExact, Streamed
<1> QED BY <1>6, <1>7, <1>8, <1>9, <1>10

LEMMA HsAccept ==
    ASSUME NEW c \in Ids, HttpServerInv, HttpAccept(c)
    PROVE  HttpServerInv'
<1> USE DEF HttpServerInv
<1>1. /\ c \notin seen /\ seen' = seen \cup {c}
      /\ connections' = [d \in DOMAIN connections \cup {c} |-> IF d = c THEN Fresh ELSE connections[d]]
      /\ open_connections' = open_connections + 1
      /\ UNCHANGED <<completion, running, inflight, work_channel, result_channel, worker, wire, fin, asked, answered>>
  BY DEF HttpAccept
<1>2. Fresh \in HttpConnections /\ Fresh.recv_buf = <<>>
  BY DEF Fresh, HttpConnections
<1>3. /\ DOMAIN connections' = DOMAIN connections \cup {c} /\ connections'[c] = Fresh
      /\ \A d \in DOMAIN connections : d # c /\ connections'[d] = connections[d]
  BY <1>1 DEF HsTypeOK
<1>4. HsTypeOK'
  <2>1. IsFiniteSet(seen')
    BY <1>1, FS_AddElement DEF HsTypeOK
  <2>2. connections' \in [DOMAIN connections' -> HttpConnections]
    BY <1>1, <1>2, <1>3 DEF HsTypeOK
  <2>3. seen' \in SUBSET Ids /\ DOMAIN connections' \subseteq seen' /\ inflight' \subseteq seen' /\ open_connections' \in Int
    BY <1>1, <1>3 DEF HsTypeOK
  <2> QED BY <1>1, <2>1, <2>2, <2>3 DEF HsTypeOK
<1>5. PlaceInv'
  BY <1>1 DEF PlaceInv, Works, InWork, InWorker, InResult
<1>6. ASSUME NEW d, NEW r, Owes(d, r) PROVE Owes(d, r)'
  BY <1>1, <1>3, <1>6 DEF Owes
<1>7. CarriedInv'
  <2>1. \A d \in inflight : d \in DOMAIN connections /\ connections'[d] = connections[d]
    BY <1>3 DEF CarriedInv
  <2> QED BY <1>1, <1>3, <1>6, <2>1 DEF CarriedInv
<1>8. InputInv'
  <2>1. wire[c] = <<>>
    BY <1>1 DEF InputInv
  <2>2. InputOf(c)' = <<>>
    BY <1>1, <1>2, <1>3, <2>1 DEF InputOf
  <2>3. InputOk(<<>>, asked[c]) /\ AnswersBefore(answered[c], <<>>)
    BY DEF InputOk, AnswersBefore
  <2>4. \A d \in DOMAIN connections : InputOf(d)' = InputOf(d)
    BY <1>1, <1>3 DEF InputOf
  <2> QED BY <1>1, <1>3, <2>2, <2>3, <2>4 DEF InputInv
<1>9. AnswersInOrder'
  BY <1>1 DEF AnswersInOrder
<1>10. CountedInv'
  <2>1. IsFiniteSet(DOMAIN connections) /\ c \notin DOMAIN connections
    BY <1>1, FS_Subset DEF HsTypeOK
  <2>2. Cardinality(DOMAIN connections \cup {c}) = Cardinality(DOMAIN connections) + 1 /\ Cardinality(DOMAIN connections) \in Nat
    BY <2>1, FS_AddElement, FS_CardinalityType
  <2>3. Streamed' = Streamed /\ Streamed \subseteq seen
    BY <1>1 DEF Streamed, CountedInv
  <2>4. IsFiniteSet(Streamed) /\ Cardinality(Streamed) \in Nat
    BY <2>3, FS_Subset, FS_CardinalityType DEF HsTypeOK
  <2>5. open_connections = Cardinality(DOMAIN connections) + Cardinality(Streamed)
    BY DEF CountedInv, GaugeExact, Streamed
  <2>6. open_connections' = Cardinality(DOMAIN connections') + Cardinality(Streamed')
    BY <1>1, <1>3, <2>2, <2>3, <2>4, <2>5
  <2>7. GaugeExact'
    BY <2>6 DEF GaugeExact, Streamed
  <2> QED BY <1>1, <1>3, <2>3, <2>7 DEF CountedInv
<1> QED BY <1>4, <1>5, <1>7, <1>8, <1>9, <1>10

LEMMA HsDequeue ==
    ASSUME NEW w \in HttpWorkers, HttpServerInv, WorkerDequeue(w)
    PROVE  HttpServerInv'
<1> USE DEF HttpServerInv
<1>1. CASE work_channel = <<>>
  <2>1. worker' = [worker EXCEPT ![w] = Idle] /\ UNCHANGED <<completion, running, seen, connections, inflight,
           open_connections, work_channel, result_channel, wire, fin, asked, answered>>
    BY <1>1 DEF WorkerDequeue
  <2>2. worker' \in [HttpWorkers -> WorkerStates]
    BY <2>1 DEF HsTypeOK, WorkerStates, Idle
  <2>3. \A v \in HttpWorkers : worker'[v].pc = "busy" => worker'[v] = worker[v]
    BY <2>1 DEF HsTypeOK, Idle
  <2> QED BY <2>1, <2>2, <2>3, HsWorkerMoves
<1>2. CASE work_channel # <<>>
  <2>0. PICK h : h = Head(work_channel)
    OBVIOUS
  <2>1. /\ worker[w].pc = "dequeue" /\ worker' = [worker EXCEPT ![w] = [pc |-> "busy", item |-> <<h>>]]
        /\ work_channel' = Tail(work_channel)
        /\ UNCHANGED <<completion, running, seen, connections, inflight, open_connections, result_channel, wire, fin, asked, answered>>
    BY <1>2, <2>0 DEF WorkerDequeue
  <2>2. /\ h \in WorkItems /\ h = work_channel[1] /\ 1 \in DOMAIN work_channel /\ work_channel' \in Seq(WorkItems)
        /\ \A i \in DOMAIN work_channel' : i + 1 \in DOMAIN work_channel /\ i + 1 # 1 /\ work_channel'[i] = work_channel[i + 1] /\ i \in Nat
    BY <1>2, <2>0, <2>1 DEF HsTypeOK
  <2>3. /\ worker'[w].pc = "busy" /\ worker'[w].item = <<h>> /\ worker'[w].item[1] = h /\ <<h>> \in Seq(WorkItems)
        /\ \A v \in HttpWorkers \ {w} : worker'[v] = worker[v]
    BY <2>1, <2>2 DEF HsTypeOK
  <2>4. HsTypeOK'
    BY <2>1, <2>2, <2>3 DEF HsTypeOK, WorkerStates
  <2>5. PlaceInv'
    <3>1. \A i, j \in DOMAIN work_channel' : work_channel'[i].id = work_channel'[j].id => i = j
      <4> SUFFICES ASSUME NEW i \in DOMAIN work_channel', NEW j \in DOMAIN work_channel', work_channel'[i].id = work_channel'[j].id
                   PROVE  i = j
        OBVIOUS
      <4>1. i + 1 = j + 1
        BY <2>2 DEF PlaceInv
      <4> QED BY <4>1, <2>2
    <3>2. \A c \in Ids : InWork(c)' => InWork(c) /\ c # h.id
      BY <2>2 DEF InWork, PlaceInv
    <3>3. InWork(h.id) /\ h.id \in Ids /\ ~InWorker(h.id) /\ ~InResult(h.id) /\ h.id \notin inflight
      BY <2>2 DEF InWork, PlaceInv, WorkItems
    <3>4. \A v \in HttpWorkers, c \in Ids : Works(v, c)' => Works(v, c) \/ (v = w /\ c = h.id)
      BY <2>3 DEF Works
    <3>5. \A c \in Ids : InWorker(c)' => InWorker(c) \/ c = h.id
      BY <3>4 DEF InWorker
    <3>6. ~Works(w, h.id) /\ \A v \in HttpWorkers : ~Works(v, h.id)
      BY <3>3 DEF InWorker
    <3>7. \A u, v \in HttpWorkers : \A c \in Ids : Works(u, c)' /\ Works(v, c)' => u = v
      <4>1. ~Works(w, h.id)' \/ \A c \in Ids : Works(w, c)' => c = h.id
        BY <2>3 DEF Works
      <4> QED BY <2>3, <3>4, <3>6 DEF PlaceInv, Works
    <3>8. \A c \in Ids : InResult(c)' <=> InResult(c)
      BY <2>1 DEF InResult
    <3>9. \A i, j \in DOMAIN result_channel' : result_channel'[i].id = result_channel'[j].id => i = j
      BY <2>1 DEF PlaceInv
    <3> QED BY <2>1, <3>1, <3>2, <3>3, <3>5, <3>7, <3>8, <3>9 DEF PlaceInv
  <2>6. \A d, r : Owes(d, r)' <=> Owes(d, r)
    BY <2>1 DEF Owes
  <2>7. CarriedInv'
    BY <2>1, <2>2, <2>3, <2>6 DEF CarriedInv
  <2>8. InputInv' /\ AnswersInOrder' /\ CountedInv'
    BY <2>1 DEF InputInv, InputOf, AnswersInOrder, CountedInv, GaugeExact, Streamed
  <2> QED BY <2>4, <2>5, <2>7, <2>8
<1> QED BY <1>1, <1>2

LEMMA HsPublish ==
    ASSUME NEW w \in HttpWorkers, HttpServerInv, WorkerPublish(w)
    PROVE  HttpServerInv'
<1> USE DEF HttpServerInv
<1>1. PICK x : x = worker[w].item[1]
  OBVIOUS
<1>2. PICK r : r = [id |-> x.id, reply |-> x.reply, keep |-> x.reply.k # "close"]
  OBVIOUS
<1>3. /\ worker[w].pc = "busy" /\ result_channel' = Append(result_channel, r)
      /\ worker' = [worker EXCEPT ![w].pc = "notify"]
      /\ UNCHANGED <<completion, running, seen, connections, inflight, open_connections, work_channel, wire, fin, asked, answered>>
  BY <1>1, <1>2 DEF WorkerPublish
<1>4. x \in WorkItems /\ Works(w, x.id)
  <2>1. worker[w].item \in Seq(WorkItems) /\ worker[w].item # <<>>
    BY <1>3 DEF HsTypeOK, WorkerStates
  <2> QED BY <2>1, <1>1, <1>3 DEF Works
<1>5. r \in WorkResults /\ r.id = x.id /\ r.reply = x.reply
  BY <1>2, <1>4 DEF WorkItems, WorkResults
<1>6. /\ result_channel' \in Seq(WorkResults)
      /\ \A i \in DOMAIN result_channel' : (i \in DOMAIN result_channel /\ result_channel'[i] = result_channel[i])
                                            \/ (i = Len(result_channel) + 1 /\ result_channel'[i] = r)
  BY <1>3, <1>5 DEF HsTypeOK
<1>7. worker'[w].pc = "notify" /\ worker'[w].item = worker[w].item /\ \A v \in HttpWorkers \ {w} : worker'[v] = worker[v]
  BY <1>3 DEF HsTypeOK
<1>8. HsTypeOK'
  <2>1. worker' \in [HttpWorkers -> WorkerStates]
    BY <1>3 DEF HsTypeOK, WorkerStates
  <2>2. \A v \in HttpWorkers : worker'[v].pc = "busy" => worker'[v].item # <<>>
    BY <1>7 DEF HsTypeOK
  <2> QED BY <1>3, <1>6, <2>1, <2>2 DEF HsTypeOK
<1>9. PlaceInv'
  <2>1. x.id \in Ids /\ InWorker(x.id) /\ ~InResult(x.id) /\ ~InWork(x.id) /\ x.id \notin inflight
    BY <1>4 DEF InWorker, PlaceInv, WorkItems
  <2>2. \A i, j \in DOMAIN result_channel' : result_channel'[i].id = result_channel'[j].id => i = j
    BY <1>5, <1>6, <2>1 DEF PlaceInv, InResult
  <2>3. \A v \in HttpWorkers, c \in Ids : Works(v, c)' => Works(v, c) /\ v # w
    BY <1>7 DEF Works
  <2>4. \A c \in Ids : InWorker(c)' => InWorker(c) /\ c # x.id
    BY <2>3, <1>4, <2>1 DEF InWorker, PlaceInv
  <2>5. \A c \in Ids : InResult(c)' => InResult(c) \/ c = x.id
    BY <1>5, <1>6 DEF InResult
  <2>6. \A c \in Ids : InWork(c)' <=> InWork(c)
    BY <1>3 DEF InWork
  <2>7. \A i, j \in DOMAIN work_channel' : work_channel'[i].id = work_channel'[j].id => i = j
    BY <1>3 DEF PlaceInv
  <2>8. \A u, v \in HttpWorkers : \A c \in Ids : Works(u, c)' /\ Works(v, c)' => u = v
    BY <2>3 DEF PlaceInv
  <2> QED BY <1>3, <2>1, <2>2, <2>4, <2>5, <2>6, <2>7, <2>8 DEF PlaceInv
<1>10. \A d, q : Owes(d, q)' <=> Owes(d, q)
  BY <1>3 DEF Owes
<1>11. CarriedInv'
  <2>1. Owes(x.id, x.reply)
    BY <1>1, <1>3 DEF CarriedInv
  <2>2. \A i \in DOMAIN result_channel' : Owes(result_channel'[i].id, result_channel'[i].reply)
    BY <2>1, <1>5, <1>6 DEF CarriedInv
  <2>3. \A v \in HttpWorkers : worker'[v].pc = "busy" => worker'[v] = worker[v] /\ worker[v].pc = "busy"
    BY <1>7
  <2> QED BY <1>3, <1>10, <2>2, <2>3 DEF CarriedInv
<1>12. InputInv' /\ AnswersInOrder' /\ CountedInv'
  BY <1>3 DEF InputInv, InputOf, AnswersInOrder, CountedInv, GaugeExact, Streamed
<1> QED BY <1>8, <1>9, <1>11, <1>12

-----------------------------------------------------------------------------
(* The steps of the poll thread. *)

NoneFor(c) == ~InWork(c) /\ ~InWorker(c) /\ ~InResult(c) /\ c \notin inflight

\* A connection that has dispatched nothing, or holds nothing, has no request anywhere.
LEMMA NothingCarried ==
    ASSUME HsTypeOK, CarriedInv, NEW c \in DOMAIN connections, ~connections[c].dispatched \/ connections[c].recv_buf = <<>>
    PROVE  NoneFor(c)
<1>1. \A r : ~Owes(c, r)
  BY DEF Owes
<1> QED BY <1>1 DEF NoneFor, InWork, InWorker, InResult, Works, CarriedInv

\* One connection is changed or dropped, and its request is done: the others keep what they have.
LEMMA OneConnection ==
    ASSUME NEW c \in DOMAIN connections, HttpServerInv,
           UNCHANGED <<seen, asked, work_channel, worker>>, inflight' \subseteq inflight,
           \A i \in DOMAIN result_channel' : \E j \in DOMAIN result_channel : result_channel'[i] = result_channel[j],
           HsTypeOK', PlaceInv', CountedInv', NoneFor(c)',
           DOMAIN connections' \cup {c} = DOMAIN connections,
           \A d \in DOMAIN connections' \ {c} : connections'[d] = connections[d],
           \A d \in Ids \ {c} : wire'[d] = wire[d] /\ answered'[d] = answered[d],
           AnswersOk(answered'[c], asked[c]),
           c \in DOMAIN connections' => InputOk(InputOf(c)', asked[c]) /\ AnswersBefore(answered'[c], InputOf(c)')
    PROVE  HttpServerInv'
<1> USE DEF HttpServerInv
<1>0. c \in Ids /\ c \in seen
  BY DEF HsTypeOK
<1>1. ASSUME NEW d, d # c, NEW r, Owes(d, r) PROVE Owes(d, r)'
  <2>1. d \in DOMAIN connections' => d \in DOMAIN connections /\ connections'[d] = connections[d]
    BY <1>1
  <2> QED BY <1>1, <2>1 DEF Owes
<1>2. CarriedInv'
  <2>1. ASSUME NEW i \in DOMAIN work_channel' PROVE Owes(work_channel[i].id, work_channel[i].reply)'
    <3>1. work_channel[i].id # c /\ Owes(work_channel[i].id, work_channel[i].reply)
      BY DEF NoneFor, InWork, CarriedInv
    <3> QED BY <3>1, <1>1
  <2>2. ASSUME NEW w \in HttpWorkers, worker[w].pc = "busy" PROVE Owes(worker[w].item[1].id, worker[w].item[1].reply)'
    <3>1. worker[w].item[1].id # c /\ Owes(worker[w].item[1].id, worker[w].item[1].reply)
      BY <2>2 DEF NoneFor, InWorker, Works, CarriedInv
    <3> QED BY <3>1, <1>1
  <2>3. ASSUME NEW i \in DOMAIN result_channel' PROVE Owes(result_channel[i].id, result_channel[i].reply)'
    <3>1. result_channel'[i].id # c /\ Owes(result_channel'[i].id, result_channel'[i].reply)
      BY DEF NoneFor, InResult, CarriedInv
    <3> QED BY <3>1, <1>1
  <2>4. ASSUME NEW d \in inflight'
        PROVE  /\ d \in DOMAIN connections' /\ connections'[d].pending_send # <<>>
               /\ Owes(d, connections[d].pending_send[1])'
    <3>1. d # c /\ d \in inflight
      BY DEF NoneFor
    <3>2. d \in DOMAIN connections /\ connections[d].pending_send # <<>> /\ Owes(d, connections[d].pending_send[1])
      BY <3>1 DEF CarriedInv
    <3>3. d \in DOMAIN connections' /\ connections'[d] = connections[d]
      BY <3>1, <3>2
    <3> QED BY <3>1, <3>2, <3>3, <1>1
  <2> QED BY <2>1, <2>2, <2>3, <2>4 DEF CarriedInv
<1>3. InputInv'
  <2>1. ASSUME NEW d \in Ids, d \in DOMAIN connections'
        PROVE  InputOk(InputOf(d)', asked[d]) /\ AnswersBefore(answered'[d], InputOf(d)')
    <3>1. CASE d # c
      <4>1. d \in DOMAIN connections /\ InputOf(d)' = InputOf(d) /\ answered'[d] = answered[d]
        BY <2>1, <3>1 DEF InputOf
      <4> QED BY <4>1 DEF InputInv
    <3> QED BY <2>1, <3>1
  <2>2. \A d \in Ids : d \notin seen' => wire'[d] = <<>>
    BY <1>0 DEF InputInv
  <2> QED BY <2>1, <2>2 DEF InputInv
<1>4. AnswersInOrder'
  <2>1. \A d \in Ids : AnswersOk(answered'[d], asked[d])
    BY DEF AnswersInOrder, AnswersOk
  <2> QED BY <2>1 DEF AnswersInOrder, AnswersOk
<1> QED BY <1>2, <1>3, <1>4

\* A connection leaves the map, or moves to the streams; the gauge follows.
LEMMA OneLess ==
    ASSUME HsTypeOK, CountedInv, NEW c \in DOMAIN connections, connections' = Without(c)
    PROVE  /\ DOMAIN connections' = DOMAIN connections \ {c}
           /\ \A d \in DOMAIN connections' : connections'[d] = connections[d]
           /\ connections' \in [DOMAIN connections' -> HttpConnections] /\ DOMAIN connections' \subseteq seen
           /\ seen' = seen /\ open_connections' = open_connections - 1 /\ Streamed' = Streamed => CountedInv'
           /\ seen' = seen /\ open_connections' = open_connections /\ Streamed' = Streamed \cup {c} => CountedInv'
<1>1. /\ DOMAIN connections' = DOMAIN connections \ {c}
      /\ \A d \in DOMAIN connections' : connections'[d] = connections[d]
  BY DEF Without
<1>2. connections' \in [DOMAIN connections' -> HttpConnections] /\ DOMAIN connections' \subseteq seen
  <2>1. \A d \in DOMAIN connections : connections[d] \in HttpConnections
    BY DEF HsTypeOK
  <2>2. connections' = [d \in DOMAIN connections' |-> connections'[d]]
    BY <1>1 DEF Without
  <2> QED BY <1>1, <2>1, <2>2 DEF HsTypeOK
<1>3. IsFiniteSet(DOMAIN connections) /\ IsFiniteSet(Streamed)
  BY FS_Subset DEF HsTypeOK, CountedInv
<1>4. /\ Cardinality(DOMAIN connections') = Cardinality(DOMAIN connections) - 1
      /\ Cardinality(DOMAIN connections) \in Nat /\ Cardinality(Streamed) \in Nat
  BY <1>1, <1>3, FS_RemoveElement, FS_CardinalityType
<1>5. c \notin Streamed /\ c \in seen /\ Streamed \subseteq seen
  BY DEF CountedInv, HsTypeOK
<1>6. Cardinality(Streamed \cup {c}) = Cardinality(Streamed) + 1
  BY <1>3, <1>5, FS_AddElement
<1>7. open_connections = Cardinality(DOMAIN connections) + Cardinality(Streamed)
  BY DEF CountedInv, GaugeExact, Streamed
<1>8. ASSUME seen' = seen, open_connections' = open_connections - 1, Streamed' = Streamed PROVE CountedInv'
  <2>1. open_connections' = Cardinality(DOMAIN connections') + Cardinality(Streamed')
    BY <1>4, <1>7, <1>8
  <2>2. GaugeExact'
    BY <2>1 DEF GaugeExact, Streamed
  <2>3. Streamed' \cap DOMAIN connections' = {}
    BY <1>1, <1>8 DEF CountedInv
  <2> QED BY <1>5, <1>8, <2>2, <2>3 DEF CountedInv
<1>9. ASSUME seen' = seen, open_connections' = open_connections, Streamed' = Streamed \cup {c} PROVE CountedInv'
  <2>1. open_connections' = Cardinality(DOMAIN connections') + Cardinality(Streamed')
    BY <1>4, <1>6, <1>7, <1>9
  <2>2. GaugeExact'
    BY <2>1 DEF GaugeExact, Streamed
  <2>3. Streamed' \cap DOMAIN connections' = {}
    BY <1>1, <1>9 DEF CountedInv
  <2> QED BY <1>5, <1>9, <2>2, <2>3 DEF CountedInv
<1> QED BY <1>1, <1>2, <1>8, <1>9

\* A response makes its connection a stream if it is that of a stream.
LEMMA StreamedBy ==
    ASSUME answered \in [Ids -> Seq(Replies)], NEW c \in Ids, NEW r \in Replies,
           answered' = [answered EXCEPT ![c] = Append(answered[c], r)]
    PROVE  /\ answered' \in [Ids -> Seq(Replies)] /\ answered'[c] = Append(answered[c], r)
           /\ \A d \in Ids \ {c} : answered'[d] = answered[d]
           /\ r.k = "sse" => Streamed' = Streamed \cup {c}
           /\ r.k # "sse" => Streamed' = Streamed
<1>1. /\ answered' \in [Ids -> Seq(Replies)] /\ answered'[c] = Append(answered[c], r)
      /\ \A d \in Ids \ {c} : answered'[d] = answered[d]
  OBVIOUS
<1>2. PICK e : e = Append(answered[c], r)
  OBVIOUS
<1>3. /\ DOMAIN e = 1..(Len(answered[c]) + 1) /\ DOMAIN answered[c] = 1..Len(answered[c]) /\ Len(answered[c]) \in Nat
      /\ e[Len(answered[c]) + 1] = r /\ \A i \in 1..Len(answered[c]) : e[i] = answered[c][i]
  BY <1>2
<1>4. (\E i \in DOMAIN e : e[i].k = "sse") <=> (r.k = "sse" \/ \E i \in DOMAIN answered[c] : answered[c][i].k = "sse")
  BY <1>3
<1> QED BY <1>1, <1>2, <1>4 DEF Streamed

LEMMA ResetIs ==
    ASSUME NEW x \in HttpConnections
    PROVE  Reset(x) \in HttpConnections /\ Reset(x).recv_buf = <<>>
<1>1. PICK f : f = FALSE
  OBVIOUS
<1>2. PICK e : e = <<>>
  OBVIOUS
<1>3. PICK y : y = [x EXCEPT !.headers_complete = f, !.dispatched = f, !.pending_send = e, !.recv_buf = e]
  OBVIOUS
<1>4. f \in BOOLEAN
  BY <1>1
<1>5. e \in Seq(Chunks) /\ e \in Seq(Replies)
  BY <1>2
<1>6. y \in HttpConnections /\ y.recv_buf = e
  BY <1>3, <1>4, <1>5 DEF HttpConnections
<1>7. Reset(x) = y
  BY <1>1, <1>2, <1>3 DEF Reset
<1> QED BY <1>2, <1>6, <1>7

\* A response has been written, or the write failed: the connection starts over or goes.
LEMMA HsSent ==
    ASSUME NEW c \in DOMAIN connections, NEW r \in Replies, NEW ok \in BOOLEAN, NEW keep \in BOOLEAN,
           HttpServerInv, Sent(c, r, ok, keep), Owes(c, r),
           UNCHANGED <<completion, running, seen, work_channel, worker, wire, fin, asked>>, inflight' \subseteq inflight,
           result_channel' \in Seq(WorkResults),
           \A i \in DOMAIN result_channel' : \E j \in DOMAIN result_channel : result_channel'[i] = result_channel[j],
           PlaceInv', NoneFor(c)'
    PROVE  HttpServerInv'
<1> USE DEF HttpServerInv
<1>0. c \in Ids /\ c \in seen /\ connections[c] \in HttpConnections /\ wire[c] \in Seq(Chunks)
  BY DEF HsTypeOK
<1>1. PICK b : b = connections[c].recv_buf
  OBVIOUS
<1>2. b \in Seq(Chunks) /\ b # <<>> /\ r = Reply(b) /\ r.k # "sse"
  BY <1>0, <1>1 DEF Owes, HttpConnections
<1>3. AnswersOk(answered[c], asked[c]) /\ answered[c] \in Seq(Replies) /\ asked[c] \in Seq(ReqKinds)
  BY <1>0 DEF AnswersInOrder, AnswersOk, HsTypeOK
<1>4. InputOk(b \o wire[c], asked[c]) /\ AnswersBefore(answered[c], b \o wire[c])
  BY <1>0, <1>1 DEF InputInv, InputOf
<1>5. InputOk(wire[c], asked[c]) /\ AnswersBefore(Append(answered[c], r), wire[c]) /\ AnswersOk(Append(answered[c], r), asked[c])
  BY <1>0, <1>2, <1>3, <1>4, FrontAnswered
<1>6. /\ answered' \in [Ids -> Seq(Replies)] /\ answered'[c] = (IF ok THEN Append(answered[c], r) ELSE answered[c])
      /\ \A d \in Ids \ {c} : answered'[d] = answered[d]
      /\ Streamed' = Streamed
  <2>1. CASE ok
    <3>1. answered' = [answered EXCEPT ![c] = Append(answered[c], r)]
      BY <2>1 DEF Sent
    <3>2. answered \in [Ids -> Seq(Replies)]
      BY DEF HsTypeOK
    <3> QED BY <1>0, <1>2, <2>1, <3>1, <3>2, StreamedBy
  <2>2. CASE ~ok
    <3>1. answered' = answered
      BY <2>2 DEF Sent
    <3> QED BY <2>2, <3>1 DEF Streamed, HsTypeOK
  <2> QED BY <2>1, <2>2
<1>7. AnswersOk(answered'[c], asked[c])
  BY <1>3, <1>5, <1>6
<1>8. CASE ok /\ keep
  <2>1. connections' = [connections EXCEPT ![c] = Reset(connections[c])] /\ open_connections' = open_connections
    BY <1>8 DEF Sent
  <2>2. Reset(connections[c]) \in HttpConnections /\ Reset(connections[c]).recv_buf = <<>>
    BY <1>0, ResetIs
  <2>3. /\ DOMAIN connections' = DOMAIN connections /\ connections'[c] = Reset(connections[c])
        /\ \A d \in DOMAIN connections \ {c} : connections'[d] = connections[d]
    BY <2>1
  <2>4. HsTypeOK'
    <3>1. connections' \in [DOMAIN connections' -> HttpConnections]
      BY <2>1, <2>2, <2>3 DEF HsTypeOK
    <3> QED BY <1>6, <2>1, <2>3, <3>1 DEF HsTypeOK
  <2>5. CountedInv'
    BY <1>6, <2>1, <2>3 DEF CountedInv, GaugeExact, Streamed
  <2>6. InputOf(c)' = wire[c]
    <3>1. InputOf(c)' = <<>> \o wire[c]
      BY <2>2, <2>3 DEF InputOf
    <3> QED BY <1>0, <3>1
  <2>7. InputOk(InputOf(c)', asked[c]) /\ AnswersBefore(answered'[c], InputOf(c)')
    BY <1>5, <1>6, <1>8, <2>6
  <2> QED BY <1>0, <1>6, <1>7, <2>3, <2>4, <2>5, <2>7, OneConnection
<1>9. CASE ~(ok /\ keep)
  <2>1. connections' = Without(c) /\ open_connections' = open_connections - 1
    BY <1>9 DEF Sent, remove_connection
  <2>2. /\ DOMAIN connections' = DOMAIN connections \ {c}
        /\ \A d \in DOMAIN connections' : connections'[d] = connections[d]
        /\ connections' \in [DOMAIN connections' -> HttpConnections] /\ DOMAIN connections' \subseteq seen
        /\ CountedInv'
    BY <1>6, <2>1, OneLess
  <2>3. HsTypeOK'
    BY <1>6, <2>1, <2>2 DEF HsTypeOK
  <2>4. DOMAIN connections' \cup {c} = DOMAIN connections /\ c \notin DOMAIN connections'
    BY <2>2
  <2> QED BY <1>0, <1>6, <1>7, <2>2, <2>3, <2>4, OneConnection
<1> QED BY <1>8, <1>9

\* The poll thread takes the first result out of its channel.
LEMMA ResultTaken ==
    ASSUME HsTypeOK, PlaceInv, CarriedInv, result_channel # <<>>, result_channel' = Tail(result_channel),
           UNCHANGED <<work_channel, worker>>, NEW h, h = Head(result_channel)
    PROVE  /\ h \in WorkResults /\ Owes(h.id, h.reply)
           /\ result_channel' \in Seq(WorkResults)
           /\ \A i \in DOMAIN result_channel' : \E j \in DOMAIN result_channel : result_channel'[i] = result_channel[j]
           /\ inflight' = inflight => PlaceInv' /\ NoneFor(h.id)'
           /\ inflight' = inflight \cup {h.id} => PlaceInv'
<1>1. /\ h \in WorkResults /\ h = result_channel[1] /\ 1 \in DOMAIN result_channel /\ result_channel' \in Seq(WorkResults)
      /\ \A i \in DOMAIN result_channel' : i + 1 \in DOMAIN result_channel /\ i + 1 # 1 /\ result_channel'[i] = result_channel[i + 1] /\ i \in Nat
  <2>1. ASSUME NEW S, NEW q \in Seq(S), q # <<>>
        PROVE  /\ Head(q) \in S /\ Head(q) = q[1] /\ 1 \in DOMAIN q /\ Tail(q) \in Seq(S)
               /\ \A i \in DOMAIN Tail(q) : i + 1 \in DOMAIN q /\ i + 1 # 1 /\ Tail(q)[i] = q[i + 1] /\ i \in Nat
    <3>1. /\ Len(q) \in Nat /\ DOMAIN q = 1..Len(q) /\ Len(q) >= 1 /\ Head(q) = q[1] /\ q[1] \in S /\ Tail(q) \in Seq(S)
      BY <2>1
    <3>2. /\ DOMAIN Tail(q) = 1..(Len(q) - 1)
          /\ \A i \in 1..(Len(q) - 1) : Tail(q)[i] = q[i + 1]
      BY <2>1, <3>1
    <3> QED BY <3>1, <3>2
  <2>2. result_channel \in Seq(WorkResults)
    BY DEF HsTypeOK
  <2> QED BY <2>1, <2>2
<1>2. \A i \in DOMAIN result_channel' : \E j \in DOMAIN result_channel : result_channel'[i] = result_channel[j]
  BY <1>1
<1>3. Owes(h.id, h.reply)
  BY <1>1 DEF CarriedInv
<1>4. h.id \in Ids /\ InResult(h.id) /\ ~InWork(h.id) /\ ~InWorker(h.id) /\ h.id \notin inflight
  BY <1>1 DEF PlaceInv, InResult, WorkResults
<1>5. \A c \in Ids : InResult(c)' => InResult(c) /\ c # h.id
  BY <1>1 DEF InResult, PlaceInv
<1>6. \A c \in Ids : (InWork(c)' <=> InWork(c)) /\ (InWorker(c)' <=> InWorker(c))
  BY DEF InWork, InWorker, Works
<1>7. \A i, j \in DOMAIN result_channel' : result_channel'[i].id = result_channel'[j].id => i = j
  <2> SUFFICES ASSUME NEW i \in DOMAIN result_channel', NEW j \in DOMAIN result_channel', result_channel'[i].id = result_channel'[j].id
               PROVE  i = j
    OBVIOUS
  <2>1. i + 1 = j + 1
    BY <1>1 DEF PlaceInv
  <2> QED BY <2>1, <1>1
<1>8. /\ \A i, j \in DOMAIN work_channel' : work_channel'[i].id = work_channel'[j].id => i = j
      /\ \A v, w \in HttpWorkers : \A c \in Ids : Works(v, c)' /\ Works(w, c)' => v = w
  BY DEF PlaceInv, Works
<1>9. inflight' = inflight => PlaceInv' /\ NoneFor(h.id)'
  BY <1>4, <1>5, <1>6, <1>7, <1>8 DEF PlaceInv, NoneFor
<1>10. inflight' = inflight \cup {h.id} => PlaceInv'
  BY <1>4, <1>5, <1>6, <1>7, <1>8 DEF PlaceInv
<1> QED BY <1>1, <1>2, <1>3, <1>9, <1>10

LEMMA HsSendResult ==
    ASSUME HttpServerInv, SendResult
    PROVE  HttpServerInv'
<1> USE DEF HttpServerInv
<1>0. PICK h : h = Head(result_channel)
  OBVIOUS
<1>1. /\ result_channel # <<>> /\ result_channel' = Tail(result_channel)
      /\ UNCHANGED <<completion, running, seen, work_channel, worker, wire, fin, asked>>
  BY DEF SendResult
<1>2. /\ h \in WorkResults /\ Owes(h.id, h.reply) /\ result_channel' \in Seq(WorkResults)
      /\ \A i \in DOMAIN result_channel' : \E j \in DOMAIN result_channel : result_channel'[i] = result_channel[j]
      /\ inflight' = inflight => PlaceInv' /\ NoneFor(h.id)'
      /\ inflight' = inflight \cup {h.id} => PlaceInv'
  BY <1>0, <1>1, ResultTaken
<1>3. h.id \in Ids /\ h.reply \in Replies /\ h.keep \in BOOLEAN
  BY <1>2 DEF WorkResults
<1>4. CASE h.id \notin DOMAIN connections
  <2>1. UNCHANGED <<connections, open_connections, inflight, answered>>
    BY <1>0, <1>4 DEF SendResult
  <2>2. HsTypeOK' /\ InputInv' /\ AnswersInOrder' /\ CountedInv'
    BY <1>1, <1>2, <2>1 DEF HsTypeOK, InputInv, InputOf, AnswersInOrder, CountedInv, GaugeExact, Streamed
  <2>3. \A d, r : Owes(d, r)' <=> Owes(d, r)
    BY <1>1, <2>1 DEF Owes
  <2>4. CarriedInv'
    <3>1. \A i \in DOMAIN result_channel' : Owes(result_channel'[i].id, result_channel'[i].reply)
      BY <1>2 DEF CarriedInv
    <3> QED BY <1>1, <2>1, <2>3, <3>1 DEF CarriedInv
  <2> QED BY <1>2, <2>1, <2>2, <2>4
<1>5. CASE h.id \in DOMAIN connections /\ completion
  <2>0. PICK x : x = connections[h.id]
    OBVIOUS
  <2>1. /\ connections' = [connections EXCEPT ![h.id].pending_send = <<h.reply>>, ![h.id].send_keep_alive = h.keep, ![h.id].dispatched = TRUE]
        /\ inflight' = inflight \cup {h.id} /\ UNCHANGED <<open_connections, answered>>
    BY <1>0, <1>5 DEF SendResult
  <2>2. x \in HttpConnections /\ h.id \in seen
    BY <1>5, <2>0 DEF HsTypeOK
  <2>3. PICK y : y = [x EXCEPT !.pending_send = <<h.reply>>, !.send_keep_alive = h.keep, !.dispatched = TRUE]
    OBVIOUS
  <2>4. /\ y \in HttpConnections /\ y.recv_buf = x.recv_buf /\ y.dispatched = TRUE /\ y.pending_send = <<h.reply>>
        /\ y.pending_send # <<>> /\ y.pending_send[1] = h.reply
    <3>1. PICK p : p = <<h.reply>>
      OBVIOUS
    <3>2. p \in Seq(Replies) /\ p # <<>> /\ p[1] = h.reply
      BY <1>3, <3>1
    <3>3. PICK t : t = TRUE
      OBVIOUS
    <3>4. y = [x EXCEPT !.pending_send = p, !.send_keep_alive = h.keep, !.dispatched = t] /\ t \in BOOLEAN
      BY <2>3, <3>1, <3>3
    <3>5. y \in HttpConnections /\ y.recv_buf = x.recv_buf /\ y.dispatched = t /\ y.pending_send = p
      BY <1>3, <2>2, <3>2, <3>4 DEF HttpConnections
    <3> QED BY <3>1, <3>2, <3>3, <3>5
  <2>5. /\ DOMAIN connections' = DOMAIN connections /\ connections'[h.id] = y
        /\ \A d \in DOMAIN connections \ {h.id} : connections'[d] = connections[d]
        /\ connections' \in [DOMAIN connections -> HttpConnections]
    <3>1. connections' = [connections EXCEPT ![h.id] = y]
      BY <2>0, <2>1, <2>3
    <3> QED BY <1>5, <2>4, <3>1 DEF HsTypeOK
  <2>6. HsTypeOK'
    BY <1>1, <1>2, <2>1, <2>2, <2>5 DEF HsTypeOK
  <2>7. ASSUME NEW d, NEW r, Owes(d, r) PROVE Owes(d, r)'
    BY <1>1, <2>0, <2>4, <2>5, <2>7 DEF Owes
  <2>8. CarriedInv'
    <3>1. \A i \in DOMAIN result_channel' : Owes(result_channel'[i].id, result_channel'[i].reply)
      BY <1>2 DEF CarriedInv
    <3>2. \A d \in inflight' : /\ d \in DOMAIN connections' /\ connections'[d].pending_send # <<>>
                               /\ Owes(d, connections'[d].pending_send[1])
      BY <1>2, <1>5, <2>1, <2>4, <2>5 DEF CarriedInv
    <3> QED BY <1>1, <2>7, <3>1, <3>2 DEF CarriedInv
  <2>9. InputInv' /\ AnswersInOrder' /\ CountedInv'
    <3>1. \A d \in DOMAIN connections : InputOf(d)' = InputOf(d)
      BY <1>1, <2>0, <2>4, <2>5 DEF InputOf
    <3>2. InputInv'
      BY <1>1, <2>1, <2>5, <3>1 DEF InputInv
    <3> QED BY <1>1, <2>1, <2>5, <3>2 DEF AnswersInOrder, CountedInv, GaugeExact, Streamed
  <2> QED BY <1>2, <2>1, <2>6, <2>8, <2>9
<1>6. CASE h.id \in DOMAIN connections /\ ~completion
  <2>1. PICK ok \in BOOLEAN : Sent(h.id, h.reply, ok, h.keep) /\ UNCHANGED inflight
    BY <1>0, <1>6 DEF SendResult
  <2> QED BY <1>1, <1>2, <1>3, <1>6, <2>1, HsSent
<1> QED BY <1>4, <1>5, <1>6

LEMMA HsSendDone ==
    ASSUME NEW c \in Ids, HttpServerInv, SendDone(c)
    PROVE  HttpServerInv'
<1> USE DEF HttpServerInv
<1>1. /\ c \in inflight /\ c \in DOMAIN connections /\ inflight' = inflight \ {c}
      /\ UNCHANGED <<completion, running, seen, work_channel, result_channel, worker, wire, fin, asked>>
  BY DEF SendDone
<1>2. PICK ok \in BOOLEAN : Sent(c, connections[c].pending_send[1], ok, connections[c].send_keep_alive)
  BY DEF SendDone
<1>3. connections[c].pending_send[1] \in Replies /\ connections[c].send_keep_alive \in BOOLEAN /\ Owes(c, connections[c].pending_send[1])
  <2>1. connections[c].pending_send \in Seq(Replies) /\ connections[c].pending_send # <<>> /\ connections[c].send_keep_alive \in BOOLEAN
    BY <1>1 DEF HsTypeOK, HttpConnections, CarriedInv
  <2> QED BY <1>1, <2>1 DEF CarriedInv
<1>4. PlaceInv' /\ NoneFor(c)'
  BY <1>1 DEF PlaceInv, NoneFor, Works, InWork, InWorker, InResult
<1>5. result_channel' \in Seq(WorkResults)
  BY <1>1 DEF HsTypeOK
<1> QED BY <1>1, <1>2, <1>3, <1>4, <1>5, HsSent

LEMMA AppendIs ==
    ASSUME NEW T, NEW s \in Seq(T), NEW e \in T
    PROVE  /\ Append(s, e) \in Seq(T)
           /\ \A i \in DOMAIN Append(s, e) : (i \in DOMAIN s /\ Append(s, e)[i] = s[i]) \/ (i = Len(s) + 1 /\ Append(s, e)[i] = e)
OBVIOUS

\* What a request will be answered.
LEMMA ReplyIs ==
    ASSUME NEW b \in Seq(Chunks), b # <<>>
    PROVE  Reply(b) \in Replies /\ Reply(b).k = FirstHead(b)
<1>1. b[1] \in Chunks
  OBVIOUS
<1>2. PICK k : k = FirstHead(b)
  OBVIOUS
<1>3. k \in ReqKinds \cup {"torn"} /\ b[1].n \in Nat
  BY <1>1, <1>2 DEF FirstHead, Chunks
<1> QED BY <1>2, <1>3 DEF Reply, Replies

\* The first chunk of a buffer stays the first.
LEMMA SameReply ==
    ASSUME NEW b \in Seq(Chunks), b # <<>>, NEW x \in Seq(Chunks)
    PROVE  b \o x # <<>> /\ Reply(b \o x) = Reply(b)
<1>1. PICK s : s = b \o x
  OBVIOUS
<1>2. s[1] = b[1] /\ s # <<>>
  BY <1>1
<1> QED BY <1>1, <1>2 DEF Reply, FirstHead

\* The connection c keeps what it received; a request that is handed on goes to the end of the work channel.
LEMMA HsKeeps ==
    ASSUME NEW c \in DOMAIN connections, HttpServerInv, NEW y \in HttpConnections,
           NEW taken \in Seq(Chunks), NEW rest \in Seq(Chunks),
           y.recv_buf = connections[c].recv_buf \o taken, y.recv_buf \o rest = connections[c].recv_buf \o wire[c],
           connections[c].dispatched => y.dispatched,
           connections' = [connections EXCEPT ![c] = y],
           wire' = [wire EXCEPT ![c] = rest],
           fin' \in [Ids -> {"no", "yes", "seen"}],
           y.pending_send = connections[c].pending_send,
           UNCHANGED <<completion, running, seen, inflight, open_connections, result_channel, asked, answered>>,
           worker' \in [HttpWorkers -> WorkerStates],
           \A w \in HttpWorkers : worker'[w].pc = "busy" => worker'[w] = worker[w],
           work_channel' = work_channel
           \/ /\ work_channel' = Append(work_channel, [id |-> c, reply |-> Reply(y.recv_buf)])
              /\ y.dispatched /\ ~connections[c].dispatched /\ y.recv_buf # <<>> /\ FirstHead(y.recv_buf) # "sse"
    PROVE  HttpServerInv'
<1> USE DEF HttpServerInv
<1>0. /\ c \in Ids /\ c \in seen /\ wire[c] \in Seq(Chunks) /\ connections[c].recv_buf \in Seq(Chunks)
      /\ y.recv_buf \in Seq(Chunks)
  BY DEF HsTypeOK, HttpConnections
<1>2. /\ DOMAIN connections' = DOMAIN connections /\ connections'[c] = y
      /\ \A d \in DOMAIN connections \ {c} : connections'[d] = connections[d]
      /\ connections' \in [DOMAIN connections -> HttpConnections]
  BY DEF HsTypeOK
<1>3. /\ wire' \in [Ids -> Seq(Chunks)] /\ wire'[c] = rest
      /\ \A d \in Ids \ {c} : wire'[d] = wire[d]
  BY <1>0 DEF HsTypeOK
<1>4. PICK m : m = [id |-> c, reply |-> Reply(y.recv_buf)]
  OBVIOUS
<1>5. y.recv_buf # <<>> => m \in WorkItems /\ m.id = c /\ m.reply = Reply(y.recv_buf) /\ m.reply.k = FirstHead(y.recv_buf)
  <2> SUFFICES ASSUME y.recv_buf # <<>>
               PROVE  m \in WorkItems /\ m.id = c /\ m.reply = Reply(y.recv_buf) /\ m.reply.k = FirstHead(y.recv_buf)
    OBVIOUS
  <2>2. Reply(y.recv_buf) \in Replies /\ Reply(y.recv_buf).k = FirstHead(y.recv_buf)
    BY <1>0, ReplyIs
  <2> QED BY <1>0, <1>4, <2>2 DEF WorkItems
<1>6. ASSUME NEW d, NEW r, Owes(d, r) PROVE Owes(d, r)'
  <2>1. CASE d = c
    <3>1. r.k # "sse" /\ connections[c].dispatched /\ connections[c].recv_buf # <<>> /\ r = Reply(connections[c].recv_buf)
      BY <1>6, <2>1 DEF Owes
    <3>2. y.recv_buf # <<>> /\ r = Reply(y.recv_buf)
      BY <1>0, <3>1, SameReply
    <3> QED BY <1>0, <1>2, <2>1, <3>1, <3>2 DEF Owes
  <2>2. CASE d # c
    BY <1>2, <1>6, <2>2 DEF Owes
  <2> QED BY <2>1, <2>2
<1>7. InputInv' /\ AnswersInOrder' /\ CountedInv'
  <2>1. \A d \in Ids : d \in DOMAIN connections => InputOf(d)' = InputOf(d)
    BY <1>0, <1>2, <1>3 DEF InputOf
  <2>2. \A d \in Ids : d \notin seen => wire'[d] = <<>>
    BY <1>0, <1>3 DEF InputInv
  <2>3. InputInv'
    BY <1>2, <2>1, <2>2 DEF InputInv
  <2> QED BY <1>2, <2>3 DEF AnswersInOrder, CountedInv, GaugeExact, Streamed
<1>8. \A w \in HttpWorkers, d \in Ids : Works(w, d)' => Works(w, d)
  BY DEF Works
<1>9. \A d \in Ids : (InWorker(d)' => InWorker(d)) /\ (InResult(d)' <=> InResult(d))
  BY <1>8 DEF InWorker, InResult
<1>10. /\ \A w \in HttpWorkers : worker'[w].pc = "busy" => Owes(worker'[w].item[1].id, worker'[w].item[1].reply)
       /\ \A i \in DOMAIN result_channel : Owes(result_channel[i].id, result_channel[i].reply)
       /\ \A d \in inflight : /\ d \in DOMAIN connections' /\ connections'[d].pending_send # <<>>
                              /\ Owes(d, connections'[d].pending_send[1])
  BY <1>2 DEF CarriedInv
<1>11. /\ \A i, j \in DOMAIN result_channel' : result_channel'[i].id = result_channel'[j].id => i = j
       /\ \A u, v \in HttpWorkers : \A d \in Ids : Works(u, d)' /\ Works(v, d)' => u = v
  BY <1>8 DEF PlaceInv
<1>12. CASE work_channel' = work_channel
  <2>1. HsTypeOK'
    BY <1>2, <1>3, <1>12 DEF HsTypeOK
  <2>2. PlaceInv'
    <3>1. \A d \in Ids : InWork(d)' <=> InWork(d)
      BY <1>12 DEF InWork
    <3> QED BY <1>9, <1>11, <1>12, <3>1 DEF PlaceInv
  <2>3. CarriedInv'
    BY <1>6, <1>10, <1>12 DEF CarriedInv
  <2> QED BY <1>7, <2>1, <2>2, <2>3
<1>13. CASE /\ work_channel' = Append(work_channel, m)
            /\ y.dispatched /\ ~connections[c].dispatched /\ y.recv_buf # <<>> /\ FirstHead(y.recv_buf) # "sse"
  <2>1. m \in WorkItems /\ m.id = c /\ m.reply = Reply(y.recv_buf) /\ m.reply.k # "sse"
    BY <1>5, <1>13
  <2>2. /\ work_channel' \in Seq(WorkItems)
        /\ \A i \in DOMAIN work_channel' : (i \in DOMAIN work_channel /\ work_channel'[i] = work_channel[i])
                                            \/ (i = Len(work_channel) + 1 /\ work_channel'[i] = m)
    <3>1. work_channel \in Seq(WorkItems)
      BY DEF HsTypeOK
    <3>2. /\ Append(work_channel, m) \in Seq(WorkItems)
          /\ \A i \in DOMAIN Append(work_channel, m) : (i \in DOMAIN work_channel /\ Append(work_channel, m)[i] = work_channel[i])
                                            \/ (i = Len(work_channel) + 1 /\ Append(work_channel, m)[i] = m)
      BY <2>1, <3>1, AppendIs
    <3>3. work_channel' = Append(work_channel, m)
      BY <1>13
    <3> QED BY <3>2, <3>3
  <2>3. HsTypeOK'
    BY <1>2, <1>3, <2>2 DEF HsTypeOK
  <2>4. NoneFor(c)
    BY <1>13, NothingCarried
  <2>5. PlaceInv'
    <3>1. \A i, j \in DOMAIN work_channel' : work_channel'[i].id = work_channel'[j].id => i = j
      BY <2>1, <2>2, <2>4 DEF PlaceInv, NoneFor, InWork
    <3>2. \A d \in Ids : InWork(d)' => InWork(d) \/ d = c
      BY <2>1, <2>2 DEF InWork
    <3> QED BY <1>9, <1>11, <2>4, <3>1, <3>2 DEF PlaceInv, NoneFor
  <2>6. CarriedInv'
    <3>1. Owes(c, m.reply)'
      BY <1>0, <1>2, <1>13, <2>1 DEF Owes
    <3>2. ASSUME NEW i \in DOMAIN work_channel' PROVE Owes(work_channel[i].id, work_channel[i].reply)'
      <4>1. CASE i \in DOMAIN work_channel /\ work_channel'[i] = work_channel[i]
        <5>1. Owes(work_channel'[i].id, work_channel'[i].reply)
          BY <4>1 DEF CarriedInv
        <5> QED BY <1>6, <5>1
      <4>2. CASE work_channel'[i] = m
        BY <2>1, <3>1, <4>2
      <4> QED BY <2>2, <4>1, <4>2
    <3>3. \A w \in HttpWorkers : worker'[w].pc = "busy" => Owes(worker[w].item[1].id, worker[w].item[1].reply)'
      BY <1>6, <1>10
    <3>4. \A i \in DOMAIN result_channel' : Owes(result_channel[i].id, result_channel[i].reply)'
      BY <1>6, <1>10
    <3> QED BY <1>6, <1>10, <3>2, <3>3, <3>4 DEF CarriedInv
  <2> QED BY <1>7, <2>3, <2>5, <2>6
<1> QED BY <1>4, <1>12, <1>13

\* The connection c goes, answered or not.
LEMMA HsDrops ==
    ASSUME NEW c \in DOMAIN connections, HttpServerInv, NoneFor(c), connections' = Without(c),
           answered' \in [Ids -> Seq(Replies)], \A d \in Ids \ {c} : answered'[d] = answered[d], AnswersOk(answered'[c], asked[c]),
           \/ Streamed' = Streamed /\ open_connections' = open_connections - 1
           \/ Streamed' = Streamed \cup {c} /\ open_connections' = open_connections,
           wire' \in [Ids -> Seq(Chunks)], \A d \in Ids \ {c} : wire'[d] = wire[d],
           fin' \in [Ids -> {"no", "yes", "seen"}],
           UNCHANGED <<completion, running, seen, inflight, work_channel, result_channel, worker, asked>>
    PROVE  HttpServerInv'
<1> USE DEF HttpServerInv
<1>1. /\ DOMAIN connections' = DOMAIN connections \ {c}
      /\ \A d \in DOMAIN connections' : connections'[d] = connections[d]
      /\ connections' \in [DOMAIN connections' -> HttpConnections] /\ DOMAIN connections' \subseteq seen
      /\ CountedInv'
  BY OneLess
<1>2. HsTypeOK'
  <2>1. open_connections' \in Int
    BY DEF HsTypeOK
  <2> QED BY <1>1, <2>1 DEF HsTypeOK
<1>3. PlaceInv' /\ NoneFor(c)'
  BY DEF PlaceInv, NoneFor, Works, InWork, InWorker, InResult
<1>4. DOMAIN connections' \cup {c} = DOMAIN connections /\ c \notin DOMAIN connections'
  BY <1>1
<1>5. \A d \in Ids \ {c} : wire'[d] = wire[d] /\ answered'[d] = answered[d]
  OBVIOUS
<1> QED BY <1>1, <1>2, <1>3, <1>4, <1>5, OneConnection

LEMMA HsRecv ==
    ASSUME NEW c \in Ids, HttpServerInv, Recv(c)
    PROVE  HttpServerInv'
<1> USE DEF HttpServerInv
<1>1. c \in DOMAIN connections /\ UNCHANGED <<completion, running, seen, inflight, result_channel, asked>>
  BY DEF Recv
<1>2. PICK conn : conn = connections[c]
  OBVIOUS
<1>3. conn \in HttpConnections /\ conn.recv_buf \in Seq(Chunks) /\ wire[c] \in Seq(Chunks) /\ c \in seen
  BY <1>1, <1>2 DEF HsTypeOK, HttpConnections
<1>4. PICK n \in 0..Len(wire[c]) :
        LET closed == fin[c] = "yes" /\ n = Len(wire[c])
            conn_c == connections[c]
            buf == conn_c.recv_buf \o SubSeq(wire[c], 1, n)
            v == Verdict(conn_c, buf, closed)
            kept == [conn_c EXCEPT !.recv_buf = buf, !.headers_complete = find_header_end(buf), !.dispatched = @ \/ v = "dispatch"]
        IN  /\ wire' = [wire EXCEPT ![c] = SubSeq(@, n + 1, Len(@))]
            /\ fin' = IF closed THEN [fin EXCEPT ![c] = "seen"] ELSE fin
            /\ CASE v = "wait" -> /\ connections' = [connections EXCEPT ![c] = kept]
                                  /\ UNCHANGED <<streams, open_connections, work_channel, worker, answered>>
                 [] v = "remove" -> remove_connection(c) /\ UNCHANGED <<streams, work_channel, worker, answered>>
                 [] v = "reject" -> /\ remove_connection(c)
                                    /\ answered' = [answered EXCEPT ![c] = Append(@, Reply(buf))]
                                    /\ UNCHANGED <<streams, work_channel, worker>>
                 [] v = "stream" -> /\ connections' = Without(c) /\ streams' = streams \cup {c}
                                    /\ answered' = [answered EXCEPT ![c] = Append(@, Reply(buf))]
                                    /\ UNCHANGED <<open_connections, work_channel, worker>>
                 [] v = "dispatch" -> /\ connections' = [connections EXCEPT ![c] = kept]
                                      /\ Dispatch(c, Reply(buf))
                                      /\ UNCHANGED <<streams, open_connections, answered>>
  BY Zenon DEF Recv
<1>5. PICK closed \in BOOLEAN : closed = (fin[c] = "yes" /\ n = Len(wire[c]))
  OBVIOUS
<1>6. PICK buf : buf = conn.recv_buf \o SubSeq(wire[c], 1, n)
  OBVIOUS
<1>7. PICK v : v = Verdict(conn, buf, closed)
  OBVIOUS
<1>8. PICK y : y = [conn EXCEPT !.recv_buf = buf, !.headers_complete = find_header_end(buf), !.dispatched = @ \/ v = "dispatch"]
  OBVIOUS
<1>9. /\ wire' = [wire EXCEPT ![c] = SubSeq(wire[c], n + 1, Len(wire[c]))]
      /\ fin' = IF closed THEN [fin EXCEPT ![c] = "seen"] ELSE fin
  BY <1>4, <1>5
<1>10. /\ v = "wait" => connections' = [connections EXCEPT ![c] = y] /\ UNCHANGED <<open_connections, work_channel, worker, answered>>
       /\ v = "remove" => remove_connection(c) /\ UNCHANGED <<work_channel, worker, answered>>
       /\ v = "reject" => /\ remove_connection(c) /\ answered' = [answered EXCEPT ![c] = Append(answered[c], Reply(buf))]
                          /\ UNCHANGED <<work_channel, worker>>
       /\ v = "stream" => /\ connections' = Without(c) /\ answered' = [answered EXCEPT ![c] = Append(answered[c], Reply(buf))]
                          /\ UNCHANGED <<open_connections, work_channel, worker>>
       /\ v = "dispatch" => /\ connections' = [connections EXCEPT ![c] = y] /\ Dispatch(c, Reply(buf))
                            /\ UNCHANGED <<open_connections, answered>>
  BY <1>2, <1>4, <1>5, <1>6, <1>7, <1>8
<1>11. /\ SubSeq(wire[c], 1, n) \in Seq(Chunks) /\ SubSeq(wire[c], n + 1, Len(wire[c])) \in Seq(Chunks)
       /\ buf \o SubSeq(wire[c], n + 1, Len(wire[c])) = conn.recv_buf \o wire[c]
  BY <1>3, <1>6, InputMoves
<1>12. buf \in Seq(Chunks) /\ (buf = <<>> => conn.recv_buf = <<>>)
  <2>1. buf \in Seq(Chunks)
    BY <1>3, <1>6, <1>11, JoinIs
  <2>2. conn.recv_buf # <<>> => buf # <<>>
    BY <1>3, <1>6, <1>11, SameReply
  <2> QED BY <2>1, <2>2
<1>13. /\ v \in {"wait", "remove", "reject", "stream", "dispatch"}
       /\ v \in {"reject", "stream", "dispatch"} => buf # <<>> /\ ~conn.dispatched
       /\ v = "remove" => buf = <<>> \/ ~conn.dispatched
       /\ v = "stream" => FirstHead(buf) = "sse"
       /\ v \in {"reject", "dispatch"} => FirstHead(buf) # "sse"
  BY <1>3, <1>7, <1>12, VerdictIs
<1>14. fin' \in [Ids -> {"no", "yes", "seen"}]
  BY <1>9 DEF HsTypeOK
<1>15. /\ wire' \in [Ids -> Seq(Chunks)] /\ \A d \in Ids \ {c} : wire'[d] = wire[d]
  BY <1>9, <1>11 DEF HsTypeOK
<1>16. /\ y \in HttpConnections /\ y.recv_buf = buf /\ y.pending_send = conn.pending_send
       /\ (conn.dispatched => y.dispatched) /\ (v = "dispatch" => y.dispatched)
  <2>1. PICK f : f = find_header_end(buf)
    OBVIOUS
  <2>2. PICK g : g = (conn.dispatched \/ v = "dispatch")
    OBVIOUS
  <2>3. f \in BOOLEAN /\ g \in BOOLEAN
    BY <2>1, <2>2 DEF find_header_end
  <2>4. y = [conn EXCEPT !.recv_buf = buf, !.headers_complete = f, !.dispatched = g]
    BY <1>8, <2>1, <2>2
  <2>5. y \in HttpConnections /\ y.recv_buf = buf /\ y.pending_send = conn.pending_send /\ y.dispatched = g
    BY <1>3, <1>12, <2>3, <2>4 DEF HttpConnections
  <2> QED BY <2>2, <2>5
<1>17. AnswersOk(answered[c], asked[c]) /\ answered[c] \in Seq(Replies) /\ asked[c] \in Seq(ReqKinds)
  BY DEF AnswersInOrder, AnswersOk, HsTypeOK
<1>18. v \in {"remove", "reject", "stream"} => NoneFor(c)
  BY <1>1, <1>2, <1>12, <1>13, NothingCarried
<1>19. v \in {"reject", "stream"} => Reply(buf) \in Replies /\ AnswersOk(Append(answered[c], Reply(buf)), asked[c]) /\ Reply(buf).k = FirstHead(buf)
  <2> SUFFICES ASSUME v \in {"reject", "stream"}
               PROVE  Reply(buf) \in Replies /\ AnswersOk(Append(answered[c], Reply(buf)), asked[c]) /\ Reply(buf).k = FirstHead(buf)
    OBVIOUS
  <2>1. PICK u : u = SubSeq(wire[c], n + 1, Len(wire[c]))
    OBVIOUS
  <2>2. u \in Seq(Chunks) /\ InputOk(buf \o u, asked[c]) /\ AnswersBefore(answered[c], buf \o u)
    BY <1>1, <1>2, <1>11, <2>1 DEF InputInv, InputOf
  <2>3. buf # <<>>
    BY <1>13
  <2>4. Reply(buf) \in Replies /\ AnswersOk(Append(answered[c], Reply(buf)), asked[c])
    BY <1>12, <1>17, <2>2, <2>3, FrontAnswered
  <2> QED BY <2>4 DEF Reply
<1>a. /\ c \in DOMAIN connections /\ y \in HttpConnections
      /\ y.recv_buf = connections[c].recv_buf \o SubSeq(wire[c], 1, n)
      /\ (connections[c].dispatched => y.dispatched) /\ y.pending_send = connections[c].pending_send
  BY <1>1, <1>2, <1>6, <1>16
<1>b. PICK taken \in Seq(Chunks), rest \in Seq(Chunks) :
         /\ y.recv_buf = connections[c].recv_buf \o taken /\ y.recv_buf \o rest = connections[c].recv_buf \o wire[c]
         /\ wire' = [wire EXCEPT ![c] = rest]
  BY <1>2, <1>9, <1>11, <1>16, <1>a
<1>20. CASE v = "wait"
  <2>1. worker' = worker /\ work_channel' = work_channel
    BY <1>10, <1>20
  <2>2. worker' \in [HttpWorkers -> WorkerStates]
    BY <2>1 DEF HsTypeOK
  <2>3. /\ connections' = [connections EXCEPT ![c] = y]
        /\ UNCHANGED <<completion, running, seen, inflight, open_connections, result_channel, asked, answered>>
    BY <1>1, <1>10, <1>20
  <2> QED BY <1>a, <1>b, <1>14, <2>1, <2>2, <2>3, HsKeeps
<1>21. CASE v = "dispatch"
  <2>1. /\ worker' \in [HttpWorkers -> WorkerStates]
        /\ \A w \in HttpWorkers : worker'[w].pc = "busy" => worker'[w] = worker[w]
    <3>1. worker' = worker \/ \E w \in HttpWorkers : worker' = [worker EXCEPT ![w].pc = "check"]
      BY <1>10, <1>21 DEF Dispatch
    <3>2. CASE worker' = worker
      BY <3>2 DEF HsTypeOK
    <3>3. CASE \E w \in HttpWorkers : worker' = [worker EXCEPT ![w].pc = "check"]
      BY <3>3 DEF HsTypeOK, WorkerStates
    <3> QED BY <3>1, <3>2, <3>3
  <2>2. work_channel' = Append(work_channel, [id |-> c, reply |-> Reply(y.recv_buf)])
    BY <1>10, <1>16, <1>21 DEF Dispatch
  <2>3. y.dispatched /\ ~connections[c].dispatched /\ y.recv_buf # <<>> /\ FirstHead(y.recv_buf) # "sse"
    BY <1>2, <1>13, <1>16, <1>21
  <2>4. /\ connections' = [connections EXCEPT ![c] = y]
        /\ UNCHANGED <<completion, running, seen, inflight, open_connections, result_channel, asked, answered>>
    BY <1>1, <1>10, <1>21
  <2> QED BY <1>a, <1>b, <1>14, <2>1, <2>2, <2>3, <2>4, HsKeeps
<1>22. CASE v = "remove"
  <2>1. connections' = Without(c) /\ open_connections' = open_connections - 1 /\ UNCHANGED <<work_channel, worker, answered>>
    BY <1>10, <1>22 DEF remove_connection
  <2>2. answered' \in [Ids -> Seq(Replies)] /\ AnswersOk(answered'[c], asked[c]) /\ Streamed' = Streamed
    BY <1>17, <2>1 DEF HsTypeOK, Streamed
  <2> QED BY <1>1, <1>14, <1>15, <1>18, <1>22, <2>1, <2>2, HsDrops
<1>23. CASE v \in {"reject", "stream"}
  <2>1. connections' = Without(c) /\ answered' = [answered EXCEPT ![c] = Append(answered[c], Reply(buf))] /\ UNCHANGED <<work_channel, worker>>
    BY <1>10, <1>23 DEF remove_connection
  <2>2. answered \in [Ids -> Seq(Replies)]
    BY DEF HsTypeOK
  <2>3. /\ answered' \in [Ids -> Seq(Replies)] /\ answered'[c] = Append(answered[c], Reply(buf))
        /\ \A d \in Ids \ {c} : answered'[d] = answered[d]
        /\ Reply(buf).k = "sse" => Streamed' = Streamed \cup {c}
        /\ Reply(buf).k # "sse" => Streamed' = Streamed
    BY <1>19, <1>23, <2>1, <2>2, StreamedBy
  <2>4. \/ Streamed' = Streamed /\ open_connections' = open_connections - 1
        \/ Streamed' = Streamed \cup {c} /\ open_connections' = open_connections
    BY <1>10, <1>13, <1>19, <1>23, <2>3 DEF remove_connection
  <2>5. AnswersOk(answered'[c], asked[c])
    BY <1>19, <1>23, <2>3
  <2> QED BY <1>1, <1>14, <1>15, <1>18, <1>23, <2>1, <2>3, <2>4, <2>5, HsDrops
<1> QED BY <1>13, <1>20, <1>21, <1>22, <1>23

-----------------------------------------------------------------------------
LEMMA HsStep ==
    ASSUME HttpServerInv, [HsNext]_hsVars
    PROVE  HttpServerInv'
<1> USE DEF HttpServerInv
<1>1. ASSUME NEW c \in Ids, NEW k \in SentKinds, ClientSend(c, k) PROVE HttpServerInv'
  BY <1>1, HsClientSend
<1>2. ASSUME NEW c \in Ids, HttpAccept(c) PROVE HttpServerInv'
  BY <1>2, HsAccept
<1>3. ASSUME NEW c \in Ids, Recv(c) PROVE HttpServerInv'
  BY <1>3, HsRecv
<1>4. ASSUME NEW c \in Ids, SendDone(c) PROVE HttpServerInv'
  BY <1>4, HsSendDone
<1>5. ASSUME NEW c \in Ids, ClientClose(c) \/ StreamGone(c) PROVE HttpServerInv'
  <2>1. fin' \in [Ids -> {"no", "yes", "seen"}] /\ running' \in BOOLEAN
    BY <1>5 DEF ClientClose, StreamGone, HsTypeOK
  <2> QED BY <1>5, <2>1, HsElsewhere DEF ClientClose, StreamGone
<1>6. CASE Drain \/ DrainDone \/ HttpStop \/ UNCHANGED hsVars
  <2>1. fin' \in [Ids -> {"no", "yes", "seen"}] /\ running' \in BOOLEAN
    BY <1>6 DEF Drain, DrainDone, HttpStop, hsVars, HsTypeOK
  <2> QED BY <1>6, <2>1, HsElsewhere DEF Drain, DrainDone, HttpStop, hsVars
<1>7. CASE SendResult
  BY <1>7, HsSendResult
<1>8. ASSUME NEW w \in HttpWorkers, WorkerCheck(w) \/ WorkerBlock(w) \/ WorkerNotify(w) \/ WorkerStop(w) PROVE HttpServerInv'
  <2>1. worker' \in [HttpWorkers -> WorkerStates]
    <3>1. PICK p \in {"check", "blocking", "blocked", "dequeue", "stopped"} :
             worker' = [worker EXCEPT ![w].pc = p] \/ worker' = [worker EXCEPT ![w] = [pc |-> p, item |-> <<>>]]
      BY <1>8 DEF WorkerCheck, WorkerBlock, WorkerNotify, WorkerStop, Idle
    <3>2. CASE worker' = [worker EXCEPT ![w].pc = p]
      BY <3>2 DEF HsTypeOK, WorkerStates
    <3>3. CASE worker' = [worker EXCEPT ![w] = [pc |-> p, item |-> <<>>]]
      <4>1. [pc |-> p, item |-> <<>>] \in WorkerStates
        BY DEF WorkerStates
      <4> QED BY <3>3, <4>1 DEF HsTypeOK
    <3> QED BY <3>1, <3>2, <3>3
  <2>2. \A v \in HttpWorkers : worker'[v].pc = "busy" => worker'[v] = worker[v]
    BY <1>8 DEF WorkerCheck, WorkerBlock, WorkerNotify, WorkerStop, Idle, HsTypeOK, WorkerStates
  <2> QED BY <1>8, <2>1, <2>2, HsWorkerMoves DEF WorkerCheck, WorkerBlock, WorkerNotify, WorkerStop
<1>9. ASSUME NEW w \in HttpWorkers, WorkerDequeue(w) \/ WorkerPublish(w) PROVE HttpServerInv'
  BY <1>9, HsDequeue, HsPublish
<1> QED BY <1>1, <1>2, <1>3, <1>4, <1>5, <1>6, <1>7, <1>8, <1>9 DEF HsNext

\* A connection has one request on its way at most, its response answers what the connection received first, and the
\* input of every connection begins after what was answered, for any number of connections, workers and requests.
THEOREM HttpServerInvariant == HsSpec => []HttpServerInv
BY HsInitially, HsStep, PTL DEF HsSpec

LEMMA AtMostOne ==
    ASSUME NEW S, \A x, y \in S : x = y
    PROVE  Cardinality(S) \in {0, 1} /\ (S = {} => Cardinality(S) = 0)
<1>1. CASE S = {}
  BY <1>1, FS_EmptySet
<1>2. CASE S # {}
  <2>1. PICK x \in S : S = {x}
    BY <1>2
  <2> QED BY <2>1, FS_Singleton
<1> QED BY <1>1, <1>2

LEMMA InStep == HttpServerInv => RequestsInStep
<1> SUFFICES ASSUME HttpServerInv PROVE RequestsInStep
  OBVIOUS
<1>1. ASSUME NEW c \in Ids
      PROVE  Cardinality({i \in DOMAIN work_channel : work_channel[i].id = c})
             + Cardinality({i \in DOMAIN result_channel : result_channel[i].id = c})
             + Cardinality({w \in HttpWorkers : worker[w].pc = "busy" /\ worker[w].item[1].id = c})
             + (IF c \in inflight THEN 1 ELSE 0) <= 1
  <2>1. PICK A : A = {i \in DOMAIN work_channel : work_channel[i].id = c}
    OBVIOUS
  <2>2. PICK B : B = {i \in DOMAIN result_channel : result_channel[i].id = c}
    OBVIOUS
  <2>3. PICK C : C = {w \in HttpWorkers : worker[w].pc = "busy" /\ worker[w].item[1].id = c}
    OBVIOUS
  <2>4. (\A x, y \in A : x = y) /\ (\A x, y \in B : x = y) /\ (\A x, y \in C : x = y)
    BY <2>1, <2>2, <2>3 DEF HttpServerInv, PlaceInv, Works
  <2>5. (A # {} => InWork(c)) /\ (B # {} => InResult(c)) /\ (C # {} => InWorker(c))
    BY <2>1, <2>2, <2>3 DEF InWork, InResult, InWorker, Works
  <2>6. /\ Cardinality(A) \in {0, 1} /\ (A = {} => Cardinality(A) = 0)
        /\ Cardinality(B) \in {0, 1} /\ (B = {} => Cardinality(B) = 0)
        /\ Cardinality(C) \in {0, 1} /\ (C = {} => Cardinality(C) = 0)
    BY <2>4, AtMostOne
  <2>7. /\ A # {} => B = {} /\ C = {} /\ c \notin inflight
        /\ B # {} => C = {} /\ c \notin inflight
        /\ C # {} => c \notin inflight
    BY <2>5 DEF HttpServerInv, PlaceInv
  <2>8. Cardinality(A) + Cardinality(B) + Cardinality(C) + (IF c \in inflight THEN 1 ELSE 0) <= 1
    BY <2>6, <2>7
  <2> QED BY <2>1, <2>2, <2>3, <2>8
<1>2. OneRequestInFlight
  BY <1>1 DEF OneRequestInFlight
<1>3. SendBufferStable
  BY DEF HttpServerInv, CarriedInv, SendBufferStable
<1> QED BY <1>2, <1>3 DEF HttpServerInv, CountedInv, RequestsInStep

\* The HTTP server always keeps requests and connections in step: one request of a connection at a time, the buffer of an
\* asynchronous send left alone, answers in the order of the requests, the gauge exact.
THEOREM RequestsAlwaysInStep == HsSpec => []RequestsInStep
BY HttpServerInvariant, InStep, PTL
-----------------------------------------------------------------------------
(* HttpPool.  A request in terms of the sets of its queues, workers and      *)
(* streams: the cardinalities of the invariant are those of singletons.      *)

Requested == [n : Numbers, streaming : BOOLEAN]
Worker == [pc : {"idle", "h1", "choose", "connect", "submit"}, req : Seq(Requested), h2 : Nat]
Connection == [alive : BOOLEAN, streams : SUBSET Numbers]
HpTypeOK ==
    /\ work_queues \in [Priorities -> SUBSET Requested]
    /\ \A p \in Priorities : \A r, q \in work_queues[p] : r.n = q.n => r = q
    /\ fetcher \in [Fetchers -> Worker]
    /\ \A w \in Fetchers : /\ fetcher[w].pc = "idle" <=> fetcher[w].req = <<>>
                           /\ fetcher[w].req # <<>> => fetcher[w].req[1] \in Requested
                           /\ fetcher[w].pc = "submit" => fetcher[w].h2 \in DOMAIN h2
    /\ h2 \in Seq(Connection)
    /\ h2_conn # <<>> => h2_conn[1] \in DOMAIN h2
    /\ result_queue \in [Numbers -> Nat] /\ called \in [Numbers -> Nat]
    /\ fetches \in 0..MaxFetches /\ pending \in Int /\ pool_stopped \in BOOLEAN

\* One request: the queues, workers and streams that hold it, and its answers.
One(q, w, s, a) ==
    /\ \A x, y \in q : x = y
    /\ \A x, y \in w : x = y
    /\ \A x, y \in s : x = y
    /\ a \in {0, 1}
    /\ q # {} => w = {} /\ s = {} /\ a = 0
    /\ w # {} => s = {} /\ a = 0
    /\ s # {} => a = 0
Somewhere(q, w, s, a) == q # {} \/ w # {} \/ s # {} \/ a = 1

\* It is in one place at most, in none before it is made, and in one until the pool is stopped.
PlaceOf(n) ==
    /\ One(Queues(n), Working(n), Streaming(n), Answers(n))
    /\ n > fetches => ~Somewhere(Queues(n), Working(n), Streaming(n), Answers(n))
    /\ ~pool_stopped /\ n <= fetches => Somewhere(Queues(n), Working(n), Streaming(n), Answers(n))

PoolInv == HpTypeOK /\ (\A n \in Numbers : PlaceOf(n)) /\ PendingExact

LEMMA PoolInit == HpInit => PoolInv
<1> SUFFICES ASSUME HpInit PROVE PoolInv
  OBVIOUS
<1> USE DEF HpInit
<1>1. HpTypeOK
  <2>1. NoFetch \in Worker
    BY DEF NoFetch, Worker
  <2>2. fetcher \in [Fetchers -> Worker]
    BY <2>1
  <2>3. \A w \in Fetchers : fetcher[w].pc = "idle" /\ fetcher[w].req = <<>>
    BY DEF NoFetch
  <2>4. /\ work_queues \in [Priorities -> SUBSET Requested]
        /\ \A p \in Priorities : \A r, q \in work_queues[p] : r.n = q.n => r = q
    OBVIOUS
  <2>5. h2 \in Seq(Connection) /\ h2_conn = <<>>
    OBVIOUS
  <2>6. result_queue \in [Numbers -> Nat] /\ called \in [Numbers -> Nat]
    OBVIOUS
  <2>7. fetches \in 0..MaxFetches /\ pending \in Int /\ pool_stopped \in BOOLEAN
    <3>1. fetches \in 0..MaxFetches /\ pending \in Int
      BY HpAssumption
    <3>2. pool_stopped \in BOOLEAN
      OBVIOUS
    <3> QED BY <3>1, <3>2
  <2> QED BY <2>2, <2>3, <2>4, <2>5, <2>6, <2>7 DEF HpTypeOK
<1>2. ASSUME NEW n \in Numbers PROVE PlaceOf(n)
  <2>1. Queues(n) = {}
    BY DEF Queues, NumbersOf
  <2>2. Working(n) = {}
    BY DEF Working, NoFetch
  <2>3. Streaming(n) = {} /\ Answers(n) = 0
    BY DEF Streaming, Answers
  <2> QED BY <2>1, <2>2, <2>3 DEF PlaceOf, One, Somewhere, Numbers
<1>3. PendingExact
  <2>1. Unanswered = {}
    BY DEF Unanswered
  <2> QED BY <2>1, FS_EmptySet DEF PendingExact
<1> QED BY <1>1, <1>2, <1>3 DEF PoolInv

\* Answering requests lowers pending_ by as many.
LEMMA PendingFalls ==
    ASSUME HpTypeOK, PendingExact, NEW s \in SUBSET Unanswered, fetches' = fetches, pool_stopped' = pool_stopped,
           pending' = pending - Cardinality(s),
           \A n \in Numbers : Answers(n)' = IF n \in s THEN Answers(n) + 1 ELSE Answers(n)
    PROVE  PendingExact' /\ pending' \in Int
<1>1. IsFiniteSet(Unanswered) /\ IsFiniteSet(s) /\ Cardinality(s) \in Nat
  <2>1. IsFiniteSet(1..fetches)
    BY FS_Interval DEF HpTypeOK
  <2>2. Unanswered \in SUBSET (1..fetches)
    BY DEF Unanswered
  <2>3. s \in SUBSET (1..fetches)
    BY DEF Unanswered
  <2> QED BY <2>1, <2>2, <2>3, FS_Subset, FS_CardinalityType
<1>2. Unanswered' = Unanswered \ s
  <2>1. 1..fetches \subseteq Numbers
    BY HpAssumption DEF HpTypeOK, Numbers
  <2>2. \A n \in Numbers : Answers(n) \in Nat
    BY DEF Answers, HpTypeOK
  <2> QED BY <2>1, <2>2 DEF Unanswered
<1>3. Cardinality(Unanswered \ s) = Cardinality(Unanswered) - Cardinality(s)
  <2>1. Unanswered \cap s = s
    OBVIOUS
  <2> QED BY <1>1, <2>1, FS_Difference
<1> QED BY <1>1, <1>2, <1>3 DEF PendingExact, HpTypeOK

\* Nothing is answered.
LEMMA PendingSame ==
    ASSUME PendingExact, UNCHANGED <<fetches, pending, result_queue, called>>, pool_stopped' = TRUE \/ pool_stopped' = pool_stopped
    PROVE  PendingExact'
BY DEF PendingExact, Unanswered, Answers

LEMMA GetKeeps ==
    ASSUME PoolInv, NEW p \in Priorities, NEW streaming \in BOOLEAN, PoolGet(p, streaming)
    PROVE  PoolInv'
<1> USE DEF PoolInv
<1> DEFINE m == fetches + 1
           new == [n |-> m, streaming |-> streaming]
<1>1. /\ fetches < MaxFetches /\ ~pool_stopped /\ fetches' = m /\ pending' = pending + 1
      /\ work_queues' = [work_queues EXCEPT ![p] = @ \cup {new}]
      /\ UNCHANGED <<fetcher, h2_host, h2_conn, h2, result_queue, called, pool_stopped>>
  BY DEF PoolGet
<1>2. m \in Numbers /\ new \in Requested /\ new.n = m /\ fetches \in Nat
  BY <1>1, HpAssumption DEF HpTypeOK, Numbers, Requested
<1>3. Queues(m) = {} /\ Working(m) = {} /\ Streaming(m) = {} /\ Answers(m) = 0
  <2>1. PlaceOf(m) /\ m > fetches
    BY <1>2
  <2> QED BY <2>1 DEF PlaceOf, One, Somewhere
<1>4. \A r \in work_queues[p] : r.n # m
  BY <1>3 DEF Queues, NumbersOf
<1>5. HpTypeOK'
  <2>1. work_queues' \in [Priorities -> SUBSET Requested]
    BY <1>1, <1>2 DEF HpTypeOK
  <2>2. \A a \in Priorities : \A r, q \in work_queues'[a] : r.n = q.n => r = q
    BY <1>1, <1>2, <1>4 DEF HpTypeOK
  <2>3. fetches' \in 0..MaxFetches /\ pending' \in Int
    BY <1>1, <1>2, HpAssumption DEF HpTypeOK
  <2> QED BY <1>1, <2>1, <2>2, <2>3 DEF HpTypeOK
<1>6. ASSUME NEW n \in Numbers PROVE PlaceOf(n)'
  <2>1. Working(n)' = Working(n) /\ Streaming(n)' = Streaming(n) /\ Answers(n)' = Answers(n)
    BY <1>1 DEF Working, Streaming, Answers
  <2>2. CASE n = m
    <3>1. Queues(n)' = {p}
      <4>1. \A a \in Priorities : m \in NumbersOf(work_queues'[a]) <=> a = p \/ m \in NumbersOf(work_queues[a])
        BY <1>1, <1>2 DEF NumbersOf, HpTypeOK
      <4> QED BY <1>3, <2>2, <4>1 DEF Queues
    <3> QED BY <1>1, <1>3, <2>1, <2>2, <3>1 DEF PlaceOf, One, Somewhere
  <2>3. CASE n # m
    <3>1. Queues(n)' = Queues(n)
      <4>1. \A a \in Priorities : n \in NumbersOf(work_queues'[a]) <=> n \in NumbersOf(work_queues[a])
        BY <1>1, <1>2, <2>3 DEF NumbersOf, HpTypeOK
      <4> QED BY <4>1 DEF Queues
    <3>2. n > fetches' => n > fetches
      BY <1>1, <1>2 DEF Numbers
    <3>3. n <= fetches' => n <= fetches
      BY <1>1, <1>2, <2>3 DEF Numbers
    <3> QED BY <1>1, <2>1, <3>1, <3>2, <3>3 DEF PlaceOf
  <2> QED BY <2>2, <2>3
<1>7. PendingExact'
  <2>1. IsFiniteSet(Unanswered)
    <3>1. IsFiniteSet(1..fetches)
      BY <1>2, FS_Interval
    <3> QED BY <3>1, FS_Subset DEF Unanswered
  <2>2. Unanswered' = Unanswered \cup {m} /\ m \notin Unanswered
    BY <1>1, <1>2, <1>3 DEF Unanswered, Answers
  <2>3. Cardinality(Unanswered') = Cardinality(Unanswered) + 1
    BY <2>1, <2>2, FS_AddElement
  <2> QED BY <1>1, <2>3 DEF PendingExact
<1> QED BY <1>5, <1>6, <1>7

\* Counting the answers of the requests in s.
LEMMA Counted ==
    ASSUME HpTypeOK, NEW s \in SUBSET Numbers
    PROVE  /\ Counting(called, s) \in [Numbers -> Nat] /\ Counting(result_queue, s) \in [Numbers -> Nat]
           /\ \A n \in Numbers : /\ Counting(called, s)[n] = called[n] + (IF n \in s THEN 1 ELSE 0)
                                 /\ Counting(result_queue, s)[n] = result_queue[n] + (IF n \in s THEN 1 ELSE 0)
                                 /\ Answers(n) \in Nat
BY DEF Counting, HpTypeOK, Answers

\* Requests that are somewhere and have no answer yet: what is left when a place gives them up and answers them.
LEMMA OneAnswered ==
    ASSUME NEW n \in Numbers, PlaceOf(n), fetches' = fetches, pool_stopped' = pool_stopped,
           Queues(n) # {} \/ Working(n) # {} \/ Streaming(n) # {},
           Queues(n)' = {}, Working(n)' = {}, Streaming(n)' = {}, Answers(n)' = Answers(n) + 1
    PROVE  PlaceOf(n)' /\ Answers(n) = 0 /\ (n \in 1..fetches \/ fetches \notin Nat)
BY HpAssumption DEF PlaceOf, One, Somewhere, Numbers

LEMMA DropKeeps ==
    ASSUME PoolInv, NEW t \in Priorities, drop_below(t)
    PROVE  PoolInv'
<1> USE DEF PoolInv
<1> DEFINE low == {p \in Priorities : p < t}
           dropped == NumbersOf(UNION {work_queues[p] : p \in low})
<1>1. /\ work_queues' = [p \in Priorities |-> IF p \in low THEN {} ELSE work_queues[p]]
      /\ pending' = pending - Cardinality(dropped)
      /\ called' = Counting(called, dropped)
      /\ UNCHANGED <<fetcher, h2_host, h2_conn, h2, result_queue, fetches, pool_stopped>>
  BY DEF drop_below
<1>2. \A n : n \in dropped <=> \E p \in low : n \in NumbersOf(work_queues[p])
  BY DEF NumbersOf
<1>3. dropped \in SUBSET Numbers /\ fetches \in Nat
  <2>1. fetches \in Nat
    BY HpAssumption DEF HpTypeOK
  <2>2. ASSUME NEW p \in Priorities, NEW n \in NumbersOf(work_queues[p]) PROVE n \in Numbers
    <3>1. PICK r \in work_queues[p] : n = r.n
      BY DEF NumbersOf
    <3>2. r \in Requested
      BY DEF HpTypeOK
    <3> QED BY <3>1, <3>2 DEF Requested
  <2> QED BY <1>2, <2>1, <2>2
<1>4. HpTypeOK' \/ pending' \notin Int
  <2>1. called' \in [Numbers -> Nat]
    BY <1>1, <1>3, Counted
  <2>2. /\ work_queues' \in [Priorities -> SUBSET Requested]
        /\ \A p \in Priorities : \A r, q \in work_queues'[p] : r.n = q.n => r = q
    BY <1>1 DEF HpTypeOK
  <2> QED BY <1>1, <2>1, <2>2 DEF HpTypeOK
<1>5. ASSUME NEW n \in Numbers
      PROVE  /\ PlaceOf(n)' /\ Answers(n)' = (IF n \in dropped THEN Answers(n) + 1 ELSE Answers(n))
             /\ n \in dropped => n \in Unanswered
  <2>1. Working(n)' = Working(n) /\ Streaming(n)' = Streaming(n)
    BY <1>1 DEF Working, Streaming
  <2>2. Answers(n)' = (IF n \in dropped THEN Answers(n) + 1 ELSE Answers(n)) /\ Answers(n) \in Nat
    <3>1. /\ called'[n] = called[n] + (IF n \in dropped THEN 1 ELSE 0) /\ result_queue'[n] = result_queue[n]
          /\ called[n] \in Nat /\ result_queue[n] \in Nat
      BY <1>1, <1>3, Counted DEF HpTypeOK
    <3> QED BY <3>1 DEF Answers
  <2>3. CASE n \in dropped
    <3>1. PICK p \in low : p \in Queues(n)
      BY <1>2, <2>3 DEF Queues
    <3>2. \A q \in Queues(n) : q = p
      BY <3>1 DEF PlaceOf, One
    <3>3. Queues(n)' = {}
      BY <1>1, <3>1, <3>2 DEF Queues, NumbersOf
    <3>4. Working(n) = {} /\ Streaming(n) = {}
      BY <3>1 DEF PlaceOf, One
    <3> QED BY <1>1, <1>3, <2>1, <2>2, <2>3, <3>1, <3>3, <3>4, OneAnswered DEF Unanswered
  <2>4. CASE n \notin dropped
    <3>1. Queues(n)' = Queues(n)
      BY <1>1, <1>2, <2>4 DEF Queues, NumbersOf
    <3> QED BY <1>1, <2>1, <2>2, <2>4, <3>1 DEF PlaceOf
  <2> QED BY <2>3, <2>4
<1>6. dropped \in SUBSET Unanswered
  BY <1>3, <1>5
<1>7. PendingExact' /\ pending' \in Int
  BY <1>1, <1>5, <1>6, PendingFalls
<1> QED BY <1>4, <1>5, <1>7

LEMMA PollKeeps ==
    ASSUME PoolInv, PoolPoll
    PROVE  PoolInv'
<1> USE DEF PoolInv
<1>1. /\ called' = [n \in Numbers |-> called[n] + result_queue[n]] /\ result_queue' = [n \in Numbers |-> 0]
      /\ UNCHANGED <<work_queues, fetcher, h2_host, h2_conn, h2, pending, fetches, pool_stopped>>
  BY DEF PoolPoll
<1>2. HpTypeOK'
  <2>1. called' \in [Numbers -> Nat] /\ result_queue' \in [Numbers -> Nat]
    BY <1>1 DEF HpTypeOK
  <2> QED BY <1>1, <2>1 DEF HpTypeOK
<1>3. \A n \in Numbers : /\ Answers(n)' = Answers(n) /\ Queues(n)' = Queues(n) /\ Working(n)' = Working(n)
                         /\ Streaming(n)' = Streaming(n)
  BY <1>1 DEF Answers, Queues, Working, Streaming, HpTypeOK
<1>4. \A n \in Numbers : PlaceOf(n)'
  BY <1>1, <1>3 DEF PlaceOf
<1>5. Unanswered' = Unanswered
  BY <1>1, <1>3, HpAssumption DEF Unanswered, Numbers, HpTypeOK
<1> QED BY <1>1, <1>2, <1>4, <1>5 DEF PendingExact

LEMMA PopKeeps ==
    ASSUME PoolInv, NEW w \in Fetchers, pop_highest(w)
    PROVE  PoolInv'
<1> USE DEF PoolInv
<1> DEFINE Busy(x) == [pc |-> IF x.streaming THEN "h1" ELSE "choose", req |-> <<x>>, h2 |-> 0]
<1>0. PICK p \in Priorities : \E r \in Oldest(work_queues[p]) :
         /\ work_queues' = [work_queues EXCEPT ![p] = @ \ {r}]
         /\ fetcher' = [fetcher EXCEPT ![w] = Busy(r)]
  BY DEF pop_highest
<1>1. PICK r \in Oldest(work_queues[p]) :
         /\ work_queues' = [work_queues EXCEPT ![p] = @ \ {r}]
         /\ fetcher' = [fetcher EXCEPT ![w] = Busy(r)]
  BY <1>0
<1>2. /\ fetcher[w].pc = "idle" /\ fetcher[w].req = <<>> /\ r \in work_queues[p] /\ r \in Requested
      /\ UNCHANGED <<h2_host, h2_conn, h2, result_queue, pending, fetches, called, pool_stopped>>
  BY <1>1 DEF pop_highest, Oldest, HpTypeOK
<1>3. HpTypeOK'
  <2>1. /\ work_queues' \in [Priorities -> SUBSET Requested]
        /\ \A a \in Priorities : \A x, q \in work_queues'[a] : x.n = q.n => x = q
    BY <1>1 DEF HpTypeOK
  <2>2. <<r>> \in Seq(Requested) /\ <<r>> # <<>> /\ <<r>>[1] = r
    BY <1>2
  <2>3. Busy(r) \in Worker
    BY <2>2 DEF Worker
  <2>4. fetcher' \in [Fetchers -> Worker]
    BY <1>1, <2>3 DEF HpTypeOK
  <2>5. \A v \in Fetchers : /\ fetcher'[v].pc = "idle" <=> fetcher'[v].req = <<>>
                            /\ fetcher'[v].req # <<>> => fetcher'[v].req[1] \in Requested
                            /\ fetcher'[v].pc = "submit" => fetcher'[v].h2 \in DOMAIN h2
    BY <1>1, <1>2, <2>2 DEF HpTypeOK
  <2> QED BY <1>2, <2>1, <2>4, <2>5 DEF HpTypeOK
<1>4. ASSUME NEW n \in Numbers PROVE PlaceOf(n)'
  <2>1. Streaming(n)' = Streaming(n) /\ Answers(n)' = Answers(n)
    BY <1>2 DEF Streaming, Answers
  <2>2. \A a \in Priorities : n \in NumbersOf(work_queues'[a]) <=> n \in NumbersOf(work_queues[a]) /\ ~(a = p /\ n = r.n)
    BY <1>1, <1>2 DEF NumbersOf, HpTypeOK
  <2>3. \A v \in Fetchers : fetcher'[v] = IF v = w THEN Busy(r) ELSE fetcher[v]
    BY <1>1 DEF HpTypeOK
  <2>4. w \notin Working(n)
    BY <1>2 DEF Working
  <2>5. CASE n = r.n
    <3>1. p \in Queues(n)
      BY <1>2, <2>5 DEF Queues, NumbersOf
    <3>2. Queues(n)' = {}
      <4>1. \A a \in Queues(n) : a = p
        BY <3>1 DEF PlaceOf, One
      <4> QED BY <2>2, <2>5, <4>1 DEF Queues
    <3>3. Working(n)' = {w}
      <4>1. Working(n) = {}
        BY <3>1 DEF PlaceOf, One
      <4> QED BY <1>2, <2>3, <2>5, <4>1 DEF Working
    <3> QED BY <1>2, <2>1, <3>1, <3>2, <3>3 DEF PlaceOf, One, Somewhere
  <2>6. CASE n # r.n
    <3>1. Queues(n)' = Queues(n)
      BY <2>2, <2>6 DEF Queues
    <3>2. Working(n)' = Working(n)
      BY <1>2, <2>3, <2>4, <2>6 DEF Working
    <3> QED BY <1>2, <2>1, <3>1, <3>2 DEF PlaceOf
  <2> QED BY <2>5, <2>6
<1> QED BY <1>2, <1>3, <1>4, PendingSame

FetcherOK(f) ==
    /\ f \in [Fetchers -> Worker]
    /\ \A w \in Fetchers : /\ f[w].pc = "idle" <=> f[w].req = <<>>
                           /\ f[w].req # <<>> => f[w].req[1] \in Requested

\* A worker that is done with its request.
LEMMA WorkerFreed ==
    ASSUME HpTypeOK, \A n \in Numbers : PlaceOf(n), NEW w \in Fetchers, fetcher[w].pc # "idle",
           fetcher' = [fetcher EXCEPT ![w] = NoFetch]
    PROVE  /\ fetcher[w].req[1].n \in Numbers /\ fetcher[w].req[1].streaming \in BOOLEAN
           /\ FetcherOK(fetcher')
           /\ \A v \in Fetchers : fetcher'[v].pc = "submit" => fetcher[v].pc = "submit" /\ fetcher'[v].h2 = fetcher[v].h2
           /\ \A n \in Numbers : n = fetcher[w].req[1].n => Working(n) # {} /\ Working(n)' = {}
           /\ \A n \in Numbers : n # fetcher[w].req[1].n => Working(n)' = Working(n)
<1>1. /\ fetcher[w].req # <<>> /\ fetcher[w].req[1] \in Requested
  BY DEF HpTypeOK
<1>2. fetcher[w].req[1].n \in Numbers /\ fetcher[w].req[1].streaming \in BOOLEAN
  BY <1>1 DEF Requested
<1>3. \A v \in Fetchers : fetcher'[v] = IF v = w THEN NoFetch ELSE fetcher[v]
  BY DEF HpTypeOK
<1>4. FetcherOK(fetcher')
  <2>1. NoFetch \in Worker
    BY DEF NoFetch, Worker
  <2>2. fetcher' \in [Fetchers -> Worker]
    BY <2>1 DEF HpTypeOK
  <2>3. NoFetch.pc = "idle" /\ NoFetch.req = <<>>
    BY DEF NoFetch
  <2> QED BY <1>3, <2>2, <2>3 DEF FetcherOK, HpTypeOK
<1>5. \A v \in Fetchers : fetcher'[v].pc = "submit" => fetcher[v].pc = "submit" /\ fetcher'[v].h2 = fetcher[v].h2
  BY <1>3 DEF NoFetch
<1>6. ASSUME NEW n \in Numbers, n = fetcher[w].req[1].n PROVE Working(n) # {} /\ Working(n)' = {}
  <2>1. w \in Working(n)
    BY <1>1, <1>6 DEF Working
  <2>2. \A v \in Working(n) : v = w
    BY <2>1 DEF PlaceOf, One
  <2> QED BY <1>3, <2>1, <2>2 DEF Working, NoFetch
<1>7. ASSUME NEW n \in Numbers, n # fetcher[w].req[1].n PROVE Working(n)' = Working(n)
  BY <1>3, <1>7 DEF Working, NoFetch
<1> QED BY <1>2, <1>4, <1>5, <1>6, <1>7

\* A worker that goes on with its request.
LEMMA WorkerGoesOn ==
    ASSUME HpTypeOK, NEW w \in Fetchers, fetcher[w].pc # "idle", NEW to \in {"h1", "connect", "submit"}, NEW c \in Nat,
           fetcher' = [fetcher EXCEPT ![w] = [pc |-> to, req |-> fetcher[w].req, h2 |-> c]]
    PROVE  /\ FetcherOK(fetcher')
           /\ \A v \in Fetchers : fetcher'[v] = IF v = w THEN [pc |-> to, req |-> fetcher[w].req, h2 |-> c] ELSE fetcher[v]
           /\ \A n \in Numbers : Working(n)' = Working(n)
<1>1. \A v \in Fetchers : fetcher'[v] = IF v = w THEN [pc |-> to, req |-> fetcher[w].req, h2 |-> c] ELSE fetcher[v]
  BY DEF HpTypeOK
<1>2. [pc |-> to, req |-> fetcher[w].req, h2 |-> c] \in Worker
  BY DEF HpTypeOK, Worker
<1>3. fetcher' \in [Fetchers -> Worker]
  BY <1>2 DEF HpTypeOK
<1>4. FetcherOK(fetcher')
  BY <1>1, <1>3 DEF FetcherOK, HpTypeOK
<1>5. \A n \in Numbers : Working(n)' = Working(n)
  BY <1>1 DEF Working
<1> QED BY <1>1, <1>4, <1>5

\* The requests of s leave their worker or stream with a result.
LEMMA Delivered ==
    ASSUME PoolInv, NEW s \in SUBSET Numbers, Deliver(s), UNCHANGED <<work_queues, fetches, called, pool_stopped>>,
           \A n \in s : (Working(n) # {} \/ Streaming(n) # {}) /\ Working(n)' = {} /\ Streaming(n)' = {},
           \A n \in Numbers \ s : Working(n)' = Working(n) /\ Streaming(n)' = Streaming(n)
    PROVE  (\A n \in Numbers : PlaceOf(n)') /\ PendingExact' /\ pending' \in Int /\ result_queue' \in [Numbers -> Nat]
<1> USE DEF PoolInv
<1>1. result_queue' = Counting(result_queue, s) /\ pending' = pending - Cardinality(s)
  BY DEF Deliver
<1>2. ASSUME NEW n \in Numbers
      PROVE  /\ Answers(n)' = (IF n \in s THEN Answers(n) + 1 ELSE Answers(n)) /\ Answers(n) \in Nat
             /\ Queues(n)' = Queues(n)
  <2>1. /\ result_queue'[n] = result_queue[n] + (IF n \in s THEN 1 ELSE 0) /\ called'[n] = called[n]
        /\ called[n] \in Nat /\ result_queue[n] \in Nat
    BY <1>1, Counted DEF HpTypeOK
  <2> QED BY <2>1 DEF Answers, Queues
<1>3. ASSUME NEW n \in s PROVE PlaceOf(n)' /\ n \in Unanswered
  <2>1. Queues(n)' = {}
    BY <1>2 DEF PlaceOf, One
  <2>2. fetches \in Nat
    BY HpAssumption DEF HpTypeOK
  <2> QED BY <1>2, <2>1, <2>2, OneAnswered DEF Unanswered
<1>4. ASSUME NEW n \in Numbers \ s PROVE PlaceOf(n)'
  BY <1>2 DEF PlaceOf
<1>5. s \in SUBSET Unanswered
  BY <1>3
<1>6. PendingExact' /\ pending' \in Int
  BY <1>1, <1>2, <1>5, PendingFalls
<1>7. result_queue' \in [Numbers -> Nat]
  BY <1>1, Counted
<1> QED BY <1>3, <1>4, <1>6, <1>7

\* The types of the connections, and a worker's record.
LEMMA ConnectionFacts ==
    ASSUME HpTypeOK
    PROVE  /\ Len(h2) \in Nat /\ DOMAIN h2 = 1..Len(h2) /\ \A c \in DOMAIN h2 : h2[c] \in Connection
           /\ \A c \in DOMAIN h2 : h2[c].alive \in BOOLEAN /\ h2[c].streams \in SUBSET Numbers
           /\ \A g : DOMAIN g = DOMAIN h2 /\ g = [c \in DOMAIN h2 |-> g[c]] /\ (\A c \in DOMAIN h2 : g[c] \in Connection)
                        => g \in Seq(Connection)
<1>1. h2 \in Seq(Connection)
  BY DEF HpTypeOK
<1>2. Len(h2) \in Nat /\ DOMAIN h2 = 1..Len(h2) /\ \A c \in DOMAIN h2 : h2[c] \in Connection
  BY <1>1
<1>3. \A c \in DOMAIN h2 : h2[c].alive \in BOOLEAN /\ h2[c].streams \in SUBSET Numbers
  BY <1>2 DEF Connection
<1>4. ASSUME NEW g, DOMAIN g = DOMAIN h2, g = [c \in DOMAIN h2 |-> g[c]], \A c \in DOMAIN h2 : g[c] \in Connection
      PROVE  g \in Seq(Connection)
  <2>1. g \in [1..Len(h2) -> Connection]
    BY <1>2, <1>4
  <2> QED BY <1>2, <2>1
<1> QED BY <1>2, <1>3, <1>4

LEMMA WorkerFacts ==
    ASSUME HpTypeOK, NEW w \in Fetchers
    PROVE  /\ fetcher[w].h2 \in Nat
           /\ \A to : [fetcher EXCEPT ![w].pc = to] = [fetcher EXCEPT ![w] = [pc |-> to, req |-> fetcher[w].req, h2 |-> fetcher[w].h2]]
           /\ \A to, c : [fetcher EXCEPT ![w].pc = to, ![w].h2 = c] = [fetcher EXCEPT ![w] = [pc |-> to, req |-> fetcher[w].req, h2 |-> c]]
<1>1. fetcher \in [Fetchers -> Worker]
  BY DEF HpTypeOK
<1>2. fetcher[w] \in Worker
  BY <1>1
<1>3. ASSUME NEW x \in Worker, NEW to, NEW c
      PROVE  /\ x.h2 \in Nat
             /\ [x EXCEPT !.pc = to] = [pc |-> to, req |-> x.req, h2 |-> x.h2]
             /\ [[x EXCEPT !.pc = to] EXCEPT !.h2 = c] = [pc |-> to, req |-> x.req, h2 |-> c]
  <2>1. x.h2 \in Nat
    BY DEF Worker
  <2>2. PICK pc, req, n : x = [pc |-> pc, req |-> req, h2 |-> n]
    <3>1. x = [pc |-> x.pc, req |-> x.req, h2 |-> x.h2]
      BY DEF Worker
    <3> QED BY <3>1
  <2>3. [x EXCEPT !.pc = to] = [pc |-> to, req |-> x.req, h2 |-> x.h2]
    BY <2>2
  <2>4. [[pc |-> to, req |-> x.req, h2 |-> x.h2] EXCEPT !.h2 = c] = [pc |-> to, req |-> x.req, h2 |-> c]
    OBVIOUS
  <2> QED BY <2>1, <2>3, <2>4
<1>4. ASSUME NEW to PROVE [fetcher EXCEPT ![w].pc = to] = [fetcher EXCEPT ![w] = [pc |-> to, req |-> fetcher[w].req, h2 |-> fetcher[w].h2]]
  BY <1>2, <1>3
<1>5. ASSUME NEW to, NEW c
      PROVE  [fetcher EXCEPT ![w].pc = to, ![w].h2 = c] = [fetcher EXCEPT ![w] = [pc |-> to, req |-> fetcher[w].req, h2 |-> c]]
  BY <1>1, <1>2, <1>3
<1> QED BY <1>2, <1>3, <1>4, <1>5

\* What may happen to one connection: another set of streams, one more, one less; it stops taking streams.
LEMMA StreamsSet ==
    ASSUME HpTypeOK, NEW c \in DOMAIN h2, NEW s \in SUBSET Numbers, h2' = [h2 EXCEPT ![c].streams = s]
    PROVE  /\ h2' \in Seq(Connection) /\ DOMAIN h2' = DOMAIN h2
           /\ \A d \in DOMAIN h2 : h2'[d].streams = IF d = c THEN s ELSE h2[d].streams
<1>1. h2 \in Seq(Connection) /\ h2[c] \in Connection
  BY ConnectionFacts DEF HpTypeOK
<1> DEFINE x == [h2[c] EXCEPT !.streams = s]
<1>2. x \in Connection /\ x.streams = s
  BY <1>1 DEF Connection
<1>3. h2' = [h2 EXCEPT ![c] = x]
  OBVIOUS
<1> HIDE DEF x
<1>4. DOMAIN h2' = DOMAIN h2 /\ h2' = [d \in DOMAIN h2 |-> h2'[d]] /\ \A d \in DOMAIN h2 : h2'[d] = IF d = c THEN x ELSE h2[d]
  BY <1>3
<1>5. \A d \in DOMAIN h2 : h2'[d] \in Connection
  BY <1>2, <1>4, ConnectionFacts
<1>6. h2' \in Seq(Connection)
  BY <1>4, <1>5, ConnectionFacts
<1> QED BY <1>2, <1>4, <1>6

LEMMA StreamOpened ==
    ASSUME HpTypeOK, NEW c \in DOMAIN h2, NEW n \in Numbers, h2' = [h2 EXCEPT ![c].streams = @ \cup {n}]
    PROVE  /\ h2' \in Seq(Connection) /\ DOMAIN h2' = DOMAIN h2
           /\ \A d \in DOMAIN h2 : h2'[d].streams = IF d = c THEN h2[d].streams \cup {n} ELSE h2[d].streams
<1> DEFINE s == h2[c].streams \cup {n}
<1>1. s \in SUBSET Numbers
  BY ConnectionFacts
<1>2. h2' = [h2 EXCEPT ![c].streams = s]
  OBVIOUS
<1>3. s = h2[c].streams \cup {n}
  OBVIOUS
<1> HIDE DEF s
<1>4. /\ h2' \in Seq(Connection) /\ DOMAIN h2' = DOMAIN h2
      /\ \A d \in DOMAIN h2 : h2'[d].streams = IF d = c THEN s ELSE h2[d].streams
  BY <1>1, <1>2, StreamsSet
<1> QED BY <1>3, <1>4

LEMMA StreamClosed ==
    ASSUME HpTypeOK, NEW c \in DOMAIN h2, NEW n \in Numbers, h2' = [h2 EXCEPT ![c].streams = @ \ {n}]
    PROVE  /\ h2' \in Seq(Connection) /\ DOMAIN h2' = DOMAIN h2
           /\ \A d \in DOMAIN h2 : h2'[d].streams = IF d = c THEN h2[d].streams \ {n} ELSE h2[d].streams
<1> DEFINE s == h2[c].streams \ {n}
<1>1. s \in SUBSET Numbers
  BY ConnectionFacts
<1>2. h2' = [h2 EXCEPT ![c].streams = s]
  OBVIOUS
<1>3. s = h2[c].streams \ {n}
  OBVIOUS
<1> HIDE DEF s
<1>4. /\ h2' \in Seq(Connection) /\ DOMAIN h2' = DOMAIN h2
      /\ \A d \in DOMAIN h2 : h2'[d].streams = IF d = c THEN s ELSE h2[d].streams
  BY <1>1, <1>2, StreamsSet
<1> QED BY <1>3, <1>4

LEMMA Closed ==
    ASSUME HpTypeOK, NEW c \in DOMAIN h2, h2' = [h2 EXCEPT ![c].alive = FALSE]
    PROVE  h2' \in Seq(Connection) /\ DOMAIN h2' = DOMAIN h2 /\ \A d \in DOMAIN h2 : h2'[d].streams = h2[d].streams
<1>1. h2 \in Seq(Connection) /\ h2[c] \in Connection
  BY ConnectionFacts DEF HpTypeOK
<1> DEFINE x == [h2[c] EXCEPT !.alive = FALSE]
<1>2. x \in Connection /\ x.streams = h2[c].streams
  BY <1>1 DEF Connection
<1>3. h2' = [h2 EXCEPT ![c] = x]
  OBVIOUS
<1> HIDE DEF x
<1>4. h2' \in Seq(Connection)
  <2>1. DOMAIN h2' = DOMAIN h2 /\ h2' = [d \in DOMAIN h2 |-> h2'[d]]
    BY <1>3
  <2>2. \A d \in DOMAIN h2 : h2'[d] \in Connection
    BY <1>2, <1>3, ConnectionFacts
  <2> QED BY <2>1, <2>2, ConnectionFacts
<1>7. DOMAIN h2' = DOMAIN h2
  BY <1>3
<1>5. \A d \in DOMAIN h2 : h2'[d] = IF d = c THEN x ELSE h2[d]
  BY <1>3
<1>6. \A d \in DOMAIN h2 : h2'[d].streams = h2[d].streams
  BY <1>2, <1>5
<1> QED BY <1>4, <1>6, <1>7

LEMMA ChooseKeeps ==
    ASSUME PoolInv, NEW w \in Fetchers, Choose(w)
    PROVE  PoolInv'
<1> USE DEF PoolInv
<1> DEFINE dead == h2_conn # <<>> /\ ~h2[h2_conn[1]].alive
           ended == IF dead /\ ~Held(h2_conn[1]) THEN {h2_conn[1]} ELSE {}
           s == UNION {h2[c].streams : c \in ended}
<1>1. /\ fetcher[w].pc = "choose" /\ h2_conn' = (IF dead THEN <<>> ELSE h2_conn) /\ Deliver(s)
      /\ h2' = [c \in DOMAIN h2 |-> IF c \in ended THEN [alive |-> FALSE, streams |-> {}] ELSE h2[c]]
      /\ UNCHANGED <<work_queues, fetches, called, pool_stopped>>
  BY DEF Choose
<1>2. ended \subseteq DOMAIN h2
  BY DEF HpTypeOK
<1>3. /\ h2' \in Seq(Connection) /\ DOMAIN h2' = DOMAIN h2
      /\ s \in SUBSET Numbers
  <2>1. \A c \in DOMAIN h2 : h2'[c] \in Connection
    <3>1. [alive |-> FALSE, streams |-> {}] \in Connection
      BY DEF Connection
    <3> QED BY <1>1, <3>1, ConnectionFacts
  <2>2. DOMAIN h2' = DOMAIN h2 /\ h2' = [c \in DOMAIN h2 |-> h2'[c]]
    BY <1>1
  <2>3. s \in SUBSET Numbers
    BY <1>2, ConnectionFacts
  <2> QED BY <2>1, <2>2, <2>3, ConnectionFacts
<1>4. HpTypeOK /\ fetcher[w].pc # "idle"
  BY <1>1
<1> DEFINE GoesOn == /\ FetcherOK(fetcher') /\ \A n \in Numbers : Working(n)' = Working(n)
                     /\ \A v \in Fetchers : fetcher'[v].pc = "submit" => fetcher'[v].h2 \in DOMAIN h2
<1>5. GoesOn
  <2>0. \A v \in Fetchers : fetcher[v].pc = "submit" => fetcher[v].h2 \in DOMAIN h2
    BY DEF HpTypeOK
  <2> HIDE DEF PoolInv, dead, ended, s
  <2>1. ASSUME NEW to \in {"h1", "connect"}, fetcher' = [fetcher EXCEPT ![w].pc = to] PROVE GoesOn
    <3> DEFINE c == fetcher[w].h2
    <3>1. c \in Nat
      BY <1>4, WorkerFacts
    <3>2. fetcher' = [fetcher EXCEPT ![w] = [pc |-> to, req |-> fetcher[w].req, h2 |-> c]]
      BY <1>4, <2>1, WorkerFacts
    <3> HIDE DEF c
    <3>3. CASE to = "h1"
      <4>1. /\ FetcherOK(fetcher') /\ \A n \in Numbers : Working(n)' = Working(n)
            /\ \A v \in Fetchers : fetcher'[v] = IF v = w THEN [pc |-> "h1", req |-> fetcher[w].req, h2 |-> c] ELSE fetcher[v]
        BY <1>4, <3>1, <3>2, <3>3, WorkerGoesOn
      <4> QED BY <2>0, <4>1
    <3>4. CASE to = "connect"
      <4>1. /\ FetcherOK(fetcher') /\ \A n \in Numbers : Working(n)' = Working(n)
            /\ \A v \in Fetchers : fetcher'[v] = IF v = w THEN [pc |-> "connect", req |-> fetcher[w].req, h2 |-> c] ELSE fetcher[v]
        BY <1>4, <3>1, <3>2, <3>4, WorkerGoesOn
      <4> QED BY <2>0, <4>1
    <3> QED BY <3>3, <3>4
  <2>2. ASSUME h2_conn # <<>>, fetcher' = [fetcher EXCEPT ![w].pc = "submit", ![w].h2 = h2_conn[1]] PROVE GoesOn
    <3> DEFINE c == h2_conn[1]
    <3>1. c \in DOMAIN h2
      BY <1>4, <2>2 DEF HpTypeOK
    <3>2. c \in Nat
      BY <1>4, <3>1, ConnectionFacts
    <3>3. fetcher' = [fetcher EXCEPT ![w].pc = "submit", ![w].h2 = c]
      BY <2>2
    <3> HIDE DEF c
    <3>4. fetcher' = [fetcher EXCEPT ![w] = [pc |-> "submit", req |-> fetcher[w].req, h2 |-> c]]
      BY <1>4, <3>3, WorkerFacts
    <3>5. /\ FetcherOK(fetcher') /\ \A n \in Numbers : Working(n)' = Working(n)
          /\ \A v \in Fetchers : fetcher'[v] = IF v = w THEN [pc |-> "submit", req |-> fetcher[w].req, h2 |-> c] ELSE fetcher[v]
      BY <1>4, <3>2, <3>4, WorkerGoesOn
    <3> QED BY <2>0, <3>1, <3>5
  <2> QED BY <2>1, <2>2 DEF Choose
<1>6. ASSUME NEW n \in s PROVE Streaming(n) # {} /\ Working(n) = {} /\ Streaming(n)' = {}
  <2>1. PICK d \in ended : n \in h2[d].streams
    OBVIOUS
  <2>2. n \in Numbers /\ d \in Streaming(n) /\ \A e \in ended : e = d
    BY <1>2, <1>3, <2>1 DEF Streaming
  <2>3. Working(n) = {} /\ \A e \in Streaming(n) : e = d
    BY <2>2 DEF PlaceOf, One
  <2>4. Streaming(n)' = {}
    BY <1>1, <1>3, <2>2, <2>3 DEF Streaming
  <2> QED BY <2>2, <2>3, <2>4
<1>7. ASSUME NEW n \in Numbers \ s PROVE Streaming(n)' = Streaming(n)
  BY <1>1, <1>3 DEF Streaming
<1>8. (\A n \in Numbers : PlaceOf(n)') /\ PendingExact' /\ pending' \in Int /\ result_queue' \in [Numbers -> Nat]
  <2>1. \A n \in s : (Working(n) # {} \/ Streaming(n) # {}) /\ Working(n)' = {} /\ Streaming(n)' = {}
    BY <1>3, <1>5, <1>6
  <2>2. \A n \in Numbers \ s : Working(n)' = Working(n) /\ Streaming(n)' = Streaming(n)
    BY <1>5, <1>7
  <2> QED BY <1>1, <1>3, <2>1, <2>2, Delivered
<1>9. HpTypeOK'
  <2>1. \A v \in Fetchers : fetcher'[v].pc = "submit" => fetcher'[v].h2 \in DOMAIN h2'
    BY <1>3, <1>5
  <2>2. h2_conn' # <<>> => h2_conn'[1] \in DOMAIN h2'
    BY <1>1, <1>3 DEF HpTypeOK
  <2> QED BY <1>1, <1>3, <1>5, <1>8, <2>1, <2>2 DEF HpTypeOK, FetcherOK
<1> QED BY <1>8, <1>9

LEMMA PoolConnectKeeps ==
    ASSUME PoolInv, NEW w \in Fetchers, H2Connect(w)
    PROVE  PoolInv'
<1> USE DEF PoolInv
<1>1. /\ fetcher[w].pc = "connect"
      /\ UNCHANGED <<work_queues, result_queue, pending, fetches, called, pool_stopped>>
  BY DEF H2Connect
<1>2. Len(h2) \in Nat /\ DOMAIN h2 = 1..Len(h2) /\ fetcher[w].pc # "idle" /\ fetcher[w].h2 \in Nat
  BY <1>1, ConnectionFacts, WorkerFacts
<1>3. CASE /\ h2' = Append(h2, [alive |-> TRUE, streams |-> {}]) /\ h2_conn' = <<Len(h2) + 1>>
           /\ fetcher' = [fetcher EXCEPT ![w].pc = "submit", ![w].h2 = Len(h2) + 1]
  <2>1. fetcher' = [fetcher EXCEPT ![w] = [pc |-> "submit", req |-> fetcher[w].req, h2 |-> Len(h2) + 1]]
    BY <1>3, WorkerFacts
  <2>2. /\ FetcherOK(fetcher')
        /\ \A v \in Fetchers : fetcher'[v] = IF v = w THEN [pc |-> "submit", req |-> fetcher[w].req, h2 |-> Len(h2) + 1] ELSE fetcher[v]
        /\ \A n \in Numbers : Working(n)' = Working(n)
    <3>1. Len(h2) + 1 \in Nat
      BY <1>2
    <3> QED BY <1>2, <2>1, <3>1, WorkerGoesOn
  <2>3. /\ h2' \in Seq(Connection) /\ DOMAIN h2' = DOMAIN h2 \cup {Len(h2) + 1}
        /\ \A c \in DOMAIN h2 : h2'[c] = h2[c]
        /\ h2'[Len(h2) + 1].streams = {} /\ Len(h2) + 1 \notin DOMAIN h2
    <3>1. [alive |-> TRUE, streams |-> {}] \in Connection /\ [alive |-> TRUE, streams |-> {}].streams = {}
      BY DEF Connection
    <3>2. h2 \in Seq(Connection)
      BY DEF HpTypeOK
    <3> QED BY <1>2, <1>3, <3>1, <3>2
  <2>4. ASSUME NEW n \in Numbers PROVE PlaceOf(n)'
    <3>1. Streaming(n)' = Streaming(n)
      BY <2>3 DEF Streaming
    <3>2. Answers(n)' = Answers(n) /\ Queues(n)' = Queues(n)
      BY <1>1 DEF Answers, Queues
    <3> QED BY <1>1, <2>2, <3>1, <3>2 DEF PlaceOf
  <2>5. HpTypeOK'
    <3>1. \A v \in Fetchers : fetcher'[v].pc = "submit" => fetcher'[v].h2 \in DOMAIN h2'
      <4>1. \A v \in Fetchers : fetcher[v].pc = "submit" => fetcher[v].h2 \in DOMAIN h2
        BY DEF HpTypeOK
      <4>2. \A v \in Fetchers : fetcher'[v].pc = "submit" => fetcher'[v].h2 \in DOMAIN h2 \cup {Len(h2) + 1}
        BY <2>2, <4>1
      <4> QED BY <2>3, <4>2
    <3>2. h2_conn'[1] \in DOMAIN h2'
      BY <1>3, <2>3
    <3> QED BY <1>1, <2>2, <2>3, <3>1, <3>2 DEF HpTypeOK, FetcherOK
  <2> QED BY <1>1, <2>4, <2>5, PendingSame
<1>4. CASE fetcher' = [fetcher EXCEPT ![w].pc = "h1"] /\ UNCHANGED <<h2, h2_conn>>
  <2>1. fetcher' = [fetcher EXCEPT ![w] = [pc |-> "h1", req |-> fetcher[w].req, h2 |-> fetcher[w].h2]]
    BY <1>4, WorkerFacts
  <2>2. /\ FetcherOK(fetcher')
        /\ \A v \in Fetchers : fetcher'[v] = IF v = w THEN [pc |-> "h1", req |-> fetcher[w].req, h2 |-> fetcher[w].h2] ELSE fetcher[v]
        /\ \A n \in Numbers : Working(n)' = Working(n)
    BY <1>2, <2>1, WorkerGoesOn
  <2>3. \A n \in Numbers : Streaming(n)' = Streaming(n) /\ Answers(n)' = Answers(n) /\ Queues(n)' = Queues(n)
    BY <1>1, <1>4 DEF Streaming, Answers, Queues
  <2>4. \A n \in Numbers : PlaceOf(n)'
    BY <1>1, <2>2, <2>3 DEF PlaceOf
  <2>5. HpTypeOK'
    <3>1. \A v \in Fetchers : fetcher'[v].pc = "submit" => fetcher'[v].h2 \in DOMAIN h2'
      BY <1>4, <2>2 DEF HpTypeOK
    <3> QED BY <1>1, <1>4, <2>2, <3>1 DEF HpTypeOK, FetcherOK
  <2> QED BY <1>1, <2>4, <2>5, PendingSame
<1> QED BY <1>3, <1>4 DEF H2Connect

LEMMA SubmitKeeps ==
    ASSUME PoolInv, NEW w \in Fetchers, SubmitAsync(w)
    PROVE  PoolInv'
<1> USE DEF PoolInv
<1>1. /\ fetcher[w].pc = "submit" /\ fetcher' = [fetcher EXCEPT ![w] = NoFetch]
      /\ UNCHANGED <<work_queues, h2_host, h2_conn, fetches, called, pool_stopped>>
  BY DEF SubmitAsync
<1>0. HpTypeOK /\ (\A m \in Numbers : PlaceOf(m)) /\ fetcher[w].pc # "idle"
  BY <1>1
<1> PICK n \in Numbers : n = fetcher[w].req[1].n
  BY <1>0, <1>1, WorkerFreed
<1> PICK c \in DOMAIN h2 : c = fetcher[w].h2
  BY <1>0, <1>1 DEF HpTypeOK
<1>9. \/ h2' = [h2 EXCEPT ![c].streams = @ \cup {n}] /\ UNCHANGED <<result_queue, pending>>
      \/ Deliver({n}) /\ UNCHANGED h2
  BY DEF SubmitAsync
<1>2. /\ n \in Numbers /\ FetcherOK(fetcher')
      /\ \A v \in Fetchers : fetcher'[v].pc = "submit" => fetcher[v].pc = "submit" /\ fetcher'[v].h2 = fetcher[v].h2
      /\ Working(n) # {} /\ Working(n)' = {}
      /\ \A m \in Numbers : m # n => Working(m)' = Working(m)
  <2>1. n \in Numbers /\ FetcherOK(fetcher')
    BY <1>0, <1>1, WorkerFreed
  <2>2. \A v \in Fetchers : fetcher'[v].pc = "submit" => fetcher[v].pc = "submit" /\ fetcher'[v].h2 = fetcher[v].h2
    BY <1>0, <1>1, WorkerFreed
  <2>3. /\ \A m \in Numbers : m = n => Working(m) # {} /\ Working(m)' = {}
        /\ \A m \in Numbers : m # n => Working(m)' = Working(m)
    BY <1>0, <1>1, WorkerFreed
  <2> QED BY <2>1, <2>2, <2>3
<1>3. c \in DOMAIN h2 /\ \A v \in Fetchers : fetcher'[v].pc = "submit" => fetcher'[v].h2 \in DOMAIN h2
  BY <1>0, <1>1, <1>2 DEF HpTypeOK
<1>4. Streaming(n) = {} /\ Queues(n) = {} /\ Answers(n) = 0
  BY <1>2 DEF PlaceOf, One
<1>5. CASE h2' = [h2 EXCEPT ![c].streams = @ \cup {n}] /\ UNCHANGED <<result_queue, pending>>
  <2>1. /\ h2' \in Seq(Connection) /\ DOMAIN h2' = DOMAIN h2
        /\ \A d \in DOMAIN h2 : h2'[d].streams = IF d = c THEN h2[d].streams \cup {n} ELSE h2[d].streams
    <3>1. c \in DOMAIN h2 /\ HpTypeOK /\ h2' = [h2 EXCEPT ![c].streams = @ \cup {n}]
      BY <1>0, <1>3, <1>5
    <3> HIDE DEF PoolInv
    <3> QED BY <3>1, StreamOpened
  <2>2. Streaming(n)' = {c}
    <3>1. \A d \in DOMAIN h2 : n \notin h2[d].streams
      BY <1>4 DEF Streaming
    <3>2. \A d \in DOMAIN h2 : n \in h2'[d].streams <=> d = c
      BY <2>1, <3>1
    <3>3. Streaming(n)' = {d \in DOMAIN h2 : n \in h2'[d].streams}
      BY <2>1 DEF Streaming
    <3> QED BY <1>3, <3>2, <3>3
  <2>3. ASSUME NEW m \in Numbers, m # n PROVE Streaming(m)' = Streaming(m)
    <3>1. \A d \in DOMAIN h2 : m \in h2'[d].streams <=> m \in h2[d].streams
      BY <2>1, <2>3
    <3> QED BY <2>1, <3>1 DEF Streaming
  <2>4. \A m \in Numbers : Queues(m)' = Queues(m) /\ Answers(m)' = Answers(m)
    BY <1>1, <1>5 DEF Queues, Answers
  <2>5. PlaceOf(n)'
    <3>1. Queues(n)' = {} /\ Working(n)' = {} /\ Answers(n)' = 0
      BY <1>2, <1>4, <2>4
    <3>2. One(Queues(n)', Working(n)', Streaming(n)', Answers(n)')
      BY <2>2, <3>1 DEF One
    <3>3. ~(n > fetches')
      BY <1>1, <1>2 DEF PlaceOf, Somewhere
    <3>4. Somewhere(Queues(n)', Working(n)', Streaming(n)', Answers(n)')
      BY <2>2 DEF Somewhere
    <3> QED BY <3>2, <3>3, <3>4 DEF PlaceOf
  <2>6. ASSUME NEW m \in Numbers, m # n PROVE PlaceOf(m)'
    BY <1>1, <1>2, <2>3, <2>4, <2>6 DEF PlaceOf
  <2>7. HpTypeOK'
    BY <1>1, <1>2, <1>3, <1>5, <2>1 DEF HpTypeOK, FetcherOK
  <2> QED BY <1>1, <1>5, <2>5, <2>6, <2>7, PendingSame
<1>6. CASE Deliver({n}) /\ UNCHANGED h2
  <2>1. \A m \in Numbers : Streaming(m)' = Streaming(m)
    BY <1>6 DEF Streaming
  <2>2. (\A m \in Numbers : PlaceOf(m)') /\ PendingExact' /\ pending' \in Int /\ result_queue' \in [Numbers -> Nat]
    <3>1. Working(n) # {} /\ Working(n)' = {} /\ Streaming(n)' = {}
      BY <1>2, <1>4, <2>1
    <3>2. \A m \in Numbers \ {n} : Working(m)' = Working(m) /\ Streaming(m)' = Streaming(m)
      BY <1>2, <2>1
    <3>3. PoolInv
      OBVIOUS
    <3> HIDE DEF PoolInv
    <3> QED BY <1>1, <1>2, <1>6, <3>1, <3>2, <3>3, Delivered
  <2>3. HpTypeOK'
    BY <1>1, <1>2, <1>3, <1>6, <2>2 DEF HpTypeOK, FetcherOK
  <2> QED BY <2>2, <2>3
<1> QED BY <1>9, <1>5, <1>6

\* After stop() nothing of pending_ is promised: a worker that ends without an answer only gives its request up.
LEMMA H1DoneKeeps ==
    ASSUME PoolInv, NEW w \in Fetchers, H1Done(w)
    PROVE  PoolInv'
<1> USE DEF PoolInv
<1>0. HpTypeOK /\ (\A m \in Numbers : PlaceOf(m)) /\ fetcher[w].pc # "idle"
  BY DEF H1Done
<1> PICK r : r = fetcher[w].req[1]
  OBVIOUS
<1> PICK n : n = r.n
  OBVIOUS
<1>1. /\ fetcher[w].pc = "h1" /\ fetcher' = [fetcher EXCEPT ![w] = NoFetch] /\ pending' = pending - 1
      /\ called' = (IF r.streaming /\ ~pool_stopped THEN Counting(called, {n}) ELSE called)
      /\ result_queue' = (IF r.streaming \/ pool_stopped THEN result_queue ELSE Counting(result_queue, {n}))
      /\ UNCHANGED <<work_queues, h2_conn, h2, fetches, pool_stopped>>
  BY DEF H1Done
<1>2. /\ n \in Numbers /\ r.streaming \in BOOLEAN /\ FetcherOK(fetcher')
      /\ \A v \in Fetchers : fetcher'[v].pc = "submit" => fetcher[v].pc = "submit" /\ fetcher'[v].h2 = fetcher[v].h2
      /\ Working(n) # {} /\ Working(n)' = {}
      /\ \A m \in Numbers : m # n => Working(m)' = Working(m)
  <2>1. n \in Numbers /\ r.streaming \in BOOLEAN /\ FetcherOK(fetcher')
    BY <1>0, <1>1, WorkerFreed
  <2>2. \A v \in Fetchers : fetcher'[v].pc = "submit" => fetcher[v].pc = "submit" /\ fetcher'[v].h2 = fetcher[v].h2
    BY <1>0, <1>1, WorkerFreed
  <2>3. /\ \A m \in Numbers : m = n => Working(m) # {} /\ Working(m)' = {}
        /\ \A m \in Numbers : m # n => Working(m)' = Working(m)
    BY <1>0, <1>1, WorkerFreed
  <2> QED BY <2>1, <2>2, <2>3
<1>3. \A v \in Fetchers : fetcher'[v].pc = "submit" => fetcher'[v].h2 \in DOMAIN h2
  BY <1>2 DEF HpTypeOK
<1>4. Streaming(n) = {} /\ Queues(n) = {} /\ Answers(n) = 0
  BY <1>2 DEF PlaceOf, One
<1>5. \A m \in Numbers : Queues(m)' = Queues(m) /\ Streaming(m)' = Streaming(m)
  BY <1>1 DEF Queues, Streaming
<1>6. called' \in [Numbers -> Nat] /\ result_queue' \in [Numbers -> Nat]
  <2>1. Counting(called, {n}) \in [Numbers -> Nat] /\ Counting(result_queue, {n}) \in [Numbers -> Nat]
    BY <1>0, <1>2, Counted
  <2> QED BY <1>1, <2>1 DEF HpTypeOK
<1>7. ASSUME NEW m \in Numbers
      PROVE  Answers(m)' = IF m = n /\ ~pool_stopped THEN Answers(m) + 1 ELSE Answers(m)
  <2>1. /\ Counting(called, {n})[m] = called[m] + (IF m = n THEN 1 ELSE 0)
        /\ Counting(result_queue, {n})[m] = result_queue[m] + (IF m = n THEN 1 ELSE 0)
        /\ called[m] \in Nat /\ result_queue[m] \in Nat
    <3>1. /\ Counting(called, {n})[m] = called[m] + (IF m \in {n} THEN 1 ELSE 0)
          /\ Counting(result_queue, {n})[m] = result_queue[m] + (IF m \in {n} THEN 1 ELSE 0)
      BY <1>0, <1>2, Counted
    <3> QED BY <3>1 DEF HpTypeOK
  <2>2. Answers(m)' = called'[m] + result_queue'[m] /\ Answers(m) = called[m] + result_queue[m]
    BY <1>6, <2>1 DEF Answers
  <2>3. CASE pool_stopped
    BY <1>1, <2>2, <2>3
  <2>4. CASE ~pool_stopped /\ r.streaming
    BY <1>1, <2>1, <2>2, <2>4
  <2>5. CASE ~pool_stopped /\ ~r.streaming
    BY <1>1, <2>1, <2>2, <2>5
  <2> QED BY <2>3, <2>4, <2>5
<1>8. ASSUME NEW m \in Numbers, m # n PROVE PlaceOf(m)'
  BY <1>1, <1>2, <1>5, <1>7, <1>8 DEF PlaceOf
<1>9. PlaceOf(n)' /\ (n \in 1..fetches)
  <2>1. n \in Nat /\ fetches \in Nat /\ ~(n > fetches) /\ n \in 1..fetches
    <3>1. n \in Nat /\ n >= 1 /\ fetches \in Nat
      BY <1>2, HpAssumption DEF Numbers, HpTypeOK
    <3>2. ~(n > fetches)
      BY <1>2 DEF PlaceOf, Somewhere
    <3> QED BY <3>1, <3>2
  <2>2. Queues(n)' = {} /\ Streaming(n)' = {} /\ Working(n)' = {}
    BY <1>2, <1>4, <1>5
  <2>3. Answers(n)' = IF pool_stopped THEN 0 ELSE 1
    BY <1>2, <1>4, <1>7
  <2>4. One(Queues(n)', Working(n)', Streaming(n)', Answers(n)')
    BY <2>2, <2>3 DEF One
  <2>5. ~pool_stopped => Somewhere(Queues(n)', Working(n)', Streaming(n)', Answers(n)')
    BY <2>3 DEF Somewhere
  <2> QED BY <1>1, <2>1, <2>4, <2>5 DEF PlaceOf
<1>10. PendingExact' /\ pending' \in Int
  <2>1. CASE pool_stopped
    BY <1>1, <2>1 DEF PendingExact, HpTypeOK
  <2>2. CASE ~pool_stopped
    <3>1. {n} \in SUBSET Unanswered /\ Cardinality({n}) = 1
      BY <1>4, <1>9, FS_Singleton DEF Unanswered
    <3>2. \A m \in Numbers : Answers(m)' = IF m \in {n} THEN Answers(m) + 1 ELSE Answers(m)
      BY <1>7, <2>2
    <3> QED BY <1>1, <3>1, <3>2, PendingFalls
  <2> QED BY <2>1, <2>2 DEF HpTypeOK
<1>11. HpTypeOK'
  BY <1>1, <1>2, <1>3, <1>6, <1>10 DEF HpTypeOK, FetcherOK
<1> QED BY <1>8, <1>9, <1>10, <1>11

LEMMA StreamCloseKeeps ==
    ASSUME PoolInv, NEW c \in DOMAIN h2, NEW n \in 1..fetches, StreamClose(c, n)
    PROVE  PoolInv'
<1> USE DEF PoolInv
<1>1. /\ n \in h2[c].streams /\ h2' = [h2 EXCEPT ![c].streams = @ \ {n}] /\ Deliver({n})
      /\ UNCHANGED <<work_queues, fetcher, h2_host, h2_conn, fetches, called, pool_stopped>>
  BY DEF StreamClose
<1>2. n \in Numbers
  BY <1>1, ConnectionFacts
<1>3. /\ h2' \in Seq(Connection) /\ DOMAIN h2' = DOMAIN h2
      /\ \A d \in DOMAIN h2 : h2'[d].streams = IF d = c THEN h2[d].streams \ {n} ELSE h2[d].streams
  BY <1>1, <1>2, StreamClosed
<1>4. \A m \in Numbers : Working(m)' = Working(m)
  BY <1>1 DEF Working
<1>5. c \in Streaming(n) /\ Working(n) = {} /\ \A d \in Streaming(n) : d = c
  <2>1. c \in Streaming(n)
    BY <1>1 DEF Streaming
  <2> QED BY <1>2, <2>1 DEF PlaceOf, One
<1>6. Streaming(n)' = {}
  BY <1>3, <1>5 DEF Streaming
<1>7. \A m \in Numbers : m # n => Streaming(m)' = Streaming(m)
  BY <1>3 DEF Streaming
<1>8. (\A m \in Numbers : PlaceOf(m)') /\ PendingExact' /\ pending' \in Int /\ result_queue' \in [Numbers -> Nat]
  BY <1>1, <1>2, <1>4, <1>5, <1>6, <1>7, Delivered
<1>9. HpTypeOK'
  BY <1>1, <1>3, <1>8 DEF HpTypeOK
<1> QED BY <1>8, <1>9

\* A connection that stops taking streams, and stop(), lose nothing a stream or a worker holds.
LEMMA GoAwayKeeps ==
    ASSUME PoolInv, NEW c \in DOMAIN h2, GoAway(c)
    PROVE  PoolInv'
<1> USE DEF PoolInv
<1>1. /\ h2' = [h2 EXCEPT ![c].alive = FALSE]
      /\ UNCHANGED <<work_queues, fetcher, h2_host, h2_conn, result_queue, pending, fetches, called, pool_stopped>>
  BY DEF GoAway
<1>2. /\ h2' \in Seq(Connection) /\ DOMAIN h2' = DOMAIN h2
      /\ \A d \in DOMAIN h2 : h2'[d].streams = h2[d].streams
  BY <1>1, Closed
<1>3. \A n \in Numbers : /\ Queues(n)' = Queues(n) /\ Working(n)' = Working(n) /\ Streaming(n)' = Streaming(n)
                         /\ Answers(n)' = Answers(n)
  BY <1>1, <1>2 DEF Queues, Working, Streaming, Answers
<1>4. \A n \in Numbers : PlaceOf(n)'
  BY <1>1, <1>3 DEF PlaceOf
<1>5. HpTypeOK'
  BY <1>1, <1>2 DEF HpTypeOK
<1> QED BY <1>1, <1>4, <1>5, PendingSame

LEMMA IoExitKeeps ==
    ASSUME PoolInv, NEW c \in DOMAIN h2, IoExit(c)
    PROVE  PoolInv'
<1> USE DEF PoolInv
<1> PICK s : s = h2[c].streams
  OBVIOUS
<1>1. /\ h2' = [h2 EXCEPT ![c] = [alive |-> FALSE, streams |-> {}]] /\ Deliver(s)
      /\ UNCHANGED <<work_queues, fetcher, h2_host, h2_conn, fetches, called, pool_stopped>>
  BY DEF IoExit
<1>2. s \in SUBSET Numbers
  BY ConnectionFacts
<1>3. DOMAIN h2' = DOMAIN h2 /\ \A d \in DOMAIN h2 : h2'[d] = IF d = c THEN [alive |-> FALSE, streams |-> {}] ELSE h2[d]
  BY <1>1
<1>4. h2' \in Seq(Connection)
  <2>1. [alive |-> FALSE, streams |-> {}] \in Connection
    BY DEF Connection
  <2>2. \A d \in DOMAIN h2 : h2'[d] \in Connection
    BY <1>3, <2>1, ConnectionFacts
  <2>3. h2' = [d \in DOMAIN h2 |-> h2'[d]]
    BY <1>1
  <2> QED BY <1>3, <2>2, <2>3, ConnectionFacts
<1>5. \A d \in DOMAIN h2 : h2'[d].streams = IF d = c THEN {} ELSE h2[d].streams
  BY <1>3
<1>6. \A n \in Numbers : Working(n)' = Working(n)
  BY <1>1 DEF Working
<1>7. ASSUME NEW n \in s PROVE Streaming(n) # {} /\ Working(n) = {} /\ Streaming(n)' = {}
  <2>1. c \in Streaming(n) /\ n \in Numbers
    BY <1>2 DEF Streaming
  <2>2. Working(n) = {} /\ \A d \in Streaming(n) : d = c
    BY <2>1 DEF PlaceOf, One
  <2>3. \A d \in DOMAIN h2 : n \notin h2'[d].streams
    BY <1>5, <2>2 DEF Streaming
  <2> QED BY <1>3, <2>1, <2>2, <2>3 DEF Streaming
<1>8. ASSUME NEW n \in Numbers \ s PROVE Streaming(n)' = Streaming(n)
  BY <1>3, <1>5 DEF Streaming
<1>9. (\A n \in Numbers : PlaceOf(n)') /\ PendingExact' /\ pending' \in Int /\ result_queue' \in [Numbers -> Nat]
  <2>1. \A n \in s : (Working(n) # {} \/ Streaming(n) # {}) /\ Working(n)' = {} /\ Streaming(n)' = {}
    BY <1>2, <1>6, <1>7
  <2>2. \A n \in Numbers \ s : Working(n)' = Working(n) /\ Streaming(n)' = Streaming(n)
    BY <1>6, <1>8
  <2> QED BY <1>1, <1>2, <2>1, <2>2, Delivered
<1>10. HpTypeOK'
  BY <1>1, <1>3, <1>4, <1>9 DEF HpTypeOK
<1> QED BY <1>9, <1>10

LEMMA StopKeeps ==
    ASSUME PoolInv, PoolStop
    PROVE  PoolInv'
<1> USE DEF PoolInv
<1>1. /\ pool_stopped' = TRUE /\ work_queues' = [p \in Priorities |-> {}] /\ h2_conn' = <<>>
      /\ h2' = [c \in DOMAIN h2 |-> [alive |-> FALSE, streams |-> h2[c].streams]]
      /\ UNCHANGED <<fetcher, result_queue, pending, fetches, called>>
  BY DEF PoolStop
<1>2. h2' \in Seq(Connection) /\ DOMAIN h2' = DOMAIN h2 /\ \A c \in DOMAIN h2 : h2'[c].streams = h2[c].streams
  <2>1. DOMAIN h2' = DOMAIN h2 /\ h2' = [c \in DOMAIN h2 |-> h2'[c]] /\ \A c \in DOMAIN h2 : h2'[c].streams = h2[c].streams
    BY <1>1
  <2>2. \A c \in DOMAIN h2 : h2'[c] \in Connection
    <3>1. \A x \in SUBSET Numbers : [alive |-> FALSE, streams |-> x] \in Connection
      BY DEF Connection
    <3> QED BY <1>1, <3>1, ConnectionFacts
  <2> QED BY <2>1, <2>2, ConnectionFacts
<1>3. ASSUME NEW n \in Numbers PROVE PlaceOf(n)'
  <2>1. Queues(n)' = {}
    BY <1>1 DEF Queues, NumbersOf
  <2>2. Working(n)' = Working(n) /\ Streaming(n)' = Streaming(n) /\ Answers(n)' = Answers(n)
    BY <1>1, <1>2 DEF Working, Streaming, Answers
  <2> QED BY <1>1, <2>1, <2>2 DEF PlaceOf, One, Somewhere
<1>4. HpTypeOK'
  <2>1. /\ work_queues' \in [Priorities -> SUBSET Requested]
        /\ \A p \in Priorities : \A r, q \in work_queues'[p] : r.n = q.n => r = q
    BY <1>1
  <2> QED BY <1>1, <1>2, <2>1 DEF HpTypeOK
<1> QED BY <1>1, <1>3, <1>4, PendingSame

LEMMA PoolStep == PoolInv /\ [HpNext]_hpVars => PoolInv'
<1> SUFFICES ASSUME PoolInv, [HpNext]_hpVars PROVE PoolInv'
  OBVIOUS
<1>1. CASE UNCHANGED hpVars
  BY <1>1 DEF hpVars, PoolInv, HpTypeOK, PlaceOf, PendingExact, Queues, Working, Streaming, Answers, Unanswered
<1>2. CASE HpNext
  <2>1. ASSUME NEW p \in Priorities, drop_below(p) PROVE PoolInv'
    BY <2>1, DropKeeps
  <2>2. ASSUME NEW p \in Priorities, NEW s \in BOOLEAN, PoolGet(p, s) PROVE PoolInv'
    BY <2>2, GetKeeps
  <2>3. CASE PoolPoll
    BY <2>3, PollKeeps
  <2>4. CASE PoolStop
    BY <2>4, StopKeeps
  <2>5. ASSUME NEW w \in Fetchers, pop_highest(w) \/ Choose(w) \/ H2Connect(w) \/ SubmitAsync(w) \/ H1Done(w) PROVE PoolInv'
    BY <2>5, PopKeeps, ChooseKeeps, PoolConnectKeeps, SubmitKeeps, H1DoneKeeps
  <2>6. ASSUME NEW c \in DOMAIN h2, GoAway(c) \/ IoExit(c) PROVE PoolInv'
    BY <2>6, GoAwayKeeps, IoExitKeeps
  <2>7. ASSUME NEW c \in DOMAIN h2, NEW n \in 1..fetches, StreamClose(c, n) PROVE PoolInv'
    BY <2>7, StreamCloseKeeps
  <2> QED BY <1>2, <2>1, <2>2, <2>3, <2>4, <2>5, <2>6, <2>7 DEF HpNext
<1> QED BY <1>1, <1>2

\* HttpPool, the inductive invariant: every request is in one place at most, answered once at most, in none before it
\* is made and in one until stop(); a worker about to submit holds a connection that exists; pending_ is exact.
THEOREM PoolInvariant == HpSpec => []PoolInv
<1>1. HpInit => PoolInv
  BY PoolInit
<1>2. PoolInv /\ [HpNext]_hpVars => PoolInv'
  BY PoolStep
<1> QED BY <1>1, <1>2, PTL DEF HpSpec

\* The same in numbers: one place for every request, and pending() the requests without an answer.
LEMMA PoolInvMeans == PoolInv => FetchesAccounted
<1> SUFFICES ASSUME PoolInv PROVE FetchesAccounted
  OBVIOUS
<1>1. ASSUME ~pool_stopped, NEW n \in 1..fetches
      PROVE  Cardinality(Queues(n)) + Cardinality(Working(n)) + Cardinality(Streaming(n)) + Answers(n) = 1
  <2>1. n \in Numbers /\ n <= fetches
    BY HpAssumption DEF PoolInv, HpTypeOK, Numbers
  <2>2. /\ One(Queues(n), Working(n), Streaming(n), Answers(n))
        /\ Somewhere(Queues(n), Working(n), Streaming(n), Answers(n))
    BY <1>1, <2>1 DEF PoolInv, PlaceOf
  <2>3. ASSUME NEW S, \A x, y \in S : x = y PROVE Cardinality(S) = IF S = {} THEN 0 ELSE 1
    <3>1. CASE S = {}
      BY <3>1, FS_EmptySet
    <3>2. CASE S # {}
      <4>1. PICK x \in S : TRUE
        BY <3>2
      <4>2. S = {x}
        BY <2>3, <4>1
      <4> QED BY <3>2, <4>2, FS_Singleton
    <3> QED BY <3>1, <3>2
  <2>4. /\ Cardinality(Queues(n)) = IF Queues(n) = {} THEN 0 ELSE 1
        /\ Cardinality(Working(n)) = IF Working(n) = {} THEN 0 ELSE 1
        /\ Cardinality(Streaming(n)) = IF Streaming(n) = {} THEN 0 ELSE 1
    BY <2>2, <2>3 DEF One
  <2> QED BY <2>2, <2>4 DEF One, Somewhere
<1> QED BY <1>1 DEF PoolInv, FetchesAccounted, FetchInOnePlace

\* HttpPool: no request is lost or answered twice, whichever way its connection ends, and pending() is exact.
THEOREM FetchesAlwaysAccounted == HpSpec => []FetchesAccounted
BY PoolInvariant, PoolInvMeans, PTL
=============================================================================
