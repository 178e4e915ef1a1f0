------------------------------ MODULE WsProofs ------------------------------
(***************************************************************************)
(* The transport keeps its contract, for any number of clients, slots and  *)
(* messages.  The inductive invariant has one part per piece of state the  *)
(* threads hand to each other: the poll thread's lists, the connections    *)
(* and their sessions, the messages on their way to a worker, the answers  *)
(* on their way to a client.                                               *)
(* Then what travels on a connection: the AO2 packets, split and put       *)
(* together again one token at a time, and the clients that read them.     *)
(***************************************************************************)
EXTENDS WsTransport, AoWire, DataLemmas

Open == {c \in Clients : conn[c] = "open"}

\* handshaked_count_ is the number of open connections.
CountInv == handshaked = Cardinality(Open)

\* Outside the steps that use them the poll thread's lists are empty.
ListInv ==
    /\ pc # "connected" => connecting = <<>>
    /\ pc \notin {"connected", "disconnected", "closed", "send", "dead"} => leaving = <<>>
    /\ pc \notin {"connected", "disconnected", "enqueue"} => frames = <<>>

\* The backend has not heard of the client.
Unknown(c) == c \notin session /\ disconnects[c] = 0 /\ handled[c] = 0

\* A client is unknown until its connection is announced; one that is announced as left is gone.
ConnOf(c) ==
    /\ conn[c] \in {"none", "accepted"} => Unknown(c)
    /\ c \in ToSet(connecting) => conn[c] = "open" /\ Unknown(c)
    /\ c \in ToSet(leaving) => conn[c] = "gone" \/ pc = "send"

ConnInv ==
    /\ \A c \in Clients : ConnOf(c)
    /\ \A i, j \in DOMAIN connecting : connecting[i] = connecting[j] => i = j

\* A frame that poll() returned is of a client that was announced before the frame is handed on.
FrameInv ==
    \A i \in DOMAIN frames :
        LET c == frames[i].client IN c \in session \/ disconnects[c] > 0 \/ c \in ToSet(connecting)

\* A message that is still to be handled: after the last one handled, among those read.
Due(m) == handled[m.client] < m.n /\ m.n <= read[m.client]
Before(m, k) == m.client = k.client => m.n < k.n

\* On its way through frames, queue and worker a client's messages stay in the one slot and in order.
FramesInOrder ==
    /\ \A i \in DOMAIN frames : Due(frames[i])
    /\ \A i, j \in DOMAIN frames : i < j => Before(frames[i], frames[j])

QueueInOrder(s) ==
    /\ \A i \in DOMAIN queue[s] : Due(queue[s][i]) /\ queue[s][i].client % NumSlots = s
    /\ \A i, j \in DOMAIN queue[s] : i < j => Before(queue[s][i], queue[s][j])
    /\ \A i \in DOMAIN queue[s], j \in DOMAIN frames : Before(queue[s][i], frames[j])

ItemInOrder(s) ==
    /\ wpc[s] # "wait" => item[s] \in Items
    /\ wpc[s] = "have" =>
        /\ Due(item[s]) /\ item[s].client % NumSlots = s
        /\ \A i \in DOMAIN queue[s] : Before(item[s], queue[s][i])
        /\ \A j \in DOMAIN frames : Before(item[s], frames[j])

OrderInv ==
    /\ \A c \in Clients : handled[c] <= read[c] /\ read[c] <= sent[c]
    /\ FramesInOrder
    /\ \A s \in Slots : QueueInOrder(s) /\ ItemInOrder(s)

\* The answers queued and swapped out: after the last one received, up to the last one handled, in order.
Between(m) == m.n # KK => received[m.client] <= m.n /\ m.n <= handled[m.client]
NotAfter(m, k) == m.client = k.client /\ m.n # KK /\ k.n # KK => m.n <= k.n

AnswerInv ==
    /\ \A c \in Clients : received[c] <= handled[c]
    /\ \A i \in DOMAIN to_send : Between(to_send[i])
    /\ \A i \in DOMAIN send_queue : Between(send_queue[i])
    /\ \A i, j \in DOMAIN to_send : i < j => NotAfter(to_send[i], to_send[j])
    /\ \A i, j \in DOMAIN send_queue : i < j => NotAfter(send_queue[i], send_queue[j])
    /\ \A i \in DOMAIN to_send, j \in DOMAIN send_queue : NotAfter(to_send[i], send_queue[j])

KickInv == \A s \in Slots : wpc[s] = "kicking" => target[s] \in Clients

TransportInv == TypeOK /\ CountInv /\ ListInv /\ ConnInv /\ FrameInv /\ TransportSound /\ OrderInv /\ AnswerInv /\ KickInv

-----------------------------------------------------------------------------
(* What poll() collects. *)

LEMMA ClientsFinite ==
    ASSUME NEW S, S \subseteq Clients
    PROVE  S \in SUBSET Int /\ IsFiniteSet(S) /\ Cardinality(S) \in 0..NumClients
<1>1. IsFiniteSet(Clients) /\ Cardinality(Clients) = NumClients
  BY FS_Interval, TransportAssumption DEF Clients
<1>2. IsFiniteSet(S) /\ Cardinality(S) <= NumClients
  BY <1>1, FS_Subset
<1>3. Cardinality(S) \in Nat
  BY <1>2, FS_CardinalityType
<1> QED BY <1>2, <1>3, TransportAssumption DEF Clients

\* The clients found in a round of poll(), each once.
LEMMA InIdOrderLists ==
    ASSUME NEW S, S \subseteq Clients
    PROVE  /\ InIdOrder(S) \in Seq(Clients)
           /\ ToSet(InIdOrder(S)) = S
           /\ \A i, j \in DOMAIN InIdOrder(S) : InIdOrder(S)[i] = InIdOrder(S)[j] => i = j
<1> DEFINE q == InIdOrder(S)
<1>1. IsFiniteSet(S) /\ S \subseteq Int
  BY ClientsFinite
<1>2. q \in SetToSeqs(S)
  BY <1>1, AscendingExists DEF InIdOrder
<1> HIDE DEF q
<1>3. q \in Seq(S) /\ ToSet(q) = S /\ \A i, j \in DOMAIN q : q[i] = q[j] => i = j
  BY <1>1, <1>2, EnumerationLists
<1>4. q \in Seq(Clients)
  BY <1>3
<1> QED BY <1>3, <1>4 DEF q

\* What has been read of the clients of S: each one's messages in its order, after those read before.
Collected(q, S, k) ==
    /\ q \in Seq(Items)
    /\ \A i \in DOMAIN q : /\ q[i].client \in S /\ q[i].client <= k
                           /\ read[q[i].client] < q[i].n /\ q[i].n <= sent[q[i].client]
    /\ \A i, j \in DOMAIN q : i < j => Before(q[i], q[j])

LEMMA ItemFields ==
    ASSUME NEW m \in Items
    PROVE  m.client \in Clients /\ m.client \in Int /\ m.n \in 1..MaxMsgs /\ m.n \in Int
BY TransportAssumption DEF Items, Clients

LEMMA CollectedConcat ==
    ASSUME NEW S, NEW k \in Nat, NEW l \in Nat, k <= l, S \subseteq Clients,
           NEW q, NEW r, Collected(q, S, k), Collected(r, S, l), \A i \in DOMAIN r : r[i].client > k
    PROVE  Collected(q \o r, S, l)
<1>1. q \in Seq(Items) /\ r \in Seq(Items)
  BY DEF Collected
<1>2. q \o r \in Seq(Items) /\ DOMAIN (q \o r) = 1..(Len(q) + Len(r)) /\ Len(q) \in Nat /\ Len(r) \in Nat
      /\ DOMAIN q = 1..Len(q) /\ DOMAIN r = 1..Len(r)
  BY <1>1
<1>3. \A i \in DOMAIN (q \o r) : (q \o r)[i] = IF i <= Len(q) THEN q[i] ELSE r[i - Len(q)]
  BY <1>1
<1> DEFINE t == q \o r
<1> HIDE DEF t
<1>4. \A i \in DOMAIN q : q[i] \in Items /\ q[i].client \in Int /\ q[i].n \in Int
  BY <1>1, SeqIsFunction, ItemFields
<1>5. \A i \in DOMAIN r : r[i] \in Items /\ r[i].client \in Int /\ r[i].n \in Int
  BY <1>1, SeqIsFunction, ItemFields
<1>6. ASSUME NEW i \in DOMAIN t
      PROVE  /\ t[i].client \in S /\ t[i].client <= l
             /\ read[t[i].client] < t[i].n /\ t[i].n <= sent[t[i].client]
  <2>1. CASE i <= Len(q)
    <3>1. t[i] = q[i] /\ i \in DOMAIN q
      BY <1>2, <1>3, <2>1 DEF t
    <3> QED BY <3>1, <1>4 DEF Collected
  <2>2. CASE i > Len(q)
    <3>1. t[i] = r[i - Len(q)] /\ i - Len(q) \in DOMAIN r
      BY <1>2, <1>3, <2>2 DEF t
    <3> QED BY <3>1 DEF Collected
  <2> QED BY <1>2, <2>1, <2>2 DEF t
<1>7. ASSUME NEW i \in DOMAIN t, NEW j \in DOMAIN t, i < j
      PROVE  Before(t[i], t[j])
  <2>1. CASE j <= Len(q)
    <3>1. t[i] = q[i] /\ i \in DOMAIN q /\ t[j] = q[j] /\ j \in DOMAIN q
      BY <1>2, <1>3, <1>7, <2>1 DEF t
    <3> QED BY <3>1, <1>7 DEF Collected
  <2>2. CASE i > Len(q)
    <3>1. t[i] = r[i - Len(q)] /\ i - Len(q) \in DOMAIN r /\ t[j] = r[j - Len(q)] /\ j - Len(q) \in DOMAIN r
          /\ i - Len(q) < j - Len(q)
      BY <1>2, <1>3, <1>7, <2>2 DEF t
    <3> QED BY <3>1 DEF Collected
  <2>3. CASE i <= Len(q) /\ j > Len(q)
    <3>1. t[i] = q[i] /\ i \in DOMAIN q /\ t[j] = r[j - Len(q)] /\ j - Len(q) \in DOMAIN r
      BY <1>2, <1>3, <2>3 DEF t
    <3>2. t[i].client <= k /\ t[j].client > k /\ t[i].client \in Int /\ t[j].client \in Int
      BY <3>1, <1>4, <1>5 DEF Collected
    <3> QED BY <3>2 DEF Before
  <2> QED BY <1>2, <2>1, <2>2, <2>3 DEF t
<1> QED BY <1>2, <1>6, <1>7 DEF Collected, t

LEMMA UnreadCollected ==
    ASSUME TypeOK, \A c \in Clients : read[c] <= sent[c], NEW S, S \subseteq Clients
    PROVE  Collected(Unread(S), S, NumClients)
<1> DEFINE of(c) == [i \in 1 .. (IF c \in S THEN sent[c] - read[c] ELSE 0) |-> [client |-> c, n |-> read[c] + i]]
           seqs == [c \in Clients |-> of(c)]
<1>1. NumClients \in Nat /\ Len(seqs) = NumClients /\ Unread(S) = FlattenSeq(seqs)
  BY TransportAssumption DEF Clients, Unread
<1>2. ASSUME NEW c \in Clients
      PROVE  Collected(of(c), S, c) /\ \A i \in DOMAIN of(c) : of(c)[i].client = c
  <2>1. read[c] \in 0..MaxMsgs /\ sent[c] \in 0..MaxMsgs /\ read[c] <= sent[c] /\ MaxMsgs \in Nat
    BY TransportAssumption DEF TypeOK
  <2>2. c \in S => \A i \in 1..(sent[c] - read[c]) : [client |-> c, n |-> read[c] + i] \in Items
    BY <2>1 DEF Items
  <2>3. of(c) \in Seq(Items)
    BY <2>1, <2>2
  <2>4. \A i \in DOMAIN of(c) : of(c)[i].client = c /\ of(c)[i].n = read[c] + i /\ c \in S /\ i <= sent[c] - read[c] /\ i >= 1
    BY <2>1
  <2> HIDE DEF of
  <2>5. DOMAIN of(c) \subseteq Int
    BY <2>3
  <2>6. c \in Int
    BY DEF Clients
  <2>7. \A i \in DOMAIN of(c) : /\ of(c)[i].client \in S /\ of(c)[i].client <= c
                                /\ read[of(c)[i].client] < of(c)[i].n /\ of(c)[i].n <= sent[of(c)[i].client]
    BY <2>1, <2>4, <2>5, <2>6
  <2>8. \A i, j \in DOMAIN of(c) : i < j => Before(of(c)[i], of(c)[j])
    BY <2>1, <2>4, <2>5 DEF Before
  <2> QED BY <2>3, <2>4, <2>7, <2>8 DEF Collected
<1> HIDE DEF of
<1>3. CASE NumClients = 0
  <2>1. Unread(S) = <<>>
    BY <1>1, <1>3 DEF FlattenSeq, Clients
  <2> QED BY <2>1 DEF Collected
<1>4. CASE NumClients # 0
  <2>1. PICK f : Flattens(f, seqs, NumClients) /\ Unread(S) = f[NumClients]
    BY <1>1, <1>4, FlattenSeqUnfolds
  <2> DEFINE G == {k \in Nat : k \in 1..NumClients => Collected(f[k], S, k)}
  <2>2. 0 \in G
    OBVIOUS
  <2>3. ASSUME NEW k \in Nat, k \in G, k + 1 \in 1..NumClients PROVE Collected(f[k + 1], S, k + 1)
    <3>1. k + 1 \in Clients /\ seqs[k + 1] = of(k + 1)
      BY <2>3 DEF Clients
    <3>2. CASE k = 0
      <4>1. f[1] = seqs[1] /\ k + 1 = 1
        <5>1. 1 \in 1..NumClients /\ k + 1 = 1
          BY <1>1, <1>4, <3>2
        <5>2. f[1] = IF 1 = 1 THEN seqs[1] ELSE f[1 - 1] \o seqs[1]
          BY <2>1, <5>1, Zenon DEF Flattens
        <5> QED BY <5>1, <5>2, Zenon
      <4> QED BY <3>1, <4>1, <1>2
    <3>3. CASE k # 0
      <4>1. k + 1 # 1 /\ k \in 1..NumClients /\ (k + 1) - 1 = k
        BY <1>1, <2>3, <3>3
      <4>2. f[k + 1] = f[k] \o seqs[k + 1]
        BY <2>1, <2>3, <4>1 DEF Flattens
      <4>3. Collected(f[k], S, k)
        BY <2>3, <4>1
      <4>4. Collected(of(k + 1), S, k + 1) /\ \A i \in DOMAIN of(k + 1) : of(k + 1)[i].client > k
        BY <1>2, <3>1
      <4> HIDE DEF G
      <4> QED BY <3>1, <4>2, <4>3, <4>4, CollectedConcat
    <3> QED BY <3>2, <3>3
  <2>4. \A k \in Nat : k \in G => k + 1 \in G
    BY <2>3
  <2> HIDE DEF G
  <2>5. \A k \in Nat : k \in G
    BY <2>2, <2>4, InductionBySet
  <2> QED BY <1>1, <1>4, <2>1, <2>5 DEF G
<1> QED BY <1>3, <1>4

-----------------------------------------------------------------------------
(* handshaked_count_. *)

LEMMA RemoveCounts ==
    ASSUME TypeOK, CountInv, NEW S, S \subseteq Clients, remove_client(S)
    PROVE  CountInv'
<1>1. Open' = Open \ S
  BY DEF remove_client, Open
<1>2. {c \in S : conn[c] = "open"} = Open \cap S
  BY DEF Open
<1>3. IsFiniteSet(Open)
  BY ClientsFinite DEF Open
<1>4. Cardinality(Open \ S) = Cardinality(Open) - Cardinality(Open \cap S)
  BY <1>3, FS_Difference
<1> QED BY <1>1, <1>2, <1>4 DEF CountInv, remove_client

LEMMA PollCounts ==
    ASSUME TypeOK, CountInv, NEW D \in SUBSET Clients, NEW H \in SUBSET Clients, Poll(D, H)
    PROVE  CountInv'
<1>1. H \cap Open = {} /\ H \cap D = {}
  BY DEF Poll, Open
<1>2. Open' = (Open \ D) \cup H
  BY DEF Poll, Open
<1>3. {c \in D : conn[c] = "open"} = Open \cap D
  BY DEF Open
<1>4. IsFiniteSet(Open) /\ IsFiniteSet(H) /\ IsFiniteSet(Open \cap D) /\ IsFiniteSet(Open \ D)
      /\ Cardinality(Open) \in Int /\ Cardinality(H) \in Int /\ Cardinality(Open \cap D) \in Int
  BY ClientsFinite DEF Open
<1>5. Cardinality(Open \ D) = Cardinality(Open) - Cardinality(Open \cap D)
  BY <1>4, FS_Difference
<1>6. (Open \ D) \cap H = {}
  BY <1>1
<1>7. Cardinality(Open') = Cardinality(Open \ D) + Cardinality(H)
  <2>1. Cardinality((Open \ D) \cap H) = 0
    BY <1>6, FS_EmptySet
  <2>2. Cardinality((Open \ D) \cup H) = Cardinality(Open \ D) + Cardinality(H) - Cardinality((Open \ D) \cap H)
    BY <1>4, FS_Union
  <2> QED BY <1>2, <1>4, <1>5, <2>1, <2>2
<1>8. handshaked' = handshaked + Cardinality(H) - Cardinality(Open \cap D)
  BY <1>3 DEF Poll
<1>9. handshaked = Cardinality(Open)
  BY DEF CountInv
<1>10. handshaked' = Cardinality(Open')
  BY <1>4, <1>5, <1>7, <1>8, <1>9
<1> QED BY <1>10 DEF CountInv

LEMMA CountStep ==
    ASSUME TransportInv, Next
    PROVE  CountInv' /\ handshaked' \in 0..NumClients
<1> SUFFICES CountInv'
  BY ClientsFinite DEF CountInv, Open
<1>0. TypeOK /\ CountInv
  BY DEF TransportInv
<1>1. ASSUME UNCHANGED <<conn, handshaked>> PROVE CountInv'
  BY <1>0, <1>1 DEF CountInv, Open
<1>2. ASSUME NEW c \in Clients, accept_new_clients(c) PROVE CountInv'
  <2>1. Open' = Open /\ handshaked' = handshaked
    BY <1>0, <1>2 DEF accept_new_clients, Open, TypeOK
  <2> QED BY <1>0, <2>1 DEF CountInv
<1>3. ASSUME NEW D \in SUBSET Clients, NEW H \in SUBSET Clients, Poll(D, H) PROVE CountInv'
  BY <1>0, <1>3, PollCounts
<1>4. ASSUME CloseClient PROVE CountInv'
  <2>1. Head(to_close) \in Clients
    BY <1>0, <1>4 DEF CloseClient, TypeOK
  <2> QED BY <1>0, <1>1, <1>4, <2>1, RemoveCounts DEF CloseClient
<1>5. ASSUME AllSent PROVE CountInv'
  <2>1. Range(leaving) \subseteq Clients
    BY <1>0 DEF TypeOK, Range
  <2> QED BY <1>0, <1>5, <2>1, RemoveCounts DEF AllSent
<1>6. ASSUME NEW s \in Slots, BanReject(s) PROVE CountInv'
  <2>1. {item[s].client} \subseteq Clients
    <3>1. item[s].client \in session
      BY <1>6 DEF BanReject, Dispatch
    <3> QED BY <1>0, <3>1 DEF TypeOK
  <2> QED BY <1>0, <1>1, <1>6, <2>1, RemoveCounts DEF BanReject
<1>7. ASSUME NEW s \in Slots,
             Take(s) \/ RateLimited(s) \/ MessageIgnored(s) \/ MessageAnswered(s)
             \/ (\E d \in Clients : KickNotify(s, d)) \/ KickClose(s)
      PROVE  UNCHANGED <<conn, handshaked>>
  BY <1>7 DEF Take, RateLimited, MessageIgnored, MessageAnswered, KickNotify, KickClose, wsVars
<1>8. ASSUME NEW c \in Clients, ClientSend(c) \/ ClientHangs(c)
      PROVE  UNCHANGED <<conn, handshaked>>
  BY <1>8 DEF ClientSend, ClientHangs, wsVars
<1>9. ASSUME FireConnected \/ AllConnected \/ FireDisconnected \/ AllDisconnected \/ Enqueue
             \/ DropFrame \/ AllEnqueued \/ SwapQueues \/ AllClosed \/ SendOne
      PROVE  UNCHANGED <<conn, handshaked>>
  BY <1>9 DEF FireConnected, AllConnected, FireDisconnected, AllDisconnected, Enqueue, DropFrame,
              AllEnqueued, SwapQueues, AllClosed, SendOne, wsVars
<1> QED BY <1>1, <1>2, <1>3, <1>4, <1>5, <1>6, <1>7, <1>8, <1>9
        DEF Next, ClientStep, PollStep, WorkerStep

-----------------------------------------------------------------------------
(* Types. *)

LEMMA SendsHas ==
    ASSUME NEW c \in Clients, NEW n \in -1..MaxMsgs
    PROVE  [client |-> c, n |-> n] \in Sends
BY DEF Sends

LEMMA TypeStep ==
    ASSUME TransportInv, Next
    PROVE  TypeOK'
<1> USE DEF netVars, wsVars, queueVars, pollVars, workVars, aoVars
<1>0. TypeOK /\ OrderInv /\ KickInv /\ handshaked' \in 0..NumClients
  BY CountStep DEF TransportInv
<1>h. handled \in [Clients -> 0..MaxMsgs] /\ disconnects \in [Clients -> Nat] /\ session \subseteq Clients
  BY <1>0 DEF TypeOK
<1>q. send_queue \in Seq(Sends) /\ leaving \in Seq(Clients) /\ queue \in [Slots -> Seq(Items)]
  BY <1>0 DEF TypeOK
<1>c. conn \in [Clients -> {"none", "accepted", "open", "gone"}] /\ dispatch \in Slots \cup {NoSlot}
  BY <1>0 DEF TypeOK
<1>n. sent \in [Clients -> 0..MaxMsgs] /\ read \in [Clients -> 0..MaxMsgs] /\ received \in [Clients -> -1..MaxMsgs]
      /\ notified \subseteq Clients /\ kicks \in 0..MaxKicks
  BY <1>0 DEF TypeOK
<1>w. item \in [Slots -> Items \cup {None}] /\ wpc \in [Slots -> {"wait", "have", "kicking", "closing"}]
      /\ target \in [Slots -> Clients \cup {0}]
  BY <1>0 DEF TypeOK
<1>f. frames \in Seq(Items) /\ connecting \in Seq(Clients) /\ to_send \in Seq(Sends) /\ to_close \in Seq(Clients)
      /\ close_queue \in Seq(Clients)
  BY <1>0 DEF TypeOK
<1>1. ASSUME NEW c \in Clients, ClientSend(c) PROVE TypeOK'
  <2>1. sent' \in [Clients -> 0..MaxMsgs]
    BY <1>n, <1>1, TransportAssumption DEF ClientSend
  <2> QED BY <1>0, <1>1, <2>1 DEF TypeOK, ClientSend
<1>2. ASSUME NEW c \in Clients, ClientHangs(c) PROVE TypeOK'
  BY <1>2, <1>0 DEF TypeOK, ClientHangs
<1>3. ASSUME NEW c \in Clients, accept_new_clients(c) PROVE TypeOK'
  BY <1>3, <1>0 DEF TypeOK, accept_new_clients
<1>4. ASSUME NEW D \in SUBSET Clients, NEW H \in SUBSET Clients, Poll(D, H) PROVE TypeOK'
  <2> DEFINE live == {c \in Clients \ D : conn[c] = "open"} \cup H
  <2>1. connecting' \in Seq(Clients) /\ leaving' \in Seq(Clients)
    BY <1>4, InIdOrderLists DEF Poll
  <2>2. live \subseteq Clients /\ frames' = Unread(live) /\ \A c \in Clients : read[c] <= sent[c]
    BY <1>0, <1>4 DEF Poll, OrderInv
  <2>3. frames' \in Seq(Items)
    BY <1>0, <2>2, UnreadCollected DEF Collected
  <2>4. conn' \in [Clients -> {"none", "accepted", "open", "gone"}] /\ read' \in [Clients -> 0..MaxMsgs]
    BY <1>c, <1>n, <1>4 DEF Poll
  <2>5. /\ pc' = "connected"
        /\ UNCHANGED <<to_send, to_close, netVars, queueVars, workVars, aoVars>>
    BY <1>4 DEF Poll
  <2> QED BY <1>0, <2>1, <2>3, <2>4, <2>5 DEF TypeOK
<1>5. ASSUME FireConnected PROVE TypeOK'
  <2>1. Head(connecting) \in Clients /\ connecting' \in Seq(Clients)
    BY <1>f, <1>5 DEF FireConnected
  <2>2. send_queue' \in Seq(Sends)
    BY <1>q, <1>5, <2>1, SendsHas, TransportAssumption DEF FireConnected, queue_send
  <2> QED BY <1>0, <1>5, <2>1, <2>2 DEF TypeOK, FireConnected
<1>6. ASSUME AllConnected PROVE TypeOK'
  BY <1>6, <1>0 DEF TypeOK, AllConnected
<1>7. ASSUME FireDisconnected PROVE TypeOK'
  <2>1. Head(leaving) \in Clients /\ leaving' \in Seq(Clients)
    BY <1>q, <1>7 DEF FireDisconnected
  <2>2. disconnects' \in [Clients -> Nat] /\ session' \subseteq Clients /\ UNCHANGED <<handled, kicks>>
    BY <1>h, <1>7, <2>1 DEF FireDisconnected, Disconnect
  <2> QED BY <1>0, <1>7, <2>1, <2>2 DEF TypeOK, FireDisconnected
<1>8. ASSUME AllDisconnected PROVE TypeOK'
  BY <1>8, <1>0 DEF TypeOK, AllDisconnected
<1>9. ASSUME Enqueue PROVE TypeOK'
  <2>1. Head(frames) \in Items /\ frames' \in Seq(Items)
    BY <1>f, <1>9 DEF Enqueue
  <2>2. PICK s : queue' = [queue EXCEPT ![s] = Append(queue[s], Head(frames))]
    BY <1>9 DEF Enqueue
  <2>3. \A x \in Slots : Append(queue[x], Head(frames)) \in Seq(Items)
    BY <1>q, <2>1
  <2>4. queue' \in [Slots -> Seq(Items)]
    BY <1>q, <2>2, <2>3
  <2> QED BY <1>0, <1>9, <2>1, <2>2, <2>3, <2>4 DEF TypeOK, Enqueue
<1>10. ASSUME DropFrame PROVE TypeOK'
  <2>1. frames' \in Seq(Items)
    BY <1>f, <1>10 DEF DropFrame
  <2> QED BY <1>0, <1>10, <2>1 DEF TypeOK, DropFrame
<1>11. ASSUME AllEnqueued PROVE TypeOK'
  BY <1>11, <1>0 DEF TypeOK, AllEnqueued
<1>12. ASSUME SwapQueues PROVE TypeOK'
  <2>1. to_send' \in Seq(Sends) /\ to_close' \in Seq(Clients) /\ send_queue' \in Seq(Sends) /\ close_queue' \in Seq(Clients)
    BY <1>f, <1>q, <1>12 DEF SwapQueues
  <2> QED BY <1>0, <1>12, <2>1 DEF TypeOK, SwapQueues
<1>13. ASSUME CloseClient PROVE TypeOK'
  <2>1. Head(to_close) \in Clients /\ to_close' \in Seq(Clients)
    BY <1>f, <1>13 DEF CloseClient
  <2>2. conn' \in [Clients -> {"none", "accepted", "open", "gone"}] /\ leaving' \in Seq(Clients)
    <3>1. leaving' = leaving \/ leaving' = <<Head(to_close)>>
      BY <1>13 DEF CloseClient
    <3>2. conn' = conn \/ conn' = [c \in Clients |-> IF c \in {Head(to_close)} THEN "gone" ELSE conn[c]]
      BY <1>13 DEF CloseClient, remove_client
    <3>3. leaving' \in Seq(Clients)
      <4>1. <<Head(to_close)>> \in Seq(Clients)
        BY <2>1, SingletonSeq, Zenon
      <4> QED BY <1>q, <3>1, <4>1, Zenon
    <3>4. conn' \in [Clients -> {"none", "accepted", "open", "gone"}]
      BY <1>c, <3>2
    <3> QED BY <3>3, <3>4
  <2>3. pc' \in {pc, "closed"}
    BY <1>13 DEF CloseClient
  <2> QED BY <1>0, <1>13, <2>1, <2>2, <2>3 DEF TypeOK, CloseClient
<1>14. ASSUME AllClosed PROVE TypeOK'
  BY <1>14, <1>0 DEF TypeOK, AllClosed
<1>15. ASSUME SendOne PROVE TypeOK'
  <2>1. Head(to_send) \in Sends /\ to_send' \in Seq(Sends)
    BY <1>f, <1>15 DEF SendOne
  <2>2. Head(to_send).client \in Clients /\ Head(to_send).n \in -1..MaxMsgs
    BY <2>1 DEF Sends
  <2>3. leaving' \in Seq(Clients)
    <3>1. leaving' = leaving \/ leaving' = Append(leaving, Head(to_send).client)
      BY <1>15 DEF SendOne
    <3>2. Append(leaving, Head(to_send).client) \in Seq(Clients)
      BY <1>q, <2>2, ToSetAppend, Zenon
    <3> QED BY <1>q, <3>1, <3>2, Zenon
  <2>4. received' \in [Clients -> -1..MaxMsgs] /\ notified' \subseteq Clients
    BY <1>n, <1>15, <2>2 DEF SendOne
  <2> QED BY <1>0, <1>15, <2>1, <2>2, <2>3, <2>4 DEF TypeOK, SendOne
<1>16. ASSUME AllSent PROVE TypeOK'
  <2>1. conn' \in [Clients -> {"none", "accepted", "open", "gone"}]
    BY <1>c, <1>16 DEF AllSent, remove_client
  <2> QED BY <1>0, <1>16, <2>1 DEF TypeOK, AllSent
<1>17. ASSUME NEW s \in Slots, Take(s) PROVE TypeOK'
  <2>1. Head(queue[s]) \in Items /\ Tail(queue[s]) \in Seq(Items)
    BY <1>q, <1>17 DEF Take
  <2>2. queue' \in [Slots -> Seq(Items)]
    BY <1>q, <1>17, <2>1 DEF Take
  <2>3. item' \in [Slots -> Items \cup {None}] /\ wpc' \in [Slots -> {"wait", "have", "kicking", "closing"}]
    BY <1>w, <1>17, <2>1 DEF Take
  <2> QED BY <1>0, <1>17, <2>1, <2>2, <2>3 DEF TypeOK, Take
<1>18. ASSUME NEW s \in Slots, RateLimited(s) PROVE TypeOK'
  BY <1>18, <1>0 DEF TypeOK, RateLimited, Done
<1>19. ASSUME NEW s \in Slots, MessageIgnored(s) PROVE TypeOK'
  BY <1>19, <1>0 DEF TypeOK, MessageIgnored, Done
<1>20. ASSUME NEW s \in Slots, MessageAnswered(s) PROVE TypeOK'
  <2>1. item[s] \in Items /\ item[s].client \in Clients /\ item[s].n \in 1..MaxMsgs
    BY <1>0, <1>20, ItemFields DEF MessageAnswered, Dispatch, OrderInv, ItemInOrder
  <2>2. send_queue' \in Seq(Sends)
    BY <1>q, <1>20, <2>1, SendsHas, TransportAssumption DEF MessageAnswered, queue_send
  <2>3. handled' \in [Clients -> 0..MaxMsgs]
    BY <1>h, <1>20, <2>1 DEF MessageAnswered, Dispatch
  <2>4. item' \in [Slots -> Items \cup {None}] /\ wpc' \in [Slots -> {"wait", "have", "kicking", "closing"}]
    BY <1>w, <1>20 DEF MessageAnswered, Done
  <2> QED BY <1>0, <1>20, <2>1, <2>2, <2>3, <2>4 DEF TypeOK, MessageAnswered
<1>21. ASSUME NEW s \in Slots, NEW d \in Clients, KickNotify(s, d) PROVE TypeOK'
  <2>1. item[s] \in Items /\ item[s].client \in Clients /\ item[s].n \in 1..MaxMsgs
    BY <1>0, <1>21, ItemFields DEF KickNotify, Dispatch, OrderInv, ItemInOrder
  <2>2. send_queue' \in Seq(Sends)
    BY <1>q, <1>21, SendsHas, TransportAssumption DEF KickNotify, queue_send, KK
  <2>3. handled' \in [Clients -> 0..MaxMsgs]
    BY <1>h, <1>21, <2>1 DEF KickNotify, Dispatch
  <2>4. target' \in [Slots -> Clients \cup {0}] /\ wpc' \in [Slots -> {"wait", "have", "kicking", "closing"}]
    BY <1>w, <1>21 DEF KickNotify
  <2>5. kicks' \in 0..MaxKicks
    BY <1>n, <1>21, TransportAssumption DEF KickNotify
  <2> QED BY <1>0, <1>21, <2>1, <2>2, <2>3, <2>4, <2>5 DEF TypeOK, KickNotify
<1>22. ASSUME NEW s \in Slots, KickClose(s) PROVE TypeOK'
  <2>1. close_queue' \in Seq(Clients)
    BY <1>f, <1>q, <1>0, <1>22 DEF KickClose, KickInv
  <2>2. target' \in [Slots -> Clients \cup {0}]
    BY <1>w, <1>22 DEF KickClose
  <2>3. item' \in [Slots -> Items \cup {None}] /\ wpc' \in [Slots -> {"wait", "have", "kicking", "closing"}]
    BY <1>w, <1>22 DEF KickClose, Done
  <2> QED BY <1>0, <1>22, <2>1, <2>2, <2>3 DEF TypeOK, KickClose
<1>23. ASSUME NEW s \in Slots, BanReject(s) PROVE TypeOK'
  <2>1. item[s] \in Items /\ item[s].client \in Clients /\ item[s].n \in 1..MaxMsgs
    BY <1>0, <1>23, ItemFields DEF BanReject, Dispatch, OrderInv, ItemInOrder
  <2>2. send_queue' \in Seq(Sends)
    <3>1. send_queue' = Append(send_queue, [client |-> item[s].client, n |-> -1])
      BY <1>23 DEF BanReject, queue_send, KK
    <3>2. [client |-> item[s].client, n |-> -1] \in Sends
      BY <2>1, SendsHas, TransportAssumption
    <3> QED BY <1>q, <3>1, <3>2
  <2>3. handled' \in [Clients -> 0..MaxMsgs]
    BY <1>h, <1>23, <2>1 DEF BanReject, Dispatch
  <2>4. conn' \in [Clients -> {"none", "accepted", "open", "gone"}] /\ dispatch' \in Slots \cup {NoSlot}
    BY <1>c, <1>23, <2>1 DEF BanReject, remove_client
  <2>5. item' \in [Slots -> Items \cup {None}] /\ wpc' \in [Slots -> {"wait", "have", "kicking", "closing"}]
    BY <1>w, <1>23 DEF BanReject, Done
  <2> QED BY <1>0, <1>23, <2>1, <2>2, <2>3, <2>4, <2>5 DEF TypeOK, BanReject
<1> QED BY <1>1, <1>2, <1>3, <1>4, <1>5, <1>6, <1>7, <1>8, <1>9, <1>10, <1>11, <1>12, <1>13, <1>14, <1>15, <1>16, <1>17, <1>18, <1>19, <1>20, <1>21, <1>22, <1>23
        DEF Next, ClientStep, PollStep, WorkerStep

-----------------------------------------------------------------------------
(* The poll thread's lists and the kicks. *)

LEMMA ListStep ==
    ASSUME TransportInv, Next
    PROVE  ListInv'
<1> USE DEF netVars, wsVars, queueVars, pollVars, workVars, aoVars
<1>0. ListInv
  BY DEF TransportInv
<1>1. ASSUME NEW D \in SUBSET Clients, NEW H \in SUBSET Clients, Poll(D, H) PROVE ListInv'
  BY <1>1, <1>0 DEF ListInv, Poll
<1>2. ASSUME FireConnected PROVE ListInv'
  BY <1>2, <1>0 DEF ListInv, FireConnected, queue_send
<1>3. ASSUME AllConnected PROVE ListInv'
  BY <1>3, <1>0 DEF ListInv, AllConnected
<1>4. ASSUME FireDisconnected PROVE ListInv'
  BY <1>4, <1>0 DEF ListInv, FireDisconnected, Disconnect
<1>5. ASSUME AllDisconnected PROVE ListInv'
  BY <1>5, <1>0 DEF ListInv, AllDisconnected
<1>6. ASSUME Enqueue PROVE ListInv'
  BY <1>6, <1>0 DEF ListInv, Enqueue, SlotOf
<1>7. ASSUME DropFrame PROVE ListInv'
  BY <1>7, <1>0 DEF ListInv, DropFrame
<1>8. ASSUME AllEnqueued PROVE ListInv'
  BY <1>8, <1>0 DEF ListInv, AllEnqueued
<1>9. ASSUME SwapQueues PROVE ListInv'
  BY <1>9, <1>0 DEF ListInv, SwapQueues
<1>10. ASSUME CloseClient PROVE ListInv'
  BY <1>10, <1>0 DEF ListInv, CloseClient, remove_client
<1>11. ASSUME AllClosed PROVE ListInv'
  BY <1>11, <1>0 DEF ListInv, AllClosed
<1>12. ASSUME SendOne PROVE ListInv'
  BY <1>12, <1>0 DEF ListInv, SendOne
<1>13. ASSUME AllSent PROVE ListInv'
  BY <1>13, <1>0 DEF ListInv, AllSent, remove_client
<1>14. ASSUME UNCHANGED <<pc, connecting, leaving, frames>> PROVE ListInv'
  BY <1>14, <1>0 DEF ListInv
<1>15. ASSUME NEW c \in Clients, ClientSend(c) \/ ClientHangs(c) \/ accept_new_clients(c)
      PROVE  UNCHANGED <<pc, connecting, leaving, frames>>
  BY <1>15 DEF ClientSend, ClientHangs, accept_new_clients
<1>16. ASSUME NEW s \in Slots, Take(s) \/ RateLimited(s) \/ MessageIgnored(s) \/ MessageAnswered(s) \/ (\E d \in
             Clients : KickNotify(s, d)) \/ KickClose(s) \/ BanReject(s)
      PROVE  UNCHANGED <<pc, connecting, leaving, frames>>
  BY <1>16 DEF Take, RateLimited, MessageIgnored, MessageAnswered, KickNotify, KickClose, BanReject, Done,
         Dispatch, queue_send, remove_client
<1> QED BY <1>1, <1>2, <1>3, <1>4, <1>5, <1>6, <1>7, <1>8, <1>9, <1>10, <1>11, <1>12, <1>13, <1>14, <1>15, <1>16
        DEF Next, ClientStep, PollStep, WorkerStep

LEMMA KickStep ==
    ASSUME TransportInv, Next
    PROVE  KickInv'
<1> USE DEF netVars, wsVars, queueVars, pollVars, workVars, aoVars
<1>0. KickInv /\ target \in [Slots -> Clients \cup {0}] /\ wpc \in [Slots -> {"wait", "have", "kicking", "closing"}]
  BY DEF TransportInv, TypeOK
<1>1. ASSUME NEW D \in SUBSET Clients, NEW H \in SUBSET Clients, Poll(D, H) PROVE KickInv'
  BY <1>1, <1>0 DEF KickInv, Poll
<1>2. ASSUME NEW s \in Slots, Take(s) PROVE KickInv'
  BY <1>2, <1>0 DEF KickInv, Take
<1>3. ASSUME NEW s \in Slots, RateLimited(s) PROVE KickInv'
  BY <1>3, <1>0 DEF KickInv, RateLimited, Done
<1>4. ASSUME NEW s \in Slots, MessageIgnored(s) PROVE KickInv'
  BY <1>4, <1>0 DEF KickInv, MessageIgnored, Done
<1>5. ASSUME NEW s \in Slots, MessageAnswered(s) PROVE KickInv'
  BY <1>5, <1>0 DEF KickInv, MessageAnswered, Done, Dispatch, queue_send
<1>6. ASSUME NEW s \in Slots, NEW d \in Clients, KickNotify(s, d) PROVE KickInv'
  BY <1>6, <1>0 DEF KickInv, KickNotify, Dispatch, queue_send
<1>7. ASSUME NEW s \in Slots, KickClose(s) PROVE KickInv'
  BY <1>7, <1>0 DEF KickInv, KickClose, Done
<1>8. ASSUME NEW s \in Slots, BanReject(s) PROVE KickInv'
  BY <1>8, <1>0 DEF KickInv, BanReject, Dispatch, queue_send, remove_client, Done
<1>9. ASSUME UNCHANGED <<wpc, target>> PROVE KickInv'
  BY <1>9, <1>0 DEF KickInv
<1>10. ASSUME NEW c \in Clients, ClientSend(c) \/ ClientHangs(c) \/ accept_new_clients(c)
      PROVE  UNCHANGED <<wpc, target>>
  BY <1>10 DEF ClientSend, ClientHangs, accept_new_clients
<1>11. ASSUME FireConnected \/ AllConnected \/ FireDisconnected \/ AllDisconnected \/ Enqueue \/
             DropFrame \/ AllEnqueued \/ SwapQueues \/ CloseClient \/ AllClosed \/ SendOne \/
             AllSent
      PROVE  UNCHANGED <<wpc, target>>
  BY <1>11 DEF FireConnected, AllConnected, FireDisconnected, AllDisconnected, Enqueue, DropFrame,
         AllEnqueued, SwapQueues, CloseClient, AllClosed, SendOne, AllSent, queue_send, Disconnect,
         SlotOf, remove_client
<1> QED BY <1>1, <1>2, <1>3, <1>4, <1>5, <1>6, <1>7, <1>8, <1>9, <1>10, <1>11
        DEF Next, ClientStep, PollStep, WorkerStep

-----------------------------------------------------------------------------
(* Connections. *)

LEMMA TailDistinct ==
    ASSUME NEW S, NEW s \in Seq(S), s # <<>>, \A i, j \in DOMAIN s : s[i] = s[j] => i = j
    PROVE  /\ Head(s) \in ToSet(s) /\ ToSet(Tail(s)) \subseteq ToSet(s) /\ Head(s) \notin ToSet(Tail(s))
           /\ \A i, j \in DOMAIN Tail(s) : Tail(s)[i] = Tail(s)[j] => i = j
<1>1. /\ Tail(s) \in Seq(S) /\ Head(s) = s[1] /\ 1 \in DOMAIN s
      /\ \A i \in DOMAIN Tail(s) : i \in Int /\ i + 1 \in DOMAIN s /\ i + 1 # 1 /\ Tail(s)[i] = s[i + 1]
      /\ ToSet(s) = {Head(s)} \cup ToSet(Tail(s))
  BY ToSetTail
<1>2. Head(s) \notin ToSet(Tail(s))
  BY <1>1 DEF ToSet
<1>3. ASSUME NEW i \in DOMAIN Tail(s), NEW j \in DOMAIN Tail(s), Tail(s)[i] = Tail(s)[j] PROVE i = j
  BY <1>1, <1>3
<1> QED BY <1>1, <1>2, <1>3

LEMMA ConnStep ==
    ASSUME TransportInv, Next
    PROVE  ConnInv'
<1> USE DEF netVars, wsVars, queueVars, pollVars, workVars, aoVars
<1>0. ConnInv /\ ListInv
  BY DEF TransportInv
<1>c. /\ conn \in [Clients -> {"none", "accepted", "open", "gone"}] /\ session \subseteq Clients
      /\ handled \in [Clients -> 0..MaxMsgs] /\ disconnects \in [Clients -> Nat]
  BY DEF TransportInv, TypeOK
<1>q. connecting \in Seq(Clients) /\ leaving \in Seq(Clients) /\ to_close \in Seq(Clients) /\ to_send \in Seq(Sends)
  BY DEF TransportInv, TypeOK
<1>1. ASSUME NEW c \in Clients, accept_new_clients(c) PROVE ConnInv'
  BY <1>1, <1>0, <1>c DEF ConnInv, ConnOf, Unknown, accept_new_clients
<1>2. ASSUME NEW D \in SUBSET Clients, NEW H \in SUBSET Clients, Poll(D, H) PROVE ConnInv'
  <2>1. ToSet(connecting') = H /\ ToSet(leaving') = D
        /\ \A i, j \in DOMAIN connecting' : connecting'[i] = connecting'[j] => i = j
    BY <1>2, InIdOrderLists DEF Poll
  <2>2. ASSUME NEW c \in Clients PROVE ConnOf(c)'
    BY <1>0, <1>c, <1>2, <2>1 DEF ConnInv, ConnOf, Unknown, Poll
  <2> QED BY <2>1, <2>2 DEF ConnInv
<1>3. ASSUME FireConnected PROVE ConnInv'
  <2>1. /\ Head(connecting) \in ToSet(connecting) /\ ToSet(connecting') \subseteq ToSet(connecting)
        /\ Head(connecting) \notin ToSet(connecting')
        /\ \A i, j \in DOMAIN connecting' : connecting'[i] = connecting'[j] => i = j
    BY <1>0, <1>q, <1>3, TailDistinct DEF FireConnected, ConnInv
  <2>2. ASSUME NEW c \in Clients PROVE ConnOf(c)'
    BY <1>0, <1>c, <1>3, <2>1 DEF ConnInv, ConnOf, Unknown, FireConnected
  <2> QED BY <2>1, <2>2 DEF ConnInv
<1>4. ASSUME AllConnected PROVE ConnInv'
  BY <1>4, <1>0, <1>c DEF ConnInv, ConnOf, Unknown, AllConnected
<1>5. ASSUME FireDisconnected PROVE ConnInv'
  <2>1. Head(leaving) \in ToSet(leaving) /\ ToSet(leaving') \subseteq ToSet(leaving) /\ Head(leaving) \in Clients
    BY <1>q, <1>5, ToSetTail DEF FireDisconnected
  <2>2. connecting = <<>> /\ connecting' = <<>> /\ ToSet(connecting) = {}
    BY <1>0, <1>5, ToSetEmpty DEF FireDisconnected, ListInv
  <2>3. conn[Head(leaving)] = "gone"
    BY <1>0, <1>5, <2>1 DEF FireDisconnected, ConnInv, ConnOf
  <2>4. ASSUME NEW c \in Clients PROVE ConnOf(c)'
    BY <1>0, <1>c, <1>5, <2>1, <2>2, <2>3 DEF ConnInv, ConnOf, Unknown, FireDisconnected, Disconnect
  <2> QED BY <1>0, <2>2, <2>4 DEF ConnInv
<1>6. ASSUME AllDisconnected PROVE ConnInv'
  <2>1. UNCHANGED <<conn, connecting, leaving, session, disconnects, handled>> /\ pc # "send" 
    BY <1>6 DEF AllDisconnected
  <2>2. ASSUME NEW c \in Clients PROVE ConnOf(c)'
    BY <1>0, <2>1 DEF ConnInv, ConnOf, Unknown
  <2> QED BY <1>0, <2>1, <2>2 DEF ConnInv
<1>7. ASSUME AllEnqueued PROVE ConnInv'
  BY <1>7, <1>0, <1>c DEF ConnInv, ConnOf, Unknown, AllEnqueued
<1>8. ASSUME SwapQueues PROVE ConnInv'
  BY <1>8, <1>0, <1>c DEF ConnInv, ConnOf, Unknown, SwapQueues
<1>9. ASSUME CloseClient PROVE ConnInv'
  <2>1. Head(to_close) \in Clients
    BY <1>q, <1>9, ToSetTail DEF CloseClient
  <2>2. connecting' = connecting /\ ToSet(connecting) = {}
    BY <1>0, <1>9, ToSetEmpty DEF CloseClient, ListInv
  <2>3. \/ leaving' = leaving /\ conn' = conn
        \/ ToSet(leaving') = {Head(to_close)}
           /\ conn' = [c \in Clients |-> IF c = Head(to_close) THEN "gone" ELSE conn[c]]
    BY <1>9, <2>1, SingletonSeq DEF CloseClient, remove_client
  <2>4. pc # "send" /\ UNCHANGED <<session, disconnects, handled>>
    BY <1>9 DEF CloseClient
  <2>5. ASSUME NEW c \in Clients PROVE ConnOf(c)'
    BY <1>0, <1>c, <2>1, <2>2, <2>3, <2>4 DEF ConnInv, ConnOf, Unknown
  <2> QED BY <1>0, <2>2, <2>5 DEF ConnInv
<1>10. ASSUME AllClosed PROVE ConnInv'
  BY <1>10, <1>0, <1>c DEF ConnInv, ConnOf, Unknown, AllClosed
<1>11. ASSUME SendOne PROVE ConnInv'
  <2>1. pc' = "send" /\ UNCHANGED <<conn, connecting, session, disconnects, handled>>
    BY <1>11 DEF SendOne
  <2>2. ASSUME NEW c \in Clients PROVE ConnOf(c)'
    BY <1>0, <2>1 DEF ConnInv, ConnOf, Unknown
  <2> QED BY <1>0, <2>1, <2>2 DEF ConnInv
<1>12. ASSUME AllSent PROVE ConnInv'
  <2>1. conn' = [c \in Clients |-> IF c \in ToSet(leaving) THEN "gone" ELSE conn[c]]
    BY <1>12 DEF AllSent, remove_client, Range, ToSet
  <2>2. UNCHANGED <<connecting, leaving, session, disconnects, handled>> /\ ToSet(connecting) = {}
    BY <1>0, <1>12, ToSetEmpty DEF AllSent, ListInv
  <2>3. ASSUME NEW c \in Clients PROVE ConnOf(c)'
    BY <1>0, <1>c, <2>1, <2>2 DEF ConnInv, ConnOf, Unknown
  <2> QED BY <1>0, <2>2, <2>3 DEF ConnInv
<1>13. ASSUME NEW s \in Slots, MessageAnswered(s) PROVE ConnInv'
  <2>1. item[s].client \in session /\ handled' = [handled EXCEPT ![item[s].client] = item[s].n]
        /\ UNCHANGED <<conn, connecting, leaving, session, disconnects, pc>>
    BY <1>13 DEF MessageAnswered, Dispatch
  <2>2. ASSUME NEW c \in Clients PROVE ConnOf(c)'
    BY <1>0, <1>c, <2>1 DEF ConnInv, ConnOf, Unknown
  <2> QED BY <1>0, <2>1, <2>2 DEF ConnInv
<1>14. ASSUME NEW s \in Slots, NEW d \in Clients, KickNotify(s, d) PROVE ConnInv'
  <2>1. item[s].client \in session /\ handled' = [handled EXCEPT ![item[s].client] = item[s].n]
        /\ UNCHANGED <<conn, connecting, leaving, session, disconnects, pc>>
    BY <1>14 DEF KickNotify, Dispatch
  <2>2. ASSUME NEW c \in Clients PROVE ConnOf(c)'
    BY <1>0, <1>c, <2>1 DEF ConnInv, ConnOf, Unknown
  <2> QED BY <1>0, <2>1, <2>2 DEF ConnInv
<1>15. ASSUME NEW s \in Slots, BanReject(s) PROVE ConnInv'
  <2>1. item[s].client \in session /\ handled' = [handled EXCEPT ![item[s].client] = item[s].n]
        /\ UNCHANGED <<connecting, leaving, session, disconnects, pc>>
    BY <1>15 DEF BanReject, Dispatch
  <2>2. conn' = conn \/ conn' = [c \in Clients |-> IF c = item[s].client THEN "gone" ELSE conn[c]]
    BY <1>15 DEF BanReject, remove_client
  <2>3. ASSUME NEW c \in Clients PROVE ConnOf(c)'
    BY <1>0, <1>c, <2>1, <2>2 DEF ConnInv, ConnOf, Unknown
  <2> QED BY <1>0, <2>1, <2>3 DEF ConnInv
<1>16. ASSUME UNCHANGED <<conn, connecting, leaving, session, handled, disconnects, pc>> PROVE ConnInv'
  BY <1>16, <1>0, <1>c DEF ConnInv, ConnOf, Unknown
<1>17. ASSUME NEW c \in Clients, ClientSend(c) \/ ClientHangs(c)
      PROVE  UNCHANGED <<conn, connecting, leaving, session, handled, disconnects, pc>>
  BY <1>17 DEF ClientSend, ClientHangs
<1>18. ASSUME Enqueue \/ DropFrame
      PROVE  UNCHANGED <<conn, connecting, leaving, session, handled, disconnects, pc>>
  BY <1>18 DEF Enqueue, DropFrame, SlotOf
<1>19. ASSUME NEW s \in Slots, Take(s) \/ RateLimited(s) \/ MessageIgnored(s) \/ KickClose(s)
      PROVE  UNCHANGED <<conn, connecting, leaving, session, handled, disconnects, pc>>
  BY <1>19 DEF Take, RateLimited, MessageIgnored, KickClose, Done
<1> QED BY <1>1, <1>2, <1>3, <1>4, <1>5, <1>6, <1>7, <1>8, <1>9, <1>10, <1>11, <1>12, <1>13, <1>14, <1>15, <1>16, <1>17, <1>18, <1>19
        DEF Next, ClientStep, PollStep, WorkerStep

-----------------------------------------------------------------------------
(* Sessions and messages. *)

Known(c) == c \in session \/ disconnects[c] > 0

\* Once the backend has heard of a client it has heard of it for good.
LEMMA KnownStays ==
    ASSUME TransportInv, Next
    PROVE  \A x \in Clients : Known(x) => Known(x)'
<1> USE DEF netVars, wsVars, queueVars, pollVars, workVars, aoVars
<1>c. session \subseteq Clients /\ disconnects \in [Clients -> Nat]
  BY DEF TransportInv, TypeOK
<1>q. leaving \in Seq(Clients)
  BY DEF TransportInv, TypeOK
<1>1. ASSUME NEW D \in SUBSET Clients, NEW H \in SUBSET Clients, Poll(D, H) PROVE \A x \in Clients : Known(x) => Known(x)'
  BY <1>1 DEF Known, Poll
<1>2. ASSUME FireConnected PROVE \A x \in Clients : Known(x) => Known(x)'
  BY <1>2 DEF Known, FireConnected, queue_send
<1>3. ASSUME FireDisconnected PROVE \A x \in Clients : Known(x) => Known(x)'
  <2>1. Head(leaving) \in Clients
    BY <1>q, <1>3, ToSetTail DEF FireDisconnected
  <2> QED BY <1>c, <1>3, <2>1 DEF FireDisconnected, Disconnect, Known
<1>4. ASSUME NEW s \in Slots, NEW d \in Clients, KickNotify(s, d) PROVE \A x \in Clients : Known(x) => Known(x)'
  BY <1>4 DEF Known, KickNotify, Dispatch, queue_send
<1>5. ASSUME UNCHANGED <<session, disconnects>> PROVE \A x \in Clients : Known(x) => Known(x)'
  BY <1>5 DEF Known
<1>6. ASSUME NEW c \in Clients, ClientSend(c) \/ ClientHangs(c) \/ accept_new_clients(c)
      PROVE  UNCHANGED <<session, disconnects>>
  BY <1>6 DEF ClientSend, ClientHangs, accept_new_clients
<1>7. ASSUME AllConnected \/ AllDisconnected \/ Enqueue \/ DropFrame \/ AllEnqueued \/ SwapQueues \/
             CloseClient \/ AllClosed \/ SendOne \/ AllSent
      PROVE  UNCHANGED <<session, disconnects>>
  BY <1>7 DEF AllConnected, AllDisconnected, Enqueue, DropFrame, AllEnqueued, SwapQueues, CloseClient,
         AllClosed, SendOne, AllSent, SlotOf, remove_client
<1>8. ASSUME NEW s \in Slots, Take(s) \/ RateLimited(s) \/ MessageIgnored(s) \/ MessageAnswered(s) \/ KickClose(s) \/
             BanReject(s)
      PROVE  UNCHANGED <<session, disconnects>>
  BY <1>8 DEF Take, RateLimited, MessageIgnored, MessageAnswered, KickClose, BanReject, Done, Dispatch,
         queue_send, remove_client
<1> QED BY <1>1, <1>2, <1>3, <1>4, <1>5, <1>6, <1>7, <1>8
        DEF Next, ClientStep, PollStep, WorkerStep

LEMMA FrameStep ==
    ASSUME TransportInv, Next
    PROVE  FrameInv'
<1> USE DEF netVars, wsVars, queueVars, pollVars, workVars, aoVars
<1>0. /\ FrameInv /\ ListInv /\ \A x \in Clients : Known(x) => Known(x)'
      /\ \A x \in Clients : conn[x] = "open" => Known(x) \/ x \in ToSet(connecting)
  BY KnownStays DEF TransportInv, TransportSound, SessionsMatch, Known
<1>q. frames \in Seq(Items) /\ connecting \in Seq(Clients)
  BY DEF TransportInv, TypeOK
<1>f. \A i \in DOMAIN frames : frames[i].client \in Clients
  BY <1>q, SeqIsFunction, ItemFields
<1>1. ASSUME NEW D \in SUBSET Clients, NEW H \in SUBSET Clients, Poll(D, H) PROVE FrameInv'
  <2> DEFINE live == {c \in Clients \ D : conn[c] = "open"} \cup H
  <2>1. ToSet(connecting') = H
    BY <1>1, InIdOrderLists DEF Poll
  <2>2. live \subseteq Clients /\ frames' = Unread(live) /\ TypeOK /\ \A c \in Clients : read[c] <= sent[c]
    BY <1>1 DEF Poll, TransportInv, OrderInv
  <2>3. \A i \in DOMAIN frames' : frames'[i].client \in live
    BY <2>2, UnreadCollected DEF Collected
  <2>4. ToSet(connecting) = {}
    BY <1>0, <1>1, ToSetEmpty DEF Poll, ListInv
  <2>5. \A x \in live : x \in H \/ Known(x)'
    BY <1>0, <2>4
  <2> QED BY <2>1, <2>3, <2>5 DEF FrameInv, Known
<1>2. ASSUME FireConnected PROVE FrameInv'
  <2>1. frames' = frames /\ session' = session \cup {Head(connecting)} /\ connecting' = Tail(connecting) /\ connecting # <<>>
    BY <1>2 DEF FireConnected
  <2>2. ToSet(connecting) = {Head(connecting)} \cup ToSet(connecting')
    BY <1>q, <2>1, ToSetTail
  <2> QED BY <1>0, <1>f, <2>1, <2>2 DEF FrameInv, Known
<1>3. ASSUME FireDisconnected PROVE FrameInv'
  <2>1. UNCHANGED <<frames, connecting>>
    BY <1>3 DEF FireDisconnected
  <2> QED BY <1>0, <1>f, <2>1 DEF FrameInv, Known
<1>4. ASSUME Enqueue PROVE FrameInv'
  <2>1. connecting' = connecting /\ frames' = Tail(frames) /\ frames # <<>> /\ UNCHANGED <<session, disconnects>>
    BY <1>4 DEF Enqueue
  <2>2. \A i \in DOMAIN frames' : i + 1 \in DOMAIN frames /\ frames'[i] = frames[i + 1]
    BY <1>q, <2>1, ToSetTail
  <2> QED BY <1>0, <2>1, <2>2 DEF FrameInv
<1>5. ASSUME DropFrame PROVE FrameInv'
  <2>1. connecting' = connecting /\ frames' = Tail(frames) /\ frames # <<>> /\ UNCHANGED <<session, disconnects>>
    BY <1>5 DEF DropFrame
  <2>2. \A i \in DOMAIN frames' : i + 1 \in DOMAIN frames /\ frames'[i] = frames[i + 1]
    BY <1>q, <2>1, ToSetTail
  <2> QED BY <1>0, <2>1, <2>2 DEF FrameInv
<1>6. ASSUME NEW s \in Slots, NEW d \in Clients, KickNotify(s, d) PROVE FrameInv'
  BY <1>6, <1>0 DEF FrameInv, KickNotify, Dispatch, queue_send
<1>7. ASSUME UNCHANGED <<frames, connecting, session, disconnects>> PROVE FrameInv'
  BY <1>7, <1>0 DEF FrameInv
<1>8. ASSUME NEW c \in Clients, ClientSend(c) \/ ClientHangs(c) \/ accept_new_clients(c)
      PROVE  UNCHANGED <<frames, connecting, session, disconnects>>
  BY <1>8 DEF ClientSend, ClientHangs, accept_new_clients
<1>9. ASSUME AllConnected \/ AllDisconnected \/ AllEnqueued \/ SwapQueues \/ CloseClient \/
             AllClosed \/ SendOne \/ AllSent
      PROVE  UNCHANGED <<frames, connecting, session, disconnects>>
  BY <1>9 DEF AllConnected, AllDisconnected, AllEnqueued, SwapQueues, CloseClient, AllClosed, SendOne,
         AllSent, remove_client
<1>10. ASSUME NEW s \in Slots, Take(s) \/ RateLimited(s) \/ MessageIgnored(s) \/ MessageAnswered(s) \/ KickClose(s) \/
             BanReject(s)
      PROVE  UNCHANGED <<frames, connecting, session, disconnects>>
  BY <1>10 DEF Take, RateLimited, MessageIgnored, MessageAnswered, KickClose, BanReject, Done, Dispatch,
         queue_send, remove_client
<1> QED BY <1>1, <1>2, <1>3, <1>4, <1>5, <1>6, <1>7, <1>8, <1>9, <1>10
        DEF Next, ClientStep, PollStep, WorkerStep

LEMMA EarlyStep ==
    ASSUME TransportInv, Next
    PROVE  NoEarlyMessage'
<1> USE DEF netVars, wsVars, queueVars, pollVars, workVars, aoVars
<1>0. NoEarlyMessage /\ FrameInv /\ ListInv /\ \A x \in Clients : Known(x) => Known(x)'
  BY KnownStays DEF TransportInv, TransportSound
<1>q. frames \in Seq(Items) /\ queue \in [Slots -> Seq(Items)] /\ wpc \in [Slots -> {"wait", "have", "kicking", "closing"}]
      /\ item \in [Slots -> Items \cup {None}]
  BY DEF TransportInv, TypeOK
<1>m. ASSUME NEW x \in Slots, NEW m \in Pending(x) PROVE m.client \in Clients /\ Known(m.client)
  <2>1. ToSet(queue[x]) \subseteq Items
    BY <1>q, ToSetType
  <2>2. wpc[x] # "wait" => item[x] \in Items
    BY DEF TransportInv, OrderInv, ItemInOrder
  <2>3. m \in Items
    BY <1>m, <2>1, <2>2 DEF Pending
  <2> QED BY <1>0, <2>3, ItemFields DEF NoEarlyMessage, Known
<1>p. ASSUME \A x \in Slots : \A m \in Pending(x)' : m \in Pending(x) \/ (m.client \in Clients /\ Known(m.client)) PROVE NoEarlyMessage'
  BY <1>0, <1>m, <1>p DEF NoEarlyMessage, Known
<1>1. ASSUME NEW D \in SUBSET Clients, NEW H \in SUBSET Clients, Poll(D, H) PROVE NoEarlyMessage'
  BY <1>1, <1>p DEF Pending, Poll
<1>2. ASSUME Enqueue PROVE NoEarlyMessage'
  <2>1. Head(frames) \in Items /\ Head(frames).client \in Clients /\ Head(frames) = frames[1] /\ 1 \in DOMAIN frames
    BY <1>q, <1>2, ToSetTail, ItemFields DEF Enqueue
  <2>2. Known(Head(frames).client)
    <3>1. ToSet(connecting) = {}
      BY <1>0, <1>2, ToSetEmpty DEF Enqueue, ListInv
    <3> QED BY <1>0, <2>1, <3>1 DEF FrameInv, Known
  <2>3. PICK y : queue' = [queue EXCEPT ![y] = Append(queue[y], Head(frames))]
    BY <1>2 DEF Enqueue
  <2>4. UNCHANGED <<item, wpc>>
    BY <1>2 DEF Enqueue
  <2>5. ASSUME NEW x \in Slots PROVE ToSet(queue'[x]) \subseteq ToSet(queue[x]) \cup {Head(frames)}
    <3>1. queue'[x] = queue[x] \/ queue'[x] = Append(queue[x], Head(frames))
      BY <1>q, <2>3
    <3>2. ToSet(Append(queue[x], Head(frames))) = ToSet(queue[x]) \cup {Head(frames)}
      BY <1>q, <2>1, ToSetAppend
    <3> QED BY <3>1, <3>2
  <2> QED BY <1>p, <2>1, <2>2, <2>4, <2>5 DEF Pending
<1>3. ASSUME NEW s \in Slots, Take(s) PROVE NoEarlyMessage'
  <2>1. queue[s] \in Seq(Items) /\ queue[s] # <<>>
    BY <1>q, <1>3 DEF Take
  <2>2. ToSet(queue[s]) = {Head(queue[s])} \cup ToSet(Tail(queue[s]))
    BY <2>1, ToSetTail
  <2>3. item' = [item EXCEPT ![s] = Head(queue[s])] /\ queue' = [queue EXCEPT ![s] = Tail(queue[s])]
        /\ wpc' = [wpc EXCEPT ![s] = "have"]
    BY <1>3 DEF Take
  <2>4. ASSUME NEW x \in Slots PROVE Pending(x)' \subseteq Pending(x)
    <3>1. CASE x = s
      BY <1>q, <2>2, <2>3, <3>1 DEF Pending
    <3>2. CASE x # s
      BY <1>q, <2>3, <3>2 DEF Pending
    <3> QED BY <3>1, <3>2
  <2> QED BY <1>p, <2>4
<1>4. ASSUME NEW s \in Slots, RateLimited(s) PROVE NoEarlyMessage'
  <2>1. queue' = queue /\ item' = [item EXCEPT ![s] = None] /\ wpc' = [wpc EXCEPT ![s] = "wait"]
    BY <1>4 DEF RateLimited, Done
  <2>2. \A x \in Slots : Pending(x)' \subseteq Pending(x)
    BY <1>q, <2>1 DEF Pending
  <2> QED BY <1>p, <2>2
<1>5. ASSUME NEW s \in Slots, MessageIgnored(s) PROVE NoEarlyMessage'
  <2>1. queue' = queue /\ item' = [item EXCEPT ![s] = None] /\ wpc' = [wpc EXCEPT ![s] = "wait"]
    BY <1>5 DEF MessageIgnored, Done
  <2>2. \A x \in Slots : Pending(x)' \subseteq Pending(x)
    BY <1>q, <2>1 DEF Pending
  <2> QED BY <1>p, <2>2
<1>6. ASSUME NEW s \in Slots, MessageAnswered(s) PROVE NoEarlyMessage'
  <2>1. queue' = queue /\ item' = [item EXCEPT ![s] = None] /\ wpc' = [wpc EXCEPT ![s] = "wait"]
    BY <1>6 DEF MessageAnswered, Done
  <2>2. \A x \in Slots : Pending(x)' \subseteq Pending(x)
    BY <1>q, <2>1 DEF Pending
  <2> QED BY <1>p, <2>2
<1>7. ASSUME NEW s \in Slots, NEW d \in Clients, KickNotify(s, d) PROVE NoEarlyMessage'
  <2>1. UNCHANGED <<queue, item>> /\ wpc' = [wpc EXCEPT ![s] = "kicking"] /\ wpc[s] = "have"
    BY <1>7 DEF KickNotify, Dispatch
  <2>2. \A x \in Slots : Pending(x)' \subseteq Pending(x)
    BY <1>q, <2>1 DEF Pending
  <2> QED BY <1>p, <2>2
<1>8. ASSUME NEW s \in Slots, KickClose(s) PROVE NoEarlyMessage'
  <2>1. queue' = queue /\ item' = [item EXCEPT ![s] = None] /\ wpc' = [wpc EXCEPT ![s] = "wait"]
    BY <1>8 DEF KickClose, Done
  <2>2. \A x \in Slots : Pending(x)' \subseteq Pending(x)
    BY <1>q, <2>1 DEF Pending
  <2> QED BY <1>p, <2>2
<1>9. ASSUME NEW s \in Slots, BanReject(s) PROVE NoEarlyMessage'
  <2>1. queue' = queue /\ wpc[s] = "have"
        /\ \/ item' = [item EXCEPT ![s] = None] /\ wpc' = [wpc EXCEPT ![s] = "wait"]
           \/ item' = item /\ wpc' = [wpc EXCEPT ![s] = "closing"]
    BY <1>9 DEF BanReject, Dispatch, Done
  <2>2. \A x \in Slots : Pending(x)' \subseteq Pending(x)
    BY <1>q, <2>1 DEF Pending
  <2> QED BY <1>p, <2>2
<1>10. ASSUME UNCHANGED <<queue, item, wpc>> PROVE NoEarlyMessage'
  BY <1>10, <1>p DEF Pending
<1>11. ASSUME NEW c \in Clients, ClientSend(c) \/ ClientHangs(c) \/ accept_new_clients(c)
      PROVE  UNCHANGED <<queue, item, wpc>>
  BY <1>11 DEF ClientSend, ClientHangs, accept_new_clients
<1>12. ASSUME FireConnected \/ AllConnected \/ FireDisconnected \/ AllDisconnected \/ DropFrame \/
             AllEnqueued \/ SwapQueues \/ CloseClient \/ AllClosed \/ SendOne \/ AllSent
      PROVE  UNCHANGED <<queue, item, wpc>>
  BY <1>12 DEF FireConnected, AllConnected, FireDisconnected, AllDisconnected, DropFrame, AllEnqueued,
         SwapQueues, CloseClient, AllClosed, SendOne, AllSent, queue_send, Disconnect, remove_client
<1> QED BY <1>1, <1>2, <1>3, <1>4, <1>5, <1>6, <1>7, <1>8, <1>9, <1>10, <1>11, <1>12
        DEF Next, ClientStep, PollStep, WorkerStep

\* A worker that has called close_client for the client stays in that call.
Closing(c) == \E x \in Slots : wpc[x] = "closing" /\ item[x].client = c

LEMMA ClosingStays ==
    ASSUME TransportInv, Next
    PROVE  \A c \in Clients : Closing(c) => Closing(c)'
<1> USE DEF netVars, wsVars, queueVars, pollVars, workVars, aoVars
<1>0. item \in [Slots -> Items \cup {None}] /\ wpc \in [Slots -> {"wait", "have", "kicking", "closing"}]
  BY DEF TransportInv, TypeOK
<1>1. ASSUME NEW D \in SUBSET Clients, NEW H \in SUBSET Clients, Poll(D, H) PROVE \A c \in Clients : Closing(c) => Closing(c)'
  BY <1>1, <1>0 DEF Closing, Poll
<1>2. ASSUME NEW s \in Slots, Take(s) PROVE \A c \in Clients : Closing(c) => Closing(c)'
  BY <1>2, <1>0 DEF Closing, Take
<1>3. ASSUME NEW s \in Slots, RateLimited(s) PROVE \A c \in Clients : Closing(c) => Closing(c)'
  BY <1>3, <1>0 DEF Closing, RateLimited, Done
<1>4. ASSUME NEW s \in Slots, MessageIgnored(s) PROVE \A c \in Clients : Closing(c) => Closing(c)'
  BY <1>4, <1>0 DEF Closing, MessageIgnored, Done
<1>5. ASSUME NEW s \in Slots, MessageAnswered(s) PROVE \A c \in Clients : Closing(c) => Closing(c)'
  BY <1>5, <1>0 DEF Closing, MessageAnswered, Done, Dispatch, queue_send
<1>6. ASSUME NEW s \in Slots, NEW d \in Clients, KickNotify(s, d) PROVE \A c \in Clients : Closing(c) => Closing(c)'
  BY <1>6, <1>0 DEF Closing, KickNotify, Dispatch, queue_send
<1>7. ASSUME NEW s \in Slots, KickClose(s) PROVE \A c \in Clients : Closing(c) => Closing(c)'
  BY <1>7, <1>0 DEF Closing, KickClose, Done
<1>8. ASSUME NEW s \in Slots, BanReject(s) PROVE \A c \in Clients : Closing(c) => Closing(c)'
  BY <1>8, <1>0 DEF Closing, BanReject, Dispatch, queue_send, remove_client, Done
<1>9. ASSUME UNCHANGED <<item, wpc>> PROVE \A c \in Clients : Closing(c) => Closing(c)'
  BY <1>9, <1>0 DEF Closing
<1>10. ASSUME NEW c \in Clients, ClientSend(c) \/ ClientHangs(c) \/ accept_new_clients(c)
      PROVE  UNCHANGED <<item, wpc>>
  BY <1>10 DEF ClientSend, ClientHangs, accept_new_clients
<1>11. ASSUME FireConnected \/ AllConnected \/ FireDisconnected \/ AllDisconnected \/ Enqueue \/
             DropFrame \/ AllEnqueued \/ SwapQueues \/ CloseClient \/ AllClosed \/ SendOne \/
             AllSent
      PROVE  UNCHANGED <<item, wpc>>
  BY <1>11 DEF FireConnected, AllConnected, FireDisconnected, AllDisconnected, Enqueue, DropFrame,
         AllEnqueued, SwapQueues, CloseClient, AllClosed, SendOne, AllSent, queue_send, Disconnect,
         SlotOf, remove_client
<1> QED BY <1>1, <1>2, <1>3, <1>4, <1>5, <1>6, <1>7, <1>8, <1>9, <1>10, <1>11
        DEF Next, ClientStep, PollStep, WorkerStep

LEMMA SendFields ==
    ASSUME NEW m \in Sends
    PROVE  m.client \in Clients /\ m.client \in Int /\ m.n \in -1..MaxMsgs /\ m.n \in Int
BY TransportAssumption DEF Sends, Clients

LEMMA SessionStep ==
    ASSUME TransportInv, Next
    PROVE  SessionsMatch'
<1> USE DEF netVars, wsVars, queueVars, pollVars, workVars, aoVars
<1>0. SessionsMatch /\ ConnInv /\ ListInv /\ \A c \in Clients : Closing(c) => Closing(c)'
  BY ClosingStays DEF TransportInv, TransportSound
<1>c. conn \in [Clients -> {"none", "accepted", "open", "gone"}] /\ session \subseteq Clients
  BY DEF TransportInv, TypeOK
<1>q. connecting \in Seq(Clients) /\ leaving \in Seq(Clients) /\ to_close \in Seq(Clients) /\ to_send \in Seq(Sends)
  BY DEF TransportInv, TypeOK
<1>m. ASSUME NEW c \in Clients
      PROVE  /\ c \in session => conn[c] = "open" \/ c \in ToSet(leaving) \/ Closing(c)'
             /\ conn[c] = "open" => c \in session \/ c \in ToSet(connecting)
  BY <1>0 DEF SessionsMatch, Closing
<1>g. ASSUME \A c \in Clients : /\ c \in session' => conn'[c] = "open" \/ c \in ToSet(leaving') \/ Closing(c)'
                                /\ conn'[c] = "open" => c \in session' \/ c \in ToSet(connecting')
      PROVE  SessionsMatch'
  BY <1>g DEF SessionsMatch, Closing
<1>1. ASSUME NEW c \in Clients, accept_new_clients(c) PROVE SessionsMatch'
  <2>1. c \notin session
    BY <1>0, <1>1 DEF ConnInv, ConnOf, Unknown, accept_new_clients
  <2> QED BY <1>m, <1>g, <1>c, <1>1, <2>1 DEF accept_new_clients
<1>2. ASSUME NEW D \in SUBSET Clients, NEW H \in SUBSET Clients, Poll(D, H) PROVE SessionsMatch'
  <2>1. ToSet(connecting') = H /\ ToSet(leaving') = D
    BY <1>2, InIdOrderLists DEF Poll
  <2>2. ToSet(connecting) = {} /\ ToSet(leaving) = {}
    BY <1>0, <1>2, ToSetEmpty DEF Poll, ListInv
  <2>3. session' = session /\ \A c \in Clients : conn'[c] = IF c \in D THEN "gone" ELSE IF c \in H THEN "open" ELSE conn[c]
    BY <1>2 DEF Poll
  <2> QED BY <1>m, <1>g, <2>1, <2>2, <2>3
<1>3. ASSUME FireConnected PROVE SessionsMatch'
  <2>1. session' = session \cup {Head(connecting)} /\ UNCHANGED <<conn, leaving>>
        /\ ToSet(connecting) = {Head(connecting)} \cup ToSet(connecting') /\ Head(connecting) \in Clients
    BY <1>q, <1>3, ToSetTail DEF FireConnected
  <2>2. conn[Head(connecting)] = "open"
    BY <1>0, <2>1 DEF ConnInv, ConnOf
  <2> QED BY <1>m, <1>g, <2>1, <2>2
<1>4. ASSUME FireDisconnected PROVE SessionsMatch'
  <2>1. session' = session \ {Head(leaving)} /\ UNCHANGED <<conn, connecting>>
        /\ ToSet(leaving) = {Head(leaving)} \cup ToSet(leaving') /\ Head(leaving) \in Clients
    BY <1>q, <1>4, ToSetTail DEF FireDisconnected, Disconnect
  <2>2. conn[Head(leaving)] = "gone"
    BY <1>0, <1>4, <2>1 DEF ConnInv, ConnOf, FireDisconnected
  <2> QED BY <1>m, <1>g, <2>1, <2>2
<1>5. ASSUME CloseClient PROVE SessionsMatch'
  <2>1. Head(to_close) \in Clients
    BY <1>q, <1>5, ToSetTail DEF CloseClient
  <2>2. UNCHANGED <<connecting, session>> /\ ToSet(leaving) = {}
    BY <1>0, <1>5, ToSetEmpty DEF CloseClient, ListInv
  <2>3. \/ leaving' = leaving /\ conn' = conn
        \/ ToSet(leaving') = {Head(to_close)}
           /\ conn' = [c \in Clients |-> IF c = Head(to_close) THEN "gone" ELSE conn[c]]
    BY <1>5, <2>1, SingletonSeq DEF CloseClient, remove_client
  <2> QED BY <1>m, <1>g, <2>2, <2>3
<1>6. ASSUME SendOne PROVE SessionsMatch'
  <2>1. UNCHANGED <<conn, connecting, session>> /\ (leaving' = leaving \/ leaving' = Append(leaving, Head(to_send).client))
        /\ Head(to_send) \in Sends
    BY <1>q, <1>6, ToSetTail DEF SendOne
  <2>2. ToSet(Append(leaving, Head(to_send).client)) = ToSet(leaving) \cup {Head(to_send).client}
    BY <1>q, <2>1, SendFields, ToSetAppend
  <2> QED BY <1>m, <1>g, <2>1, <2>2
<1>7. ASSUME AllSent PROVE SessionsMatch'
  <2>1. conn' = [c \in Clients |-> IF c \in ToSet(leaving) THEN "gone" ELSE conn[c]]
    BY <1>7 DEF AllSent, remove_client, Range, ToSet
  <2>2. UNCHANGED <<connecting, leaving, session>>
    BY <1>7 DEF AllSent
  <2> QED BY <1>m, <1>g, <2>1, <2>2
<1>8. ASSUME NEW s \in Slots, NEW d \in Clients, KickNotify(s, d) PROVE SessionsMatch'
  BY <1>8, <1>m, <1>g DEF SessionsMatch, KickNotify, Dispatch, queue_send
<1>9. ASSUME NEW s \in Slots, BanReject(s) PROVE SessionsMatch'
  <2>1. UNCHANGED <<connecting, leaving, session>>
    BY <1>9 DEF BanReject
  <2>2. \/ conn' = conn
        \/ /\ conn' = [c \in Clients |-> IF c = item[s].client THEN "gone" ELSE conn[c]]
           /\ \A c \in Clients : c = item[s].client => Closing(c)'
    <3>1. CASE conn[item[s].client] = "gone"
      BY <1>9, <3>1 DEF BanReject
    <3>2. CASE conn[item[s].client] # "gone"
      <4>1. wpc' = [wpc EXCEPT ![s] = "closing"] /\ item' = item /\ remove_client({item[s].client})
        BY <1>9, <3>2 DEF BanReject
      <4>2. wpc'[s] = "closing"
        BY <4>1 DEF TransportInv, TypeOK
      <4> QED BY <4>1, <4>2 DEF remove_client, Closing
    <3> QED BY <3>1, <3>2
  <2> QED BY <1>m, <1>g, <2>1, <2>2
<1>10. ASSUME UNCHANGED <<conn, connecting, leaving, session>> PROVE SessionsMatch'
  BY <1>10, <1>m, <1>g DEF SessionsMatch
<1>11. ASSUME NEW c \in Clients, ClientSend(c) \/ ClientHangs(c)
      PROVE  UNCHANGED <<conn, connecting, leaving, session>>
  BY <1>11 DEF ClientSend, ClientHangs
<1>12. ASSUME AllConnected \/ AllDisconnected \/ Enqueue \/ DropFrame \/ AllEnqueued \/ SwapQueues \/
             AllClosed
      PROVE  UNCHANGED <<conn, connecting, leaving, session>>
  BY <1>12 DEF AllConnected, AllDisconnected, Enqueue, DropFrame, AllEnqueued, SwapQueues, AllClosed,
         SlotOf
<1>13. ASSUME NEW s \in Slots, Take(s) \/ RateLimited(s) \/ MessageIgnored(s) \/ MessageAnswered(s) \/ KickClose(s)
      PROVE  UNCHANGED <<conn, connecting, leaving, session>>
  BY <1>13 DEF Take, RateLimited, MessageIgnored, MessageAnswered, KickClose, Done, Dispatch, queue_send
<1> QED BY <1>1, <1>2, <1>3, <1>4, <1>5, <1>6, <1>7, <1>8, <1>9, <1>10, <1>11, <1>12, <1>13
        DEF Next, ClientStep, PollStep, WorkerStep

-----------------------------------------------------------------------------
(* The order of the messages. *)

\* What is known of the messages on their way, as the arithmetic needs it.
LEMMA MessageTypes ==
    ASSUME TransportInv
    PROVE  /\ \A c \in Clients : handled[c] \in Int /\ read[c] \in Int /\ sent[c] \in Int
           /\ \A i \in DOMAIN frames : frames[i] \in Items
           /\ \A x \in Slots : queue[x] \in Seq(Items) /\ \A i \in DOMAIN queue[x] : queue[x][i] \in Items
           /\ frames \in Seq(Items)
           /\ DOMAIN frames \subseteq Int
<1>1. frames \in Seq(Items) /\ queue \in [Slots -> Seq(Items)]
  BY DEF TransportInv, TypeOK
<1>2. handled \in [Clients -> 0..MaxMsgs] /\ read \in [Clients -> 0..MaxMsgs] /\ sent \in [Clients -> 0..MaxMsgs]
  BY DEF TransportInv, TypeOK
<1>3. MaxMsgs \in Nat
  BY TransportAssumption
<1>4. \A x \in Slots : queue[x] \in Seq(Items)
  BY <1>1
<1> QED BY <1>1, <1>2, <1>3, <1>4, SeqIsFunction

\* A worker that hands over its message: the messages behind it are still to be handled.
LEMMA DispatchOrder ==
    ASSUME TransportInv, NEW s \in Slots, Dispatch(s), UNCHANGED <<sent, read, frames, queue>>,
           wpc'[s] # "have", wpc'[s] # "wait" => item'[s] = item[s],
           \A x \in Slots \ {s} : wpc'[x] = wpc[x] /\ item'[x] = item[x]
    PROVE  OrderInv'
<1> DEFINE m == item[s]
<1>0. OrderInv /\ handled \in [Clients -> 0..MaxMsgs]
  BY DEF TransportInv, TypeOK
<1>1. wpc[s] = "have" /\ m \in Items /\ m.client \in Clients /\ m.n \in Int
  BY <1>0, ItemFields DEF Dispatch, OrderInv, ItemInOrder
<1>2. /\ Due(m) /\ m.client % NumSlots = s
      /\ \A i \in DOMAIN queue[s] : Before(m, queue[s][i])
      /\ \A j \in DOMAIN frames : Before(m, frames[j])
  BY <1>0, <1>1 DEF OrderInv, ItemInOrder
<1>3. \A c \in Clients : handled'[c] = IF c = m.client THEN m.n ELSE handled[c]
  BY <1>0, <1>1 DEF Dispatch
<1>4. \A k \in Items : Due(k) /\ Before(m, k) => Due(k)'
  <2>1. ASSUME NEW k \in Items, Due(k), Before(m, k) PROVE Due(k)'
    <3>1. k.client \in Clients
      BY ItemFields
    <3> QED BY <1>3, <2>1, <3>1 DEF Due, Before
  <2> QED BY <2>1
<1>5. \A k \in Items : Due(k) /\ k.client # m.client => Due(k)'
  <2>1. ASSUME NEW k \in Items, Due(k), k.client # m.client PROVE Due(k)'
    BY <2>1, <1>4 DEF Before
  <2> QED BY <2>1
<1> HIDE DEF m
<1>6. FramesInOrder'
  <2>1. \A i \in DOMAIN frames : Due(frames[i])'
    BY <1>0, <1>2, <1>4, MessageTypes DEF OrderInv, FramesInOrder
  <2> QED BY <1>0, <2>1 DEF OrderInv, FramesInOrder, Due, Before
<1>7. ASSUME NEW x \in Slots PROVE QueueInOrder(x)'
  <2>1. QueueInOrder(x) /\ \A i \in DOMAIN queue[x] : queue[x][i] \in Items
    BY <1>0, MessageTypes DEF OrderInv
  <2>2. ASSUME NEW i \in DOMAIN queue[x] PROVE Due(queue[x][i])'
    <3>1. CASE x = s
      BY <2>1, <3>1, <1>2, <1>4 DEF QueueInOrder
    <3>2. CASE x # s
      BY <2>1, <3>2, <1>2, <1>5 DEF QueueInOrder
    <3> QED BY <3>1, <3>2
  <2> QED BY <2>1, <2>2 DEF QueueInOrder, Due, Before
<1>8. ASSUME NEW x \in Slots PROVE ItemInOrder(x)'
  <2>1. ItemInOrder(x) /\ ItemInOrder(s)
    BY <1>0 DEF OrderInv
  <2>2. CASE x = s
    BY <1>1, <2>1, <2>2 DEF ItemInOrder, m
  <2>3. CASE x # s
    <3>1. wpc'[x] = wpc[x] /\ item'[x] = item[x]
      BY <2>3
    <3>2. wpc[x] = "have" => item[x] \in Items /\ Due(item[x]) /\ item[x].client # m.client
      BY <2>1, <2>3, <1>2 DEF ItemInOrder
    <3>3. wpc[x] = "have" => handled'[item[x].client] = handled[item[x].client]
      BY <3>2, <1>3, ItemFields
    <3> QED BY <2>1, <3>1, <3>3 DEF ItemInOrder, Due, Before
  <2> QED BY <2>2, <2>3
<1>9. \A c \in Clients : handled'[c] <= read'[c] /\ read'[c] <= sent'[c]
  BY <1>0, <1>2, <1>3 DEF OrderInv, Due
<1> QED BY <1>6, <1>7, <1>8, <1>9 DEF OrderInv

LEMMA OrderStep ==
    ASSUME TransportInv, Next
    PROVE  OrderInv'
<1> USE DEF netVars, wsVars, queueVars, pollVars, workVars, aoVars
<1>0. OrderInv /\ ListInv /\ queue \in [Slots -> Seq(Items)] /\ NumSlots \in Nat \ {0}
  BY TransportAssumption DEF TransportInv, TypeOK
<1>w. item \in [Slots -> Items \cup {None}] /\ wpc \in [Slots -> {"wait", "have", "kicking", "closing"}]
  BY DEF TransportInv, TypeOK
<1>s. ASSUME NEW x \in Slots PROVE QueueInOrder(x) /\ ItemInOrder(x)
  BY <1>0 DEF OrderInv
<1>1. ASSUME NEW c \in Clients, ClientSend(c) PROVE OrderInv'
  <2>1. UNCHANGED <<handled, read, frames, queue, item, wpc>>
    BY <1>1 DEF ClientSend
  <2>2. \A x \in Clients : handled'[x] <= read'[x] /\ read'[x] <= sent'[x]
    <3>1. sent \in [Clients -> 0..MaxMsgs] /\ sent' = [sent EXCEPT ![c] = sent[c] + 1]
      BY <1>1 DEF TransportInv, TypeOK, ClientSend
    <3>2. \A x \in Clients : sent'[x] = sent[x] \/ sent'[x] = sent[x] + 1
      BY <3>1
    <3> QED BY <1>0, <2>1, <3>2, MessageTypes DEF OrderInv
  <2> QED BY <1>0, <2>1, <2>2 DEF OrderInv, FramesInOrder, QueueInOrder, ItemInOrder, Due, Before
<1>2. ASSUME NEW D \in SUBSET Clients, NEW H \in SUBSET Clients, Poll(D, H) PROVE OrderInv'
  <2> DEFINE live == {c \in Clients \ D : conn[c] = "open"} \cup H
  <2>1. live \subseteq Clients /\ frames' = Unread(live) /\ TypeOK /\ \A c \in Clients : read[c] <= sent[c]
    BY <1>0, <1>2 DEF Poll, TransportInv, OrderInv
  <2>2. UNCHANGED <<handled, sent, queue, item, wpc>>
    BY <1>2 DEF Poll
  <2>3. \A c \in Clients : read'[c] = IF c \in live THEN sent[c] ELSE read[c]
    BY <1>2 DEF Poll
  <2> HIDE DEF live
  <2>4. Collected(frames', live, NumClients)
    BY <2>1, UnreadCollected
  <2>5. \A i \in DOMAIN frames' : /\ frames'[i] \in Items /\ frames'[i].client \in live
                                  /\ read[frames'[i].client] < frames'[i].n
                                  /\ frames'[i].n <= sent[frames'[i].client]
    BY <2>4, SeqIsFunction DEF Collected
  <2>6. \A c \in Clients : handled[c] <= read[c] /\ read[c] <= read'[c] /\ read'[c] <= sent[c]
    BY <1>0, <2>3, MessageTypes DEF OrderInv
  <2>7. \A c \in Clients : read'[c] \in Int
    BY <2>3, MessageTypes
  <2>8. ASSUME NEW k \in Items, Due(k)
        PROVE  handled'[k.client] < k.n /\ k.n <= read'[k.client] /\ \A j \in DOMAIN frames' : Before(k, frames'[j])
    <3>1. k.client \in Clients /\ k.n \in Int
      BY ItemFields
    <3>2. handled'[k.client] < k.n /\ k.n <= read'[k.client]
      BY <2>2, <2>6, <2>7, <2>8, <3>1, MessageTypes DEF Due
    <3>3. ASSUME NEW j \in DOMAIN frames', k.client = frames'[j].client PROVE k.n < frames'[j].n
      <4>1. frames'[j].n \in Int /\ read[k.client] < frames'[j].n /\ k.n <= read[k.client]
        BY <2>5, <2>8, <3>3, ItemFields DEF Due
      <4> QED BY <3>1, <4>1, MessageTypes
    <3> QED BY <3>2, <3>3 DEF Before
  <2>9. FramesInOrder'
    <3>1. ASSUME NEW i \in DOMAIN frames' PROVE Due(frames[i])'
      <4>1. frames'[i].client \in Clients /\ frames'[i].n \in Int /\ frames'[i].client \in live
        BY <2>5, ItemFields
      <4>2. read'[frames'[i].client] = sent[frames'[i].client]
        BY <2>3, <4>1
      <4>3. handled[frames'[i].client] < frames'[i].n
        BY <2>5, <2>6, <4>1, MessageTypes
      <4> QED BY <2>2, <2>5, <4>2, <4>3 DEF Due
    <3> QED BY <2>4, <3>1 DEF FramesInOrder, Collected, Before
  <2>10. ASSUME NEW x \in Slots PROVE QueueInOrder(x)'
    <3>1. \A i \in DOMAIN queue[x] : queue[x][i] \in Items /\ Due(queue[x][i])
      BY <1>s, MessageTypes DEF QueueInOrder
    <3>2. \A i \in DOMAIN queue[x] : Due(queue[x][i])' /\ \A j \in DOMAIN frames' : Before(queue[x][i], frames'[j])
      BY <2>2, <2>8, <3>1 DEF Due
    <3> QED BY <1>s, <2>2, <3>2 DEF QueueInOrder, Before
  <2>11. ASSUME NEW x \in Slots PROVE ItemInOrder(x)'
    <3>1. wpc[x] = "have" => item[x] \in Items /\ Due(item[x])
      BY <1>s DEF ItemInOrder
    <3>2. wpc[x] = "have" => Due(item[x])' /\ \A j \in DOMAIN frames' : Before(item[x], frames'[j])
      BY <2>2, <2>8, <3>1 DEF Due
    <3> QED BY <1>s, <2>2, <3>2 DEF ItemInOrder, Before
  <2>12. \A c \in Clients : handled'[c] <= read'[c] /\ read'[c] <= sent'[c]
    BY <2>2, <2>6, <2>7, MessageTypes
  <2> QED BY <2>9, <2>10, <2>11, <2>12 DEF OrderInv
<1>3. ASSUME Enqueue PROVE OrderInv'
  <2>1. frames \in Seq(Items) /\ frames # <<>> /\ frames' = Tail(frames)
    BY <1>3, MessageTypes DEF Enqueue
  <2>2. PICK h \in Items : h = Head(frames) /\ h = frames[1]
    BY <2>1, ToSetTail
  <2>3. 1 \in DOMAIN frames
        /\ \A i \in DOMAIN frames' : i + 1 \in DOMAIN frames /\ frames'[i] = frames[i + 1] /\ i \in Int /\ 1 < i + 1
    BY <2>1, ToSetTail
  <2>4. PICK y \in Slots : y = h.client % NumSlots
    <3>1. h.client \in Int
      BY ItemFields
    <3> QED BY <1>0, <3>1 DEF Slots
  <2>5. UNCHANGED <<handled, read, sent, item, wpc>> /\ queue' = [queue EXCEPT ![y] = Append(queue[y], h)]
    BY <1>3, <2>2, <2>4 DEF Enqueue, SlotOf
  <2>6. Due(h) /\ \A i \in DOMAIN frames' : Before(h, frames'[i])
    BY <1>0, <2>2, <2>3 DEF OrderInv, FramesInOrder
  <2>7. FramesInOrder'
    BY <1>0, <2>3, <2>5 DEF OrderInv, FramesInOrder, Due, Before
  <2>8. ASSUME NEW x \in Slots PROVE /\ \A i \in DOMAIN queue[x], j \in DOMAIN frames' : Before(queue[x][i], frames'[j])
                                     /\ wpc[x] = "have" => \A j \in DOMAIN frames' : Before(item[x], frames'[j])
    BY <1>s, <2>3 DEF QueueInOrder, ItemInOrder
  <2>9. ASSUME NEW x \in Slots, x # y PROVE QueueInOrder(x)' /\ ItemInOrder(x)'
    <3>1. queue'[x] = queue[x]
      BY <1>0, <2>5, <2>9
    <3>2. QueueInOrder(x)'
      <4>1. UNCHANGED <<handled, read>> /\ QueueInOrder(x)
        BY <1>s, <2>5
      <4> QED BY <2>8, <3>1, <4>1 DEF QueueInOrder, Due, Before
    <3>3. ItemInOrder(x)'
      BY <1>s, <2>5, <2>8, <3>1 DEF ItemInOrder, Due, Before
    <3> QED BY <3>2, <3>3
  <2>10. QueueInOrder(y)' /\ ItemInOrder(y)'
    <3>1. queue'[y] = Append(queue[y], h) /\ queue[y] \in Seq(Items)
      BY <1>0, <2>5
    <3>2. /\ DOMAIN queue'[y] = DOMAIN queue[y] \cup {Len(queue[y]) + 1} /\ Len(queue[y]) \in Nat
          /\ \A i \in DOMAIN queue[y] : queue'[y][i] = queue[y][i] /\ i \in Int /\ i < Len(queue[y]) + 1
          /\ queue'[y][Len(queue[y]) + 1] = h
      BY <3>1, ToSetAppend, SeqIsFunction
    <3>3. QueueInOrder(y) /\ ItemInOrder(y)
      BY <1>s
    <3>4. \A i \in DOMAIN queue[y] : Before(queue[y][i], h)
      BY <2>2, <2>3, <3>3 DEF QueueInOrder
    <3>5. wpc[y] = "have" => Before(item[y], h)
      BY <2>2, <2>3, <3>3 DEF ItemInOrder
    <3>6. \A i \in DOMAIN queue'[y] : i \in DOMAIN queue[y] \/ (queue'[y][i] = h /\ \A j \in DOMAIN queue[y] : j < i)
      BY <3>2
    <3>7. QueueInOrder(y)'
      <4>1. \A i \in DOMAIN queue'[y] : Due(queue[y][i])' /\ queue'[y][i].client % NumSlots = y
        BY <2>4, <2>5, <2>6, <3>2, <3>3, <3>6 DEF QueueInOrder, Due
      <4>2. \A i, j \in DOMAIN queue'[y] : i < j => Before(queue'[y][i], queue'[y][j])
        BY <3>2, <3>3, <3>4, <3>6 DEF QueueInOrder
      <4>3. \A i \in DOMAIN queue'[y], j \in DOMAIN frames' : Before(queue'[y][i], frames'[j])
        BY <2>6, <2>8, <3>2, <3>6
      <4> QED BY <4>1, <4>2, <4>3 DEF QueueInOrder, Before
    <3>8. ItemInOrder(y)'
      <4>1. wpc[y] = "have" => \A i \in DOMAIN queue'[y] : Before(item[y], queue'[y][i])
        BY <3>2, <3>3, <3>5, <3>6 DEF ItemInOrder
      <4> QED BY <2>5, <2>8, <3>3, <4>1 DEF ItemInOrder, Before, Due
    <3> QED BY <3>7, <3>8
  <2>11. \A c \in Clients : handled'[c] <= read'[c] /\ read'[c] <= sent'[c]
    BY <1>0, <2>5 DEF OrderInv
  <2> QED BY <2>7, <2>9, <2>10, <2>11 DEF OrderInv
<1>4. ASSUME DropFrame PROVE OrderInv'
  <2>1. frames \in Seq(Items) /\ frames # <<>> /\ frames' = Tail(frames)
    BY <1>4, MessageTypes DEF DropFrame
  <2>2. \A i \in DOMAIN frames' : i + 1 \in DOMAIN frames /\ frames'[i] = frames[i + 1] /\ i \in Int
    BY <2>1, ToSetTail
  <2>3. UNCHANGED <<handled, read, sent, queue, item, wpc>>
    BY <1>4 DEF DropFrame
  <2> QED BY <1>0, <2>2, <2>3 DEF OrderInv, FramesInOrder, QueueInOrder, ItemInOrder, Due, Before
<1>5. ASSUME NEW s \in Slots, Take(s) PROVE OrderInv'
  <2>1. PICK q \in Seq(Items) : q = queue[s] /\ q # <<>>
    BY <1>0, <1>5 DEF Take
  <2>2. UNCHANGED <<handled, read, sent, frames>>
        /\ item' = [item EXCEPT ![s] = Head(q)] /\ queue' = [queue EXCEPT ![s] = Tail(q)]
        /\ wpc' = [wpc EXCEPT ![s] = "have"]
    BY <1>5, <2>1 DEF Take
  <2>3. Head(q) \in Items /\ Head(q) = q[1] /\ 1 \in DOMAIN q
        /\ \A i \in DOMAIN Tail(q) : i + 1 \in DOMAIN q /\ Tail(q)[i] = q[i + 1] /\ i \in Int /\ 1 < i + 1
    BY <2>1, ToSetTail
  <2>4. QueueInOrder(s)
    BY <1>s
  <2>5. queue'[s] = Tail(q) /\ item'[s] = q[1] /\ q[1] \in Items /\ wpc'[s] = "have"
    BY <1>0, <1>w, <2>2, <2>3
  <2>6. QueueInOrder(s)'
    BY <2>1, <2>2, <2>3, <2>4, <2>5 DEF QueueInOrder, Due, Before
  <2>7. ItemInOrder(s)'
    <3>1. Due(q[1]) /\ q[1].client % NumSlots = s /\ \A j \in DOMAIN frames : Before(q[1], frames[j])
      BY <2>1, <2>3, <2>4 DEF QueueInOrder
    <3>2. \A i \in DOMAIN Tail(q) : Before(q[1], Tail(q)[i])
      BY <2>1, <2>3, <2>4 DEF QueueInOrder
    <3> QED BY <2>2, <2>5, <3>1, <3>2 DEF ItemInOrder, Due, Before
  <2>8. ASSUME NEW x \in Slots, x # s PROVE QueueInOrder(x)' /\ ItemInOrder(x)'
    <3>1. queue'[x] = queue[x] /\ item'[x] = item[x] /\ wpc'[x] = wpc[x]
      BY <1>0, <1>w, <2>2, <2>8
    <3>2. QueueInOrder(x)'
      <4>1. UNCHANGED <<handled, read, frames>> /\ QueueInOrder(x)
        BY <1>s, <2>2
      <4> QED BY <3>1, <4>1 DEF QueueInOrder, Due, Before
    <3>3. ItemInOrder(x)'
      BY <1>s, <2>2, <3>1 DEF ItemInOrder, Due, Before
    <3> QED BY <3>2, <3>3
  <2>9. FramesInOrder' /\ \A c \in Clients : handled'[c] <= read'[c] /\ read'[c] <= sent'[c]
    BY <1>0, <2>2 DEF OrderInv, FramesInOrder, Due, Before
  <2> QED BY <2>6, <2>7, <2>8, <2>9 DEF OrderInv
<1>6. ASSUME NEW s \in Slots, RateLimited(s) PROVE OrderInv'
  <2>1. UNCHANGED <<handled, read, sent, frames, queue>>
        /\ item' = [item EXCEPT ![s] = None] /\ wpc' = [wpc EXCEPT ![s] = "wait"]
    BY <1>6 DEF RateLimited, Done
  <2>2. ASSUME NEW x \in Slots PROVE wpc'[x] = "wait" \/ (wpc'[x] = wpc[x] /\ item'[x] = item[x])
    BY <1>w, <2>1
  <2> QED BY <1>0, <2>1, <2>2 DEF OrderInv, FramesInOrder, QueueInOrder, ItemInOrder, Due, Before
<1>7. ASSUME NEW s \in Slots, MessageIgnored(s) PROVE OrderInv'
  <2>1. UNCHANGED <<handled, read, sent, frames, queue>>
        /\ item' = [item EXCEPT ![s] = None] /\ wpc' = [wpc EXCEPT ![s] = "wait"]
    BY <1>7 DEF MessageIgnored, Done
  <2>2. ASSUME NEW x \in Slots PROVE wpc'[x] = "wait" \/ (wpc'[x] = wpc[x] /\ item'[x] = item[x])
    BY <1>w, <2>1
  <2> QED BY <1>0, <2>1, <2>2 DEF OrderInv, FramesInOrder, QueueInOrder, ItemInOrder, Due, Before
<1>8. ASSUME NEW s \in Slots, MessageAnswered(s) PROVE OrderInv'
  <2>1. Dispatch(s) /\ UNCHANGED <<sent, read, frames, queue>>
        /\ item' = [item EXCEPT ![s] = None] /\ wpc' = [wpc EXCEPT ![s] = "wait"]
    BY <1>8 DEF MessageAnswered, Done
  <2>2. /\ wpc'[s] # "have" /\ (wpc'[s] # "wait" => item'[s] = item[s])
        /\ \A x \in Slots \ {s} : wpc'[x] = wpc[x] /\ item'[x] = item[x]
    BY <1>w, <2>1
  <2> QED BY <2>1, <2>2, DispatchOrder
<1>9. ASSUME NEW s \in Slots, NEW d \in Clients, KickNotify(s, d) PROVE OrderInv'
  <2>1. Dispatch(s) /\ UNCHANGED <<sent, read, frames, queue>>
        /\ item' = item /\ wpc' = [wpc EXCEPT ![s] = "kicking"]
    BY <1>9 DEF KickNotify, Done
  <2>2. /\ wpc'[s] # "have" /\ (wpc'[s] # "wait" => item'[s] = item[s])
        /\ \A x \in Slots \ {s} : wpc'[x] = wpc[x] /\ item'[x] = item[x]
    BY <1>w, <2>1
  <2> QED BY <2>1, <2>2, DispatchOrder
<1>10. ASSUME NEW s \in Slots, KickClose(s) PROVE OrderInv'
  <2>1. UNCHANGED <<handled, read, sent, frames, queue>>
        /\ item' = [item EXCEPT ![s] = None] /\ wpc' = [wpc EXCEPT ![s] = "wait"]
    BY <1>10 DEF KickClose, Done
  <2>2. ASSUME NEW x \in Slots PROVE wpc'[x] = "wait" \/ (wpc'[x] = wpc[x] /\ item'[x] = item[x])
    BY <1>w, <2>1
  <2> QED BY <1>0, <2>1, <2>2 DEF OrderInv, FramesInOrder, QueueInOrder, ItemInOrder, Due, Before
<1>11. ASSUME NEW s \in Slots, BanReject(s) PROVE OrderInv'
  <2>1. Dispatch(s) /\ UNCHANGED <<sent, read, frames, queue>>
        /\ (\/ item' = [item EXCEPT ![s] = None] /\ wpc' = [wpc EXCEPT ![s] = "wait"]
            \/ item' = item /\ wpc' = [wpc EXCEPT ![s] = "closing"])
    BY <1>11 DEF BanReject, Done
  <2>2. /\ wpc'[s] # "have" /\ (wpc'[s] # "wait" => item'[s] = item[s])
        /\ \A x \in Slots \ {s} : wpc'[x] = wpc[x] /\ item'[x] = item[x]
    BY <1>w, <2>1
  <2> QED BY <2>1, <2>2, DispatchOrder
<1>12. ASSUME UNCHANGED <<handled, read, sent, frames, queue, item, wpc>> PROVE OrderInv'
  BY <1>12, <1>0 DEF OrderInv, FramesInOrder, QueueInOrder, ItemInOrder, Due, Before
<1>13. ASSUME NEW c \in Clients, ClientHangs(c) \/ accept_new_clients(c)
      PROVE  UNCHANGED <<handled, read, sent, frames, queue, item, wpc>>
  BY <1>13 DEF ClientHangs, accept_new_clients
<1>14. ASSUME FireConnected \/ AllConnected \/ FireDisconnected \/ AllDisconnected \/ AllEnqueued \/
             SwapQueues \/ CloseClient \/ AllClosed \/ SendOne \/ AllSent
      PROVE  UNCHANGED <<handled, read, sent, frames, queue, item, wpc>>
  BY <1>14 DEF FireConnected, AllConnected, FireDisconnected, AllDisconnected, AllEnqueued, SwapQueues,
         CloseClient, AllClosed, SendOne, AllSent, queue_send, Disconnect, remove_client
<1> QED BY <1>1, <1>2, <1>3, <1>4, <1>5, <1>6, <1>7, <1>8, <1>9, <1>10, <1>11, <1>12, <1>13, <1>14
        DEF Next, ClientStep, PollStep, WorkerStep

-----------------------------------------------------------------------------
(* The order of the answers. *)

LEMMA AnswerTypes ==
    ASSUME TransportInv
    PROVE  /\ \A c \in Clients : handled[c] \in Int /\ received[c] \in Int
           /\ send_queue \in Seq(Sends) /\ to_send \in Seq(Sends)
           /\ \A i \in DOMAIN send_queue : send_queue[i] \in Sends
           /\ \A i \in DOMAIN to_send : to_send[i] \in Sends
<1>1. send_queue \in Seq(Sends) /\ to_send \in Seq(Sends)
  BY DEF TransportInv, TypeOK
<1>2. handled \in [Clients -> 0..MaxMsgs] /\ received \in [Clients -> -1..MaxMsgs] /\ MaxMsgs \in Nat
  BY TransportAssumption DEF TransportInv, TypeOK
<1> QED BY <1>1, <1>2, SeqIsFunction

\* queue_send of an answer to the message handled last, or of a notice.
LEMMA QueueSendOrder ==
    ASSUME TransportInv, NEW m \in Sends, send_queue' = Append(send_queue, m), UNCHANGED <<received, to_send>>,
           \A c \in Clients : handled'[c] \in Int /\ handled[c] <= handled'[c],
           m.n # KK => m.n = handled'[m.client]
    PROVE  AnswerInv'
<1>0. AnswerInv
  BY DEF TransportInv
<1>1. /\ DOMAIN send_queue' = DOMAIN send_queue \cup {Len(send_queue) + 1} /\ Len(send_queue) \in Nat
      /\ \A i \in DOMAIN send_queue : send_queue'[i] = send_queue[i] /\ i \in Int /\ i < Len(send_queue) + 1
      /\ send_queue'[Len(send_queue) + 1] = m
  BY AnswerTypes, ToSetAppend, SeqIsFunction
<1>2. \A c \in Clients : received[c] <= handled'[c]
  BY <1>0, AnswerTypes DEF AnswerInv
<1>3. ASSUME NEW k \in Sends, Between(k) PROVE Between(k)' /\ NotAfter(k, m)
  <2>1. k.client \in Clients /\ k.n \in Int /\ m.client \in Clients /\ m.n \in Int
    BY SendFields
  <2>2. k.n # KK => k.n <= handled'[k.client]
    BY <1>3, <2>1, AnswerTypes DEF Between
  <2>3. Between(k)'
    BY <1>3, <2>2 DEF Between
  <2>4. NotAfter(k, m)
    BY <2>2 DEF NotAfter
  <2> QED BY <2>3, <2>4
<1>4. Between(m)' /\ NotAfter(m, m)
  <2>1. m.client \in Clients /\ m.n \in Int
    BY SendFields
  <2>2. m.n # KK => m.n <= handled'[m.client]
    BY <2>1
  <2> QED BY <1>2, <2>1, <2>2 DEF Between, NotAfter
<1>5. \A i \in DOMAIN send_queue' : i \in DOMAIN send_queue \/ (send_queue'[i] = m /\ \A j \in DOMAIN send_queue : j < i)
  BY <1>1
<1>6. \A i \in DOMAIN to_send : Between(to_send[i])' /\ NotAfter(to_send[i], m)
  BY <1>0, <1>3, AnswerTypes DEF AnswerInv, Between
<1>7. \A i \in DOMAIN send_queue : send_queue[i] \in Sends /\ Between(send_queue[i])
  BY <1>0, AnswerTypes DEF AnswerInv
<1>8. \A i \in DOMAIN send_queue' : Between(send_queue[i])'
  BY <1>1, <1>3, <1>4, <1>5, <1>7 DEF Between
<1>9. \A i, j \in DOMAIN send_queue' : i < j => NotAfter(send_queue'[i], send_queue'[j])
  BY <1>0, <1>1, <1>3, <1>5, <1>7 DEF AnswerInv
<1>10. \A i \in DOMAIN to_send, j \in DOMAIN send_queue' : NotAfter(to_send[i], send_queue'[j])
  BY <1>0, <1>1, <1>5, <1>6 DEF AnswerInv
<1>11. \A i, j \in DOMAIN to_send : i < j => NotAfter(to_send[i], to_send[j])
  BY <1>0 DEF AnswerInv
<1> QED BY <1>2, <1>6, <1>8, <1>9, <1>10, <1>11 DEF AnswerInv, NotAfter

\* A worker that hands over its message: its client's count of handled messages grows.
LEMMA DispatchGrows ==
    ASSUME TransportInv, NEW s \in Slots, Dispatch(s)
    PROVE  /\ item[s] \in Items /\ item[s].client \in Clients /\ item[s].n \in 1..MaxMsgs
           /\ handled'[item[s].client] = item[s].n
           /\ handled[item[s].client] < item[s].n /\ item[s].n <= sent[item[s].client]
           /\ \A c \in Clients : handled'[c] \in Int /\ handled[c] <= handled'[c]
<1>0. OrderInv /\ handled \in [Clients -> 0..MaxMsgs]
  BY DEF TransportInv, TypeOK
<1>1. wpc[s] = "have" /\ item[s] \in Items /\ item[s].client \in Clients /\ item[s].n \in Int /\ item[s].n \in 1..MaxMsgs
  BY <1>0, ItemFields DEF Dispatch, OrderInv, ItemInOrder
<1>2. Due(item[s]) /\ read[item[s].client] <= sent[item[s].client]
  BY <1>0, <1>1 DEF OrderInv, ItemInOrder
<1>3. \A c \in Clients : handled'[c] = IF c = item[s].client THEN item[s].n ELSE handled[c]
  BY <1>0, <1>1 DEF Dispatch
<1> QED BY <1>1, <1>2, <1>3, MessageTypes DEF Due

LEMMA AnswerStep ==
    ASSUME TransportInv, Next
    PROVE  AnswerInv'
<1> USE DEF netVars, wsVars, queueVars, pollVars, workVars, aoVars
<1>0. AnswerInv
  BY DEF TransportInv
<1>1. ASSUME NEW D \in SUBSET Clients, NEW H \in SUBSET Clients, Poll(D, H) PROVE AnswerInv'
  BY <1>1, <1>0 DEF AnswerInv, Between, NotAfter, Poll
<1>2. ASSUME FireConnected PROVE AnswerInv'
  <2>1. Head(connecting) \in Clients /\ Head(connecting) \in ToSet(connecting)
    BY <1>2, ToSetTail DEF FireConnected, TransportInv, TypeOK
  <2>2. handled[Head(connecting)] = 0
    BY <2>1 DEF TransportInv, ConnInv, ConnOf, Unknown
  <2>3. PICK m \in Sends : m = [client |-> Head(connecting), n |-> 0]
    <3>1. 0 \in -1..MaxMsgs
      BY TransportAssumption
    <3>2. [client |-> Head(connecting), n |-> 0] \in Sends
      BY <2>1, <3>1, SendsHas
    <3> QED BY <3>2
  <2>4. send_queue' = Append(send_queue, m) /\ UNCHANGED <<received, to_send, handled>>
    BY <1>2, <2>3 DEF FireConnected, queue_send
  <2>5. m.client = Head(connecting) /\ m.n = 0
    BY <2>3
  <2> QED BY <2>2, <2>4, <2>5, AnswerTypes, QueueSendOrder
<1>3. ASSUME SwapQueues PROVE AnswerInv'
  <2>1. to_send' = send_queue /\ send_queue' = <<>> /\ UNCHANGED <<received, handled>>
    BY <1>3 DEF SwapQueues
  <2>2. DOMAIN send_queue' = {}
    BY <2>1
  <2> QED BY <1>0, <2>1, <2>2 DEF AnswerInv, Between, NotAfter
<1>4. ASSUME SendOne PROVE AnswerInv'
  <2>1. to_send \in Seq(Sends) /\ to_send # <<>> /\ to_send' = Tail(to_send) /\ UNCHANGED <<handled, send_queue>>
    BY <1>4, AnswerTypes DEF SendOne
  <2>2. PICK h \in Sends : h = Head(to_send) /\ h = to_send[1]
    BY <2>1, ToSetTail
  <2>3. 1 \in DOMAIN to_send
        /\ \A i \in DOMAIN to_send' : i + 1 \in DOMAIN to_send /\ to_send'[i] = to_send[i + 1] /\ i \in Int /\ 1 < i + 1
    BY <2>1, ToSetTail
  <2>4. received' = received \/ (h.n # KK /\ received' = [received EXCEPT ![h.client] = h.n])
    BY <1>4, <2>2 DEF SendOne
  <2>5. \A c \in Clients : received'[c] = received[c] \/ (c = h.client /\ h.n # KK /\ received'[c] = h.n)
    BY <2>4 DEF TransportInv, TypeOK
  <2>6. Between(h) /\ (\A i \in DOMAIN to_send' : NotAfter(h, to_send'[i]))
        /\ \A j \in DOMAIN send_queue : NotAfter(h, send_queue[j])
    BY <1>0, <2>2, <2>3 DEF AnswerInv
  <2>7. \A c \in Clients : received'[c] <= handled'[c]
    BY <1>0, <2>1, <2>5, <2>6 DEF AnswerInv, Between
  <2>8. ASSUME NEW k \in Sends, Between(k), NotAfter(h, k) PROVE Between(k)'
    BY <2>1, <2>5, <2>8, SendFields DEF Between, NotAfter
  <2>9. \A i \in DOMAIN to_send' : to_send'[i] \in Sends /\ Between(to_send'[i])
    BY <1>0, <2>3, AnswerTypes DEF AnswerInv
  <2>10. \A i \in DOMAIN to_send' : Between(to_send[i])'
    BY <2>6, <2>8, <2>9 DEF Between
  <2>11. \A i \in DOMAIN send_queue' : Between(send_queue[i])'
    BY <1>0, <2>1, <2>6, <2>8, AnswerTypes DEF AnswerInv, Between
  <2>12. \A i, j \in DOMAIN to_send' : i < j => NotAfter(to_send'[i], to_send'[j])
    BY <1>0, <2>3 DEF AnswerInv
  <2>13. \A i \in DOMAIN to_send', j \in DOMAIN send_queue : NotAfter(to_send'[i], send_queue[j])
    BY <1>0, <2>3 DEF AnswerInv
  <2>14. \A i, j \in DOMAIN send_queue : i < j => NotAfter(send_queue[i], send_queue[j])
    BY <1>0 DEF AnswerInv
  <2> QED BY <2>1, <2>7, <2>10, <2>11, <2>12, <2>13, <2>14 DEF AnswerInv, NotAfter
<1>5. ASSUME NEW s \in Slots, MessageAnswered(s) PROVE AnswerInv'
  <2>1. Dispatch(s) /\ UNCHANGED <<received, to_send>> /\ send_queue' = Append(send_queue, [client |-> item[s].client, n |-> item[s].n])
    BY <1>5 DEF MessageAnswered, queue_send
  <2>2. PICK m \in Sends : m = [client |-> item[s].client, n |-> item[s].n]
    BY <2>1, DispatchGrows, SendsHas, TransportAssumption DEF KK
  <2>3. m.client = item[s].client /\ m.n = item[s].n
    BY <2>2
  <2>4. m.n # KK => m.n = handled'[m.client]
    BY <2>1, <2>3, DispatchGrows
  <2> QED BY <2>1, <2>2, <2>4, DispatchGrows, QueueSendOrder
<1>6. ASSUME NEW s \in Slots, NEW d \in Clients, KickNotify(s, d) PROVE AnswerInv'
  <2>1. Dispatch(s) /\ UNCHANGED <<received, to_send>> /\ send_queue' = Append(send_queue, [client |-> d, n |-> KK])
    BY <1>6 DEF KickNotify, queue_send
  <2>2. PICK m \in Sends : m = [client |-> d, n |-> KK]
    BY <2>1, DispatchGrows, SendsHas, TransportAssumption DEF KK
  <2>3. m.client = d /\ m.n = KK
    BY <2>2
  <2>4. m.n # KK => m.n = handled'[m.client]
    BY <2>1, <2>3, DispatchGrows
  <2> QED BY <2>1, <2>2, <2>4, DispatchGrows, QueueSendOrder
<1>7. ASSUME NEW s \in Slots, BanReject(s) PROVE AnswerInv'
  <2>1. Dispatch(s) /\ UNCHANGED <<received, to_send>> /\ send_queue' = Append(send_queue, [client |-> item[s].client, n |-> KK])
    BY <1>7 DEF BanReject, queue_send
  <2>2. PICK m \in Sends : m = [client |-> item[s].client, n |-> KK]
    BY <2>1, DispatchGrows, SendsHas, TransportAssumption DEF KK
  <2>3. m.client = item[s].client /\ m.n = KK
    BY <2>2
  <2>4. m.n # KK => m.n = handled'[m.client]
    BY <2>1, <2>3, DispatchGrows
  <2> QED BY <2>1, <2>2, <2>4, DispatchGrows, QueueSendOrder
<1>8. ASSUME UNCHANGED <<received, handled, to_send, send_queue>> PROVE AnswerInv'
  BY <1>8, <1>0 DEF AnswerInv, Between, NotAfter
<1>9. ASSUME NEW c \in Clients, ClientSend(c) \/ ClientHangs(c) \/ accept_new_clients(c)
      PROVE  UNCHANGED <<received, handled, to_send, send_queue>>
  BY <1>9 DEF ClientSend, ClientHangs, accept_new_clients
<1>10. ASSUME AllConnected \/ FireDisconnected \/ AllDisconnected \/ Enqueue \/ DropFrame \/
             AllEnqueued \/ CloseClient \/ AllClosed \/ AllSent
      PROVE  UNCHANGED <<received, handled, to_send, send_queue>>
  BY <1>10 DEF AllConnected, FireDisconnected, AllDisconnected, Enqueue, DropFrame, AllEnqueued,
         CloseClient, AllClosed, AllSent, Disconnect, SlotOf, remove_client
<1>11. ASSUME NEW s \in Slots, Take(s) \/ RateLimited(s) \/ MessageIgnored(s) \/ KickClose(s)
      PROVE  UNCHANGED <<received, handled, to_send, send_queue>>
  BY <1>11 DEF Take, RateLimited, MessageIgnored, KickClose, Done
<1> QED BY <1>1, <1>2, <1>3, <1>4, <1>5, <1>6, <1>7, <1>8, <1>9, <1>10, <1>11
        DEF Next, ClientStep, PollStep, WorkerStep

-----------------------------------------------------------------------------
(* The invariant, and what follows from it. *)

LEMMA InitInv ==
    ASSUME Init
    PROVE  TransportInv
<1>1. TypeOK
  BY TransportAssumption DEF Init, TypeOK
<1>2. CountInv
  <2>1. Open = {}
    BY DEF Init, Open
  <2> QED BY <2>1, FS_EmptySet DEF Init, CountInv
<1>3. ListInv /\ KickInv
  BY DEF Init, ListInv, KickInv
<1>4. ToSet(connecting) = {} /\ ToSet(leaving) = {}
  BY ToSetEmpty DEF Init
<1>5. ConnInv
  BY <1>4 DEF Init, ConnInv, ConnOf, Unknown
<1>6. FrameInv
  BY DEF Init, FrameInv
<1>7. TransportSound
  <2>1. \A s \in Slots : Pending(s) = {}
    BY ToSetEmpty DEF Init, Pending
  <2> QED BY <2>1 DEF Init, TransportSound, NoEarlyMessage, SessionsMatch
<1>8. OrderInv
  BY DEF Init, OrderInv, FramesInOrder, QueueInOrder, ItemInOrder
<1>9. AnswerInv
  BY DEF Init, AnswerInv
<1> QED BY <1>1, <1>2, <1>3, <1>5, <1>6, <1>7, <1>8, <1>9 DEF TransportInv

LEMMA StutterInv ==
    ASSUME TransportInv, UNCHANGED vars
    PROVE  TransportInv'
<1> USE DEF vars, netVars, wsVars, queueVars, pollVars, workVars, aoVars
<1>1. TypeOK'
  BY DEF TransportInv, TypeOK
<1>2. CountInv' /\ ListInv' /\ KickInv'
  BY DEF TransportInv, CountInv, Open, ListInv, KickInv
<1>3. ConnInv' /\ FrameInv'
  BY DEF TransportInv, ConnInv, ConnOf, Unknown, FrameInv
<1>4. TransportSound'
  BY DEF TransportInv, TransportSound, NoEarlyMessage, Pending, SessionsMatch
<1>5. OrderInv'
  BY DEF TransportInv, OrderInv, FramesInOrder, QueueInOrder, ItemInOrder, Due, Before
<1>6. AnswerInv'
  BY DEF TransportInv, AnswerInv, Between, NotAfter
<1> QED BY <1>1, <1>2, <1>3, <1>4, <1>5, <1>6 DEF TransportInv

(***************************************************************************)
(* The inductive invariant: whatever the interleaving of the poll thread,  *)
(* the workers and the clients, handshaked_count_ counts the open          *)
(* connections, the poll thread's lists are empty when it leaves them, no  *)
(* message overtakes its connection, sessions and connections agree, and   *)
(* messages and answers stay in order on the way through the queues        *)
(* (WsWorkerPool::start, WebSocketServer::poll and flush_sends).           *)
(***************************************************************************)
THEOREM TransportInvariant == Spec => []TransportInv
<1>1. ASSUME TransportInv, [Next]_vars PROVE TransportInv'
  <2>1. CASE Next
    <3>1. TypeOK' /\ CountInv' /\ ListInv' /\ ConnInv' /\ FrameInv'
      BY <1>1, <2>1, TypeStep, CountStep, ListStep, ConnStep, FrameStep
    <3>2. TransportSound' /\ OrderInv' /\ AnswerInv' /\ KickInv'
      BY <1>1, <2>1, EarlyStep, SessionStep, OrderStep, AnswerStep, KickStep DEF TransportSound
    <3> QED BY <3>1, <3>2 DEF TransportInv
  <2>2. CASE UNCHANGED vars
    BY <1>1, <2>2, StutterInv
  <2> QED BY <1>1, <2>1, <2>2
<1> QED BY <1>1, InitInv, PTL DEF Spec

(***************************************************************************)
(* Every variable of the transport keeps its type; handshaked_count_ never *)
(* goes below zero or above the number of clients (remove_client).         *)
(***************************************************************************)
THEOREM TransportTypes == Spec => []TypeOK
<1>1. TransportInv => TypeOK
  BY DEF TransportInv
<1> QED BY <1>1, TransportInvariant, PTL

(***************************************************************************)
(* No message is thrown away for coming before its client's session, and   *)
(* no session outlives its connection unnoticed, for any number of         *)
(* clients, workers and messages (the callbacks fired by poll, flush_sends *)
(* and close_client).                                                      *)
(***************************************************************************)
THEOREM TransportIsSound == Spec => []TransportSound
<1>1. TransportInv => TransportSound
  BY DEF TransportInv
<1> QED BY <1>1, TransportInvariant, PTL

(***************************************************************************)
(* A client never receives the answer to an earlier message after one to a *)
(* later message (queue_send, flush_sends).                                *)
(***************************************************************************)
THEOREM AnswersStayInOrder == Spec => AnswersInOrder
<1>1. ASSUME TransportInv, [Next]_vars PROVE \A c \in Clients : received'[c] >= received[c]
  <2>1. CASE SendOne
    <3>1. to_send \in Seq(Sends) /\ to_send # <<>>
      BY <1>1, <2>1, AnswerTypes DEF SendOne
    <3>2. PICK h \in Sends : h = Head(to_send) /\ h = to_send[1]
      BY <3>1, ToSetTail
    <3>3. Between(h)
      BY <1>1, <3>1, <3>2 DEF TransportInv, AnswerInv
    <3>4. received' = received \/ (h.n # KK /\ received' = [received EXCEPT ![h.client] = h.n])
      BY <2>1, <3>2 DEF SendOne
    <3>5. \A c \in Clients : received'[c] = received[c] \/ (c = h.client /\ h.n # KK /\ received'[c] = h.n)
      BY <1>1, <3>4 DEF TransportInv, TypeOK
    <3> QED BY <1>1, <3>3, <3>5, AnswerTypes, SendFields DEF Between
  <2>2. CASE ~SendOne
    <3> USE DEF vars, netVars, wsVars, queueVars, pollVars, workVars, aoVars
    <3>1. received' = received
      <4>1. ASSUME NEW c \in Clients, ClientSend(c) \/ ClientHangs(c) \/ accept_new_clients(c)
            PROVE  received' = received
        BY <4>1 DEF ClientSend, ClientHangs, accept_new_clients
      <4>2. ASSUME NEW D \in SUBSET Clients, NEW H \in SUBSET Clients, Poll(D, H)
            PROVE  received' = received
        BY <4>2 DEF Poll
      <4>3. ASSUME FireConnected \/ AllConnected \/ FireDisconnected \/ AllDisconnected \/ Enqueue \/
                DropFrame \/ AllEnqueued \/ SwapQueues \/ CloseClient \/ AllClosed \/ AllSent
            PROVE  received' = received
        BY <4>3 DEF FireConnected, AllConnected, FireDisconnected, AllDisconnected, Enqueue, DropFrame,
                AllEnqueued, SwapQueues, CloseClient, AllClosed, AllSent
      <4>4. ASSUME NEW s \in Slots, Take(s) \/ RateLimited(s) \/ MessageIgnored(s) \/ MessageAnswered(s) \/ (\E d \in
                Clients : KickNotify(s, d)) \/ KickClose(s) \/ BanReject(s)
            PROVE  received' = received
        BY <4>4 DEF Take, RateLimited, MessageIgnored, MessageAnswered, KickNotify, KickClose, BanReject
      <4> QED BY <1>1, <2>2, <4>1, <4>2, <4>3, <4>4 DEF Next, ClientStep, PollStep, WorkerStep
    <3> QED BY <1>1, <3>1, AnswerTypes
  <2> QED BY <2>1, <2>2
<1> QED BY <1>1, TransportInvariant, PTL DEF Spec, AnswersInOrder

-----------------------------------------------------------------------------
(* The contract. *)

LEMMA DispatchHandles ==
    ASSUME TransportInv, NEW s \in Slots, Dispatch(s), UNCHANGED <<session, disconnects, sent>>
    PROVE  [Contract!Next]_(Contract!vars)
<1>1. PICK c \in Clients, n \in 1..MaxMsgs : c = item[s].client /\ n = item[s].n
  BY DispatchGrows
<1>2. c \in session /\ handled' = [handled EXCEPT ![c] = n] /\ handled[c] < n /\ n <= sent[c]
  BY <1>1, DispatchGrows DEF Dispatch
<1>3. Phase' = Phase /\ Phase[c] = "open"
  BY <1>2 DEF Phase
<1>4. n > handled[c]
  BY <1>2, MessageTypes
<1>5. Contract!Handle(c, n)
  BY <1>2, <1>3, <1>4 DEF Contract!Handle
<1> QED BY <1>5 DEF Contract!Next

LEMMA StepSimulates ==
    ASSUME TransportInv, Next
    PROVE  [Contract!Next]_(Contract!vars)
<1> USE DEF netVars, wsVars, queueVars, pollVars, workVars, aoVars
<1>p. ASSUME UNCHANGED <<session, disconnects>> PROVE Phase' = Phase
  BY <1>p DEF Phase
<1>c. session \subseteq Clients /\ disconnects \in [Clients -> Nat] /\ connecting \in Seq(Clients) /\ leaving \in Seq(Clients)
  BY DEF TransportInv, TypeOK
<1>1. ASSUME NEW c \in Clients, ClientSend(c) PROVE [Contract!Next]_(Contract!vars)
  <2>1. Contract!Send(c)
    BY <1>p, <1>1 DEF ClientSend, Contract!Send
  <2> QED BY <2>1 DEF Contract!Next
<1>2. ASSUME NEW D \in SUBSET Clients, NEW H \in SUBSET Clients, Poll(D, H) PROVE [Contract!Next]_(Contract!vars)
  BY <1>p, <1>2 DEF Poll, Contract!vars
<1>3. ASSUME FireConnected PROVE [Contract!Next]_(Contract!vars)
  <2>1. PICK c \in Clients : c = Head(connecting) /\ c \in ToSet(connecting)
    BY <1>c, <1>3, ToSetTail DEF FireConnected
  <2>2. c \notin session /\ disconnects[c] = 0
    BY <2>1 DEF TransportInv, ConnInv, ConnOf, Unknown
  <2>3. session' = session \cup {c} /\ UNCHANGED <<disconnects, sent, handled>>
    BY <2>1, <1>3 DEF FireConnected
  <2>4. Phase[c] = "new" /\ Phase' = [Phase EXCEPT ![c] = "open"]
    <3>1. Phase[c] = "new"
      BY <2>2 DEF Phase
    <3>2. c \in session' /\ \A d \in Clients \ {c} : d \in session' <=> d \in session
      BY <2>3
    <3>3. Phase' = [d \in Clients |-> IF d = c THEN "open" ELSE Phase[d]]
      BY <2>3, <3>2 DEF Phase
    <3> QED BY <3>1, <3>3 DEF Phase
  <2>5. Contract!Connected(c)
    BY <2>3, <2>4 DEF Contract!Connected
  <2> QED BY <2>5 DEF Contract!Next
<1>4. ASSUME FireDisconnected PROVE [Contract!Next]_(Contract!vars)
  <2>1. PICK c \in Clients : c = Head(leaving)
    BY <1>c, <1>4, ToSetTail DEF FireDisconnected
  <2>2. session' = session \ {c} /\ disconnects' = [disconnects EXCEPT ![c] = disconnects[c] + 1] /\ UNCHANGED <<sent, handled>>
    BY <2>1, <1>4 DEF FireDisconnected, Disconnect
  <2>3. disconnects'[c] > 0 /\ \A d \in Clients \ {c} : disconnects'[d] = disconnects[d]
    BY <1>c, <2>2
  <2>4. Phase' = [Phase EXCEPT ![c] = "closed"]
    BY <2>2, <2>3 DEF Phase
  <2>5. CASE Phase[c] = "closed"
    <3>1. Phase' = Phase
      BY <2>4, <2>5 DEF Phase
    <3> QED BY <2>2, <3>1 DEF Contract!vars
  <2>6. CASE Phase[c] # "closed"
    <3>1. Contract!Disconnected(c)
      BY <2>2, <2>4, <2>6 DEF Contract!Disconnected
    <3> QED BY <3>1 DEF Contract!Next
  <2> QED BY <2>5, <2>6
<1>5. ASSUME NEW s \in Slots, MessageAnswered(s) PROVE [Contract!Next]_(Contract!vars)
  <2>1. Dispatch(s) /\ UNCHANGED <<session, disconnects, sent>>
    BY <1>5 DEF MessageAnswered
  <2> QED BY <2>1, DispatchHandles
<1>6. ASSUME NEW s \in Slots, NEW d \in Clients, KickNotify(s, d) PROVE [Contract!Next]_(Contract!vars)
  <2>1. Dispatch(s) /\ UNCHANGED <<session, disconnects, sent>>
    BY <1>6 DEF KickNotify
  <2> QED BY <2>1, DispatchHandles
<1>7. ASSUME NEW s \in Slots, BanReject(s) PROVE [Contract!Next]_(Contract!vars)
  <2>1. Dispatch(s) /\ UNCHANGED <<session, disconnects, sent>>
    BY <1>7 DEF BanReject
  <2> QED BY <2>1, DispatchHandles
<1>8. ASSUME UNCHANGED <<session, disconnects, sent, handled>> PROVE [Contract!Next]_(Contract!vars)
  BY <1>8, <1>p DEF Contract!vars
<1>9. ASSUME NEW c \in Clients, ClientHangs(c) \/ accept_new_clients(c)
      PROVE  UNCHANGED <<session, disconnects, sent, handled>>
  BY <1>9 DEF ClientHangs, accept_new_clients
<1>10. ASSUME AllConnected \/ AllDisconnected \/ Enqueue \/ DropFrame \/ AllEnqueued \/ SwapQueues \/
             CloseClient \/ AllClosed \/ SendOne \/ AllSent
      PROVE  UNCHANGED <<session, disconnects, sent, handled>>
  BY <1>10 DEF AllConnected, AllDisconnected, Enqueue, DropFrame, AllEnqueued, SwapQueues, CloseClient,
         AllClosed, SendOne, AllSent, SlotOf, remove_client
<1>11. ASSUME NEW s \in Slots, Take(s) \/ RateLimited(s) \/ MessageIgnored(s) \/ KickClose(s)
      PROVE  UNCHANGED <<session, disconnects, sent, handled>>
  BY <1>11 DEF Take, RateLimited, MessageIgnored, KickClose, Done
<1> QED BY <1>1, <1>2, <1>3, <1>4, <1>5, <1>6, <1>7, <1>8, <1>9, <1>10, <1>11
        DEF Next, ClientStep, PollStep, WorkerStep

(***************************************************************************)
(* The transport implements its contract with the AO2 backend: a client is *)
(* announced once, then given its messages each at most once and in its    *)
(* order, then announced as left, whatever the threads' interleaving, for  *)
(* any number of clients, workers and messages (WsWorkerPool, AOServer's   *)
(* on_client_connected, on_client_message and on_client_disconnected).     *)
(***************************************************************************)
THEOREM TransportKeepsContract == Spec => KeepsContract
<1>1. ASSUME Init PROVE Contract!Init
  BY <1>1 DEF Init, Contract!Init, Phase
<1>2. ASSUME TransportInv, [Next]_vars PROVE [Contract!Next]_(Contract!vars)
  <2>1. CASE Next
    BY <1>2, <2>1, StepSimulates
  <2>2. CASE UNCHANGED vars
    BY <2>2 DEF vars, netVars, aoVars, Contract!vars, Phase
  <2> QED BY <1>2, <2>1, <2>2
<1> QED BY <1>1, <1>2, TransportInvariant, PTL DEF Spec, KeepsContract, Contract!Spec
-----------------------------------------------------------------------------
(* Sequences built one element at a time. *)

LEMMA SameSequence ==
    ASSUME NEW T, NEW s \in Seq(T), NEW t \in Seq(T), Len(s) = Len(t), \A i \in 1..Len(s) : s[i] = t[i]
    PROVE  s = t
<1>1. s \in [1..Len(s) -> T] /\ t \in [1..Len(s) -> T]
  OBVIOUS
<1> QED BY <1>1

LEMMA NoElements ==
    ASSUME NEW T, NEW s \in Seq(T), Len(s) = 0
    PROVE  s = <<>>
OBVIOUS

LEMMA SliceIs ==
    ASSUME NEW T, NEW s \in Seq(T), NEW m \in Nat, m >= 1, NEW n \in Nat, m <= n + 1, n <= Len(s)
    PROVE  /\ SubSeq(s, m, n) \in Seq(T) /\ Len(SubSeq(s, m, n)) = n - m + 1
           /\ \A i \in 1..(n - m + 1) : SubSeq(s, m, n)[i] = s[m + i - 1]
<1>1. Len(s) \in Nat /\ Len(SubSeq(s, m, n)) = n - m + 1
      /\ \A i \in 1..(n - m + 1) : SubSeq(s, m, n)[i] = s[m + i - 1]
  OBVIOUS
<1>2. \A i \in m..n : s[i] \in T
  BY <1>1
<1> QED BY <1>1, <1>2

LEMMA LastIn ==
    ASSUME NEW T, NEW s \in Seq(T), s # <<>>
    PROVE  /\ SubSeq(s, 1, Len(s) - 1) \in Seq(T) /\ s[Len(s)] \in T
           /\ s = Append(SubSeq(s, 1, Len(s) - 1), s[Len(s)])
<1>1. Len(s) \in Nat /\ Len(s) # 0
  OBVIOUS
<1>2. PICK a : a = SubSeq(s, 1, Len(s) - 1)
  OBVIOUS
<1>3. a \in Seq(T) /\ Len(a) = Len(s) - 1 /\ \A i \in 1..(Len(s) - 1) : a[i] = s[i]
  <2>1. PICK n \in Nat : n = Len(s) - 1
    BY <1>1
  <2>2. a \in Seq(T) /\ Len(a) = n - 1 + 1 /\ \A i \in 1..(n - 1 + 1) : a[i] = s[1 + i - 1]
    BY <1>1, <1>2, <2>1, SliceIs
  <2> QED BY <2>1, <2>2
<1>4. s[Len(s)] \in T
  BY <1>1
<1>5. Append(a, s[Len(s)]) \in Seq(T) /\ Len(Append(a, s[Len(s)])) = Len(s)
      /\ \A i \in 1..Len(s) : Append(a, s[Len(s)])[i] = s[i]
  BY <1>1, <1>3, <1>4
<1> QED BY <1>2, <1>3, <1>4, <1>5

\* Induction: a set with the empty sequence and every extension of its members has every sequence.
LEMMA InductionByAppend ==
    ASSUME NEW T, NEW G, <<>> \in G,
           \A s \in Seq(T), x \in T : s \in G => Append(s, x) \in G
    PROVE  \A s \in Seq(T) : s \in G
<1> DEFINE H == {n \in Nat : \A s \in Seq(T) : Len(s) = n => s \in G}
<1>1. 0 \in H
  <2>1. \A s \in Seq(T) : Len(s) = 0 => s = <<>>
    OBVIOUS
  <2> QED BY <2>1
<1>2. ASSUME NEW n \in Nat, n \in H PROVE n + 1 \in H
  <2>1. ASSUME NEW s \in Seq(T), Len(s) = n + 1 PROVE s \in G
    <3>1. s # <<>>
      BY <2>1
    <3>2. PICK a : a = SubSeq(s, 1, Len(s) - 1)
      OBVIOUS
    <3>3. a \in Seq(T) /\ s[Len(s)] \in T /\ s = Append(a, s[Len(s)])
      BY <3>1, <3>2, LastIn
    <3>4. Len(a) = n
      BY <2>1, <3>2
    <3>5. a \in G
      BY <1>2, <3>3, <3>4
    <3> QED BY <3>3, <3>5, Zenon
  <2> QED BY <2>1
<1> HIDE DEF H
<1>3. \A n \in Nat : n \in H
  BY <1>1, <1>2, InductionBySet
<1>4. ASSUME NEW s \in Seq(T) PROVE s \in G
  <2>1. Len(s) \in Nat
    OBVIOUS
  <2> QED BY <1>3, <2>1 DEF H
<1> QED BY <1>4

LEMMA AppendIs ==
    ASSUME NEW T, NEW s \in Seq(T), NEW e \in T, NEW r, r = Append(s, e)
    PROVE  /\ r \in Seq(T) /\ r # <<>> /\ Len(r) = Len(s) + 1 /\ DOMAIN r = 1..(Len(s) + 1) /\ r[Len(s) + 1] = e
           /\ DOMAIN s = 1..Len(s) /\ \A i \in 1..Len(s) : r[i] = s[i]
OBVIOUS

LEMMA ConcatAppend ==
    ASSUME NEW T, NEW s \in Seq(T), NEW t \in Seq(T), NEW e \in T
    PROVE  s \o Append(t, e) = Append(s \o t, e) /\ s \o t \in Seq(T)
OBVIOUS

LEMMA ConcatEmpty ==
    ASSUME NEW T, NEW s \in Seq(T)
    PROVE  s \o <<>> = s /\ <<>> \o s = s
OBVIOUS

LEMMA ConcatOne ==
    ASSUME NEW T, NEW s \in Seq(T), NEW e \in T
    PROVE  s \o <<e>> = Append(s, e) /\ <<e>> \in Seq(T)
OBVIOUS

LEMMA ConcatJoins ==
    ASSUME NEW T, NEW s \in Seq(T), NEW t \in Seq(T), NEW u \in Seq(T), NEW x, x = t \o u
    PROVE  (s \o t) \o u = s \o x
<1>1. (s \o t) \o u = s \o (t \o u)
  OBVIOUS
<1> QED BY <1>1, Zenon

LEMMA SequenceExtends ==
    ASSUME NEW T, NEW n \in Nat, NEW f \in [1..n -> T], NEW e \in T, NEW g \in [1..(n + 1) -> T],
           g[n + 1] = e, \A i \in 1..n : g[i] = f[i]
    PROVE  f \in Seq(T) /\ g = Append(f, e)
<1>1. f \in Seq(T) /\ Len(f) = n
  OBVIOUS
<1>2. Append(f, e) \in Seq(T) /\ Len(Append(f, e)) = n + 1
  BY <1>1
<1>3. g \in Seq(T) /\ Len(g) = n + 1
  <2>1. n + 1 \in Nat /\ g \in [1..(n + 1) -> T]
    OBVIOUS
  <2> QED BY <2>1, FunctionIsSeq
<1>4. \A i \in 1..(n + 1) : Append(f, e)[i] = g[i]
  BY <1>1
<1> QED BY <1>1, <1>2, <1>3, <1>4, SameSequence

-----------------------------------------------------------------------------
(* Flattening. *)

LEMMA FlattensSame ==
    ASSUME NEW f, NEW a, NEW m \in Nat, NEW g, NEW b, NEW n \in Nat, m <= n,
           Flattens(f, a, m), Flattens(g, b, n), \A i \in 1..m : a[i] = b[i]
    PROVE  \A i \in 1..m : f[i] = g[i]
<1> DEFINE H == {k \in Nat : k \in 1..m => f[k] = g[k]}
<1>1. 0 \in H
  OBVIOUS
<1>2. ASSUME NEW k \in Nat, k \in H PROVE k + 1 \in H
  <2> SUFFICES ASSUME k + 1 \in 1..m PROVE f[k + 1] = g[k + 1]
    OBVIOUS
  <2>1. /\ f[k + 1] = IF k + 1 = 1 THEN a[k + 1] ELSE f[(k + 1) - 1] \o a[k + 1]
        /\ g[k + 1] = IF k + 1 = 1 THEN b[k + 1] ELSE g[(k + 1) - 1] \o b[k + 1]
    <3>1. k + 1 \in 1..m /\ k + 1 \in 1..n
      OBVIOUS
    <3> QED BY <3>1, Zenon DEF Flattens
  <2>2. (k + 1) - 1 = k /\ (k + 1 # 1 => f[k] = g[k])
    BY <1>2
  <2>3. a[k + 1] = b[k + 1]
    OBVIOUS
  <2> QED BY <2>1, <2>2, <2>3, Zenon
<1> HIDE DEF H
<1>3. \A k \in Nat : k \in H
  BY <1>1, <1>2, InductionBySet
<1> QED BY <1>3 DEF H

LEMMA FlattensFurther ==
    ASSUME NEW g, NEW s, NEW n \in Nat, NEW f, NEW t, n # 0,
           Flattens(g, s, n), Flattens(f, t, n + 1), \A i \in 1..n : t[i] = s[i]
    PROVE  f[n] = g[n]
<1>1. n + 1 \in Nat /\ n <= n + 1 /\ n \in 1..n
  OBVIOUS
<1>2. \A i \in 1..n : s[i] = t[i]
  OBVIOUS
<1>3. \A i \in 1..n : g[i] = f[i]
  BY <1>1, <1>2, FlattensSame
<1> QED BY <1>1, <1>3

LEMMA FlattenEmpty == FlattenSeq(<<>>) = <<>>
BY DEF FlattenSeq

LEMMA FlattenAppend ==
    ASSUME NEW T, NEW s \in Seq(Seq(T)), FlattenSeq(s) \in Seq(T), NEW x \in Seq(T)
    PROVE  FlattenSeq(Append(s, x)) = FlattenSeq(s) \o x
<1>0. PICK n \in Nat : n = Len(s)
  OBVIOUS
<1>1. PICK t : t = Append(s, x)
  OBVIOUS
<1>2. n \in Nat /\ Len(t) = n + 1 /\ t[n + 1] = x /\ \A i \in 1..n : t[i] = s[i]
  BY <1>0, <1>1
<1>3. PICK f : Flattens(f, t, n + 1) /\ FlattenSeq(t) = f[n + 1]
  <2>1. PICK f : Flattens(f, t, Len(t)) /\ FlattenSeq(t) = f[Len(t)]
    BY <1>2, FlattenSeqUnfolds
  <2> QED BY <1>2, <2>1
<1>4. f[n + 1] = IF n + 1 = 1 THEN t[n + 1] ELSE f[(n + 1) - 1] \o t[n + 1]
  <2>1. n + 1 \in 1..(n + 1)
    BY <1>2
  <2> QED BY <1>3, <2>1, Zenon DEF Flattens
<1>5. CASE n = 0
  <2>1. FlattenSeq(s) = <<>>
    <3>1. s = <<>>
      <4>1. Len(s) = 0
        BY <1>0, <1>5
      <4> QED BY <4>1, NoElements
    <3> QED BY <3>1, FlattenEmpty
  <2>2. f[n + 1] = x
    BY <1>2, <1>4, <1>5
  <2>3. <<>> \o x = x
    OBVIOUS
  <2> QED BY <1>1, <1>3, <2>1, <2>2, <2>3
<1>6. CASE n # 0
  <2>1. PICK g : Flattens(g, s, n) /\ FlattenSeq(s) = g[n]
    BY <1>0, <1>6, FlattenSeqUnfolds
  <2>2. f[n] = g[n]
    <3>1. \A i \in 1..n : t[i] = s[i]
      BY <1>2
    <3> QED BY <1>3, <1>6, <2>1, <3>1, FlattensFurther
  <2>3. n + 1 # 1 /\ (n + 1) - 1 = n
    BY <1>2, <1>6
  <2>4. f[n + 1] = f[n] \o x
    BY <1>2, <1>4, <2>3
  <2> QED BY <1>1, <1>3, <2>1, <2>2, <2>4
<1> QED BY <1>5, <1>6

LEMMA FlattenType ==
    ASSUME NEW T
    PROVE  \A s \in Seq(Seq(T)) : FlattenSeq(s) \in Seq(T)
<1> DEFINE G == {s \in Seq(Seq(T)) : FlattenSeq(s) \in Seq(T)}
<1>1. <<>> \in G
  <2>1. <<>> \in Seq(Seq(T)) /\ <<>> \in Seq(T)
    OBVIOUS
  <2> QED BY <2>1, FlattenEmpty, Zenon
<1>2. ASSUME NEW s \in Seq(Seq(T)), NEW x \in Seq(T), s \in G PROVE Append(s, x) \in G
  <2>1. FlattenSeq(Append(s, x)) = FlattenSeq(s) \o x
    BY <1>2, FlattenAppend
  <2>2. Append(s, x) \in Seq(Seq(T)) /\ FlattenSeq(s) \o x \in Seq(T)
    BY <1>2
  <2> QED BY <2>1, <2>2
<1> HIDE DEF G
<1>3. \A s \in Seq(Seq(T)) : s \in G
  BY <1>1, <1>2, InductionByAppend
<1> QED BY <1>3 DEF G

LEMMA FlattenConcat ==
    ASSUME NEW T, NEW s \in Seq(Seq(T))
    PROVE  \A t \in Seq(Seq(T)) : FlattenSeq(s \o t) = FlattenSeq(s) \o FlattenSeq(t)
<1> DEFINE G == {t \in Seq(Seq(T)) : FlattenSeq(s \o t) = FlattenSeq(s) \o FlattenSeq(t)}
<1>0. FlattenSeq(s) \in Seq(T)
  BY FlattenType
<1>1. <<>> \in G
  <2>1. s \o <<>> = s /\ FlattenSeq(s) \o <<>> = FlattenSeq(s)
    BY <1>0
  <2>2. <<>> \in Seq(Seq(T))
    OBVIOUS
  <2> QED BY <2>1, <2>2, FlattenEmpty, Zenon
<1>2. ASSUME NEW t \in Seq(Seq(T)), NEW x \in Seq(T), t \in G PROVE Append(t, x) \in G
  <2>1. PICK u : u = s \o t
    OBVIOUS
  <2>2. s \o Append(t, x) = Append(u, x) /\ u \in Seq(Seq(T)) /\ Append(t, x) \in Seq(Seq(T))
    BY <2>1, ConcatAppend
  <2>3. FlattenSeq(Append(u, x)) = FlattenSeq(u) \o x
    BY <2>2, FlattenType, FlattenAppend
  <2>4. PICK w : w = FlattenSeq(t) \o x
    OBVIOUS
  <2>5. FlattenSeq(Append(t, x)) = w
    BY <2>4, FlattenType, FlattenAppend
  <2>6. FlattenSeq(u) = FlattenSeq(s) \o FlattenSeq(t)
    BY <1>2, <2>1
  <2>7. FlattenSeq(t) \in Seq(T)
    BY FlattenType
  <2>8. (FlattenSeq(s) \o FlattenSeq(t)) \o x = FlattenSeq(s) \o w
    BY <1>0, <2>4, <2>7, ConcatJoins
  <2> QED BY <2>2, <2>3, <2>5, <2>6, <2>8
<1> HIDE DEF G
<1>3. \A t \in Seq(Seq(T)) : t \in G
  BY <1>1, <1>2, InductionByAppend
<1> QED BY <1>3 DEF G

-----------------------------------------------------------------------------
(* The pieces of a sequence between cuts. *)

\* The positions in e cut a sequence of n tokens, at its end at the latest; a cut is w wide.
Cuts(e, n, w) ==
    /\ e \in Seq(Nat)
    /\ \A k \in DOMAIN e : 1 <= e[k] /\ e[k] <= n + 1 /\ (k > 1 => e[k - 1] + w <= e[k])

CutEnd(e, w) == IF e = <<>> THEN 0 ELSE e[Len(e)] + w - 1

LEMMA PieceIs ==
    ASSUME NEW T, NEW s \in Seq(T), NEW e, NEW w \in Nat, Cuts(e, Len(s), w), NEW k \in DOMAIN e, NEW m, NEW n,
           m = (IF k = 1 THEN 1 ELSE e[k - 1] + w), n = e[k] - 1
    PROVE  /\ m \in Nat /\ m >= 1 /\ n \in Nat /\ m <= n + 1 /\ n <= Len(s)
           /\ SubSeq(s, m, n) \in Seq(T)
<1>1. e \in Seq(Nat) /\ 1 <= e[k] /\ e[k] <= Len(s) + 1 /\ (k > 1 => e[k - 1] + w <= e[k])
  BY DEF Cuts
<1>2. e[k] \in Nat /\ k \in 1..Len(e) /\ Len(s) \in Nat
  BY <1>1
<1>3. CASE k = 1
  <2>1. m \in Nat /\ m >= 1 /\ n \in Nat /\ m <= n + 1 /\ n <= Len(s)
    BY <1>1, <1>2, <1>3
  <2> QED BY <2>1, SliceIs
<1>4. CASE k # 1
  <2>1. e[k - 1] \in Nat /\ 1 <= e[k - 1]
    <3>1. k - 1 \in DOMAIN e
      BY <1>1, <1>4
    <3> QED BY <1>1, <3>1 DEF Cuts
  <2>2. k > 1
    BY <1>2, <1>4
  <2>3. m \in Nat /\ m >= 1 /\ n \in Nat /\ m <= n + 1 /\ n <= Len(s)
    <3>1. m = e[k - 1] + w /\ n = e[k] - 1
      BY <1>4
    <3>2. e[k - 1] + w <= e[k] /\ e[k] <= Len(s) + 1
      BY <1>1, <2>2
    <3>3. e[k] \in Nat /\ e[k] >= 1 /\ Len(s) \in Nat
      BY <1>1, <1>2
    <3> QED BY <2>1, <3>1, <3>2, <3>3
  <2> QED BY <2>3, SliceIs
<1> QED BY <1>3, <1>4

LEMMA PiecesType ==
    ASSUME NEW T, NEW s \in Seq(T), NEW e, NEW w \in Nat, Cuts(e, Len(s), w)
    PROVE  Pieces(s, e, w) \in Seq(Seq(T)) /\ Len(Pieces(s, e, w)) = Len(e)
<1>1. PICK n \in Nat : n = Len(e) /\ DOMAIN e = 1..n
  BY DEF Cuts
<1>2. \A k \in 1..n : SubSeq(s, IF k = 1 THEN 1 ELSE e[k - 1] + w, e[k] - 1) \in Seq(T)
  BY <1>1, PieceIs
<1>3. Pieces(s, e, w) \in [1..n -> Seq(T)]
  BY <1>1, <1>2 DEF Pieces
<1> QED BY <1>1, <1>3, FunctionIsSeq

\* What follows a slice does not change it.
LEMMA SliceKept ==
    ASSUME NEW T, NEW s \in Seq(T), NEW u \in Seq(T), NEW r, r = s \o u,
           NEW m \in Nat, m >= 1, NEW n \in Nat, m <= n + 1, n <= Len(s)
    PROVE  SubSeq(r, m, n) = SubSeq(s, m, n)
<1>1. r \in Seq(T) /\ Len(r) = Len(s) + Len(u) /\ \A i \in 1..Len(s) : r[i] = s[i]
  OBVIOUS
<1>2. PICK a : a = SubSeq(r, m, n)
  OBVIOUS
<1>3. PICK b : b = SubSeq(s, m, n)
  OBVIOUS
<1>4. n <= Len(r) /\ Len(s) \in Nat
  BY <1>1
<1>5. /\ a \in Seq(T) /\ Len(a) = n - m + 1 /\ \A i \in 1..(n - m + 1) : a[i] = r[m + i - 1]
      /\ b \in Seq(T) /\ Len(b) = n - m + 1 /\ \A i \in 1..(n - m + 1) : b[i] = s[m + i - 1]
  BY <1>1, <1>2, <1>3, <1>4, SliceIs
<1>6. \A i \in 1..(n - m + 1) : m + i - 1 \in 1..Len(s)
  BY <1>4
<1>7. a = b
  BY <1>1, <1>5, <1>6, SameSequence
<1> QED BY <1>2, <1>3, <1>7

\* The sequence s, cut at e, goes on with u.
GoesOn(T, s, u, r, e, w) ==
    /\ s \in Seq(T) /\ u \in Seq(T) /\ r = s \o u
    /\ w \in Nat /\ Cuts(e, Len(s), w)

OneMoreCut(T, s, u, r, e, w, n, f) ==
    GoesOn(T, s, u, r, e, w) /\ n \in Nat /\ f = Append(e, n) /\ Cuts(f, Len(r), w)

PieceAdded(s, r, e, f, w, n) == Pieces(r, f, w) = Append(Pieces(s, e, w), SubSeq(r, CutEnd(e, w) + 1, n - 1))

\* One more cut in a longer sequence is one more piece.
LEMMA PiecesAppend ==
    ASSUME NEW T, NEW s, NEW u, NEW r, NEW e, NEW w, NEW n, NEW f, OneMoreCut(T, s, u, r, e, w, n, f)
    PROVE  PieceAdded(s, r, e, f, w, n)
<1>0. /\ s \in Seq(T) /\ u \in Seq(T) /\ r = s \o u /\ w \in Nat /\ Cuts(e, Len(s), w)
      /\ n \in Nat /\ f = Append(e, n) /\ Cuts(f, Len(r), w)
  BY DEF GoesOn, OneMoreCut
<1>1. PICK m \in Nat : m = Len(e) /\ DOMAIN e = 1..m
  BY <1>0 DEF Cuts
<1>2. e \in Seq(Nat) /\ r \in Seq(T)
  BY <1>0 DEF Cuts
<1>3. DOMAIN f = 1..(m + 1) /\ f[m + 1] = n /\ \A k \in 1..m : f[k] = e[k]
  BY <1>0, <1>1, <1>2
<1>4. PICK p : p = SubSeq(r, CutEnd(e, w) + 1, n - 1)
  OBVIOUS
<1>5. p = SubSeq(r, IF m + 1 = 1 THEN 1 ELSE f[(m + 1) - 1] + w, f[m + 1] - 1)
  <2>1. CASE m = 0
    <3>1. e = <<>>
      BY <1>1, <1>2, <2>1
    <3> QED BY <1>3, <1>4, <2>1, <3>1 DEF CutEnd
  <2>2. CASE m # 0
    <3>1. e # <<>> /\ (m + 1) - 1 = m /\ m \in 1..m /\ m + 1 # 1
      BY <1>1, <1>2, <2>2
    <3>2. f[m] = e[m] /\ e[m] \in Nat
      BY <1>1, <1>2, <1>3, <3>1
    <3>3. CutEnd(e, w) + 1 = e[m] + w
      BY <1>0, <1>1, <3>1, <3>2 DEF CutEnd
    <3> QED BY <1>3, <1>4, <3>1, <3>2, <3>3
  <2> QED BY <2>1, <2>2
<1>6. p \in Seq(T)
  <2>1. m + 1 \in DOMAIN f
    BY <1>3
  <2> QED BY <1>0, <1>2, <1>5, <2>1, PieceIs
<1>7. ASSUME NEW k \in 1..m
      PROVE  /\ SubSeq(r, IF k = 1 THEN 1 ELSE f[k - 1] + w, f[k] - 1)
                = SubSeq(s, IF k = 1 THEN 1 ELSE e[k - 1] + w, e[k] - 1)
             /\ SubSeq(s, IF k = 1 THEN 1 ELSE e[k - 1] + w, e[k] - 1) \in Seq(T)
  <2>1. PICK a : a = (IF k = 1 THEN 1 ELSE e[k - 1] + w)
    OBVIOUS
  <2>2. PICK b : b = e[k] - 1
    OBVIOUS
  <2>3. f[k] = e[k] /\ (k # 1 => f[k - 1] = e[k - 1])
    BY <1>3
  <2>4. a = (IF k = 1 THEN 1 ELSE f[k - 1] + w) /\ b = f[k] - 1
    BY <2>1, <2>2, <2>3
  <2>5. a \in Nat /\ a >= 1 /\ b \in Nat /\ a <= b + 1 /\ b <= Len(s) /\ SubSeq(s, a, b) \in Seq(T)
    BY <1>0, <1>1, <2>1, <2>2, PieceIs
  <2>6. SubSeq(r, a, b) = SubSeq(s, a, b)
    BY <1>0, <2>5, SliceKept
  <2> QED BY <2>1, <2>2, <2>4, <2>5, <2>6
<1> DEFINE P == Pieces(s, e, w)
           R == Pieces(r, f, w)
<1>8. P = [k \in 1..m |-> SubSeq(s, IF k = 1 THEN 1 ELSE e[k - 1] + w, e[k] - 1)]
  BY <1>1 DEF Pieces
<1>9. R = [k \in 1..(m + 1) |-> SubSeq(r, IF k = 1 THEN 1 ELSE f[k - 1] + w, f[k] - 1)]
  BY <1>3 DEF Pieces
<1>10. P \in [1..m -> Seq(T)]
  BY <1>7, <1>8
<1>11. R = [k \in 1..(m + 1) |-> IF k = m + 1 THEN p ELSE P[k]]
  <2>1. ASSUME NEW k \in 1..(m + 1)
        PROVE  SubSeq(r, IF k = 1 THEN 1 ELSE f[k - 1] + w, f[k] - 1) = IF k = m + 1 THEN p ELSE P[k]
    <3>1. CASE k = m + 1
      BY <1>5, <3>1
    <3>2. CASE k # m + 1
      <4>1. k \in 1..m
        BY <3>2
      <4> QED BY <1>7, <1>8, <3>2, <4>1
    <3> QED BY <3>1, <3>2
  <2> QED BY <1>9, <2>1
<1> HIDE DEF P, R
<1>12. R = Append(P, p)
  <2>1. PICK W : W = Seq(T)
    OBVIOUS
  <2>2. P \in [1..m -> W] /\ p \in W
    BY <1>6, <1>10, <2>1
  <2>3. R \in [1..(m + 1) -> W] /\ R[m + 1] = p /\ \A k \in 1..m : R[k] = P[k]
    BY <1>11, <2>2
  <2> QED BY <2>2, <2>3, SequenceExtends
<1> QED BY <1>4, <1>12 DEF P, R, PieceAdded

-----------------------------------------------------------------------------
(* Packets found in the buffer, one more token at a time. *)

\* The tokens of a packet: the protocol's own and those of what players write.
Symbols ==
    {"#", "%", "&", "$", "<pound>", "<percent>", "<and>", "<dollar>",
     "MS", "CT", "LE", "HP", "BN", "bg", "name", "0", "1", "2", "10"}
Token == Symbols \cup UNION {ToSet(t) : t \in IcTexts \cup OocTexts \cup EvNames}
Wire == Seq(Token)
Packets == [header : Wire, fields : Seq(Wire)]

\* A sequence of marks, each a position or nothing: one more position is one more mark.
Longer(M, n, f, x, g) ==
    /\ n \in Nat /\ f \in [1..n -> Seq(M)] /\ x \in Seq(M) /\ g \in [1..(n + 1) -> Seq(M)]
    /\ g[n + 1] = x /\ \A i \in 1..n : g[i] = f[i]

LEMMA SymbolsAreTokens == Symbols \subseteq Token /\ "#" \in Token /\ "%" \in Token
BY DEF Symbols, Token

LEMMA OneMoreMark ==
    ASSUME NEW M, NEW n, NEW f, NEW x, NEW g, Longer(M, n, f, x, g)
    PROVE  FlattenSeq(f) \in Seq(M) /\ FlattenSeq(g) = FlattenSeq(f) \o x
<1>1. PICK W : W = Seq(M)
  OBVIOUS
<1>2. f \in Seq(W) /\ g = Append(f, x)
  <2>1. n \in Nat /\ f \in [1..n -> W] /\ x \in W /\ g \in [1..(n + 1) -> W]
        /\ g[n + 1] = x /\ \A i \in 1..n : g[i] = f[i]
    BY <1>1 DEF Longer
  <2> QED BY <2>1, SequenceExtends
<1>3. FlattenSeq(f) \in Seq(M)
  BY <1>1, <1>2, FlattenType
<1> QED BY <1>1, <1>2, <1>3, FlattenAppend DEF Longer

Closes(r, t) == r # <<>> /\ r[Len(r)] = "#" /\ t = "%"

LEMMA DelimitersAppend ==
    ASSUME NEW b \in Wire, NEW t \in Token, NEW c, c = Append(b, t)
    PROVE  /\ Delimiters(b) \in Seq(Nat)
           /\ Delimiters(c) = IF Closes(b, t) THEN Append(Delimiters(b), Len(b)) ELSE Delimiters(b)
<1>1. PICK n \in Nat : n = Len(b) /\ DOMAIN b = 1..n
  BY DEF Wire
<1>2. DOMAIN c = 1..(n + 1) /\ c[n + 1] = t /\ \A i \in 1..n : c[i] = b[i]
  <2>1. b \in Seq(Token)
    BY DEF Wire
  <2>2. DOMAIN c = 1..(Len(b) + 1) /\ c[Len(b) + 1] = t /\ \A i \in 1..Len(b) : c[i] = b[i]
    BY <2>1, AppendIs
  <2> QED BY <1>1, <2>2
<1> DEFINE F == [i \in 1..n |-> IF i > 1 /\ b[i - 1] = "#" /\ b[i] = "%" THEN <<i - 1>> ELSE <<>>]
           G == [i \in 1..(n + 1) |-> IF i > 1 /\ c[i - 1] = "#" /\ c[i] = "%" THEN <<i - 1>> ELSE <<>>]
<1>3. Delimiters(b) = FlattenSeq(F) /\ Delimiters(c) = FlattenSeq(G)
  BY <1>1, <1>2 DEF Delimiters
<1>4. \A i \in 1..(n + 1) : i - 1 \in Nat
  OBVIOUS
<1>5. \A i \in Nat : <<i>> \in Seq(Nat)
  OBVIOUS
<1>6. <<>> \in Seq(Nat)
  OBVIOUS
<1>7. F \in [1..n -> Seq(Nat)]
  BY <1>4, <1>5, <1>6
<1>8. G \in [1..(n + 1) -> Seq(Nat)]
  BY <1>4, <1>5, <1>6
<1>9. \A i \in 1..n : G[i] = F[i]
  <2>1. \A i \in 1..n : i \in 1..(n + 1) /\ (i > 1 => i - 1 \in 1..n)
    OBVIOUS
  <2>2. \A i \in 1..n : i \in 1..(n + 1) /\ c[i] = b[i] /\ (i > 1 => c[i - 1] = b[i - 1])
    BY <1>2, <2>1
  <2> QED BY <2>2
<1>10. G[n + 1] = IF Closes(b, t) THEN <<n>> ELSE <<>>
  <2>1. n + 1 \in 1..(n + 1) /\ (n + 1) - 1 = n
    OBVIOUS
  <2>2. Closes(b, t) <=> n + 1 > 1 /\ c[n] = "#" /\ c[n + 1] = "%"
    <3>1. b # <<>> <=> n # 0
      BY <1>1 DEF Wire
    <3>2. n # 0 => n \in 1..n
      OBVIOUS
    <3> QED BY <1>1, <1>2, <3>1, <3>2 DEF Closes
  <2> QED BY <2>1, <2>2
<1>11. PICK x : x = G[n + 1] /\ x \in Seq(Nat)
  <2>1. n + 1 \in 1..(n + 1)
    OBVIOUS
  <2> QED BY <1>8, <2>1
<1> HIDE DEF F, G
<1>12. FlattenSeq(F) \in Seq(Nat) /\ FlattenSeq(G) = FlattenSeq(F) \o x
  <2>1. PICK f : f = F
    OBVIOUS
  <2>2. PICK g : g = G
    OBVIOUS
  <2>3. f \in [1..n -> Seq(Nat)] /\ g \in [1..(n + 1) -> Seq(Nat)] /\ g[n + 1] = x /\ \A i \in 1..n : g[i] = f[i]
    BY <1>7, <1>8, <1>9, <1>11, <2>1, <2>2
  <2>4. FlattenSeq(f) \in Seq(Nat) /\ FlattenSeq(g) = FlattenSeq(f) \o x
    <3>1. Longer(Nat, n, f, x, g)
      BY <1>11, <2>3 DEF Longer
    <3> QED BY <3>1, OneMoreMark
  <2> QED BY <2>1, <2>2, <2>4
<1>13. CASE Closes(b, t)
  BY <1>1, <1>3, <1>10, <1>11, <1>12, <1>13, ConcatOne
<1>14. CASE ~Closes(b, t)
  BY <1>3, <1>10, <1>11, <1>12, <1>14, ConcatEmpty
<1> QED BY <1>3, <1>12, <1>13, <1>14

\* Every delimiter is two tokens of the buffer, after the one before it.
DelimitersCut(b) ==
    /\ Cuts(Delimiters(b), Len(b), 2)
    /\ \A k \in DOMAIN Delimiters(b) :
           LET i == Delimiters(b)[k] IN i + 1 \in DOMAIN b /\ b[i] = "#" /\ b[i + 1] = "%"

LEMMA DelimitersEmpty == Delimiters(<<>>) = <<>>
<1>1. [i \in DOMAIN <<>> |-> IF i > 1 /\ <<>>[i - 1] = "#" /\ <<>>[i] = "%" THEN <<i - 1>> ELSE <<>>] = <<>>
  OBVIOUS
<1> QED BY <1>1, FlattenEmpty DEF Delimiters

LEMMA DelimitersCutAppend ==
    ASSUME NEW b \in Wire, NEW t \in Token, NEW c, c = Append(b, t), DelimitersCut(b)
    PROVE  DelimitersCut(c)
<1>1. PICK n \in Nat : n = Len(b) /\ DOMAIN b = 1..n
  BY DEF Wire
<1>2. DOMAIN c = 1..(n + 1) /\ c[n + 1] = t /\ (\A i \in 1..n : c[i] = b[i]) /\ Len(c) = n + 1
  <2>1. b \in Seq(Token)
    BY DEF Wire
  <2>2. DOMAIN c = 1..(Len(b) + 1) /\ c[Len(b) + 1] = t /\ (\A i \in 1..Len(b) : c[i] = b[i]) /\ Len(c) = Len(b) + 1
    BY <2>1, AppendIs
  <2> QED BY <1>1, <2>2
<1>3. PICK d : d = Delimiters(b)
  OBVIOUS
<1>4. d \in Seq(Nat) /\ Delimiters(c) = IF Closes(b, t) THEN Append(d, n) ELSE d
  BY <1>1, <1>3, DelimitersAppend
<1>5. PICK m \in Nat : m = Len(d) /\ DOMAIN d = 1..m
  BY <1>4
<1>6. \A k \in 1..m : /\ d[k] \in Nat /\ 1 <= d[k] /\ d[k] <= n + 1 /\ (k > 1 => d[k - 1] + 2 <= d[k])
                      /\ d[k] + 1 \in 1..n /\ b[d[k]] = "#" /\ b[d[k] + 1] = "%"
  <2>1. \A k \in 1..m : 1 <= d[k] /\ d[k] <= n + 1 /\ (k > 1 => d[k - 1] + 2 <= d[k])
    BY <1>1, <1>3, <1>5 DEF DelimitersCut, Cuts
  <2>2. \A k \in 1..m : d[k] + 1 \in 1..n /\ b[d[k]] = "#" /\ b[d[k] + 1] = "%"
    BY <1>1, <1>3, <1>5, Zenon DEF DelimitersCut
  <2>3. \A k \in 1..m : d[k] \in Nat
    BY <1>4, <1>5
  <2> QED BY <2>1, <2>2, <2>3
<1>7. \A k \in 1..m : /\ d[k] <= (n + 1) + 1
                      /\ d[k] + 1 \in 1..(n + 1) /\ c[d[k]] = "#" /\ c[d[k] + 1] = "%"
  <2>1. \A k \in 1..m : d[k] \in 1..n
    BY <1>6
  <2> QED BY <1>2, <1>6, <2>1
<1>8. CASE ~Closes(b, t)
  <2>1. Delimiters(c) = d
    BY <1>4, <1>8
  <2>2. Cuts(Delimiters(c), Len(c), 2)
    BY <1>2, <1>4, <1>5, <1>6, <1>7, <2>1 DEF Cuts
  <2> QED BY <1>2, <1>5, <1>7, <2>1, <2>2 DEF DelimitersCut
<1>9. CASE Closes(b, t)
  <2>1. PICK e : e = Append(d, n)
    OBVIOUS
  <2>2. Delimiters(c) = e /\ e \in Seq(Nat) /\ DOMAIN e = 1..(m + 1) /\ e[m + 1] = n /\ \A k \in 1..m : e[k] = d[k]
    BY <1>4, <1>5, <1>9, <2>1
  <2>3. n \in 1..n /\ b[n] = "#" /\ t = "%"
    <3>1. n # 0
      BY <1>1, <1>9 DEF Closes, Wire
    <3> QED BY <1>1, <1>9, <3>1 DEF Closes
  <2>4. ASSUME NEW k \in 1..(m + 1)
        PROVE  /\ 1 <= e[k] /\ e[k] <= (n + 1) + 1 /\ (k > 1 => e[k - 1] + 2 <= e[k])
               /\ e[k] + 1 \in 1..(n + 1) /\ c[e[k]] = "#" /\ c[e[k] + 1] = "%"
    <3>1. CASE k = m + 1
      <4>1. 1 <= n /\ n <= (n + 1) + 1 /\ n + 1 \in 1..(n + 1) /\ c[n] = "#" /\ c[n + 1] = "%"
        BY <1>2, <2>3
      <4>2. ASSUME k > 1 PROVE e[k - 1] + 2 <= n
        <5>1. m \in 1..m /\ k - 1 = m
          BY <3>1, <4>2
        <5>2. e[m] = d[m] /\ d[m] \in Nat /\ d[m] + 1 \in 1..n /\ b[d[m] + 1] = "%"
          BY <1>6, <2>2, <5>1
        <5>3. d[m] + 1 # n
          BY <2>3, <5>2
        <5>4. e[k - 1] = d[m]
          BY <5>1, <5>2
        <5> QED BY <5>2, <5>3, <5>4
      <4>3. e[k] = n
        BY <2>2, <3>1
      <4> QED BY <4>1, <4>2, <4>3
    <3>2. CASE k # m + 1
      <4>1. k \in 1..m /\ e[k] = d[k] /\ (k > 1 => e[k - 1] = d[k - 1])
        BY <2>2, <3>2
      <4> QED BY <1>6, <1>7, <4>1
    <3> QED BY <3>1, <3>2
  <2>5. Cuts(Delimiters(c), Len(c), 2)
    BY <1>2, <2>2, <2>4 DEF Cuts
  <2> QED BY <1>2, <2>2, <2>4, <2>5 DEF DelimitersCut
<1> QED BY <1>8, <1>9

LEMMA DelimitersAreCuts == \A b \in Wire : DelimitersCut(b)
<1> DEFINE G == {b \in Wire : DelimitersCut(b)}
<1>1. <<>> \in G
  <2>1. <<>> \in Wire /\ DOMAIN <<>> = {} /\ <<>> \in Seq(Nat)
    BY DEF Wire
  <2> QED BY <2>1, DelimitersEmpty DEF DelimitersCut, Cuts
<1>2. ASSUME NEW b \in Seq(Token), NEW t \in Token, b \in G PROVE Append(b, t) \in G
  <2>1. PICK c : c = Append(b, t)
    OBVIOUS
  <2>2. DelimitersCut(c)
    BY <1>2, <2>1, DelimitersCutAppend
  <2>3. c \in Wire
    BY <2>1, AppendIs DEF Wire
  <2> QED BY <2>1, <2>2, <2>3
<1> HIDE DEF G
<1>3. \A b \in Seq(Token) : b \in G
  BY <1>1, <1>2, InductionByAppend
<1> QED BY <1>3 DEF G, Wire

-----------------------------------------------------------------------------
(* Fields. *)

LEMMA SeparatorsAppend ==
    ASSUME NEW s \in Wire, NEW t \in Token, NEW sep \in Token, NEW c, c = Append(s, t)
    PROVE  /\ Separators(s, sep) \in Seq(Nat)
           /\ t = sep => Separators(c, sep) = Append(Separators(s, sep), Len(s) + 1)
           /\ t # sep => Separators(c, sep) = Separators(s, sep)
<1>1. PICK n \in Nat : n = Len(s) /\ DOMAIN s = 1..n
  BY DEF Wire
<1>2. DOMAIN c = 1..(n + 1) /\ c[n + 1] = t /\ \A i \in 1..n : c[i] = s[i]
  <2>1. s \in Seq(Token)
    BY DEF Wire
  <2>2. DOMAIN c = 1..(Len(s) + 1) /\ c[Len(s) + 1] = t /\ \A i \in 1..Len(s) : c[i] = s[i]
    BY <2>1, AppendIs
  <2> QED BY <1>1, <2>2
<1>3. PICK f : f = [i \in 1..n |-> IF s[i] = sep THEN <<i>> ELSE <<>>]
  OBVIOUS
<1>4. PICK g : g = [i \in 1..(n + 1) |-> IF c[i] = sep THEN <<i>> ELSE <<>>]
  OBVIOUS
<1>5. Separators(s, sep) = FlattenSeq(f) /\ Separators(c, sep) = FlattenSeq(g)
  BY <1>1, <1>2, <1>3, <1>4 DEF Separators
<1>6. \A i \in Nat : <<i>> \in Seq(Nat)
  OBVIOUS
<1>7. <<>> \in Seq(Nat)
  OBVIOUS
<1>8. f \in [1..n -> Seq(Nat)] /\ g \in [1..(n + 1) -> Seq(Nat)]
  BY <1>3, <1>4, <1>6, <1>7
<1>9. g[n + 1] = (IF t = sep THEN <<n + 1>> ELSE <<>>) /\ \A i \in 1..n : g[i] = f[i]
  <2>1. n + 1 \in 1..(n + 1) /\ \A i \in 1..n : i \in 1..(n + 1)
    OBVIOUS
  <2> QED BY <1>2, <1>3, <1>4, <2>1
<1>10. PICK x : x = g[n + 1] /\ x \in Seq(Nat)
  <2>1. n + 1 \in 1..(n + 1)
    OBVIOUS
  <2> QED BY <1>8, <2>1
<1>11. Longer(Nat, n, f, x, g)
  BY <1>8, <1>9, <1>10 DEF Longer
<1>12. FlattenSeq(f) \in Seq(Nat) /\ FlattenSeq(g) = FlattenSeq(f) \o x
  BY <1>11, OneMoreMark
<1>13. CASE t = sep
  BY <1>1, <1>5, <1>9, <1>10, <1>12, <1>13, ConcatOne
<1>14. CASE t # sep
  BY <1>5, <1>9, <1>10, <1>12, <1>14, ConcatEmpty
<1> QED BY <1>5, <1>12, <1>13, <1>14

LEMMA SeparatorsEmpty == ASSUME NEW sep \in Token PROVE Separators(<<>>, sep) = <<>>
<1>1. [i \in DOMAIN <<>> |-> IF <<>>[i] = sep THEN <<i>> ELSE <<>>] = <<>>
  OBVIOUS
<1> QED BY <1>1, FlattenEmpty DEF Separators

\* Each separator is a token of the text, after the one before it.
Ascending(d, n) ==
    /\ d \in Seq(Nat)
    /\ \A k \in DOMAIN d : 1 <= d[k] /\ d[k] <= n /\ (k > 1 => d[k - 1] + 1 <= d[k])

LEMMA LastIsLargest ==
    ASSUME NEW m \in Nat, NEW n \in Nat, NEW d, NEW e, e[m + 1] = n + 1, \A k \in 1..m : e[k] = d[k],
           \A k \in 1..m : d[k] \in Nat /\ 1 <= d[k] /\ d[k] <= n /\ (k > 1 => d[k - 1] + 1 <= d[k])
    PROVE  \A k \in 1..(m + 1) : 1 <= e[k] /\ e[k] <= n + 1 /\ (k > 1 => e[k - 1] + 1 <= e[k])
<1> SUFFICES ASSUME NEW k \in 1..(m + 1)
             PROVE  1 <= e[k] /\ e[k] <= n + 1 /\ (k > 1 => e[k - 1] + 1 <= e[k])
  OBVIOUS
<1>1. ASSUME k > 1 PROVE k - 1 \in 1..m /\ e[k - 1] = d[k - 1] /\ d[k - 1] \in Nat /\ d[k - 1] <= n
  BY <1>1
<1>2. CASE k = m + 1
  BY <1>1, <1>2
<1>3. CASE k # m + 1
  <2>1. k \in 1..m /\ e[k] = d[k]
    BY <1>3
  <2> QED BY <1>1, <2>1
<1> QED BY <1>2, <1>3

LEMMA AscendingAppend ==
    ASSUME NEW d, NEW n \in Nat, Ascending(d, n), NEW e, e = Append(d, n + 1)
    PROVE  Ascending(d, n + 1) /\ Ascending(e, n + 1) /\ Cuts(e, n, 1)
<1>1. PICK m \in Nat : m = Len(d) /\ DOMAIN d = 1..m
  BY DEF Ascending
<1>2. d \in Seq(Nat)
  BY DEF Ascending
<1>3. \A k \in 1..m : d[k] \in Nat /\ 1 <= d[k] /\ d[k] <= n /\ (k > 1 => d[k - 1] + 1 <= d[k])
  BY <1>1, <1>2 DEF Ascending
<1>4. Ascending(d, n + 1)
  BY <1>1, <1>2, <1>3 DEF Ascending
<1>5. e \in Seq(Nat) /\ DOMAIN e = 1..(m + 1) /\ e[m + 1] = n + 1 /\ \A k \in 1..m : e[k] = d[k]
  BY <1>1, <1>2
<1>6. \A k \in 1..(m + 1) : 1 <= e[k] /\ e[k] <= n + 1 /\ (k > 1 => e[k - 1] + 1 <= e[k])
  BY <1>3, <1>5, LastIsLargest
<1>7. Ascending(e, n + 1) /\ Cuts(e, n, 1)
  BY <1>5, <1>6 DEF Ascending, Cuts
<1> QED BY <1>4, <1>7

LEMMA SeparatorsAscendAppend ==
    ASSUME NEW s \in Wire, NEW t \in Token, NEW sep \in Token, NEW c, c = Append(s, t), Ascending(Separators(s, sep), Len(s))
    PROVE  Ascending(Separators(c, sep), Len(c))
<1>1. Len(c) = Len(s) + 1 /\ Len(s) \in Nat
  BY AppendIs DEF Wire
<1>2. PICK d : d = Separators(s, sep)
  OBVIOUS
<1>3. PICK e : e = Append(d, Len(s) + 1)
  OBVIOUS
<1>4. Separators(c, sep) = d \/ Separators(c, sep) = e
  BY <1>2, <1>3, SeparatorsAppend
<1>5. Ascending(d, Len(s))
  BY <1>2
<1>6. Ascending(d, Len(s) + 1) /\ Ascending(e, Len(s) + 1)
  BY <1>1, <1>3, <1>5, AscendingAppend
<1> QED BY <1>1, <1>4, <1>6

LEMMA SeparatorsAscend ==
    ASSUME NEW sep \in Token
    PROVE  \A s \in Wire : Ascending(Separators(s, sep), Len(s))
<1> DEFINE G == {s \in Wire : Ascending(Separators(s, sep), Len(s))}
<1>1. <<>> \in G
  <2>1. <<>> \in Wire /\ DOMAIN <<>> = {} /\ <<>> \in Seq(Nat)
    BY DEF Wire
  <2> QED BY <2>1, SeparatorsEmpty DEF Ascending
<1>2. ASSUME NEW s \in Seq(Token), NEW t \in Token, s \in G PROVE Append(s, t) \in G
  <2>1. PICK c : c = Append(s, t)
    OBVIOUS
  <2>2. c \in Wire /\ s \in Wire
    BY <2>1, AppendIs DEF Wire
  <2>3. Ascending(Separators(c, sep), Len(c))
    BY <1>2, <2>1, <2>2, SeparatorsAscendAppend
  <2> QED BY <2>1, <2>2, <2>3
<1> HIDE DEF G
<1>3. \A s \in Seq(Token) : s \in G
  BY <1>1, <1>2, InductionByAppend
<1> QED BY <1>3 DEF G, Wire

LEMMA SplitCuts ==
    ASSUME NEW s \in Wire, NEW sep \in Token, NEW e, e = Append(Separators(s, sep), Len(s) + 1)
    PROVE  Cuts(e, Len(s), 1) /\ Split(s, sep) = Pieces(s, e, 1)
<1>1. Len(s) \in Nat
  BY DEF Wire
<1>2. PICK d : d = Separators(s, sep)
  OBVIOUS
<1>3. Ascending(d, Len(s))
  BY <1>2, SeparatorsAscend
<1>4. e = Append(d, Len(s) + 1)
  BY <1>2
<1>5. Cuts(e, Len(s), 1)
  BY <1>1, <1>3, <1>4, AscendingAppend
<1> QED BY <1>5 DEF Split

LEMMA SplitType ==
    ASSUME NEW s \in Wire, NEW sep \in Token
    PROVE  Split(s, sep) \in Seq(Wire) /\ Len(Split(s, sep)) >= 1
<1>1. PICK e : e = Append(Separators(s, sep), Len(s) + 1)
  OBVIOUS
<1>2. Cuts(e, Len(s), 1) /\ Split(s, sep) = Pieces(s, e, 1)
  BY <1>1, SplitCuts
<1>3. s \in Seq(Token) /\ 1 \in Nat
  BY DEF Wire
<1>4. Pieces(s, e, 1) \in Seq(Seq(Token)) /\ Len(Pieces(s, e, 1)) = Len(e)
  BY <1>2, <1>3, PiecesType
<1>5. Len(e) >= 1
  <2>1. Ascending(Separators(s, sep), Len(s)) /\ Len(s) \in Nat
    BY SeparatorsAscend DEF Wire
  <2>2. Separators(s, sep) \in Seq(Nat)
    BY <2>1 DEF Ascending
  <2> QED BY <1>1, <2>1, <2>2
<1> QED BY <1>2, <1>4, <1>5 DEF Wire

LEMMA DeserializeType ==
    ASSUME NEW s \in Wire
    PROVE  deserialize(s) \in Packets
<1>1. PICK t : t = Split(s, "#")
  OBVIOUS
<1>2. t \in Seq(Wire) /\ Len(t) >= 1
  BY <1>1, SymbolsAreTokens, SplitType
<1>3. t[1] \in Wire /\ Tail(t) \in Seq(Wire)
  <2>1. t # <<>> /\ 1 \in DOMAIN t
    BY <1>2
  <2> QED BY <1>2, <2>1
<1> QED BY <1>1, <1>3 DEF deserialize, Packets

-----------------------------------------------------------------------------
(* The reassembly, one more token at a time. *)

\* How much of the buffer is in complete packets.
Handled(b) == CutEnd(Delimiters(b), 2)

\* r is what follows the first z tokens of b, whole packets.
LeftOver(r, b, z) ==
    /\ z \in 0..Len(b) /\ (z # 0 => b[z] = "%")
    /\ r = SubSeq(b, z + 1, Len(b)) /\ r \in Wire /\ Len(r) = Len(b) - z
    /\ \A i \in 1..(Len(b) - z) : r[i] = b[z + i]

LEMMA RestIs ==
    ASSUME NEW b \in Wire
    PROVE  LeftOver(Rest(b), b, Handled(b))
<1>0. PICK z : z = Handled(b)
  OBVIOUS
<1>1. PICK n \in Nat : n = Len(b) /\ DOMAIN b = 1..n
  BY DEF Wire
<1>2. PICK d : d = Delimiters(b)
  OBVIOUS
<1>3. d \in Seq(Nat) /\ DelimitersCut(b)
  BY <1>2, DelimitersAreCuts DEF DelimitersCut, Cuts
<1>4. z \in 0..n /\ (z # 0 => b[z] = "%") /\ Rest(b) = SubSeq(b, z + 1, n)
  <2>1. CASE d = <<>>
    <3>1. z = 0 /\ Rest(b) = b
      BY <1>0, <1>2, <2>1 DEF Handled, CutEnd, Rest
    <3>2. b = SubSeq(b, 1, n)
      BY <1>1 DEF Wire
    <3> QED BY <3>1, <3>2
  <2>2. CASE d # <<>>
    <3>1. PICK v : v = d[Len(d)]
      OBVIOUS
    <3>2. Len(d) \in DOMAIN d
      BY <1>3, <2>2
    <3>3. v + 1 \in 1..n /\ b[v + 1] = "%" /\ v \in Nat
      <4>1. v + 1 \in DOMAIN b /\ b[v + 1] = "%"
        BY <1>2, <1>3, <3>1, <3>2, Zenon DEF DelimitersCut
      <4>2. v \in Nat
        BY <1>3, <3>1, <3>2
      <4> QED BY <1>1, <4>1, <4>2
    <3>4. z = v + 1
      <4>1. z = v + 2 - 1
        BY <1>0, <1>2, <2>2, <3>1 DEF Handled, CutEnd
      <4> QED BY <3>3, <4>1
    <3>5. Rest(b) = SubSeq(b, v + 2, n)
      BY <1>1, <1>2, <2>2, <3>1 DEF Rest, Last
    <3>6. v + 2 = z + 1
      BY <3>3, <3>4
    <3> QED BY <3>3, <3>4, <3>5, <3>6
  <2> QED BY <2>1, <2>2
<1>5. PICK r : r = SubSeq(b, z + 1, n)
  OBVIOUS
<1>6. r \in Seq(Token) /\ Len(r) = n - (z + 1) + 1 /\ \A i \in 1..(n - (z + 1) + 1) : r[i] = b[z + 1 + i - 1]
  <2>1. z + 1 \in Nat /\ z + 1 >= 1 /\ z + 1 <= n + 1 /\ n <= Len(b) /\ b \in Seq(Token)
    BY <1>1, <1>4 DEF Wire
  <2> QED BY <1>5, <2>1, SliceIs
<1>7. Len(r) = n - z /\ \A i \in 1..(n - z) : r[i] = b[z + i]
  <2>1. n - (z + 1) + 1 = n - z /\ \A i \in 1..(n - z) : z + 1 + i - 1 = z + i
    BY <1>4
  <2> QED BY <1>6, <2>1
<1>8. r \in Wire
  BY <1>6 DEF Wire
<1> QED BY <1>0, <1>1, <1>4, <1>5, <1>7, <1>8 DEF LeftOver

LEMMA ClosesSame == ASSUME NEW b \in Wire, NEW t PROVE Closes(b, t) <=> Closes(Rest(b), t)
<1>1. PICK z : z = Handled(b)
  OBVIOUS
<1>2. PICK r : r = Rest(b)
  OBVIOUS
<1>3. PICK n \in Nat : n = Len(b)
  BY DEF Wire
<1>4. z \in 0..n /\ (z # 0 => b[z] = "%") /\ r \in Wire /\ Len(r) = n - z /\ \A i \in 1..(n - z) : r[i] = b[z + i]
  <2>1. LeftOver(r, b, z)
    BY <1>1, <1>2, RestIs
  <2> QED BY <1>3, <2>1 DEF LeftOver
<1>5. (b # <<>> <=> n # 0) /\ (r # <<>> <=> n - z # 0)
  BY <1>3, <1>4 DEF Wire
<1>6. CASE z = n
  <2>1. r = <<>>
    BY <1>4, <1>5, <1>6
  <2>2. b # <<>> => b[Len(b)] # "#"
    BY <1>3, <1>4, <1>5, <1>6
  <2> QED BY <1>2, <2>1, <2>2 DEF Closes
<1>7. CASE z # n
  <2>1. n - z \in 1..(n - z) /\ z + (n - z) = n
    BY <1>4, <1>7
  <2>2. r[n - z] = b[n]
    BY <1>4, <2>1
  <2>3. r # <<>> /\ b # <<>>
    BY <1>4, <1>5, <1>7
  <2>4. r[Len(r)] = b[Len(b)]
    BY <1>3, <1>4, <2>2
  <2> QED BY <1>2, <2>3, <2>4 DEF Closes
<1> QED BY <1>6, <1>7

LEMMA PiecesKept ==
    ASSUME NEW T, NEW s, NEW u, NEW r, NEW e, NEW w, GoesOn(T, s, u, r, e, w)
    PROVE  Pieces(r, e, w) = Pieces(s, e, w)
<1>0. s \in Seq(T) /\ u \in Seq(T) /\ r = s \o u /\ w \in Nat /\ Cuts(e, Len(s), w)
  BY DEF GoesOn
<1>1. ASSUME NEW k \in DOMAIN e
      PROVE  SubSeq(r, IF k = 1 THEN 1 ELSE e[k - 1] + w, e[k] - 1) = SubSeq(s, IF k = 1 THEN 1 ELSE e[k - 1] + w, e[k] - 1)
  <2>1. PICK a : a = (IF k = 1 THEN 1 ELSE e[k - 1] + w)
    OBVIOUS
  <2>2. PICK b : b = e[k] - 1
    OBVIOUS
  <2>3. a \in Nat /\ a >= 1 /\ b \in Nat /\ a <= b + 1 /\ b <= Len(s)
    BY <1>0, <2>1, <2>2, PieceIs
  <2>4. SubSeq(r, a, b) = SubSeq(s, a, b)
    BY <1>0, <2>3, SliceKept
  <2> QED BY <2>1, <2>2, <2>4
<1> QED BY <1>1 DEF Pieces

\* What the last token of r closes, without the delimiter.
Content(r) == SubSeq(r, 1, Len(r) - 1)

\* The m tokens of s after the first z.
SliceOf(T, s, z, m, q) ==
    /\ s \in Seq(T) /\ z \in Nat /\ m \in Nat
    /\ z + m <= Len(s) /\ q = SubSeq(s, z + 1, z + m)

Shifted(T, s, z, m, q) == q \in Seq(T) /\ Len(q) = m /\ \A i \in 1..m : q[i] = s[z + i]

LEMMA SliceAfter ==
    ASSUME NEW T, NEW s, NEW z, NEW m, NEW q, SliceOf(T, s, z, m, q)
    PROVE  Shifted(T, s, z, m, q)
<1>0. s \in Seq(T) /\ z \in Nat /\ m \in Nat /\ z + m <= Len(s) /\ q = SubSeq(s, z + 1, z + m)
  BY DEF SliceOf
<1>1. PICK y \in Nat : y = z + 1
  BY <1>0
<1>2. PICK v \in Nat : v = z + m
  BY <1>0
<1>3. y >= 1 /\ y <= v + 1 /\ v <= Len(s) /\ q = SubSeq(s, y, v)
  BY <1>0, <1>1, <1>2
<1>4. q \in Seq(T) /\ Len(q) = v - y + 1 /\ \A i \in 1..(v - y + 1) : q[i] = s[y + i - 1]
  BY <1>0, <1>3, SliceIs
<1>5. v - y + 1 = m /\ \A i \in 1..m : y + i - 1 = z + i
  BY <1>0, <1>1, <1>2
<1> QED BY <1>4, <1>5 DEF Shifted

LEMMA ContentIs ==
    ASSUME NEW b \in Wire, NEW t \in Token, NEW c, c = Append(b, t), Closes(b, t)
    PROVE  SubSeq(c, Handled(b) + 1, Len(b) - 1) = Content(Rest(b)) /\ Content(Rest(b)) \in Wire
<1>1. PICK z : z = Handled(b)
  OBVIOUS
<1>2. PICK r : r = Rest(b)
  OBVIOUS
<1>3. PICK n \in Nat : n = Len(b)
  BY DEF Wire
<1>4. z \in 0..n /\ r \in Wire /\ Len(r) = n - z /\ \A i \in 1..(n - z) : r[i] = b[z + i]
  <2>1. LeftOver(r, b, z)
    BY <1>1, <1>2, RestIs
  <2> QED BY <1>3, <2>1 DEF LeftOver
<1>5. n - z >= 1
  <2>1. r # <<>>
    BY <1>2, ClosesSame DEF Closes
  <2>2. Len(r) # 0
    BY <1>4, <2>1 DEF Wire
  <2> QED BY <1>4, <2>2
<1>6. PICK m \in Nat : m = (n - z) - 1
  BY <1>4, <1>5
<1>7. PICK p : p = SubSeq(r, 1, m)
  OBVIOUS
<1>8. PICK q : q = SubSeq(c, z + 1, n - 1)
  OBVIOUS
<1>9. c \in Seq(Token) /\ Len(c) = n + 1 /\ \A i \in 1..n : c[i] = b[i]
  <2>1. b \in Seq(Token)
    BY DEF Wire
  <2> QED BY <1>3, <2>1, AppendIs
<1>10. p \in Seq(Token) /\ Len(p) = m /\ \A i \in 1..m : p[i] = r[i]
  <2>1. 1 \in Nat /\ 1 <= m + 1 /\ m <= Len(r) /\ r \in Seq(Token)
    BY <1>4, <1>6 DEF Wire
  <2>2. p \in Seq(Token) /\ Len(p) = m - 1 + 1 /\ \A i \in 1..(m - 1 + 1) : p[i] = r[1 + i - 1]
    BY <1>7, <2>1, SliceIs
  <2> QED BY <2>2
<1>11. q \in Seq(Token) /\ Len(q) = m /\ \A i \in 1..m : q[i] = c[z + i]
  <2>1. z \in Nat /\ z + m <= Len(c) /\ z + m = n - 1
    BY <1>4, <1>6, <1>9
  <2>2. q = SubSeq(c, z + 1, z + m)
    BY <1>8, <2>1
  <2>3. SliceOf(Token, c, z, m, q)
    BY <1>9, <2>1, <2>2 DEF SliceOf
  <2>4. Shifted(Token, c, z, m, q)
    BY <2>3, SliceAfter
  <2> QED BY <2>4 DEF Shifted
<1>12. \A i \in 1..m : i \in 1..(n - z) /\ z + i \in 1..n
  BY <1>4, <1>6
<1>13. \A i \in 1..m : p[i] = q[i]
  BY <1>4, <1>9, <1>10, <1>11, <1>12
<1>14. p = q
  BY <1>10, <1>11, <1>13, SameSequence
<1>15. Content(r) = p
  BY <1>4, <1>6, <1>7 DEF Content
<1> QED BY <1>1, <1>2, <1>3, <1>8, <1>10, <1>14, <1>15 DEF Wire

LEMMA CompleteType == ASSUME NEW b \in Wire PROVE Complete(b) \in Seq(Packets)
<1>1. PICK k : k = Pieces(b, Delimiters(b), 2)
  OBVIOUS
<1>2. k \in Seq(Wire)
  <2>1. Cuts(Delimiters(b), Len(b), 2) /\ b \in Seq(Token) /\ 2 \in Nat
    BY DelimitersAreCuts DEF DelimitersCut, Wire
  <2> QED BY <1>1, <2>1, PiecesType DEF Wire
<1>3. PICK n \in Nat : DOMAIN k = 1..n /\ \A i \in 1..n : k[i] \in Wire
  BY <1>2
<1>4. [i \in 1..n |-> deserialize(k[i])] \in [1..n -> Packets]
  BY <1>3, DeserializeType
<1> QED BY <1>1, <1>3, <1>4, FunctionIsSeq DEF Complete

\* The buffer b with one more token.
Taken(b, t, c) ==
    IF Closes(Rest(b), t)
    THEN Rest(c) = <<>> /\ Complete(c) = Append(Complete(b), deserialize(Content(Rest(b))))
    ELSE Rest(c) = Append(Rest(b), t) /\ Complete(c) = Complete(b)

LEMMA NoPacketEnds ==
    ASSUME NEW b \in Wire, NEW t \in Token, NEW c, c = Append(b, t), ~Closes(b, t)
    PROVE  Rest(c) = Append(Rest(b), t) /\ Complete(c) = Complete(b)
<1>1. PICK n \in Nat : n = Len(b)
  BY DEF Wire
<1>2. c \in Wire /\ Len(c) = n + 1 /\ c[n + 1] = t /\ \A i \in 1..n : c[i] = b[i]
  <2>1. b \in Seq(Token)
    BY DEF Wire
  <2>2. c \in Seq(Token) /\ Len(c) = Len(b) + 1 /\ c[Len(b) + 1] = t /\ \A i \in 1..Len(b) : c[i] = b[i]
    BY <2>1, AppendIs
  <2> QED BY <1>1, <2>2 DEF Wire
<1>3. Delimiters(c) = Delimiters(b)
  BY DelimitersAppend
<1>4. PICK z : z = Handled(b) /\ z = Handled(c)
  BY <1>3 DEF Handled
<1>5. PICK r : r = Rest(b)
  OBVIOUS
<1>6. PICK q : q = Rest(c)
  OBVIOUS
<1>7. z \in 0..n /\ r \in Wire /\ Len(r) = n - z /\ \A i \in 1..(n - z) : r[i] = b[z + i]
  <2>1. LeftOver(r, b, z)
    BY <1>4, <1>5, RestIs
  <2> QED BY <1>1, <2>1 DEF LeftOver
<1>8. q \in Wire /\ Len(q) = n + 1 - z /\ \A i \in 1..(n + 1 - z) : q[i] = c[z + i]
  <2>1. LeftOver(q, c, z)
    BY <1>2, <1>4, <1>6, RestIs
  <2> QED BY <1>2, <2>1 DEF LeftOver
<1>9. PICK m \in Nat : m = n - z
  BY <1>7
<1>10. q = Append(r, t)
  <2>1. m + 1 = n + 1 - z /\ z + (m + 1) = n + 1 /\ \A i \in 1..m : z + i \in 1..n /\ i \in 1..(n + 1 - z) /\ i \in 1..(n - z)
    BY <1>7, <1>9
  <2>2. q[m + 1] = t /\ \A i \in 1..m : q[i] = r[i]
    <3>1. m + 1 \in 1..(n + 1 - z)
      BY <2>1
    <3> QED BY <1>2, <1>7, <1>8, <2>1, <3>1
  <2>3. r \in [1..m -> Token] /\ q \in [1..(m + 1) -> Token]
    <3>1. Len(r) = m /\ Len(q) = m + 1 /\ r \in Seq(Token) /\ q \in Seq(Token)
      BY <1>7, <1>8, <1>9, <2>1 DEF Wire
    <3> QED BY <3>1
  <2> QED BY <2>2, <2>3, SequenceExtends
<1>11. Pieces(c, Delimiters(b), 2) = Pieces(b, Delimiters(b), 2)
  <2>1. PICK u : u = <<t>>
    OBVIOUS
  <2>2. c = b \o u /\ u \in Seq(Token) /\ b \in Seq(Token) /\ 2 \in Nat
    BY <2>1, ConcatOne DEF Wire
  <2>3. PICK d : d = Delimiters(b)
    OBVIOUS
  <2>4. Cuts(d, Len(b), 2)
    BY <2>3, DelimitersAreCuts DEF DelimitersCut
  <2>5. GoesOn(Token, b, u, c, d, 2)
    BY <2>2, <2>4 DEF GoesOn
  <2>6. Pieces(c, d, 2) = Pieces(b, d, 2)
    BY <2>5, PiecesKept
  <2> QED BY <2>3, <2>6
<1>12. Complete(c) = Complete(b)
  BY <1>3, <1>11 DEF Complete
<1> QED BY <1>5, <1>6, <1>10, <1>12

LEMMA PacketEnds ==
    ASSUME NEW b \in Wire, NEW t \in Token, NEW c, c = Append(b, t), Closes(b, t)
    PROVE  Rest(c) = <<>> /\ Complete(c) = Append(Complete(b), deserialize(Content(Rest(b))))
<1>1. PICK n \in Nat : n = Len(b)
  BY DEF Wire
<1>2. c \in Wire /\ Len(c) = n + 1
  <2>1. b \in Seq(Token)
    BY DEF Wire
  <2>2. c \in Seq(Token) /\ Len(c) = Len(b) + 1
    BY <2>1, AppendIs
  <2> QED BY <1>1, <2>2 DEF Wire
<1>3. PICK d : d = Delimiters(b)
  OBVIOUS
<1>4. PICK e : e = Append(d, n)
  OBVIOUS
<1>5. Delimiters(c) = e /\ d \in Seq(Nat)
  BY <1>1, <1>3, <1>4, DelimitersAppend
<1>6. Handled(c) = n + 1
  <2>1. e # <<>> /\ e[Len(e)] = n
    BY <1>4, <1>5
  <2>2. n + 2 - 1 = n + 1
    OBVIOUS
  <2> QED BY <1>5, <2>1, <2>2 DEF Handled, CutEnd
<1>7. Rest(c) = <<>>
  <2>1. LeftOver(Rest(c), c, n + 1)
    BY <1>2, <1>6, RestIs
  <2>2. Rest(c) \in Seq(Token) /\ Len(Rest(c)) = 0
    BY <1>2, <2>1 DEF LeftOver, Wire
  <2> QED BY <2>2, NoElements
<1>8. PICK p : p = Content(Rest(b))
  OBVIOUS
<1>9. p = SubSeq(c, CutEnd(d, 2) + 1, n - 1) /\ p \in Wire
  BY <1>1, <1>3, <1>8, ContentIs DEF Handled
<1>10. PICK k : k = Pieces(b, d, 2)
  OBVIOUS
<1>11. Pieces(c, e, 2) = Append(k, p)
  <2>0. PICK u : u = <<t>>
    OBVIOUS
  <2>1. c = b \o u /\ u \in Seq(Token) /\ b \in Seq(Token) /\ 2 \in Nat
    BY <2>0, ConcatOne DEF Wire
  <2>2. Cuts(d, Len(b), 2)
    BY <1>3, DelimitersAreCuts DEF DelimitersCut
  <2>3. Cuts(e, Len(c), 2)
    BY <1>2, <1>5, DelimitersAreCuts DEF DelimitersCut
  <2>4. Pieces(c, e, 2) = Append(Pieces(b, d, 2), SubSeq(c, CutEnd(d, 2) + 1, n - 1))
    <3>1. GoesOn(Token, b, u, c, d, 2)
      BY <2>1, <2>2 DEF GoesOn
    <3>2. OneMoreCut(Token, b, u, c, d, 2, n, e)
      BY <1>4, <2>3, <3>1 DEF OneMoreCut
    <3>3. PieceAdded(b, c, d, e, 2, n)
      BY <3>2, PiecesAppend
    <3> QED BY <3>3 DEF PieceAdded
  <2> QED BY <1>9, <1>10, <2>4
<1>12. k \in Seq(Wire)
  <2>1. Cuts(d, Len(b), 2) /\ b \in Seq(Token) /\ 2 \in Nat
    BY <1>3, DelimitersAreCuts DEF DelimitersCut, Wire
  <2> QED BY <1>10, <2>1, PiecesType DEF Wire
<1>13. PICK l : l = Append(k, p)
  OBVIOUS
<1>14. PICK m \in Nat : m = Len(k) /\ DOMAIN k = 1..m
  BY <1>12
<1>15. l \in Seq(Wire) /\ DOMAIN l = 1..(m + 1) /\ l[m + 1] = p /\ \A i \in 1..m : l[i] = k[i]
  <2>1. PICK W : W = Wire
    OBVIOUS
  <2>2. k \in Seq(W) /\ p \in W
    BY <1>9, <1>12, <2>1
  <2>3. /\ l \in Seq(W) /\ DOMAIN l = 1..(Len(k) + 1) /\ l[Len(k) + 1] = p
        /\ DOMAIN k = 1..Len(k) /\ \A i \in 1..Len(k) : l[i] = k[i]
    BY <1>13, <2>2, AppendIs
  <2> QED BY <1>14, <2>1, <2>3
<1>16. PICK f : f = Complete(b)
  OBVIOUS
<1>17. PICK g : g = Complete(c)
  OBVIOUS
<1>18. f = [i \in 1..m |-> deserialize(k[i])] /\ g = [i \in 1..(m + 1) |-> deserialize(l[i])]
  BY <1>3, <1>5, <1>10, <1>11, <1>13, <1>14, <1>15, <1>16, <1>17 DEF Complete
<1>19. \A w \in Wire : deserialize(w) \in Packets
  BY DeserializeType
<1>20. f \in [1..m -> Packets] /\ g \in [1..(m + 1) -> Packets] /\ deserialize(p) \in Packets
       /\ g[m + 1] = deserialize(p) /\ \A i \in 1..m : g[i] = f[i]
  <2>1. (\A i \in 1..m : k[i] \in Wire) /\ \A i \in 1..(m + 1) : l[i] \in Wire
    BY <1>12, <1>14, <1>15
  <2>2. m + 1 \in 1..(m + 1) /\ \A i \in 1..m : i \in 1..(m + 1)
    OBVIOUS
  <2> QED BY <1>9, <1>15, <1>18, <1>19, <2>1, <2>2
<1>21. g = Append(f, deserialize(p))
  BY <1>20, SequenceExtends
<1> QED BY <1>7, <1>8, <1>16, <1>17, <1>21

LEMMA TokenTaken ==
    ASSUME NEW b \in Wire, NEW t \in Token
    PROVE  Taken(b, t, Append(b, t)) /\ Append(b, t) \in Wire
<1>1. PICK c : c = Append(b, t)
  OBVIOUS
<1>2. c \in Wire
  BY <1>1, AppendIs DEF Wire
<1>3. Closes(b, t) <=> Closes(Rest(b), t)
  BY ClosesSame
<1>4. CASE Closes(b, t)
  BY <1>1, <1>2, <1>3, <1>4, PacketEnds DEF Taken
<1>5. CASE ~Closes(b, t)
  BY <1>1, <1>2, <1>3, <1>5, NoPacketEnds DEF Taken
<1> QED BY <1>4, <1>5

-----------------------------------------------------------------------------
(* The chunks a packet comes in make no difference. *)

\* No packet is complete in b.
Unfinished(b) == Rest(b) = b /\ Complete(b) = <<>>

LEMMA NothingPending == Unfinished(<<>>)
<1>1. Rest(<<>>) = <<>>
  BY DelimitersEmpty DEF Rest
<1>2. [i \in DOMAIN <<>> |-> deserialize(<<>>[i])] = <<>>
  OBVIOUS
<1>3. Pieces(<<>>, <<>>, 2) = <<>>
  BY DEF Pieces
<1>4. Complete(<<>>) = <<>>
  BY <1>2, <1>3, DelimitersEmpty DEF Complete
<1> QED BY <1>1, <1>4 DEF Unfinished

LEMMA EmptyWire == <<>> \in Wire
BY DEF Wire

LEMMA SeqJoined == ASSUME NEW T, NEW s \in Seq(T), NEW t \in Seq(T) PROVE s \o t \in Seq(T)
OBVIOUS

LEMMA WireJoined == ASSUME NEW a \in Wire, NEW b \in Wire PROVE a \o b \in Wire
BY SeqJoined DEF Wire

LEMMA PendingAppend ==
    ASSUME NEW a \in Wire, NEW t \in Token, Rest(a) \in Wire, Unfinished(Rest(a)), NEW c, c = Append(a, t)
    PROVE  Rest(c) \in Wire /\ Unfinished(Rest(c))
<1>1. Taken(a, t, c)
  BY TokenTaken
<1>2. PICK r \in Wire : r = Rest(a)
  OBVIOUS
<1>3. CASE Closes(r, t)
  <2>1. Rest(c) = <<>>
    BY <1>1, <1>2, <1>3 DEF Taken
  <2> QED BY <2>1, NothingPending, EmptyWire
<1>4. CASE ~Closes(r, t)
  <2>1. PICK q : q = Append(r, t)
    OBVIOUS
  <2>2. Rest(c) = q
    BY <1>1, <1>2, <1>4, <2>1 DEF Taken
  <2>3. Taken(r, t, q) /\ q \in Wire
    BY <2>1, TokenTaken
  <2>4. Rest(r) = r /\ Complete(r) = <<>>
    BY <1>2 DEF Unfinished
  <2>5. Rest(q) = q /\ Complete(q) = <<>>
    BY <1>4, <2>1, <2>3, <2>4 DEF Taken
  <2> QED BY <2>2, <2>3, <2>5 DEF Unfinished
<1> QED BY <1>3, <1>4

LEMMA RestPending == \A a \in Wire : Rest(a) \in Wire /\ Unfinished(Rest(a))
<1> DEFINE G == {a \in Wire : Rest(a) \in Wire /\ Unfinished(Rest(a))}
<1>1. <<>> \in G
  BY NothingPending, EmptyWire DEF Unfinished
<1>2. ASSUME NEW a \in Seq(Token), NEW t \in Token, a \in G PROVE Append(a, t) \in G
  <2>1. PICK c : c = Append(a, t)
    OBVIOUS
  <2>2. c \in Wire
    BY <2>1, AppendIs DEF Wire
  <2>3. Rest(c) \in Wire /\ Unfinished(Rest(c))
    BY <1>2, <2>1, PendingAppend
  <2> QED BY <2>1, <2>2, <2>3
<1> HIDE DEF G
<1>3. \A a \in Seq(Token) : a \in G
  BY <1>1, <1>2, InductionByAppend
<1> QED BY <1>3 DEF G, Wire

\* The buffer a with b after it: a's packets first, and what is left of a goes on with b.
InTwo(a, b) ==
    /\ Complete(a \o b) = Complete(a) \o Complete(Rest(a) \o b)
    /\ Rest(a \o b) = Rest(Rest(a) \o b)

LEMMA InTwoAppend ==
    ASSUME NEW a \in Wire, NEW b \in Wire, NEW t \in Token, InTwo(a, b), NEW d, d = Append(b, t)
    PROVE  InTwo(a, d)
<1>1. PICK r \in Wire : r = Rest(a)
  BY RestPending
<1>2. PICK x \in Wire : x = a \o b
  BY WireJoined
<1>3. PICK y \in Wire : y = r \o b
  BY WireJoined
<1>4. a \o d = Append(x, t) /\ r \o d = Append(y, t)
  <2>1. a \in Seq(Token) /\ b \in Seq(Token) /\ r \in Seq(Token)
    BY DEF Wire
  <2>2. a \o Append(b, t) = Append(a \o b, t) /\ r \o Append(b, t) = Append(r \o b, t)
    BY <2>1, ConcatAppend
  <2> QED BY <1>2, <1>3, <2>2
<1>5. PICK v : v = a \o d
  OBVIOUS
<1>6. PICK w : w = r \o d
  OBVIOUS
<1>7. Taken(x, t, v) /\ Taken(y, t, w)
  BY <1>4, <1>5, <1>6, TokenTaken
<1>8. Rest(x) = Rest(y) /\ Complete(x) = Complete(a) \o Complete(y)
  BY <1>1, <1>2, <1>3 DEF InTwo
<1>9. CASE Closes(Rest(y), t)
  <2>1. PICK k : k = deserialize(Content(Rest(y)))
    OBVIOUS
  <2>2. k \in Packets
    <3>1. Closes(y, t) /\ Append(y, t) \in Wire
      BY <1>9, ClosesSame, TokenTaken
    <3>2. Content(Rest(y)) \in Wire
      BY <3>1, ContentIs
    <3> QED BY <2>1, <3>2, DeserializeType
  <2>3. Rest(v) = <<>> /\ Complete(v) = Append(Complete(x), k) /\ Rest(w) = <<>> /\ Complete(w) = Append(Complete(y), k)
    BY <1>7, <1>8, <1>9, <2>1 DEF Taken
  <2>4. Complete(a) \in Seq(Packets) /\ Complete(y) \in Seq(Packets)
    BY CompleteType
  <2>5. Complete(a) \o Append(Complete(y), k) = Append(Complete(a) \o Complete(y), k)
    BY <2>2, <2>4, ConcatAppend
  <2>6. Complete(v) = Complete(a) \o Complete(w)
    BY <1>8, <2>3, <2>5
  <2> QED BY <1>1, <1>5, <1>6, <2>3, <2>6 DEF InTwo
<1>10. CASE ~Closes(Rest(y), t)
  <2>1. Rest(v) = Append(Rest(x), t) /\ Complete(v) = Complete(x) /\ Rest(w) = Append(Rest(y), t) /\ Complete(w) = Complete(y)
    BY <1>7, <1>8, <1>10 DEF Taken
  <2>2. Complete(v) = Complete(a) \o Complete(w) /\ Rest(v) = Rest(w)
    BY <1>8, <2>1
  <2> QED BY <1>1, <1>5, <1>6, <2>2 DEF InTwo
<1> QED BY <1>9, <1>10

LEMMA BufferInTwo == ASSUME NEW a \in Wire PROVE \A b \in Wire : InTwo(a, b)
<1> DEFINE G == {b \in Wire : InTwo(a, b)}
<1>1. <<>> \in G
  <2>1. PICK r \in Wire : r = Rest(a)
    BY RestPending
  <2>2. Rest(r) = r /\ Complete(r) = <<>>
    BY <2>1, RestPending DEF Unfinished
  <2>3. a \o <<>> = a /\ r \o <<>> = r
    BY ConcatEmpty DEF Wire
  <2>4. Complete(a) \o <<>> = Complete(a)
    BY CompleteType, ConcatEmpty
  <2> QED BY <2>1, <2>2, <2>3, <2>4, EmptyWire DEF InTwo
<1>2. ASSUME NEW b \in Seq(Token), NEW t \in Token, b \in G PROVE Append(b, t) \in G
  <2>1. PICK d : d = Append(b, t)
    OBVIOUS
  <2>2. d \in Wire
    BY <2>1, AppendIs DEF Wire
  <2>3. InTwo(a, d)
    BY <1>2, <2>1, InTwoAppend
  <2> QED BY <2>1, <2>2, <2>3
<1> HIDE DEF G
<1>3. \A b \in Seq(Token) : b \in G
  BY <1>1, <1>2, InductionByAppend
<1> QED BY <1>3 DEF G, Wire

-----------------------------------------------------------------------------
(* A serialized packet is read back whole. *)

LEMMA OneEntry ==
    ASSUME NEW T, NEW x \in T, NEW f \in [1..1 -> T], f[1] = x
    PROVE  f \in Seq(T) /\ Len(f) = 1 /\ f = <<x>>
<1>1. f \in Seq(T) /\ Len(f) = 1
  BY FunctionIsSeq
<1>2. <<x>> \in Seq(T) /\ Len(<<x>>) = 1 /\ <<x>>[1] = x
  OBVIOUS
<1>3. \A i \in 1..1 : f[i] = <<x>>[i]
  BY <1>2
<1> QED BY <1>1, <1>2, <1>3, SameSequence

ConcatOf(T, s, t, r) == s \in Seq(T) /\ t \in Seq(T) /\ r = s \o t

Concatenated(T, s, t, r) ==
    /\ r \in Seq(T) /\ Len(r) = Len(s) + Len(t) /\ Len(s) \in Nat /\ Len(t) \in Nat
    /\ \A i \in 1..Len(s) : r[i] = s[i]
    /\ \A i \in 1..Len(t) : r[Len(s) + i] = t[i]

LEMMA ConcatIs ==
    ASSUME NEW T, NEW s, NEW t, NEW r, ConcatOf(T, s, t, r)
    PROVE  Concatenated(T, s, t, r)
BY DEF ConcatOf, Concatenated

LEMMA WholeSlice ==
    ASSUME NEW T, NEW s \in Seq(T), NEW n \in Nat, n = Len(s)
    PROVE  SubSeq(s, 1, n) = s
<1>1. PICK q : q = SubSeq(s, 1, n)
  OBVIOUS
<1>2. 0 + n <= Len(s) /\ q = SubSeq(s, 0 + 1, 0 + n) /\ \A i \in 1..n : 0 + i = i
  BY <1>1
<1>3. q \in Seq(T) /\ Len(q) = n /\ \A i \in 1..n : q[i] = s[0 + i]
  <2>1. SliceOf(T, s, 0, n, q)
    BY <1>2 DEF SliceOf
  <2>2. Shifted(T, s, 0, n, q)
    BY <2>1, SliceAfter
  <2> QED BY <2>2 DEF Shifted
<1>4. \A i \in 1..n : q[i] = s[i]
  BY <1>2, <1>3
<1> QED BY <1>1, <1>3, <1>4, SameSequence

LEMMA SplitHeader ==
    ASSUME NEW h \in Token, h # "#", NEW c, c = <<h>>
    PROVE  c \in Wire /\ Split(c, "#") = <<c>>
<1>1. PICK k \in Token : k = "#"
  BY SymbolsAreTokens
<1>2. PICK s \in Wire : s = <<>>
  BY EmptyWire
<1>3. c = Append(s, h) /\ c \in Wire /\ Len(c) = 1 /\ s \o c = c
  BY <1>2 DEF Wire
<1>4. Separators(c, k) = Separators(s, k)
  BY <1>1, <1>3, SeparatorsAppend
<1>5. Separators(s, k) = <<>>
  BY <1>2, SeparatorsEmpty
<1>6. PICK e : e = <<2>>
  OBVIOUS
<1>7. e = Append(<<>>, Len(c) + 1) /\ DOMAIN e = 1..1 /\ e[1] = 2
  BY <1>3, <1>6
<1>8. Split(c, k) = Pieces(c, e, 1)
  BY <1>4, <1>5, <1>7 DEF Split
<1>9. PICK f : f = Pieces(c, e, 1)
  OBVIOUS
<1>10. f = [i \in 1..1 |-> SubSeq(c, IF i = 1 THEN 1 ELSE e[i - 1] + 1, e[i] - 1)]
  BY <1>7, <1>9 DEF Pieces
<1>11. SubSeq(c, 1, 1) = c
  BY <1>3, WholeSlice DEF Wire
<1>12. \A i \in 1..1 : SubSeq(c, IF i = 1 THEN 1 ELSE e[i - 1] + 1, e[i] - 1) = c
  <2>1. \A i \in 1..1 : i = 1
    OBVIOUS
  <2>2. 2 - 1 = 1
    OBVIOUS
  <2> QED BY <1>7, <1>11, <2>1, <2>2
<1>13. f \in [1..1 -> Wire] /\ f[1] = c
  <2>1. 1 \in 1..1
    OBVIOUS
  <2>2. f = [i \in 1..1 |-> c]
    BY <1>10, <1>12
  <2> QED BY <1>3, <2>1, <2>2
<1>14. f = <<c>>
  BY <1>3, <1>13, OneEntry
<1> QED BY <1>1, <1>3, <1>8, <1>9, <1>14

LEMMA SeparatorsSame ==
    ASSUME NEW x \in Wire
    PROVE  \A f \in Wire : "#" \notin ToSet(f) => Separators(x \o f, "#") = Separators(x, "#")
<1> DEFINE G == {f \in Wire : "#" \notin ToSet(f) => Separators(x \o f, "#") = Separators(x, "#")}
<1>1. <<>> \in G
  BY EmptyWire, ConcatEmpty DEF Wire
<1>0. PICK k \in Token : k = "#"
  BY SymbolsAreTokens
<1>2. ASSUME NEW f \in Seq(Token), NEW t \in Token, f \in G PROVE Append(f, t) \in G
  <2>1. PICK g : g = Append(f, t)
    OBVIOUS
  <2>2. g \in Wire /\ f \in Wire /\ ToSet(g) = ToSet(f) \cup {t}
    BY <2>1, AppendIs, ToSetAppend DEF Wire
  <2>3. ASSUME "#" \notin ToSet(g) PROVE Separators(x \o g, "#") = Separators(x, "#")
    <3>1. PICK y \in Wire : y = x \o f
      BY <2>2, WireJoined
    <3>2. PICK z : z = Append(y, t)
      OBVIOUS
    <3>3. x \o g = z
      BY <2>1, <3>1, <3>2, ConcatAppend DEF Wire
    <3>4. t # "#" /\ Separators(y, "#") = Separators(x, "#")
      BY <1>2, <2>2, <2>3, <3>1
    <3>5. Separators(z, k) = Separators(y, k)
      <4>1. t # k /\ t \in Token
        BY <1>0, <3>4
      <4> QED BY <3>2, <4>1, SeparatorsAppend
    <3> QED BY <1>0, <3>3, <3>4, <3>5
  <2> QED BY <2>1, <2>2, <2>3
<1> HIDE DEF G
<1>3. \A f \in Seq(Token) : f \in G
  BY <1>1, <1>2, InductionByAppend
<1> QED BY <1>3 DEF G, Wire

LEMMA SplitField ==
    ASSUME NEW c \in Wire, NEW f \in Wire, "#" \notin ToSet(f), NEW r, r = Append(c, "#") \o f
    PROVE  r \in Wire /\ Split(r, "#") = Append(Split(c, "#"), f)
<1>1. PICK x : x = Append(c, "#")
  OBVIOUS
<1>2. x \in Wire /\ Len(x) = Len(c) + 1
  BY <1>1, SymbolsAreTokens, AppendIs DEF Wire
<1>3. PICK n \in Nat : n = Len(c)
  BY DEF Wire
<1>4. r \in Wire
  BY <1>1, <1>2, WireJoined
<1>5. PICK e : e = Append(Separators(c, "#"), n + 1)
  OBVIOUS
<1>6. Separators(r, "#") = e
  <2>1. Separators(r, "#") = Separators(x, "#")
    BY <1>1, <1>2, SeparatorsSame
  <2>2. Separators(x, "#") = Append(Separators(c, "#"), Len(c) + 1)
    BY <1>1, SymbolsAreTokens, SeparatorsAppend
  <2> QED BY <1>3, <1>5, <2>1, <2>2
<1>7. PICK m \in Nat : m = Len(r) /\ m = n + 1 + Len(f)
  <2>1. r = x \o f /\ x \in Seq(Token) /\ f \in Seq(Token)
    BY <1>1, <1>2 DEF Wire
  <2>2. Len(r) = Len(x) + Len(f) /\ Len(f) \in Nat
    <3>1. ConcatOf(Token, x, f, r)
      BY <2>1 DEF ConcatOf
    <3>2. Concatenated(Token, x, f, r)
      BY <3>1, ConcatIs
    <3> QED BY <3>2 DEF Concatenated
  <2> QED BY <1>2, <1>3, <2>2
<1>8. PICK g : g = Append(e, m + 1)
  OBVIOUS
<1>9. Cuts(e, n, 1) /\ Split(c, "#") = Pieces(c, e, 1)
  BY <1>3, <1>5, SymbolsAreTokens, SplitCuts
<1>10. Cuts(g, m, 1) /\ Split(r, "#") = Pieces(r, g, 1)
  BY <1>4, <1>6, <1>7, <1>8, SymbolsAreTokens, SplitCuts
<1>11. PICK u : u = <<"#">> \o f
  OBVIOUS
<1>12. u \in Seq(Token) /\ r = c \o u
  <2>1. <<"#">> \in Seq(Token) /\ x = c \o <<"#">> /\ c \in Seq(Token) /\ f \in Seq(Token)
    BY <1>1, SymbolsAreTokens, ConcatOne DEF Wire
  <2>2. PICK hh : hh = <<"#">>
    OBVIOUS
  <2>3. hh \in Seq(Token) /\ x = c \o hh /\ u = hh \o f
    BY <1>11, <2>1, <2>2
  <2>4. (c \o hh) \o f = c \o u
    BY <2>1, <2>3, ConcatJoins
  <2>5. u \in Seq(Token)
    BY <2>1, <2>3, SeqJoined
  <2> QED BY <1>1, <2>3, <2>4, <2>5
<1>13. GoesOn(Token, c, u, r, e, 1)
  BY <1>3, <1>9, <1>12 DEF GoesOn, Wire
<1>14. OneMoreCut(Token, c, u, r, e, 1, m + 1, g)
  BY <1>7, <1>8, <1>10, <1>13 DEF OneMoreCut
<1>15. PieceAdded(c, r, e, g, 1, m + 1)
  BY <1>14, PiecesAppend
<1>16. CutEnd(e, 1) = n + 1
  <2>1. Separators(c, "#") \in Seq(Nat)
    BY SymbolsAreTokens, SeparatorsAppend
  <2>2. e # <<>> /\ e[Len(e)] = n + 1
    BY <1>5, <2>1
  <2>3. n + 1 + 1 - 1 = n + 1
    OBVIOUS
  <2> QED BY <2>2, <2>3 DEF CutEnd
<1>17. PICK p : p = SubSeq(r, n + 1 + 1, m)
  OBVIOUS
<1>18. p = f
  <2>1. PICK l \in Nat : l = Len(f)
    BY DEF Wire
  <2>2. r \in Seq(Token) /\ f \in Seq(Token) /\ x \in Seq(Token) /\ \A i \in 1..l : r[n + 1 + i] = f[i]
    BY <1>1, <1>2, <1>3, <1>4, <2>1 DEF Wire
  <2>3. p \in Seq(Token) /\ Len(p) = l /\ \A i \in 1..l : p[i] = r[n + 1 + i]
    <3>1. n + 1 \in Nat /\ (n + 1) + l = m /\ m <= Len(r)
      BY <1>7, <2>1
    <3>2. p = SubSeq(r, (n + 1) + 1, (n + 1) + l)
      BY <1>17, <3>1
    <3>3. PICK z \in Nat : z = n + 1
      OBVIOUS
    <3>4. p = SubSeq(r, z + 1, z + l) /\ z + l <= Len(r)
      BY <3>1, <3>2, <3>3
    <3>5. p \in Seq(Token) /\ Len(p) = l /\ \A i \in 1..l : p[i] = r[z + i]
      <4>1. SliceOf(Token, r, z, l, p)
        BY <2>2, <3>4 DEF SliceOf
      <4>2. Shifted(Token, r, z, l, p)
        BY <4>1, SliceAfter
      <4> QED BY <4>2 DEF Shifted
    <3> QED BY <3>3, <3>5
  <2> QED BY <2>1, <2>2, <2>3, SameSequence
<1>19. (m + 1) - 1 = m
  OBVIOUS
<1>20. Pieces(r, g, 1) = Append(Pieces(c, e, 1), f)
  BY <1>15, <1>16, <1>17, <1>18, <1>19 DEF PieceAdded
<1> QED BY <1>4, <1>9, <1>10, <1>20

-----------------------------------------------------------------------------
(* A packet is what serialize was given. *)

\* Fields that need no escapes, or have been given them.
Plains == {f \in Wire : "#" \notin ToSet(f) /\ "%" \notin ToSet(f)}

Marked(fields) == [i \in DOMAIN fields |-> <<"#">> \o fields[i]]
Body(h, fields) == <<h>> \o FlattenSeq(Marked(fields))

LEMMA NoPacketYet == \A b \in Wire : "%" \notin ToSet(b) => Unfinished(b)
<1> DEFINE G == {b \in Wire : "%" \notin ToSet(b) => Unfinished(b)}
<1>1. <<>> \in G
  BY EmptyWire, NothingPending
<1>2. ASSUME NEW b \in Seq(Token), NEW t \in Token, b \in G PROVE Append(b, t) \in G
  <2>1. PICK c : c = Append(b, t)
    OBVIOUS
  <2>2. c \in Wire /\ b \in Wire /\ ToSet(c) = ToSet(b) \cup {t} /\ Taken(b, t, c)
    BY <2>1, TokenTaken, ToSetAppend DEF Wire
  <2>3. ASSUME "%" \notin ToSet(c) PROVE Unfinished(c)
    <3>1. t # "%" /\ Rest(b) = b /\ Complete(b) = <<>>
      BY <1>2, <2>2, <2>3 DEF Unfinished
    <3>2. ~Closes(Rest(b), t)
      BY <3>1 DEF Closes
    <3> QED BY <2>1, <2>2, <3>1, <3>2 DEF Taken, Unfinished
  <2> QED BY <2>1, <2>2, <2>3
<1> HIDE DEF G
<1>3. \A b \in Seq(Token) : b \in G
  BY <1>1, <1>2, InductionByAppend
<1> QED BY <1>3 DEF G, Wire

LEMMA PlainsAreWire == Plains \subseteq Wire /\ \A f \in Plains : "#" \notin ToSet(f) /\ "%" \notin ToSet(f)
BY DEF Plains

LEMMA HashedField == ASSUME NEW f \in Wire PROVE <<"#">> \o f \in Wire
BY SymbolsAreTokens, SingletonSeq, SeqJoined DEF Wire

LEMMA MarkedAppend ==
    ASSUME NEW s \in Seq(Plains), NEW f \in Plains, NEW r, r = Append(s, f)
    PROVE  FlattenSeq(Marked(s)) \in Wire /\ FlattenSeq(Marked(r)) = FlattenSeq(Marked(s)) \o (<<"#">> \o f)
<1>1. PICK W : W = Plains
  OBVIOUS
<1>2. s \in Seq(W) /\ f \in W
  BY <1>1
<1>3. PICK n \in Nat : n = Len(s) /\ DOMAIN s = 1..n /\ \A i \in 1..n : s[i] \in W
  BY <1>2
<1>4. DOMAIN r = 1..(n + 1) /\ r[n + 1] = f /\ \A i \in 1..n : r[i] = s[i]
  BY <1>2, <1>3, AppendIs
<1>5. PICK x : x = <<"#">> \o f
  OBVIOUS
<1>6. PICK a : a = Marked(s)
  OBVIOUS
<1>7. PICK b : b = Marked(r)
  OBVIOUS
<1>8. a = [i \in 1..n |-> <<"#">> \o s[i]] /\ b = [i \in 1..(n + 1) |-> <<"#">> \o r[i]]
  BY <1>3, <1>4, <1>6, <1>7 DEF Marked
<1>9. \A g \in W : <<"#">> \o g \in Wire
  BY <1>1, PlainsAreWire, HashedField
<1>10. \A i \in 1..(n + 1) : r[i] \in W
  <2>1. \A i \in 1..(n + 1) : i \in 1..n \/ i = n + 1
    OBVIOUS
  <2> QED BY <1>2, <1>3, <1>4, <2>1
<1>11. PICK V : V = Wire
  OBVIOUS
<1>12. a \in [1..n -> V] /\ b \in [1..(n + 1) -> V] /\ x \in V
  BY <1>2, <1>3, <1>5, <1>8, <1>9, <1>10, <1>11
<1>13. b[n + 1] = x /\ \A i \in 1..n : b[i] = a[i]
  <2>1. n + 1 \in 1..(n + 1) /\ \A i \in 1..n : i \in 1..(n + 1)
    OBVIOUS
  <2> QED BY <1>4, <1>5, <1>8, <2>1
<1>14. Longer(Token, n, a, x, b)
  BY <1>11, <1>12, <1>13 DEF Longer, Wire
<1>15. FlattenSeq(a) \in Seq(Token) /\ FlattenSeq(b) = FlattenSeq(a) \o x
  BY <1>14, OneMoreMark
<1> QED BY <1>5, <1>6, <1>7, <1>15 DEF Wire

JoinOf(T, s, t, u, x) == s \in Seq(T) /\ t \in Seq(T) /\ u \in Seq(T) /\ x = t \o u
Joined(s, t, u, x) == (s \o t) \o u = s \o x

LEMMA JoinsEitherWay ==
    ASSUME NEW T, NEW s, NEW t, NEW u, NEW x, JoinOf(T, s, t, u, x)
    PROVE  Joined(s, t, u, x)
BY ConcatJoins DEF JoinOf, Joined

LEMMA BodyAppend ==
    ASSUME NEW h \in Token, NEW s \in Seq(Plains), NEW f \in Plains, NEW r, r = Append(s, f)
    PROVE  Body(h, s) \in Wire /\ Body(h, r) = Append(Body(h, s), "#") \o f
<1>1. PICK a : a = FlattenSeq(Marked(s))
  OBVIOUS
<1>2. PICK k : k = <<h>>
  OBVIOUS
<1>3. PICK u : u = <<"#">>
  OBVIOUS
<1>4. PICK b : b = FlattenSeq(Marked(r))
  OBVIOUS
<1>5. PICK x : x = u \o f
  OBVIOUS
<1>6. a \in Seq(Token) /\ b = a \o x
  BY <1>1, <1>3, <1>4, <1>5, MarkedAppend DEF Wire
<1>7. k \in Seq(Token) /\ u \in Seq(Token) /\ f \in Seq(Token)
  BY <1>2, <1>3, SymbolsAreTokens, SingletonSeq, PlainsAreWire DEF Wire
<1>8. PICK c : c = k \o a
  OBVIOUS
<1>9. c \in Seq(Token) /\ x \in Seq(Token)
  BY <1>5, <1>6, <1>7, <1>8, SeqJoined
<1>10. k \o b = c \o x
  <2>1. JoinOf(Token, k, a, x, b)
    BY <1>6, <1>7, <1>9 DEF JoinOf
  <2>2. Joined(k, a, x, b)
    BY <2>1, JoinsEitherWay
  <2> QED BY <1>8, <2>2 DEF Joined
<1>11. (c \o u) \o f = c \o x
  BY <1>5, <1>7, <1>9, ConcatJoins
<1>12. c \o u = Append(c, "#")
  BY <1>3, <1>9, SymbolsAreTokens, ConcatOne
<1>13. Body(h, s) = c /\ Body(h, r) = k \o b
  BY <1>1, <1>2, <1>4, <1>8 DEF Body
<1> QED BY <1>9, <1>10, <1>11, <1>12, <1>13 DEF Wire

\* The body is read as the header and the fields, and completes no packet.
BodyReads(h, s) ==
    /\ Body(h, s) \in Wire /\ "%" \notin ToSet(Body(h, s))
    /\ Split(Body(h, s), "#") = <<<<h>>>> \o s

LEMMA BodyReadsEmpty ==
    ASSUME NEW h \in Token, h # "#", h # "%"
    PROVE  BodyReads(h, <<>>)
<1>1. PICK k : k = <<h>>
  OBVIOUS
<1>2. k \in Wire /\ Split(k, "#") = <<k>> /\ ToSet(k) = {h}
  BY <1>1, SplitHeader, SingletonSeq
<1>3. Marked(<<>>) = <<>>
  BY DEF Marked
<1>4. Body(h, <<>>) = k
  BY <1>1, <1>2, <1>3, FlattenEmpty, ConcatEmpty DEF Body, Wire
<1>5. <<k>> \o <<>> = <<k>>
  <2>1. PICK W : W = Wire
    OBVIOUS
  <2>2. <<k>> \in Seq(W)
    BY <1>2, <2>1
  <2> QED BY <2>2, ConcatEmpty
<1> QED BY <1>1, <1>2, <1>4, <1>5 DEF BodyReads

LEMMA BodyReadsAppend ==
    ASSUME NEW h \in Token, NEW s \in Seq(Plains), NEW f \in Plains, NEW r, r = Append(s, f), BodyReads(h, s)
    PROVE  BodyReads(h, r)
<1>1. PICK c \in Wire : c = Body(h, s)
  BY DEF BodyReads
<1>2. PICK d : d = Body(h, r)
  OBVIOUS
<1>3. d = Append(c, "#") \o f
  BY <1>1, <1>2, BodyAppend
<1>4. f \in Wire /\ "#" \notin ToSet(f) /\ "%" \notin ToSet(f)
  BY PlainsAreWire
<1>5. d \in Wire /\ Split(d, "#") = Append(Split(c, "#"), f)
  BY <1>3, <1>4, SplitField
<1>6. "%" \notin ToSet(d)
  <2>1. PICK x : x = Append(c, "#")
    OBVIOUS
  <2>2. x \in Seq(Token) /\ ToSet(x) = ToSet(c) \cup {"#"}
    BY <2>1, SymbolsAreTokens, ToSetAppend DEF Wire
  <2>3. ToSet(x \o f) = ToSet(x) \cup ToSet(f)
    BY <1>4, <2>2, ToSetConcat DEF Wire
  <2>4. "%" \notin ToSet(c)
    BY <1>1 DEF BodyReads
  <2>5. "%" # "#"
    OBVIOUS
  <2> QED BY <1>3, <1>4, <2>1, <2>2, <2>3, <2>4, <2>5
<1>7. Split(d, "#") = <<<<h>>>> \o r
  <2>1. PICK W : W = Wire
    OBVIOUS
  <2>2. PICK k : k = <<h>>
    OBVIOUS
  <2>3. k \in W
    BY <2>1, <2>2, SingletonSeq DEF Wire
  <2>4. PICK q : q = <<k>>
    OBVIOUS
  <2>5. q \in Seq(W)
    BY <2>3, <2>4
  <2>6. s \in Seq(W) /\ f \in W
    <3>1. PICK P : P = Plains
      OBVIOUS
    <3>2. P \subseteq W /\ s \in Seq(P)
      BY <2>1, <3>1, PlainsAreWire
    <3> QED BY <1>4, <2>1, <3>2
  <2>7. q \o Append(s, f) = Append(q \o s, f)
    BY <2>5, <2>6, ConcatAppend
  <2>8. Split(c, "#") = q \o s
    BY <1>1, <2>2, <2>4 DEF BodyReads
  <2> QED BY <1>5, <2>2, <2>4, <2>7, <2>8
<1> QED BY <1>2, <1>5, <1>6, <1>7 DEF BodyReads

LEMMA BodiesRead ==
    ASSUME NEW h \in Token, h # "#", h # "%"
    PROVE  \A s \in Seq(Plains) : BodyReads(h, s)
<1> DEFINE G == {s \in Seq(Plains) : BodyReads(h, s)}
<1>1. <<>> \in G
  <2>1. PICK P : P = Plains
    OBVIOUS
  <2>2. <<>> \in Seq(P)
    OBVIOUS
  <2> QED BY <2>1, <2>2, BodyReadsEmpty
<1>2. ASSUME NEW s \in Seq(Plains), NEW f \in Plains, s \in G PROVE Append(s, f) \in G
  <2>1. PICK r : r = Append(s, f)
    OBVIOUS
  <2>2. BodyReads(h, r)
    BY <1>2, <2>1, BodyReadsAppend
  <2>3. r \in Seq(Plains)
    <3>1. PICK P : P = Plains
      OBVIOUS
    <3>2. s \in Seq(P) /\ f \in P
      BY <3>1
    <3> QED BY <2>1, <3>1, <3>2, AppendIs
  <2> QED BY <2>1, <2>2, <2>3
<1> HIDE DEF G
<1>3. \A s \in Seq(Plains) : s \in G
  BY <1>1, <1>2, InductionByAppend
<1> QED BY <1>3 DEF G

PacketOf(h, fields) == [header |-> <<h>>, fields |-> fields]

\* Everything in b is in packets that are complete.
Whole(b) == b \in Wire /\ Rest(b) = <<>>

LEMMA WholeJoined ==
    ASSUME NEW a, NEW b, Whole(a), Whole(b)
    PROVE  Whole(a \o b) /\ Complete(a \o b) = Complete(a) \o Complete(b)
<1>1. a \in Wire /\ b \in Wire /\ Rest(a) = <<>> /\ Rest(b) = <<>>
  BY DEF Whole
<1>2. InTwo(a, b)
  BY <1>1, BufferInTwo
<1>3. Rest(a) \o b = b
  BY <1>1, ConcatEmpty DEF Wire
<1>4. a \o b \in Wire
  BY <1>1, WireJoined
<1> QED BY <1>1, <1>2, <1>3, <1>4 DEF InTwo, Whole

LEMMA ContentOfAppend ==
    ASSUME NEW T, NEW c \in Seq(T), NEW t \in T
    PROVE  Content(Append(c, t)) = c
<1>1. PICK d : d = Append(c, t)
  OBVIOUS
<1>2. PICK n \in Nat : n = Len(c)
  OBVIOUS
<1>3. d \in Seq(T) /\ Len(d) = n + 1 /\ \A i \in 1..n : d[i] = c[i]
  BY <1>1, <1>2, AppendIs
<1>4. PICK q : q = SubSeq(d, 1, n)
  OBVIOUS
<1>5. q \in Seq(T) /\ Len(q) = n /\ \A i \in 1..n : q[i] = d[0 + i]
  <2>1. 0 + n <= Len(d) /\ q = SubSeq(d, 0 + 1, 0 + n)
    BY <1>3, <1>4
  <2>2. SliceOf(T, d, 0, n, q)
    BY <1>3, <2>1 DEF SliceOf
  <2>3. Shifted(T, d, 0, n, q)
    BY <2>2, SliceAfter
  <2> QED BY <2>3 DEF Shifted
<1>6. \A i \in 1..n : q[i] = c[i]
  <2>1. \A i \in 1..n : 0 + i = i
    OBVIOUS
  <2> QED BY <1>3, <1>5, <2>1
<1>7. q = c
  BY <1>2, <1>5, <1>6, SameSequence
<1>8. (n + 1) - 1 = n
  OBVIOUS
<1> QED BY <1>1, <1>3, <1>4, <1>7, <1>8 DEF Content

LEMMA BodyClosed ==
    ASSUME NEW c \in Wire, "%" \notin ToSet(c), NEW d, d = Append(c, "#"), NEW e, e = Append(d, "%")
    PROVE  e \in Wire /\ Rest(e) = <<>> /\ Complete(e) = <<deserialize(c)>>
<1>1. d \in Wire /\ ToSet(d) = ToSet(c) \cup {"#"}
  BY SymbolsAreTokens, ToSetAppend DEF Wire
<1>2. Rest(d) = d /\ Complete(d) = <<>>
  <2>1. "%" \notin ToSet(d)
    BY <1>1
  <2> QED BY <1>1, <2>1, NoPacketYet DEF Unfinished
<1>3. Taken(d, "%", e) /\ e \in Wire
  BY <1>1, SymbolsAreTokens, TokenTaken
<1>4. Closes(d, "%")
  <2>1. PICK k \in Token : k = "#"
    BY SymbolsAreTokens
  <2>2. d # <<>> /\ Len(d) = Len(c) + 1 /\ d[Len(c) + 1] = k
    BY <2>1, AppendIs DEF Wire
  <2> QED BY <2>1, <2>2 DEF Closes
<1>5. Content(d) = c
  BY SymbolsAreTokens, ContentOfAppend DEF Wire
<1>6. PICK k : k = deserialize(c)
  OBVIOUS
<1>7. Rest(e) = <<>> /\ Complete(e) = Append(<<>>, k)
  BY <1>2, <1>3, <1>4, <1>5, <1>6 DEF Taken
<1>8. Append(<<>>, k) = <<k>>
  OBVIOUS
<1> QED BY <1>3, <1>6, <1>7, <1>8

LEMMA BodyDeserialized ==
    ASSUME NEW h \in Token, NEW s \in Seq(Plains), BodyReads(h, s)
    PROVE  deserialize(Body(h, s)) = PacketOf(h, s)
<1>1. PICK W : W = Wire
  OBVIOUS
<1>2. PICK k : k = <<h>>
  OBVIOUS
<1>3. k \in W
  BY <1>1, <1>2, SingletonSeq DEF Wire
<1>4. s \in Seq(W)
  <2>1. PICK P : P = Plains
    OBVIOUS
  <2>2. P \subseteq W /\ s \in Seq(P)
    BY <1>1, <2>1, PlainsAreWire
  <2> QED BY <2>2
<1>5. PICK t : t = <<k>> \o s
  OBVIOUS
<1>6. t[1] = k /\ Tail(t) = s
  BY <1>3, <1>4, <1>5
<1>7. Split(Body(h, s), "#") = t
  BY <1>2, <1>5 DEF BodyReads
<1> QED BY <1>2, <1>6, <1>7 DEF deserialize, PacketOf

LEMMA SerializeReads ==
    ASSUME NEW h \in Token, h # "#", h # "%", NEW s \in Seq(Plains)
    PROVE  Whole(serialize(h, s)) /\ Complete(serialize(h, s)) = <<PacketOf(h, s)>>
<1>1. BodyReads(h, s)
  BY BodiesRead
<1>2. PICK c \in Wire : c = Body(h, s)
  BY <1>1 DEF BodyReads
<1>3. PICK d : d = Append(c, "#")
  OBVIOUS
<1>4. PICK e : e = Append(d, "%")
  OBVIOUS
<1>5. e \in Wire /\ Rest(e) = <<>> /\ Complete(e) = <<deserialize(c)>>
  <2>1. "%" \notin ToSet(c)
    BY <1>1, <1>2 DEF BodyReads
  <2> QED BY <1>3, <1>4, <2>1, BodyClosed
<1>6. serialize(h, s) = c \o <<"#", "%">>
  <2>1. c = <<h>> \o FlattenSeq([i \in DOMAIN s |-> <<"#">> \o s[i]])
    BY <1>2 DEF Body, Marked
  <2> QED BY <2>1, Zenon DEF serialize
<1>7. c \o <<"#", "%">> = e
  <2>1. ASSUME NEW T, NEW b \in Seq(T), NEW x \in T, NEW y \in T
        PROVE  b \o <<x, y>> = Append(Append(b, x), y)
    BY <2>1
  <2>2. c \in Seq(Token) /\ "#" \in Token /\ "%" \in Token
    BY SymbolsAreTokens DEF Wire
  <2>3. c \o <<"#", "%">> = Append(Append(c, "#"), "%")
    BY <2>1, <2>2
  <2> QED BY <1>3, <1>4, <2>3
<1>8. deserialize(c) = PacketOf(h, s)
  BY <1>1, <1>2, BodyDeserialized
<1> QED BY <1>5, <1>6, <1>7, <1>8 DEF Whole

-----------------------------------------------------------------------------
(* What a client makes of its packets, some first and the others later. *)

LEMMA MaxOf ==
    ASSUME NEW n \in Nat, NEW S, S \subseteq 1..n, S # {}
    PROVE  Max(S) \in S /\ \A y \in S : y <= Max(S)
<1> DEFINE T == {n - x : x \in S}
<1>1. T \in SUBSET Nat /\ T # {}
  <2>1. \A x \in S : n - x \in Nat
    OBVIOUS
  <2>2. T \subseteq Nat
    BY <2>1
  <2>3. PICK x : x \in S
    OBVIOUS
  <2>4. n - x \in T
    BY <2>3
  <2> QED BY <2>2, <2>4
<1>2. PICK m \in T : \A y \in T : m <= y
  BY <1>1, LeastNat
<1>3. PICK x \in S : m = n - x
  BY <1>2
<1>4. \A y \in S : n - y \in T /\ y \in Nat
  OBVIOUS
<1>5. \A y \in S : n - x <= n - y
  BY <1>2, <1>3, <1>4
<1>6. \A y \in S : x >= y
  BY <1>4, <1>5
<1>7. Max(S) \in S /\ \A y \in S : Max(S) >= y
  BY <1>6, Zenon DEF Max
<1> QED BY <1>4, <1>7

LEMMA MaxIs ==
    ASSUME NEW n \in Nat, NEW S, S \subseteq 1..n, NEW x \in S, \A y \in S : y <= x
    PROVE  Max(S) = x
<1>1. Max(S) \in S /\ \A y \in S : y <= Max(S)
  <2>1. S # {}
    OBVIOUS
  <2> QED BY <2>1, MaxOf
<1>2. PICK m : m = Max(S)
  OBVIOUS
<1>3. m <= x /\ x <= m /\ m \in 1..n /\ x \in 1..n
  BY <1>1, <1>2
<1> QED BY <1>2, <1>3

\* Where the packets are that H picks out, and the last of them.
Hits(s, H) == {i \in DOMAIN s : s[i] \in H}
LastHit(s, H) == s[Max(Hits(s, H))]

\* What the last hit of s and t together is.
HitsOf(T, s, t, r) == s \in Seq(T) /\ t \in Seq(T) /\ r = s \o t
LastHits(s, t, r, H) ==
    /\ Hits(t, H) # {} => Hits(r, H) # {} /\ LastHit(r, H) = LastHit(t, H)
    /\ Hits(t, H) = {} /\ Hits(s, H) # {} => Hits(r, H) # {} /\ LastHit(r, H) = LastHit(s, H)
    /\ Hits(t, H) = {} /\ Hits(s, H) = {} => Hits(r, H) = {}

LEMMA HitsJoined ==
    ASSUME NEW T, NEW s, NEW t, NEW r, NEW H, HitsOf(T, s, t, r)
    PROVE  LastHits(s, t, r, H)
<1>1. PICK m \in Nat : m = Len(s) /\ DOMAIN s = 1..m
  BY DEF HitsOf
<1>2. PICK n \in Nat : n = Len(t) /\ DOMAIN t = 1..n
  BY DEF HitsOf
<1>3. DOMAIN r = 1..(m + n) /\ (\A i \in 1..m : r[i] = s[i]) /\ \A i \in 1..n : r[m + i] = t[i]
  BY <1>1, <1>2 DEF HitsOf
<1>4. PICK a : a = Hits(s, H) /\ a = {i \in 1..m : s[i] \in H}
  BY <1>1 DEF Hits
<1>5. PICK b : b = Hits(t, H) /\ b = {i \in 1..n : t[i] \in H}
  BY <1>2 DEF Hits
<1>6. PICK c : c = Hits(r, H) /\ c = {i \in 1..(m + n) : r[i] \in H}
  BY <1>3 DEF Hits
<1>7. \A i \in 1..(m + n) : i \in 1..m \/ (i - m \in 1..n /\ m + (i - m) = i)
  OBVIOUS
<1>8. (\A i \in 1..n : m + i \in 1..(m + n)) /\ \A i \in 1..m : i \in 1..(m + n)
  OBVIOUS
<1>9. (\A i \in a : i \in c) /\ \A i \in b : m + i \in c
  BY <1>3, <1>4, <1>5, <1>6, <1>8
<1>10. \A i \in c : i \in a \/ i - m \in b
  BY <1>3, <1>4, <1>5, <1>6, <1>7
<1>11. CASE b # {}
  <2>1. PICK x \in b : x = Max(b) /\ \A y \in b : y <= x
    BY <1>5, <1>11, MaxOf
  <2>2. x \in 1..n /\ m + x \in c
    BY <1>5, <1>9
  <2>3. \A y \in c : y <= m + x
    <3>1. TAKE y \in c
    <3>2. CASE y \in a
      BY <1>4, <2>2, <3>2
    <3>3. CASE y - m \in b
      <4>1. y - m <= x /\ y \in Int
        BY <1>6, <2>1, <3>3
      <4> QED BY <2>2, <4>1
    <3> QED BY <1>10, <3>2, <3>3
  <2>4. Max(c) = m + x
    <3>1. c \subseteq 1..(m + n) /\ m + n \in Nat
      BY <1>6
    <3> QED BY <2>2, <2>3, <3>1, MaxIs
  <2>5. r[m + x] = t[x]
    BY <1>3, <2>2
  <2> QED BY <1>5, <1>6, <1>11, <2>1, <2>2, <2>4, <2>5 DEF LastHits, LastHit
<1>12. CASE b = {} /\ a # {}
  <2>1. PICK x \in a : x = Max(a) /\ \A y \in a : y <= x
    BY <1>4, <1>12, MaxOf
  <2>2. x \in 1..m /\ x \in c /\ \A y \in c : y <= x
    BY <1>4, <1>9, <1>10, <1>12, <2>1
  <2>3. Max(c) = x
    <3>1. c \subseteq 1..(m + n) /\ m + n \in Nat
      BY <1>6
    <3> QED BY <2>2, <3>1, MaxIs
  <2>4. r[x] = s[x]
    BY <1>3, <2>2
  <2> QED BY <1>4, <1>5, <1>6, <1>12, <2>1, <2>2, <2>3, <2>4 DEF LastHits, LastHit
<1>13. CASE b = {} /\ a = {}
  <2>1. c = {}
    BY <1>10, <1>13
  <2> QED BY <1>4, <1>5, <1>6, <1>13, <2>1 DEF LastHits
<1> QED BY <1>11, <1>12, <1>13

Lists == {k \in Packets : k.header = <<"LE">>}
AboutBar(s) == {k \in Packets : k.header = <<"HP">> /\ k.fields[1][1] = s}

LEMMA ListedIs ==
    ASSUME NEW view, NEW s \in Seq(Packets)
    PROVE  Listed(view, s) = IF Hits(s, Lists) = {} THEN view ELSE LastHit(s, Lists).fields
<1>1. \A i \in DOMAIN s : s[i] \in Packets
  <2>1. PICK P : P = Packets
    OBVIOUS
  <2> QED BY <2>1
<1>2. {i \in DOMAIN s : s[i].header = <<"LE">>} = Hits(s, Lists)
  BY <1>1, Zenon DEF Hits, Lists
<1> QED BY <1>2 DEF Listed, LastHit

LEMMA BarsAre ==
    ASSUME NEW view, NEW s \in Seq(Packets)
    PROVE  Bars(view, s) = [x \in DOMAIN view |-> IF Hits(s, AboutBar(x)) = {} THEN view[x]
                                                  ELSE LastHit(s, AboutBar(x)).fields[2][1]]
<1>1. \A i \in DOMAIN s : s[i] \in Packets
  <2>1. PICK P : P = Packets
    OBVIOUS
  <2> QED BY <2>1
<1>2. \A x : {i \in DOMAIN s : s[i].header = <<"HP">> /\ s[i].fields[1][1] = x} = Hits(s, AboutBar(x))
  BY <1>1, Zenon DEF Hits, AboutBar
<1> QED BY <1>2 DEF Bars, LastHit

LEMMA ListedJoined ==
    ASSUME NEW view, NEW s \in Seq(Packets), NEW t \in Seq(Packets)
    PROVE  Listed(view, s \o t) = Listed(Listed(view, s), t)
<1>1. PICK r : r = s \o t
  OBVIOUS
<1>2. r \in Seq(Packets) /\ LastHits(s, t, r, Lists)
  <2>1. HitsOf(Packets, s, t, r)
    BY <1>1 DEF HitsOf
  <2> QED BY <1>1, <2>1, HitsJoined, SeqJoined
<1>3. Listed(view, r) = IF Hits(r, Lists) = {} THEN view ELSE LastHit(r, Lists).fields
  BY <1>2, ListedIs
<1>4. PICK v : v = Listed(view, s)
  OBVIOUS
<1>5. v = IF Hits(s, Lists) = {} THEN view ELSE LastHit(s, Lists).fields
  BY <1>4, ListedIs
<1>6. Listed(v, t) = IF Hits(t, Lists) = {} THEN v ELSE LastHit(t, Lists).fields
  BY ListedIs
<1> QED BY <1>1, <1>2, <1>3, <1>4, <1>5, <1>6 DEF LastHits

LEMMA BarsJoined ==
    ASSUME NEW view, NEW s \in Seq(Packets), NEW t \in Seq(Packets)
    PROVE  Bars(view, s \o t) = Bars(Bars(view, s), t)
<1>1. PICK r : r = s \o t
  OBVIOUS
<1>2. r \in Seq(Packets) /\ \A x : LastHits(s, t, r, AboutBar(x))
  <2>1. HitsOf(Packets, s, t, r)
    BY <1>1 DEF HitsOf
  <2> QED BY <1>1, <2>1, HitsJoined, SeqJoined
<1>3. PICK v : v = Bars(view, s)
  OBVIOUS
<1>4. v = [x \in DOMAIN view |-> IF Hits(s, AboutBar(x)) = {} THEN view[x] ELSE LastHit(s, AboutBar(x)).fields[2][1]]
  BY <1>3, BarsAre
<1>5. Bars(view, r) = [x \in DOMAIN view |-> IF Hits(r, AboutBar(x)) = {} THEN view[x]
                                             ELSE LastHit(r, AboutBar(x)).fields[2][1]]
  BY <1>2, BarsAre
<1>6. Bars(v, t) = [x \in DOMAIN v |-> IF Hits(t, AboutBar(x)) = {} THEN v[x] ELSE LastHit(t, AboutBar(x)).fields[2][1]]
  BY BarsAre
<1>7. DOMAIN v = DOMAIN view
  BY <1>4
<1>8. \A x \in DOMAIN view :
        (IF Hits(r, AboutBar(x)) = {} THEN view[x] ELSE LastHit(r, AboutBar(x)).fields[2][1])
          = (IF Hits(t, AboutBar(x)) = {} THEN v[x] ELSE LastHit(t, AboutBar(x)).fields[2][1])
  BY <1>2, <1>4 DEF LastHits
<1> QED BY <1>1, <1>3, <1>5, <1>6, <1>7, <1>8

\* What there is to publish.
Heard == {Chat(k)[1] : k \in Packets}

LEMMA ChatType == \A k \in Packets : Chat(k) \in Seq(Heard)
<1> SUFFICES ASSUME NEW k \in Packets PROVE Chat(k) \in Seq(Heard)
  OBVIOUS
<1>1. Chat(k)[1] \in Heard
  BY DEF Heard
<1>2. CASE \E x : Chat(k) = <<x>>
  <2>1. PICK x : Chat(k) = <<x>>
    BY <1>2
  <2>2. x \in Heard
    BY <1>1, <2>1
  <2>3. PICK M : M = Heard
    OBVIOUS
  <2>4. <<x>> \in Seq(M)
    BY <2>2, <2>3
  <2> QED BY <2>1, <2>3, <2>4
<1>3. CASE Chat(k) = <<>>
  BY <1>3
<1>4. (\E x : Chat(k) = <<x>>) \/ Chat(k) = <<>>
  <2>1. CASE k.header = <<"MS">>
    <3>1. Chat(k) = <<<<"IC", FromWireMS(k.fields)>>>>
      BY <2>1 DEF Chat
    <3> QED BY <3>1, Zenon
  <2>2. CASE k.header # <<"MS">> /\ k.header = <<"CT">>
    <3>1. Chat(k) = <<<<"OOC", ao_decode(Field(k.fields, 2)), Field(k.fields, 3) = <<"1">>>>>>
      <4>1. <<"CT">> # <<"MS">>
        OBVIOUS
      <4>2. k.header # <<"MS">>
        BY <2>2
      <4> QED BY <2>2, <4>1, <4>2 DEF Chat
    <3> QED BY <3>1, Zenon
  <2>3. CASE k.header # <<"MS">> /\ k.header # <<"CT">>
    BY <2>3, Zenon DEF Chat
  <2> QED BY <2>1, <2>2, <2>3
<1> QED BY <1>2, <1>3, <1>4

Chats(s) == [i \in DOMAIN s |-> Chat(s[i])]

LEMMA ChatsType ==
    ASSUME NEW s \in Seq(Packets)
    PROVE  Chats(s) \in Seq(Seq(Heard)) /\ Published(s) \in Seq(Heard)
<1>1. PICK M : M = Seq(Heard)
  OBVIOUS
<1>2. PICK n \in Nat : DOMAIN s = 1..n /\ \A i \in 1..n : s[i] \in Packets
  <2>1. PICK P : P = Packets
    OBVIOUS
  <2>2. s \in Seq(P)
    BY <2>1
  <2> QED BY <2>1, <2>2, SeqIsFunction
<1>3. \A k \in Packets : Chat(k) \in M
  BY <1>1, ChatType
<1>4. [i \in 1..n |-> Chat(s[i])] \in [1..n -> M]
  BY <1>2, <1>3
<1>5. Chats(s) \in Seq(M)
  BY <1>2, <1>4, FunctionIsSeq DEF Chats
<1>6. Published(s) = FlattenSeq(Chats(s))
  BY DEF Published, Chats
<1> QED BY <1>1, <1>5, <1>6, FlattenType

\* f taken of every element, of t and then of u.
MappedOf(T, s, t, r, f, g, h, M) ==
    /\ s \in Seq(T) /\ t \in Seq(T) /\ r = s \o t
    /\ f \in Seq(M) /\ Len(f) = Len(s) /\ g \in Seq(M) /\ Len(g) = Len(t)
    /\ h \in Seq(M) /\ Len(h) = Len(r)
    /\ \A i \in 1..Len(s) : h[i] = f[i]
    /\ \A i \in 1..Len(t) : h[Len(s) + i] = g[i]
Mapped(f, g, h) == h = f \o g

LEMMA MappedConcat ==
    ASSUME NEW T, NEW s, NEW t, NEW r, NEW f, NEW g, NEW h, NEW M, MappedOf(T, s, t, r, f, g, h, M)
    PROVE  Mapped(f, g, h)
<1>1. PICK m \in Nat : m = Len(s) /\ m = Len(f)
  BY DEF MappedOf
<1>2. PICK n \in Nat : n = Len(t) /\ n = Len(g)
  BY DEF MappedOf
<1>3. Len(r) = m + n
  BY <1>1, <1>2 DEF MappedOf
<1>4. h \in Seq(M) /\ f \in Seq(M) /\ g \in Seq(M) /\ Len(h) = m + n
      /\ (\A i \in 1..m : h[i] = f[i]) /\ \A i \in 1..n : h[m + i] = g[i]
  BY <1>1, <1>2, <1>3 DEF MappedOf
<1>5. PICK q : q = f \o g
  OBVIOUS
<1>6. q \in Seq(M) /\ Len(q) = m + n /\ (\A i \in 1..m : q[i] = f[i]) /\ \A i \in 1..n : q[m + i] = g[i]
  <2>1. ConcatOf(M, f, g, q)
    BY <1>4, <1>5 DEF ConcatOf
  <2>2. Concatenated(M, f, g, q)
    BY <2>1, ConcatIs
  <2> QED BY <1>1, <1>2, <2>2 DEF Concatenated
<1>7. \A i \in 1..(m + n) : h[i] = q[i]
  <2>1. TAKE i \in 1..(m + n)
  <2>2. CASE i \in 1..m
    BY <1>4, <1>6, <2>2
  <2>3. CASE i \notin 1..m
    <3>1. PICK j \in 1..n : m + j = i
      <4>1. i - m \in 1..n /\ m + (i - m) = i
        BY <2>3
      <4> QED BY <4>1
    <3> QED BY <1>4, <1>6, <3>1
  <2> QED BY <2>2, <2>3
<1>8. h = q
  BY <1>4, <1>6, <1>7, SameSequence
<1> QED BY <1>5, <1>8 DEF Mapped

LEMMA PublishedJoined ==
    ASSUME NEW s \in Seq(Packets), NEW t \in Seq(Packets)
    PROVE  Published(s \o t) = Published(s) \o Published(t)
<1>1. PICK P : P = Packets
  OBVIOUS
<1>2. PICK r : r = s \o t
  OBVIOUS
<1>3. s \in Seq(P) /\ t \in Seq(P) /\ r \in Seq(P)
  BY <1>1, <1>2, SeqJoined
<1>4. PICK M : M = Seq(Heard)
  OBVIOUS
<1>5. PICK f : f = Chats(s)
  OBVIOUS
<1>6. PICK g : g = Chats(t)
  OBVIOUS
<1>7. PICK h : h = Chats(r)
  OBVIOUS
<1>8. f \in Seq(M) /\ g \in Seq(M) /\ h \in Seq(M)
  BY <1>1, <1>3, <1>4, <1>5, <1>6, <1>7, ChatsType
<1>9. PICK m \in Nat : m = Len(s) /\ DOMAIN s = 1..m
  BY <1>3
<1>10. PICK n \in Nat : n = Len(t) /\ DOMAIN t = 1..n
  BY <1>3
<1>11. Len(r) = m + n /\ DOMAIN r = 1..(m + n) /\ (\A i \in 1..m : r[i] = s[i]) /\ \A i \in 1..n : r[m + i] = t[i]
  <2>1. ConcatOf(P, s, t, r)
    BY <1>2, <1>3 DEF ConcatOf
  <2>2. Concatenated(P, s, t, r)
    BY <2>1, ConcatIs
  <2> QED BY <1>3, <1>9, <1>10, <2>2 DEF Concatenated
<1>12. f = [i \in 1..m |-> Chat(s[i])] /\ g = [i \in 1..n |-> Chat(t[i])] /\ h = [i \in 1..(m + n) |-> Chat(r[i])]
  BY <1>5, <1>6, <1>7, <1>9, <1>10, <1>11 DEF Chats
<1>13. Len(f) = m /\ Len(g) = n /\ Len(h) = m + n
  <2>1. DOMAIN f = 1..m /\ DOMAIN g = 1..n /\ DOMAIN h = 1..(m + n)
    BY <1>12
  <2> QED BY <1>8, <2>1, SeqIsFunction
<1>14. (\A i \in 1..m : h[i] = f[i]) /\ \A i \in 1..n : h[m + i] = g[i]
  <2>1. (\A i \in 1..m : i \in 1..(m + n)) /\ \A i \in 1..n : m + i \in 1..(m + n)
    OBVIOUS
  <2> QED BY <1>11, <1>12, <2>1
<1>15. h = f \o g
  <2>1. MappedOf(P, s, t, r, f, g, h, M)
    BY <1>2, <1>3, <1>8, <1>9, <1>10, <1>11, <1>13, <1>14 DEF MappedOf
  <2>2. Mapped(f, g, h)
    BY <2>1, MappedConcat
  <2> QED BY <2>2 DEF Mapped
<1>16. FlattenSeq(f \o g) = FlattenSeq(f) \o FlattenSeq(g)
  BY <1>4, <1>8, FlattenConcat
<1> QED BY <1>2, <1>5, <1>6, <1>7, <1>15, <1>16 DEF Published, Chats

-----------------------------------------------------------------------------
(* The codec. *)

EscapeWords == {"<pound>", "<percent>", "<and>", "<dollar>"}
Specials == {"#", "%", "&", "$"}

\* Text that names no escape.
Clean(s) == s \in Wire /\ ToSet(s) \cap EscapeWords = {}

LEMMA EscapesAre ==
    /\ DOMAIN Escapes = Specials
    /\ Escapes["#"] = "<pound>" /\ Escapes["%"] = "<percent>" /\ Escapes["&"] = "<and>" /\ Escapes["$"] = "<dollar>"
    /\ \A h \in Specials : Escapes[h] \in EscapeWords
    /\ \A h, g \in Specials : Escapes[h] = Escapes[g] => h = g
<1>1. /\ DOMAIN Escapes = Specials
      /\ Escapes["#"] = "<pound>" /\ Escapes["%"] = "<percent>" /\ Escapes["&"] = "<and>" /\ Escapes["$"] = "<dollar>"
  BY DEF Escapes, Specials
<1>2. \A h \in Specials : h = "#" \/ h = "%" \/ h = "&" \/ h = "$"
  BY DEF Specials
<1>3. \A h \in Specials : Escapes[h] \in EscapeWords
  BY <1>1, <1>2 DEF EscapeWords
<1>4. \A h, g \in Specials : Escapes[h] = Escapes[g] => h = g
  BY <1>1, <1>2
<1> QED BY <1>1, <1>3, <1>4

LEMMA WireElements == ASSUME NEW s \in Wire PROVE Len(s) \in Nat /\ DOMAIN s = 1..Len(s) /\ \A i \in DOMAIN s : s[i] \in Token
<1>1. PICK T : T = Token
  OBVIOUS
<1>2. s \in Seq(T)
  BY <1>1 DEF Wire
<1> QED BY <1>1, <1>2, SeqIsFunction

LEMMA WordsAreTokens == EscapeWords \subseteq Token
BY SymbolsAreTokens DEF EscapeWords, Symbols

LEMMA EncodedToken ==
    ASSUME NEW t \in Token
    PROVE  (IF t \in DOMAIN Escapes THEN Escapes[t] ELSE t) \in Token \ Specials
<1>1. \A w \in EscapeWords : w \in Token /\ w \notin Specials
  BY WordsAreTokens DEF EscapeWords, Specials
<1> QED BY <1>1, EscapesAre

LEMMA EncodeType == ASSUME NEW s \in Wire PROVE ao_encode(s) \in Plains
<1>1. PICK n \in Nat : DOMAIN s = 1..n /\ \A i \in 1..n : s[i] \in Token
  BY WireElements
<1>2. PICK e : e = ao_encode(s)
  OBVIOUS
<1>3. e = [i \in 1..n |-> IF s[i] \in DOMAIN Escapes THEN Escapes[s[i]] ELSE s[i]]
  BY <1>1, <1>2 DEF ao_encode
<1>4. PICK T : T = Token \ Specials
  OBVIOUS
<1>5. \A i \in 1..n : e[i] \in T
  BY <1>1, <1>3, <1>4, EncodedToken
<1>6. e \in [1..n -> T]
  BY <1>3, <1>5
<1>7. e \in Seq(T) /\ ToSet(e) \subseteq T
  BY <1>6, FunctionIsSeq, ToSetType
<1>8. e \in Wire
  <2>1. T \subseteq Token
    BY <1>4
  <2> QED BY <1>6, <2>1, FunctionIsSeq DEF Wire
<1> QED BY <1>2, <1>4, <1>7, <1>8 DEF Plains, Specials

\* What ao_decode makes of a token.
Decoded(u) == IF \E h \in DOMAIN Escapes : Escapes[h] = u THEN CHOOSE h \in DOMAIN Escapes : Escapes[h] = u ELSE u

LEMMA TokenDecoded ==
    ASSUME NEW t
    PROVE  /\ t \notin EscapeWords => Decoded(t) = t
           /\ t \in DOMAIN Escapes => Decoded(Escapes[t]) = t
<1>1. \A h \in DOMAIN Escapes : Escapes[h] \in EscapeWords
  BY EscapesAre
<1>2. ASSUME t \notin EscapeWords PROVE Decoded(t) = t
  <2>1. ~\E h \in DOMAIN Escapes : Escapes[h] = t
    BY <1>1, <1>2
  <2> QED BY <2>1, Zenon DEF Decoded
<1>3. ASSUME t \in DOMAIN Escapes PROVE Decoded(Escapes[t]) = t
  <2>1. \A h \in DOMAIN Escapes : Escapes[h] = Escapes[t] => h = t
    BY <1>3, EscapesAre
  <2>2. (CHOOSE h \in DOMAIN Escapes : Escapes[h] = Escapes[t]) = t
    BY <1>3, <2>1, Zenon
  <2>3. \E h \in DOMAIN Escapes : Escapes[h] = Escapes[t]
    BY <1>3
  <2> QED BY <2>2, <2>3, Zenon DEF Decoded
<1> QED BY <1>2, <1>3

LEMMA DecodeIs ==
    ASSUME NEW s \in Wire, NEW n, DOMAIN s = 1..n, NEW e, DOMAIN e = 1..n, \A i \in 1..n : Decoded(e[i]) = s[i]
    PROVE  ao_decode(e) = s
<1>1. ao_decode(e) = [i \in 1..n |-> Decoded(e[i])]
  BY DEF ao_decode, Decoded
<1>2. [i \in 1..n |-> Decoded(e[i])] = [i \in 1..n |-> s[i]]
  OBVIOUS
<1>3. s = [i \in 1..n |-> s[i]]
  BY WireElements DEF Wire
<1> QED BY <1>1, <1>2, <1>3

LEMMA DecodeClean == ASSUME NEW s, Clean(s) PROVE ao_decode(s) = s
<1>1. s \in Wire
  BY DEF Clean
<1>2. PICK n \in Nat : DOMAIN s = 1..n
  BY <1>1, WireElements
<1>3. \A i \in 1..n : s[i] \notin EscapeWords
  <2>1. \A i \in 1..n : s[i] \in ToSet(s)
    BY <1>2 DEF ToSet
  <2> QED BY <2>1 DEF Clean
<1>4. \A i \in 1..n : Decoded(s[i]) = s[i]
  BY <1>3, TokenDecoded
<1> QED BY <1>1, <1>2, <1>4, DecodeIs

LEMMA DecodeEncode == ASSUME NEW s, Clean(s) PROVE ao_decode(ao_encode(s)) = s
<1>0. s \in Wire
  BY DEF Clean
<1>1. PICK n \in Nat : DOMAIN s = 1..n
  BY <1>0, WireElements
<1>2. PICK e : e = ao_encode(s)
  OBVIOUS
<1>3. e = [i \in 1..n |-> IF s[i] \in DOMAIN Escapes THEN Escapes[s[i]] ELSE s[i]]
  BY <1>1, <1>2 DEF ao_encode
<1>4. \A i \in 1..n : s[i] \notin EscapeWords
  <2>1. \A i \in 1..n : s[i] \in ToSet(s)
    BY <1>1 DEF ToSet
  <2> QED BY <2>1 DEF Clean
<1>5. \A i \in 1..n : Decoded(e[i]) = s[i]
  <2>1. TAKE i \in 1..n
  <2>2. CASE s[i] \in DOMAIN Escapes
    <3>1. e[i] = Escapes[s[i]]
      BY <1>3, <2>2
    <3> QED BY <2>2, <3>1, TokenDecoded
  <2>3. CASE s[i] \notin DOMAIN Escapes
    <3>1. e[i] = s[i]
      BY <1>3, <2>3
    <3> QED BY <1>4, <3>1, TokenDecoded
  <2> QED BY <2>2, <2>3
<1>6. DOMAIN e = 1..n
  BY <1>3
<1>7. ao_decode(e) = s
  BY <1>0, <1>1, <1>5, <1>6, DecodeIs
<1> QED BY <1>2, <1>7

-----------------------------------------------------------------------------
(* MS: the positional layouts. *)

CoreNames ==
    {"desk_mod", "pre_emote", "character", "emote", "message", "side", "sfx_name", "emote_mod", "char_id",
     "sfx_delay", "objection_mod", "evidence_id", "flip", "realization", "text_color", "showname"}
MoreNames ==
    {"other_charid", "self_offset", "immediate", "looping_sfx", "screenshake", "frame_screenshake",
     "frame_realization", "frame_sfx", "additive", "effects", "blipname", "slide"}
Names == CoreNames \cup MoreNames

LEMMA CoreIs ==
    /\ \A T : CoreNames \subseteq T => Core \in Seq(T)
    /\ Len(Core) = 16 /\ DOMAIN Core = 1..16 /\ Core[5] = "message" /\ Core[16] = "showname"
BY SMT DEF Core, CoreNames

LEMMA CoreHas == \A n \in CoreNames : \E i \in 1..16 : Core[i] = n
<1> SUFFICES ASSUME NEW n \in CoreNames PROVE \E i \in 1..16 : Core[i] = n
  OBVIOUS
<1>1. /\ Core[1] = "desk_mod" /\ Core[2] = "pre_emote" /\ Core[3] = "character" /\ Core[4] = "emote"
      /\ Core[5] = "message" /\ Core[6] = "side" /\ Core[7] = "sfx_name" /\ Core[8] = "emote_mod"
      /\ Core[9] = "char_id" /\ Core[10] = "sfx_delay" /\ Core[11] = "objection_mod" /\ Core[12] = "evidence_id"
      /\ Core[13] = "flip" /\ Core[14] = "realization" /\ Core[15] = "text_color" /\ Core[16] = "showname"
  BY DEF Core
<1> QED BY <1>1 DEF CoreNames

\* The layouts after the core: of a client's MS, and of the server's.
LEMMA MoreIs ==
    ASSUME NEW t, t = <<"other_charid", "self_offset", "immediate", "looping_sfx", "screenshake", "frame_screenshake",
                        "frame_realization", "frame_sfx", "additive", "effects", "blipname", "slide">>
    PROVE  /\ \A T : MoreNames \subseteq T => t \in Seq(T)
           /\ Len(t) = 12 /\ DOMAIN t = 1..12 /\ \A n \in MoreNames : \E i \in 1..12 : t[i] = n
<1>1. (\A T : MoreNames \subseteq T => t \in Seq(T)) /\ Len(t) = 12 /\ DOMAIN t = 1..12
  BY SMT DEF MoreNames
<1>2. /\ t[1] = "other_charid" /\ t[2] = "self_offset" /\ t[3] = "immediate" /\ t[4] = "looping_sfx"
      /\ t[5] = "screenshake" /\ t[6] = "frame_screenshake" /\ t[7] = "frame_realization" /\ t[8] = "frame_sfx"
      /\ t[9] = "additive" /\ t[10] = "effects" /\ t[11] = "blipname" /\ t[12] = "slide"
  OBVIOUS
<1>3. \A n \in MoreNames : \E i \in 1..12 : t[i] = n
  BY <1>2 DEF MoreNames
<1> QED BY <1>1, <1>3

LEMMA PairsIs ==
    ASSUME NEW z, NEW t, t = <<"other_charid", z, z, "self_offset", z, z, "immediate", "looping_sfx", "screenshake",
                        "frame_screenshake", "frame_realization", "frame_sfx", "additive", "effects", "blipname", "slide">>
    PROVE  /\ \A T : MoreNames \cup {z} \subseteq T => t \in Seq(T)
           /\ Len(t) = 16 /\ DOMAIN t = 1..16
           /\ t[7] = "immediate" /\ t[8] = "looping_sfx" /\ t[9] = "screenshake"
           /\ t[12] = "frame_sfx" /\ t[13] = "additive" /\ t[16] = "slide"
<1>1. ASSUME NEW T, MoreNames \cup {z} \subseteq T PROVE t \in Seq(T)
  <2>1. z \in T /\ MoreNames \subseteq T
    BY <1>1
  <2>2. /\ "other_charid" \in T /\ "self_offset" \in T /\ "immediate" \in T /\ "looping_sfx" \in T
        /\ "screenshake" \in T /\ "frame_screenshake" \in T /\ "frame_realization" \in T /\ "frame_sfx" \in T
        /\ "additive" \in T /\ "effects" \in T /\ "blipname" \in T /\ "slide" \in T
    BY <2>1 DEF MoreNames
  <2> QED BY <2>1, <2>2
<1>2. Len(t) = 16 /\ DOMAIN t = 1..16
  OBVIOUS
<1>3. /\ t[7] = "immediate" /\ t[8] = "looping_sfx" /\ t[9] = "screenshake"
      /\ t[12] = "frame_sfx" /\ t[13] = "additive" /\ t[16] = "slide"
  OBVIOUS
<1> QED BY <1>1, <1>2, <1>3

LEMMA ActionLayout == ActionMS \in Seq(Names) /\ DOMAIN ActionMS = 1..28 /\ ToSet(ActionMS) = Names
<1>1. PICK t : /\ t = <<"other_charid", "self_offset", "immediate", "looping_sfx", "screenshake", "frame_screenshake",
                        "frame_realization", "frame_sfx", "additive", "effects", "blipname", "slide">>
  OBVIOUS
<1>2. PICK k : k = Core
  OBVIOUS
<1>3. ActionMS = k \o t
  BY <1>1, <1>2 DEF ActionMS
<1>4. PICK N : N = Names
  OBVIOUS
<1>5. k \in Seq(N) /\ t \in Seq(N) /\ Len(k) = 16 /\ Len(t) = 12
  BY <1>1, <1>2, <1>4, CoreIs, MoreIs DEF Names
<1>6. PICK r : r = k \o t
  OBVIOUS
<1>7. r \in Seq(N) /\ Len(r) = 28 /\ ToSet(r) = ToSet(k) \cup ToSet(t)
  <2>1. ToSet(k \o t) = ToSet(k) \cup ToSet(t)
    BY <1>5, ToSetConcat
  <2>2. ConcatOf(N, k, t, r)
    BY <1>5, <1>6 DEF ConcatOf
  <2>3. Concatenated(N, k, t, r)
    BY <2>2, ConcatIs
  <2> QED BY <1>5, <1>6, <2>1, <2>3 DEF Concatenated
<1>8. ToSet(k) \subseteq N /\ ToSet(t) \subseteq N
  BY <1>5, ToSetType
<1>9. CoreNames \subseteq ToSet(k) /\ MoreNames \subseteq ToSet(t)
  BY <1>1, <1>2, CoreIs, CoreHas, MoreIs DEF ToSet
<1>10. DOMAIN r = 1..28
  BY <1>7, SeqIsFunction
<1> QED BY <1>3, <1>4, <1>6, <1>7, <1>8, <1>9, <1>10 DEF Names

LEMMA ServerLayout ==
    /\ ServerMS \in Seq(Names \cup {""}) /\ Len(ServerMS) = 32 /\ DOMAIN ServerMS = 1..32
    /\ ServerMS[5] = "message" /\ ServerMS[16] = "showname" /\ ServerMS[23] = "immediate"
    /\ ServerMS[24] = "looping_sfx" /\ ServerMS[25] = "screenshake" /\ ServerMS[28] = "frame_sfx"
    /\ ServerMS[29] = "additive" /\ ServerMS[32] = "slide"
<1>0. PICK z : z = ""
  OBVIOUS
<1>1. PICK t : t = <<"other_charid", z, z, "self_offset", z, z, "immediate", "looping_sfx", "screenshake",
                     "frame_screenshake", "frame_realization", "frame_sfx", "additive", "effects", "blipname", "slide">>
  OBVIOUS
<1>2. PICK k : k = Core
  OBVIOUS
<1>3. ServerMS = k \o t
  BY <1>0, <1>1, <1>2 DEF ServerMS
<1>4. PICK N : N = Names \cup {z}
  OBVIOUS
<1>5. /\ k \in Seq(N) /\ t \in Seq(N) /\ Len(k) = 16 /\ Len(t) = 16 /\ k[5] = "message" /\ k[16] = "showname"
      /\ t[7] = "immediate" /\ t[8] = "looping_sfx" /\ t[9] = "screenshake"
      /\ t[12] = "frame_sfx" /\ t[13] = "additive" /\ t[16] = "slide"
  BY <1>1, <1>2, <1>4, CoreIs, PairsIs DEF Names
<1>6. PICK r : r = k \o t
  OBVIOUS
<1>7. r \in Seq(N) /\ Len(r) = 32 /\ (\A i \in 1..16 : r[i] = k[i]) /\ \A i \in 1..16 : r[16 + i] = t[i]
  <2>2. ConcatOf(N, k, t, r)
    BY <1>5, <1>6 DEF ConcatOf
  <2>3. Concatenated(N, k, t, r)
    BY <2>2, ConcatIs
  <2> QED BY <1>5, <2>3 DEF Concatenated
<1>8. r[5] = k[5] /\ r[16] = k[16]
  BY <1>7
<1>9. r[16 + 7] = t[7] /\ r[16 + 8] = t[8] /\ r[16 + 9] = t[9] /\ r[16 + 12] = t[12] /\ r[16 + 13] = t[13]
      /\ r[16 + 16] = t[16]
  BY <1>7
<1>10. 16 + 7 = 23 /\ 16 + 8 = 24 /\ 16 + 9 = 25 /\ 16 + 12 = 28 /\ 16 + 13 = 29 /\ 16 + 16 = 32
  OBVIOUS
<1>11. DOMAIN r = 1..32
  BY <1>7, SeqIsFunction
<1> QED BY <1>0, <1>3, <1>4, <1>5, <1>6, <1>7, <1>8, <1>9, <1>10, <1>11

\* The receiving client looks where the server puts it.
LEMMA LayoutsAgree ==
    \A n \in DOMAIN ParsedAt : n \in Names /\ n # "" /\ ParsedAt[n] \in 1..32 /\ ServerMS[ParsedAt[n]] = n
<1>1. DOMAIN ParsedAt = {"message", "showname", "immediate", "looping_sfx", "screenshake", "frame_sfx", "additive", "slide"}
  BY DEF ParsedAt
<1>2. /\ ParsedAt["message"] = 5 /\ ParsedAt["showname"] = 16 /\ ParsedAt["immediate"] = 23
      /\ ParsedAt["looping_sfx"] = 24 /\ ParsedAt["screenshake"] = 25 /\ ParsedAt["frame_sfx"] = 28
      /\ ParsedAt["additive"] = 29 /\ ParsedAt["slide"] = 32
  BY DEF ParsedAt
<1>3. \A n \in DOMAIN ParsedAt : n \in Names /\ n # ""
  BY <1>1 DEF Names, CoreNames, MoreNames
<1>4. PICK r : r = ServerMS
  OBVIOUS
<1>5. /\ r[5] = "message" /\ r[16] = "showname" /\ r[23] = "immediate" /\ r[24] = "looping_sfx"
      /\ r[25] = "screenshake" /\ r[28] = "frame_sfx" /\ r[29] = "additive" /\ r[32] = "slide"
  BY <1>4, ServerLayout
<1>6. PICK q : q = ParsedAt
  OBVIOUS
<1>7. \A n \in DOMAIN q : q[n] \in 1..32 /\ r[q[n]] = n
  BY <1>1, <1>2, <1>5, <1>6
<1> QED BY <1>3, <1>4, <1>6, <1>7

LEMMA OneSymbol ==
    ASSUME NEW x \in Symbols, x \notin Specials, x \notin EscapeWords
    PROVE  Clean(<<x>>) /\ <<x>> \in Plains
<1>1. PICK s : s = <<x>>
  OBVIOUS
<1>2. s \in Wire /\ ToSet(s) = {x}
  BY <1>1, SymbolsAreTokens, SingletonSeq DEF Wire
<1>3. x # "#" /\ x # "%"
  BY DEF Specials
<1> QED BY <1>1, <1>2, <1>3 DEF Clean, Plains

LEMMA IcDataIs ==
    ASSUME NEW text, Clean(text), NEW flag \in {"immediate", "slide"}, NEW d, d = IcData(text, flag)
    PROVE  DOMAIN d = Names /\ \A n \in Names : Clean(d[n])
<1>1. ToSet(ClientMS) = Names
  BY ActionLayout DEF ClientMS, ActionMS
<1>2. PICK z : z = <<"0">> /\ Clean(z)
  BY OneSymbol DEF Symbols, Specials, EscapeWords
<1>3. PICK o : o = <<"1">> /\ Clean(o)
  BY OneSymbol DEF Symbols, Specials, EscapeWords
<1>4. Blank = [n \in Names |-> z]
  BY <1>1, <1>2 DEF Blank
<1>5. d = [Blank EXCEPT !["message"] = text, ![flag] = o]
  BY <1>3 DEF IcData
<1>6. DOMAIN d = Names /\ \A n \in Names : d[n] = z \/ d[n] = o \/ d[n] = text
  BY <1>4, <1>5
<1> QED BY <1>2, <1>3, <1>6

LEMMA ActionIs ==
    ASSUME NEW d
    PROVE  Action(ToWireMS(d)) = [n \in Names |-> ao_encode(d[n])]
<1>1. PICK m : m = ActionMS /\ m = ClientMS
  BY DEF ActionMS, ClientMS
<1>2. PICK w : w = ToWireMS(d)
  OBVIOUS
<1>3. w = [i \in DOMAIN m |-> ao_encode(d[m[i]])]
  BY <1>1, <1>2 DEF ToWireMS
<1>4. \A n \in Names : Field(w, CHOOSE i \in DOMAIN m : m[i] = n) = ao_encode(d[n])
  <2>1. TAKE n \in Names
  <2>2. \E i \in DOMAIN m : m[i] = n
    BY <1>1, ActionLayout DEF ToSet
  <2>3. PICK i : i = CHOOSE j \in DOMAIN m : m[j] = n
    OBVIOUS
  <2>4. i \in DOMAIN m /\ m[i] = n
    BY <2>2, <2>3, Zenon
  <2>5. i \in DOMAIN w /\ w[i] = ao_encode(d[n])
    BY <1>3, <2>4
  <2>6. Field(w, i) = ao_encode(d[n])
    BY <2>5 DEF Field
  <2> QED BY <2>3, <2>6
<1>5. Action(w) = [n \in Names |-> Field(w, CHOOSE i \in DOMAIN m : m[i] = n)]
  BY <1>1, ActionLayout DEF Action
<1>6. Action(w) = [n \in Names |-> ao_encode(d[n])]
  BY <1>4, <1>5, Zenon
<1> QED BY <1>2, <1>6

\* What the server sends, and what the receiving client reads in it.
EchoRead(d, e) ==
    /\ e \in Seq(Plains) /\ DOMAIN e = 1..32
    /\ FromWireMS(e) = [n \in DOMAIN ParsedAt |-> d[n]]

LEMMA EmptyPlain == <<>> \in Plains
BY EmptyWire, ToSetEmpty DEF Plains

LEMMA EchoReads ==
    ASSUME NEW d, \A n \in Names : Clean(d[n])
    PROVE  EchoRead(d, EchoMS(Action(ToWireMS(d))))
<1>1. PICK a : a = Action(ToWireMS(d))
  OBVIOUS
<1>2. a = [n \in Names |-> ao_encode(d[n])]
  BY <1>1, ActionIs
<1>3. PICK e : e = EchoMS(a)
  OBVIOUS
<1>4. PICK r : r = ServerMS
  OBVIOUS
<1>5. e = [i \in 1..32 |-> IF r[i] = "" THEN <<>> ELSE a[r[i]]]
  BY <1>3, <1>4, ServerLayout DEF EchoMS
<1>6. PICK P : P = Plains
  OBVIOUS
<1>7. \A n \in Names : a[n] \in P
  BY <1>2, <1>6, EncodeType DEF Clean
<1>8. \A i \in 1..32 : r[i] # "" => r[i] \in Names
  <2>1. PICK N : N = Names \cup {""}
    OBVIOUS
  <2>2. r \in Seq(N) /\ DOMAIN r = 1..32
    BY <1>4, <2>1, ServerLayout
  <2>3. \A i \in 1..32 : r[i] \in N
    BY <2>2, SeqIsFunction
  <2> QED BY <2>1, <2>3
<1>9. <<>> \in P
  BY <1>6, EmptyPlain
<1>10. e \in [1..32 -> P]
  BY <1>5, <1>7, <1>8, <1>9
<1>11. e \in Seq(P) /\ DOMAIN e = 1..32
  BY <1>10, FunctionIsSeq
<1>12. \A n \in DOMAIN ParsedAt : ao_decode(Field(e, ParsedAt[n])) = d[n]
  <2>1. TAKE n \in DOMAIN ParsedAt
  <2>2. PICK i : i = ParsedAt[n]
    OBVIOUS
  <2>3. n \in Names /\ n # "" /\ i \in 1..32 /\ r[i] = n
    BY <1>4, <2>2, LayoutsAgree
  <2>4. e[i] = ao_encode(d[n])
    BY <1>2, <1>5, <2>3
  <2>5. Field(e, i) = ao_encode(d[n])
    BY <1>11, <2>3, <2>4 DEF Field
  <2>6. ao_decode(ao_encode(d[n])) = d[n]
    BY <2>3, DecodeEncode
  <2> QED BY <2>2, <2>5, <2>6
<1>13. FromWireMS(e) = [n \in DOMAIN ParsedAt |-> d[n]]
  BY <1>12, Zenon DEF FromWireMS
<1> QED BY <1>1, <1>3, <1>6, <1>11, <1>13 DEF EchoRead

-----------------------------------------------------------------------------
(* What one packet does to a client. *)

LEMMA PacketType ==
    ASSUME NEW h \in Token, NEW s \in Seq(Plains)
    PROVE  PacketOf(h, s) \in Packets
<1>1. PICK P : P = Plains
  OBVIOUS
<1>2. PICK W : W = Wire
  OBVIOUS
<1>3. P \subseteq W /\ s \in Seq(P)
  BY <1>1, <1>2, PlainsAreWire
<1>4. s \in Seq(W)
  BY <1>3
<1>5. PICK k : k = <<h>>
  OBVIOUS
<1>6. k \in W
  BY <1>2, <1>5, SingletonSeq DEF Wire
<1> QED BY <1>2, <1>4, <1>5, <1>6 DEF PacketOf, Packets

LEMMA PublishedOne == ASSUME NEW k \in Packets PROVE Published(<<k>>) = Chat(k)
<1>1. PICK x : x = Chat(k)
  OBVIOUS
<1>2. PICK M : M = Heard
  OBVIOUS
<1>3. x \in Seq(M)
  BY <1>1, <1>2, ChatType
<1>4. [i \in DOMAIN <<k>> |-> Chat(<<k>>[i])] = <<x>>
  <2>1. PICK s : s = <<k>>
    OBVIOUS
  <2>2. DOMAIN s = 1..1 /\ s[1] = k
    BY <2>1
  <2>3. PICK f : f = [i \in 1..1 |-> Chat(s[i])]
    OBVIOUS
  <2>4. PICK N : N = Seq(M)
    OBVIOUS
  <2>5. f \in [1..1 -> N] /\ f[1] = x /\ x \in N
    <3>1. \A i \in 1..1 : i = 1
      OBVIOUS
    <3>2. \A i \in 1..1 : Chat(s[i]) = x
      BY <1>1, <2>2, <3>1
    <3>3. f = [i \in 1..1 |-> x] /\ 1 \in 1..1
      BY <2>3, <3>2
    <3> QED BY <1>3, <2>4, <3>3
  <2>6. f = <<x>>
    BY <2>5, OneEntry
  <2> QED BY <2>1, <2>2, <2>3, <2>6
<1>5. FlattenSeq(<<x>>) = x
  <2>1. <<x>> = Append(<<>>, x)
    OBVIOUS
  <2>2. <<>> \in Seq(Seq(M)) /\ FlattenSeq(<<>>) \in Seq(M)
    <3>1. PICK e : e = <<>>
      OBVIOUS
    <3>2. \A N : e \in Seq(N)
      BY <3>1
    <3>3. FlattenSeq(e) = e
      BY <3>1, FlattenEmpty
    <3> QED BY <3>1, <3>2, <3>3, Zenon
  <2>3. FlattenSeq(Append(<<>>, x)) = FlattenSeq(<<>>) \o x
    BY <1>3, <2>2, FlattenAppend
  <2>4. <<>> \o x = x
    BY <1>3, ConcatEmpty
  <2> QED BY <2>1, <2>3, <2>4, FlattenEmpty
<1> QED BY <1>1, <1>4, <1>5 DEF Published

LEMMA MaxOne == Max({1}) = 1
<1>1. {1} \subseteq 1..1 /\ 1 \in {1} /\ \A y \in {1} : y <= 1
  OBVIOUS
<1> QED BY <1>1, MaxIs

LEMMA HitsOne ==
    ASSUME NEW k, NEW H
    PROVE  /\ k \in H => Hits(<<k>>, H) # {} /\ LastHit(<<k>>, H) = k
           /\ k \notin H => Hits(<<k>>, H) = {}
<1>1. PICK s : s = <<k>>
  OBVIOUS
<1>2. DOMAIN s = {1} /\ s[1] = k
  BY <1>1
<1>3. k \in H => Hits(s, H) = {1}
  BY <1>2, Zenon DEF Hits
<1>4. k \notin H => Hits(s, H) = {}
  BY <1>2, Zenon DEF Hits
<1> QED BY <1>1, <1>2, <1>3, <1>4, MaxOne DEF LastHit

LEMMA OneInSeq == ASSUME NEW k \in Packets PROVE <<k>> \in Seq(Packets)
<1>1. PICK P : P = Packets
  OBVIOUS
<1>2. <<k>> \in Seq(P)
  BY <1>1
<1> QED BY <1>1, <1>2

LEMMA ListedOne ==
    ASSUME NEW k \in Packets, NEW v
    PROVE  Listed(v, <<k>>) = IF k.header = <<"LE">> THEN k.fields ELSE v
<1>1. PICK s : s = <<k>> /\ s \in Seq(Packets)
  BY OneInSeq
<1>2. Listed(v, s) = IF Hits(s, Lists) = {} THEN v ELSE LastHit(s, Lists).fields
  BY <1>1, ListedIs
<1>3. k \in Lists <=> k.header = <<"LE">>
  BY DEF Lists
<1>4. (k \in Lists => Hits(s, Lists) # {} /\ LastHit(s, Lists) = k) /\ (k \notin Lists => Hits(s, Lists) = {})
  BY <1>1, HitsOne
<1> QED BY <1>1, <1>2, <1>3, <1>4

LEMMA BarsOne ==
    ASSUME NEW k \in Packets, NEW v
    PROVE  Bars(v, <<k>>) = [x \in DOMAIN v |-> IF k \in AboutBar(x) THEN k.fields[2][1] ELSE v[x]]
<1>1. PICK s : s = <<k>> /\ s \in Seq(Packets)
  BY OneInSeq
<1>2. Bars(v, s) = [x \in DOMAIN v |-> IF Hits(s, AboutBar(x)) = {} THEN v[x] ELSE LastHit(s, AboutBar(x)).fields[2][1]]
  BY <1>1, BarsAre
<1>3. \A x : /\ k \in AboutBar(x) => Hits(s, AboutBar(x)) # {} /\ LastHit(s, AboutBar(x)) = k
             /\ k \notin AboutBar(x) => Hits(s, AboutBar(x)) = {}
  BY <1>1, HitsOne
<1>4. \A x \in DOMAIN v : (IF Hits(s, AboutBar(x)) = {} THEN v[x] ELSE LastHit(s, AboutBar(x)).fields[2][1])
                            = (IF k \in AboutBar(x) THEN k.fields[2][1] ELSE v[x])
  BY <1>3
<1> QED BY <1>1, <1>2, <1>4

LEMMA NothingRead ==
    /\ Published(<<>>) = <<>> /\ \A v : Listed(v, <<>>) = v
    /\ \A v : v = [x \in DOMAIN v |-> v[x]] => Bars(v, <<>>) = v
<1>1. [i \in DOMAIN <<>> |-> Chat(<<>>[i])] = <<>>
  OBVIOUS
<1>2. Published(<<>>) = <<>>
  BY <1>1, FlattenEmpty DEF Published
<1>3. \A H : Hits(<<>>, H) = {}
  BY DEF Hits
<1>4. <<>> \in Seq(Packets)
  OBVIOUS
<1>5. \A v : Listed(v, <<>>) = v
  BY <1>3, <1>4, ListedIs
<1>6. ASSUME NEW v, v = [x \in DOMAIN v |-> v[x]] PROVE Bars(v, <<>>) = v
  <2>1. Bars(v, <<>>) = [x \in DOMAIN v |-> IF Hits(<<>>, AboutBar(x)) = {} THEN v[x]
                                            ELSE LastHit(<<>>, AboutBar(x)).fields[2][1]]
    BY <1>4, BarsAre
  <2>2. Bars(v, <<>>) = [x \in DOMAIN v |-> v[x]]
    BY <1>3, <2>1
  <2> QED BY <1>6, <2>2
<1> QED BY <1>2, <1>5, <1>6

-----------------------------------------------------------------------------
(* What the server sends, and what it does to a client that reads all of it. *)

HpViews == [{"1", "2"} -> {"0", "10"}]

\* x is whole packets: a client publishes said, an area's evidence ev and health bars h become list and bars.
Arrives(x, said, ev, h, list, bars) ==
    /\ Whole(x) /\ Published(Complete(x)) = said /\ Bars(h, Complete(x)) = bars
    /\ list # <<>> => \A v : Listed(v, Complete(x)) = list \/ (list = ev /\ Listed(v, Complete(x)) = v)

LEMMA OneAfterTheOther ==
    ASSUME NEW x, NEW said1, NEW ev0, NEW h0, NEW ev1, NEW h1, Arrives(x, said1, ev0, h0, ev1, h1),
           NEW y, NEW said2, NEW ev2, NEW h2, Arrives(y, said2, ev1, h1, ev2, h2)
    PROVE  Arrives(x \o y, said1 \o said2, ev0, h0, ev2, h2)
<1>1. Whole(x) /\ Whole(y)
  BY DEF Arrives
<1>2. PICK z : z = x \o y
  OBVIOUS
<1>3. Whole(z) /\ Complete(z) = Complete(x) \o Complete(y)
  BY <1>1, <1>2, WholeJoined
<1>4. PICK s \in Seq(Packets) : s = Complete(x)
  BY <1>1, CompleteType DEF Whole
<1>5. PICK t \in Seq(Packets) : t = Complete(y)
  BY <1>1, CompleteType DEF Whole
<1>6. PICK r : r = s \o t /\ r = Complete(z)
  BY <1>3, <1>4, <1>5
<1>7. Published(r) = said1 \o said2
  <2>1. Published(s \o t) = Published(s) \o Published(t)
    BY PublishedJoined
  <2>2. Published(s) = said1 /\ Published(t) = said2
    BY <1>4, <1>5 DEF Arrives
  <2> QED BY <1>6, <2>1, <2>2
<1>8. Bars(h0, r) = h2
  <2>1. Bars(h0, s \o t) = Bars(Bars(h0, s), t)
    BY BarsJoined
  <2>2. Bars(h0, s) = h1 /\ Bars(h1, t) = h2
    BY <1>4, <1>5 DEF Arrives
  <2> QED BY <1>6, <2>1, <2>2
<1>9. ASSUME ev2 # <<>>, NEW v PROVE Listed(v, r) = ev2 \/ (ev2 = ev0 /\ Listed(v, r) = v)
  <2>1. PICK w : w = Listed(v, s)
    OBVIOUS
  <2>2. Listed(v, r) = Listed(w, t)
    <3>1. Listed(v, s \o t) = Listed(Listed(v, s), t)
      BY ListedJoined
    <3> QED BY <1>6, <2>1, <3>1
  <2>3. Listed(w, t) = ev2 \/ (ev2 = ev1 /\ Listed(w, t) = w)
    BY <1>5, <1>9 DEF Arrives
  <2>4. ev1 # <<>> => w = ev1 \/ (ev1 = ev0 /\ w = v)
    BY <1>4, <2>1 DEF Arrives
  <2> QED BY <1>9, <2>2, <2>3, <2>4
<1> QED BY <1>2, <1>3, <1>6, <1>7, <1>8, <1>9 DEF Arrives

\* A client's view of its area: inc and str are what it has of the stream and what is on its way, ev and h the area's.
InStep(inc, str, evv, hpv, pub, mnt, ev, h) ==
    /\ inc \in Wire /\ Unfinished(inc) /\ str \in Wire /\ Whole(inc \o str)
    /\ pub \in Seq(Heard) /\ mnt = pub \o Published(Complete(inc \o str))
    /\ hpv = [x \in DOMAIN hpv |-> hpv[x]] /\ Bars(hpv, Complete(inc \o str)) = h
    /\ ev # <<>> => Listed(evv, Complete(inc \o str)) = ev

LEMMA MoreSent ==
    ASSUME NEW inc, NEW str, NEW evv, NEW hpv, NEW pub, NEW mnt, NEW ev, NEW h, InStep(inc, str, evv, hpv, pub, mnt, ev, h),
           NEW x, NEW said, NEW list, NEW bars, Arrives(x, said, ev, h, list, bars)
    PROVE  InStep(inc, str \o x, evv, hpv, pub, mnt \o said, list, bars)
<1>1. inc \in Wire /\ str \in Wire /\ Unfinished(inc) /\ x \in Wire /\ Whole(inc \o str) /\ Whole(x)
  BY DEF InStep, Arrives, Whole
<1>2. PICK b : b = inc \o str
  OBVIOUS
<1>3. PICK y : y = str \o x
  OBVIOUS
<1>4. y \in Wire
  BY <1>1, <1>3, WireJoined
<1>5. inc \o y = b \o x
  <2>1. JoinOf(Token, inc, str, x, y)
    BY <1>1, <1>3 DEF JoinOf, Wire
  <2>2. Joined(inc, str, x, y)
    BY <2>1, JoinsEitherWay
  <2> QED BY <1>2, <2>2 DEF Joined
<1>6. PICK z : z = inc \o y /\ z = b \o x
  BY <1>5
<1>7. Whole(z) /\ Complete(z) = Complete(b) \o Complete(x)
  BY <1>1, <1>2, <1>6, WholeJoined
<1>8. PICK s \in Seq(Packets) : s = Complete(b)
  BY <1>1, <1>2, CompleteType DEF Whole
<1>9. PICK t \in Seq(Packets) : t = Complete(x)
  BY <1>1, CompleteType
<1>10. PICK r : r = s \o t /\ r = Complete(z)
  BY <1>7, <1>8, <1>9
<1>11. mnt \o said = pub \o Published(r) /\ pub \in Seq(Heard)
  <2>1. Published(r) = Published(s) \o Published(t)
    BY <1>10, PublishedJoined
  <2>2. mnt = pub \o Published(s) /\ said = Published(t) /\ pub \in Seq(Heard)
    BY <1>2, <1>8, <1>9 DEF InStep, Arrives
  <2>3. Published(s) \in Seq(Heard) /\ Published(t) \in Seq(Heard)
    BY ChatsType
  <2>4. PICK p : p = Published(s)
    OBVIOUS
  <2>5. PICK q : q = Published(t)
    OBVIOUS
  <2>6. PICK pq : pq = p \o q
    OBVIOUS
  <2>7. JoinOf(Heard, pub, p, q, pq)
    BY <2>2, <2>3, <2>4, <2>5, <2>6 DEF JoinOf
  <2>8. (pub \o p) \o q = pub \o pq
    <3>1. Joined(pub, p, q, pq)
      BY <2>7, JoinsEitherWay
    <3> QED BY <3>1 DEF Joined
  <2> QED BY <2>1, <2>2, <2>4, <2>5, <2>6, <2>8
<1>12. Bars(hpv, r) = bars /\ hpv = [v \in DOMAIN hpv |-> hpv[v]]
  <2>1. Bars(hpv, s \o t) = Bars(Bars(hpv, s), t)
    BY BarsJoined
  <2>2. Bars(hpv, s) = h /\ Bars(h, t) = bars /\ hpv = [v \in DOMAIN hpv |-> hpv[v]]
    BY <1>2, <1>8, <1>9 DEF InStep, Arrives
  <2> QED BY <1>10, <2>1, <2>2
<1>13. ASSUME list # <<>> PROVE Listed(evv, r) = list
  <2>1. PICK w : w = Listed(evv, s)
    OBVIOUS
  <2>2. Listed(evv, r) = Listed(w, t)
    <3>1. Listed(evv, s \o t) = Listed(Listed(evv, s), t)
      BY ListedJoined
    <3> QED BY <1>10, <2>1, <3>1
  <2>3. Listed(w, t) = list \/ (list = ev /\ Listed(w, t) = w)
    BY <1>9, <1>13 DEF Arrives
  <2>4. ev # <<>> => w = ev
    BY <1>2, <1>8, <2>1 DEF InStep
  <2> QED BY <1>13, <2>2, <2>3, <2>4
<1> QED BY <1>1, <1>3, <1>4, <1>6, <1>7, <1>10, <1>11, <1>12, <1>13 DEF InStep

LEMMA SliceInTwo ==
    ASSUME NEW s \in Wire, NEW n \in 1..Len(s)
    PROVE  /\ SubSeq(s, 1, n) \in Wire /\ SubSeq(s, n + 1, Len(s)) \in Wire
           /\ s = SubSeq(s, 1, n) \o SubSeq(s, n + 1, Len(s))
<1>1. PICK m \in Nat : m = Len(s) /\ n \in 1..m /\ n \in Nat /\ n <= m
  BY WireElements
<1>2. PICK a : a = SubSeq(s, 1, n)
  OBVIOUS
<1>3. PICK b : b = SubSeq(s, n + 1, m)
  OBVIOUS
<1>4. a \in Seq(Token) /\ Len(a) = n /\ \A i \in 1..n : a[i] = s[0 + i]
  <2>1. 0 + n <= Len(s) /\ a = SubSeq(s, 0 + 1, 0 + n)
    BY <1>1, <1>2
  <2>2. SliceOf(Token, s, 0, n, a)
    BY <1>1, <2>1 DEF SliceOf, Wire
  <2>3. Shifted(Token, s, 0, n, a)
    BY <2>2, SliceAfter
  <2> QED BY <2>3 DEF Shifted
<1>5. PICK l \in Nat : l = m - n
  <2>1. m - n \in Nat
    BY <1>1
  <2> QED BY <2>1
<1>6. b \in Seq(Token) /\ Len(b) = l /\ \A i \in 1..l : b[i] = s[n + i]
  <2>1. n + l <= Len(s) /\ b = SubSeq(s, n + 1, n + l)
    BY <1>1, <1>3, <1>5
  <2>2. SliceOf(Token, s, n, l, b)
    BY <1>1, <2>1 DEF SliceOf, Wire
  <2>3. Shifted(Token, s, n, l, b)
    BY <2>2, SliceAfter
  <2> QED BY <2>3 DEF Shifted
<1>7. PICK r : r = a \o b
  OBVIOUS
<1>8. r \in Seq(Token) /\ Len(r) = m /\ (\A i \in 1..n : r[i] = a[i]) /\ \A i \in 1..l : r[n + i] = b[i]
  <2>1. ConcatOf(Token, a, b, r)
    BY <1>4, <1>6, <1>7 DEF ConcatOf
  <2>2. Concatenated(Token, a, b, r)
    BY <2>1, ConcatIs
  <2> QED BY <1>1, <1>4, <1>5, <1>6, <2>2 DEF Concatenated
<1>9. \A i \in 1..m : r[i] = s[i]
  <2>1. TAKE i \in 1..m
  <2>2. CASE i <= n
    <3>1. i \in 1..n /\ 0 + i = i
      BY <1>1, <2>2
    <3> QED BY <1>4, <1>8, <3>1
  <2>3. CASE ~(i <= n)
    <3>1. PICK j \in 1..l : n + j = i
      <4>1. i - n \in 1..l /\ n + (i - n) = i
        BY <1>1, <1>5, <2>3
      <4> QED BY <4>1
    <3> QED BY <1>6, <1>8, <3>1
  <2> QED BY <2>2, <2>3
<1>10. r = s
  BY <1>1, <1>8, <1>9, SameSequence DEF Wire
<1> QED BY <1>1, <1>2, <1>3, <1>4, <1>6, <1>7, <1>10 DEF Wire

LEMMA ChunkRead ==
    ASSUME NEW inc, NEW str, NEW evv, NEW hpv, NEW pub, NEW mnt, NEW ev, NEW h, InStep(inc, str, evv, hpv, pub, mnt, ev, h),
           NEW n \in 1..Len(str), NEW b, b = inc \o SubSeq(str, 1, n)
    PROVE  InStep(Rest(b), SubSeq(str, n + 1, Len(str)), Listed(evv, Complete(b)), Bars(hpv, Complete(b)),
                  pub \o Published(Complete(b)), mnt, ev, h)
<1>1. inc \in Wire /\ str \in Wire /\ Whole(inc \o str)
  BY DEF InStep
<1>2. PICK x \in Wire : x = SubSeq(str, 1, n)
  BY <1>1, SliceInTwo
<1>3. PICK y \in Wire : y = SubSeq(str, n + 1, Len(str))
  BY <1>1, SliceInTwo
<1>4. str = x \o y
  BY <1>1, <1>2, <1>3, SliceInTwo
<1>5. b \in Wire /\ b = inc \o x
  BY <1>1, <1>2, WireJoined
<1>6. inc \o str = b \o y
  <2>1. JoinOf(Token, inc, x, y, str)
    BY <1>1, <1>4 DEF JoinOf, Wire
  <2>2. Joined(inc, x, y, str)
    BY <2>1, JoinsEitherWay
  <2> QED BY <1>5, <2>2 DEF Joined
<1>7. PICK z : z = Rest(b) \o y
  OBVIOUS
<1>8. Rest(b) \in Wire /\ Unfinished(Rest(b))
  BY <1>5, RestPending
<1>9. Complete(b \o y) = Complete(b) \o Complete(z) /\ Rest(b \o y) = Rest(z)
  BY <1>5, <1>7, BufferInTwo DEF InTwo
<1>10. z \in Wire /\ Whole(z)
  <2>1. z \in Wire
    BY <1>7, <1>8, WireJoined
  <2>2. Rest(b \o y) = <<>>
    BY <1>1, <1>6 DEF Whole
  <2> QED BY <1>9, <2>1, <2>2 DEF Whole
<1>11. PICK s \in Seq(Packets) : s = Complete(b)
  BY <1>5, CompleteType
<1>12. PICK t \in Seq(Packets) : t = Complete(z)
  BY <1>10, CompleteType
<1>13. PICK r : r = s \o t /\ r = Complete(inc \o str)
  BY <1>6, <1>9, <1>11, <1>12
<1>14. /\ pub \in Seq(Heard) /\ mnt = pub \o Published(r) /\ Bars(hpv, r) = h
       /\ ev # <<>> => Listed(evv, r) = ev
  BY <1>13 DEF InStep
<1>15. pub \o Published(s) \in Seq(Heard) /\ mnt = (pub \o Published(s)) \o Published(t)
  <2>1. PICK p : p = Published(s)
    OBVIOUS
  <2>2. PICK q : q = Published(t)
    OBVIOUS
  <2>3. PICK pq : pq = p \o q
    OBVIOUS
  <2>4. JoinOf(Heard, pub, p, q, pq)
    BY <1>14, <2>1, <2>2, <2>3, ChatsType DEF JoinOf
  <2>5. (pub \o p) \o q = pub \o pq
    <3>1. Joined(pub, p, q, pq)
      BY <2>4, JoinsEitherWay
    <3> QED BY <3>1 DEF Joined
  <2>6. Published(r) = pq
    BY <1>13, <2>1, <2>2, <2>3, PublishedJoined
  <2>7. pub \o p \in Seq(Heard)
    BY <2>4, SeqJoined DEF JoinOf
  <2> QED BY <1>14, <2>1, <2>2, <2>5, <2>6, <2>7
<1>16. PICK g : g = Bars(hpv, s)
  OBVIOUS
<1>17. g = [v \in DOMAIN g |-> g[v]] /\ Bars(g, t) = h
  <2>1. Bars(hpv, s \o t) = Bars(Bars(hpv, s), t)
    BY BarsJoined
  <2>2. g = [v \in DOMAIN hpv |-> IF Hits(s, AboutBar(v)) = {} THEN hpv[v] ELSE LastHit(s, AboutBar(v)).fields[2][1]]
    BY <1>16, BarsAre
  <2>3. g = [v \in DOMAIN g |-> g[v]]
    BY <2>2
  <2> QED BY <1>13, <1>14, <1>16, <2>1, <2>3
<1>18. ev # <<>> => Listed(Listed(evv, s), t) = ev
  <2>1. Listed(evv, s \o t) = Listed(Listed(evv, s), t)
    BY ListedJoined
  <2> QED BY <1>13, <1>14, <2>1
<1> QED BY <1>3, <1>7, <1>8, <1>10, <1>11, <1>12, <1>15, <1>16, <1>17, <1>18 DEF InStep

\* Texts the protocol can carry: a word that is an escape is read back as what it stands for, and out-of-character
\* text and evidence are sent on as they are.
PlainTexts ==
    /\ Lobby \in Areas
    /\ \A t \in IcTexts : Clean(t)
    /\ \A t \in OocTexts : Clean(t) /\ t \in Plains
    /\ \A t \in EvNames : t \in Plains

LEMMA OneSent ==
    ASSUME NEW hd \in Token, hd # "#", hd # "%", NEW s \in Seq(Plains), NEW k, k = PacketOf(hd, s),
           NEW ev, NEW h, NEW said, NEW list, NEW bars,
           Chat(k) = said, [x \in DOMAIN h |-> IF k \in AboutBar(x) THEN k.fields[2][1] ELSE h[x]] = bars,
           list = IF k.header = <<"LE">> THEN k.fields ELSE ev
    PROVE  Arrives(serialize(hd, s), said, ev, h, list, bars)
<1>1. PICK x : x = serialize(hd, s)
  OBVIOUS
<1>2. PICK q : q = Complete(x)
  OBVIOUS
<1>3. Whole(x) /\ q = <<k>> /\ k \in Packets
  BY <1>1, <1>2, SerializeReads, PacketType
<1>4. Published(q) = said
  BY <1>3, PublishedOne
<1>5. Bars(h, q) = bars
  BY <1>3, BarsOne
<1>6. \A v : Listed(v, q) = list \/ (list = ev /\ Listed(v, q) = v)
  <2>1. TAKE v
  <2>2. Listed(v, q) = IF k.header = <<"LE">> THEN k.fields ELSE v
    BY <1>3, ListedOne
  <2> QED BY <2>2
<1> QED BY <1>1, <1>2, <1>3, <1>4, <1>5, <1>6 DEF Arrives

LEMMA HeadersDiffer ==
    /\ "MS" \in Token /\ "CT" \in Token /\ "LE" \in Token /\ "HP" \in Token /\ "BN" \in Token
    /\ <<"MS">> # <<"LE">> /\ <<"MS">> # <<"HP">> /\ <<"CT">> # <<"LE">> /\ <<"CT">> # <<"HP">> /\ <<"CT">> # <<"MS">>
    /\ <<"LE">> # <<"HP">> /\ <<"LE">> # <<"MS">> /\ <<"LE">> # <<"CT">>
    /\ <<"HP">> # <<"LE">> /\ <<"HP">> # <<"MS">> /\ <<"HP">> # <<"CT">>
    /\ <<"BN">> # <<"LE">> /\ <<"BN">> # <<"HP">> /\ <<"BN">> # <<"MS">> /\ <<"BN">> # <<"CT">>
<1>1. "MS" \in Token /\ "CT" \in Token /\ "LE" \in Token /\ "HP" \in Token /\ "BN" \in Token
  BY SymbolsAreTokens DEF Symbols
<1> QED BY <1>1

\* A packet that is no HP leaves the bars alone.
LEMMA OtherPacket ==
    ASSUME NEW k, k.header # <<"HP">>, NEW h \in HpViews
    PROVE  [x \in DOMAIN h |-> IF k \in AboutBar(x) THEN k.fields[2][1] ELSE h[x]] = h
<1>1. \A x : k \notin AboutBar(x)
  BY DEF AboutBar
<1>2. h = [x \in DOMAIN h |-> h[x]]
  BY DEF HpViews
<1> QED BY <1>1, <1>2

LEMMA MsArrives ==
    ASSUME NEW d, \A n \in Names : Clean(d[n]), NEW ev, NEW h \in HpViews
    PROVE  Arrives(serialize("MS", EchoMS(Action(ToWireMS(d)))), <<<<"IC", [n \in DOMAIN ParsedAt |-> d[n]]>>>>, ev, h, ev, h)
<1>1. PICK e : e = EchoMS(Action(ToWireMS(d)))
  OBVIOUS
<1>2. e \in Seq(Plains) /\ FromWireMS(e) = [n \in DOMAIN ParsedAt |-> d[n]]
  BY <1>1, EchoReads DEF EchoRead
<1>3. PICK k : k = PacketOf("MS", e)
  OBVIOUS
<1>4. k.header = <<"MS">> /\ k.fields = e
  BY <1>3 DEF PacketOf
<1>5. PICK said : said = <<<<"IC", [n \in DOMAIN ParsedAt |-> d[n]]>>>>
  OBVIOUS
<1>6. Chat(k) = <<<<"IC", FromWireMS(k.fields)>>>>
  BY <1>4 DEF Chat
<1>7. Chat(k) = said
  BY <1>2, <1>4, <1>5, <1>6, Zenon
<1>8. [x \in DOMAIN h |-> IF k \in AboutBar(x) THEN k.fields[2][1] ELSE h[x]] = h
  BY <1>4, HeadersDiffer, OtherPacket
<1>9. k.header # <<"LE">>
  BY <1>4, HeadersDiffer
<1>10. PICK hd \in Token : hd = "MS" /\ hd # "#" /\ hd # "%"
  BY HeadersDiffer
<1>11. Arrives(serialize(hd, e), said, ev, h, ev, h)
  BY <1>2, <1>3, <1>7, <1>8, <1>9, <1>10, OneSent
<1> QED BY <1>1, <1>5, <1>10, <1>11

LEMMA CtArrives ==
    ASSUME NEW text \in Plains, Clean(text), NEW ev, NEW h \in HpViews
    PROVE  Arrives(serialize("CT", <<<<"name">>, ao_decode(ao_encode(text)), <<"0">>>>), <<<<"OOC", text, FALSE>>>>, ev, h, ev, h)
<1>1. ao_decode(ao_encode(text)) = text /\ ao_decode(text) = text
  BY DecodeEncode, DecodeClean
<1>2. PICK a \in Plains : a = <<"name">>
  BY OneSymbol DEF Symbols, Specials, EscapeWords
<1>3. PICK z \in Plains : z = <<"0">>
  BY OneSymbol DEF Symbols, Specials, EscapeWords
<1>4. PICK e : e = <<a, text, z>>
  OBVIOUS
<1>5. e \in Seq(Plains) /\ DOMAIN e = 1..3 /\ e[2] = text /\ e[3] = z
  <2>1. PICK P : P = Plains
    OBVIOUS
  <2>2. a \in P /\ text \in P /\ z \in P
    BY <2>1
  <2>3. e \in Seq(P) /\ DOMAIN e = 1..3 /\ e[2] = text /\ e[3] = z
    BY <1>4, <2>2
  <2> QED BY <2>1, <2>3
<1>6. PICK k : k = PacketOf("CT", e)
  OBVIOUS
<1>7. k.header = <<"CT">> /\ k.fields = e
  BY <1>6 DEF PacketOf
<1>8. Field(e, 2) = text /\ Field(e, 3) = z /\ z # <<"1">>
  BY <1>3, <1>5 DEF Field
<1>9. PICK said : said = <<<<"OOC", text, FALSE>>>>
  OBVIOUS
<1>10. Chat(k) = <<<<"OOC", ao_decode(Field(k.fields, 2)), Field(k.fields, 3) = <<"1">>>>>>
  BY <1>7, HeadersDiffer DEF Chat
<1>11. (Field(k.fields, 3) = <<"1">>) = FALSE /\ ao_decode(Field(k.fields, 2)) = text
  BY <1>1, <1>7, <1>8
<1>12. Chat(k) = said
  BY <1>9, <1>10, <1>11, Zenon
<1>13. [x \in DOMAIN h |-> IF k \in AboutBar(x) THEN k.fields[2][1] ELSE h[x]] = h
  BY <1>7, HeadersDiffer, OtherPacket
<1>14. k.header # <<"LE">>
  BY <1>7, HeadersDiffer
<1>15. PICK hd \in Token : hd = "CT" /\ hd # "#" /\ hd # "%"
  BY HeadersDiffer
<1>16. Arrives(serialize(hd, e), said, ev, h, ev, h)
  BY <1>5, <1>6, <1>12, <1>13, <1>14, <1>15, OneSent
<1> QED BY <1>1, <1>2, <1>3, <1>4, <1>9, <1>15, <1>16

LEMMA LeArrives ==
    ASSUME NEW list \in Seq(EvNames), \A t \in EvNames : t \in Plains, NEW ev, NEW h \in HpViews
    PROVE  Arrives(Evidence(list), <<>>, ev, h, list, h)
<1>1. list \in Seq(Plains)
  <2>1. PICK P : P = Plains
    OBVIOUS
  <2>2. EvNames \subseteq P
    BY <2>1
  <2>3. list \in Seq(P)
    BY <2>2
  <2> QED BY <2>1, <2>3
<1>2. [i \in DOMAIN list |-> list[i]] = list
  OBVIOUS
<1>3. Evidence(list) = serialize("LE", list)
  BY <1>2 DEF Evidence
<1>4. PICK k : k = PacketOf("LE", list)
  OBVIOUS
<1>5. k.header = <<"LE">> /\ k.fields = list
  BY <1>4 DEF PacketOf
<1>6. Chat(k) = <<>>
  BY <1>5, HeadersDiffer DEF Chat
<1>7. [x \in DOMAIN h |-> IF k \in AboutBar(x) THEN k.fields[2][1] ELSE h[x]] = h
  BY <1>5, HeadersDiffer, OtherPacket
<1>8. PICK hd \in Token : hd = "LE" /\ hd # "#" /\ hd # "%"
  BY HeadersDiffer
<1>9. Arrives(serialize(hd, list), <<>>, ev, h, list, h)
  BY <1>1, <1>4, <1>5, <1>6, <1>7, <1>8, OneSent
<1> QED BY <1>3, <1>8, <1>9

LEMMA HpArrives ==
    ASSUME NEW side \in {"1", "2"}, NEW v \in {"0", "10"}, NEW ev, NEW h \in HpViews
    PROVE  Arrives(Hp(side, v), <<>>, ev, h, ev, [h EXCEPT ![side] = v])
<1>1. PICK a \in Plains : a = <<side>>
  BY OneSymbol DEF Symbols, Specials, EscapeWords
<1>2. PICK z \in Plains : z = <<v>>
  BY OneSymbol DEF Symbols, Specials, EscapeWords
<1>3. PICK e : e = <<a, z>>
  OBVIOUS
<1>4. e \in Seq(Plains) /\ e[1] = a /\ e[2] = z
  <2>1. PICK P : P = Plains
    OBVIOUS
  <2>2. a \in P /\ z \in P
    BY <2>1
  <2>3. e \in Seq(P) /\ e[1] = a /\ e[2] = z
    BY <1>3, <2>2
  <2> QED BY <2>1, <2>3
<1>5. PICK k : k = PacketOf("HP", e)
  OBVIOUS
<1>6. k.header = <<"HP">> /\ k.fields = e
  BY <1>5 DEF PacketOf
<1>7. PICK hd \in Token : hd = "HP" /\ hd # "#" /\ hd # "%"
  BY HeadersDiffer
<1>8. k \in Packets
  BY <1>4, <1>5, <1>7, PacketType
<1>9. k.fields[1][1] = side /\ k.fields[2][1] = v
  BY <1>1, <1>2, <1>4, <1>6
<1>10. \A x : k \in AboutBar(x) <=> x = side
  BY <1>6, <1>8, <1>9 DEF AboutBar
<1>11. Chat(k) = <<>>
  BY <1>6, HeadersDiffer DEF Chat
<1>12. PICK bars : bars = [h EXCEPT ![side] = v]
  OBVIOUS
<1>13. [x \in DOMAIN h |-> IF k \in AboutBar(x) THEN k.fields[2][1] ELSE h[x]] = bars
  <2>1. bars = [x \in DOMAIN h |-> IF x = side THEN v ELSE h[x]]
    BY <1>12 DEF HpViews
  <2> QED BY <1>9, <1>10, <2>1
<1>14. k.header # <<"LE">>
  BY <1>6, HeadersDiffer
<1>15. Arrives(serialize(hd, e), <<>>, ev, h, ev, bars)
  BY <1>4, <1>5, <1>7, <1>11, <1>13, <1>14, OneSent
<1>16. Hp(side, v) = serialize(hd, e)
  BY <1>1, <1>2, <1>3, <1>7 DEF Hp
<1> QED BY <1>12, <1>15, <1>16

LEMMA BnArrives ==
    ASSUME NEW ev, NEW h \in HpViews
    PROVE  Arrives(serialize("BN", <<<<"bg">>>>), <<>>, ev, h, ev, h)
<1>1. PICK a \in Plains : a = <<"bg">>
  BY OneSymbol DEF Symbols, Specials, EscapeWords
<1>2. PICK e : e = <<a>>
  OBVIOUS
<1>3. e \in Seq(Plains)
  <2>1. PICK P : P = Plains
    OBVIOUS
  <2>2. e \in Seq(P)
    BY <1>2, <2>1
  <2> QED BY <2>1, <2>2
<1>4. PICK k : k = PacketOf("BN", e)
  OBVIOUS
<1>5. k.header = <<"BN">>
  BY <1>4 DEF PacketOf
<1>6. Chat(k) = <<>>
  BY <1>5, HeadersDiffer DEF Chat
<1>7. [x \in DOMAIN h |-> IF k \in AboutBar(x) THEN k.fields[2][1] ELSE h[x]] = h
  BY <1>5, HeadersDiffer, OtherPacket
<1>8. k.header # <<"LE">>
  BY <1>5, HeadersDiffer
<1>9. PICK hd \in Token : hd = "BN" /\ hd # "#" /\ hd # "%"
  BY HeadersDiffer
<1>10. Arrives(serialize(hd, e), <<>>, ev, h, ev, h)
  BY <1>3, <1>4, <1>6, <1>7, <1>8, <1>9, OneSent
<1> QED BY <1>1, <1>2, <1>9, <1>10

LEMMA NothingTwice == \E e : e = <<>> /\ e \o e = e
<1>1. PICK e : e = <<>>
  OBVIOUS
<1>2. e \in Seq({})
  BY <1>1
<1>3. e \o <<>> = e
  BY <1>2, ConcatEmpty
<1> QED BY <1>1, <1>3

LEMMA JoinArrives ==
    ASSUME NEW a \in Areas, hp[a] \in HpViews, evidence[a] \in Seq(EvNames), \A t \in EvNames : t \in Plains,
           NEW ev, NEW h \in HpViews
    PROVE  Arrives(JoinInfo(a), <<>>, ev, h, evidence[a], hp[a])
<1>1. PICK b : b = serialize("BN", <<<<"bg">>>>)
  OBVIOUS
<1>2. PICK x \in {"0", "10"} : x = hp[a]["1"]
  BY DEF HpViews
<1>3. PICK y \in {"0", "10"} : y = hp[a]["2"]
  BY DEF HpViews
<1>4. PICK h1 : h1 = [h EXCEPT !["1"] = x]
  OBVIOUS
<1>5. PICK h2 : h2 = [h1 EXCEPT !["2"] = y]
  OBVIOUS
<1>6. h1 \in HpViews /\ h2 \in HpViews /\ h2 = hp[a]
  BY <1>2, <1>3, <1>4, <1>5 DEF HpViews
<1>7. PICK e : e = <<>> /\ e \o e = e
  BY NothingTwice
<1>8. Arrives(b, e, ev, h, ev, h)
  BY <1>1, <1>7, BnArrives
<1>9. Arrives(Hp("1", x), e, ev, h, ev, h1)
  BY <1>4, <1>7, HpArrives
<1>10. Arrives(Hp("2", y), e, ev, h1, ev, h2)
  <2>1. PICK two \in {"1", "2"} : two = "2"
    OBVIOUS
  <2>2. PICK g \in HpViews : g = h1
    BY <1>6
  <2>3. Arrives(Hp(two, y), <<>>, ev, g, ev, [g EXCEPT ![two] = y])
    BY HpArrives
  <2> QED BY <1>5, <1>7, <2>1, <2>2, <2>3
<1>11. PICK c : c = b \o Hp("1", x)
  OBVIOUS
<1>12. Arrives(c, e, ev, h, ev, h1)
  BY <1>7, <1>8, <1>9, <1>11, OneAfterTheOther
<1>13. PICK d : d = c \o Hp("2", y)
  OBVIOUS
<1>14. Arrives(d, e, ev, h, ev, h2)
  BY <1>7, <1>10, <1>12, <1>13, OneAfterTheOther
<1>15. JoinInfo(a) = d \o (IF evidence[a] # <<>> THEN Evidence(evidence[a]) ELSE <<>>)
  BY <1>1, <1>2, <1>3, <1>11, <1>13, Zenon DEF JoinInfo
<1>16. CASE evidence[a] # <<>>
  <2>1. PICK list \in Seq(EvNames) : list = evidence[a]
    OBVIOUS
  <2>2. Arrives(Evidence(list), e, ev, h2, list, h2)
    BY <1>6, <1>7, LeArrives
  <2>3. Arrives(d \o Evidence(list), e, ev, h, list, h2)
    BY <1>7, <1>14, <2>2, OneAfterTheOther
  <2> QED BY <1>6, <1>7, <1>15, <1>16, <2>1, <2>3
<1>17. CASE evidence[a] = <<>>
  <2>1. d \in Wire
    BY <1>14 DEF Arrives, Whole
  <2>2. JoinInfo(a) = d
    BY <1>15, <1>17, <2>1, ConcatEmpty DEF Wire
  <2>3. Arrives(d, e, ev, h, <<>>, h2)
    BY <1>14 DEF Arrives
  <2> QED BY <1>6, <1>7, <1>17, <2>2, <2>3
<1> QED BY <1>16, <1>17

-----------------------------------------------------------------------------
(* Every client is in step with its area, once it has read what is on its way. *)

AreasTyped == evidence \in [Areas -> Seq(EvNames)] /\ hp \in [Areas -> HpViews]

PlayersTyped ==
    /\ in_area \in [Players -> Areas]
    /\ DOMAIN stream = Players /\ DOMAIN incomplete_buf = Players /\ DOMAIN published = Players /\ DOMAIN meant = Players
    /\ DOMAIN ev_view = Players /\ DOMAIN hp_view = Players
    /\ stream = [p \in Players |-> stream[p]] /\ incomplete_buf = [p \in Players |-> incomplete_buf[p]]
    /\ published = [p \in Players |-> published[p]] /\ meant = [p \in Players |-> meant[p]]
    /\ ev_view = [p \in Players |-> ev_view[p]] /\ hp_view = [p \in Players |-> hp_view[p]]

ClientInStep(p) ==
    InStep(incomplete_buf[p], stream[p], ev_view[p], hp_view[p], published[p], meant[p], evidence[in_area[p]], hp[in_area[p]])

WireInvariant == AreasTyped /\ PlayersTyped /\ \A p \in Players : ClientInStep(p)

LEMMA InStepAtFirst ==
    ASSUME NEW h \in HpViews
    PROVE  InStep(<<>>, <<>>, <<>>, h, <<>>, <<>>, <<>>, h)
<1>1. PICK e : e = <<>> /\ e \o e = e
  BY NothingTwice
<1>2. e \in Wire /\ Unfinished(e) /\ Rest(e) = <<>> /\ Complete(e) = <<>>
  BY <1>1, EmptyWire, NothingPending DEF Unfinished
<1>3. e \in Seq(Heard)
  BY <1>1
<1>4. h = [x \in DOMAIN h |-> h[x]]
  BY DEF HpViews
<1>5. Bars(h, <<>>) = h /\ Published(<<>>) = <<>>
  BY <1>4, NothingRead
<1> QED BY <1>1, <1>2, <1>3, <1>4, <1>5 DEF InStep, Whole

LEMMA WireStarts == ASSUME PlainTexts, WiInit PROVE WireInvariant
<1>1. Lobby \in Areas
  BY DEF PlainTexts
<1>2. PICK h : h = [s \in {"1", "2"} |-> "10"] /\ h \in HpViews
  <2>1. [s \in {"1", "2"} |-> "10"] \in HpViews
    BY DEF HpViews
  <2> QED BY <2>1
<1>3. /\ stream = [p \in Players |-> <<>>] /\ incomplete_buf = [p \in Players |-> <<>>]
      /\ in_area = [p \in Players |-> Lobby] /\ evidence = [a \in Areas |-> <<>>] /\ hp = [a \in Areas |-> h]
      /\ ev_view = [p \in Players |-> <<>>] /\ hp_view = [p \in Players |-> h]
      /\ published = [p \in Players |-> <<>>] /\ meant = [p \in Players |-> <<>>]
  BY <1>2 DEF WiInit
<1>4. AreasTyped
  <2>1. <<>> \in Seq(EvNames)
    OBVIOUS
  <2> QED BY <1>2, <1>3, <2>1 DEF AreasTyped
<1>5. PlayersTyped
  BY <1>1, <1>3 DEF PlayersTyped
<1>6. ASSUME NEW p \in Players PROVE ClientInStep(p)
  <2>1. /\ stream[p] = <<>> /\ incomplete_buf[p] = <<>> /\ in_area[p] = Lobby /\ ev_view[p] = <<>> /\ hp_view[p] = h
        /\ published[p] = <<>> /\ meant[p] = <<>>
    BY <1>3
  <2>2. evidence[Lobby] = <<>> /\ hp[Lobby] = h
    BY <1>1, <1>3
  <2> QED BY <1>2, <2>1, <2>2, InStepAtFirst DEF ClientInStep
<1> QED BY <1>4, <1>5, <1>6 DEF WireInvariant

\* A packet to everyone in an area.
LEMMA AreaTold ==
    ASSUME WireInvariant, NEW a \in Areas, NEW x, NEW said, NEW list, NEW bars,
           Arrives(x, said, evidence[a], hp[a], list, bars),
           stream' = send_to_area(a, x), in_area' = in_area,
           AreasTyped', evidence'[a] = list, hp'[a] = bars,
           \A c \in Areas : c # a => evidence'[c] = evidence[c] /\ hp'[c] = hp[c],
           meant' = [q \in Players |-> IF q \in InArea(a) THEN meant[q] \o said ELSE meant[q]],
           SameClients, published' = published
    PROVE  WireInvariant'
<1>1. PlayersTyped /\ \A p \in Players : ClientInStep(p)
  BY DEF WireInvariant
<1>2. PlayersTyped'
  <2>1. stream' = [p \in Players |-> IF p \in InArea(a) THEN stream[p] \o x ELSE stream[p]]
    BY DEF send_to_area
  <2> QED BY <1>1, <2>1 DEF PlayersTyped, SameClients
<1>3. ASSUME NEW p \in Players PROVE ClientInStep(p)'
  <2>1. InStep(incomplete_buf[p], stream[p], ev_view[p], hp_view[p], published[p], meant[p], evidence[in_area[p]], hp[in_area[p]])
    BY <1>1 DEF ClientInStep
  <2>2. in_area[p] \in Areas
    BY <1>1 DEF PlayersTyped
  <2>3. CASE in_area[p] = a
    <3>1. p \in InArea(a)
      BY <2>3 DEF InArea
    <3>2. stream'[p] = stream[p] \o x /\ meant'[p] = meant[p] \o said
      BY <3>1 DEF send_to_area
    <3>3. InStep(incomplete_buf[p], stream[p] \o x, ev_view[p], hp_view[p], published[p], meant[p] \o said, list, bars)
      BY <2>1, <2>3, MoreSent
    <3> QED BY <2>3, <3>2, <3>3 DEF ClientInStep, SameClients
  <2>4. CASE in_area[p] # a
    <3>1. p \notin InArea(a)
      BY <2>4 DEF InArea
    <3>2. stream'[p] = stream[p] /\ meant'[p] = meant[p]
      BY <3>1 DEF send_to_area
    <3>3. evidence'[in_area[p]] = evidence[in_area[p]] /\ hp'[in_area[p]] = hp[in_area[p]]
      BY <2>2, <2>4
    <3> QED BY <2>1, <3>2, <3>3 DEF ClientInStep, SameClients
  <2> QED BY <2>3, <2>4
<1> QED BY <1>2, <1>3 DEF WireInvariant

-----------------------------------------------------------------------------
(* The invariant, action by action. *)

LEMMA ConcatAnything ==
    ASSUME NEW T, NEW s \in Seq(T), NEW m
    PROVE  s \o <<m>> = Append(s, m)
<1>1. PICK U : U = T \cup {m}
  OBVIOUS
<1>2. T \subseteq U /\ m \in U
  BY <1>1
<1>3. s \in Seq(U)
  BY <1>2
<1> QED BY <1>2, <1>3, ConcatOne

LEMMA EntryChanged ==
    ASSUME NEW T, NEW s \in Seq(T), NEW i \in DOMAIN s, NEW e \in T
    PROVE  [s EXCEPT ![i] = e] \in Seq(T)
OBVIOUS

LEMMA EntryRemoved ==
    ASSUME NEW T, NEW s \in Seq(T), NEW i \in DOMAIN s
    PROVE  RemoveAt(s, i) \in Seq(T)
<1>1. PICK n \in Nat : n = Len(s) /\ i \in 1..n
  BY SeqIsFunction
<1>2. SubSeq(s, 1, i - 1) \in Seq(T) /\ SubSeq(s, i + 1, n) \in Seq(T)
  BY <1>1
<1> QED BY <1>1, <1>2, SeqJoined DEF RemoveAt

LEMMA MeantType == ASSUME WireInvariant, NEW p \in Players PROVE meant[p] \in Seq(Heard)
<1>1. PICK b : b = incomplete_buf[p] \o stream[p]
  OBVIOUS
<1>2. Whole(b) /\ published[p] \in Seq(Heard) /\ meant[p] = published[p] \o Published(Complete(b))
  BY <1>1 DEF WireInvariant, ClientInStep, InStep
<1>3. Published(Complete(b)) \in Seq(Heard)
  BY <1>2, CompleteType, ChatsType DEF Whole
<1> QED BY <1>2, <1>3, SeqJoined

LEMMA AreaOf ==
    ASSUME WireInvariant, NEW p \in Players
    PROVE  in_area[p] \in Areas /\ evidence[in_area[p]] \in Seq(EvNames) /\ hp[in_area[p]] \in HpViews
BY DEF WireInvariant, PlayersTyped, AreasTyped

LEMMA MSKeeps ==
    ASSUME PlainTexts, WireInvariant, NEW p \in Players, NEW t \in IcTexts, NEW f \in {"immediate", "slide"},
           AOPacketMS(p, t, f)
    PROVE  WireInvariant'
<1>1. PICK d : d = IcData(t, f)
  OBVIOUS
<1>2. \A n \in Names : Clean(d[n])
  BY <1>1, IcDataIs DEF PlainTexts
<1>3. PICK a \in Areas : a = in_area[p]
  BY AreaOf
<1>4. PICK x : x = serialize("MS", EchoMS(Action(ToWireMS(d))))
  OBVIOUS
<1>5. PICK m : m = <<"IC", [n \in DOMAIN ParsedAt |-> d[n]]>>
  OBVIOUS
<1>6. PICK said : said = <<m>>
  OBVIOUS
<1>7. Arrives(x, said, evidence[a], hp[a], evidence[a], hp[a])
  BY <1>2, <1>3, <1>4, <1>5, <1>6, AreaOf, MsArrives
<1>8. /\ stream' = send_to_area(a, x) /\ in_area' = in_area /\ evidence' = evidence /\ hp' = hp /\ published' = published
      /\ SameClients
  BY <1>1, <1>3, <1>4 DEF AOPacketMS
<1>9. meant' = [q \in Players |-> IF q \in InArea(a) THEN meant[q] \o said ELSE meant[q]]
  <2>1. meant' = [q \in Players |-> IF q \in InArea(a) THEN Append(meant[q], m) ELSE meant[q]]
    BY <1>1, <1>3, <1>5, Zenon DEF AOPacketMS
  <2>2. \A q \in Players : meant[q] \o said = Append(meant[q], m)
    BY <1>6, MeantType, ConcatAnything
  <2> QED BY <2>1, <2>2
<1>10. AreasTyped'
  BY <1>8 DEF WireInvariant, AreasTyped
<1> QED BY <1>7, <1>8, <1>9, <1>10, AreaTold

LEMMA CTKeeps ==
    ASSUME PlainTexts, WireInvariant, NEW p \in Players, NEW t \in OocTexts, AOPacketCT(p, t)
    PROVE  WireInvariant'
<1>1. t \in Plains /\ Clean(t)
  BY DEF PlainTexts
<1>3. PICK a \in Areas : a = in_area[p]
  BY AreaOf
<1>4. PICK x : x = serialize("CT", <<<<"name">>, ao_decode(ao_encode(t)), <<"0">>>>)
  OBVIOUS
<1>5. PICK m : m = <<"OOC", t, FALSE>>
  OBVIOUS
<1>6. PICK said : said = <<m>>
  OBVIOUS
<1>7. Arrives(x, said, evidence[a], hp[a], evidence[a], hp[a])
  BY <1>1, <1>3, <1>4, <1>5, <1>6, AreaOf, CtArrives
<1>8. /\ stream' = send_to_area(a, x) /\ in_area' = in_area /\ evidence' = evidence /\ hp' = hp /\ published' = published
      /\ SameClients
  BY <1>3, <1>4 DEF AOPacketCT
<1>9. meant' = [q \in Players |-> IF q \in InArea(a) THEN meant[q] \o said ELSE meant[q]]
  <2>1. meant' = [q \in Players |-> IF q \in InArea(a) THEN Append(meant[q], m) ELSE meant[q]]
    BY <1>3, <1>5, Zenon DEF AOPacketCT
  <2>2. \A q \in Players : meant[q] \o said = Append(meant[q], m)
    BY <1>6, MeantType, ConcatAnything
  <2> QED BY <2>1, <2>2
<1>10. AreasTyped'
  BY <1>8 DEF WireInvariant, AreasTyped
<1> QED BY <1>7, <1>8, <1>9, <1>10, AreaTold

\* A packet that is no chat.
LEMMA NothingMeant ==
    ASSUME WireInvariant, NEW a, meant' = meant
    PROVE  meant' = [q \in Players |-> IF q \in InArea(a) THEN meant[q] \o <<>> ELSE meant[q]]
<1>1. \A q \in Players : meant[q] \o <<>> = meant[q]
  BY MeantType, ConcatEmpty
<1>2. meant = [q \in Players |-> meant[q]]
  BY DEF WireInvariant, PlayersTyped
<1> QED BY <1>1, <1>2

LEMMA EvidenceKeeps ==
    ASSUME PlainTexts, WireInvariant, NEW a \in Areas, NEW list \in Seq(EvNames), ShareEvidence(a, list),
           UNCHANGED <<in_area, hp>>, SameChat, SameClients
    PROVE  WireInvariant'
<1>1. PICK x : x = Evidence(list)
  OBVIOUS
<1>2. PICK e : e = <<>>
  OBVIOUS
<1>3. evidence \in [Areas -> Seq(EvNames)] /\ hp \in [Areas -> HpViews]
  BY DEF WireInvariant, AreasTyped
<1>4. hp[a] \in HpViews
  BY <1>3
<1>5. Arrives(x, e, evidence[a], hp[a], list, hp[a])
  BY <1>1, <1>2, <1>4, LeArrives DEF PlainTexts
<1>6. /\ stream' = send_to_area(a, x) /\ in_area' = in_area /\ hp' = hp /\ published' = published
      /\ evidence' = [evidence EXCEPT ![a] = list]
  BY <1>1 DEF ShareEvidence, SameChat
<1>7. PICK S : S = Seq(EvNames)
  OBVIOUS
<1>8. evidence' \in [Areas -> S] /\ evidence'[a] = list /\ \A c \in Areas : c # a => evidence'[c] = evidence[c]
  BY <1>3, <1>6, <1>7
<1>9. AreasTyped'
  BY <1>3, <1>6, <1>7, <1>8 DEF AreasTyped
<1>10. meant' = [q \in Players |-> IF q \in InArea(a) THEN meant[q] \o e ELSE meant[q]]
  BY <1>2, NothingMeant DEF SameChat
<1> QED BY <1>5, <1>6, <1>8, <1>9, <1>10, AreaTold

LEMMA HPKeeps ==
    ASSUME PlainTexts, WireInvariant, NEW p \in Players, NEW s \in {"1", "2"}, NEW v \in {"0", "10"}, AOPacketHP(p, s, v)
    PROVE  WireInvariant'
<1>1. PICK a \in Areas : a = in_area[p]
  BY AreaOf
<1>2. PICK x : x = Hp(s, v)
  OBVIOUS
<1>3. PICK e : e = <<>>
  OBVIOUS
<1>4. hp \in [Areas -> HpViews] /\ evidence \in [Areas -> Seq(EvNames)]
  BY DEF WireInvariant, AreasTyped
<1>5. PICK bars : bars = [hp[a] EXCEPT ![s] = v]
  OBVIOUS
<1>6. hp[a] \in HpViews /\ bars \in HpViews
  BY <1>4, <1>5 DEF HpViews
<1>7. Arrives(x, e, evidence[a], hp[a], evidence[a], bars)
  BY <1>2, <1>3, <1>5, <1>6, HpArrives
<1>8. /\ stream' = send_to_area(a, x) /\ in_area' = in_area /\ evidence' = evidence /\ published' = published
      /\ hp' = [hp EXCEPT ![a] = bars] /\ meant' = meant /\ SameClients
  BY <1>1, <1>2, <1>5 DEF AOPacketHP, SameChat
<1>9. hp' \in [Areas -> HpViews] /\ hp'[a] = bars /\ \A c \in Areas : c # a => hp'[c] = hp[c]
  BY <1>4, <1>6, <1>8
<1>10. AreasTyped'
  BY <1>4, <1>8, <1>9 DEF AreasTyped
<1>11. meant' = [q \in Players |-> IF q \in InArea(a) THEN meant[q] \o e ELSE meant[q]]
  BY <1>3, <1>8, NothingMeant
<1> QED BY <1>7, <1>8, <1>9, <1>10, <1>11, AreaTold

LEMMA MCKeeps ==
    ASSUME PlainTexts, WireInvariant, NEW p \in Players, NEW a \in Areas, AOPacketMC(p, a)
    PROVE  WireInvariant'
<1>1. AreasTyped /\ PlayersTyped /\ \A q \in Players : ClientInStep(q)
  BY DEF WireInvariant
<1>2. PICK x : x = JoinInfo(a)
  OBVIOUS
<1>3. /\ in_area' = [in_area EXCEPT ![p] = a] /\ stream' = [stream EXCEPT ![p] = @ \o x]
      /\ evidence' = evidence /\ hp' = hp /\ published' = published /\ meant' = meant
      /\ incomplete_buf' = incomplete_buf /\ ev_view' = ev_view /\ hp_view' = hp_view
  BY <1>2 DEF AOPacketMC, SameChat, SameClients
<1>4. AreasTyped'
  BY <1>1, <1>3 DEF AreasTyped
<1>5. PlayersTyped'
  BY <1>1, <1>3 DEF PlayersTyped
<1>6. ASSUME NEW q \in Players PROVE ClientInStep(q)'
  <2>1. ClientInStep(q)
    BY <1>1
  <2>2. CASE q = p
    <3>1. in_area'[q] = a /\ stream'[q] = stream[q] \o x
      BY <1>1, <1>3, <2>2 DEF PlayersTyped
    <3>2. PICK ev : ev = evidence[in_area[q]]
      OBVIOUS
    <3>3. PICK h \in HpViews : h = hp[in_area[q]]
      BY AreaOf
    <3>4. hp[a] \in HpViews /\ evidence[a] \in Seq(EvNames)
      BY <1>1 DEF AreasTyped
    <3>5. Arrives(x, <<>>, ev, h, evidence[a], hp[a])
      BY <1>2, <3>4, JoinArrives DEF PlainTexts
    <3>6. InStep(incomplete_buf[q], stream[q], ev_view[q], hp_view[q], published[q], meant[q], ev, h)
      BY <2>1, <3>2, <3>3 DEF ClientInStep
    <3>7. InStep(incomplete_buf[q], stream[q] \o x, ev_view[q], hp_view[q], published[q], meant[q] \o <<>>, evidence[a], hp[a])
      BY <3>5, <3>6, MoreSent
    <3>8. meant[q] \o <<>> = meant[q]
      BY MeantType, ConcatEmpty
    <3> QED BY <1>3, <3>1, <3>7, <3>8 DEF ClientInStep
  <2>3. CASE q # p
    <3>1. in_area'[q] = in_area[q] /\ stream'[q] = stream[q]
      BY <1>1, <1>3, <2>3 DEF PlayersTyped
    <3> QED BY <1>3, <2>1, <3>1 DEF ClientInStep
  <2> QED BY <2>2, <2>3
<1> QED BY <1>4, <1>5, <1>6 DEF WireInvariant

LEMMA ChunkKeeps ==
    ASSUME WireInvariant, NEW p \in Players, NEW n, on_message(p, n)
    PROVE  WireInvariant'
<1>1. AreasTyped /\ PlayersTyped /\ \A q \in Players : ClientInStep(q)
  BY DEF WireInvariant
<1>2. PICK b : b = incomplete_buf[p] \o SubSeq(stream[p], 1, n)
  OBVIOUS
<1>3. PICK s : s = Complete(b)
  OBVIOUS
<1>4. /\ n \in 1..Len(stream[p])
      /\ stream' = [stream EXCEPT ![p] = SubSeq(@, n + 1, Len(@))]
      /\ incomplete_buf' = [incomplete_buf EXCEPT ![p] = Rest(b)]
      /\ published' = [published EXCEPT ![p] = @ \o Published(s)]
      /\ ev_view' = [ev_view EXCEPT ![p] = Listed(@, s)]
      /\ hp_view' = [hp_view EXCEPT ![p] = Bars(@, s)]
      /\ in_area' = in_area /\ evidence' = evidence /\ hp' = hp /\ meant' = meant
  BY <1>2, <1>3 DEF on_message
<1>5. AreasTyped'
  BY <1>1, <1>4 DEF AreasTyped
<1>6. PlayersTyped'
  BY <1>1, <1>4 DEF PlayersTyped
<1>7. ASSUME NEW q \in Players PROVE ClientInStep(q)'
  <2>1. ClientInStep(q)
    BY <1>1
  <2>2. CASE q = p
    <3>1. /\ stream'[p] = SubSeq(stream[p], n + 1, Len(stream[p])) /\ incomplete_buf'[p] = Rest(b)
          /\ published'[p] = published[p] \o Published(s) /\ ev_view'[p] = Listed(ev_view[p], s)
          /\ hp_view'[p] = Bars(hp_view[p], s)
      BY <1>1, <1>4 DEF PlayersTyped
    <3>2. PICK ev : ev = evidence[in_area[p]]
      OBVIOUS
    <3>3. PICK h : h = hp[in_area[p]]
      OBVIOUS
    <3>4. InStep(incomplete_buf[p], stream[p], ev_view[p], hp_view[p], published[p], meant[p], ev, h)
      BY <2>1, <2>2, <3>2, <3>3 DEF ClientInStep
    <3>5. InStep(Rest(b), SubSeq(stream[p], n + 1, Len(stream[p])), Listed(ev_view[p], s), Bars(hp_view[p], s),
                 published[p] \o Published(s), meant[p], ev, h)
      BY <1>2, <1>3, <1>4, <3>4, ChunkRead
    <3> QED BY <1>4, <2>2, <3>1, <3>2, <3>3, <3>5 DEF ClientInStep
  <2>3. CASE q # p
    <3>1. /\ stream'[q] = stream[q] /\ incomplete_buf'[q] = incomplete_buf[q] /\ published'[q] = published[q]
          /\ ev_view'[q] = ev_view[q] /\ hp_view'[q] = hp_view[q]
      BY <1>1, <1>4, <2>3 DEF PlayersTyped
    <3> QED BY <1>4, <2>1, <3>1 DEF ClientInStep
  <2> QED BY <2>2, <2>3
<1> QED BY <1>5, <1>6, <1>7 DEF WireInvariant

LEMMA WireSame ==
    ASSUME WireInvariant,
           UNCHANGED <<stream, incomplete_buf, in_area, evidence, hp, ev_view, hp_view, published, meant>>
    PROVE  WireInvariant'
BY DEF WireInvariant, AreasTyped, PlayersTyped, ClientInStep

LEMMA PEKeeps ==
    ASSUME PlainTexts, WireInvariant, NEW p \in Players, NEW e \in EvNames, AOPacketPE(p, e)
    PROVE  WireInvariant'
<1>1. PICK list : list = Append(evidence[in_area[p]], e)
  OBVIOUS
<1>2. in_area[p] \in Areas /\ list \in Seq(EvNames)
  BY <1>1, AreaOf, AppendIs
<1>3. ShareEvidence(in_area[p], list) /\ UNCHANGED <<in_area, hp>> /\ SameChat /\ SameClients
  BY <1>1 DEF AOPacketPE
<1> QED BY <1>2, <1>3, EvidenceKeeps

LEMMA EEKeeps ==
    ASSUME PlainTexts, WireInvariant, NEW p \in Players, NEW i, NEW e \in EvNames, AOPacketEE(p, i, e)
    PROVE  WireInvariant'
<1>1. UNCHANGED <<in_area, hp>> /\ SameChat /\ SameClients
  BY DEF AOPacketEE
<1>2. CASE i \in DOMAIN evidence[in_area[p]]
  <2>1. PICK list : list = [evidence[in_area[p]] EXCEPT ![i] = e]
    OBVIOUS
  <2>2. in_area[p] \in Areas /\ list \in Seq(EvNames)
    BY <1>2, <2>1, AreaOf, EntryChanged
  <2>3. ShareEvidence(in_area[p], list)
    BY <1>2, <2>1 DEF AOPacketEE
  <2> QED BY <1>1, <2>2, <2>3, EvidenceKeeps
<1>3. CASE i \notin DOMAIN evidence[in_area[p]]
  <2>1. UNCHANGED <<evidence, stream>>
    BY <1>3 DEF AOPacketEE
  <2> QED BY <1>1, <2>1, WireSame DEF SameChat, SameClients
<1> QED BY <1>2, <1>3

LEMMA DEKeeps ==
    ASSUME PlainTexts, WireInvariant, NEW p \in Players, NEW i, AOPacketDE(p, i)
    PROVE  WireInvariant'
<1>1. UNCHANGED <<in_area, hp>> /\ SameChat /\ SameClients
  BY DEF AOPacketDE
<1>2. CASE i \in DOMAIN evidence[in_area[p]]
  <2>1. PICK list : list = RemoveAt(evidence[in_area[p]], i)
    OBVIOUS
  <2>2. in_area[p] \in Areas /\ list \in Seq(EvNames)
    BY <1>2, <2>1, AreaOf, EntryRemoved
  <2>3. ShareEvidence(in_area[p], list)
    BY <1>2, <2>1 DEF AOPacketDE
  <2> QED BY <1>1, <2>2, <2>3, EvidenceKeeps
<1>3. CASE i \notin DOMAIN evidence[in_area[p]]
  <2>1. UNCHANGED <<evidence, stream>>
    BY <1>3 DEF AOPacketDE
  <2> QED BY <1>1, <2>1, WireSame DEF SameChat, SameClients
<1> QED BY <1>2, <1>3

LEMMA WireStep == ASSUME PlainTexts, WireInvariant, [WiNext]_wiVars PROVE WireInvariant'
<1>1. CASE UNCHANGED wiVars
  BY <1>1, WireSame DEF wiVars
<1>2. CASE WiNext
  <2>1. PICK p \in Players :
            \/ \E t \in IcTexts, f \in {"immediate", "slide"} : AOPacketMS(p, t, f)
            \/ \E t \in OocTexts : AOPacketCT(p, t)
            \/ \E e \in EvNames : AOPacketPE(p, e)
            \/ \E e \in EvNames, i \in 1..MaxActs : AOPacketEE(p, i, e)
            \/ \E i \in 1..MaxActs : AOPacketDE(p, i)
            \/ \E s \in {"1", "2"} : AOPacketHP(p, s, "0")
            \/ \E a \in Areas : AOPacketMC(p, a)
            \/ \E n \in Chunks(p) : on_message(p, n)
    BY <1>2 DEF WiNext
  <2>2. ASSUME NEW t \in IcTexts, NEW f \in {"immediate", "slide"}, AOPacketMS(p, t, f) PROVE WireInvariant'
    BY <2>2, MSKeeps
  <2>3. ASSUME NEW t \in OocTexts, AOPacketCT(p, t) PROVE WireInvariant'
    BY <2>3, CTKeeps
  <2>4. ASSUME NEW e \in EvNames, AOPacketPE(p, e) PROVE WireInvariant'
    BY <2>4, PEKeeps
  <2>5. ASSUME NEW e \in EvNames, NEW i, AOPacketEE(p, i, e) PROVE WireInvariant'
    BY <2>5, EEKeeps
  <2>6. ASSUME NEW i, AOPacketDE(p, i) PROVE WireInvariant'
    BY <2>6, DEKeeps
  <2>7. ASSUME NEW s \in {"1", "2"}, AOPacketHP(p, s, "0") PROVE WireInvariant'
    BY <2>7, HPKeeps
  <2>8. ASSUME NEW a \in Areas, AOPacketMC(p, a) PROVE WireInvariant'
    BY <2>8, MCKeeps
  <2>9. ASSUME NEW n, on_message(p, n) PROVE WireInvariant'
    BY <2>9, ChunkKeeps
  <2> QED BY <2>1, <2>2, <2>3, <2>4, <2>5, <2>6, <2>7, <2>8, <2>9, Zenon
<1> QED BY <1>1, <1>2

LEMMA PrefixOfConcat ==
    ASSUME NEW T, NEW s \in Seq(T), NEW u \in Seq(T), NEW r, r = s \o u
    PROVE  IsPrefix(s, r)
<1>1. PICK n \in Nat : n = Len(s)
  OBVIOUS
<1>2. SubSeq(r, 1, n) = SubSeq(s, 1, n)
  <2>1. 1 \in Nat /\ 1 <= n + 1 /\ n <= Len(s)
    BY <1>1
  <2> QED BY <2>1, SliceKept
<1>3. n <= Len(r)
  <2>1. ConcatOf(T, s, u, r)
    BY DEF ConcatOf
  <2>2. Concatenated(T, s, u, r)
    BY <2>1, ConcatIs
  <2> QED BY <1>1, <2>2 DEF Concatenated
<1> QED BY <1>1, <1>2, <1>3 DEF IsPrefix

LEMMA WireInvariantFaithful == ASSUME WireInvariant PROVE WireFaithful
<1> SUFFICES ASSUME NEW p \in Players
             PROVE  /\ IsPrefix(published[p], meant[p])
                    /\ stream[p] = <<>> => /\ hp_view[p] = hp[in_area[p]]
                                           /\ evidence[in_area[p]] # <<>> => ev_view[p] = evidence[in_area[p]]
  BY DEF WireFaithful, RelayedIntact, ViewsConverge
<1>1. PICK inc : inc = incomplete_buf[p]
  OBVIOUS
<1>2. PICK s : s = Complete(inc \o stream[p])
  OBVIOUS
<1>3. /\ inc \in Wire /\ Unfinished(inc) /\ Whole(inc \o stream[p])
      /\ published[p] \in Seq(Heard) /\ meant[p] = published[p] \o Published(s)
      /\ hp_view[p] = [x \in DOMAIN hp_view[p] |-> hp_view[p][x]] /\ Bars(hp_view[p], s) = hp[in_area[p]]
      /\ evidence[in_area[p]] # <<>> => Listed(ev_view[p], s) = evidence[in_area[p]]
  BY <1>1, <1>2 DEF WireInvariant, ClientInStep, InStep
<1>4. IsPrefix(published[p], meant[p])
  <2>1. Published(s) \in Seq(Heard)
    BY <1>2, <1>3, CompleteType, ChatsType DEF Whole
  <2> QED BY <1>3, <2>1, PrefixOfConcat
<1>5. ASSUME stream[p] = <<>>
      PROVE  hp_view[p] = hp[in_area[p]] /\ (evidence[in_area[p]] # <<>> => ev_view[p] = evidence[in_area[p]])
  <2>1. inc \o stream[p] = inc
    BY <1>3, <1>5, ConcatEmpty DEF Wire
  <2>2. s = <<>>
    BY <1>2, <1>3, <2>1 DEF Unfinished
  <2> QED BY <1>3, <2>2, NothingRead
<1> QED BY <1>4, <1>5

\* For texts the protocol can carry, whatever is sent and however it is cut: every client publishes the chat it was
\* meant to get, in order and as written, and shows its area's health bars and evidence when it has read everything
\* (AOClient::on_message, AOPacketMS, AOServer::broadcast_ic, send_area_join_info).
THEOREM WireAlwaysFaithful == PlainTexts => (WiSpec => []WireFaithful)
<1> SUFFICES ASSUME PlainTexts PROVE WiSpec => []WireFaithful
  OBVIOUS
<1>1. WiInit => WireInvariant
  BY WireStarts
<1>2. WireInvariant /\ [WiNext]_wiVars => WireInvariant'
  BY WireStep
<1>3. WireInvariant => WireFaithful
  BY WireInvariantFaithful
<1> QED BY <1>1, <1>2, <1>3, PTL DEF WiSpec

\* The same with chunks of every length.
AnyChunk == \E p \in Players, n \in Nat : on_message(p, n)
AnyChunkSpec == WiInit /\ [][WiNext \/ AnyChunk]_wiVars

\* The chunks the network delivers may end anywhere, in a field or inside a delimiter: on_message puts the packets
\* together all the same (AOClient::on_message).
THEOREM FaithfulInAnyChunks == PlainTexts => (AnyChunkSpec => []WireFaithful)
<1> SUFFICES ASSUME PlainTexts PROVE AnyChunkSpec => []WireFaithful
  OBVIOUS
<1>1. WiInit => WireInvariant
  BY WireStarts
<1>2. WireInvariant /\ [WiNext \/ AnyChunk]_wiVars => WireInvariant'
  <2> SUFFICES ASSUME WireInvariant, [WiNext \/ AnyChunk]_wiVars PROVE WireInvariant'
    OBVIOUS
  <2>1. CASE [WiNext]_wiVars
    BY <2>1, WireStep
  <2>2. CASE AnyChunk
    <3>1. PICK p \in Players, n \in Nat : on_message(p, n)
      BY <2>2 DEF AnyChunk
    <3> QED BY <3>1, ChunkKeeps
  <2> QED BY <2>1, <2>2
<1>3. WireInvariant => WireFaithful
  BY WireInvariantFaithful
<1> QED BY <1>1, <1>2, <1>3, PTL DEF AnyChunkSpec

=============================================================================
