---------------------------- MODULE WsTransport ----------------------------
(***************************************************************************)
(* The WebSocket transport of kagami: one poll thread that accepts, reads, *)
(* fires the connection callbacks, hands frames to the worker of the       *)
(* client's slot and flushes the send queues; and one worker thread per    *)
(* slot that runs the AO2 handlers under the dispatch lock.                *)
(*                                                                         *)
(* A message is the number the client gave it, an answer carries the       *)
(* number of the message it answers.  HTTP upgrade, frame parsing and      *)
(* PROXY headers are abstracted to their outcome: a client is still        *)
(* waiting, has complete frames, or is dead (hung up, sent CLOSE or a      *)
(* malformed frame, or ran into one of the timeouts).                      *)
(***************************************************************************)
EXTENDS Integers, Sequences, FiniteSets, SequencesExt

CONSTANTS
    NumClients,   \* how many clients connect
    NumSlots,     \* slot_count_, the number of worker threads
    MaxMsgs,      \* bound on the messages of one client
    Banned,       \* clients whose HI, when they send it, meets a ban
    MaxKicks,     \* bound on the kicks of a run
    NoSlot        \* the dispatch lock is free

ASSUME TransportAssumption ==
    /\ NumClients \in Nat /\ NumSlots \in Nat \ {0} /\ MaxMsgs \in Nat
    /\ MaxKicks \in Nat
    /\ Banned \subseteq 1 .. NumClients
    /\ NoSlot \notin 0 .. NumSlots - 1

Clients == 1 .. NumClients
Slots == 0 .. NumSlots - 1
Items == [client : Clients, n : 1 .. MaxMsgs]
KK == -1           \* the packet that tells a client it is kicked
Sends == [client : Clients, n : -1 .. MaxMsgs]

VARIABLES
    \* the network
    sent,          \* messages each client has sent
    hung,          \* clients whose socket fails from now on
    received,      \* number of the last answer a client received
    notified,      \* clients that received KK
    \* WebSocketServer
    conn,          \* "none", "accepted", "open" (handshake complete), "gone"
    read,          \* messages read off each client's socket
    handshaked,    \* handshaked_count_
    send_queue,    \* global_send_queue_
    close_queue,   \* deferred_close_queue_
    \* the poll thread
    pc,            \* its place in the loop of WsWorkerPool::start
    connecting,    \* newly_connected
    leaving,       \* clients whose on_disconnected_ is still to be fired
    frames,        \* the result of poll()
    to_send,       \* flush_sends' copy of the queues
    to_close,
    \* the workers
    queue,         \* the queue of each slot
    item,          \* the item a worker has taken, or none
    wpc,           \* "wait", "have", "kicking", "closing"
    target,        \* whom the handler of the worker kicks
    dispatch,      \* owner of the dispatch lock among the workers, or NoSlot
    \* AOServer
    session,       \* clients with a session
    handled,       \* last message of the client given to its session
    disconnects,   \* how often on_client_disconnected ran
    kicks          \* kicks so far

netVars == <<sent, hung, received, notified>>
wsVars == <<conn, read, handshaked>>
queueVars == <<send_queue, close_queue>>
pollVars == <<pc, connecting, leaving, frames, to_send, to_close>>
workVars == <<queue, item, wpc, target, dispatch>>
aoVars == <<session, handled, disconnects, kicks>>
vars == <<netVars, wsVars, queueVars, pollVars, workVars, aoVars>>

None == [client |-> 0, n |-> 0]

TypeOK ==
    /\ sent \in [Clients -> 0 .. MaxMsgs] /\ read \in [Clients -> 0 .. MaxMsgs]
    /\ hung \subseteq Clients /\ notified \subseteq Clients
    /\ received \in [Clients -> -1 .. MaxMsgs]
    /\ conn \in [Clients -> {"none", "accepted", "open", "gone"}]
    /\ handshaked \in 0 .. NumClients
    /\ send_queue \in Seq(Sends) /\ close_queue \in Seq(Clients)
    /\ pc \in {"poll", "connected", "disconnected", "enqueue", "flush", "close",
               "closed", "send", "dead"}
    /\ connecting \in Seq(Clients) /\ leaving \in Seq(Clients)
    /\ frames \in Seq(Items)
    /\ to_send \in Seq(Sends) /\ to_close \in Seq(Clients)
    /\ queue \in [Slots -> Seq(Items)]
    /\ item \in [Slots -> Items \cup {None}]
    /\ wpc \in [Slots -> {"wait", "have", "kicking", "closing"}]
    /\ target \in [Slots -> Clients \cup {0}]
    /\ dispatch \in Slots \cup {NoSlot}
    /\ session \subseteq Clients
    /\ handled \in [Clients -> 0 .. MaxMsgs]
    /\ disconnects \in [Clients -> Nat] /\ kicks \in 0 .. MaxKicks

Init ==
    /\ sent = [c \in Clients |-> 0] /\ read = [c \in Clients |-> 0]
    /\ hung = {} /\ notified = {}
    /\ received = [c \in Clients |-> -1]
    /\ conn = [c \in Clients |-> "none"] /\ handshaked = 0
    /\ send_queue = <<>> /\ close_queue = <<>>
    /\ pc = "poll"
    /\ connecting = <<>> /\ leaving = <<>> /\ frames = <<>>
    /\ to_send = <<>> /\ to_close = <<>>
    /\ queue = [s \in Slots |-> <<>>] /\ item = [s \in Slots |-> None]
    /\ wpc = [s \in Slots |-> "wait"] /\ target = [s \in Slots |-> 0]
    /\ dispatch = NoSlot
    /\ session = {} /\ handled = [c \in Clients |-> 0]
    /\ disconnects = [c \in Clients |-> 0] /\ kicks = 0

-----------------------------------------------------------------------------
(* The clients. *)

ClientSend(c) ==
    /\ sent[c] < MaxMsgs /\ conn[c] # "gone" /\ c \notin hung
    /\ sent' = [sent EXCEPT ![c] = @ + 1]
    /\ UNCHANGED <<hung, received, notified, wsVars, queueVars, pollVars, workVars, aoVars>>

ClientHangs(c) ==
    /\ conn[c] \in {"accepted", "open"} /\ c \notin hung
    /\ hung' = hung \cup {c}
    /\ UNCHANGED <<sent, received, notified, wsVars, queueVars, pollVars, workVars, aoVars>>

-----------------------------------------------------------------------------
(* WebSocketServer's helpers. *)

\* remove_client takes S out of the map and out of handshaked_count_.
remove_client(S) ==
    /\ conn' = [c \in Clients |-> IF c \in S THEN "gone" ELSE conn[c]]
    /\ handshaked' = handshaked - Cardinality({c \in S : conn[c] = "open"})

queue_send(c, n) == send_queue' = Append(send_queue, [client |-> c, n |-> n])

\* AOServer::on_client_disconnected, under the dispatch lock.
Disconnect(c) ==
    /\ dispatch = NoSlot
    /\ session' = session \ {c}
    /\ disconnects' = [disconnects EXCEPT ![c] = @ + 1]
    /\ UNCHANGED <<handled, kicks>>

-----------------------------------------------------------------------------
(* The poll thread. *)

accept_new_clients(c) ==
    /\ pc = "poll" /\ conn[c] = "none"
    /\ \A d \in 1 .. c - 1 : conn[d] # "none"
    /\ conn' = [conn EXCEPT ![c] = "accepted"]
    /\ UNCHANGED <<read, handshaked, netVars, queueVars, pollVars, workVars, aoVars>>

\* The clients of S as the loop over the map of clients, which is ordered by their ids, meets them.
InIdOrder(S) == CHOOSE q \in SetToSeqs(S) : \A i, j \in DOMAIN q : i < j => q[i] < q[j]

\* The messages of the clients of S that wait to be read, in the map's order.
Unread(S) ==
    LET of(c) == [i \in 1 .. (IF c \in S THEN sent[c] - read[c] ELSE 0) |->
                    [client |-> c, n |-> read[c] + i]]
    IN  FlattenSeq([c \in Clients |-> of(c)])

(***************************************************************************)
(* poll: D are the clients found dead in this round, whose frames are      *)
(* discarded; H complete their handshake and are read in the same round.   *)
(***************************************************************************)
Poll(D, H) ==
    LET live == {c \in Clients \ D : conn[c] = "open"} \cup H IN
    /\ pc = "poll"
    /\ D \subseteq {c \in Clients : conn[c] \in {"accepted", "open"}}
    /\ H \subseteq {c \in Clients \ (D \cup hung) : conn[c] = "accepted"}
    /\ conn' = [c \in Clients |->
                  IF c \in D THEN "gone" ELSE IF c \in H THEN "open" ELSE conn[c]]
    /\ handshaked' = handshaked + Cardinality(H) - Cardinality({c \in D : conn[c] = "open"})
    /\ frames' = Unread(live)
    /\ read' = [c \in Clients |-> IF c \in live THEN sent[c] ELSE read[c]]
    /\ connecting' = InIdOrder(H)
    /\ leaving' = InIdOrder(D)
    /\ pc' = "connected"
    /\ UNCHANGED <<to_send, to_close, netVars, queueVars, workVars, aoVars>>

\* on_connected_ creates the session and queues the decryptor packet.
FireConnected ==
    /\ pc = "connected" /\ connecting # <<>> /\ dispatch = NoSlot
    /\ session' = session \cup {Head(connecting)}
    /\ queue_send(Head(connecting), 0)
    /\ connecting' = Tail(connecting)
    /\ UNCHANGED <<pc, leaving, frames, to_send, to_close, close_queue, handled, disconnects,
                   kicks, netVars, wsVars, workVars>>

AllConnected_early ==
    /\ pc = "connected"
    /\ pc' = "disconnected"
    /\ UNCHANGED <<connecting, leaving, frames, to_send, to_close, netVars, wsVars, queueVars,
                   workVars, aoVars>>

AllConnected ==
    /\ pc = "connected" /\ connecting = <<>>
    /\ pc' = "disconnected"
    /\ UNCHANGED <<connecting, leaving, frames, to_send, to_close, netVars, wsVars, queueVars,
                   workVars, aoVars>>

\* on_disconnected_, fired by poll (pc "disconnected") and by flush_sends.
FireDisconnected ==
    /\ pc \in {"disconnected", "closed", "dead"} /\ leaving # <<>>
    /\ Disconnect(Head(leaving))
    /\ leaving' = Tail(leaving)
    /\ UNCHANGED <<pc, connecting, frames, to_send, to_close, netVars, wsVars, queueVars, workVars>>

AllDisconnected ==
    /\ pc \in {"disconnected", "closed", "dead"} /\ leaving = <<>>
    /\ pc' = CASE pc = "disconnected" -> "enqueue" [] pc = "closed" -> "close"
               [] pc = "dead" -> "poll"
    /\ UNCHANGED <<connecting, leaving, frames, to_send, to_close, netVars, wsVars, queueVars,
                   workVars, aoVars>>

\* One client, one slot: its frames are handled by one thread.
SlotOf_any(c) == Slots

SlotOf(c) == {c % NumSlots}

Enqueue ==
    /\ pc = "enqueue" /\ frames # <<>>
    /\ \E s \in SlotOf(Head(frames).client) :
          queue' = [queue EXCEPT ![s] = Append(@, Head(frames))]
    /\ frames' = Tail(frames)
    /\ UNCHANGED <<pc, connecting, leaving, to_send, to_close, item, wpc, target, dispatch,
                   netVars, wsVars, queueVars, aoVars>>

\* The frame is over the limit of frames or bytes.
DropFrame ==
    /\ pc = "enqueue" /\ frames # <<>>
    /\ frames' = Tail(frames)
    /\ UNCHANGED <<pc, connecting, leaving, to_send, to_close, netVars, wsVars, queueVars,
                   workVars, aoVars>>

AllEnqueued ==
    /\ pc = "enqueue" /\ frames = <<>>
    /\ pc' = "flush"
    /\ UNCHANGED <<connecting, leaving, frames, to_send, to_close, netVars, wsVars, queueVars,
                   workVars, aoVars>>

\* flush_sends, first part: both queues are swapped out.
SwapQueues_drops_closes ==
    /\ pc = "flush"
    /\ to_send' = send_queue /\ to_close' = IF send_queue = <<>> THEN <<>> ELSE close_queue
    /\ send_queue' = <<>> /\ close_queue' = <<>>
    /\ pc' = "close"
    /\ UNCHANGED <<connecting, leaving, frames, netVars, wsVars, workVars, aoVars>>

SwapQueues ==
    /\ pc = "flush"
    /\ to_send' = send_queue /\ to_close' = close_queue
    /\ send_queue' = <<>> /\ close_queue' = <<>>
    /\ pc' = "close"
    /\ UNCHANGED <<connecting, leaving, frames, netVars, wsVars, workVars, aoVars>>

\* close_client for each deferred close: nothing if the client is gone.
CloseClient ==
    LET c == Head(to_close) IN
    /\ pc = "close" /\ to_close # <<>>
    /\ to_close' = Tail(to_close)
    /\ IF conn[c] = "gone"
       THEN UNCHANGED <<pc, leaving, conn, handshaked>>
       ELSE remove_client({c}) /\ leaving' = <<c>> /\ pc' = "closed"
    /\ UNCHANGED <<connecting, frames, to_send, read, netVars, queueVars, workVars, aoVars>>

AllClosed ==
    /\ pc = "close" /\ to_close = <<>>
    /\ pc' = "send"
    /\ UNCHANGED <<connecting, leaving, frames, to_send, to_close, netVars, wsVars, queueVars,
                   workVars, aoVars>>

\* One queued send; a failed one puts its client on the list of the dead,
\* once for each failure.
SendOne ==
    LET c == Head(to_send).client
        n == Head(to_send).n
    IN  /\ pc = "send" /\ to_send # <<>>
        /\ to_send' = Tail(to_send)
        /\ IF conn[c] # "open" THEN UNCHANGED <<received, notified, leaving>>
           ELSE IF c \in hung THEN leaving' = Append(leaving, c) /\ UNCHANGED <<received, notified>>
           ELSE /\ received' = IF n = KK THEN received ELSE [received EXCEPT ![c] = n]
                /\ notified' = IF n = KK THEN notified \cup {c} ELSE notified
                /\ UNCHANGED leaving
        /\ UNCHANGED <<pc, connecting, frames, to_close, sent, hung, wsVars, queueVars, workVars,
                       aoVars>>

AllSent ==
    /\ pc = "send" /\ to_send = <<>>
    /\ remove_client(Range(leaving))
    /\ pc' = "dead"
    /\ UNCHANGED <<connecting, leaving, frames, to_send, to_close, read, netVars, queueVars,
                   workVars, aoVars>>
-----------------------------------------------------------------------------
(* The worker of slot s. *)

Take(s) ==
    /\ wpc[s] = "wait" /\ queue[s] # <<>>
    /\ item' = [item EXCEPT ![s] = Head(queue[s])]
    /\ queue' = [queue EXCEPT ![s] = Tail(@)]
    /\ wpc' = [wpc EXCEPT ![s] = "have"]
    /\ UNCHANGED <<target, dispatch, netVars, wsVars, queueVars, pollVars, aoVars>>

Done(s) ==
    /\ item' = [item EXCEPT ![s] = None]
    /\ wpc' = [wpc EXCEPT ![s] = "wait"]

\* The message is over the limit of its packet type.
RateLimited(s) ==
    /\ wpc[s] = "have"
    /\ Done(s)
    /\ UNCHANGED <<queue, target, dispatch, netVars, wsVars, queueVars, pollVars, aoVars>>

\* on_client_message finds no session: the client has left meanwhile.
MessageIgnored(s) ==
    /\ wpc[s] = "have" /\ dispatch = NoSlot
    /\ item[s].client \notin session
    /\ Done(s)
    /\ UNCHANGED <<queue, target, dispatch, netVars, wsVars, queueVars, pollVars, aoVars>>

\* The worker holds the lock and gives its message to the client's session.
Dispatch(s) ==
    /\ wpc[s] = "have" /\ dispatch = NoSlot
    /\ item[s].client \in session
    /\ handled' = [handled EXCEPT ![item[s].client] = item[s].n]

\* A handler that answers its client; only HI looks at bans.
MessageAnswered(s) ==
    /\ Dispatch(s)
    /\ queue_send(item[s].client, item[s].n)
    /\ Done(s)
    /\ UNCHANGED <<queue, target, dispatch, close_queue, session, disconnects, kicks, netVars,
                   wsVars, pollVars>>

(***************************************************************************)
(* A handler that kicks client d (/kick, /ban, MA): KK is queued while the *)
(* handler runs, the deferred close when it has returned, all under the    *)
(* dispatch lock.  The poll thread may flush in between.                   *)
(***************************************************************************)
KickNotify(s, d) ==
    /\ kicks < MaxKicks /\ kicks' = kicks + 1
    /\ Dispatch(s)
    /\ d \in session
    /\ queue_send(d, KK)
    /\ target' = [target EXCEPT ![s] = d]
    /\ wpc' = [wpc EXCEPT ![s] = "kicking"]
    /\ dispatch' = s
    /\ UNCHANGED <<queue, item, close_queue, session, disconnects, netVars, wsVars, pollVars>>

KickClose(s) ==
    /\ wpc[s] = "kicking"
    /\ close_queue' = Append(close_queue, target[s])
    /\ target' = [target EXCEPT ![s] = 0]
    /\ Done(s)
    /\ dispatch' = NoSlot
    /\ UNCHANGED <<queue, send_queue, netVars, wsVars, pollVars, aoVars>>

(***************************************************************************)
(* AOPacketHI of a banned client: KB is queued and close_client called     *)
(* under the dispatch lock.  It removes the client and then calls          *)
(* on_disconnected_, which asks for the dispatch lock the worker holds:    *)
(* the worker takes no further step.                                       *)
(***************************************************************************)
BanReject(s) ==
    LET c == item[s].client IN
    /\ Dispatch(s)
    /\ c \in Banned
    /\ queue_send(c, KK)
    /\ IF conn[c] = "gone"
       THEN Done(s) /\ UNCHANGED <<dispatch, conn, handshaked>>
       ELSE /\ remove_client({c})
            /\ wpc' = [wpc EXCEPT ![s] = "closing"]
            /\ dispatch' = s
            /\ UNCHANGED item
    /\ UNCHANGED <<queue, target, read, close_queue, session, disconnects, kicks, netVars, pollVars>>

-----------------------------------------------------------------------------
PollStep ==
    \/ \E D, H \in SUBSET Clients : Poll(D, H)
    \/ FireConnected \/ AllConnected \/ FireDisconnected \/ AllDisconnected
    \/ Enqueue \/ DropFrame \/ AllEnqueued
    \/ SwapQueues \/ CloseClient \/ AllClosed \/ SendOne \/ AllSent

WorkerStep(s) ==
    \/ Take(s) \/ RateLimited(s) \/ MessageIgnored(s) \/ MessageAnswered(s)
    \/ (\E d \in Clients : KickNotify(s, d)) \/ KickClose(s)
    \/ BanReject(s)

ClientStep == \E c \in Clients : ClientSend(c) \/ ClientHangs(c) \/ accept_new_clients(c)

Next == ClientStep \/ PollStep \/ \E s \in Slots : WorkerStep(s)

Spec == Init /\ [][Next]_vars

\* The poll loop and the workers run for ever; the clients need not.
FairSpec == Spec /\ WF_vars(PollStep) /\ \A s \in Slots : WF_vars(WorkerStep(s))

-----------------------------------------------------------------------------
(***************************************************************************)
(* The transport keeps its contract with the AO2 backend: one connection,  *)
(* then messages each once and in the client's order, then disconnection,  *)
(* whatever the threads' interleaving (on_client_message and callbacks).   *)
(***************************************************************************)
Phase == [c \in Clients |-> IF c \in session THEN "open"
                            ELSE IF disconnects[c] > 0 THEN "closed" ELSE "new"]

Contract == INSTANCE WsContract WITH phase <- Phase

KeepsContract == Contract!Spec

(***************************************************************************)
(* No message overtakes its connection: a message that a worker holds or   *)
(* will hold belongs to a client whose session exists or has existed, so   *)
(* none is thrown away for coming too early (poll before enqueue).         *)
(***************************************************************************)
Pending(s) == ToSet(queue[s]) \cup IF wpc[s] = "wait" THEN {} ELSE {item[s]}

NoEarlyMessage ==
    \A s \in Slots : \A m \in Pending(s) : m.client \in session \/ disconnects[m.client] > 0

(***************************************************************************)
(* Sessions and connections agree up to the callbacks still to be fired:   *)
(* no session outlives its connection unnoticed and no open connection is  *)
(* without a session (remove_client against the on_disconnected_ calls).   *)
(***************************************************************************)
SessionsMatch ==
    \A c \in Clients :
        /\ c \in session => \/ conn[c] = "open" \/ c \in ToSet(leaving)
                           \/ \E s \in Slots : wpc[s] = "closing" /\ item[s].client = c
        /\ conn[c] = "open" => c \in session \/ c \in ToSet(connecting)

(***************************************************************************)
(* Answers reach a client in the order they were queued (queue_send and    *)
(* flush_sends).                                                           *)
(***************************************************************************)
AnswersInOrder == [][\A c \in Clients : received'[c] >= received[c]]_vars

(***************************************************************************)
(* A deferred close is carried out: the client is gone in the end          *)
(* (close_client_deferred, flush_sends).                                   *)
(***************************************************************************)
ClosesHappen == \A c \in Clients : c \in ToSet(close_queue) ~> conn[c] = "gone"

(***************************************************************************)
(* Every frame handed to a slot is taken and its handler returns, so the   *)
(* worker comes back for the next one (the worker loop).                   *)
(***************************************************************************)
WorkDrained == \A s \in Slots : queue[s] # <<>> ~> queue[s] = <<>> /\ wpc[s] = "wait"

-----------------------------------------------------------------------------
(* What the repository says of the transport and the code does not keep. *)

(***************************************************************************)
(* No handler calls close_client inside the dispatch lock: a thread that   *)
(* holds the lock never waits for it (AOPacketHI).                         *)
(***************************************************************************)
HolderNeverWaits == \A s \in Slots : ~(dispatch = s /\ wpc[s] = "closing")

(***************************************************************************)
(* A kicked client is sent the notice and then disconnected: when a        *)
(* deferred close is carried out on a client that is still there, its KK   *)
(* has been sent (send_kick_message, flush_sends).                         *)
(***************************************************************************)
NoticeFirst ==
    [][\A c \in Clients : CloseClient /\ conn[c] = "open" /\ conn'[c] = "gone" =>
            c \in notified]_vars

(***************************************************************************)
(* Clients, their sessions and their messages stay in step between the     *)
(* poll thread, the workers and the callbacks.                             *)
(***************************************************************************)
TransportSound == NoEarlyMessage /\ SessionsMatch
=============================================================================
