----------------------------- MODULE MCLiveness -----------------------------
(* What must eventually happen in the server, under the fairness of its     *)
(* threads: of a behaviour either the REST side of Kagami runs or the       *)
(* WebSocket transport does, and the other stays in its initial state.      *)
EXTENDS Kagami

CONSTANTS PartsToRun, NumWsClients, NumSlots, MaxMsgs, Banned, MaxKicks, NoSlot

VARIABLES
    part,
    sent, hung, received, notified,
    conn, read, handshaked,
    send_queue, close_queue,
    poll_pc, connecting, leaving, frames, to_send, to_close,
    queue, item, wpc, kick_target, dispatch,
    session, handled, disconnects, kicks

Ws == INSTANCE WsTransport WITH NumClients <- NumWsClients, pc <- poll_pc, target <- kick_target

wsState == <<sent, hung, received, notified, conn, read, handshaked, send_queue, close_queue, poll_pc, connecting,
             leaving, frames, to_send, to_close, queue, item, wpc, kick_target, dispatch, session, handled,
             disconnects, kicks>>
mcVars == <<part, vars, wsState>>

RestNext == part = "rest" /\ ReloadNext /\ UNCHANGED <<part, wsState>>
WsNext == part = "ws" /\ Ws!Next /\ UNCHANGED <<part, vars>>
MCNext == RestNext \/ WsNext

RestOnly(A) == part = "rest" /\ A /\ UNCHANGED <<part, wsState>>
WsOnly(A) == part = "ws" /\ A /\ UNCHANGED <<part, vars>>

MCInit == part \in PartsToRun /\ Init /\ Ws!Init

MCSpec ==
    /\ MCInit
    /\ [][MCNext]_mcVars
    /\ \A t \in RestThreads : WF_mcVars(RestOnly(RestStep(t) /\ UNCHANGED aoVars))
    /\ WF_mcVars(RestOnly(Sweep /\ UNCHANGED aoVars))
    /\ WF_mcVars(WsOnly(Ws!PollStep)) /\ \A s \in Ws!Slots : WF_mcVars(WsOnly(Ws!WorkerStep(s)))

\* WsTransport: a deferred close is carried out (close_client_deferred, flush_sends), and every frame handed to a slot is
\* taken and its handler returns (the worker loop).
TransportDrains == Ws!ClosesHappen /\ Ws!WorkDrained
=============================================================================
