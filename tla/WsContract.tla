----------------------------- MODULE WsContract -----------------------------
(***************************************************************************)
(* What the WebSocket transport promises the AO2 backend.  A client is     *)
(* connected at most once and disconnected after that; while it is         *)
(* connected the backend is given some of its messages, each once and in   *)
(* the order they were sent (rate limits may drop any of them).            *)
(***************************************************************************)
EXTENDS Integers

CONSTANTS Clients, MaxMsgs

VARIABLES
    phase,    \* "new", "open", "closed": the backend's view of the client
    sent,     \* messages the client has sent
    handled   \* number of the last one the backend was given

vars == <<phase, sent, handled>>

Init ==
    /\ phase = [c \in Clients |-> "new"]
    /\ sent = [c \in Clients |-> 0]
    /\ handled = [c \in Clients |-> 0]

Send(c) ==
    /\ sent[c] < MaxMsgs
    /\ sent' = [sent EXCEPT ![c] = @ + 1]
    /\ UNCHANGED <<phase, handled>>

Connected(c) ==
    /\ phase[c] = "new"
    /\ phase' = [phase EXCEPT ![c] = "open"]
    /\ UNCHANGED <<sent, handled>>

Disconnected(c) ==
    /\ phase[c] # "closed"
    /\ phase' = [phase EXCEPT ![c] = "closed"]
    /\ UNCHANGED <<sent, handled>>

Handle(c, n) ==
    /\ phase[c] = "open"
    /\ n > handled[c] /\ n <= sent[c]
    /\ handled' = [handled EXCEPT ![c] = n]
    /\ UNCHANGED <<phase, sent>>

Next ==
    \E c \in Clients :
        \/ Send(c) \/ Connected(c) \/ Disconnected(c)
        \/ \E n \in 1 .. MaxMsgs : Handle(c, n)

Spec == Init /\ [][Next]_vars
=============================================================================
