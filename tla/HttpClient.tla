----------------------------- MODULE HttpClient -----------------------------
(***************************************************************************)
(* http::Client: one kept-alive connection, requests one at a time under   *)
(* socket_mutex_, a retry when a reused connection turns out dead.  The    *)
(* server at the other end answers in order, may be slow and may close.    *)
(* A response is two pieces, a header section and a body.                  *)
(***************************************************************************)
EXTENDS Integers, Sequences, SequencesExt, FiniteSets

CONSTANTS
    Forms,         \* the calls made: [verb, args, chunked]: see Overloads; chunked is how the server answers
    MaxCalls, MaxTimeouts

\* The overloads there are: no body for Get and Options, and a body or its provider, not both.
ASSUME FormsAssumption ==
    \A f \in Forms : /\ f.verb \in {"Get", "Post", "Put", "Patch", "Delete", "Options", "send"} /\ f.chunked \in BOOLEAN
                     /\ "body" \in f.args => f.verb \notin {"Get", "Options"} /\ "provider" \notin f.args

VARIABLES
    socket,        \* socket_: <<>> or <<connection number>>
    conns,         \* connection number -> [up: requests travelling, down: pieces readable, later: pieces the
                   \*                       server has still to send, closed: the server closed]
    call,          \* <<>> or the call in progress: [n, form, req, pc, fresh, retried]
    calls,         \* forms of the calls made so far
    result,        \* call -> [of, whole, error]: whose response it returned
    sent,          \* history: call -> the connections its request was written to, [conn, reused, req]
    timeouts, is_stopping

hcVars == <<socket, conns, call, calls, result, sent, timeouts, is_stopping>>

HcInit ==
    /\ socket = <<>> /\ conns = <<>> /\ call = <<>> /\ calls = <<>> /\ result = <<>> /\ sent = <<>>
    /\ timeouts = 0 /\ is_stopping = FALSE

Piece(n, t) == [n |-> n, t |-> t]
Conn == conns[socket[1]]
NewConn == [up |-> <<>>, down |-> <<>>, later |-> <<>>, closed |-> FALSE]

\* Idle between requests, nothing may be readable: neither an end of stream nor left-over bytes.
is_socket_alive(c) == conns[c].down = <<>> /\ ~conns[c].closed

-----------------------------------------------------------------------------
(* Overloads: an operation and the arguments given besides the path, out of *)
(* "headers", "params", "body", "provider" (a body produced by a callback   *)
(* or made of form items), "receiver" (of the response body) and "handler"  *)
(* (of the response's status and headers, which may abort the call).  Each  *)
(* verb's overloads end in execute_request with the request they give.      *)
Request(method, headers, body, streams) == [method |-> method, headers |-> headers, body |-> body, streams |-> streams]

\* Query parameters given apart from the path are dropped.
Get(args) == Request("GET", "headers" \in args, FALSE, "receiver" \in args)
Post_body(args) == Request("POST", "headers" \in args, "body" \in args, FALSE)
\* The overloads that are stubs make the bare request: neither the body nor the headers they were given.
Stub(method) == Request(method, FALSE, FALSE, FALSE)
Post(args) == IF "provider" \in args THEN Stub("POST") ELSE Post_body(args)
BodyMethod(method, args) == Request(method, {"headers", "body"} \subseteq args, "body" \in args, FALSE)
Put(args) == IF "provider" \in args THEN Stub("PUT") ELSE BodyMethod("PUT", args)
Patch(args) == IF "provider" \in args THEN Stub("PATCH") ELSE BodyMethod("PATCH", args)
Delete(args) == Request("DELETE", "headers" \in args, "body" \in args, FALSE)
Options(args) == Request("OPTIONS", "headers" \in args, FALSE, FALSE)

RequestOf(f) ==
    CASE f.verb = "Get" -> Get(f.args) [] f.verb = "Post" -> Post(f.args) [] f.verb = "Put" -> Put(f.args)
      [] f.verb = "Patch" -> Patch(f.args) [] f.verb = "Delete" -> Delete(f.args) [] f.verb = "Options" -> Options(f.args)

\* The universal Client hands every call to its ClientImpl, argument for argument.
Client(f) == RequestOf(f)

\* send() of a ready-made request is not implemented: an error at once.
Implemented(f) == f.verb # "send"

\* Which connection the call goes to, and whether it is a new one.
Reusable == socket # <<>> /\ is_socket_alive(socket[1])

\* A call begins.
execute_request(f) ==
    /\ call = <<>> /\ Len(calls) < MaxCalls /\ ~is_stopping /\ Implemented(f)
    /\ calls' = Append(calls, f) /\ sent' = Append(sent, <<>>) /\ result' = Append(result, <<>>)
    /\ IF Reusable THEN UNCHANGED <<socket, conns>>
       ELSE socket' = <<Len(conns) + 1>> /\ conns' = Append(conns, NewConn)
    /\ call' = <<[n |-> Len(calls) + 1, form |-> f, req |-> Client(f), pc |-> "send", fresh |-> ~Reusable, retried |-> FALSE]>>
    /\ UNCHANGED <<timeouts, is_stopping>>

C == call[1]
Finish(res, keep) ==
    /\ result' = [result EXCEPT ![C.n] = <<res>>] /\ call' = <<>>
    /\ socket' = IF keep THEN socket ELSE <<>>
Failed == [of |-> 0, whole |-> FALSE, error |-> TRUE]

MayRetry_always(fresh) == TRUE

\* Once, and only where the connection was a reused one.
MayRetry(fresh) == ~fresh /\ ~is_stopping

Reconnect ==
    /\ socket' = <<Len(conns) + 1>> /\ conns' = Append(conns, NewConn)
    /\ call' = <<[C EXCEPT !.pc = "send", !.fresh = TRUE, !.retried = TRUE]>>
    /\ UNCHANGED result

\* The request is written; a closed connection refuses it or swallows it.
SendAll ==
    /\ call # <<>> /\ C.pc = "send"
    /\ \/ /\ sent' = [sent EXCEPT ![C.n] = Append(@, [conn |-> socket[1], reused |-> ~C.fresh, req |-> C.req])]
          /\ conns' = IF Conn.closed THEN conns ELSE [conns EXCEPT ![socket[1]].up = Append(@, C.n)]
          /\ call' = <<[C EXCEPT !.pc = "head"]>> /\ UNCHANGED <<socket, result>>
       \/ /\ Conn.closed /\ UNCHANGED sent
          /\ IF MayRetry(C.fresh) THEN Reconnect ELSE Finish(Failed, FALSE) /\ UNCHANGED conns
    /\ UNCHANGED <<calls, timeouts, is_stopping>>

\* read_final_headers: all up to the end of a header section, whose status line is then the first bytes read;
\* 1xx responses are skipped in it.
ReadHead ==
    /\ call # <<>> /\ C.pc = "head"
    /\ \E i \in DOMAIN Conn.down :
        /\ Conn.down[i].t = "head" /\ \A j \in 1..(i - 1) : Conn.down[j].t # "head"
        /\ call' = <<[C EXCEPT !.pc = "body"]>>
        /\ result' = [result EXCEPT ![C.n] = <<[of |-> Conn.down[1].n, whole |-> TRUE, error |-> FALSE]>>]
        /\ conns' = [conns EXCEPT ![socket[1]].down = SubSeq(@, i + 1, Len(@))]
    /\ UNCHANGED <<socket, calls, sent, timeouts, is_stopping>>

\* The caller's ResponseHandler sees the headers before the body and may refuse it.
HandlerAborts ==
    /\ call # <<>> /\ C.pc = "body" /\ "handler" \in C.form.args /\ Finish(Failed, FALSE)
    /\ UNCHANGED <<conns, calls, sent, timeouts, is_stopping>>

\* No header section comes: the end of the stream, or the read timeout.
NoHead ==
    /\ call # <<>> /\ C.pc = "head" /\ \A i \in DOMAIN Conn.down : Conn.down[i].t # "head"
    /\ \/ Conn.closed /\ Conn.later = <<>> /\ UNCHANGED timeouts
       \/ timeouts < MaxTimeouts /\ timeouts' = timeouts + 1
    /\ IF MayRetry(C.fresh) THEN Reconnect ELSE Finish(Failed, FALSE) /\ UNCHANGED conns
    /\ UNCHANGED <<calls, sent, is_stopping>>

\* The server's "Connection: close" is one of the endings.
ReadBody ==
    /\ call # <<>> /\ C.pc = "body" /\ Conn.down # <<>>
    /\ conns' = [conns EXCEPT ![socket[1]].down = Tail(@)]
    /\ \E keep \in BOOLEAN : Finish(result[C.n][1], keep)
    /\ UNCHANGED <<calls, sent, timeouts, is_stopping>>

\* body_complete is only cleared by read_body; a stream that stopped short and a cut chunked body leave it set.
KeepsShort(form) == RequestOf(form).streams \/ form.chunked

BodyCutShort ==
    /\ call # <<>> /\ C.pc = "body" /\ Conn.down = <<>>
    /\ \/ Conn.closed /\ Conn.later = <<>> /\ UNCHANGED timeouts
       \/ timeouts < MaxTimeouts /\ timeouts' = timeouts + 1
    /\ Finish([result[C.n][1] EXCEPT !.whole = FALSE], KeepsShort(C.form))
    /\ UNCHANGED <<conns, calls, sent, is_stopping>>

\* stop() waits for the mutex, that is for the call in progress to end.
ClientStop ==
    /\ call = <<>> /\ ~is_stopping /\ is_stopping' = TRUE /\ socket' = <<>>
    /\ UNCHANGED <<conns, call, calls, result, sent, timeouts>>

\* The server: takes a request, sends the pieces when it gets to it, or closes.
Serve(c) ==
    /\ conns[c].up # <<>> /\ ~conns[c].closed
    /\ conns' = [conns EXCEPT ![c].up = Tail(@),
                              ![c].later = @ \o <<Piece(Head(conns[c].up), "head"), Piece(Head(conns[c].up), "body")>>]
    /\ UNCHANGED <<socket, call, calls, result, sent, timeouts, is_stopping>>

Transmit(c) ==
    /\ conns[c].later # <<>>
    /\ conns' = [conns EXCEPT ![c].later = Tail(@), ![c].down = Append(@, Head(conns[c].later))]
    /\ UNCHANGED <<socket, call, calls, result, sent, timeouts, is_stopping>>

ServerCloses(c) ==
    /\ ~conns[c].closed /\ conns' = [conns EXCEPT ![c].closed = TRUE, ![c].up = <<>>]
    /\ UNCHANGED <<socket, call, calls, result, sent, timeouts, is_stopping>>

HcNext ==
    \/ \E f \in Forms : execute_request(f)
    \/ SendAll \/ ReadHead \/ HandlerAborts \/ NoHead \/ ReadBody \/ BodyCutShort \/ ClientStop
    \/ \E c \in DOMAIN conns : Serve(c) \/ Transmit(c) \/ ServerCloses(c)

HcSpec == HcInit /\ [][HcNext]_hcVars

\* A call returns its own response or an error, never what an earlier request on the connection left behind: the
\* comment of read_body has its callers close the socket when the body is incomplete.
AnswerIsOwn == \A n \in DOMAIN result : (result[n] # <<>> /\ ~result[n][1].error) => result[n][1].of = n

\* A request is written to a second connection only if the first was a reused one, and then unchanged, and never to
\* a third; an overload that is not a stub writes the body it was given.
RetriedOnlyWhenReused ==
    \A n \in DOMAIN sent : /\ Len(sent[n]) <= 2
                           /\ Len(sent[n]) = 2 => sent[n][1].reused /\ sent[n][1].conn # sent[n][2].conn
                                                    /\ sent[n][1].req = sent[n][2].req
                           /\ Len(sent[n]) > 0 => sent[n][1].req.body = ("body" \in calls[n].args)

\* Calls on a kept connection stay apart: each returns its own answer, and only a reused connection is tried twice.
CallsApart == AnswerIsOwn /\ RetriedOnlyWhenReused
=============================================================================
