---------------------------- MODULE ClientProofs ----------------------------
(***************************************************************************)
(* The client's side.  http::Client on its kept connection, for any number *)
(* of calls, retries, timeouts and connections: a client that only makes   *)
(* buffered calls never hands a caller what an earlier request left        *)
(* behind.  The stream of music, for any file and ring: it is heard in     *)
(* order.  The HTTP mounts, for any number of mounts, files and retries:   *)
(* what a mount waits for is on its way, once.  The choice of music, for   *)
(* any changes and screens: an older track never replaces the last one.    *)
(* The connection, for any number of them and of inputs: its handshake     *)
(* never stops half-way and nothing of an earlier one reaches it.          *)
(* The asset cache, for any paths, sizes and loads: its books agree.       *)
(* The assets of AO2, for any sheets and servers: what a server hosts is   *)
(* found, under whichever of its names.  The courtroom, for any messages,  *)
(* background changes and ticks: messages play in order, and each is shown *)
(* whole before the next one takes the scene.  What a client shows of the  *)
(* room, for any players, moves and order of draining: once nothing is in  *)
(* flight it is what the server has, and a timer shows the time left.      *)
(***************************************************************************)
EXTENDS HttpClient, AudioStream, HttpMount, Music, AoClient, AssetCache, AoAssets, Playback,
        ClientViews, DataLemmas

-----------------------------------------------------------------------------
(* The HTTP client. *)

\* No call streams its response or is answered in chunks: every body is read whole or closes the connection.
Buffered == \A f \in Forms : ~KeepsShort(f)

-----------------------------------------------------------------------------
(* The inductive invariant. *)
Made == {f \in Forms : Implemented(f)}
Requests == {RequestOf(f) : f \in Forms}
Pieces == [n : Nat, t : {"head", "body"}]
Connections == [up : Seq(Nat), down : Seq(Pieces), later : Seq(Pieces), closed : BOOLEAN]
Sendings == [conn : Nat, reused : BOOLEAN, req : Requests]
Answers == [of : Nat, whole : BOOLEAN, error : BOOLEAN]
CallRecords == [n : Nat, form : Forms, req : Requests, pc : {"send", "head", "body"}, fresh : BOOLEAN, retried : BOOLEAN]

HcTypeOK ==
    /\ conns \in Seq(Connections) /\ calls \in Seq(Made)
    /\ sent \in Seq(Seq(Sendings)) /\ result \in Seq(Seq(Answers))
    /\ Len(sent) = Len(calls) /\ Len(result) = Len(calls)
    /\ socket = <<>> \/ \E k \in DOMAIN conns : socket = <<k>>

\* The call in progress is the last one made, on the socket, and a second attempt is on a new connection.
IsCall(c) ==
    /\ c \in CallRecords /\ c.n = Len(calls) /\ c.n \in DOMAIN calls /\ c.form = calls[c.n] /\ c.req = RequestOf(c.form)
    /\ c.retried => c.fresh

CallInv == call = <<>> \/ (socket # <<>> /\ call = <<call[1]>> /\ IsCall(call[1]))

\* What may be on the line: nothing, the one request or what is left of its answer, the body of its answer.
Quiet(l) == l.up = <<>> /\ l.down = <<>> /\ l.later = <<>>

Awaited(l, n) ==
    \/ l.up = <<n>> /\ l.down = <<>> /\ l.later = <<>>
    \/ l.up = <<>> /\ l.down = <<>> /\ l.later = <<Piece(n, "head"), Piece(n, "body")>>
    \/ l.up = <<>> /\ l.down = <<Piece(n, "head")>> /\ l.later = <<Piece(n, "body")>>
    \/ l.up = <<>> /\ l.down = <<Piece(n, "head"), Piece(n, "body")>> /\ l.later = <<>>
    \/ Quiet(l) /\ l.closed

BodyDue(l, n) ==
    \/ l.up = <<>> /\ l.down = <<>> /\ l.later = <<Piece(n, "body")>>
    \/ l.up = <<>> /\ l.down = <<Piece(n, "body")>> /\ l.later = <<>>

LineFor(l, c) ==
    /\ c.pc = "send" => Quiet(l)
    /\ c.pc = "head" => Awaited(l, c.n)
    /\ c.pc = "body" => BodyDue(l, c.n)

LineOk(l) == IF call = <<>> THEN Quiet(l) ELSE LineFor(l, call[1])

\* The socket's connection carries the call in progress and nothing else.
LineInv == socket # <<>> => LineOk(conns[socket[1]])

OwnAnswer(n) == result[n] # <<>> => (result[n][1].error \/ result[n][1].of = n)

AnswersInv ==
    /\ \A n \in DOMAIN result : OwnAnswer(n)
    /\ (call # <<>> /\ call[1].pc = "body") => (result[call[1].n] # <<>> /\ result[call[1].n][1].of = call[1].n)

\* What was written for call n: the same request at most twice, the second time only after a reused connection.
SentOk(n) ==
    /\ Len(sent[n]) <= 2
    /\ \A i \in DOMAIN sent[n] : sent[n][i].req = RequestOf(calls[n]) /\ sent[n][i].conn \in DOMAIN conns
    /\ Len(sent[n]) = 2 => sent[n][1].reused /\ sent[n][1].conn # sent[n][2].conn

\* How far the call in progress has come with that.
SentFor(s, c) ==
    /\ (c.pc = "send" /\ ~c.retried) => s = <<>>
    /\ (c.pc = "send" /\ c.retried) => Len(s) <= 1 /\ (Len(s) = 1 => s[1].reused /\ s[1].conn # socket[1])
    /\ (c.pc # "send" /\ ~c.retried) => Len(s) = 1 /\ s[1].reused = ~c.fresh

SentInv ==
    /\ \A n \in DOMAIN sent : SentOk(n)
    /\ call # <<>> => SentFor(sent[call[1].n], call[1])

ClientInv == HcTypeOK /\ CallInv /\ LineInv /\ AnswersInv /\ SentInv

-----------------------------------------------------------------------------
(* Lists of one or two members. *)
LEMMA OneLong ==
    ASSUME NEW a
    PROVE  <<a>> # <<>> /\ Len(<<a>>) = 1 /\ <<a>>[1] = a /\ Head(<<a>>) = a /\ Append(<<>>, a) = <<a>> /\ Tail(<<a>>) = <<>>
<1>1. <<a>> \in Seq({a}) /\ <<>> \in Seq({a}) /\ Len(<<a>>) = 1 /\ <<a>>[1] = a
  OBVIOUS
<1>2. Head(<<a>>) = a /\ <<a>> # <<>>
  BY <1>1
<1>3. Tail(<<a>>) = <<>>
  BY <1>1
<1>4. Append(<<>>, a) = <<a>>
  BY <1>1
<1> QED
  BY <1>1, <1>2, <1>3, <1>4

LEMMA TwoLong ==
    ASSUME NEW a, NEW b
    PROVE  /\ <<a, b>> # <<>> /\ Len(<<a, b>>) = 2 /\ <<a, b>>[1] = a /\ <<a, b>>[2] = b /\ Head(<<a, b>>) = a
           /\ Append(<<a>>, b) = <<a, b>> /\ Tail(<<a, b>>) = <<b>> /\ <<>> \o <<a, b>> = <<a, b>>
<1>1. /\ <<a, b>> \in Seq({a, b}) /\ <<>> \in Seq({a, b}) /\ <<a>> \in Seq({a, b}) /\ <<b>> \in Seq({a, b})
      /\ Len(<<a, b>>) = 2 /\ <<a, b>>[1] = a /\ <<a, b>>[2] = b /\ <<b>>[1] = b /\ Len(<<b>>) = 1
      /\ Len(<<a>>) = 1 /\ <<a>>[1] = a
  OBVIOUS
<1>2. Head(<<a, b>>) = a /\ <<a, b>> # <<>>
  BY <1>1
<1>3. Tail(<<a, b>>) = <<b>>
  BY <1>1
<1>4. Append(<<a>>, b) = <<a, b>>
  <2>1. PICK s \in Seq({a, b}) : s = <<a>> /\ Len(s) = 1 /\ s[1] = a
    BY <1>1
  <2>2. Append(s, b) \in Seq({a, b}) /\ Len(Append(s, b)) = 2 /\ Append(s, b)[1] = a /\ Append(s, b)[2] = b
    BY <2>1
  <2>3. PICK t, u : t = Append(s, b) /\ u = <<a, b>>
    OBVIOUS
  <2>4. /\ t \in Seq({a, b}) /\ u \in Seq({a, b}) /\ Len(t) = 2 /\ Len(u) = 2
        /\ \A i \in 1..2 : t[i] = u[i]
    BY <1>1, <2>2, <2>3
  <2>5. t = u
    BY <2>4
  <2> QED
    BY <2>1, <2>3, <2>5
<1>5. <<>> \o <<a, b>> = <<a, b>>
  BY <1>1
<1> QED
  BY <1>1, <1>2, <1>3, <1>4, <1>5

LEMMA PieceFields ==
    ASSUME NEW n \in Nat, NEW t \in {"head", "body"}
    PROVE  Piece(n, t) \in Pieces /\ Piece(n, t).n = n /\ Piece(n, t).t = t
BY DEF Piece, Pieces

LEMMA NewConnFields == NewConn \in Connections /\ Quiet(NewConn)
BY DEF NewConn, Connections, Quiet

LEMMA ConnFields ==
    ASSUME NEW l \in Connections
    PROVE  /\ l.up \in Seq(Nat) /\ l.down \in Seq(Pieces) /\ l.later \in Seq(Pieces) /\ l.closed \in BOOLEAN
           /\ l = [up |-> l.up, down |-> l.down, later |-> l.later, closed |-> l.closed]
BY DEF Connections

\* One connection of the list changes.
LEMMA OneConn ==
    ASSUME NEW cs \in Seq(Connections), NEW k \in DOMAIN cs, NEW l \in Connections
    PROVE  /\ [cs EXCEPT ![k] = l] \in Seq(Connections) /\ DOMAIN [cs EXCEPT ![k] = l] = DOMAIN cs
           /\ [cs EXCEPT ![k] = l][k] = l
           /\ \A j \in DOMAIN cs : j # k => [cs EXCEPT ![k] = l][j] = cs[j]
OBVIOUS

-----------------------------------------------------------------------------
(* The server's side. *)
\* What a step of the server makes of a connection.
CallServed(l, m) ==
    /\ l.up # <<>> /\ ~l.closed /\ m.up = Tail(l.up) /\ m.down = l.down /\ m.closed = l.closed
    /\ m.later = l.later \o <<Piece(Head(l.up), "head"), Piece(Head(l.up), "body")>>
Transmitted(l, m) ==
    /\ l.later # <<>> /\ m.up = l.up /\ m.closed = l.closed /\ m.later = Tail(l.later)
    /\ m.down = Append(l.down, Head(l.later))
ClosedBy(l, m) == m.up = <<>> /\ m.down = l.down /\ m.later = l.later /\ m.closed = TRUE

LEMMA ServedLine ==
    ASSUME NEW l, NEW m, NEW n, CallServed(l, m)
    PROVE  ~Quiet(l) /\ (Awaited(l, n) => Awaited(m, n)) /\ ~BodyDue(l, n)
<1>1. ~Quiet(l) /\ ~BodyDue(l, n)
  BY DEF CallServed, Quiet, BodyDue
<1>2. ASSUME Awaited(l, n) PROVE Awaited(m, n)
  <2>1. l.up = <<n>> /\ l.down = <<>> /\ l.later = <<>>
    BY <1>2 DEF CallServed, Awaited, Quiet
  <2>2. m.up = <<>> /\ m.down = <<>> /\ m.later = <<Piece(n, "head"), Piece(n, "body")>>
    <3>1. Head(l.up) = n /\ Tail(l.up) = <<>>
      BY <2>1, OneLong, TwoLong
    <3>2. m.later = <<>> \o <<Piece(n, "head"), Piece(n, "body")>>
      BY <2>1, <3>1 DEF CallServed
    <3> QED
      BY <2>1, <3>1, <3>2, OneLong, TwoLong DEF CallServed
  <2> QED
    BY <2>2 DEF Awaited
<1> QED
  BY <1>1, <1>2

LEMMA TransmittedLine ==
    ASSUME NEW l, NEW m, NEW n, Transmitted(l, m)
    PROVE  ~Quiet(l) /\ (Awaited(l, n) => Awaited(m, n)) /\ (BodyDue(l, n) => BodyDue(m, n))
<1> DEFINE h == Piece(n, "head")
           b == Piece(n, "body")
<1> HIDE DEF h, b
<1>1. ~Quiet(l)
  BY DEF Transmitted, Quiet
<1>2. ASSUME Awaited(l, n) PROVE Awaited(m, n)
  <2>1. CASE l.up = <<>> /\ l.down = <<>> /\ l.later = <<h, b>>
    <3>1. m.up = <<>> /\ m.later = <<b>> /\ m.down = <<h>>
      BY <2>1, OneLong, TwoLong DEF Transmitted
    <3> QED
      BY <3>1 DEF Awaited, h, b
  <2>2. CASE l.up = <<>> /\ l.down = <<h>> /\ l.later = <<b>>
    <3>1. m.up = <<>> /\ m.later = <<>> /\ m.down = <<h, b>>
      BY <2>2, OneLong, TwoLong DEF Transmitted
    <3> QED
      BY <3>1 DEF Awaited, h, b
  <2> QED
    BY <1>2, <2>1, <2>2 DEF Awaited, Transmitted, Quiet, h, b
<1>3. ASSUME BodyDue(l, n) PROVE BodyDue(m, n)
  <2>1. l.up = <<>> /\ l.down = <<>> /\ l.later = <<b>>
    BY <1>3 DEF BodyDue, Transmitted, b
  <2>2. m.up = <<>> /\ m.later = <<>> /\ m.down = <<b>>
    BY <2>1, OneLong, TwoLong DEF Transmitted
  <2> QED
    BY <2>2 DEF BodyDue, b
<1> QED
  BY <1>1, <1>2, <1>3

LEMMA ClosedLine ==
    ASSUME NEW l, NEW m, NEW n, ClosedBy(l, m)
    PROVE  (Quiet(l) => Quiet(m)) /\ (Awaited(l, n) => Awaited(m, n)) /\ (BodyDue(l, n) => BodyDue(m, n))
BY DEF ClosedBy, Quiet, Awaited, BodyDue

\* A line that suits the call suits it after a step of the server.
LEMMA ServerSuits ==
    ASSUME NEW l, NEW m, CallServed(l, m) \/ Transmitted(l, m) \/ ClosedBy(l, m), LineOk(l)
    PROVE  LineOk(m)
<1>1. CASE call = <<>>
  <2>1. Quiet(l)
    BY <1>1 DEF LineOk
  <2>2. Quiet(m)
    BY <2>1, ServedLine, TransmittedLine, ClosedLine
  <2> QED
    BY <1>1, <2>2 DEF LineOk
<1>2. CASE call # <<>>
  <2>1. LineFor(l, call[1])
    BY <1>2 DEF LineOk
  <2>2. /\ Quiet(l) => Quiet(m)
        /\ Awaited(l, call[1].n) => Awaited(m, call[1].n)
        /\ BodyDue(l, call[1].n) => BodyDue(m, call[1].n)
    BY ServedLine, TransmittedLine, ClosedLine
  <2>3. LineFor(m, call[1])
    BY <2>1, <2>2 DEF LineFor
  <2> QED
    BY <1>2, <2>3 DEF LineOk
<1> QED
  BY <1>1, <1>2

LEMMA ServerKeeps ==
    ASSUME ClientInv, NEW k \in DOMAIN conns, Serve(k) \/ Transmit(k) \/ ServerCloses(k)
    PROVE  ClientInv'
<1>1. /\ conns \in Seq(Connections) /\ UNCHANGED <<socket, call, calls, result, sent>>
  BY DEF ClientInv, HcTypeOK, Serve, Transmit, ServerCloses
<1>2. PICK l \in Connections : l = conns[k]
  BY <1>1, SeqIsFunction
<1>3. l.up \in Seq(Nat) /\ l.down \in Seq(Pieces) /\ l.later \in Seq(Pieces) /\ l.closed \in BOOLEAN
  BY ConnFields
<1>4. \E m \in Connections : conns' = [conns EXCEPT ![k] = m] /\ (CallServed(l, m) \/ Transmitted(l, m) \/ ClosedBy(l, m))
  <2>1. CASE Serve(k)
    <3>1. PICK h \in Pieces, b \in Pieces : h = Piece(Head(l.up), "head") /\ b = Piece(Head(l.up), "body")
      <4>1. Head(l.up) \in Nat
        BY <1>2, <1>3, <2>1, ToSetTail DEF Serve
      <4> QED
        BY <4>1, PieceFields
    <3>2. Tail(l.up) \in Seq(Nat) /\ l.later \o <<h, b>> \in Seq(Pieces)
      BY <1>2, <1>3, <2>1 DEF Serve
    <3>3. PICK m : m = [l EXCEPT !.up = Tail(l.up), !.later = l.later \o <<h, b>>]
      OBVIOUS
    <3>4. m \in Connections /\ CallServed(l, m)
      BY <1>2, <2>1, <3>1, <3>2, <3>3 DEF Connections, CallServed, Serve
    <3>5. conns' = [conns EXCEPT ![k] = m]
      BY <1>1, <1>2, <2>1, <3>1, <3>3 DEF Serve
    <3> QED
      BY <3>4, <3>5
  <2>2. CASE Transmit(k)
    <3>1. Tail(l.later) \in Seq(Pieces) /\ Append(l.down, Head(l.later)) \in Seq(Pieces)
      BY <1>2, <1>3, <2>2, ToSetTail, ToSetAppend DEF Transmit
    <3>2. PICK m : m = [l EXCEPT !.later = Tail(l.later), !.down = Append(l.down, Head(l.later))]
      OBVIOUS
    <3>3. m \in Connections /\ Transmitted(l, m)
      BY <1>2, <2>2, <3>1, <3>2 DEF Connections, Transmitted, Transmit
    <3>4. conns' = [conns EXCEPT ![k] = m]
      BY <1>1, <1>2, <2>2, <3>2 DEF Transmit
    <3> QED
      BY <3>3, <3>4
  <2>3. CASE ServerCloses(k)
    <3>1. PICK m : m = [l EXCEPT !.closed = TRUE, !.up = <<>>]
      OBVIOUS
    <3>2. m \in Connections /\ ClosedBy(l, m)
      <4>1. <<>> \in Seq(Nat)
        OBVIOUS
      <4>2. PICK e \in Seq(Nat) : e = <<>>
        BY <4>1
      <4>3. m = [l EXCEPT !.closed = TRUE, !.up = e]
        BY <3>1, <4>2
      <4>4. m \in Connections
        BY <4>3 DEF Connections
      <4>5. m.up = e /\ m.down = l.down /\ m.later = l.later /\ m.closed = TRUE
        BY <4>3 DEF Connections
      <4> QED
        BY <4>2, <4>4, <4>5 DEF ClosedBy
    <3>3. conns' = [conns EXCEPT ![k] = m]
      BY <1>1, <1>2, <2>3, <3>1 DEF ServerCloses
    <3> QED
      BY <3>2, <3>3
  <2> QED
    BY <2>1, <2>2, <2>3
<1>5. PICK m \in Connections : conns' = [conns EXCEPT ![k] = m] /\ (CallServed(l, m) \/ Transmitted(l, m) \/ ClosedBy(l, m))
  BY <1>4
<1>6. /\ conns' \in Seq(Connections) /\ DOMAIN conns' = DOMAIN conns /\ conns'[k] = m
      /\ \A j \in DOMAIN conns : j # k => conns'[j] = conns[j]
  BY <1>1, <1>5, OneConn
<1>7. HcTypeOK' /\ CallInv' /\ AnswersInv'
  BY <1>1, <1>6 DEF ClientInv, HcTypeOK, CallInv, IsCall, AnswersInv, OwnAnswer
<1>8. LineInv'
  <2> SUFFICES ASSUME socket # <<>>, NEW x, x = conns'[socket[1]] PROVE LineOk(x)'
    BY <1>1 DEF LineInv
  <2>1. PICK j \in DOMAIN conns : socket = <<j>> /\ socket[1] = j
    BY OneLong, TwoLong DEF ClientInv, HcTypeOK
  <2>2. LineOk(conns[j])
    BY <2>1 DEF ClientInv, LineInv
  <2>3. LineOk(conns'[j])
    <3>1. CASE j = k
      BY <1>2, <1>5, <1>6, <2>2, <3>1, ServerSuits
    <3>2. CASE j # k
      BY <1>6, <2>1, <2>2, <3>2
    <3> QED
      BY <3>1, <3>2
  <2>4. LineOk(x)
    BY <2>1, <2>3
  <2> QED
    BY <1>1, <2>4 DEF LineOk
<1>9. SentInv'
  BY <1>1, <1>6 DEF ClientInv, SentInv, SentOk, SentFor
<1> QED
  BY <1>7, <1>8, <1>9 DEF ClientInv

-----------------------------------------------------------------------------
(* The client's side. *)
LEMMA CallFields ==
    ASSUME NEW c \in CallRecords
    PROVE  /\ c.n \in Nat /\ c.form \in Forms /\ c.req \in Requests /\ c.pc \in {"send", "head", "body"}
           /\ c.fresh \in BOOLEAN /\ c.retried \in BOOLEAN
BY DEF CallRecords

LEMMA SameNumbers ==
    ASSUME ClientInv
    PROVE  /\ conns \in Seq(Connections) /\ calls \in Seq(Made) /\ sent \in Seq(Seq(Sendings)) /\ result \in Seq(Seq(Answers))
           /\ Len(sent) = Len(calls) /\ Len(result) = Len(calls) /\ Len(calls) \in Nat /\ Len(conns) \in Nat
           /\ DOMAIN conns = 1..Len(conns) /\ DOMAIN calls = 1..Len(calls) /\ DOMAIN sent = 1..Len(calls)
           /\ DOMAIN result = 1..Len(calls)
<1>1. /\ conns \in Seq(Connections) /\ calls \in Seq(Made) /\ sent \in Seq(Seq(Sendings)) /\ result \in Seq(Seq(Answers))
      /\ Len(sent) = Len(calls) /\ Len(result) = Len(calls)
  BY DEF ClientInv, HcTypeOK
<1> QED
  BY <1>1

\* The call in progress, the connection it is on, what that carries and what was written for it.
Underway(c, k, l) ==
    /\ call = <<c>> /\ call[1] = c /\ IsCall(c) /\ socket = <<k>> /\ socket[1] = k /\ k \in DOMAIN conns
    /\ l = conns[k] /\ l \in Connections /\ LineFor(l, c) /\ SentFor(sent[c.n], c)

LEMMA CallUnderway ==
    ASSUME ClientInv, call # <<>>
    PROVE  \E c \in CallRecords, k \in Nat, l \in Connections : Underway(c, k, l)
<1>1. PICK c : c = call[1]
  OBVIOUS
<1>2. call = <<c>> /\ IsCall(c) /\ socket # <<>>
  BY <1>1 DEF ClientInv, CallInv
<1>3. PICK k \in DOMAIN conns : socket = <<k>>
  BY <1>2 DEF ClientInv, HcTypeOK
<1>4. socket[1] = k /\ k \in Nat
  BY <1>3, OneLong, SameNumbers
<1>5. PICK l \in Connections : l = conns[k]
  BY <1>3, SameNumbers, SeqIsFunction
<1>6. LineFor(l, c)
  BY <1>1, <1>2, <1>4, <1>5 DEF ClientInv, LineInv, LineOk
<1>7. SentFor(sent[c.n], c)
  BY <1>1 DEF ClientInv, SentInv
<1> QED
  BY <1>1, <1>2, <1>3, <1>4, <1>5, <1>6, <1>7 DEF Underway, IsCall

\* A call ends with an answer of its own or an error; a connection it leaves open carries nothing.
LEMMA FinishKeeps ==
    ASSUME ClientInv, call # <<>>, NEW res \in Answers, NEW keep \in BOOLEAN, Finish(res, keep), UNCHANGED <<calls, sent>>,
           res.error \/ res.of = call[1].n, conns' \in Seq(Connections), DOMAIN conns' = DOMAIN conns,
           \A x : (keep /\ x = conns'[socket[1]]) => Quiet(x)
    PROVE  ClientInv'
<1>1. PICK c \in CallRecords, k \in Nat, l \in Connections : Underway(c, k, l)
  BY CallUnderway
<1>2. /\ result' = [result EXCEPT ![c.n] = <<res>>] /\ call' = <<>> /\ socket' = IF keep THEN socket ELSE <<>>
      /\ c.n \in DOMAIN result /\ call[1] = c
  BY <1>1, SameNumbers DEF Finish, C, Underway, IsCall
<1>3. <<res>> \in Seq(Answers) /\ <<res>> # <<>> /\ <<res>>[1] = res
  BY OneLong
<1>4. /\ result' \in Seq(Seq(Answers)) /\ Len(result') = Len(result) /\ DOMAIN result' = DOMAIN result
      /\ \A n \in DOMAIN result : result'[n] = IF n = c.n THEN <<res>> ELSE result[n]
  BY <1>2, <1>3, SameNumbers
<1>5. HcTypeOK'
  BY <1>2, <1>4 DEF ClientInv, HcTypeOK
<1>6. CallInv'
  BY <1>2 DEF CallInv
<1>7. LineInv'
  BY <1>2 DEF LineInv, LineOk
<1>8. AnswersInv'
  <2>1. \A n \in DOMAIN result : OwnAnswer(n)'
    BY <1>2, <1>3, <1>4 DEF ClientInv, AnswersInv, OwnAnswer
  <2> QED
    BY <1>2, <1>4, <2>1 DEF AnswersInv
<1>9. SentInv'
  BY <1>2 DEF ClientInv, SentInv, SentOk
<1> QED
  BY <1>5, <1>6, <1>7, <1>8, <1>9 DEF ClientInv

LEMMA FailedFields == Failed \in Answers /\ Failed.error
BY DEF Failed, Answers

\* A new connection at the end of the list.
LEMMA OneMoreConn ==
    ASSUME ClientInv, conns' = Append(conns, NewConn)
    PROVE  /\ conns' \in Seq(Connections) /\ Len(conns') = Len(conns) + 1 /\ conns'[Len(conns) + 1] = NewConn
           /\ DOMAIN conns' = 1..(Len(conns) + 1) /\ DOMAIN conns \subseteq DOMAIN conns'
           /\ Len(conns) + 1 \in DOMAIN conns' /\ Len(conns) + 1 \notin DOMAIN conns
BY SameNumbers, NewConnFields

\* The request goes out again on a new connection: at most one copy of it was written, to the reused one.
LEMMA ReconnectKeeps ==
    ASSUME ClientInv, call # <<>>, call[1].pc \in {"send", "head"}, MayRetry(call[1].fresh), Reconnect, UNCHANGED <<calls, sent>>
    PROVE  ClientInv'
<1>1. PICK c \in CallRecords, k \in Nat, l \in Connections : Underway(c, k, l)
  BY CallUnderway
<1>2. call[1] = c /\ c.pc \in {"send", "head"} /\ ~c.fresh /\ IsCall(c) /\ SentFor(sent[c.n], c)
  BY <1>1 DEF Underway, MayRetry
<1>3. PICK d : d = [c EXCEPT !.pc = "send", !.fresh = TRUE, !.retried = TRUE]
  OBVIOUS
<1>4. /\ socket' = <<Len(conns) + 1>> /\ conns' = Append(conns, NewConn) /\ call' = <<d>> /\ UNCHANGED <<result, calls, sent>>
  BY <1>2, <1>3 DEF Reconnect, C
<1>5. d \in CallRecords /\ d.n = c.n /\ d.form = c.form /\ d.req = c.req /\ d.pc = "send" /\ d.fresh = TRUE /\ d.retried = TRUE
  BY <1>3 DEF CallRecords
<1>6. call' # <<>> /\ call'[1] = d /\ socket' # <<>> /\ socket'[1] = Len(conns) + 1
  BY <1>4, OneLong
<1>7. HcTypeOK'
  BY <1>4, OneMoreConn DEF ClientInv, HcTypeOK
<1>8. CallInv'
  <2>1. IsCall(d)'
    BY <1>2, <1>4, <1>5 DEF IsCall
  <2> QED
    BY <1>4, <1>6, <2>1 DEF CallInv
<1>9. LineInv'
  <2>1. Quiet(conns'[Len(conns) + 1])
    BY <1>4, OneMoreConn, NewConnFields
  <2>2. LineFor(conns'[Len(conns) + 1], d)
    BY <1>5, <2>1 DEF LineFor
  <2> QED
    BY <1>6, <2>2 DEF LineInv, LineOk
<1>10. AnswersInv'
  BY <1>4, <1>5, <1>6 DEF ClientInv, AnswersInv, OwnAnswer
<1>11. SentInv'
  <2>1. \A n \in DOMAIN sent : SentOk(n)'
    BY <1>4, OneMoreConn DEF ClientInv, SentInv, SentOk
  <2>2. PICK s \in Seq(Sendings) : s = sent[c.n] /\ SentFor(s, c) /\ SentOk(c.n)
    <3>1. c.n \in DOMAIN sent
      BY <1>2, SameNumbers DEF IsCall
    <3> QED
      BY <1>2, <3>1, SameNumbers, SeqIsFunction DEF ClientInv, SentInv
  <2>3. Len(s) <= 1 /\ (Len(s) = 1 => s[1].reused /\ s[1].conn # Len(conns) + 1)
    <3>1. c.fresh = FALSE /\ c.retried = FALSE
      BY <1>2, CallFields DEF IsCall
    <3>2. CASE c.pc = "send"
      BY <2>2, <3>1, <3>2 DEF SentFor
    <3>3. CASE c.pc = "head"
      <4>1. Len(s) = 1 /\ s[1].reused = ~c.fresh
        BY <2>2, <3>1, <3>3 DEF SentFor
      <4>2. s[1].conn \in DOMAIN conns
        BY <2>2, <4>1 DEF SentOk
      <4>3. s[1].reused
        BY <3>1, <4>1
      <4>4. s[1].conn # Len(conns) + 1
        BY <1>4, <4>2, OneMoreConn
      <4> QED
        BY <4>1, <4>3, <4>4
    <3> QED
      BY <1>2, <3>2, <3>3
  <2>4. SentFor(s, d)'
    BY <1>5, <1>6, <2>3 DEF SentFor
  <2> QED
    BY <1>4, <1>5, <1>6, <2>1, <2>2, <2>4 DEF SentInv
<1> QED
  BY <1>7, <1>8, <1>9, <1>10, <1>11 DEF ClientInv

\* A call begins on an idle connection or on a new one.
LEMMA ExecuteKeeps ==
    ASSUME ClientInv, NEW f \in Forms, execute_request(f)
    PROVE  ClientInv'
<1>1. /\ call = <<>> /\ calls' = Append(calls, f) /\ sent' = Append(sent, <<>>) /\ result' = Append(result, <<>>)
      /\ IF Reusable THEN UNCHANGED <<socket, conns>> ELSE socket' = <<Len(conns) + 1>> /\ conns' = Append(conns, NewConn)
  BY DEF execute_request
<1>2. PICK d : d = [n |-> Len(calls) + 1, form |-> f, req |-> Client(f), pc |-> "send", fresh |-> ~Reusable, retried |-> FALSE]
  OBVIOUS
<1>3. call' = <<d>> /\ call' # <<>> /\ call'[1] = d
  BY <1>2, OneLong DEF execute_request
<1>4. d \in CallRecords /\ d.n = Len(calls) + 1 /\ d.form = f /\ d.req = RequestOf(f) /\ d.pc = "send" /\ d.retried = FALSE
  <2>1. Client(f) \in Requests /\ Client(f) = RequestOf(f) /\ Len(calls) + 1 \in Nat
    BY SameNumbers DEF Client, Requests
  <2>2. (~Reusable) \in BOOLEAN
    OBVIOUS
  <2> QED
    BY <1>2, <2>1, <2>2 DEF CallRecords
<1>5. PICK j : /\ socket' = <<j>> /\ j \in DOMAIN conns' /\ socket' # <<>> /\ socket'[1] = j /\ Quiet(conns'[j])
               /\ conns' \in Seq(Connections) /\ DOMAIN conns \subseteq DOMAIN conns'
  <2>1. CASE Reusable
    <3>1. PICK k \in DOMAIN conns : socket = <<k>>
      BY <2>1 DEF Reusable, ClientInv, HcTypeOK
    <3>2. socket # <<>> /\ socket[1] = k
      BY <3>1, OneLong
    <3>3. Quiet(conns[k])
      BY <1>1, <3>2 DEF ClientInv, LineInv, LineOk
    <3> QED
      BY <1>1, <2>1, <3>1, <3>2, <3>3, SameNumbers
  <2>2. CASE ~Reusable
    <3>1. socket' = <<Len(conns) + 1>> /\ conns' = Append(conns, NewConn)
      BY <1>1, <2>2
    <3>2. socket' # <<>> /\ socket'[1] = Len(conns) + 1
      BY <3>1, OneLong
    <3> QED
      BY <3>1, <3>2, OneMoreConn, NewConnFields
  <2> QED
    BY <2>1, <2>2
<1>6. /\ calls' \in Seq(Made) /\ Len(calls') = Len(calls) + 1 /\ DOMAIN calls' = 1..(Len(calls) + 1)
      /\ calls'[Len(calls) + 1] = f /\ \A n \in 1..Len(calls) : calls'[n] = calls[n]
  <2>1. f \in Made
    BY DEF execute_request, Made
  <2> QED
    BY <1>1, <2>1, SameNumbers
<1>7. /\ sent' \in Seq(Seq(Sendings)) /\ Len(sent') = Len(calls) + 1 /\ DOMAIN sent' = 1..(Len(calls) + 1)
      /\ sent'[Len(calls) + 1] = <<>> /\ \A n \in 1..Len(calls) : sent'[n] = sent[n]
  BY <1>1, SameNumbers
<1>8. /\ result' \in Seq(Seq(Answers)) /\ Len(result') = Len(calls) + 1 /\ DOMAIN result' = 1..(Len(calls) + 1)
      /\ result'[Len(calls) + 1] = <<>> /\ \A n \in 1..Len(calls) : result'[n] = result[n]
  BY <1>1, SameNumbers
<1>9. HcTypeOK'
  BY <1>5, <1>6, <1>7, <1>8 DEF HcTypeOK
<1>10. CallInv'
  <2>1. IsCall(d)'
    BY <1>4, <1>6, SameNumbers DEF IsCall
  <2> QED
    BY <1>3, <1>5, <2>1 DEF CallInv
<1>11. LineInv'
  BY <1>3, <1>4, <1>5 DEF LineInv, LineOk, LineFor
<1>12. AnswersInv'
  <2>1. \A n \in DOMAIN result' : OwnAnswer(n)'
    <3>1. \A n \in 1..Len(calls) : OwnAnswer(n)'
      BY <1>8, SameNumbers DEF ClientInv, AnswersInv, OwnAnswer
    <3>2. \A n : n = Len(calls) + 1 => OwnAnswer(n)'
      BY <1>8 DEF OwnAnswer
    <3>3. \A n \in DOMAIN result' : n \in 1..Len(calls) \/ n = Len(calls) + 1
      BY <1>8, SameNumbers
    <3> QED
      BY <3>1, <3>2, <3>3
  <2> QED
    BY <1>3, <1>4, <2>1 DEF AnswersInv
<1>13. SentInv'
  <2>1. \A n \in 1..Len(calls) : SentOk(n)'
    <3> TAKE n \in 1..Len(calls)
    <3>1. sent'[n] = sent[n] /\ calls'[n] = calls[n] /\ SentOk(n)
      BY <1>6, <1>7, SameNumbers DEF ClientInv, SentInv
    <3> QED
      BY <1>5, <3>1 DEF SentOk
  <2>2. \A n : n = Len(calls) + 1 => SentOk(n)'
    BY <1>7 DEF SentOk
  <2>3. SentFor(<<>>, d)'
    BY <1>4 DEF SentFor
  <2>4. (sent[call[1].n])' = <<>>
    BY <1>3, <1>4, <1>7
  <2>5. \A n \in DOMAIN sent' : SentOk(n)'
    <3>1. \A n \in DOMAIN sent' : n \in 1..Len(calls) \/ n = Len(calls) + 1
      BY <1>7, SameNumbers
    <3> QED
      BY <2>1, <2>2, <3>1
  <2> QED
    BY <1>3, <2>3, <2>4, <2>5 DEF SentInv
<1> QED
  BY <1>9, <1>10, <1>11, <1>12, <1>13 DEF ClientInv

\* The request is written: once on a connection, and a second time only after a reused one failed.
Written(r, c, s, t) ==
    /\ r.conn = socket[1] /\ r.reused = ~c.fresh /\ r.req = c.req /\ r \in Sendings /\ t = Append(s, r)

TwiceAtMost(t, c) ==
    /\ Len(t) <= 2
    /\ Len(t) = 2 => t[1].reused /\ t[1].conn # t[2].conn
    /\ \A i \in DOMAIN t : t[i].req = RequestOf(calls[c.n]) /\ t[i].conn \in DOMAIN conns
    /\ ~c.retried => Len(t) = 1 /\ t[1].reused = ~c.fresh

LEMMA WrittenSuits ==
    ASSUME ClientInv, NEW c \in CallRecords, NEW k \in Nat, NEW l \in Connections, Underway(c, k, l), c.pc = "send",
           NEW r, NEW s \in Seq(Sendings), s = sent[c.n], NEW t, Written(r, c, s, t), SentOk(c.n)
    PROVE  t \in Seq(Sendings) /\ TwiceAtMost(t, c)
<1>1. /\ t \in Seq(Sendings) /\ Len(s) \in Nat /\ Len(t) = Len(s) + 1 /\ t[Len(s) + 1] = r
      /\ \A i \in 1..Len(s) : t[i] = s[i]
  BY DEF Written
<1>2. r.req = RequestOf(calls[c.n]) /\ r.conn = k /\ k \in DOMAIN conns
  BY DEF Written, Underway, IsCall
<1>3. \A i \in DOMAIN t : t[i].req = RequestOf(calls[c.n]) /\ t[i].conn \in DOMAIN conns
  <2> SUFFICES ASSUME NEW i \in DOMAIN t PROVE t[i].req = RequestOf(calls[c.n]) /\ t[i].conn \in DOMAIN conns
    OBVIOUS
  <2>1. i \in 1..Len(s) \/ i = Len(s) + 1
    BY <1>1
  <2>2. CASE i \in 1..Len(s)
    <3>1. t[i] = s[i] /\ i \in DOMAIN s
      BY <1>1, <2>2
    <3> QED
      BY <3>1 DEF SentOk
  <2>3. CASE i = Len(s) + 1
    BY <1>1, <1>2, <2>3
  <2> QED
    BY <2>1, <2>2, <2>3
<1>4. CASE c.retried
  <2>1. Len(s) <= 1 /\ (Len(s) = 1 => s[1].reused /\ s[1].conn # k)
    BY <1>4 DEF Underway, SentFor
  <2>2. Len(t) <= 2
    BY <1>1, <2>1
  <2>3. ASSUME Len(t) = 2 PROVE t[1].reused /\ t[1].conn # t[2].conn
    <3>1. Len(s) = 1 /\ t[1] = s[1] /\ t[2] = r
      <4>1. \A p \in Nat : 2 = p + 1 => p = 1
        OBVIOUS
      <4>2. Len(s) = 1
        BY <1>1, <2>3, <4>1, Zenon
      <4> QED
        BY <1>1, <4>2
    <3> QED
      BY <1>2, <2>1, <3>1
  <2> QED
    BY <1>1, <1>3, <1>4, <2>2, <2>3 DEF TwiceAtMost
<1>5. CASE ~c.retried
  <2>1. s = <<>>
    BY <1>5 DEF Underway, SentFor
  <2>2. Len(t) = 1 /\ t[1] = r
    BY <1>1, <2>1
  <2>3. t[1].reused = ~c.fresh
    BY <2>2 DEF Written
  <2> QED
    <3>1. Len(t) <= 2 /\ Len(t) # 2
      BY <2>2
    <3> QED
      BY <1>1, <1>3, <2>2, <2>3, <3>1, Zenon DEF TwiceAtMost
<1> QED
  BY <1>4, <1>5

LEMMA SendKeeps ==
    ASSUME ClientInv, SendAll
    PROVE  ClientInv'
<1>1. PICK c \in CallRecords, k \in Nat, l \in Connections : Underway(c, k, l)
  BY CallUnderway DEF SendAll
<1>2. call # <<>> /\ call[1] = c /\ c.pc = "send" /\ socket[1] = k /\ socket # <<>> /\ k \in DOMAIN conns /\ l = conns[k] /\ Quiet(l)
  BY <1>1, OneLong DEF SendAll, C, Underway, LineFor
<1>3. CASE Conn.closed /\ UNCHANGED sent /\ IF MayRetry(C.fresh) THEN Reconnect ELSE Finish(Failed, FALSE) /\ UNCHANGED conns
  <2>1. UNCHANGED <<calls, sent>>
    BY <1>3 DEF SendAll
  <2>2. CASE MayRetry(C.fresh)
    <3>1. MayRetry(call[1].fresh) /\ Reconnect
      BY <1>3, <2>2 DEF C
    <3> QED
      BY <1>2, <2>1, <3>1, ReconnectKeeps
  <2>3. CASE ~MayRetry(C.fresh)
    <3>1. Finish(Failed, FALSE) /\ conns' = conns
      BY <1>3, <2>3
    <3> QED
      BY <1>2, <2>1, <3>1, FailedFields, FinishKeeps, SameNumbers
  <2> QED
    BY <2>2, <2>3
<1>4. CASE /\ sent' = [sent EXCEPT ![C.n] = Append(@, [conn |-> socket[1], reused |-> ~C.fresh, req |-> C.req])]
           /\ conns' = IF Conn.closed THEN conns ELSE [conns EXCEPT ![socket[1]].up = Append(@, C.n)]
           /\ call' = <<[C EXCEPT !.pc = "head"]>> /\ UNCHANGED <<socket, result>>
  <2>1. PICK r : r = [conn |-> k, reused |-> ~c.fresh, req |-> c.req]
    OBVIOUS
  <2>2. r \in Sendings /\ r.conn = k /\ r.reused = ~c.fresh /\ r.req = c.req
    BY <2>1, CallFields DEF Sendings
  <2>3. c.n \in DOMAIN sent /\ c.n \in Nat
    BY <1>1, CallFields, SameNumbers DEF Underway, IsCall
  <2>4. PICK s \in Seq(Sendings) : s = sent[c.n] /\ SentOk(c.n)
    BY <2>3, SameNumbers, SeqIsFunction DEF ClientInv, SentInv
  <2>5. PICK t : t = Append(s, r) /\ Written(r, c, s, t)
    BY <1>2, <2>2 DEF Written
  <2>6. t \in Seq(Sendings) /\ TwiceAtMost(t, c)
    BY <1>1, <1>2, <2>4, <2>5, WrittenSuits
  <2>7. sent' = [sent EXCEPT ![c.n] = t]
    BY <1>2, <1>4, <2>1, <2>4, <2>5 DEF C
  <2>8. /\ sent' \in Seq(Seq(Sendings)) /\ Len(sent') = Len(sent) /\ DOMAIN sent' = DOMAIN sent
        /\ \A n \in DOMAIN sent : sent'[n] = IF n = c.n THEN t ELSE sent[n]
    BY <2>3, <2>6, <2>7, SameNumbers
  <2>9. PICK d : d = [c EXCEPT !.pc = "head"]
    OBVIOUS
  <2>10. /\ call' = <<d>> /\ call' # <<>> /\ call'[1] = d /\ d \in CallRecords /\ d.n = c.n /\ d.form = c.form /\ d.req = c.req
         /\ d.pc = "head" /\ d.fresh = c.fresh /\ d.retried = c.retried
    BY <1>2, <1>4, <2>9, OneLong DEF C, CallRecords
  <2>11. UNCHANGED <<socket, result, calls>>
    BY <1>4 DEF SendAll
  <2>12. PICK m \in Connections : conns'[k] = m /\ Awaited(m, c.n) /\ conns' \in Seq(Connections) /\ DOMAIN conns' = DOMAIN conns
    <3>1. CASE l.closed
      <4>1. conns' = conns
        BY <1>2, <1>4, <3>1 DEF Conn
      <4> QED
        BY <1>2, <3>1, <4>1, SameNumbers DEF Awaited
    <3>2. CASE ~l.closed
      <4>1. PICK u \in Seq(Nat) : u = <<c.n>>
        BY <2>3, SingletonSeq
      <4>2. PICK m : m = [l EXCEPT !.up = u]
        OBVIOUS
      <4>3. m \in Connections /\ m.up = u /\ m.down = l.down /\ m.later = l.later
        BY <4>2 DEF Connections
      <4>4. Append(l.up, c.n) = u
        BY <1>2, <4>1, OneLong DEF Quiet
      <4>5. conns' = [conns EXCEPT ![k] = m]
        BY <1>2, <1>4, <3>2, <4>2, <4>4 DEF Conn, C
      <4> QED
        BY <1>2, <4>1, <4>3, <4>5, OneConn, SameNumbers DEF Awaited, Quiet
    <3> QED
      BY <3>1, <3>2
  <2>13. HcTypeOK'
    BY <2>8, <2>11, <2>12 DEF ClientInv, HcTypeOK
  <2>14. CallInv'
    <3>1. IsCall(d)'
      BY <1>1, <2>10, <2>11 DEF Underway, IsCall
    <3> QED
      BY <1>2, <2>10, <2>11, <3>1 DEF CallInv
  <2>15. LineInv'
    <3>1. LineFor(m, d)
      BY <2>10, <2>12 DEF LineFor
    <3> QED
      BY <1>2, <2>10, <2>11, <2>12, <3>1 DEF LineInv, LineOk
  <2>16. AnswersInv'
    BY <2>10, <2>11 DEF ClientInv, AnswersInv, OwnAnswer
  <2>17. SentInv'
    <3>1. ASSUME NEW n \in DOMAIN sent PROVE SentOk(n)'
      <4>1. CASE n = c.n
        <5>1. sent'[n] = t /\ calls'[n] = calls[c.n]
          BY <2>8, <2>11, <4>1
        <5> QED
          BY <2>6, <2>12, <4>1, <5>1 DEF SentOk, TwiceAtMost
      <4>2. CASE n # c.n
        <5>1. sent'[n] = sent[n] /\ SentOk(n)
          BY <2>8, <4>2 DEF ClientInv, SentInv
        <5> QED
          BY <2>11, <2>12, <5>1 DEF SentOk
      <4> QED
        BY <4>1, <4>2
    <3>2. SentFor(t, d)'
      BY <2>6, <2>10 DEF SentFor, TwiceAtMost
    <3> QED
      BY <2>3, <2>8, <2>10, <3>1, <3>2 DEF SentInv
  <2> QED
    BY <2>13, <2>14, <2>15, <2>16, <2>17 DEF ClientInv
<1> QED
  BY <1>3, <1>4 DEF SendAll

\* No answer comes: the call is tried again or fails.
LEMMA NoHeadKeeps ==
    ASSUME ClientInv, NoHead
    PROVE  ClientInv'
<1>1. call # <<>> /\ call[1].pc \in {"send", "head"} /\ UNCHANGED <<calls, sent>>
  BY DEF NoHead, C
<1>2. CASE MayRetry(C.fresh)
  <2>1. MayRetry(call[1].fresh) /\ Reconnect
    BY <1>2 DEF C, NoHead
  <2> QED
    BY <1>1, <2>1, ReconnectKeeps
<1>3. CASE ~MayRetry(C.fresh)
  <2>1. Finish(Failed, FALSE) /\ conns' = conns
    BY <1>3 DEF NoHead
  <2> QED
    BY <1>1, <2>1, FailedFields, FinishKeeps, SameNumbers
<1> QED
  BY <1>2, <1>3

LEMMA AbortKeeps ==
    ASSUME ClientInv, HandlerAborts
    PROVE  ClientInv'
<1>1. call # <<>> /\ UNCHANGED <<calls, sent>> /\ Finish(Failed, FALSE) /\ conns' = conns
  BY DEF HandlerAborts
<1> QED
  BY <1>1, FailedFields, FinishKeeps, SameNumbers

\* A header section that can be read is at the front of the line and the call's own.
LEMMA HeadInFront ==
    ASSUME NEW l, NEW n, Awaited(l, n), NEW i \in DOMAIN l.down, l.down[i].t = "head"
    PROVE  /\ i = 1 /\ l.down[1] = Piece(n, "head") /\ l.up = <<>>
           /\ \/ SubSeq(l.down, 2, Len(l.down)) = <<>> /\ l.later = <<Piece(n, "body")>>
              \/ SubSeq(l.down, 2, Len(l.down)) = <<Piece(n, "body")>> /\ l.later = <<>>
<1> DEFINE h == Piece(n, "head")
           b == Piece(n, "body")
<1>0. h.t = "head" /\ b.t = "body"
  BY DEF Piece
<1> HIDE DEF h, b
<1>1. l.down # <<>>
  OBVIOUS
<1>2. CASE l.up = <<>> /\ l.down = <<h>> /\ l.later = <<b>>
  <2>1. i = 1 /\ l.down[1] = h /\ Len(l.down) = 1
    BY <1>2
  <2>2. SubSeq(<<h>>, 2, 1) = <<>>
    OBVIOUS
  <2> QED
    BY <1>2, <2>1, <2>2 DEF h, b
<1>3. CASE l.up = <<>> /\ l.down = <<h, b>> /\ l.later = <<>>
  <2>1. Len(l.down) = 2 /\ l.down[1] = h /\ l.down[2] = b /\ DOMAIN l.down = 1..2
    BY <1>3
  <2>2. i = 1
    BY <1>0, <2>1
  <2>3. SubSeq(<<h, b>>, 2, 2) = <<b>>
    <3>1. PICK s \in Seq({h, b}), t \in Seq({h, b}) : s = SubSeq(<<h, b>>, 2, 2) /\ t = <<b>>
      <4>1. <<h, b>> \in Seq({h, b}) /\ Len(<<h, b>>) = 2 /\ <<b>> \in Seq({h, b})
        OBVIOUS
      <4>2. SubSeq(<<h, b>>, 2, 2) \in Seq({h, b})
        BY <4>1
      <4> QED
        BY <4>1, <4>2
    <3>2. Len(s) = 1 /\ s[1] = b /\ Len(t) = 1 /\ t[1] = b
      BY <3>1
    <3>3. s = t
      BY <3>2
    <3> QED
      BY <3>1, <3>3
  <2> QED
    BY <1>3, <2>1, <2>2, <2>3 DEF h, b
<1> QED
  BY <1>1, <1>2, <1>3 DEF Awaited, Quiet, h, b

LEMMA ReadHeadKeeps ==
    ASSUME ClientInv, ReadHead
    PROVE  ClientInv'
<1>1. PICK c \in CallRecords, k \in Nat, l \in Connections : Underway(c, k, l)
  BY CallUnderway DEF ReadHead
<1>2. /\ call[1] = c /\ c.pc = "head" /\ socket[1] = k /\ socket # <<>> /\ k \in DOMAIN conns /\ l = conns[k]
      /\ Awaited(l, c.n) /\ UNCHANGED <<socket, calls, sent>>
  BY <1>1, OneLong DEF ReadHead, C, Underway, LineFor
<1>3. PICK i \in DOMAIN l.down :
          /\ l.down[i].t = "head" /\ call' = <<[c EXCEPT !.pc = "body"]>>
          /\ result' = [result EXCEPT ![c.n] = <<[of |-> l.down[1].n, whole |-> TRUE, error |-> FALSE]>>]
          /\ conns' = [conns EXCEPT ![k].down = SubSeq(@, i + 1, Len(@))]
  BY <1>2 DEF ReadHead, C, Conn
<1>4. PICK v : v = SubSeq(l.down, 2, Len(l.down))
  OBVIOUS
<1>5. /\ i = 1 /\ l.down[1] = Piece(c.n, "head") /\ l.up = <<>>
      /\ \/ v = <<>> /\ l.later = <<Piece(c.n, "body")>>
         \/ v = <<Piece(c.n, "body")>> /\ l.later = <<>>
  BY <1>2, <1>3, <1>4, HeadInFront
<1>6. c.n \in Nat /\ c.n \in DOMAIN result /\ IsCall(c) /\ SentFor(sent[c.n], c)
  BY <1>1, CallFields, SameNumbers DEF Underway, IsCall
<1>7. PICK m : m = [l EXCEPT !.down = v]
  OBVIOUS
<1>8. v \in Seq(Pieces)
  <2>1. Piece(c.n, "body") \in Pieces
    BY <1>6, PieceFields
  <2>2. <<Piece(c.n, "body")>> \in Seq(Pieces) /\ <<>> \in Seq(Pieces)
    BY <2>1, SingletonSeq
  <2> QED
    BY <1>5, <2>2
<1>9. m \in Connections /\ m.up = l.up /\ m.down = v /\ m.later = l.later
  BY <1>7, <1>8 DEF Connections
<1>10. BodyDue(m, c.n)
  BY <1>5, <1>9 DEF BodyDue
<1>11. conns' = [conns EXCEPT ![k] = m]
  <2>1. SubSeq(l.down, i + 1, Len(l.down)) = v
    BY <1>4, <1>5
  <2> QED
    BY <1>2, <1>3, <1>7, <2>1
<1>12. conns' \in Seq(Connections) /\ DOMAIN conns' = DOMAIN conns /\ conns'[k] = m
  BY <1>2, <1>9, <1>11, OneConn, SameNumbers
<1>13. PICK a : a = [of |-> c.n, whole |-> TRUE, error |-> FALSE]
  OBVIOUS
<1>14. a \in Answers /\ a.of = c.n /\ <<a>> \in Seq(Answers) /\ <<a>> # <<>> /\ <<a>>[1] = a
  <2>1. a \in Answers /\ a.of = c.n
    BY <1>6, <1>13 DEF Answers
  <2> QED
    BY <2>1, OneLong, SingletonSeq
<1>15. result' = [result EXCEPT ![c.n] = <<a>>]
  <2>1. l.down[1].n = c.n
    BY <1>5, <1>6, PieceFields
  <2> QED
    BY <1>3, <1>13, <2>1
<1>16. /\ result' \in Seq(Seq(Answers)) /\ Len(result') = Len(result) /\ DOMAIN result' = DOMAIN result
       /\ \A n \in DOMAIN result : result'[n] = IF n = c.n THEN <<a>> ELSE result[n]
  BY <1>6, <1>14, <1>15, SameNumbers
<1>17. PICK d : d = [c EXCEPT !.pc = "body"]
  OBVIOUS
<1>18. /\ call' = <<d>> /\ call' # <<>> /\ call'[1] = d /\ d \in CallRecords /\ d.n = c.n /\ d.form = c.form /\ d.req = c.req
       /\ d.pc = "body" /\ d.fresh = c.fresh /\ d.retried = c.retried
  BY <1>3, <1>17, OneLong DEF CallRecords
<1>19. HcTypeOK'
  BY <1>2, <1>12, <1>16 DEF ClientInv, HcTypeOK
<1>20. CallInv'
  <2>1. IsCall(d)'
    BY <1>2, <1>6, <1>18 DEF IsCall
  <2> QED
    BY <1>2, <1>18, <2>1 DEF CallInv
<1>21. LineInv'
  <2>1. LineFor(m, d)
    BY <1>10, <1>18 DEF LineFor
  <2> QED
    BY <1>2, <1>12, <1>18, <2>1 DEF LineInv, LineOk
<1>22. AnswersInv'
  <2>1. \A n \in DOMAIN result : OwnAnswer(n)'
    BY <1>14, <1>16 DEF ClientInv, AnswersInv, OwnAnswer
  <2>2. result'[c.n] # <<>> /\ result'[c.n][1].of = c.n
    BY <1>6, <1>14, <1>16
  <2> QED
    BY <1>16, <1>18, <2>1, <2>2 DEF AnswersInv
<1>23. SentInv'
  <2>1. \A n \in DOMAIN sent : SentOk(n)'
    BY <1>2, <1>12 DEF ClientInv, SentInv, SentOk
  <2>2. SentFor(sent[c.n], d)'
    BY <1>2, <1>6, <1>18 DEF SentFor
  <2> QED
    BY <1>2, <1>18, <2>1, <2>2 DEF SentInv
<1> QED
  BY <1>19, <1>20, <1>21, <1>22, <1>23 DEF ClientInv

\* The answer a call has begun to read.
LEMMA AnswerBegun ==
    ASSUME ClientInv, call # <<>>, call[1].pc = "body"
    PROVE  result[call[1].n][1] \in Answers /\ result[call[1].n][1].of = call[1].n
<1>1. result[call[1].n] # <<>> /\ result[call[1].n][1].of = call[1].n
  BY DEF ClientInv, AnswersInv
<1>2. call[1].n \in DOMAIN result
  BY SameNumbers DEF ClientInv, CallInv, IsCall
<1>3. PICK s \in Seq(Answers) : s = result[call[1].n]
  BY <1>2, SameNumbers, SeqIsFunction
<1>4. s # <<>> => s[1] \in Answers
  OBVIOUS
<1> QED
  BY <1>1, <1>3, <1>4

LEMMA ReadBodyKeeps ==
    ASSUME ClientInv, ReadBody
    PROVE  ClientInv'
<1>1. PICK c \in CallRecords, k \in Nat, l \in Connections : Underway(c, k, l)
  BY CallUnderway DEF ReadBody
<1>2. /\ call # <<>> /\ call[1] = c /\ c.pc = "body" /\ socket[1] = k /\ k \in DOMAIN conns /\ l = conns[k]
      /\ BodyDue(l, c.n) /\ l.down # <<>> /\ UNCHANGED <<calls, sent>>
  BY <1>1 DEF ReadBody, C, Conn, Underway, LineFor
<1>3. PICK keep \in BOOLEAN : Finish(result[c.n][1], keep)
  BY <1>2 DEF ReadBody, C
<1>4. PICK res \in Answers : res = result[c.n][1] /\ res.of = call[1].n
  BY <1>2, AnswerBegun
<1>5. l.up = <<>> /\ l.later = <<>> /\ Tail(l.down) = <<>>
  BY <1>2, OneLong DEF BodyDue
<1>6. PICK v \in Seq(Pieces) : v = <<>>
  <2>1. <<>> \in Seq(Pieces)
    OBVIOUS
  <2> QED
    BY <2>1
<1>7. PICK m : m = [l EXCEPT !.down = v]
  OBVIOUS
<1>8. m \in Connections /\ m.up = l.up /\ m.down = v /\ m.later = l.later
  BY <1>7 DEF Connections
<1>9. conns' = [conns EXCEPT ![k] = m]
  BY <1>2, <1>5, <1>6, <1>7 DEF ReadBody
<1>10. conns' \in Seq(Connections) /\ DOMAIN conns' = DOMAIN conns /\ conns'[k] = m
  BY <1>2, <1>8, <1>9, OneConn, SameNumbers
<1>11. Quiet(m)
  BY <1>5, <1>6, <1>8 DEF Quiet
<1>12. \A x : (keep /\ x = conns'[socket[1]]) => Quiet(x)
  BY <1>2, <1>10, <1>11
<1> QED
  BY <1>2, <1>3, <1>4, <1>10, <1>12, FinishKeeps

\* A body that stops short of its length ends the connection, where no call streams or is answered in chunks.
LEMMA CutShortKeeps ==
    ASSUME Buffered, ClientInv, BodyCutShort
    PROVE  ClientInv'
<1>1. PICK c \in CallRecords, k \in Nat, l \in Connections : Underway(c, k, l)
  BY CallUnderway DEF BodyCutShort
<1>2. call # <<>> /\ call[1] = c /\ c.pc = "body" /\ UNCHANGED <<calls, sent, conns>>
  BY <1>1 DEF BodyCutShort, C, Underway
<1>3. PICK res \in Answers : res = result[c.n][1] /\ res.of = call[1].n
  BY <1>2, AnswerBegun
<1>4. PICK short : short = [res EXCEPT !.whole = FALSE]
  OBVIOUS
<1>5. short \in Answers /\ short.of = call[1].n
  BY <1>3, <1>4 DEF Answers
<1>6. ~KeepsShort(c.form)
  BY CallFields DEF Buffered
<1>7. Finish(short, KeepsShort(c.form))
  BY <1>2, <1>3, <1>4 DEF BodyCutShort, C
<1>8. Finish(short, FALSE)
  BY <1>6, <1>7 DEF Finish
<1> QED
  BY <1>2, <1>5, <1>8, FinishKeeps, SameNumbers

LEMMA StopKeeps ==
    ASSUME ClientInv, ClientStop
    PROVE  ClientInv'
<1>1. call = <<>> /\ socket' = <<>> /\ UNCHANGED <<conns, call, calls, result, sent>>
  BY DEF ClientStop
<1>2. HcTypeOK'
  BY <1>1 DEF ClientInv, HcTypeOK
<1>3. CallInv' /\ LineInv'
  BY <1>1 DEF CallInv, LineInv
<1>4. AnswersInv'
  BY <1>1 DEF ClientInv, AnswersInv, OwnAnswer
<1>5. SentInv'
  BY <1>1 DEF ClientInv, SentInv, SentOk
<1> QED
  BY <1>2, <1>3, <1>4, <1>5 DEF ClientInv

LEMMA ClientStarts == HcInit => ClientInv
<1> SUFFICES ASSUME HcInit PROVE ClientInv
  OBVIOUS
<1>1. /\ socket = <<>> /\ conns = <<>> /\ call = <<>> /\ calls = <<>> /\ result = <<>> /\ sent = <<>>
  BY DEF HcInit
<1>2. HcTypeOK
  BY <1>1 DEF HcTypeOK
<1>3. CallInv /\ LineInv
  BY <1>1 DEF CallInv, LineInv
<1>4. AnswersInv /\ SentInv
  BY <1>1 DEF AnswersInv, SentInv
<1> QED
  BY <1>2, <1>3, <1>4 DEF ClientInv

LEMMA ClientSteps ==
    ASSUME Buffered, ClientInv, [HcNext]_hcVars
    PROVE  ClientInv'
<1>1. CASE \E f \in Forms : execute_request(f)
  BY <1>1, ExecuteKeeps
<1>2. CASE SendAll
  BY <1>2, SendKeeps
<1>3. CASE ReadHead
  BY <1>3, ReadHeadKeeps
<1>4. CASE HandlerAborts
  BY <1>4, AbortKeeps
<1>5. CASE NoHead
  BY <1>5, NoHeadKeeps
<1>6. CASE ReadBody
  BY <1>6, ReadBodyKeeps
<1>7. CASE BodyCutShort
  BY <1>7, CutShortKeeps
<1>8. CASE ClientStop
  BY <1>8, StopKeeps
<1>9. CASE \E k \in DOMAIN conns : Serve(k) \/ Transmit(k) \/ ServerCloses(k)
  BY <1>9, ServerKeeps
<1>10. CASE UNCHANGED hcVars
  <2>1. UNCHANGED <<socket, conns, call, calls, result, sent>>
    BY <1>10 DEF hcVars
  <2>2. HcTypeOK' /\ CallInv' /\ LineInv'
    BY <2>1 DEF ClientInv, HcTypeOK, CallInv, IsCall, LineInv, LineOk
  <2>3. AnswersInv' /\ SentInv'
    BY <2>1 DEF ClientInv, AnswersInv, OwnAnswer, SentInv, SentOk, SentFor
  <2> QED
    BY <2>2, <2>3 DEF ClientInv
<1> QED
  BY <1>1, <1>2, <1>3, <1>4, <1>5, <1>6, <1>7, <1>8, <1>9, <1>10 DEF HcNext

\* The line of the kept connection carries the call in progress and nothing else, for a client of buffered calls:
\* execute_request, send_all, read_final_headers, read_body and stop against a server that may be slow or close.
THEOREM ClientInvariant ==
    ASSUME Buffered
    PROVE  HcSpec => []ClientInv
<1>1. ClientInv /\ [HcNext]_hcVars => ClientInv'
  BY ClientSteps
<1> QED
  BY <1>1, ClientStarts, PTL DEF HcSpec

\* What a request carries: the body the caller gave, for every overload that takes one.
LEMMA BodyAsGiven ==
    ASSUME NEW f \in Forms, f.verb # "send"
    PROVE  RequestOf(f).body = ("body" \in f.args)
<1>1. PICK given \in BOOLEAN, headers \in BOOLEAN, streamed \in BOOLEAN :
          given = ("body" \in f.args) /\ headers = ("headers" \in f.args) /\ streamed = ("receiver" \in f.args)
  <2>1. \A e : \E x \in BOOLEAN : x = (e \in f.args)
    <3> TAKE e
    <3>1. CASE e \in f.args
      <4>1. TRUE = (e \in f.args)
        BY <3>1
      <4> QED
        BY <4>1, Zenon
    <3>2. CASE e \notin f.args
      <4>1. FALSE = (e \in f.args)
        BY <3>2
      <4> QED
        BY <4>1, Zenon
    <3> QED
      BY <3>1, <3>2
  <2> QED
    BY <2>1, Zenon
<1>2. /\ f.verb \in {"Get", "Post", "Put", "Patch", "Delete", "Options"}
      /\ given => f.verb \notin {"Get", "Options"} /\ "provider" \notin f.args
  BY <1>1, FormsAssumption
<1>3. RequestOf(f).body = given
  <2>1. CASE f.verb = "Get"
    <3>1. RequestOf(f) = [method |-> "GET", headers |-> headers, body |-> FALSE, streams |-> streamed]
      BY <1>1, <1>2, <2>1 DEF RequestOf, Get, Request
    <3>2. given = FALSE
      BY <1>2, <2>1
    <3>3. RequestOf(f).body = FALSE
      BY <3>1
    <3> QED
      BY <3>2, <3>3, Zenon
  <2>2. CASE f.verb = "Options"
    <3>1. RequestOf(f) = [method |-> "OPTIONS", headers |-> headers, body |-> FALSE, streams |-> FALSE]
      BY <1>1, <1>2, <2>2 DEF RequestOf, Options, Request
    <3>2. given = FALSE
      BY <1>2, <2>2
    <3>3. RequestOf(f).body = FALSE
      BY <3>1
    <3> QED
      BY <3>2, <3>3, Zenon
  <2>3. CASE f.verb = "Delete"
    <3>1. RequestOf(f) = [method |-> "DELETE", headers |-> headers, body |-> given, streams |-> FALSE]
      BY <1>1, <2>3 DEF RequestOf, Delete, Request
    <3> QED
      BY <3>1
  <2>4. CASE f.verb \in {"Post", "Put", "Patch"} /\ "provider" \in f.args
    <3>1. PICK q : RequestOf(f) = [method |-> q, headers |-> FALSE, body |-> FALSE, streams |-> FALSE]
      BY <1>1, <1>2, <2>4 DEF RequestOf, Post, Put, Patch, Stub, Request
    <3>2. given = FALSE
      BY <1>2, <2>4
    <3>3. RequestOf(f).body = FALSE
      BY <3>1
    <3> QED
      BY <3>2, <3>3, Zenon
  <2>5. CASE f.verb \in {"Post", "Put", "Patch"} /\ "provider" \notin f.args
    <3>1. PICK q, h : RequestOf(f) = [method |-> q, headers |-> h, body |-> given, streams |-> FALSE]
      BY <1>1, <2>5 DEF RequestOf, Post, Put, Patch, Post_body, BodyMethod, Request
    <3> QED
      BY <3>1
  <2> QED
    BY <1>2, <2>1, <2>2, <2>3, <2>4, <2>5
<1> QED
  BY <1>1, <1>3

\* Every call returns its own answer or an error, and a request is written a second time only after a reused connection
\* failed, unchanged and to another connection.
THEOREM CallsStayApart ==
    ASSUME Buffered
    PROVE  HcSpec => []CallsApart
<1>1. ASSUME ClientInv PROVE CallsApart
  <2>1. AnswerIsOwn
    BY <1>1 DEF ClientInv, AnswersInv, OwnAnswer, AnswerIsOwn
  <2>2. ASSUME NEW n \in DOMAIN sent
        PROVE  /\ Len(sent[n]) <= 2
               /\ Len(sent[n]) = 2 => sent[n][1].reused /\ sent[n][1].conn # sent[n][2].conn /\ sent[n][1].req = sent[n][2].req
               /\ Len(sent[n]) > 0 => sent[n][1].req.body = ("body" \in calls[n].args)
    <3>1. PICK s \in Seq(Sendings), f \in Made : s = sent[n] /\ f = calls[n] /\ SentOk(n)
      BY <1>1, <2>2, SameNumbers, SeqIsFunction DEF ClientInv, SentInv
    <3>2. Len(s) <= 2 /\ (Len(s) = 2 => s[1].reused /\ s[1].conn # s[2].conn)
      BY <3>1 DEF SentOk
    <3>3. ASSUME Len(s) > 0 PROVE s[1].req = RequestOf(f)
      BY <3>1, <3>3 DEF SentOk
    <3>4. ASSUME Len(s) = 2 PROVE s[1].req = s[2].req
      BY <3>1, <3>4 DEF SentOk
    <3>5. RequestOf(f).body = ("body" \in f.args)
      BY <3>1, BodyAsGiven DEF Made, Implemented
    <3>6. Len(s) > 0 => s[1].req.body = ("body" \in f.args)
      BY <3>3, <3>5, Zenon
    <3> QED
      BY <3>1, <3>2, <3>4, <3>6, Zenon
  <2> QED
    BY <2>1, <2>2, Zenon DEF CallsApart, RetriedOnlyWhenReused
<1> QED
  BY <1>1, ClientInvariant, PTL

-----------------------------------------------------------------------------
(* The ring of a stream.                                                    *)

AsTypeOK ==
    /\ file \in MusicFiles
    /\ raw \in 0..Blocks /\ raw_complete \in BOOLEAN /\ stop_requested \in BOOLEAN
    /\ raw_read_pos \in Nat /\ block \in Nat
    /\ decoder \in {"none", "open", "read", "write", "publish", "done"}
    /\ ring \in [0..RingSize-1 -> Nat]
    /\ write_head \in Nat /\ read_head \in Nat
    /\ channel_active \in BOOLEAN /\ finished \in BOOLEAN
    /\ mixer \in {"idle", "advance", "check"}
    /\ heard \in Seq(Nat)

\* The samples in the ring, the one written and not yet published included.
Produced == IF decoder = "publish" THEN write_head + 1 ELSE write_head

\* The producer is ahead of the consumer, by a turn of the ring at most.
HeadsInv ==
    /\ read_head <= write_head /\ Produced - read_head <= RingSize
    /\ mixer = "advance" => read_head < write_head
    /\ Len(heard) = IF mixer = "advance" THEN read_head + 1 ELSE read_head

\* The p-th sample of the stream: heard, or still in its slot; 0 stands before the first.
Sample(p) == IF p = 0 THEN 0 ELSE IF p <= Len(heard) THEN heard[p] ELSE ring[(p - 1) % RingSize]

\* May x be followed by y?
Continues(x, y) == y = x + 1 \/ (file.looping /\ x = FileEnd /\ y \in {file.loop_start + 1, 1})

\* The last sample written.
Newest == Sample(Produced)

\* What was heard and what waits in the ring is the file, in order.
SamplesInv == \A p \in 1..Produced : Continues(Sample(p - 1), Sample(p))

\* Where the decoder reads next fits the last sample written.
Resumes == raw_read_pos = Newest \/ (file.looping /\ Newest = FileEnd /\ raw_read_pos \in {file.loop_start, 0})

DecoderInv ==
    /\ decoder \in {"none", "open", "read"} => Resumes
    /\ decoder \in {"none", "open", "read"} /\ raw_read_pos > FileEnd => Newest = FileEnd
    /\ decoder \in {"write", "publish"} => block = raw_read_pos /\ raw_read_pos <= FileEnd
    /\ decoder = "write" => Continues(Newest, block)
    /\ decoder = "publish" => Newest = block
    /\ raw_complete => raw = Blocks \/ stop_requested

\* opusfile can open every file.
AllOpus == \A f \in MusicFiles : f.opus

HearInv == AsTypeOK /\ HeadsInv /\ SamplesInv /\ DecoderInv

\* What % returns, and that it tells apart numbers less than one turn from each other: a ring's slots.
LEMMA ModRange ==
    ASSUME NEW R \in Nat \ {0}, NEW p \in Nat
    PROVE  p % R \in 0..R-1 /\ \E e \in Int : p = R * e + (p % R)
<1>1. p % R \in 0..R-1
  OBVIOUS
<1>2. p = R * (p \div R) + (p % R) /\ p \div R \in Int
  OBVIOUS
<1> QED BY <1>1, <1>2, Zenon

LEMMA ModApart ==
    ASSUME NEW R \in Nat \ {0}, NEW p \in Nat, NEW q \in Nat, p < q, q - p < R
    PROVE  p % R # q % R
<1> SUFFICES ASSUME p % R = q % R PROVE FALSE
  OBVIOUS
<1>1. PICK e \in Int : p = R * e + (p % R)
  BY ModRange
<1>2. PICK d \in Int : q = R * d + (q % R)
  BY ModRange
<1>3. PICK r \in Int : p = R * e + r /\ q = R * d + r
  <2>1. p % R \in Int
    BY ModRange
  <2> QED BY <1>1, <1>2, <2>1, Zenon
<1>4. PICK i \in Int : i = d - e
  OBVIOUS
<1>5. R * i = q - p
  BY <1>3, <1>4
<1>6. CASE i <= 0
  <2>1. R * i <= 0
    BY <1>6
  <2> QED BY <2>1, <1>5
<1>7. CASE i >= 1
  <2>1. R * i >= R
    BY <1>7
  <2> QED BY <2>1, <1>5
<1> QED BY <1>6, <1>7

LEMMA HearInit == AsInit => HearInv
<1> SUFFICES ASSUME AsInit PROVE HearInv
  OBVIOUS
<1> USE StreamAssumption
<1>1. ring \in [0..RingSize-1 -> Nat]
  BY DEF AsInit
<1>2. AsTypeOK
  <2>1. raw_complete \in BOOLEAN /\ stop_requested \in BOOLEAN /\ channel_active \in BOOLEAN /\ finished \in BOOLEAN
    BY Zenon DEF AsInit
  <2>2. raw \in 0..Blocks /\ heard \in Seq(Nat)
    BY DEF AsInit
  <2> QED BY <1>1, <2>1, <2>2 DEF AsInit, AsTypeOK
<1>3. Produced = 0 /\ Sample(0) = 0 /\ FileEnd \in Nat
  BY DEF AsInit, Produced, Sample, FileEnd
<1>4. HeadsInv
  BY <1>3 DEF AsInit, HeadsInv
<1>5. SamplesInv
  BY <1>3 DEF SamplesInv
<1>6. DecoderInv
  BY <1>3 DEF AsInit, DecoderInv, Resumes, Newest
<1> QED BY <1>2, <1>4, <1>5, <1>6 DEF HearInv

LEMMA HearTypes == AsTypeOK /\ HeadsInv /\ [AsNext]_asVars => AsTypeOK'
<1> SUFFICES ASSUME AsTypeOK, HeadsInv, [AsNext]_asVars PROVE AsTypeOK'
  OBVIOUS
<1> USE StreamAssumption DEF AsTypeOK
<1>1. CASE feed
  BY <1>1 DEF feed, mixing
<1>2. CASE mark_complete
  BY <1>2 DEF mark_complete, mixing
<1>3. CASE cancel
  BY <1>3 DEF cancel, download, decoding
<1>4. CASE OpenDecoder
  BY <1>4 DEF OpenDecoder, download, mixing
<1>5. CASE stream_read
  BY <1>5 DEF stream_read, download, mixing
<1>6. CASE EndPass
  BY <1>6 DEF EndPass, download, mixing
<1>7. CASE StopDecoding
  BY <1>7 DEF StopDecoding, download, mixing
<1>8. CASE ring_write
  BY <1>8 DEF ring_write, download, mixing
<1>9. CASE ring_publish
  BY <1>9 DEF ring_publish, download, mixing
<1>10. CASE ring_read
  <2>1. read_head % RingSize \in 0..RingSize-1
    BY ModRange
  <2>2. heard' \in Seq(Nat)
    BY <1>10, <2>1 DEF ring_read
  <2> QED BY <1>10, <2>2 DEF ring_read, download, decoding
<1>11. CASE ring_advance
  BY <1>11 DEF ring_advance, download, decoding
<1>12. CASE Underrun
  BY <1>12 DEF Underrun, download, decoding
<1>13. CASE CheckFinished
  BY <1>13 DEF CheckFinished, download, decoding
<1>14. CASE UNCHANGED asVars
  BY <1>14 DEF asVars
<1> QED BY <1>1, <1>2, <1>3, <1>4, <1>5, <1>6, <1>7, <1>8, <1>9, <1>10, <1>11, <1>12, <1>13, <1>14 DEF AsNext

LEMMA HearHeads == AsTypeOK /\ HeadsInv /\ [AsNext]_asVars => HeadsInv'
<1> SUFFICES ASSUME AsTypeOK, HeadsInv, [AsNext]_asVars PROVE HeadsInv'
  OBVIOUS
<1> USE StreamAssumption DEF AsTypeOK, HeadsInv, Produced
<1>1. CASE feed
  BY <1>1 DEF feed, mixing
<1>2. CASE mark_complete
  BY <1>2 DEF mark_complete, mixing
<1>3. CASE cancel
  BY <1>3 DEF cancel, download, decoding
<1>4. CASE OpenDecoder
  BY <1>4 DEF OpenDecoder, download, mixing
<1>5. CASE stream_read
  BY <1>5 DEF stream_read, download, mixing
<1>6. CASE EndPass
  BY <1>6 DEF EndPass, download, mixing
<1>7. CASE StopDecoding
  BY <1>7 DEF StopDecoding, download, mixing
<1>8. CASE ring_write
  BY <1>8 DEF ring_write, download, mixing
<1>9. CASE ring_publish
  BY <1>9 DEF ring_publish, download, mixing
<1>10. CASE ring_read
  <2>1. read_head % RingSize \in 0..RingSize-1
    BY ModRange
  <2>2. Len(heard') = Len(heard) + 1
    BY <1>10, <2>1 DEF ring_read
  <2> QED BY <1>10, <2>2 DEF ring_read, download, decoding
<1>11. CASE ring_advance
  BY <1>11 DEF ring_advance, download, decoding
<1>12. CASE Underrun
  BY <1>12 DEF Underrun, download, decoding
<1>13. CASE CheckFinished
  BY <1>13 DEF CheckFinished, download, decoding
<1>14. CASE UNCHANGED asVars
  BY <1>14 DEF asVars
<1> QED BY <1>1, <1>2, <1>3, <1>4, <1>5, <1>6, <1>7, <1>8, <1>9, <1>10, <1>11, <1>12, <1>13, <1>14 DEF AsNext

\* No step changes a sample that was written: a slot is written again only after it was heard.
LEMMA SamplesKept ==
    ASSUME AsTypeOK, HeadsInv, [AsNext]_asVars
    PROVE  \A p \in 0..Produced : Sample(p)' = Sample(p)
<1> USE StreamAssumption
<1>1. CASE ring_write
  <2> SUFFICES ASSUME NEW p \in 0..Produced PROVE Sample(p)' = Sample(p)
    OBVIOUS
  <2>1. heard' = heard /\ Produced = write_head /\ write_head \in Nat /\ read_head \in Nat /\ Len(heard) \in Nat
    BY <1>1 DEF ring_write, mixing, Produced, AsTypeOK
  <2>2. CASE p <= Len(heard)
    BY <2>1, <2>2 DEF Sample
  <2>3. CASE ~(p <= Len(heard))
    <3>1. p - 1 \in Nat /\ p - 1 < write_head /\ write_head - (p - 1) < RingSize
      BY <1>1, <2>1, <2>3 DEF ring_write, HeadsInv
    <3>2. (p - 1) % RingSize # write_head % RingSize
      BY <3>1, <2>1, ModApart
    <3>3. (p - 1) % RingSize \in 0..RingSize-1
      BY <3>1, ModRange
    <3>4. ring' = [ring EXCEPT ![write_head % RingSize] = block] /\ ring \in [0..RingSize-1 -> Nat]
      BY <1>1 DEF ring_write, AsTypeOK
    <3>5. ring'[(p - 1) % RingSize] = ring[(p - 1) % RingSize]
      BY <3>2, <3>3, <3>4
    <3> QED BY <2>1, <2>3, <3>5 DEF Sample
  <2> QED BY <2>2, <2>3
<1>2. CASE ring_read
  <2> SUFFICES ASSUME NEW p \in 0..Produced PROVE Sample(p)' = Sample(p)
    OBVIOUS
  <2>1. /\ ring' = ring /\ Len(heard) = read_head /\ read_head \in Nat /\ p \in Nat
        /\ ring[read_head % RingSize] \in Nat /\ heard' = Append(heard, ring[read_head % RingSize]) /\ heard \in Seq(Nat)
    <3>1. read_head % RingSize \in 0..RingSize-1
      BY ModRange DEF AsTypeOK
    <3>2. ring[read_head % RingSize] \in Nat
      BY <3>1 DEF AsTypeOK
    <3> QED BY <1>2, <3>2 DEF ring_read, decoding, AsTypeOK, HeadsInv, Produced
  <2>2. Len(heard') = read_head + 1 /\ heard'[read_head + 1] = ring[read_head % RingSize]
    BY <2>1
  <2>3. \A i \in 1..read_head : heard'[i] = heard[i]
    BY <2>1
  <2>4. CASE p <= read_head
    BY <2>1, <2>2, <2>3, <2>4 DEF Sample
  <2>5. CASE p = read_head + 1
    <3>1. p - 1 = read_head
      BY <2>1, <2>5
    <3> QED BY <2>1, <2>2, <2>5, <3>1 DEF Sample
  <2>6. CASE p > read_head + 1
    BY <2>1, <2>2, <2>6 DEF Sample
  <2> QED BY <2>1, <2>4, <2>5, <2>6
<1>3. CASE ~ring_write /\ ~ring_read
  <2>1. ring' = ring /\ heard' = heard
    BY <1>3 DEF AsNext, asVars, feed, mark_complete, cancel, OpenDecoder, stream_read, EndPass, StopDecoding, ring_publish,
                ring_advance, Underrun, CheckFinished, download, decoding, mixing
  <2> QED BY <2>1 DEF Sample
<1> QED BY <1>1, <1>2, <1>3

\* Only ring_write adds a sample, the block it writes; whatever else happens, the last one stays the last.
LEMMA LatestStep ==
    ASSUME AsTypeOK, HeadsInv, [AsNext]_asVars
    PROVE  /\ file' = file
           /\ ring_write => Produced = write_head /\ Produced' = Produced + 1 /\ Newest' = block
           /\ ~ring_write => Produced' = Produced /\ Newest' = Newest
<1> USE StreamAssumption
<1>1. file' = file
  BY DEF AsNext, asVars, feed, mark_complete, cancel, OpenDecoder, stream_read, EndPass, StopDecoding, ring_write,
         ring_publish, ring_read, ring_advance, Underrun, CheckFinished, download, decoding, mixing
<1>2. ASSUME ring_write PROVE Produced = write_head /\ Produced' = Produced + 1 /\ Newest' = block
  <2>1. /\ Produced' = write_head + 1 /\ Produced = write_head /\ heard' = heard /\ write_head' = write_head
        /\ Len(heard) <= write_head /\ write_head \in Nat /\ Len(heard) \in Nat
    BY <1>2 DEF ring_write, mixing, Produced, HeadsInv, AsTypeOK
  <2>2. write_head % RingSize \in 0..RingSize-1
    BY <2>1, ModRange
  <2>3. ring'[write_head % RingSize] = block
    BY <1>2, <2>2 DEF ring_write, AsTypeOK
  <2>4. (write_head + 1) - 1 = write_head /\ write_head + 1 # 0 /\ ~(write_head + 1 <= Len(heard))
    BY <2>1
  <2>5. Newest' = block
    BY <2>1, <2>3, <2>4 DEF Newest, Sample
  <2> QED BY <2>1, <2>5
<1>3. ASSUME ~ring_write PROVE Produced' = Produced /\ Newest' = Newest
  <2>1. Produced' = Produced /\ Produced \in Nat
    BY <1>3 DEF AsNext, asVars, feed, mark_complete, cancel, OpenDecoder, stream_read, EndPass, StopDecoding, ring_publish,
                ring_read, ring_advance, Underrun, CheckFinished, download, decoding, mixing, Produced, AsTypeOK
  <2>2. PICK w \in 0..Produced : w = Produced
    BY <2>1
  <2>3. Sample(w)' = Sample(w)
    BY SamplesKept
  <2> QED BY <2>1, <2>2, <2>3 DEF Newest, Sample
<1> QED BY <1>1, <1>2, <1>3

LEMMA HearSamples == HearInv /\ [AsNext]_asVars => SamplesInv'
<1> SUFFICES ASSUME HearInv, [AsNext]_asVars PROVE SamplesInv'
  OBVIOUS
<1>1. /\ SamplesInv /\ DecoderInv /\ file' = file
      /\ \A p \in 0..Produced : Sample(p)' = Sample(p)
  BY SamplesKept, LatestStep DEF HearInv
<1>2. Produced \in Nat
  BY DEF HearInv, AsTypeOK, Produced
<1>3. \A p \in 1..Produced : Continues(Sample(p - 1), Sample(p))'
  <2> TAKE p \in 1..Produced
  <2>1. p - 1 \in 0..Produced /\ p \in 0..Produced
    BY <1>2
  <2>2. Continues(Sample(p - 1), Sample(p))
    BY <1>1 DEF SamplesInv
  <2>3. Sample(p - 1)' = Sample(p - 1) /\ Sample(p)' = Sample(p)
    BY <1>1, <2>1
  <2> QED BY <1>1, <2>2, <2>3 DEF Continues, FileEnd
<1>4. CASE ring_write
  <2>1. PICK w \in Nat : w = Produced
    BY <1>2
  <2>2. Produced' = w + 1 /\ Sample(w + 1)' = block
    BY <1>4, <2>1, LatestStep DEF HearInv, Newest, Sample
  <2>3. Continues(Sample(w), block)
    BY <1>1, <1>4, <2>1 DEF DecoderInv, ring_write, Newest
  <2>4. Sample(w)' = Sample(w) /\ (w + 1) - 1 = w
    BY <1>1, <2>1
  <2>5. Continues(Sample((w + 1) - 1), Sample(w + 1))'
    BY <1>1, <2>2, <2>3, <2>4 DEF Continues, FileEnd
  <2>6. \A p \in 1..w + 1 : p \in 1..Produced \/ p = w + 1
    BY <2>1
  <2> QED BY <1>3, <2>2, <2>5, <2>6 DEF SamplesInv
<1>5. CASE ~ring_write
  BY <1>3, <1>5, LatestStep DEF HearInv, SamplesInv
<1> QED BY <1>4, <1>5

LEMMA HearDecoder == AllOpus /\ HearInv /\ [AsNext]_asVars => DecoderInv'
<1> SUFFICES ASSUME AllOpus, HearInv, [AsNext]_asVars PROVE DecoderInv'
  OBVIOUS
<1> USE StreamAssumption
<1>1. /\ DecoderInv /\ file' = file
      /\ ring_write => Newest' = block
      /\ ~ring_write => Newest' = Newest
  BY LatestStep DEF HearInv
<1>2. /\ file.opus /\ file.looping \in BOOLEAN /\ file.loop_start \in 0..Blocks /\ file.loop_end \in 0..Blocks
      /\ raw \in 0..Blocks /\ raw_read_pos \in Nat
      /\ FileEnd = IF file.loop_end > 0 THEN file.loop_end ELSE Blocks
  BY DEF AllOpus, HearInv, AsTypeOK, FileEnd
<1>3. FileEnd \in Nat /\ FileEnd' = FileEnd
  BY <1>1, <1>2 DEF FileEnd
<1>4. decoder \in {"none", "open", "read", "write", "publish", "done"}
  BY DEF HearInv, AsTypeOK
<1> USE <1>1, <1>3, <1>4 DEF DecoderInv, Continues, Resumes
<1>5. CASE feed
  BY <1>5, <1>2 DEF feed, ring_write
<1>6. CASE mark_complete
  BY <1>6, <1>2 DEF mark_complete, DownloadEnded, mixing, ring_write
<1>7. CASE cancel
  BY <1>7 DEF cancel, download, decoding, ring_write
<1>8. CASE OpenDecoder
  BY <1>8 DEF OpenDecoder, download, ring_write
<1>9. CASE stream_read
  BY <1>9, <1>2 DEF stream_read, AtEnd, Available, download, ring_write
<1>10. CASE EndPass
  <2>1. Newest' = Newest /\ Resumes
    BY <1>10 DEF EndPass, ring_write
  <2>2. Newest = FileEnd \/ ~file.looping
    BY <1>10, <1>2, <2>1 DEF EndPass, AtEnd, Available
  <2> QED BY <1>10, <1>2, <2>1, <2>2 DEF EndPass, download
<1>11. CASE StopDecoding
  BY <1>11 DEF StopDecoding, download, ring_write
<1>12. CASE ring_write
  BY <1>12 DEF ring_write, download
<1>13. CASE ring_publish
  BY <1>13, <1>2 DEF ring_publish, download, ring_write
<1>14. CASE ring_read
  BY <1>14 DEF ring_read, download, decoding, ring_write
<1>15. CASE ring_advance
  BY <1>15 DEF ring_advance, download, decoding, ring_write
<1>16. CASE Underrun
  BY <1>16 DEF Underrun, download, decoding, ring_write
<1>17. CASE CheckFinished
  BY <1>17 DEF CheckFinished, download, decoding, ring_write
<1>18. CASE UNCHANGED asVars
  BY <1>18 DEF asVars, ring_write
<1> QED BY <1>5, <1>6, <1>7, <1>8, <1>9, <1>10, <1>11, <1>12, <1>13, <1>14, <1>15, <1>16, <1>17, <1>18 DEF AsNext

\* The inductive invariant of the stream, for any file opusfile can open, any ring and any schedule of the
\* download, the decode thread and the device callback.
THEOREM StreamedInOrder == AllOpus => (AsSpec => []HearInv)
<1> SUFFICES ASSUME AllOpus PROVE AsSpec => []HearInv
  OBVIOUS
<1>1. HearInv /\ [AsNext]_asVars => HearInv'
  BY HearTypes, HearHeads, HearSamples, HearDecoder DEF HearInv
<1> QED BY HearInit, <1>1, PTL DEF AsSpec

\* What the device plays is the file from its first block on, without a gap, a repeat or an overwritten
\* sample, and it starts over only at the end of the file or at its loop end (AudioStream::decode_thread_func,
\* PcmRingBuffer, SDLAudioDevice::mix).
THEOREM AlwaysHeardInOrder == AllOpus => (AsSpec => []HeardInOrder)
<1>1. HearInv => HeardInOrder
  <2> SUFFICES ASSUME HearInv, NEW i \in DOMAIN heard
               PROVE  LET prev == IF i = 1 THEN 0 ELSE heard[i - 1]
                      IN  \/ heard[i] = prev + 1
                          \/ file.looping /\ prev = FileEnd /\ heard[i] \in {file.loop_start + 1, 1}
    BY DEF HeardInOrder
  <2>1. DOMAIN heard = 1..Len(heard) /\ Len(heard) \in Nat /\ Len(heard) <= Produced /\ Produced \in Nat
    BY StreamAssumption DEF HearInv, AsTypeOK, HeadsInv, Produced
  <2>2. i \in 1..Produced /\ i <= Len(heard) /\ i # 0 /\ i \in Nat /\ (i - 1 = 0 <=> i = 1) /\ i - 1 <= Len(heard)
    BY <2>1
  <2>3. Continues(Sample(i - 1), Sample(i))
    BY <2>2 DEF HearInv, SamplesInv
  <2> QED BY <2>2, <2>3 DEF Continues, Sample
<1> QED BY <1>1, StreamedInOrder, PTL

-----------------------------------------------------------------------------
(* The downloads of the HTTP mounts.                                        *)

MtTypeOK ==
    /\ made \in 0..MaxMounts /\ mounted \in Seq(1..made) /\ job_count \in Nat
    /\ hcache \in [HttpMounts -> SUBSET Files] /\ hpending \in [HttpMounts -> SUBSET Files]
    /\ hfailed \in [HttpMounts -> SUBSET Files]
    /\ transient_failures \in [HttpMounts -> [Files -> Nat]] /\ misses \in [HttpMounts -> [Files -> Nat]]
    /\ jobs \subseteq [id : Nat, m : 1..made, f : Files, prio : {0, 1, 2}, stream : BOOLEAN]

\* The one request of the audio thread in the pool is the one it waits for.
StreamingInv ==
    /\ streaming # <<>> => /\ streaming = <<Current>> /\ Current.f \in Files
                           /\ Current = [f |-> Current.f, left |-> Current.left, on |-> Current.on]
    /\ \A j \in jobs : j.stream => streaming # <<>> /\ Current.on
    /\ \A j, k \in jobs : j.stream /\ k.stream => j = k

FreshInv == \A m \in HttpMounts : m > made => hpending[m] = {}

\* A prefetch of f from m in the pool.
Prefetches(j, m, f) == j.m = m /\ j.f = f /\ ~j.stream

\* PendingIsInPool, as relations between files and jobs.
PoolInv ==
    \A m \in Range(mounted), f \in Files :
        /\ f \in hpending[m] <=> \E j \in jobs : Prefetches(j, m, f)
        /\ \A j, k \in jobs : Prefetches(j, m, f) /\ Prefetches(k, m, f) => j = k

\* A mount counts every failure it will remember, and asks again only below the limit.
RetryInv ==
    \A m \in HttpMounts, f \in Files :
        /\ misses[m][f] <= max_retries
        /\ f \in hpending[m] => misses[m][f] < max_retries
        /\ f \notin hfailed[m] => misses[m][f] <= transient_failures[m][f]

MountInv == MtTypeOK /\ StreamingInv /\ FreshInv /\ PoolInv /\ RetryInv /\ NoDeadMount

LEMMA MountInitially == HmInit => MountInv
BY MountAssumption DEF HmInit, MountInv, MtTypeOK, StreamingInv, FreshInv, PoolInv, RetryInv, NoDeadMount, Range, HttpMounts

\* The mounted mounts are some of those made, finitely many.
LEMMA MountedAreMade ==
    ASSUME MtTypeOK
    PROVE  /\ Range(mounted) \subseteq 1..made /\ 1..made \subseteq HttpMounts /\ IsFiniteSet(Range(mounted))
           /\ mounted # <<>> => Head(mounted) \in Range(mounted)
<1>1. Range(mounted) \subseteq 1..made /\ 1..made \subseteq HttpMounts
  BY MountAssumption DEF MtTypeOK, Range, HttpMounts
<1>2. IsFiniteSet(1..made)
  BY FS_Interval, MountAssumption DEF MtTypeOK
<1>3. mounted # <<>> => Head(mounted) \in Range(mounted)
  BY DEF MtTypeOK, Range
<1> QED BY <1>1, <1>2, <1>3, FS_Subset

Reset(fn, m, f) == [fn EXCEPT ![m][f] = 0]

\* gn is fn, one more, or none, at m and f.
OneMore(M, F, fn, gn, m, f) == \A n \in M, g \in F : gn[n][g] = IF n = m /\ g = f THEN fn[n][g] + 1 ELSE fn[n][g]
NoneLeft(M, F, fn, gn, m, f) == \A n \in M, g \in F : gn[n][g] = IF n = m /\ g = f THEN 0 ELSE fn[n][g]

\* A counter of a mount and a file, counted up or reset.
LEMMA CountIs ==
    ASSUME NEW M, NEW F, NEW fn \in [M -> [F -> Nat]], NEW m \in M, NEW f \in F
    PROVE  /\ Count(fn, m, f) \in [M -> [F -> Nat]] /\ Reset(fn, m, f) \in [M -> [F -> Nat]]
           /\ OneMore(M, F, fn, Count(fn, m, f), m, f) /\ NoneLeft(M, F, fn, Reset(fn, m, f), m, f)
<1>1. fn[m] \in [F -> Nat] /\ fn[m][f] + 1 \in Nat
  OBVIOUS
<1>2. Count(fn, m, f) = [fn EXCEPT ![m] = [fn[m] EXCEPT ![f] = fn[m][f] + 1]]
  BY DEF Count
<1>3. Reset(fn, m, f) = [fn EXCEPT ![m] = [fn[m] EXCEPT ![f] = 0]]
  BY DEF Reset
<1>4. [fn[m] EXCEPT ![f] = fn[m][f] + 1] \in [F -> Nat] /\ [fn[m] EXCEPT ![f] = 0] \in [F -> Nat]
  BY <1>1
<1> QED BY <1>1, <1>2, <1>3, <1>4 DEF OneMore, NoneLeft

\* A sequence without one of its entries.
LEMMA RemoveAtRange ==
    ASSUME NEW T, NEW s \in Seq(T), NEW i \in DOMAIN s
    PROVE  RemoveAt(s, i) \in Seq(T) /\ Range(RemoveAt(s, i)) \subseteq Range(s)
<1>1. PICK a : a = SubSeq(s, 1, i - 1)
  OBVIOUS
<1>2. PICK b : b = SubSeq(s, i + 1, Len(s))
  OBVIOUS
<1>3. i \in 1..Len(s) /\ Len(s) \in Nat
  OBVIOUS
<1>4. a \in Seq(T) /\ DOMAIN a = 1..(i - 1) /\ \A k \in 1..(i - 1) : a[k] = s[k]
  BY <1>1, <1>3
<1>5. b \in Seq(T) /\ DOMAIN b = 1..(Len(s) - i) /\ \A k \in 1..(Len(s) - i) : b[k] = s[k + i]
  BY <1>2, <1>3
<1>6. ToSet(a) \subseteq Range(s)
  BY <1>3, <1>4 DEF ToSet, Range
<1>7. ToSet(b) \subseteq Range(s)
  <2>1. \A k \in 1..(Len(s) - i) : k + i \in DOMAIN s
    BY <1>3
  <2> QED BY <1>5, <2>1 DEF ToSet, Range
<1>8. RemoveAt(s, i) = a \o b
  BY <1>1, <1>2 DEF RemoveAt
<1>9. a \o b \in Seq(T) /\ ToSet(a \o b) = ToSet(a) \cup ToSet(b)
  BY <1>4, <1>5, ToSetConcat
<1> QED BY <1>6, <1>7, <1>8, <1>9 DEF ToSet, Range

LEMMA MountAdded == MountInv /\ add_mount => MountInv'
<1> SUFFICES ASSUME MountInv, add_mount PROVE MountInv'
  OBVIOUS
<1> USE DEF MountInv, add_mount
<1>0. Range(mounted) \subseteq 1..made /\ 1..made \subseteq HttpMounts
  BY MountedAreMade
<1>a. made \in Nat /\ made + 1 <= MaxMounts /\ MaxMounts \in Nat
  BY MountAssumption DEF MtTypeOK
<1>b. 1..made \subseteq 1..(made + 1) /\ made + 1 \in 1..(made + 1) /\ made + 1 \in 0..MaxMounts
  BY <1>a
<1>c. mounted \in Seq(1..(made + 1))
  BY <1>b DEF MtTypeOK
<1>d. /\ Append(mounted, made + 1) \in Seq(1..(made + 1))
      /\ ToSet(Append(mounted, made + 1)) = ToSet(mounted) \cup {made + 1}
  BY <1>b, <1>c, ToSetAppend
<1>e. jobs' \subseteq [id : Nat, m : 1..(made + 1), f : Files, prio : {0, 1, 2}, stream : BOOLEAN]
  BY <1>b DEF MtTypeOK
<1>1. MtTypeOK'
  BY <1>b, <1>d, <1>e DEF MtTypeOK
<1>2. Range(mounted') = Range(mounted) \cup {made + 1}
  BY <1>d DEF ToSet, Range
<1>3. StreamingInv'
  BY DEF StreamingInv, Current
<1>4. FreshInv'
  BY <1>a DEF FreshInv, HttpMounts
<1>5. made + 1 \in HttpMounts /\ hpending[made + 1] = {}
  BY MountAssumption DEF FreshInv, MtTypeOK, HttpMounts
<1>6. \A j \in jobs : j.m # made + 1
  BY DEF MtTypeOK
<1>7. PoolInv'
  BY <1>2, <1>5, <1>6 DEF PoolInv, Prefetches
<1> QED BY <1>1, <1>3, <1>4, <1>7 DEF RetryInv, NoDeadMount

LEMMA MountRemoved == ASSUME NEW m \in HttpMounts PROVE MountInv /\ remove_mount(m) => MountInv'
<1> SUFFICES ASSUME MountInv, remove_mount(m) PROVE MountInv'
  OBVIOUS
<1> USE DEF MountInv
<1>1. PICK i \in DOMAIN mounted : mounted' = RemoveAt(mounted, i)
  BY DEF remove_mount
<1>2. mounted' \in Seq(1..made)
  BY <1>1, RemoveAtRange DEF MtTypeOK
<1>3. Range(mounted') \subseteq Range(mounted)
  BY <1>1, RemoveAtRange DEF MtTypeOK
<1>4. MtTypeOK' /\ StreamingInv' /\ FreshInv'
  BY <1>2 DEF remove_mount, MtTypeOK, StreamingInv, Current, FreshInv
<1>5. PoolInv'
  BY <1>3 DEF PoolInv, remove_mount
<1> QED BY <1>4, <1>5 DEF RetryInv, NoDeadMount, remove_mount

\* A request to some of the mounted mounts: what is asked for was neither pending nor given up.
LEMMA MountRequest ==
    ASSUME NEW ms \in SUBSET Range(mounted), NEW f \in Files, NEW prio \in {0, 1, 2}
    PROVE  MountInv /\ request(ms, f, prio) => MountInv'
<1> SUFFICES ASSUME MountInv, request(ms, f, prio) PROVE MountInv'
  OBVIOUS
<1> USE DEF MountInv
<1> DEFINE due == {m \in ms : Wanted(m, f)}
           quit == {m \in due : TooOften(m, f)}
           go == due \ quit
           q == SetToSeq(go)
           new == {[id |-> job_count + i, m |-> q[i], f |-> f, prio |-> prio, stream |-> FALSE] : i \in DOMAIN q}
<1>1. /\ Range(mounted) \subseteq 1..made /\ 1..made \subseteq HttpMounts /\ IsFiniteSet(Range(mounted))
  BY MountedAreMade
<1>2. IsFiniteSet(go) /\ go \subseteq Range(mounted) /\ quit \subseteq Range(mounted)
  BY <1>1, FS_Subset
<1>3. /\ q \in Seq(go) /\ ToSet(q) = go /\ \A i, j \in DOMAIN q : q[i] = q[j] => i = j
      /\ Range(q) = ToSet(q) /\ Len(q) \in Nat
  <2>1. \A G : IsFiniteSet(G) => /\ SetToSeq(G) \in Seq(G) /\ ToSet(SetToSeq(G)) = G
                                 /\ \A i, j \in DOMAIN SetToSeq(G) : SetToSeq(G)[i] = SetToSeq(G)[j] => i = j
    BY SetToSeqLists
  <2>2. /\ q \in Seq(go) /\ ToSet(q) = go /\ \A i, j \in DOMAIN q : q[i] = q[j] => i = j
    BY <1>2, <2>1
  <2>3. Range(q) = ToSet(q)
    BY DEF ToSet, Range
  <2> HIDE DEF q, go
  <2> QED BY <2>2, <2>3
<1>4. /\ job_count' = job_count + Len(q) /\ jobs' = jobs \cup new
      /\ hfailed' = [m \in HttpMounts |-> IF m \in quit THEN hfailed[m] \cup {f} ELSE hfailed[m]]
      /\ hpending' = [m \in HttpMounts |-> IF m \in go THEN hpending[m] \cup {f} ELSE hpending[m]]
      /\ transient_failures' = [m \in HttpMounts |-> IF m \in quit THEN [transient_failures[m] EXCEPT ![f] = 0] ELSE transient_failures[m]]
      /\ UNCHANGED <<mounted, made, hcache, streaming, misses, touched_dead>>
  BY <1>3 DEF request
<1>5. \A m \in go : f \notin hpending[m] /\ f \notin hfailed[m] /\ ~TooOften(m, f)
  BY DEF Wanted
<1>6. /\ \A j \in new : j \in [id : Nat, m : go, f : {f}, prio : {prio}, stream : {FALSE}]
      /\ \A m \in go : \E j \in new : j.m = m
      /\ \A j, k \in new : j.m = k.m => j = k
  <2>1. \A i \in DOMAIN q : q[i] \in go /\ i \in Nat
    BY <1>3
  <2>2. \A m \in go : \E i \in DOMAIN q : q[i] = m
    BY <1>3 DEF ToSet
  <2>3. job_count \in Nat
    BY DEF MtTypeOK
  <2>4. \A j \in new : \E i \in DOMAIN q : j = [id |-> job_count + i, m |-> q[i], f |-> f, prio |-> prio, stream |-> FALSE]
    OBVIOUS
  <2>5. \A i \in DOMAIN q : [id |-> job_count + i, m |-> q[i], f |-> f, prio |-> prio, stream |-> FALSE] \in new
    OBVIOUS
  <2> HIDE DEF new, q, go
  <2>6. ASSUME NEW j \in new PROVE j \in [id : Nat, m : go, f : {f}, prio : {prio}, stream : {FALSE}]
    <3>1. PICK i \in DOMAIN q : j = [id |-> job_count + i, m |-> q[i], f |-> f, prio |-> prio, stream |-> FALSE]
      BY <2>4
    <3>2. job_count + i \in Nat /\ q[i] \in go
      BY <2>1, <2>3
    <3> QED BY <3>1, <3>2
  <2>7. \A m \in go : \E j \in new : j.m = m
    BY <2>2, <2>5
  <2>8. ASSUME NEW j \in new, NEW k \in new, j.m = k.m PROVE j = k
    <3>1. PICK i \in DOMAIN q : j = [id |-> job_count + i, m |-> q[i], f |-> f, prio |-> prio, stream |-> FALSE]
      BY <2>4
    <3>2. PICK l \in DOMAIN q : k = [id |-> job_count + l, m |-> q[l], f |-> f, prio |-> prio, stream |-> FALSE]
      BY <2>4
    <3>3. i = l
      BY <3>1, <3>2, <2>8, <1>3
    <3> QED BY <3>1, <3>2, <3>3
  <2> QED BY <2>6, <2>7, <2>8
<1> HIDE DEF new, q, go, quit, due
<1>7. MtTypeOK'
  <2>1. jobs' \subseteq [id : Nat, m : 1..made, f : Files, prio : {0, 1, 2}, stream : BOOLEAN]
    BY <1>1, <1>2, <1>4, <1>6 DEF MtTypeOK
  <2>2. /\ hfailed' \in [HttpMounts -> SUBSET Files] /\ hpending' \in [HttpMounts -> SUBSET Files]
        /\ transient_failures' \in [HttpMounts -> [Files -> Nat]] /\ job_count' \in Nat
    BY <1>3, <1>4 DEF MtTypeOK
  <2> QED BY <2>1, <2>2, <1>4 DEF MtTypeOK
<1>8. StreamingInv'
  BY <1>4, <1>6 DEF StreamingInv, Current
<1>9. FreshInv'
  BY <1>1, <1>2, <1>4 DEF FreshInv, MtTypeOK
<1>10. PoolInv'
  <2> SUFFICES ASSUME NEW m \in Range(mounted), NEW g \in Files
               PROVE  /\ g \in hpending'[m] <=> \E j \in jobs' : Prefetches(j, m, g)
                      /\ \A j, k \in jobs' : Prefetches(j, m, g) /\ Prefetches(k, m, g) => j = k
    BY <1>4 DEF PoolInv
  <2>1. hpending'[m] = IF m \in go THEN hpending[m] \cup {f} ELSE hpending[m]
    BY <1>1, <1>4
  <2>2. /\ g \in hpending[m] <=> \E j \in jobs : Prefetches(j, m, g)
        /\ \A j, k \in jobs : Prefetches(j, m, g) /\ Prefetches(k, m, g) => j = k
    BY DEF PoolInv
  <2>3. (\E j \in new : Prefetches(j, m, g)) <=> (m \in go /\ g = f)
    <3>1. \A j \in new : Prefetches(j, m, g) <=> j.m = m /\ g = f
      BY <1>6 DEF Prefetches
    <3>2. \A j \in new : j.m \in go
      BY <1>6
    <3> QED BY <3>1, <3>2, <1>6
  <2>4. \A j, k \in new : Prefetches(j, m, g) /\ Prefetches(k, m, g) => j = k
    BY <1>6 DEF Prefetches
  <2>5. m \in go /\ g = f => g \notin hpending[m]
    BY <1>5
  <2> QED BY <1>4, <2>1, <2>2, <2>3, <2>4, <2>5
<1>11. RetryInv'
  <2> SUFFICES ASSUME NEW m \in HttpMounts, NEW g \in Files
               PROVE  /\ misses[m][g] <= max_retries
                      /\ g \in hpending'[m] => misses[m][g] < max_retries
                      /\ g \notin hfailed'[m] => misses[m][g] <= transient_failures'[m][g]
    BY <1>4 DEF RetryInv
  <2>1. /\ misses[m][g] <= max_retries /\ (g \in hpending[m] => misses[m][g] < max_retries)
        /\ g \notin hfailed[m] => misses[m][g] <= transient_failures[m][g]
    BY DEF RetryInv
  <2>2. misses[m][g] \in Nat /\ transient_failures[m][g] \in Nat
    BY DEF MtTypeOK
  <2>3. m \in go /\ g = f => misses[m][g] < max_retries
    BY <1>5, <2>1, <2>2, MountAssumption DEF TooOften
  <2>4. /\ g \in hpending'[m] => g \in hpending[m] \/ (m \in go /\ g = f)
        /\ g \notin hfailed'[m] => g \notin hfailed[m] /\ ~(m \in quit /\ g = f)
        /\ ~(m \in quit /\ g = f) => transient_failures'[m][g] = transient_failures[m][g]
    <3>1. transient_failures[m] \in [Files -> Nat]
      BY DEF MtTypeOK
    <3>2. transient_failures'[m] = IF m \in quit THEN [transient_failures[m] EXCEPT ![f] = 0] ELSE transient_failures[m]
      BY <1>4
    <3>3. ~(m \in quit /\ g = f) => transient_failures'[m][g] = transient_failures[m][g]
      BY <3>1, <3>2
    <3>4. hpending'[m] = IF m \in go THEN hpending[m] \cup {f} ELSE hpending[m]
      BY <1>4
    <3>5. hfailed'[m] = IF m \in quit THEN hfailed[m] \cup {f} ELSE hfailed[m]
      BY <1>4
    <3> QED BY <3>3, <3>4, <3>5
  <2> QED BY <2>1, <2>3, <2>4
<1> QED BY <1>4, <1>7, <1>8, <1>9, <1>10, <1>11 DEF NoDeadMount

\* The end of a prefetch in the pool: its file is neither pending nor in the pool afterwards.
LEMMA MountCallback ==
    ASSUME NEW j \in jobs, NEW res \in {"ok", "404", "error", "dropped"},
           MountInv, ~j.stream, jobs' = jobs \ {j}, Callback(j, res), UNCHANGED <<mounted, made, job_count, streaming>>
    PROVE  MountInv'
<1> USE DEF MountInv
<1>0. /\ Range(mounted) \subseteq 1..made /\ 1..made \subseteq HttpMounts
  BY MountedAreMade
<1>1. j.m \in HttpMounts /\ j.f \in Files
  BY <1>0 DEF MtTypeOK
<1>2. StreamingInv'
  BY DEF StreamingInv, Current
<1>3. CASE ~(alive(j.m) /\ j.f \in hpending[j.m])
  <2>1. UNCHANGED <<hpending, hcache, hfailed, transient_failures, misses, touched_dead>>
    BY <1>3 DEF Callback
  <2>2. j.m \notin Range(mounted)
    BY <1>1, <1>3 DEF alive, PoolInv, Prefetches
  <2>3. MtTypeOK' /\ FreshInv' /\ RetryInv' /\ NoDeadMount'
    BY <2>1 DEF MtTypeOK, FreshInv, RetryInv, NoDeadMount
  <2>4. PoolInv'
    BY <2>1, <2>2 DEF PoolInv, Prefetches
  <2> QED BY <1>2, <2>3, <2>4
<1>4. CASE alive(j.m) /\ j.f \in hpending[j.m]
  <2>1. /\ hpending' = [hpending EXCEPT ![j.m] = @ \ {j.f}]
        /\ hcache' = IF res = "ok" THEN [hcache EXCEPT ![j.m] = @ \cup {j.f}] ELSE hcache
        /\ hfailed' = IF res = "404" THEN [hfailed EXCEPT ![j.m] = @ \cup {j.f}] ELSE hfailed
        /\ transient_failures' = CASE res = "ok" -> [transient_failures EXCEPT ![j.m][j.f] = 0]
                                   [] res = "error" -> Count(transient_failures, j.m, j.f)
                                   [] OTHER -> transient_failures
        /\ misses' = CASE res = "ok" -> [misses EXCEPT ![j.m][j.f] = 0]
                       [] res \in {"404", "error"} -> Count(misses, j.m, j.f) [] OTHER -> misses
        /\ touched_dead' = (touched_dead \/ j.m \notin Range(mounted))
    BY <1>4 DEF Callback
  <2>2. NoDeadMount'
    BY <2>1, <1>4 DEF NoDeadMount, alive
  <2>3. /\ hpending' \in [HttpMounts -> SUBSET Files] /\ hcache' \in [HttpMounts -> SUBSET Files]
        /\ hfailed' \in [HttpMounts -> SUBSET Files]
    BY <2>1, <1>1 DEF MtTypeOK
  <2>a. misses \in [HttpMounts -> [Files -> Nat]] /\ transient_failures \in [HttpMounts -> [Files -> Nat]]
    BY DEF MtTypeOK
  <2>b. /\ res = "ok" => misses' = Reset(misses, j.m, j.f) /\ transient_failures' = Reset(transient_failures, j.m, j.f)
        /\ res = "error" => misses' = Count(misses, j.m, j.f) /\ transient_failures' = Count(transient_failures, j.m, j.f)
        /\ res = "404" => misses' = Count(misses, j.m, j.f) /\ transient_failures' = transient_failures
        /\ res = "dropped" => misses' = misses /\ transient_failures' = transient_failures
    BY <2>1 DEF Reset
  <2>c. /\ Count(misses, j.m, j.f) \in [HttpMounts -> [Files -> Nat]]
        /\ Reset(misses, j.m, j.f) \in [HttpMounts -> [Files -> Nat]]
        /\ Count(transient_failures, j.m, j.f) \in [HttpMounts -> [Files -> Nat]]
        /\ Reset(transient_failures, j.m, j.f) \in [HttpMounts -> [Files -> Nat]]
    BY <2>a, <1>1, CountIs
  <2>4. misses' \in [HttpMounts -> [Files -> Nat]] /\ transient_failures' \in [HttpMounts -> [Files -> Nat]]
    BY <2>a, <2>b, <2>c
  <2>d. \A n \in HttpMounts, g \in Files :
           /\ Count(misses, j.m, j.f)[n][g] = IF n = j.m /\ g = j.f THEN misses[n][g] + 1 ELSE misses[n][g]
           /\ Reset(misses, j.m, j.f)[n][g] = IF n = j.m /\ g = j.f THEN 0 ELSE misses[n][g]
           /\ Count(transient_failures, j.m, j.f)[n][g] =
                IF n = j.m /\ g = j.f THEN transient_failures[n][g] + 1 ELSE transient_failures[n][g]
           /\ Reset(transient_failures, j.m, j.f)[n][g] =
                IF n = j.m /\ g = j.f THEN 0 ELSE transient_failures[n][g]
    <3>1. /\ OneMore(HttpMounts, Files, misses, Count(misses, j.m, j.f), j.m, j.f)
          /\ NoneLeft(HttpMounts, Files, misses, Reset(misses, j.m, j.f), j.m, j.f)
      BY <2>a, <1>1, CountIs
    <3>2. /\ OneMore(HttpMounts, Files, transient_failures, Count(transient_failures, j.m, j.f), j.m, j.f)
          /\ NoneLeft(HttpMounts, Files, transient_failures, Reset(transient_failures, j.m, j.f), j.m, j.f)
      BY <2>a, <1>1, CountIs
    <3> QED BY <3>1, <3>2 DEF OneMore, NoneLeft
  <2>5. MtTypeOK'
    BY <2>3, <2>4 DEF MtTypeOK
  <2>6. \A m \in HttpMounts : hpending'[m] = IF m = j.m THEN hpending[m] \ {j.f} ELSE hpending[m]
    BY <2>1, <1>1 DEF MtTypeOK
  <2>7. FreshInv'
    BY <2>6 DEF FreshInv
  <2>8. PoolInv'
    <3> SUFFICES ASSUME NEW m \in Range(mounted), NEW g \in Files
                 PROVE  /\ g \in hpending'[m] <=> \E k \in jobs' : Prefetches(k, m, g)
                        /\ \A k, l \in jobs' : Prefetches(k, m, g) /\ Prefetches(l, m, g) => k = l
      BY DEF PoolInv
    <3>1. /\ g \in hpending[m] <=> \E k \in jobs : Prefetches(k, m, g)
          /\ \A k, l \in jobs : Prefetches(k, m, g) /\ Prefetches(l, m, g) => k = l
      BY DEF PoolInv
    <3>2. Prefetches(j, m, g) <=> m = j.m /\ g = j.f
      BY DEF Prefetches
    <3> QED BY <3>1, <3>2, <2>6, <1>0
  <2>9. RetryInv'
    <3> SUFFICES ASSUME NEW m \in HttpMounts, NEW g \in Files
                 PROVE  /\ misses'[m][g] <= max_retries
                        /\ g \in hpending'[m] => misses'[m][g] < max_retries
                        /\ g \notin hfailed'[m] => misses'[m][g] <= transient_failures'[m][g]
      BY DEF RetryInv
    <3>1. /\ misses[m][g] <= max_retries /\ (g \in hpending[m] => misses[m][g] < max_retries)
          /\ g \notin hfailed[m] => misses[m][g] <= transient_failures[m][g]
          /\ misses[m][g] \in Nat /\ transient_failures[m][g] \in Nat
      BY DEF RetryInv, MtTypeOK
    <3>2. CASE ~(m = j.m /\ g = j.f)
      <4>1. misses'[m][g] = misses[m][g] /\ transient_failures'[m][g] = transient_failures[m][g]
        BY <3>2, <2>b, <2>d
      <4>2. /\ g \in hpending'[m] => g \in hpending[m]
            /\ g \notin hfailed'[m] => g \notin hfailed[m]
        BY <2>1, <2>6, <1>1 DEF MtTypeOK
      <4> QED BY <3>1, <4>1, <4>2
    <3>3. CASE m = j.m /\ g = j.f
      <4>1. g \notin hpending'[m] /\ g \in hpending[m]
        BY <3>3, <2>6, <1>4
      <4>2. CASE res = "ok"
        <5>1. misses'[m][g] = 0 /\ transient_failures'[m][g] = 0
          BY <4>2, <3>3, <2>b, <2>d
        <5> QED BY <5>1, <4>1, MountAssumption
      <4>3. CASE res = "error"
        <5>1. misses'[m][g] = misses[m][g] + 1 /\ transient_failures'[m][g] = transient_failures[m][g] + 1 /\ hfailed' = hfailed
          BY <4>3, <3>3, <2>1, <2>b, <2>d
        <5> QED BY <5>1, <4>1, <3>1, MountAssumption
      <4>4. CASE res = "404"
        <5>1. misses'[m][g] = misses[m][g] + 1 /\ g \in hfailed'[m]
          <6>1. misses'[m][g] = misses[m][g] + 1
            BY <4>4, <3>3, <2>b, <2>d
          <6>2. g \in hfailed'[m]
            BY <4>4, <3>3, <2>1, <1>1 DEF MtTypeOK
          <6> QED BY <6>1, <6>2
        <5> QED BY <5>1, <4>1, <3>1, MountAssumption
      <4>5. CASE res = "dropped"
        <5>1. misses'[m][g] = misses[m][g] /\ transient_failures'[m][g] = transient_failures[m][g] /\ hfailed' = hfailed
          BY <4>5, <2>1, <2>b
        <5> QED BY <5>1, <4>1, <3>1
      <4> QED BY <4>2, <4>3, <4>4, <4>5
    <3> QED BY <3>2, <3>3
  <2> QED BY <1>2, <2>2, <2>5, <2>7, <2>8, <2>9
<1> QED BY <1>3, <1>4

LEMMA MountStreams ==
    ASSUME MountInv, fetch_streaming \/ \E f \in Files : StreamBegin(f)
    PROVE  MountInv'
<1> USE DEF MountInv
<1>1. ASSUME NEW f \in Files, StreamBegin(f) PROVE MountInv'
  <2>1. MtTypeOK' /\ FreshInv' /\ PoolInv' /\ RetryInv' /\ NoDeadMount'
    BY <1>1 DEF StreamBegin, MtTypeOK, FreshInv, PoolInv, RetryInv, NoDeadMount
  <2>2. Current' = [f |-> f, left |-> mounted, on |-> FALSE] /\ streaming' = <<Current'>>
    BY <1>1 DEF StreamBegin, Current
  <2>3. jobs' = jobs /\ \A j \in jobs : ~j.stream
    BY <1>1 DEF StreamBegin, StreamingInv
  <2> QED BY <2>1, <2>2, <2>3 DEF StreamingInv
<1>2. ASSUME fetch_streaming PROVE MountInv'
  <2>1. /\ streaming # <<>> /\ ~Current.on
        /\ UNCHANGED <<mounted, made, hcache, hpending, hfailed, transient_failures, misses, touched_dead>>
    BY <1>2 DEF fetch_streaming
  <2>2. FreshInv' /\ RetryInv' /\ NoDeadMount'
    BY <2>1 DEF FreshInv, RetryInv, NoDeadMount
  <2>3. \A j \in jobs : ~j.stream
    BY <2>1 DEF StreamingInv
  <2>4. CASE streaming' = <<>> /\ UNCHANGED <<jobs, job_count>>
    BY <2>1, <2>2, <2>3, <2>4 DEF StreamingInv, MtTypeOK, PoolInv
  <2>5. CASE streaming' = <<[Current EXCEPT !.left = Tail(@)]>> /\ UNCHANGED <<jobs, job_count>>
    <3>1. Current' = [Current EXCEPT !.left = Tail(@)] /\ streaming' = <<Current'>>
      BY <2>5 DEF Current
    <3>2. PICK c : c = Current
      OBVIOUS
    <3>3. c = [f |-> c.f, left |-> c.left, on |-> c.on] /\ c.f \in Files
      BY <2>1, <3>2 DEF StreamingInv
    <3>4. Current' = [f |-> c.f, left |-> Tail(c.left), on |-> c.on]
      BY <3>1, <3>2, <3>3
    <3>a. \A j \in jobs' : ~j.stream
      BY <2>3, <2>5
    <3>b. Current' = [f |-> Current'.f, left |-> Current'.left, on |-> Current'.on] /\ Current'.f \in Files
      BY <3>3, <3>4
    <3>5. StreamingInv'
      BY <3>1, <3>a, <3>b DEF StreamingInv
    <3> QED BY <2>1, <2>2, <2>5, <3>5 DEF MtTypeOK, PoolInv
  <2>6. CASE \E m \in Range(mounted) :
                /\ job_count' = job_count + 1 /\ streaming' = <<[Current EXCEPT !.on = TRUE]>>
                /\ jobs' = jobs \cup {[id |-> job_count + 1, m |-> m, f |-> Current.f, prio |-> 2, stream |-> TRUE]}
    <3>0. PICK m \in Range(mounted) :
                /\ job_count' = job_count + 1 /\ streaming' = <<[Current EXCEPT !.on = TRUE]>>
                /\ jobs' = jobs \cup {[id |-> job_count + 1, m |-> m, f |-> Current.f, prio |-> 2, stream |-> TRUE]}
      BY <2>6
    <3>1. Current' = [Current EXCEPT !.on = TRUE] /\ streaming' = <<Current'>>
      BY <3>0 DEF Current
    <3>2. PICK c : c = Current
      OBVIOUS
    <3>3. c = [f |-> c.f, left |-> c.left, on |-> c.on] /\ c.f \in Files
      BY <2>1, <3>2 DEF StreamingInv
    <3>4. /\ Current' = [f |-> c.f, left |-> c.left, on |-> TRUE]
      BY <3>1, <3>2, <3>3
    <3>5. PICK n : n = [id |-> job_count + 1, m |-> m, f |-> c.f, prio |-> 2, stream |-> TRUE]
      OBVIOUS
    <3>6. jobs' = jobs \cup {n} /\ n.stream /\ n \in [id : Nat, m : 1..made, f : Files, prio : {0, 1, 2}, stream : BOOLEAN]
      BY <3>0, <3>2, <3>3, <3>5, MountedAreMade DEF MtTypeOK
    <3>a. \A j, k \in jobs' : j.stream /\ k.stream => j = k
      BY <2>3, <3>6
    <3>b. /\ Current' = [f |-> Current'.f, left |-> Current'.left, on |-> Current'.on] /\ Current'.f \in Files
          /\ Current'.on
      BY <3>3, <3>4
    <3>c. streaming' # <<>>
      BY <3>1
    <3>7. StreamingInv'
      BY <3>1, <3>a, <3>b, <3>c DEF StreamingInv
    <3>8. MtTypeOK'
      BY <2>1, <3>0, <3>6 DEF MtTypeOK
    <3>9. PoolInv'
      BY <2>1, <3>6 DEF PoolInv, Prefetches
    <3> QED BY <2>2, <3>7, <3>8, <3>9
  <2> QED BY <1>2, <2>4, <2>5, <2>6 DEF fetch_streaming
<1> QED BY <1>1, <1>2

LEMMA MountStreamEnd == ASSUME NEW j \in jobs PROVE MountInv /\ StreamEnd(j) => MountInv'
<1> SUFFICES ASSUME MountInv, StreamEnd(j) PROVE MountInv'
  OBVIOUS
<1> USE DEF MountInv
<1>1. j.m \in HttpMounts /\ j.f \in Files
  BY MountedAreMade DEF MtTypeOK
<1>2. PICK res \in {"ok", "404", "error"} :
        /\ streaming' = IF res = "ok" THEN <<>> ELSE <<[Current EXCEPT !.on = FALSE, !.left = Tail(@)]>>
        /\ hfailed' = IF res = "404" THEN [hfailed EXCEPT ![j.m] = @ \cup {j.f}] ELSE hfailed
        /\ transient_failures' = IF res = "error" THEN Count(transient_failures, j.m, j.f) ELSE transient_failures
  BY DEF StreamEnd
<1>3. /\ j.stream /\ jobs' = jobs \ {j}
      /\ UNCHANGED <<mounted, made, hcache, hpending, job_count, misses, touched_dead>>
  BY DEF StreamEnd
<1>4. MtTypeOK'
  <2>1. hfailed' \in [HttpMounts -> SUBSET Files] /\ transient_failures' \in [HttpMounts -> [Files -> Nat]]
    BY <1>1, <1>2 DEF MtTypeOK, Count
  <2> QED BY <1>3, <2>1 DEF MtTypeOK
<1>5. StreamingInv'
  <2>1. PICK c : c = Current
    OBVIOUS
  <2>2. c = [f |-> c.f, left |-> c.left, on |-> c.on] /\ c.f \in Files
    BY <2>1, <1>3 DEF StreamingInv
  <2>3. \A k \in jobs' : ~k.stream
    BY <1>3 DEF StreamingInv
  <2>4. CASE res = "ok"
    BY <2>3, <2>4, <1>2 DEF StreamingInv
  <2>5. CASE res # "ok"
    <3>1. Current' = [c EXCEPT !.on = FALSE, !.left = Tail(@)] /\ streaming' = <<Current'>>
      BY <2>1, <2>5, <1>2 DEF Current
    <3> QED BY <2>2, <2>3, <3>1 DEF StreamingInv
  <2> QED BY <2>4, <2>5
<1>6. FreshInv' /\ NoDeadMount'
  BY <1>3 DEF FreshInv, NoDeadMount
<1>7. PoolInv'
  BY <1>3 DEF PoolInv, Prefetches
<1>8. RetryInv'
  <2>1. \A m \in HttpMounts, f \in Files :
           /\ f \notin hfailed'[m] => f \notin hfailed[m]
           /\ transient_failures'[m][f] \in {transient_failures[m][f], transient_failures[m][f] + 1}
           /\ misses[m][f] \in Nat /\ transient_failures[m][f] \in Nat
    BY <1>1, <1>2 DEF MtTypeOK, Count
  <2> QED BY <1>3, <2>1 DEF RetryInv
<1> QED BY <1>4, <1>5, <1>6, <1>7, <1>8

\* The inductive invariant of the HTTP mounts, for any number of mounts, files, requests and retries.
THEOREM MountInvariant == HmSpec => []MountInv
<1>1. MountInv /\ [HmNext]_hmVars => MountInv'
  <2> SUFFICES ASSUME MountInv, [HmNext]_hmVars PROVE MountInv'
    OBVIOUS
  <2>0. mounted # <<>> => {Head(mounted)} \in SUBSET Range(mounted)
    BY MountedAreMade DEF MountInv
  <2>1. CASE add_mount
    BY <2>1, MountAdded
  <2>2. ASSUME NEW m \in HttpMounts, remove_mount(m) PROVE MountInv'
    BY <2>2, MountRemoved
  <2>3. CASE fetch_streaming \/ \E f \in Files : StreamBegin(f)
    BY <2>3, MountStreams
  <2>4. ASSUME NEW f \in Files, fetch_missing(f) PROVE MountInv'
    <3>1. {m \in Range(mounted) : f \notin hfailed[m]} \in SUBSET Range(mounted)
      OBVIOUS
    <3> QED BY <2>4, <3>1, MountRequest DEF fetch_missing
  <2>5. ASSUME NEW f \in Files, NEW p \in {0, 1}, prefetch(f, p) PROVE MountInv'
    <3>1. PICK ms : ms = IF PrimaryFailed(f) THEN Range(mounted) ELSE {Head(mounted)}
      OBVIOUS
    <3>2. ms \in SUBSET Range(mounted) /\ request(ms, f, p) /\ p \in {0, 1, 2}
      BY <2>0, <2>5, <3>1 DEF prefetch
    <3> QED BY <3>2, MountRequest
  <2>6. ASSUME NEW f \in Files, release_http(f) PROVE MountInv'
    BY <2>6 DEF release_http, MountInv, MtTypeOK, StreamingInv, Current, FreshInv, PoolInv, RetryInv, NoDeadMount
  <2>7. ASSUME NEW j \in jobs, Answer(j) \/ DropOne(j) PROVE MountInv'
    <3>1. \E res \in {"ok", "404", "error", "dropped"} : Callback(j, res)
      BY <2>7 DEF Answer, DropOne
    <3>2. ~j.stream /\ jobs' = jobs \ {j} /\ UNCHANGED <<mounted, made, job_count, streaming>>
      BY <2>7 DEF Answer, DropOne
    <3> QED BY <3>1, <3>2, MountCallback
  <2>8. ASSUME NEW j \in jobs, StreamEnd(j) PROVE MountInv'
    BY <2>8, MountStreamEnd
  <2>9. CASE UNCHANGED hmVars
    BY <2>9 DEF hmVars, MountInv, MtTypeOK, StreamingInv, Current, FreshInv, PoolInv, RetryInv, NoDeadMount
  <2> QED BY <2>1, <2>2, <2>3, <2>4, <2>5, <2>6, <2>7, <2>8, <2>9 DEF HmNext
<1> QED BY MountInitially, <1>1, PTL DEF HmSpec

\* A mount waits for exactly the files it has in the pool, each once; it gives a file up after max_retries_
\* failures; and no callback works on a mount that was removed (MountHttp::request, its callback, alive_).
THEOREM DownloadsAlwaysInStep == HmSpec => []DownloadsInStep
<1>1. MountInv => DownloadsInStep
  <2> SUFFICES ASSUME MountInv PROVE DownloadsInStep
    OBVIOUS
  <2>1. Range(mounted) \subseteq HttpMounts
    BY MountedAreMade DEF MountInv
  <2>2. ASSUME NEW m \in Range(mounted) PROVE hpending[m] = {j.f : j \in {x \in jobs : x.m = m /\ ~x.stream}}
    <3>1. hpending[m] \subseteq Files /\ \A j \in jobs : j.f \in Files
      BY <2>1 DEF MountInv, MtTypeOK
    <3>2. \A f \in Files : f \in hpending[m] <=> \E j \in jobs : j.m = m /\ j.f = f /\ ~j.stream
      BY DEF MountInv, PoolInv, Prefetches
    <3> QED BY <3>1, <3>2
  <2>3. ASSUME NEW m \in Range(mounted), NEW f \in hpending[m]
        PROVE  Cardinality({j \in jobs : j.m = m /\ j.f = f /\ ~j.stream}) = 1
    <3>1. f \in Files
      BY <2>1 DEF MountInv, MtTypeOK
    <3>2. PICK j \in jobs : Prefetches(j, m, f)
      BY <3>1 DEF MountInv, PoolInv
    <3>3. {k \in jobs : k.m = m /\ k.f = f /\ ~k.stream} = {j}
      BY <3>1, <3>2 DEF MountInv, PoolInv, Prefetches
    <3> QED BY <3>3, FS_Singleton
  <2>4. PendingIsInPool
    BY <2>2, <2>3 DEF PendingIsInPool
  <2>5. TriesBounded /\ NoDeadMount
    BY DEF MountInv, RetryInv, TriesBounded
  <2> QED BY <2>4, <2>5 DEF DownloadsInStep
<1> QED BY <1>1, MountInvariant, PTL

-----------------------------------------------------------------------------
(* The choice of music. *)
Announced == [track : Tracks \cup {Stop}, channel : Outputs]

MuTypeOK ==
    /\ music_ch \in Seq(Announced) /\ req_ch \in Seq(Announced) /\ stop_ch \in Seq(Outputs)
    /\ player \in [pending : Announced, was_active : BOOLEAN] /\ server_track \in Announced
    /\ DOMAIN device = Outputs /\ tick \in {"off", "active", "inactive"}

\* The last announcement is the one the player holds, or comes after it.
LatestInv == IF music_ch = <<>> THEN player.pending = server_track ELSE music_ch[Len(music_ch)] = server_track

\* Whatever else is requested on the channel of p, p is requested later, or the channel plays it or nothing.
TrackRequested(p) ==
    /\ \A i \in DOMAIN req_ch : req_ch[i].channel = p.channel /\ req_ch[i].track # p.track
           => \E j \in DOMAIN req_ch : i < j /\ req_ch[j] = p
    /\ device[p.channel] \in {p.track, Silence} \/ \E j \in DOMAIN req_ch : req_ch[j] = p

\* Once the player has shown itself active, what it holds has been requested.
RequestedInv == player.was_active /\ tick # "inactive" /\ Real(player.pending) => TrackRequested(player.pending)

MusicInv == MuTypeOK /\ LatestInv /\ RequestedInv

\* A request at the end of the channel is the last.
LEMMA RequestedLast ==
    ASSUME req_ch \in Seq(Announced), NEW p \in Announced, req_ch' = Append(req_ch, p)
    PROVE  req_ch' \in Seq(Announced) /\ TrackRequested(p)'
<1>1. /\ req_ch' \in Seq(Announced) /\ DOMAIN req_ch' = 1..(Len(req_ch) + 1) /\ Len(req_ch) \in Nat
      /\ req_ch'[Len(req_ch) + 1] = p
  OBVIOUS
<1>2. Len(req_ch) + 1 \in DOMAIN req_ch' /\ \A i \in DOMAIN req_ch' : i < Len(req_ch) + 1 \/ req_ch'[i] = p
  BY <1>1
<1> QED BY <1>1, <1>2 DEF TrackRequested

LEMMA MusicStep ==
    ASSUME MusicInv, [MuNext]_muVars
    PROVE  MusicInv'
<1> USE DEF MusicInv
<1>1. ASSUME NEW t \in Tracks \union {Stop}, NEW c \in Outputs, ReceiveMC(t, c) PROVE MusicInv'
  <2>1. PICK e : e = [track |-> t, channel |-> c]
    OBVIOUS
  <2>2. /\ e \in Announced /\ server_track' = e /\ music_ch' = Append(music_ch, e)
        /\ UNCHANGED <<req_ch, stop_ch, player, tick, device>>
    BY <1>1, <2>1 DEF ReceiveMC, Announced
  <2>3. music_ch' \in Seq(Announced) /\ music_ch' # <<>> /\ music_ch'[Len(music_ch')] = e
    BY <2>2 DEF MuTypeOK
  <2>4. MuTypeOK' /\ LatestInv'
    BY <2>2, <2>3 DEF MuTypeOK, LatestInv
  <2>5. RequestedInv'
    BY <2>2 DEF RequestedInv, TrackRequested
  <2> QED BY <2>4, <2>5
<1>2. CASE EnterCourtroom \/ UNCHANGED muVars
  BY <1>2 DEF EnterCourtroom, muVars, MuTypeOK, LatestInv, RequestedInv, TrackRequested
<1>3. ASSUME NEW e \in BOOLEAN, LeaveCourtroom(e) PROVE MusicInv'
  <2>1. stop_ch' \in Seq(Outputs)
    <3>1. PICK z : z = <<0, 1>>
      OBVIOUS
    <3>2. z \in Seq(Outputs)
      BY <3>1 DEF Outputs
    <3>3. stop_ch' = IF e THEN stop_ch \o z ELSE stop_ch
      BY <1>3, <3>1 DEF LeaveCourtroom
    <3> QED BY <3>2, <3>3 DEF MuTypeOK
  <2> QED BY <1>3, <2>1 DEF LeaveCourtroom, MuTypeOK, LatestInv, RequestedInv, TrackRequested
<1>4. CASE TickStart
  BY <1>4 DEF TickStart, MuTypeOK, LatestInv, RequestedInv, TrackRequested
<1>5. CASE TickEvent
  <2>1. PICK e : e = Head(music_ch)
    OBVIOUS
  <2>2. /\ tick # "off" /\ music_ch # <<>> /\ player' = [player EXCEPT !.pending = e]
        /\ req_ch' = (IF tick = "active" /\ Real(e) THEN Append(req_ch, e) ELSE req_ch)
        /\ stop_ch' = (IF tick = "active" /\ ~Real(e) THEN Append(stop_ch, e.channel) ELSE stop_ch)
        /\ music_ch' = Tail(music_ch) /\ UNCHANGED <<tick, device, server_track>>
    BY <1>5, <2>1 DEF TickEvent, Latest
  <2>3. /\ e \in Announced /\ music_ch' \in Seq(Announced) /\ (music_ch' = <<>> => e = server_track)
        /\ (music_ch' # <<>> => music_ch'[Len(music_ch')] = server_track)
    <3>1. PICK m : m = music_ch
      OBVIOUS
    <3>2. m \in Seq(Announced) /\ m # <<>> /\ e = Head(m) /\ music_ch' = Tail(m) /\ m[Len(m)] = server_track
      BY <2>1, <2>2, <3>1 DEF MuTypeOK, LatestInv
    <3>3. /\ e \in Announced /\ e = m[1] /\ Tail(m) \in Seq(Announced) /\ Len(Tail(m)) = Len(m) - 1 /\ Len(m) \in Nat \ {0}
          /\ \A i \in 1..(Len(m) - 1) : Tail(m)[i] = m[i + 1]
      BY <3>2
    <3>4. Tail(m) = <<>> => Len(m) = 1
      <4>1. PICK y : y = Tail(m)
        OBVIOUS
      <4>2. Len(y) = Len(m) - 1 /\ Len(m) \in Nat
        BY <3>3, <4>1
      <4>3. y = <<>> => Len(y) = 0
        OBVIOUS
      <4>4. y = <<>> => Len(m) = 1
        BY <4>2, <4>3
      <4> QED BY <4>1, <4>4
    <3>5. Tail(m) # <<>> => Tail(m)[Len(Tail(m))] = m[Len(m)]
      <4> SUFFICES ASSUME Tail(m) # <<>> PROVE Tail(m)[Len(Tail(m))] = m[Len(m)]
        OBVIOUS
      <4>1. Len(m) - 1 \in 1..(Len(m) - 1)
        BY <3>3
      <4> QED BY <3>3, <4>1
    <3> QED BY <3>2, <3>3, <3>4, <3>5
  <2>4. player' \in [pending : Announced, was_active : BOOLEAN] /\ player'.pending = e /\ player'.was_active = player.was_active
    BY <2>2, <2>3 DEF MuTypeOK
  <2>5. req_ch' \in Seq(Announced) /\ stop_ch' \in Seq(Outputs)
    BY <2>2, <2>3 DEF MuTypeOK, Announced
  <2>6. MuTypeOK' /\ LatestInv'
    BY <2>2, <2>3, <2>4, <2>5 DEF MuTypeOK, LatestInv
  <2>7. RequestedInv'
    <3> SUFFICES ASSUME tick' # "inactive", Real(e), player.was_active PROVE TrackRequested(e)'
      BY <2>4 DEF RequestedInv, Real
    <3>1. req_ch' = Append(req_ch, e) \/ tick \notin {"off", "active", "inactive"}
      BY <2>2
    <3>2. tick \in {"off", "active", "inactive"}
      BY DEF MuTypeOK
    <3> QED BY <2>3, <3>1, <3>2, RequestedLast DEF MuTypeOK
  <2> QED BY <2>6, <2>7
<1>6. CASE TickEnd
  <2>1. PICK e : e = player.pending
    OBVIOUS
  <2>2. /\ tick # "off" /\ music_ch = <<>> /\ tick' = "off" /\ player' = [player EXCEPT !.was_active = (tick = "active")]
        /\ req_ch' = (IF tick = "active" /\ ~player.was_active /\ Real(e) THEN Append(req_ch, e) ELSE req_ch)
        /\ UNCHANGED <<music_ch, stop_ch, device, server_track>>
    BY <1>6, <2>1 DEF TickEnd
  <2>3. e \in Announced /\ player'.pending = e /\ player'.was_active = (tick = "active") /\ player' \in [pending : Announced, was_active : BOOLEAN]
    BY <2>1, <2>2 DEF MuTypeOK
  <2>4. req_ch' \in Seq(Announced)
    BY <2>2, <2>3 DEF MuTypeOK
  <2>5. MuTypeOK' /\ LatestInv'
    BY <2>1, <2>2, <2>3, <2>4 DEF MuTypeOK, LatestInv
  <2>6. RequestedInv'
    <3> SUFFICES ASSUME tick = "active", Real(e) PROVE TrackRequested(e)'
      BY <2>3 DEF RequestedInv, Real
    <3>1. CASE player.was_active
      BY <2>1, <2>2, <3>1 DEF RequestedInv, TrackRequested
    <3>2. CASE ~player.was_active
      BY <2>2, <2>3, <3>2, RequestedLast DEF MuTypeOK
    <3> QED BY <3>1, <3>2 
  <2> QED BY <2>5, <2>6
<1>7. CASE DrainRequests
  <2>1. CASE req_ch = <<>>
    BY <1>7, <2>1 DEF DrainRequests, MuTypeOK, LatestInv, RequestedInv, TrackRequested
  <2>2. CASE req_ch # <<>>
    <3>1. PICK h : h = Head(req_ch)
      OBVIOUS
    <3>2. /\ device' = [device EXCEPT ![h.channel] = h.track] /\ req_ch' = Tail(req_ch)
          /\ UNCHANGED <<music_ch, stop_ch, player, tick, server_track>>
      BY <1>7, <2>2, <3>1 DEF DrainRequests
    <3>3. /\ h \in Announced /\ h = req_ch[1] /\ 1 \in DOMAIN req_ch /\ req_ch' \in Seq(Announced)
          /\ \A i \in DOMAIN req_ch' : i + 1 \in DOMAIN req_ch /\ req_ch'[i] = req_ch[i + 1] /\ i \in Nat
          /\ \A j \in DOMAIN req_ch : j > 1 => j - 1 \in DOMAIN req_ch' /\ req_ch'[j - 1] = req_ch[j] /\ j \in Nat
      BY <2>2, <3>1, <3>2 DEF MuTypeOK
    <3>4. h.channel \in Outputs /\ DOMAIN device' = Outputs
      BY <3>2, <3>3 DEF Announced, MuTypeOK
    <3>5. MuTypeOK' /\ LatestInv'
      BY <3>2, <3>3, <3>4 DEF MuTypeOK, LatestInv
    <3>6. ASSUME NEW p \in Announced, TrackRequested(p) PROVE TrackRequested(p)'
      <4>1. ASSUME NEW i \in DOMAIN req_ch', req_ch'[i].channel = p.channel, req_ch'[i].track # p.track
            PROVE  \E j \in DOMAIN req_ch' : i < j /\ req_ch'[j] = p
        <5>1. i + 1 \in DOMAIN req_ch /\ req_ch[i + 1] = req_ch'[i] /\ i \in Nat
          BY <3>3
        <5>2. PICK j \in DOMAIN req_ch : i + 1 < j /\ req_ch[j] = p
          BY <3>6, <4>1, <5>1 DEF TrackRequested
        <5>a. j \in Nat
          BY <5>2 DEF MuTypeOK
        <5>b. j > 1 /\ i < j - 1
          BY <5>1, <5>2, <5>a
        <5>3. j - 1 \in DOMAIN req_ch' /\ req_ch'[j - 1] = p /\ i < j - 1
          BY <3>3, <5>2, <5>b
        <5> QED BY <5>3
      <4>2. device'[p.channel] \in {p.track, Silence} \/ \E j \in DOMAIN req_ch' : req_ch'[j] = p
        <5>1. CASE h.channel = p.channel /\ h.track # p.track
          <6>1. PICK j \in DOMAIN req_ch : 1 < j /\ req_ch[j] = p
            BY <3>3, <3>6, <5>1 DEF TrackRequested
          <6> QED BY <3>3, <6>1
        <5>2. CASE h.channel = p.channel /\ h.track = p.track
          BY <3>2, <3>4, <5>2 DEF MuTypeOK
        <5>3. CASE h.channel # p.channel
          <6>1. device'[p.channel] = device[p.channel]
            BY <3>2, <5>3 DEF MuTypeOK, Announced
          <6>2. ASSUME NEW j \in DOMAIN req_ch, req_ch[j] = p PROVE \E k \in DOMAIN req_ch' : req_ch'[k] = p
            <7>1. j # 1 /\ j > 1
              BY <3>3, <5>3, <6>2 DEF MuTypeOK
            <7> QED BY <3>3, <6>2, <7>1
          <6> QED BY <3>6, <6>1, <6>2 DEF TrackRequested
        <5> QED BY <5>1, <5>2, <5>3
      <4> QED BY <4>1, <4>2 DEF TrackRequested
    <3>7. RequestedInv'
      BY <3>2, <3>6 DEF RequestedInv, MuTypeOK, Real
    <3> QED BY <3>5, <3>7
  <2> QED BY <2>1, <2>2
<1>8. CASE DrainStops
  <2>1. CASE stop_ch = <<>>
    BY <1>8, <2>1 DEF DrainStops, MuTypeOK, LatestInv, RequestedInv, TrackRequested
  <2>2. CASE stop_ch # <<>>
    <3>1. PICK h : h = Head(stop_ch)
      OBVIOUS
    <3>2. /\ device' = [device EXCEPT ![h] = Silence] /\ stop_ch' = Tail(stop_ch)
          /\ UNCHANGED <<music_ch, req_ch, player, tick, server_track>>
      BY <1>8, <2>2, <3>1 DEF DrainStops
    <3>3. h \in Outputs /\ stop_ch' \in Seq(Outputs)
      BY <2>2, <3>1, <3>2 DEF MuTypeOK
    <3>4. DOMAIN device' = Outputs /\ \A c \in Outputs : device'[c] \in {device[c], Silence}
      BY <3>2, <3>3 DEF MuTypeOK
    <3>5. MuTypeOK' /\ LatestInv'
      BY <3>2, <3>3, <3>4 DEF MuTypeOK, LatestInv
    <3>6. player.pending.channel \in Outputs
      BY DEF MuTypeOK, Announced
    <3>7. RequestedInv'
      BY <3>2, <3>4, <3>6 DEF RequestedInv, TrackRequested, Real
    <3> QED BY <3>5, <3>7
  <2> QED BY <2>1, <2>2
<1> QED BY <1>1, <1>2, <1>3, <1>4, <1>5, <1>6, <1>7, <1>8 DEF MuNext

\* What the player holds is what the server announced last, and once it is active it is the last request of its channel,
\* for any number of changes, screens and tracks and any schedule of the three threads.
THEOREM MusicInvariant == MuSpec => []MusicInv
<1>1. MuInit => MusicInv
  <2> SUFFICES ASSUME MuInit PROVE MusicInv
    OBVIOUS
  <2>1. [track |-> Stop, channel |-> 0] \in Announced
    BY DEF Announced, Outputs
  <2>2. MuTypeOK
    BY <2>1 DEF MuInit, MuTypeOK
  <2> QED BY <2>2 DEF MuInit, MusicInv, LatestInv, RequestedInv
<1> QED BY <1>1, MusicStep, PTL DEF MuSpec

\* The courtroom never plays an older track on the channel of the last one.
THEOREM AlwaysTheLatestTrack == MuSpec => []OnlyTheLatestTrack
<1>1. MusicInv => OnlyTheLatestTrack
  BY DEF MusicInv, MuTypeOK, LatestInv, RequestedInv, TrackRequested, OnlyTheLatestTrack, Quiescent, Real
<1> QED BY <1>1, MusicInvariant, PTL

-----------------------------------------------------------------------------
(* The connection. *)

HandshakeAnswers == {"HI", "ID", "askchaa", "RC", "RM", "RD"}
Greetings == {"decryptor", "ID", "ASS", "PN", "FL", "CT", "SI", "SC", "SM", "CharsCheck", "DONE", "BN", "PV"}
AcPackets == [kind : HandshakeAnswers \cup Greetings \cup {"OOC", "PW", "CC"}, v : Int]
Connected == net \in {"connected", "loop", "pass"}

AcTypeOK ==
    /\ net \in {"idle", "connecting", "connected", "loop", "pass"}
    /\ conn \in Nat
    /\ to_client \in Seq(AcPackets) /\ to_server \in Seq(AcPackets)
    /\ buffered_messages \in Seq([kind : HandshakeAnswers, v : Int])
    /\ OutgoingChat \in Seq([kind : {"OOC"}, v : Int])
    /\ CharSelectRequest \in Seq([kind : {"PW", "CC"}, v : Int])

\* Without a connection nothing is on its way.
IdleInv == ~Connected => to_client = <<>> /\ to_server = <<>> /\ buffered_messages = <<>>

\* The packets that move the handshake on, by what the server expects next.
ForClient(p) == CASE p = "CONNECTED" -> {"decryptor"} [] p = "IDENTIFIED" -> {"ID"}
                  [] p = "LOADING" -> {"PN", "SI", "SC", "SM"} [] OTHER -> {"DONE"}
ForServer(p) == CASE p = "CONNECTED" -> {"HI"} [] p = "IDENTIFIED" -> {"ID"}
                  [] p = "LOADING" -> {"askchaa", "RC", "RM", "RD"} [] OTHER -> {}

NoChain(q) == \A i \in DOMAIN q : q[i].kind \notin Chain
OneChain(q, s) == \E i \in DOMAIN q : q[i].kind \in s /\ \A j \in DOMAIN q : q[j].kind \in Chain => j = i

\* The packet of the handshake that is on its way is one the server is ready for, or the client's next.
OnItsWay ==
    \/ OneChain(to_client, ForClient(proto)) /\ NoChain(buffered_messages) /\ NoChain(to_server)
    \/ NoChain(to_client) /\ OneChain(buffered_messages, ForServer(proto)) /\ NoChain(to_server)
    \/ NoChain(to_client) /\ NoChain(buffered_messages) /\ OneChain(to_server, ForServer(proto))

ChainInv ==
    Connected => /\ proto \in {"CONNECTED", "IDENTIFIED", "LOADING", "JOINED"}
                 /\ conn_state \in {"CONNECTED", "JOINED"}
                 /\ conn_state = "CONNECTED" => OnItsWay
                 /\ conn_state = "JOINED" => proto = "JOINED"

\* Chat of an earlier connection is still in its channel only before the first flush of this one.
UnsentInv ==
    Connected /\ (\E i \in DOMAIN OutgoingChat : OutgoingChat[i].v # conn)
        => conn_state = "CONNECTED" /\ proto = "CONNECTED" /\ to_server = <<>>

\* Once sent, it reaches the server before the packet that joins.
OvertakenInv ==
    Connected => \A i \in DOMAIN to_server :
        to_server[i].kind = "OOC" /\ to_server[i].v # conn
            => proto # "JOINED" /\ \A j \in DOMAIN to_server : j < i => to_server[j].kind # "RD"

ConnectionInv ==
    AcTypeOK /\ IdleInv /\ ChainInv /\ UnsentInv /\ OvertakenInv /\ ChatStaysWithItsServer /\ NoStaleRequest

LEMMA NoChainConcat ==
    ASSUME NEW p \in Seq(AcPackets), NEW q \in Seq(AcPackets), NoChain(p), NoChain(q)
    PROVE  NoChain(p \o q)
BY DEF NoChain

LEMMA OneChainBefore ==
    ASSUME NEW p \in Seq(AcPackets), NEW q \in Seq(AcPackets), NEW s, OneChain(p, s), NoChain(q)
    PROVE  OneChain(p \o q, s)
<1>1. PICK i \in DOMAIN p : p[i].kind \in s /\ \A j \in DOMAIN p : p[j].kind \in Chain => j = i
  BY DEF OneChain
<1>2. i \in DOMAIN (p \o q) /\ (p \o q)[i] = p[i]
  OBVIOUS
<1>3. ASSUME NEW j \in DOMAIN (p \o q), (p \o q)[j].kind \in Chain PROVE j = i
  <2>1. CASE j <= Len(p)
    BY <1>1, <1>3, <2>1
  <2>2. CASE j > Len(p)
    <3>1. j - Len(p) \in DOMAIN q /\ (p \o q)[j] = q[j - Len(p)]
      BY <2>2
    <3> QED BY <3>1, <1>3 DEF NoChain
  <2> QED BY <2>1, <2>2
<1> QED BY <1>1, <1>2, <1>3 DEF OneChain

LEMMA OneChainAfter ==
    ASSUME NEW p \in Seq(AcPackets), NEW q \in Seq(AcPackets), NEW s, NoChain(p), OneChain(q, s)
    PROVE  OneChain(p \o q, s)
<1>1. PICK i \in DOMAIN q : q[i].kind \in s /\ \A j \in DOMAIN q : q[j].kind \in Chain => j = i
  BY DEF OneChain
<1>2. i + Len(p) \in DOMAIN (p \o q) /\ (p \o q)[i + Len(p)] = q[i]
  OBVIOUS
<1>3. ASSUME NEW j \in DOMAIN (p \o q), (p \o q)[j].kind \in Chain PROVE j = i + Len(p)
  <2>1. CASE j <= Len(p)
    BY <1>3, <2>1 DEF NoChain
  <2>2. CASE j > Len(p)
    <3>1. j - Len(p) \in DOMAIN q /\ (p \o q)[j] = q[j - Len(p)]
      BY <2>2
    <3> QED BY <1>1, <3>1, <1>3
  <2> QED BY <2>1, <2>2
<1> QED BY <1>1, <1>2, <1>3 DEF OneChain

\* Taking the first packet: the handshake moves with it, or stays behind.
LEMMA ChainTaken ==
    ASSUME NEW q \in Seq(AcPackets), q # <<>>, NEW s
    PROVE  /\ NoChain(q) => Head(q).kind \notin Chain /\ NoChain(Tail(q))
           /\ OneChain(q, s) /\ Head(q).kind \in Chain => Head(q).kind \in s /\ NoChain(Tail(q))
           /\ OneChain(q, s) /\ Head(q).kind \notin Chain /\ s \subseteq Chain => OneChain(Tail(q), s)
<1>1. /\ Tail(q) \in Seq(AcPackets) /\ 1 \in DOMAIN q /\ Head(q) = q[1]
      /\ \A i \in DOMAIN Tail(q) : i + 1 \in DOMAIN q /\ Tail(q)[i] = q[i + 1] /\ i \in Nat /\ i >= 1
      /\ \A i \in DOMAIN q : i # 1 => i - 1 \in DOMAIN Tail(q) /\ Tail(q)[i - 1] = q[i] /\ i \in Nat
  OBVIOUS
<1>2. NoChain(q) => Head(q).kind \notin Chain /\ NoChain(Tail(q))
  BY <1>1 DEF NoChain
<1>3. ASSUME OneChain(q, s), Head(q).kind \in Chain PROVE Head(q).kind \in s /\ NoChain(Tail(q))
  <2>1. PICK i \in DOMAIN q : q[i].kind \in s /\ \A j \in DOMAIN q : q[j].kind \in Chain => j = i
    BY <1>3 DEF OneChain
  <2>2. i = 1
    BY <1>1, <1>3, <2>1
  <2>3. ASSUME NEW j \in DOMAIN Tail(q), Tail(q)[j].kind \in Chain PROVE FALSE
    BY <1>1, <2>1, <2>2, <2>3
  <2> QED BY <1>1, <2>1, <2>2, <2>3 DEF NoChain
<1>4. ASSUME OneChain(q, s), Head(q).kind \notin Chain, s \subseteq Chain PROVE OneChain(Tail(q), s)
  <2>1. PICK i \in DOMAIN q : q[i].kind \in s /\ \A j \in DOMAIN q : q[j].kind \in Chain => j = i
    BY <1>4 DEF OneChain
  <2>2. i # 1
    BY <1>1, <1>4, <2>1
  <2>3. i - 1 \in DOMAIN Tail(q) /\ Tail(q)[i - 1].kind \in s
    BY <1>1, <2>1, <2>2
  <2>4. ASSUME NEW j \in DOMAIN Tail(q), Tail(q)[j].kind \in Chain PROVE j = i - 1
    BY <1>1, <2>1, <2>4
  <2> QED BY <2>3, <2>4 DEF OneChain
<1> QED BY <1>2, <1>3, <1>4

\* The client answers the packet of the handshake with the one the server waits for, and no other packet.
LEMMA ChainReply ==
    ASSUME NEW k \in AcPackets, NEW p \in {"CONNECTED", "IDENTIFIED", "LOADING", "JOINED"}
    PROVE  /\ Reply(k) \in Seq([kind : HandshakeAnswers, v : Int])
           /\ k.kind \notin Chain => Reply(k) = <<>>
           /\ k.kind \in ForClient(p) /\ k.kind # "DONE" => OneChain(Reply(k), ForServer(p))
<1>1. DOMAIN ReplyTo = {"decryptor", "ID", "PN", "SI", "SC", "SM"}
  BY DEF ReplyTo
<1>2. k.kind \notin Chain => Reply(k) = <<>>
  BY <1>1 DEF Reply, Chain
<1>3. ASSUME k.kind \in DOMAIN ReplyTo
      PROVE  /\ Reply(k) = <<[kind |-> ReplyTo[k.kind], v |-> 0]>>
             /\ ReplyTo[k.kind] \in HandshakeAnswers
  <2>1. Reply(k) = <<[kind |-> ReplyTo[k.kind], v |-> 0]>>
    BY <1>3 DEF Reply, Packet
  <2>2. ReplyTo[k.kind] \in HandshakeAnswers
    BY <1>1, <1>3 DEF ReplyTo, HandshakeAnswers
  <2> QED BY <2>1, <2>2
<1>4. ASSUME k.kind \in ForClient(p), k.kind # "DONE" PROVE OneChain(Reply(k), ForServer(p))
  <2>1. k.kind \in DOMAIN ReplyTo /\ ReplyTo[k.kind] \in ForServer(p)
    BY <1>1, <1>4 DEF ForClient, ForServer, ReplyTo
  <2> QED BY <1>3, <2>1 DEF OneChain
<1>5. Reply(k) \in Seq([kind : HandshakeAnswers, v : Int])
  <2>1. CASE k.kind \in DOMAIN ReplyTo
    <3>1. [kind |-> ReplyTo[k.kind], v |-> 0] \in [kind : HandshakeAnswers, v : Int]
      BY <1>3, <2>1
    <3>2. ASSUME NEW S, NEW r \in S PROVE <<r>> \in Seq(S)
      OBVIOUS
    <3>3. <<[kind |-> ReplyTo[k.kind], v |-> 0]>> \in Seq([kind : HandshakeAnswers, v : Int])
      BY <3>1, <3>2
    <3> QED BY <1>3, <2>1, <3>3
  <2>2. CASE k.kind \notin DOMAIN ReplyTo
    BY <2>2 DEF Reply
  <2> QED BY <2>1, <2>2
<1> QED BY <1>2, <1>4, <1>5

\* So does the server: its answer is the one packet of the handshake the client waits for.
LEMMA ChainServer ==
    ASSUME NEW k \in AcPackets, proto \in {"CONNECTED", "IDENTIFIED", "LOADING", "JOINED"}, conn \in Nat
    PROVE  /\ ServerReply(k) \in Seq(AcPackets)
           /\ k.kind \notin Chain => NoChain(ServerReply(k)) /\ ServerState(k) = proto
           /\ k.kind \in ForServer(proto) => OneChain(ServerReply(k), ForClient(ServerState(k)))
           /\ ServerState(k) \in {"CONNECTED", "IDENTIFIED", "LOADING", "JOINED"}
           /\ proto = "JOINED" => ServerState(k) = "JOINED"
           /\ proto # "JOINED" /\ k.kind # "RD" => ServerState(k) # "JOINED"
<1> k.v \in Int /\ k.kind \in HandshakeAnswers \cup Greetings \cup {"OOC", "PW", "CC"}
  BY DEF AcPackets
<1>1. ASSUME NEW x \in HandshakeAnswers \cup Greetings \cup {"OOC", "PW", "CC"}, NEW y \in Int
      PROVE  Packet(x, y) \in AcPackets /\ Packet(x, y).kind = x
  BY DEF Packet, AcPackets
<1>2. ServerReply(k) \in Seq(AcPackets)
  <2>1. /\ Packet("ID", 0) \in AcPackets /\ Packet("ASS", conn) \in AcPackets /\ Packet("PN", 0) \in AcPackets
        /\ Packet("FL", 0) \in AcPackets /\ Packet("CT", 0) \in AcPackets /\ Packet("SI", 0) \in AcPackets
        /\ Packet("SC", 0) \in AcPackets /\ Packet("SM", 0) \in AcPackets /\ Packet("CharsCheck", 0) \in AcPackets
        /\ Packet("DONE", 0) \in AcPackets /\ Packet("BN", 0) \in AcPackets /\ Packet("PV", k.v) \in AcPackets
    BY <1>1, 0 \in Int, conn \in Int DEF Greetings
  <2> QED BY <2>1 DEF ServerReply
<1>3. k.kind \notin Chain => NoChain(ServerReply(k)) /\ ServerState(k) = proto
  BY DEF ServerReply, ServerState, Chain, NoChain, Packet
<1>4. ASSUME k.kind \in ForServer(proto) PROVE OneChain(ServerReply(k), ForClient(ServerState(k)))
  <2>1. CASE proto = "CONNECTED"
    <3>1. ServerReply(k) = <<Packet("ID", 0), Packet("ASS", conn)>> /\ ServerState(k) = "IDENTIFIED"
      <4>1. k.kind = "HI"
        BY <1>4, <2>1 DEF ForServer
      <4> QED BY <4>1, <2>1 DEF ServerReply, ServerState
    <3> QED BY <3>1 DEF OneChain, Packet, ForClient, Chain
  <2>2. CASE proto = "IDENTIFIED"
    <3>1. ServerReply(k) = <<Packet("PN", 0), Packet("FL", 0)>> /\ ServerState(k) = "LOADING"
      <4>1. k.kind = "ID"
        BY <1>4, <2>2 DEF ForServer
      <4> QED BY <4>1, <2>2 DEF ServerReply, ServerState
    <3> QED BY <3>1 DEF OneChain, Packet, ForClient, Chain
  <2>3. CASE proto = "LOADING" /\ k.kind # "RD"
    <3>1. ServerState(k) = "LOADING"
      BY <1>4, <2>3 DEF ForServer, ServerState
    <3>2. PICK x \in {"SI", "SC", "SM"} : ServerReply(k) = <<Packet(x, 0)>>
      BY <1>4, <2>3 DEF ForServer, ServerReply
    <3> QED BY <3>1, <3>2 DEF OneChain, Packet, ForClient, Chain
  <2>4. CASE proto = "LOADING" /\ k.kind = "RD"
    <3>1. ServerState(k) = "JOINED" /\ ServerReply(k) = <<Packet("CharsCheck", 0), Packet("DONE", 0), Packet("BN", 0)>>
      BY <1>4, <2>4 DEF ForServer, ServerState, ServerReply
    <3>2. /\ DOMAIN ServerReply(k) = 1..3 /\ ServerReply(k)[2].kind = "DONE"
          /\ ServerReply(k)[1].kind = "CharsCheck" /\ ServerReply(k)[3].kind = "BN"
      BY <3>1 DEF Packet
    <3>3. "DONE" \in ForClient("JOINED")
      BY DEF ForClient
    <3> QED BY <3>1, <3>2, <3>3 DEF OneChain, Chain
  <2>5. CASE proto = "JOINED"
    BY <1>4, <2>5 DEF ForServer
  <2> QED BY <2>1, <2>2, <2>3, <2>4, <2>5
<1>5. /\ ServerState(k) \in {"CONNECTED", "IDENTIFIED", "LOADING", "JOINED"}
      /\ proto = "JOINED" => ServerState(k) = "JOINED"
      /\ proto # "JOINED" /\ k.kind # "RD" => ServerState(k) # "JOINED"
  BY DEF ServerState
<1> QED BY <1>2, <1>3, <1>4, <1>5

LEMMA ConnectionInit == AcInit => ConnectionInv
<1> SUFFICES ASSUME AcInit PROVE ConnectionInv
  OBVIOUS
<1> USE DEF AcInit
<1>1. AcTypeOK
  BY DEF AcTypeOK
<1>2. ~Connected
  BY DEF Connected
<1> QED BY <1>1, <1>2 DEF ConnectionInv, IdleInv, ChainInv, UnsentInv, OvertakenInv, ChatStaysWithItsServer, NoStaleRequest

\* A step of the main thread does not touch the connection; what it writes to the channels is of this connection.
LEMMA MainThreadStep ==
    ASSUME ConnectionInv, UNCHANGED <<acNet, acLink>>,
           OutgoingChat' \in {OutgoingChat, Append(OutgoingChat, Packet("OOC", conn))},
           CharSelectRequest' \in {CharSelectRequest, CharSelectRequest \o <<Packet("PW", 0), Packet("CC", 1)>>},
           DisconnectRequest' \in {DisconnectRequest, DisconnectRequest \cup {conn}}
    PROVE  ConnectionInv'
<1> USE DEF ConnectionInv, acNet, acLink
<1>1. /\ OutgoingChat' \in Seq([kind : {"OOC"}, v : Int])
      /\ \A i \in DOMAIN OutgoingChat' : OutgoingChat'[i].v # conn => i \in DOMAIN OutgoingChat /\ OutgoingChat[i].v # conn
  <2>1. CASE OutgoingChat' = OutgoingChat
    BY <2>1 DEF AcTypeOK
  <2>2. CASE OutgoingChat' = Append(OutgoingChat, Packet("OOC", conn))
    <3>1. OutgoingChat \in Seq([kind : {"OOC"}, v : Int]) /\ Packet("OOC", conn) \in [kind : {"OOC"}, v : Int] /\ Packet("OOC", conn).v = conn
      BY DEF AcTypeOK, Packet
    <3> QED BY <2>2, <3>1
  <2> QED BY <2>1, <2>2
<1>2. CharSelectRequest' \in Seq([kind : {"PW", "CC"}, v : Int])
  <2>1. CASE CharSelectRequest' = CharSelectRequest
    BY <2>1 DEF AcTypeOK
  <2>2. CASE CharSelectRequest' = CharSelectRequest \o <<Packet("PW", 0), Packet("CC", 1)>>
    <3>1. Packet("PW", 0) \in [kind : {"PW", "CC"}, v : Int] /\ Packet("CC", 1) \in [kind : {"PW", "CC"}, v : Int]
      BY DEF Packet
    <3>2. <<Packet("PW", 0), Packet("CC", 1)>> \in Seq([kind : {"PW", "CC"}, v : Int])
      BY <3>1
    <3>3. CharSelectRequest \in Seq([kind : {"PW", "CC"}, v : Int])
      BY DEF AcTypeOK
    <3> QED BY <2>2, <3>2, <3>3
  <2> QED BY <2>1, <2>2
<1>3. AcTypeOK'
  BY <1>1, <1>2 DEF AcTypeOK
<1>4. IdleInv' /\ ChainInv' /\ OvertakenInv'
  BY DEF IdleInv, ChainInv, OvertakenInv, OnItsWay, Connected, OneChain, NoChain
<1>5. UnsentInv'
  BY <1>1 DEF UnsentInv, Connected
<1>6. ChatStaysWithItsServer' /\ NoStaleRequest'
  BY DEF ChatStaysWithItsServer, NoStaleRequest
<1> QED BY <1>3, <1>4, <1>5, <1>6

LEMMA KindsIn ==
    ASSUME NEW K, NEW q \in Seq([kind : K, v : Int]), NEW i \in DOMAIN q
    PROVE  q[i].kind \in K
<1>1. ASSUME NEW S, NEW r \in Seq(S), NEW j \in DOMAIN r PROVE r[j] \in S
  OBVIOUS
<1>2. q[i] \in [kind : K, v : Int]
  BY <1>1
<1> QED BY <1>2

LEMMA SeqOfMore ==
    ASSUME NEW S, NEW T, S \subseteq T, NEW q \in Seq(S)
    PROVE  q \in Seq(T)
OBVIOUS

\* The types in a form the lemmas on queues take.
LEMMA QueuesTyped ==
    ASSUME AcTypeOK
    PROVE  /\ to_client \in Seq(AcPackets) /\ to_server \in Seq(AcPackets) /\ buffered_messages \in Seq(AcPackets)
           /\ OutgoingChat \in Seq(AcPackets) /\ NoChain(OutgoingChat)
           /\ CharSelectRequest \in Seq(AcPackets) /\ NoChain(CharSelectRequest)
<1>1. [kind : HandshakeAnswers, v : Int] \subseteq AcPackets /\ [kind : {"OOC"}, v : Int] \subseteq AcPackets
      /\ [kind : {"PW", "CC"}, v : Int] \subseteq AcPackets
  BY DEF AcPackets
<1>2. \A i \in DOMAIN OutgoingChat : OutgoingChat[i].kind \in {"OOC"}
  BY KindsIn DEF AcTypeOK
<1>3. \A i \in DOMAIN CharSelectRequest : CharSelectRequest[i].kind \in {"PW", "CC"}
  BY KindsIn DEF AcTypeOK
<1>4. NoChain(OutgoingChat) /\ NoChain(CharSelectRequest)
  BY <1>2, <1>3 DEF NoChain, Chain
<1> QED BY <1>1, <1>4, SeqOfMore DEF AcTypeOK

LEMMA MessageKeeps ==
    ASSUME ConnectionInv, HandleMessage
    PROVE  ConnectionInv'
<1> USE DEF ConnectionInv
<1> DEFINE k == Head(to_client)
           r == IF conn_state = "CONNECTED" THEN Reply(k) ELSE <<>>
<1>1. /\ Connected /\ Connected' /\ to_client # <<>> /\ to_client' = Tail(to_client)
      /\ buffered_messages' = buffered_messages \o r
      /\ UNCHANGED <<conn, to_server, proto, posted, OutgoingChat, CharSelectRequest, DisconnectRequest>>
      /\ net \in {"loop", "pass"} /\ net' = "pass"
      /\ conn_state' = IF k.kind = "DONE" /\ conn_state = "CONNECTED" THEN "JOINED" ELSE conn_state
  BY DEF HandleMessage, InPass, Connected
<1>2. to_client \in Seq(AcPackets) /\ to_server \in Seq(AcPackets) /\ buffered_messages \in Seq(AcPackets)
  BY QueuesTyped
<1>3. k \in AcPackets /\ to_client' \in Seq(AcPackets)
  BY <1>1, <1>2
<1>4. /\ proto \in {"CONNECTED", "IDENTIFIED", "LOADING", "JOINED"} /\ conn_state \in {"CONNECTED", "JOINED"}
      /\ conn_state = "CONNECTED" => OnItsWay
      /\ conn_state = "JOINED" => proto = "JOINED"
  BY <1>1 DEF ChainInv
<1>5. /\ r \in Seq([kind : HandshakeAnswers, v : Int]) /\ r \in Seq(AcPackets)
      /\ k.kind \notin Chain => r = <<>>
      /\ conn_state = "CONNECTED" /\ k.kind \in ForClient(proto) /\ k.kind # "DONE" => OneChain(r, ForServer(proto))
  <2>1. /\ Reply(k) \in Seq([kind : HandshakeAnswers, v : Int])
        /\ k.kind \notin Chain => Reply(k) = <<>>
        /\ k.kind \in ForClient(proto) /\ k.kind # "DONE" => OneChain(Reply(k), ForServer(proto))
    BY <1>3, <1>4, ChainReply
  <2>2. r \in Seq([kind : HandshakeAnswers, v : Int])
    BY <2>1
  <2>3. [kind : HandshakeAnswers, v : Int] \subseteq AcPackets
    BY DEF AcPackets
  <2>4. r \in Seq(AcPackets)
    BY <2>2, <2>3, SeqOfMore
  <2> QED BY <2>1, <2>2, <2>4
<1>6. AcTypeOK'
  <2>1. buffered_messages' \in Seq([kind : HandshakeAnswers, v : Int])
    BY <1>1, <1>5 DEF AcTypeOK
  <2> QED BY <1>1, <1>3, <2>1 DEF AcTypeOK
<1>7. ChainInv'
  <2>1. CASE conn_state = "JOINED"
    BY <1>1, <1>4, <2>1 DEF ChainInv
  <2>2. CASE conn_state = "CONNECTED" /\ k.kind \in Chain
    <3>1. OneChain(to_client, ForClient(proto)) /\ NoChain(buffered_messages) /\ NoChain(to_server)
      BY <1>1, <1>2, <1>4, <2>2, ChainTaken DEF OnItsWay
    <3>2. k.kind \in ForClient(proto) /\ NoChain(to_client')
      BY <1>1, <1>2, <2>2, <3>1, ChainTaken
    <3>3. CASE k.kind = "DONE"
      <4>1. proto = "JOINED"
        BY <1>4, <3>2, <3>3 DEF ForClient
      <4> QED BY <1>1, <2>2, <3>3, <4>1 DEF ChainInv
    <3>4. CASE k.kind # "DONE"
      <4>1. OneChain(buffered_messages', ForServer(proto))
        BY <1>1, <1>2, <1>5, <2>2, <3>1, <3>2, <3>4, OneChainAfter
      <4>2. OnItsWay'
        BY <1>1, <3>1, <3>2, <4>1 DEF OnItsWay, NoChain, OneChain
      <4> QED BY <1>1, <1>4, <2>2, <3>4, <4>2 DEF ChainInv
    <3> QED BY <3>3, <3>4
  <2>3. CASE conn_state = "CONNECTED" /\ k.kind \notin Chain
    <3>1. buffered_messages' = buffered_messages
      BY <1>1, <1>2, <1>5, <2>3
    <3>2. conn_state' = conn_state
      BY <1>1, <2>3 DEF Chain
    <3>3. ForClient(proto) \subseteq Chain
      BY DEF ForClient, Chain
    <3>4. OneChain(to_client, ForClient(proto)) => OneChain(to_client', ForClient(proto))
      BY <1>1, <1>2, <2>3, <3>3, ChainTaken
    <3>5. NoChain(to_client) => NoChain(to_client')
      BY <1>1, <1>2, ChainTaken
    <3>6. OnItsWay'
      BY <1>1, <1>4, <2>3, <3>1, <3>4, <3>5 DEF OnItsWay, NoChain, OneChain
    <3> QED BY <1>1, <1>4, <2>3, <3>2, <3>6 DEF ChainInv
  <2> QED BY <1>4, <2>1, <2>2, <2>3
<1>8. UnsentInv'
  <2> SUFFICES ASSUME \E i \in DOMAIN OutgoingChat : OutgoingChat[i].v # conn
               PROVE  conn_state' = "CONNECTED"
    BY <1>1 DEF UnsentInv
  <2>1. conn_state = "CONNECTED" /\ proto = "CONNECTED"
    BY <1>1 DEF UnsentInv
  <2>2. k.kind # "DONE"
    BY <1>1, <1>2, <1>4, <2>1, ChainTaken DEF OnItsWay, ForClient, Chain
  <2> QED BY <1>1, <2>1, <2>2
<1>9. IdleInv' /\ OvertakenInv' /\ ChatStaysWithItsServer' /\ NoStaleRequest'
  BY <1>1 DEF IdleInv, OvertakenInv, ChatStaysWithItsServer, NoStaleRequest
<1> QED BY <1>6, <1>7, <1>8, <1>9

LEMMA FlushKeeps ==
    ASSUME ConnectionInv, flush_outgoing
    PROVE  ConnectionInv'
<1> USE DEF ConnectionInv
<1> DEFINE ours == OutgoingChat \o CharSelectRequest
<1>1. /\ Connected /\ Connected' /\ net \in {"loop", "pass"} /\ net' = "loop"
      /\ to_server' = to_server \o buffered_messages \o OutgoingChat \o CharSelectRequest
      /\ buffered_messages' = <<>> /\ OutgoingChat' = <<>> /\ CharSelectRequest' = <<>>
      /\ UNCHANGED <<conn, conn_state, to_client, proto, posted, DisconnectRequest>>
  BY DEF flush_outgoing, InPass, Connected
<1>2. /\ to_client \in Seq(AcPackets) /\ to_server \in Seq(AcPackets) /\ buffered_messages \in Seq(AcPackets)
      /\ OutgoingChat \in Seq(AcPackets) /\ NoChain(OutgoingChat)
      /\ CharSelectRequest \in Seq(AcPackets) /\ NoChain(CharSelectRequest)
  BY QueuesTyped
<1>3. ours \in Seq(AcPackets) /\ NoChain(ours)
  BY <1>2, NoChainConcat
<1>4. to_server' = (to_server \o buffered_messages) \o ours /\ to_server \o buffered_messages \in Seq(AcPackets)
  BY <1>1, <1>2
<1>5. AcTypeOK'
  <2>1. to_server' \in Seq(AcPackets)
    BY <1>3, <1>4
  <2> QED BY <1>1, <2>1 DEF AcTypeOK
<1>6. ChainInv'
  <2>1. NoChain(buffered_messages')
    BY <1>1 DEF NoChain
  <2>2. ASSUME OnItsWay PROVE OnItsWay'
    <3>1. CASE NoChain(buffered_messages) /\ NoChain(to_server)
      <4>1. NoChain(to_server')
        BY <1>2, <1>3, <1>4, <3>1, NoChainConcat
      <4>2. OneChain(to_client, ForClient(proto))
        BY <2>2, <3>1 DEF OnItsWay, OneChain, NoChain, ForServer, Chain
      <4> QED BY <1>1, <2>1, <4>1, <4>2 DEF OnItsWay, OneChain
    <3>2. CASE ~(NoChain(buffered_messages) /\ NoChain(to_server))
      <4>1. NoChain(to_client)
        BY <2>2, <3>2 DEF OnItsWay
      <4>2. OneChain(to_server \o buffered_messages, ForServer(proto))
        BY <1>2, <2>2, <3>2, OneChainBefore, OneChainAfter DEF OnItsWay
      <4>3. OneChain(to_server', ForServer(proto))
        BY <1>3, <1>4, <4>2, OneChainBefore
      <4> QED BY <1>1, <2>1, <4>1, <4>3 DEF OnItsWay, OneChain, NoChain
    <3> QED BY <3>1, <3>2
  <2> QED BY <1>1, <2>2 DEF ChainInv
<1>7. OvertakenInv'
  <2> SUFFICES ASSUME NEW i \in DOMAIN to_server', to_server'[i].kind = "OOC", to_server'[i].v # conn
               PROVE  proto # "JOINED" /\ \A j \in DOMAIN to_server' : j < i => to_server'[j].kind # "RD"
    BY <1>1 DEF OvertakenInv
  <2>1. CASE i \in DOMAIN to_server
    <3>1. \A j \in DOMAIN to_server' : j <= i => j \in DOMAIN to_server /\ to_server'[j] = to_server[j]
      BY <1>2, <1>3, <1>4, <2>1
    <3> QED BY <1>1, <1>2, <2>1, <3>1 DEF OvertakenInv
  <2>2. CASE i \notin DOMAIN to_server
    <3>1. \A j \in DOMAIN buffered_messages : buffered_messages[j].kind # "OOC"
      <4>1. \A j \in DOMAIN buffered_messages : buffered_messages[j].kind \in HandshakeAnswers
        BY KindsIn DEF AcTypeOK
      <4> QED BY <4>1 DEF HandshakeAnswers
    <3>2. \A j \in DOMAIN CharSelectRequest : CharSelectRequest[j].kind # "OOC"
      <4>1. \A j \in DOMAIN CharSelectRequest : CharSelectRequest[j].kind \in {"PW", "CC"}
        BY KindsIn DEF AcTypeOK
      <4> QED BY <4>1
    <3>3. i \notin DOMAIN (to_server \o buffered_messages)
      <4>1. SUFFICES ASSUME i \in DOMAIN (to_server \o buffered_messages) PROVE FALSE
        OBVIOUS
      <4>2. to_server'[i] = buffered_messages[i - Len(to_server)] /\ i - Len(to_server) \in DOMAIN buffered_messages
        BY <1>2, <1>3, <1>4, <2>2, <4>1
      <4> QED BY <3>1, <4>2
    <3> DEFINE i2 == i - Len(to_server \o buffered_messages)
    <3>4. i2 \in DOMAIN ours /\ to_server'[i] = ours[i2]
      BY <1>3, <1>4, <3>3
    <3>5. PICK n \in DOMAIN OutgoingChat : OutgoingChat[n].v # conn
      <4>1. CASE i2 \in DOMAIN OutgoingChat
        BY <1>2, <3>4, <4>1
      <4>2. CASE i2 \notin DOMAIN OutgoingChat
        <5>1. i2 - Len(OutgoingChat) \in DOMAIN CharSelectRequest /\ ours[i2] = CharSelectRequest[i2 - Len(OutgoingChat)]
          BY <1>2, <3>4, <4>2
        <5> QED BY <3>2, <3>4, <5>1
      <4> QED BY <4>1, <4>2
    <3>6. conn_state = "CONNECTED" /\ proto = "CONNECTED" /\ to_server = <<>>
      BY <1>1, <3>5 DEF UnsentInv
    <3>7. \A j \in DOMAIN buffered_messages : buffered_messages[j].kind # "RD"
      BY <1>1, <3>6 DEF ChainInv, OnItsWay, NoChain, OneChain, ForServer, Chain
    <3>8. ASSUME NEW j \in DOMAIN to_server', to_server'[j].kind = "RD" PROVE FALSE
      <4>1. CASE j \in DOMAIN (to_server \o buffered_messages)
        <5>1. j \in DOMAIN buffered_messages /\ to_server'[j] = buffered_messages[j]
          BY <1>2, <1>3, <1>4, <3>6, <4>1
        <5> QED BY <3>7, <3>8, <5>1
      <4>2. CASE j \notin DOMAIN (to_server \o buffered_messages)
        <5> DEFINE j2 == j - Len(to_server \o buffered_messages)
        <5>1. j2 \in DOMAIN ours /\ to_server'[j] = ours[j2]
          BY <1>3, <1>4, <4>2
        <5> QED BY <1>3, <3>8, <5>1 DEF NoChain, Chain
      <4> QED BY <4>1, <4>2
    <3> QED BY <3>6, <3>8
  <2> QED BY <2>1, <2>2
<1>8. UnsentInv' /\ IdleInv' /\ ChatStaysWithItsServer' /\ NoStaleRequest'
  BY <1>1 DEF UnsentInv, IdleInv, ChatStaysWithItsServer, NoStaleRequest
<1> QED BY <1>5, <1>6, <1>7, <1>8

LEMMA HandshakeKeeps ==
    ASSUME ConnectionInv, ServerStep
    PROVE  ConnectionInv'
<1> USE DEF ConnectionInv
<1> DEFINE k == Head(to_server)
<1>1. /\ to_server # <<>> /\ to_server' = Tail(to_server) /\ to_client' = to_client \o ServerReply(k) /\ proto' = ServerState(k)
      /\ posted' = IF k.kind = "OOC" /\ proto = "JOINED" THEN posted \cup {<<k.v, conn>>} ELSE posted
      /\ UNCHANGED <<net, conn, conn_state, buffered_messages, OutgoingChat, CharSelectRequest, DisconnectRequest>>
  BY DEF ServerStep, acNet, acChannels
<1>2. Connected /\ Connected'
  BY <1>1 DEF IdleInv, Connected
<1>3. /\ to_client \in Seq(AcPackets) /\ to_server \in Seq(AcPackets) /\ buffered_messages \in Seq(AcPackets)
      /\ k \in AcPackets /\ Tail(to_server) \in Seq(AcPackets)
  BY <1>1, QueuesTyped
<1>4. /\ proto \in {"CONNECTED", "IDENTIFIED", "LOADING", "JOINED"} /\ conn_state \in {"CONNECTED", "JOINED"}
      /\ conn_state = "CONNECTED" => OnItsWay
      /\ conn_state = "JOINED" => proto = "JOINED"
  BY <1>2 DEF ChainInv
<1>5. /\ ServerReply(k) \in Seq(AcPackets)
      /\ k.kind \notin Chain => NoChain(ServerReply(k)) /\ ServerState(k) = proto
      /\ k.kind \in ForServer(proto) => OneChain(ServerReply(k), ForClient(ServerState(k)))
      /\ ServerState(k) \in {"CONNECTED", "IDENTIFIED", "LOADING", "JOINED"}
      /\ proto = "JOINED" => ServerState(k) = "JOINED"
      /\ proto # "JOINED" /\ k.kind # "RD" => ServerState(k) # "JOINED"
  <2>1. conn \in Nat
    BY DEF AcTypeOK
  <2> QED BY <1>3, <1>4, <2>1, ChainServer
<1>6. AcTypeOK'
  BY <1>1, <1>3, <1>5 DEF AcTypeOK
<1>7. ChainInv'
  <2>1. ASSUME OnItsWay PROVE OnItsWay'
    <3>1. CASE k.kind \in Chain
      <4>1. NoChain(to_client) /\ NoChain(buffered_messages) /\ OneChain(to_server, ForServer(proto))
        BY <1>1, <1>3, <2>1, <3>1, ChainTaken DEF OnItsWay
      <4>2. k.kind \in ForServer(proto) /\ NoChain(to_server')
        BY <1>1, <1>3, <3>1, <4>1, ChainTaken
      <4>3. OneChain(to_client', ForClient(proto'))
        BY <1>1, <1>3, <1>5, <4>1, <4>2, OneChainAfter
      <4> QED BY <1>1, <4>1, <4>2, <4>3 DEF OnItsWay, NoChain
    <3>2. CASE k.kind \notin Chain
      <4>1. NoChain(ServerReply(k)) /\ proto' = proto
        BY <1>1, <1>5, <3>2
      <4>2. NoChain(to_client) => NoChain(to_client')
        BY <1>1, <1>3, <1>5, <4>1, NoChainConcat
      <4>3. OneChain(to_client, ForClient(proto)) => OneChain(to_client', ForClient(proto))
        BY <1>1, <1>3, <1>5, <4>1, OneChainBefore
      <4>4. NoChain(to_server) => NoChain(to_server')
        BY <1>1, <1>3, ChainTaken
      <4>5. ForServer(proto) \subseteq Chain
        BY DEF ForServer, Chain
      <4>6. OneChain(to_server, ForServer(proto)) => OneChain(to_server', ForServer(proto))
        BY <1>1, <1>3, <3>2, <4>5, ChainTaken
      <4> QED BY <1>1, <2>1, <4>1, <4>2, <4>3, <4>4, <4>6 DEF OnItsWay, NoChain, OneChain
    <3> QED BY <3>1, <3>2
  <2> QED BY <1>1, <1>4, <1>5, <2>1 DEF ChainInv
<1>8. /\ \A i \in DOMAIN to_server' : i + 1 \in DOMAIN to_server /\ to_server'[i] = to_server[i + 1] /\ i \in Nat /\ i >= 1
      /\ 1 \in DOMAIN to_server /\ k = to_server[1]
  BY <1>1, <1>3
<1>9. OvertakenInv'
  <2> SUFFICES ASSUME NEW i \in DOMAIN to_server', to_server'[i].kind = "OOC", to_server'[i].v # conn
               PROVE  proto' # "JOINED" /\ \A j \in DOMAIN to_server' : j < i => to_server'[j].kind # "RD"
    BY <1>1 DEF OvertakenInv
  <2>1. proto # "JOINED" /\ \A j \in DOMAIN to_server : j < i + 1 => to_server[j].kind # "RD"
    BY <1>2, <1>8 DEF OvertakenInv
  <2>2. k.kind # "RD"
    BY <1>8, <2>1
  <2>3. \A j \in DOMAIN to_server' : j < i => to_server'[j].kind # "RD"
    BY <1>8, <2>1
  <2> QED BY <1>1, <1>5, <2>1, <2>2, <2>3
<1>10. ChatStaysWithItsServer'
  <2>1. k.kind = "OOC" /\ proto = "JOINED" => k.v = conn
    BY <1>2, <1>8 DEF OvertakenInv
  <2>2. k.kind = "OOC" /\ proto = "JOINED" => <<k.v, conn>>[1] = <<k.v, conn>>[2]
    BY <2>1
  <2> QED BY <1>1, <2>2 DEF ChatStaysWithItsServer
<1>11. UnsentInv'
  BY <1>1, <1>2 DEF UnsentInv
<1>12. IdleInv' /\ NoStaleRequest'
  BY <1>1, <1>2 DEF IdleInv, NoStaleRequest
<1> QED BY <1>6, <1>7, <1>9, <1>10, <1>11, <1>12

LEMMA ConnectionStep ==
    ASSUME ConnectionInv, [AcNext]_acVars
    PROVE  ConnectionInv'
<1>1. CASE NetTake \/ ConnectFails
  <2>1. /\ ~Connected /\ ~Connected' /\ net' \in {"idle", "connecting"}
        /\ UNCHANGED <<conn, buffered_messages, OutgoingChat, CharSelectRequest, acLink>>
    BY <1>1 DEF NetTake, ConnectFails, Connected
  <2> QED BY <2>1 DEF ConnectionInv, AcTypeOK, acLink, IdleInv, ChainInv, UnsentInv, OvertakenInv, ChatStaysWithItsServer, NoStaleRequest
<1>2. CASE ConnectSucceeds
  <2>1. /\ net' = "connected" /\ ~Connected /\ Connected' /\ conn' = conn + 1 /\ conn_state' = "CONNECTED"
        /\ to_client' = <<Packet("decryptor", 0)>> /\ to_server' = <<>> /\ proto' = "CONNECTED"
        /\ UNCHANGED <<buffered_messages, OutgoingChat, CharSelectRequest, posted>>
    BY <1>2 DEF ConnectSucceeds, Connected
  <2>2. Packet("decryptor", 0) \in AcPackets /\ Packet("decryptor", 0).kind = "decryptor"
    BY DEF Packet, AcPackets, Greetings
  <2>3. AcTypeOK'
    BY <2>1, <2>2 DEF ConnectionInv, AcTypeOK
  <2>4. OneChain(to_client', ForClient("CONNECTED"))
    BY <2>1, <2>2 DEF OneChain, ForClient
  <2>5. buffered_messages' = <<>>
    BY <2>1 DEF ConnectionInv, IdleInv
  <2>6. OnItsWay'
    BY <2>1, <2>4, <2>5 DEF OnItsWay, NoChain
  <2>7. ChainInv' /\ UnsentInv' /\ OvertakenInv' /\ IdleInv'
    BY <2>1, <2>6 DEF ChainInv, UnsentInv, OvertakenInv, IdleInv
  <2>8. ChatStaysWithItsServer' /\ NoStaleRequest'
    BY <2>1 DEF ConnectionInv, ChatStaysWithItsServer, NoStaleRequest
  <2> QED BY <2>3, <2>7, <2>8 DEF ConnectionInv
<1>3. CASE EnterLoop
  <2>1. /\ net' = "loop" /\ Connected /\ Connected' /\ DisconnectRequest' = {}
        /\ UNCHANGED <<conn, conn_state, buffered_messages, OutgoingChat, CharSelectRequest, acLink>>
    BY <1>3 DEF EnterLoop, Connected
  <2> QED BY <2>1 DEF ConnectionInv, AcTypeOK, acLink, IdleInv, ChainInv, OnItsWay, NoChain, OneChain, UnsentInv, OvertakenInv,
                      ChatStaysWithItsServer, NoStaleRequest
<1>4. CASE DisconnectRequested \/ ConnectionLost
  <2>1. /\ net' = "idle" /\ ~Connected' /\ to_client' = <<>> /\ to_server' = <<>> /\ buffered_messages' = <<>>
        /\ UNCHANGED <<conn, OutgoingChat, CharSelectRequest, posted>>
    BY <1>4 DEF DisconnectRequested, ConnectionLost, Disconnected, Connected
  <2> QED BY <2>1 DEF ConnectionInv, AcTypeOK, IdleInv, ChainInv, UnsentInv, OvertakenInv, ChatStaysWithItsServer, NoStaleRequest
<1>5. CASE HandleMessage
  BY <1>5, MessageKeeps
<1>6. CASE flush_outgoing
  BY <1>6, FlushKeeps
<1>7. CASE ServerStep
  BY <1>7, HandshakeKeeps
<1>8. CASE FrameStart \/ FrameEnd \/ NoInput \/ PopScreen
  <2>1. UNCHANGED <<acNet, acLink, OutgoingChat, CharSelectRequest, DisconnectRequest>>
    BY <1>8 DEF FrameStart, FrameEnd, NoInput, PopScreen, SameNet, acChannels
  <2> QED BY <2>1, MainThreadStep
<1>9. ASSUME NEW s \in Servers, select_server(s) PROVE ConnectionInv'
  <2>1. UNCHANGED <<acNet, acLink, OutgoingChat, CharSelectRequest, DisconnectRequest>>
    BY <1>9 DEF select_server, SameNet
  <2> QED BY <2>1, MainThreadStep
<1>10. ASSUME NEW again \in BOOLEAN, select_character(again) PROVE ConnectionInv'
  <2>1. /\ UNCHANGED <<acNet, acLink, OutgoingChat, DisconnectRequest>>
        /\ CharSelectRequest' \in {CharSelectRequest, CharSelectRequest \o <<Packet("PW", 0), Packet("CC", 1)>>}
    BY <1>10 DEF select_character, SameNet
  <2> QED BY <2>1, MainThreadStep
<1>11. CASE WriteChat
  <2>1. /\ UNCHANGED <<acNet, acLink, CharSelectRequest, DisconnectRequest>>
        /\ OutgoingChat' = Append(OutgoingChat, Packet("OOC", conn))
    BY <1>11 DEF WriteChat, SameNet
  <2> QED BY <2>1, MainThreadStep
<1>12. CASE PopToRoot
  <2>1. /\ UNCHANGED <<acNet, acLink, OutgoingChat, CharSelectRequest>>
        /\ DisconnectRequest' = DisconnectRequest \cup {conn}
    BY <1>12 DEF PopToRoot, SameNet
  <2> QED BY <2>1, MainThreadStep
<1>13. CASE UNCHANGED acVars
  <2>1. UNCHANGED <<acNet, acLink, OutgoingChat, CharSelectRequest, DisconnectRequest>>
    BY <1>13 DEF acVars, acChannels
  <2> QED BY <2>1, MainThreadStep
<1> QED BY <1>1, <1>2, <1>3, <1>4, <1>5, <1>6, <1>7, <1>8, <1>9, <1>10, <1>11, <1>12, <1>13 DEF AcNext

\* The inductive invariant of the client's connections (WSClientThread::ws_loop, AOClient, the packet handlers of
\* both ends): the handshake has one packet on its way that its receiver is ready for, and chat of an earlier
\* connection is ahead of the packet that joins.
THEOREM ConnectionInvariant == AcSpec => []ConnectionInv
<1>1. AcInit => ConnectionInv
  BY ConnectionInit
<1>2. ConnectionInv /\ [AcNext]_acVars => ConnectionInv'
  BY ConnectionStep
<1> QED BY <1>1, <1>2, PTL DEF AcSpec

LEMMA ChainCount ==
    ASSUME NEW q
    PROVE  /\ NoChain(q) => OnChain(q) = 0
           /\ \A s : s \subseteq Chain /\ OneChain(q, s) => OnChain(q) = 1
<1>1. NoChain(q) => {i \in DOMAIN q : q[i].kind \in Chain} = {}
  BY DEF NoChain
<1>2. ASSUME NEW s, s \subseteq Chain, OneChain(q, s) PROVE OnChain(q) = 1
  <2>1. PICK i \in DOMAIN q : q[i].kind \in s /\ \A j \in DOMAIN q : q[j].kind \in Chain => j = i
    BY <1>2 DEF OneChain
  <2>2. {j \in DOMAIN q : q[j].kind \in Chain} = {i}
    BY <1>2, <2>1
  <2> QED BY <2>2, FS_Singleton DEF OnChain
<1> QED BY <1>1, <1>2, FS_EmptySet DEF OnChain

\* Connections do not leak into each other and a handshake never stops half-way, for any number of connections,
\* inputs and servers and any schedule of the network thread, the main thread and the server (ws_loop, flush_outgoing,
\* the packet handlers).
THEOREM ConnectionAlwaysSound == AcSpec => []ConnectionSound
<1>1. ConnectionInv => ConnectionSound
  <2> SUFFICES ASSUME ConnectionInv PROVE HandshakeAlive
    BY DEF ConnectionInv, ConnectionSound
  <2> SUFFICES ASSUME Connected, conn_state = "CONNECTED"
               PROVE  OnChain(to_client) + OnChain(buffered_messages) + OnChain(to_server) = 1
    BY DEF ConnectionInv, ChainInv, HandshakeAlive, Connected
  <2>1. OnItsWay
    BY DEF ConnectionInv, ChainInv
  <2>2. ForClient(proto) \subseteq Chain /\ ForServer(proto) \subseteq Chain
    BY DEF ForClient, ForServer, Chain
  <2> QED BY <2>1, <2>2, ChainCount DEF OnItsWay
<1> QED BY <1>1, ConnectionInvariant, PTL

-----------------------------------------------------------------------------
(* The asset cache. *)

\* f[k] is the list l up to place k, without ps.
Keeps(f, l, ps, n) ==
    /\ f = [k \in 0..n |-> f[k]]
    /\ f[0] = <<>> /\ \A k \in 1..n : f[k] = IF l[k] \in ps THEN f[k - 1] ELSE Append(f[k - 1], l[k])

\* The recursive function of Without exists ...
LEMMA KeepsExist ==
    ASSUME NEW l, NEW ps
    PROVE  \A n \in Nat : \E f : Keeps(f, l, ps, n)
<1> DEFINE S == {n \in Nat : \E f : Keeps(f, l, ps, n)}
<1>1. 0 \in S
  <2>1. Keeps([k \in 0..0 |-> <<>>], l, ps, 0)
    BY DEF Keeps
  <2> QED BY <2>1
<1>2. ASSUME NEW n \in Nat, n \in S PROVE n + 1 \in S
  <2>1. PICK f : Keeps(f, l, ps, n)
    BY <1>2
  <2> DEFINE next(k) == IF l[k] \in ps THEN f[k - 1] ELSE Append(f[k - 1], l[k])
             g == [k \in 0..(n + 1) |-> IF k <= n THEN f[k] ELSE next(k)]
  <2>2. g = [k \in 0..(n + 1) |-> g[k]] /\ g[0] = <<>>
    <3>1. f[0] = <<>>
      BY <2>1 DEF Keeps
    <3>2. g[0] = f[0]
      OBVIOUS
    <3>3. g = [k \in 0..(n + 1) |-> g[k]]
      OBVIOUS
    <3> QED BY <3>1, <3>2, <3>3, Zenon
  <2>3. ASSUME NEW k \in 1..(n + 1)
        PROVE  g[k] = IF l[k] \in ps THEN g[k - 1] ELSE Append(g[k - 1], l[k])
    <3>1. g[k - 1] = f[k - 1]
      OBVIOUS
    <3>2. CASE k <= n
      <4>1. g[k] = f[k] /\ k \in 1..n
        BY <3>2
      <4>2. f[k] = next(k)
        BY <2>1, <4>1, Zenon DEF Keeps
      <4> QED BY <3>1, <4>1, <4>2, Zenon
    <3>3. CASE ~(k <= n)
      <4>1. k \in 0..(n + 1)
        OBVIOUS
      <4>2. g[k] = next(k)
        BY <3>3, <4>1, Zenon
      <4> QED BY <3>1, <4>2, Zenon
    <3> QED BY <3>2, <3>3
  <2>4. Keeps(g, l, ps, n + 1)
    BY <2>2, <2>3, Zenon DEF Keeps
  <2> QED BY <2>4
<1> HIDE DEF S
<1>3. \A n \in Nat : n \in S
  BY <1>1, <1>2, InductionBySet
<1> QED BY <1>3 DEF S

\* ... so that its equations hold.
LEMMA WithoutUnfolds ==
    ASSUME NEW l, NEW ps, Len(l) \in Nat
    PROVE  \E f : Keeps(f, l, ps, Len(l)) /\ Without(l, ps) = f[Len(l)]
<1> DEFINE n == Len(l)
           Def(f) == [i \in 0..n |-> IF i = 0 THEN <<>>
                                     ELSE IF l[i] \in ps THEN f[i - 1] ELSE Append(f[i - 1], l[i])]
           g == CHOOSE f : f = Def(f)
<1>1. PICK f : Keeps(f, l, ps, n)
  BY KeepsExist
<1>2. f = Def(f)
  <2>1. ASSUME NEW k \in 0..n PROVE f[k] = Def(f)[k]
    <3>1. CASE k = 0
      BY <1>1, <3>1 DEF Keeps
    <3>2. CASE k # 0
      <4>1. k \in 1..n
        BY <3>2
      <4>2. f[k] = IF l[k] \in ps THEN f[k - 1] ELSE Append(f[k - 1], l[k])
        BY <1>1, <4>1, Zenon DEF Keeps
      <4> QED BY <3>2, <4>2, Zenon
    <3> QED BY <3>1, <3>2
  <2>2. f = [k \in 0..n |-> f[k]]
    BY <1>1, Zenon DEF Keeps
  <2> QED BY <2>1, <2>2, Zenon
<1>3. g = Def(g)
  BY <1>2, Zenon
<1>4. Without(l, ps) = g[n]
  BY DEF Without
<1> HIDE DEF g
<1>5. Keeps(g, l, ps, n)
  <2>1. ASSUME NEW k \in 1..n
        PROVE  g[k] = IF l[k] \in ps THEN g[k - 1] ELSE Append(g[k - 1], l[k])
    <3>1. k # 0 /\ k \in 0..n
      OBVIOUS
    <3> QED BY <1>3, <3>1, Zenon
  <2>2. g = [k \in 0..n |-> g[k]]
    BY <1>3, Zenon
  <2>3. g[0] = <<>>
    <3>1. 0 \in 0..n
      OBVIOUS
    <3> QED BY <1>3, <3>1, Zenon
  <2> QED BY <2>1, <2>2, <2>3, Zenon DEF Keeps
<1> QED BY <1>4, <1>5

Distinct(l) == \A i, j \in DOMAIN l : l[i] = l[j] => i = j

LEMMA DistinctAppend ==
    ASSUME NEW S, NEW s \in Seq(S), Distinct(s), NEW e \in S, e \notin ToSet(s)
    PROVE  Distinct(Append(s, e))
<1> DEFINE r == Append(s, e)
<1>1. /\ DOMAIN r = 1..(Len(s) + 1) /\ \A i \in DOMAIN s : r[i] = s[i]
      /\ r[Len(s) + 1] = e
  BY ToSetAppend
<1>2. DOMAIN s = 1..Len(s) /\ Len(s) \in Nat
  BY SeqIsFunction
<1>3. \A i \in DOMAIN s : s[i] # e
  BY DEF ToSet
<1> HIDE DEF r
<1>4. ASSUME NEW i \in DOMAIN r, NEW j \in DOMAIN r, r[i] = r[j] PROVE i = j
  <2>1. (i \in DOMAIN s \/ i = Len(s) + 1) /\ (j \in DOMAIN s \/ j = Len(s) + 1)
    BY <1>1, <1>2
  <2> QED BY <2>1, <1>1, <1>3, <1>4 DEF Distinct
<1> QED BY <1>4 DEF Distinct, r

\* What Without leaves: the other paths, each once.
LEMMA WithoutLeaves ==
    ASSUME NEW S, NEW l \in Seq(S), Distinct(l), NEW ps
    PROVE  /\ Without(l, ps) \in Seq(S) /\ ToSet(Without(l, ps)) = ToSet(l) \ ps
           /\ Distinct(Without(l, ps))
<1> DEFINE n == Len(l)
           upto(k) == {l[i] : i \in 1..k} \ ps
<1>0. n \in Nat /\ DOMAIN l = 1..n /\ \A i \in 1..n : l[i] \in S
  BY SeqIsFunction
<1>1. PICK f : Keeps(f, l, ps, n) /\ Without(l, ps) = f[n]
  BY <1>0, WithoutUnfolds
<1> DEFINE Good(k) == f[k] \in Seq(S) /\ ToSet(f[k]) = upto(k) /\ Distinct(f[k])
           T == {k \in Nat : k <= n => Good(k)}
<1>2. 0 \in T
  <2>1. f[0] = <<>>
    BY <1>1 DEF Keeps
  <2>2. <<>> \in Seq(S) /\ Distinct(<<>>)
    BY DEF Distinct
  <2>3. upto(0) = {}
    OBVIOUS
  <2> QED BY <2>1, <2>2, <2>3, ToSetEmpty
<1>3. ASSUME NEW k \in Nat, k \in T PROVE k + 1 \in T
  <2> SUFFICES ASSUME k + 1 <= n PROVE Good(k + 1)
    OBVIOUS
  <2>1. Good(k) /\ k + 1 \in 1..n /\ (k + 1) - 1 = k
    BY <1>3, <1>0
  <2>2. f[k + 1] = IF l[k + 1] \in ps THEN f[(k + 1) - 1] ELSE Append(f[(k + 1) - 1], l[k + 1])
    BY <1>1, <2>1, Zenon DEF Keeps
  <2>3. 1..(k + 1) = 1..k \cup {k + 1}
    OBVIOUS
  <2>4. CASE l[k + 1] \in ps
    <3>1. upto(k + 1) = upto(k)
      BY <2>3, <2>4
    <3>2. f[k + 1] = f[k]
      BY <2>1, <2>2, <2>4, Zenon
    <3> QED BY <2>1, <3>1, <3>2, Zenon
  <2>5. CASE l[k + 1] \notin ps
    <3>1. upto(k + 1) = upto(k) \cup {l[k + 1]}
      BY <2>3, <2>5
    <3>2. f[k + 1] = Append(f[k], l[k + 1])
      BY <2>1, <2>2, <2>5, Zenon
    <3>3. l[k + 1] \in S
      BY <1>0, <2>1
    <3>4. l[k + 1] \notin upto(k)
      <4>1. \A i \in 1..k : i \in DOMAIN l /\ i # k + 1
        BY <1>0
      <4> QED BY <1>0, <2>1, <4>1 DEF Distinct
    <3>5. Append(f[k], l[k + 1]) \in Seq(S) /\ ToSet(Append(f[k], l[k + 1])) = ToSet(f[k]) \cup {l[k + 1]}
      BY <2>1, <3>3, ToSetAppend
    <3>6. Distinct(Append(f[k], l[k + 1]))
      BY <2>1, <3>3, <3>4, DistinctAppend
    <3> QED BY <2>1, <3>1, <3>2, <3>5, <3>6, Zenon
  <2> QED BY <2>4, <2>5
<1> HIDE DEF T
<1>4. \A k \in Nat : k \in T
  BY <1>2, <1>3, InductionBySet
<1>5. Good(n)
  <2>1. n \in T
    BY <1>0, <1>4, Zenon
  <2>2. n <= n
    BY <1>0
  <2> QED BY <2>1, <2>2, Zenon DEF T
<1>6. upto(n) = ToSet(l) \ ps
  BY <1>0 DEF ToSet
<1> QED BY <1>1, <1>5, <1>6, Zenon

\* A path put in front of the others.
LEMMA DistinctFront ==
    ASSUME NEW S, NEW s \in Seq(S), Distinct(s), NEW e \in S, e \notin ToSet(s)
    PROVE  <<e>> \o s \in Seq(S) /\ ToSet(<<e>> \o s) = {e} \cup ToSet(s) /\ Distinct(<<e>> \o s)
<1> DEFINE r == <<e>> \o s
<1>1. r \in Seq(S) /\ ToSet(r) = {e} \cup ToSet(s)
  <2>1. <<e>> \in Seq(S) /\ ToSet(<<e>>) = {e}
    BY SingletonSeq
  <2> DEFINE u == <<e>>
  <2>2. u \in Seq(S) /\ ToSet(u) = {e}
    BY <2>1
  <2> HIDE DEF u
  <2>3. u \o s \in Seq(S) /\ ToSet(u \o s) = ToSet(u) \cup ToSet(s)
    BY <2>2, ToSetConcat
  <2>4. r = u \o s
    BY DEF u
  <2> HIDE DEF r
  <2> QED BY <2>2, <2>3, <2>4, Zenon
<1>2. /\ Len(s) \in Nat /\ DOMAIN s = 1..Len(s) /\ DOMAIN r = 1..(Len(s) + 1)
      /\ r[1] = e /\ \A i \in DOMAIN r : i # 1 => i - 1 \in DOMAIN s /\ r[i] = s[i - 1]
  OBVIOUS
<1>3. \A i \in DOMAIN s : s[i] # e
  BY DEF ToSet
<1> HIDE DEF r
<1>4. ASSUME NEW i \in DOMAIN r, NEW j \in DOMAIN r, r[i] = r[j] PROVE i = j
  <2>1. i \in Int /\ j \in Int
    BY <1>2
  <2>2. CASE i = 1 \/ j = 1
    BY <1>2, <1>3, <1>4, <2>2
  <2>3. CASE i # 1 /\ j # 1
    <3>1. i - 1 \in DOMAIN s /\ j - 1 \in DOMAIN s /\ s[i - 1] = s[j - 1]
      BY <1>2, <1>4, <2>3
    <3>2. i - 1 = j - 1
      BY <3>1 DEF Distinct
    <3> QED BY <2>1, <3>2
  <2> QED BY <2>2, <2>3
<1>5. Distinct(r)
  BY <1>4 DEF Distinct
<1> QED BY <1>1, <1>5 DEF r

LEMMA DistinctCount ==
    ASSUME NEW S, NEW l \in Seq(S), Distinct(l)
    PROVE  IsFiniteSet(ToSet(l)) /\ Len(l) = Cardinality(ToSet(l))
<1> DEFINE n == Len(l)
<1>1. n \in Nat /\ DOMAIN l = 1..n /\ l \in [1..n -> S]
  BY SeqIsFunction
<1>2. IsFiniteSet(1..n) /\ Cardinality(1..n) = n
  BY <1>1, FS_Interval
<1>3. l \in Injection(1..n, ToSet(l)) /\ l \in Surjection(1..n, ToSet(l))
  BY <1>1 DEF Injection, Surjection, IsInjective, Distinct, ToSet
<1> QED BY <1>2, <1>3, FS_Surjection

-----------------------------------------------------------------------------
(* Bytes adds up. *)
Cells(p) == {p} \X (1..AssetBytes[p])
Family(ps) == {Cells(p) : p \in ps}

LEMMA CellsCount ==
    ASSUME NEW p \in Paths
    PROVE  IsFiniteSet(Cells(p)) /\ Cardinality(Cells(p)) = AssetBytes[p]
<1>1. AssetBytes[p] \in Nat
  BY AssetsAssumption
<1>2. IsFiniteSet({p}) /\ Cardinality({p}) = 1
  BY FS_Singleton
<1>3. IsFiniteSet(1..AssetBytes[p]) /\ Cardinality(1..AssetBytes[p]) = AssetBytes[p]
  BY <1>1, FS_Interval
<1>4. IsFiniteSet(Cells(p)) /\ Cardinality(Cells(p)) = 1 * AssetBytes[p]
  <2>1. /\ IsFiniteSet({p} \X (1..AssetBytes[p]))
        /\ Cardinality({p} \X (1..AssetBytes[p])) = Cardinality({p}) * Cardinality(1..AssetBytes[p])
    BY <1>2, <1>3, FS_Product, Zenon
  <2> QED BY <2>1, <1>2, <1>3, Zenon DEF Cells
<1> QED BY <1>1, <1>4

LEMMA FamilyFinite ==
    ASSUME NEW ps \in SUBSET Paths, IsFiniteSet(ps)
    PROVE  IsFiniteSet(UNION Family(ps)) /\ Bytes(ps) = Cardinality(UNION Family(ps)) /\ Bytes(ps) \in Nat
<1> DEFINE g == [p \in ps |-> Cells(p)]
<1>1. g \in Surjection(ps, Family(ps))
  BY DEF Surjection, Family
<1>2. IsFiniteSet(Family(ps))
  BY <1>1, FS_Surjection
<1>3. \A T \in Family(ps) : IsFiniteSet(T)
  BY CellsCount DEF Family
<1>4. IsFiniteSet(UNION Family(ps))
  BY <1>2, <1>3, FS_UNION
<1>5. Bytes(ps) = Cardinality(UNION Family(ps))
  BY Zenon DEF Bytes, Family, Cells
<1> QED BY <1>4, <1>5, FS_CardinalityType

LEMMA BytesOfOne == \A p \in Paths : Bytes({p}) = AssetBytes[p]
<1> SUFFICES ASSUME NEW p \in Paths PROVE Bytes({p}) = AssetBytes[p]
  OBVIOUS
<1>1. UNION Family({p}) = Cells(p)
  BY DEF Family
<1>2. Bytes({p}) = Cardinality(UNION Family({p}))
  BY FamilyFinite, FS_Singleton
<1> QED BY <1>1, <1>2, CellsCount

LEMMA BytesOfNone == Bytes({}) = 0
<1>1. UNION Family({}) = {}
  BY DEF Family
<1> QED BY <1>1, FS_EmptySet, FamilyFinite

LEMMA BytesAddUp ==
    ASSUME NEW ps \in SUBSET Paths, IsFiniteSet(ps), NEW qs \in SUBSET Paths, IsFiniteSet(qs), ps \cap qs = {}
    PROVE  Bytes(ps \cup qs) = Bytes(ps) + Bytes(qs)
<1>1. UNION Family(ps \cup qs) = (UNION Family(ps)) \cup (UNION Family(qs))
  BY DEF Family
<1>2. (UNION Family(ps)) \cap (UNION Family(qs)) = {}
  BY DEF Family, Cells
<1>3. IsFiniteSet(UNION Family(ps)) /\ IsFiniteSet(UNION Family(qs))
  BY FamilyFinite
<1>4. Cardinality((UNION Family(ps)) \cup (UNION Family(qs))) =
        Cardinality(UNION Family(ps)) + Cardinality(UNION Family(qs)) - 0
  BY <1>2, <1>3, FS_Union, FS_EmptySet
<1>5. IsFiniteSet(ps \cup qs)
  BY FS_Union
<1>6. ps \cup qs \in SUBSET Paths
  OBVIOUS
<1>7. Bytes(ps \cup qs) = Cardinality(UNION Family(ps \cup qs)) /\ Bytes(ps) = Cardinality(UNION Family(ps))
      /\ Bytes(qs) = Cardinality(UNION Family(qs)) /\ Bytes(ps) \in Nat /\ Bytes(qs) \in Nat
  BY <1>5, <1>6, FamilyFinite
<1>8. Bytes(ps \cup qs) = Cardinality((UNION Family(ps)) \cup (UNION Family(qs)))
  BY <1>1, <1>7, Zenon
<1> QED BY <1>4, <1>7, <1>8

LEMMA BytesTaken ==
    ASSUME NEW ps \in SUBSET Paths, IsFiniteSet(ps), NEW qs \in SUBSET ps
    PROVE  Bytes(ps \ qs) = Bytes(ps) - Bytes(qs) /\ Bytes(qs) \in Nat /\ Bytes(ps) \in Nat
<1>1. qs \in SUBSET Paths /\ ps \ qs \in SUBSET Paths /\ IsFiniteSet(qs) /\ IsFiniteSet(ps \ qs)
      /\ ps = (ps \ qs) \cup qs /\ (ps \ qs) \cap qs = {}
  BY FS_Subset
<1>2. Bytes(ps) = Bytes(ps \ qs) + Bytes(qs)
  BY <1>1, BytesAddUp
<1>3. Bytes(ps \ qs) \in Nat /\ Bytes(qs) \in Nat /\ Bytes(ps) \in Nat
  BY <1>1, FamilyFinite
<1> QED BY <1>2, <1>3
-----------------------------------------------------------------------------
(* Eviction. *)

LEMMA EvictedAre ==
    ASSUME NEW S, NEW e, NEW l \in Seq(S), Distinct(l), NEW used, NEW pins
    PROVE  Evicted(e, l, used, pins) \subseteq ToSet(l) /\ Evicted(e, l, used, pins) \cap {p \in DOMAIN e : e[p].obj \in pins} = {}
<1> DEFINE held == {p \in DOMAIN e : e[p].obj \in pins}
           u == EvictableOf(e, l, pins)
           last(k) == {u[i] : i \in (Len(u) - k + 1)..Len(u)}
           enough == {k \in 0..Len(u) : used - Bytes(last(k)) <= CacheLimit}
           kk == IF enough = {} THEN Len(u) ELSE Min(enough)
<1>1. u \in Seq(S) /\ ToSet(u) = ToSet(l) \ held
  BY WithoutLeaves DEF EvictableOf
<1>2. Evicted(e, l, used, pins) = last(kk)
  BY DEF Evicted
<1> HIDE DEF u, held
<1>3. kk \in 0..Len(u)
  <2>1. CASE enough = {}
    BY <1>1, <2>1
  <2>2. CASE enough # {}
    <3>1. enough \in SUBSET Nat
      BY <1>1
    <3>2. \E x \in enough : \A y \in enough : x =< y
      BY <2>2, <3>1, LeastNat
    <3>3. Min(enough) \in enough
      <4> HIDE DEF enough
      <4> QED BY <3>2 DEF Min
    <3> QED BY <2>2, <3>3
  <2> QED BY <2>1, <2>2
<1> HIDE DEF kk
<1>4. last(kk) \subseteq ToSet(u)
  <2>1. \A i \in (Len(u) - kk + 1)..Len(u) : i \in DOMAIN u
    BY <1>1, <1>3
  <2> QED BY <2>1 DEF ToSet
<1> QED BY <1>1, <1>2, <1>4 DEF held
-----------------------------------------------------------------------------
(* The inductive invariant. *)
BooksInv ==
    /\ DOMAIN entries \subseteq Paths
    /\ lru \in Seq(Paths) /\ Distinct(lru) /\ ToSet(lru) = DOMAIN entries
    /\ used_bytes = Bytes(DOMAIN entries)

Loads == [path : Paths, src : Nat]

LoadsInv ==
    /\ objs \in Seq(Loads) /\ \A p \in DOMAIN entries : entries[p].obj \in DOMAIN objs
    /\ \A t \in Loaders : loader[t] # <<>> => loader[t][1] \in Loads
    /\ loader = [t \in Loaders |-> loader[t]]

SessionInv ==
    /\ session_id \in Nat /\ session_state \in {"none", "live", "unmounted", "cleared"}
    /\ session_state # "none" => active_session = session_id

\* A server's asset that was loaded within its session is tagged with it, and dropped once the session is cleared.
Tagged(e) ==
    LET o == e.obj IN
    objs[o].src # 0 /\ o \notin late =>
       objs[o].src = session_id /\ e.session = session_id /\ session_state \in {"live", "unmounted"}

TagsInv == \A p \in DOMAIN entries : Tagged(entries[p])

CacheInv == BooksInv /\ LoadsInv /\ SessionInv /\ TagsInv

LEMMA BooksFinite == BooksInv => IsFiniteSet(DOMAIN entries) /\ Len(lru) = Cardinality(DOMAIN entries)
BY DistinctCount DEF BooksInv

\* What is removed leaves the map, the list and the account together.
LEMMA RemovedKeeps ==
    ASSUME BooksInv, NEW ps \in SUBSET DOMAIN entries, Removed(ps)
    PROVE  /\ BooksInv' /\ DOMAIN entries' \subseteq DOMAIN entries \ ps
           /\ \A p \in DOMAIN entries' : entries'[p] = entries[p]
<1>1. /\ entries' = Restricted(entries, Paths \ ps) /\ lru' = Without(lru, ps)
      /\ used_bytes' = used_bytes - Bytes(ps)
  BY DEF Removed
<1>2. DOMAIN entries' = DOMAIN entries \ ps /\ \A p \in DOMAIN entries' : entries'[p] = entries[p]
  BY <1>1 DEF Restricted, BooksInv
<1>3. lru' \in Seq(Paths) /\ Distinct(lru') /\ ToSet(lru') = DOMAIN entries'
  <2>1. lru \in Seq(Paths) /\ Distinct(lru) /\ ToSet(lru) = DOMAIN entries
    BY DEF BooksInv
  <2>2. /\ Without(lru, ps) \in Seq(Paths) /\ ToSet(Without(lru, ps)) = ToSet(lru) \ ps
        /\ Distinct(Without(lru, ps))
    BY <2>1, WithoutLeaves
  <2>3. lru' = Without(lru, ps)
    BY <1>1
  <2> QED BY <1>2, <2>1, <2>2, <2>3, Zenon DEF Distinct
<1>4. used_bytes' = Bytes(DOMAIN entries')
  <2>1. IsFiniteSet(DOMAIN entries) /\ DOMAIN entries \in SUBSET Paths /\ used_bytes = Bytes(DOMAIN entries)
    BY BooksFinite DEF BooksInv
  <2>2. Bytes(DOMAIN entries \ ps) = Bytes(DOMAIN entries) - Bytes(ps)
    BY <2>1, BytesTaken
  <2> QED BY <1>1, <1>2, <2>1, <2>2
<1>5. DOMAIN entries' \subseteq Paths
  BY <1>2 DEF BooksInv
<1> QED BY <1>2, <1>3, <1>4, <1>5 DEF BooksInv

\* An insertion, the replacement it may be and the evictions it causes.
LEMMA InsertKeeps ==
    ASSUME BooksInv, NEW p \in Paths, NEW o, NEW s, NEW pins, insert(p, o, s, pins)
    PROVE  /\ BooksInv' /\ DOMAIN entries' \subseteq DOMAIN entries \cup {p}
           /\ \A q \in DOMAIN entries' :
                 entries'[q] = IF q = p THEN [obj |-> o, session |-> s] ELSE entries[q]
<1> DEFINE D == DOMAIN entries
           e == [q \in D \cup {p} |-> IF q = p THEN [obj |-> o, session |-> s] ELSE entries[q]]
           l == <<p>> \o Without(lru, {p})
           evicted == Evicted(e, l, UsedAfter(p), pins \cup {o})
<1>1. /\ entries' = Restricted(e, Paths \ evicted) /\ lru' = Without(l, evicted)
      /\ used_bytes' = UsedAfter(p) - Bytes(evicted)
  BY DEF insert
<1>2. DOMAIN e = D \cup {p} /\ \A q \in D \cup {p} : e[q] = IF q = p THEN [obj |-> o, session |-> s] ELSE entries[q]
  OBVIOUS
<1>3. IsFiniteSet(D) /\ D \in SUBSET Paths /\ used_bytes = Bytes(D)
  BY BooksFinite DEF BooksInv
<1>4. l \in Seq(Paths) /\ Distinct(l) /\ ToSet(l) = D \cup {p}
  <2>1. lru \in Seq(Paths) /\ Distinct(lru) /\ ToSet(lru) = D
    BY DEF BooksInv
  <2>2. /\ Without(lru, {p}) \in Seq(Paths) /\ ToSet(Without(lru, {p})) = D \ {p}
        /\ Distinct(Without(lru, {p}))
    BY <2>1, WithoutLeaves
  <2>3. p \notin ToSet(Without(lru, {p}))
    BY <2>2
  <2>4. l \in Seq(Paths) /\ ToSet(l) = {p} \cup ToSet(Without(lru, {p})) /\ Distinct(l)
    BY <2>2, <2>3, DistinctFront
  <2> QED BY <2>2, <2>4
<1>5. UsedAfter(p) = Bytes(D \cup {p}) /\ IsFiniteSet(D \cup {p})
  <2>1. D \cap {p} \in SUBSET D
    OBVIOUS
  <2>2. /\ Bytes(D \ (D \cap {p})) = Bytes(D) - Bytes(D \cap {p})
        /\ Bytes(D \cap {p}) \in Nat /\ Bytes(D) \in Nat
    BY <1>3, <2>1, BytesTaken
  <2>3. D \ (D \cap {p}) = D \ {p} /\ D \cup {p} = (D \ {p}) \cup {p} /\ (D \ {p}) \cap {p} = {}
    OBVIOUS
  <2>4. IsFiniteSet(D \ {p}) /\ IsFiniteSet({p}) /\ IsFiniteSet(D \cup {p})
    BY <1>3, FS_RemoveElement, FS_Singleton, FS_AddElement
  <2>5. D \ {p} \in SUBSET Paths /\ {p} \in SUBSET Paths
    BY <1>3
  <2>6. Bytes((D \ {p}) \cup {p}) = Bytes(D \ {p}) + Bytes({p})
    BY <2>3, <2>4, <2>5, BytesAddUp
  <2>7. Bytes({p}) = AssetBytes[p] /\ AssetBytes[p] \in Nat
    BY BytesOfOne, AssetsAssumption
  <2>8. UsedAfter(p) = used_bytes - Bytes(D \cap {p}) + AssetBytes[p]
    BY DEF UsedAfter
  <2>9. Bytes(D \cup {p}) = Bytes(D) - Bytes(D \cap {p}) + AssetBytes[p]
    BY <2>2, <2>3, <2>6, <2>7
  <2> QED BY <1>3, <2>4, <2>8, <2>9
<1> HIDE DEF e, l
<1>6. evicted \subseteq D \cup {p}
  BY <1>4, EvictedAre
<1> HIDE DEF evicted
<1>7. D \cup {p} \in SUBSET Paths
  BY <1>3
<1>8. DOMAIN entries' = (D \cup {p}) \ evicted /\ \A q \in DOMAIN entries' : entries'[q] = e[q]
  BY <1>1, <1>2, <1>7 DEF Restricted
<1>9. lru' \in Seq(Paths) /\ Distinct(lru') /\ ToSet(lru') = DOMAIN entries'
  <2>1. /\ Without(l, evicted) \in Seq(Paths) /\ ToSet(Without(l, evicted)) = ToSet(l) \ evicted
        /\ Distinct(Without(l, evicted))
    BY <1>4, WithoutLeaves
  <2> QED BY <1>1, <1>4, <1>8, <2>1, Zenon DEF Distinct
<1>10. used_bytes' = Bytes(DOMAIN entries')
  <2>1. Bytes((D \cup {p}) \ evicted) = Bytes(D \cup {p}) - Bytes(evicted)
    BY <1>5, <1>6, <1>7, BytesTaken
  <2> QED BY <1>1, <1>5, <1>8, <2>1
<1> QED BY <1>2, <1>7, <1>8, <1>9, <1>10 DEF BooksInv

LEMMA CacheInit == AcaInit => CacheInv
<1> SUFFICES ASSUME AcaInit PROVE CacheInv
  OBVIOUS
<1> USE DEF AcaInit
<1>1. BooksInv
  BY BytesOfNone, ToSetEmpty DEF BooksInv, Distinct
<1>2. LoadsInv /\ SessionInv /\ TagsInv
  BY DEF LoadsInv, SessionInv, TagsInv
<1> QED BY <1>1, <1>2 DEF CacheInv

\* A step that leaves the cache and the loads alone.
LEMMA CacheAlone ==
    ASSUME CacheInv, UNCHANGED <<entries, lru, used_bytes>>
    PROVE  BooksInv'
<1>1. BooksInv
  BY DEF CacheInv
<1> QED BY <1>1 DEF BooksInv, Distinct

LEMMA CacheStep == CacheInv /\ [AcaNext]_acaVars => CacheInv'
<1> SUFFICES ASSUME CacheInv, [AcaNext]_acaVars PROVE CacheInv'
  OBVIOUS
<1>0. BooksInv /\ LoadsInv /\ SessionInv /\ TagsInv
  BY DEF CacheInv
<1>1. ASSUME NEW t \in Loaders, Decoded(t) PROVE CacheInv'
  <2> DEFINE d == loader[t][1]
             n == Len(objs) + 1
  <2>1. /\ loader[t] # <<>> /\ loader' = [loader EXCEPT ![t] = <<>>]
        /\ objs' = Append(objs, d) /\ insert(d.path, n, active_session, refs)
        /\ late' = IF d.src # 0 /\ (d.src # session_id \/ session_state # "live") THEN late \cup {n} ELSE late
        /\ UNCHANGED <<active_session, session_state, session_id>>
    BY <1>1 DEF Decoded
  <2>2. d \in Loads /\ d.path \in Paths /\ d.src \in Nat
    BY <1>0, <2>1 DEF LoadsInv, Loads
  <2>3. /\ BooksInv' /\ DOMAIN entries' \subseteq DOMAIN entries \cup {d.path}
        /\ \A q \in DOMAIN entries' :
              entries'[q] = IF q = d.path THEN [obj |-> n, session |-> active_session] ELSE entries[q]
    BY <1>0, <2>1, <2>2, InsertKeeps
  <2>4. /\ objs \in Seq(Loads) /\ Len(objs) \in Nat /\ DOMAIN objs = 1..Len(objs)
        /\ \A p \in DOMAIN entries : entries[p].obj \in DOMAIN objs
    BY <1>0 DEF LoadsInv
  <2>5. /\ objs' \in Seq(Loads) /\ DOMAIN objs' = 1..n /\ objs'[n] = d
        /\ \A o \in DOMAIN objs : objs'[o] = objs[o]
    BY <2>1, <2>2, <2>4, ToSetAppend
  <2> HIDE DEF d, n
  <2>6. n \notin DOMAIN objs /\ n \in 1..n /\ DOMAIN objs \subseteq 1..n
    BY <2>4 DEF n
  <2>7. \A q \in DOMAIN entries' : q # d.path => q \in DOMAIN entries /\ entries'[q] = entries[q]
    BY <2>3
  <2>8. \A q \in DOMAIN entries' : q = d.path => entries'[q].obj = n /\ entries'[q].session = active_session
    BY <2>3
  <2>9. LoadsInv'
    <3>1. \A q \in DOMAIN entries' : entries'[q].obj \in DOMAIN objs'
      BY <2>4, <2>5, <2>6, <2>7, <2>8
    <3>2. \A x \in Loaders : loader'[x] # <<>> => loader'[x][1] \in Loads
      BY <1>0, <2>1 DEF LoadsInv
    <3>3. loader' = [x \in Loaders |-> loader'[x]]
      BY <1>0, <2>1 DEF LoadsInv
    <3> QED BY <2>5, <3>1, <3>2, <3>3 DEF LoadsInv
  <2>10. SessionInv'
    BY <1>0, <2>1 DEF SessionInv
  <2>11. ASSUME NEW q \in DOMAIN entries' PROVE Tagged(entries[q])'
    <3>1. CASE q = d.path
      <4>1. entries'[q].obj = n /\ entries'[q].session = active_session /\ objs'[n] = d
        BY <2>5, <2>8, <3>1
      <4>2. d.src # 0 /\ n \notin late' => d.src = session_id /\ session_state = "live"
        BY <2>1
      <4>3. session_state = "live" => active_session = session_id
        BY <1>0 DEF SessionInv
      <4> QED BY <2>1, <4>1, <4>2, <4>3 DEF Tagged
    <3>2. CASE q # d.path
      <4>1. q \in DOMAIN entries /\ entries'[q] = entries[q] /\ entries[q].obj \in DOMAIN objs
        BY <2>4, <2>7, <3>2
      <4>2. objs'[entries[q].obj] = objs[entries[q].obj]
        BY <2>5, <4>1
      <4>3. Tagged(entries[q])
        BY <1>0, <4>1 DEF TagsInv
      <4>4. late \subseteq late'
        BY <2>1
      <4> QED BY <2>1, <4>1, <4>2, <4>3, <4>4 DEF Tagged
    <3> QED BY <3>1, <3>2
  <2> QED BY <2>3, <2>9, <2>10, <2>11 DEF CacheInv, TagsInv
<1>2. ASSUME NEW t \in Loaders, Undecodable(t) PROVE CacheInv'
  <2> USE <1>2 DEF Undecodable
  <2>1. BooksInv'
    BY CacheAlone
  <2> QED BY <1>0, <2>1 DEF CacheInv, LoadsInv, SessionInv, TagsInv, Tagged
<1>3. ASSUME NEW t \in Loaders, NEW p \in Paths, CacheHit_(t, p) PROVE CacheInv'
  <2> USE <1>3 DEF CacheHit_
  <2>1. BooksInv'
    <3>1. lru \in Seq(Paths) /\ Distinct(lru) /\ ToSet(lru) = DOMAIN entries
      BY <1>0 DEF BooksInv
    <3>2. /\ Without(lru, {p}) \in Seq(Paths) /\ ToSet(Without(lru, {p})) = DOMAIN entries \ {p}
          /\ Distinct(Without(lru, {p}))
      BY <3>1, WithoutLeaves
    <3>3. p \notin ToSet(Without(lru, {p}))
      BY <3>2
    <3>4. lru' \in Seq(Paths) /\ ToSet(lru') = {p} \cup ToSet(Without(lru, {p})) /\ Distinct(lru')
      BY <3>2, <3>3, DistinctFront
    <3>5. ToSet(lru') = DOMAIN entries'
      BY <3>2, <3>4
    <3> QED BY <1>0, <3>4, <3>5 DEF BooksInv
  <2> QED BY <1>0, <2>1 DEF CacheInv, LoadsInv, SessionInv, TagsInv, Tagged
<1>4. ASSUME NEW t \in Loaders, NEW p \in Paths, probe(t, p) PROVE CacheInv'
  <2> USE <1>4 DEF probe
  <2>1. BooksInv'
    BY CacheAlone
  <2>2. LoadsInv'
    <3>1. PICK src \in {0} \cup MountsOfSession : loader' = [loader EXCEPT ![t] = <<[path |-> p, src |-> src]>>]
      OBVIOUS
    <3>2. src \in Nat
      BY <1>0 DEF MountsOfSession, SessionInv
    <3>3. [path |-> p, src |-> src] \in Loads
      BY <3>2 DEF Loads
    <3>4. loader' = [x \in Loaders |-> loader'[x]]
          /\ \A x \in Loaders : loader'[x] = IF x = t THEN <<[path |-> p, src |-> src]>> ELSE loader[x]
      BY <1>0, <3>1 DEF LoadsInv
    <3>5. \A x \in Loaders : loader'[x] # <<>> => loader'[x][1] \in Loads
      BY <1>0, <3>3, <3>4 DEF LoadsInv
    <3> QED BY <1>0, <3>4, <3>5 DEF LoadsInv
  <2> QED BY <1>0, <2>1, <2>2 DEF CacheInv, SessionInv, TagsInv, Tagged
<1>5. ASSUME NEW o \in refs, Unpin(o) PROVE CacheInv'
  <2> USE <1>5 DEF Unpin
  <2>1. BooksInv'
    BY CacheAlone
  <2> QED BY <1>0, <2>1 DEF CacheInv, LoadsInv, SessionInv, TagsInv, Tagged
<1>6. CASE evict
  <2> USE <1>6 DEF evict
  <2> DEFINE evicted == Evicted(entries, lru, used_bytes, refs)
  <2>1. evicted \in SUBSET DOMAIN entries
    BY <1>0, EvictedAre DEF BooksInv
  <2>2. /\ BooksInv' /\ DOMAIN entries' \subseteq DOMAIN entries \ evicted
        /\ \A p \in DOMAIN entries' : entries'[p] = entries[p]
    BY <1>0, <2>1, RemovedKeeps
  <2> QED BY <1>0, <2>2 DEF CacheInv, LoadsInv, SessionInv, TagsInv, Tagged
<1>7. CASE SessionStart
  <2> USE <1>7 DEF SessionStart
  <2>1. BooksInv'
    BY CacheAlone
  <2> QED BY <1>0, <2>1 DEF CacheInv, LoadsInv, SessionInv, TagsInv, Tagged
<1>8. CASE SessionUnmount
  <2> USE <1>8 DEF SessionUnmount
  <2>1. BooksInv'
    BY CacheAlone
  <2> QED BY <1>0, <2>1 DEF CacheInv, LoadsInv, SessionInv, TagsInv, Tagged
<1>9. CASE clear_session
  <2> USE <1>9 DEF clear_session
  <2>1. ClearedPaths(session_id) \in SUBSET DOMAIN entries
    BY DEF ClearedPaths
  <2>2. /\ BooksInv' /\ DOMAIN entries' \subseteq DOMAIN entries \ ClearedPaths(session_id)
        /\ \A p \in DOMAIN entries' : entries'[p] = entries[p]
    BY <1>0, <2>1, RemovedKeeps
  <2>3. \A p \in DOMAIN entries' : p \in DOMAIN entries /\ entries[p].session # session_id
    BY <2>2 DEF ClearedPaths
  <2>4. TagsInv'
    BY <1>0, <2>2, <2>3 DEF TagsInv, Tagged
  <2> QED BY <1>0, <2>2, <2>4 DEF CacheInv, LoadsInv, SessionInv
<1>10. CASE clear_active_session
  <2> USE <1>10 DEF clear_active_session
  <2>1. BooksInv'
    BY CacheAlone
  <2> QED BY <1>0, <2>1 DEF CacheInv, LoadsInv, SessionInv, TagsInv, Tagged
<1>11. CASE UNCHANGED acaVars
  <2> USE <1>11 DEF acaVars
  <2>1. BooksInv'
    BY CacheAlone
  <2> QED BY <1>0, <2>1 DEF CacheInv, LoadsInv, SessionInv, TagsInv, Tagged
<1> QED BY <1>1, <1>2, <1>3, <1>4, <1>5, <1>6, <1>7, <1>8, <1>9, <1>10, <1>11 DEF AcaNext

\* The books of the asset cache and the tags of its entries, whatever loads overlap.
THEOREM CacheInvariant == AcaSpec => []CacheInv
BY CacheInit, CacheStep, PTL DEF AcaSpec

\* For any paths, sizes, limit, loads and sessions: used_bytes_ is the size of what the cache holds, the list and the
\* map name the same paths, and once a session is cleared only what was still loading then can bring its assets back.
THEOREM CacheAlwaysInStep == AcaSpec => []CacheInStep
<1>1. CacheInv => CacheInStep
  <2> SUFFICES ASSUME CacheInv PROVE CacheInStep
    OBVIOUS
  <2>0. BooksInv /\ TagsInv
    BY DEF CacheInv
  <2>1. BooksBalance
    <3>1. Len(lru) = Cardinality(DOMAIN entries)
      BY <2>0, BooksFinite, Zenon
    <3> QED BY <2>0, <3>1, Zenon DEF BooksInv, BooksBalance
  <2>2. ServerAssetsLeave
    <3> SUFFICES ASSUME NEW p \in DOMAIN entries, objs[entries[p].obj].src # 0,
                        objs[entries[p].obj].src # session_id \/ session_state \in {"cleared", "none"}
                 PROVE  entries[p].obj \in late
      BY DEF ServerAssetsLeave
    <3>1. Tagged(entries[p])
      BY <2>0 DEF TagsInv
    <3> QED BY <3>1 DEF Tagged
  <2> QED BY <2>1, <2>2 DEF CacheInStep
<1> QED BY <1>1, CacheInvariant, PTL
-----------------------------------------------------------------------------
(* What the client looks for and what it has asked for. *)

\* An ascending list of 1..n is 1, 2, ..., n.
LEMMA AscendingIsIdentity ==
    ASSUME NEW n \in Nat, NEW v \in [1..n -> 1..n], \A i, j \in 1..n : i < j => v[i] < v[j], ToSet(v) = 1..n
    PROVE  \A i \in 1..n : v[i] = i
<1> SUFFICES ASSUME NEW i \in 1..n PROVE v[i] = i
  OBVIOUS
<1> DEFINE f == [j \in 1..i |-> v[j]]
<1>1. \A j, k \in 1..n : v[j] = v[k] => j = k
  OBVIOUS
<1>2. ASSUME NEW j \in 1..i PROVE f[j] = v[j] /\ v[j] \in 1..v[i] /\ j \in 1..n
  <2>1. j \in 1..n /\ v[j] \in 1..n /\ v[i] \in 1..n
    OBVIOUS
  <2>2. j = i \/ v[j] < v[i]
    BY <2>1
  <2>3. f[j] = v[j]
    OBVIOUS
  <2>4. v[j] \in 1..v[i]
    <3> DEFINE x == v[j]
               y == v[i]
    <3>1. x \in 1..n /\ y \in 1..n
      BY <2>1
    <3>2. x = y \/ x < y
      BY <2>2
    <3> HIDE DEF x, y
    <3>3. x \in 1..y
      BY <3>1, <3>2
    <3> QED BY <3>3 DEF x, y
  <2> QED BY <2>1, <2>3, <2>4
<1>3. f \in Injection(1..i, 1..v[i])
  BY <1>1, <1>2 DEF Injection, IsInjective
<1>4. ASSUME NEW x \in 1..v[i] PROVE \E j \in 1..i : f[j] = x
  <2>1. x \in 1..n
    OBVIOUS
  <2>2. PICK j \in 1..n : v[j] = x
    BY <2>1 DEF ToSet
  <2>3. j <= i
    <3>1. ~(i < j)
      BY <2>2
    <3> QED BY <3>1
  <2> QED BY <2>2, <2>3
<1>5. f \in Surjection(1..i, 1..v[i])
  BY <1>2, <1>4 DEF Surjection
<1> HIDE DEF f
<1>6. IsFiniteSet(1..i) /\ Cardinality(1..i) = i /\ Cardinality(1..v[i]) = v[i]
  <2>1. v[i] \in Int /\ v[i] >= 1 /\ i \in Int /\ i >= 1
    OBVIOUS
  <2> QED BY <2>1, FS_Interval
<1> QED BY <1>3, <1>5, <1>6, FS_Surjection

\* parse_emotes keeps the numbers of a sheet without gaps.
LEMMA EmotesInOrder ==
    ASSUME NEW ini, ini.number \in Nat, ini.emotes = 1..ini.number
    PROVE  DOMAIN parse_emotes(ini) = 1..ini.number /\ \A i \in 1..ini.number : parse_emotes(ini)[i] = i
<1> DEFINE n == ini.number
           S == ini.emotes \cap 1..n
           v == parse_emotes(ini)
<1>1. S = 1..n /\ IsFiniteSet(S) /\ Cardinality(S) = n
  <2>2. S = 1..n
    OBVIOUS
  <2>3. IsFiniteSet(1..n) /\ Cardinality(1..n) = n
    BY FS_Interval
  <2> QED BY <2>2, <2>3, Zenon
<1>2. \E q \in SetToSeqs(S) : \A i, j \in DOMAIN q : i < j => q[i] < q[j]
  BY <1>1, AscendingExists
<1>3. v \in SetToSeqs(S) /\ \A i, j \in DOMAIN v : i < j => v[i] < v[j]
  BY <1>2, Zenon DEF parse_emotes
<1> HIDE DEF v
<1>4. v \in Seq(S) /\ DOMAIN v = 1..n /\ ToSet(v) = 1..n
  BY <1>1, <1>3, EnumerationLists
<1>5. v \in [1..n -> 1..n]
  BY <1>1, <1>4
<1>6. \A i \in 1..n : v[i] = i
  BY <1>3, <1>4, <1>5, AscendingIsIdentity
<1> QED BY <1>4, <1>6 DEF v

-----------------------------------------------------------------------------
\* A name that was prefetched is there already, or was asked for in every format the server may have advertised.
AskedFor(n) == Found(n) \/ \A x \in Advertised \cap DefaultExts : <<n, x>> \in asked

BackgroundsAsked == \A b \in wanted_bg : \A n \in NamesOfBg(b[1], b[2]) : AskedFor(n)

EmotesAsked ==
    \A e \in tried_emote : \A n \in Range(character_emote(e[1], e[2], e[3])), x \in DefaultExts : <<n, x>> \in asked

SheetParsed == char_ini \in Sheets /\ (sheet # <<>> => sheet = <<parse_sounds(char_ini)>>)

AssetsInv == BackgroundsAsked /\ EmotesAsked /\ SheetParsed

\* Nothing that was asked for or found is lost again.
LEMMA FoundStays ==
    ASSUME hosted' = hosted, asked \subseteq asked', answered_files \subseteq answered_files'
    PROVE  \A n : (Found(n) => Found(n)') /\ (AskedFor(n) => AskedFor(n)')
<1>1. Here \subseteq Here'
  BY DEF Here
<1>2. \A n : Found(n) => Found(n)'
  BY <1>1 DEF Found
<1> QED BY <1>2 DEF AskedFor

LEMMA RequestedAreAsked ==
    ASSUME NEW ns, NEW n \in ns, asked' = asked \cup Requested(ns), hosted' = hosted, answered_files' = answered_files
    PROVE  AskedFor(n)'
<1>1. CASE Found(n)
  <2>1. Found(n)'
    <3>1. asked \subseteq asked' /\ answered_files \subseteq answered_files'
      OBVIOUS
    <3> QED BY <1>1, <3>1, FoundStays, Zenon
  <2> QED BY <2>1 DEF AskedFor
<1>2. CASE ~Found(n)
  <2>1. ASSUME NEW x \in Advertised \cap DefaultExts PROVE <<n, x>> \in asked'
    <3>1. x \in Exts
      BY DEF Exts
    <3>2. <<n, x>> \in Requested(ns)
      BY <1>2, <3>1 DEF Requested, Files_
    <3> QED BY <3>2
  <2> QED BY <2>1 DEF AskedFor
<1> QED BY <1>1, <1>2

LEMMA AssetsInit == AoaInit => AssetsInv
BY DEF AoaInit, AssetsInv, BackgroundsAsked, EmotesAsked, SheetParsed

LEMMA AssetsStep == AssetsInv /\ [AoaNext]_aoaVars => AssetsInv'
<1> SUFFICES ASSUME AssetsInv, [AoaNext]_aoaVars PROVE AssetsInv'
  OBVIOUS
<1>0. BackgroundsAsked /\ EmotesAsked /\ SheetParsed
  BY DEF AssetsInv
<1>1. ASSUME hosted' = hosted, asked \subseteq asked', answered_files \subseteq answered_files',
             UNCHANGED <<wanted_bg, tried_emote, char_ini, sheet>>
      PROVE  AssetsInv'
  <2>1. BackgroundsAsked'
    <3>1. \A n : AskedFor(n) => AskedFor(n)'
      BY <1>1, FoundStays, Zenon
    <3> QED BY <1>0, <1>1, <3>1 DEF BackgroundsAsked
  <2>2. EmotesAsked'
    BY <1>0, <1>1 DEF EmotesAsked
  <2>3. SheetParsed'
    BY <1>0, <1>1 DEF SheetParsed
  <2> QED BY <2>1, <2>2, <2>3 DEF AssetsInv
<1>3. ASSUME NEW fs, FilesArrive(fs) PROVE AssetsInv'
  BY <1>1, <1>3 DEF FilesArrive
<1>4. ASSUME NEW c, NEW e, prefetch_character(c, e) PROVE AssetsInv'
  BY <1>1, <1>4 DEF prefetch_character
<1>5. ASSUME NEW c, LoadSheet(c) PROVE AssetsInv'
  <2>1. BackgroundsAsked' /\ EmotesAsked'
    BY <1>0, <1>5 DEF LoadSheet, BackgroundsAsked, EmotesAsked, AskedFor, Found, Here
  <2>2. SheetParsed'
    BY <1>0, <1>5 DEF LoadSheet, SheetParsed
  <2> QED BY <2>1, <2>2 DEF AssetsInv
<1>6. ASSUME NEW name, NEW pos, prefetch_background(name, pos) PROVE AssetsInv'
  <2>1. /\ asked' = asked \cup Requested(NamesOfBg(name, pos)) /\ wanted_bg' = wanted_bg \cup {<<name, pos>>}
        /\ UNCHANGED <<hosted, answered_files, tried_emote, char_ini, sheet>>
    BY <1>6 DEF prefetch_background
  <2>2. \A n : AskedFor(n) => AskedFor(n)'
    <3>1. hosted' = hosted /\ asked \subseteq asked' /\ answered_files \subseteq answered_files'
      BY <2>1
    <3> QED BY <3>1, FoundStays, Zenon
  <2>3. \A n \in NamesOfBg(name, pos) : AskedFor(n)'
    BY <2>1, RequestedAreAsked
  <2>4. BackgroundsAsked'
    <3> SUFFICES ASSUME NEW b \in wanted_bg', NEW n \in NamesOfBg(b[1], b[2]) PROVE AskedFor(n)'
      BY DEF BackgroundsAsked
    <3>1. CASE b \in wanted_bg
      BY <1>0, <2>2, <3>1 DEF BackgroundsAsked
    <3>2. CASE b = <<name, pos>>
      <4>1. b[1] = name /\ b[2] = pos
        BY <3>2
      <4>2. n \in NamesOfBg(name, pos)
        BY <4>1, Zenon
      <4> QED BY <2>3, <4>2
    <3> QED BY <2>1, <3>1, <3>2
  <2>5. EmotesAsked' /\ SheetParsed'
    BY <1>0, <2>1 DEF EmotesAsked, SheetParsed
  <2> QED BY <2>4, <2>5 DEF AssetsInv
<1>7. ASSUME NEW c, NEW e, NEW prefix, LookupEmote(c, e, prefix) PROVE AssetsInv'
  <2>1. /\ asked' = asked \cup Retried(character_emote(c, e, prefix))
        /\ tried_emote' = tried_emote \cup {<<c, e, prefix>>}
        /\ UNCHANGED <<hosted, answered_files, wanted_bg, char_ini, sheet>>
    BY <1>7, Zenon DEF LookupEmote
  <2>2. \A n : AskedFor(n) => AskedFor(n)'
    <3>1. hosted' = hosted /\ asked \subseteq asked' /\ answered_files \subseteq answered_files'
      BY <2>1
    <3> QED BY <3>1, FoundStays, Zenon
  <2>3. BackgroundsAsked' /\ SheetParsed'
    BY <1>0, <2>1, <2>2 DEF BackgroundsAsked, SheetParsed
  <2>4. EmotesAsked'
    <3> SUFFICES ASSUME NEW t \in tried_emote', NEW n \in Range(character_emote(t[1], t[2], t[3])), NEW x \in DefaultExts
                 PROVE  <<n, x>> \in asked'
      BY DEF EmotesAsked
    <3>1. CASE t \in tried_emote
      BY <1>0, <2>1, <3>1 DEF EmotesAsked
    <3>2. CASE t = <<c, e, prefix>>
      <4>1. t[1] = c /\ t[2] = e /\ t[3] = prefix
        BY <3>2
      <4>2. n \in Range(character_emote(c, e, prefix))
        BY <4>1, Zenon
      <4>3. <<n, x>> \in Retried(character_emote(c, e, prefix))
        <5> DEFINE cands == character_emote(c, e, prefix)
        <5> HIDE DEF cands
        <5>1. \A m \in Range(cands) : <<m, x>> \in Retried(cands)
          BY DEF Retried, Files_
        <5> QED BY <4>2, <5>1, Zenon DEF cands
      <4> QED BY <2>1, <4>3
    <3> QED BY <2>1, <3>1, <3>2
  <2> QED BY <2>3, <2>4 DEF AssetsInv
<1>8. CASE UNCHANGED aoaVars
  BY <1>1, <1>8 DEF aoaVars
<1>9. ASSUME ExtensionsArrive \/ ensure_configs PROVE AssetsInv'
  BY <1>1, <1>9 DEF ExtensionsArrive, ensure_configs
<1> QED BY <1>3, <1>4, <1>5, <1>6, <1>7, <1>8, <1>9 DEF AoaNext

THEOREM AssetsInvariant == AoaSpec => []AssetsInv
BY AssetsInit, AssetsStep, PTL DEF AoaSpec

\* Once everything that was asked for is answered, a name that is hosted in a format the server advertises is there.
LEMMA HostedIsFound ==
    ASSUME Quiet_, NEW n, AskedFor(n), NEW x \in Advertised \cap DefaultExts, <<n, x>> \in hosted
    PROVE  Found(n)
BY DEF Quiet_, AskedFor, Found, Here

LEMMA NamesServed ==
    ASSUME Quiet_, NEW cands, NEW bg, \A n \in Range(cands) : n[2] = bg => AskedFor(n)
    PROVE  Served(cands, bg)
BY HostedIsFound DEF Served

\* For any hostings, names and sheets: what background(), desk_overlay() and character_emote() look for is found once
\* the requests are answered, if the server has it, and a sheet's sounds belong to its emotes.
THEOREM AssetsAlwaysFound == AoaSpec => []AssetsFound
<1>1. AssetsInv => AssetsFound
  <2> SUFFICES ASSUME AssetsInv PROVE AssetsFound
    OBVIOUS
  <2>0. BackgroundsAsked /\ EmotesAsked /\ SheetParsed
    BY DEF AssetsInv
  <2>1. BackgroundFound
    <3> SUFFICES ASSUME Quiet_, NEW b \in wanted_bg
                 PROVE  Served(background(b[1], b[2]), b[1]) /\ Served(desk_overlay(b[1], b[2]), b[1])
      BY DEF BackgroundFound
    <3> DEFINE name == b[1]
               pos == b[2]
    <3>1. \A n \in NamesOfBg(name, pos) : AskedFor(n)
      BY <2>0 DEF BackgroundsAsked
    <3> HIDE DEF name, pos
    <3>2. \A f : Bg("default", f)[2] = "default"
      BY DEF Bg
    <3>3. \A n \in Range(background(name, pos)) : n[2] = name => n \in NamesOfBg(name, pos)
      <4> DEFINE legacy == IF pos \in LegacyPos THEN <<Bg(name, pos)>> ELSE <<>>
                 fall == IF name # "default" THEN <<Bg("default", bg_filename(pos))>> ELSE <<>>
      <4>1. background(name, pos) = <<Bg(name, bg_filename(pos))>> \o legacy \o fall
        BY DEF background
      <4>2. Range(background(name, pos)) \subseteq {Bg(name, bg_filename(pos)), Bg(name, pos)}
                                                   \cup {x \in {Bg("default", bg_filename(pos))} : name # "default"}
        BY <4>1 DEF Range
      <4> QED BY <3>2, <4>2 DEF NamesOfBg
    <3>4. \A n \in Range(desk_overlay(name, pos)) : n[2] = name => n \in NamesOfBg(name, pos)
      <4>1. Range(desk_overlay(name, pos)) \subseteq {Bg(name, desk_filename(pos))}
                                                     \cup {x \in {Bg("default", desk_filename(pos))} : name # "default"}
        BY DEF desk_overlay, Range
      <4> QED BY <3>2, <4>1 DEF NamesOfBg
    <3>5. Served(background(name, pos), name) /\ Served(desk_overlay(name, pos), name)
      BY <3>1, <3>3, <3>4, NamesServed
    <3> QED BY <3>5 DEF name, pos
  <2>2. EmoteFound
    <3> SUFFICES ASSUME Quiet_, NEW e \in tried_emote,
                        NEW n \in Range(character_emote(e[1], e[2], e[3])), NEW x \in DefaultExts, <<n, x>> \in hosted
                 PROVE  FirstFound(character_emote(e[1], e[2], e[3])) # <<>>
      BY DEF EmoteFound
    <3> DEFINE cands == character_emote(e[1], e[2], e[3])
    <3>1. <<n, x>> \in asked
      BY <2>0 DEF EmotesAsked
    <3>2. Found(n)
      BY <3>1 DEF Quiet_, Found, Here
    <3> HIDE DEF cands
    <3>3. PICK i \in DOMAIN cands : cands[i] = n
      BY DEF cands, Range
    <3>4. {j \in DOMAIN cands : Found(cands[j])} # {}
      BY <3>2, <3>3
    <3>5. FirstFound(cands) = <<cands[Min({j \in DOMAIN cands : Found(cands[j])})]>>
      BY <3>4, Zenon DEF FirstFound
    <3> QED BY <3>5 DEF cands
  <2>3. SoundsAligned
    <3> SUFFICES ASSUME sheet # <<>>, char_ini.emotes = 1..char_ini.number, NEW i \in DOMAIN sheet[1]
                 PROVE  sheet[1][i].sfx = {char_ini.sfx[k] : k \in DOMAIN char_ini.sfx \cap {sheet[1][i].n}}
      BY DEF SoundsAligned
    <3> DEFINE v == parse_emotes(char_ini)
    <3>1. sheet[1] = parse_sounds(char_ini) /\ char_ini.number \in Nat
      BY <2>0, SheetsAssumption DEF SheetParsed
    <3>2. DOMAIN v = 1..char_ini.number /\ \A j \in 1..char_ini.number : v[j] = j
      BY <3>1, EmotesInOrder
    <3>3. parse_sounds(char_ini) =
            [j \in DOMAIN v |-> [n |-> v[j], sfx |-> {char_ini.sfx[k] : k \in {x \in DOMAIN char_ini.sfx : x = j}}]]
      BY DEF parse_sounds, Index
    <3> HIDE DEF v
    <3>4. i \in DOMAIN v /\ v[i] = i
      BY <3>1, <3>2, <3>3
    <3>5. sheet[1][i] = [n |-> i, sfx |-> {char_ini.sfx[k] : k \in {x \in DOMAIN char_ini.sfx : x = i}}]
      BY <3>1, <3>3, <3>4
    <3>6. {x \in DOMAIN char_ini.sfx : x = i} = DOMAIN char_ini.sfx \cap {i}
      OBVIOUS
    <3>7. sheet[1][i].n = i /\ sheet[1][i].sfx = {char_ini.sfx[k] : k \in {x \in DOMAIN char_ini.sfx : x = i}}
      BY <3>5
    <3> QED BY <3>6, <3>7, Zenon
  <2> QED BY <2>1, <2>2, <2>3 DEF AssetsFound
<1> QED BY <1>1, AssetsInvariant, PTL
-----------------------------------------------------------------------------
(* The recursive functions of the scene exist. *)
Plain == [display |-> <<>>, events |-> <<>>, inline |-> -1]

Processes(f, txt, n) ==
    /\ f = [k \in 0..n |-> f[k]]
    /\ f[0] = Plain /\ \A k \in 1..n : f[k] = Token(f[k - 1], txt[k])

LEMMA ProcessesExist ==
    ASSUME NEW txt
    PROVE  \A n \in Nat : \E f : Processes(f, txt, n)
<1> DEFINE S == {n \in Nat : \E f : Processes(f, txt, n)}
<1>1. 0 \in S
  <2>1. Processes([k \in 0..0 |-> Plain], txt, 0)
    BY DEF Processes
  <2> QED BY <2>1
<1>2. ASSUME NEW n \in Nat, n \in S PROVE n + 1 \in S
  <2>1. PICK f : Processes(f, txt, n)
    BY <1>2
  <2> DEFINE next(k) == Token(f[k - 1], txt[k])
             g == [k \in 0..(n + 1) |-> IF k <= n THEN f[k] ELSE next(k)]
  <2>2. g = [k \in 0..(n + 1) |-> g[k]] /\ g[0] = Plain
    <3>1. f[0] = Plain
      BY <2>1, Zenon DEF Processes
    <3>2. g[0] = f[0]
      OBVIOUS
    <3>3. g = [k \in 0..(n + 1) |-> g[k]]
      OBVIOUS
    <3> QED BY <3>1, <3>2, <3>3, Zenon
  <2>3. ASSUME NEW k \in 1..(n + 1)
        PROVE  g[k] = Token(g[k - 1], txt[k])
    <3>1. g[k - 1] = f[k - 1]
      OBVIOUS
    <3>2. CASE k <= n
      <4>1. g[k] = f[k] /\ k \in 1..n
        BY <3>2
      <4>2. f[k] = next(k)
        BY <2>1, <4>1, Zenon DEF Processes
      <4> QED BY <3>1, <4>1, <4>2, Zenon
    <3>3. CASE ~(k <= n)
      <4>1. k \in 0..(n + 1)
        OBVIOUS
      <4>2. g[k] = next(k)
        BY <3>3, <4>1, Zenon
      <4> QED BY <3>1, <4>2, Zenon
    <3> QED BY <3>2, <3>3
  <2>4. Processes(g, txt, n + 1)
    BY <2>2, <2>3, Zenon DEF Processes
  <2> QED BY <2>4
<1> HIDE DEF S
<1>3. \A n \in Nat : n \in S
  BY <1>1, <1>2, InductionBySet
<1> QED BY <1>3 DEF S

LEMMA processUnfolds ==
    ASSUME NEW txt, Len(txt) \in Nat
    PROVE  \E f : Processes(f, txt, Len(txt)) /\ process(txt) = f[Len(txt)]
<1> DEFINE n == Len(txt)
           Def(f) == [i \in 0..n |-> IF i = 0 THEN Plain ELSE Token(f[i - 1], txt[i])]
           g == CHOOSE f : f = Def(f)
<1>1. PICK f : Processes(f, txt, n)
  BY ProcessesExist
<1>2. f = Def(f)
  <2>1. ASSUME NEW k \in 0..n PROVE f[k] = Def(f)[k]
    <3>1. CASE k = 0
      <4>1. f[0] = Plain
        BY <1>1, Zenon DEF Processes
      <4> QED BY <3>1, <4>1, Zenon
    <3>2. CASE k # 0
      <4>1. k \in 1..n
        BY <3>2
      <4>2. f[k] = Token(f[k - 1], txt[k])
        BY <1>1, <4>1, Zenon DEF Processes
      <4> QED BY <3>2, <4>2, Zenon
    <3> QED BY <3>1, <3>2
  <2>2. f = [k \in 0..n |-> f[k]]
    BY <1>1, Zenon DEF Processes
  <2> QED BY <2>1, <2>2, Zenon
<1>3. g = Def(g)
  BY <1>2, Zenon
<1>4. process(txt) = g[n]
  BY DEF process, Plain
<1> HIDE DEF g
<1>5. Processes(g, txt, n)
  <2>1. ASSUME NEW k \in 1..n PROVE g[k] = Token(g[k - 1], txt[k])
    <3>1. k # 0 /\ k \in 0..n
      OBVIOUS
    <3> QED BY <1>3, <3>1, Zenon
  <2>2. g = [k \in 0..n |-> g[k]]
    BY <1>3, Zenon
  <2>3. g[0] = Plain
    <3>1. 0 \in 0..n
      OBVIOUS
    <3> QED BY <1>3, <3>1, Zenon
  <2> QED BY <2>1, <2>2, <2>3, Zenon DEF Processes
<1> QED BY <1>4, <1>5

Reveals(f, b, m, n) ==
    /\ f = [k \in 0..n |-> f[k]]
    /\ f[0] = b /\ \A k \in 1..n : f[k] = IF Unfinished(f[k - 1]) THEN Reveal(f[k - 1]) ELSE f[k - 1]

LEMMA RevealsExist ==
    ASSUME NEW b, NEW m
    PROVE  \A n \in Nat : \E f : Reveals(f, b, m, n)
<1> DEFINE S == {n \in Nat : \E f : Reveals(f, b, m, n)}
<1>1. 0 \in S
  <2>1. Reveals([k \in 0..0 |-> b], b, m, 0)
    BY DEF Reveals
  <2> QED BY <2>1
<1>2. ASSUME NEW n \in Nat, n \in S PROVE n + 1 \in S
  <2>1. PICK f : Reveals(f, b, m, n)
    BY <1>2
  <2> DEFINE next(k) == IF Unfinished(f[k - 1]) THEN Reveal(f[k - 1]) ELSE f[k - 1]
             g == [k \in 0..(n + 1) |-> IF k <= n THEN f[k] ELSE next(k)]
  <2>2. g = [k \in 0..(n + 1) |-> g[k]] /\ g[0] = b
    <3>1. f[0] = b
      BY <2>1, Zenon DEF Reveals
    <3>2. g[0] = f[0]
      OBVIOUS
    <3>3. g = [k \in 0..(n + 1) |-> g[k]]
      OBVIOUS
    <3> QED BY <3>1, <3>2, <3>3, Zenon
  <2>3. ASSUME NEW k \in 1..(n + 1)
        PROVE  g[k] = IF Unfinished(g[k - 1]) THEN Reveal(g[k - 1]) ELSE g[k - 1]
    <3>1. g[k - 1] = f[k - 1]
      OBVIOUS
    <3>2. CASE k <= n
      <4>1. g[k] = f[k] /\ k \in 1..n
        BY <3>2
      <4>2. f[k] = next(k)
        BY <2>1, <4>1, Zenon DEF Reveals
      <4> QED BY <3>1, <4>1, <4>2, Zenon
    <3>3. CASE ~(k <= n)
      <4>1. k \in 0..(n + 1)
        OBVIOUS
      <4>2. g[k] = next(k)
        BY <3>3, <4>1, Zenon
      <4> QED BY <3>1, <4>2, Zenon
    <3> QED BY <3>2, <3>3
  <2>4. Reveals(g, b, m, n + 1)
    BY <2>2, <2>3, Zenon DEF Reveals
  <2> QED BY <2>4
<1> HIDE DEF S
<1>3. \A n \in Nat : n \in S
  BY <1>1, <1>2, InductionBySet
<1> QED BY <1>3 DEF S

LEMMA RevealedUnfolds ==
    ASSUME NEW b, NEW m, m \in Nat
    PROVE  \E f : Reveals(f, b, m, m) /\ Revealed(b, m) = f[m]
<1> DEFINE n == m
           Def(f) == [i \in 0..n |-> IF i = 0 THEN b ELSE IF Unfinished(f[i - 1]) THEN Reveal(f[i - 1]) ELSE f[i - 1]]
           g == CHOOSE f : f = Def(f)
<1>1. PICK f : Reveals(f, b, m, n)
  BY RevealsExist
<1>2. f = Def(f)
  <2>1. ASSUME NEW k \in 0..n PROVE f[k] = Def(f)[k]
    <3>1. CASE k = 0
      <4>1. f[0] = b
        BY <1>1, Zenon DEF Reveals
      <4> QED BY <3>1, <4>1, Zenon
    <3>2. CASE k # 0
      <4>1. k \in 1..n
        BY <3>2
      <4>2. f[k] = IF Unfinished(f[k - 1]) THEN Reveal(f[k - 1]) ELSE f[k - 1]
        BY <1>1, <4>1, Zenon DEF Reveals
      <4> QED BY <3>2, <4>2, Zenon
    <3> QED BY <3>1, <3>2
  <2>2. f = [k \in 0..n |-> f[k]]
    BY <1>1, Zenon DEF Reveals
  <2> QED BY <2>1, <2>2, Zenon
<1>3. g = Def(g)
  BY <1>2, Zenon
<1>4. Revealed(b, m) = g[n]
  BY DEF Revealed
<1> HIDE DEF g
<1>5. Reveals(g, b, m, n)
  <2>1. ASSUME NEW k \in 1..n PROVE g[k] = IF Unfinished(g[k - 1]) THEN Reveal(g[k - 1]) ELSE g[k - 1]
    <3>1. k # 0 /\ k \in 0..n
      OBVIOUS
    <3> QED BY <1>3, <3>1, Zenon
  <2>2. g = [k \in 0..n |-> g[k]]
    BY <1>3, Zenon
  <2>3. g[0] = b
    <3>1. 0 \in 0..n
      OBVIOUS
    <3> QED BY <1>3, <3>1, Zenon
  <2> QED BY <2>1, <2>2, <2>3, Zenon DEF Reveals
<1> QED BY <1>4, <1>5

Enqueues(f, q, ms, n) ==
    /\ f = [k \in 0..n |-> f[k]]
    /\ f[0] = q /\ \A k \in 1..n : f[k] = enqueue(f[k - 1], ms[k])

LEMMA EnqueuesExist ==
    ASSUME NEW q, NEW ms
    PROVE  \A n \in Nat : \E f : Enqueues(f, q, ms, n)
<1> DEFINE S == {n \in Nat : \E f : Enqueues(f, q, ms, n)}
<1>1. 0 \in S
  <2>1. Enqueues([k \in 0..0 |-> q], q, ms, 0)
    BY DEF Enqueues
  <2> QED BY <2>1
<1>2. ASSUME NEW n \in Nat, n \in S PROVE n + 1 \in S
  <2>1. PICK f : Enqueues(f, q, ms, n)
    BY <1>2
  <2> DEFINE next(k) == enqueue(f[k - 1], ms[k])
             g == [k \in 0..(n + 1) |-> IF k <= n THEN f[k] ELSE next(k)]
  <2>2. g = [k \in 0..(n + 1) |-> g[k]] /\ g[0] = q
    <3>1. f[0] = q
      BY <2>1, Zenon DEF Enqueues
    <3>2. g[0] = f[0]
      OBVIOUS
    <3>3. g = [k \in 0..(n + 1) |-> g[k]]
      OBVIOUS
    <3> QED BY <3>1, <3>2, <3>3, Zenon
  <2>3. ASSUME NEW k \in 1..(n + 1)
        PROVE  g[k] = enqueue(g[k - 1], ms[k])
    <3>1. g[k - 1] = f[k - 1]
      OBVIOUS
    <3>2. CASE k <= n
      <4>1. g[k] = f[k] /\ k \in 1..n
        BY <3>2
      <4>2. f[k] = next(k)
        BY <2>1, <4>1, Zenon DEF Enqueues
      <4> QED BY <3>1, <4>1, <4>2, Zenon
    <3>3. CASE ~(k <= n)
      <4>1. k \in 0..(n + 1)
        OBVIOUS
      <4>2. g[k] = next(k)
        BY <3>3, <4>1, Zenon
      <4> QED BY <3>1, <4>2, Zenon
    <3> QED BY <3>2, <3>3
  <2>4. Enqueues(g, q, ms, n + 1)
    BY <2>2, <2>3, Zenon DEF Enqueues
  <2> QED BY <2>4
<1> HIDE DEF S
<1>3. \A n \in Nat : n \in S
  BY <1>1, <1>2, InductionBySet
<1> QED BY <1>3 DEF S

LEMMA EnqueueAllUnfolds ==
    ASSUME NEW q, NEW ms, Len(ms) \in Nat
    PROVE  \E f : Enqueues(f, q, ms, Len(ms)) /\ EnqueueAll(q, ms) = f[Len(ms)]
<1> DEFINE n == Len(ms)
           Def(f) == [i \in 0..n |-> IF i = 0 THEN q ELSE enqueue(f[i - 1], ms[i])]
           g == CHOOSE f : f = Def(f)
<1>1. PICK f : Enqueues(f, q, ms, n)
  BY EnqueuesExist
<1>2. f = Def(f)
  <2>1. ASSUME NEW k \in 0..n PROVE f[k] = Def(f)[k]
    <3>1. CASE k = 0
      <4>1. f[0] = q
        BY <1>1, Zenon DEF Enqueues
      <4> QED BY <3>1, <4>1, Zenon
    <3>2. CASE k # 0
      <4>1. k \in 1..n
        BY <3>2
      <4>2. f[k] = enqueue(f[k - 1], ms[k])
        BY <1>1, <4>1, Zenon DEF Enqueues
      <4> QED BY <3>2, <4>2, Zenon
    <3> QED BY <3>1, <3>2
  <2>2. f = [k \in 0..n |-> f[k]]
    BY <1>1, Zenon DEF Enqueues
  <2> QED BY <2>1, <2>2, Zenon
<1>3. g = Def(g)
  BY <1>2, Zenon
<1>4. EnqueueAll(q, ms) = g[n]
  BY DEF EnqueueAll
<1> HIDE DEF g
<1>5. Enqueues(g, q, ms, n)
  <2>1. ASSUME NEW k \in 1..n PROVE g[k] = enqueue(g[k - 1], ms[k])
    <3>1. k # 0 /\ k \in 0..n
      OBVIOUS
    <3> QED BY <1>3, <3>1, Zenon
  <2>2. g = [k \in 0..n |-> g[k]]
    BY <1>3, Zenon
  <2>3. g[0] = q
    <3>1. 0 \in 0..n
      OBVIOUS
    <3> QED BY <1>3, <3>1, Zenon
  <2> QED BY <2>1, <2>2, <2>3, Zenon DEF Enqueues
<1> QED BY <1>4, <1>5

Moves(f, p, moved, n) ==
    /\ f = [k \in 0..n |-> f[k]]
    /\ f[0] = p /\ \A k \in 1..n : f[k] = AreaChanged(f[k - 1], moved[k])

LEMMA MovesExist ==
    ASSUME NEW p, NEW moved
    PROVE  \A n \in Nat : \E f : Moves(f, p, moved, n)
<1> DEFINE S == {n \in Nat : \E f : Moves(f, p, moved, n)}
<1>1. 0 \in S
  <2>1. Moves([k \in 0..0 |-> p], p, moved, 0)
    BY DEF Moves
  <2> QED BY <2>1
<1>2. ASSUME NEW n \in Nat, n \in S PROVE n + 1 \in S
  <2>1. PICK f : Moves(f, p, moved, n)
    BY <1>2
  <2> DEFINE next(k) == AreaChanged(f[k - 1], moved[k])
             g == [k \in 0..(n + 1) |-> IF k <= n THEN f[k] ELSE next(k)]
  <2>2. g = [k \in 0..(n + 1) |-> g[k]] /\ g[0] = p
    <3>1. f[0] = p
      BY <2>1, Zenon DEF Moves
    <3>2. g[0] = f[0]
      OBVIOUS
    <3>3. g = [k \in 0..(n + 1) |-> g[k]]
      OBVIOUS
    <3> QED BY <3>1, <3>2, <3>3, Zenon
  <2>3. ASSUME NEW k \in 1..(n + 1)
        PROVE  g[k] = AreaChanged(g[k - 1], moved[k])
    <3>1. g[k - 1] = f[k - 1]
      OBVIOUS
    <3>2. CASE k <= n
      <4>1. g[k] = f[k] /\ k \in 1..n
        BY <3>2
      <4>2. f[k] = next(k)
        BY <2>1, <4>1, Zenon DEF Moves
      <4> QED BY <3>1, <4>1, <4>2, Zenon
    <3>3. CASE ~(k <= n)
      <4>1. k \in 0..(n + 1)
        OBVIOUS
      <4>2. g[k] = next(k)
        BY <3>3, <4>1, Zenon
      <4> QED BY <3>1, <4>2, Zenon
    <3> QED BY <3>2, <3>3
  <2>4. Moves(g, p, moved, n + 1)
    BY <2>2, <2>3, Zenon DEF Moves
  <2> QED BY <2>4
<1> HIDE DEF S
<1>3. \A n \in Nat : n \in S
  BY <1>1, <1>2, InductionBySet
<1> QED BY <1>3 DEF S

LEMMA ChangeAreasUnfolds ==
    ASSUME NEW p, NEW moved, Len(moved) \in Nat
    PROVE  \E f : Moves(f, p, moved, Len(moved)) /\ ChangeAreas(p, moved) = f[Len(moved)]
<1> DEFINE n == Len(moved)
           Def(f) == [i \in 0..n |-> IF i = 0 THEN p ELSE AreaChanged(f[i - 1], moved[i])]
           g == CHOOSE f : f = Def(f)
<1>1. PICK f : Moves(f, p, moved, n)
  BY MovesExist
<1>2. f = Def(f)
  <2>1. ASSUME NEW k \in 0..n PROVE f[k] = Def(f)[k]
    <3>1. CASE k = 0
      <4>1. f[0] = p
        BY <1>1, Zenon DEF Moves
      <4> QED BY <3>1, <4>1, Zenon
    <3>2. CASE k # 0
      <4>1. k \in 1..n
        BY <3>2
      <4>2. f[k] = AreaChanged(f[k - 1], moved[k])
        BY <1>1, <4>1, Zenon DEF Moves
      <4> QED BY <3>2, <4>2, Zenon
    <3> QED BY <3>1, <3>2
  <2>2. f = [k \in 0..n |-> f[k]]
    BY <1>1, Zenon DEF Moves
  <2> QED BY <2>1, <2>2, Zenon
<1>3. g = Def(g)
  BY <1>2, Zenon
<1>4. ChangeAreas(p, moved) = g[n]
  BY DEF ChangeAreas
<1> HIDE DEF g
<1>5. Moves(g, p, moved, n)
  <2>1. ASSUME NEW k \in 1..n PROVE g[k] = AreaChanged(g[k - 1], moved[k])
    <3>1. k # 0 /\ k \in 0..n
      OBVIOUS
    <3> QED BY <1>3, <3>1, Zenon
  <2>2. g = [k \in 0..n |-> g[k]]
    BY <1>3, Zenon
  <2>3. g[0] = p
    <3>1. 0 \in 0..n
      OBVIOUS
    <3> QED BY <1>3, <3>1, Zenon
  <2> QED BY <2>1, <2>2, <2>3, Zenon DEF Moves
<1> QED BY <1>4, <1>5
-----------------------------------------------------------------------------
(* The scene. *)
Texts == Seq(STRING)
Phases == {"INACTIVE", "PRE_DELAY", "SLIDING", "POST_DELAY"}
IcMessages ==
    [id : Nat \ {0}, text : Texts, side : STRING, slide : BOOLEAN, pre : BOOLEAN, immediate : BOOLEAN,
     objection : BOOLEAN, additive : BOOLEAN, own : BOOLEAN, zoom : BOOLEAN]
Actives ==
    [id : Nat \ {0}, side : STRING, text : Texts, additive : BOOLEAN, emote : {"IDLE", "PREANIM", "TALKING"},
     preanim_blocking : BOOLEAN, slide_pending : BOOLEAN]

\* The box shows no more than its text has, and is done when all of it is there.
BoxFields == {"of", "previous", "current", "events", "next_event", "pausing", "chars_visible", "state"}
BoxOK(b) ==
    /\ DOMAIN b = BoxFields
    /\ b.current \in Texts /\ b.chars_visible \in 0..Len(b.current)
    /\ b.state = "DONE" => b.chars_visible = Len(b.current)

\* What holds a text back is on its way, one thing at a time, and a text not held back is in the box.
ActiveOK(a, p) ==
    /\ a.slide_pending => p.departing /\ p.slide \in {"PRE_DELAY", "SLIDING"} /\ ~a.preanim_blocking
    /\ a.preanim_blocking => a.emote = "PREANIM"
    /\ ~a.slide_pending /\ ~a.preanim_blocking =>
          p.box.of = a.id /\ (p.box.state = "INACTIVE" => blank(a.text))

SceneFields == {"mq", "active", "departing", "slide", "box", "position"}
SceneOK(p) ==
    /\ DOMAIN p = SceneFields /\ p.departing \in BOOLEAN /\ p.slide \in Phases /\ BoxOK(p.box)
    /\ p.active = <<>> \/ \E a \in Actives : p.active = <<a>> /\ ActiveOK(a, p)

\* A text box that was just started.
LEMMA ProcessedText == ASSUME NEW txt \in Texts PROVE process(txt).display \in Texts
<1> DEFINE Good(x) == DOMAIN x = {"display", "events", "inline"} /\ x.display \in Texts
<1>1. Len(txt) \in Nat /\ \A k \in 1..Len(txt) : txt[k] \in STRING
  BY SeqIsFunction DEF Texts
<1>2. PICK f : Processes(f, txt, Len(txt)) /\ process(txt) = f[Len(txt)]
  BY <1>1, processUnfolds
<1> DEFINE S == {k \in Nat : k <= Len(txt) => Good(f[k])}
<1>3. 0 \in S
  <2>1. f[0] = Plain
    BY <1>2, Zenon DEF Processes
  <2>2. Good(Plain)
    BY DEF Plain, Texts
  <2> QED BY <2>1, <2>2, Zenon
<1>4. ASSUME NEW x, Good(x), NEW t \in STRING PROVE Good(Token(x, t))
  <2>1. \A type, c : Good(Marked(x, type, c))
    BY <1>4 DEF Marked
  <2>2. \A type, c, i : Good([Marked(x, type, c) EXCEPT !.inline = i])
    BY <2>1
  <2>3. Good([x EXCEPT !.display = Append(@, t)])
    <3>1. Append(x.display, t) \in Texts
      BY <1>4 DEF Texts
    <3> QED BY <1>4, <3>1
  <2> HIDE DEF Good
  <2> QED BY <2>1, <2>2, <2>3 DEF Token
<1>5. ASSUME NEW k \in Nat, k \in S PROVE k + 1 \in S
  <2> SUFFICES ASSUME k + 1 <= Len(txt) PROVE Good(f[k + 1])
    OBVIOUS
  <2>1. Good(f[k]) /\ k + 1 \in 1..Len(txt) /\ (k + 1) - 1 = k /\ txt[k + 1] \in STRING
    BY <1>1, <1>5
  <2>2. f[k + 1] = Token(f[(k + 1) - 1], txt[k + 1])
    BY <1>2, <2>1, Zenon DEF Processes
  <2> HIDE DEF Good
  <2> QED BY <1>4, <2>1, <2>2
<1> HIDE DEF S
<1>6. \A k \in Nat : k \in S
  BY <1>3, <1>5, InductionBySet
<1>7. Good(f[Len(txt)])
  <2>1. Len(txt) \in S /\ Len(txt) <= Len(txt)
    BY <1>1, <1>6
  <2> QED BY <2>1, Zenon DEF S
<1> QED BY <1>2, <1>7, Zenon

LEMMA StartedBox ==
    ASSUME NEW b, NEW of, NEW txt \in Texts, NEW additive
    PROVE  /\ BoxOK(start_message(b, of, txt, additive)) /\ start_message(b, of, txt, additive).of = of
           /\ start_message(b, of, txt, additive).state = "INACTIVE" => blank(txt)
<1> DEFINE s == start_message(b, of, txt, additive)
<1>1. process(txt).display \in Texts
  BY ProcessedText
<1>2. /\ s.of = of /\ s.current = process(txt).display /\ s.chars_visible = 0
      /\ s.state = IF blank(txt) THEN "INACTIVE" ELSE IF process(txt).display # <<>> THEN "TICKING" ELSE "DONE"
      /\ DOMAIN s = BoxFields
  BY DEF start_message, BoxFields
<1> HIDE DEF s
<1>3. Len(s.current) \in Nat /\ (s.current = <<>> => Len(s.current) = 0)
  BY <1>1, <1>2 DEF Texts
<1>4. s.state = "DONE" => s.current = <<>>
  BY <1>2
<1>5. BoxOK(s)
  BY <1>1, <1>2, <1>3, <1>4 DEF BoxOK
<1> QED BY <1>2, <1>5 DEF s

LEMMA ClearedBoxOK == ASSUME NEW b PROVE BoxOK(ClearedBox(b))
<1>1. <<>> \in Texts
  BY DEF Texts
<1> QED BY <1>1, StartedBox DEF ClearedBox

\* The box goes on with the text it was started for.
SameText(b, c) == c.of = b.of /\ (c.state = "INACTIVE" => b.state = "INACTIVE")

LEMMA RevealOne ==
    ASSUME NEW b, BoxOK(b), Unfinished(b)
    PROVE  BoxOK(Reveal(b)) /\ SameText(b, Reveal(b))
<1> DEFINE n == b.chars_visible + 1
           due == {i \in b.next_event..Len(b.events) : b.events[i].char_index <= n}
           pauses == {i \in due : b.events[i].type = "PAUSE"}
           last == IF pauses # {} THEN Min(pauses) ELSE Max(due \union {b.next_event - 1})
           s == IF pauses = {} /\ n >= Len(b.current) THEN "DONE" ELSE b.state
           c == [b EXCEPT !.chars_visible = n, !.next_event = last + 1, !.pausing = (pauses # {}), !.state = s]
<1>1. Reveal(b) = c
  BY DEF Reveal
<1>2. DOMAIN b = BoxFields /\ b.current \in Texts /\ Len(b.current) \in Nat /\ n \in 0..Len(b.current)
      /\ b.state = "TICKING"
  BY DEF BoxOK, Unfinished, Texts
<1> HIDE DEF due, pauses, last
<1>3. s = "DONE" => n = Len(b.current)
  BY <1>2
<1> HIDE DEF n, s
<1>4. c.of = b.of /\ c.current = b.current /\ c.chars_visible = n /\ c.state = s /\ DOMAIN c = BoxFields
  BY <1>2 DEF BoxFields
<1>5. s # "INACTIVE"
  BY <1>2 DEF s
<1> HIDE DEF c
<1> QED BY <1>1, <1>2, <1>3, <1>4, <1>5 DEF BoxOK, SameText

LEMMA TickedBox ==
    ASSUME NEW b, BoxOK(b), NEW beat \in Clocks
    PROVE  BoxOK(text_tick(b, beat)) /\ SameText(b, text_tick(b, beat))
<1> DEFINE Good(c) == BoxOK(c) /\ SameText(b, c)
<1>0. Good(b)
  BY DEF SameText
<1>1. CASE b.state # "TICKING"
  BY <1>0, <1>1 DEF text_tick
<1>2. CASE b.state = "TICKING" /\ b.pausing
  <2> DEFINE c == [b EXCEPT !.pausing = ~beat.linger]
  <2>1. text_tick(b, beat) = c
    BY <1>2 DEF text_tick
  <2>2. DOMAIN b = BoxFields
    BY DEF BoxOK
  <2>3. /\ c.of = b.of /\ c.current = b.current /\ c.chars_visible = b.chars_visible /\ c.state = b.state
        /\ DOMAIN c = BoxFields
    BY <2>2 DEF BoxFields
  <2> HIDE DEF c
  <2> QED BY <2>1, <2>3 DEF BoxOK, SameText
<1>3. CASE b.state = "TICKING" /\ ~b.pausing
  <2> DEFINE m == beat.chars
  <2>1. m \in Nat
    BY PlaybackAssumption DEF Clocks
  <2>2. text_tick(b, beat) = Revealed(b, m)
    BY <1>3 DEF text_tick
  <2> HIDE DEF m
  <2>3. PICK f : Reveals(f, b, m, m) /\ Revealed(b, m) = f[m]
    BY <2>1, RevealedUnfolds
  <2> DEFINE S == {k \in Nat : k <= m => Good(f[k])}
  <2>4. 0 \in S
    <3>1. f[0] = b
      BY <2>3, Zenon DEF Reveals
    <3> QED BY <1>0, <3>1, Zenon
  <2>5. ASSUME NEW k \in Nat, k \in S PROVE k + 1 \in S
    <3> SUFFICES ASSUME k + 1 <= m PROVE Good(f[k + 1])
      OBVIOUS
    <3>1. Good(f[k]) /\ k + 1 \in 1..m /\ (k + 1) - 1 = k
      BY <2>1, <2>5
    <3>2. f[k + 1] = IF Unfinished(f[(k + 1) - 1]) THEN Reveal(f[(k + 1) - 1]) ELSE f[(k + 1) - 1]
      BY <2>3, <3>1, Zenon DEF Reveals
    <3>3. Unfinished(f[k]) => BoxOK(Reveal(f[k])) /\ SameText(f[k], Reveal(f[k]))
      BY <3>1, RevealOne
    <3> QED BY <3>1, <3>2, <3>3 DEF SameText
  <2> HIDE DEF S
  <2>6. \A k \in Nat : k \in S
    BY <2>4, <2>5, InductionBySet
  <2>7. Good(f[m])
    <3>1. m \in S /\ m <= m
      BY <2>1, <2>6
    <3> QED BY <3>1, Zenon DEF S
  <2> QED BY <2>2, <2>3, <2>7, Zenon
<1> QED BY <1>1, <1>2, <1>3
-----------------------------------------------------------------------------
\* A message that takes the scene.
LEMMA PlayedScene ==
    ASSUME NEW p, SceneOK(p), NEW m \in IcMessages
    PROVE  LET r == play_message(p, m)
           IN  SceneOK(r) /\ r.mq = p.mq /\ \E a \in Actives : r.active = <<a>> /\ a.id = m.id
<1> DEFINE slides == should_slide(p, m)
           pending == slides /\ m.text # <<>>
           a == [id |-> m.id, side |-> m.side, text |-> m.text, additive |-> m.additive,
                 emote |-> emote_start(m), preanim_blocking |-> Blocking(m) /\ ~pending, slide_pending |-> pending]
           box == IF pending THEN ClearedBox(p.box) ELSE play(p.box, m)
           slide == IF slides THEN "PRE_DELAY" ELSE p.slide
           r == [p EXCEPT !.active = <<a>>, !.departing = slides, !.slide = slide, !.position = m.side, !.box = box]
<1>1. play_message(p, m) = r
  BY DEF play_message
<1>2. m.id \in Nat \ {0} /\ m.text \in Texts /\ m.side \in STRING /\ m.additive \in BOOLEAN
      /\ m.pre \in BOOLEAN /\ m.immediate \in BOOLEAN
  BY DEF IcMessages
<1>3. slides \in BOOLEAN /\ pending \in BOOLEAN /\ Blocking(m) \in BOOLEAN
  BY DEF should_slide, Blocking
<1>4. emote_start(m) \in {"IDLE", "PREANIM", "TALKING"} /\ (Blocking(m) => emote_start(m) = "PREANIM")
  BY DEF emote_start, Blocking
<1>5. a \in Actives
  BY <1>2, <1>3, <1>4 DEF Actives
<1>6. BoxOK(box) /\ (~pending /\ ~Blocking(m) => box.of = m.id /\ (box.state = "INACTIVE" => blank(m.text)))
  <2>1. BoxOK(ClearedBox(p.box))
    BY ClearedBoxOK
  <2> DEFINE s == start_message(p.box, m.id, m.text, m.additive)
  <2>2. BoxOK(s) /\ s.of = m.id /\ (s.state = "INACTIVE" => blank(m.text))
    BY <1>2, StartedBox
  <2>3. play(p.box, m) = IF Blocking(m) THEN ClearedBox(p.box) ELSE s
    BY DEF play
  <2> HIDE DEF s
  <2> QED BY <2>1, <2>2, <2>3
<1>7. DOMAIN p = SceneFields /\ p.slide \in Phases
  BY DEF SceneOK
<1>8. slide \in Phases /\ (slides => slide = "PRE_DELAY")
  BY <1>7 DEF Phases
<1> HIDE DEF box, slides, slide
<1>9. /\ DOMAIN r = SceneFields /\ r.active = <<a>> /\ r.departing = slides /\ r.slide = slide /\ r.box = box /\ r.mq = p.mq
  BY <1>7 DEF SceneFields
<1>10. a.id = m.id /\ a.text = m.text /\ a.slide_pending = pending /\ a.preanim_blocking = (Blocking(m) /\ ~pending)
       /\ a.emote = emote_start(m)
  OBVIOUS
<1> HIDE DEF a, r
<1>11. ActiveOK(a, r)
  BY <1>3, <1>4, <1>6, <1>8, <1>9, <1>10 DEF ActiveOK
<1>12. SceneOK(r)
  BY <1>3, <1>5, <1>6, <1>8, <1>9, <1>11 DEF SceneOK
<1> QED BY <1>1, <1>5, <1>9, <1>10, <1>12

\* The same message holds the scene after a step as before it.
SameScene(p, r) ==
    /\ r.mq = p.mq
    /\ \/ p.active = <<>> /\ r.active = <<>>
       \/ \E a, c \in Actives : p.active = <<a>> /\ r.active = <<c>> /\ c.id = a.id /\ c.text = a.text

LEMMA SameSceneItself == ASSUME NEW p, SceneOK(p) PROVE SameScene(p, p)
BY DEF SceneOK, SameScene

LEMMA StartedText ==
    ASSUME NEW p, NEW a \in Actives, p.active = <<a>>
    PROVE  BoxOK(StartText(p)) /\ StartText(p).of = a.id /\ (StartText(p).state = "INACTIVE" => blank(a.text))
<1>1. StartText(p) = start_message(p.box, a.id, a.text, a.additive)
  BY DEF StartText
<1>2. a.text \in Texts
  BY DEF Actives
<1> QED BY <1>1, <1>2, StartedBox

LEMMA AnimatedScene ==
    ASSUME NEW p, SceneOK(p), NEW beat \in Clocks
    PROVE  SceneOK(Animated(p, beat)) /\ SameScene(p, Animated(p, beat))
<1>1. CASE p.active = <<>>
  BY <1>1, SameSceneItself DEF Animated
<1>2. CASE p.active # <<>>
  <2>1. PICK a \in Actives : p.active = <<a>> /\ ActiveOK(a, p)
    BY <1>2 DEF SceneOK
  <2> DEFINE emote == IF a.emote = "PREANIM" /\ beat.anim THEN "TALKING" ELSE a.emote
             starts == a.preanim_blocking /\ a.emote = "PREANIM" /\ emote = "TALKING"
             box == IF starts THEN StartText(p) ELSE p.box
             e == IF box.state = "DONE" /\ emote = "TALKING" THEN "IDLE" ELSE emote
             c == [a EXCEPT !.preanim_blocking = a.preanim_blocking /\ ~starts, !.emote = e]
             r == [p EXCEPT !.box = box, !.active = <<c>>]
  <2>2. Animated(p, beat) = r
    BY <1>2, <2>1 DEF Animated
  <2>3. a.emote \in {"IDLE", "PREANIM", "TALKING"} /\ a.preanim_blocking \in BOOLEAN /\ a.slide_pending \in BOOLEAN
        /\ beat.anim \in BOOLEAN
    BY DEF Actives, Clocks
  <2>4. BoxOK(StartText(p)) /\ StartText(p).of = a.id /\ (StartText(p).state = "INACTIVE" => blank(a.text))
    BY <2>1, StartedText
  <2>5. BoxOK(p.box) /\ DOMAIN p = SceneFields /\ p.departing \in BOOLEAN /\ p.slide \in Phases
    BY DEF SceneOK
  <2>6. starts \in BOOLEAN /\ (a.preanim_blocking /\ ~starts => emote = "PREANIM")
    BY <2>1, <2>3 DEF ActiveOK
  <2>7. emote \in {"IDLE", "PREANIM", "TALKING"} /\ e \in {"IDLE", "PREANIM", "TALKING"} /\ (emote = "PREANIM" => e = "PREANIM")
    BY <2>3
  <2>8. starts => a.preanim_blocking
    OBVIOUS
  <2>9. /\ box = IF starts THEN StartText(p) ELSE p.box
    OBVIOUS
  <2> HIDE DEF starts, emote, e, box
  <2>10. c \in Actives /\ c.id = a.id /\ c.text = a.text /\ c.slide_pending = a.slide_pending /\ c.emote = e
         /\ c.preanim_blocking = (a.preanim_blocking /\ ~starts)
    BY <2>3, <2>6, <2>7 DEF Actives
  <2> HIDE DEF c
  <2>11. DOMAIN r = SceneFields /\ r.box = box /\ r.active = <<c>> /\ r.departing = p.departing /\ r.slide = p.slide
         /\ r.mq = p.mq
    BY <2>5 DEF SceneFields
  <2> HIDE DEF r
  <2>12. ActiveOK(c, r)
    <3>1. c.slide_pending => r.departing /\ r.slide \in {"PRE_DELAY", "SLIDING"} /\ ~c.preanim_blocking
      BY <2>1, <2>3, <2>10, <2>11 DEF ActiveOK
    <3>2. c.preanim_blocking => c.emote = "PREANIM"
      BY <2>6, <2>7, <2>10
    <3>3. ASSUME ~c.slide_pending, ~c.preanim_blocking
          PROVE  r.box.of = c.id /\ (r.box.state = "INACTIVE" => blank(c.text))
      <4>1. CASE starts
        BY <2>4, <2>9, <2>10, <2>11, <4>1
      <4>2. CASE ~starts
        BY <2>1, <2>3, <2>9, <2>10, <2>11, <3>3, <4>2 DEF ActiveOK
      <4> QED BY <4>1, <4>2
    <3> QED BY <3>1, <3>2, <3>3 DEF ActiveOK
  <2>13. SceneOK(r)
    BY <2>4, <2>5, <2>9, <2>10, <2>11, <2>12 DEF SceneOK
  <2> QED BY <2>1, <2>2, <2>10, <2>11, <2>13 DEF SameScene
<1> QED BY <1>1, <1>2

LEMMA TickedScene ==
    ASSUME NEW p, SceneOK(p), NEW beat \in Clocks
    PROVE  LET r == [p EXCEPT !.box = text_tick(p.box, beat)] IN SceneOK(r) /\ SameScene(p, r)
<1> DEFINE box == text_tick(p.box, beat)
           r == [p EXCEPT !.box = box]
<1>1. BoxOK(p.box) /\ DOMAIN p = SceneFields /\ p.departing \in BOOLEAN /\ p.slide \in Phases
  BY DEF SceneOK
<1>2. BoxOK(box) /\ SameText(p.box, box)
  BY <1>1, TickedBox
<1> HIDE DEF box
<1>3. /\ DOMAIN r = SceneFields /\ r.box = box /\ r.active = p.active /\ r.departing = p.departing /\ r.slide = p.slide
      /\ r.mq = p.mq
  BY <1>1 DEF SceneFields
<1> HIDE DEF r
<1>4. CASE p.active = <<>>
  <2>1. SceneOK(r) /\ SameScene(p, r)
    BY <1>1, <1>2, <1>3, <1>4 DEF SceneOK, SameScene
  <2> QED BY <2>1 DEF r, box
<1>5. CASE p.active # <<>>
  <2>1. PICK a \in Actives : p.active = <<a>> /\ ActiveOK(a, p)
    BY <1>5 DEF SceneOK
  <2>2. ActiveOK(a, r)
    BY <1>2, <1>3, <2>1 DEF ActiveOK, SameText
  <2>3. SceneOK(r) /\ SameScene(p, r)
    BY <1>1, <1>2, <1>3, <2>1, <2>2 DEF SceneOK, SameScene
  <2> QED BY <2>3 DEF r, box
<1> QED BY <1>4, <1>5

LEMMA PannedScene ==
    ASSUME NEW p, SceneOK(p), NEW beat \in Clocks
    PROVE  SceneOK(Panned(p, beat)) /\ SameScene(p, Panned(p, beat))
<1> DEFINE phase == slide_tick(p.slide, beat)
           ended == p.departing /\ ~needs_departing_scene(phase)
           frees == ended /\ p.active # <<>> /\ p.active[1].slide_pending
           chains == frees /\ p.active[1].emote = "PREANIM"
           act == IF frees THEN <<[p.active[1] EXCEPT !.slide_pending = FALSE, !.preanim_blocking = chains]>> ELSE p.active
           box == IF frees /\ ~chains THEN StartText(p) ELSE p.box
           r == [p EXCEPT !.slide = phase, !.departing = p.departing /\ ~ended, !.active = act, !.box = box]
<1>1. Panned(p, beat) = r
  BY DEF Panned
<1>2. BoxOK(p.box) /\ DOMAIN p = SceneFields /\ p.departing \in BOOLEAN /\ p.slide \in Phases
  BY DEF SceneOK
<1>3. phase \in Phases
  BY <1>2 DEF slide_tick, Phases
<1>4. ended \in BOOLEAN /\ (ended => p.departing)
      /\ (p.departing /\ ~ended => phase \in {"PRE_DELAY", "SLIDING"})
  BY <1>2 DEF needs_departing_scene
<1> HIDE DEF phase, ended
<1>5. DOMAIN r = SceneFields /\ r.slide = phase /\ r.departing = (p.departing /\ ~ended) /\ r.active = act /\ r.box = box
      /\ r.mq = p.mq
  BY <1>2 DEF SceneFields
<1>6. CASE p.active = <<>>
  <2>1. act = p.active /\ box = p.box
    BY <1>6
  <2> HIDE DEF act, box, r
  <2> QED BY <1>1, <1>2, <1>3, <1>4, <1>5, <1>6, <2>1 DEF SceneOK, SameScene
<1>7. CASE p.active # <<>>
  <2>1. PICK a \in Actives : p.active = <<a>> /\ ActiveOK(a, p)
    BY <1>7 DEF SceneOK
  <2>2. p.active[1] = a /\ a.slide_pending \in BOOLEAN /\ a.preanim_blocking \in BOOLEAN
    BY <2>1 DEF Actives
  <2>3. CASE ~frees
    <3>1. act = p.active /\ box = p.box
      BY <2>3
    <3> HIDE DEF act, box, r
    <3>2. a.slide_pending => ~ended
      BY <1>4, <1>7, <2>2, <2>3
    <3>3. ActiveOK(a, r)
      BY <1>2, <1>4, <1>5, <2>1, <2>2, <3>1, <3>2 DEF ActiveOK
    <3> QED BY <1>1, <1>2, <1>3, <1>4, <1>5, <2>1, <3>1, <3>3 DEF SceneOK, SameScene
  <2>4. CASE frees
    <3> DEFINE c == [a EXCEPT !.slide_pending = FALSE, !.preanim_blocking = chains]
    <3>1. chains = (a.emote = "PREANIM")
      BY <2>2, <2>4
    <3>2. act = <<c>> /\ box = IF chains THEN p.box ELSE StartText(p)
      BY <2>2, <2>4
    <3>3. c \in Actives /\ c.id = a.id /\ c.text = a.text /\ c.slide_pending = FALSE /\ c.preanim_blocking = chains
          /\ c.emote = a.emote
      BY <3>1 DEF Actives
    <3> HIDE DEF act, box, r, c, chains
    <3>4. BoxOK(StartText(p)) /\ StartText(p).of = a.id /\ (StartText(p).state = "INACTIVE" => blank(a.text))
      BY <2>1, StartedText
    <3>5. ActiveOK(c, r)
      BY <1>5, <3>1, <3>2, <3>3, <3>4 DEF ActiveOK
    <3> QED BY <1>1, <1>2, <1>3, <1>4, <1>5, <2>1, <3>2, <3>3, <3>4, <3>5 DEF SceneOK, SameScene
  <2> QED BY <2>3, <2>4
<1> QED BY <1>6, <1>7

\* A change of area clears the scene.
LEMMA ChangedScene ==
    ASSUME NEW p, NEW pos
    PROVE  SceneOK(AreaChanged(p, pos)) /\ AreaChanged(p, pos).active = <<>> /\ AreaChanged(p, pos).mq = EmptyQueue
<1> DEFINE box == ClearedBox(p.box)
           at == IF pos = "" THEN p.position ELSE pos
           r == [EmptyScene EXCEPT !.box = box, !.position = at]
<1>1. AreaChanged(p, pos) = r
  BY DEF AreaChanged
<1>2. BoxOK(box)
  BY ClearedBoxOK
<1> HIDE DEF box, at
<1>3. DOMAIN r = SceneFields /\ r.active = <<>> /\ r.mq = EmptyQueue /\ r.departing = FALSE /\ r.slide = "INACTIVE"
      /\ r.box = box
  BY DEF EmptyScene, SceneFields
<1> HIDE DEF r
<1>4. SceneOK(r)
  BY <1>2, <1>3 DEF SceneOK, Phases
<1> QED BY <1>1, <1>3, <1>4, Zenon

LEMMA ChangedAreas ==
    ASSUME NEW p, NEW T, NEW moved \in Seq(T)
    PROVE  LET r == ChangeAreas(p, moved)
           IN  IF moved = <<>> THEN r = p ELSE SceneOK(r) /\ r.active = <<>> /\ r.mq = EmptyQueue
<1> DEFINE n == Len(moved)
           r == ChangeAreas(p, moved)
<1>1. n \in Nat /\ (moved = <<>> <=> n = 0)
  OBVIOUS
<1>2. PICK f : Moves(f, p, moved, n) /\ r = f[n]
  BY <1>1, ChangeAreasUnfolds
<1>3. CASE n = 0
  BY <1>1, <1>2, <1>3 DEF Moves
<1>4. CASE n # 0
  <2>1. n \in 1..n
    BY <1>1, <1>4
  <2>2. f[n] = AreaChanged(f[n - 1], moved[n])
    BY <1>2, <2>1, Zenon DEF Moves
  <2>3. SceneOK(r) /\ r.active = <<>> /\ r.mq = EmptyQueue
    BY <1>2, <2>2, ChangedScene
  <2> HIDE DEF r, n
  <2> QED BY <1>1, <1>4, <2>3 DEF r
<1> QED BY <1>3, <1>4
-----------------------------------------------------------------------------
(* The order of the messages: the channel is the end of what arrived, the queue is in order. *)
QueueFields == {"queue", "playing", "ready"}
InLine(qu, n, arr, last) ==
    /\ qu \in Seq(IcMessages)
    /\ \A i \in 1..Len(qu) : qu[i].id \in 1..n /\ last < qu[i].id /\ qu[i] = arr[qu[i].id]
    /\ \A i, j \in 1..Len(qu) : i < j => qu[i].id < qu[j].id
Objected(arr, i) == \E j \in i+1..Len(arr) : arr[j].objection
Accounted(qu, n, arr, done) ==
    \A i \in 1..n : i \in done \/ (\E j \in 1..Len(qu) : qu[j].id = i) \/ Objected(arr, i)
Numbering(arr) == arr \in Seq(IcMessages) /\ \A i \in 1..Len(arr) : arr[i].id = i

\* The queue after some messages were queued onto q: it goes on playing, or an objection took its place.
QueuedOnto(q, r) ==
    /\ DOMAIN r = QueueFields /\ r.playing \in BOOLEAN /\ r.ready \in BOOLEAN
    /\ r.playing => q.playing
    /\ r.ready => ~r.playing /\ r.queue # <<>>
    /\ ~r.playing /\ q.playing => r.ready /\ Head(r.queue).objection
    /\ ~r.playing /\ ~r.ready => r.queue = <<>>

LEMMA OneEnqueued ==
    ASSUME NEW arr, Numbering(arr), NEW last \in Nat, NEW done, NEW n \in Nat, last <= n, n + 1 <= Len(arr),
           NEW q, NEW r, QueuedOnto(q, r), InLine(r.queue, n, arr, last), Accounted(r.queue, n, arr, done)
    PROVE  LET e == enqueue(r, arr[n + 1])
           IN  QueuedOnto(q, e) /\ InLine(e.queue, n + 1, arr, last) /\ Accounted(e.queue, n + 1, arr, done)
<1> DEFINE m == arr[n + 1]
           e == enqueue(r, m)
<1>1. Len(arr) \in Nat /\ n + 1 \in 1..Len(arr)
  BY DEF Numbering
<1>2. m \in IcMessages /\ m.id = n + 1
  BY <1>1 DEF Numbering
<1>3. r.queue \in Seq(IcMessages) /\ DOMAIN r = QueueFields
  BY DEF InLine, QueuedOnto
<1> HIDE DEF m
<1>4. m.objection \in BOOLEAN
  BY <1>2 DEF IcMessages
<1>5. CASE m.objection
  <2>1. e = [queue |-> <<m>>, playing |-> FALSE, ready |-> TRUE]
    BY <1>5 DEF enqueue, is_objection
  <2>2. DOMAIN e = QueueFields /\ e.queue = <<m>> /\ e.playing = FALSE /\ e.ready = TRUE
    BY <2>1 DEF QueueFields
  <2> HIDE DEF e
  <2>3. QueuedOnto(q, e)
    <3>1. <<m>> # <<>> /\ Head(<<m>>) = m
      BY <1>2
    <3> QED BY <1>5, <2>2, <3>1 DEF QueuedOnto
  <2>4. InLine(e.queue, n + 1, arr, last)
    BY <1>2, <2>2 DEF InLine, m
  <2>5. Accounted(e.queue, n + 1, arr, done)
    <3> SUFFICES ASSUME NEW i \in 1..n+1
                 PROVE  (\E j \in 1..Len(e.queue) : e.queue[j].id = i) \/ Objected(arr, i)
      BY DEF Accounted
    <3>1. CASE i = n + 1
      BY <1>2, <2>2, <3>1
    <3>2. CASE i # n + 1
      <4>1. n + 1 \in i+1..Len(arr) /\ arr[n + 1].objection
        BY <1>1, <1>5, <3>2 DEF m
      <4> QED BY <4>1 DEF Objected
    <3> QED BY <3>1, <3>2
  <2> QED BY <2>3, <2>4, <2>5 DEF e, m
<1>6. CASE ~m.objection
  <2> DEFINE rdy == r.ready \/ ~r.playing
  <2>1. e = [r EXCEPT !.queue = Append(r.queue, m), !.ready = rdy]
    BY <1>6 DEF enqueue, is_objection
  <2>2. rdy \in BOOLEAN
    OBVIOUS
  <2> HIDE DEF rdy
  <2>3. DOMAIN e = QueueFields /\ e.queue = Append(r.queue, m) /\ e.playing = r.playing /\ e.ready = rdy
    BY <1>3, <2>1 DEF QueueFields
  <2> HIDE DEF e
  <2> DEFINE qu == Append(r.queue, m)
  <2>4. qu \in Seq(IcMessages) /\ Len(qu) = Len(r.queue) + 1 /\ Len(r.queue) \in Nat
        /\ (\A i \in 1..Len(r.queue) : qu[i] = r.queue[i]) /\ qu[Len(r.queue) + 1] = m
    BY <1>2, <1>3
  <2>5. qu # <<>> /\ (r.queue # <<>> => Head(qu) = Head(r.queue))
    <3> HIDE DEF qu
    <3>1. qu # <<>>
      BY <2>4
    <3>2. ASSUME r.queue # <<>> PROVE Head(qu) = Head(r.queue)
      <4>1. 1 \in 1..Len(r.queue)
        BY <1>3, <3>2
      <4>2. qu[1] = r.queue[1]
        BY <2>4, <4>1, Zenon
      <4>3. Head(qu) = qu[1]
        BY <2>4, <3>1
      <4>4. Head(r.queue) = r.queue[1]
        BY <1>3, <3>2
      <4> QED BY <4>2, <4>3, <4>4
    <3> QED BY <3>1, <3>2
  <2> HIDE DEF qu
  <2>6. QueuedOnto(q, e)
    BY <2>2, <2>3, <2>5 DEF QueuedOnto, rdy, qu
  <2>7. InLine(qu, n + 1, arr, last)
    <3>1. ASSUME NEW i \in 1..Len(qu)
          PROVE  qu[i].id \in 1..n+1 /\ last < qu[i].id /\ qu[i] = arr[qu[i].id]
                 /\ (i <= Len(r.queue) => qu[i].id <= n) /\ (i > Len(r.queue) => i = Len(r.queue) + 1 /\ qu[i].id = n + 1)
      <4>1. CASE i <= Len(r.queue)
        <5>1. i \in 1..Len(r.queue) /\ qu[i] = r.queue[i]
          BY <2>4, <4>1
        <5>2. r.queue[i].id \in 1..n /\ last < r.queue[i].id /\ r.queue[i] = arr[r.queue[i].id]
          BY <5>1 DEF InLine
        <5> QED BY <2>4, <4>1, <5>1, <5>2
      <4>2. CASE ~(i <= Len(r.queue))
        <5>1. i = Len(r.queue) + 1 /\ qu[i] = m
          BY <2>4, <4>2
        <5> QED BY <1>2, <2>4, <4>2, <5>1 DEF m
      <4> QED BY <4>1, <4>2
    <3>2. ASSUME NEW i \in 1..Len(qu), NEW j \in 1..Len(qu), i < j PROVE qu[i].id < qu[j].id
      <4>1. i \in 1..Len(r.queue) /\ i <= Len(r.queue)
        BY <2>4, <3>2
      <4>2. CASE j <= Len(r.queue)
        <5>1. j \in 1..Len(r.queue) /\ r.queue[i].id < r.queue[j].id
          BY <2>4, <3>2, <4>1, <4>2 DEF InLine
        <5> QED BY <2>4, <4>1, <5>1
      <4>3. CASE j > Len(r.queue)
        BY <3>1, <4>1, <4>3
      <4> QED BY <2>4, <4>2, <4>3
    <3> QED BY <2>4, <3>1, <3>2 DEF InLine
  <2>8. Accounted(qu, n + 1, arr, done)
    <3> SUFFICES ASSUME NEW i \in 1..n+1, i \notin done, ~Objected(arr, i)
                 PROVE  \E j \in 1..Len(qu) : qu[j].id = i
      BY DEF Accounted
    <3>1. CASE i = n + 1
      BY <1>2, <2>4, <3>1
    <3>2. CASE i # n + 1
      <4>1. PICK j \in 1..Len(r.queue) : r.queue[j].id = i
        BY <3>2 DEF Accounted
      <4> QED BY <2>4, <4>1
    <3> QED BY <3>1, <3>2
  <2> QED BY <2>3, <2>6, <2>7, <2>8 DEF qu, e, m
<1> QED BY <1>4, <1>5, <1>6

LEMMA AllEnqueued ==
    ASSUME NEW arr, Numbering(arr), NEW last \in Nat, NEW done, NEW n \in Nat, last <= n,
           NEW ms \in Seq(IcMessages), n + Len(ms) = Len(arr), \A i \in 1..Len(ms) : ms[i] = arr[n + i],
           NEW q, QueuedOnto(q, q), InLine(q.queue, n, arr, last), Accounted(q.queue, n, arr, done)
    PROVE  /\ QueuedOnto(q, EnqueueAll(q, ms)) /\ InLine(EnqueueAll(q, ms).queue, Len(arr), arr, last)
           /\ Accounted(EnqueueAll(q, ms).queue, Len(arr), arr, done)
<1> DEFINE Good(r, k) == QueuedOnto(q, r) /\ InLine(r.queue, n + k, arr, last) /\ Accounted(r.queue, n + k, arr, done)
<1>1. Len(ms) \in Nat
  OBVIOUS
<1>2. PICK f : Enqueues(f, q, ms, Len(ms)) /\ EnqueueAll(q, ms) = f[Len(ms)]
  BY <1>1, EnqueueAllUnfolds
<1> DEFINE S == {k \in Nat : k <= Len(ms) => Good(f[k], k)}
<1>3. 0 \in S
  <2>1. f[0] = q
    BY <1>2, Zenon DEF Enqueues
  <2>2. n + 0 = n
    OBVIOUS
  <2>3. Good(q, 0)
    BY <2>2
  <2> QED BY <2>1, <2>3, Zenon
<1>4. ASSUME NEW k \in Nat, k \in S PROVE k + 1 \in S
  <2> SUFFICES ASSUME k + 1 <= Len(ms) PROVE Good(f[k + 1], k + 1)
    OBVIOUS
  <2>1. Good(f[k], k) /\ k + 1 \in 1..Len(ms) /\ (k + 1) - 1 = k /\ n + k \in Nat
    BY <1>1, <1>4
  <2>2. f[k + 1] = enqueue(f[(k + 1) - 1], ms[k + 1])
    BY <1>2, <2>1, Zenon DEF Enqueues
  <2>3. ms[k + 1] = arr[(n + k) + 1] /\ (n + k) + 1 = n + (k + 1)
    BY <2>1
  <2>4. last <= n + k /\ (n + k) + 1 <= Len(arr)
    BY <1>1, <2>1
  <2>5. f[k + 1] = enqueue(f[k], arr[(n + k) + 1])
    BY <2>1, <2>2, <2>3, Zenon
  <2> DEFINE e == f[k + 1]
             nk == n + k
             r == f[k]
  <2>6. QueuedOnto(q, r) /\ InLine(r.queue, nk, arr, last) /\ Accounted(r.queue, nk, arr, done)
    BY <2>1
  <2>7. nk \in Nat /\ last <= nk /\ nk + 1 <= Len(arr) /\ e = enqueue(r, arr[nk + 1]) /\ nk + 1 = n + (k + 1)
    BY <2>1, <2>3, <2>4, <2>5
  <2> HIDE DEF e, nk, r
  <2>8. QueuedOnto(q, e) /\ InLine(e.queue, nk + 1, arr, last) /\ Accounted(e.queue, nk + 1, arr, done)
    BY <2>6, <2>7, OneEnqueued
  <2> QED BY <2>7, <2>8, Zenon DEF e
<1> HIDE DEF S
<1>5. \A k \in Nat : k \in S
  BY <1>3, <1>4, InductionBySet
<1>6. Good(f[Len(ms)], Len(ms))
  <2>1. Len(ms) \in S /\ Len(ms) <= Len(ms)
    BY <1>1, <1>5
  <2> QED BY <2>1, Zenon DEF S
<1> QED BY <1>2, <1>6, Zenon
-----------------------------------------------------------------------------
LEMMA RequeuedScene ==
    ASSUME NEW p, SceneOK(p), NEW q
    PROVE  /\ SceneOK([p EXCEPT !.mq = q]) /\ [p EXCEPT !.mq = q].mq = q
           /\ [p EXCEPT !.mq = q].active = p.active /\ [p EXCEPT !.mq = q].box = p.box
<1> DEFINE r == [p EXCEPT !.mq = q]
<1>1. DOMAIN p = SceneFields
  BY DEF SceneOK
<1>2. /\ DOMAIN r = SceneFields /\ r.mq = q /\ r.active = p.active /\ r.departing = p.departing /\ r.slide = p.slide
      /\ r.box = p.box
  BY <1>1 DEF SceneFields
<1> HIDE DEF r
<1>3. \A a : ActiveOK(a, p) => ActiveOK(a, r)
  BY <1>2 DEF ActiveOK
<1>4. SceneOK(r)
  BY <1>2, <1>3 DEF SceneOK
<1> QED BY <1>2, <1>4 DEF r

\* The queue between two ticks: it plays while a message holds the scene, and keeps nothing otherwise.
RestingQueue(p) ==
    /\ DOMAIN p.mq = QueueFields
    /\ p.mq.playing = (p.active # <<>>) /\ p.mq.ready = FALSE
    /\ p.active = <<>> => p.mq.queue = <<>>

\* A message takes the scene from the head of the queue.
Took(p, v) ==
    \E a \in Actives : /\ v.active = <<a>> /\ p.mq.queue # <<>> /\ a.id = Head(p.mq.queue).id
                       /\ v.mq.queue = Tail(p.mq.queue)

LEMMA AdvancedScene ==
    ASSUME NEW p, SceneOK(p), NEW q, QueuedOnto(q, p.mq), p.mq.queue \in Seq(IcMessages),
           q.playing = (p.active # <<>>), NEW beat \in Clocks
    PROVE  LET v == Advanced(p, beat)
           IN  /\ SceneOK(v) /\ RestingQueue(v)
               /\ \/ v.active = p.active /\ v.mq.queue = p.mq.queue
                  \/ Took(p, v) /\ (p.active # <<>> => Head(p.mq.queue).objection \/ text_done(p))
<1> DEFINE t == queue_tick(p.mq, beat, text_done(p))
           fires == p.mq.playing /\ p.mq.queue # <<>> /\ text_done(p) /\ beat.linger
           v == Advanced(p, beat)
           Goal == /\ SceneOK(v) /\ RestingQueue(v)
                   /\ \/ v.active = p.active /\ v.mq.queue = p.mq.queue
                      \/ Took(p, v) /\ (p.active # <<>> => Head(p.mq.queue).objection \/ text_done(p))
<1>1. /\ DOMAIN p.mq = QueueFields /\ p.mq.playing \in BOOLEAN /\ p.mq.ready \in BOOLEAN
  BY DEF QueuedOnto
<1>2. t = IF fires THEN [p.mq EXCEPT !.playing = FALSE, !.ready = TRUE] ELSE p.mq
  BY DEF queue_tick
<1>3. v = IF HasNext(t) THEN [play_message(p, Head(t.queue)) EXCEPT !.mq = TakeNext(t)] ELSE [p EXCEPT !.mq = t]
  BY DEF Advanced
<1> HIDE DEF t, v
<1>4. t.queue = p.mq.queue /\ t.ready = (p.mq.ready \/ fires)
  <2>1. CASE fires
    <3> DEFINE u == [p.mq EXCEPT !.playing = FALSE, !.ready = TRUE]
    <3>1. u.queue = p.mq.queue /\ u.ready = TRUE
      BY <1>1 DEF QueueFields
    <3> HIDE DEF u
    <3>2. t = u
      BY <1>2, <2>1 DEF u
    <3> QED BY <2>1, <3>1, <3>2
  <2>2. CASE ~fires
    BY <1>1, <1>2, <2>2
  <2> QED BY <2>1, <2>2
<1>5. CASE HasNext(t)
  <2> DEFINE m == Head(p.mq.queue)
             w == play_message(p, m)
             k == TakeNext(t)
  <2>1. t.ready /\ p.mq.queue # <<>>
    BY <1>4, <1>5 DEF HasNext
  <2>2. m \in IcMessages
    BY <2>1
  <2>3. SceneOK(w) /\ (\E a \in Actives : w.active = <<a>> /\ a.id = m.id)
    BY <2>2, PlayedScene
  <2>4. v = [w EXCEPT !.mq = k]
    BY <1>3, <1>4, <1>5
  <2>5. DOMAIN k = QueueFields /\ k.queue = Tail(p.mq.queue) /\ k.playing = TRUE /\ k.ready = FALSE
    BY <1>4 DEF TakeNext, QueueFields
  <2>6. p.active # <<>> => m.objection \/ text_done(p)
    <3>1. CASE fires
      BY <3>1
    <3>2. CASE ~fires
      BY <1>1, <1>4, <2>1, <3>2 DEF QueuedOnto
    <3> QED BY <3>1, <3>2
  <2> HIDE DEF w, k, m
  <2>7. SceneOK(v) /\ v.mq = k /\ v.active = w.active
    BY <2>3, <2>4, RequeuedScene
  <2>8. PICK a \in Actives : w.active = <<a>> /\ a.id = m.id
    BY <2>3
  <2>9. RestingQueue(v)
    <3>1. v.active # <<>>
      BY <2>7, <2>8
    <3>2. v.mq.playing = TRUE /\ v.mq.ready = FALSE /\ DOMAIN v.mq = QueueFields
      BY <2>5, <2>7
    <3> QED BY <3>1, <3>2 DEF RestingQueue
  <2>10. Took(p, v)
    BY <2>1, <2>5, <2>7, <2>8 DEF Took, m
  <2>11. Goal
    BY <2>6, <2>7, <2>9, <2>10 DEF m
  <2> HIDE DEF Goal
  <2> QED BY <2>11 DEF Goal, v
<1>6. CASE ~HasNext(t)
  <2>1. v = [p EXCEPT !.mq = t]
    BY <1>3, <1>6
  <2>2. SceneOK(v) /\ v.mq = t /\ v.active = p.active
    BY <2>1, RequeuedScene
  <2>3. ~fires
    BY <1>4, <1>6 DEF HasNext
  <2>4. t = p.mq /\ p.mq.ready = FALSE
    BY <1>1, <1>2, <1>4, <1>6, <2>3 DEF HasNext, QueuedOnto
  <2>5. p.mq.playing = (p.active # <<>>) /\ (p.active = <<>> => p.mq.queue = <<>>)
    BY <1>1, <2>4 DEF QueuedOnto
  <2>6. RestingQueue(v)
    BY <1>1, <2>2, <2>4, <2>5 DEF RestingQueue
  <2>7. Goal
    BY <2>2, <2>4, <2>6
  <2> HIDE DEF Goal
  <2> QED BY <2>7 DEF Goal, v
<1> QED BY <1>5, <1>6
-----------------------------------------------------------------------------
(* The invariant of the courtroom. *)
\* The last number of s, 0 if there is none.
LastOr0(s) == Last(<<0>> \o s)
LastPlayed == LastOr0(played)
Drained == Len(arrived) - Len(ic_ch)

ChannelOK ==
    /\ Numbering(arrived) /\ ic_ch \in Seq(IcMessages) /\ Len(ic_ch) <= Len(arrived)
    /\ \A i \in 1..Len(ic_ch) : ic_ch[i] = arrived[Drained + i]

PlayedOK ==
    /\ played \in Seq(Nat) /\ LastPlayed <= Drained
    /\ \A i, j \in 1..Len(played) : i < j => played[i] < played[j]
    /\ \A i \in 1..Len(played) : 0 < played[i]

OrderOK ==
    /\ InLine(pr.mq.queue, Drained, arrived, LastPlayed)
    /\ Accounted(pr.mq.queue, Drained, arrived, ToSet(played) \union wiped)
    /\ pr.active # <<>> => pr.active[1].id = LastPlayed

Positions == {"", "def"}

PlaybackInv ==
    /\ ChannelOK /\ PlayedOK /\ OrderOK
    /\ SceneOK(pr) /\ RestingQueue(pr)
    /\ bg_ch \in Seq(Positions)

LEMMA LastOfPlayed ==
    ASSUME NEW s \in Seq(Nat)
    PROVE  LastOr0(s) = IF s = <<>> THEN 0 ELSE s[Len(s)]
<1> DEFINE t == <<0>> \o s
<1>1. Len(t) = Len(s) + 1 /\ LastOr0(s) = t[Len(t)] /\ Len(s) \in Nat
  BY DEF LastOr0, Last
<1>2. CASE s = <<>>
  BY <1>1, <1>2
<1>3. CASE s # <<>>
  <2>1. t[Len(s) + 1] = s[Len(s)]
    BY <1>3
  <2> QED BY <1>1, <1>3, <2>1
<1> QED BY <1>2, <1>3

\* The next message played comes after every one before it.
LEMMA PlayedNext ==
    ASSUME NEW s \in Seq(Nat), \A i, j \in 1..Len(s) : i < j => s[i] < s[j], \A i \in 1..Len(s) : 0 < s[i],
           NEW x \in Nat, LastOr0(s) < x
    PROVE  /\ Append(s, x) \in Seq(Nat) /\ LastOr0(Append(s, x)) = x
           /\ \A i, j \in 1..Len(Append(s, x)) : i < j => Append(s, x)[i] < Append(s, x)[j]
           /\ \A i \in 1..Len(Append(s, x)) : 0 < Append(s, x)[i]
           /\ ToSet(Append(s, x)) = ToSet(s) \union {x}
<1> DEFINE t == Append(s, x)
           n == Len(s)
<1>1. n \in Nat /\ t \in Seq(Nat) /\ Len(t) = n + 1 /\ t[n + 1] = x /\ (\A i \in 1..n : t[i] = s[i] /\ s[i] \in Nat) /\ t # <<>>
  OBVIOUS
<1>2. LastOr0(s) = IF s = <<>> THEN 0 ELSE s[n]
  BY LastOfPlayed
<1>3. LastOr0(t) = t[Len(t)]
  BY <1>1, LastOfPlayed
<1>4. \A i \in 1..n : s[i] < x
  <2> TAKE i \in 1..n
  <2>1. s # <<>> /\ n \in 1..n
    BY <1>1
  <2>2. i = n \/ s[i] < s[n]
    BY <1>1, <2>1
  <2> QED BY <1>1, <1>2, <2>1, <2>2
<1>5. 0 < x
  BY <1>1, <1>2
<1>6. ToSet(t) = ToSet(s) \union {x}
  BY ToSetAppend
<1> HIDE DEF t
<1>7. \A i, j \in 1..(n + 1) : i < j => t[i] < t[j]
  <2> SUFFICES ASSUME NEW i \in 1..(n + 1), NEW j \in 1..(n + 1), i < j PROVE t[i] < t[j]
    OBVIOUS
  <2>1. i \in 1..n
    BY <1>1
  <2>2. CASE j = n + 1
    BY <1>1, <1>4, <2>1, <2>2
  <2>3. CASE j # n + 1
    <3>1. j \in 1..n
      <4>1. n \in Nat
        OBVIOUS
      <4> HIDE DEF n
      <4> QED BY <2>3, <4>1
    <3> QED BY <1>1, <2>1, <3>1
  <2> QED BY <2>2, <2>3
<1>8. \A i \in 1..(n + 1) : 0 < t[i]
  <2> TAKE i \in 1..(n + 1)
  <2>1. CASE i = n + 1
    BY <1>1, <1>5, <2>1
  <2>2. CASE i # n + 1
    <3>1. i \in 1..n
      BY <1>1, <2>2
    <3> QED BY <1>1, <3>1
  <2> QED BY <2>1, <2>2
<1> QED BY <1>1, <1>3, <1>6, <1>7, <1>8 DEF t
-----------------------------------------------------------------------------
LEMMA EmptyRests == ASSUME NEW p, p.mq = EmptyQueue, p.active = <<>> PROVE RestingQueue(p) /\ p.mq.queue = <<>>
<1>1. DOMAIN EmptyQueue = QueueFields /\ EmptyQueue.queue = <<>> /\ EmptyQueue.playing = FALSE /\ EmptyQueue.ready = FALSE
  BY DEF EmptyQueue, QueueFields
<1>2. (p.active # <<>>) = FALSE
  OBVIOUS
<1>3. EmptyQueue.playing = (p.active # <<>>)
  BY <1>1, <1>2, Zenon
<1> QED BY <1>1, <1>3 DEF RestingQueue

LEMMA PlaybackStarts == PbInit => PlaybackInv
<1> SUFFICES ASSUME PbInit PROVE PlaybackInv
  OBVIOUS
<1> USE DEF PbInit
<1>1. LastPlayed = 0 /\ Drained = 0
  <2>1. <<>> \in Seq(Nat)
    OBVIOUS
  <2>2. LastOr0(<<>>) = 0
    BY <2>1, LastOfPlayed
  <2>3. LastPlayed = LastOr0(<<>>)
    BY DEF LastPlayed
  <2>4. Drained = 0
    BY DEF Drained
  <2> QED BY <2>2, <2>3, <2>4
<1>2. ChannelOK
  BY DEF ChannelOK, Numbering
<1>3. PlayedOK
  BY <1>1 DEF PlayedOK
<1>4. pr.mq = EmptyQueue /\ pr.active = <<>> /\ EmptyQueue.queue = <<>>
  BY DEF EmptyScene, EmptyQueue
<1>5. OrderOK
  BY <1>1, <1>4 DEF OrderOK, InLine, Accounted
<1>6. SceneOK(pr)
  <2>1. BoxOK(EmptyBox)
    BY DEF BoxOK, EmptyBox, BoxFields, Texts
  <2> QED BY <2>1 DEF SceneOK, EmptyScene, SceneFields, Phases
<1>7. RestingQueue(pr)
  BY <1>4, EmptyRests
<1> QED BY <1>2, <1>3, <1>5, <1>6, <1>7 DEF PlaybackInv

\* What is said of the messages that arrived stays true of them when another one arrives.
LEMMA OneArrives ==
    ASSUME NEW arr, Numbering(arr), NEW m \in IcMessages, m.id = Len(arr) + 1,
           NEW n \in Nat, n <= Len(arr), NEW qu, NEW last, NEW done,
           InLine(qu, n, arr, last), Accounted(qu, n, arr, done)
    PROVE  Numbering(Append(arr, m)) /\ InLine(qu, n, Append(arr, m), last) /\ Accounted(qu, n, Append(arr, m), done)
<1> DEFINE t == Append(arr, m)
<1>1. t \in Seq(IcMessages) /\ Len(t) = Len(arr) + 1 /\ Len(arr) \in Nat /\ t[Len(arr) + 1] = m
      /\ \A i \in 1..Len(arr) : t[i] = arr[i]
  BY DEF Numbering
<1> HIDE DEF t
<1>2. Numbering(t)
  <2> SUFFICES ASSUME NEW i \in 1..Len(t) PROVE t[i].id = i
    BY <1>1 DEF Numbering
  <2>1. CASE i = Len(arr) + 1
    BY <1>1, <2>1
  <2>2. CASE i # Len(arr) + 1
    <3>1. i \in 1..Len(arr)
      BY <1>1, <2>2
    <3> QED BY <1>1, <3>1 DEF Numbering
  <2> QED BY <2>1, <2>2
<1>3. InLine(qu, n, t, last)
  <2>1. \A i \in 1..n : t[i] = arr[i]
    BY <1>1
  <2> QED BY <2>1 DEF InLine
<1>4. \A i : Objected(arr, i) => i \notin 1..n \/ Objected(t, i)
  <2> SUFFICES ASSUME NEW i \in 1..n, Objected(arr, i) PROVE Objected(t, i)
    OBVIOUS
  <2>1. PICK j \in i+1..Len(arr) : arr[j].objection
    BY DEF Objected
  <2>2. j \in 1..Len(arr) /\ j \in i+1..Len(t)
    BY <1>1, <2>1
  <2> QED BY <1>1, <2>1, <2>2 DEF Objected
<1>5. Accounted(qu, n, t, done)
  BY <1>4 DEF Accounted
<1> QED BY <1>2, <1>3, <1>5 DEF t

LEMMA NumberedMessage ==
    ASSUME NEW k \in Kinds, NEW n \in Nat \ {0}
    PROVE  Numbered(n, k) \in IcMessages /\ Numbered(n, k).id = n
BY PlaybackAssumption DEF Numbered, IcMessages, Texts

LEMMA PublishingIC == ASSUME PlaybackInv, NEW k \in Kinds, PublishIC(k) PROVE PlaybackInv'
<1> DEFINE m == Numbered(Len(arrived) + 1, k)
<1>1. arrived' = Append(arrived, m) /\ ic_ch' = Append(ic_ch, m)
      /\ bg_ch' = bg_ch /\ pr' = pr /\ played' = played /\ wiped' = wiped
  BY DEF PublishIC
<1>2. arrived \in Seq(IcMessages) /\ Len(arrived) \in Nat /\ ic_ch \in Seq(IcMessages) /\ Len(ic_ch) \in Nat
      /\ Len(ic_ch) <= Len(arrived) /\ Numbering(arrived)
  BY DEF PlaybackInv, ChannelOK, Numbering
<1>3. m \in IcMessages /\ m.id = Len(arrived) + 1
  BY <1>2, NumberedMessage
<1> HIDE DEF m
<1>4. Len(arrived') = Len(arrived) + 1 /\ Len(ic_ch') = Len(ic_ch) + 1 /\ Drained' = Drained /\ Drained \in Nat
      /\ Drained <= Len(arrived)
  BY <1>1, <1>2, <1>3 DEF Drained
<1>5. /\ Numbering(arrived') /\ InLine(pr.mq.queue, Drained, arrived', LastPlayed)
      /\ Accounted(pr.mq.queue, Drained, arrived', ToSet(played) \union wiped)
  BY <1>1, <1>2, <1>3, <1>4, OneArrives DEF PlaybackInv, OrderOK
<1>6. ChannelOK'
  <2>1. ic_ch' \in Seq(IcMessages)
    BY <1>1, <1>2, <1>3
  <2>2. ASSUME NEW i \in 1..Len(ic_ch') PROVE ic_ch'[i] = arrived'[Drained + i]
    <3>1. CASE i = Len(ic_ch) + 1
      <4>1. Drained + i = Len(arrived) + 1
        BY <1>2, <3>1 DEF Drained
      <4> QED BY <1>1, <1>2, <1>3, <3>1, <4>1
    <3>2. CASE i # Len(ic_ch) + 1
      <4>1. i \in 1..Len(ic_ch) /\ Drained + i \in 1..Len(arrived)
        BY <1>2, <1>4, <3>2 DEF Drained
      <4>2. ic_ch[i] = arrived[Drained + i]
        BY <4>1 DEF PlaybackInv, ChannelOK
      <4> QED BY <1>1, <1>2, <1>3, <4>1, <4>2
    <3> QED BY <3>1, <3>2
  <2> QED BY <1>2, <1>4, <1>5, <2>1, <2>2 DEF ChannelOK
<1>7. LastPlayed' = LastPlayed
  BY <1>1 DEF LastPlayed, LastOr0
<1>8. PlayedOK'
  BY <1>1, <1>4, <1>7 DEF PlaybackInv, PlayedOK
<1>9. OrderOK'
  BY <1>1, <1>4, <1>5, <1>7 DEF PlaybackInv, OrderOK
<1> QED BY <1>1, <1>6, <1>8, <1>9 DEF PlaybackInv, SceneOK, RestingQueue

LEMMA PublishingBG == ASSUME PlaybackInv, NEW pos \in Positions, PublishBG(pos) PROVE PlaybackInv'
<1>1. bg_ch' \in Seq(Positions) /\ UNCHANGED <<ic_ch, draining, pr, arrived, played, wiped>>
  <2>1. bg_ch \in Seq(Positions) /\ bg_ch' = Append(bg_ch, pos)
    BY DEF PublishBG, PlaybackInv
  <2>2. UNCHANGED <<ic_ch, draining, pr, arrived, played, wiped>>
    BY DEF PublishBG
  <2>3. Append(bg_ch, pos) \in Seq(Positions)
    BY <2>1, ToSetAppend
  <2> QED BY <2>1, <2>2, <2>3
<1>2. UNCHANGED <<Drained, LastPlayed>>
  BY <1>1 DEF Drained, LastPlayed, LastOr0
<1>3. ChannelOK'
  BY <1>1, <1>2 DEF PlaybackInv, ChannelOK
<1>4. PlayedOK'
  BY <1>1, <1>2 DEF PlaybackInv, PlayedOK
<1>5. OrderOK'
  BY <1>1, <1>2 DEF PlaybackInv, OrderOK
<1> QED BY <1>1, <1>3, <1>4, <1>5 DEF PlaybackInv

LEMMA DrainingBackgrounds == ASSUME PlaybackInv, DrainBackgrounds PROVE PlaybackInv'
<1>1. /\ bg_ch' = <<>> /\ pr' = ChangeAreas(pr, bg_ch) /\ UNCHANGED <<ic_ch, arrived, played>>
      /\ wiped' = wiped \union (IF bg_ch = <<>> THEN {} ELSE {m.id : m \in ToSet(pr.mq.queue)})
  BY DEF DrainBackgrounds
<1>2. UNCHANGED <<Drained, LastPlayed>>
  BY <1>1 DEF Drained, LastPlayed, LastOr0
<1>3. ChannelOK'
  BY <1>1, <1>2 DEF PlaybackInv, ChannelOK
<1>4. PlayedOK'
  BY <1>1, <1>2 DEF PlaybackInv, PlayedOK
<1>5. IF bg_ch = <<>> THEN pr' = pr ELSE SceneOK(pr') /\ pr'.active = <<>> /\ pr'.mq = EmptyQueue
  BY <1>1, ChangedAreas DEF PlaybackInv
<1>6. CASE bg_ch = <<>>
  <2>1. wiped' = wiped /\ pr' = pr
    BY <1>1, <1>5, <1>6
  <2>2. OrderOK'
    BY <1>1, <1>2, <2>1 DEF PlaybackInv, OrderOK
  <2> QED BY <1>1, <1>3, <1>4, <2>1, <2>2 DEF PlaybackInv
<1>7. CASE bg_ch # <<>>
  <2>1. pr'.mq.queue = <<>> /\ pr'.active = <<>> /\ SceneOK(pr') /\ RestingQueue(pr')
    BY <1>5, <1>7, EmptyRests
  <2>2. wiped' = wiped \union {m.id : m \in ToSet(pr.mq.queue)}
    BY <1>1, <1>7
  <2>3. Accounted(<<>>, Drained, arrived, ToSet(played) \union wiped')
    <3> SUFFICES ASSUME NEW i \in 1..Drained, i \notin ToSet(played), i \notin wiped', ~Objected(arrived, i)
                 PROVE  FALSE
      BY DEF Accounted
    <3>1. PICK j \in 1..Len(pr.mq.queue) : pr.mq.queue[j].id = i
      BY <2>2 DEF PlaybackInv, OrderOK, Accounted
    <3>2. pr.mq.queue[j] \in ToSet(pr.mq.queue)
      BY <3>1, SeqIsFunction DEF ToSet, PlaybackInv, OrderOK, InLine
    <3> QED BY <2>2, <3>1, <3>2
  <2>4. OrderOK'
    BY <1>1, <1>2, <2>1, <2>3 DEF OrderOK, InLine
  <2>5. <<>> \in Seq(Positions)
    OBVIOUS
  <2> QED BY <1>1, <1>3, <1>4, <2>1, <2>4, <2>5 DEF PlaybackInv
<1> QED BY <1>6, <1>7
-----------------------------------------------------------------------------
\* The head of the queue is played.
LEMMA HeadPlayed ==
    ASSUME NEW qu, NEW n \in Nat, NEW arr, NEW last \in Nat, NEW done, InLine(qu, n, arr, last),
           Accounted(qu, n, arr, done), qu # <<>>
    PROVE  /\ Head(qu) \in IcMessages /\ Head(qu).id \in 1..n /\ last < Head(qu).id /\ Head(qu) = arr[Head(qu).id]
           /\ InLine(Tail(qu), n, arr, Head(qu).id) /\ Accounted(Tail(qu), n, arr, done \union {Head(qu).id})
<1> DEFINE t == Tail(qu)
           h == Head(qu)
<1>1. qu \in Seq(IcMessages)
  BY DEF InLine
<1>2. h = qu[1] /\ 1 \in 1..Len(qu) /\ h \in IcMessages /\ t \in Seq(IcMessages) /\ Len(t) = Len(qu) - 1 /\ Len(qu) \in Nat
      /\ \A i \in 1..Len(t) : i + 1 \in 1..Len(qu) /\ t[i] = qu[i + 1] /\ 1 < i + 1
  BY <1>1
<1> HIDE DEF t, h
<1>3. h.id \in 1..n /\ last < h.id /\ h = arr[h.id]
  BY <1>2 DEF InLine
<1>4. InLine(t, n, arr, h.id)
  <2>1. ASSUME NEW i \in 1..Len(t) PROVE t[i].id \in 1..n /\ h.id < t[i].id /\ t[i] = arr[t[i].id]
    <3>1. qu[i + 1].id \in 1..n /\ qu[1].id < qu[i + 1].id /\ qu[i + 1] = arr[qu[i + 1].id]
      BY <1>2 DEF InLine
    <3> QED BY <1>2, <3>1
  <2>2. ASSUME NEW i \in 1..Len(t), NEW j \in 1..Len(t), i < j PROVE t[i].id < t[j].id
    <3>1. i + 1 < j + 1 /\ i + 1 \in 1..Len(qu) /\ j + 1 \in 1..Len(qu)
      BY <1>2, <2>2
    <3>2. qu[i + 1].id < qu[j + 1].id
      BY <3>1 DEF InLine
    <3> QED BY <1>2, <3>2
  <2> QED BY <1>2, <2>1, <2>2 DEF InLine
<1>5. Accounted(t, n, arr, done \union {h.id})
  <2> SUFFICES ASSUME NEW i \in 1..n, i \notin done, i # h.id, ~Objected(arr, i)
               PROVE  \E j \in 1..Len(t) : t[j].id = i
    BY DEF Accounted
  <2>1. PICK j \in 1..Len(qu) : qu[j].id = i
    BY DEF Accounted
  <2>2. j # 1
    BY <1>2, <2>1
  <2>3. j - 1 \in 1..Len(t) /\ (j - 1) + 1 = j
    BY <1>2, <2>2
  <2>4. t[j - 1] = qu[j]
    BY <1>2, <2>3
  <2> QED BY <2>1, <2>3, <2>4
<1> QED BY <1>2, <1>3, <1>4, <1>5 DEF t, h

\* A text that may give way is all on screen.
LEMMA DoneTextShown ==
    ASSUME NEW p, SceneOK(p), text_done(p), NEW a \in ToSet(p.active), ~blank(a.text)
    PROVE  p.box.of = a.id /\ p.box.chars_visible = Len(p.box.current)
<1>1. PICK c \in Actives : p.active = <<c>> /\ ActiveOK(c, p)
  BY DEF SceneOK, ToSet
<1>2. a = c /\ p.active # <<>> /\ p.active[1] = c
  BY <1>1 DEF ToSet
<1>3. ~a.slide_pending /\ ~a.preanim_blocking /\ p.box.state \in {"DONE", "INACTIVE"}
  BY <1>2 DEF text_done
<1>4. p.box.of = a.id /\ p.box.state # "INACTIVE"
  BY <1>1, <1>2, <1>3 DEF ActiveOK
<1> QED BY <1>3, <1>4 DEF SceneOK, BoxOK

\* The rest of a tick keeps the invariant, and takes the scene only from a text that is all on screen.
LEMMA RestOfTicking ==
    ASSUME PlaybackInv, NEW beat \in Clocks, RestOfTick(beat)
    PROVE  /\ PlaybackInv'
           /\ \A a \in ToSet(pr.active), b \in ToSet(pr'.active) :
                 b.id # a.id /\ ~arrived[b.id].objection /\ ~blank(a.text)
                    => pr.box.of = a.id /\ pr.box.chars_visible = Len(pr.box.current)
<1> DEFINE q == EnqueueAll(pr.mq, ic_ch)
           drained == [pr EXCEPT !.mq = q]
           advanced == Advanced(drained, beat)
           animated == Animated(advanced, beat)
           ticked == [animated EXCEPT !.box = text_tick(animated.box, beat)]
           n == Len(arrived)
           done == ToSet(played) \union wiped
           last == LastPlayed
           InTurn == \A a \in ToSet(pr.active), b \in ToSet(pr'.active) :
                       b.id # a.id /\ ~arrived[b.id].objection /\ ~blank(a.text)
                          => pr.box.of = a.id /\ pr.box.chars_visible = Len(pr.box.current)
<1>1. /\ ic_ch' = <<>> /\ pr' = Panned(ticked, beat)
      /\ played' = IF advanced.active # <<>> /\ advanced.active[1].id # last
                   THEN Append(played, advanced.active[1].id) ELSE played
  BY DEF RestOfTick, LastPlayed, LastOr0
<1>2. UNCHANGED <<bg_ch, arrived, moves, wiped>>
  BY DEF RestOfTick
<1>3. n \in Nat /\ Len(ic_ch) \in Nat /\ Drained + Len(ic_ch) = n /\ Drained \in Nat /\ Drained <= n /\ Numbering(arrived)
      /\ ic_ch \in Seq(IcMessages) /\ \A i \in 1..Len(ic_ch) : ic_ch[i] = arrived[Drained + i]
  <2>1. /\ arrived \in Seq(IcMessages) /\ ic_ch \in Seq(IcMessages) /\ Len(ic_ch) <= Len(arrived) /\ Numbering(arrived)
        /\ \A i \in 1..Len(ic_ch) : ic_ch[i] = arrived[Drained + i]
    BY DEF PlaybackInv, ChannelOK, Numbering
  <2>2. n \in Nat /\ Len(ic_ch) \in Nat /\ Len(ic_ch) <= n
    BY <2>1
  <2>3. Drained = n - Len(ic_ch)
    BY DEF Drained
  <2>4. Drained + Len(ic_ch) = n /\ Drained \in Nat /\ Drained <= n
    BY <2>2, <2>3
  <2> QED BY <2>1, <2>2, <2>4
<1>4. played \in Seq(Nat) /\ last \in Nat /\ last <= Drained
  <2>1. played \in Seq(Nat) /\ last <= Drained
    BY DEF PlaybackInv, PlayedOK
  <2>2. last = IF played = <<>> THEN 0 ELSE played[Len(played)]
    BY <2>1, LastOfPlayed DEF LastPlayed
  <2>3. played # <<>> => Len(played) \in 1..Len(played) /\ played[Len(played)] \in Nat
    BY <2>1
  <2> QED BY <2>1, <2>2, <2>3
<1>5. SceneOK(pr) /\ RestingQueue(pr) /\ InLine(pr.mq.queue, Drained, arrived, last)
      /\ Accounted(pr.mq.queue, Drained, arrived, done) /\ (pr.active # <<>> => pr.active[1].id = last)
  BY DEF PlaybackInv, OrderOK
<1>6. QueuedOnto(pr.mq, pr.mq) /\ pr.mq.playing = (pr.active # <<>>)
  BY <1>5 DEF RestingQueue, QueuedOnto
<1>7. QueuedOnto(pr.mq, q) /\ InLine(q.queue, n, arrived, last) /\ Accounted(q.queue, n, arrived, done)
  <2> HIDE DEF q, n, done, last
  <2>1. \A x : QueuedOnto(pr.mq, pr.mq) /\ InLine(pr.mq.queue, Drained, arrived, last)
               /\ Accounted(pr.mq.queue, Drained, arrived, x)
               => /\ QueuedOnto(pr.mq, EnqueueAll(pr.mq, ic_ch))
                  /\ InLine(EnqueueAll(pr.mq, ic_ch).queue, Len(arrived), arrived, last)
                  /\ Accounted(EnqueueAll(pr.mq, ic_ch).queue, Len(arrived), arrived, x)
    BY <1>3, <1>4, AllEnqueued DEF n
  <2> QED BY <1>5, <1>6, <2>1 DEF q, n
<1> HIDE DEF q, n, done, last
<1>8. SceneOK(drained) /\ drained.mq = q /\ drained.active = pr.active /\ drained.box = pr.box
  BY <1>5, RequeuedScene
<1> HIDE DEF drained
<1>9. /\ SceneOK(advanced) /\ RestingQueue(advanced)
      /\ \/ advanced.active = pr.active /\ advanced.mq.queue = q.queue
         \/ Took(drained, advanced) /\ (pr.active # <<>> => Head(q.queue).objection \/ text_done(drained))
  <2>1. q.queue \in Seq(IcMessages)
    BY <1>7 DEF InLine
  <2> QED BY <1>6, <1>7, <1>8, <2>1, AdvancedScene
<1> HIDE DEF advanced
<1>10. SceneOK(animated) /\ SameScene(advanced, animated)
  BY <1>9, AnimatedScene
<1> HIDE DEF animated
<1>11. SceneOK(ticked) /\ SameScene(animated, ticked)
  BY <1>10, TickedScene
<1> HIDE DEF ticked
<1>12. SceneOK(pr') /\ SameScene(ticked, pr')
  BY <1>1, <1>11, PannedScene
<1>13. SameScene(advanced, pr')
  BY <1>10, <1>11, <1>12 DEF SameScene
<1>14. /\ pr'.mq = advanced.mq /\ (pr'.active = <<>> <=> advanced.active = <<>>)
       /\ advanced.active # <<>> => pr'.active[1].id = advanced.active[1].id /\ ToSet(pr'.active) = {pr'.active[1]}
  BY <1>13 DEF SameScene, ToSet
<1>15. RestingQueue(pr')
  BY <1>9, <1>14 DEF RestingQueue
<1>16. Drained' = n /\ ChannelOK'
  <2>1. Drained' = n
    BY <1>1, <1>2, <1>3 DEF Drained, n
  <2> QED BY <1>1, <1>2, <1>3, <2>1 DEF ChannelOK, n
<1>17. CASE advanced.active = pr.active /\ advanced.mq.queue = q.queue
  <2>1. played' = played
    BY <1>1, <1>5, <1>17
  <2>2. LastPlayed' = last
    BY <2>1 DEF LastPlayed, last, LastOr0
  <2>3. PlayedOK'
    BY <1>3, <1>4, <1>16, <2>1, <2>2 DEF PlaybackInv, PlayedOK, n
  <2>4. OrderOK'
    BY <1>2, <1>5, <1>7, <1>14, <1>16, <1>17, <2>1, <2>2 DEF OrderOK, done
  <2>5. InTurn
    <3> SUFFICES ASSUME NEW a \in ToSet(pr.active), NEW b \in ToSet(pr'.active) PROVE b.id = a.id
      BY DEF InTurn
    <3>1. PICK c \in Actives : pr.active = <<c>>
      BY <1>5 DEF SceneOK, ToSet
    <3>2. a = pr.active[1] /\ pr.active # <<>>
      BY <3>1 DEF ToSet
    <3> QED BY <1>14, <1>17, <3>2
  <2> QED BY <1>2, <1>12, <1>15, <1>16, <2>3, <2>4, <2>5 DEF PlaybackInv
<1>18. CASE Took(drained, advanced) /\ (pr.active # <<>> => Head(q.queue).objection \/ text_done(drained))
  <2>1. PICK a \in Actives : advanced.active = <<a>> /\ q.queue # <<>> /\ a.id = Head(q.queue).id
                             /\ advanced.mq.queue = Tail(q.queue)
    BY <1>8, <1>18 DEF Took
  <2> DEFINE h == Head(q.queue)
  <2>2. /\ h.id \in 1..n /\ last < h.id /\ h = arrived[h.id]
        /\ InLine(Tail(q.queue), n, arrived, h.id) /\ Accounted(Tail(q.queue), n, arrived, done \union {h.id})
    BY <1>3, <1>4, <1>7, <2>1, HeadPlayed
  <2> HIDE DEF h
  <2>3. advanced.active # <<>> /\ advanced.active[1].id = h.id
    BY <2>1 DEF h
  <2>4. h.id # last /\ h.id \in Nat
    BY <1>4, <2>2
  <2>5. played' = Append(played, h.id)
    BY <1>1, <2>3, <2>4
  <2>6. /\ Append(played, h.id) \in Seq(Nat) /\ LastOr0(Append(played, h.id)) = h.id
        /\ \A i, j \in 1..Len(Append(played, h.id)) : i < j => Append(played, h.id)[i] < Append(played, h.id)[j]
        /\ \A i \in 1..Len(Append(played, h.id)) : 0 < Append(played, h.id)[i]
        /\ ToSet(Append(played, h.id)) = ToSet(played) \union {h.id}
    <3>1. /\ \A i, j \in 1..Len(played) : i < j => played[i] < played[j]
          /\ \A i \in 1..Len(played) : 0 < played[i]
      BY DEF PlaybackInv, PlayedOK
    <3>2. LastOr0(played) < h.id
      BY <2>2 DEF last, LastPlayed
    <3> QED BY <1>4, <2>4, <3>1, <3>2, PlayedNext
  <2>7. LastPlayed' = h.id /\ ToSet(played') = ToSet(played) \union {h.id}
    BY <2>5, <2>6 DEF LastPlayed, LastOr0
  <2>8. PlayedOK'
    <3>1. h.id <= n
      BY <1>3, <2>2
    <3> QED BY <1>16, <2>5, <2>6, <2>7, <3>1 DEF PlayedOK
  <2>9. OrderOK'
    <3>1. ToSet(played') \union wiped' = done \union {h.id}
      BY <1>2, <2>7 DEF done
    <3>2. pr'.mq.queue = Tail(q.queue) /\ pr'.active[1].id = h.id
      BY <1>14, <2>1, <2>3
    <3> QED BY <1>2, <1>16, <2>2, <2>7, <3>1, <3>2 DEF OrderOK
  <2>10. InTurn
    <3> SUFFICES ASSUME NEW x \in ToSet(pr.active), NEW b \in ToSet(pr'.active),
                        ~arrived[b.id].objection, ~blank(x.text)
                 PROVE  pr.box.of = x.id /\ pr.box.chars_visible = Len(pr.box.current)
      BY DEF InTurn
    <3>1. b.id = h.id
      BY <1>14, <2>3
    <3>2. pr.active # <<>>
      BY DEF ToSet
    <3>3. text_done(drained)
      BY <1>18, <2>2, <3>1, <3>2 DEF h
    <3> QED BY <1>8, <3>3, DoneTextShown
  <2> QED BY <1>2, <1>12, <1>15, <1>16, <2>8, <2>9, <2>10 DEF PlaybackInv
<1> QED BY <1>9, <1>17, <1>18
-----------------------------------------------------------------------------
LEMMA PlaybackStep == PlaybackInv /\ [PbNext]_pbVars => PlaybackInv'
<1> SUFFICES ASSUME PlaybackInv, [PbNext]_pbVars PROVE PlaybackInv'
  OBVIOUS
<1>1. ASSUME NEW k \in Kinds, PublishIC(k) PROVE PlaybackInv'
  BY <1>1, PublishingIC
<1>2. ASSUME NEW pos \in {"", "def"}, PublishBG(pos) PROVE PlaybackInv'
  <2>1. pos \in Positions
    BY DEF Positions
  <2> QED BY <1>2, <2>1, PublishingBG
<1>3. CASE DrainBackgrounds
  BY <1>3, DrainingBackgrounds
<1>4. ASSUME NEW beat \in Clocks, RestOfTick(beat) PROVE PlaybackInv'
  BY <1>4, RestOfTicking
<1>5. CASE UNCHANGED pbVars
  BY <1>5 DEF pbVars, PlaybackInv, ChannelOK, PlayedOK, OrderOK, LastPlayed, Drained, LastOr0
<1> QED BY <1>1, <1>2, <1>3, <1>4, <1>5 DEF PbNext

THEOREM PlaybackInvariant == PbSpec => []PlaybackInv
<1> QED BY PlaybackStarts, PlaybackStep, PTL DEF PbSpec

LEMMA InvGivesPlaybackSound == PlaybackInv => PlaybackSound
<1> SUFFICES ASSUME PlaybackInv PROVE PlaybackSound
  OBVIOUS
<1>1. PlayedInOrder
  <2>1. played \in Seq(Nat) /\ LastPlayed <= Drained
        /\ (\A i, j \in 1..Len(played) : i < j => played[i] < played[j]) /\ DOMAIN played = 1..Len(played)
    BY SeqIsFunction DEF PlaybackInv, PlayedOK
  <2>2. Drained \in Int
    BY DEF PlaybackInv, ChannelOK, Numbering, Drained
  <2>3. LastPlayed \in Int
    <3>1. LastPlayed = IF played = <<>> THEN 0 ELSE played[Len(played)]
      BY <2>1, LastOfPlayed DEF LastPlayed
    <3>2. played # <<>> => Len(played) \in 1..Len(played) /\ played[Len(played)] \in Nat
      BY <2>1
    <3> QED BY <3>1, <3>2
  <2>4. ASSUME NEW i \in 1..LastPlayed
        PROVE  i \in ToSet(played) \union wiped \/ Objected(arrived, i)
    <3>1. i \in 1..Drained
      BY <2>1, <2>2, <2>3
    <3>2. \A j \in 1..Len(pr.mq.queue) : pr.mq.queue[j].id # i
      <4> TAKE j \in 1..Len(pr.mq.queue)
      <4>1. LastPlayed < pr.mq.queue[j].id /\ pr.mq.queue[j].id \in 1..Drained
        BY DEF PlaybackInv, OrderOK, InLine
      <4> QED BY <2>2, <2>3, <4>1
    <3> QED BY <3>1, <3>2 DEF PlaybackInv, OrderOK, Accounted
  <2> QED BY <2>1, <2>4 DEF PlayedInOrder, LastPlayed, Objected, LastOr0
<1>2. HeldTextWillStart
  <2> SUFFICES ASSUME NEW a \in ToSet(pr.active)
               PROVE  /\ a.slide_pending => pr.departing /\ needs_departing_scene(pr.slide)
                      /\ a.preanim_blocking => a.emote = "PREANIM"
    BY DEF HeldTextWillStart
  <2>1. PICK c \in Actives : pr.active = <<c>> /\ ActiveOK(c, pr)
    BY DEF PlaybackInv, SceneOK, ToSet
  <2>2. a = c
    BY <2>1 DEF ToSet
  <2> QED BY <2>1, <2>2 DEF ActiveOK, needs_departing_scene
<1> QED BY <1>1, <1>2 DEF PlaybackSound

\* Messages play in the order they came, none is lost but to an objection or a change of area, and a text
\* that is held back has what will release it (ICMessageQueue, AOCourtroomPresenter::tick).
THEOREM PlaybackAlwaysSound == PbSpec => []PlaybackSound
<1> QED BY PlaybackInvariant, InvGivesPlaybackSound, PTL

\* A message takes the scene from another only after that one's whole text was on screen (AOCourtroomPresenter::tick).
THEOREM TextAlwaysShown == PbSpec => TextShownBeforeNext
<1> DEFINE InTurn == \A a \in ToSet(pr.active), b \in ToSet(pr'.active) :
                       b.id # a.id /\ ~arrived[b.id].objection /\ ~blank(a.text)
                          => pr.box.of = a.id /\ pr.box.chars_visible = Len(pr.box.current)
<1>1. ASSUME PlaybackInv, [PbNext]_pbVars PROVE [InTurn]_pbVars
  <2>1. ASSUME NEW a \in ToSet(pr.active), NEW b \in ToSet(pr.active) PROVE b.id = a.id
    <3>1. PICK c \in Actives : pr.active = <<c>>
      BY <1>1 DEF PlaybackInv, SceneOK, ToSet
    <3> QED BY <3>1 DEF ToSet
  <2>2. CASE pr'.active = pr.active
    BY <2>1, <2>2
  <2>3. ASSUME NEW k \in Kinds, PublishIC(k) PROVE InTurn
    <3>1. pr' = pr
      BY <2>3 DEF PublishIC
    <3> QED BY <2>1, <3>1
  <2>4. ASSUME NEW pos \in {"", "def"}, PublishBG(pos) PROVE InTurn
    <3>1. pr' = pr
      BY <2>4 DEF PublishBG
    <3> QED BY <2>1, <3>1
  <2>5. CASE DrainBackgrounds
    <3>1. IF bg_ch = <<>> THEN pr' = pr ELSE pr'.active = <<>>
      BY <1>1, <2>5, ChangedAreas DEF PlaybackInv, DrainBackgrounds
    <3>2. pr'.active = <<>> => ToSet(pr'.active) = {}
      BY DEF ToSet
    <3> QED BY <2>1, <3>1, <3>2
  <2>6. ASSUME NEW beat \in Clocks, RestOfTick(beat) PROVE InTurn
    BY <1>1, <2>6, RestOfTicking
  <2> QED BY <1>1, <2>3, <2>4, <2>5, <2>6 DEF PbNext
<1> QED BY PlaybackInvariant, <1>1, PTL DEF PbSpec, TextShownBeforeNext

-----------------------------------------------------------------------------
(* What a client shows of the room. *)

CvSpec == CvInit /\ [][CvRoomNext \/ CvTimerNext]_cvVars

-----------------------------------------------------------------------------
(* The last of some packets.  F are the packets that say something about   *)
(* one thing, G those of them that say what is right.                      *)

Ends(s, F, G) == \E i \in DOMAIN s : s[i] \in G /\ \A j \in DOMAIN s : j > i => s[j] \notin F
Silent(s, F) == \A i \in DOMAIN s : s[i] \notin F

LEMMA NothingSaid ==
    ASSUME NEW F, NEW G
    PROVE  Silent(<<>>, F) /\ ~Ends(<<>>, F, G)
BY DEF Silent, Ends

\* What ends a sequence that has G in F is not silent.
LEMMA EndsIsHeard ==
    ASSUME NEW s, NEW F, NEW G, NEW H, G \subseteq H, Ends(s, F, G)
    PROVE  ~Silent(s, H)
BY DEF Ends, Silent

\* What is silent for more is silent for less.
LEMMA SilentForLess ==
    ASSUME NEW s, NEW F, NEW H, H \subseteq F, Silent(s, F)
    PROVE  Silent(s, H)
BY DEF Silent

LEMMA ConcatEnds ==
    ASSUME NEW S, NEW s \in Seq(S), NEW t \in Seq(S), NEW F, NEW G, Ends(t, F, G)
    PROVE  Ends(s \o t, F, G)
<1>1. PICK i \in DOMAIN t : t[i] \in G /\ \A j \in DOMAIN t : j > i => t[j] \notin F
  BY DEF Ends
<1>2. i \in 1..Len(t) /\ Len(s) \in Nat /\ Len(t) \in Nat
  OBVIOUS
<1>3. Len(s) + i \in DOMAIN (s \o t) /\ (s \o t)[Len(s) + i] \in G
  BY <1>1
<1>4. ASSUME NEW j \in DOMAIN (s \o t), j > Len(s) + i PROVE (s \o t)[j] \notin F
  <2>1. j - Len(s) \in DOMAIN t /\ j - Len(s) > i /\ (s \o t)[j] = t[j - Len(s)]
    BY <1>2, <1>4
  <2> QED BY <1>1, <2>1
<1> QED BY <1>3, <1>4 DEF Ends

LEMMA ConcatSilent ==
    ASSUME NEW S, NEW s \in Seq(S), NEW t \in Seq(S), NEW F, NEW G, Silent(t, F)
    PROVE  /\ Ends(s, F, G) => Ends(s \o t, F, G)
           /\ Silent(s, F) => Silent(s \o t, F)
<1>1. ASSUME NEW j \in DOMAIN (s \o t), j \notin DOMAIN s PROVE (s \o t)[j] \notin F
  <2>1. j - Len(s) \in DOMAIN t /\ (s \o t)[j] = t[j - Len(s)]
    BY <1>1
  <2> QED BY <2>1 DEF Silent
<1>2. ASSUME NEW j \in DOMAIN s PROVE j \in DOMAIN (s \o t) /\ (s \o t)[j] = s[j]
  BY <1>2
<1>3. ASSUME Ends(s, F, G) PROVE Ends(s \o t, F, G)
  <2>1. PICK i \in DOMAIN s : s[i] \in G /\ \A j \in DOMAIN s : j > i => s[j] \notin F
    BY <1>3 DEF Ends
  <2>2. ASSUME NEW j \in DOMAIN (s \o t), j > i PROVE (s \o t)[j] \notin F
    BY <1>1, <1>2, <2>1, <2>2
  <2> QED BY <1>2, <2>1, <2>2 DEF Ends
<1>4. ASSUME Silent(s, F) PROVE Silent(s \o t, F)
  <2> SUFFICES ASSUME NEW j \in DOMAIN (s \o t) PROVE (s \o t)[j] \notin F
    BY DEF Silent
  <2>1. CASE j \in DOMAIN s
    BY <1>2, <1>4, <2>1 DEF Silent
  <2>2. CASE j \notin DOMAIN s
    BY <1>1, <2>2
  <2> QED BY <2>1, <2>2
<1> QED BY <1>3, <1>4

\* One packet is taken from the front.
LEMMA TailEnds ==
    ASSUME NEW S, NEW s \in Seq(S), s # <<>>, NEW F, NEW G
    PROVE  /\ Ends(s, F, G) => Ends(Tail(s), F, G) \/ (Head(s) \in G /\ Silent(Tail(s), F))
           /\ Silent(s, F) => Head(s) \notin F /\ Silent(Tail(s), F)
           /\ Silent(Tail(s), F) /\ Head(s) \notin F => Silent(s, F)
<1>1. /\ Head(s) = s[1] /\ 1 \in DOMAIN s /\ DOMAIN s = 1..Len(s) /\ Len(s) \in Nat
      /\ DOMAIN Tail(s) = 1..(Len(s) - 1)
      /\ \A i \in DOMAIN Tail(s) : i + 1 \in DOMAIN s /\ Tail(s)[i] = s[i + 1]
  OBVIOUS
<1>2. ASSUME NEW i \in DOMAIN s, i # 1 PROVE i - 1 \in DOMAIN Tail(s) /\ Tail(s)[i - 1] = s[i]
  BY <1>1, <1>2
<1>3. ASSUME Ends(s, F, G) PROVE Ends(Tail(s), F, G) \/ (Head(s) \in G /\ Silent(Tail(s), F))
  <2>1. PICK i \in DOMAIN s : s[i] \in G /\ \A j \in DOMAIN s : j > i => s[j] \notin F
    BY <1>3 DEF Ends
  <2>2. CASE i = 1
    <3>1. ASSUME NEW j \in DOMAIN Tail(s) PROVE Tail(s)[j] \notin F
      <4>1. j + 1 \in DOMAIN s /\ j + 1 > i /\ Tail(s)[j] = s[j + 1]
        BY <1>1, <2>2
      <4> QED BY <2>1, <4>1
    <3> QED BY <1>1, <2>1, <2>2, <3>1 DEF Silent
  <2>3. CASE i # 1
    <3>1. i - 1 \in DOMAIN Tail(s) /\ Tail(s)[i - 1] \in G
      BY <1>2, <2>1, <2>3
    <3>2. ASSUME NEW j \in DOMAIN Tail(s), j > i - 1 PROVE Tail(s)[j] \notin F
      <4>1. j + 1 \in DOMAIN s /\ j + 1 > i /\ Tail(s)[j] = s[j + 1]
        BY <1>1, <3>2
      <4> QED BY <2>1, <4>1
    <3> QED BY <3>1, <3>2 DEF Ends
  <2> QED BY <2>2, <2>3
<1>4. ASSUME Silent(s, F) PROVE Head(s) \notin F /\ Silent(Tail(s), F)
  BY <1>1, <1>4 DEF Silent
<1>5. ASSUME Silent(Tail(s), F), Head(s) \notin F PROVE Silent(s, F)
  <2> SUFFICES ASSUME NEW i \in DOMAIN s PROVE s[i] \notin F
    BY DEF Silent
  <2>1. CASE i = 1
    BY <1>1, <1>5, <2>1
  <2>2. CASE i # 1
    BY <1>2, <1>5, <2>2 DEF Silent
  <2> QED BY <2>1, <2>2
<1> QED BY <1>3, <1>4, <1>5

\* One packet is added at the end.
LEMMA AppendEnds ==
    ASSUME NEW S, NEW s \in Seq(S), NEW e \in S, NEW F, NEW G
    PROVE  /\ e \in G => Ends(Append(s, e), F, G)
           /\ e \notin F /\ Ends(s, F, G) => Ends(Append(s, e), F, G)
           /\ e \notin F /\ Silent(s, F) => Silent(Append(s, e), F)
<1>1. Append(s, e) = s \o <<e>> /\ <<e>> \in Seq(S)
  OBVIOUS
<1>2. ASSUME e \in G PROVE Ends(<<e>>, F, G)
  <2>1. 1 \in DOMAIN <<e>> /\ <<e>>[1] = e /\ \A j \in DOMAIN <<e>> : ~(j > 1)
    OBVIOUS
  <2> QED BY <1>2, <2>1 DEF Ends
<1>3. ASSUME e \notin F PROVE Silent(<<e>>, F)
  BY <1>3 DEF Silent
<1> QED BY <1>1, <1>2, <1>3, ConcatEnds, ConcatSilent

\* Blocks of packets, each of which ends well or is silent: together they do, too.
LEMMA FlattenEnds ==
    ASSUME NEW S, NEW b \in Seq(Seq(S)), b # <<>>, NEW F, NEW G,
           \A i \in DOMAIN b : Ends(b[i], F, G) \/ Silent(b[i], F)
    PROVE  /\ FlattenSeq(b) \in Seq(S)
           /\ Ends(FlattenSeq(b), F, G) \/ Silent(FlattenSeq(b), F)
           /\ (\E i \in DOMAIN b : Ends(b[i], F, G)) => Ends(FlattenSeq(b), F, G)
<1>1. Len(b) \in Nat /\ Len(b) # 0 /\ DOMAIN b = 1..Len(b) /\ \A i \in 1..Len(b) : b[i] \in Seq(S)
  OBVIOUS
<1>2. PICK f : Flattens(f, b, Len(b)) /\ FlattenSeq(b) = f[Len(b)]
  BY <1>1, FlattenSeqUnfolds
<1> DEFINE Well(n) == /\ f[n] \in Seq(S)
                      /\ Ends(f[n], F, G) \/ Silent(f[n], F)
                      /\ (\E i \in 1..n : Ends(b[i], F, G)) => Ends(f[n], F, G)
           Wells == {n \in Nat : n + 1 <= Len(b) => Well(n + 1)}
<1>3. 0 \in Wells
  <2>1. f[1] = b[1]
    <3>1. 1 \in 1..Len(b)
      BY <1>1
    <3> QED BY <1>2, <3>1, Zenon DEF Flattens
  <2>2. Well(1)
    BY <1>1, <2>1
  <2> QED BY <2>2
<1>4. ASSUME NEW n \in Nat, n \in Wells PROVE n + 1 \in Wells
  <2> SUFFICES ASSUME n + 2 <= Len(b) PROVE Well(n + 2)
    OBVIOUS
  <2>1. Well(n + 1)
    BY <1>1, <1>4
  <2>2. f[n + 2] = f[n + 1] \o b[n + 2] /\ n + 2 \in DOMAIN b /\ b[n + 2] \in Seq(S)
    <3>1. n + 2 \in 1..Len(b) /\ n + 2 # 1 /\ (n + 2) - 1 = n + 1
      BY <1>1
    <3>2. f[n + 2] = f[(n + 2) - 1] \o b[n + 2]
      BY <1>2, <3>1, Zenon DEF Flattens
    <3> QED BY <1>1, <3>1, <3>2
  <2>3. f[n + 2] \in Seq(S)
    BY <2>1, <2>2
  <2>4. CASE Ends(b[n + 2], F, G)
    BY <2>1, <2>2, <2>3, <2>4, ConcatEnds
  <2>5. CASE ~Ends(b[n + 2], F, G)
    <3>1. Silent(b[n + 2], F)
      BY <2>2, <2>5
    <3>2. (Ends(f[n + 1], F, G) => Ends(f[n + 2], F, G)) /\ (Silent(f[n + 1], F) => Silent(f[n + 2], F))
      BY <2>1, <2>2, <3>1, ConcatSilent
    <3>3. ASSUME NEW i \in 1..(n + 2), Ends(b[i], F, G) PROVE Ends(f[n + 2], F, G)
      <4>1. i # n + 2
        BY <2>5, <3>3
      <4>2. i \in 1..(n + 1)
        BY <4>1
      <4> QED BY <2>1, <3>2, <3>3, <4>2
    <3> QED BY <2>1, <2>3, <3>2, <3>3
  <2> QED BY <2>4, <2>5
<1> HIDE DEF Wells
<1>5. \A n \in Nat : n \in Wells
  BY <1>3, <1>4, InductionBySet
<1>6. Well(Len(b))
  <2>1. Len(b) - 1 \in Nat /\ Len(b) - 1 \in Wells /\ (Len(b) - 1) + 1 = Len(b)
    BY <1>1, <1>5
  <2> QED BY <1>1, <2>1 DEF Wells
<1> QED BY <1>1, <1>2, <1>6

-----------------------------------------------------------------------------
(* The inductive invariant of the roster. *)

Places == ToSet(RoomAreas) \cup {RoomAreas[1]}
Numbers == {area_index(a) : a \in Places}
Tallies == [DOMAIN RoomAreas -> {Cardinality(T) : T \in SUBSET Everyone}]
Announcements == {PR(p, add) : p \in Everyone, add \in BOOLEAN}
Changes == {PU(p, "character", c) : p \in Everyone, c \in Chars \cup {NoChar}} \cup {PU(p, "area", n) : p \in Everyone, n \in Numbers}
AboutPlayers == Announcements \cup Changes
ListPacket == [kind |-> "SM"]
CountPackets == {[kind |-> "ARUP", counts |-> c] : c \in Tallies}
RoomPackets == AboutPlayers \cup {ListPacket} \cup CountPackets
Entries == [character : Chars \cup {NoChar}, area : Numbers \cup {Unknown}]

CvTypeOK ==
    /\ here \subseteq Everyone /\ IsFiniteSet(here)
    /\ char_of \in [Everyone -> Chars \cup {NoChar}] /\ area_of \in [Everyone -> Places]
    /\ wire \in Seq(RoomPackets) /\ PlayerList \in Seq(AboutPlayers)
    /\ AreaUpdate \in Seq(Tallies) /\ MusicList \in Seq({RoomAreas})
    /\ DOMAIN players \subseteq Everyone /\ \A q \in DOMAIN players : players[q] \in Entries
    /\ overtaken \in BOOLEAN

\* What the packets about a player say of one thing: the character, the area, or that the player is gone.
Removal(k) == k.kind = "PR" /\ ~k.add
About(p, w) == {k \in AboutPlayers : k.p = p /\ (k.kind = "PU" => w \in {k.what, "gone"})}
Saying(p, w, v) ==
    {k \in About(p, w) : IF w = "gone" THEN Removal(k)
                         ELSE ~Removal(k) /\ v = (IF k.kind = "PU" THEN k.v ELSE NewPlayer[w])}
Shows(p, w, v) == IF w = "gone" THEN p \notin DOMAIN players ELSE p \in DOMAIN players /\ players[p][w] = v

\* The last word on it, in flight, in the channel or shown, is v.
LastWord(p, w, v) ==
    \/ Ends(wire, About(p, w), Saying(p, w, v))
    \/ Silent(wire, About(p, w)) /\ Ends(PlayerList, About(p, w), Saying(p, w, v))
    \/ Silent(wire, About(p, w)) /\ Silent(PlayerList, About(p, w)) /\ Shows(p, w, v)

PlayersInv ==
    \A p \in Everyone :
        /\ p \in here => LastWord(p, "character", char_of[p])
        /\ p \in here \ moved_quietly => LastWord(p, "area", area_index(area_of[p]))
        /\ p \notin here => LastWord(p, "gone", TRUE) /\ char_of[p] = NoChar

\* The head counts as they are, and the packets that carry them.
Tally(S, at) == [i \in DOMAIN RoomAreas |-> Cardinality({p \in S : at[p] = RoomAreas[i]})]
RightCounts == {Arup(here, area_of)}

\* A list of areas is followed by head counts; the last ones in flight, in the channel or shown are right, or they
\* overtook a list.
AreasInv ==
    /\ Ends(wire, CountPackets \cup {ListPacket}, CountPackets) \/ Silent(wire, CountPackets \cup {ListPacket})
    /\ Me \in here =>
        /\ \/ Ends(wire, CountPackets, RightCounts)
           \/ Silent(wire, CountPackets) /\ Ends(AreaUpdate, Tallies, {Tally(here, area_of)})
           \/ /\ Silent(wire, CountPackets) /\ AreaUpdate = <<>>
              /\ overtaken \/ (MusicList = <<>> /\ area_players = Tally(here, area_of))
        /\ Silent(wire, {ListPacket}) /\ MusicList = <<>> => DOMAIN area_players = DOMAIN RoomAreas

RosterInv == CvTypeOK /\ PlayersInv /\ AreasInv

-----------------------------------------------------------------------------
(* The packets. *)

LEMMA ArupTallies ==
    ASSUME NEW S \in SUBSET Everyone, NEW at
    PROVE  /\ Tally(S, at) \in Tallies
           /\ Arup(S, at) = [kind |-> "ARUP", counts |-> Tally(S, at)]
           /\ Arup(S, at) \in CountPackets /\ Arup(S, at) \in RoomPackets
<1>1. Tally(S, at) \in Tallies
  BY DEF Tally, Tallies
<1>2. Arup(S, at) = [kind |-> "ARUP", counts |-> Tally(S, at)]
  BY DEF Arup, Tally
<1>3. Arup(S, at) \in CountPackets
  BY <1>1, <1>2 DEF CountPackets
<1> QED BY <1>1, <1>2, <1>3 DEF RoomPackets

\* The kinds of packets tell them apart.
LEMMA PacketKinds ==
    /\ \A k \in Announcements : k.kind = "PR" /\ k.add \in BOOLEAN /\ k.p \in Everyone
    /\ \A k \in Changes : k.kind = "PU" /\ k.p \in Everyone
                          /\ ((k.what = "character" /\ k.v \in Chars \cup {NoChar}) \/ (k.what = "area" /\ k.v \in Numbers))
    /\ \A k \in CountPackets : k.kind = "ARUP" /\ k.counts \in Tallies
    /\ ListPacket.kind = "SM"
<1>1. \A k \in Announcements : k.kind = "PR" /\ k.add \in BOOLEAN /\ k.p \in Everyone
  BY DEF Announcements, PR
<1>2. \A k \in Changes : k.kind = "PU" /\ k.p \in Everyone
                          /\ ((k.what = "character" /\ k.v \in Chars \cup {NoChar}) \/ (k.what = "area" /\ k.v \in Numbers))
  BY DEF Changes, PU
<1>3. \A k \in CountPackets : k.kind = "ARUP" /\ k.counts \in Tallies
  BY DEF CountPackets
<1>4. ListPacket.kind = "SM"
  BY DEF ListPacket
<1> QED BY <1>1, <1>2, <1>3, <1>4

\* Counts and lists say nothing of a player, and players nothing of counts.
LEMMA PacketsApart ==
    ASSUME NEW p, NEW w
    PROVE  /\ \A k \in CountPackets \cup {ListPacket} : k \notin AboutPlayers /\ k \notin About(p, w)
           /\ \A k \in AboutPlayers : k \notin CountPackets \cup {ListPacket} /\ k \notin CountPackets
           /\ ListPacket \notin CountPackets
BY PacketKinds DEF AboutPlayers, About

LEMMA KindIsKind ==
    ASSUME NEW k \in RoomPackets
    PROVE  /\ k.kind \in {"PR", "PU"} <=> k \in AboutPlayers
           /\ k.kind = "ARUP" <=> k \in CountPackets
           /\ k.kind = "SM" <=> k = ListPacket
BY PacketKinds DEF RoomPackets, AboutPlayers

\* What an announcement and a change of a player say.
LEMMA WhatPacketsSay ==
    ASSUME NEW p \in Everyone
    PROVE  /\ \A add \in BOOLEAN : PR(p, add) \in AboutPlayers /\ PR(p, add) \in RoomPackets
           /\ \A c \in Chars \cup {NoChar} : PU(p, "character", c) \in AboutPlayers /\ PU(p, "character", c) \in RoomPackets
           /\ \A n \in Numbers : PU(p, "area", n) \in AboutPlayers /\ PU(p, "area", n) \in RoomPackets
           /\ \A q, w, add : q # p => PR(p, add) \notin About(q, w)
           /\ \A q, w, x, v : q # p => PU(p, x, v) \notin About(q, w)
           /\ \A v : PU(p, "character", v) \notin About(p, "area") /\ PU(p, "area", v) \notin About(p, "character")
           /\ PR(p, FALSE) \in Saying(p, "gone", TRUE)
           /\ PR(p, TRUE) \in Saying(p, "character", NoChar)
           /\ \A c \in Chars \cup {NoChar} : PU(p, "character", c) \in Saying(p, "character", c)
           /\ \A n \in Numbers : PU(p, "area", n) \in Saying(p, "area", n)
<1>1. /\ \A add \in BOOLEAN : PR(p, add) \in AboutPlayers
      /\ \A c \in Chars \cup {NoChar} : PU(p, "character", c) \in AboutPlayers
      /\ \A n \in Numbers : PU(p, "area", n) \in AboutPlayers
  BY DEF AboutPlayers, Announcements, Changes
<1>2. /\ \A add : PR(p, add).kind = "PR" /\ PR(p, add).p = p /\ PR(p, add).add = add
      /\ \A x, v : PU(p, x, v).kind = "PU" /\ PU(p, x, v).p = p /\ PU(p, x, v).what = x /\ PU(p, x, v).v = v
  BY DEF PR, PU
<1>3. NewPlayer["character"] = NoChar
  BY DEF NewPlayer
<1> USE <1>1, <1>2, <1>3
<1>4. /\ \A q, w, add : q # p => PR(p, add) \notin About(q, w)
      /\ \A q, w, x, v : q # p => PU(p, x, v) \notin About(q, w)
  BY DEF About
<1>5. \A v : PU(p, "character", v) \notin About(p, "area") /\ PU(p, "area", v) \notin About(p, "character")
  BY DEF About
<1>6. PR(p, FALSE) \in Saying(p, "gone", TRUE)
  BY DEF About, Saying, Removal
<1>7. PR(p, TRUE) \in Saying(p, "character", NoChar)
  BY DEF About, Saying, Removal
<1>8. \A c \in Chars \cup {NoChar} : PU(p, "character", c) \in Saying(p, "character", c)
  BY DEF About, Saying, Removal
<1>9. \A n \in Numbers : PU(p, "area", n) \in Saying(p, "area", n)
  BY DEF About, Saying, Removal
<1> QED BY <1>1, <1>4, <1>5, <1>6, <1>7, <1>8, <1>9 DEF RoomPackets

-----------------------------------------------------------------------------
(* Packets are sent, handled and drawn. *)

\* Sent packets that do not speak of it leave the last word; one that does has it.
LEMMA SentLast ==
    ASSUME CvTypeOK, NEW t \in Seq(RoomPackets), wire' = wire \o t, UNCHANGED <<PlayerList, players>>,
           NEW p, NEW w, NEW v
    PROVE  /\ Silent(t, About(p, w)) /\ LastWord(p, w, v) => LastWord(p, w, v)'
           /\ Ends(t, About(p, w), Saying(p, w, v)) => LastWord(p, w, v)'
<1>1. wire \in Seq(RoomPackets)
  BY DEF CvTypeOK
<1>2. Shows(p, w, v) <=> Shows(p, w, v)'
  BY DEF Shows
<1>3. ASSUME Silent(t, About(p, w))
      PROVE  /\ Ends(wire, About(p, w), Saying(p, w, v)) => Ends(wire', About(p, w), Saying(p, w, v))
             /\ Silent(wire, About(p, w)) => Silent(wire', About(p, w))
  BY <1>1, <1>3, ConcatSilent
<1>4. ASSUME Silent(t, About(p, w)), LastWord(p, w, v) PROVE LastWord(p, w, v)'
  BY <1>2, <1>3, <1>4 DEF LastWord
<1>5. ASSUME Ends(t, About(p, w), Saying(p, w, v)) PROVE LastWord(p, w, v)'
  <2>1. Ends(wire', About(p, w), Saying(p, w, v))
    BY <1>1, <1>5, ConcatEnds
  <2> QED BY <2>1 DEF LastWord
<1> QED BY <1>4, <1>5

\* A packet that is handled is still to be seen: the last word stays what it is.
LEMMA HandledLast ==
    ASSUME CvTypeOK, on_packet, NEW p, NEW w, NEW v, LastWord(p, w, v)
    PROVE  LastWord(p, w, v)'
<1> DEFINE k == Head(wire)
           F == About(p, w)
           G == Saying(p, w, v)
<1>1. wire \in Seq(RoomPackets) /\ wire # <<>> /\ wire' = Tail(wire) /\ k \in RoomPackets /\ PlayerList \in Seq(AboutPlayers)
  BY DEF CvTypeOK, on_packet
<1>2. PlayerList' = (IF k \in AboutPlayers THEN Append(PlayerList, k) ELSE PlayerList) /\ players' = players
  BY <1>1, KindIsKind DEF on_packet
<1>3. G \subseteq F /\ F \subseteq AboutPlayers
  BY DEF Saying, About
<1>4. Shows(p, w, v) <=> Shows(p, w, v)'
  BY <1>2 DEF Shows
<1>5. /\ Ends(wire, F, G) => Ends(wire', F, G) \/ (k \in G /\ Silent(wire', F))
      /\ Silent(wire, F) => k \notin F /\ Silent(wire', F)
  BY <1>1, TailEnds
<1>6. /\ k \in G => Ends(PlayerList', F, G)
      /\ k \notin F /\ Ends(PlayerList, F, G) => Ends(PlayerList', F, G)
      /\ k \notin F /\ Silent(PlayerList, F) => Silent(PlayerList', F)
  <2>1. CASE k \in AboutPlayers
    BY <1>1, <1>2, <2>1, AppendEnds
  <2>2. CASE k \notin AboutPlayers
    BY <1>2, <1>3, <2>2
  <2> QED BY <2>1, <2>2
<1> HIDE DEF k, F, G
<1>7. LastWord(p, w, v) <=> \/ Ends(wire, F, G)
                            \/ Silent(wire, F) /\ Ends(PlayerList, F, G)
                            \/ Silent(wire, F) /\ Silent(PlayerList, F) /\ Shows(p, w, v)
  BY DEF LastWord, F, G
<1>8. \/ Ends(wire', F, G)
      \/ Silent(wire', F) /\ Ends(PlayerList', F, G)
      \/ Silent(wire', F) /\ Silent(PlayerList', F) /\ Shows(p, w, v)'
  BY <1>4, <1>5, <1>6, <1>7
<1> QED BY <1>8 DEF LastWord, F, G

\* A packet that is drawn: what it says is shown, and what it does not speak of stays.
LEMMA DrawnShows ==
    ASSUME CvTypeOK, NEW k \in AboutPlayers, players' = Shown(players, k),
           NEW p \in Everyone, NEW w \in {"character", "area", "gone"}, NEW v
    PROVE  /\ k \in Saying(p, w, v) => Shows(p, w, v)'
           /\ k \notin About(p, w) /\ Shows(p, w, v) => Shows(p, w, v)'
<1> DEFINE old == IF k.p \in DOMAIN players THEN players[k.p] ELSE NewPlayer
           With(r) == [q \in DOMAIN players \cup {k.p} |-> IF q = k.p THEN r ELSE players[q]]
<1>1. \A q \in DOMAIN players : players[q] \in Entries
  BY DEF CvTypeOK
<1>2. NewPlayer \in Entries /\ old \in Entries
  BY <1>1 DEF NewPlayer, Entries
<1>3. k \in Announcements \/ k \in Changes
  BY DEF AboutPlayers
<1>4. CASE k \in Announcements /\ k.add
  <2>1. players' = With(NewPlayer) /\ k.kind = "PR"
    BY <1>4, PacketKinds DEF Shown
  <2>2. DOMAIN players' = DOMAIN players \cup {k.p} /\ players'[k.p] = NewPlayer
        /\ \A q \in DOMAIN players : q # k.p => players'[q] = players[q]
    BY <2>1
  <2>3. k \in Saying(p, w, v) => Shows(p, w, v)'
    BY <1>4, <2>1, <2>2 DEF Saying, About, Shows, Removal
  <2>4. k \notin About(p, w) => k.p # p
    BY <2>1 DEF About
  <2>5. k \notin About(p, w) /\ Shows(p, w, v) => Shows(p, w, v)'
    BY <2>2, <2>4 DEF Shows
  <2> QED BY <2>3, <2>5
<1>5. CASE k \in Announcements /\ ~k.add
  <2>1. players' = [q \in DOMAIN players \ {k.p} |-> players[q]] /\ k.kind = "PR"
    BY <1>5, PacketKinds DEF Shown
  <2>2. DOMAIN players' = DOMAIN players \ {k.p} /\ \A q \in DOMAIN players : q # k.p => players'[q] = players[q]
    BY <2>1
  <2>3. k \in Saying(p, w, v) => Shows(p, w, v)'
    BY <1>5, <2>1, <2>2 DEF Saying, About, Shows, Removal
  <2>4. k \notin About(p, w) => k.p # p
    BY <2>1 DEF About
  <2>5. k \notin About(p, w) /\ Shows(p, w, v) => Shows(p, w, v)'
    BY <2>2, <2>4 DEF Shows
  <2> QED BY <2>3, <2>5
<1>6. CASE k \in Changes
  <2> DEFINE new == [old EXCEPT ![k.what] = k.v]
  <2>1. players' = With(new) /\ k.kind = "PU" /\ k.what \in {"character", "area"}
    BY <1>6, PacketKinds DEF Shown
  <2>2. new[k.what] = k.v /\ \A x \in {"character", "area"} : x # k.what => new[x] = old[x]
    BY <1>2, <2>1 DEF Entries
  <2> HIDE DEF new
  <2>3. DOMAIN players' = DOMAIN players \cup {k.p} /\ players'[k.p] = new
        /\ \A q \in DOMAIN players : q # k.p => players'[q] = players[q]
    BY <2>1
  <2>4. k \in Saying(p, w, v) => Shows(p, w, v)'
    <3> SUFFICES ASSUME k \in Saying(p, w, v) PROVE Shows(p, w, v)'
      OBVIOUS
    <3>1. k.p = p /\ w # "gone" /\ w = k.what /\ v = k.v
      BY <2>1 DEF Saying, About, Removal
    <3> QED BY <2>2, <2>3, <3>1 DEF Shows
  <2>5. ASSUME k \notin About(p, w), Shows(p, w, v) PROVE Shows(p, w, v)'
    <3>1. CASE k.p # p
      BY <2>3, <2>5, <3>1 DEF Shows
    <3>2. CASE k.p = p
      <4>1. w # "gone" /\ w # k.what /\ p \in DOMAIN players
        BY <2>1, <2>5, <3>2 DEF About, Shows
      <4>2. old[w] = players[p][w]
        BY <3>2, <4>1
      <4>3. players'[p][w] = players[p][w]
        BY <2>2, <2>3, <3>2, <4>1, <4>2
      <4> QED BY <2>3, <2>5, <4>1, <4>3 DEF Shows
    <3> QED BY <3>1, <3>2
  <2> QED BY <2>4, <2>5
<1> QED BY <1>3, <1>4, <1>5, <1>6

LEMMA DrawnLast ==
    ASSUME CvTypeOK, PlayersTab, NEW p \in Everyone, NEW w \in {"character", "area", "gone"}, NEW v, LastWord(p, w, v)
    PROVE  LastWord(p, w, v)'
<1> DEFINE k == Head(PlayerList)
           F == About(p, w)
           G == Saying(p, w, v)
<1>1. PlayerList \in Seq(AboutPlayers) /\ PlayerList # <<>> /\ PlayerList' = Tail(PlayerList) /\ k \in AboutPlayers
      /\ players' = Shown(players, k) /\ wire' = wire
  BY DEF CvTypeOK, PlayersTab, SameRoom
<1>2. /\ Ends(PlayerList, F, G) => Ends(PlayerList', F, G) \/ (k \in G /\ Silent(PlayerList', F))
      /\ Silent(PlayerList, F) => k \notin F /\ Silent(PlayerList', F)
  BY <1>1, TailEnds
<1>3. /\ k \in G => Shows(p, w, v)'
      /\ k \notin F /\ Shows(p, w, v) => Shows(p, w, v)'
  BY <1>1, DrawnShows
<1> HIDE DEF k, F, G
<1>4. LastWord(p, w, v) <=> \/ Ends(wire, F, G)
                            \/ Silent(wire, F) /\ Ends(PlayerList, F, G)
                            \/ Silent(wire, F) /\ Silent(PlayerList, F) /\ Shows(p, w, v)
  BY DEF LastWord, F, G
<1>5. \/ Ends(wire', F, G)
      \/ Silent(wire', F) /\ Ends(PlayerList', F, G)
      \/ Silent(wire', F) /\ Silent(PlayerList', F) /\ Shows(p, w, v)'
  BY <1>1, <1>2, <1>3, <1>4
<1> QED BY <1>5 DEF LastWord, F, G

-----------------------------------------------------------------------------
(* The snapshot a player gets who joins. *)

Block(q) ==
    <<PR(q, TRUE)>>
        \o (IF char_of[q] # NoChar THEN <<PU(q, "character", char_of[q])>> ELSE <<>>)
        \o <<PU(q, "area", area_index(area_of[q]))>>

LEMMA BlockSays ==
    ASSUME CvTypeOK, NEW q \in Everyone
    PROVE  /\ Block(q) \in Seq(AboutPlayers)
           /\ Ends(Block(q), About(q, "character"), Saying(q, "character", char_of[q]))
           /\ Ends(Block(q), About(q, "area"), Saying(q, "area", area_index(area_of[q])))
           /\ \A p, w : p # q => Silent(Block(q), About(p, w))
<1> DEFINE c == char_of[q]
           n == area_index(area_of[q])
           A == <<PR(q, TRUE)>>
           K == IF c # NoChar THEN <<PU(q, "character", c)>> ELSE <<>>
           N == <<PU(q, "area", n)>>
<1>1. c \in Chars \cup {NoChar} /\ n \in Numbers
  BY DEF CvTypeOK, Numbers
<1> HIDE DEF c, n
<1>2. A \in Seq(AboutPlayers) /\ K \in Seq(AboutPlayers) /\ N \in Seq(AboutPlayers) /\ A \o K \in Seq(AboutPlayers)
  <2>1. /\ PR(q, TRUE) \in AboutPlayers /\ PU(q, "area", n) \in AboutPlayers
        /\ PU(q, "character", c) \in AboutPlayers
    BY <1>1, WhatPacketsSay
  <2>2. A \in Seq(AboutPlayers)
    BY <2>1, SingletonSeq
  <2>3. N \in Seq(AboutPlayers)
    BY <2>1, SingletonSeq
  <2>4. K \in Seq(AboutPlayers)
    <3>1. <<>> \in Seq(AboutPlayers)
      OBVIOUS
    <3>2. <<PU(q, "character", c)>> \in Seq(AboutPlayers)
      BY <2>1, SingletonSeq
    <3> QED BY <3>1, <3>2
  <2> HIDE DEF A, K, N
  <2> QED BY <2>2, <2>3, <2>4, ToSetConcat
<1>3. Block(q) = (A \o K) \o N
  BY DEF Block, c, n
<1>4. ASSUME NEW e, NEW G, NEW F, e \in G PROVE Ends(<<e>>, F, G)
  <2>1. 1 \in DOMAIN <<e>> /\ <<e>>[1] = e /\ \A j \in DOMAIN <<e>> : ~(j > 1)
    OBVIOUS
  <2> QED BY <1>4, <2>1 DEF Ends
<1>5. ASSUME NEW e, NEW F, e \notin F PROVE Silent(<<e>>, F)
  BY <1>5 DEF Silent
<1>6. Ends(A \o K, About(q, "character"), Saying(q, "character", c))
  <2>1. CASE c # NoChar
    <3>1. Ends(K, About(q, "character"), Saying(q, "character", c))
      BY <1>1, <1>4, <2>1, WhatPacketsSay
    <3> QED BY <1>2, <3>1, ConcatEnds
  <2>2. CASE c = NoChar
    <3>1. Ends(A, About(q, "character"), Saying(q, "character", c))
      BY <1>4, <2>2, WhatPacketsSay
    <3>2. Silent(K, About(q, "character"))
      BY <2>2, NothingSaid
    <3> QED BY <1>2, <3>1, <3>2, ConcatSilent
  <2> QED BY <2>1, <2>2
<1>7. Ends(Block(q), About(q, "character"), Saying(q, "character", c))
  <2>1. Silent(N, About(q, "character"))
    BY <1>5, WhatPacketsSay
  <2> QED BY <1>2, <1>3, <1>6, <2>1, ConcatSilent
<1>8. Ends(Block(q), About(q, "area"), Saying(q, "area", n))
  <2>1. Ends(N, About(q, "area"), Saying(q, "area", n))
    BY <1>1, <1>4, WhatPacketsSay
  <2> QED BY <1>2, <1>3, <2>1, ConcatEnds
<1>9. ASSUME NEW p, NEW w, p # q PROVE Silent(Block(q), About(p, w))
  <2>1. Silent(A, About(p, w)) /\ Silent(N, About(p, w))
    BY <1>5, <1>9, WhatPacketsSay
  <2>2. Silent(K, About(p, w))
    BY <1>5, <1>9, NothingSaid, WhatPacketsSay
  <2> QED BY <1>2, <1>3, <2>1, <2>2, ConcatSilent
<1> HIDE DEF A, K, N
<1>10. Block(q) \in Seq(AboutPlayers)
  BY <1>2, <1>3, ToSetConcat
<1> QED BY <1>7, <1>8, <1>9, <1>10, Zenon DEF c, n

LEMMA SnapshotSays ==
    ASSUME CvTypeOK, NEW S \in Seq(Everyone), S # <<>>
    PROVE  /\ Snapshot(S) \in Seq(AboutPlayers)
           /\ \A q \in ToSet(S) :
                 /\ Ends(Snapshot(S), About(q, "character"), Saying(q, "character", char_of[q]))
                 /\ Ends(Snapshot(S), About(q, "area"), Saying(q, "area", area_index(area_of[q])))
           /\ \A p, w : p \notin ToSet(S) => Silent(Snapshot(S), About(p, w))
<1> DEFINE b == [i \in DOMAIN S |-> Block(S[i])]
<1>1. Snapshot(S) = FlattenSeq(b)
  BY DEF Snapshot, Block
<1>2. DOMAIN S = 1..Len(S) /\ Len(S) \in Nat /\ Len(S) # 0 /\ \A i \in DOMAIN S : S[i] \in Everyone
  OBVIOUS
<1>3. b \in [1..Len(S) -> Seq(AboutPlayers)]
  BY <1>2, BlockSays
<1>4. b \in Seq(Seq(AboutPlayers)) /\ b # <<>> /\ DOMAIN b = DOMAIN S
  BY <1>2, <1>3
<1>5. \A i \in DOMAIN b : b[i] = Block(S[i]) /\ S[i] \in Everyone
  BY <1>2
<1> HIDE DEF b
<1>6. Snapshot(S) \in Seq(AboutPlayers)
  <2>1. \A i \in DOMAIN b : Ends(b[i], {}, {}) \/ Silent(b[i], {})
    BY DEF Silent
  <2> QED BY <1>1, <1>4, <2>1, FlattenEnds
<1>7. ASSUME NEW q \in ToSet(S)
      PROVE  /\ Ends(Snapshot(S), About(q, "character"), Saying(q, "character", char_of[q]))
             /\ Ends(Snapshot(S), About(q, "area"), Saying(q, "area", area_index(area_of[q])))
  <2>1. PICK i \in DOMAIN b : S[i] = q
    BY <1>4 DEF ToSet
  <2>2. \A j \in DOMAIN b : \/ Ends(b[j], About(q, "character"), Saying(q, "character", char_of[q]))
                            \/ Silent(b[j], About(q, "character"))
    BY <1>5, BlockSays
  <2>3. \A j \in DOMAIN b : \/ Ends(b[j], About(q, "area"), Saying(q, "area", area_index(area_of[q])))
                            \/ Silent(b[j], About(q, "area"))
    BY <1>5, BlockSays
  <2>4. /\ Ends(b[i], About(q, "character"), Saying(q, "character", char_of[q]))
        /\ Ends(b[i], About(q, "area"), Saying(q, "area", area_index(area_of[q])))
    BY <1>5, <2>1, BlockSays
  <2> QED BY <1>1, <1>4, <2>2, <2>3, <2>4, FlattenEnds
<1>8. ASSUME NEW p, NEW w, p \notin ToSet(S) PROVE Silent(Snapshot(S), About(p, w))
  <2>1. \A j \in DOMAIN b : Ends(b[j], About(p, w), {}) \/ Silent(b[j], About(p, w))
    <3> SUFFICES ASSUME NEW j \in DOMAIN b PROVE Silent(b[j], About(p, w))
      OBVIOUS
    <3>1. p # S[j]
      BY <1>4, <1>8 DEF ToSet
    <3> QED BY <1>5, <3>1, BlockSays
  <2>2. Ends(FlattenSeq(b), About(p, w), {}) \/ Silent(FlattenSeq(b), About(p, w))
    BY <1>4, <2>1, FlattenEnds
  <2>3. ~Ends(FlattenSeq(b), About(p, w), {})
    BY DEF Ends
  <2> QED BY <1>1, <2>2, <2>3
<1> QED BY <1>6, <1>7, <1>8

-----------------------------------------------------------------------------
(* The server's steps. *)

LEMMA ConcatAssoc ==
    ASSUME NEW S, NEW s \in Seq(S), NEW t \in Seq(S), NEW u \in Seq(S), NEW x, x = t \o u
    PROVE  (s \o t) \o u = s \o x
<1>1. (s \o t) \o u = s \o (t \o u)
  OBVIOUS
<1> QED BY <1>1, Zenon

LEMMA ConcatType ==
    ASSUME NEW S, NEW s \in Seq(S), NEW t \in Seq(S)
    PROVE  s \o t \in Seq(S)
OBVIOUS

LEMMA SameSeq ==
    ASSUME NEW S, NEW s \in Seq(S), NEW t \in Seq(S), Len(s) = Len(t), \A i \in 1..Len(s) : s[i] = t[i]
    PROVE  s = t
<1>1. s \in [1..Len(s) -> S] /\ t \in [1..Len(s) -> S]
  OBVIOUS
<1> QED BY <1>1

LEMMA OnePacket ==
    ASSUME NEW S, NEW a \in S, NEW F, NEW G
    PROVE  /\ <<a>> \in Seq(S)
           /\ a \in G => Ends(<<a>>, F, G)
           /\ a \notin F => Silent(<<a>>, F)
<1>1. ASSUME a \in G PROVE Ends(<<a>>, F, G)
  <2>1. 1 \in DOMAIN <<a>> /\ <<a>>[1] = a /\ \A j \in DOMAIN <<a>> : ~(j > 1)
    OBVIOUS
  <2> QED BY <1>1, <2>1 DEF Ends
<1>2. ASSUME a \notin F PROVE Silent(<<a>>, F)
  BY <1>2 DEF Silent
<1>3. <<a>> \in Seq(S)
  OBVIOUS
<1> QED BY <1>1, <1>2, <1>3

LEMMA AppendIsConcat ==
    ASSUME NEW S, NEW s \in Seq(S), NEW a \in S
    PROVE  Append(s, a) = s \o <<a>>
OBVIOUS

LEMMA PairIsConcat ==
    ASSUME NEW S, NEW a \in S, NEW b \in S
    PROVE  <<a, b>> = <<a>> \o <<b>> /\ <<a, b>> \in Seq(S)
<1>1. <<a>> \in Seq(S) /\ Len(<<a>>) = 1 /\ <<a>>[1] = a
  OBVIOUS
<1>2. <<b>> \in Seq(S) /\ Len(<<b>>) = 1 /\ <<b>>[1] = b
  OBVIOUS
<1>3. <<a, b>> \in Seq(S) /\ Len(<<a, b>>) = 2 /\ <<a, b>>[1] = a /\ <<a, b>>[2] = b
  OBVIOUS
<1> DEFINE x == <<a>>
           y == <<b>>
           z == <<a, b>>
<1> HIDE DEF x, y, z
<1>4. x \o y \in Seq(S) /\ Len(x \o y) = 2 /\ (x \o y)[1] = a /\ (x \o y)[2] = b
  BY <1>1, <1>2 DEF x, y
<1>5. z \in Seq(S) /\ Len(z) = 2 /\ z[1] = a /\ z[2] = b
  BY <1>3 DEF z
<1>6. \A i \in 1..Len(z) : z[i] = (x \o y)[i]
  BY <1>4, <1>5
<1>7. z = x \o y
  BY <1>4, <1>5, <1>6, SameSeq
<1> QED BY <1>5, <1>7 DEF x, y, z

LEMMA TwoPackets ==
    ASSUME NEW S, NEW a \in S, NEW b \in S, NEW F, NEW G
    PROVE  /\ a \in G /\ b \notin F => Ends(<<a, b>>, F, G)
           /\ b \in G => Ends(<<a, b>>, F, G)
           /\ a \notin F /\ b \notin F => Silent(<<a, b>>, F)
<1>1. <<a>> \in Seq(S) /\ <<b>> \in Seq(S) /\ <<a, b>> = <<a>> \o <<b>>
  BY OnePacket, PairIsConcat
<1>2. /\ a \in G => Ends(<<a>>, F, G)
      /\ a \notin F => Silent(<<a>>, F)
      /\ b \in G => Ends(<<b>>, F, G)
      /\ b \notin F => Silent(<<b>>, F)
  BY OnePacket
<1> QED BY <1>1, <1>2, ConcatEnds, ConcatSilent

LEMMA SilentLeft ==
    ASSUME NEW S, NEW s \in Seq(S), NEW t \in Seq(S), NEW F, Silent(s \o t, F)
    PROVE  Silent(s, F)
<1>1. ASSUME NEW j \in DOMAIN s PROVE j \in DOMAIN (s \o t) /\ (s \o t)[j] = s[j]
  BY <1>1
<1> QED BY <1>1 DEF Silent

\* Head counts are right when the last thing sent is what they are now.
LEMMA CountsSent ==
    ASSUME CvTypeOK, AreasInv, NEW x \in Seq(RoomPackets), here' \subseteq Everyone,
           wire' = x \o <<Arup(here', area_of')>>,
           UNCHANGED <<AreaUpdate, MusicList, area_players, overtaken>>,
           Me \in here' /\ Silent(wire', {ListPacket}) => Me \in here /\ Silent(wire, {ListPacket})
    PROVE  AreasInv'
<1> DEFINE e == Arup(here', area_of')
<1>1. e \in CountPackets /\ e \in RoomPackets /\ e \in {e}
  BY ArupTallies
<1> HIDE DEF e
<1>2. /\ Ends(<<e>>, CountPackets \cup {ListPacket}, CountPackets) /\ Ends(<<e>>, CountPackets, {e})
      /\ <<e>> \in Seq(RoomPackets)
  BY <1>1, OnePacket
<1>3. Ends(wire', CountPackets \cup {ListPacket}, CountPackets) /\ Ends(wire', CountPackets, {e})
  BY <1>2, ConcatEnds DEF e
<1>4. RightCounts' = {e}
  BY DEF RightCounts, e
<1>5. Me \in here' /\ Silent(wire', {ListPacket}) /\ MusicList' = <<>> => DOMAIN area_players' = DOMAIN RoomAreas
  BY DEF AreasInv
<1> QED BY <1>3, <1>4, <1>5 DEF AreasInv, CountPackets, ListPacket, Tallies

\* Packets about players change nothing of it.
LEMMA NoCountsSent ==
    ASSUME CvTypeOK, AreasInv, NEW t \in Seq(RoomPackets), Silent(t, CountPackets \cup {ListPacket}), wire' = wire \o t,
           UNCHANGED <<AreaUpdate, MusicList, area_players, overtaken, here, area_of>>
    PROVE  AreasInv'
<1> DEFINE H == CountPackets \cup {ListPacket}
<1>1. wire \in Seq(RoomPackets) /\ Silent(t, CountPackets) /\ Silent(t, {ListPacket}) /\ Silent(t, H)
  BY SilentForLess DEF CvTypeOK
<1>2. /\ Ends(wire, H, CountPackets) => Ends(wire', H, CountPackets)
      /\ Silent(wire, H) => Silent(wire', H)
  BY <1>1, ConcatSilent
<1>3. /\ Ends(wire, CountPackets, RightCounts) => Ends(wire', CountPackets, RightCounts)
      /\ Silent(wire, CountPackets) => Silent(wire', CountPackets)
  BY <1>1, ConcatSilent
<1>4. Silent(wire', {ListPacket}) => Silent(wire, {ListPacket})
  BY <1>1, SilentLeft
<1>5. RightCounts' = RightCounts /\ Tally(here, area_of)' = Tally(here, area_of) /\ H' = H /\ CountPackets' = CountPackets
      /\ ListPacket' = ListPacket /\ Tallies' = Tallies
  BY DEF RightCounts, Arup, Tally, CountPackets, ListPacket, Tallies, Everyone
<1> HIDE DEF H
<1>6. Ends(wire', H, CountPackets) \/ Silent(wire', H)
  BY <1>2 DEF AreasInv, H
<1>7. ASSUME Me \in here
      PROVE  /\ \/ Ends(wire', CountPackets, RightCounts)
                \/ Silent(wire', CountPackets) /\ Ends(AreaUpdate', Tallies, {Tally(here, area_of)})
                \/ /\ Silent(wire', CountPackets) /\ AreaUpdate' = <<>>
                   /\ overtaken' \/ (MusicList' = <<>> /\ area_players' = Tally(here, area_of))
             /\ Silent(wire', {ListPacket}) /\ MusicList' = <<>> => DOMAIN area_players' = DOMAIN RoomAreas
  BY <1>3, <1>4, <1>7 DEF AreasInv
<1> QED BY <1>5, <1>6, <1>7 DEF AreasInv, H

\* Choosing a character.
LEMMA ChooseStep ==
    ASSUME RosterInv, NEW p \in Everyone, NEW c \in Chars, AOPacketCC(p, c)
    PROVE  RosterInv'
<1> DEFINE e == PU(p, "character", c)
<1>1. CvTypeOK /\ PlayersInv /\ AreasInv /\ wire \in Seq(RoomPackets) /\ here' = here /\ p \in here
      /\ area_of' = area_of /\ moved_quietly' = moved_quietly /\ char_of' = [char_of EXCEPT ![p] = c]
  BY DEF RosterInv, CvTypeOK, AOPacketCC
<1>2. e \in RoomPackets /\ e \in AboutPlayers /\ e \in Saying(p, "character", c) /\ e \notin About(p, "area")
      /\ \A q, w : q # p => e \notin About(q, w)
  BY WhatPacketsSay
<1>3. wire' = wire \o <<e>> /\ <<e>> \in Seq(RoomPackets)
  <2>1. wire' = Append(wire, e)
    BY DEF AOPacketCC
  <2> HIDE DEF e
  <2> QED BY <1>1, <1>2, <2>1, OnePacket, AppendIsConcat
<1> HIDE DEF e
<1>4. UNCHANGED <<PlayerList, players, AreaUpdate, MusicList, areas, area_players, overtaken>>
  BY DEF AOPacketCC, SameView
<1>5. CvTypeOK'
  <2>1. wire' \in Seq(RoomPackets)
    BY <1>1, <1>3, ConcatType
  <2>2. char_of' \in [Everyone -> Chars \cup {NoChar}]
    BY <1>1 DEF CvTypeOK
  <2> QED BY <1>1, <1>4, <2>1, <2>2 DEF CvTypeOK
<1>6. AreasInv'
  <2>1. Silent(<<e>>, CountPackets \cup {ListPacket})
    BY <1>1, <1>2, OnePacket, PacketsApart
  <2> QED BY <1>1, <1>3, <1>4, <2>1, NoCountsSent
<1>7. PlayersInv'
  <2> SUFFICES ASSUME NEW q \in Everyone, NEW c1, c1 = char_of'[q], NEW n, n = area_index(area_of[q])
               PROVE  /\ q \in here => LastWord(q, "character", c1)'
                      /\ q \in here \ moved_quietly => LastWord(q, "area", n)'
                      /\ q \notin here => LastWord(q, "gone", TRUE)' /\ c1 = NoChar
    BY <1>1 DEF PlayersInv, Everyone, area_index
  <2>1. CASE q = p
    <3>1. c1 = c
      BY <1>1, <2>1 DEF CvTypeOK
    <3>2. LastWord(q, "character", c)'
      <4>1. Ends(<<e>>, About(q, "character"), Saying(q, "character", c))
        BY <1>1, <1>2, <2>1, OnePacket
      <4> QED BY <1>1, <1>3, <1>4, <4>1, SentLast
    <3>3. q \in here \ moved_quietly => LastWord(q, "area", n)'
      <4>1. Silent(<<e>>, About(q, "area"))
        BY <1>1, <1>2, <2>1, OnePacket
      <4>2. LastWord(q, "area", n) => LastWord(q, "area", n)'
        BY <1>1, <1>3, <1>4, <4>1, SentLast
      <4> QED BY <1>1, <4>2 DEF PlayersInv
    <3> QED BY <1>1, <2>1, <3>1, <3>2, <3>3
  <2>2. CASE q # p
    <3>1. c1 = char_of[q]
      BY <1>1, <2>2 DEF CvTypeOK
    <3>2. ASSUME NEW w, NEW v, LastWord(q, w, v) PROVE LastWord(q, w, v)'
      <4>1. Silent(<<e>>, About(q, w))
        BY <1>1, <1>2, <2>2, OnePacket
      <4> QED BY <1>1, <1>3, <1>4, <3>2, <4>1, SentLast
    <3> QED BY <1>1, <3>1, <3>2 DEF PlayersInv
  <2> QED BY <2>1, <2>2
<1> QED BY <1>5, <1>6, <1>7 DEF RosterInv

\* Going to another area.
LEMMA MoveStep ==
    ASSUME RosterInv, NEW p \in Everyone, NEW a \in ToSet(RoomAreas), ChangeArea(p, a)
    PROVE  RosterInv'
<1> DEFINE e == PU(p, "area", area_index(a))
           k == Arup(here', area_of')
<1>1. CvTypeOK /\ PlayersInv /\ AreasInv /\ wire \in Seq(RoomPackets) /\ here' = here /\ p \in here /\ here \subseteq Everyone
      /\ char_of' = char_of /\ area_of' = [area_of EXCEPT ![p] = a] /\ moved_quietly' = moved_quietly \ {p}
  BY DEF RosterInv, CvTypeOK, ChangeArea
<1>2. a \in Places /\ area_index(a) \in Numbers
  BY DEF Places, Numbers
<1>3. e \in RoomPackets /\ e \in AboutPlayers /\ e \in Saying(p, "area", area_index(a)) /\ e \notin About(p, "character")
      /\ \A q, w : q # p => e \notin About(q, w)
  BY <1>2, WhatPacketsSay
<1>4. k \in RoomPackets /\ \A q, w : k \notin About(q, w)
  BY <1>1, ArupTallies, PacketsApart
<1>5. wire' = wire \o <<e, k>>
  BY DEF ChangeArea
<1>6. UNCHANGED <<PlayerList, players, AreaUpdate, MusicList, areas, area_players, overtaken>>
  BY DEF ChangeArea, SameView
<1> HIDE DEF e
<1>7. AreasInv' /\ wire' \in Seq(RoomPackets) /\ <<e, k>> \in Seq(RoomPackets)
  <2> DEFINE x == wire \o <<e>>
  <2>1. <<e>> \in Seq(RoomPackets) /\ <<k>> \in Seq(RoomPackets) /\ <<e, k>> = <<e>> \o <<k>> /\ <<e, k>> \in Seq(RoomPackets)
    BY <1>3, <1>4, OnePacket, PairIsConcat
  <2>2. x \in Seq(RoomPackets) /\ wire' = x \o <<k>> /\ wire' \in Seq(RoomPackets)
    <3> HIDE DEF k
    <3>1. x \o <<k>> = wire \o (<<e>> \o <<k>>) /\ x \in Seq(RoomPackets)
      BY <1>1, <2>1, ConcatAssoc, ConcatType
    <3>2. wire \o <<e, k>> \in Seq(RoomPackets)
      BY <1>1, <2>1, ConcatType
    <3> QED BY <1>5, <2>1, <3>1, <3>2
  <2> HIDE DEF x
  <2>3. Silent(wire', {ListPacket}) => Silent(wire, {ListPacket})
    BY <1>1, <1>5, <2>1, SilentLeft
  <2>4. AreasInv'
    BY <1>1, <1>6, <2>2, <2>3, CountsSent
  <2> QED BY <2>1, <2>2, <2>4
<1> HIDE DEF k
<1>8. CvTypeOK'
  <2>1. area_of' \in [Everyone -> Places]
    BY <1>1, <1>2 DEF CvTypeOK
  <2> QED BY <1>1, <1>6, <1>7, <2>1 DEF CvTypeOK
<1>9. PlayersInv'
  <2> SUFFICES ASSUME NEW q \in Everyone, NEW c, c = char_of[q], NEW n, n = area_index(area_of'[q])
               PROVE  /\ q \in here => LastWord(q, "character", c)'
                      /\ q \in here \ moved_quietly' => LastWord(q, "area", n)'
                      /\ q \notin here => LastWord(q, "gone", TRUE)' /\ c = NoChar
    BY <1>1 DEF PlayersInv, Everyone, area_index
  <2>1. CASE q = p
    <3>1. n = area_index(a)
      BY <1>1, <2>1 DEF CvTypeOK
    <3>2. LastWord(q, "area", n)'
      <4>1. Ends(<<e, k>>, About(q, "area"), Saying(q, "area", n))
        BY <1>3, <1>4, <2>1, <3>1, TwoPackets
      <4> QED BY <1>1, <1>5, <1>6, <1>7, <4>1, SentLast
    <3>3. LastWord(q, "character", c)'
      <4>1. Silent(<<e, k>>, About(q, "character"))
        BY <1>3, <1>4, <2>1, TwoPackets
      <4>2. LastWord(q, "character", c) => LastWord(q, "character", c)'
        BY <1>1, <1>5, <1>6, <1>7, <4>1, SentLast
      <4> QED BY <1>1, <2>1, <4>2 DEF PlayersInv
    <3> QED BY <1>1, <2>1, <3>2, <3>3
  <2>2. CASE q # p
    <3>1. n = area_index(area_of[q])
      BY <1>1, <2>2 DEF CvTypeOK
    <3>2. ASSUME NEW w, NEW v, LastWord(q, w, v) PROVE LastWord(q, w, v)'
      <4>1. Silent(<<e, k>>, About(q, w))
        BY <1>3, <1>4, <2>2, TwoPackets
      <4> QED BY <1>1, <1>5, <1>6, <1>7, <3>2, <4>1, SentLast
    <3> QED BY <1>1, <2>2, <3>1, <3>2 DEF PlayersInv
  <2> QED BY <2>1, <2>2
<1> QED BY <1>7, <1>8, <1>9 DEF RosterInv

\* /area_kick: only the counts are sent.
LEMMA KickStep ==
    ASSUME RosterInv, NEW p \in Everyone, AreaKick(p)
    PROVE  RosterInv'
<1> DEFINE k == Arup(here', area_of')
<1>1. CvTypeOK /\ PlayersInv /\ AreasInv /\ wire \in Seq(RoomPackets) /\ here' = here /\ p \in here /\ here \subseteq Everyone
      /\ char_of' = char_of /\ area_of' = [area_of EXCEPT ![p] = RoomAreas[1]] /\ moved_quietly' = moved_quietly \cup {p}
  BY DEF RosterInv, CvTypeOK, AreaKick
<1>2. k \in RoomPackets /\ \A q, w : k \notin About(q, w)
  BY <1>1, ArupTallies, PacketsApart
<1>3. UNCHANGED <<PlayerList, players, AreaUpdate, MusicList, areas, area_players, overtaken>>
  BY DEF AreaKick, SameView
<1>4. wire' = wire \o <<k>> /\ <<k>> \in Seq(RoomPackets) /\ wire' \in Seq(RoomPackets)
  <2>1. wire' = Append(wire, k)
    BY DEF AreaKick
  <2> HIDE DEF k
  <2>2. wire' = wire \o <<k>> /\ <<k>> \in Seq(RoomPackets)
    BY <1>1, <1>2, <2>1, OnePacket, AppendIsConcat
  <2> QED BY <1>1, <2>2, ConcatType
<1>5. AreasInv'
  <2>1. Silent(wire', {ListPacket}) => Silent(wire, {ListPacket})
    BY <1>1, <1>4, SilentLeft
  <2> QED BY <1>1, <1>3, <1>4, <2>1, CountsSent
<1> HIDE DEF k
<1>6. CvTypeOK'
  <2>1. area_of' \in [Everyone -> Places]
    BY <1>1 DEF CvTypeOK, Places
  <2> QED BY <1>1, <1>3, <1>4, <2>1 DEF CvTypeOK
<1>7. PlayersInv'
  <2> SUFFICES ASSUME NEW q \in Everyone, NEW c, c = char_of[q], NEW n, n = area_index(area_of'[q])
               PROVE  /\ q \in here => LastWord(q, "character", c)'
                      /\ q \in here \ moved_quietly' => LastWord(q, "area", n)'
                      /\ q \notin here => LastWord(q, "gone", TRUE)' /\ c = NoChar
    BY <1>1 DEF PlayersInv, Everyone, area_index
  <2>1. ASSUME NEW w, NEW v, LastWord(q, w, v) PROVE LastWord(q, w, v)'
    <3>1. Silent(<<k>>, About(q, w))
      BY <1>2, OnePacket
    <3> QED BY <1>1, <1>3, <1>4, <2>1, <3>1, SentLast
  <2>2. q \in here \ moved_quietly' => q # p /\ q \notin moved_quietly /\ n = area_index(area_of[q])
    BY <1>1 DEF CvTypeOK
  <2> QED BY <1>1, <2>1, <2>2 DEF PlayersInv
<1> QED BY <1>5, <1>6, <1>7 DEF RosterInv

\* A player leaves.
LEMMA LeaveStep ==
    ASSUME RosterInv, NEW p \in Everyone, on_client_disconnected(p)
    PROVE  RosterInv'
<1> DEFINE e == PR(p, FALSE)
           k == Arup(here', area_of')
<1>1. CvTypeOK /\ PlayersInv /\ AreasInv /\ wire \in Seq(RoomPackets) /\ here' = here \ {p} /\ p \in here /\ p # Me
      /\ here \subseteq Everyone /\ IsFiniteSet(here')
      /\ char_of' = [char_of EXCEPT ![p] = NoChar] /\ area_of' = area_of /\ moved_quietly' = moved_quietly
  BY FS_RemoveElement DEF RosterInv, CvTypeOK, on_client_disconnected
<1>2. e \in RoomPackets /\ e \in AboutPlayers /\ e \in Saying(p, "gone", TRUE) /\ \A q, w : q # p => e \notin About(q, w)
  BY WhatPacketsSay
<1>3. k \in RoomPackets /\ \A q, w : k \notin About(q, w)
  BY <1>1, ArupTallies, PacketsApart
<1>4. wire' = wire \o <<e, k>>
  BY <1>1 DEF on_client_disconnected, Farewell
<1>5. UNCHANGED <<PlayerList, players, AreaUpdate, MusicList, areas, area_players, overtaken>>
  BY DEF on_client_disconnected, SameView
<1> HIDE DEF e
<1>6. AreasInv' /\ wire' \in Seq(RoomPackets) /\ <<e, k>> \in Seq(RoomPackets)
  <2> DEFINE x == wire \o <<e>>
  <2>1. <<e>> \in Seq(RoomPackets) /\ <<k>> \in Seq(RoomPackets) /\ <<e, k>> = <<e>> \o <<k>> /\ <<e, k>> \in Seq(RoomPackets)
    BY <1>2, <1>3, OnePacket, PairIsConcat
  <2>2. x \in Seq(RoomPackets) /\ wire' = x \o <<k>> /\ wire' \in Seq(RoomPackets)
    <3> HIDE DEF k
    <3>1. x \o <<k>> = wire \o (<<e>> \o <<k>>) /\ x \in Seq(RoomPackets)
      BY <1>1, <2>1, ConcatAssoc, ConcatType
    <3>2. wire \o <<e, k>> \in Seq(RoomPackets)
      BY <1>1, <2>1, ConcatType
    <3> QED BY <1>4, <2>1, <3>1, <3>2
  <2> HIDE DEF x
  <2>3. Silent(wire', {ListPacket}) => Silent(wire, {ListPacket})
    BY <1>1, <1>4, <2>1, SilentLeft
  <2>4. AreasInv'
    BY <1>1, <1>5, <2>2, <2>3, CountsSent
  <2> QED BY <2>1, <2>2, <2>4
<1> HIDE DEF k
<1>7. CvTypeOK'
  <2>1. char_of' \in [Everyone -> Chars \cup {NoChar}]
    BY <1>1 DEF CvTypeOK
  <2> QED BY <1>1, <1>5, <1>6, <2>1 DEF CvTypeOK
<1>8. PlayersInv'
  <2> SUFFICES ASSUME NEW q \in Everyone, NEW c, c = char_of'[q], NEW n, n = area_index(area_of[q])
               PROVE  /\ q \in here' => LastWord(q, "character", c)'
                      /\ q \in here' \ moved_quietly => LastWord(q, "area", n)'
                      /\ q \notin here' => LastWord(q, "gone", TRUE)' /\ c = NoChar
    BY <1>1 DEF PlayersInv, Everyone, area_index
  <2>1. CASE q = p
    <3>1. c = NoChar
      BY <1>1, <2>1 DEF CvTypeOK
    <3>2. Ends(<<e, k>>, About(q, "gone"), Saying(q, "gone", TRUE))
      BY <1>2, <1>3, <2>1, TwoPackets
    <3>3. LastWord(q, "gone", TRUE)'
      BY <1>1, <1>4, <1>5, <1>6, <3>2, SentLast
    <3> QED BY <1>1, <2>1, <3>1, <3>3
  <2>2. CASE q # p
    <3>1. c = char_of[q]
      BY <1>1, <2>2 DEF CvTypeOK
    <3>2. ASSUME NEW w, NEW v, LastWord(q, w, v) PROVE LastWord(q, w, v)'
      <4>1. Silent(<<e, k>>, About(q, w))
        BY <1>2, <1>3, <2>2, TwoPackets
      <4> QED BY <1>1, <1>4, <1>5, <1>6, <3>2, <4>1, SentLast
    <3> QED BY <1>1, <2>2, <3>1, <3>2 DEF PlayersInv
  <2> QED BY <2>1, <2>2
<1> QED BY <1>6, <1>7, <1>8 DEF RosterInv

\* A player joins.
LEMMA JoinStep ==
    ASSUME RosterInv, NEW p \in Everyone, AOPacketRD(p)
    PROVE  RosterInv'
<1> DEFINE S == SetToSeq(here \cup {Me})
           k == Arup(here', area_of')
           n == area_index(area_of[p])
           A == IF p = Me THEN <<ListPacket>> \o Snapshot(S) ELSE <<>>
           B == <<PR(p, TRUE), PU(p, "area", n)>>
           K == IF p = Me THEN <<k>> ELSE <<>>
           D == <<k>>
           t == ((A \o B) \o K) \o D
<1>1. CvTypeOK /\ PlayersInv /\ AreasInv /\ wire \in Seq(RoomPackets) /\ here' = here \cup {p} /\ p \notin here
      /\ here \subseteq Everyone /\ here' \subseteq Everyone /\ Me \in Everyone /\ IsFiniteSet(here') /\ IsFiniteSet(here \cup {Me})
      /\ UNCHANGED <<char_of, area_of, moved_quietly>>
  BY FS_AddElement DEF RosterInv, CvTypeOK, AOPacketRD, Everyone
<1>2. UNCHANGED <<PlayerList, players, AreaUpdate, MusicList, areas, area_players, overtaken>>
  BY DEF AOPacketRD, SameView
<1>3. S \in Seq(Everyone) /\ S # <<>> /\ ToSet(S) = here \cup {Me}
  <2>1. S \in Seq(here \cup {Me}) /\ ToSet(S) = here \cup {Me}
    BY <1>1, SetToSeqLists
  <2> HIDE DEF S
  <2>2. S # <<>>
    BY <2>1, ToSetEmpty
  <2>3. \A i \in 1..Len(S) : S[i] \in Everyone
    BY <1>1, <2>1
  <2> QED BY <2>1, <2>2, <2>3
<1> HIDE DEF S
<1>4. k \in RoomPackets /\ k \in CountPackets /\ k # ListPacket /\ \A q, w : k \notin About(q, w)
  BY <1>1, ArupTallies, PacketsApart
<1>5. wire' = (((wire \o A) \o B) \o K) \o D
  <2>1. k = Arup(here \cup {p}, area_of)
    BY <1>1
  <2> HIDE DEF k
  <2> QED BY <2>1 DEF AOPacketRD, ListPacket, S
<1> HIDE DEF k
<1>6. n \in Numbers
  BY <1>1 DEF CvTypeOK, Numbers
<1> HIDE DEF n
<1>7. /\ PR(p, TRUE) \in RoomPackets /\ PU(p, "area", n) \in RoomPackets
      /\ PR(p, TRUE) \in AboutPlayers /\ PU(p, "area", n) \in AboutPlayers
      /\ PR(p, TRUE) \in Saying(p, "character", NoChar) /\ PU(p, "area", n) \notin About(p, "character")
      /\ PU(p, "area", n) \in Saying(p, "area", n)
      /\ \A q, w : q # p => PR(p, TRUE) \notin About(q, w) /\ PU(p, "area", n) \notin About(q, w)
  BY <1>6, WhatPacketsSay
<1>8. PR(p, TRUE) # ListPacket /\ PU(p, "area", n) # ListPacket
  BY <1>7, PacketsApart
<1>9. Snapshot(S) \in Seq(AboutPlayers) /\ Snapshot(S) \in Seq(RoomPackets)
  <2>1. Snapshot(S) \in Seq(AboutPlayers)
    BY <1>1, <1>3, SnapshotSays
  <2>2. AboutPlayers \subseteq RoomPackets
    BY DEF RoomPackets
  <2>3. ASSUME NEW s \in Seq(AboutPlayers) PROVE s \in Seq(RoomPackets)
    BY <2>2
  <2> QED BY <2>1, <2>3
<1>10. ListPacket \in RoomPackets /\ \A q, w : ListPacket \notin About(q, w)
  BY PacketsApart DEF RoomPackets
<1>11. <<ListPacket>> \in Seq(RoomPackets) /\ <<k>> \in Seq(RoomPackets) /\ <<>> \in Seq(RoomPackets) /\ B \in Seq(RoomPackets)
  <2>1. <<ListPacket>> \in Seq(RoomPackets) /\ <<k>> \in Seq(RoomPackets)
    BY <1>4, <1>10, OnePacket
  <2>2. B \in Seq(RoomPackets)
    BY <1>7, PairIsConcat
  <2>3. <<>> \in Seq(RoomPackets)
    OBVIOUS
  <2> QED BY <2>1, <2>2, <2>3
<1>12. A \in Seq(RoomPackets) /\ K \in Seq(RoomPackets) /\ D \in Seq(RoomPackets)
  <2>1. <<ListPacket>> \o Snapshot(S) \in Seq(RoomPackets)
    BY <1>9, <1>11, ConcatType
  <2> QED BY <1>11, <2>1
\* What each part says.
<1>13. ASSUME NEW q, NEW w PROVE Silent(K, About(q, w)) /\ Silent(D, About(q, w)) /\ (p # Me => Silent(A, About(q, w)))
  <2>1. Silent(<<k>>, About(q, w)) /\ Silent(<<>>, About(q, w))
    BY <1>4, OnePacket, NothingSaid
  <2> QED BY <2>1
<1>14. ASSUME NEW q, NEW w, q # p PROVE Silent(B, About(q, w))
  BY <1>7, <1>14, TwoPackets
<1>15. Ends(B, About(p, "character"), Saying(p, "character", NoChar)) /\ Ends(B, About(p, "area"), Saying(p, "area", n))
  BY <1>7, TwoPackets
<1>16. ASSUME p = Me, NEW q, NEW w, NEW G
       PROVE  /\ Ends(Snapshot(S), About(q, w), G) => Ends(A, About(q, w), G)
              /\ Silent(Snapshot(S), About(q, w)) => Silent(A, About(q, w))
  <2>1. Silent(<<ListPacket>>, About(q, w))
    BY <1>10, OnePacket
  <2> QED BY <1>9, <1>11, <1>16, <2>1, ConcatEnds, ConcatSilent
<1>17. p = Me => Ends(A, {ListPacket}, {ListPacket})
  <2>1. Ends(<<ListPacket>>, {ListPacket}, {ListPacket})
    BY <1>10, OnePacket
  <2>2. Silent(Snapshot(S), {ListPacket})
    <3> SUFFICES ASSUME NEW i \in DOMAIN Snapshot(S) PROVE Snapshot(S)[i] # ListPacket
      BY DEF Silent
    <3>1. Snapshot(S)[i] \in AboutPlayers
      BY <1>9
    <3> QED BY <3>1, PacketsApart
  <2> QED BY <1>9, <1>11, <2>1, <2>2, ConcatSilent
<1>18. Silent(B, {ListPacket}) /\ Silent(K, {ListPacket}) /\ Silent(D, {ListPacket})
  <2>1. Silent(B, {ListPacket})
    BY <1>7, <1>8, TwoPackets
  <2>2. Silent(<<k>>, {ListPacket}) /\ Silent(<<>>, {ListPacket})
    BY <1>4, OnePacket, NothingSaid
  <2> QED BY <2>1, <2>2
<1>19. D = <<Arup(here', area_of')>>
  BY DEF k
<1> HIDE DEF A, B, K, D
<1>20. /\ A \o B \in Seq(RoomPackets) /\ (A \o B) \o K \in Seq(RoomPackets) /\ t \in Seq(RoomPackets)
       /\ wire \o A \in Seq(RoomPackets) /\ (wire \o A) \o B \in Seq(RoomPackets) /\ ((wire \o A) \o B) \o K \in Seq(RoomPackets)
  BY <1>1, <1>11, <1>12, ConcatType
<1>21. wire' = wire \o t /\ wire' \in Seq(RoomPackets)
  <2>1. wire \in Seq(RoomPackets) /\ A \in Seq(RoomPackets) /\ B \in Seq(RoomPackets)
    BY <1>1, <1>11, <1>12
  <2>2. K \in Seq(RoomPackets) /\ D \in Seq(RoomPackets)
    BY <1>12
  <2>3. wire' = wire \o t
    <3>1. PICK x : x = A \o B
      OBVIOUS
    <3>2. PICK y : y = x \o K
      OBVIOUS
    <3>3. x \in Seq(RoomPackets) /\ y \in Seq(RoomPackets) /\ t = y \o D
      BY <1>20, <3>1, <3>2
    <3> HIDE DEF t
    <3>4. (wire \o A) \o B = wire \o x
      BY <2>1, <3>1, ConcatAssoc
    <3>5. (wire \o x) \o K = wire \o y
      BY <2>1, <2>2, <3>2, <3>3, ConcatAssoc
    <3>6. (wire \o y) \o D = wire \o t
      <4>1. wire \in Seq(RoomPackets) /\ y \in Seq(RoomPackets) /\ D \in Seq(RoomPackets) /\ t = y \o D
        BY <2>1, <2>2, <3>3
      <4> QED BY <4>1, ConcatAssoc
    <3> QED BY <1>5, <3>4, <3>5, <3>6, Zenon
  <2>4. wire \o t \in Seq(RoomPackets)
    BY <1>1, <1>20, ConcatType
  <2> QED BY <2>3, <2>4
\* What t says is what A or B say.
<1>22. ASSUME NEW q, NEW w, NEW G
       PROVE  /\ Ends(B, About(q, w), G) => Ends(t, About(q, w), G)
              /\ Silent(B, About(q, w)) /\ Ends(A, About(q, w), G) => Ends(t, About(q, w), G)
              /\ Silent(B, About(q, w)) /\ Silent(A, About(q, w)) => Silent(t, About(q, w))
  <2> DEFINE F == About(q, w)
  <2>1. Silent(K, F) /\ Silent(D, F)
    BY <1>13
  <2> HIDE DEF F
  <2>2. /\ Ends(B, F, G) => Ends(A \o B, F, G)
        /\ Silent(B, F) /\ Ends(A, F, G) => Ends(A \o B, F, G)
        /\ Silent(B, F) /\ Silent(A, F) => Silent(A \o B, F)
    BY <1>11, <1>12, ConcatEnds, ConcatSilent
  <2>3. /\ Ends(A \o B, F, G) => Ends((A \o B) \o K, F, G)
        /\ Silent(A \o B, F) => Silent((A \o B) \o K, F)
    BY <1>12, <1>20, <2>1, ConcatSilent
  <2>4. /\ Ends((A \o B) \o K, F, G) => Ends(t, F, G)
        /\ Silent((A \o B) \o K, F) => Silent(t, F)
    BY <1>12, <1>20, <2>1, ConcatSilent
  <2> QED BY <2>2, <2>3, <2>4 DEF F
<1> HIDE DEF t
<1>23. AreasInv'
  <2> DEFINE x == ((wire \o A) \o B) \o K
  <2>1. x \in Seq(RoomPackets) /\ wire' = x \o <<Arup(here', area_of')>>
    BY <1>5, <1>19, <1>20
  <2>2. CASE p = Me
    <3>1. Ends(wire \o A, {ListPacket}, {ListPacket})
      BY <1>1, <1>12, <1>17, <2>2, ConcatEnds
    <3>2. Ends((wire \o A) \o B, {ListPacket}, {ListPacket})
      BY <1>11, <1>18, <1>20, <3>1, ConcatSilent
    <3>3. Ends(x, {ListPacket}, {ListPacket})
      BY <1>12, <1>18, <1>20, <3>2, ConcatSilent
    <3>4. Ends(x \o D, {ListPacket}, {ListPacket})
      BY <1>12, <1>18, <2>1, <3>3, ConcatSilent
    <3>5. ~Silent(wire', {ListPacket})
      BY <1>5, <3>4, EndsIsHeard
    <3> QED BY <1>1, <1>2, <2>1, <3>5, CountsSent
  <2>3. CASE p # Me
    <3>1. Silent(wire', {ListPacket}) => Silent(wire, {ListPacket})
      BY <1>1, <1>20, <1>21, SilentLeft
    <3>2. Me \in here' => Me \in here
      BY <1>1, <2>3
    <3> QED BY <1>1, <1>2, <2>1, <3>1, <3>2, CountsSent
  <2> QED BY <2>2, <2>3
<1>24. CvTypeOK'
  BY <1>1, <1>2, <1>21 DEF CvTypeOK
<1>25. PlayersInv'
  <2> SUFFICES ASSUME NEW q \in Everyone, NEW c, c = char_of[q], NEW m, m = area_index(area_of[q])
               PROVE  /\ q \in here' => LastWord(q, "character", c)'
                      /\ q \in here' \ moved_quietly => LastWord(q, "area", m)'
                      /\ q \notin here' => LastWord(q, "gone", TRUE)' /\ c = NoChar
    BY <1>1 DEF PlayersInv, Everyone, area_index
  <2>1. CASE q = p
    <3>1. c = NoChar /\ m = n
      BY <1>1, <2>1 DEF PlayersInv, n
    <3>2. /\ Ends(t, About(q, "character"), Saying(q, "character", c))
          /\ Ends(t, About(q, "area"), Saying(q, "area", m))
      BY <1>15, <1>22, <2>1, <3>1
    <3>3. LastWord(q, "character", c)' /\ LastWord(q, "area", m)'
      BY <1>1, <1>2, <1>20, <1>21, <3>2, SentLast
    <3> QED BY <1>1, <2>1, <3>3
  <2>2. CASE q # p /\ (p # Me \/ q \notin here)
    <3>1. ASSUME NEW w PROVE Silent(t, About(q, w))
      <4>1. Silent(B, About(q, w))
        BY <1>14, <2>2
      <4>2. Silent(A, About(q, w))
        <5>1. CASE p # Me
          BY <1>13, <5>1
        <5>2. CASE p = Me
          <6>1. Silent(Snapshot(S), About(q, w))
            BY <1>1, <1>3, <2>2, <5>2, SnapshotSays
          <6> QED BY <1>16, <5>2, <6>1
        <5> QED BY <5>1, <5>2
      <4> QED BY <1>22, <4>1, <4>2
    <3>2. ASSUME NEW w, NEW v, LastWord(q, w, v) PROVE LastWord(q, w, v)'
      BY <1>1, <1>2, <1>20, <1>21, <3>1, <3>2, SentLast
    <3> QED BY <1>1, <2>2, <3>2 DEF PlayersInv
  <2>3. CASE q # p /\ p = Me /\ q \in here
    <3>1. Ends(A, About(q, "character"), Saying(q, "character", c)) /\ Ends(A, About(q, "area"), Saying(q, "area", m))
      <4>1. Ends(Snapshot(S), About(q, "character"), Saying(q, "character", c)) /\ Ends(Snapshot(S), About(q, "area"), Saying(q, "area", m))
        BY <1>1, <1>3, <2>3, SnapshotSays
      <4> QED BY <1>16, <2>3, <4>1
    <3>2. Ends(t, About(q, "character"), Saying(q, "character", c)) /\ Ends(t, About(q, "area"), Saying(q, "area", m))
      BY <1>14, <1>22, <2>3, <3>1
    <3>3. LastWord(q, "character", c)' /\ LastWord(q, "area", m)'
      BY <1>1, <1>2, <1>20, <1>21, <3>2, SentLast
    <3> QED BY <1>1, <2>3, <3>3
  <2> QED BY <2>1, <2>2, <2>3
<1> QED BY <1>23, <1>24, <1>25 DEF RosterInv

-----------------------------------------------------------------------------
(* The client's steps. *)

\* A packet is handled: what the head counts and the lists of areas say of it.
LEMMA HandledAreas ==
    ASSUME RosterInv, on_packet
    PROVE  AreasInv'
<1> DEFINE k == Head(wire)
           H == CountPackets \cup {ListPacket}
           T == Tally(here, area_of)
<1>1. /\ wire \in Seq(RoomPackets) /\ wire # <<>> /\ wire' = Tail(wire) /\ k \in RoomPackets /\ AreasInv
      /\ AreaUpdate \in Seq(Tallies) /\ MusicList \in Seq({RoomAreas}) /\ here \subseteq Everyone
  BY DEF RosterInv, CvTypeOK, on_packet
<1>2. /\ AreaUpdate' = (IF k \in CountPackets THEN Append(AreaUpdate, k.counts) ELSE AreaUpdate)
      /\ MusicList' = (IF k = ListPacket THEN Append(MusicList, RoomAreas) ELSE MusicList)
      /\ UNCHANGED <<here, area_of, area_players, overtaken>>
  BY <1>1, KindIsKind DEF on_packet
<1>3. /\ Ends(wire, H, CountPackets) => Ends(wire', H, CountPackets) \/ (k \in CountPackets /\ Silent(wire', H))
      /\ Silent(wire, H) => k \notin H /\ Silent(wire', H)
  BY <1>1, TailEnds
<1>4. /\ Ends(wire, CountPackets, RightCounts) => Ends(wire', CountPackets, RightCounts) \/ (k \in RightCounts /\ Silent(wire', CountPackets))
      /\ Silent(wire, CountPackets) => k \notin CountPackets /\ Silent(wire', CountPackets)
  BY <1>1, TailEnds
<1>5. Silent(wire', {ListPacket}) /\ k # ListPacket => Silent(wire, {ListPacket})
  BY <1>1, TailEnds
<1>6. /\ RightCounts \subseteq CountPackets /\ T \in Tallies /\ \A r \in RightCounts : r.counts = T
  <2>1. T \in Tallies /\ Arup(here, area_of) = [kind |-> "ARUP", counts |-> T] /\ Arup(here, area_of) \in CountPackets
    BY <1>1, ArupTallies
  <2> QED BY <2>1 DEF RightCounts
<1>7. Ends(wire, H, CountPackets) => ~Silent(wire, CountPackets)
  BY EndsIsHeard
<1>8. Ends(wire, H, CountPackets) \/ Silent(wire, H)
  BY <1>1 DEF AreasInv
<1>9. Ends(wire', H, CountPackets) \/ Silent(wire', H)
  BY <1>3, <1>8
<1>10. ListPacket \notin CountPackets
  BY PacketsApart
<1>11. k \in RightCounts => Ends(AreaUpdate', Tallies, {T})
  <2> SUFFICES ASSUME k \in RightCounts PROVE Ends(AreaUpdate', Tallies, {T})
    OBVIOUS
  <2>1. AreaUpdate' = Append(AreaUpdate, T)
    BY <1>2, <1>6
  <2> HIDE DEF T
  <2> QED BY <1>1, <1>6, <2>1, AppendEnds
<1>12. k = ListPacket => MusicList' # <<>>
  BY <1>1, <1>2
<1>13. /\ UNCHANGED <<RightCounts, Tallies, CountPackets, ListPacket>> /\ Tally(here, area_of)' = T /\ here' = here
       /\ area_players' = area_players /\ overtaken' = overtaken
  BY <1>2 DEF RightCounts, Arup, Tally, Tallies, CountPackets, ListPacket, Everyone
<1>14. k # ListPacket => MusicList' = MusicList
  BY <1>2
<1>15. k \notin CountPackets => AreaUpdate' = AreaUpdate
  BY <1>2
<1>16. k \in H <=> k \in CountPackets \/ k = ListPacket
  OBVIOUS
<1> HIDE DEF k, H, T
<1>17. ASSUME Me \in here
       PROVE  /\ \/ Ends(wire', CountPackets, RightCounts)
                 \/ Silent(wire', CountPackets) /\ Ends(AreaUpdate', Tallies, {T})
                 \/ /\ Silent(wire', CountPackets) /\ AreaUpdate' = <<>>
                    /\ overtaken \/ (MusicList' = <<>> /\ area_players = T)
              /\ Silent(wire', {ListPacket}) /\ MusicList' = <<>> => DOMAIN area_players = DOMAIN RoomAreas
  <2>1. /\ \/ Ends(wire, CountPackets, RightCounts)
           \/ Silent(wire, CountPackets) /\ Ends(AreaUpdate, Tallies, {T})
           \/ /\ Silent(wire, CountPackets) /\ AreaUpdate = <<>>
              /\ overtaken \/ (MusicList = <<>> /\ area_players = T)
        /\ Silent(wire, {ListPacket}) /\ MusicList = <<>> => DOMAIN area_players = DOMAIN RoomAreas
    BY <1>1, <1>17 DEF AreasInv, T
  <2>2. CASE k = ListPacket
    <3>1. Ends(wire, CountPackets, RightCounts)
      BY <1>3, <1>7, <1>8, <1>16, <2>1, <2>2
    <3>2. Ends(wire', CountPackets, RightCounts)
      BY <1>4, <1>6, <1>10, <2>2, <3>1
    <3> QED BY <1>12, <2>2, <3>2
  <2>3. CASE k \in CountPackets
    <3>1. Ends(wire, CountPackets, RightCounts)
      BY <1>4, <2>1, <2>3
    <3> QED BY <1>4, <1>5, <1>10, <1>11, <1>14, <2>1, <2>3, <3>1
  <2>4. CASE k # ListPacket /\ k \notin CountPackets
    BY <1>4, <1>5, <1>6, <1>14, <1>15, <2>1, <2>4
  <2> QED BY <2>2, <2>3, <2>4
<1> QED BY <1>9, <1>13, <1>17 DEF AreasInv, H

LEMMA PacketStep ==
    ASSUME RosterInv, on_packet
    PROVE  RosterInv'
<1> DEFINE k == Head(wire)
<1>1. /\ CvTypeOK /\ PlayersInv /\ wire \in Seq(RoomPackets) /\ wire # <<>> /\ wire' = Tail(wire) /\ k \in RoomPackets
      /\ PlayerList \in Seq(AboutPlayers) /\ AreaUpdate \in Seq(Tallies) /\ MusicList \in Seq({RoomAreas})
      /\ UNCHANGED <<here, char_of, area_of, players, moved_quietly, overtaken>>
  BY DEF RosterInv, CvTypeOK, on_packet
<1>2. CvTypeOK'
  <2>1. wire' \in Seq(RoomPackets)
    BY <1>1
  <2>2. PlayerList' \in Seq(AboutPlayers)
    BY <1>1, KindIsKind DEF on_packet
  <2>3. AreaUpdate' \in Seq(Tallies)
    <3>1. CASE k.kind = "ARUP"
      <4>1. k.counts \in Tallies
        BY <1>1, <3>1, KindIsKind, PacketKinds
      <4> QED BY <1>1, <3>1, <4>1 DEF on_packet
    <3>2. CASE k.kind # "ARUP"
      BY <1>1, <3>2 DEF on_packet
    <3> QED BY <3>1, <3>2
  <2>4. MusicList' \in Seq({RoomAreas})
    BY <1>1 DEF on_packet
  <2> QED BY <1>1, <2>1, <2>2, <2>3, <2>4 DEF CvTypeOK
<1>3. PlayersInv'
  <2> SUFFICES ASSUME NEW q \in Everyone, NEW c, c = char_of[q], NEW n, n = area_index(area_of[q])
               PROVE  /\ q \in here => LastWord(q, "character", c)'
                      /\ q \in here \ moved_quietly => LastWord(q, "area", n)'
                      /\ q \notin here => LastWord(q, "gone", TRUE)' /\ c = NoChar
    BY <1>1 DEF PlayersInv, Everyone, area_index
  <2> QED BY <1>1, HandledLast DEF PlayersInv
<1> QED BY <1>2, <1>3, HandledAreas DEF RosterInv

LEMMA PlayersTabStep ==
    ASSUME RosterInv, PlayersTab
    PROVE  RosterInv'
<1> DEFINE k == Head(PlayerList)
<1>1. /\ CvTypeOK /\ PlayersInv /\ AreasInv /\ PlayerList \in Seq(AboutPlayers) /\ PlayerList # <<>> /\ PlayerList' = Tail(PlayerList)
      /\ k \in AboutPlayers /\ players' = Shown(players, k)
      /\ UNCHANGED <<here, char_of, area_of, moved_quietly, overtaken, wire, AreaUpdate, MusicList, areas, area_players>>
  BY DEF RosterInv, CvTypeOK, PlayersTab, SameRoom
<1> HIDE DEF k
<1>2. DOMAIN players' \subseteq Everyone /\ \A q \in DOMAIN players' : players'[q] \in Entries
  <2> DEFINE old == IF k.p \in DOMAIN players THEN players[k.p] ELSE NewPlayer
             With(r) == [q \in DOMAIN players \cup {k.p} |-> IF q = k.p THEN r ELSE players[q]]
  <2>1. DOMAIN players \subseteq Everyone /\ \A q \in DOMAIN players : players[q] \in Entries
    BY <1>1 DEF CvTypeOK
  <2>2. NewPlayer \in Entries /\ old \in Entries
    BY <2>1 DEF NewPlayer, Entries
  <2>3. k.p \in Everyone
    BY <1>1, PacketKinds DEF AboutPlayers
  <2>4. ASSUME NEW r \in Entries, players' = With(r)
        PROVE  DOMAIN players' \subseteq Everyone /\ \A q \in DOMAIN players' : players'[q] \in Entries
    BY <2>1, <2>3, <2>4
  <2>5. CASE k \in Announcements /\ k.add
    <3>1. players' = With(NewPlayer)
      BY <1>1, <2>5, PacketKinds DEF Shown
    <3> QED BY <2>2, <2>4, <3>1
  <2>6. CASE k \in Announcements /\ ~k.add
    <3>1. players' = [q \in DOMAIN players \ {k.p} |-> players[q]]
      BY <1>1, <2>6, PacketKinds DEF Shown
    <3> QED BY <2>1, <3>1
  <2>7. CASE k \in Changes
    <3> DEFINE new == [old EXCEPT ![k.what] = k.v]
    <3>1. players' = With(new)
      BY <1>1, <2>7, PacketKinds DEF Shown
    <3>2. new \in Entries
      <4>1. (k.what = "character" /\ k.v \in Chars \cup {NoChar}) \/ (k.what = "area" /\ k.v \in Numbers)
        BY <2>7, PacketKinds
      <4> QED BY <2>2, <4>1 DEF Entries
    <3> QED BY <2>4, <3>1, <3>2
  <2> QED BY <1>1, <2>5, <2>6, <2>7 DEF AboutPlayers
<1>3. CvTypeOK'
  BY <1>1, <1>2 DEF CvTypeOK
<1>4. PlayersInv'
  <2> SUFFICES ASSUME NEW q \in Everyone, NEW c, c = char_of[q], NEW n, n = area_index(area_of[q])
               PROVE  /\ q \in here => LastWord(q, "character", c)'
                      /\ q \in here \ moved_quietly => LastWord(q, "area", n)'
                      /\ q \notin here => LastWord(q, "gone", TRUE)' /\ c = NoChar
    BY <1>1 DEF PlayersInv, Everyone, area_index
  <2>1. ASSUME NEW w \in {"character", "area", "gone"}, NEW v, LastWord(q, w, v) PROVE LastWord(q, w, v)'
    BY <1>1, <2>1, DrawnLast
  <2> QED BY <1>1, <2>1 DEF PlayersInv
<1>5. AreasInv'
  BY <1>1 DEF AreasInv, RightCounts, Arup, Tally, Tallies, CountPackets, ListPacket, Everyone
<1> QED BY <1>3, <1>4, <1>5 DEF RosterInv

\* Nothing of the players changes when the areas are drawn.
LEMMA PlayersStay ==
    ASSUME PlayersInv, UNCHANGED <<here, char_of, area_of, moved_quietly, wire, PlayerList, players>>
    PROVE  PlayersInv'
<1> SUFFICES ASSUME NEW q \in Everyone, NEW c, c = char_of[q], NEW n, n = area_index(area_of[q])
             PROVE  /\ q \in here => LastWord(q, "character", c)'
                    /\ q \in here \ moved_quietly => LastWord(q, "area", n)'
                    /\ q \notin here => LastWord(q, "gone", TRUE)' /\ c = NoChar
  BY DEF PlayersInv, Everyone, area_index
<1>1. ASSUME NEW w, NEW v, LastWord(q, w, v) PROVE LastWord(q, w, v)'
  BY <1>1 DEF LastWord, Shows
<1> QED BY <1>1 DEF PlayersInv

LEMMA TakeListStep ==
    ASSUME RosterInv, TakeList
    PROVE  RosterInv'
<1>1. /\ CvTypeOK /\ PlayersInv /\ AreasInv /\ MusicList \in Seq({RoomAreas})
      /\ UNCHANGED <<here, char_of, area_of, moved_quietly, overtaken, wire, PlayerList, AreaUpdate, players>>
  BY DEF RosterInv, CvTypeOK, TakeList, SameRoom
<1>2. PlayersInv'
  BY <1>1, PlayersStay
<1>3. CASE MusicList = <<>>
  <2>1. UNCHANGED <<MusicList, areas, area_players>>
    BY <1>3 DEF TakeList
  <2>2. CvTypeOK' /\ AreasInv'
    BY <1>1, <2>1 DEF CvTypeOK, AreasInv, RightCounts, Arup, Tally, Tallies, CountPackets, ListPacket, Everyone, Places, Numbers, Entries, RoomPackets,
       AboutPlayers, Announcements, Changes, PR, PU
  <2> QED BY <1>2, <2>2 DEF RosterInv
<1>4. CASE MusicList # <<>>
  <2>1. areas' = Head(MusicList) /\ area_players' = [i \in DOMAIN areas' |-> Unknown] /\ MusicList' = Tail(MusicList)
    BY <1>4 DEF TakeList
  <2>2. areas' = RoomAreas /\ MusicList' \in Seq({RoomAreas}) /\ DOMAIN area_players' = DOMAIN RoomAreas
    BY <1>1, <1>4, <2>1
  <2>3. CvTypeOK'
    BY <1>1, <2>2 DEF CvTypeOK
  <2>4. /\ UNCHANGED <<RightCounts, Tallies, CountPackets, ListPacket>> /\ Tally(here, area_of)' = Tally(here, area_of)
    BY <1>1 DEF RightCounts, Arup, Tally, Tallies, CountPackets, ListPacket, Everyone
  <2>5. AreasInv'
    BY <1>1, <1>4, <2>2, <2>4 DEF AreasInv
  <2> QED BY <1>2, <2>3, <2>5 DEF RosterInv
<1> QED BY <1>3, <1>4

LEMMA TakeCountsStep ==
    ASSUME RosterInv, TakeCounts
    PROVE  RosterInv'
<1> DEFINE e == Head(AreaUpdate)
           T == Tally(here, area_of)
           H == CountPackets \cup {ListPacket}
<1>1. /\ CvTypeOK /\ PlayersInv /\ AreasInv /\ AreaUpdate \in Seq(Tallies) /\ MusicList \in Seq({RoomAreas}) /\ here \subseteq Everyone
      /\ UNCHANGED <<here, char_of, area_of, moved_quietly, wire, PlayerList, MusicList, players, areas>>
  BY DEF RosterInv, CvTypeOK, TakeCounts, SameRoom
<1>2. PlayersInv'
  BY <1>1, PlayersStay
<1>3. CASE AreaUpdate = <<>>
  <2>1. UNCHANGED <<AreaUpdate, area_players, overtaken>>
    BY <1>3 DEF TakeCounts
  <2>2. CvTypeOK'
    BY <1>1, <2>1 DEF CvTypeOK
  <2>3. AreasInv'
    BY <1>1, <2>1 DEF AreasInv, RightCounts, Arup, Tally, Tallies, CountPackets, ListPacket, Everyone
  <2> QED BY <1>2, <2>2, <2>3 DEF RosterInv
<1>4. CASE AreaUpdate # <<>>
  <2>1. /\ area_players' = Counted(area_players, e) /\ AreaUpdate' = Tail(AreaUpdate) /\ overtaken' = (MusicList # <<>>)
        /\ AreaUpdate' \in Seq(Tallies)
    BY <1>1, <1>4 DEF TakeCounts
  <2>2. CvTypeOK'
    BY <1>1, <2>1 DEF CvTypeOK
  <2>3. DOMAIN area_players' = DOMAIN area_players
    BY <2>1 DEF Counted
  <2>4. /\ Ends(AreaUpdate, Tallies, {T}) => Ends(AreaUpdate', Tallies, {T}) \/ (e \in {T} /\ Silent(AreaUpdate', Tallies))
    BY <1>1, <1>4, <2>1, TailEnds
  <2>5. Silent(AreaUpdate', Tallies) => AreaUpdate' = <<>>
    <3> SUFFICES ASSUME Silent(AreaUpdate', Tallies), AreaUpdate' # <<>> PROVE FALSE
      OBVIOUS
    <3>1. 1 \in DOMAIN AreaUpdate' /\ AreaUpdate'[1] \in Tallies
      BY <2>1
    <3> QED BY <3>1 DEF Silent
  <2>6. T = [i \in DOMAIN RoomAreas |-> T[i]]
    BY DEF Tally
  <2> HIDE DEF e, T
  <2>7. e = T /\ DOMAIN area_players = DOMAIN RoomAreas => area_players' = T
    <3> SUFFICES ASSUME e = T, DOMAIN area_players = DOMAIN RoomAreas PROVE area_players' = T
      OBVIOUS
    <3>1. DOMAIN T = DOMAIN RoomAreas
      BY <2>6
    <3>2. area_players' = [i \in DOMAIN RoomAreas |-> T[i]]
      BY <2>1, <3>1 DEF Counted
    <3> QED BY <2>6, <3>2
  <2>8. Silent(wire, CountPackets) => Silent(wire, {ListPacket})
    <3>1. Silent(wire, CountPackets) => ~Ends(wire, H, CountPackets)
      BY EndsIsHeard
    <3>2. Silent(wire, H) => Silent(wire, {ListPacket})
      BY SilentForLess
    <3> QED BY <1>1, <3>1, <3>2 DEF AreasInv
  <2>9. /\ UNCHANGED <<RightCounts, Tallies, CountPackets, ListPacket>> /\ Tally(here, area_of)' = T /\ T = Tally(here, area_of)
    BY <1>1 DEF RightCounts, Arup, Tally, Tallies, CountPackets, ListPacket, Everyone, T
  <2>10. ASSUME Me \in here
         PROVE  /\ \/ Ends(wire, CountPackets, RightCounts)
                   \/ Silent(wire, CountPackets) /\ Ends(AreaUpdate', Tallies, {T})
                   \/ /\ Silent(wire, CountPackets) /\ AreaUpdate' = <<>>
                      /\ overtaken' \/ (MusicList = <<>> /\ area_players' = T)
                /\ Silent(wire, {ListPacket}) /\ MusicList = <<>> => DOMAIN area_players' = DOMAIN RoomAreas
    <3>1. /\ \/ Ends(wire, CountPackets, RightCounts)
             \/ Silent(wire, CountPackets) /\ Ends(AreaUpdate, Tallies, {T})
          /\ Silent(wire, {ListPacket}) /\ MusicList = <<>> => DOMAIN area_players = DOMAIN RoomAreas
      BY <1>1, <1>4, <2>9, <2>10 DEF AreasInv
    <3>2. ASSUME Silent(wire, CountPackets), Ends(AreaUpdate, Tallies, {T}), ~Ends(AreaUpdate', Tallies, {T})
          PROVE  AreaUpdate' = <<>> /\ (overtaken' \/ (MusicList = <<>> /\ area_players' = T))
      <4>1. e = T /\ AreaUpdate' = <<>>
        BY <2>4, <2>5, <3>2
      <4>2. CASE MusicList # <<>>
        BY <2>1, <4>1, <4>2
      <4>3. CASE MusicList = <<>>
        BY <2>7, <2>8, <3>1, <3>2, <4>1, <4>3
      <4> QED BY <4>2, <4>3
    <3> QED BY <2>3, <3>1, <3>2
  <2>11. AreasInv'
    <3>1. Ends(wire, H, CountPackets) \/ Silent(wire, H)
      BY <1>1 DEF AreasInv
    <3> QED BY <1>1, <2>9, <2>10, <3>1 DEF AreasInv
  <2> QED BY <1>2, <2>2, <2>11 DEF RosterInv
<1> QED BY <1>3, <1>4

LEMMA RosterStays ==
    ASSUME RosterInv, UNCHANGED cvRoom
    PROVE  RosterInv'
<1>1. PlayersInv'
  BY PlayersStay DEF RosterInv, cvRoom
<1>2. CvTypeOK'
  BY DEF RosterInv, CvTypeOK, cvRoom
<1>3. AreasInv'
  BY DEF RosterInv, AreasInv, cvRoom, RightCounts, Arup, Tally, Tallies, CountPackets, ListPacket, Everyone
<1> QED BY <1>1, <1>2, <1>3 DEF RosterInv

LEMMA RosterStep == RosterInv /\ [CvRoomNext \/ CvTimerNext]_cvVars => RosterInv'
<1> SUFFICES ASSUME RosterInv, [CvRoomNext \/ CvTimerNext]_cvVars PROVE RosterInv'
  OBVIOUS
<1>1. CASE CvRoomNext
  <2>1. ASSUME NEW p \in Everyone, AOPacketRD(p) PROVE RosterInv'
    BY <2>1, JoinStep
  <2>2. ASSUME NEW p \in Everyone, AreaKick(p) PROVE RosterInv'
    BY <2>2, KickStep
  <2>3. ASSUME NEW p \in Everyone, on_client_disconnected(p) PROVE RosterInv'
    BY <2>3, LeaveStep
  <2>4. ASSUME NEW p \in Everyone, NEW c \in Chars, AOPacketCC(p, c) PROVE RosterInv'
    BY <2>4, ChooseStep
  <2>5. ASSUME NEW p \in Everyone, NEW a \in ToSet(RoomAreas), ChangeArea(p, a) PROVE RosterInv'
    BY <2>5, MoveStep
  <2> QED BY <1>1, <2>1, <2>2, <2>3, <2>4, <2>5, PacketStep, PlayersTabStep, TakeListStep, TakeCountsStep
          DEF CvRoomNext, ao_tick, MusicTab
<1>2. CASE CvTimerNext
  <2>1. UNCHANGED cvRoom
    BY <1>2 DEF CvTimerNext, Elapse, RenderTimer, tick_timers, TimerEvent
  <2> QED BY <2>1, RosterStays
<1>3. CASE UNCHANGED cvVars
  BY <1>3, RosterStays DEF cvVars
<1> QED BY <1>1, <1>2, <1>3

LEMMA RosterStarts == CvInit => RosterInv
<1> SUFFICES ASSUME CvInit PROVE RosterInv
  OBVIOUS
<1>1. CvTypeOK
  <2>1. here = {} /\ overtaken = FALSE /\ DOMAIN players = {}
        /\ wire = <<>> /\ PlayerList = <<>> /\ AreaUpdate = <<>> /\ MusicList = <<>>
    BY DEF CvInit
  <2>2. char_of \in [Everyone -> Chars \cup {NoChar}] /\ area_of \in [Everyone -> Places]
    BY DEF CvInit, Places
  <2>3. IsFiniteSet(here)
    BY <2>1, FS_EmptySet
  <2>4. wire \in Seq(RoomPackets) /\ PlayerList \in Seq(AboutPlayers) /\ AreaUpdate \in Seq(Tallies) /\ MusicList \in Seq({RoomAreas})
    BY <2>1
  <2>5. here \subseteq Everyone /\ overtaken \in BOOLEAN /\ DOMAIN players \subseteq Everyone
        /\ \A q \in DOMAIN players : players[q] \in Entries
    BY <2>1
  <2> QED BY <2>2, <2>3, <2>4, <2>5 DEF CvTypeOK
<1>2. PlayersInv
  <2> SUFFICES ASSUME NEW p \in Everyone PROVE LastWord(p, "gone", TRUE) /\ char_of[p] = NoChar /\ p \notin here
    BY DEF PlayersInv
  <2>1. wire = <<>> /\ PlayerList = <<>> /\ DOMAIN players = {} /\ char_of[p] = NoChar /\ here = {}
    BY DEF CvInit
  <2> QED BY <2>1, NothingSaid DEF LastWord, Shows
<1>3. AreasInv
  BY NothingSaid DEF CvInit, AreasInv
<1> QED BY <1>1, <1>2, <1>3 DEF RosterInv

LEMMA SettledRoster == RosterInv => RosterConverges
<1> SUFFICES ASSUME RosterInv, Settled
             PROVE  /\ DOMAIN players = here
                    /\ \A p \in here : players[p].character = char_of[p]
                    /\ \A p \in here \ moved_quietly : players[p].area = area_index(area_of[p])
                    /\ ~overtaken => area_players = [i \in DOMAIN RoomAreas |-> Cardinality({p \in here : area_of[p] = RoomAreas[i]})]
  BY DEF RosterConverges
<1>1. Me \in here /\ wire = <<>> /\ PlayerList = <<>> /\ AreaUpdate = <<>> /\ MusicList = <<>> /\ here \subseteq Everyone
      /\ DOMAIN players \subseteq Everyone
  BY DEF Settled, RosterInv, CvTypeOK
<1>2. ASSUME NEW p, NEW w, NEW v, LastWord(p, w, v) PROVE Shows(p, w, v)
  BY <1>1, <1>2, NothingSaid DEF LastWord
<1>3. \A p \in here : p \in DOMAIN players /\ players[p]["character"] = char_of[p]
  <2> SUFFICES ASSUME NEW p \in here PROVE p \in DOMAIN players /\ players[p]["character"] = char_of[p]
    OBVIOUS
  <2>1. Shows(p, "character", char_of[p])
    BY <1>1, <1>2 DEF RosterInv, PlayersInv
  <2> QED BY <2>1 DEF Shows
<1>4. \A p \in here \ moved_quietly : players[p]["area"] = area_index(area_of[p])
  <2> SUFFICES ASSUME NEW p \in here \ moved_quietly PROVE players[p]["area"] = area_index(area_of[p])
    OBVIOUS
  <2>1. Shows(p, "area", area_index(area_of[p]))
    BY <1>1, <1>2 DEF RosterInv, PlayersInv
  <2> QED BY <2>1 DEF Shows
<1>5. \A p \in Everyone \ here : p \notin DOMAIN players
  <2> SUFFICES ASSUME NEW p \in Everyone \ here PROVE p \notin DOMAIN players
    OBVIOUS
  <2>1. Shows(p, "gone", TRUE)
    BY <1>2 DEF RosterInv, PlayersInv
  <2> QED BY <2>1 DEF Shows
<1>6. ~overtaken => area_players = Tally(here, area_of)
  BY <1>1, NothingSaid DEF RosterInv, AreasInv
<1> QED BY <1>1, <1>3, <1>4, <1>5, <1>6 DEF Tally

-----------------------------------------------------------------------------
(* The timer. *)

Timers == [visible : BOOLEAN, running : BOOLEAN, remaining_ms : Int, last_tick : Nat]

\* What a running timer shows is what was left at its last tick; TIs and ticks are not in the future.
TimerInv ==
    /\ clock \in Nat /\ timer \in Timers
    /\ synced.at \in Nat /\ synced.ms \in Nat
    /\ timer.running => /\ synced.at <= timer.last_tick /\ timer.last_tick <= clock
                        /\ timer.remaining_ms = NonNeg(synced.ms - (timer.last_tick - synced.at))

\* Two ticks in a row are one tick: what they take off adds up, and what has run out stays so.
LEMMA TicksAddUp ==
    ASSUME NEW ms \in Nat, NEW at \in Nat, NEW last \in Nat, NEW now \in Nat, at <= last, last <= now
    PROVE  NonNeg(NonNeg(ms - (last - at)) - (now - last)) = NonNeg(ms - (now - at))
BY DEF NonNeg

\* A running timer that is ticked now.
LEMMA TickKeeps ==
    ASSUME TimerInv, timer.running, UNCHANGED <<clock, synced>>,
           timer' = [timer EXCEPT !.last_tick = clock, !.remaining_ms = NonNeg(@ - (clock - timer.last_tick))]
    PROVE  TimerInv'
<1> USE DEF TimerInv
<1> PICK ms \in Nat, at \in Nat, last \in Nat, now \in Nat : ms = synced.ms /\ at = synced.at /\ last = timer.last_tick /\ now = clock
  BY DEF Timers
<1>1. at <= last /\ last <= now /\ timer.remaining_ms = NonNeg(ms - (last - at))
  OBVIOUS
<1> DEFINE left == NonNeg(timer.remaining_ms - (now - last))
<1>2. left = NonNeg(ms - (now - at)) /\ left \in Int
  <2>1. left = NonNeg(ms - (now - at))
    BY <1>1, TicksAddUp
  <2> QED BY <2>1 DEF NonNeg
<1> HIDE DEF left
<1>3. timer' = [timer EXCEPT !.last_tick = now, !.remaining_ms = left]
  BY DEF left
<1>4. /\ timer' \in Timers /\ timer'.running /\ timer'.last_tick = now /\ timer'.remaining_ms = left
  BY <1>2, <1>3 DEF Timers
<1> QED BY <1>1, <1>2, <1>4

LEMMA TimerEventKeeps ==
    ASSUME TimerInv, NEW action \in 0..3, NEW ms \in {Unknown, 0, 2}, TimerEvent(action, ms)
    PROVE  TimerInv'
<1> USE DEF TimerInv
<1>1. clock' = clock /\ ms \in Int /\ clock \in Nat /\ timer \in Timers
  BY DEF TimerEvent, Unknown, cvRoom
<1>2. /\ synced'.at \in Nat /\ synced'.ms \in Nat
      /\ action = 0 /\ ms >= 0 => synced'.at = clock /\ synced'.ms = ms
      /\ action \in {2, 3} => synced' = synced
  <2>1. CASE action \in {0, 1}
    <3>1. synced' = [at |-> clock, ms |-> IF ms < 0 THEN 0 ELSE ms, runs |-> action = 0 /\ ms >= 0]
      BY <2>1 DEF TimerEvent
    <3>2. synced'.at = clock /\ synced'.ms = IF ms < 0 THEN 0 ELSE ms
      BY <3>1
    <3> QED BY <1>1, <2>1, <3>2
  <2>2. CASE action \in {2, 3}
    BY <2>2 DEF TimerEvent
  <2> QED BY <2>1, <2>2
<1>3. CASE action = 0 /\ ms < 0
  <2>1. PICK z \in Int : timer' = [timer EXCEPT !.running = FALSE, !.remaining_ms = z]
    <3>1. timer' = [timer EXCEPT !.running = FALSE, !.remaining_ms = 0] /\ 0 \in Int
      BY <1>1, <1>3 DEF TimerEvent
    <3> QED BY <3>1, Zenon
  <2>2. timer' \in Timers /\ ~timer'.running
    BY <1>1, <2>1 DEF Timers
  <2> QED BY <1>1, <1>2, <2>2
<1>4. CASE action = 0 /\ ms >= 0
  <2>1. timer' = [timer EXCEPT !.remaining_ms = ms, !.running = TRUE, !.last_tick = clock]
    BY <1>1, <1>4 DEF TimerEvent
  <2>2. timer' \in Timers /\ timer'.last_tick = clock /\ timer'.remaining_ms = ms
    BY <1>1, <2>1 DEF Timers
  <2> QED BY <1>1, <1>2, <1>4, <2>2 DEF NonNeg
<1>5. CASE action = 1
  <2>1. timer' = [timer EXCEPT !.running = FALSE, !.remaining_ms = ms]
    BY <1>5 DEF TimerEvent
  <2>2. timer' \in Timers /\ ~timer'.running
    BY <1>1, <2>1 DEF Timers
  <2> QED BY <1>1, <1>2, <2>2
<1>6. CASE action \in {2, 3}
  <2>1. timer' = [timer EXCEPT !.visible = TRUE] \/ timer' = [timer EXCEPT !.visible = FALSE]
    <3>1. action = 2 => timer' = [timer EXCEPT !.visible = TRUE]
      BY DEF TimerEvent
    <3>2. action = 3 => timer' = [timer EXCEPT !.visible = FALSE]
      BY DEF TimerEvent
    <3> QED BY <1>6, <3>1, <3>2
  <2>2. /\ timer' \in Timers
        /\ timer'.running = timer.running /\ timer'.last_tick = timer.last_tick /\ timer'.remaining_ms = timer.remaining_ms
    BY <1>1, <2>1 DEF Timers
  <2>3. synced' = synced
    BY <1>2, <1>6
  <2> QED BY <1>1, <2>2, <2>3
<1> QED BY <1>1, <1>3, <1>4, <1>5, <1>6

LEMMA TimerStarts == CvInit => TimerInv
<1> SUFFICES ASSUME CvInit PROVE TimerInv
  OBVIOUS
<1>1. timer = [visible |-> FALSE, running |-> FALSE, remaining_ms |-> 0, last_tick |-> 0] /\ synced = [at |-> 0, ms |-> 0, runs |-> FALSE] /\ clock = 0
  BY DEF CvInit
<1> QED BY <1>1 DEF TimerInv, Timers

LEMMA TimerStep == TimerInv /\ [CvRoomNext \/ CvTimerNext]_cvVars => TimerInv'
<1> SUFFICES ASSUME TimerInv, [CvRoomNext \/ CvTimerNext]_cvVars PROVE TimerInv'
  OBVIOUS
<1>1. CASE UNCHANGED cvTimer
  BY <1>1 DEF TimerInv, cvTimer
<1>2. CvRoomNext => UNCHANGED cvTimer
  BY DEF CvRoomNext, AOPacketRD, AreaKick, on_client_disconnected, AOPacketCC, ChangeArea, on_packet, ao_tick, MusicTab, TakeList, TakeCounts,
     PlayersTab, SameView, SameRoom
<1>3. CASE Elapse
  BY <1>3 DEF TimerInv, Elapse, Timers
<1>4. CASE RenderTimer
  <2>1. timer' = [timer EXCEPT !.last_tick = clock, !.remaining_ms = NonNeg(@ - (clock - timer.last_tick))] /\ timer.running
    BY <1>4 DEF RenderTimer, Ticked, TimerInv, Timers
  <2> QED BY <1>4, <2>1, TickKeeps DEF RenderTimer
<1>5. CASE tick_timers
  BY <1>5, TickKeeps DEF tick_timers
<1>6. ASSUME NEW action \in 0..3, NEW ms \in {Unknown, 0, 2}, TimerEvent(action, ms) PROVE TimerInv'
  BY <1>6, TimerEventKeeps
<1>7. CASE UNCHANGED cvVars
  BY <1>1, <1>7 DEF cvVars
<1> QED BY <1>1, <1>2, <1>3, <1>4, <1>5, <1>6, <1>7 DEF CvTimerNext

-----------------------------------------------------------------------------
(* What holds of the roster and the timer. *)

\* For any players, characters, areas and moves, however the packets and the channels are drained: the last word in flight
\* on a player and on the head counts is the server's (AOServer's announcements, CourtroomState).
THEOREM ViewsInvariant == CvSpec => [](RosterInv /\ TimerInv)
<1>1. CvInit => RosterInv /\ TimerInv
  BY RosterStarts, TimerStarts
<1>2. RosterInv /\ TimerInv /\ [CvRoomNext \/ CvTimerNext]_cvVars => (RosterInv /\ TimerInv)'
  BY RosterStep, TimerStep
<1> QED BY <1>1, <1>2, PTL DEF CvSpec

\* Once nothing is in flight a client lists exactly the players who are there, with their characters, areas and head
\* counts; and a timer that has just been drawn shows what is left of the server's time, however long it was hidden
\* (PlayerListWidget, MusicAreaWidget, TimerWidget::render, ao_tick).
THEOREM ViewsAlwaysRight == CvSpec => []ViewsRight
<1>1. RosterInv /\ TimerInv => ViewsRight
  <2>1. TimerInv => TimerExact
    BY DEF TimerInv, TimerExact
  <2> QED BY <2>1, SettledRoster DEF ViewsRight
<1> QED BY <1>1, ViewsInvariant, PTL
=============================================================================
