---- MODULE AoWire ----
(***************************************************************************)
(* The AO2 wire between two clients and the server: the packet codec       *)
(* (AOPacket, PacketTypes), the client's reassembly of packets from chunks *)
(* (AOClient::on_message), the positional layouts of MS in both directions *)
(* and the server's handlers that relay chat, evidence, health bars and    *)
(* area moves.  Text is a sequence of tokens: the separators, the escapes  *)
(* and plain characters.  Clients' packets are handled one at a time by    *)
(* the server's dispatch lock; what it sends is delivered in chunks.       *)
(***************************************************************************)
EXTENDS Integers, Sequences, SequencesExt, FiniteSetsExt

CONSTANTS
    Players,
    Areas,
    Lobby,        \* the area players start in
    IcTexts,
    OocTexts,
    EvNames,
    MaxActs       \* packets the players send

VARIABLES
    stream,       \* bytes on their way to each client, as tokens
    incomplete_buf,
    in_area,      \* session.area
    evidence,     \* AreaState::evidence
    hp,           \* AreaState::hp
    ev_view,      \* what each client shows: evidence, health bars
    hp_view,
    published,        \* chat each client's handlers published
    meant,        \* the chat each client was meant to get, in order
    acts

wiVars == <<stream, incomplete_buf, in_area, evidence, hp, ev_view, hp_view, published, meant, acts>>

----
(* Codec.                                                                  *)

Escapes == [h \in {"#", "%", "&", "$"} |->
              CASE h = "#" -> "<pound>" [] h = "%" -> "<percent>" [] h = "&" -> "<and>" [] OTHER -> "<dollar>"]

ao_encode(s) == [i \in DOMAIN s |-> IF s[i] \in DOMAIN Escapes THEN Escapes[s[i]] ELSE s[i]]

ao_decode(s) ==
    [i \in DOMAIN s |-> IF \E h \in DOMAIN Escapes : Escapes[h] = s[i]
                        THEN CHOOSE h \in DOMAIN Escapes : Escapes[h] = s[i] ELSE s[i]]

\* A field is a sequence of tokens; # before each one, "#%" at the end.
serialize(header, fields) ==
    <<header>> \o FlattenSeq([i \in DOMAIN fields |-> <<"#">> \o fields[i]]) \o <<"#", "%">>

\* The pieces of s that end before the positions in e; a separator is w tokens wide.
Pieces(s, e, w) == [k \in DOMAIN e |-> SubSeq(s, IF k = 1 THEN 1 ELSE e[k - 1] + w, e[k] - 1)]

Separators(s, sep) == FlattenSeq([i \in DOMAIN s |-> IF s[i] = sep THEN <<i>> ELSE <<>>])

Split(s, sep) == Pieces(s, Append(Separators(s, sep), Len(s) + 1), 1)

deserialize(content) == LET t == Split(content, "#") IN [header |-> t[1], fields |-> Tail(t)]

\* AOClient::on_message: every packet that is complete in the buffer, and the rest.  A packet ends at "#%".
Delimiters(buf) ==
    FlattenSeq([i \in DOMAIN buf |-> IF i > 1 /\ buf[i - 1] = "#" /\ buf[i] = "%" THEN <<i - 1>> ELSE <<>>])

Complete(buf) == LET k == Pieces(buf, Delimiters(buf), 2) IN [i \in DOMAIN k |-> deserialize(k[i])]

Rest_lost(buf) == <<>>

Rest(buf) == IF Delimiters(buf) = <<>> THEN buf ELSE SubSeq(buf, Last(Delimiters(buf)) + 2, Len(buf))

----
(* MS.  Positions are 1-based here: field i of the code is position i + 1.  *)

Core == <<"desk_mod", "pre_emote", "character", "emote", "message", "side", "sfx_name", "emote_mod", "char_id",
          "sfx_delay", "objection_mod", "evidence_id", "flip", "realization", "text_color", "showname">>

\* AOPacketMS(const ICMessageData&): what a client sends.
ClientMS == Core \o <<"other_charid", "self_offset", "immediate", "looping_sfx", "screenshake", "frame_screenshake",
                      "frame_realization", "frame_sfx", "additive", "effects", "blipname", "slide">>

\* AOPacketMS::handle_server reads the same layout into an ICAction.
ActionMS == Core \o <<"other_charid", "self_offset", "immediate", "looping_sfx", "screenshake", "frame_screenshake",
                      "frame_realization", "frame_sfx", "additive", "effects", "blipname", "slide">>

\* AOServer::broadcast_ic: six pair fields in between.
ServerMS == Core \o <<"other_charid", "", "", "self_offset", "", "", "immediate", "looping_sfx", "screenshake",
                      "frame_screenshake", "frame_realization", "frame_sfx", "additive", "effects", "blipname", "slide">>

\* AOPacketMS(fields): where the receiving client looks.
ParsedAt == [message |-> 5, showname |-> 16, immediate |-> 23, looping_sfx |-> 24, screenshake |-> 25,
             frame_sfx |-> 28, additive |-> 29, slide |-> 32]

Blank == [n \in ToSet(ClientMS) |-> <<"0">>]
IcData(text, flag) == [Blank EXCEPT !["message"] = text, ![flag] = <<"1">>]

ToWireMS(d) == [i \in DOMAIN ClientMS |-> ao_encode(d[ClientMS[i]])]
Field(fields, i) == IF i \in DOMAIN fields THEN fields[i] ELSE <<>>
Action(fields) == [n \in ToSet(ActionMS) |-> Field(fields, CHOOSE i \in DOMAIN ActionMS : ActionMS[i] = n)]
EchoMS(a) == [i \in DOMAIN ServerMS |-> IF ServerMS[i] = "" THEN <<>> ELSE a[ServerMS[i]]]
FromWireMS(fields) == [n \in DOMAIN ParsedAt |-> ao_decode(Field(fields, ParsedAt[n]))]

----
(* The server's sends.                                                     *)

InArea(a) == {p \in Players : in_area[p] = a}

send_to_area(a, packet) == [p \in Players |-> IF p \in InArea(a) THEN stream[p] \o packet ELSE stream[p]]

Evidence(ev) == serialize("LE", [i \in DOMAIN ev |-> ev[i]])
Hp(side, v) == serialize("HP", <<<<side>>, <<v>>>>)

\* AOServer::send_area_join_info; BN changes no state kept here, and an empty evidence list is not sent.
JoinInfo(a) ==
    serialize("BN", <<<<"bg">>>>) \o Hp("1", hp[a]["1"]) \o Hp("2", hp[a]["2"])
        \o (IF evidence[a] # <<>> THEN Evidence(evidence[a]) ELSE <<>>)

----
(* A player's packets, as the server handles them.                         *)

Act == acts < MaxActs /\ acts' = acts + 1
SameChat == UNCHANGED <<published, meant>>
SameClients == UNCHANGED <<incomplete_buf, ev_view, hp_view>>

AOPacketMS(p, text, flag) ==
    LET d == IcData(text, flag)
    IN  /\ Act
        /\ stream' = send_to_area(in_area[p], serialize("MS", EchoMS(Action(ToWireMS(d)))))
        /\ meant' = [q \in Players |-> IF q \in InArea(in_area[p])
                                       THEN Append(meant[q], <<"IC", [n \in DOMAIN ParsedAt |-> d[n]]>>) ELSE meant[q]]
        /\ UNCHANGED <<in_area, evidence, hp, published>> /\ SameClients

\* The constructor decodes; AOServer::broadcast_ooc sends what it got.
AOPacketCT(p, text) ==
    /\ Act
    /\ stream' = send_to_area(in_area[p], serialize("CT", <<<<"name">>, ao_decode(ao_encode(text)), <<"0">>>>))
    /\ meant' = [q \in Players |-> IF q \in InArea(in_area[p])
                                   THEN Append(meant[q], <<"OOC", text, FALSE>>) ELSE meant[q]]
    /\ UNCHANGED <<in_area, evidence, hp, published>> /\ SameClients

\* An evidence list that changed goes to the whole area.
ShareEvidence(a, ev) ==
    /\ evidence' = [evidence EXCEPT ![a] = ev]
    /\ stream' = send_to_area(a, Evidence(ev))

AOPacketPE(p, e) ==
    /\ Act
    /\ ShareEvidence(in_area[p], Append(evidence[in_area[p]], e))
    /\ UNCHANGED <<in_area, hp>> /\ SameChat /\ SameClients

\* The index is the one on the player's screen.
AOPacketEE(p, i, e) ==
    /\ Act
    /\ i \in DOMAIN ev_view[p]
    /\ IF i \in DOMAIN evidence[in_area[p]]
       THEN ShareEvidence(in_area[p], [evidence[in_area[p]] EXCEPT ![i] = e])
       ELSE UNCHANGED <<evidence, stream>>
    /\ UNCHANGED <<in_area, hp>> /\ SameChat /\ SameClients

AOPacketDE(p, i) ==
    /\ Act
    /\ i \in DOMAIN ev_view[p]
    /\ IF i \in DOMAIN evidence[in_area[p]]
       THEN ShareEvidence(in_area[p], RemoveAt(evidence[in_area[p]], i))
       ELSE UNCHANGED <<evidence, stream>>
    /\ UNCHANGED <<in_area, hp>> /\ SameChat /\ SameClients

AOPacketHP(p, side, v) ==
    /\ Act
    /\ hp' = [hp EXCEPT ![in_area[p]][side] = v]
    /\ stream' = send_to_area(in_area[p], Hp(side, v))
    /\ UNCHANGED <<in_area, evidence>> /\ SameChat /\ SameClients

\* AOPacketMC with an area's name.
AOPacketMC(p, a) ==
    /\ Act
    /\ in_area[p] # a
    /\ in_area' = [in_area EXCEPT ![p] = a]
    /\ stream' = [stream EXCEPT ![p] = @ \o JoinInfo(a)]
    /\ UNCHANGED <<evidence, hp>> /\ SameChat /\ SameClients

----
(* The client: a chunk arrives, and every packet it completes is handled.  *)

Chat(k) ==
    CASE k.header = <<"MS">> -> <<<<"IC", FromWireMS(k.fields)>>>>
      [] k.header = <<"CT">> -> <<<<"OOC", ao_decode(Field(k.fields, 2)), Field(k.fields, 3) = <<"1">>>>>>
      [] OTHER -> <<>>

Published(packets) == FlattenSeq([i \in DOMAIN packets |-> Chat(packets[i])])

\* The evidence list is what the last LE says.
Listed(view, packets) ==
    LET hits == {i \in DOMAIN packets : packets[i].header = <<"LE">>}
    IN  IF hits = {} THEN view ELSE packets[Max(hits)].fields

\* Each health bar is what the last HP about it says.
Bars(view, packets) ==
    [s \in DOMAIN view |->
        LET hits == {i \in DOMAIN packets : packets[i].header = <<"HP">> /\ packets[i].fields[1][1] = s}
        IN  IF hits = {} THEN view[s] ELSE packets[Max(hits)].fields[2][1]]

\* A chunk is all there is, or ends within the first packet or between the two characters of a delimiter;
\* what completes a packet comes in one piece.
Chunks(p) == IF incomplete_buf[p] = <<>> THEN {2, Len(stream[p]) - 1, Len(stream[p])} ELSE {Len(stream[p])}

on_message(p, n) ==
    /\ n \in 1..Len(stream[p])
    /\ LET buf == incomplete_buf[p] \o SubSeq(stream[p], 1, n)
           packets == Complete(buf)
       IN  /\ stream' = [stream EXCEPT ![p] = SubSeq(@, n + 1, Len(@))]
           /\ incomplete_buf' = [incomplete_buf EXCEPT ![p] = Rest(buf)]
           /\ published' = [published EXCEPT ![p] = @ \o Published(packets)]
           /\ ev_view' = [ev_view EXCEPT ![p] = Listed(@, packets)]
           /\ hp_view' = [hp_view EXCEPT ![p] = Bars(@, packets)]
    /\ UNCHANGED <<in_area, evidence, hp, meant, acts>>

WiInit ==
    /\ stream = [p \in Players |-> <<>>] /\ incomplete_buf = [p \in Players |-> <<>>]
    /\ in_area = [p \in Players |-> Lobby]
    /\ evidence = [a \in Areas |-> <<>>]
    /\ hp = [a \in Areas |-> [s \in {"1", "2"} |-> "10"]]
    /\ ev_view = [p \in Players |-> <<>>]
    /\ hp_view = [p \in Players |-> [s \in {"1", "2"} |-> "10"]]
    /\ published = [p \in Players |-> <<>>] /\ meant = [p \in Players |-> <<>>]
    /\ acts = 0

WiNext ==
    \E p \in Players :
        \/ \E t \in IcTexts, f \in {"immediate", "slide"} : AOPacketMS(p, t, f)
        \/ \E t \in OocTexts : AOPacketCT(p, t)
        \/ \E e \in EvNames : AOPacketPE(p, e)
        \/ \E e \in EvNames, i \in 1..MaxActs : AOPacketEE(p, i, e)
        \/ \E i \in 1..MaxActs : AOPacketDE(p, i)
        \/ \E s \in {"1", "2"} : AOPacketHP(p, s, "0")
        \/ \E a \in Areas : AOPacketMC(p, a)
        \/ \E n \in Chunks(p) : on_message(p, n)

WiSpec == WiInit /\ [][WiNext]_wiVars

----
(* Properties                                                              *)

\* PacketTypes.cpp, ao_encode: "special characters must be escaped in field values".  Whatever the chunks
\* a packet arrives in, every client publishes the chat it was meant to get, in order, with the text and
\* the flags the sender gave: the three positional layouts of MS agree.
RelayedIntact == \A p \in Players : IsPrefix(published[p], meant[p])

\* Once nothing is on its way to a client, its health bars are those of the area it is in, and so is its
\* evidence list, when that area has any.
ViewsConverge ==
    \A p \in Players :
        stream[p] = <<>> =>
            /\ hp_view[p] = hp[in_area[p]]
            /\ evidence[in_area[p]] # <<>> => ev_view[p] = evidence[in_area[p]]

\* What one client sends the others get, and what they show is what the area holds (broadcast_ic, send_area_join_info).
WireFaithful == RelayedIntact /\ ViewsConverge
====
