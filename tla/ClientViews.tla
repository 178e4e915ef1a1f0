---- MODULE ClientViews ----
(***************************************************************************)
(* What one client shows of the room: the player list, the areas and their *)
(* head counts, and a timer.  The server sends PR, PU and ARUP as players  *)
(* join, choose characters, move and leave; the client's handlers publish  *)
(* one event channel per kind, and the two front ends drain the channels   *)
(* at different times: the SDL widgets when their tab is open, the Flutter *)
(* bridge all of them at every ao_tick.  The handlers run on another       *)
(* thread, so each event taken from a channel is an action.                *)
(***************************************************************************)
EXTENDS Integers, Sequences, SequencesExt, FiniteSets

CONSTANTS
    Guests,       \* the other players
    Me,           \* the player whose client this is
    Chars,
    RoomAreas,    \* GameRoom::areas, in order; the first is the lobby
    MaxDeeds,     \* what players do after they joined
    MaxClock

VARIABLES
    \* server
    here,         \* joined sessions
    gone,         \* players who left
    char_of, area_of,
    \* in flight to the client, then in its channels
    wire,
    PlayerList, AreaUpdate, MusicList,
    \* CourtroomState, and the g_ variables of the bridge
    players, areas, area_players,
    list_step,      \* the channel handle_events is draining
    moved_quietly,  \* players whom /area_kick has moved since their last PU
    overtaken,      \* the last head counts were taken ahead of the list of areas that came before them
    deeds,
    \* a timer (TI)
    clock, timer, synced

cvRoom == <<here, gone, char_of, area_of, wire, PlayerList, AreaUpdate, MusicList, players, areas, area_players,
            list_step, moved_quietly, overtaken, deeds>>
cvTimer == <<clock, timer, synced>>
cvVars == <<cvRoom, cvTimer>>

Everyone == Guests \cup {Me}
NoChar == "none"
Unknown == -1
area_index(a) == CHOOSE i \in DOMAIN RoomAreas : RoomAreas[i] = a

----
(* Server.                                                                 *)

PR(p, add) == [kind |-> "PR", p |-> p, add |-> add]
PU(p, what, v) == [kind |-> "PU", p |-> p, what |-> what, v |-> v]

\* build_arup_fields(ARUP_PLAYERS): head counts of the joined sessions S, who are where at says.
Arup(S, at) == [kind |-> "ARUP", counts |-> [i \in DOMAIN RoomAreas |-> Cardinality({p \in S : at[p] = RoomAreas[i]})]]

\* send_player_list_snapshot: every joined session, the new one with them.
Snapshot_bare(S) == FlattenSeq([i \in DOMAIN S |-> <<PR(S[i], TRUE), PU(S[i], "area", area_index(area_of[S[i]]))>>])

Snapshot(S) ==
    FlattenSeq([i \in DOMAIN S |->
        <<PR(S[i], TRUE)>>
            \o (IF char_of[S[i]] # NoChar THEN <<PU(S[i], "character", char_of[S[i]])>> ELSE <<>>)
            \o <<PU(S[i], "area", area_index(area_of[S[i]]))>>])

SameView == UNCHANGED <<PlayerList, AreaUpdate, MusicList, players, areas, area_players, list_step, overtaken, cvTimer>>
Move == deeds < MaxDeeds /\ deeds' = deeds + 1

\* AOPacketRD.  Me gets the list of areas before (SM), and its snapshot; everyone gets the announcement.
AOPacketRD(p) ==
    /\ p \notin here \cup gone
    /\ here' = here \cup {p}
    /\ wire' = wire \o (IF p = Me THEN <<[kind |-> "SM"]>> \o Snapshot(SetToSeq(here \cup {Me})) ELSE <<>>)
                    \o <<PR(p, TRUE), PU(p, "area", area_index(area_of[p]))>>
                    \o (IF p = Me THEN <<Arup(here \cup {p}, area_of)>> ELSE <<>>) \o <<Arup(here \cup {p}, area_of)>>
    /\ UNCHANGED <<gone, char_of, area_of, moved_quietly, deeds>> /\ SameView

AOPacketCC(p, c) ==
    /\ p \in here /\ Move
    /\ \A q \in here : char_of[q] # c
    /\ char_of' = [char_of EXCEPT ![p] = c]
    /\ wire' = Append(wire, PU(p, "character", c))
    /\ UNCHANGED <<here, gone, area_of, moved_quietly>> /\ SameView

ChangeArea(p, a) ==
    /\ p \in here /\ Move /\ area_of[p] # a
    /\ LET at == [area_of EXCEPT ![p] = a]
       IN  area_of' = at /\ wire' = wire \o <<PU(p, "area", area_index(a)), Arup(here, at)>>
    /\ moved_quietly' = moved_quietly \ {p}
    /\ UNCHANGED <<here, gone, char_of>> /\ SameView

\* /area_kick: the player is in the lobby, and only the head counts are sent.
AreaKick(p) ==
    /\ p \in here /\ Move /\ area_of[p] # RoomAreas[1]
    /\ LET at == [area_of EXCEPT ![p] = RoomAreas[1]]
       IN  area_of' = at /\ wire' = Append(wire, Arup(here, at))
    /\ moved_quietly' = moved_quietly \cup {p}
    /\ UNCHANGED <<here, gone, char_of>> /\ SameView

\* on_client_disconnected: PR first, the counts once the session is destroyed.
Farewell(p) == <<PR(p, FALSE), Arup(here \ {p}, area_of)>>

on_client_disconnected(p) ==
    /\ p \in here \ {Me}
    /\ here' = here \ {p} /\ gone' = gone \cup {p}
    /\ char_of' = [char_of EXCEPT ![p] = NoChar]
    /\ UNCHANGED <<area_of, moved_quietly, deeds>> /\ SameView
    /\ wire' = wire \o Farewell(p)

----
(* Client: a packet is handled, and published.                             *)

on_packet ==
    /\ wire # <<>> /\ wire' = Tail(wire)
    /\ LET k == Head(wire)
       IN  /\ PlayerList' = IF k.kind \in {"PR", "PU"} THEN Append(PlayerList, k) ELSE PlayerList
           /\ AreaUpdate' = IF k.kind = "ARUP" THEN Append(AreaUpdate, k.counts) ELSE AreaUpdate
           /\ MusicList' = IF k.kind = "SM" THEN Append(MusicList, RoomAreas) ELSE MusicList
    /\ UNCHANGED <<here, gone, char_of, area_of, players, areas, area_players, list_step, moved_quietly, overtaken, deeds,
                   cvTimer>>

NewPlayer == [character |-> NoChar, area |-> Unknown]

\* An update of a player who is not in the list adds it (operator[] of the map).
Shown(view, k) ==
    LET old == IF k.p \in DOMAIN view THEN view[k.p] ELSE NewPlayer
        Set(r) == [q \in DOMAIN view \cup {k.p} |-> IF q = k.p THEN r ELSE view[q]]
    IN  CASE k.kind = "PR" /\ k.add -> Set(NewPlayer)
          [] k.kind = "PR" /\ ~k.add -> [q \in DOMAIN view \ {k.p} |-> view[q]]
          [] OTHER -> Set([old EXCEPT ![k.what] = k.v])

SameRoom == UNCHANGED <<here, gone, char_of, area_of, wire, moved_quietly, deeds, cvTimer>>

PlayersTab ==
    /\ PlayerList # <<>> /\ players' = Shown(players, Head(PlayerList)) /\ PlayerList' = Tail(PlayerList)
    /\ UNCHANGED <<AreaUpdate, MusicList, areas, area_players, list_step, overtaken>> /\ SameRoom

\* handle_events takes the lists of areas first, then the head counts.  A new list forgets the counts.
TakeList ==
    /\ list_step = "lists"
    /\ IF MusicList = <<>> THEN list_step' = "counts" /\ UNCHANGED <<MusicList, areas, area_players>>
       ELSE /\ areas' = Head(MusicList) /\ area_players' = [i \in DOMAIN areas' |-> Unknown]
            /\ MusicList' = Tail(MusicList) /\ UNCHANGED list_step
    /\ UNCHANGED <<PlayerList, AreaUpdate, players, overtaken>> /\ SameRoom

\* Counts are for the areas there are.
Counted(counts, c) == [i \in DOMAIN counts |-> IF i \in DOMAIN c THEN c[i] ELSE counts[i]]

TakeCounts ==
    /\ list_step = "counts"
    /\ IF AreaUpdate = <<>> THEN list_step' = "lists" /\ UNCHANGED <<AreaUpdate, area_players, overtaken>>
       ELSE /\ area_players' = Counted(area_players, Head(AreaUpdate)) /\ AreaUpdate' = Tail(AreaUpdate)
            /\ overtaken' = (MusicList # <<>>) /\ UNCHANGED list_step
    /\ UNCHANGED <<PlayerList, MusicList, players, areas>> /\ SameRoom

MusicTab == TakeList \/ TakeCounts

\* The Flutter client's tick drains the same channels in the same order.
ao_tick == MusicTab \/ PlayersTab

----
(* Timers.  synced is what the last TI said: a reading of the clock, the   *)
(* time left then, and whether the timer runs.                             *)

Elapse == clock < MaxClock /\ clock' = clock + 1 /\ UNCHANGED <<timer, synced, cvRoom>>

TimerEvent(action, ms) ==
    /\ timer' = CASE action = 0 /\ ms < 0 -> [timer EXCEPT !.running = FALSE, !.remaining_ms = 0]
                  [] action = 0 /\ ms >= 0 -> [timer EXCEPT !.remaining_ms = ms, !.running = TRUE, !.last_tick = clock]
                  [] action = 1 -> [timer EXCEPT !.running = FALSE, !.remaining_ms = ms]
                  [] action = 2 -> [timer EXCEPT !.visible = TRUE]
                  [] action = 3 -> [timer EXCEPT !.visible = FALSE]
    /\ synced' = IF action \in {0, 1} THEN [at |-> clock, ms |-> IF ms < 0 THEN 0 ELSE ms, runs |-> action = 0 /\ ms >= 0]
                 ELSE synced
    /\ UNCHANGED <<clock, cvRoom>>

NonNeg(n) == IF n < 0 THEN 0 ELSE n

\* Only a visible timer is ticked (TimerWidget::render); what it missed comes off when it is shown again.
Ticked(t) ==
    IF ~t.visible \/ ~t.running THEN t
    ELSE [t EXCEPT !.last_tick = clock, !.remaining_ms = NonNeg(@ - (clock - t.last_tick))]

\* The Flutter client ticks every running timer at each ao_tick.
tick_timers ==
    /\ timer.running /\ timer.last_tick # clock
    /\ timer' = [timer EXCEPT !.last_tick = clock, !.remaining_ms = NonNeg(@ - (clock - timer.last_tick))]
    /\ UNCHANGED <<clock, synced, cvRoom>>

RenderTimer == timer' = Ticked(timer) /\ timer' # timer /\ UNCHANGED <<clock, synced, cvRoom>>

CvInit ==
    /\ here = {} /\ gone = {} /\ char_of = [p \in Everyone |-> NoChar] /\ area_of = [p \in Everyone |-> RoomAreas[1]]
    /\ wire = <<>> /\ PlayerList = <<>> /\ AreaUpdate = <<>> /\ MusicList = <<>>
    /\ players = [p \in {} |-> NewPlayer] /\ areas = <<>> /\ area_players = <<>> /\ list_step = "lists"
    /\ moved_quietly = {} /\ overtaken = FALSE /\ deeds = 0
    /\ clock = 0 /\ timer = [visible |-> FALSE, running |-> FALSE, remaining_ms |-> 0, last_tick |-> 0]
    /\ synced = [at |-> 0, ms |-> 0, runs |-> FALSE]

CvRoomNext ==
    \/ \E p \in Everyone :
          \/ AOPacketRD(p) \/ AreaKick(p) \/ on_client_disconnected(p)
          \/ \E c \in Chars : AOPacketCC(p, c)
          \/ \E a \in ToSet(RoomAreas) : ChangeArea(p, a)
    \/ on_packet \/ ao_tick

CvTimerNext ==
    \/ Elapse \/ RenderTimer \/ tick_timers
    \/ \E action \in 0..3, ms \in {Unknown, 0, 2} : TimerEvent(action, ms)

----
(* Properties                                                              *)

Settled == Me \in here /\ wire = <<>> /\ PlayerList = <<>> /\ AreaUpdate = <<>> /\ MusicList = <<>>

\* AOServer's announcements and the client's lists: whatever the order of joins, choices, moves and departures
\* and whenever the channels are drained, once nothing is in flight the client lists exactly the players who are
\* there, with their characters, their areas (but for those moved by /area_kick) and the head count of each area,
\* unless a list of areas came between the two loops of handle_events: the counts that follow it are then lost.
RosterConverges ==
    Settled =>
        /\ DOMAIN players = here
        /\ \A p \in here : players[p].character = char_of[p]
        /\ \A p \in here \ moved_quietly : players[p].area = area_index(area_of[p])
        /\ ~overtaken => area_players = [i \in DOMAIN RoomAreas |-> Cardinality({p \in here : area_of[p] = RoomAreas[i]})]

\* TimerWidget: a timer that is shown and has just been drawn shows what is left of the time the server
\* gave, however long it was hidden.
TimerExact ==
    timer.visible /\ timer.running /\ timer.last_tick = clock =>
        timer.remaining_ms = NonNeg(synced.ms - (clock - synced.at))

\* The lists and the timer a client shows are the server's, once nothing is in flight (ao_tick, the widgets).
ViewsRight == RosterConverges /\ TimerExact
====
