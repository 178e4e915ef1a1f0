---- MODULE Music ----
(***************************************************************************)
(* Which music the client plays: AOMusicPlayer on the game thread turns    *)
(* the server's music changes into requests, AudioThread carries them out  *)
(* on the device.  Requests and stops travel on two channels, and the      *)
(* audio thread drains all requests before the stops.  Music changes that  *)
(* come while no courtroom is on screen are buffered.  "~stop.mp3" and the *)
(* empty track are Stop.  A Session that ends stops both music channels.   *)
(* Every loop over a channel is one action for each event it takes, so the *)
(* threads interleave as they do.                                          *)
(***************************************************************************)
EXTENDS Integers, Sequences

CONSTANTS
    Tracks,
    Stop,
    Silence,
    MaxChanges,   \* music changes received
    MaxScreens    \* times the courtroom is left

VARIABLES
    music_ch,           \* MusicChangeEvent: [track, channel]
    req_ch,             \* PlayMusicRequestEvent
    stop_ch,            \* StopAudioEvent, of type MUSIC
    courtroom_active,
    player,             \* AOMusicPlayer: pending_track_, pending_channel_, was_active_
    tick,               \* AOMusicPlayer::tick is "off", or running with courtroom_active as it found it
    audio_step,         \* where the audio loop is
    device,             \* what each device channel plays
    server_track,       \* what the server last announced
    changes,
    screens

muVars == <<music_ch, req_ch, stop_ch, courtroom_active, player, tick, audio_step, device, server_track, changes, screens>>

Outputs == {0, 1}        \* CH_MUSIC, CH_AMBIENCE

MuInit ==
    /\ music_ch = <<>> /\ req_ch = <<>> /\ stop_ch = <<>>
    /\ courtroom_active = FALSE
    /\ player = [pending |-> [track |-> Stop, channel |-> 0], was_active |-> FALSE]
    /\ tick = "off" /\ audio_step = "requests"
    /\ device = [c \in Outputs |-> Silence]
    /\ server_track = [track |-> Stop, channel |-> 0]
    /\ changes = 0 /\ screens = 0

\* AOPacketMC::handle, on the network thread.
ReceiveMC(track, channel) ==
    /\ changes < MaxChanges
    /\ changes' = changes + 1
    /\ server_track' = [track |-> track, channel |-> channel]
    /\ music_ch' = Append(music_ch, server_track')
    /\ UNCHANGED <<req_ch, stop_ch, courtroom_active, player, tick, audio_step, device, screens>>

\* CourtroomController: the character is loaded; the screen is left; the session ends with it.
EnterCourtroom ==
    /\ ~courtroom_active
    /\ courtroom_active' = TRUE
    /\ UNCHANGED <<music_ch, req_ch, stop_ch, player, tick, audio_step, device, server_track, changes, screens>>

LeaveCourtroom(session_ends) ==
    /\ courtroom_active /\ screens < MaxScreens
    /\ courtroom_active' = FALSE
    /\ screens' = screens + 1
    /\ stop_ch' = IF session_ends THEN stop_ch \o <<0, 1>> ELSE stop_ch
    /\ UNCHANGED <<music_ch, req_ch, player, tick, audio_step, device, server_track, changes>>

----
\* AOMusicPlayer::tick.
Real(ev) == ev.track # Stop

TickStart ==
    /\ tick = "off"
    /\ tick' = IF courtroom_active THEN "active" ELSE "inactive"
    /\ UNCHANGED <<music_ch, req_ch, stop_ch, courtroom_active, player, audio_step, device, server_track, changes, screens>>

Latest_first(ev) == IF Real(player.pending) THEN player.pending ELSE ev

Latest(ev) == ev

TickEvent ==
    /\ tick # "off" /\ music_ch # <<>>
    /\ LET ev == Head(music_ch)
       IN  /\ player' = [player EXCEPT !.pending = Latest(ev)]
           /\ req_ch' = IF tick = "active" /\ Real(ev) THEN Append(req_ch, ev) ELSE req_ch
           /\ stop_ch' = IF tick = "active" /\ ~Real(ev) THEN Append(stop_ch, ev.channel) ELSE stop_ch
    /\ music_ch' = Tail(music_ch)
    /\ UNCHANGED <<courtroom_active, tick, audio_step, device, server_track, changes, screens>>

\* The courtroom has just come on screen: the pending music starts.
TickEnd ==
    /\ tick # "off" /\ music_ch = <<>>
    /\ tick' = "off"
    /\ player' = [player EXCEPT !.was_active = (tick = "active")]
    /\ req_ch' = IF tick = "active" /\ ~player.was_active /\ Real(player.pending) THEN Append(req_ch, player.pending) ELSE req_ch
    /\ UNCHANGED <<music_ch, stop_ch, courtroom_active, audio_step, device, server_track, changes, screens>>

\* AudioThread::audio_loop: a request stops its channel and starts a new stream on it; the stops come after the requests.
DrainRequests ==
    /\ audio_step = "requests"
    /\ IF req_ch = <<>> THEN audio_step' = "stops" /\ UNCHANGED <<device, req_ch>>
       ELSE /\ device' = [device EXCEPT ![Head(req_ch).channel] = Head(req_ch).track]
            /\ req_ch' = Tail(req_ch)
            /\ UNCHANGED audio_step
    /\ UNCHANGED <<music_ch, stop_ch, courtroom_active, player, tick, server_track, changes, screens>>

DrainStops ==
    /\ audio_step = "stops"
    /\ IF stop_ch = <<>> THEN audio_step' = "requests" /\ UNCHANGED <<device, stop_ch>>
       ELSE /\ device' = [device EXCEPT ![Head(stop_ch)] = Silence]
            /\ stop_ch' = Tail(stop_ch)
            /\ UNCHANGED audio_step
    /\ UNCHANGED <<music_ch, req_ch, courtroom_active, player, tick, server_track, changes, screens>>

MuNext ==
    \/ \E t \in Tracks \union {Stop}, c \in Outputs : ReceiveMC(t, c)
    \/ EnterCourtroom
    \/ \E e \in BOOLEAN : LeaveCourtroom(e)
    \/ TickStart \/ TickEvent \/ TickEnd
    \/ DrainRequests
    \/ DrainStops

MuSpec == MuInit /\ [][MuNext]_muVars

----
(* Properties                                                              *)

Quiescent == tick = "off" /\ music_ch = <<>> /\ req_ch = <<>> /\ stop_ch = <<>> /\ player.was_active = courtroom_active

\* AOMusicPlayer.cpp "Always store the latest music state": with the courtroom on screen and nothing in
\* flight, the channel of the last track never plays an older one, though changes came while the screen
\* was away and requests and stops overtake each other.  It may be silent, if a stop overtook the request.
OnlyTheLatestTrack ==
    Quiescent /\ courtroom_active /\ Real(server_track)
        => device[server_track.channel] \in {server_track.track, Silence}

====
