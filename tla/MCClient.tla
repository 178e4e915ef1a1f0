------------------------------- MODULE MCClient -------------------------------
(* The client, one part at a time: part says which one this behaviour         *)
(* exercises; the others stay in one of their initial states.                 *)
EXTENDS AssetCache, HttpMount, AoAssets, Playback, Music, AudioStream, AoWire, AoClient, ClientViews

CONSTANT PartsToRun

VARIABLE part

mcVars == <<acaVars, hmVars, aoaVars, pbVars, muVars, asVars, wiVars, acVars, cvVars, part>>

MCBytes == [p \in Paths |-> IF p = "bg" THEN 2 ELSE 1]

\* A server that has the newest names and formats, and one that has the oldest.
N(d, c, f) == <<d, c, f>>
MCSheets == {[number |-> n, emotes |-> s, sfx |-> [k \in {2} |-> "bang"]] : n \in {2}, s \in {{1, 2}, {2}}}
MCHostings ==
    {{<<N("background", "court", "def"), "png">>, <<N("characters", "phoenix", "(a)normal"), "gif">>,
      <<N("characters", "phoenix", "char"), "ini">>},
     {<<N("background", "court", "legacy def"), "webp">>, <<N("background", "court", "desk def"), "webp">>,
      <<N("characters", "phoenix", "normal"), "apng">>,
      <<N("themes", "default", "design"), "ini">>, <<N("themes", "theme", "fonts"), "ini">>}}

\* Messages with pauses, colours, slides, preanimations, an objection and text that continues the last.
K(t, s, sl, pre, obj, add) ==
    [text |-> t, side |-> s, slide |-> sl, pre |-> pre, immediate |-> FALSE, objection |-> obj, additive |-> add,
     own |-> FALSE, zoom |-> FALSE]
MCKinds == {K(<<"x", "\\p", "x">>, "def", FALSE, FALSE, FALSE, FALSE),
            K(<<"color", "x", "\\p">>, "wit", TRUE, TRUE, FALSE, TRUE),
            K(<<" ">>, "def", TRUE, FALSE, FALSE, FALSE),
            K(<<"{", "x">>, "wit", TRUE, FALSE, TRUE, FALSE)}
MCSlides == {<<"def", "wit">>, <<"wit", "def">>}

F(l, o, s, e) == [looping |-> l, opus |-> o, loop_start |-> s, loop_end |-> e]
Opus == {F(TRUE, TRUE, 1, 0), F(TRUE, TRUE, 1, 2), F(FALSE, TRUE, 0, 0)}

Plain == {<<"x">>}
WithHash == {<<"x", "#", "1">>}
Special == {<<"#", "%", "&">>}

TwoAreas == <<"lobby", "court">>

MCInit ==
    /\ part \in PartsToRun
    /\ AcaInit /\ HmInit /\ PbInit /\ MuInit /\ WiInit /\ AcInit /\ CvInit
    /\ AoaInit /\ (part # "ao_assets" => hosted = (CHOOSE h \in Hostings : TRUE) /\ char_ini = (CHOOSE s \in Sheets : TRUE))
    /\ AsInit /\ (part # "audio" => file = CHOOSE f \in MusicFiles : TRUE)

Others(p) ==
    /\ p # "cache" => UNCHANGED acaVars
    /\ p # "mounts" => UNCHANGED hmVars
    /\ p # "ao_assets" => UNCHANGED aoaVars
    /\ p # "playback" => UNCHANGED pbVars
    /\ p # "music" => UNCHANGED muVars
    /\ p # "audio" => UNCHANGED asVars
    /\ p # "wire" => UNCHANGED wiVars
    /\ p # "session" => UNCHANGED acVars
    /\ p \notin {"roster", "timer"} => UNCHANGED cvVars

MCNext ==
    /\ UNCHANGED part
    /\ \/ part = "cache" /\ AcaNext
       \/ part = "mounts" /\ HmNext
       \/ part = "ao_assets" /\ AoaNext
       \/ part = "playback" /\ PbNext
       \/ part = "music" /\ MuNext
       \/ part = "audio" /\ AsNext
       \/ part = "wire" /\ WiNext
       \/ part = "session" /\ AcNext
       \/ part = "roster" /\ CvRoomNext
       \/ part = "timer" /\ CvTimerNext
    /\ Others(part)

MCSpec == MCInit /\ [][MCNext]_mcVars
===============================================================================
