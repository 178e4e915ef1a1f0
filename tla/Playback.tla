---- MODULE Playback ----
(***************************************************************************)
(* The courtroom scene of the desktop client: AOCourtroomPresenter with    *)
(* its ICMessageQueue, AOMessagePlayer, AOEmotePlayer, AOTextBox,          *)
(* AOTextProcessor and SlideEffect.  The network thread publishes IC       *)
(* messages and background changes on two event channels; the game thread  *)
(* drains them once per tick, the backgrounds first.  A tick is two steps, *)
(* because the network thread may publish between the two drains.  How     *)
(* much time a tick lasts is a choice: which timers run out, and how many  *)
(* characters appear.                                                      *)
(***************************************************************************)
EXTENDS Integers, Sequences, SequencesExt, FiniteSets

CONSTANTS
    Kinds,       \* the IC messages that may arrive
    Slides,      \* pairs of positions with a slide duration in design.ini
    own_slide_enabled,
    MaxMsgs,     \* IC messages published
    MaxMoves,    \* background changes published
    MaxPerTick   \* characters a tick may reveal

ASSUME PlaybackAssumption ==
    /\ Kinds \subseteq [text : Seq(STRING), side : STRING, slide : BOOLEAN, pre : BOOLEAN, immediate : BOOLEAN,
                      objection : BOOLEAN, additive : BOOLEAN, own : BOOLEAN, zoom : BOOLEAN]
    /\ own_slide_enabled \in BOOLEAN /\ MaxPerTick \in Nat

VARIABLES
    ic_ch,      \* the ICMessageEvent channel
    bg_ch,      \* the BackgroundEvent channel: positions
    draining,   \* the game thread is between the two drains of a tick
    pr,         \* the presenter: queue, active_ic_, slide, text box
    arrived,       \* every message published, in order
    moves,
    played,     \* the messages handed to play_message, in order
    wiped       \* the messages dropped by a background change

pbVars == <<ic_ch, bg_ch, draining, pr, arrived, moves, played, wiped>>

Clocks == [linger : BOOLEAN, anim : BOOLEAN, slide : BOOLEAN, chars : 0..MaxPerTick]

is_objection(m) == m.objection

blank(raw) == \A i \in DOMAIN raw : raw[i] = " "

----
(* AOTextProcessor::process over a text cut into its markup tokens.  One    *)
(* colour, the toggle "color", stands for chat_config.ini; -1 is the base. *)

Marked(p, type, c) == [p EXCEPT !.events = Append(@, [char_index |-> Len(p.display), type |-> type, color |-> c])]

Token(p, t) ==
    CASE t = "\\p" -> Marked(p, "PAUSE", 0)
      [] t = "\\s" -> Marked(p, "SCREENSHAKE", 0)
      [] t = "{"   -> Marked(p, "SPEED_DOWN", 0)
      [] t = "}"   -> Marked(p, "SPEED_UP", 0)
      [] t = "color"   -> [Marked(p, "COLOR_CHANGE", IF p.inline = 1 THEN -1 ELSE 1) EXCEPT !.inline = -@]
      [] OTHER     -> [p EXCEPT !.display = Append(@, t)]

process(raw) ==
    LET after[i \in 0..Len(raw)] ==
            IF i = 0 THEN [display |-> <<>>, events |-> <<>>, inline |-> -1] ELSE Token(after[i - 1], raw[i])
    IN  after[Len(raw)]

(* AOTextBox.  "of" is the message the box was started for, 0 for none.     *)

EmptyBox == [of |-> 0, previous |-> <<>>, current |-> <<>>, events |-> <<>>, next_event |-> 1,
             pausing |-> FALSE, chars_visible |-> 0, state |-> "INACTIVE"]

start_message(b, of, raw, additive) ==
    LET p == process(raw)
    IN  [of |-> of,
         previous |-> IF additive THEN b.previous \o b.current ELSE <<>>,
         current |-> p.display, events |-> p.events, next_event |-> 1, pausing |-> FALSE, chars_visible |-> 0,
         state |-> IF blank(raw) THEN "INACTIVE" ELSE IF p.display # <<>> THEN "TICKING" ELSE "DONE"]

ClearedBox(b) == start_message(b, 0, <<>>, FALSE)

\* One more character: its events up to the first pause, which leaves both loops.
Reveal(b) ==
    LET n == b.chars_visible + 1
        due == {i \in b.next_event..Len(b.events) : b.events[i].char_index <= n}
        pauses == {i \in due : b.events[i].type = "PAUSE"}
        last == IF pauses # {} THEN Min(pauses) ELSE Max(due \union {b.next_event - 1})
    IN  [b EXCEPT !.chars_visible = n, !.next_event = last + 1, !.pausing = (pauses # {}),
                  !.state = IF pauses = {} /\ n >= Len(b.current) THEN "DONE" ELSE @]

\* update_text: characters appear until a pause or the end.
Unfinished(b) == b.state = "TICKING" /\ ~b.pausing /\ b.chars_visible < Len(b.current)

Revealed(b, n) ==
    LET after[i \in 0..n] ==
            IF i = 0 THEN b ELSE IF Unfinished(after[i - 1]) THEN Reveal(after[i - 1]) ELSE after[i - 1]
    IN  after[n]

text_tick(b, clock) ==
    IF b.state # "TICKING" THEN b
    ELSE IF b.pausing THEN [b EXCEPT !.pausing = ~clock.linger]
    ELSE Revealed(b, clock.chars)

----
(* ICMessageQueue.  A queue record holds queue_, playing_ and ready_; the   *)
(* linger timer is the clock's choice.                                      *)

EmptyQueue == [queue |-> <<>>, playing |-> FALSE, ready |-> FALSE]

enqueue(q, m) ==
    IF is_objection(m) THEN [queue |-> <<m>>, playing |-> FALSE, ready |-> TRUE]
    ELSE [q EXCEPT !.queue = Append(@, m), !.ready = @ \/ ~q.playing]

\* Everything on the channel is queued, in order.
EnqueueAll(q, ms) ==
    LET after[i \in 0..Len(ms)] == IF i = 0 THEN q ELSE enqueue(after[i - 1], ms[i])
    IN  after[Len(ms)]

queue_tick(q, clock, done) ==
    IF q.playing /\ q.queue # <<>> /\ done /\ clock.linger
    THEN [q EXCEPT !.playing = FALSE, !.ready = TRUE]
    ELSE q

HasNext(q) == q.ready /\ q.queue # <<>>
TakeNext(q) == [queue |-> Tail(q.queue), playing |-> TRUE, ready |-> FALSE]

----
(* SlideEffect: PRE_DELAY, SLIDING, POST_DELAY, each ended by the clock.    *)

slide_tick(phase, clock) ==
    IF ~clock.slide THEN phase
    ELSE CASE phase = "PRE_DELAY" -> "SLIDING"
           [] phase = "SLIDING"   -> "POST_DELAY"
           [] OTHER               -> "INACTIVE"

needs_departing_scene(phase) == phase \in {"PRE_DELAY", "SLIDING"}

----
(* AOMessagePlayer::play and AOCourtroomPresenter::play_message.            *)

emote_start(m) == IF blank(m.text) THEN "IDLE" ELSE IF m.pre THEN "PREANIM" ELSE "TALKING"

should_slide(p, m) ==
    /\ p.active # <<>>
    /\ m.slide \/ (own_slide_enabled /\ m.own)
    /\ ~m.zoom
    /\ <<p.active[1].side, m.side>> \in Slides

\* AOMessagePlayer::play: a preanimation that is not immediate holds the text back.
Blocking(m) == emote_start(m) = "PREANIM" /\ ~m.immediate
play(box, m) == IF Blocking(m) THEN ClearedBox(box) ELSE start_message(box, m.id, m.text, m.additive)

\* A slide takes precedence: the text waits for its end instead.
play_message(p, m) ==
    LET slides == should_slide(p, m)
        pending == slides /\ m.text # <<>>
    IN  [p EXCEPT
           !.active = <<[id |-> m.id, side |-> m.side, text |-> m.text, additive |-> m.additive,
                         emote |-> emote_start(m), preanim_blocking |-> Blocking(m) /\ ~pending, slide_pending |-> pending]>>,
           !.departing = slides,
           !.slide = IF slides THEN "PRE_DELAY" ELSE @,
           !.position = m.side,
           !.box = IF pending THEN ClearedBox(p.box) ELSE play(p.box, m)]

----
(* AOCourtroomPresenter::tick, in the order of its sections.                *)

text_done_early(p) == p.box.state \in {"DONE", "INACTIVE"}

text_done(p) ==
    /\ p.active # <<>> => ~p.active[1].preanim_blocking /\ ~p.active[1].slide_pending
    /\ p.box.state \in {"DONE", "INACTIVE"}

Advanced(p, clock) ==
    LET q == queue_tick(p.mq, clock, text_done(p))
    IN  IF HasNext(q) THEN [play_message(p, Head(q.queue)) EXCEPT !.mq = TakeNext(q)] ELSE [p EXCEPT !.mq = q]

StartText(p) ==
    LET a == p.active[1] IN start_message(p.box, a.id, a.text, a.additive)

Animated(p, clock) ==
    IF p.active = <<>> THEN p
    ELSE LET a == p.active[1]
             emote == IF a.emote = "PREANIM" /\ clock.anim THEN "TALKING" ELSE a.emote
             starts == a.preanim_blocking /\ a.emote = "PREANIM" /\ emote = "TALKING"
             box == IF starts THEN StartText(p) ELSE p.box
         IN  [p EXCEPT !.box = box,
                       !.active = <<[a EXCEPT !.preanim_blocking = @ /\ ~starts,
                                              !.emote = IF box.state = "DONE" /\ emote = "TALKING" THEN "IDLE" ELSE emote]>>]

Panned(p, clock) ==
    LET phase == slide_tick(p.slide, clock)
        ended == p.departing /\ ~needs_departing_scene(phase)
        frees == ended /\ p.active # <<>> /\ p.active[1].slide_pending
        chains == frees /\ p.active[1].emote = "PREANIM"
    IN  [p EXCEPT !.slide = phase, !.departing = @ /\ ~ended,
                  !.active = IF frees THEN <<[p.active[1] EXCEPT !.slide_pending = FALSE, !.preanim_blocking = chains]>>
                             ELSE @,
                  !.box = IF frees /\ ~chains THEN StartText(p) ELSE @]

----
EmptyScene == [mq |-> EmptyQueue, active |-> <<>>, departing |-> FALSE, slide |-> "INACTIVE",
          box |-> EmptyBox, position |-> ""]

PbInit ==
    /\ ic_ch = <<>> /\ bg_ch = <<>> /\ draining = FALSE
    /\ pr = EmptyScene
    /\ arrived = <<>> /\ moves = 0 /\ played = <<>> /\ wiped = {}

\* The n-th message to arrive, of kind k.
Numbered(n, k) ==
    [id |-> n, text |-> k.text, side |-> k.side, slide |-> k.slide, pre |-> k.pre, immediate |-> k.immediate,
     objection |-> k.objection, additive |-> k.additive, own |-> k.own, zoom |-> k.zoom]

\* The network thread: an IC message, and a new background (BN, or an area change).
PublishIC(k) ==
    /\ Len(arrived) < MaxMsgs
    /\ LET m == Numbered(Len(arrived) + 1, k)
       IN  arrived' = Append(arrived, m) /\ ic_ch' = Append(ic_ch, m)
    /\ UNCHANGED <<bg_ch, draining, pr, moves, played, wiped>>

PublishBG(pos) ==
    /\ moves < MaxMoves
    /\ moves' = moves + 1
    /\ bg_ch' = Append(bg_ch, pos)
    /\ UNCHANGED <<ic_ch, draining, pr, arrived, played, wiped>>

\* Every effect is stopped, the slide too.
AreaChanged_keeps(p, pos) ==
    [EmptyScene EXCEPT !.box = ClearedBox(p.box), !.position = pos, !.active = p.active]

AreaChanged(p, pos) ==
    [EmptyScene EXCEPT !.box = ClearedBox(p.box), !.position = IF pos = "" THEN p.position ELSE pos]

ChangeAreas(p, moved) ==
    LET after[i \in 0..Len(moved)] == IF i = 0 THEN p ELSE AreaChanged(after[i - 1], moved[i])
    IN  after[Len(moved)]

DrainBackgrounds ==
    /\ ~draining
    /\ draining' = TRUE
    /\ bg_ch' = <<>>
    /\ pr' = ChangeAreas(pr, bg_ch)
    /\ wiped' = wiped \union (IF bg_ch = <<>> THEN {} ELSE {m.id : m \in ToSet(pr.mq.queue)})
    /\ UNCHANGED <<ic_ch, arrived, moves, played>>

RestOfTick(clock) ==
    /\ draining
    /\ draining' = FALSE
    /\ ic_ch' = <<>>
    /\ LET drained == [pr EXCEPT !.mq = EnqueueAll(pr.mq, ic_ch)]
           advanced == Advanced(drained, clock)
           animated == Animated(advanced, clock)
       IN  /\ pr' = Panned([animated EXCEPT !.box = text_tick(animated.box, clock)], clock)
           /\ played' = IF advanced.active # <<>> /\ advanced.active[1].id # Last(<<0>> \o played)
                        THEN Append(played, advanced.active[1].id) ELSE played
    /\ UNCHANGED <<bg_ch, arrived, moves, wiped>>

PbNext ==
    \/ \E k \in Kinds : PublishIC(k)
    \/ \E pos \in {"", "def"} : PublishBG(pos)
    \/ DrainBackgrounds
    \/ \E clock \in Clocks : RestOfTick(clock)

PbSpec == PbInit /\ [][PbNext]_pbVars

----
(* Properties                                                              *)

\* ICMessageQueue::enqueue: messages play in the order they came.  One that came before a played
\* one and was not played itself was cut by a later objection, or cleared by a background change.
PlayedInOrder ==
    LET ids == ToSet(played)
    IN  /\ \A i, j \in DOMAIN played : i < j => played[i] < played[j]
        /\ \A i \in 1..Last(<<0>> \o played) :
              i \in ids \union wiped \/ \E j \in i+1..Len(arrived) : arrived[j].objection

\* AOCourtroomPresenter::tick: a message takes the scene from an earlier one only after that one's whole
\* text was on screen, however a slide and a preanimation delayed it; an objection need not wait.
TextShownBeforeNext ==
    [][\A a \in ToSet(pr.active), b \in ToSet(pr'.active) :
          b.id # a.id /\ ~arrived[b.id].objection /\ ~blank(a.text)
             => pr.box.of = a.id /\ pr.box.chars_visible = Len(pr.box.current)]_pbVars

\* A message whose text is held back always has what will release it: a slide still running, with the
\* departing scene whose removal starts the text, or a preanimation still playing.
HeldTextWillStart ==
    \A a \in ToSet(pr.active) :
        /\ a.slide_pending => pr.departing /\ needs_departing_scene(pr.slide)
        /\ a.preanim_blocking => a.emote = "PREANIM"

\* Messages play in order and none waits for something that will not come (ICMessageQueue, AOCourtroomPresenter::tick).
PlaybackSound == PlayedInOrder /\ HeldTextWillStart
====
