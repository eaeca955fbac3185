-------------------------------- MODULE Stories --------------------------------
(* What moves on the landing page only while it is seen: a story (useStory in    *)
(* components/landing/Features.tsx, shown here with the mainnet map's draw), a   *)
(* pixel field (components/fx/PixelField.tsx), and what is done once: the fade   *)
(* of a section (lib/reveal.ts) and the fetch of the map's land.                 *)
(*                                                                               *)
(* A loop is a chain of animation frames: each callback asks for the next.  What *)
(* an IntersectionObserver has seen arrives later, in a task; several sightings  *)
(* may wait in it, and the loops read the first of them only.                    *)
(*                                                                               *)
(* Story time is in whole units, at the speed the arrivals are replayed at.      *)
EXTENDS Integers, Sequences, FiniteSets, FiniteSetsExt

CONSTANTS Arrivals,          \* of each site, in order of arrival: [ms, observers]
          LEAD, HOLD, RESET, \* the pauses around the replay of the map's story
          OFFSET             \* how long a story waits after it comes into view

ASSUME StoryAssumption ==
    /\ Arrivals # <<>> /\ Arrivals \in Seq([ms : Nat, observers : Nat])
    /\ \A i, j \in DOMAIN Arrivals : i <= j => Arrivals[i].ms <= Arrivals[j].ms
    /\ {LEAD, HOLD, RESET, OFFSET} \subseteq Nat \ {0}

Loops == {"story", "field"}

VARIABLES up,       \* the page is mounted
          reduced,  \* reduced motion, as read at mount
          on_screen,\* how much of them is on screen: "none", "edge" (10 %) or "full" (30 %)
          loop,     \* of each loop: [on, pending, raf, sightings, stale]; history: stale, where the
                    \* newest of the sightings that came together last is not the one that was read
          clock,    \* the story's elapsed time, from -OFFSET
          shown,    \* what the map shows
          once      \* [faded, fading, land, near]: the section's fade, the land's fetch

storyVars == <<up, reduced, on_screen, loop, clock, shown, once>>

-------------------------------------------------------------------------------
\* The map's story.
FIRST_MS == Arrivals[1].ms

LAST_MS == Arrivals[Len(Arrivals)].ms

PLAY == LAST_MS - FIRST_MS

MAP_LOOP == LEAD + PLAY + HOLD + RESET

\* The slot's time on screen at a story time, -1 while nothing is lit.
MsAt(t) ==
    LET p == (t % MAP_LOOP) - LEAD
    IN  IF p < 0 \/ p > PLAY + HOLD THEN -1
        ELSE IF p > PLAY THEN LAST_MS ELSE FIRST_MS + p

\* drawMap: the sites lit, and the observers at them.
DrawMap(t) ==
    LET lit == {i \in DOMAIN Arrivals : Arrivals[i].ms <= MsAt(t)}
    IN  [ms |-> MsAt(t), lit |-> lit, observers |-> MapThenSumSet(LAMBDA i : Arrivals[i].observers, lit)]

STILL == MAP_LOOP - RESET - 1

-------------------------------------------------------------------------------
\* A chain of animation frames; its callbacks are told apart by number.
Request(l) ==
    LET id == CHOOSE n \in 1..2 : n \notin l.pending
    IN  [l EXCEPT !.pending = @ \cup {id}, !.raf = id]

Start(l) == Request([l EXCEPT !.on = TRUE])

\* Slip: the loop is marked as stopped, its frame still runs.
StopLater(l) == [l EXCEPT !.on = FALSE]

Stop(l) == [l EXCEPT !.on = FALSE, !.pending = @ \ {l.raf}]

Fresh == [on |-> FALSE, pending |-> {}, raf |-> 0, sightings |-> <<>>, stale |-> FALSE]

\* The server's markup is the finished frame.
StoryInit ==
    /\ up = FALSE /\ reduced \in BOOLEAN
    /\ on_screen \in {"none", "edge", "full"}
    /\ loop = [k \in Loops |-> Fresh]
    /\ clock = -OFFSET /\ shown = DrawMap(STILL)
    /\ once = [faded |-> FALSE, fading |-> <<>>, land |-> "none", near |-> FALSE]

InView(k) == on_screen = "full" \/ (k = "field" /\ on_screen = "edge")

\* The observers report where they start; with reduced motion the story has none.
Mount ==
    /\ ~up /\ up' = TRUE
    /\ loop' = [k \in Loops |-> [Fresh EXCEPT !.sightings =
                                   IF k = "story" /\ reduced THEN <<>> ELSE <<InView(k)>>]]
    /\ shown' = DrawMap(STILL) /\ clock' = -OFFSET
    /\ once' = [once EXCEPT !.fading = IF once.faded THEN <<>> ELSE <<on_screen = "full">>,
                            !.near = FALSE]
    /\ UNCHANGED <<reduced, on_screen>>

\* The effects' cleanups; the land that is on its way is not to be shown any more.
Unmount ==
    /\ up /\ up' = FALSE
    /\ loop' = [k \in Loops |-> [Stop(loop[k]) EXCEPT !.sightings = <<>>]]
    /\ once' = [once EXCEPT !.fading = <<>>, !.land = "none"]
    /\ UNCHANGED <<reduced, on_screen, clock, shown>>

\* The viewer scrolls; each observer notes the change for itself.
Scroll ==
    /\ on_screen' \in {"none", "edge", "full"} \ {on_screen}
    /\ \A k \in Loops : Len(loop[k].sightings) < 2
    /\ Len(once.fading) < 2
    /\ loop' = [k \in Loops |->
                  IF up /\ ~(k = "story" /\ reduced) /\ InView(k)' # InView(k)
                  THEN [loop[k] EXCEPT !.sightings = Append(@, InView(k)')] ELSE loop[k]]
    /\ once' = [once EXCEPT !.fading = IF up /\ ~once.faded THEN Append(@, on_screen' = "full") ELSE @]
    /\ UNCHANGED <<up, reduced, clock, shown>>

\* An observer's callback reads the first of the sightings that have come together, the oldest.
Told(l) == [l EXCEPT !.sightings = <<>>, !.stale = l.sightings[Len(l.sightings)] # Head(l.sightings)]

\* useStory's observer: it starts the story from its offset, or stops it on its finished frame.
TellStory ==
    LET l == loop["story"] IN
    /\ l.sightings # <<>>
    /\ LET seen == Head(l.sightings)
           told == Told(l)
       IN  IF seen = l.on
           THEN loop' = [loop EXCEPT !["story"] = told] /\ UNCHANGED <<clock, shown>>
           ELSE /\ loop' = [loop EXCEPT !["story"] = IF seen THEN Start(told) ELSE Stop(told)]
                /\ clock' = IF seen THEN -OFFSET ELSE clock
                /\ shown' = IF seen THEN shown ELSE DrawMap(STILL)
    /\ UNCHANGED <<up, reduced, on_screen, once>>

\* PixelField's: a field that runs is not started again, and a still one never.
TellField ==
    LET l    == loop["field"]
        told == Told(l)
    IN  /\ l.sightings # <<>>
        /\ loop' = [loop EXCEPT !["field"] =
                      IF ~Head(l.sightings) THEN Stop(told)
                      ELSE IF told.on \/ reduced THEN told ELSE Start(told)]
        /\ UNCHANGED <<up, reduced, on_screen, clock, shown, once>>

\* One callback of the chain of k runs and asks for the next.
Ran(k) ==
    \E id \in loop[k].pending :
        loop' = [loop EXCEPT ![k] = Request([loop[k] EXCEPT !.pending = @ \ {id}])]

FieldFrame == Ran("field") /\ UNCHANGED <<up, reduced, on_screen, clock, shown, once>>

\* The story's callback: a long frame counts as a short one, so the time goes on by one unit.
StoryFrame ==
    LET t == IF clock + 1 = MAP_LOOP THEN 0 ELSE clock + 1
    IN  /\ Ran("story")
        /\ clock' = t
        /\ shown' = DrawMap(IF t < 0 THEN STILL ELSE t)
        /\ UNCHANGED <<up, reduced, on_screen, once>>

\* attachReveal's observer looks at every sighting; a section that was seen is let go.
Fade ==
    /\ once.fading # <<>>
    /\ once' = [once EXCEPT !.faded = @ \/ \E i \in DOMAIN once.fading : once.fading[i], !.fading = <<>>]
    /\ UNCHANGED <<up, reduced, on_screen, loop, clock, shown>>

\* The map comes near: its observer lets go and the land is fetched.
AskLand ==
    /\ up /\ ~once.near
    /\ once' = [once EXCEPT !.near = TRUE, !.land = "asked"]
    /\ UNCHANGED <<up, reduced, on_screen, loop, clock, shown>>

\* The answer; a land that cannot be had is left out.
LandArrives ==
    /\ once.land = "asked"
    /\ \E land \in {"shown", "missing"} : once' = [once EXCEPT !.land = land]
    /\ UNCHANGED <<up, reduced, on_screen, loop, clock, shown>>

StoryNext ==
    \/ Mount
    \/ Unmount
    \/ Scroll
    \/ TellStory
    \/ TellField
    \/ StoryFrame
    \/ FieldFrame
    \/ Fade
    \/ AskLand
    \/ LandArrives

-------------------------------------------------------------------------------
\* However often they leave the screen and come back, and however the sightings are late: a loop
\* that has been told of all of them runs exactly while its part of the page is on screen (and
\* motion is wanted), unless several came together and the one read was not the newest.  A loop is
\* one chain of frames while it is on and none while it is off, unmounted or asked to be still, so
\* that no frame is left over that would draw on or run twice as fast; and a story that is off, or
\* waits for its turn, shows its finished frame: every site lit and counted (Features.tsx:49-57,
\* PixelField.tsx:79-80, 92-95).
RestsOffScreen ==
    /\ \A k \in Loops :
           /\ up /\ loop[k].sightings = <<>> /\ ~loop[k].stale => (loop[k].on <=> InView(k) /\ ~reduced)
           /\ Cardinality(loop[k].pending) = (IF loop[k].on THEN 1 ELSE 0)
           /\ loop[k].on => up /\ ~reduced
    /\ up /\ (~loop["story"].on \/ clock < 0) =>
           /\ shown.lit = DOMAIN Arrivals /\ shown.ms = LAST_MS

-------------------------------------------------------------------------------
\* Not true of the code: a loop that has been told of everything is paused off screen, and runs on
\* screen (Features.tsx:36, PixelField.tsx:4-5).  Of sightings that come together, there and gone
\* again, the first is read, and the loop runs on off screen until the next change.
PausedOffScreen ==
    \A k \in Loops : up /\ loop[k].sightings = <<>> => (loop[k].on <=> InView(k) /\ ~reduced)
===============================================================================
