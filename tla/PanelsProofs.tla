----------------------------- MODULE PanelsProofs -----------------------------
(***************************************************************************)
(* Proofs about the parts of the pages that Panels puts side by side.      *)
(***************************************************************************)
EXTENDS Panels, RecordingProofs, TLAPS, FiniteSetTheorems, SequenceTheorems, WellFoundedInduction

----------------------------------------------------------------------------
(* What moves while it is seen (Stories).                                   *)

\* The frame a story rests on has every site lit.
LEMMA StillIsFinished ==
    DrawMap(STILL).ms = LAST_MS /\ DrawMap(STILL).lit = DOMAIN Arrivals
<1>1. /\ Len(Arrivals) \in Nat \ {0} /\ DOMAIN Arrivals = 1..Len(Arrivals)
      /\ \A i \in DOMAIN Arrivals : Arrivals[i].ms \in Nat
    <2>1. Arrivals \in Seq([ms : Nat, observers : Nat]) /\ Arrivals # <<>>
        BY StoryAssumption
    <2>2. \A i \in 1..Len(Arrivals) : Arrivals[i] \in [ms : Nat, observers : Nat]
        BY <2>1, ElementOfSeq
    <2>3. QED
        BY <2>1, <2>2
<1>2. FIRST_MS \in Nat /\ LAST_MS \in Nat /\ FIRST_MS <= LAST_MS
    <2>1. PICK n : n = Len(Arrivals) /\ n \in Nat \ {0} /\ DOMAIN Arrivals = 1..n
        BY <1>1
    <2>2. 1 \in DOMAIN Arrivals /\ n \in DOMAIN Arrivals /\ 1 <= n
        BY <2>1
    <2>3. Arrivals[1].ms \in Nat /\ Arrivals[n].ms \in Nat
        BY <1>1, <2>2
    <2>4. Arrivals[1].ms <= Arrivals[n].ms
        BY <2>2, StoryAssumption
    <2>5. QED
        BY <2>1, <2>3, <2>4 DEF FIRST_MS, LAST_MS
<1>3. \A i \in DOMAIN Arrivals : Arrivals[i].ms <= LAST_MS
    BY <1>1, StoryAssumption DEF LAST_MS
<1>4. PLAY \in Nat /\ FIRST_MS + PLAY = LAST_MS
    BY <1>2 DEF PLAY
<1>5. STILL \in Nat /\ STILL < MAP_LOOP /\ MAP_LOOP \in Nat \ {0} /\ STILL - LEAD = PLAY + HOLD - 1
    BY <1>4, StoryAssumption DEF STILL, MAP_LOOP
<1>6. STILL % MAP_LOOP = STILL
    BY <1>5
<1>7. MsAt(STILL) = LAST_MS
    <2>1. (STILL % MAP_LOOP) - LEAD = PLAY + HOLD - 1 /\ HOLD \in Nat \ {0}
        BY <1>5, <1>6, StoryAssumption
    <2>2. ~(PLAY + HOLD - 1 < 0 \/ PLAY + HOLD - 1 > PLAY + HOLD) /\ (PLAY + HOLD - 1 <= PLAY => HOLD = 1)
        BY <1>4, <2>1
    <2>3. QED
        BY <1>2, <1>4, <2>1, <2>2 DEF MsAt
<1>8. QED
    BY <1>1, <1>3, <1>7 DEF DrawMap

Chain == [on : BOOLEAN, pending : SUBSET (1..2), raf : 0..2, sightings : Seq(BOOLEAN), stale : BOOLEAN]

\* A loop that is on has one frame under way, the one it would cancel.
OneChain(l) == l.pending = IF l.on THEN {l.raf} ELSE {}

\* A loop is on, and is told what is seen, only while there is a page that may move.
MayRun(k) ==
    /\ loop[k].on => up /\ ~reduced
    /\ ~up \/ (k = "story" /\ reduced) => loop[k].sightings = <<>>

\* What a story shows that is off or waits: its finished frame.
Rested == up /\ (~loop["story"].on \/ clock < 0) => shown = DrawMap(STILL)

StoryInv ==
    /\ up \in BOOLEAN /\ reduced \in BOOLEAN /\ clock \in Int
    /\ loop \in [Loops -> Chain]
    /\ \A k \in Loops : OneChain(loop[k]) /\ MayRun(k)
    /\ Rested

LEMMA RequestOne ==
    ASSUME NEW l \in Chain, l.pending = {}, l.on
    PROVE  /\ Request(l) \in Chain /\ OneChain(Request(l))
           /\ Request(l).on = l.on /\ Request(l).sightings = l.sightings /\ Request(l).stale = l.stale
<1>1. PICK id : id = CHOOSE n \in 1..2 : n \notin l.pending
    OBVIOUS
<1>2. id \in 1..2
    BY <1>1
<1>3. Request(l) = [l EXCEPT !.pending = @ \cup {id}, !.raf = id]
    BY <1>1 DEF Request
<1>4. {} \cup {id} = {id} /\ {id} \in SUBSET (1..2) /\ id \in 0..2
    BY <1>2
<1>5. Request(l) = [l EXCEPT !.pending = {id}, !.raf = id]
    BY <1>3, <1>4
<1>6. QED
    BY <1>4, <1>5 DEF Chain, OneChain

LEMMA FreshOne ==
    ASSUME NEW s \in Seq(BOOLEAN)
    PROVE  LET l == [Fresh EXCEPT !.sightings = s]
           IN  l \in Chain /\ OneChain(l) /\ l.on = FALSE /\ l.sightings = s
<1>1. {} \in SUBSET (1..2) /\ 0 \in 0..2
    OBVIOUS
<1>2. QED
    BY <1>1 DEF Fresh, Chain, OneChain

LEMMA StartOne ==
    ASSUME NEW l \in Chain, OneChain(l), ~l.on
    PROVE  /\ Start(l) \in Chain /\ OneChain(Start(l)) /\ Start(l).on
           /\ Start(l).sightings = l.sightings /\ Start(l).stale = l.stale
<1>1. PICK s : s = [l EXCEPT !.on = TRUE]
    OBVIOUS
<1>2. s \in Chain /\ s.pending = {} /\ s.on /\ s.sightings = l.sightings /\ s.stale = l.stale
    BY <1>1 DEF Chain, OneChain
<1>3. QED
    BY <1>1, <1>2, RequestOne DEF Start

LEMMA StopAll ==
    ASSUME NEW l \in Chain, OneChain(l)
    PROVE  /\ Stop(l) \in Chain /\ OneChain(Stop(l)) /\ ~Stop(l).on
           /\ Stop(l).sightings = l.sightings /\ Stop(l).stale = l.stale
BY DEF Stop, Chain, OneChain

\* An observer's callback takes all the sightings there are.
LEMMA ToldAll ==
    ASSUME NEW l \in Chain, OneChain(l), l.sightings # <<>>
    PROVE  /\ Told(l) \in Chain /\ OneChain(Told(l)) /\ Told(l).on = l.on /\ Told(l).sightings = <<>>
           /\ Head(l.sightings) \in BOOLEAN
           /\ Told(l).stale = (l.sightings[Len(l.sightings)] # Head(l.sightings))
<1>1. l.sightings \in Seq(BOOLEAN) /\ <<>> \in Seq(BOOLEAN)
    BY DEF Chain
<1>2. Head(l.sightings) \in BOOLEAN
    BY <1>1
<1>3. PICK stale \in BOOLEAN : stale = (l.sightings[Len(l.sightings)] # Head(l.sightings))
    OBVIOUS
<1>4. Told(l) = [l EXCEPT !.sightings = <<>>, !.stale = stale]
    BY <1>3 DEF Told
<1>5. QED
    BY <1>1, <1>2, <1>3, <1>4 DEF Chain, OneChain

LEMMA StoryStart == Init => StoryInv
<1> SUFFICES ASSUME Init PROVE StoryInv
    OBVIOUS
<1>1. Fresh \in Chain /\ OneChain(Fresh) /\ Fresh.on = FALSE /\ Fresh.sightings = <<>>
    <2>1. <<>> \in Seq(BOOLEAN)
        OBVIOUS
    <2>2. Fresh = [Fresh EXCEPT !.sightings = <<>>]
        BY DEF Fresh
    <2>3. QED
        BY <2>1, <2>2, FreshOne
<1>2. OFFSET \in Nat
    BY StoryAssumption
<1>3. /\ up = FALSE /\ reduced \in BOOLEAN /\ clock = -OFFSET
      /\ loop = [k \in Loops |-> Fresh]
    BY DEF Init, StoryInit
<1>4. \A k \in Loops : loop[k] = Fresh
    BY <1>3
<1>5. loop \in [Loops -> Chain]
    BY <1>1, <1>3
<1>6. \A k \in Loops : OneChain(loop[k]) /\ MayRun(k)
    BY <1>1, <1>3, <1>4 DEF MayRun
<1>7. -OFFSET \in Int
    BY <1>2
<1>8. QED
    BY <1>3, <1>5, <1>6, <1>7 DEF StoryInv, Rested

LEMMA MountRests ==
    ASSUME StoryInv, Mount
    PROVE  StoryInv'
<1> DEFINE told(k) == IF k = "story" /\ reduced THEN <<>> ELSE <<InView(k)>>
           new(k) == [Fresh EXCEPT !.sightings = told(k)]
<1>1. \A k \in Loops : told(k) \in Seq(BOOLEAN)
    <2>1. ASSUME NEW k \in Loops PROVE InView(k) \in BOOLEAN
        BY DEF InView
    <2>2. ASSUME NEW b \in BOOLEAN PROVE <<b>> \in Seq(BOOLEAN)
        OBVIOUS
    <2>3. <<>> \in Seq(BOOLEAN)
        OBVIOUS
    <2>4. QED
        BY <2>1, <2>2, <2>3
<1> HIDE DEF told
<1>2. \A k \in Loops : new(k) \in Chain /\ OneChain(new(k)) /\ ~new(k).on /\ new(k).sightings = told(k)
    BY <1>1, FreshOne
<1>3. loop' = [k \in Loops |-> new(k)]
    BY DEF Mount, told
<1> HIDE DEF new
<1>4. OFFSET \in Nat
    BY StoryAssumption
<1>5. QED
    <2>1. /\ up' = TRUE /\ shown' = DrawMap(STILL) /\ clock' = -OFFSET /\ reduced' = reduced
          /\ \A k \in Loops : loop'[k] = new(k)
        BY <1>3 DEF Mount
    <2>2. \A k \in Loops : MayRun(k)'
        BY <1>2, <2>1 DEF MayRun, told
    <2>3. QED
        BY <1>2, <1>3, <1>4, <2>1, <2>2 DEF StoryInv, Rested

LEMMA UnmountRests ==
    ASSUME StoryInv, Unmount
    PROVE  StoryInv'
<1> DEFINE new(k) == [Stop(loop[k]) EXCEPT !.sightings = <<>>]
<1>1. ASSUME NEW k \in Loops
      PROVE  new(k) \in Chain /\ OneChain(new(k)) /\ ~new(k).on /\ new(k).sightings = <<>>
    <2>1. Stop(loop[k]) \in Chain /\ OneChain(Stop(loop[k])) /\ ~Stop(loop[k]).on
        BY StopAll DEF StoryInv
    <2>2. <<>> \in Seq(BOOLEAN)
        OBVIOUS
    <2>3. QED
        BY <2>1, <2>2 DEF Chain, OneChain
<1>2. loop' = [k \in Loops |-> new(k)]
    BY DEF Unmount
<1>3. QED
    BY <1>1, <1>2 DEF Unmount, StoryInv, MayRun, Rested

LEMMA ScrollRests ==
    ASSUME StoryInv, Scroll
    PROVE  StoryInv'
<1> DEFINE heard(k) == up /\ ~(k = "story" /\ reduced) /\ InView(k)' # InView(k)
           new(k) == IF heard(k) THEN [loop[k] EXCEPT !.sightings = Append(@, InView(k)')] ELSE loop[k]
<1>1. ASSUME NEW k \in Loops
      PROVE  /\ new(k) \in Chain /\ OneChain(new(k)) /\ new(k).on = loop[k].on
             /\ ~heard(k) => new(k).sightings = loop[k].sightings
    <2>1. loop[k] \in Chain /\ OneChain(loop[k])
        BY DEF StoryInv
    <2>2. Append(loop[k].sightings, InView(k)') \in Seq(BOOLEAN)
        BY <2>1 DEF Chain, InView
    <2>3. QED
        BY <2>1, <2>2 DEF Chain, OneChain
<1>2. loop' = [k \in Loops |-> new(k)]
    BY DEF Scroll
<1>3. QED
    BY <1>1, <1>2 DEF Scroll, StoryInv, MayRun, Rested, Loops

LEMMA TellStoryRests ==
    ASSUME StoryInv, TellStory
    PROVE  StoryInv'
<1>1. PICK l, told, seen : /\ l = loop["story"] /\ told = Told(l)
                           /\ seen = Head(l.sightings)
    OBVIOUS
<1>2. "story" \in Loops /\ l \in Chain /\ OneChain(l) /\ l.sightings # <<>>
    BY <1>1 DEF StoryInv, TellStory, Loops
<1>3. up /\ ~reduced
    BY <1>1, <1>2 DEF StoryInv, MayRun
<1>4. told \in Chain /\ OneChain(told) /\ told.on = l.on /\ told.sightings = <<>> /\ seen \in BOOLEAN
    BY <1>1, <1>2, ToldAll
<1>5. UNCHANGED <<up, reduced>>
    BY DEF TellStory
<1>6. CASE seen = l.on
    <2>1. loop' = [loop EXCEPT !["story"] = told] /\ UNCHANGED <<clock, shown>>
        BY <1>1, <1>6 DEF TellStory
    <2>2. QED
        BY <1>1, <1>2, <1>4, <1>5, <2>1 DEF StoryInv, MayRun, Rested, Loops
<1>7. CASE seen /\ ~l.on
    <2>1. loop' = [loop EXCEPT !["story"] = Start(told)] /\ clock' = -OFFSET /\ shown' = shown
        BY <1>1, <1>4, <1>7 DEF TellStory
    <2>2. Start(told) \in Chain /\ OneChain(Start(told)) /\ Start(told).sightings = <<>>
        BY <1>4, <1>7, StartOne
    <2>3. OFFSET \in Nat
        BY StoryAssumption
    <2>4. QED
        BY <1>1, <1>2, <1>3, <1>5, <1>7, <2>1, <2>2, <2>3 DEF StoryInv, MayRun, Rested, Loops
<1>8. CASE ~seen /\ l.on
    <2>1. loop' = [loop EXCEPT !["story"] = Stop(told)] /\ clock' = clock /\ shown' = DrawMap(STILL)
        BY <1>1, <1>4, <1>8 DEF TellStory
    <2>2. Stop(told) \in Chain /\ OneChain(Stop(told)) /\ ~Stop(told).on /\ Stop(told).sightings = <<>>
        BY <1>4, StopAll
    <2>3. QED
        BY <1>1, <1>2, <1>5, <2>1, <2>2 DEF StoryInv, MayRun, Rested, Loops
<1>9. l.on \in BOOLEAN
    BY <1>2 DEF Chain
<1>10. QED
    BY <1>4, <1>6, <1>7, <1>8, <1>9

LEMMA TellFieldRests ==
    ASSUME StoryInv, TellField
    PROVE  StoryInv'
<1>1. PICK l, told : l = loop["field"] /\ told = Told(l)
    OBVIOUS
<1>2. "field" \in Loops /\ l \in Chain /\ OneChain(l) /\ l.sightings # <<>>
    BY <1>1 DEF StoryInv, TellField, Loops
<1>3. up /\ (l.on => ~reduced) /\ reduced \in BOOLEAN
    BY <1>1, <1>2 DEF StoryInv, MayRun
<1>4. told \in Chain /\ OneChain(told) /\ told.on = l.on /\ told.sightings = <<>> /\ told.on \in BOOLEAN
    BY <1>1, <1>2, ToldAll DEF Chain
<1>5. PICK next : next = IF ~Head(l.sightings) THEN Stop(told)
                         ELSE IF told.on \/ reduced THEN told ELSE Start(told)
    OBVIOUS
<1>6. loop' = [loop EXCEPT !["field"] = next] /\ UNCHANGED <<up, reduced, clock, shown>>
    BY <1>1, <1>5 DEF TellField
<1>7. next \in Chain /\ OneChain(next) /\ next.sightings = <<>> /\ (next.on => ~reduced)
    <2>1. CASE ~Head(l.sightings)
        BY <1>4, <1>5, <2>1, StopAll
    <2>2. CASE Head(l.sightings) /\ (told.on \/ reduced)
        BY <1>3, <1>4, <1>5, <2>2
    <2>3. CASE Head(l.sightings) /\ ~(told.on \/ reduced)
        BY <1>4, <1>5, <2>3, StartOne
    <2>4. QED
        BY <2>1, <2>2, <2>3
<1>8. "story" # "field"
    OBVIOUS
<1>9. loop'["story"] = loop["story"] /\ loop'["field"] = next
    BY <1>2, <1>6, <1>8 DEF StoryInv, Loops
<1>10. QED
    BY <1>2, <1>3, <1>6, <1>7, <1>9 DEF StoryInv, MayRun, Rested, Loops

\* A frame that ran has asked for the next one.
LEMMA RanKeepsOne ==
    ASSUME StoryInv, NEW k \in Loops, Ran(k)
    PROVE  /\ loop' \in [Loops -> Chain]
           /\ \A j \in Loops : /\ OneChain(loop'[j]) /\ loop'[j].on = loop[j].on
                               /\ loop'[j].sightings = loop[j].sightings /\ loop'[j].stale = loop[j].stale
           /\ loop[k].on
<1>1. PICK id \in loop[k].pending : loop' = [loop EXCEPT ![k] = Request([loop[k] EXCEPT !.pending = @ \ {id}])]
    BY DEF Ran
<1>2. PICK l : l = [loop[k] EXCEPT !.pending = @ \ {id}]
    OBVIOUS
<1>3. loop[k] \in Chain /\ OneChain(loop[k])
    BY DEF StoryInv
<1>4. loop[k].on /\ loop[k].pending \ {id} = {}
    BY <1>1, <1>3 DEF OneChain
<1>5. /\ l \in Chain /\ l.pending = {} /\ l.on = loop[k].on
      /\ l.sightings = loop[k].sightings /\ l.stale = loop[k].stale
    BY <1>2, <1>3, <1>4 DEF Chain
<1>6. /\ Request(l) \in Chain /\ OneChain(Request(l))
      /\ Request(l).on = loop[k].on /\ Request(l).sightings = loop[k].sightings /\ Request(l).stale = loop[k].stale
    BY <1>4, <1>5, RequestOne
<1>7. loop' = [loop EXCEPT ![k] = Request(l)]
    BY <1>1, <1>2
<1>8. QED
    BY <1>4, <1>6, <1>7 DEF StoryInv

LEMMA FramesRest ==
    ASSUME StoryInv, StoryFrame \/ FieldFrame
    PROVE  StoryInv'
<1>1. CASE FieldFrame
    <2>1. Ran("field") /\ UNCHANGED <<up, reduced, clock, shown>>
        BY <1>1 DEF FieldFrame
    <2>2. QED
        BY <2>1, RanKeepsOne DEF StoryInv, MayRun, Rested, Loops
<1>2. CASE StoryFrame
    <2>1. PICK t : t = IF clock + 1 = MAP_LOOP THEN 0 ELSE clock + 1
        OBVIOUS
    <2>2. /\ Ran("story") /\ UNCHANGED <<up, reduced>>
          /\ clock' = t /\ shown' = DrawMap(IF t < 0 THEN STILL ELSE t)
        BY <1>2, <2>1 DEF StoryFrame
    <2>3. t \in Int
        BY <2>1 DEF StoryInv
    <2>4. /\ loop' \in [Loops -> Chain]
          /\ \A j \in Loops : /\ OneChain(loop'[j]) /\ loop'[j].on = loop[j].on
                              /\ loop'[j].sightings = loop[j].sightings
          /\ loop["story"].on
        BY <2>2, RanKeepsOne DEF Loops
    <2>5. Rested'
        BY <2>2, <2>3, <2>4 DEF Rested, Loops
    <2>6. QED
        BY <2>2, <2>3, <2>4, <2>5 DEF StoryInv, MayRun
<1>3. QED
    BY <1>1, <1>2

LEMMA StoryStepRests ==
    ASSUME StoryInv, [Next]_vars
    PROVE  StoryInv'
<1>1. StoryNext \/ UNCHANGED storyVars
    BY DEF Next, vars, others, LogStep, PlateStep, FilmStep, FootageStep, VoiceStep, StoryStep, NoticeStep,
           TapeStep, ReadoutStep, CutsStep
<1>2. CASE UNCHANGED <<up, reduced, loop, clock, shown>>
    BY <1>2 DEF StoryInv, MayRun, Rested
<1>3. CASE StoryNext
    BY <1>2, <1>3, MountRests, UnmountRests, ScrollRests, TellStoryRests, TellFieldRests, FramesRest
       DEF StoryNext, Fade, AskLand, LandArrives
<1>4. QED
    BY <1>1, <1>2, <1>3 DEF storyVars

\* What a loop that is told nothing new knows of the screen, and what it is yet to be told.
Sees(k) ==
    up /\ ~(k = "story" /\ reduced) =>
        IF loop[k].sightings = <<>> THEN ~loop[k].stale => (loop[k].on <=> InView(k) /\ ~reduced)
        ELSE loop[k].sightings[Len(loop[k].sightings)] = InView(k)

ScreenInv == \A k \in Loops : Sees(k)

\* The newest sighting is how things are.
LEMMA ScrollSeen ==
    ASSUME StoryInv, ScreenInv, Scroll, NEW k \in Loops
    PROVE  Sees(k)'
<1>1. loop[k] \in Chain /\ loop[k].sightings \in Seq(BOOLEAN)
    BY DEF StoryInv, Chain
<1>2. InView(k) \in BOOLEAN /\ InView(k)' \in BOOLEAN
    BY DEF InView
<1>3. UNCHANGED <<up, reduced>>
    BY DEF Scroll
<1>4. CASE up /\ ~(k = "story" /\ reduced) /\ InView(k)' # InView(k)
    <2>1. loop'[k] = [loop[k] EXCEPT !.sightings = Append(@, InView(k)')]
        BY <1>4 DEF Scroll
    <2>2. loop'[k].sightings = Append(loop[k].sightings, InView(k)')
        BY <1>1, <2>1 DEF Chain
    <2>3. loop'[k].sightings # <<>> /\ loop'[k].sightings[Len(loop'[k].sightings)] = InView(k)'
        BY <1>1, <1>2, <2>2
    <2>4. QED
        BY <2>3 DEF Sees
<1>5. CASE ~(up /\ ~(k = "story" /\ reduced) /\ InView(k)' # InView(k))
    <2>1. loop'[k] = loop[k]
        BY <1>5 DEF Scroll
    <2>2. QED
        BY <1>3, <1>5, <2>1 DEF Sees, ScreenInv
<1>6. QED
    BY <1>4, <1>5

\* A loop that reads the newest sighting does as it says.
LEMMA TellSeen ==
    ASSUME StoryInv, ScreenInv, TellStory \/ TellField, NEW k \in Loops
    PROVE  Sees(k)'
<1>1. UNCHANGED <<up, reduced, on_screen>> /\ InView(k)' = InView(k)
    BY DEF TellStory, TellField, InView
<1>2. PICK l, told : l = loop[k] /\ told = Told(l)
    OBVIOUS
<1>3. l \in Chain /\ OneChain(l) /\ MayRun(k)
    BY <1>2 DEF StoryInv
<1>4. CASE loop'[k] = loop[k]
    BY <1>1, <1>4 DEF Sees, ScreenInv
<1>5. CASE loop'[k] # loop[k] /\ TellStory
    <2>1. k = "story" /\ l.sightings # <<>>
        BY <1>2, <1>5 DEF TellStory, StoryInv, Loops
    <2>2. up /\ ~reduced
        BY <1>2, <1>3, <2>1 DEF MayRun
    <2>3. /\ told \in Chain /\ OneChain(told) /\ told.on = l.on /\ told.sightings = <<>>
          /\ Head(l.sightings) \in BOOLEAN /\ told.on \in BOOLEAN
          /\ told.stale = (l.sightings[Len(l.sightings)] # Head(l.sightings))
        BY <1>2, <1>3, <2>1, ToldAll DEF Chain
    <2>4. loop'[k] = IF Head(l.sightings) = l.on THEN told
                     ELSE IF Head(l.sightings) THEN Start(told) ELSE Stop(told)
        BY <1>2, <1>5, <2>1 DEF TellStory, StoryInv
    <2>5. loop'[k].sightings = <<>> /\ loop'[k].stale = told.stale /\ loop'[k].on = Head(l.sightings)
        <3>1. CASE Head(l.sightings) = l.on
            BY <2>3, <2>4, <3>1
        <3>2. CASE Head(l.sightings) # l.on /\ Head(l.sightings)
            <4>1. Start(told) \in Chain /\ Start(told).on
                  /\ Start(told).sightings = told.sightings /\ Start(told).stale = told.stale
                BY <2>3, <3>2, StartOne
            <4>2. QED
                BY <2>3, <2>4, <3>2, <4>1 DEF Chain
        <3>3. CASE Head(l.sightings) # l.on /\ ~Head(l.sightings)
            <4>1. Stop(told) \in Chain /\ ~Stop(told).on
                  /\ Stop(told).sightings = told.sightings /\ Stop(told).stale = told.stale
                BY <2>3, StopAll
            <4>2. QED
                BY <2>3, <2>4, <3>3, <4>1 DEF Chain
        <3>4. QED
            BY <3>1, <3>2, <3>3
    <2>6. l.sightings[Len(l.sightings)] = InView(k)
        BY <1>2, <2>1, <2>2 DEF ScreenInv, Sees
    <2>7. QED
        BY <1>1, <2>2, <2>3, <2>5, <2>6 DEF Sees
<1>6. CASE loop'[k] # loop[k] /\ TellField
    <2>1. k = "field" /\ l.sightings # <<>> /\ "story" # "field"
        BY <1>2, <1>6 DEF TellField, StoryInv, Loops
    <2>2. up /\ (l.on => ~reduced) /\ reduced \in BOOLEAN
        BY <1>2, <1>3, <2>1 DEF MayRun, StoryInv
    <2>3. /\ told \in Chain /\ OneChain(told) /\ told.on = l.on /\ told.sightings = <<>>
          /\ Head(l.sightings) \in BOOLEAN /\ told.on \in BOOLEAN
          /\ told.stale = (l.sightings[Len(l.sightings)] # Head(l.sightings))
        BY <1>2, <1>3, <2>1, ToldAll DEF Chain
    <2>4. loop'[k] = IF ~Head(l.sightings) THEN Stop(told)
                     ELSE IF told.on \/ reduced THEN told ELSE Start(told)
        BY <1>2, <1>6, <2>1 DEF TellField, StoryInv
    <2>5. /\ loop'[k].sightings = <<>> /\ loop'[k].stale = told.stale
          /\ loop'[k].on = (Head(l.sightings) /\ ~reduced)
        <3>1. CASE ~Head(l.sightings)
            <4>1. Stop(told) \in Chain /\ ~Stop(told).on
                  /\ Stop(told).sightings = told.sightings /\ Stop(told).stale = told.stale
                BY <2>3, StopAll
            <4>2. QED
                BY <2>3, <2>4, <3>1, <4>1 DEF Chain
        <3>2. CASE Head(l.sightings) /\ (told.on \/ reduced)
            BY <2>2, <2>3, <2>4, <3>2
        <3>3. CASE Head(l.sightings) /\ ~(told.on \/ reduced)
            <4>1. Start(told) \in Chain /\ Start(told).on
                  /\ Start(told).sightings = told.sightings /\ Start(told).stale = told.stale
                BY <2>3, <3>3, StartOne
            <4>2. QED
                BY <2>2, <2>3, <2>4, <3>3, <4>1 DEF Chain
        <3>4. QED
            BY <3>1, <3>2, <3>3
    <2>6. l.sightings[Len(l.sightings)] = InView(k)
        BY <1>2, <2>1, <2>2 DEF ScreenInv, Sees
    <2>7. QED
        BY <1>1, <2>2, <2>3, <2>5, <2>6 DEF Sees
<1>7. QED
    BY <1>4, <1>5, <1>6

LEMMA ScreenStep ==
    ASSUME StoryInv, ScreenInv, [Next]_vars
    PROVE  ScreenInv'
<1>1. StoryNext \/ UNCHANGED storyVars
    BY DEF Next, vars, others, LogStep, PlateStep, FilmStep, FootageStep, VoiceStep, StoryStep, NoticeStep,
           TapeStep, ReadoutStep, CutsStep
<1>2. CASE UNCHANGED <<up, reduced, on_screen, loop>>
    BY <1>2 DEF ScreenInv, Sees, InView
<1>3. CASE Mount
    <2>1. ASSUME NEW k \in Loops PROVE Sees(k)'
        <3>1. /\ loop'[k] = [Fresh EXCEPT !.sightings = IF k = "story" /\ reduced THEN <<>> ELSE <<InView(k)>>]
              /\ UNCHANGED <<reduced, on_screen>>
            BY <1>3 DEF Mount
        <3>2. loop'[k].sightings = IF k = "story" /\ reduced THEN <<>> ELSE <<InView(k)>>
            BY <3>1 DEF Fresh
        <3>3. InView(k)' = InView(k) /\ InView(k) \in BOOLEAN
            BY <3>1 DEF InView
        <3>4. QED
            BY <3>1, <3>2, <3>3 DEF Sees
    <2>2. QED
        BY <2>1 DEF ScreenInv
<1>4. CASE Unmount
    BY <1>4 DEF Unmount, ScreenInv, Sees
<1>5. CASE Scroll
    BY <1>5, ScrollSeen DEF ScreenInv
<1>6. CASE TellStory \/ TellField
    BY <1>6, TellSeen DEF ScreenInv
<1>7. CASE StoryFrame \/ FieldFrame
    <2>1. PICK k \in Loops : Ran(k)
        BY <1>7 DEF StoryFrame, FieldFrame, Loops
    <2>2. UNCHANGED <<up, reduced, on_screen>>
        BY <1>7 DEF StoryFrame, FieldFrame
    <2>3. QED
        BY <2>1, <2>2, RanKeepsOne DEF ScreenInv, Sees, InView
<1>8. CASE Fade \/ AskLand \/ LandArrives
    BY <1>2, <1>8 DEF Fade, AskLand, LandArrives
<1>9. QED
    BY <1>1, <1>2, <1>3, <1>4, <1>5, <1>6, <1>7, <1>8 DEF StoryNext, storyVars

\* However often they leave the screen and come back, and however late the sightings are: a loop that has been told
\* of all of them runs exactly while it is on screen, unless several came together and the newest was not read; it
\* is one chain of frames while it is on and none while it is off, and a story that is off shows its finished
\* frame; for any arrivals and any pauses (Features.tsx, PixelField.tsx).
THEOREM LoopsRest == Spec => []RestsOffScreen
<1>1. StoryInv /\ ScreenInv => RestsOffScreen
    <2> SUFFICES ASSUME StoryInv, ScreenInv PROVE RestsOffScreen
        OBVIOUS
    <2>1. ASSUME NEW k \in Loops
          PROVE  Cardinality(loop[k].pending) = (IF loop[k].on THEN 1 ELSE 0)
        BY FS_EmptySet, FS_Singleton DEF StoryInv, OneChain
    <2>2. ASSUME NEW k \in Loops, up, loop[k].sightings = <<>>, ~loop[k].stale
          PROVE  loop[k].on <=> InView(k) /\ ~reduced
        <3>1. CASE k = "story" /\ reduced
            BY <3>1 DEF StoryInv, MayRun, Chain
        <3>2. CASE ~(k = "story" /\ reduced)
            BY <2>2, <3>2 DEF ScreenInv, Sees
        <3>3. QED
            BY <3>1, <3>2
    <2>3. QED
        BY <2>1, <2>2, StillIsFinished DEF StoryInv, MayRun, Rested, RestsOffScreen
<1>2. StoryInv /\ [Next]_vars => StoryInv'
    BY StoryStepRests
<1>3. StoryInv /\ ScreenInv /\ [Next]_vars => ScreenInv'
    BY ScreenStep
<1>4. Init => ScreenInv
    BY DEF Init, StoryInit, ScreenInv, Sees
<1>5. QED
    BY <1>1, <1>2, <1>3, <1>4, StoryStart, PTL DEF Spec

----------------------------------------------------------------------------
(* What is shown for a while (Notices).                                     *)

Timer == Nat \cup {Off}

NoticeType ==
    /\ page \in [up : BOOLEAN, nodes : BOOLEAN, reduced : BOOLEAN]
    /\ caption \in [seq : Nat, last : Nat, age : Nat]
    /\ card \in [hidden : Nat, timed : Nat, timer : Timer]
    /\ toasts = [id \in DOMAIN toasts |-> toasts[id]]
    /\ \A id \in DOMAIN toasts : toasts[id] \in [age : Nat, timer : Timer]
    /\ reveal \in [phase : {"idle", "revealing", "done"}, timer : Timer]

\* A timer that runs has left what its notice was not shown for yet.
CardInv ==
    /\ caption.seq <= caption.last /\ card.timed <= caption.last
    /\ ~page.up => card = NoCard
    /\ page.up /\ caption.seq # 0 /\ card.timed = caption.seq =>
           IF card.timer = Off THEN card.hidden = caption.seq ELSE caption.age + card.timer >= CAPTION
    /\ card.timer # Off => card.timed # 0

ToastInv == \A id \in DOMAIN toasts : toasts[id].timer # Off => toasts[id].age + toasts[id].timer >= TOAST

RevealInv == reveal.phase = "revealing" => page.up

NoticeInv == NoticeType /\ CardInv /\ ToastInv /\ RevealInv

LEMMA NoticeStart == Init => NoticeInv
<1> SUFFICES ASSUME NoticeInit PROVE NoticeInv
    BY DEF Init
<1>1. /\ page \in [up : BOOLEAN, nodes : BOOLEAN, reduced : BOOLEAN] /\ ~page.up
      /\ caption \in [seq : Nat, last : Nat, age : Nat] /\ caption.seq = 0 /\ caption.last = 0
    BY DEF NoticeInit
<1>2. /\ card = NoCard /\ card.timed = 0 /\ card.timer = Off
      /\ card \in [hidden : Nat, timed : Nat, timer : Timer]
    BY DEF NoticeInit, NoCard, Timer, Off
<1>3. reveal \in [phase : {"idle", "revealing", "done"}, timer : Timer] /\ RevealInv
    BY DEF NoticeInit, NoReveal, Timer, RevealInv
<1>4. DOMAIN toasts = {} /\ toasts = [id \in {} |-> toasts[id]]
    BY DEF NoticeInit
<1>5. QED
    BY <1>1, <1>2, <1>3, <1>4 DEF NoticeInv, NoticeType, CardInv, ToastInv

LEMMA ArmedKeeps ==
    ASSUME NEW r \in [phase : {"idle", "revealing", "done"}, timer : Timer], NEW p, p.up \in BOOLEAN,
           r.phase = "revealing" => p.up
    PROVE  /\ Armed(r, p) \in [phase : {"idle", "revealing", "done"}, timer : Timer]
           /\ Armed(r, p).phase = "revealing" => p.up
           /\ r.phase = "done" => Armed(r, p).phase = "done"
BY DEF Armed

\* A unit of time takes from the timer what it adds to the age.
LEMMA TimeGoesBy ==
    ASSUME NEW age \in Nat, NEW t \in Timer, NEW most \in Nat
    PROVE  /\ Older(age, most) \in Nat /\ Running(t) \in Timer
           /\ (Running(t) = Off) <=> (t = Off)
           /\ t # Off /\ age + t >= most => Older(age, most) + Running(t) >= most
BY DEF Older, Running, Timer, Off

LEMMA CaptionStep ==
    ASSUME NoticeInv, SetCaption \/ ClearCaption \/ TimeCaption \/ HideCaption
    PROVE  NoticeInv'
<1>0. CAPTION \in Nat \ {0} /\ UNCHANGED <<page, toasts, reveal>>
    BY NoticeAssumption DEF SetCaption, ClearCaption, TimeCaption, HideCaption
<1>1. ToastInv' /\ RevealInv'
    BY <1>0 DEF NoticeInv, ToastInv, RevealInv
<1>2. CASE SetCaption
    BY <1>0, <1>1, <1>2 DEF SetCaption, NoticeInv, NoticeType, CardInv, NoCard, Timer, Off
<1>3. CASE ClearCaption
    BY <1>0, <1>1, <1>3 DEF ClearCaption, NoticeInv, NoticeType, CardInv, NoCard, Timer, Off
<1>4. CASE TimeCaption
    <2>1. PICK t : t = IF caption.seq = 0 THEN Off ELSE CAPTION
        OBVIOUS
    <2>2. /\ page.up /\ caption' = caption /\ t \in Timer
          /\ card' = [card EXCEPT !.timed = caption.seq, !.timer = t]
        BY <1>0, <1>4, <2>1 DEF TimeCaption, Timer
    <2>3. /\ card' \in [hidden : Nat, timed : Nat, timer : Timer]
          /\ card'.timed = caption.seq /\ card'.timer = t
        BY <2>2 DEF NoticeInv, NoticeType
    <2>4. NoticeType'
        BY <1>0, <2>2, <2>3 DEF NoticeInv, NoticeType
    <2>5. caption.seq # 0 => t # Off /\ caption.age + t >= CAPTION
        BY <1>0, <2>1 DEF NoticeInv, NoticeType, Off
    <2>6. CardInv'
        BY <1>0, <2>1, <2>2, <2>3, <2>5 DEF NoticeInv, NoticeType, CardInv
    <2>7. QED
        BY <1>1, <2>4, <2>6 DEF NoticeInv
<1>5. CASE HideCaption
    <2>1. card.timer = 0 /\ caption' = caption /\ card' = [card EXCEPT !.hidden = card.timed, !.timer = Off]
        BY <1>5 DEF HideCaption, Hides
    <2>2. /\ card' \in [hidden : Nat, timed : Nat, timer : Timer]
          /\ card'.timed = card.timed /\ card'.hidden = card.timed /\ card'.timer = Off
        BY <2>1 DEF NoticeInv, NoticeType, Timer
    <2>3. NoticeType'
        BY <1>0, <2>1, <2>2 DEF NoticeInv, NoticeType
    <2>4. page.up
        BY <2>1 DEF NoticeInv, CardInv, NoCard, Off
    <2>5. CardInv'
        BY <1>0, <2>1, <2>2, <2>4 DEF NoticeInv, CardInv
    <2>6. QED
        BY <1>1, <2>3, <2>5 DEF NoticeInv
<1>6. QED
    BY <1>2, <1>3, <1>4, <1>5

LEMMA PageStep ==
    ASSUME NoticeInv, SetNodes \/ MountNotices \/ UnmountNotices
    PROVE  NoticeInv'
<1>1. CASE SetNodes \/ MountNotices
    <2>1. /\ page' \in [up : BOOLEAN, nodes : BOOLEAN, reduced : BOOLEAN] /\ (page.up => page'.up)
          /\ reveal' = Armed(reveal, page') /\ UNCHANGED <<caption, card, toasts>>
          /\ page'.up = page.up \/ ~page.up
        BY <1>1 DEF SetNodes, MountNotices, NoticeInv, NoticeType
    <2>2. /\ reveal' \in [phase : {"idle", "revealing", "done"}, timer : Timer]
          /\ RevealInv'
        BY <2>1, ArmedKeeps DEF NoticeInv, NoticeType, RevealInv
    <2>3. CardInv'
        BY <2>1 DEF NoticeInv, NoticeType, CardInv, NoCard
    <2>4. QED
        BY <2>1, <2>2, <2>3 DEF NoticeInv, NoticeType, ToastInv
<1>2. CASE UnmountNotices
    <2>1. /\ page' \in [up : BOOLEAN, nodes : BOOLEAN, reduced : BOOLEAN] /\ ~page'.up
          /\ card' = NoCard /\ reveal' = NoReveal /\ UNCHANGED caption
          /\ toasts' = [i \in DOMAIN toasts |-> [toasts[i] EXCEPT !.timer = Off]]
        BY <1>2 DEF UnmountNotices, NoticeInv, NoticeType
    <2>2. \A i \in DOMAIN toasts' : /\ toasts'[i] \in [age : Nat, timer : Timer]
                                    /\ toasts'[i].timer = Off
        BY <2>1 DEF NoticeInv, NoticeType, Timer
    <2>3. toasts' = [i \in DOMAIN toasts' |-> toasts'[i]] /\ ToastInv'
        BY <2>1, <2>2 DEF ToastInv
    <2>4. CardInv' /\ RevealInv'
        BY <2>1 DEF NoticeInv, NoticeType, CardInv, RevealInv, NoCard, NoReveal
    <2>5. card' \in [hidden : Nat, timed : Nat, timer : Timer]
          /\ reveal' \in [phase : {"idle", "revealing", "done"}, timer : Timer]
        BY <2>1 DEF NoCard, NoReveal, Timer
    <2>6. QED
        BY <2>1, <2>2, <2>3, <2>4, <2>5 DEF NoticeInv, NoticeType
<1>3. QED
    BY <1>1, <1>2

LEMMA ToastStep ==
    ASSUME NoticeInv, PushToast \/ \E id \in DOMAIN toasts : TimeToast(id) \/ DismissToast(id)
    PROVE  NoticeInv'
<1>0. UNCHANGED <<page, caption, card, reveal>> /\ TOAST \in Nat \ {0}
    BY NoticeAssumption DEF PushToast, TimeToast, DismissToast
<1>1. CardInv' /\ RevealInv'
    BY <1>0 DEF NoticeInv, CardInv, RevealInv
<1>2. /\ toasts' = [i \in DOMAIN toasts' |-> toasts'[i]]
      /\ \A i \in DOMAIN toasts' : toasts'[i] \in [age : Nat, timer : Timer]
      /\ ToastInv'
    <2>1. CASE PushToast
        <3>1. PICK id : toasts' = [i \in DOMAIN toasts \cup {id} |->
                                     IF i = id THEN [age |-> 0, timer |-> Off] ELSE toasts[i]]
            BY <2>1, Zenon DEF PushToast
        <3>2. QED
            BY <3>1 DEF NoticeInv, NoticeType, ToastInv, Timer
    <2>2. ASSUME NEW id \in DOMAIN toasts, TimeToast(id)
          PROVE  <1>2!1 /\ <1>2!2 /\ <1>2!3
        <3>1. toasts' = [toasts EXCEPT ![id].timer = TOAST]
            BY <2>2 DEF TimeToast
        <3>2. /\ DOMAIN toasts' = DOMAIN toasts
              /\ \A i \in DOMAIN toasts : i # id => toasts'[i] = toasts[i]
              /\ toasts'[id] = [toasts[id] EXCEPT !.timer = TOAST]
            BY <3>1
        <3>3. toasts'[id] \in [age : Nat, timer : Timer] /\ toasts'[id].timer = TOAST
            BY <1>0, <3>2 DEF NoticeInv, NoticeType, Timer
        <3>4. toasts'[id].age + TOAST >= TOAST
            BY <1>0, <3>3
        <3>5. toasts' = [i \in DOMAIN toasts' |-> toasts'[i]]
            BY <3>1
        <3>6. ToastInv'
            BY <3>2, <3>3, <3>4 DEF NoticeInv, ToastInv
        <3>7. QED
            BY <3>2, <3>3, <3>5, <3>6 DEF NoticeInv, NoticeType
    <2>3. ASSUME NEW id \in DOMAIN toasts, DismissToast(id)
          PROVE  <1>2!1 /\ <1>2!2 /\ <1>2!3
        <3>1. toasts' = [i \in DOMAIN toasts \ {id} |-> toasts[i]]
            BY <2>3 DEF DismissToast
        <3>2. QED
            BY <3>1 DEF NoticeInv, NoticeType, ToastInv
    <2>4. QED
        BY <2>1, <2>2, <2>3
<1>3. QED
    BY <1>0, <1>1, <1>2 DEF NoticeInv, NoticeType

LEMMA RevealStep1 ==
    ASSUME NoticeInv, TimeReveal \/ EndReveal
    PROVE  NoticeInv'
<1>1. UNCHANGED <<page, caption, card, toasts>> /\ REVEAL \in Nat
    BY NoticeAssumption DEF TimeReveal, EndReveal
<1>2. reveal' \in [phase : {"idle", "revealing", "done"}, timer : Timer] /\ RevealInv'
    BY <1>1 DEF TimeReveal, EndReveal, NoticeInv, NoticeType, RevealInv, Timer
<1>3. QED
    BY <1>1, <1>2 DEF NoticeInv, NoticeType, CardInv, ToastInv

LEMMA PassStep ==
    ASSUME NoticeInv, Pass
    PROVE  NoticeInv'
<1>0. CAPTION \in Nat /\ TOAST \in Nat
    BY NoticeAssumption
<1>1. /\ page' = page
      /\ caption' = [caption EXCEPT !.age = IF caption.seq = 0 THEN 0 ELSE Older(caption.age, CAPTION)]
      /\ card' = [card EXCEPT !.timer = Running(card.timer)]
      /\ toasts' = [i \in DOMAIN toasts |->
                      [age |-> Older(toasts[i].age, TOAST), timer |-> Running(toasts[i].timer)]]
      /\ reveal' = [reveal EXCEPT !.timer = Running(reveal.timer)]
    BY DEF Pass, NoticeInv, NoticeType
<1>2. /\ caption.age \in Nat /\ card.timer \in Timer /\ reveal.timer \in Timer
      /\ \A i \in DOMAIN toasts : toasts[i].age \in Nat /\ toasts[i].timer \in Timer
    BY DEF NoticeInv, NoticeType
<1>3. /\ Older(caption.age, CAPTION) \in Nat /\ Running(card.timer) \in Timer /\ Running(reveal.timer) \in Timer
      /\ (Running(card.timer) = Off) <=> (card.timer = Off)
      /\ card.timer # Off /\ caption.age + card.timer >= CAPTION =>
             Older(caption.age, CAPTION) + Running(card.timer) >= CAPTION
    BY <1>0, <1>2, TimeGoesBy
<1>4. NoticeType' /\ ToastInv'
    <2>1. ASSUME NEW i \in DOMAIN toasts
          PROVE  /\ toasts'[i] \in [age : Nat, timer : Timer]
                 /\ toasts'[i].timer # Off => toasts'[i].age + toasts'[i].timer >= TOAST
        <3>1. toasts'[i] = [age |-> Older(toasts[i].age, TOAST), timer |-> Running(toasts[i].timer)]
            BY <1>1
        <3>2. QED
            BY <1>0, <1>2, <3>1, TimeGoesBy DEF NoticeInv, ToastInv
    <2>2. QED
        BY <1>1, <1>3, <2>1 DEF NoticeInv, NoticeType, ToastInv
<1>5. CardInv'
    <2>1. /\ caption'.seq = caption.seq /\ caption'.last = caption.last /\ card'.timed = card.timed
          /\ card'.hidden = card.hidden /\ card'.timer = Running(card.timer)
          /\ caption.seq # 0 => caption'.age = Older(caption.age, CAPTION)
        BY <1>1 DEF NoticeInv, NoticeType
    <2>2. ~page.up => card' = NoCard
        BY <1>1 DEF NoticeInv, CardInv, NoCard, Running, Off
    <2>3. QED
        BY <1>1, <1>3, <2>1, <2>2 DEF NoticeInv, CardInv
<1>6. RevealInv'
    BY <1>1 DEF NoticeInv, NoticeType, RevealInv
<1>7. QED
    BY <1>4, <1>5, <1>6 DEF NoticeInv

LEMMA NoticeStepHolds ==
    ASSUME NoticeInv, [Next]_vars
    PROVE  NoticeInv'
<1>1. NoticeNext \/ UNCHANGED noticeVars
    BY DEF Next, vars, others, LogStep, PlateStep, FilmStep, FootageStep, VoiceStep, StoryStep, NoticeStep,
           TapeStep, ReadoutStep, CutsStep
<1>2. CASE UNCHANGED noticeVars
    BY <1>2 DEF noticeVars, NoticeInv, NoticeType, CardInv, ToastInv, RevealInv
<1>3. CASE NoticeNext
    BY <1>3, CaptionStep, PageStep, ToastStep, RevealStep1, PassStep DEF NoticeNext
<1>4. QED
    BY <1>1, <1>2, <1>3

\* What EachHasItsTime says of a step.
NoticeKeepsTime ==
    /\ OnScreen /\ ~OnScreen' /\ page'.up /\ caption'.seq = caption.seq => caption.age >= CAPTION
    /\ \A id \in DOMAIN toasts \ DOMAIN toasts' : toasts[id].age >= TOAST
    /\ reveal.phase = "done" /\ page'.up => reveal'.phase = "done"
    /\ OnScreen /\ card.timed = caption.seq => card.timer # Off
    /\ reveal.phase = "revealing" => page.up

\* Only the timer takes a caption off the screen that stays in the store.
LEMMA CardHides ==
    ASSUME NoticeInv, NoticeNext, OnScreen, ~OnScreen', page'.up, caption'.seq = caption.seq
    PROVE  caption.age >= CAPTION
<1>1. page.up /\ caption.seq # 0 /\ caption.seq # card.hidden /\ card'.hidden = caption.seq
    BY DEF OnScreen
<1>2. HideCaption
    BY <1>1 DEF NoticeNext, SetCaption, ClearCaption, PushToast, SetNodes, MountNotices, UnmountNotices,
                TimeCaption, TimeToast, DismissToast, TimeReveal, EndReveal, Pass, NoticeInv, NoticeType
<1>3. card.timer = 0 /\ card'.hidden = card.timed
    BY <1>2 DEF HideCaption, Hides, NoticeInv, NoticeType
<1>4. caption.age + card.timer >= CAPTION
    BY <1>1, <1>3 DEF NoticeInv, CardInv, Off
<1>5. QED
    BY <1>3, <1>4 DEF NoticeInv, NoticeType

LEMMA ToastGoes ==
    ASSUME NoticeInv, NoticeNext, NEW id \in DOMAIN toasts \ DOMAIN toasts'
    PROVE  toasts[id].age >= TOAST
<1>1. PICK i \in DOMAIN toasts : DismissToast(i) /\ i = id
    <2>1. DOMAIN toasts \subseteq DOMAIN toasts' \/ \E i \in DOMAIN toasts : DismissToast(i)
        BY DEF NoticeNext, SetCaption, ClearCaption, PushToast, SetNodes, MountNotices, UnmountNotices,
               TimeCaption, HideCaption, TimeToast, TimeReveal, EndReveal, Pass
    <2>2. PICK i \in DOMAIN toasts : DismissToast(i)
        BY <2>1
    <2>3. DOMAIN toasts' = DOMAIN toasts \ {i}
        BY <2>2 DEF DismissToast
    <2>4. QED
        BY <2>2, <2>3
<1>2. toasts[id].timer = 0 /\ 0 # Off
    BY <1>1 DEF DismissToast, Off
<1>3. toasts[id].age + toasts[id].timer >= TOAST /\ toasts[id].age \in Nat
    BY <1>2 DEF NoticeInv, NoticeType, ToastInv
<1>4. QED
    BY <1>2, <1>3

LEMMA RevealIsOver ==
    ASSUME NoticeInv, NoticeNext, reveal.phase = "done", page'.up
    PROVE  reveal'.phase = "done"
<1>1. CASE SetNodes \/ MountNotices
    BY <1>1 DEF SetNodes, MountNotices, Armed
<1>2. CASE UnmountNotices
    <2>1. page'.up = FALSE
        BY <1>2 DEF UnmountNotices, NoticeInv, NoticeType
    <2>2. QED
        BY <2>1
<1>3. CASE TimeReveal \/ EndReveal \/ Pass
    BY <1>3 DEF TimeReveal, EndReveal, Pass, NoticeInv, NoticeType
<1>4. CASE reveal' = reveal
    BY <1>4
<1>5. QED
    BY <1>1, <1>2, <1>3, <1>4 DEF NoticeNext, SetCaption, ClearCaption, PushToast, TimeCaption, HideCaption,
                                  TimeToast, DismissToast

\* Whatever the store says meanwhile, whenever the effects run and however late the timers fire: a caption, a toast
\* and the first reveal are shown for their time, each for its own, and none without a timer that ends it
\* (Narrator.tsx, Toasts.tsx, CanvasReveal.tsx).
THEOREM NoticesKeepTime == Spec => EachHasItsTime
<1>1. NoticeInv /\ [Next]_vars => NoticeInv'
    BY NoticeStepHolds
<1>2. Spec => []NoticeInv
    BY <1>1, NoticeStart, PTL DEF Spec
<1>3. NoticeInv /\ [Next]_vars => [NoticeKeepsTime]_noticeVars
    <2> SUFFICES ASSUME NoticeInv, [Next]_vars PROVE [NoticeKeepsTime]_noticeVars
        OBVIOUS
    <2>1. NoticeNext \/ UNCHANGED noticeVars
        BY DEF Next, vars, others, LogStep, PlateStep, FilmStep, FootageStep, VoiceStep, StoryStep, NoticeStep,
               TapeStep, ReadoutStep, CutsStep
    <2>2. OnScreen /\ card.timed = caption.seq => card.timer # Off
        BY DEF OnScreen, NoticeInv, CardInv
    <2>3. ASSUME NoticeNext PROVE NoticeKeepsTime
        BY <2>2, <2>3, CardHides, ToastGoes, RevealIsOver DEF NoticeInv, RevealInv, NoticeKeepsTime
    <2>4. QED
        BY <2>1, <2>3
<1>4. QED
    BY <1>2, <1>3, PTL DEF Spec, EachHasItsTime, NoticeKeepsTime

----------------------------------------------------------------------------
(* The event log rail (LogView).                                            *)

Held == [from : Nat, to : Nat]

\* The largest scrollTop of a list of events, with and without the chips that let half of them through.
WideReach(e) == Most(0, Least(CAP, Cardinality(e.from..(e.to - 1))) - FITS)
NarrowReach(e) == Most(0, Least(CAP, Cardinality({i \in e.from..(e.to - 1) : i % 2 = 0})) - FITS)
ReachOf(e) == IF narrow THEN NarrowReach(e) ELSE WideReach(e)

LEMMA Reaches ==
    ASSUME NEW e \in Held
    PROVE  WideReach(e) \in Nat /\ NarrowReach(e) \in Nat /\ NarrowReach(e) <= WideReach(e)
<1>1. PICK all, half : all = e.from..(e.to - 1) /\ half = {i \in e.from..(e.to - 1) : i % 2 = 0}
    OBVIOUS
<1>2. IsFiniteSet(all) /\ half \subseteq all
    BY <1>1, FS_Interval DEF Held
<1>3. Cardinality(all) \in Nat /\ Cardinality(half) \in Nat /\ Cardinality(half) <= Cardinality(all)
    BY <1>2, FS_Subset, FS_CardinalityType
<1>4. CAP \in Nat /\ FITS \in Nat
    BY RailAssumption
<1>5. QED
    BY <1>1, <1>3, <1>4 DEF WideReach, NarrowReach, Most, Least

RailType ==
    /\ live \in Held /\ frozen \in Held \cup {None} /\ held \in Held \cup {None}
    /\ narrow \in BOOLEAN /\ pausedNow \in BOOLEAN /\ event \in BOOLEAN /\ raf \in BOOLEAN /\ byUser \in BOOLEAN
    /\ autoTop \in Int /\ top \in Nat /\ reach \in Nat

LEMMA ReachIs ==
    ASSUME RailType
    PROVE  /\ Events \in Held /\ Reach = ReachOf(Events) /\ Reach \in Nat
           /\ frozen = None => Events = live
           /\ frozen # None => Events = frozen
<1>1. Events \in Held
    BY DEF RailType, Events
<1>2. CASE narrow
    <2>1. {i \in Events.from..(Events.to - 1) : narrow => i % 2 = 0}
             = {i \in Events.from..(Events.to - 1) : i % 2 = 0}
        BY <1>2
    <2>2. QED
        BY <1>1, <1>2, <2>1, Reaches DEF Reach, VisibleRows, ReachOf, NarrowReach, Events
<1>3. CASE ~narrow
    <2>1. {i \in Events.from..(Events.to - 1) : narrow => i % 2 = 0} = Events.from..(Events.to - 1)
        BY <1>3
    <2>2. QED
        BY <1>1, <1>3, <2>1, Reaches DEF Reach, VisibleRows, ReachOf, WideReach, Events
<1>4. QED
    BY <1>2, <1>3 DEF RailType

LEMMA ReachIsNext ==
    ASSUME RailType'
    PROVE  /\ Reach' = ReachOf(Events)'
           /\ frozen' = None => Events' = live'
           /\ frozen' # None => Events' = frozen'
<1>1. Events' \in Held
    BY DEF RailType, Events
<1>2. CASE narrow'
    <2>1. {i \in Events'.from..(Events'.to - 1) : narrow' => i % 2 = 0}
             = {i \in Events'.from..(Events'.to - 1) : i % 2 = 0}
        BY <1>2
    <2>2. QED
        BY <1>2, <2>1 DEF Reach, VisibleRows, ReachOf, NarrowReach, Events
<1>3. CASE ~narrow'
    <2>1. {i \in Events'.from..(Events'.to - 1) : narrow' => i % 2 = 0} = Events'.from..(Events'.to - 1)
        BY <1>3
    <2>2. QED
        BY <1>3, <2>1 DEF Reach, VisibleRows, ReachOf, WideReach, Events
<1>4. QED
    BY <1>2, <1>3 DEF RailType

\* The rail is where its rows allow; a list that is laid out needs no frame.
LaidOut ==
    /\ pausedNow <=> held # None
    /\ held = None \/ frozen = None \/ held = frozen
    /\ raf => frozen = None
    /\ top <= reach
    /\ frozen = None /\ ~raf => reach = Reach
    /\ frozen # None /\ held = None => reach = Reach /\ ~event

\* A scroll of the rail's own that is still to be told: it follows, or it had to move up.
OwnScroll ==
    /\ event /\ ~byUser /\ frozen = None /\ held = None => top = autoTop
    /\ held # None /\ frozen = None => top <= ReachOf(held) /\ (event => top = reach /\ reach < ReachOf(held))
    /\ frozen # None /\ (event \/ ~narrow) => top <= ReachOf(frozen)
    /\ frozen # None /\ event /\ ~byUser /\ reach = Reach => top <= NarrowReach(frozen)

RailInv == RailType /\ LaidOut /\ OwnScroll

LEMMA RailStart == Init => RailInv
<1> SUFFICES ASSUME LogInit PROVE RailInv
    BY DEF Init
<1>1. /\ live = [from |-> 0, to |-> 0] /\ narrow = FALSE /\ frozen = None /\ held = None /\ pausedNow = FALSE
      /\ autoTop = -1 /\ top = 0 /\ reach = 0 /\ event = FALSE /\ raf = TRUE /\ byUser = FALSE
    BY DEF LogInit
<1>2. live \in Held /\ -1 \in Int
    BY <1>1 DEF Held
<1>3. RailType
    BY <1>1, <1>2 DEF RailType
<1>4. LaidOut /\ OwnScroll
    BY <1>1 DEF LaidOut, OwnScroll
<1>5. QED
    BY <1>3, <1>4 DEF RailInv

\* A render lays nothing out: the events come, or go, or others are let through.
LEMMA RenderRail ==
    ASSUME RailInv, (\E k \in 1..2 : Batch(k)) \/ RunReset
    PROVE  RailInv'
<1>1. /\ raf' = (frozen = None) /\ UNCHANGED <<narrow, frozen, held, pausedNow, autoTop, top, reach, event, byUser>>
    BY DEF Batch, RunReset, Rendered, Following
<1>2. live' \in Held
    <2>1. KEEP \in Nat /\ live.from \in Nat /\ live.to \in Nat
        BY RailAssumption DEF RailInv, RailType, Held
    <2>2. ASSUME NEW k \in 1..2, Batch(k) PROVE live' \in Held
        BY <2>1, <2>2 DEF Batch, Most, Held
    <2>3. CASE RunReset
        BY <2>1, <2>3 DEF RunReset, Held, RailInv, RailType
    <2>4. QED
        BY <2>2, <2>3
<1>3. RailType'
    BY <1>1, <1>2 DEF RailInv, RailType
<1>4. frozen # None => Reach' = Reach
    BY <1>1 DEF Reach, Events, VisibleRows
<1>5. (held # None => ReachOf(held)' = ReachOf(held)) /\ (frozen # None => ReachOf(frozen)' = ReachOf(frozen))
    BY <1>1 DEF ReachOf
<1>6. LaidOut'
    BY <1>1, <1>4 DEF RailInv, RailType, LaidOut
<1>7. OwnScroll'
    BY <1>1, <1>4, <1>5 DEF RailInv, OwnScroll, NarrowReach
<1>8. QED
    BY <1>3, <1>6, <1>7 DEF RailInv

LEMMA ToggleRail ==
    ASSUME RailInv, ToggleChip
    PROVE  RailInv'
<1>1. /\ narrow' = ~narrow /\ raf' = (frozen = None) /\ held = frozen /\ reach = Reach /\ (byUser => ~event)
      /\ UNCHANGED <<live, frozen, held, pausedNow, autoTop, top, reach, event, byUser>>
    BY DEF ToggleChip, AtRest, Rendered, Following
<1>2. RailType'
    BY <1>1 DEF RailInv, RailType
<1>3. LaidOut'
    BY <1>1 DEF RailInv, RailType, LaidOut
<1>4. CASE frozen = None
    <2>1. OwnScroll'
        BY <1>1, <1>4 DEF RailInv, OwnScroll
    <2>2. QED
        BY <1>2, <1>3, <2>1 DEF RailInv
<1>5. CASE frozen # None
    <2>1. /\ frozen \in Held /\ Reach = ReachOf(frozen) /\ Events = frozen
        BY <1>5, ReachIs DEF RailInv, RailType
    <2>2. Reach' = ReachOf(frozen)'
        BY <1>1, <1>2, <1>5, ReachIsNext
    <2>3. PICK w, n : w = WideReach(frozen) /\ n = NarrowReach(frozen)
        OBVIOUS
    <2>4. w \in Nat /\ n \in Nat /\ n <= w
        BY <2>1, <2>3, Reaches
    <2>5. ReachOf(frozen) = (IF narrow THEN n ELSE w) /\ ReachOf(frozen)' = (IF narrow THEN w ELSE n)
        BY <1>1, <2>3 DEF ReachOf, WideReach, NarrowReach
    <2>6. top \in Nat /\ top <= reach /\ NarrowReach(frozen)' = n
        BY <1>1, <2>3 DEF RailInv, RailType, LaidOut, NarrowReach
    <2>7. OwnScroll'
        <3>1. narrow \in BOOLEAN /\ event \in BOOLEAN
            BY DEF RailInv, RailType
        <3>2. event \/ ~narrow => top <= ReachOf(frozen)
            BY <1>5 DEF RailInv, OwnScroll
        <3>3. event => ~byUser /\ top <= n
            BY <1>1, <1>5, <2>1, <2>3 DEF RailInv, OwnScroll
        <3>4. event \/ narrow => top <= ReachOf(frozen)'
            BY <1>1, <2>1, <2>4, <2>5, <2>6, <3>1, <3>2, <3>3
        <3>5. held' # None /\ frozen' # None /\ (narrow' <=> ~narrow) /\ top' = top /\ event' = event /\ frozen' = frozen
            BY <1>1, <1>5
        <3>6. QED
            BY <2>6, <3>3, <3>4, <3>5 DEF OwnScroll
    <2>8. QED
        BY <1>2, <1>3, <2>7 DEF RailInv
<1>6. QED
    BY <1>2, <1>3, <1>4, <1>5 DEF RailInv

LEMMA ScrollRail ==
    ASSUME RailInv, UserScroll
    PROVE  RailInv'
<1>1. /\ top' \in 0..reach /\ event' = TRUE /\ byUser' = TRUE /\ held = frozen /\ reach = Reach
      /\ UNCHANGED <<live, narrow, frozen, held, pausedNow, autoTop, reach, raf>>
    BY DEF UserScroll, AtRest
<1>2. Reach' = Reach
    BY <1>1 DEF Reach, Events, VisibleRows
<1>3. frozen # None => Reach = ReachOf(frozen) /\ ReachOf(frozen)' = ReachOf(frozen)
    BY <1>1, ReachIs DEF RailInv, ReachOf
<1>4. RailType'
    BY <1>1 DEF RailInv, RailType
<1>5. LaidOut'
    BY <1>1, <1>2, <1>4 DEF RailInv, RailType, LaidOut
<1>6. OwnScroll'
    BY <1>1, <1>2, <1>3, <1>4 DEF RailInv, RailType, OwnScroll
<1>7. QED
    BY <1>4, <1>5, <1>6 DEF RailInv

LEMMA CommitRail ==
    ASSUME RailInv, Commit
    PROVE  RailInv'
<1>1. /\ held # frozen /\ frozen' = held /\ raf' = (held = None)
      /\ UNCHANGED <<live, narrow, held, pausedNow, autoTop, top, reach, event, byUser>>
    BY DEF Commit
<1>2. RailType'
    BY <1>1 DEF RailInv, RailType
<1>3. LaidOut'
    BY <1>1 DEF RailInv, RailType, LaidOut
<1>4. CASE held = None
    <2>1. ~event
        BY <1>1, <1>4 DEF RailInv, LaidOut
    <2>2. OwnScroll'
        BY <1>1, <1>4, <2>1 DEF OwnScroll
    <2>3. QED
        BY <1>2, <1>3, <2>2 DEF RailInv
<1>5. CASE held # None /\ frozen = None
    <2>1. ReachOf(frozen)' = ReachOf(held) /\ Reach' = ReachOf(held)
        BY <1>1, <1>2, <1>5, ReachIs DEF ReachOf, WideReach, NarrowReach, Reach, VisibleRows, Events
    <2>2. top \in Nat /\ reach \in Nat /\ ReachOf(held) \in Nat
        BY <1>5, Reaches DEF RailInv, RailType, ReachOf
    <2>3. top <= ReachOf(held) /\ (event => top = reach /\ reach < ReachOf(held))
        BY <1>5 DEF RailInv, OwnScroll
    <2>4. OwnScroll'
        BY <1>1, <1>5, <2>1, <2>2, <2>3 DEF OwnScroll
    <2>5. QED
        BY <1>2, <1>3, <2>4 DEF RailInv
<1>6. CASE held # None /\ frozen # None
    BY <1>1, <1>6 DEF RailInv, LaidOut
<1>7. QED
    BY <1>4, <1>5, <1>6

\* A frame: what was scrolled is told, then the rail follows, unless it was told to stay, and is laid out.
LEMMA FrameRail ==
    ASSUME RailInv, Frame
    PROVE  /\ RailInv'
           /\ held = None /\ held' # None => byUser
           /\ pausedNow' => /\ pausedNow => held' = held
                            /\ top' = Least(top, Reach)
<1>1. PICK R : R = Reach
    OBVIOUS
<1>2. /\ R \in Nat /\ R = ReachOf(Events)
      /\ frozen = None => R = ReachOf(live)
      /\ frozen # None => R = ReachOf(frozen)
    BY <1>1, ReachIs DEF RailInv
<1>3. PICK at, scrolls, paused : /\ at = Least(top, R)
                                 /\ scrolls = (event /\ at # autoTop)
                                 /\ paused = IF scrolls THEN at # R ELSE pausedNow
    OBVIOUS
<1>4. PICK follows, end : follows = (raf /\ ~paused) /\ end = IF follows THEN R ELSE at
    OBVIOUS
<1>5. /\ event => held = frozen
      /\ pausedNow' = paused
      /\ held' = IF scrolls THEN (IF at = R THEN None ELSE IF held = None THEN live ELSE held) ELSE held
      /\ top' = end /\ event' = (end # top) /\ byUser' = (byUser /\ ~event)
      /\ autoTop' = IF follows THEN R ELSE IF event THEN -1 ELSE autoTop
      /\ raf' = FALSE /\ reach' = R
      /\ UNCHANGED <<live, narrow, frozen>>
    BY <1>1, <1>3, <1>4 DEF Frame, Ours, HeldAfter, MayFollow
<1>6. /\ live \in Held /\ live # None /\ top \in Nat /\ reach \in Nat /\ autoTop \in Int
      /\ raf \in BOOLEAN /\ event \in BOOLEAN /\ pausedNow \in BOOLEAN /\ byUser \in BOOLEAN /\ narrow \in BOOLEAN
    BY RailAssumption DEF RailInv, RailType, Held
<1>7. /\ at \in Nat /\ at <= top /\ at <= R /\ (at # top => at = R /\ R < top) /\ end \in Nat /\ end <= R
    BY <1>2, <1>3, <1>4, <1>6 DEF Least
<1>8. RailType'
    <2>1. paused \in BOOLEAN /\ (byUser /\ ~event) \in BOOLEAN /\ (end # top) \in BOOLEAN
        BY <1>3, <1>6
    <2>2. held' \in Held \cup {None}
        BY <1>5, <1>6 DEF RailInv, RailType
    <2>3. autoTop' \in Int
        BY <1>2, <1>5, <1>6
    <2>4. QED
        BY <1>2, <1>5, <1>7, <2>1, <2>2, <2>3 DEF RailInv, RailType
<1>9. /\ Reach' = R /\ (frozen # None => ReachOf(frozen)' = R)
      /\ NarrowReach(frozen)' = NarrowReach(frozen)
      /\ (narrow /\ frozen # None => R = NarrowReach(frozen))
    BY <1>1, <1>2, <1>5 DEF Reach, VisibleRows, Events, ReachOf, NarrowReach, WideReach
<1>10. /\ pausedNow <=> held # None
       /\ held = None \/ frozen = None \/ held = frozen
       /\ raf => frozen = None
       /\ top <= reach
       /\ frozen = None /\ ~raf => reach = R
       /\ frozen # None /\ held = None => reach = R /\ ~event
    BY <1>1 DEF RailInv, LaidOut
<1>11. /\ event /\ ~byUser /\ frozen = None /\ held = None => top = autoTop
       /\ held # None /\ frozen = None => top <= ReachOf(held)
       /\ frozen # None /\ (event \/ ~narrow) => top <= R
    BY <1>2 DEF RailInv, OwnScroll
<1>12. \A e : ReachOf(e)' = ReachOf(e)
    BY <1>5 DEF ReachOf, WideReach, NarrowReach
<1>13. CASE frozen # None /\ held = None
    <2>1. ~event /\ ~raf /\ ~scrolls /\ ~follows /\ end = top
        BY <1>3, <1>4, <1>6, <1>7, <1>10, <1>13
    <2>2. held' = None /\ top' = top /\ ~event' /\ ~pausedNow'
        BY <1>3, <1>5, <1>10, <1>13, <2>1
    <2>3. LaidOut'
        BY <1>5, <1>7, <1>9, <1>13, <2>1, <2>2 DEF LaidOut
    <2>4. OwnScroll'
        BY <1>5, <1>9, <1>7, <1>13, <2>1, <2>2 DEF OwnScroll
    <2>5. QED
        BY <1>8, <1>13, <2>2, <2>3, <2>4 DEF RailInv
<1>14. CASE frozen # None /\ held = frozen
    <2>1. ~raf /\ ~follows /\ end = at
        BY <1>4, <1>6, <1>10, <1>14
    <2>2. event' => ~event /\ narrow /\ top' = R
        BY <1>5, <1>6, <1>7, <1>11, <1>14, <2>1
    <2>3. held' \in {None, frozen} /\ (pausedNow' <=> held' # None) /\ (held' = None => event)
        BY <1>3, <1>5, <1>10, <1>14
    <2>4. LaidOut'
        BY <1>5, <1>7, <1>9, <1>14, <2>1, <2>2, <2>3 DEF LaidOut
    <2>5. OwnScroll'
        BY <1>5, <1>7, <1>9, <1>14, <2>1, <2>2, <2>3 DEF OwnScroll
    <2>6. pausedNow' => held' = held
        BY <1>14, <2>3
    <2>7. QED
        BY <1>1, <1>3, <1>5, <1>8, <1>14, <2>1, <2>4, <2>5, <2>6 DEF RailInv
<1>15. CASE frozen = None /\ held = None
    <2>1. CASE scrolls /\ at # R
        <3>1. paused /\ ~follows /\ end = at /\ at = top /\ held' = live
            BY <1>3, <1>4, <1>5, <1>7, <1>15, <2>1
        <3>2. byUser
            BY <1>3, <1>6, <1>11, <1>15, <2>1, <3>1
        <3>3. top' = top /\ ~event' /\ pausedNow' /\ held' # None /\ ReachOf(held)' = R
            BY <1>2, <1>5, <1>6, <1>12, <1>15, <3>1 DEF ReachOf
        <3>4. LaidOut'
            BY <1>5, <1>7, <1>9, <1>15, <3>1, <3>3 DEF LaidOut
        <3>5. OwnScroll'
            BY <1>5, <1>7, <1>15, <3>1, <3>3 DEF OwnScroll
        <3>6. ~pausedNow
            BY <1>10, <1>15
        <3>7. QED
            BY <1>1, <1>3, <1>5, <1>8, <3>1, <3>2, <3>4, <3>5, <3>6 DEF RailInv
    <2>2. CASE ~(scrolls /\ at # R)
        <3>1. ~paused /\ held' = None /\ (follows <=> raf)
            BY <1>3, <1>4, <1>5, <1>6, <1>10, <1>15, <2>2
        <3>2. ~raf => end = top
            BY <1>4, <1>6, <1>7, <1>10, <1>15, <3>1
        <3>3. raf => top' = autoTop'
            BY <1>4, <1>5, <3>1
        <3>4. event' => top' = autoTop'
            BY <1>5, <1>6, <3>2, <3>3
        <3>5. LaidOut'
            BY <1>5, <1>7, <1>9, <1>15, <3>1 DEF LaidOut
        <3>6. OwnScroll'
            BY <1>5, <1>15, <3>1, <3>4 DEF OwnScroll
        <3>7. QED
            BY <1>5, <1>8, <3>1, <3>5, <3>6 DEF RailInv
    <2>3. QED
        BY <2>1, <2>2
<1>16. CASE frozen = None /\ held # None
    <2>1. ~event /\ ~scrolls /\ paused /\ ~follows /\ end = at /\ held' = held
        BY <1>3, <1>4, <1>5, <1>6, <1>10, <1>16
    <2>2. top' = at /\ pausedNow' /\ pausedNow
        BY <1>5, <1>10, <1>16, <2>1
    <2>3. PICK r : r = ReachOf(held)
        OBVIOUS
    <2>4. r \in Nat /\ top <= r /\ ReachOf(held)' = r
        <3>1. held \in Held
            BY <1>16 DEF RailInv, RailType
        <3>2. ReachOf(held)' = ReachOf(held)
            BY <1>5, <2>1 DEF ReachOf, WideReach, NarrowReach
        <3>3. QED
            BY <1>11, <1>16, <2>3, <3>1, <3>2, Reaches DEF ReachOf
    <2>5. event' => top' = R /\ R < r
        BY <1>2, <1>5, <1>6, <1>7, <2>1, <2>2, <2>4
    <2>6. LaidOut'
        BY <1>5, <1>7, <1>9, <1>16, <2>1, <2>2 DEF LaidOut
    <2>7. OwnScroll'
        BY <1>5, <1>6, <1>7, <1>16, <2>1, <2>2, <2>4, <2>5 DEF OwnScroll
    <2>8. QED
        BY <1>1, <1>3, <1>8, <1>16, <2>1, <2>2, <2>6, <2>7 DEF RailInv
<1>17. QED
    BY <1>10, <1>13, <1>14, <1>15, <1>16

LEMMA RailStep ==
    ASSUME RailInv, [Next]_vars
    PROVE  RailInv'
<1>1. LogNext \/ UNCHANGED railVars
    BY DEF Next, vars, others, LogStep, PlateStep, FilmStep, FootageStep, VoiceStep, StoryStep, NoticeStep,
           TapeStep, ReadoutStep, CutsStep
<1>2. CASE UNCHANGED railVars
    <2>1. Reach' = Reach
        BY <1>2 DEF railVars, Reach, Events, VisibleRows
    <2>2. RailType' /\ LaidOut'
        BY <1>2, <2>1 DEF railVars, RailInv, RailType, LaidOut
    <2>3. OwnScroll'
        BY <1>2, <2>1 DEF railVars, RailInv, OwnScroll, ReachOf, WideReach, NarrowReach
    <2>4. QED
        BY <2>2, <2>3 DEF RailInv
<1>3. CASE LogNext
    BY <1>3, RenderRail, ToggleRail, ScrollRail, CommitRail, FrameRail DEF LogNext
<1>4. QED
    BY <1>1, <1>2, <1>3

\* What RailHolds says of a step.
RailStays ==
    /\ held = None /\ held' # None => byUser
    /\ pausedNow' => /\ pausedNow => held' = held
                     /\ top' # top => byUser' \/ top' = Least(top, Reach)

\* However events, batches, resets, filters, frames and renders come between: the rail is paused by the user's own
\* scroll only, and while it is, nothing but the user or a list too short moves it (LogRail.tsx).
THEOREM RailIsHeld == Spec => RailHolds
<1>1. RailInv /\ [Next]_vars => RailInv'
    BY RailStep
<1>2. Spec => []RailInv
    BY <1>1, RailStart, PTL DEF Spec
<1>3. RailInv /\ [Next]_vars => [RailStays]_railVars
    <2> SUFFICES ASSUME RailInv, [Next]_vars PROVE [RailStays]_railVars
        OBVIOUS
    <2>1. LogNext \/ UNCHANGED railVars
        BY DEF Next, vars, others, LogStep, PlateStep, FilmStep, FootageStep, VoiceStep, StoryStep, NoticeStep,
               TapeStep, ReadoutStep, CutsStep
    <2>2. ASSUME Frame PROVE RailStays
        BY <2>2, FrameRail DEF RailStays
    <2>3. ASSUME UserScroll PROVE RailStays
        BY <2>3 DEF UserScroll, RailStays
    <2>4. ASSUME (\E k \in 1..2 : Batch(k)) \/ RunReset \/ ToggleChip \/ Commit PROVE RailStays
        BY <2>4 DEF Batch, RunReset, ToggleChip, Commit, RailStays
    <2>5. QED
        BY <2>1, <2>2, <2>3, <2>4 DEF LogNext
<1>4. QED
    BY <1>2, <1>3, PTL DEF Spec, RailHolds, RailStays

----------------------------------------------------------------------------
(* What is said of an attack (Readouts).                                    *)

\* Who pruned a, of some events, as a set.
Struck(events, a) == {e.from : e \in {x \in ToSet(events) : x.to = a}}

\* One turn of the fold in PrunedBy, and the fold over the first n events.
Strikes(out, e, a) == IF e.to = a /\ ~Contains(out, e.from) THEN Append(out, e.from) ELSE out
Folded(it, events, n, a) ==
    it = [s \in SUBSET (1..n) |-> IF s = {} THEN <<>> ELSE Strikes(it[s \ {Max(s)}], events[Max(s)], a)]

\* The fold is defined.
LEMMA FoldExists ==
    ASSUME NEW events, NEW a
    PROVE  \A n \in Nat : \E it : Folded(it, events, n, a)
<1> DEFINE S == {n \in Nat : \E it : Folded(it, events, n, a)}
<1>1. 0 \in S
    <2>1. PICK it : it = [s \in SUBSET (1..0) |-> <<>>]
        OBVIOUS
    <2>2. \A s \in SUBSET (1..0) : s = {}
        OBVIOUS
    <2>3. Folded(it, events, 0, a)
        BY <2>1, <2>2 DEF Folded
    <2>4. QED
        BY <2>3
<1>2. ASSUME NEW n \in S PROVE n + 1 \in S
    <2>1. PICK old : Folded(old, events, n, a)
        OBVIOUS
    <2>2. PICK it : it = [s \in SUBSET (1..(n + 1)) |->
                            IF n + 1 \in s THEN Strikes(old[s \ {n + 1}], events[n + 1], a) ELSE old[s]]
        OBVIOUS
    <2>3. \A s \in SUBSET (1..n) : s \in SUBSET (1..(n + 1)) /\ n + 1 \notin s /\ it[s] = old[s]
        BY <2>2
    <2>4. ASSUME NEW s \in SUBSET (1..(n + 1))
          PROVE  it[s] = IF s = {} THEN <<>> ELSE Strikes(it[s \ {Max(s)}], events[Max(s)], a)
        <3>1. CASE n + 1 \in s
            <4>1. Max(s) = n + 1
                BY <3>1, LastIsMax
            <4>2. s \ {n + 1} \in SUBSET (1..n) /\ s # {}
                BY <3>1
            <4>3. it[s] = Strikes(old[s \ {n + 1}], events[n + 1], a)
                BY <2>2, <3>1
            <4>4. QED
                BY <2>3, <4>1, <4>2, <4>3
        <3>2. CASE n + 1 \notin s
            <4>1. s \in SUBSET (1..n) /\ s \ {Max(s)} \in SUBSET (1..n)
                <5>1. n \in Nat
                    OBVIOUS
                <5>2. ASSUME NEW i \in s PROVE i \in 1..n
                    BY <3>2, <5>1
                <5>3. QED
                    BY <5>2
            <4>2. old[s] = IF s = {} THEN <<>> ELSE Strikes(old[s \ {Max(s)}], events[Max(s)], a)
                BY <2>1, <4>1 DEF Folded
            <4>3. QED
                BY <2>3, <4>1, <4>2
        <3>3. QED
            BY <3>1, <3>2
    <2>5. Folded(it, events, n + 1, a)
        <3>1. it = [s \in SUBSET (1..(n + 1)) |-> it[s]]
            BY <2>2
        <3>2. QED
            BY <2>4, <3>1 DEF Folded
    <2>6. QED
        BY <2>5
<1>3. S = Nat
    <2> HIDE DEF S
    <2>1. S \in SUBSET Nat
        BY DEF S
    <2>2. QED
        BY <1>1, <1>2, <2>1, NumbersBySteps
<1>4. QED
    BY <1>3

LEMMA OneMore ==
    ASSUME NEW T, NEW q \in Seq(T), NEW x \in T
    PROVE  Append(q, x) \in Seq(T) /\ ToSet(Append(q, x)) = ToSet(q) \cup {x}
<1>1. PICK r : r = Append(q, x)
    OBVIOUS
<1>2. /\ r \in Seq(T) /\ Len(r) = Len(q) + 1 /\ r[Len(q) + 1] = x /\ Len(q) \in Nat
      /\ \A i \in 1..Len(q) : r[i] = q[i]
      /\ DOMAIN q = 1..Len(q) /\ DOMAIN r = 1..(Len(q) + 1)
    BY <1>1
<1>3. \A i \in 1..(Len(q) + 1) : i \in 1..Len(q) \/ i = Len(q) + 1
    BY <1>2
<1>4. ToSet(r) \subseteq ToSet(q) \cup {x}
    BY <1>2, <1>3 DEF ToSet
<1>5. ToSet(q) \subseteq ToSet(r)
    <2>1. \A i \in 1..Len(q) : i \in 1..(Len(q) + 1)
        BY <1>2
    <2>2. QED
        BY <1>2, <2>1 DEF ToSet
<1>6. x \in ToSet(r)
    <2>1. Len(q) + 1 \in 1..(Len(q) + 1)
        BY <1>2
    <2>2. QED
        BY <1>2, <2>1 DEF ToSet
<1>7. QED
    BY <1>1, <1>2, <1>4, <1>5, <1>6

LEMMA StruckOneMore ==
    ASSUME NEW A, NEW e, NEW a
    PROVE  {x.from : x \in {y \in A \cup {e} : y.to = a}}
             = {x.from : x \in {y \in A : y.to = a}} \cup (IF e.to = a THEN {e.from} ELSE {})
<1>1. CASE e.to = a
    <2>1. {y \in A \cup {e} : y.to = a} = {y \in A : y.to = a} \cup {e}
        BY <1>1
    <2>2. PICK B : B = {y \in A : y.to = a}
        OBVIOUS
    <2>3. {x.from : x \in B \cup {e}} = {x.from : x \in B} \cup {e.from}
        OBVIOUS
    <2>4. QED
        BY <1>1, <2>1, <2>2, <2>3
<1>2. CASE e.to # a
    <2>1. {y \in A \cup {e} : y.to = a} = {y \in A : y.to = a}
        BY <1>2
    <2>2. QED
        BY <1>2, <2>1
<1>3. QED
    BY <1>1, <1>2

\* Those who pruned a are struck, each once and nobody else.
LEMMA PrunedBySet ==
    ASSUME NEW F, display.events \in Seq([from : F, to : Attackers]), NEW a
    PROVE  ToSet(PrunedBy(a)) = Struck(display.events, a)
<1> DEFINE events == display.events
           N == Len(events)
           First(n) == {e.from : e \in {x \in {events[i] : i \in 1..n} : x.to = a}}
<1>1. N \in Nat /\ DOMAIN events = 1..N /\ \A i \in 1..N : events[i] \in [from : F, to : Attackers]
    <2>1. PICK T : T = [from : F, to : Attackers]
        OBVIOUS
    <2>2. events \in Seq(T)
        BY <2>1
    <2>3. \A i \in 1..Len(events) : events[i] \in T
        BY <2>2, ElementOfSeq
    <2>4. QED
        BY <2>1, <2>2, <2>3
<1>2. \E it : Folded(it, events, N, a)
    BY <1>1, FoldExists
<1>3. PICK it : Folded(it, events, N, a) /\ PrunedBy(a) = it[1..N]
    <2>1. PICK any : any = CHOOSE it : Folded(it, events, N, a)
        OBVIOUS
    <2>2. Folded(any, events, N, a)
        BY <1>2, <2>1
    <2>3. PrunedBy(a) = any[1..N]
        BY <1>1, <2>1, Zenon DEF PrunedBy, FoldLeft, MapThenFoldSet, Folded, Strikes
    <2>4. QED
        BY <2>2, <2>3
<1> HIDE DEF events, N
<1> DEFINE S == {n \in Nat : n <= N => it[1..n] \in Seq(F) /\ ToSet(it[1..n]) = First(n)}
<1>4. 0 \in S
    <2>1. it[1..0] = <<>>
        BY <1>1, <1>3 DEF Folded
    <2>2. <<>> \in Seq(F) /\ ToSet(<<>>) = {} /\ First(0) = {}
        BY DEF ToSet
    <2>3. QED
        BY <2>1, <2>2
<1>5. ASSUME NEW n \in S PROVE n + 1 \in S
    <2>1. SUFFICES ASSUME n + 1 <= N
                   PROVE  it[1..(n + 1)] \in Seq(F) /\ ToSet(it[1..(n + 1)]) = First(n + 1)
        OBVIOUS
    <2>2. n \in Nat /\ n <= N /\ n + 1 \in 1..N
        BY <1>1, <2>1
    <2>3. PICK out, e : out = it[1..n] /\ e = events[n + 1]
        OBVIOUS
    <2>4. out \in Seq(F) /\ ToSet(out) = First(n) /\ e.from \in F
        BY <1>1, <2>2, <2>3
    <2>5. it[1..(n + 1)] = Strikes(out, e, a)
        <3>1. 1..(n + 1) \in SUBSET (1..N) /\ 1..(n + 1) # {} /\ (1..(n + 1)) \ {n + 1} = 1..n
            BY <1>1, <2>2
        <3>2. Max(1..(n + 1)) = n + 1
            BY <2>2, LastIsMax
        <3>3. it[1..(n + 1)] = Strikes(it[(1..(n + 1)) \ {Max(1..(n + 1))}], events[Max(1..(n + 1))], a)
            BY <1>3, <3>1 DEF Folded
        <3>4. QED
            BY <2>3, <3>1, <3>2, <3>3
    <2>6. First(n + 1) = First(n) \cup (IF e.to = a THEN {e.from} ELSE {})
        <3>1. 1..(n + 1) = (1..n) \cup {n + 1}
            BY <2>2
        <3>2. {events[i] : i \in 1..(n + 1)} = {events[i] : i \in 1..n} \cup {e}
            BY <2>3, <3>1
        <3>3. PICK A : A = {events[i] : i \in 1..n}
            OBVIOUS
        <3>4. {x.from : x \in {y \in A \cup {e} : y.to = a}}
                = {x.from : x \in {y \in A : y.to = a}} \cup (IF e.to = a THEN {e.from} ELSE {})
            BY StruckOneMore
        <3>5. QED
            BY <3>2, <3>3, <3>4
    <2>7. CASE e.to = a /\ ~Contains(out, e.from)
        <3>1. Append(out, e.from) \in Seq(F) /\ ToSet(Append(out, e.from)) = ToSet(out) \cup {e.from}
            BY <2>4, OneMore
        <3>2. QED
            BY <2>4, <2>5, <2>6, <2>7, <3>1 DEF Strikes
    <2>8. CASE ~(e.to = a /\ ~Contains(out, e.from))
        <3>1. e.to = a => e.from \in ToSet(out)
            BY <2>4, <2>8 DEF Contains, ToSet
        <3>2. QED
            BY <2>4, <2>5, <2>6, <2>8, <3>1 DEF Strikes
    <2>9. QED
        BY <2>7, <2>8
<1>6. S = Nat
    <2> HIDE DEF S
    <2>1. S \in SUBSET Nat
        BY DEF S
    <2>2. QED
        BY <1>4, <1>5, <2>1, NumbersBySteps
<1>7. ToSet(it[1..N]) = First(N)
    <2>1. N \in S
        BY <1>1, <1>6
    <2>2. N <= N
        BY <1>1
    <2>3. QED
        BY <2>1, <2>2
<1>8. ToSet(events) = {events[i] : i \in 1..N}
    BY <1>1 DEF ToSet
<1>9. QED
    BY <1>3, <1>7, <1>8 DEF Struck, events

\* Who pruned a: told to the page, or still on the bus.
Pruners(a) == Struck(display.events, a) \cup Struck(sim.bus, a)

FaultOfOne == [id : Attackers, victims : SUBSET Members]
Prune == [from : Members, to : Attackers]

AttackTask == [id : Attackers, victims : SUBSET Members, left : SUBSET Members]
Simulation ==
    [mesh : [Members -> SUBSET (Members \cup Attackers)], faults : SUBSET FaultOfOne,
     task : {None} \cup AttackTask, bus : Seq(Prune), blows : Int, lost : SUBSET Attackers]

SimType ==
    /\ sim \in Simulation
    /\ IsFiniteSet(sim.faults)
    /\ \A f, g \in sim.faults : f.id = g.id => f = g
    /\ sim.task # None => sim.task.id \notin LiveIds \cup sim.lost /\ sim.task.left \subseteq sim.task.victims

\* A fault that is begun is none of the snapshot under way.
TakingType ==
    taking # None =>
        /\ taking = [ids |-> taking.ids, holders |-> taking.holders, victims |-> taking.victims,
                     gone |-> taking.gone, eclipsed |-> taking.eclipsed]
        /\ taking.ids \subseteq Attackers /\ IsFiniteSet(taking.ids)
        /\ taking.eclipsed \subseteq Members
        /\ taking.holders # None => DOMAIN taking.holders = taking.ids
        /\ taking.ids \subseteq LiveIds \cup taking.gone
        /\ sim.task # None => sim.task.id \notin taking.ids

\* Attackers are held by their victims only.
HeldByVictims ==
    \A p \in Members : \A a \in sim.mesh[p] \cap Attackers :
        \/ \E f \in sim.faults : f.id = a /\ p \in f.victims
        \/ sim.task # None /\ a = sim.task.id /\ p \in sim.task.victims \ sim.task.left

\* The task holds the meshes that it has been to; of an eclipse's target it takes what was lost with its start.
TaskHolds ==
    sim.task # None =>
        /\ \A p \in sim.task.victims \ sim.task.left :
              /\ sim.task.id \in sim.mesh[p]
              /\ sim.task.id \in EclipseIds => sim.mesh[p] \subseteq Attackers
        /\ sim.task.id \in EclipseIds =>
              \A p \in sim.task.left :
                  /\ sim.mesh[p] \cap Attackers \subseteq sim.lost
                  /\ taking # None => sim.mesh[p] \cap taking.ids \subseteq taking.gone

\* An eclipse that lost nothing has its targets to itself, and one that the snapshot took is there.
EclipsesHold ==
    /\ \A f \in sim.faults : f.id \in EclipseIds \ sim.lost =>
           \A p \in f.victims : f.id \in sim.mesh[p] /\ sim.mesh[p] \subseteq Attackers
    /\ taking # None =>
           \A p \in taking.eclipsed :
               /\ \E f \in sim.faults : f.id \in EclipseIds /\ p \in f.victims
               /\ sim.mesh[p] \subseteq Attackers /\ sim.mesh[p] \cap EclipseIds # {}

\* A victim holds its attacker until it prunes it, if the attacker was not lost.
VictimsPrune ==
    /\ \A f \in sim.faults : f.id \notin sim.lost =>
           \A p \in f.victims : f.id \in sim.mesh[p] \/ p \in Pruners(f.id)
    /\ taking # None =>
           /\ \A a \in taking.ids \ taking.gone : \A p \in taking.victims[a] :
                  p \in Members /\ (a \in sim.mesh[p] \/ p \in Pruners(a))
           /\ taking.holders # None => \A a \in taking.ids : HoldersOf(a) \subseteq taking.holders[a]

\* What the page has of it.
PageTells ==
    /\ display = [nodes |-> display.nodes, mesh |-> display.mesh, events |-> display.events,
                  victims |-> display.victims, lost |-> display.lost, eclipsed |-> display.eclipsed]
    /\ display.events \in Seq(Prune)
    /\ DOMAIN display.nodes \subseteq Attackers /\ IsFiniteSet(DOMAIN display.nodes)
    /\ display.mesh # <<>> =>
           /\ \A a \in DOMAIN display.nodes : MeshHolders(a) \subseteq display.nodes[a]
           /\ \A p \in display.eclipsed :
                  p \in Members /\ display.mesh[p] # {} /\ display.mesh[p] \subseteq Attackers
    /\ \A a \in DOMAIN display.nodes \ display.lost :
           display.nodes[a] = {} => display.victims[a] \subseteq Pruners(a)

AttackInv ==
    SimType /\ TakingType /\ HeldByVictims /\ TaskHolds /\ EclipsesHold /\ VictimsPrune /\ PageTells

LEMMA AttackStart == Init => AttackInv
<1> SUFFICES ASSUME ReadoutInit PROVE AttackInv
    BY DEF Init
<1> USE DEF ReadoutInit
<1>1. Honestly \in [Members -> SUBSET (Members \cup Attackers)]
    BY DEF Honestly
<1>2. <<>> \in Seq(Prune) /\ IsFiniteSet({}) /\ DOMAIN <<>> = {}
    BY FS_EmptySet
<1>3. SimType
    BY <1>1, <1>2 DEF SimType, Simulation
<1>4. TakingType
    BY DEF TakingType
<1>5. HeldByVictims
    <2>1. \A p \in Members : Honestly[p] \cap Attackers = {}
        BY ReadoutAssumption DEF Honestly
    <2>2. QED
        BY <2>1 DEF HeldByVictims
<1>6. TaskHolds /\ EclipsesHold /\ VictimsPrune
    BY DEF TaskHolds, EclipsesHold, VictimsPrune
<1>7. PageTells
    BY <1>2 DEF PageTells, Pruners
<1>8. QED
    BY <1>3, <1>4, <1>5, <1>6, <1>7 DEF AttackInv

LEMMA StartSybilShows ==
    ASSUME AttackInv, NEW a \in SybilIds, NEW victims \in SUBSET Members, StartSybil(a, victims)
    PROVE  AttackInv'
<1>1. /\ sim.task = None /\ a \notin LiveIds /\ (taking # None => a \notin taking.gone)
      /\ taking' = taking /\ display' = display /\ a \in Attackers /\ a \notin EclipseIds
    BY ReadoutAssumption DEF StartSybil, Begin, Attackers
<1>2. /\ sim' = [sim EXCEPT !.task = [id |-> a, victims |-> victims, left |-> victims],
                            !.mesh = sim.mesh, !.blows = @ + 1, !.lost = (@ \cup {}) \ {a}]
    BY DEF StartSybil, Begin
<1>3. /\ sim'.mesh = sim.mesh /\ sim'.faults = sim.faults /\ sim'.bus = sim.bus
      /\ sim'.task = [id |-> a, victims |-> victims, left |-> victims] /\ sim'.lost = sim.lost \ {a}
    BY <1>2 DEF AttackInv, SimType, Simulation
<1>4. SimType'
    <2>1. sim \in Simulation
        BY DEF AttackInv, SimType
    <2>2. [id |-> a, victims |-> victims, left |-> victims] \in AttackTask
        BY <1>1 DEF AttackTask
    <2>3. sim' \in Simulation
        <3>1. PICK task : task = [id |-> a, victims |-> victims, left |-> victims]
            OBVIOUS
        <3>2. sim' = [mesh |-> sim.mesh, faults |-> sim.faults, task |-> task, bus |-> sim.bus,
                      blows |-> sim.blows + 1, lost |-> sim.lost \ {a}]
            BY <1>2, <2>1, <3>1 DEF Simulation
        <3>3. QED
            BY <2>1, <2>2, <3>1, <3>2 DEF Simulation
    <2>4. QED
        BY <1>1, <1>3, <2>3 DEF AttackInv, SimType, LiveIds
<1>5. TakingType'
    BY <1>1, <1>3 DEF AttackInv, TakingType, LiveIds
<1>6. HeldByVictims'
    BY <1>1, <1>3 DEF AttackInv, HeldByVictims
<1>7. TaskHolds'
    BY <1>1, <1>3 DEF TaskHolds
<1>8. \A f \in sim.faults : f.id # a
    BY <1>1 DEF LiveIds
<1>9. EclipsesHold'
    BY <1>1, <1>3, <1>8 DEF AttackInv, EclipsesHold
<1>10. VictimsPrune'
    BY <1>1, <1>3, <1>8 DEF AttackInv, VictimsPrune, Pruners, HoldersOf
<1>11. PageTells'
    BY <1>1, <1>3 DEF AttackInv, PageTells, Pruners, MeshHolders
<1>12. QED
    BY <1>4, <1>5, <1>6, <1>7, <1>9, <1>10, <1>11 DEF AttackInv

LEMMA StartEclipseShows ==
    ASSUME AttackInv, NEW a \in EclipseIds, NEW target \in Members, StartEclipse(a, target)
    PROVE  AttackInv'
<1> DEFINE mesh == [p \in Members |-> sim.mesh[p] \ {target}]
           hit == sim.mesh[target] \cap Attackers
           task == [id |-> a, victims |-> {target}, left |-> {target}]
<1>1. /\ sim.task = None /\ a \notin LiveIds /\ (taking # None => a \notin taking.gone)
      /\ display' = display /\ a \in Attackers
      /\ taking' = IF taking = None THEN None
                   ELSE [taking EXCEPT !.gone = @ \cup hit, !.eclipsed = @ \ {}]
    BY DEF StartEclipse, Begin, Strike, Attackers
<1>2. /\ sim' = [sim EXCEPT !.task = task, !.mesh = mesh, !.blows = @ + 1, !.lost = (@ \cup hit) \ {a}]
    BY DEF StartEclipse, Begin
<1>3. /\ sim'.mesh = mesh /\ sim'.faults = sim.faults /\ sim'.bus = sim.bus
      /\ sim'.task = task /\ sim'.lost = (sim.lost \cup hit) \ {a}
    BY <1>2 DEF AttackInv, SimType, Simulation
<1>4. \A p \in Members : mesh[p] = sim.mesh[p] \ {target} /\ sim.mesh[p] \subseteq Members \cup Attackers
    BY DEF AttackInv, SimType, Simulation
<1>5. taking # None =>
          /\ taking'.ids = taking.ids /\ taking'.holders = taking.holders /\ taking'.victims = taking.victims
          /\ taking'.gone = taking.gone \cup hit /\ taking'.eclipsed = taking.eclipsed
          /\ taking' = [ids |-> taking'.ids, holders |-> taking'.holders, victims |-> taking'.victims,
                        gone |-> taking'.gone, eclipsed |-> taking'.eclipsed]
    BY <1>1 DEF AttackInv, TakingType
<1>6. \A f \in sim.faults : f.id # a
    BY <1>1 DEF LiveIds
<1>7. \A p \in Members : a \notin sim.mesh[p]
    BY <1>1, <1>6 DEF AttackInv, HeldByVictims
<1>8. target \notin Attackers
    BY ReadoutAssumption
<1>9. SimType'
    <2>1. mesh \in [Members -> SUBSET (Members \cup Attackers)]
        BY <1>4
    <2>2. task \in AttackTask
        BY <1>1 DEF AttackTask
    <2>3. sim' \in Simulation
        <3>1. sim \in Simulation /\ (sim.lost \cup hit) \ {a} \in SUBSET Attackers
            BY DEF AttackInv, SimType, Simulation
        <3>2. sim' = [mesh |-> mesh, faults |-> sim.faults, task |-> task, bus |-> sim.bus,
                      blows |-> sim.blows + 1, lost |-> (sim.lost \cup hit) \ {a}]
            BY <1>2, <3>1 DEF Simulation
        <3> HIDE DEF mesh, task, hit
        <3>3. QED
            BY <2>1, <2>2, <3>1, <3>2 DEF Simulation
    <2>4. QED
        BY <1>1, <1>3, <2>3 DEF AttackInv, SimType, LiveIds
<1> HIDE DEF mesh
<1>10. TakingType'
    BY <1>1, <1>3, <1>5 DEF AttackInv, TakingType, LiveIds
<1>11. HeldByVictims'
    BY <1>1, <1>3, <1>4 DEF AttackInv, HeldByVictims
<1>12. TaskHolds'
    <2>1. sim'.mesh[target] \cap Attackers \subseteq sim'.lost
        BY <1>3, <1>4, <1>7
    <2>2. taking' # None => sim'.mesh[target] \cap taking'.ids \subseteq taking'.gone
        BY <1>1, <1>3, <1>4, <1>5 DEF AttackInv, TakingType
    <2>3. QED
        BY <1>3, <2>1, <2>2 DEF TaskHolds
<1>13. EclipsesHold'
    <2>1. ASSUME NEW f \in sim.faults, f.id \in EclipseIds \ sim'.lost, NEW p \in f.victims
          PROVE  f.id \in sim'.mesh[p] /\ sim'.mesh[p] \subseteq Attackers
        <3>1. f.id \notin sim.lost /\ f.id \in Attackers /\ p \in Members
            BY <1>3, <1>6, <2>1 DEF AttackInv, SimType, Simulation, FaultOfOne
        <3>2. f.id \in sim.mesh[p] /\ sim.mesh[p] \subseteq Attackers
            BY <2>1, <3>1 DEF AttackInv, EclipsesHold
        <3>3. QED
            BY <1>3, <1>4, <1>8, <3>1, <3>2
    <2>2. ASSUME taking' # None, NEW p \in taking'.eclipsed
          PROVE  /\ \E f \in sim'.faults : f.id \in EclipseIds /\ p \in f.victims
                 /\ sim'.mesh[p] \subseteq Attackers /\ sim'.mesh[p] \cap EclipseIds # {}
        <3>1. taking # None /\ p \in taking.eclipsed /\ p \in Members
            BY <1>1, <1>5, <2>2 DEF AttackInv, TakingType
        <3>2. sim.mesh[p] \subseteq Attackers /\ sim.mesh[p] \cap EclipseIds # {}
              /\ \E f \in sim.faults : f.id \in EclipseIds /\ p \in f.victims
            BY <3>1 DEF AttackInv, EclipsesHold
        <3>3. QED
            BY <1>3, <1>4, <1>8, <3>1, <3>2 DEF Attackers
    <2>3. QED
        BY <1>3, <2>1, <2>2 DEF EclipsesHold
<1>14. VictimsPrune'
    <2>1. \A x \in Attackers : Pruners(x)' = Pruners(x) /\ HoldersOf(x)' = HoldersOf(x)
        BY <1>1, <1>3, <1>4, <1>8 DEF Pruners, HoldersOf
    <2>2. ASSUME NEW f \in sim.faults, f.id \notin sim'.lost, NEW p \in f.victims
          PROVE  f.id \in sim'.mesh[p] \/ p \in Pruners(f.id)'
        <3>1. f.id \notin sim.lost /\ f.id \in Attackers /\ p \in Members
            BY <1>3, <1>6, <2>2 DEF AttackInv, SimType, Simulation, FaultOfOne
        <3>2. f.id \in sim.mesh[p] \/ p \in Pruners(f.id)
            BY <3>1 DEF AttackInv, VictimsPrune
        <3>3. QED
            BY <1>3, <1>4, <1>8, <2>1, <3>1, <3>2
    <2>3. ASSUME taking' # None
          PROVE  /\ \A x \in taking'.ids \ taking'.gone : \A p \in taking'.victims[x] :
                        p \in Members /\ (x \in sim'.mesh[p] \/ p \in Pruners(x)')
                 /\ taking'.holders # None => \A x \in taking'.ids : HoldersOf(x)' \subseteq taking'.holders[x]
        <3>1. taking # None /\ taking.ids \subseteq Attackers
            BY <1>1, <2>3 DEF AttackInv, TakingType
        <3>2. /\ \A x \in taking.ids \ taking.gone : \A p \in taking.victims[x] :
                        p \in Members /\ (x \in sim.mesh[p] \/ p \in Pruners(x))
              /\ taking.holders # None => \A x \in taking.ids : HoldersOf(x) \subseteq taking.holders[x]
            BY <3>1 DEF AttackInv, VictimsPrune
        <3>3. QED
            BY <1>3, <1>4, <1>5, <1>8, <2>1, <3>1, <3>2
    <2>4. QED
        BY <1>3, <2>2, <2>3 DEF VictimsPrune
<1>15. PageTells'
    BY <1>1, <1>3 DEF AttackInv, PageTells, Pruners, MeshHolders
<1>16. QED
    BY <1>9, <1>10, <1>11, <1>12, <1>13, <1>14, <1>15 DEF AttackInv

LEMMA GraftAttackerShows ==
    ASSUME AttackInv, NEW p \in Members, GraftAttacker(p)
    PROVE  AttackInv'
<1> DEFINE id == sim.task.id
           mesh == [sim.mesh EXCEPT ![p] = IF id \in EclipseIds THEN {id} ELSE sim.mesh[p] \cup {id}]
           task == [sim.task EXCEPT !.left = sim.task.left \ {p}]
<1>1. sim.task # None /\ p \in sim.task.left /\ taking' = taking /\ display' = display
    BY DEF GraftAttacker
<1>2. /\ sim \in Simulation /\ sim.task \in AttackTask /\ id \in Attackers /\ id \notin LiveIds \cup sim.lost
      /\ sim.task.left \subseteq sim.task.victims
    BY <1>1 DEF AttackInv, SimType, Simulation, AttackTask
<1>3. sim' = [mesh |-> mesh, faults |-> sim.faults, task |-> task, bus |-> sim.bus,
              blows |-> sim.blows, lost |-> sim.lost]
    BY <1>2 DEF GraftAttacker, Simulation
<1>4. /\ sim'.mesh = mesh /\ sim'.faults = sim.faults /\ sim'.bus = sim.bus
      /\ sim'.task = task /\ sim'.lost = sim.lost
    BY <1>3
<1>5. /\ task \in AttackTask /\ task.id = id /\ task.victims = sim.task.victims
      /\ task.left = sim.task.left \ {p}
    BY <1>2 DEF AttackTask
<1>6. /\ \A q \in Members : sim.mesh[q] \subseteq Members \cup Attackers
      /\ \A q \in Members : q # p => mesh[q] = sim.mesh[q]
      /\ mesh[p] = IF id \in EclipseIds THEN {id} ELSE sim.mesh[p] \cup {id}
      /\ mesh \in [Members -> SUBSET (Members \cup Attackers)]
    BY <1>2 DEF Simulation
<1>7. task # None
    BY <1>5, ReadoutAssumption DEF AttackTask
<1> HIDE DEF mesh, task, id
<1>8. /\ \A q \in sim.task.victims \ sim.task.left :
              id \in sim.mesh[q] /\ (id \in EclipseIds => sim.mesh[q] \subseteq Attackers)
      /\ id \in EclipseIds =>
              \A q \in sim.task.left :
                  /\ sim.mesh[q] \cap Attackers \subseteq sim.lost
                  /\ taking # None => sim.mesh[q] \cap taking.ids \subseteq taking.gone
    BY <1>1 DEF AttackInv, TaskHolds, id
<1>9. SimType'
    <2>1. sim' \in Simulation
        BY <1>2, <1>3, <1>5, <1>6 DEF Simulation
    <2>2. QED
        BY <1>2, <1>4, <1>5, <2>1 DEF AttackInv, SimType, LiveIds
<1>10. taking # None => /\ id \notin taking.ids /\ taking.ids \subseteq Attackers
                        /\ taking.eclipsed \subseteq Members
    BY <1>1 DEF AttackInv, TakingType, id
<1>11. TakingType'
    BY <1>1, <1>4, <1>5, <1>10 DEF AttackInv, TakingType, LiveIds
<1>12. HeldByVictims'
    <2>1. ASSUME NEW q \in Members, NEW a \in mesh[q] \cap Attackers
          PROVE  \/ \E f \in sim.faults : f.id = a /\ q \in f.victims
                 \/ a = id /\ q \in task.victims \ task.left
        <3>1. q = p /\ a = id => q \in task.victims \ task.left
            BY <1>1, <1>2, <1>5
        <3>2. ~(q = p /\ a = id) => a \in sim.mesh[q]
            BY <1>6
        <3>3. CASE a \in sim.mesh[q]
            BY <1>5, <3>3 DEF AttackInv, HeldByVictims, id
        <3>4. QED
            BY <3>1, <3>2, <3>3
    <2>2. QED
        BY <1>4, <1>5, <1>7, <2>1 DEF HeldByVictims
<1>13. TaskHolds'
    <2>1. ASSUME NEW q \in task.victims \ task.left
          PROVE  id \in mesh[q] /\ (id \in EclipseIds => mesh[q] \subseteq Attackers)
        <3>1. q \in Members /\ (q # p => q \in sim.task.victims \ sim.task.left)
            BY <1>2, <1>5 DEF AttackTask
        <3>2. QED
            BY <1>2, <1>6, <1>8, <3>1
    <2>2. ASSUME id \in EclipseIds, NEW q \in task.left
          PROVE  /\ mesh[q] \cap Attackers \subseteq sim.lost
                 /\ taking # None => mesh[q] \cap taking.ids \subseteq taking.gone
        <3>1. q # p /\ q \in sim.task.left /\ q \in Members
            BY <1>2, <1>5 DEF AttackTask
        <3>2. QED
            BY <1>6, <1>8, <2>2, <3>1
    <2>3. QED
        BY <1>1, <1>4, <1>5, <2>1, <2>2 DEF TaskHolds
\* Whom the graft drives out was lost.
<1>14. \A a \in Attackers : a \in sim.mesh[p] \ mesh[p] =>
            a \in sim.lost /\ (taking # None /\ a \in taking.ids => a \in taking.gone)
    BY <1>1, <1>6, <1>8
<1>15. EclipsesHold'
    <2>1. ASSUME NEW f \in sim.faults, f.id \in EclipseIds \ sim.lost, NEW q \in f.victims
          PROVE  f.id \in mesh[q] /\ mesh[q] \subseteq Attackers
        <3>1. f.id \in Attackers /\ q \in Members
            BY <1>2, <2>1 DEF Simulation, FaultOfOne
        <3>2. f.id \in sim.mesh[q] /\ sim.mesh[q] \subseteq Attackers
            BY <2>1 DEF AttackInv, EclipsesHold
        <3>3. QED
            BY <1>2, <1>6, <1>14, <2>1, <3>1, <3>2
    <2>2. ASSUME taking # None, NEW q \in taking.eclipsed
          PROVE  /\ \E f \in sim.faults : f.id \in EclipseIds /\ q \in f.victims
                 /\ mesh[q] \subseteq Attackers /\ mesh[q] \cap EclipseIds # {}
        <3>1. /\ sim.mesh[q] \subseteq Attackers /\ sim.mesh[q] \cap EclipseIds # {}
              /\ \E f \in sim.faults : f.id \in EclipseIds /\ q \in f.victims
            BY <2>2 DEF AttackInv, EclipsesHold
        <3>2. QED
            BY <1>2, <1>6, <1>10, <2>2, <3>1
    <2>3. QED
        BY <1>1, <1>4, <2>1, <2>2 DEF EclipsesHold
<1>16. VictimsPrune'
    <2>1. \A x \in Attackers : Pruners(x)' = Pruners(x)
        BY <1>1, <1>4 DEF Pruners
    <2>2. \A x \in Attackers : x # id => HoldersOf(x)' \subseteq HoldersOf(x)
        BY <1>4, <1>6 DEF HoldersOf
    <2>3. ASSUME NEW f \in sim.faults, f.id \notin sim.lost, NEW q \in f.victims
          PROVE  f.id \in mesh[q] \/ q \in Pruners(f.id)'
        <3>1. f.id \in Attackers /\ q \in Members
            BY <1>2, <2>3 DEF Simulation, FaultOfOne
        <3>2. f.id \in sim.mesh[q] \/ q \in Pruners(f.id)
            BY <2>3 DEF AttackInv, VictimsPrune
        <3>3. QED
            BY <1>6, <1>14, <2>1, <2>3, <3>1, <3>2
    <2>4. ASSUME taking # None
          PROVE  /\ \A x \in taking.ids \ taking.gone : \A q \in taking.victims[x] :
                        q \in Members /\ (x \in mesh[q] \/ q \in Pruners(x)')
                 /\ taking.holders # None => \A x \in taking.ids : HoldersOf(x)' \subseteq taking.holders[x]
        <3>1. /\ \A x \in taking.ids \ taking.gone : \A q \in taking.victims[x] :
                        q \in Members /\ (x \in sim.mesh[q] \/ q \in Pruners(x))
              /\ taking.holders # None => \A x \in taking.ids : HoldersOf(x) \subseteq taking.holders[x]
            BY <2>4 DEF AttackInv, VictimsPrune
        <3>2. QED
            BY <1>6, <1>10, <1>14, <2>1, <2>2, <2>4, <3>1
    <2>5. QED
        BY <1>1, <1>4, <2>3, <2>4 DEF VictimsPrune
<1>17. PageTells'
    BY <1>1, <1>4 DEF AttackInv, PageTells, Pruners, MeshHolders
<1>18. QED
    BY <1>9, <1>11, <1>12, <1>13, <1>15, <1>16, <1>17 DEF AttackInv

LEMMA RegisteredShows ==
    ASSUME AttackInv, Registered
    PROVE  AttackInv'
<1>1. PICK new : new = [id |-> sim.task.id, victims |-> sim.task.victims]
    OBVIOUS
<1>2. sim.task # None /\ sim.task.left = {} /\ taking' = taking /\ display' = display
    BY DEF Registered
<1>3. sim \in Simulation /\ new \in FaultOfOne /\ new.id = sim.task.id /\ new.id \notin LiveIds \cup sim.lost
      /\ new.victims = sim.task.victims
    BY <1>1, <1>2 DEF AttackInv, SimType, Simulation, AttackTask, FaultOfOne
<1>4. sim' = [mesh |-> sim.mesh, faults |-> sim.faults \cup {new}, task |-> None, bus |-> sim.bus,
              blows |-> sim.blows, lost |-> sim.lost]
    BY <1>1, <1>3 DEF Registered, Simulation
<1>5. /\ sim'.mesh = sim.mesh /\ sim'.faults = sim.faults \cup {new} /\ sim'.bus = sim.bus
      /\ sim'.task = None /\ sim'.lost = sim.lost
    BY <1>4
<1>6. \A p \in new.victims : new.id \in sim.mesh[p] /\ (new.id \in EclipseIds => sim.mesh[p] \subseteq Attackers)
    BY <1>2, <1>3 DEF AttackInv, TaskHolds
<1>7. SimType'
    <2>1. sim' \in Simulation
        BY <1>3, <1>4 DEF Simulation
    <2>2. IsFiniteSet(sim.faults \cup {new})
        BY FS_AddElement DEF AttackInv, SimType
    <2>3. \A f \in sim.faults : f.id # new.id
        BY <1>3 DEF LiveIds
    <2>4. \A f, g \in sim'.faults : f.id = g.id => f = g
        BY <1>5, <2>3 DEF AttackInv, SimType
    <2>5. QED
        BY <1>5, <2>1, <2>2, <2>4 DEF SimType
<1>8. TakingType'
    BY <1>2, <1>5 DEF AttackInv, TakingType, LiveIds
<1>9. HeldByVictims'
    BY <1>2, <1>3, <1>5 DEF AttackInv, HeldByVictims
<1>10. TaskHolds'
    BY <1>5 DEF TaskHolds
<1>11. EclipsesHold'
    <2>1. \A f \in sim'.faults : f.id \in EclipseIds \ sim.lost =>
              \A p \in f.victims : f.id \in sim.mesh[p] /\ sim.mesh[p] \subseteq Attackers
        BY <1>5, <1>6 DEF AttackInv, EclipsesHold
    <2>2. QED
        BY <1>2, <1>5, <2>1 DEF AttackInv, EclipsesHold
<1>12. VictimsPrune'
    <2>1. \A x : Pruners(x)' = Pruners(x) /\ HoldersOf(x)' = HoldersOf(x)
        BY <1>2, <1>5 DEF Pruners, HoldersOf
    <2>2. \A f \in sim'.faults : f.id \notin sim.lost =>
              \A p \in f.victims : f.id \in sim.mesh[p] \/ p \in Pruners(f.id)'
        BY <1>5, <1>6, <2>1 DEF AttackInv, VictimsPrune
    <2>3. QED
        BY <1>2, <1>5, <2>1, <2>2 DEF AttackInv, VictimsPrune
<1>13. PageTells'
    BY <1>2, <1>5 DEF AttackInv, PageTells, Pruners, MeshHolders
<1>14. QED
    BY <1>7, <1>8, <1>9, <1>10, <1>11, <1>12, <1>13 DEF AttackInv

LEMMA PrunesAttackerShows ==
    ASSUME AttackInv, NEW p \in Members, NEW a \in SybilIds, PrunesAttacker(p, a)
    PROVE  AttackInv'
<1> DEFINE mesh == [sim.mesh EXCEPT ![p] = sim.mesh[p] \ {a}]
           e == [from |-> p, to |-> a]
           sent == Append(sim.bus, e)
<1>1. sim.task = None /\ a \in sim.mesh[p] /\ taking' = taking /\ display' = display
      /\ a \in Attackers /\ a \notin EclipseIds
    BY ReadoutAssumption DEF PrunesAttacker, Attackers
<1>2. sim \in Simulation /\ sim.bus \in Seq(Prune) /\ e \in Prune /\ e.from = p /\ e.to = a
    BY <1>1 DEF AttackInv, SimType, Simulation, Prune
<1>3. sim' = [mesh |-> mesh, faults |-> sim.faults, task |-> None, bus |-> sent,
              blows |-> sim.blows, lost |-> sim.lost]
    BY <1>1, <1>2 DEF PrunesAttacker, Simulation
<1>4. /\ sim'.mesh = mesh /\ sim'.faults = sim.faults /\ sim'.bus = sent
      /\ sim'.task = None /\ sim'.lost = sim.lost
    BY <1>3
<1>5. /\ \A q \in Members : sim.mesh[q] \subseteq Members \cup Attackers
      /\ \A q \in Members : q # p => mesh[q] = sim.mesh[q]
      /\ mesh[p] = sim.mesh[p] \ {a}
      /\ mesh \in [Members -> SUBSET (Members \cup Attackers)]
    BY <1>2 DEF Simulation
<1>6. sent \in Seq(Prune) /\ ToSet(sent) = ToSet(sim.bus) \cup {e}
    BY <1>2, OneMore
<1> HIDE DEF mesh, sent, e
<1>7. \A x : Pruners(x)' = Pruners(x) \cup (IF x = a THEN {p} ELSE {})
    <2>1. ASSUME NEW x
          PROVE  Struck(sent, x) = Struck(sim.bus, x) \cup (IF e.to = x THEN {e.from} ELSE {})
        BY <1>6, StruckOneMore DEF Struck
    <2>2. QED
        BY <1>1, <1>2, <1>4, <2>1 DEF Pruners
<1>8. \A q \in Members, x \in Attackers :
          x \in sim.mesh[q] => x \in mesh[q] \/ (x = a /\ q = p)
    BY <1>5
<1>9. \A q \in Members : mesh[q] \subseteq sim.mesh[q]
    BY <1>5
<1>10. SimType'
    <2>1. sim' \in Simulation
        BY <1>2, <1>3, <1>5, <1>6 DEF Simulation
    <2>2. QED
        BY <1>4, <2>1 DEF AttackInv, SimType
<1>11. TakingType'
    BY <1>1, <1>4 DEF AttackInv, TakingType, LiveIds
<1>12. HeldByVictims'
    BY <1>1, <1>4, <1>9 DEF AttackInv, HeldByVictims
<1>13. TaskHolds'
    BY <1>4 DEF TaskHolds
<1>14. EclipsesHold'
    <2>1. ASSUME NEW f \in sim.faults, f.id \in EclipseIds \ sim.lost, NEW q \in f.victims
          PROVE  f.id \in mesh[q] /\ mesh[q] \subseteq Attackers
        <3>1. f.id \in Attackers /\ q \in Members
            BY <1>2, <2>1 DEF Simulation, FaultOfOne
        <3>2. f.id \in sim.mesh[q] /\ sim.mesh[q] \subseteq Attackers
            BY <2>1 DEF AttackInv, EclipsesHold
        <3>3. QED
            BY <1>1, <1>8, <1>9, <2>1, <3>1, <3>2
    <2>2. ASSUME taking # None, NEW q \in taking.eclipsed
          PROVE  /\ \E f \in sim.faults : f.id \in EclipseIds /\ q \in f.victims
                 /\ mesh[q] \subseteq Attackers /\ mesh[q] \cap EclipseIds # {}
        <3>1. /\ sim.mesh[q] \subseteq Attackers /\ sim.mesh[q] \cap EclipseIds # {}
              /\ \E f \in sim.faults : f.id \in EclipseIds /\ q \in f.victims
            BY <2>2 DEF AttackInv, EclipsesHold
        <3>2. q \in Members
            BY <2>2 DEF AttackInv, TakingType
        <3>3. QED
            BY <1>1, <1>8, <1>9, <3>1, <3>2
    <2>3. QED
        BY <1>1, <1>4, <2>1, <2>2 DEF EclipsesHold
<1>15. VictimsPrune'
    <2>1. \A x : HoldersOf(x)' \subseteq HoldersOf(x)
        BY <1>4, <1>9 DEF HoldersOf
    <2>2. ASSUME NEW f \in sim.faults, f.id \notin sim.lost, NEW q \in f.victims
          PROVE  f.id \in mesh[q] \/ q \in Pruners(f.id)'
        <3>1. f.id \in Attackers /\ q \in Members
            BY <1>2, <2>2 DEF Simulation, FaultOfOne
        <3>2. f.id \in sim.mesh[q] \/ q \in Pruners(f.id)
            BY <2>2 DEF AttackInv, VictimsPrune
        <3>3. QED
            BY <1>7, <1>8, <3>1, <3>2
    <2>3. ASSUME taking # None
          PROVE  /\ \A x \in taking.ids \ taking.gone : \A q \in taking.victims[x] :
                        q \in Members /\ (x \in mesh[q] \/ q \in Pruners(x)')
                 /\ taking.holders # None => \A x \in taking.ids : HoldersOf(x)' \subseteq taking.holders[x]
        <3>1. /\ \A x \in taking.ids \ taking.gone : \A q \in taking.victims[x] :
                        q \in Members /\ (x \in sim.mesh[q] \/ q \in Pruners(x))
              /\ taking.holders # None => \A x \in taking.ids : HoldersOf(x) \subseteq taking.holders[x]
            BY <2>3 DEF AttackInv, VictimsPrune
        <3>2. taking.ids \subseteq Attackers
            BY <2>3 DEF AttackInv, TakingType
        <3>3. QED
            BY <1>7, <1>8, <2>1, <3>1, <3>2
    <2>4. QED
        BY <1>1, <1>4, <2>2, <2>3 DEF VictimsPrune
<1>16. PageTells'
    <2>1. \A x : Pruners(x) \subseteq Pruners(x)'
        BY <1>7
    <2>2. QED
        BY <1>1, <2>1 DEF AttackInv, PageTells, MeshHolders
<1>17. QED
    BY <1>10, <1>11, <1>12, <1>13, <1>14, <1>15, <1>16 DEF AttackInv

LEMMA GraftsPeerShows ==
    ASSUME AttackInv, NEW p \in Members, NEW q \in Members, GraftsPeer(p, q)
    PROVE  AttackInv'
<1> DEFINE mesh == [sim.mesh EXCEPT ![p] = sim.mesh[p] \cup {q}]
<1>1. /\ sim.task = None /\ ~SeparatedFrom(p, q) /\ taking' = taking /\ display' = display
      /\ q \notin Attackers /\ sim \in Simulation
    BY ReadoutAssumption DEF GraftsPeer, AttackInv, SimType
<1>2. sim' = [mesh |-> mesh, faults |-> sim.faults, task |-> None, bus |-> sim.bus,
              blows |-> sim.blows, lost |-> sim.lost]
    BY <1>1 DEF GraftsPeer, Simulation
<1>3. /\ sim'.mesh = mesh /\ sim'.faults = sim.faults /\ sim'.bus = sim.bus
      /\ sim'.task = None /\ sim'.lost = sim.lost
    BY <1>2
<1>4. /\ \A r \in Members : sim.mesh[r] \subseteq Members \cup Attackers
      /\ \A r \in Members : r # p => mesh[r] = sim.mesh[r]
      /\ mesh[p] = sim.mesh[p] \cup {q}
      /\ mesh \in [Members -> SUBSET (Members \cup Attackers)]
    BY <1>1 DEF Simulation
<1> HIDE DEF mesh
<1>5. \A r \in Members, x \in Attackers : x \in mesh[r] <=> x \in sim.mesh[r]
    BY <1>1, <1>4
\* p is no target of an eclipse.
<1>6. \A f \in sim.faults : f.id \in EclipseIds => p \notin f.victims
    BY <1>1 DEF SeparatedFrom
<1>7. SimType'
    <2>1. sim' \in Simulation
        BY <1>1, <1>2, <1>4 DEF Simulation
    <2>2. QED
        BY <1>3, <2>1 DEF AttackInv, SimType
<1>8. TakingType'
    BY <1>1, <1>3 DEF AttackInv, TakingType, LiveIds
<1>9. HeldByVictims'
    BY <1>1, <1>3, <1>5 DEF AttackInv, HeldByVictims
<1>10. TaskHolds'
    BY <1>3 DEF TaskHolds
<1>11. EclipsesHold'
    <2>1. ASSUME NEW f \in sim.faults, f.id \in EclipseIds \ sim.lost, NEW r \in f.victims
          PROVE  f.id \in mesh[r] /\ mesh[r] \subseteq Attackers
        <3>1. r \in Members /\ r # p
            BY <1>1, <1>6, <2>1 DEF Simulation, FaultOfOne
        <3>2. QED
            BY <1>4, <2>1, <3>1 DEF AttackInv, EclipsesHold
    <2>2. ASSUME taking # None, NEW r \in taking.eclipsed
          PROVE  /\ \E f \in sim.faults : f.id \in EclipseIds /\ r \in f.victims
                 /\ mesh[r] \subseteq Attackers /\ mesh[r] \cap EclipseIds # {}
        <3>1. /\ sim.mesh[r] \subseteq Attackers /\ sim.mesh[r] \cap EclipseIds # {}
              /\ \E f \in sim.faults : f.id \in EclipseIds /\ r \in f.victims
            BY <2>2 DEF AttackInv, EclipsesHold
        <3>2. r \in Members /\ r # p
            BY <1>6, <2>2, <3>1 DEF AttackInv, TakingType
        <3>3. QED
            BY <1>4, <3>1, <3>2
    <2>3. QED
        BY <1>1, <1>3, <2>1, <2>2 DEF EclipsesHold
<1>12. VictimsPrune'
    <2>1. \A x \in Attackers : HoldersOf(x)' = HoldersOf(x) /\ Pruners(x)' = Pruners(x)
        BY <1>1, <1>3, <1>5 DEF HoldersOf, Pruners
    <2>2. ASSUME NEW f \in sim.faults, f.id \notin sim.lost, NEW r \in f.victims
          PROVE  f.id \in mesh[r] \/ r \in Pruners(f.id)'
        <3>1. f.id \in Attackers /\ r \in Members
            BY <1>1, <2>2 DEF Simulation, FaultOfOne
        <3>2. f.id \in sim.mesh[r] \/ r \in Pruners(f.id)
            BY <2>2 DEF AttackInv, VictimsPrune
        <3>3. QED
            BY <1>5, <2>1, <3>1, <3>2
    <2>3. ASSUME taking # None
          PROVE  /\ \A x \in taking.ids \ taking.gone : \A r \in taking.victims[x] :
                        r \in Members /\ (x \in mesh[r] \/ r \in Pruners(x)')
                 /\ taking.holders # None => \A x \in taking.ids : HoldersOf(x)' \subseteq taking.holders[x]
        <3>1. /\ \A x \in taking.ids \ taking.gone : \A r \in taking.victims[x] :
                        r \in Members /\ (x \in sim.mesh[r] \/ r \in Pruners(x))
              /\ taking.holders # None => \A x \in taking.ids : HoldersOf(x) \subseteq taking.holders[x]
            BY <2>3 DEF AttackInv, VictimsPrune
        <3>2. taking.ids \subseteq Attackers
            BY <2>3 DEF AttackInv, TakingType
        <3>3. QED
            BY <1>5, <2>1, <3>1, <3>2
    <2>4. QED
        BY <1>1, <1>3, <2>2, <2>3 DEF VictimsPrune
<1>13. PageTells'
    BY <1>1, <1>3 DEF AttackInv, PageTells, Pruners, MeshHolders
<1>14. QED
    BY <1>7, <1>8, <1>9, <1>10, <1>11, <1>12, <1>13 DEF AttackInv

\* Meshes lose attackers, and faults are cleared: what is lost is noted, in the snapshot under way too.
Lose(mesh, faults, lost, blows, gone, targets) ==
    /\ sim.task = None /\ display' = display /\ Strike(gone, targets)
    /\ mesh \in [Members -> SUBSET (Members \cup Attackers)] /\ faults \subseteq sim.faults
    /\ lost \subseteq Attackers /\ blows \in Int
    /\ sim' = [mesh |-> mesh, faults |-> faults, task |-> None, bus |-> sim.bus,
               blows |-> blows, lost |-> sim.lost \cup lost]
    /\ \A q \in Members : mesh[q] \subseteq sim.mesh[q]
    /\ \A q \in Members : \A x \in (sim.mesh[q] \cap Attackers) \ mesh[q] :
           /\ x \in gone /\ (x \in lost \/ \A f \in faults : f.id # x)
           /\ x \in EclipseIds => q \in targets
    /\ \A f \in sim.faults \ faults :
           /\ f.id \in gone /\ \A q \in Members : f.id \notin mesh[q]
           /\ f.id \in EclipseIds => f.victims \subseteq targets

LEMMA LoseShows ==
    ASSUME AttackInv, NEW mesh, NEW faults, NEW lost, NEW blows, NEW gone, NEW targets,
           Lose(mesh, faults, lost, blows, gone, targets)
    PROVE  AttackInv'
<1> USE DEF Lose
<1>1. /\ sim'.mesh = mesh /\ sim'.faults = faults /\ sim'.bus = sim.bus
      /\ sim'.task = None /\ sim'.lost = sim.lost \cup lost /\ sim \in Simulation
    BY DEF AttackInv, SimType
<1>2. taking # None =>
          /\ taking'.ids = taking.ids /\ taking'.holders = taking.holders /\ taking'.victims = taking.victims
          /\ taking'.gone = taking.gone \cup gone /\ taking'.eclipsed = taking.eclipsed \ targets
          /\ taking' = [ids |-> taking'.ids, holders |-> taking'.holders, victims |-> taking'.victims,
                        gone |-> taking'.gone, eclipsed |-> taking'.eclipsed]
    BY DEF Strike, AttackInv, TakingType
<1>3. taking' # None => taking # None
    BY DEF Strike
<1>4. SimType'
    <2>1. sim' \in Simulation
        BY <1>1 DEF Simulation
    <2>2. IsFiniteSet(faults)
        BY FS_Subset DEF AttackInv, SimType
    <2>3. \A f, g \in sim'.faults : f.id = g.id => f = g
        BY <1>1 DEF AttackInv, SimType
    <2>4. QED
        BY <1>1, <2>1, <2>2, <2>3 DEF SimType
<1>5. TakingType'
    BY <1>1, <1>2, <1>3 DEF AttackInv, TakingType, LiveIds
<1>6. HeldByVictims'
    <2>1. ASSUME NEW q \in Members, NEW x \in mesh[q] \cap Attackers
          PROVE  \E f \in faults : f.id = x /\ q \in f.victims
        <3>1. PICK f \in sim.faults : f.id = x /\ q \in f.victims
            BY DEF AttackInv, HeldByVictims
        <3>2. QED
            BY <3>1
    <2>2. QED
        BY <1>1, <2>1 DEF HeldByVictims
<1>7. TaskHolds'
    BY <1>1 DEF TaskHolds
<1>8. EclipsesHold'
    <2>1. ASSUME NEW f \in faults, f.id \in EclipseIds \ (sim.lost \cup lost), NEW q \in f.victims
          PROVE  f.id \in mesh[q] /\ mesh[q] \subseteq Attackers
        <3>1. f.id \in Attackers /\ q \in Members
            BY <1>1, <2>1 DEF Simulation, FaultOfOne
        <3>2. f.id \in sim.mesh[q] /\ sim.mesh[q] \subseteq Attackers
            BY <2>1 DEF AttackInv, EclipsesHold
        <3>3. QED
            BY <2>1, <3>1, <3>2
    <2>2. ASSUME taking' # None, NEW q \in taking'.eclipsed
          PROVE  /\ \E f \in faults : f.id \in EclipseIds /\ q \in f.victims
                 /\ mesh[q] \subseteq Attackers /\ mesh[q] \cap EclipseIds # {}
        <3>1. taking # None /\ q \in taking.eclipsed \ targets /\ q \in Members
            BY <1>2, <1>3, <2>2 DEF AttackInv, TakingType
        <3>2. /\ sim.mesh[q] \subseteq Attackers /\ sim.mesh[q] \cap EclipseIds # {}
              /\ \E f \in sim.faults : f.id \in EclipseIds /\ q \in f.victims
            BY <3>1 DEF AttackInv, EclipsesHold
        <3>3. QED
            BY <3>1, <3>2
    <2>3. QED
        BY <1>1, <2>1, <2>2 DEF EclipsesHold
<1>9. VictimsPrune'
    <2>1. \A x : HoldersOf(x)' \subseteq HoldersOf(x) /\ Pruners(x)' = Pruners(x)
        BY <1>1 DEF HoldersOf, Pruners
    <2>2. ASSUME NEW f \in faults, f.id \notin sim.lost \cup lost, NEW q \in f.victims
          PROVE  f.id \in mesh[q] \/ q \in Pruners(f.id)'
        <3>1. f.id \in Attackers /\ q \in Members
            BY <1>1, <2>2 DEF Simulation, FaultOfOne
        <3>2. f.id \in sim.mesh[q] \/ q \in Pruners(f.id)
            BY <2>2 DEF AttackInv, VictimsPrune
        <3>3. QED
            BY <2>1, <2>2, <3>1, <3>2
    <2>3. ASSUME taking' # None
          PROVE  /\ \A x \in taking'.ids \ taking'.gone : \A q \in taking'.victims[x] :
                        q \in Members /\ (x \in mesh[q] \/ q \in Pruners(x)')
                 /\ taking'.holders # None => \A x \in taking'.ids : HoldersOf(x)' \subseteq taking'.holders[x]
        <3>1. /\ \A x \in taking.ids \ taking.gone : \A q \in taking.victims[x] :
                        q \in Members /\ (x \in sim.mesh[q] \/ q \in Pruners(x))
              /\ taking.holders # None => \A x \in taking.ids : HoldersOf(x) \subseteq taking.holders[x]
            BY <1>3, <2>3 DEF AttackInv, VictimsPrune
        <3>2. taking.ids \subseteq Attackers /\ taking # None
            BY <1>3, <2>3 DEF AttackInv, TakingType
        <3>3. QED
            BY <1>2, <2>1, <3>1, <3>2
    <2>4. QED
        BY <1>1, <2>2, <2>3 DEF VictimsPrune
<1>10. PageTells'
    BY <1>1 DEF AttackInv, PageTells, Pruners, MeshHolders
<1>11. QED
    BY <1>4, <1>5, <1>6, <1>7, <1>8, <1>9, <1>10 DEF AttackInv

LEMMA ClearAttackShows ==
    ASSUME AttackInv, NEW f \in sim.faults, ClearAttack(f)
    PROVE  AttackInv'
<1> DEFINE mesh == [p \in Members |-> sim.mesh[p] \ {f.id}]
           faults == sim.faults \ {f}
<1>1. sim.task = None /\ display' = display /\ Strike({f.id}, f.victims) /\ sim \in Simulation
    BY DEF ClearAttack, AttackInv, SimType
<1>2. sim' = [mesh |-> mesh, faults |-> faults, task |-> None, bus |-> sim.bus,
              blows |-> sim.blows, lost |-> sim.lost \cup {}]
    BY <1>1 DEF ClearAttack, Simulation
<1>3. /\ mesh \in [Members -> SUBSET (Members \cup Attackers)] /\ faults \in SUBSET sim.faults
      /\ {} \in SUBSET Attackers /\ sim.blows \in Int
      /\ \A q \in Members : mesh[q] \subseteq sim.mesh[q]
    BY <1>1 DEF Simulation
<1>4. \A q \in Members : \A x \in (sim.mesh[q] \cap Attackers) \ mesh[q] :
          /\ x \in {f.id} /\ (x \in {} \/ \A g \in faults : g.id # x)
          /\ x \in EclipseIds => q \in f.victims
    <2> SUFFICES ASSUME NEW q \in Members, NEW x \in (sim.mesh[q] \cap Attackers) \ mesh[q]
                 PROVE  x = f.id /\ (\A g \in faults : g.id # x) /\ q \in f.victims
        OBVIOUS
    <2>1. x = f.id
        OBVIOUS
    <2>2. \A g \in sim.faults : g.id = f.id => g = f
        BY DEF AttackInv, SimType
    <2>3. \E g \in sim.faults : g.id = x /\ q \in g.victims
        BY <1>1 DEF AttackInv, HeldByVictims
    <2>4. QED
        BY <2>1, <2>2, <2>3
<1>5. \A g \in sim.faults \ faults :
          /\ g.id \in {f.id} /\ \A q \in Members : g.id \notin mesh[q]
          /\ g.id \in EclipseIds => g.victims \subseteq f.victims
    OBVIOUS
<1>6. PICK m, fs, ids, ts, n : m = mesh /\ fs = faults /\ ids = {f.id} /\ ts = f.victims /\ n = sim.blows
    OBVIOUS
<1> HIDE DEF mesh, faults
<1>7. Lose(m, fs, {}, n, ids, ts)
    BY <1>1, <1>2, <1>3, <1>4, <1>5, <1>6 DEF Lose
<1>8. QED
    BY <1>7, LoseShows

LEMMA CrashMemberShows ==
    ASSUME AttackInv, NEW p \in Members, CrashMember(p)
    PROVE  AttackInv'
<1> DEFINE mesh == [q \in Members |-> IF q = p THEN {} ELSE sim.mesh[q] \ {p}]
           struck == sim.mesh[p] \cap Attackers
<1>1. sim.task = None /\ display' = display /\ Strike(struck, {p}) /\ sim \in Simulation
    BY DEF CrashMember, AttackInv, SimType
<1>2. sim' = [mesh |-> mesh, faults |-> sim.faults, task |-> None, bus |-> sim.bus,
              blows |-> sim.blows + 1, lost |-> sim.lost \cup struck]
    BY <1>1 DEF CrashMember, Simulation
<1>3. /\ mesh \in [Members -> SUBSET (Members \cup Attackers)] /\ sim.faults \in SUBSET sim.faults
      /\ struck \in SUBSET Attackers /\ sim.blows + 1 \in Int
      /\ \A q \in Members : mesh[q] \subseteq sim.mesh[q]
    BY <1>1 DEF Simulation
<1>4. \A q \in Members : \A x \in (sim.mesh[q] \cap Attackers) \ mesh[q] :
          /\ x \in struck /\ (x \in struck \/ \A g \in sim.faults : g.id # x)
          /\ x \in EclipseIds => q \in {p}
    BY ReadoutAssumption
<1>5. \A f \in sim.faults \ sim.faults :
          /\ f.id \in struck /\ \A q \in Members : f.id \notin mesh[q]
          /\ f.id \in EclipseIds => f.victims \subseteq {p}
    OBVIOUS
<1>6. PICK m, fs, ids, n : m = mesh /\ fs = sim.faults /\ ids = struck /\ n = sim.blows + 1
    OBVIOUS
<1> HIDE DEF mesh, struck
<1>7. Lose(m, fs, ids, n, ids, {p})
    BY <1>1, <1>2, <1>3, <1>4, <1>5, <1>6 DEF Lose
<1>8. QED
    BY <1>7, LoseShows

LEMMA RewireMembersShows ==
    ASSUME AttackInv, RewireMembers
    PROVE  AttackInv'
<1> DEFINE struck == {a \in Attackers : HoldersOf(a) # {}}
<1>1. sim.task = None /\ taking = None /\ taking' = None /\ display' = display /\ sim \in Simulation
    BY DEF RewireMembers, AttackInv, SimType
<1>2. sim' = [mesh |-> Honestly, faults |-> sim.faults, task |-> None, bus |-> sim.bus,
              blows |-> sim.blows + 1, lost |-> sim.lost \cup struck]
    BY <1>1 DEF RewireMembers, Simulation
<1>3. /\ sim'.mesh = Honestly /\ sim'.faults = sim.faults /\ sim'.bus = sim.bus
      /\ sim'.task = None /\ sim'.lost = sim.lost \cup struck
    BY <1>2
<1>4. \A p \in Members : Honestly[p] \subseteq Members
    BY DEF Honestly
<1>5. SimType'
    <2>1. Honestly \in [Members -> SUBSET (Members \cup Attackers)] /\ struck \subseteq Attackers
        BY DEF Honestly
    <2>2. sim' \in Simulation
        BY <1>1, <1>2, <2>1 DEF Simulation
    <2>3. QED
        BY <1>3, <2>2 DEF AttackInv, SimType
<1>6. TakingType' /\ TaskHolds'
    BY <1>1, <1>3 DEF TakingType, TaskHolds
<1>7. HeldByVictims'
    BY <1>3, <1>4, ReadoutAssumption DEF HeldByVictims
<1>8. \A q \in Members : \A x \in sim.mesh[q] \cap Attackers : x \in struck
    BY DEF HoldersOf
<1>9. \A f \in sim.faults : f.id \in Attackers /\ f.victims \subseteq Members
    BY <1>1 DEF Simulation, FaultOfOne
<1>10. EclipsesHold'
    BY <1>1, <1>3, <1>8, <1>9 DEF AttackInv, EclipsesHold
<1>11. \A x : Pruners(x)' = Pruners(x)
    BY <1>1, <1>3 DEF Pruners
<1>12. VictimsPrune'
    <2>1. ASSUME NEW f \in sim.faults, f.id \notin sim.lost \cup struck, NEW q \in f.victims
          PROVE  q \in Pruners(f.id)'
        <3>1. f.id \in sim.mesh[q] \/ q \in Pruners(f.id)
            BY <2>1 DEF AttackInv, VictimsPrune
        <3>2. QED
            BY <1>8, <1>9, <1>11, <2>1, <3>1
    <2>2. QED
        BY <1>1, <1>3, <2>1 DEF VictimsPrune
<1>13. PageTells'
    BY <1>1, <1>11 DEF AttackInv, PageTells, MeshHolders
<1>14. QED
    BY <1>5, <1>6, <1>7, <1>10, <1>12, <1>13 DEF AttackInv

LEMMA StruckJoined ==
    ASSUME NEW s \in Seq(Prune), NEW t \in Seq(Prune), NEW a
    PROVE  s \o t \in Seq(Prune) /\ Struck(s \o t, a) = Struck(s, a) \cup Struck(t, a)
<1>1. PICK u : u = s \o t
    OBVIOUS
<1>2. /\ u \in Seq(Prune) /\ DOMAIN s = 1..Len(s) /\ DOMAIN t = 1..Len(t) /\ DOMAIN u = 1..(Len(s) + Len(t))
      /\ Len(s) \in Nat /\ Len(t) \in Nat
    BY <1>1
<1>3. \A i \in 1..Len(s) : i \in DOMAIN u /\ u[i] = s[i]
    BY <1>1, <1>2
<1>4. \A i \in 1..Len(t) : Len(s) + i \in DOMAIN u /\ u[Len(s) + i] = t[i]
    BY <1>1, <1>2
<1>5. \A i \in DOMAIN u : i \in 1..Len(s) \/ \E j \in 1..Len(t) : i = Len(s) + j
    <2>1. ASSUME NEW i \in DOMAIN u, i \notin 1..Len(s) PROVE i - Len(s) \in 1..Len(t) /\ i = Len(s) + (i - Len(s))
        BY <1>2, <2>1
    <2>2. QED
        BY <2>1
<1>6. ToSet(u) = ToSet(s) \cup ToSet(t)
    <2>1. ASSUME NEW i \in DOMAIN u PROVE u[i] \in ToSet(s) \cup ToSet(t)
        BY <1>2, <1>3, <1>4, <1>5 DEF ToSet
    <2>2. ToSet(s) \subseteq ToSet(u) /\ ToSet(t) \subseteq ToSet(u)
        BY <1>2, <1>3, <1>4 DEF ToSet
    <2>3. ToSet(u) = {u[i] : i \in DOMAIN u}
        BY DEF ToSet
    <2>4. QED
        BY <2>1, <2>2, <2>3
<1>7. Struck(u, a) = Struck(s, a) \cup Struck(t, a)
    BY <1>6 DEF Struck
<1>8. QED
    BY <1>1, <1>2, <1>7

\* The server's thread changes nothing of what the simulation does.
LEMMA TickSendsShows ==
    ASSUME AttackInv, TickSends
    PROVE  AttackInv'
<1> DEFINE events == display.events \o sim.bus
<1>1. taking = None /\ taking' = None /\ sim \in Simulation /\ sim.bus \in Seq(Prune) /\ display.events \in Seq(Prune)
    BY DEF TickSends, AttackInv, SimType, Simulation, PageTells
<1>2. sim' = [mesh |-> sim.mesh, faults |-> sim.faults, task |-> sim.task, bus |-> <<>>,
              blows |-> sim.blows, lost |-> sim.lost]
    BY <1>1 DEF TickSends, Simulation
<1>3. /\ sim'.mesh = sim.mesh /\ sim'.faults = sim.faults /\ sim'.bus = <<>>
      /\ sim'.task = sim.task /\ sim'.lost = sim.lost
    BY <1>2
<1>4. display' = [nodes |-> display.nodes, mesh |-> display.mesh, events |-> events,
                  victims |-> display.victims, lost |-> display.lost, eclipsed |-> display.eclipsed]
    BY DEF TickSends, AttackInv, PageTells
<1>5. events \in Seq(Prune) /\ \A x : Struck(events, x) = Struck(display.events, x) \cup Struck(sim.bus, x)
    BY <1>1, StruckJoined
<1> HIDE DEF events
<1>6. \A x : Pruners(x)' = Pruners(x)
    <2>1. \A x : Struck(<<>>, x) = {}
        BY DEF Struck, ToSet
    <2>2. QED
        BY <1>3, <1>4, <1>5, <2>1 DEF Pruners
<1>7. SimType'
    <2>1. sim' \in Simulation
        <3>1. <<>> \in Seq(Prune)
            OBVIOUS
        <3>2. QED
            BY <1>1, <1>2, <3>1 DEF Simulation
    <2>2. QED
        BY <1>3, <2>1 DEF AttackInv, SimType, LiveIds
<1>8. TakingType' /\ HeldByVictims' /\ TaskHolds'
    BY <1>1, <1>3 DEF AttackInv, TakingType, HeldByVictims, TaskHolds
<1>9. EclipsesHold' /\ VictimsPrune'
    BY <1>1, <1>3, <1>6 DEF AttackInv, EclipsesHold, VictimsPrune
<1>10. PageTells'
    BY <1>4, <1>5, <1>6 DEF AttackInv, PageTells, MeshHolders
<1>11. QED
    BY <1>7, <1>8, <1>9, <1>10 DEF AttackInv

LEMMA TakeIdsShows ==
    ASSUME AttackInv, TakeIds
    PROVE  AttackInv'
<1> DEFINE victims == [a \in LiveIds |-> UNION {f.victims : f \in {g \in sim.faults : g.id = a}}]
           eclipsed == UNION {f.victims : f \in {g \in sim.faults : g.id \in EclipseIds \ sim.lost}}
<1>1. /\ sim' = sim /\ display' = display /\ sim \in Simulation
      /\ taking' = [ids |-> LiveIds, holders |-> None, victims |-> victims, gone |-> sim.lost, eclipsed |-> eclipsed]
    BY DEF TakeIds, AttackInv, SimType
<1>2. /\ taking'.ids = LiveIds /\ taking'.holders = None /\ taking'.victims = victims
      /\ taking'.gone = sim.lost /\ taking'.eclipsed = eclipsed
    BY <1>1
<1>3. \A f \in sim.faults : f.id \in Attackers /\ f.victims \subseteq Members
    BY <1>1 DEF Simulation, FaultOfOne
<1>4. \A p \in eclipsed : \E f \in sim.faults : f.id \in EclipseIds \ sim.lost /\ p \in f.victims
    OBVIOUS
<1>5. \A a \in LiveIds : \A p \in victims[a] : \E f \in sim.faults : f.id = a /\ p \in f.victims
    OBVIOUS
<1> HIDE DEF victims, eclipsed
<1>6. SimType' /\ HeldByVictims'
    BY <1>1 DEF AttackInv, SimType, HeldByVictims, LiveIds
<1>7. TakingType'
    <2>1. IsFiniteSet(LiveIds)
        <3>1. PICK fs : fs = sim.faults
            OBVIOUS
        <3>2. IsFiniteSet(fs)
            BY <3>1 DEF AttackInv, SimType
        <3>3. PICK ids : ids = LiveIds
            OBVIOUS
        <3>4. [f \in fs |-> f.id] \in Surjection(fs, ids)
            BY <3>1, <3>3 DEF Surjection, LiveIds
        <3>5. QED
            BY <3>2, <3>3, <3>4, FS_Surjection
    <2>2. eclipsed \subseteq Members /\ LiveIds \subseteq Attackers
        BY <1>3, <1>4 DEF LiveIds
    <2>3. LiveIds' = LiveIds /\ (sim'.task # None => sim'.task.id \notin LiveIds)
        BY <1>1 DEF AttackInv, SimType, LiveIds
    <2>4. QED
        BY <1>1, <1>2, <2>1, <2>2, <2>3 DEF TakingType
<1>8. TaskHolds'
    <2>1. LiveIds \subseteq Attackers
        BY <1>3 DEF LiveIds
    <2>2. QED
        BY <1>1, <1>2, <2>1 DEF AttackInv, TaskHolds
<1>9. EclipsesHold'
    <2>1. ASSUME NEW p \in eclipsed
          PROVE  /\ \E f \in sim.faults : f.id \in EclipseIds /\ p \in f.victims
                 /\ sim.mesh[p] \subseteq Attackers /\ sim.mesh[p] \cap EclipseIds # {}
        BY <1>4 DEF AttackInv, EclipsesHold
    <2>2. QED
        BY <1>1, <1>2, <2>1 DEF AttackInv, EclipsesHold
<1>10. VictimsPrune'
    <2>1. ASSUME NEW a \in LiveIds \ sim.lost, NEW p \in victims[a]
          PROVE  p \in Members /\ (a \in sim.mesh[p] \/ p \in Pruners(a))
        BY <1>3, <1>5 DEF AttackInv, VictimsPrune
    <2>2. \A x : Pruners(x)' = Pruners(x)
        BY <1>1 DEF Pruners
    <2>3. QED
        BY <1>1, <1>2, <2>1, <2>2 DEF AttackInv, VictimsPrune
<1>11. PageTells'
    BY <1>1 DEF AttackInv, PageTells, Pruners, MeshHolders
<1>12. QED
    BY <1>6, <1>7, <1>8, <1>9, <1>10, <1>11 DEF AttackInv

LEMMA TakeHoldersShows ==
    ASSUME AttackInv, TakeHolders
    PROVE  AttackInv'
<1> DEFINE holders == [a \in taking.ids |-> HoldersOf(a)]
<1>1. /\ sim' = sim /\ display' = display /\ taking # None
      /\ taking' = [ids |-> taking.ids, holders |-> holders, victims |-> taking.victims,
                    gone |-> taking.gone, eclipsed |-> taking.eclipsed]
    BY DEF TakeHolders, AttackInv, TakingType
<1>2. /\ taking'.ids = taking.ids /\ taking'.holders = holders /\ taking'.victims = taking.victims
      /\ taking'.gone = taking.gone /\ taking'.eclipsed = taking.eclipsed
    BY <1>1
<1>3. DOMAIN holders = taking.ids /\ \A a \in taking.ids : holders[a] = HoldersOf(a)
    OBVIOUS
<1> HIDE DEF holders
<1>4. SimType' /\ HeldByVictims'
    BY <1>1 DEF AttackInv, SimType, HeldByVictims, LiveIds
<1>5. TakingType'
    BY <1>1, <1>2, <1>3 DEF AttackInv, TakingType, LiveIds
<1>6. TaskHolds' /\ EclipsesHold'
    BY <1>1, <1>2 DEF AttackInv, TaskHolds, EclipsesHold
<1>7. VictimsPrune'
    <2>1. \A x : Pruners(x)' = Pruners(x) /\ HoldersOf(x)' = HoldersOf(x)
        BY <1>1 DEF Pruners, HoldersOf
    <2>2. QED
        BY <1>1, <1>2, <1>3, <2>1 DEF AttackInv, VictimsPrune
<1>8. PageTells'
    BY <1>1 DEF AttackInv, PageTells, Pruners, MeshHolders
<1>9. QED
    BY <1>4, <1>5, <1>6, <1>7, <1>8 DEF AttackInv

LEMMA TakeMeshShows ==
    ASSUME AttackInv, TakeMesh
    PROVE  AttackInv'
<1>1. PICK mesh \in {sim.mesh, <<>>} :
          display' = [nodes |-> taking.holders, mesh |-> mesh, events |-> display.events,
                      victims |-> taking.victims, lost |-> taking.gone, eclipsed |-> taking.eclipsed]
    BY DEF TakeMesh
<1>2. taking # None /\ taking.holders # None /\ taking' = None /\ sim' = sim /\ sim \in Simulation
    BY DEF TakeMesh, AttackInv, SimType
<1>3. /\ display'.nodes = taking.holders /\ display'.mesh = mesh /\ display'.events = display.events
      /\ display'.victims = taking.victims /\ display'.lost = taking.gone /\ display'.eclipsed = taking.eclipsed
    BY <1>1
<1>4. \A x : Pruners(x)' = Pruners(x)
    BY <1>2, <1>3 DEF Pruners
<1>5. SimType' /\ HeldByVictims' /\ TakingType' /\ TaskHolds' /\ EclipsesHold' /\ VictimsPrune'
    BY <1>2, <1>4 DEF AttackInv, SimType, HeldByVictims, TakingType, TaskHolds, EclipsesHold, VictimsPrune, LiveIds
<1>6. /\ taking.ids \subseteq Attackers /\ IsFiniteSet(taking.ids) /\ DOMAIN taking.holders = taking.ids
      /\ taking.eclipsed \subseteq Members
    BY <1>2 DEF AttackInv, TakingType
<1>7. mesh # <<>> => mesh = sim.mesh /\ DOMAIN mesh = Members
    BY <1>1, <1>2 DEF Simulation
<1>8. ASSUME mesh # <<>>, NEW a \in taking.ids
      PROVE  MeshHolders(a)' \subseteq taking.holders[a]
    <2>1. MeshHolders(a)' = HoldersOf(a)
        BY <1>3, <1>7, <1>8 DEF MeshHolders, HoldersOf
    <2>2. QED
        BY <1>2, <2>1 DEF AttackInv, VictimsPrune
<1>9. ASSUME mesh # <<>>, NEW p \in taking.eclipsed
      PROVE  p \in Members /\ mesh[p] # {} /\ mesh[p] \subseteq Attackers
    BY <1>2, <1>6, <1>7, <1>9 DEF AttackInv, EclipsesHold
<1>10. ASSUME NEW a \in taking.ids \ taking.gone, taking.holders[a] = {}
       PROVE  taking.victims[a] \subseteq Pruners(a)'
    <2>1. \A p \in Members : a \notin sim.mesh[p]
        BY <1>2, <1>10 DEF AttackInv, VictimsPrune, HoldersOf
    <2>2. QED
        BY <1>2, <1>4, <2>1 DEF AttackInv, VictimsPrune
<1>11. PageTells'
    <2>1. display' = [nodes |-> display'.nodes, mesh |-> display'.mesh, events |-> display'.events,
                      victims |-> display'.victims, lost |-> display'.lost, eclipsed |-> display'.eclipsed]
        BY <1>1
    <2>2. display.events \in Seq(Prune)
        BY DEF AttackInv, PageTells
    <2> HIDE DEF Pruners
    <2>3. QED
        BY <1>3, <1>6, <1>8, <1>9, <1>10, <2>1, <2>2 DEF PageTells
<1>12. QED
    BY <1>5, <1>11 DEF AttackInv

LEMMA ReadoutStepShows == AttackInv /\ [Next]_vars => AttackInv'
<1> SUFFICES ASSUME AttackInv, [Next]_vars PROVE AttackInv'
    OBVIOUS
<1>1. ReadoutNext \/ UNCHANGED readoutVars
    BY DEF Next, vars, others, LogStep, PlateStep, FilmStep, FootageStep, VoiceStep, StoryStep, NoticeStep,
           TapeStep, ReadoutStep, CutsStep
<1>2. ASSUME ReadoutNext PROVE AttackInv'
    BY <1>2, StartSybilShows, StartEclipseShows, GraftAttackerShows, RegisteredShows, PrunesAttackerShows,
       GraftsPeerShows, ClearAttackShows, CrashMemberShows, RewireMembersShows, TickSendsShows, TakeIdsShows,
       TakeHoldersShows, TakeMeshShows
    DEF ReadoutNext
<1>3. CASE UNCHANGED readoutVars
    BY <1>3 DEF readoutVars, AttackInv, SimType, TakingType, HeldByVictims, TaskHolds, EclipsesHold, VictimsPrune,
                PageTells, LiveIds, Pruners, HoldersOf, MeshHolders
<1>4. QED
    BY <1>1, <1>2, <1>3

\* Both readers of a snapshot count its attackers alike.
LEMMA CountsAgree ==
    ASSUME IsFiniteSet(DOMAIN display.nodes)
    PROVE  /\ AttackersCell.attackers - AttackersCell.pruned = RowCounts["attacker"]
           /\ RowCounts["attacker"] = Cardinality({a \in DOMAIN display.nodes : ~IsPruned(a)})
           /\ IsFiniteSet({a \in DOMAIN display.nodes : ~IsPruned(a)})
<1> DEFINE A == DOMAIN display.nodes
           P == {a \in A : IsPruned(a)}
           U == {a \in A : ~IsPruned(a)}
<1>1. RowCounts["attacker"] = Cardinality(U)
    <2>1. DOMAIN Roles = A /\ {a \in A : Roles[a] = "attacker"} = U
        BY DEF Roles
    <2>2. RowCounts["attacker"] = Cardinality({a \in DOMAIN Roles : Roles[a] = "attacker"})
        BY DEF RowCounts
    <2>3. {a \in DOMAIN Roles : Roles[a] = "attacker"} = U
        BY <2>1
    <2>4. QED
        BY <2>2, <2>3
<1>2. AttackersCell.attackers = Cardinality(A) /\ AttackersCell.pruned = Cardinality(P)
    BY DEF AttackersCell
<1> HIDE DEF A
<1>3. IsFiniteSet(A)
    BY DEF A
<1>4. P \in SUBSET A /\ U \in SUBSET A /\ P \cap U = {} /\ P \cup U = A
    OBVIOUS
<1> HIDE DEF P, U
<1>5. IsFiniteSet(P) /\ IsFiniteSet(U)
    BY <1>3, <1>4, FS_Subset
<1>6. Cardinality(P \cup U) = Cardinality(P) + Cardinality(U) - Cardinality(P \cap U)
    BY <1>5, FS_Union
<1>7. Cardinality(P) \in Nat /\ Cardinality(U) \in Nat /\ Cardinality({}) = 0
    BY <1>5, FS_CardinalityType, FS_EmptySet
<1>8. Cardinality(A) - Cardinality(P) = Cardinality(U)
    BY <1>4, <1>6, <1>7
<1>9. QED
    BY <1>1, <1>2, <1>5, <1>8 DEF A, P, U

\* Whatever the simulation does between the reads of a snapshot, and whatever of it is dropped: what the
\* inspector, the rail and the ticker say of an attack fits the mesh that is shown (Inspector.tsx, StatsRail.tsx).
THEOREM AttackIsShown == Spec => []AttackShown
<1>1. Spec => []AttackInv
    BY AttackStart, ReadoutStepShows, PTL DEF Spec
<1>2. AttackInv => AttackShown
    <2> SUFFICES ASSUME AttackInv PROVE AttackShown
        OBVIOUS
    <2> USE DEF AttackInv
    <2>1. ASSUME NEW a \in DOMAIN display.nodes, "pruned" \in Inspected(a).badges
          PROVE  Inspected(a).mesh \in {None, {}}
        <3>1. IsPruned(a)
            BY <2>1 DEF Inspected
        <3>2. display.mesh # <<>> => MeshHolders(a) = {}
            BY <3>1 DEF PageTells, IsPruned
        <3>3. Inspected(a).mesh = IF display.mesh = <<>> THEN None ELSE MeshHolders(a)
            BY DEF Inspected
        <3>4. QED
            BY <3>2, <3>3
    <2>2. RowCounts["attacker"] >= Cardinality({a \in DOMAIN display.nodes : MeshHolders(a) # {}})
        <3> DEFINE struck == {a \in DOMAIN display.nodes : MeshHolders(a) # {}}
                   unpruned == {a \in DOMAIN display.nodes : ~IsPruned(a)}
        <3>1. IsFiniteSet(unpruned) /\ RowCounts["attacker"] = Cardinality(unpruned)
            BY CountsAgree DEF PageTells
        <3>2. struck \in SUBSET unpruned
            <4>1. ASSUME NEW a \in DOMAIN display.nodes, MeshHolders(a) # {} PROVE display.nodes[a] # {}
                <5>1. display.mesh # <<>>
                    BY <4>1 DEF MeshHolders
                <5>2. QED
                    BY <4>1, <5>1 DEF PageTells
            <4>2. QED
                BY <4>1 DEF IsPruned
        <3> HIDE DEF struck, unpruned
        <3>3. /\ Cardinality(struck) <= Cardinality(unpruned) /\ IsFiniteSet(struck)
            BY <3>1, <3>2, FS_Subset
        <3>4. Cardinality(struck) \in Nat /\ Cardinality(unpruned) \in Nat
            BY <3>1, <3>3, FS_CardinalityType
        <3>5. QED
            BY <3>1, <3>3, <3>4 DEF struck
    <2>3. AttackersCell.attackers - AttackersCell.pruned = RowCounts["attacker"]
        BY CountsAgree DEF PageTells
    <2>4. ASSUME display.mesh # <<>>, NEW p \in display.eclipsed
          PROVE  "eclipse target" \in Inspected(p).badges
        <3>1. /\ p \in Members /\ p \notin DOMAIN display.nodes
              /\ display.mesh[p] # {} /\ display.mesh[p] \subseteq Attackers
            BY <2>4, ReadoutAssumption DEF PageTells
        <3>2. display.mesh[p] \notin {None, {}}
            BY <3>1, ReadoutAssumption
        <3>3. QED
            BY <2>4, <3>1, <3>2 DEF Inspected
    <2>5. ASSUME NEW a \in DOMAIN display.nodes \ display.lost, sim.bus = <<>>, IsPruned(a)
          PROVE  display.victims[a] \subseteq ToSet(PrunedBy(a))
        <3>1. display.victims[a] \subseteq Pruners(a)
            BY <2>5 DEF PageTells, IsPruned
        <3>2. Struck(sim.bus, a) = {}
            BY <2>5 DEF Struck, ToSet
        <3>3. ToSet(PrunedBy(a)) = Struck(display.events, a)
            BY PrunedBySet DEF PageTells, Prune
        <3>4. QED
            BY <3>1, <3>2, <3>3 DEF Pruners
    <2>6. QED
        BY <2>1, <2>2, <2>3, <2>4, <2>5 DEF AttackShown
<1>3. QED
    BY <1>1, <1>2, PTL

----------------------------------------------------------------------------
(* The film and the controls of its player (FilmView).                      *)

MediaTask == [does : {"play", "pause", "volumechange", "ended", "error"}, rejects : BOOLEAN]
MediaElement == [paused : BOOLEAN, muted : BOOLEAN, atEnd : BOOLEAN, broken : BOOLEAN, waiting : BOOLEAN]
FilmControls == [hydrated : BOOLEAN, phase : {"poster", "dissolve", "video"}, paused : BOOLEAN,
                 ended : BOOLEAN, muted : BOOLEAN, missing : BOOLEAN]

Turns(task) == task.does = "play" \/ task.does = "pause"

FilmTypes == element \in MediaElement /\ ui \in FilmControls /\ tasks \in Seq(MediaTask)

\* Before hydration nothing was pressed.
Unpressed(e, ts, u) ==
    ~u.hydrated => ts = <<>> /\ e.paused /\ u.paused

\* The last queued play or pause tells what the element does; with none queued the controls show it.
PauseTold(e, ts, u) ==
    /\ (\A i \in 1..Len(ts) : ~Turns(ts[i])) => (u.paused <=> e.paused)
    /\ \A i \in 1..Len(ts) :
           Turns(ts[i]) /\ (\A j \in (i + 1)..Len(ts) : ~Turns(ts[j])) =>
               (ts[i].does = "pause" <=> e.paused)

\* A film that ran to its end was neither played nor paused since.
EndUntouched(e, ts) ==
    e.atEnd /\ ~e.paused => \A i \in 1..Len(ts) : ~Turns(ts[i])

\* With no volumechange queued the controls show whether it is heard.
MuteTold(e, ts, u) ==
    (\A i \in 1..Len(ts) : ts[i].does # "volumechange") => (u.muted <=> e.muted)

FilmKept(e, ts, u) == Unpressed(e, ts, u) /\ PauseTold(e, ts, u) /\ EndUntouched(e, ts) /\ MuteTold(e, ts, u)

FilmInv == FilmTypes /\ FilmKept(element, tasks, ui)

\* Muting keeps what the queue and the controls tell, whether or not the control is set with it.
LEMMA SetMutedKeeps ==
    ASSUME NEW e \in MediaElement, NEW ts \in Seq(MediaTask), NEW u \in FilmControls, NEW m \in BOOLEAN,
           FilmKept(e, ts, u), u.hydrated
    PROVE  LET to == SetMuted(e, ts, m)
           IN  /\ to.element \in MediaElement /\ to.tasks \in Seq(MediaTask)
               /\ to.element.paused = e.paused
               /\ FilmKept(to.element, to.tasks, [u EXCEPT !.muted = m])
               /\ m # e.muted => FilmKept(to.element, to.tasks, u)
<1> DEFINE n == [e EXCEPT !.muted = m]
           ns == IF e.muted = m THEN ts ELSE Append(ts, Task("volumechange", FALSE))
           v == [u EXCEPT !.muted = m]
<1>1. SetMuted(e, ts, m).element = n /\ SetMuted(e, ts, m).tasks = ns
    BY DEF SetMuted
<1>2. n \in MediaElement /\ n.muted = m /\ n.paused = e.paused /\ n.atEnd = e.atEnd
    BY DEF MediaElement
<1>3. v.muted = m /\ v.paused = u.paused /\ v.hydrated = u.hydrated
    BY DEF FilmControls
<1>4. CASE e.muted = m
    <2>1. ns = ts
        BY <1>4
    <2>2. MuteTold(n, ns, v)
        BY <1>2, <1>3 DEF MuteTold
    <2>3. FilmKept(n, ns, v)
        BY <1>2, <1>3, <2>1, <2>2 DEF FilmKept, Unpressed, PauseTold, EndUntouched
    <2> HIDE DEF n, ns, v
    <2>4. FilmKept(SetMuted(e, ts, m).element, SetMuted(e, ts, m).tasks, v)
        BY <1>1, <2>3
    <2>5. /\ SetMuted(e, ts, m).element \in MediaElement /\ SetMuted(e, ts, m).tasks \in Seq(MediaTask)
           /\ SetMuted(e, ts, m).element.paused = e.paused
        BY <1>1, <1>2, <2>1
    <2> QED
        BY <1>4, <2>4, <2>5 DEF v
<1>5. CASE e.muted # m
    <2> DEFINE x == Task("volumechange", FALSE)
    <2>1. ns = Append(ts, x) /\ x \in MediaTask /\ x.does = "volumechange" /\ ~Turns(x)
        BY <1>5 DEF Task, MediaTask, Turns
    <2> HIDE DEF x
    <2>a. /\ Append(ts, x) \in Seq(MediaTask) /\ Len(Append(ts, x)) = Len(ts) + 1 /\ Len(ts) \in Nat
          /\ Append(ts, x)[Len(ts) + 1] = x
          /\ \A i \in 1..Len(ts) : Append(ts, x)[i] = ts[i]
        BY <2>1, Appended
    <2> HIDE DEF ns, n, v
    <2>2. /\ ns \in Seq(MediaTask) /\ Len(ns) = Len(ts) + 1 /\ Len(ts) \in Nat
          /\ ns[Len(ts) + 1] = x
          /\ \A i \in 1..Len(ts) : ns[i] = ts[i]
        BY <2>1, <2>a
    <2>3. MuteTold(n, ns, v) /\ MuteTold(n, ns, u)
        BY <2>1, <2>2 DEF MuteTold
    <2>4. Unpressed(n, ns, u) /\ Unpressed(n, ns, v)
        BY <1>3 DEF Unpressed
    <2>5. EndUntouched(n, ns)
        BY <1>2, <2>1, <2>2 DEF EndUntouched, FilmKept
    <2>6. ASSUME \A i \in 1..Len(ns) : ~Turns(ns[i])
          PROVE  (u.paused <=> n.paused) /\ (v.paused <=> n.paused)
        BY <1>2, <1>3, <2>2, <2>6 DEF FilmKept, PauseTold
    <2>7. ASSUME NEW i \in 1..Len(ns), Turns(ns[i]), \A j \in (i + 1)..Len(ns) : ~Turns(ns[j])
          PROVE  ns[i].does = "pause" <=> n.paused
        <3>1. i \in 1..Len(ts) /\ ns[i] = ts[i]
            BY <2>1, <2>2, <2>7
        <3>2. \A j \in (i + 1)..Len(ts) : ~Turns(ts[j])
            BY <2>2, <2>7
        <3> QED
            BY <1>2, <2>7, <3>1, <3>2 DEF FilmKept, PauseTold
    <2>8. PauseTold(n, ns, u) /\ PauseTold(n, ns, v)
        BY <2>6, <2>7 DEF PauseTold
    <2>9. FilmKept(n, ns, v) /\ FilmKept(n, ns, u)
        BY <2>3, <2>4, <2>5, <2>8 DEF FilmKept
    <2>10. FilmKept(SetMuted(e, ts, m).element, SetMuted(e, ts, m).tasks, v)
           /\ FilmKept(SetMuted(e, ts, m).element, SetMuted(e, ts, m).tasks, u)
        BY <1>1, <2>9
    <2>11. /\ SetMuted(e, ts, m).element \in MediaElement /\ SetMuted(e, ts, m).tasks \in Seq(MediaTask)
           /\ SetMuted(e, ts, m).element.paused = e.paused
        BY <1>1, <1>2, <2>2
    <2> QED
        BY <2>10, <2>11 DEF v
<1>6. e.muted \in BOOLEAN
    BY DEF MediaElement
<1> QED
    BY <1>4, <1>5

\* A play or a pause queued with the change of the element keeps what is told.
LEMMA TurnKeeps ==
    ASSUME NEW e \in MediaElement, NEW ts \in Seq(MediaTask), NEW u \in FilmControls,
           FilmKept(e, ts, u), u.hydrated,
           NEW n \in MediaElement, NEW x \in MediaTask, Turns(x),
           n.muted = e.muted, x.does = "pause" <=> n.paused,
           n.atEnd => n.paused
    PROVE  Append(ts, x) \in Seq(MediaTask) /\ FilmKept(n, Append(ts, x), u)
<1> DEFINE ns == Append(ts, x)
<1>1. /\ ns \in Seq(MediaTask) /\ Len(ns) = Len(ts) + 1 /\ Len(ts) \in Nat
      /\ ns[Len(ts) + 1] = x
      /\ \A i \in 1..Len(ts) : ns[i] = ts[i]
    BY Appended
<1>2. x.does # "volumechange"
    BY DEF Turns
<1> HIDE DEF ns
<1>3. MuteTold(n, ns, u)
    BY <1>1, <1>2 DEF FilmKept, MuteTold
<1>4. Unpressed(n, ns, u) /\ EndUntouched(n, ns)
    BY DEF Unpressed, EndUntouched
<1>5. PauseTold(n, ns, u)
    <2>1. ASSUME NEW i \in 1..Len(ns), Turns(ns[i]), \A j \in (i + 1)..Len(ns) : ~Turns(ns[j])
          PROVE  ns[i].does = "pause" <=> n.paused
        <3>1. i = Len(ns)
            BY <1>1, <2>1
        <3> QED
            BY <1>1, <3>1
    <2>2. ~(\A i \in 1..Len(ns) : ~Turns(ns[i]))
        BY <1>1
    <2> QED
        BY <2>1, <2>2 DEF PauseTold
<1> QED
    BY <1>1, <1>3, <1>4, <1>5 DEF FilmKept, ns

\* play() keeps what is told.
LEMMA PlayKeeps ==
    ASSUME NEW e \in MediaElement, NEW ts \in Seq(MediaTask), NEW u \in FilmControls, NEW ask \in BOOLEAN,
           FilmKept(e, ts, u), u.hydrated
    PROVE  LET to == ElementPlay(e, ts, ask)
           IN  /\ to.element \in MediaElement /\ to.tasks \in Seq(MediaTask)
               /\ FilmKept(to.element, to.tasks, u)
<1> DEFINE n == [e EXCEPT !.paused = FALSE, !.atEnd = FALSE, !.waiting = @ \/ ask]
           x == Task("play", FALSE)
           ns == IF e.paused THEN Append(ts, x) ELSE ts
<1>1. ElementPlay(e, ts, ask) = [element |-> n, tasks |-> ns]
    BY DEF ElementPlay
<1>2. n.muted = e.muted /\ ~n.paused /\ ~n.atEnd
    BY DEF MediaElement
<1>3. n \in MediaElement
    BY DEF MediaElement
<1>4. x \in MediaTask /\ x.does = "play" /\ Turns(x)
    BY DEF Task, MediaTask, Turns
<1> HIDE DEF n, x
<1>5. CASE e.paused
    <2>1. Append(ts, x) \in Seq(MediaTask) /\ FilmKept(n, Append(ts, x), u)
        BY <1>2, <1>3, <1>4, TurnKeeps
    <2> QED
        BY <1>1, <1>3, <1>5, <2>1
<1>6. CASE ~e.paused
    <2>1. FilmKept(n, ts, u)
        BY <1>2, <1>6 DEF FilmKept, Unpressed, PauseTold, EndUntouched, MuteTold
    <2> QED
        BY <1>1, <1>3, <1>6, <2>1
<1> QED
    BY <1>5, <1>6

\* pause() keeps what is told.
LEMMA PauseKeeps ==
    ASSUME NEW e \in MediaElement, NEW ts \in Seq(MediaTask), NEW u \in FilmControls,
           FilmKept(e, ts, u), u.hydrated, ~e.paused
    PROVE  LET to == ElementPause(e, ts)
           IN  /\ to.element \in MediaElement /\ to.tasks \in Seq(MediaTask)
               /\ FilmKept(to.element, to.tasks, u)
<1> DEFINE n == [e EXCEPT !.paused = TRUE, !.waiting = FALSE]
           x == Task("pause", e.waiting)
<1>1. ElementPause(e, ts) = [element |-> n, tasks |-> Append(ts, x)]
    BY DEF ElementPause
<1>2. n \in MediaElement /\ n.muted = e.muted /\ n.paused
    BY DEF MediaElement
<1>3. x \in MediaTask /\ x.does = "pause" /\ Turns(x)
    BY DEF Task, MediaTask, Turns, MediaElement
<1> HIDE DEF n, x
<1>4. Append(ts, x) \in Seq(MediaTask) /\ FilmKept(n, Append(ts, x), u)
    BY <1>2, <1>3, TurnKeeps
<1> QED
    BY <1>1, <1>2, <1>4

\* What is told does not depend on the poster.
LEMMA PhaseKeeps ==
    ASSUME NEW e, NEW ts, NEW u \in FilmControls, NEW v \in FilmControls,
           v.hydrated = u.hydrated, v.paused = u.paused, v.muted = u.muted,
           FilmKept(e, ts, u)
    PROVE  FilmKept(e, ts, v)
    BY DEF FilmKept, Unpressed, PauseTold, EndUntouched, MuteTold

\* The big play button.
LEMMA PlayStep ==
    ASSUME FilmInv, Play, ui.hydrated
    PROVE  FilmInv'
<1> DEFINE set == SetMuted(element, tasks, ui.muted)
           to == ElementPlay(set.element, set.tasks, TRUE)
           e == set.element
           ts == set.tasks
<1>0. element \in MediaElement /\ tasks \in Seq(MediaTask) /\ ui \in FilmControls
    BY DEF FilmInv, FilmTypes
<1>1. ui.muted \in BOOLEAN /\ [ui EXCEPT !.muted = ui.muted] = ui
    BY <1>0 DEF FilmControls
<1>2. e \in MediaElement /\ ts \in Seq(MediaTask) /\ FilmKept(e, ts, ui)
    BY <1>0, <1>1, SetMutedKeeps DEF FilmInv
<1>3. element' = to.element /\ tasks' = to.tasks
    BY Zenon DEF Play, Answers
<1> HIDE DEF set
<1>4. element' \in MediaElement /\ tasks' \in Seq(MediaTask) /\ FilmKept(element', tasks', ui)
    BY <1>0, <1>2, <1>3, PlayKeeps
<1>5. /\ ui' \in FilmControls /\ ui'.hydrated = ui.hydrated /\ ui'.paused = ui.paused
      /\ ui'.muted = ui.muted
    <2>1. ui' = ui \/ \E next \in {"dissolve", "video"} : ui' = [ui EXCEPT !.phase = next]
        BY Zenon DEF Play
    <2> QED
        BY <1>0, <2>1 DEF FilmControls
<1>6. FilmKept(element', tasks', ui')
    BY <1>0, <1>4, <1>5, PhaseKeeps
<1> QED
    BY <1>4, <1>5, <1>6 DEF FilmInv, FilmTypes

\* A call of the element: play, pause or mute.
LEMMA CallStep ==
    ASSUME FilmInv, ui.hydrated, UNCHANGED ui,
           \/ element.paused /\ Answers(ElementPlay(element, tasks, FALSE))
           \/ ~element.paused /\ Answers(ElementPause(element, tasks))
           \/ Answers(SetMuted(element, tasks, ~element.muted))
    PROVE  FilmInv'
<1>0. element \in MediaElement /\ tasks \in Seq(MediaTask) /\ ui \in FilmControls
    BY DEF FilmInv, FilmTypes
<1>1. CASE Answers(ElementPlay(element, tasks, FALSE))
    BY <1>0, <1>1, PlayKeeps DEF FilmInv, FilmTypes, Answers
<1>2. CASE ~element.paused /\ Answers(ElementPause(element, tasks))
    BY <1>0, <1>2, PauseKeeps DEF FilmInv, FilmTypes, Answers
<1>3. CASE Answers(SetMuted(element, tasks, ~element.muted))
    <2>a. element.muted \in BOOLEAN
        BY <1>0 DEF MediaElement
    <2>1. (~element.muted) \in BOOLEAN /\ (~element.muted) # element.muted
        BY <2>a
    <2> DEFINE to == SetMuted(element, tasks, ~element.muted)
    <2>2. to.element \in MediaElement /\ to.tasks \in Seq(MediaTask) /\ FilmKept(to.element, to.tasks, ui)
        BY <1>0, <2>1, SetMutedKeeps DEF FilmInv
    <2>3. element' = to.element /\ tasks' = to.tasks /\ ui' = ui
        BY <1>3 DEF Answers
    <2> HIDE DEF to
    <2> QED
        BY <1>0, <2>2, <2>3 DEF FilmInv, FilmTypes
<1> QED
    BY <1>1, <1>2, <1>3

\* The mute control.
LEMMA MuteStep ==
    ASSUME FilmInv, Mute
    PROVE  FilmInv'
<1>0. element \in MediaElement /\ tasks \in Seq(MediaTask) /\ ui \in FilmControls
    BY DEF FilmInv, FilmTypes
<1> DEFINE to == SetMuted(element, tasks, ~element.muted)
           x == Task("volumechange", FALSE)
<1>1. element' = to.element /\ tasks' = to.tasks /\ ui' = [ui EXCEPT !.muted = ~@] /\ ui.hydrated
    BY DEF Mute, Answers
<1>a. element.muted \in BOOLEAN
    BY <1>0 DEF MediaElement
<1>2. (~element.muted) \in BOOLEAN /\ (~element.muted) # element.muted
    BY <1>a
<1>3. to.element \in MediaElement /\ to.tasks \in Seq(MediaTask) /\ FilmKept(to.element, to.tasks, ui)
    BY <1>0, <1>1, <1>2, SetMutedKeeps DEF FilmInv
<1>4. to.tasks = Append(tasks, x) /\ x \in MediaTask /\ x.does = "volumechange"
    BY <1>2 DEF SetMuted, Task, MediaTask
<1>5. Append(tasks, x)[Len(tasks) + 1] = x /\ Len(Append(tasks, x)) = Len(tasks) + 1 /\ Len(tasks) \in Nat
    BY <1>0, <1>4, Appended
<1> HIDE DEF x
<1>b. Len(Append(tasks, x)) \in 1..Len(Append(tasks, x)) /\ Append(tasks, x)[Len(Append(tasks, x))] = x
    BY <1>5
<1>c. Len(to.tasks) \in 1..Len(to.tasks) /\ to.tasks[Len(to.tasks)] = x
    BY <1>4, <1>b
<1> HIDE DEF to, x
<1>6. ~(\A i \in 1..Len(to.tasks) : to.tasks[i].does # "volumechange")
    BY <1>4, <1>c
<1>7. ui' \in FilmControls /\ ui'.hydrated = ui.hydrated /\ ui'.paused = ui.paused
    BY <1>0, <1>1 DEF FilmControls
<1>8. FilmKept(to.element, to.tasks, ui')
    BY <1>3, <1>6, <1>7 DEF FilmKept, MuteTold, Unpressed, PauseTold
<1> QED
    BY <1>1, <1>3, <1>7, <1>8 DEF FilmInv, FilmTypes

\* One event of the element reaches its handler.
LEMMA TaskStep ==
    ASSUME FilmInv, RunTask
    PROVE  FilmInv'
<1>0. element \in MediaElement /\ tasks \in Seq(MediaTask) /\ ui \in FilmControls /\ tasks # <<>>
    BY DEF FilmInv, FilmTypes, RunTask
<1> DEFINE task == tasks[1]
           stops == task.does = "ended" /\ element.atEnd /\ ~element.paused
           u == Heard(task, ui)
<1>1. /\ ui' = IF task.rejects THEN [u EXCEPT !.phase = "poster"] ELSE u
      /\ element' = IF stops THEN [element EXCEPT !.paused = TRUE] ELSE element
      /\ tasks' = Tail(tasks)
    BY <1>0 DEF RunTask
<1>2. /\ Len(tasks) \in Nat \ {0} /\ task \in MediaTask
      /\ tasks' \in Seq(MediaTask) /\ Len(tasks') = Len(tasks) - 1
      /\ \A i \in 1..Len(tasks') : tasks'[i] = tasks[i + 1]
    BY <1>0, <1>1
<1>3. ui.hydrated
    BY <1>0 DEF FilmInv, FilmKept, Unpressed
<1>4. u \in FilmControls /\ u.hydrated
    BY <1>0, <1>2, <1>3 DEF Heard, Paused, FilmControls, MediaTask, MediaElement
<1>5. /\ task.does = "play" => ~u.paused /\ u.muted = ui.muted
      /\ task.does = "pause" => u.paused /\ u.muted = ui.muted
      /\ task.does = "volumechange" => u.paused = ui.paused /\ u.muted = element.muted
      /\ task.does = "error" => u.paused = ui.paused /\ u.muted = ui.muted
      /\ task.does = "ended" => u.muted = ui.muted /\ (~stops => u.paused = ui.paused) /\ (stops => u.paused)
    BY <1>0, <1>2 DEF Heard, Paused, FilmControls, MediaTask, MediaElement
<1>6. /\ ui' \in FilmControls /\ ui'.hydrated /\ ui'.paused = u.paused /\ ui'.muted = u.muted
    BY <1>1, <1>4 DEF FilmControls
<1>7. /\ element' \in MediaElement /\ element'.muted = element.muted
      /\ stops => element'.paused
      /\ ~stops => element' = element
    BY <1>0, <1>1 DEF MediaElement
<1>8. task.does \in {"play", "pause", "volumechange", "ended", "error"}
    BY <1>2 DEF MediaTask
<1>9. /\ (\A i \in 1..Len(tasks) : ~Turns(tasks[i])) => (ui.paused <=> element.paused)
      /\ \A i \in 1..Len(tasks) :
             Turns(tasks[i]) /\ (\A j \in (i + 1)..Len(tasks) : ~Turns(tasks[j])) =>
                 (tasks[i].does = "pause" <=> element.paused)
      /\ element.atEnd /\ ~element.paused => \A i \in 1..Len(tasks) : ~Turns(tasks[i])
      /\ (\A i \in 1..Len(tasks) : tasks[i].does # "volumechange") => (ui.muted <=> element.muted)
    BY Zenon DEF FilmInv, FilmKept, PauseTold, EndUntouched, MuteTold
<1> HIDE DEF u
<1>10. MuteTold(element', tasks', ui')
    <2> SUFFICES ASSUME \A i \in 1..Len(tasks') : tasks'[i].does # "volumechange"
                 PROVE  ui'.muted <=> element'.muted
        BY Zenon DEF MuteTold
    <2>1. CASE task.does = "volumechange"
        BY <1>5, <1>6, <1>7, <2>1
    <2>2. CASE task.does # "volumechange"
        <3>1. \A i \in 1..Len(tasks) : tasks[i].does # "volumechange"
            <4> TAKE i \in 1..Len(tasks)
            <4>1. CASE i = 1
                BY <2>2, <4>1
            <4>2. CASE i # 1
                <5>1. i - 1 \in 1..Len(tasks') /\ tasks'[i - 1] = tasks[i]
                    BY <1>2, <4>2
                <5> QED
                    BY <5>1
            <4> QED
                BY <4>1, <4>2
        <3>2. u.muted = ui.muted
            BY <1>5, <1>8, <2>2
        <3> QED
            BY <1>6, <1>7, <1>9, <3>1, <3>2
    <2> QED
        BY <2>1, <2>2
<1>11. EndUntouched(element', tasks')
    BY <1>2, <1>7, <1>9 DEF EndUntouched
<1>12. PauseTold(element', tasks', ui')
    <2>1. ASSUME stops
          PROVE  PauseTold(element', tasks', ui')
        <3>1. \A i \in 1..Len(tasks') : ~Turns(tasks'[i])
            BY <1>2, <1>9, <2>1
        <3>2. ui'.paused /\ element'.paused
            BY <1>5, <1>6, <1>7, <2>1
        <3> QED
            BY <3>1, <3>2 DEF PauseTold
    <2>2. ASSUME ~stops
          PROVE  PauseTold(element', tasks', ui')
        <3>1. element' = element
            BY <1>7, <2>2
        <3>2. ASSUME \A i \in 1..Len(tasks') : ~Turns(tasks'[i])
              PROVE  ui'.paused <=> element.paused
            <4>1. \A j \in 2..Len(tasks) : ~Turns(tasks[j])
                <5> TAKE j \in 2..Len(tasks)
                <5>1. j - 1 \in 1..Len(tasks') /\ tasks'[j - 1] = tasks[j]
                    BY <1>2
                <5> QED
                    BY <3>2, <5>1
            <4>2. CASE Turns(task)
                <5>1. task.does = "pause" <=> element.paused
                    BY <1>2, <1>9, <4>1, <4>2
                <5> QED
                    BY <1>5, <1>6, <4>2, <5>1 DEF Turns
            <4>3. CASE ~Turns(task)
                <5>1. \A i \in 1..Len(tasks) : ~Turns(tasks[i])
                    BY <1>2, <4>1, <4>3
                <5>2. u.paused = ui.paused
                    BY <1>5, <1>8, <2>2, <4>3 DEF Turns
                <5> QED
                    BY <1>6, <1>9, <5>1, <5>2
            <4> QED
                BY <4>2, <4>3
        <3>3. ASSUME NEW i \in 1..Len(tasks'), Turns(tasks'[i]),
                     \A j \in (i + 1)..Len(tasks') : ~Turns(tasks'[j])
              PROVE  tasks'[i].does = "pause" <=> element.paused
            <4>1. i + 1 \in 1..Len(tasks) /\ tasks'[i] = tasks[i + 1]
                BY <1>2
            <4>2. \A j \in (i + 2)..Len(tasks) : ~Turns(tasks[j])
                <5> TAKE j \in (i + 2)..Len(tasks)
                <5>1. j - 1 \in (i + 1)..Len(tasks') /\ tasks'[j - 1] = tasks[j]
                    BY <1>2
                <5> QED
                    BY <3>3, <5>1
            <4>3. (i + 1) + 1 = i + 2
                BY <1>2
            <4> QED
                BY <1>9, <3>3, <4>1, <4>2, <4>3
        <3> QED
            BY <3>1, <3>2, <3>3 DEF PauseTold
    <2> QED
        BY <2>1, <2>2
<1>13. Unpressed(element', tasks', ui')
    BY <1>6 DEF Unpressed
<1> QED
    BY <1>2, <1>6, <1>7, <1>10, <1>11, <1>12, <1>13 DEF FilmInv, FilmTypes, FilmKept

\* The file cannot be played.
LEMMA BreakStep ==
    ASSUME FilmInv, Breaks
    PROVE  FilmInv'
<1>0. element \in MediaElement /\ tasks \in Seq(MediaTask) /\ ui \in FilmControls
    BY DEF FilmInv, FilmTypes
<1> DEFINE n == [element EXCEPT !.broken = TRUE, !.waiting = FALSE]
           x == Task("error", element.waiting)
<1>1. n \in MediaElement /\ n.paused = element.paused /\ n.muted = element.muted /\ n.atEnd = element.atEnd
    BY <1>0 DEF MediaElement
<1>2. /\ element' = n /\ ui' = ui
      /\ tasks' = IF ui.hydrated THEN Append(tasks, x) ELSE tasks
    BY DEF Breaks
<1>3. x \in MediaTask /\ ~Turns(x) /\ x.does = "error"
    BY <1>0 DEF Task, MediaTask, MediaElement, Turns
<1> HIDE DEF n, x
<1>4. CASE ~ui.hydrated
    <2>1. tasks' = tasks
        BY <1>2, <1>4
    <2>2. FilmKept(element', tasks', ui')
        BY <1>1, <1>2, <2>1 DEF FilmInv, FilmKept, Unpressed, PauseTold, EndUntouched, MuteTold
    <2> QED
        BY <1>0, <1>1, <1>2, <2>1, <2>2 DEF FilmInv, FilmTypes
<1>5. CASE ui.hydrated
    <2>1. tasks' = Append(tasks, x)
        BY <1>2, <1>5
    <2>2. /\ tasks' \in Seq(MediaTask) /\ Len(tasks') = Len(tasks) + 1 /\ Len(tasks) \in Nat
          /\ tasks'[Len(tasks) + 1] = x
          /\ \A i \in 1..Len(tasks) : tasks'[i] = tasks[i]
        BY <1>0, <1>3, <2>1, Appended
    <2>3. MuteTold(element', tasks', ui')
        BY <1>1, <1>2, <1>3, <2>2 DEF FilmInv, FilmKept, MuteTold
    <2>4. EndUntouched(element', tasks')
        BY <1>1, <1>2, <1>3, <2>2 DEF FilmInv, FilmKept, EndUntouched
    <2>5. Unpressed(element', tasks', ui')
        BY <1>2, <1>5 DEF Unpressed
    <2>6. ASSUME NEW i \in 1..Len(tasks'), Turns(tasks'[i]), \A j \in (i + 1)..Len(tasks') : ~Turns(tasks'[j])
          PROVE  tasks'[i].does = "pause" <=> element'.paused
        <3>1. i \in 1..Len(tasks) /\ tasks'[i] = tasks[i]
            BY <1>3, <2>2, <2>6
        <3>2. \A j \in (i + 1)..Len(tasks) : ~Turns(tasks[j])
            BY <2>2, <2>6
        <3> QED
            BY <1>1, <1>2, <2>6, <3>1, <3>2 DEF FilmInv, FilmKept, PauseTold
    <2>7. ASSUME \A i \in 1..Len(tasks') : ~Turns(tasks'[i])
          PROVE  ui'.paused <=> element'.paused
        BY <1>1, <1>2, <2>2, <2>7 DEF FilmInv, FilmKept, PauseTold
    <2>8. PauseTold(element', tasks', ui')
        BY <2>6, <2>7 DEF PauseTold
    <2> QED
        BY <1>0, <1>1, <1>2, <2>2, <2>3, <2>4, <2>5, <2>8 DEF FilmInv, FilmTypes, FilmKept
<1> QED
    BY <1>4, <1>5

\* The film starts with nothing pressed and nothing queued.
LEMMA FilmStarts == FilmInit => FilmInv
    BY DEF FilmInit, FilmInv, FilmTypes, MediaElement, FilmControls, FilmKept, Unpressed, PauseTold,
         EndUntouched, MuteTold

\* Every step of the film keeps what is told.
LEMMA FilmStays == FilmInv /\ (FilmNext \/ UNCHANGED filmVars) => FilmInv'
<1> SUFFICES ASSUME FilmInv, FilmNext \/ UNCHANGED filmVars
             PROVE  FilmInv'
    OBVIOUS
<1>0. element \in MediaElement /\ tasks \in Seq(MediaTask) /\ ui \in FilmControls
      /\ FilmKept(element, tasks, ui)
    BY DEF FilmInv, FilmTypes
<1>1. CASE Playing
    <2>1. /\ element' \in MediaElement /\ element'.paused = element.paused
          /\ element'.muted = element.muted /\ element'.atEnd = element.atEnd
          /\ tasks' = tasks /\ ui' = ui
        BY <1>0, <1>1 DEF Playing, MediaElement
    <2>2. FilmKept(element', tasks', ui')
        BY <1>0, <2>1 DEF FilmKept, Unpressed, PauseTold, EndUntouched, MuteTold
    <2> QED
        BY <1>0, <2>1, <2>2 DEF FilmInv, FilmTypes
<1>2. CASE ReachesEnd
    <2> DEFINE x == Task("ended", FALSE)
    <2>1. /\ element' \in MediaElement /\ element'.paused = element.paused
          /\ element'.muted = element.muted
          /\ tasks = <<>> /\ tasks' = <<x>> /\ ui' = ui /\ ~element.paused
        BY <1>0, <1>2 DEF ReachesEnd, MediaElement
    <2>2. x \in MediaTask /\ ~Turns(x) /\ x.does = "ended"
        BY DEF Task, MediaTask, Turns
    <2> HIDE DEF x
    <2>3. tasks' \in Seq(MediaTask) /\ Len(tasks') = 1 /\ tasks'[1] = x /\ Len(tasks) = 0
        BY <2>1, <2>2
    <2>4. (ui.paused <=> element.paused) /\ (ui.muted <=> element.muted) /\ ui.hydrated
        BY <1>0, <2>1, <2>3 DEF FilmKept, PauseTold, MuteTold, Unpressed
    <2>6. \A i \in 1..Len(tasks') : tasks'[i] = x
        BY <2>3
    <2> HIDE <2>3
    <2>5. FilmKept(element', tasks', ui')
        <3>1. Unpressed(element', tasks', ui')
            BY <2>1, <2>4 DEF Unpressed
        <3>2. PauseTold(element', tasks', ui')
            BY <2>1, <2>2, <2>4, <2>6 DEF PauseTold
        <3>3. EndUntouched(element', tasks')
            BY <2>2, <2>6 DEF EndUntouched
        <3>4. MuteTold(element', tasks', ui')
            BY <2>1, <2>4 DEF MuteTold
        <3> QED
            BY <3>1, <3>2, <3>3, <3>4 DEF FilmKept
    <2> QED
        BY <1>0, <2>1, <2>3, <2>5 DEF FilmInv, FilmTypes
<1>3. CASE Breaks
    BY <1>3, BreakStep
<1>4. CASE MediaKey
    BY <1>4, CallStep DEF MediaKey
<1>5. CASE HydrateFilm
    <2>1. /\ ui' \in FilmControls /\ ui'.hydrated /\ ui'.paused = ui.paused /\ ui'.muted = ui.muted
          /\ tasks' = tasks /\ element' = element
        BY <1>0, <1>5 DEF HydrateFilm, FilmControls, MediaElement
    <2>2. FilmKept(element', tasks', ui')
        BY <1>0, <2>1 DEF FilmKept, Unpressed, PauseTold, EndUntouched, MuteTold
    <2> QED
        BY <1>0, <2>1, <2>2 DEF FilmInv, FilmTypes
<1>6. CASE PressCover
    BY <1>6, PlayStep DEF PressCover
<1>7. CASE Toggle
    <2>1. ui.hydrated /\ (Play \/ (~element.paused /\ Answers(ElementPause(element, tasks)) /\ UNCHANGED ui))
        BY <1>7 DEF Toggle
    <2>2. CASE Play
        BY <2>1, <2>2, PlayStep
    <2>3. CASE ~element.paused /\ Answers(ElementPause(element, tasks)) /\ UNCHANGED ui
        BY <2>1, <2>3, CallStep
    <2> QED
        BY <2>1, <2>2, <2>3
<1>8. CASE Mute
    BY <1>8, MuteStep
<1>9. CASE Dissolved
    <2>1. /\ ui' \in FilmControls /\ ui'.hydrated = ui.hydrated /\ ui'.paused = ui.paused /\ ui'.muted = ui.muted
          /\ tasks' = tasks /\ element' = element
        BY <1>0, <1>9 DEF Dissolved, FilmControls
    <2>2. FilmKept(element', tasks', ui')
        BY <1>0, <2>1 DEF FilmKept, Unpressed, PauseTold, EndUntouched, MuteTold
    <2> QED
        BY <1>0, <2>1, <2>2 DEF FilmInv, FilmTypes
<1>10. CASE RunTask
    BY <1>10, TaskStep
<1>11. CASE UNCHANGED filmVars
    BY <1>0, <1>11 DEF filmVars, FilmInv, FilmTypes
<1> QED
    BY <1>1, <1>2, <1>3, <1>4, <1>5, <1>6, <1>7, <1>8, <1>9, <1>10, <1>11 DEF FilmNext

\* With nothing queued the controls show what the film does.
LEMMA FilmAgrees == FilmInv => ControlsAgree
<1> SUFFICES ASSUME FilmInv, ui.hydrated, tasks = <<>>
             PROVE  ui.paused = element.paused /\ ui.muted = element.muted
    BY DEF ControlsAgree
<1>1. Len(tasks) = 0
    OBVIOUS
<1>2. (ui.paused <=> element.paused) /\ (ui.muted <=> element.muted)
    BY <1>1 DEF FilmInv, FilmKept, PauseTold, MuteTold
<1>3. ui.paused \in BOOLEAN /\ element.paused \in BOOLEAN /\ ui.muted \in BOOLEAN /\ element.muted \in BOOLEAN
    BY DEF FilmInv, FilmTypes, MediaElement, FilmControls
<1> QED
    BY <1>2, <1>3

----------------------------------------------------------------------------
(* The footage: a recording of a shot, frame by frame (Footage).            *)

\* The cursor's whole path in an unbroken recording of s, and the part of it before frame `at`.
Kind(s, x) == IF x = Lands(s) THEN "click" ELSE "move"
FullPath(s) == IF s.click = None THEN {} ELSE {[t |-> x, kind |-> Kind(s, x)] : x \in s.click..Lands(s)}
PathBefore(s, at) == {e \in FullPath(s) : e.t < at}

Recordings == [shot : Shots, at : Nat, clock : Nat, fired : BOOLEAN, glide : Nat \union {None},
               opened : BOOLEAN, cursor : SUBSET CursorEvents]
Pictures == [look : {s.look : s \in Shots}, clock : Nat, opened : BOOLEAN]

Fires(s, at) == s.click # None /\ at > s.click
IsOpen(s, at) == s.click # None /\ at > Lands(s)

\* What a recording of the shot has come to.
Recorded(r) ==
    /\ r \in Recordings
    /\ r.shot = shot /\ r.at \in 0..shot.frames
    /\ r.clock = (IF r.at = 0 THEN 0 ELSE r.at - 1)
    /\ r.fired <=> Fires(shot, r.at)
    /\ r.glide = IF Fires(shot, r.at) /\ ~IsOpen(shot, r.at) THEN shot.click ELSE None
    /\ r.opened <=> IsOpen(shot, r.at)
    /\ r.cursor = PathBefore(shot, r.at)
    /\ Len(disk) >= r.at

FramesKept == disk \in Seq(Pictures) /\ \A i \in 1..Len(disk) : disk[i] = ShotAt(shot, i - 1)

FootageInv ==
    /\ shot \in Shots /\ torn \in BOOLEAN
    /\ FramesKept
    /\ recorder # None => Recorded(recorder)
    /\ ~torn /\ recorder = None /\ disk # <<>> => side = FullPath(shot)
    /\ FootageIsTheShot

\* The times of a shot.
LEMMA AShot ==
    ASSUME NEW s \in Shots
    PROVE  /\ s.frames \in Nat \ {0} /\ s.skip \in Nat /\ s.skip < s.frames
           /\ s.click # None => s.click \in Nat /\ Lands(s) \in Nat /\ s.click <= Lands(s) /\ Lands(s) < s.frames
           /\ GLIDE \in Nat \ {0}
           /\ None \notin Nat
    BY FootageAssumption DEF Lands

\* Every frame of a shot is a picture.
LEMMA ShotIsAPicture ==
    ASSUME NEW s \in Shots, NEW t \in Nat
    PROVE  ShotAt(s, t) \in Pictures
    BY DEF ShotAt, Pictures

\* The newest of some events is the one no other is later than.
LEMMA NewestIs ==
    ASSUME NEW E, NEW m \in E, m.t \in Int, \A d \in E : d.t \in Int /\ d.t <= m.t
    PROVE  Newest(E).t = m.t
<1>1. \E e \in E : \A d \in E : d.t <= e.t
    OBVIOUS
<1>2. Newest(E) \in E /\ \A d \in E : d.t <= Newest(E).t
    BY <1>1 DEF Newest
<1>3. Newest(E).t \in Int /\ Newest(E).t <= m.t /\ m.t <= Newest(E).t
    BY <1>2
<1> QED
    BY <1>3

\* What is in the cursor's path.
LEMMA InFullPath ==
    ASSUME NEW s \in Shots, s.click # None
    PROVE  /\ \A x \in s.click..Lands(s) : [t |-> x, kind |-> Kind(s, x)] \in FullPath(s)
           /\ \A e \in FullPath(s) : e.t \in s.click..Lands(s) /\ e = [t |-> e.t, kind |-> Kind(s, e.t)]
    BY DEF FullPath

\* What is left of the cursor's path when the start of the recording is cut off.
LEMMA InTrimmed ==
    ASSUME NEW s \in Shots, s.click # None, s.skip <= s.click
    PROVE  /\ \A x \in s.click..Lands(s) : [t |-> x - s.skip, kind |-> Kind(s, x)] \in Trimmed(FullPath(s), s.skip)
           /\ \A e \in Trimmed(FullPath(s), s.skip) :
                  \E x \in s.click..Lands(s) : e = [t |-> x - s.skip, kind |-> Kind(s, x)]
<1> DEFINE Moved(d) == [d EXCEPT !.t = @ - s.skip]
<1>0. s.skip \in Nat /\ s.click \in Nat /\ Lands(s) \in Nat
    BY AShot
<1>1. ASSUME NEW x \in s.click..Lands(s)
      PROVE  [t |-> x - s.skip, kind |-> Kind(s, x)] \in Trimmed(FullPath(s), s.skip)
    <2> DEFINE d == [t |-> x, kind |-> Kind(s, x)]
    <2>1. d \in FullPath(s)
        BY InFullPath
    <2>2. d.t >= s.skip
        BY <1>0
    <2>3. Moved(d) = [t |-> x - s.skip, kind |-> Kind(s, x)]
        OBVIOUS
    <2> HIDE DEF d
    <2>4. d \in {e \in FullPath(s) : e.t >= s.skip}
        BY <2>1, <2>2
    <2>5. Moved(d) \in Trimmed(FullPath(s), s.skip)
        BY <2>4, Zenon DEF Trimmed
    <2> QED
        BY <2>3, <2>5
<1>2. ASSUME NEW e \in Trimmed(FullPath(s), s.skip)
      PROVE  \E x \in s.click..Lands(s) : e = [t |-> x - s.skip, kind |-> Kind(s, x)]
    <2>1. PICK d \in FullPath(s) : e = Moved(d)
        BY Zenon DEF Trimmed
    <2>2. d.t \in s.click..Lands(s) /\ d = [t |-> d.t, kind |-> Kind(s, d.t)]
        BY InFullPath
    <2> DEFINE x == d.t
    <2>3. x \in s.click..Lands(s) /\ d = [t |-> x, kind |-> Kind(s, x)]
        BY <2>2
    <2> HIDE DEF x
    <2>4. e = [t |-> x - s.skip, kind |-> Kind(s, x)]
        BY <2>1, <2>3
    <2> QED
        BY <2>3, <2>4
<1> QED
    BY <1>1, <1>2

\* The cut footage's cursor is where the shot has it.
LEMMA PathShown ==
    ASSUME NEW s \in Shots, s.click # None => s.skip <= s.click, NEW t \in s.skip..(s.frames - 1)
    PROVE  CursorAt(Trimmed(FullPath(s), s.skip), t - s.skip) = PathAt(s, t)
<1> DEFINE E == Trimmed(FullPath(s), s.skip)
           past == {e \in E : e.t <= t - s.skip}
           clicks == {e \in past : e.kind = "click"}
<1>0. s.skip \in Nat /\ s.frames \in Nat /\ t \in Nat /\ GLIDE \in Nat \ {0}
      /\ (s.click # None => s.click \in Nat /\ Lands(s) \in Nat /\ s.click <= Lands(s))
    BY AShot
<1> SUFFICES CursorAt(E, t - s.skip) = PathAt(s, t)
    OBVIOUS
<1>a. CursorAt(E, t - s.skip) =
          IF past = {} THEN None
          ELSE [from |-> Newest(past).t,
                clicked |-> IF clicks = {} THEN None ELSE (t - s.skip) - Newest(clicks).t]
    BY Zenon DEF CursorAt
<1>1. CASE s.click = None
    <2>1. FullPath(s) = {}
        BY <1>1 DEF FullPath
    <2>2. E = {}
        BY <2>1 DEF Trimmed
    <2>3. past = {}
        BY <2>2
    <2> QED
        BY <1>1, <1>a, <2>3 DEF PathAt
<1>2. CASE s.click # None
    <2> DEFINE Ev(x) == [t |-> x - s.skip, kind |-> Kind(s, x)]
    <2>0. s.click \in Nat /\ Lands(s) \in Nat /\ s.click <= Lands(s) /\ s.skip <= s.click
        BY <1>0, <1>2
    <2>1. /\ \A x \in s.click..Lands(s) : Ev(x) \in E
          /\ \A e \in E : \E x \in s.click..Lands(s) : e = Ev(x)
        BY <1>2, InTrimmed
    <2> HIDE DEF E
    <2>2. \A e \in past : e \in E /\ e.t <= t - s.skip
        OBVIOUS
    <2>3. \A x \in s.click..Lands(s) : x <= t => Ev(x) \in past
        BY <1>0, <2>0, <2>1
    <2>4. \A e \in past : \E x \in s.click..Lands(s) : x <= t /\ e = Ev(x)
        BY <1>0, <2>0, <2>1
    <2>5. \A e \in clicks : e \in past /\ e.kind = "click"
        OBVIOUS
    <2>6. \A e \in past : e.kind = "click" => e \in clicks
        OBVIOUS
    <2> HIDE DEF past, clicks
    <2>7. CASE t < s.click
        <3>1. past = {}
            BY <1>0, <2>0, <2>4, <2>7
        <3> QED
            BY <1>2, <1>a, <2>7, <3>1 DEF PathAt
    <2>8. CASE s.click <= t /\ t < Lands(s)
        <3>1. Ev(t) \in past /\ Ev(t).t = t - s.skip /\ t - s.skip \in Int
            BY <1>0, <2>0, <2>3, <2>8
        <3>2. \A d \in past : d.t \in Int /\ d.t <= t - s.skip
            BY <1>0, <2>0, <2>4
        <3>3. Newest(past).t = t - s.skip
            <4> HIDE DEF Ev
            <4> QED
                BY <3>1, <3>2, NewestIs
        <3>4. clicks = {}
            <4> SUFFICES ASSUME NEW e \in clicks PROVE FALSE
                OBVIOUS
            <4>1. PICK x \in s.click..Lands(s) : x <= t /\ e = Ev(x)
                BY <2>4, <2>5
            <4>2. x # Lands(s)
                BY <1>0, <2>0, <2>8, <4>1
            <4>3. e.kind = "move"
                BY <4>1, <4>2 DEF Kind
            <4> QED
                BY <2>5, <4>3
        <3>5. past # {}
            BY <3>1
        <3>6. PathAt(s, t) = [from |-> t - s.skip, clicked |-> None]
            BY <1>0, <1>2, <2>0, <2>8 DEF PathAt
        <3> QED
            BY <1>a, <3>3, <3>4, <3>5, <3>6
    <2>9. CASE Lands(s) <= t
        <3> DEFINE L == Lands(s)
        <3>1. Ev(L) \in past /\ Ev(L).t = L - s.skip /\ L - s.skip \in Int /\ Ev(L).kind = "click"
            BY <1>0, <2>0, <2>3, <2>9 DEF Kind
        <3>2. \A d \in past : d.t \in Int /\ d.t <= L - s.skip
            BY <1>0, <2>0, <2>4
        <3>3. Newest(past).t = L - s.skip
            <4> HIDE DEF Ev
            <4> QED
                BY <3>1, <3>2, NewestIs
        <3>4. Ev(L) \in clicks
            <4> HIDE DEF Ev
            <4> QED
                BY <2>6, <3>1
        <3>5. Newest(clicks).t = L - s.skip
            <4> HIDE DEF Ev
            <4>1. \A d \in clicks : d.t \in Int /\ d.t <= L - s.skip
                BY <2>5, <3>2
            <4> QED
                BY <3>1, <3>4, <4>1, NewestIs
        <3>6. past # {} /\ clicks # {}
            BY <3>1, <3>4
        <3>7. PathAt(s, t) = [from |-> L - s.skip, clicked |-> t - L]
            BY <1>0, <1>2, <2>0, <2>9 DEF PathAt
        <3>8. (t - s.skip) - (L - s.skip) = t - L
            BY <1>0, <2>0
        <3> QED
            BY <1>a, <3>3, <3>5, <3>6, <3>7, <3>8
    <2> QED
        BY <1>0, <2>0, <2>7, <2>8, <2>9
<1> QED
    BY <1>1, <1>2

\* The disk starts empty.
LEMMA FootageStarts == FootageInit => FootageInv
<1> SUFFICES ASSUME FootageInit PROVE FootageInv
    OBVIOUS
<1>1. shot \in Shots /\ torn = FALSE /\ disk = <<>> /\ recorder = None /\ clip = None
    BY DEF FootageInit
<1>2. FramesKept
    BY <1>1 DEF FramesKept
<1>3. FootageIsTheShot
    BY <1>1 DEF FootageIsTheShot
<1> QED
    BY <1>1, <1>2, <1>3 DEF FootageInv

\* The glide's frame of a recording: what fires and what is drawn.
LEMMA GlideStep ==
    ASSUME shot \in Shots, NEW r, Recorded(r), r.at < shot.frames,
           NEW g, g = Glided(Fired(r))
    PROVE  /\ g \in Recordings /\ g.shot = shot /\ g.at = r.at /\ g.clock = r.clock
           /\ g.fired <=> Fires(shot, r.at + 1)
           /\ g.glide = IF Fires(shot, r.at + 1) /\ ~IsOpen(shot, r.at + 1) THEN shot.click ELSE None
           /\ g.opened <=> IsOpen(shot, r.at + 1)
           /\ g.cursor = PathBefore(shot, r.at + 1)
<1> DEFINE f == Fired(r)
           at == r.at
<1>0. /\ shot.frames \in Nat \ {0}
      /\ shot.click # None => shot.click \in Nat /\ Lands(shot) \in Nat /\ shot.click <= Lands(shot)
                              /\ Lands(shot) = shot.click + GLIDE - 1
      /\ GLIDE \in Nat \ {0} /\ None \notin Nat
    BY AShot DEF Lands
<1>1. /\ r \in Recordings /\ r.shot = shot /\ at \in Nat
      /\ r.fired <=> Fires(shot, at)
      /\ r.glide = IF Fires(shot, at) /\ ~IsOpen(shot, at) THEN shot.click ELSE None
      /\ r.opened <=> IsOpen(shot, at)
      /\ r.cursor = PathBefore(shot, at)
    BY DEF Recorded, Recordings
<1>n. (Fires(shot, at + 1) <=> shot.click # None /\ at >= shot.click)
      /\ (IsOpen(shot, at + 1) <=> shot.click # None /\ at >= Lands(shot))
      /\ (Fires(shot, at) => shot.click # None /\ shot.click \in Nat /\ at > shot.click)
      /\ (IsOpen(shot, at) <=> shot.click # None /\ at > Lands(shot))
      /\ (Fires(shot, at) => Fires(shot, at + 1)) /\ (IsOpen(shot, at) => Fires(shot, at + 1) /\ IsOpen(shot, at + 1))
    BY <1>0, <1>1 DEF Fires, IsOpen
<1>2. /\ f \in Recordings /\ f.shot = shot /\ f.at = at /\ f.clock = r.clock
      /\ f.opened = r.opened /\ f.cursor = r.cursor
      /\ f.fired <=> Fires(shot, at + 1)
      /\ f.glide = IF Fires(shot, at + 1) /\ ~IsOpen(shot, at) THEN shot.click ELSE None
    <2>1. CASE r.fired \/ shot.click = None \/ at < shot.click
        <3>1. f = r
            BY <1>1, <2>1 DEF Fired
        <3>2. Fires(shot, at) <=> Fires(shot, at + 1)
            <4>1. CASE r.fired
                BY <1>1, <1>n, <4>1
            <4>2. CASE shot.click = None
                BY <4>2 DEF Fires
            <4>3. CASE shot.click # None /\ at < shot.click
                BY <1>0, <1>1, <4>3 DEF Fires
            <4> QED
                BY <2>1, <4>1, <4>2, <4>3
        <3> QED
            BY <1>1, <3>1, <3>2
    <2>2. CASE ~(r.fired \/ shot.click = None \/ at < shot.click)
        <3>1. f = [r EXCEPT !.fired = TRUE, !.glide = at]
            BY <1>1, <2>2 DEF Fired
        <3>2. shot.click # None /\ at = shot.click /\ Fires(shot, at + 1) /\ ~IsOpen(shot, at)
            BY <1>0, <1>1, <2>2 DEF Fires, IsOpen
        <3>3. /\ f.shot = shot /\ f.at = at /\ f.clock = r.clock
              /\ f.opened = r.opened /\ f.cursor = r.cursor
              /\ f.fired = TRUE /\ f.glide = at
            BY <1>1, <3>1 DEF Recordings
        <3>4. f \in Recordings
            BY <1>1, <3>1 DEF Recordings
        <3> HIDE DEF f
        <3> QED
            BY <3>2, <3>3, <3>4
    <2> QED
        BY <2>1, <2>2
<1> HIDE DEF f
<1>3. g = Glided(f)
    BY DEF f
<1>4. CASE ~(shot.click # None /\ at >= shot.click /\ at <= Lands(shot))
    <2>a. ~(Fires(shot, at + 1) /\ ~IsOpen(shot, at))
        BY <1>0, <1>1, <1>n, <1>4
    <2>1. g = f
        BY <1>2, <1>3, <2>a DEF Glided
    <2>2. PathBefore(shot, at + 1) = PathBefore(shot, at)
        <3>1. CASE shot.click = None
            BY <3>1 DEF PathBefore, FullPath
        <3>2. CASE shot.click # None
            <4>1. \A e \in FullPath(shot) : e.t \in shot.click..Lands(shot)
                BY <3>2, InFullPath
            <4>2. \A e \in FullPath(shot) : e.t < at + 1 <=> e.t < at
                BY <1>0, <1>1, <1>4, <3>2, <4>1
            <4> QED
                BY <4>2 DEF PathBefore
        <3> QED
            BY <3>1, <3>2
    <2>3. (IsOpen(shot, at) <=> IsOpen(shot, at + 1))
        BY <1>0, <1>1, <1>n, <1>4
    <2> QED
        BY <1>1, <1>2, <2>1, <2>2, <2>3
<1>5. CASE shot.click # None /\ at >= shot.click /\ at <= Lands(shot)
    <2> DEFINE e0 == [t |-> at, kind |-> Kind(shot, at)]
    <2>a. Fires(shot, at + 1) /\ ~IsOpen(shot, at)
        BY <1>0, <1>1, <1>n, <1>5
    <2>1. f.glide = shot.click /\ f.glide # None
        BY <1>0, <1>2, <1>5, <2>a
    <2>2. PathBefore(shot, at + 1) = PathBefore(shot, at) \union {e0}
        <3>1. at \in shot.click..Lands(shot)
            BY <1>0, <1>1, <1>5
        <3>2. e0 \in FullPath(shot) /\ e0.t < at + 1
            BY <1>1, <1>5, <3>1, InFullPath
        <3>3. ASSUME NEW e \in FullPath(shot)
              PROVE  e.t < at + 1 <=> e.t < at \/ e = e0
            <4>1. e.t \in shot.click..Lands(shot) /\ e = [t |-> e.t, kind |-> Kind(shot, e.t)]
                BY <1>5, InFullPath
            <4>2. e.t \in Int
                BY <1>0, <1>5, <4>1
            <4>3. e.t < at + 1 <=> e.t < at \/ e.t = at
                BY <1>1, <4>2
            <4>4. e.t = at <=> e = e0
                <5>1. e.t = at => e = e0
                    BY <4>1
                <5>2. e = e0 => e.t = at
                    OBVIOUS
                <5> QED
                    BY <5>1, <5>2
            <4> QED
                BY <4>3, <4>4
        <3> HIDE DEF e0
        <3> QED
            BY <3>2, <3>3 DEF PathBefore
    <2>3. e0 \in CursorEvents
        BY <1>1 DEF CursorEvents, Kind
    <2>4. f.cursor \union {e0} = PathBefore(shot, at + 1)
        BY <1>1, <1>2, <2>2
    <2>5. f.cursor \union {e0} \in SUBSET CursorEvents
        BY <1>2, <2>3 DEF Recordings
    <2>6. CASE at < Lands(shot)
        <3>1. f.at - f.glide + 1 < GLIDE
            BY <1>0, <1>1, <1>2, <1>5, <2>1, <2>6
        <3>2. e0 = [t |-> f.at, kind |-> "move"]
            BY <1>0, <1>1, <1>2, <1>5, <2>6 DEF Kind
        <3>3. g = [f EXCEPT !.cursor = @ \union {e0}]
            BY <1>3, <2>1, <3>1, <3>2 DEF Glided
        <3> HIDE DEF e0
        <3>4. /\ g.shot = f.shot /\ g.at = f.at /\ g.clock = f.clock /\ g.fired = f.fired
              /\ g.glide = f.glide /\ g.opened = f.opened /\ g.cursor = f.cursor \union {e0}
            BY <1>2, <3>3 DEF Recordings
        <3>5. g \in Recordings
            BY <1>2, <2>5, <3>3 DEF Recordings
        <3>6. ~IsOpen(shot, at + 1)
            BY <1>0, <1>1, <1>n, <1>5, <2>6
        <3> QED
            BY <1>1, <1>2, <2>a, <2>1, <2>4, <3>4, <3>5, <3>6
    <2>7. CASE at = Lands(shot)
        <3>1. ~(f.at - f.glide + 1 < GLIDE)
            BY <1>0, <1>1, <1>2, <1>5, <2>1, <2>7
        <3>2. e0 = [t |-> f.at, kind |-> "click"]
            BY <1>0, <1>1, <1>2, <1>5, <2>7 DEF Kind
        <3>3. g = [f EXCEPT !.cursor = @ \union {e0}, !.glide = None, !.opened = TRUE]
            BY <1>3, <2>1, <3>1, <3>2 DEF Glided
        <3> HIDE DEF e0
        <3>4. /\ g.shot = f.shot /\ g.at = f.at /\ g.clock = f.clock /\ g.fired = f.fired
              /\ g.glide = None /\ g.opened = TRUE /\ g.cursor = f.cursor \union {e0}
            BY <1>2, <3>3 DEF Recordings
        <3>5. g \in Recordings
            BY <1>2, <2>5, <3>3 DEF Recordings
        <3>6. IsOpen(shot, at + 1)
            BY <1>n, <1>5, <2>7, <1>1
        <3> QED
            BY <1>1, <1>2, <2>a, <2>4, <3>4, <3>5, <3>6
    <2> QED
        BY <1>0, <1>1, <1>5, <2>6, <2>7
<1> QED
    BY <1>1, <1>4, <1>5

\* No recording is None.
LEMMA NoneIsNoRecording == None \notin Recordings
    BY FootageAssumption DEF Recordings

\* A recording starts from frame 0, whatever is on the disk.
LEMMA StartStep ==
    ASSUME FootageInv, RecordStart
    PROVE  FootageInv'
<1> DEFINE r == [shot |-> shot, at |-> 0, clock |-> 0, fired |-> FALSE, glide |-> None,
                 opened |-> FALSE, cursor |-> {}]
<1>1. recorder' = r /\ UNCHANGED <<shot, disk, side, torn, clip>> /\ shot \in Shots
    BY DEF RecordStart, FootageInv
<1>2. /\ shot.frames \in Nat \ {0}
      /\ shot.click # None => shot.click \in Nat /\ Lands(shot) \in Nat
    BY <1>1, AShot
<1>3. r \in Recordings
    BY <1>1 DEF Recordings
<1>4. PathBefore(shot, 0) = {}
    <2>1. CASE shot.click = None
        BY <2>1 DEF PathBefore, FullPath
    <2>2. CASE shot.click # None
        <3>1. \A e \in FullPath(shot) : e.t \in shot.click..Lands(shot)
            BY <1>1, <2>2, InFullPath
        <3>2. \A e \in FullPath(shot) : ~(e.t < 0)
            BY <1>2, <2>2, <3>1
        <3> QED
            BY <3>2 DEF PathBefore
    <2> QED
        BY <2>1, <2>2
<1>5. Len(disk) \in Nat
    BY DEF FootageInv, FramesKept
<1>a. r.shot = shot /\ r.at = 0 /\ r.clock = 0 /\ r.fired = FALSE /\ r.glide = None /\ r.opened = FALSE
      /\ r.cursor = {}
    OBVIOUS
<1> HIDE DEF r
<1>b. ~Fires(shot, 0) /\ ~IsOpen(shot, 0)
    BY <1>2 DEF Fires, IsOpen
<1>6. Recorded(r)
    BY <1>2, <1>3, <1>4, <1>5, <1>a, <1>b DEF Recorded
<1>7. r # None
    BY <1>3, NoneIsNoRecording
<1>8. (recorder # None => Recorded(recorder))'
    BY <1>1, <1>6 DEF Recorded
<1>9. FramesKept' /\ FootageIsTheShot'
    BY <1>1 DEF FootageInv, FramesKept, FootageIsTheShot
<1> QED
    BY <1>1, <1>7, <1>8, <1>9 DEF FootageInv

\* One frame is recorded.
LEMMA FrameStep ==
    ASSUME FootageInv, FilmFrame
    PROVE  FootageInv'
<1> DEFINE r == recorder
           g == Glided(Fired(r))
           st == Stepped(g)
           at == r.at
<1>1. /\ shot \in Shots /\ Recorded(r) /\ at < shot.frames /\ at \in Nat
      /\ UNCHANGED <<shot, side, torn, clip>>
      /\ disk' = IF OnDisk(st.at) THEN disk ELSE Append(disk, Picture(st))
      /\ recorder' = [st EXCEPT !.at = @ + 1]
    BY DEF FootageInv, FilmFrame, Recorded, Recordings
<1>2. /\ g \in Recordings /\ g.shot = shot /\ g.at = at /\ g.clock = r.clock
      /\ g.fired <=> Fires(shot, at + 1)
      /\ g.glide = IF Fires(shot, at + 1) /\ ~IsOpen(shot, at + 1) THEN shot.click ELSE None
      /\ g.opened <=> IsOpen(shot, at + 1)
      /\ g.cursor = PathBefore(shot, at + 1)
    <2> HIDE DEF r
    <2> QED
        BY <1>1, GlideStep
<1>3. r.clock = (IF at = 0 THEN 0 ELSE at - 1) /\ Len(disk) >= at /\ shot.frames \in Nat
    BY <1>1, AShot DEF Recorded
<1> HIDE DEF g
<1>4. /\ st \in Recordings /\ st.shot = shot /\ st.at = at /\ st.clock = at
      /\ st.fired = g.fired /\ st.glide = g.glide /\ st.opened = g.opened /\ st.cursor = g.cursor
    <2>1. CASE at > 0
        <3>1. st = [g EXCEPT !.clock = @ + 1]
            BY <1>2, <2>1 DEF Stepped
        <3>2. st.shot = g.shot /\ st.at = g.at /\ st.clock = g.clock + 1
              /\ st.fired = g.fired /\ st.glide = g.glide /\ st.opened = g.opened /\ st.cursor = g.cursor
            BY <1>2, <3>1 DEF Recordings
        <3>3. st \in Recordings
            BY <1>2, <3>1 DEF Recordings
        <3> HIDE DEF st
        <3> QED
            BY <1>1, <1>2, <1>3, <2>1, <3>2, <3>3
    <2>2. CASE ~(at > 0)
        <3>1. st = g
            BY <1>2, <2>2 DEF Stepped
        <3> QED
            BY <1>1, <1>2, <1>3, <2>2, <3>1
    <2> QED
        BY <2>1, <2>2
<1> HIDE DEF st
<1>5. /\ recorder' \in Recordings /\ recorder'.shot = shot /\ recorder'.at = at + 1 /\ recorder'.clock = at
      /\ recorder'.fired = g.fired /\ recorder'.glide = g.glide /\ recorder'.opened = g.opened
      /\ recorder'.cursor = g.cursor
    <2>1. recorder' \in Recordings
        BY <1>1, <1>4 DEF Recordings
    <2>2. /\ recorder'.shot = st.shot /\ recorder'.at = st.at + 1 /\ recorder'.clock = st.clock
          /\ recorder'.fired = st.fired /\ recorder'.glide = st.glide /\ recorder'.opened = st.opened
          /\ recorder'.cursor = st.cursor
        BY <1>1, <1>4 DEF Recordings
    <2> QED
        BY <1>4, <2>1, <2>2
<1>6. Picture(st) = ShotAt(shot, at) /\ Picture(st) \in Pictures
    <2>1. IsOpen(shot, at + 1) <=> shot.click # None /\ at >= Lands(shot)
        <3>1. shot.click # None => Lands(shot) \in Nat
            BY <1>1, AShot
        <3> QED
            BY <1>1, <3>1 DEF IsOpen
    <2>3. st.opened \in BOOLEAN
        BY <1>4 DEF Recordings
    <2>4. st.opened = (shot.click # None /\ at >= Lands(shot))
        BY <1>2, <1>4, <2>1, <2>3
    <2>2. Picture(st) = ShotAt(shot, at)
        BY <1>4, <2>4 DEF Picture, ShotAt
    <2> QED
        BY <1>1, <2>2, ShotIsAPicture
<1>7. disk \in Seq(Pictures) /\ Len(disk) \in Nat /\ \A i \in 1..Len(disk) : disk[i] = ShotAt(shot, i - 1)
    BY DEF FootageInv, FramesKept
<1>8. FramesKept' /\ Len(disk') >= at + 1
    <2>1. CASE OnDisk(at)
        <3>1. disk' = disk /\ Len(disk) > at
            BY <1>1, <1>4, <1>7, <2>1 DEF OnDisk
        <3> QED
            BY <1>1, <1>7, <3>1 DEF FramesKept
    <2>2. CASE ~OnDisk(at)
        <3> DEFINE p == Picture(st)
        <3>1. disk' = Append(disk, p) /\ Len(disk) = at
            BY <1>1, <1>3, <1>4, <1>7, <2>2 DEF OnDisk
        <3>2. p = ShotAt(shot, at) /\ p \in Pictures
            BY <1>6
        <3> HIDE DEF p
        <3>3. /\ disk' \in Seq(Pictures) /\ Len(disk') = Len(disk) + 1
              /\ disk'[Len(disk) + 1] = p
              /\ \A i \in 1..Len(disk) : disk'[i] = disk[i]
            BY <1>7, <3>1, <3>2
        <3>4. ASSUME NEW i \in 1..Len(disk')
              PROVE  disk'[i] = ShotAt(shot', i - 1)
            <4>1. CASE i \in 1..Len(disk)
                BY <1>1, <1>7, <3>3, <4>1
            <4>2. CASE i = Len(disk) + 1
                <5>1. i - 1 = at
                    BY <1>1, <3>1, <4>2
                <5> QED
                    BY <1>1, <3>2, <3>3, <4>2, <5>1
            <4> QED
                BY <1>7, <3>3, <4>1, <4>2
        <3> QED
            BY <1>1, <3>1, <3>3, <3>4 DEF FramesKept
    <2> QED
        BY <2>1, <2>2
<1>9. recorder' # None
    BY <1>5, NoneIsNoRecording
<1>10. Recorded(recorder)'
    <2>1. recorder'.at \in 0..shot'.frames
        BY <1>1, <1>3, <1>5
    <2>2. recorder'.clock = (IF recorder'.at = 0 THEN 0 ELSE recorder'.at - 1)
        BY <1>1, <1>5
    <2>3. \A x : /\ Fires(shot', x) = Fires(shot, x) /\ IsOpen(shot', x) = IsOpen(shot, x)
                 /\ PathBefore(shot', x) = PathBefore(shot, x)
        BY <1>1
    <2> QED
        BY <1>1, <1>2, <1>5, <1>8, <2>1, <2>2, <2>3 DEF Recorded
<1>11. FootageIsTheShot'
    BY <1>1 DEF FootageInv, FootageIsTheShot
<1> QED
    BY <1>1, <1>8, <1>9, <1>10, <1>11 DEF FootageInv

\* A recording ends and writes the cursor beside its frames.
LEMMA EndStep ==
    ASSUME FootageInv, RecordEnd
    PROVE  FootageInv'
<1>1. /\ shot \in Shots /\ Recorded(recorder) /\ recorder.at = shot.frames
      /\ side' = recorder.cursor /\ recorder' = None /\ torn' = FALSE
      /\ UNCHANGED <<shot, disk, clip>>
    BY DEF FootageInv, RecordEnd, Recorded
<1>2. PathBefore(shot, shot.frames) = FullPath(shot)
    <2>1. CASE shot.click = None
        BY <2>1 DEF PathBefore, FullPath
    <2>2. CASE shot.click # None
        <3>1. \A e \in FullPath(shot) : e.t \in shot.click..Lands(shot)
            BY <1>1, <2>2, InFullPath
        <3>2. Lands(shot) \in Nat /\ Lands(shot) < shot.frames /\ shot.click \in Nat /\ shot.frames \in Nat
            BY <1>1, <2>2, AShot
        <3>3. \A e \in FullPath(shot) : e.t < shot.frames
            BY <3>1, <3>2
        <3> QED
            BY <3>3 DEF PathBefore
    <2> QED
        BY <2>1, <2>2
<1>3. side' = FullPath(shot)
    BY <1>1, <1>2 DEF Recorded
<1>4. FramesKept' /\ FootageIsTheShot'
    BY <1>1 DEF FootageInv, FramesKept, FootageIsTheShot
<1> QED
    BY <1>1, <1>3, <1>4 DEF FootageInv, FullPath

\* The shot is changed between recordings.
LEMMA EditStep ==
    ASSUME FootageInv, EditShot
    PROVE  FootageInv'
<1>1. /\ shot \in Shots /\ shot' \in Shots /\ recorder = None /\ recorder' = None
      /\ disk' = IF shot'.look = shot.look THEN disk ELSE <<>>
      /\ UNCHANGED <<side, torn, clip>>
    BY DEF FootageInv, EditShot
<1>2. FootageIsTheShot'
    BY <1>1 DEF FootageInv, FootageIsTheShot
<1>3. CASE shot'.look = shot.look
    <2>1. disk' = disk /\ shot'.click = shot.click
        BY <1>1, <1>3, FootageAssumption
    <2>2. \A t : ShotAt(shot', t) = ShotAt(shot, t)
        BY <1>3, <2>1 DEF ShotAt, Lands
    <2>3. FullPath(shot') = FullPath(shot)
        BY <2>1 DEF FullPath, Kind, Lands
    <2>4. FramesKept'
        BY <2>1, <2>2 DEF FootageInv, FramesKept
    <2> QED
        BY <1>1, <1>2, <2>1, <2>3, <2>4 DEF FootageInv
<1>4. CASE shot'.look # shot.look
    <2>1. disk' = <<>>
        BY <1>1, <1>4
    <2>2. FramesKept'
        BY <2>1 DEF FramesKept
    <2> QED
        BY <1>1, <1>2, <2>1, <2>2 DEF FootageInv
<1> QED
    BY <1>3, <1>4

\* The frames on the disk become a clip, its start trimmed.
LEMMA EncodeStep ==
    ASSUME FootageInv, Encode
    PROVE  FootageInv'
<1> DEFINE fs == SubSeq(disk, shot.skip + 1, Len(disk))
           c == [of |-> shot, torn |-> torn \/ recorder # None, frames |-> fs, cursor |-> Trimmed(side, shot.skip)]
<1>1. /\ shot \in Shots /\ clip' = c /\ Len(disk) = shot.frames
      /\ UNCHANGED <<shot, disk, side, recorder, torn>>
    BY DEF FootageInv, Encode, Complete
<1>2. /\ shot.frames \in Nat \ {0} /\ shot.skip \in Nat /\ shot.skip < shot.frames
    BY <1>1, AShot
<1>3. disk \in Seq(Pictures) /\ \A i \in 1..Len(disk) : disk[i] = ShotAt(shot, i - 1)
    BY DEF FootageInv, FramesKept
<1>4. /\ c.of = shot /\ c.torn = (torn \/ recorder # None)
      /\ c.frames = fs /\ c.cursor = Trimmed(side, shot.skip)
    OBVIOUS
<1> HIDE DEF c
<1>5. /\ Len(fs) = shot.frames - shot.skip
      /\ \A i \in 1..(shot.frames - shot.skip) : fs[i] = disk[shot.skip + i]
    <2>1. \A i \in (shot.skip + 1)..Len(disk) : i \in 1..Len(disk)
        BY <1>1, <1>2
    <2>2. Len(fs) = Len(disk) - (shot.skip + 1) + 1
        BY <1>1, <1>2, <1>3
    <2>3. \A i \in 1..Len(fs) : fs[i] = disk[(shot.skip + 1) + i - 1]
        BY <1>1, <1>2, <1>3, <2>2
    <2>4. \A i \in 1..(shot.frames - shot.skip) : (shot.skip + 1) + i - 1 = shot.skip + i
        BY <1>2
    <2>5. Len(fs) = shot.frames - shot.skip
        BY <1>1, <1>2, <2>2
    <2> HIDE DEF fs
    <2> QED
        BY <2>3, <2>4, <2>5
<1> HIDE DEF fs
<1>6. ASSUME NEW t \in shot.skip..(shot.frames - 1)
      PROVE  fs[t - shot.skip + 1] = ShotAt(shot, t)
    <2>1. t - shot.skip + 1 \in 1..(shot.frames - shot.skip) /\ shot.skip + (t - shot.skip + 1) = t + 1
          /\ t + 1 \in 1..Len(disk) /\ (t + 1) - 1 = t
        BY <1>1, <1>2
    <2>2. fs[t - shot.skip + 1] = disk[t + 1]
        BY <1>5, <2>1
    <2>3. disk[t + 1] = ShotAt(shot, (t + 1) - 1)
        BY <1>3, <2>1
    <2> QED
        BY <2>1, <2>2, <2>3
<1>7. ASSUME ~(torn \/ recorder # None), shot.click # None => shot.skip <= shot.click,
             NEW t \in shot.skip..(shot.frames - 1)
      PROVE  CursorAt(Trimmed(side, shot.skip), t - shot.skip) = PathAt(shot, t)
    <2>1. disk # <<>>
        BY <1>1, <1>2
    <2>2. side = FullPath(shot)
        BY <1>7, <2>1 DEF FootageInv
    <2> QED
        BY <1>1, <1>7, <2>2, PathShown
<1>8. FootageIsTheShot'
    <2>1. FootageIsTheShot' =
              (clip' # None =>
                  /\ Len(clip'.frames) = clip'.of.frames - clip'.of.skip
                  /\ \A t \in clip'.of.skip..(clip'.of.frames - 1) :
                         clip'.frames[t - clip'.of.skip + 1] = ShotAt(clip'.of, t)
                  /\ ~clip'.torn /\ (clip'.of.click # None => clip'.of.skip <= clip'.of.click) =>
                         \A t \in clip'.of.skip..(clip'.of.frames - 1) :
                             CursorAt(clip'.cursor, t - clip'.of.skip) = PathAt(clip'.of, t))
        BY Zenon DEF FootageIsTheShot
    <2>2. /\ clip'.of = shot /\ clip'.torn = (torn \/ recorder # None)
          /\ clip'.frames = fs /\ clip'.cursor = Trimmed(side, shot.skip)
        BY <1>1, <1>4
    <2> QED
        BY <1>5, <1>6, <1>7, <2>1, <2>2
<1>9. FramesKept' /\ (recorder # None => Recorded(recorder))'
      /\ (~torn /\ recorder = None /\ disk # <<>> => side = FullPath(shot))'
    BY <1>1 DEF FootageInv, FramesKept, Recorded
<1> QED
    BY <1>1, <1>8, <1>9 DEF FootageInv

\* Every step keeps the footage the shot it is of.
LEMMA FootageStays == FootageInv /\ (FootageNext \/ UNCHANGED footageVars) => FootageInv'
<1> SUFFICES ASSUME FootageInv, FootageNext \/ UNCHANGED footageVars
             PROVE  FootageInv'
    OBVIOUS
<1>1. CASE RecordStart
    BY <1>1, StartStep
<1>2. CASE FilmFrame
    BY <1>2, FrameStep
<1>3. CASE RecordEnd
    BY <1>3, EndStep
<1>4. CASE RecordDies
    <2>1. recorder' = None /\ torn' = TRUE /\ UNCHANGED <<shot, disk, side, clip>>
        BY <1>4 DEF RecordDies
    <2> QED
        BY <2>1 DEF FootageInv, FramesKept, FootageIsTheShot
<1>5. CASE EditShot
    BY <1>5, EditStep
<1>6. CASE Encode
    BY <1>6, EncodeStep
<1>7. CASE UNCHANGED footageVars
    BY <1>7 DEF footageVars, FootageInv, FramesKept, FootageIsTheShot, Recorded
<1> QED
    BY <1>1, <1>2, <1>3, <1>4, <1>5, <1>6, <1>7 DEF FootageNext

----------------------------------------------------------------------------
(* The cut of the launch film (Cuts).                                       *)

Count == Len(sheet.scenes)
Opens(i) == CutFrame(Scene(i).at)
Shuts(i) == CutFrame(EndOf(Scene(i)))

CutsInv == sheet \in Scripts /\ frame \in Nat /\ frame < Duration

\* A frame is the time it stands for, rounded.
LEMMA CutFrameIs ==
    ASSUME NEW t \in Int
    PROVE  CutFrame(t) \in Int /\ t <= 2 * CutFrame(t) /\ 2 * CutFrame(t) <= t + 1
    BY DEF CutFrame

\* Later times have later frames.
LEMMA CutFrameGrows ==
    ASSUME NEW t \in Int, NEW u \in Int, t <= u
    PROVE  CutFrame(t) \in Int /\ CutFrame(u) \in Int /\ CutFrame(t) <= CutFrame(u)
    BY CutFrameIs

\* An element of a sequence.
LEMMA ElementIs ==
    ASSUME NEW S, NEW s \in Seq(S), NEW i \in DOMAIN s
    PROVE  s[i] \in S
    OBVIOUS

\* What a script says of its scenes and captions.
LEMMA SheetIs ==
    ASSUME sheet \in Scripts
    PROVE  /\ Count \in Nat /\ Count >= 1 /\ Scenes = 1..Count
           /\ \A i \in Scenes : /\ Scene(i).at \in Nat /\ Scene(i).dur \in Nat
                                /\ EndOf(Scene(i)) \in Nat /\ EndOf(Scene(i)) = Scene(i).at + Scene(i).dur
           /\ Scene(1).at = 0
           /\ \A i \in 1..(Count - 1) : Scene(i + 1).at = EndOf(Scene(i))
           /\ Captions \subseteq Nat
           /\ \A k \in Captions : /\ Caption(k).at \in Nat /\ Caption(k).until \in Nat
                                  /\ Caption(k).at < Caption(k).until
           /\ \A k, m \in Captions : k < m => Caption(k).until <= Caption(m).at
           /\ Duration = Shuts(Count)
<1>1. /\ sheet.scenes \in Seq([at : Nat, dur : Nat]) /\ sheet.scenes # <<>> /\ sheet.scenes[1].at = 0
      /\ \A i \in 1..(Len(sheet.scenes) - 1) :
             sheet.scenes[i + 1].at = sheet.scenes[i].at + sheet.scenes[i].dur
      /\ sheet.captions \in Seq([at : Nat, until : Nat])
      /\ \A k \in DOMAIN sheet.captions : sheet.captions[k].at < sheet.captions[k].until
      /\ \A k, m \in DOMAIN sheet.captions : k < m => sheet.captions[k].until <= sheet.captions[m].at
    BY CutsAssumption, Zenon
<1>2. Count \in Nat /\ Count >= 1 /\ Scenes = 1..Count
    BY <1>1 DEF Count, Scenes
<1>3. \A i \in Scenes : Scene(i) \in [at : Nat, dur : Nat]
    BY <1>1, ElementIs DEF Scene, Scenes
<1>4. \A i \in Scenes : /\ Scene(i).at \in Nat /\ Scene(i).dur \in Nat
                        /\ EndOf(Scene(i)) \in Nat /\ EndOf(Scene(i)) = Scene(i).at + Scene(i).dur
    BY <1>3 DEF EndOf
<1>5. Scene(1).at = 0 /\ \A i \in 1..(Count - 1) : Scene(i + 1).at = EndOf(Scene(i))
    BY <1>1 DEF Scene, EndOf, Count
<1>6. Captions \subseteq Nat
    BY <1>1 DEF Captions
<1>7. \A k \in Captions : Caption(k) \in [at : Nat, until : Nat]
    BY <1>1, ElementIs DEF Captions, Caption
<1>8. \A k \in Captions : /\ Caption(k).at \in Nat /\ Caption(k).until \in Nat
                          /\ Caption(k).at < Caption(k).until
    BY <1>1, <1>7 DEF Captions, Caption
<1>9. \A k, m \in Captions : k < m => Caption(k).until <= Caption(m).at
    BY <1>1 DEF Captions, Caption
<1>10. Duration = Shuts(Count)
    BY <1>1, <1>2 DEF Duration, Shuts, Last, Scene, Count
<1> QED
    BY <1>2, <1>4, <1>5, <1>6, <1>8, <1>9, <1>10

\* A scene ends before a later one starts.
LEMMA ScenesInOrder ==
    ASSUME sheet \in Scripts
    PROVE  \A i, j \in Scenes : i < j => EndOf(Scene(i)) <= Scene(j).at
<1> DEFINE Beyond(d) == \A i \in 1..Count : i + 1 + d <= Count => EndOf(Scene(i)) <= Scene(i + 1 + d).at
           S == {d \in Nat : Beyond(d)}
<1>0. /\ Count \in Nat /\ Scenes = 1..Count
      /\ \A i \in 1..Count : /\ Scene(i).at \in Nat /\ Scene(i).dur \in Nat
                             /\ EndOf(Scene(i)) = Scene(i).at + Scene(i).dur
      /\ \A i \in 1..(Count - 1) : Scene(i + 1).at = EndOf(Scene(i))
    BY SheetIs
<1>1. Beyond(0)
    BY <1>0
<1>2. ASSUME NEW d \in Nat, Beyond(d) PROVE Beyond(d + 1)
    <2> SUFFICES ASSUME NEW i \in 1..Count, i + 1 + (d + 1) <= Count
                 PROVE  EndOf(Scene(i)) <= Scene(i + 1 + (d + 1)).at
        OBVIOUS
    <2>1. i + 1 + d \in 1..(Count - 1) /\ (i + 1 + d) + 1 = i + 1 + (d + 1)
        BY <1>0
    <2> DEFINE j == i + 1 + d
    <2>2. EndOf(Scene(i)) <= Scene(j).at
        BY <1>0, <1>2, <2>1
    <2> HIDE DEF j
    <2>3. j \in 1..(Count - 1) /\ j + 1 = i + 1 + (d + 1)
        BY <2>1 DEF j
    <2>4. Scene(j + 1).at = Scene(j).at + Scene(j).dur /\ Scene(j).at \in Nat /\ Scene(j).dur \in Nat
          /\ EndOf(Scene(i)) \in Nat
        <3>1. j \in 1..Count
            BY <1>0, <2>3
        <3>2. Scene(j).at \in Nat /\ Scene(j).dur \in Nat /\ EndOf(Scene(j)) = Scene(j).at + Scene(j).dur
            BY <1>0, <3>1
        <3>3. Scene(j + 1).at = EndOf(Scene(j))
            BY <1>0, <2>3
        <3>4. Scene(i).at \in Nat /\ Scene(i).dur \in Nat /\ EndOf(Scene(i)) = Scene(i).at + Scene(i).dur
            BY <1>0
        <3> QED
            BY <3>2, <3>3, <3>4
    <2>5. EndOf(Scene(i)) <= Scene(j + 1).at
        BY <2>2, <2>4
    <2> QED
        BY <2>3, <2>5
<1> HIDE DEF Beyond
<1>a. S \in SUBSET Nat /\ 0 \in S /\ \A n \in S : n + 1 \in S
    BY <1>1, <1>2
<1>3. S = Nat
    <2> HIDE DEF S
    <2> QED
        BY <1>a, NumbersBySteps
<1>4. ASSUME NEW i \in Scenes, NEW j \in Scenes, i < j PROVE EndOf(Scene(i)) <= Scene(j).at
    <2>1. j - i - 1 \in Nat /\ i + 1 + (j - i - 1) = j /\ i \in 1..Count /\ j <= Count
        BY <1>0, <1>4
    <2>2. Beyond(j - i - 1)
        BY <1>3, <2>1
    <2> QED
        BY <2>1, <2>2 DEF Beyond
<1> QED
    BY <1>4

\* The frames of the scenes are one after the other, from frame 0 on.
LEMMA SceneFrames ==
    ASSUME sheet \in Scripts
    PROVE  /\ \A i \in Scenes : Opens(i) \in Int /\ Shuts(i) \in Int /\ Opens(i) <= Shuts(i)
           /\ Opens(1) = 0
           /\ \A i, j \in Scenes : i < j => Shuts(i) <= Opens(j)
           /\ \A i \in 1..(Count - 1) : Opens(i + 1) = Shuts(i)
<1>1. \A i \in Scenes : Opens(i) \in Int /\ Shuts(i) \in Int /\ Opens(i) <= Shuts(i)
    <2> TAKE i \in Scenes
    <2>1. Scene(i).at \in Int /\ EndOf(Scene(i)) \in Int /\ Scene(i).at <= EndOf(Scene(i))
        BY SheetIs
    <2> QED
        BY <2>1, CutFrameGrows DEF Opens, Shuts
<1>2. Opens(1) = 0
    BY SheetIs DEF Opens, CutFrame
<1>3. \A i, j \in Scenes : i < j => Shuts(i) <= Opens(j)
    <2> SUFFICES ASSUME NEW i \in Scenes, NEW j \in Scenes, i < j PROVE Shuts(i) <= Opens(j)
        OBVIOUS
    <2>1. EndOf(Scene(i)) \in Int /\ Scene(j).at \in Int /\ EndOf(Scene(i)) <= Scene(j).at
        BY SheetIs, ScenesInOrder
    <2> QED
        BY <2>1, CutFrameGrows DEF Opens, Shuts
<1>4. \A i \in 1..(Count - 1) : Opens(i + 1) = Shuts(i)
    BY SheetIs DEF Opens, Shuts
<1> QED
    BY <1>1, <1>2, <1>3, <1>4

\* Every frame shows one scene.
LEMMA OneScene ==
    ASSUME sheet \in Scripts, NEW f \in Nat, f < Duration
    PROVE  \E i \in Scenes : ShownScenes(f) = {i} /\ Opens(i) <= f /\ f < Shuts(i)
<1> DEFINE S == {i \in 1..Count : Opens(i) <= f}
<1>0. /\ Count \in Nat /\ Count >= 1 /\ Scenes = 1..Count /\ Duration = Shuts(Count)
    BY SheetIs
<1>1. 1 \in S
    BY <1>0, SceneFrames
<1>2. S \in SUBSET (0..Count) /\ S # {}
    BY <1>0, <1>1
<1>3. PICK i \in S : \A y \in S : y <= i
    BY <1>0, <1>2, GreatestNumber
<1>4. i \in Scenes /\ i \in 1..Count /\ Opens(i) <= f
    BY <1>0
<1>5. f < Shuts(i)
    <2>1. CASE i = Count
        BY <1>0, <2>1
    <2>2. CASE i # Count
        <3>1. i \in 1..(Count - 1) /\ i + 1 \in 1..Count /\ i + 1 > i
            BY <1>0, <1>4, <2>2
        <3>2. i + 1 \notin S
            BY <1>3, <3>1
        <3>3. ~(Opens(i + 1) <= f) /\ Opens(i + 1) = Shuts(i) /\ Shuts(i) \in Int
            BY <1>4, <3>1, <3>2, SceneFrames
        <3> QED
            BY <3>3
    <2> QED
        BY <2>1, <2>2
<1>6. ShownScenes(f) = {i}
    <2>1. i \in ShownScenes(f)
        BY <1>4, <1>5 DEF ShownScenes, Opens, Shuts
    <2>2. ASSUME NEW j \in ShownScenes(f) PROVE j = i
        <3>1. j \in Scenes /\ Opens(j) <= f /\ f < Shuts(j)
            BY DEF ShownScenes, Opens, Shuts
        <3>2. j \in Int /\ i \in Int
            BY <1>0, <1>4, <3>1
        <3>3. Opens(i) \in Int /\ Shuts(i) \in Int /\ Opens(j) \in Int /\ Shuts(j) \in Int
            BY <1>4, <3>1, SceneFrames
        <3>4. ~(j < i)
            <4>1. j < i => Shuts(j) <= Opens(i)
                BY <1>4, <3>1, SceneFrames
            <4> QED
                BY <1>4, <3>1, <3>3, <4>1
        <3>5. ~(i < j)
            <4>1. i < j => Shuts(i) <= Opens(j)
                BY <1>4, <3>1, SceneFrames
            <4> QED
                BY <1>5, <3>1, <3>3, <4>1
        <3> QED
            BY <3>2, <3>4, <3>5
    <2> QED
        BY <2>1, <2>2
<1> QED
    BY <1>4, <1>5, <1>6

\* The dissolve is full on both sides of a cut, and hides every cell.
LEMMA FullAtCuts ==
    ASSUME sheet \in Scripts, NEW f \in Int, NEW c \in CutsOf, f = c \/ f = c - 1
    PROVE  Hidden(DissolveAt(f))
<1> DEFINE P == {0} \union Closing(f, 1)
<1>0. HALF \in Nat \ {0} /\ LEVELS \in Nat \ {0}
    BY CutsAssumption
<1>1. \A x \in CutsOf : x \in Int
    <2>1. \A i \in Scenes \ {1} : Scene(i).at \in Int
        BY SheetIs
    <2> QED
        BY <2>1, CutFrameIs DEF CutsOf
<1>2. \A x \in CutsOf : HalfFrom(f, x) \in Int /\ HalfFrom(f, x) >= 1
    BY <1>1 DEF HalfFrom
<1>3. HalfFrom(f, c) = 1
    <2>1. c \in Int
        BY <1>1
    <2> QED
        BY <2>1 DEF HalfFrom
<1>4. 2 * HALF \in P
    <2>1. 2 * HALF - (HalfFrom(f, c) - 1) \in Closing(f, 1)
        BY DEF Closing
    <2>2. 2 * HALF - (HalfFrom(f, c) - 1) = 2 * HALF
        BY <1>0, <1>3
    <2> QED
        BY <2>1, <2>2
<1>5. \A y \in P : y \in Int /\ y <= 2 * HALF
    <2>1. ASSUME NEW y \in Closing(f, 1) PROVE y \in Int /\ y <= 2 * HALF
        <3>1. PICK x \in CutsOf : y = 2 * HALF - (HalfFrom(f, x) - 1)
            BY DEF Closing
        <3> QED
            BY <1>0, <1>2, <3>1
    <2> QED
        BY <1>0, <2>1
<1> HIDE DEF P
<1>6. DissolveAt(f) = 2 * HALF
    <2>1. \E x \in P : \A y \in P : x >= y
        BY <1>0, <1>4, <1>5
    <2>2. Max(P) \in P /\ \A y \in P : Max(P) >= y
        BY <2>1, Zenon DEF Max
    <2>3. Max(P) = 2 * HALF
        BY <1>0, <1>4, <1>5, <2>2
    <2> QED
        BY <2>3 DEF DissolveAt, P
<1>7. \A level \in 0..(LEVELS - 1) : Covered(level, 2 * HALF)
    <2> TAKE level \in 0..(LEVELS - 1)
    <2>1. PICK a \in Int : a = 2 * level + 1
        BY <1>0
    <2>2. PICK b \in Int : b = 2 * LEVELS
        BY <1>0
    <2>3. PICK h \in Int : h = 2 * HALF /\ h > 0
        BY <1>0
    <2>4. a < b
        BY <1>0, <2>1, <2>2
    <2>5. a * h < h * b
        BY <2>3, <2>4
    <2>6. (2 * level + 1) * 2 * HALF = a * h
        BY <1>0, <2>1, <2>3
    <2>7. (2 * HALF) * 2 * LEVELS = h * b
        BY <1>0, <2>2, <2>3
    <2> QED
        BY <2>5, <2>6, <2>7 DEF Covered
<1> QED
    BY <1>6, <1>7 DEF Hidden

\* The seam is full at a cut.
LEMMA CutsHidden ==
    ASSUME sheet \in Scripts, frame \in Nat, frame < Duration,
           frame > 0, ShownScenes(frame) # ShownScenes(frame - 1)
    PROVE  Hidden(DissolveAt(frame)) /\ Hidden(DissolveAt(frame - 1))
<1>0. Count \in Nat /\ Count >= 1 /\ Scenes = 1..Count /\ Duration = Shuts(Count) /\ Shuts(Count) \in Int
    BY SheetIs, SceneFrames
<1>1. frame - 1 \in Nat /\ frame - 1 < Duration
    BY <1>0
<1>2. PICK i \in Scenes : ShownScenes(frame) = {i} /\ Opens(i) <= frame /\ frame < Shuts(i)
    BY OneScene
<1>3. i \notin ShownScenes(frame - 1)
    <2>1. PICK j \in Scenes : ShownScenes(frame - 1) = {j}
        BY <1>1, OneScene
    <2> QED
        BY <1>2, <2>1
<1>4. ~(Opens(i) <= frame - 1 /\ frame - 1 < Shuts(i))
    BY <1>3 DEF ShownScenes, Opens, Shuts
<1>5. Opens(i) \in Int /\ Shuts(i) \in Int
    BY SceneFrames
<1>6. Opens(i) = frame
    BY <1>2, <1>4, <1>5
<1>7. i # 1
    BY <1>6, SceneFrames
<1>8. frame \in CutsOf
    BY <1>6, <1>7 DEF CutsOf, Opens
<1>9. frame \in Int /\ frame - 1 \in Int
    OBVIOUS
<1> QED
    BY <1>8, <1>9, FullAtCuts

\* What is drawn from `at` to `until`, of its scene's start, is drawn in its time.
LEMMA DrawnInTime ==
    ASSUME sheet \in Scripts, frame \in Nat, NEW i \in Scenes, NEW t \in Int
    PROVE  /\ LocalAt(i, t) \in Int /\ Local(i) \in Int
           /\ Local(i) >= LocalAt(i, t) => 2 * frame >= t
           /\ Local(i) < LocalAt(i, t) => 2 * frame < t + 2
           /\ Shows(i) => 2 * frame < EndOf(Scene(i)) + 2
<1>0. Scene(i).at \in Nat /\ EndOf(Scene(i)) \in Nat
    BY SheetIs
<1>1. /\ CutFrame(Scene(i).at) \in Int /\ Scene(i).at <= 2 * CutFrame(Scene(i).at)
      /\ 2 * CutFrame(Scene(i).at) <= Scene(i).at + 1
    <2>1. PICK a \in Int : a = Scene(i).at
        BY <1>0
    <2>2. CutFrame(a) \in Int /\ a <= 2 * CutFrame(a) /\ 2 * CutFrame(a) <= a + 1
        BY CutFrameIs
    <2> QED
        BY <2>1, <2>2
<1>2. t - Scene(i).at \in Int
    BY <1>0
<1>3. /\ LocalAt(i, t) \in Int /\ t - Scene(i).at <= 2 * LocalAt(i, t)
      /\ 2 * LocalAt(i, t) <= t - Scene(i).at + 1
    BY <1>2, CutFrameIs DEF LocalAt
<1>4. Local(i) = frame - CutFrame(Scene(i).at)
    BY DEF Local
<1>5. Shows(i) => 2 * frame < EndOf(Scene(i)) + 2
    <2>1. CutFrame(EndOf(Scene(i))) \in Int /\ 2 * CutFrame(EndOf(Scene(i))) <= EndOf(Scene(i)) + 1
        BY <1>0, CutFrameIs
    <2>2. Shows(i) => frame < CutFrame(EndOf(Scene(i)))
        BY DEF Shows, ShownScenes
    <2> QED
        BY <1>0, <2>1, <2>2
<1> QED
    BY <1>0, <1>1, <1>3, <1>4, <1>5

\* A scene's own clock does not go back.
LEMMA LocalGrows ==
    ASSUME sheet \in Scripts, NEW i \in Scenes, NEW t \in Int, NEW u \in Int, t <= u
    PROVE  LocalAt(i, t) <= LocalAt(i, u) /\ LocalAt(i, t) \in Int /\ LocalAt(i, u) \in Int
<1>0. Scene(i).at \in Nat
    BY SheetIs
<1>1. t - Scene(i).at \in Int /\ u - Scene(i).at \in Int /\ t - Scene(i).at <= u - Scene(i).at
    BY <1>0
<1> QED
    BY <1>1, CutFrameGrows DEF LocalAt

\* A scene with footage is a scene.
LEMMA FootageScenes ==
    ASSUME sheet \in Scripts, NEW i \in Footages
    PROVE  i \in Scenes
    BY DEF Footages

\* At most one caption is up, and each at its script's time.
LEMMA CaptionsHold ==
    ASSUME sheet \in Scripts, frame \in Nat, frame < Duration
    PROVE  /\ \A k \in Up : Within(Caption(k).at, Caption(k).until)
           /\ \A k, m \in Up : k = m
           /\ PrunedLanded => \E k \in Up : Caption(k).at = sheet.pruned
<1>1. ASSUME NEW k \in Up PROVE Within(Caption(k).at, Caption(k).until)
    <2>1. PICK i \in Footages : k \in Captions /\ CaptionShows(i, Caption(k))
        BY DEF Up
    <2>2. i \in Scenes /\ Caption(k).at \in Nat /\ Caption(k).until \in Nat
        BY <2>1, SheetIs, FootageScenes
    <2>3. Local(i) >= LocalAt(i, Caption(k).at) /\ Local(i) < LocalAt(i, Caption(k).until)
        BY <2>1 DEF CaptionShows
    <2>4. 2 * frame >= Caption(k).at /\ 2 * frame < Caption(k).until + 2
        BY <2>2, <2>3, DrawnInTime
    <2> QED
        BY <2>2, <2>4 DEF Within
<1>2. ASSUME NEW k \in Up, NEW m \in Up, k < m PROVE FALSE
    <2>1. PICK i \in Footages : k \in Captions /\ CaptionShows(i, Caption(k))
        BY DEF Up
    <2>2. PICK j \in Footages : m \in Captions /\ CaptionShows(j, Caption(m))
        BY DEF Up
    <2>3. i = j
        <3>1. i \in ShownScenes(frame) /\ j \in ShownScenes(frame)
            BY <2>1, <2>2 DEF CaptionShows, Shows
        <3>2. PICK x \in Scenes : ShownScenes(frame) = {x}
            BY OneScene
        <3> QED
            BY <3>1, <3>2
    <2>4. i \in Scenes /\ Caption(k).until \in Nat /\ Caption(m).at \in Nat /\ Caption(k).until <= Caption(m).at
        BY <1>2, <2>1, <2>2, SheetIs, FootageScenes
    <2>5. /\ LocalAt(i, Caption(k).until) <= LocalAt(i, Caption(m).at)
          /\ LocalAt(i, Caption(k).until) \in Int /\ LocalAt(i, Caption(m).at) \in Int
        BY <2>4, LocalGrows
    <2>6. Local(i) < LocalAt(i, Caption(k).until) /\ Local(i) >= LocalAt(i, Caption(m).at)
        BY <2>1, <2>2, <2>3 DEF CaptionShows
    <2>7. Local(i) \in Int
        BY <2>4, DrawnInTime
    <2> QED
        BY <2>5, <2>6, <2>7
<1>3. ASSUME NEW k \in Up, NEW m \in Up PROVE k = m
    <2>1. k \in Nat /\ m \in Nat
        BY SheetIs DEF Up
    <2>2. k < m \/ m < k \/ k = m
        BY <2>1
    <2> QED
        BY <1>2, <2>2
<1>4. ASSUME PrunedLanded PROVE \E k \in Up : Caption(k).at = sheet.pruned
    <2> DEFINE its == {k \in Captions : Caption(k).at = sheet.pruned}
               i == PrunedScene
    <2>1. \E x \in Footages : sheet.pruned >= Scene(x).at /\ sheet.pruned < EndOf(Scene(x))
        <3>1. PICK x \in 2..(Len(sheet.scenes) - 1) :
                  sheet.scenes[x].at <= sheet.pruned /\ sheet.pruned < sheet.scenes[x].at + sheet.scenes[x].dur
            BY CutsAssumption, Zenon
        <3>2. x \in Footages
            BY <3>1, SheetIs DEF Footages, Count
        <3>3. Scene(x).at <= sheet.pruned /\ sheet.pruned < EndOf(Scene(x))
            BY <3>1 DEF Scene, EndOf
        <3>4. Scene(x).at \in Nat /\ sheet.pruned \in Nat
            <4>1. PICK k \in DOMAIN sheet.captions : sheet.captions[k].at = sheet.pruned
                BY CutsAssumption, Zenon
            <4>2. k \in Captions /\ Caption(k).at = sheet.pruned
                BY <4>1 DEF Captions, Caption
            <4> QED
                BY <3>2, <4>2, SheetIs, FootageScenes
        <3> QED
            BY <3>2, <3>3, <3>4
    <2>2. i \in Footages /\ sheet.pruned >= Scene(i).at /\ sheet.pruned < EndOf(Scene(i))
        BY <2>1, Zenon DEF PrunedScene
    <2>3. \E k \in its : TRUE
        <3>1. PICK k \in DOMAIN sheet.captions : sheet.captions[k].at = sheet.pruned
            BY CutsAssumption, Zenon
        <3> QED
            BY <3>1 DEF Captions, Caption
    <2>4. its \in SUBSET Nat /\ its # {}
        BY <2>3, SheetIs
    <2>5. Min(its) \in its
        BY <2>4, LeastIsMin
    <2>6. PrunedUntil(i) = Caption(Min(its)).until
        BY <2>4, Zenon DEF PrunedUntil
    <2> DEFINE k == Min(its)
    <2>7. k \in Captions /\ Caption(k).at = sheet.pruned /\ PrunedUntil(i) = Caption(k).until
        BY <2>5, <2>6
    <2> HIDE DEF k, its
    <2>8. Landed(i, LocalAt(i, sheet.pruned), LocalAt(i, PrunedUntil(i)))
        BY <1>4, Zenon DEF PrunedLanded
    <2> HIDE DEF i
    <2>9. CaptionShows(i, Caption(k))
        BY <2>2, <2>7, <2>8 DEF Landed, Pressed, CaptionShows
    <2>10. k \in CaptionsIn(i)
        BY <2>2, <2>7 DEF CaptionsIn
    <2>11. k \in Up
        BY <2>2, <2>7, <2>9, <2>10, Zenon DEF Up
    <2> QED
        BY <2>7, <2>11
<1> QED
    BY <1>1, <1>3, <1>4

\* Each sound hits on its script's frame.
LEMMA SoundsHit ==
    ASSUME sheet \in Scripts, NEW n \in DOMAIN sheet.cues
    PROVE  LET t == sheet.cues[n] IN 2 * PlacedAt(t) + sheet.hit \in (t - 2)..(t + 2)
<1>1. sheet.hit \in Int /\ sheet.cues \in Seq(Int)
    BY CutsAssumption, Zenon
<1>2. PICK t \in Int : t = sheet.cues[n]
    BY <1>1
<1>3. PICK h \in Int : h = sheet.hit
    BY <1>1
<1>4. t - h \in Int
    OBVIOUS
<1>5. CutFrame(t - h) \in Int /\ t - h <= 2 * CutFrame(t - h) /\ 2 * CutFrame(t - h) <= t - h + 1
    BY <1>4, CutFrameIs
<1>6. 2 * CutFrame(t - h) + h \in (t - 2)..(t + 2)
    BY <1>5
<1> QED
    BY <1>2, <1>3, <1>6 DEF PlacedAt

\* The captions that the cards land with.
LEMMA CaptionsOfCards ==
    ASSUME sheet \in Scripts
    PROVE  /\ 1 \in Scenes /\ EndCard \in Scenes
           /\ FirstIn(1).at \in Nat /\ FirstIn(EndCard).at \in Nat /\ SecondIn(EndCard).at \in Nat
           /\ FirstIn(EndCard).at <= SecondIn(EndCard).at
           /\ EndOf(Scene(1)) >= 1
<1>0. 1 \in Scenes /\ EndCard \in Scenes
    BY SheetIs DEF EndCard, Count
<1>1. PICK k \in Captions : Caption(k).at < Scene(1).dur
    <2>1. PICK k \in DOMAIN sheet.captions : sheet.captions[k].at < sheet.scenes[1].dur
        BY CutsAssumption, Zenon
    <2> QED
        BY <2>1 DEF Captions, Caption, Scene
<1>2. k \in CaptionsIn(1) /\ EndOf(Scene(1)) >= 1
    <2>1. Scene(1).at = 0 /\ EndOf(Scene(1)) = Scene(1).at + Scene(1).dur /\ Scene(1).dur \in Nat
          /\ Caption(k).at \in Nat
        BY <1>0, SheetIs
    <2> QED
        BY <1>1, <2>1 DEF CaptionsIn
<1>3. \A i : CaptionsIn(i) \in SUBSET Nat /\ CaptionsIn(i) \subseteq Captions
    BY SheetIs DEF CaptionsIn
<1>4. FirstIn(1).at \in Nat
    <2>1. Min(CaptionsIn(1)) \in CaptionsIn(1)
        BY <1>2, <1>3, LeastIsMin
    <2>2. Min(CaptionsIn(1)) \in Captions
        BY <1>3, <2>1
    <2> QED
        BY <2>2, SheetIs DEF FirstIn
<1> DEFINE C == CaptionsIn(EndCard)
<1>5. PICK a, b \in Captions : a # b /\ a \in C /\ b \in C
    <2>1. PICK a, b \in DOMAIN sheet.captions :
              a # b /\ \A j \in {a, b} :
                  sheet.captions[j].at \in sheet.scenes[Len(sheet.scenes)].at
                      ..(sheet.scenes[Len(sheet.scenes)].at + sheet.scenes[Len(sheet.scenes)].dur - 1)
        BY CutsAssumption, Zenon
    <2>2. a \in Captions /\ b \in Captions
        BY <2>1 DEF Captions
    <2>3. \A j \in {a, b} : Caption(j).at \in Scene(EndCard).at..(Scene(EndCard).at + Scene(EndCard).dur - 1)
        BY <2>1 DEF Caption, Scene, EndCard
    <2>4. /\ Scene(EndCard).at \in Nat /\ Scene(EndCard).dur \in Nat
          /\ EndOf(Scene(EndCard)) = Scene(EndCard).at + Scene(EndCard).dur
        BY <1>0, SheetIs
    <2>5. a \in C /\ b \in C
        BY <2>2, <2>3, <2>4 DEF CaptionsIn
    <2> QED
        BY <2>1, <2>2, <2>5
<1>6. C \in SUBSET Nat /\ C # {} /\ C \subseteq Captions
    BY <1>3, <1>5
<1> DEFINE f == Min(C)
           D == C \ {f}
           g == Min(D)
<1> HIDE DEF C
<1>7. f \in C /\ \A y \in C : f <= y
    BY <1>6, LeastIsMin
<1>8. D \in SUBSET Nat /\ D # {}
    <2>1. a \in D \/ b \in D
        BY <1>5
    <2>2. D \subseteq C
        OBVIOUS
    <2> QED
        BY <1>6, <2>1, <2>2
<1>9. g \in D
    BY <1>8, LeastIsMin
<1> HIDE DEF f, g
<1>10. g \in C /\ g # f /\ f <= g
    BY <1>7, <1>9
<1>11. f \in Captions /\ g \in Captions /\ f \in Nat /\ g \in Nat
    BY <1>6, <1>7, <1>10
<1>12. f < g
    BY <1>10, <1>11
<1>13. /\ Caption(f).at \in Nat /\ Caption(g).at \in Nat
       /\ Caption(f).at < Caption(f).until /\ Caption(f).until <= Caption(g).at /\ Caption(f).until \in Nat
    BY <1>11, <1>12, SheetIs
<1>14. Caption(f) = FirstIn(EndCard) /\ Caption(g) = SecondIn(EndCard)
    BY DEF FirstIn, SecondIn, f, g, C
<1>15. Caption(f).at <= Caption(g).at
    BY <1>13
<1> QED
    BY <1>0, <1>2, <1>4, <1>13, <1>14, <1>15

\* The cards change when their captions do.
LEMMA CardsHold ==
    ASSUME sheet \in Scripts, frame \in Nat
    PROVE  /\ NameLanded => Within(FirstIn(1).at, EndOf(Scene(1)))
           /\ SubLineShows <=> NameLanded
           /\ AddressStands => TableStands
           /\ EndStampLanded => Within(StampAt, EndOf(Scene(EndCard)))
<1>0. /\ 1 \in Scenes /\ EndCard \in Scenes
      /\ FirstIn(1).at \in Nat /\ FirstIn(EndCard).at \in Nat /\ SecondIn(EndCard).at \in Nat
      /\ FirstIn(EndCard).at <= SecondIn(EndCard).at
    BY CaptionsOfCards
<1>1. ASSUME NameLanded PROVE Within(FirstIn(1).at, EndOf(Scene(1)))
    <2>1. Shows(1) /\ Local(1) >= LocalAt(1, FirstIn(1).at)
        BY <1>1 DEF NameLanded
    <2>2. FirstIn(1).at \in Int
        BY <1>0
    <2>3. 2 * frame >= FirstIn(1).at /\ 2 * frame < EndOf(Scene(1)) + 2
        BY <1>0, <2>1, <2>2, DrawnInTime
    <2> QED
        BY <1>0, <2>3 DEF Within
<1>2. SubLineShows <=> NameLanded
    <2>1. FirstIn(1).at \in Int
        BY <1>0
    <2>2. PICK l : l = LocalAt(1, FirstIn(1).at)
        OBVIOUS
    <2>3. l \in Int
        BY <1>0, <2>1, <2>2, DrawnInTime
    <2>4. NameLanded <=> Shows(1) /\ Local(1) >= l
        BY <2>2 DEF NameLanded
    <2>5. SubLineShows <=> Shows(1) /\ Local(1) >= (l + 8) - 8
        BY <2>2 DEF SubLineShows, Slides
    <2>6. (l + 8) - 8 = l
        BY <2>3
    <2> QED
        BY <2>4, <2>5, <2>6
<1>3. ASSUME AddressStands PROVE TableStands
    <2>1. FirstIn(EndCard).at \in Int /\ SecondIn(EndCard).at \in Int
        BY <1>0
    <2>2. /\ LocalAt(EndCard, FirstIn(EndCard).at) <= LocalAt(EndCard, SecondIn(EndCard).at)
          /\ LocalAt(EndCard, FirstIn(EndCard).at) \in Int /\ LocalAt(EndCard, SecondIn(EndCard).at) \in Int
        BY <1>0, <2>1, LocalGrows
    <2>3. Local(EndCard) \in Int
        BY <1>0, <2>1, DrawnInTime
    <2> QED
        BY <1>3, <2>2, <2>3 DEF AddressStands, TableStands
<1>4. ASSUME EndStampLanded PROVE Within(StampAt, EndOf(Scene(EndCard)))
    <2>1. Shows(EndCard) /\ Local(EndCard) >= LocalAt(EndCard, StampAt)
        BY <1>4 DEF EndStampLanded
    <2>2. StampAt \in Int
        <3> DEFINE late == {n \in DOMAIN sheet.cues : sheet.cues[n] >= Scene(EndCard).at}
        <3>1. sheet.cues \in Seq(Int)
            BY CutsAssumption, Zenon
        <3>2. late \in SUBSET Nat /\ \A n \in late : sheet.cues[n] \in Int
            BY <3>1
        <3>3. StampAt = IF late = {} THEN FirstIn(EndCard).at ELSE sheet.cues[Min(late)]
            BY Zenon DEF StampAt
        <3> HIDE DEF late
        <3>4. late # {} => Min(late) \in late
            BY <3>2, LeastIsMin
        <3>5. CASE late = {}
            <4>1. StampAt = FirstIn(EndCard).at
                BY <3>3, <3>5
            <4> QED
                BY <1>0, <4>1
        <3>6. CASE late # {}
            <4>1. StampAt = sheet.cues[Min(late)]
                BY <3>3, <3>6
            <4> QED
                BY <3>2, <3>4, <3>6, <4>1
        <3> QED
            BY <3>5, <3>6
    <2>3. 2 * frame >= StampAt /\ 2 * frame < EndOf(Scene(EndCard)) + 2
        BY <1>0, <2>1, <2>2, DrawnInTime
    <2> QED
        BY <2>2, <2>3 DEF Within
<1> QED
    BY <1>1, <1>2, <1>3, <1>4

\* The cut starts at frame 0 of some script.
LEMMA CutsStart == CutsInit => CutsInv
<1> SUFFICES ASSUME sheet \in Scripts, frame = 0
             PROVE  0 < Duration
    BY DEF CutsInit, CutsInv
<1>1. /\ EndOf(Scene(1)) >= 1 /\ EndOf(Scene(1)) \in Nat
      /\ Count \in Nat /\ Count >= 1 /\ Scenes = 1..Count /\ Duration = Shuts(Count)
    BY SheetIs, CaptionsOfCards
<1>2. Shuts(1) >= 1 /\ Shuts(1) \in Int
    <2>1. PICK e \in Int : e = EndOf(Scene(1)) /\ e >= 1
        BY <1>1
    <2>2. CutFrame(e) \in Int /\ e <= 2 * CutFrame(e)
        BY CutFrameIs
    <2> QED
        BY <2>1, <2>2 DEF Shuts
<1>3. Shuts(Count) \in Int /\ Shuts(1) <= Shuts(Count)
    <2>1. CASE Count = 1
        BY <1>2, <2>1
    <2>2. CASE Count > 1
        <3>1. 1 \in Scenes /\ Count \in Scenes
            BY <1>1
        <3>2. Shuts(1) <= Opens(Count) /\ Opens(Count) <= Shuts(Count) /\ Opens(Count) \in Int /\ Shuts(Count) \in Int
            BY <2>2, <3>1, SceneFrames
        <3> QED
            BY <1>2, <3>2
    <2> QED
        BY <1>1, <2>1, <2>2
<1> QED
    BY <1>1, <1>2, <1>3

\* The next frame is of the same script, and within the film.
LEMMA CutsStay == CutsInv /\ (NextFrame \/ UNCHANGED cutVars) => CutsInv'
<1> SUFFICES ASSUME CutsInv, NextFrame \/ UNCHANGED cutVars
             PROVE  CutsInv'
    OBVIOUS
<1>1. sheet' = sheet /\ Duration' = Duration
    <2>1. sheet' = sheet
        BY DEF NextFrame, cutVars
    <2> QED
        BY <2>1 DEF Duration, CutFrame, EndOf
<1>2. Duration \in Int
    <2>1. sheet \in Scripts
        BY DEF CutsInv
    <2>2. Count \in Scenes /\ Duration = Shuts(Count)
        BY <2>1, SheetIs
    <2> QED
        BY <2>1, <2>2, SceneFrames
<1>3. CASE NextFrame
    BY <1>1, <1>2, <1>3 DEF CutsInv, NextFrame
<1>4. CASE UNCHANGED cutVars
    BY <1>1, <1>4 DEF CutsInv, cutVars
<1> QED
    BY <1>3, <1>4

\* What holds of every frame of every script.
LEMMA CutsAreHeld == CutsInv => CutsHold
<1> SUFFICES ASSUME CutsInv PROVE CutsHold
    OBVIOUS
<1>0. sheet \in Scripts /\ frame \in Nat /\ frame < Duration
    BY DEF CutsInv
<1>1. \E i \in Scenes : ShownScenes(frame) = {i}
    BY <1>0, OneScene
<1>2. frame > 0 /\ ShownScenes(frame) # ShownScenes(frame - 1) =>
          Hidden(DissolveAt(frame)) /\ Hidden(DissolveAt(frame - 1))
    BY <1>0, CutsHidden
<1>3. /\ \A k \in Up : Within(Caption(k).at, Caption(k).until)
      /\ \A k, m \in Up : k = m
      /\ PrunedLanded => \E k \in Up : Caption(k).at = sheet.pruned
    BY <1>0, CaptionsHold
<1>4. \A n \in DOMAIN sheet.cues :
          LET t == sheet.cues[n] IN 2 * PlacedAt(t) + sheet.hit \in (t - 2)..(t + 2)
    BY <1>0, SoundsHit, Zenon
<1>5. /\ NameLanded => Within(FirstIn(1).at, EndOf(Scene(1)))
      /\ SubLineShows <=> NameLanded
      /\ AddressStands => TableStands
      /\ EndStampLanded => Within(StampAt, EndOf(Scene(EndCard)))
    BY <1>0, CardsHold
<1> QED
    BY <1>1, <1>2, <1>3, <1>4, <1>5, Zenon DEF CutsHold

----------------------------------------------------------------------------
(* The voice of the demo (Voice).                                           *)

\* What is computed step by step from the value before is defined.
LEMMA StepsExist ==
    ASSUME NEW D, NEW base \in D, NEW n \in Nat, NEW G \in [1..n -> [D -> D]]
    PROVE  \E f \in [0..n -> D] : f[0] = base /\ \A i \in 1..n : f[i] = G[i][f[i - 1]]
<1> DEFINE InSteps(f, m) == f[0] = base /\ \A i \in 1..m : f[i] = G[i][f[i - 1]]
           S == {m \in Nat : m <= n => \E f \in [0..m -> D] : InSteps(f, m)}
<1>1. 0 \in S
    <2>1. PICK f : f = [i \in 0..0 |-> base]
        OBVIOUS
    <2>2. f \in [0..0 -> D] /\ f[0] = base
        BY <2>1
    <2>3. InSteps(f, 0)
        BY <2>2
    <2> QED
        BY <2>2, <2>3
<1> HIDE DEF InSteps
<1>2. ASSUME NEW m \in S PROVE m + 1 \in S
    <2> SUFFICES ASSUME m + 1 <= n PROVE \E f \in [0..(m + 1) -> D] : InSteps(f, m + 1)
        OBVIOUS
    <2>0. m \in Nat /\ m <= n /\ m + 1 \in 1..n
        OBVIOUS
    <2>1. PICK f \in [0..m -> D] : InSteps(f, m)
        BY <2>0
    <2>2. PICK g : g = [i \in 0..(m + 1) |-> IF i = m + 1 THEN G[m + 1][f[m]] ELSE f[i]]
        OBVIOUS
    <2>3. f[m] \in D /\ G[m + 1][f[m]] \in D
        BY <2>0
    <2>4. \A i \in 0..m : g[i] = f[i]
        BY <2>0, <2>2
    <2>5. g[m + 1] = G[m + 1][f[m]]
        BY <2>0, <2>2
    <2>6. g \in [0..(m + 1) -> D]
        <3>1. \A i \in 0..(m + 1) : (IF i = m + 1 THEN G[m + 1][f[m]] ELSE f[i]) \in D
            BY <2>0, <2>3
        <3> QED
            BY <2>2, <3>1
    <2>7. g[0] = base
        BY <2>0, <2>1, <2>4 DEF InSteps
    <2>8. ASSUME NEW i \in 1..(m + 1) PROVE g[i] = G[i][g[i - 1]]
        <3>1. CASE i = m + 1
            <4>1. i - 1 = m /\ m \in 0..m
                BY <2>0, <3>1
            <4> QED
                BY <2>4, <2>5, <3>1, <4>1
        <3>2. CASE i # m + 1
            <4>1. i \in 1..m /\ i \in 0..m /\ i - 1 \in 0..m
                BY <2>0, <3>2
            <4>2. f[i] = G[i][f[i - 1]]
                BY <2>1, <4>1 DEF InSteps
            <4> QED
                BY <2>4, <4>1, <4>2
        <3> QED
            BY <3>1, <3>2
    <2>9. InSteps(g, m + 1)
        BY <2>7, <2>8 DEF InSteps
    <2> QED
        BY <2>6, <2>9
<1>a. S \in SUBSET Nat /\ 0 \in S /\ \A m \in S : m + 1 \in S
    BY <1>1, <1>2
<1>3. S = Nat
    <2> HIDE DEF S
    <2> QED
        BY <1>a, NumbersBySteps
<1>4. \E f \in [0..n -> D] : InSteps(f, n)
    BY <1>3
<1> QED
    BY <1>4 DEF InSteps

\* A total is the last of its partial sums.
LEMMA TotalIs ==
    ASSUME NEW n \in Nat, NEW f, \A i \in 1..n : f[i] \in Int
    PROVE  \E p \in [0..n -> Int] : /\ p[0] = 0 /\ p[n] = Total(f, n)
                                    /\ \A i \in 1..n : p[i] = p[i - 1] + f[i]
<1> DEFINE Sum(s) == s = [i \in 0..n |-> IF i = 0 THEN 0 ELSE s[i - 1] + f[i]]
<1>1. PICK G : G = [i \in 1..n |-> [x \in Int |-> x + f[i]]]
    OBVIOUS
<1>2. G \in [1..n -> [Int -> Int]]
    BY <1>1
<1> DEFINE D == Int
<1>b. 0 \in D /\ G \in [1..n -> [D -> D]]
    BY <1>2
<1> HIDE DEF D
<1>c. \E p \in [0..n -> D] : p[0] = 0 /\ \A i \in 1..n : p[i] = G[i][p[i - 1]]
    BY <1>b, StepsExist
<1>3. PICK p \in [0..n -> Int] : p[0] = 0 /\ \A i \in 1..n : p[i] = G[i][p[i - 1]]
    BY <1>c DEF D
<1>4. ASSUME NEW i \in 1..n PROVE p[i] = p[i - 1] + f[i]
    <2>1. p[i - 1] \in Int
        OBVIOUS
    <2>2. G[i][p[i - 1]] = p[i - 1] + f[i]
        BY <1>1, <2>1
    <2> QED
        BY <1>3, <2>2
<1>5. Sum(p)
    <2>1. \A i \in 0..n : p[i] = IF i = 0 THEN 0 ELSE p[i - 1] + f[i]
        BY <1>3, <1>4
    <2> QED
        BY <2>1
<1>6. PICK s : s = CHOOSE x : Sum(x)
    OBVIOUS
<1>7. Sum(s)
    BY <1>5, <1>6
<1>8. Total(f, n) = s[n]
    BY <1>6, Zenon DEF Total
<1>9. s[0] = 0 /\ \A i \in 1..n : s[i] = s[i - 1] + f[i]
    <2>1. \A i \in 0..n : s[i] = IF i = 0 THEN 0 ELSE s[i - 1] + f[i]
        BY <1>7
    <2>2. \A i \in 1..n : i \in 0..n /\ i # 0
        OBVIOUS
    <2> QED
        BY <2>1, <2>2
<1>10. DOMAIN s = 0..n
    BY <1>7
<1> HIDE DEF Sum
<1>11. \A i \in 0..n : s[i] \in Int
    <2> DEFINE S == {m \in Nat : m <= n => s[m] \in Int}
    <2>1. 0 \in S
        BY <1>9
    <2>2. ASSUME NEW m \in S PROVE m + 1 \in S
        <3> SUFFICES ASSUME m + 1 <= n PROVE s[m + 1] \in Int
            OBVIOUS
        <3>1. m \in Nat /\ s[m] \in Int /\ m + 1 \in 1..n /\ (m + 1) - 1 = m
            OBVIOUS
        <3>2. s[m + 1] = s[m] + f[m + 1]
            BY <1>9, <3>1
        <3> QED
            BY <3>1, <3>2
    <2>3. S \in SUBSET Nat
        OBVIOUS
    <2>4. S = Nat
        <3> HIDE DEF S
        <3> QED
            BY <2>1, <2>2, <2>3, NumbersBySteps
    <2> QED
        BY <2>4
<1>12. s \in [0..n -> Int]
    <2>1. s = [i \in DOMAIN s |-> s[i]]
        BY <1>7 DEF Sum
    <2> QED
        BY <1>10, <1>11, <2>1
<1> QED
    BY <1>8, <1>9, <1>12

\* A total of numbers is a number.
LEMMA TotalInt ==
    ASSUME NEW n \in Nat, NEW f, \A i \in 1..n : f[i] \in Int
    PROVE  Total(f, n) \in Int
<1>1. PICK p \in [0..n -> Int] : p[n] = Total(f, n)
    BY TotalIs
<1> QED
    BY <1>1

Segments == [from : Int, to : Int]

\* The speech of a read is a sequence of segments.
LEMMA SpeechIs ==
    ASSUME NEW read \in Reads
    PROVE  Speech(read) \in Seq(Segments)
<1> DEFINE sil == read.silences
           n == Len(sil) + 1
           Talk(i) == [from |-> IF i = 1 THEN 0 ELSE sil[i - 1].to,
                       to   |-> IF i \in DOMAIN sil THEN sil[i].from ELSE read.total]
           Next1(i, q) == IF Talk(i).from < Talk(i).to THEN Append(q, Talk(i)) ELSE q
           Said(s) == s = [i \in 0..n |->
                              IF i = 0 THEN <<>>
                              ELSE IF Talk(i).from < Talk(i).to THEN Append(s[i - 1], Talk(i)) ELSE s[i - 1]]
           D == Seq(Segments)
<1>1. sil \in Seq([from : Nat, to : Nat]) /\ read.total \in Nat
    BY VoiceAssumption
<1>2. Len(sil) \in Nat /\ DOMAIN sil = 1..Len(sil) /\ \A i \in 1..Len(sil) : sil[i] \in [from : Nat, to : Nat]
    BY <1>1, ElementOfSeq, LenProperties
<1>3. n \in Nat
    BY <1>2
<1>4. ASSUME NEW i \in 1..n PROVE Talk(i) \in Segments
    <2>1. i # 1 => i - 1 \in 1..Len(sil)
        BY <1>2
    <2>2. i # 1 => sil[i - 1].to \in Int
        BY <1>2, <2>1
    <2>3. i \in DOMAIN sil => sil[i].from \in Int
        BY <1>2
    <2>4. read.total \in Int
        BY <1>1
    <2> HIDE DEF sil
    <2> QED
        BY <2>2, <2>3, <2>4 DEF Segments
<1> HIDE DEF Talk, sil, n
<1>5. ASSUME NEW i \in 1..n, NEW q \in D PROVE Next1(i, q) \in D
    <2>1. Talk(i) \in Segments
        BY <1>4
    <2> QED
        BY <2>1
<1>6. PICK G : G = [i \in 1..n |-> [q \in D |-> Next1(i, q)]]
    OBVIOUS
<1> HIDE DEF Next1
<1>7. G \in [1..n -> [D -> D]]
    BY <1>5, <1>6
<1>8. <<>> \in D
    OBVIOUS
<1> HIDE DEF D
<1>c. \E p \in [0..n -> D] : p[0] = <<>> /\ \A i \in 1..n : p[i] = G[i][p[i - 1]]
    BY <1>3, <1>7, <1>8, StepsExist
<1>9. PICK p \in [0..n -> D] : p[0] = <<>> /\ \A i \in 1..n : p[i] = G[i][p[i - 1]]
    BY <1>c
<1>10. \A i \in 1..n : p[i] = Next1(i, p[i - 1])
    <2> TAKE i \in 1..n
    <2>1. p[i - 1] \in D
        BY <1>3
    <2>2. G[i][p[i - 1]] = Next1(i, p[i - 1])
        BY <1>6, <2>1
    <2> QED
        BY <1>9, <2>2
<1>11. Said(p)
    <2>1. \A i \in 0..n : p[i] = IF i = 0 THEN <<>>
                                 ELSE IF Talk(i).from < Talk(i).to THEN Append(p[i - 1], Talk(i)) ELSE p[i - 1]
        <3> TAKE i \in 0..n
        <3>1. CASE i = 0
            BY <1>9, <3>1
        <3>2. CASE i # 0
            <4>1. i \in 1..n
                BY <1>3, <3>2
            <4>2. p[i] = Next1(i, p[i - 1])
                BY <1>10, <4>1
            <4> QED
                BY <3>2, <4>2 DEF Next1
        <3> QED
            BY <3>1, <3>2
    <2> QED
        BY <2>1
<1>12. PICK s : s = CHOOSE x : Said(x)
    OBVIOUS
<1>13. Said(s)
    BY <1>11, <1>12
<1>14. Speech(read) = s[n]
    BY <1>12, Zenon DEF Speech, Talk, sil, n
<1>15. s[0] = <<>> /\ \A i \in 1..n : s[i] = Next1(i, s[i - 1])
    <2>1. \A i \in 0..n : s[i] = IF i = 0 THEN <<>>
                                 ELSE IF Talk(i).from < Talk(i).to THEN Append(s[i - 1], Talk(i)) ELSE s[i - 1]
        BY <1>13
    <2> HIDE DEF Said
    <2>2. \A i \in 1..n : i \in 0..n /\ i # 0
        BY <1>3
    <2> QED
        BY <1>3, <2>1, <2>2 DEF Next1
<1> HIDE DEF Said
<1> DEFINE S == {m \in Nat : m <= n => s[m] \in D}
<1>16. 0 \in S
    BY <1>8, <1>15
<1>17. ASSUME NEW m \in S PROVE m + 1 \in S
    <2> SUFFICES ASSUME m + 1 <= n PROVE s[m + 1] \in D
        OBVIOUS
    <2>1. m \in Nat /\ s[m] \in D /\ m + 1 \in 1..n /\ (m + 1) - 1 = m
        BY <1>3
    <2>2. s[m + 1] = Next1(m + 1, s[m])
        BY <1>15, <2>1
    <2> QED
        BY <1>5, <2>1, <2>2
<1>18. S \in SUBSET Nat
    OBVIOUS
<1>19. S = Nat
    <2> HIDE DEF S
    <2> QED
        BY <1>16, <1>17, <1>18, NumbersBySteps
<1>20. s[n] \in D
    BY <1>3, <1>19
<1> QED
    BY <1>14, <1>20 DEF D

\* The lines and their words.
LEMMA WordsAre ==
    /\ Len(Words) \in Nat /\ Len(Words) >= 1 /\ Lines = 1..Len(Words)
    /\ \A j \in Lines : Words[j] \in Nat \ {0}
    /\ Total(Words, Len(Words)) \in Int
<1>1. Words \in Seq(Nat \ {0}) /\ Words # <<>>
    BY VoiceAssumption
<1>2. Len(Words) \in Nat /\ Len(Words) >= 1 /\ DOMAIN Words = 1..Len(Words)
    BY <1>1
<1>3. \A j \in 1..Len(Words) : Words[j] \in Nat \ {0}
    BY <1>1, ElementOfSeq
<1>4. \A j \in 1..Len(Words) : Words[j] \in Int
    BY <1>3
<1>5. Total(Words, Len(Words)) \in Int
    BY <1>2, <1>4, TotalInt
<1> QED
    BY <1>2, <1>3, <1>5 DEF Lines

\* What is said of some segments.
LEMMA SegmentsAre ==
    ASSUME NEW segs \in Seq(Segments)
    PROVE  /\ Len(segs) \in Nat /\ DOMAIN segs = 1..Len(segs)
           /\ \A i \in 1..Len(segs) : segs[i].from \in Int /\ segs[i].to \in Int
           /\ Spoken(segs) \in Int
<1>1. Len(segs) \in Nat /\ DOMAIN segs = 1..Len(segs) /\ \A i \in 1..Len(segs) : segs[i] \in Segments
    BY ElementOfSeq, LenProperties
<1>2. \A i \in 1..Len(segs) : segs[i].from \in Int /\ segs[i].to \in Int
    BY <1>1 DEF Segments
<1> DEFINE f == [s \in DOMAIN segs |-> Length(segs[s])]
<1>3. \A i \in 1..Len(segs) : f[i] \in Int
    BY <1>1, <1>2 DEF Length
<1> HIDE DEF f
<1>4. Total(f, Len(segs)) \in Int
    BY <1>1, <1>3, TotalInt
<1> QED
    BY <1>1, <1>2, <1>4 DEF f, Spoken

\* A cost is a number.
LEMMA CostIs ==
    ASSUME NEW segs \in Seq(Segments), NEW j \in Lines, NEW i \in 1..Len(segs), NEW k \in 0..(Len(segs) - 1)
    PROVE  Cost(segs, Spoken(segs), j, k, i) \in Int
<1>0. Len(segs) \in Nat
    BY SegmentsAre
<1>1. PICK w \in Int : w = Total(Words, Len(Words))
    BY WordsAre
<1>2. PICK s \in Int : s = Spoken(segs)
    BY SegmentsAre
<1>3. PICK v \in Int : v = Words[j] /\ v > 0
    BY WordsAre
<1>4. PICK l \in Int : l = Length(Run(segs, k, i))
    <2>1. segs[k + 1].from \in Int /\ segs[i].to \in Int
        BY <1>0, SegmentsAre
    <2>2. Length(Run(segs, k, i)) = segs[i].to - segs[k + 1].from
        BY DEF Length, Run
    <2> QED
        BY <2>1, <2>2
<1>5. PICK g \in Int : g = GapBefore(segs, k)
    <2>1. CASE k = 0
        BY <2>1 DEF GapBefore
    <2>2. CASE k # 0
        <3>1. k \in 1..Len(segs) /\ k + 1 \in 1..Len(segs)
            BY <1>0, <2>2
        <3>2. segs[k + 1].from \in Int /\ segs[k].to \in Int
            BY <3>1, SegmentsAre
        <3> QED
            BY <2>2, <3>2 DEF GapBefore
    <2> QED
        BY <2>1, <2>2
<1>6. PICK n \in Int : n = LCM
    BY VoiceAssumption
<1>7. PICK q \in Int : q = n \div v
    BY <1>3
<1>8. PICK e \in Int : e = l * w - v * s
    OBVIOUS
<1>9. Cost(segs, Spoken(segs), j, k, i) = 2 * q * e * e - 3 * n * w * s * g
    BY <1>1, <1>2, <1>3, <1>4, <1>5, <1>6, <1>7, <1>8 DEF Cost
<1>10. 2 * q * e * e \in Int /\ 3 * n * w * s * g \in Int
    OBVIOUS
<1> QED
    BY <1>9, <1>10

\* The least cost, at the least number that has it.
LEMMA LeastCost ==
    ASSUME NEW n \in Nat, NEW K \in SUBSET (0..n), K # {}, NEW c, \A k \in K : c[k] \in Int
    PROVE  \E k \in K : \A q \in K : c[k] < c[q] \/ (c[k] = c[q] /\ k <= q)
<1> DEFINE CheapOf(J) == \E k \in J : \A q \in J : c[k] < c[q] \/ (c[k] = c[q] /\ k <= q)
           S == {m \in Nat : \A J \in SUBSET (0..m) : J # {} /\ (\A k \in J : c[k] \in Int) => CheapOf(J)}
<1>1. 0 \in S
    <2> SUFFICES ASSUME NEW J \in SUBSET (0..0), J # {}, \A k \in J : c[k] \in Int PROVE CheapOf(J)
        OBVIOUS
    <2>1. \A k \in J : k = 0
        OBVIOUS
    <2>2. PICK k \in J : TRUE
        OBVIOUS
    <2>3. \A q \in J : k = q /\ c[k] = c[q] /\ k <= q
        BY <2>1
    <2> QED
        BY <2>3
<1>2. ASSUME NEW m \in S PROVE m + 1 \in S
    <2> SUFFICES ASSUME NEW J \in SUBSET (0..(m + 1)), J # {}, \A k \in J : c[k] \in Int PROVE CheapOf(J)
        OBVIOUS
    <2>0. m \in Nat
        OBVIOUS
    <2> DEFINE L == J \ {m + 1}
    <2>1. L \in SUBSET (0..m) /\ \A k \in L : c[k] \in Int
        BY <2>0
    <2>2. CASE L = {}
        <3>1. J = {m + 1}
            BY <2>2
        <3>2. m + 1 <= m + 1
            BY <2>0
        <3> QED
            BY <3>1, <3>2
    <2>3. CASE L # {}
        <3>1. CheapOf(L)
            BY <2>1, <2>3
        <3>2. PICK k \in L : \A q \in L : c[k] < c[q] \/ (c[k] = c[q] /\ k <= q)
            BY <3>1
        <3>3. k \in J /\ k \in Int /\ k <= m + 1 /\ c[k] \in Int
            BY <2>0, <2>1
        <3>4. CASE m + 1 \notin J
            <4>1. L = J
                BY <3>4
            <4> QED
                BY <3>1, <4>1
        <3>5. CASE m + 1 \in J
            <4>0. c[m + 1] \in Int
                BY <3>5
            <4>1. CASE c[k] <= c[m + 1]
                <5>1. \A q \in J : c[k] < c[q] \/ (c[k] = c[q] /\ k <= q)
                    <6> TAKE q \in J
                    <6>1. CASE q = m + 1
                        BY <3>3, <4>0, <4>1, <6>1
                    <6>2. CASE q # m + 1
                        <7>1. q \in L
                            BY <6>2
                        <7> QED
                            BY <3>2, <7>1
                    <6> QED
                        BY <6>1, <6>2
                <5> QED
                    BY <3>3, <5>1
            <4>2. CASE ~(c[k] <= c[m + 1])
                <5>1. \A q \in J : c[m + 1] < c[q] \/ (c[m + 1] = c[q] /\ m + 1 <= q)
                    <6> TAKE q \in J
                    <6>1. CASE q = m + 1
                        BY <2>0, <6>1
                    <6>2. CASE q # m + 1
                        <7>1. q \in L /\ c[q] \in Int
                            BY <6>2
                        <7>2. c[k] <= c[q]
                            BY <3>2, <3>3, <7>1
                        <7> QED
                            BY <3>3, <4>0, <4>2, <7>1, <7>2
                    <6> QED
                        BY <6>1, <6>2
                <5> QED
                    BY <3>5, <5>1
            <4> QED
                BY <4>1, <4>2
        <3> QED
            BY <3>4, <3>5
    <2> QED
        BY <2>2, <2>3
<1> HIDE DEF Least
<1>3. S \in SUBSET Nat
    OBVIOUS
<1>4. S = Nat
    <2> HIDE DEF S
    <2> QED
        BY <1>1, <1>2, <1>3, NumbersBySteps
<1>5. CheapOf(K)
    BY <1>4
<1> QED
    BY <1>5 DEF Least

\* g cuts the first j lines out of the first i segments, and it costs c.
CutsUp(segs, g, j, i) ==
    /\ g[1] = 0 /\ g[j + 1] = i
    /\ \A l \in 1..(j + 1) : g[l] \in 0..Len(segs)
    /\ \A l \in 1..j : g[l] < g[l + 1]

LineCost(segs, g, l) == Cost(segs, Spoken(segs), l, g[l], g[l + 1])

Priced(segs, g, j, c) ==
    \E p \in [0..j -> Int] : /\ p[0] = 0 /\ p[j] = c
                             /\ \A l \in 1..j : p[l] = p[l - 1] + LineCost(segs, g, l)

\* A reading of j lines from i segments that no other one undercuts.
BestReading(segs, r, j, i) ==
    /\ r.cost \in Int /\ r.cuts \in Seq(0..Len(segs)) /\ Len(r.cuts) = j + 1
    /\ CutsUp(segs, r.cuts, j, i) /\ Priced(segs, r.cuts, j, r.cost)
    /\ \A g, c : CutsUp(segs, g, j, i) /\ Priced(segs, g, j, c) => r.cost <= c

Reached(segs, j) == IF j = 0 THEN {0} ELSE j..Len(segs)
BestRow(segs, best, j) == \A i \in Reached(segs, j) : BestReading(segs, best[i], j, i)

\* No line is read from no segment, at no cost.
LEMMA FirstRow ==
    ASSUME NEW segs \in Seq(Segments)
    PROVE  BestRow(segs, [i \in {0} |-> [cost |-> 0, cuts |-> <<0>>]], 0)
<1> DEFINE r == [cost |-> 0, cuts |-> <<0>>]
<1>0. Len(segs) \in Nat
    BY SegmentsAre
<1>1. r.cost = 0 /\ r.cuts = <<0>> /\ <<0>>[1] = 0 /\ Len(<<0>>) = 1 /\ <<0>> \in Seq(0..Len(segs))
    BY <1>0
<1>2. CutsUp(segs, <<0>>, 0, 0)
    BY <1>0, <1>1 DEF CutsUp
<1>3. Priced(segs, <<0>>, 0, 0)
    <2>1. PICK p : p = [x \in 0..0 |-> 0]
        OBVIOUS
    <2>2. p \in [0..0 -> Int] /\ p[0] = 0
        BY <2>1
    <2> QED
        BY <2>2 DEF Priced
<1>4. \A g, c : Priced(segs, g, 0, c) => c = 0
    BY DEF Priced
<1> HIDE DEF r
<1>5. BestReading(segs, r, 0, 0)
    BY <1>1, <1>2, <1>3, <1>4 DEF BestReading
<1>6. [i \in {0} |-> r][0] = r
    OBVIOUS
<1> QED
    BY <1>5, <1>6 DEF BestRow, Reached, r

\* Every line has a segment at least.
LEMMA CutsAreSpaced ==
    ASSUME NEW segs \in Seq(Segments), NEW j \in Nat, NEW i, NEW g, CutsUp(segs, g, j, i)
    PROVE  \A l \in 1..(j + 1) : g[l] >= l - 1
<1> DEFINE S == {x \in Nat : x <= j => g[x + 1] >= x}
<1>0. Len(segs) \in Nat
    BY SegmentsAre
<1>1. 0 \in S
    BY DEF CutsUp
<1>2. ASSUME NEW x \in S PROVE x + 1 \in S
    <2> SUFFICES ASSUME x + 1 <= j PROVE g[(x + 1) + 1] >= x + 1
        OBVIOUS
    <2>1. x \in Nat /\ x + 1 \in 1..j /\ x + 1 \in 1..(j + 1) /\ (x + 1) + 1 \in 1..(j + 1) /\ g[x + 1] >= x
        OBVIOUS
    <2>2. g[x + 1] < g[(x + 1) + 1] /\ g[x + 1] \in Int /\ g[(x + 1) + 1] \in Int
        BY <1>0, <2>1 DEF CutsUp
    <2> QED
        BY <2>1, <2>2
<1>3. S \in SUBSET Nat
    OBVIOUS
<1>4. S = Nat
    <2> HIDE DEF S
    <2> QED
        BY <1>1, <1>2, <1>3, NumbersBySteps
<1>5. ASSUME NEW l \in 1..(j + 1) PROVE g[l] >= l - 1
    <2>0. l - 1 \in Nat /\ l - 1 <= j /\ (l - 1) + 1 = l
        OBVIOUS
    <2>1. l - 1 \in S
        BY <1>4, <2>0
    <2> QED
        BY <2>1
<1> QED
    BY <1>5

\* A reading of one line fewer, and one line more read from what follows.
LEMMA CutsUpOneMore ==
    ASSUME NEW segs \in Seq(Segments), NEW j \in Lines, NEW k \in 0..(Len(segs) - 1), NEW i \in 1..Len(segs), k < i,
           NEW old, old \in Seq(0..Len(segs)), Len(old) = j, CutsUp(segs, old, j - 1, k),
           NEW b \in Int, Priced(segs, old, j - 1, b),
           NEW cuts, cuts = Append(old, i), NEW total, total = b + Cost(segs, Spoken(segs), j, k, i)
    PROVE  /\ cuts \in Seq(0..Len(segs)) /\ Len(cuts) = j + 1 /\ cuts[j] = k
           /\ CutsUp(segs, cuts, j, i)
           /\ Priced(segs, cuts, j, total)
<1>0. Len(segs) \in Nat /\ j \in Nat /\ j >= 1 /\ (j - 1) + 1 = j /\ i \in 0..Len(segs)
    BY SegmentsAre, WordsAre
<1>2. /\ cuts \in Seq(0..Len(segs)) /\ Len(cuts) = j + 1 /\ cuts[j + 1] = i
      /\ \A l \in 1..j : cuts[l] = old[l]
    <2> QED
        BY <1>0
<1>3. /\ old[1] = 0 /\ old[j] = k
      /\ \A l \in 1..j : old[l] \in 0..Len(segs)
      /\ \A l \in 1..(j - 1) : old[l] < old[l + 1]
    BY <1>0 DEF CutsUp
<1>4. cuts[j] = k /\ cuts[1] = 0
    BY <1>0, <1>2, <1>3
<1>5. \A l \in 1..(j + 1) : cuts[l] \in 0..Len(segs)
    <2> TAKE l \in 1..(j + 1)
    <2>1. CASE l = j + 1
        BY <1>0, <1>2, <2>1
    <2>2. CASE l # j + 1
        <3>1. l \in 1..j
            BY <1>0, <2>2
        <3> QED
            BY <1>2, <1>3, <3>1
    <2> QED
        BY <2>1, <2>2
<1>6. \A l \in 1..j : cuts[l] < cuts[l + 1]
    <2> TAKE l \in 1..j
    <2>1. CASE l = j
        BY <1>2, <1>4, <2>1
    <2>2. CASE l # j
        <3>1. l \in 1..(j - 1) /\ l \in 1..j /\ l + 1 \in 1..j
            BY <1>0, <2>2
        <3> QED
            BY <1>2, <1>3, <3>1
    <2> QED
        BY <2>1, <2>2
<1>7. CutsUp(segs, cuts, j, i)
    BY <1>2, <1>4, <1>5, <1>6 DEF CutsUp
<1>8. PICK c \in Int : c = Cost(segs, Spoken(segs), j, k, i)
    BY CostIs
<1>9. Priced(segs, cuts, j, total)
    <2>1. PICK p \in [0..(j - 1) -> Int] :
              /\ p[0] = 0 /\ p[j - 1] = b
              /\ \A l \in 1..(j - 1) : p[l] = p[l - 1] + LineCost(segs, old, l)
        BY DEF Priced
    <2>2. PICK q : q = [x \in 0..j |-> IF x = j THEN b + c ELSE p[x]]
        OBVIOUS
    <2>3. q \in [0..j -> Int]
        <3>1. \A x \in 0..j : (IF x = j THEN b + c ELSE p[x]) \in Int
            BY <1>0
        <3> QED
            BY <2>2, <3>1
    <2>4. q[j] = b + c /\ \A x \in 0..(j - 1) : q[x] = p[x]
        BY <1>0, <2>2
    <2>5. q[0] = 0
        BY <1>0, <2>1, <2>4
    <2>6. ASSUME NEW l \in 1..j PROVE q[l] = q[l - 1] + LineCost(segs, cuts, l)
        <3>1. CASE l = j
            <4>1. LineCost(segs, cuts, l) = c
                BY <1>2, <1>4, <1>8, <3>1 DEF LineCost
            <4>2. q[l - 1] = b
                BY <1>0, <2>1, <2>4, <3>1
            <4> QED
                BY <2>4, <3>1, <4>1, <4>2
        <3>2. CASE l # j
            <4>1. l \in 1..(j - 1) /\ l \in 1..j /\ l + 1 \in 1..j /\ l \in 0..(j - 1) /\ l - 1 \in 0..(j - 1)
                BY <1>0, <3>2
            <4>2. LineCost(segs, cuts, l) = LineCost(segs, old, l)
                BY <1>2, <4>1 DEF LineCost
            <4>3. p[l] = p[l - 1] + LineCost(segs, old, l)
                BY <2>1, <4>1
            <4> QED
                BY <2>4, <4>1, <4>2, <4>3
        <3> QED
            BY <3>1, <3>2
    <2> QED
        BY <1>8, <2>3, <2>4, <2>5, <2>6 DEF Priced
<1> QED
    BY <1>2, <1>4, <1>7, <1>8, <1>9

\* A reading of j lines reads one line fewer up to its last cut.
LEMMA CutsUpOneLess ==
    ASSUME NEW segs \in Seq(Segments), NEW j \in Lines, NEW i \in 1..Len(segs), NEW g, CutsUp(segs, g, j, i),
           NEW c, Priced(segs, g, j, c)
    PROVE  /\ CutsUp(segs, g, j - 1, g[j])
           /\ g[j] \in 0..(Len(segs) - 1) /\ g[j] < i /\ g[j] >= j - 1
           /\ \E b \in Int : /\ Priced(segs, g, j - 1, b)
                             /\ c = b + Cost(segs, Spoken(segs), j, g[j], i)
<1>0. Len(segs) \in Nat /\ j \in Nat /\ j >= 1 /\ (j - 1) + 1 = j
    BY SegmentsAre, WordsAre
<1>1. /\ g[1] = 0 /\ g[j + 1] = i /\ \A l \in 1..(j + 1) : g[l] \in 0..Len(segs)
      /\ \A l \in 1..j : g[l] < g[l + 1]
    BY DEF CutsUp
<1>2. \A l \in 1..j : l \in 1..(j + 1)
    BY <1>0
<1>3. \A l \in 1..(j - 1) : l \in 1..j
    BY <1>0
<1>4. CutsUp(segs, g, j - 1, g[j])
    BY <1>0, <1>1, <1>2, <1>3 DEF CutsUp
<1>5. g[j] \in Int /\ g[j] < i /\ g[j] \in 0..(Len(segs) - 1)
    <2>1. g[j] \in 0..Len(segs) /\ g[j] < g[j + 1]
        BY <1>0, <1>1
    <2> QED
        BY <1>0, <1>1, <2>1
<1>6. g[j] >= j - 1
    BY <1>0, CutsAreSpaced
<1>7. PICK p \in [0..j -> Int] : /\ p[0] = 0 /\ p[j] = c
                                 /\ \A l \in 1..j : p[l] = p[l - 1] + LineCost(segs, g, l)
    BY DEF Priced
<1>8. PICK q : q = [x \in 0..(j - 1) |-> p[x]]
    OBVIOUS
<1>9. q \in [0..(j - 1) -> Int] /\ \A x \in 0..(j - 1) : q[x] = p[x]
    BY <1>0, <1>8
<1>10. Priced(segs, g, j - 1, p[j - 1])
    <2>1. q[0] = 0 /\ q[j - 1] = p[j - 1]
        BY <1>0, <1>7, <1>9
    <2>2. \A l \in 1..(j - 1) : q[l] = q[l - 1] + LineCost(segs, g, l)
        <3> TAKE l \in 1..(j - 1)
        <3>1. l \in 0..(j - 1) /\ l - 1 \in 0..(j - 1) /\ l \in 1..j
            BY <1>0
        <3> QED
            BY <1>7, <1>9, <3>1
    <2> QED
        BY <1>9, <2>1, <2>2 DEF Priced
<1>11. p[j - 1] \in Int /\ c = p[j - 1] + Cost(segs, Spoken(segs), j, g[j], i)
    <2>1. j \in 1..j /\ j - 1 \in 0..j
        BY <1>0
    <2>2. p[j] = p[j - 1] + LineCost(segs, g, j)
        BY <1>7, <2>1
    <2> QED
        BY <1>1, <1>7, <2>1, <2>2 DEF LineCost
<1> QED
    BY <1>4, <1>5, <1>6, <1>10, <1>11

\* The next row of the dynamic program holds readings that no other one undercuts.
LEMMA NextRow ==
    ASSUME NEW segs \in Seq(Segments), NEW j \in Lines, NEW best, BestRow(segs, best, j - 1)
    PROVE  BestRow(segs, NextLine(segs, j, best), j)
<1>0. Len(segs) \in Nat /\ j \in Nat /\ j >= 1 /\ (j - 1) + 1 = j
    BY SegmentsAre, WordsAre
<1> DEFINE Firsts(i) == IF j = 1 THEN {0} ELSE (j - 1)..(i - 1)
           After(k, i) == [cost |-> best[k].cost + Cost(segs, Spoken(segs), j, k, i), cuts |-> Append(best[k].cuts, i)]
<1>a. NextLine(segs, j, best) = [i \in j..Len(segs) |-> CheapestOf({After(k, i) : k \in Firsts(i)}, j)]
    BY Zenon DEF NextLine
<1>1. ASSUME NEW i \in j..Len(segs)
      PROVE  BestReading(segs, CheapestOf({After(k, i) : k \in Firsts(i)}, j), j, i)
    <2> DEFINE K == Firsts(i)
               R == {After(k, i) : k \in K}
               C(k) == Cost(segs, Spoken(segs), j, k, i)
               r == CheapestOf(R, j)
    <2>0. i \in 1..Len(segs) /\ i \in Int
        BY <1>0
    <2>1. \A k \in K : k \in 0..(Len(segs) - 1) /\ k < i /\ k \in Reached(segs, j - 1)
        BY <1>0, <2>0 DEF Reached
    <2>2. K # {} /\ K \in SUBSET (0..Len(segs))
        <3>1. j - 1 \in K
            BY <1>0, <2>0
        <3>2. \A k \in K : k \in 0..Len(segs)
            BY <1>0, <2>1
        <3> HIDE DEF K
        <3> QED
            BY <3>1, <3>2
    <2>3. \A k \in K : BestReading(segs, best[k], j - 1, k)
        BY <2>1 DEF BestRow
    <2>c. \A g \in Nat : g >= j - 1 /\ g < i /\ (j = 1 => g = 0) => g \in K
        BY <1>0, <2>0
    <2>d. \A x \in R : \E k \in K : x = After(k, i)
        OBVIOUS
    <2>e. \A k \in K : After(k, i) \in R
        OBVIOUS
    <2>f. \A k : After(k, i).cost = best[k].cost + C(k) /\ After(k, i).cuts = Append(best[k].cuts, i)
        OBVIOUS
    <2> HIDE DEF K, R, After, C
    <2>4. ASSUME NEW k \in K
          PROVE  /\ best[k].cost \in Int /\ C(k) \in Int
                 /\ After(k, i).cuts \in Seq(0..Len(segs)) /\ Len(After(k, i).cuts) = j + 1
                 /\ After(k, i).cuts[j] = k
                 /\ CutsUp(segs, After(k, i).cuts, j, i)
                 /\ Priced(segs, After(k, i).cuts, j, After(k, i).cost)
                 /\ After(k, i).cost = best[k].cost + C(k) /\ After(k, i).cost \in Int
        <3>1. k \in 0..(Len(segs) - 1) /\ k < i /\ BestReading(segs, best[k], j - 1, k)
            BY <2>1, <2>3
        <3>2. C(k) \in Int
            BY <2>0, <3>1, CostIs DEF C
        <3>3. best[k].cost \in Int
            BY <3>1 DEF BestReading
        <3>4. PICK cuts : cuts = Append(best[k].cuts, i)
            OBVIOUS
        <3>5. /\ cuts \in Seq(0..Len(segs)) /\ Len(cuts) = j + 1 /\ cuts[j] = k
              /\ CutsUp(segs, cuts, j, i)
              /\ Priced(segs, cuts, j, best[k].cost + Cost(segs, Spoken(segs), j, k, i))
            <4>1. PICK b : b = best[k]
                OBVIOUS
            <4>2. PICK old : old = b.cuts
                OBVIOUS
            <4>3. PICK c : c = b.cost
                OBVIOUS
            <4>4. /\ old \in Seq(0..Len(segs)) /\ Len(old) = j /\ CutsUp(segs, old, j - 1, k)
                  /\ c \in Int /\ Priced(segs, old, j - 1, c) /\ cuts = Append(old, i)
                BY <1>0, <3>1, <3>4, <4>1, <4>2, <4>3 DEF BestReading
            <4>5. PICK total : total = c + Cost(segs, Spoken(segs), j, k, i)
                OBVIOUS
            <4>6. /\ cuts \in Seq(0..Len(segs)) /\ Len(cuts) = j + 1 /\ cuts[j] = k
                  /\ CutsUp(segs, cuts, j, i)
                  /\ Priced(segs, cuts, j, total)
                <5>1. segs \in Seq(Segments) /\ j \in Lines /\ k \in 0..(Len(segs) - 1) /\ i \in 1..Len(segs) /\ k < i
                    BY <2>0, <3>1
                <5>2. CutsUp(segs, cuts, j, i)
                    BY <4>4, <4>5, <5>1, CutsUpOneMore, Zenon
                <5>3. Priced(segs, cuts, j, total)
                    BY <4>4, <4>5, <5>1, CutsUpOneMore, Zenon
                <5>0. old[j] = k
                    BY <1>0, <4>4 DEF CutsUp
                <5>4. i \in 0..Len(segs)
                    BY <1>0, <2>0
                <5>5. cuts \in Seq(0..Len(segs)) /\ Len(cuts) = j + 1 /\ cuts[j] = k
                    BY <1>0, <4>4, <5>0, <5>4
                <5> QED
                    BY <5>2, <5>3, <5>5
            <4> QED
                BY <4>1, <4>3, <4>5, <4>6
        <3>6. After(k, i).cuts = cuts /\ After(k, i).cost = best[k].cost + C(k)
            BY <2>f, <3>4
        <3>7. Priced(segs, After(k, i).cuts, j, After(k, i).cost)
            BY <3>5, <3>6 DEF C
        <3> QED
            BY <3>2, <3>3, <3>5, <3>6, <3>7
    <2>5. \E x \in R : \A q \in R : x.cost < q.cost \/ (x.cost = q.cost /\ x.cuts[j] <= q.cuts[j])
        <3>1. PICK c : c = [k \in K |-> After(k, i).cost]
            OBVIOUS
        <3>2. \A k \in K : c[k] = After(k, i).cost /\ c[k] \in Int
            BY <2>4, <3>1
        <3>3. PICK k \in K : \A q \in K : c[k] < c[q] \/ (c[k] = c[q] /\ k <= q)
            BY <1>0, <2>2, <3>2, LeastCost
        <3>4. \A q \in R : After(k, i).cost < q.cost \/ (After(k, i).cost = q.cost /\ After(k, i).cuts[j] <= q.cuts[j])
            <4> TAKE q \in R
            <4>1. PICK l \in K : q = After(l, i)
                BY <2>d
            <4>2. c[k] = After(k, i).cost /\ c[l] = q.cost /\ After(k, i).cuts[j] = k /\ q.cuts[j] = l
                BY <2>4, <3>2, <4>1
            <4> QED
                BY <3>3, <4>2
        <3> QED
            BY <2>e, <3>4
    <2>6. r \in R /\ \A q \in R : r.cost < q.cost \/ (r.cost = q.cost /\ r.cuts[j] <= q.cuts[j])
        BY <2>5, Zenon DEF CheapestOf
    <2> HIDE DEF r
    <2>7. PICK k \in K : r = After(k, i)
        BY <2>6, <2>d
    <2>8. ASSUME NEW g, NEW c, CutsUp(segs, g, j, i), Priced(segs, g, j, c)
          PROVE  r.cost <= c
        <3>1. /\ CutsUp(segs, g, j - 1, g[j])
              /\ g[j] \in 0..(Len(segs) - 1) /\ g[j] < i /\ g[j] >= j - 1
              /\ \E b \in Int : Priced(segs, g, j - 1, b) /\ c = b + Cost(segs, Spoken(segs), j, g[j], i)
            BY <2>0, <2>8, CutsUpOneLess
        <3>2. PICK b \in Int : Priced(segs, g, j - 1, b) /\ c = b + C(g[j])
            BY <3>1 DEF C
        <3>3. PICK l : l = g[j]
            OBVIOUS
        <3>4. l \in K
            <4>1. j = 1 => l = 0
                BY <2>8, <3>3 DEF CutsUp
            <4>2. l \in Nat /\ l >= j - 1 /\ l < i
                BY <1>0, <3>1, <3>3
            <4> QED
                BY <2>c, <4>1, <4>2
        <3>5. best[l].cost <= b /\ best[l].cost \in Int
            BY <2>3, <3>1, <3>2, <3>3, <3>4 DEF BestReading
        <3>6. r.cost <= After(l, i).cost /\ After(l, i).cost = best[l].cost + C(l) /\ C(l) \in Int
              /\ r.cost \in Int
            <4>1. After(l, i) \in R
                BY <2>e, <3>4
            <4>2. r.cost < After(l, i).cost \/ r.cost = After(l, i).cost
                BY <2>6, <4>1
            <4> QED
                BY <2>4, <2>7, <3>4, <4>2
        <3> QED
            BY <3>2, <3>3, <3>5, <3>6
    <2>9. BestReading(segs, r, j, i)
        BY <2>4, <2>7, <2>8 DEF BestReading
    <2> QED
        BY <2>9 DEF r, R, K, After
<1> HIDE DEF After, Firsts
<1>2. \A i \in j..Len(segs) : NextLine(segs, j, best)[i] = CheapestOf({After(k, i) : k \in Firsts(i)}, j)
    BY <1>a
<1>3. Reached(segs, j) = j..Len(segs)
    BY <1>0 DEF Reached
<1> QED
    BY <1>1, <1>2, <1>3 DEF BestRow

\* A reading has one price.
LEMMA PricedOnce ==
    ASSUME NEW segs \in Seq(Segments), NEW j \in Nat, NEW g, NEW c, NEW d, Priced(segs, g, j, c), Priced(segs, g, j, d)
    PROVE  c = d
<1>1. PICK p \in [0..j -> Int] : /\ p[0] = 0 /\ p[j] = c
                                 /\ \A l \in 1..j : p[l] = p[l - 1] + LineCost(segs, g, l)
    BY DEF Priced
<1>2. PICK q \in [0..j -> Int] : /\ q[0] = 0 /\ q[j] = d
                                 /\ \A l \in 1..j : q[l] = q[l - 1] + LineCost(segs, g, l)
    BY DEF Priced
<1> DEFINE S == {x \in Nat : x <= j => p[x] = q[x]}
<1>3. 0 \in S
    BY <1>1, <1>2
<1>4. ASSUME NEW x \in S PROVE x + 1 \in S
    <2> SUFFICES ASSUME x + 1 <= j PROVE p[x + 1] = q[x + 1]
        OBVIOUS
    <2>1. x \in Nat /\ p[x] = q[x] /\ x + 1 \in 1..j /\ (x + 1) - 1 = x
        OBVIOUS
    <2>2. p[x + 1] = p[x] + LineCost(segs, g, x + 1)
        BY <1>1, <2>1
    <2>3. q[x + 1] = q[x] + LineCost(segs, g, x + 1)
        BY <1>2, <2>1
    <2> QED
        BY <2>1, <2>2, <2>3
<1>5. S \in SUBSET Nat
    OBVIOUS
<1>6. S = Nat
    <2> HIDE DEF S
    <2> QED
        BY <1>3, <1>4, <1>5, NumbersBySteps
<1>7. j \in S
    BY <1>6
<1> QED
    BY <1>1, <1>2, <1>7

\* The reading that the program ends with is a cheapest one of all lines from all segments.
LEMMA CheapestIs ==
    ASSUME NEW segs \in Seq(Segments), Len(segs) >= Len(Words)
    PROVE  \E r : BestReading(segs, r, Len(Words), Len(segs)) /\ r.cuts = Cheapest(segs)
<1> DEFINE n == Len(Words)
           first == [i \in {0} |-> [cost |-> 0, cuts |-> <<0>>]]
           Rows(b, m) == b = [j \in 0..m |-> IF j = 0 THEN first ELSE NextLine(segs, j, b[j - 1])]
           S == {m \in Nat : \E b : Rows(b, m)}
<1>0. n \in Nat /\ n >= 1 /\ Lines = 1..n /\ Len(segs) \in Nat
    BY SegmentsAre, WordsAre
<1> HIDE DEF n, first
<1>1. 0 \in S
    <2>1. PICK b : b = [j \in 0..0 |-> first]
        OBVIOUS
    <2>2. Rows(b, 0)
        BY <2>1
    <2> QED
        BY <2>2
<1>2. ASSUME NEW m \in S PROVE m + 1 \in S
    <2>1. m \in Nat /\ m + 1 \in Nat
        OBVIOUS
    <2>2. PICK b : Rows(b, m)
        OBVIOUS
    <2>3. PICK e : e = [j \in 0..(m + 1) |-> IF j = m + 1 THEN NextLine(segs, m + 1, b[m]) ELSE b[j]]
        OBVIOUS
    <2>4. \A j \in 0..m : e[j] = b[j]
        BY <2>1, <2>3
    <2>5. e[m + 1] = NextLine(segs, m + 1, b[m])
        BY <2>1, <2>3
    <2>6. \A j \in 0..m : b[j] = IF j = 0 THEN first ELSE NextLine(segs, j, b[j - 1])
        BY <2>2
    <2>7. ASSUME NEW j \in 0..(m + 1)
          PROVE  e[j] = IF j = 0 THEN first ELSE NextLine(segs, j, e[j - 1])
        <3>1. CASE j = m + 1
            <4>1. j - 1 = m /\ m \in 0..m /\ j # 0
                BY <2>1, <3>1
            <4> QED
                BY <2>4, <2>5, <3>1, <4>1
        <3>2. CASE j # m + 1
            <4>1. j \in 0..m
                BY <2>1, <3>2
            <4>2. j # 0 => j - 1 \in 0..m
                BY <2>1, <4>1
            <4> QED
                BY <2>4, <2>6, <4>1, <4>2
        <3> QED
            BY <3>1, <3>2
    <2>8. e = [j \in 0..(m + 1) |-> e[j]]
        BY <2>3
    <2>9. Rows(e, m + 1)
        BY <2>7, <2>8
    <2> QED
        BY <2>1, <2>9
<1>3. S \in SUBSET Nat
    OBVIOUS
<1>4. S = Nat
    <2> HIDE DEF S
    <2> QED
        BY <1>1, <1>2, <1>3, NumbersBySteps
<1>5. \E b : Rows(b, n)
    BY <1>0, <1>4
<1>6. PICK best : best = CHOOSE b : Rows(b, n)
    OBVIOUS
<1>7. Rows(best, n)
    BY <1>5, <1>6
<1>8. Cheapest(segs) = best[n][Len(segs)].cuts
    BY <1>6, Zenon DEF Cheapest, n, first
<1>9. \A j \in 0..n : best[j] = IF j = 0 THEN first ELSE NextLine(segs, j, best[j - 1])
    BY <1>7
<1> HIDE DEF Rows, S
<1> DEFINE T == {m \in Nat : m <= n => BestRow(segs, best[m], m)}
<1>10. 0 \in T
    <2>1. best[0] = first
        BY <1>0, <1>9
    <2>2. BestRow(segs, first, 0)
        BY FirstRow DEF first
    <2> QED
        BY <2>1, <2>2
<1>11. ASSUME NEW m \in T PROVE m + 1 \in T
    <2> SUFFICES ASSUME m + 1 <= n PROVE BestRow(segs, best[m + 1], m + 1)
        OBVIOUS
    <2>1. m \in Nat /\ BestRow(segs, best[m], m) /\ m + 1 \in Lines
        BY <1>0
    <2>2. PICK j \in Lines : j = m + 1
        BY <2>1
    <2>3. j - 1 = m /\ j \in 0..n /\ j # 0
        BY <1>0, <2>1, <2>2
    <2>4. best[j] = NextLine(segs, j, best[j - 1])
        BY <1>9, <2>3
    <2>5. PICK row : row = best[j - 1]
        OBVIOUS
    <2>6. BestRow(segs, row, j - 1)
        BY <2>1, <2>3, <2>5
    <2>7. BestRow(segs, NextLine(segs, j, row), j)
        BY <2>6, NextRow
    <2> QED
        BY <2>2, <2>4, <2>5, <2>7
<1>12. T \in SUBSET Nat
    OBVIOUS
<1>13. T = Nat
    <2> HIDE DEF T
    <2> QED
        BY <1>10, <1>11, <1>12, NumbersBySteps
<1>14. BestRow(segs, best[n], n)
    BY <1>0, <1>13
<1>15. Len(segs) \in Reached(segs, n)
    BY <1>0 DEF Reached, n
<1>16. BestReading(segs, best[n][Len(segs)], n, Len(segs))
    BY <1>14, <1>15 DEF BestRow
<1> QED
    BY <1>8, <1>16 DEF n

\* Cuts that are a grouping cut all lines out of all segments at their price.
LEMMA GroupingIs ==
    ASSUME NEW segs \in Seq(Segments), NEW g \in Groupings(segs)
    PROVE  /\ CutsUp(segs, g, Len(Words), Len(segs))
           /\ Priced(segs, g, Len(Words), Price(segs, g))
           /\ Price(segs, g) \in Int
<1> DEFINE n == Len(Words)
<1>0. n \in Nat /\ n >= 1 /\ Lines = 1..n /\ Len(segs) \in Nat
    BY SegmentsAre, WordsAre
<1>1. /\ g \in [1..(n + 1) -> 0..Len(segs)] /\ g[1] = 0 /\ g[n + 1] = Len(segs)
      /\ \A j \in 1..n : g[j] < g[j + 1]
    BY <1>0 DEF Groupings
<1> HIDE DEF n
<1>2. CutsUp(segs, g, n, Len(segs))
    BY <1>0, <1>1 DEF CutsUp
<1>3. \A l \in 1..n : /\ g[l] \in 0..(Len(segs) - 1) /\ g[l + 1] \in 1..Len(segs)
                      /\ LineCost(segs, g, l) \in Int
    <2> TAKE l \in 1..n
    <2>1. l \in 1..(n + 1) /\ l + 1 \in 1..(n + 1) /\ l \in Lines
        BY <1>0
    <2>2. g[l] \in 0..Len(segs) /\ g[l + 1] \in 0..Len(segs) /\ g[l] < g[l + 1]
        BY <1>1, <2>1
    <2>3. PICK k \in 0..(Len(segs) - 1) : k = g[l]
        BY <1>0, <2>2
    <2>4. PICK i \in 1..Len(segs) : i = g[l + 1]
        BY <1>0, <2>2
    <2>5. Cost(segs, Spoken(segs), l, k, i) \in Int
        BY <2>1, CostIs
    <2> QED
        BY <2>3, <2>4, <2>5 DEF LineCost
<1>4. PICK f : f = [j \in Lines |-> Cost(segs, Spoken(segs), j, g[j], g[j + 1])]
    OBVIOUS
<1>5. \A l \in 1..n : f[l] = LineCost(segs, g, l) /\ f[l] \in Int
    BY <1>0, <1>3, <1>4 DEF LineCost
<1>6. PICK p \in [0..n -> Int] : /\ p[0] = 0 /\ p[n] = Total(f, n)
                                 /\ \A l \in 1..n : p[l] = p[l - 1] + f[l]
    BY <1>0, <1>5, TotalIs
<1>7. Price(segs, g) = Total(f, n)
    BY <1>4, Zenon DEF Price, n
<1>8. Price(segs, g) \in Int
    BY <1>0, <1>6, <1>7
<1>9. Priced(segs, g, n, Price(segs, g))
    BY <1>5, <1>6, <1>7 DEF Priced
<1> QED
    BY <1>2, <1>8, <1>9 DEF n

\* The dynamic program is right: of all the ways to read the lines from the segments, each line from one segment
\* at least, none costs less than the one it finds (retime-vo.mjs).
THEOREM CheapestIsBest ==
    ASSUME NEW segs \in Seq(Segments), Len(segs) >= Len(Words)
    PROVE  /\ Cheapest(segs) \in Groupings(segs)
           /\ \A g \in Groupings(segs) : Price(segs, Cheapest(segs)) <= Price(segs, g)
<1> DEFINE n == Len(Words)
           cuts == Cheapest(segs)
<1>0. n \in Nat /\ n >= 1 /\ Lines = 1..n /\ Len(segs) \in Nat
    BY SegmentsAre, WordsAre
<1>1. PICK r : BestReading(segs, r, n, Len(segs)) /\ r.cuts = cuts
    BY CheapestIs
<1> HIDE DEF n, cuts
<1>2. /\ r.cost \in Int /\ cuts \in Seq(0..Len(segs)) /\ Len(cuts) = n + 1
      /\ CutsUp(segs, cuts, n, Len(segs)) /\ Priced(segs, cuts, n, r.cost)
      /\ \A g, c : CutsUp(segs, g, n, Len(segs)) /\ Priced(segs, g, n, c) => r.cost <= c
    BY <1>1 DEF BestReading
<1>3. cuts \in [1..(n + 1) -> 0..Len(segs)]
    BY <1>2, LenProperties
<1>4. cuts \in Groupings(segs)
    BY <1>0, <1>2, <1>3 DEF CutsUp, Groupings, n
<1>5. Priced(segs, cuts, n, Price(segs, cuts)) /\ Price(segs, cuts) \in Int
    BY <1>4, GroupingIs DEF n
<1>6. r.cost = Price(segs, cuts)
    BY <1>0, <1>2, <1>5, PricedOnce
<1>7. ASSUME NEW g \in Groupings(segs) PROVE Price(segs, cuts) <= Price(segs, g)
    <2>1. CutsUp(segs, g, n, Len(segs)) /\ Priced(segs, g, n, Price(segs, g))
        BY GroupingIs DEF n
    <2> QED
        BY <1>2, <1>6, <2>1
<1> QED
    BY <1>4, <1>7 DEF cuts

\* The length of a run is a number.
LEMMA RunsAre ==
    ASSUME NEW segs \in Seq(Segments), NEW g \in Groupings(segs), NEW i \in Lines
    PROVE  Length(Runs(segs, g)[i]) \in Int
<1>0. Len(segs) \in Nat /\ Len(Words) \in Nat /\ i \in 1..Len(Words)
    BY SegmentsAre, WordsAre
<1>1. g[i] \in 0..Len(segs) /\ g[i + 1] \in 0..Len(segs) /\ g[i] < g[i + 1]
    BY <1>0 DEF Groupings
<1>2. PICK k \in Int, l \in Int : k = g[i] /\ l = g[i + 1]
    BY <1>0, <1>1
<1>3. k + 1 \in 1..Len(segs) /\ l \in 1..Len(segs)
    BY <1>0, <1>1, <1>2
<1>4. segs[k + 1].from \in Int /\ segs[l].to \in Int
    BY <1>3, SegmentsAre
<1>5. Length(Runs(segs, g)[i]) = segs[l].to - segs[k + 1].from
    BY <1>2 DEF Length, Runs, Run
<1> QED
    BY <1>4, <1>5

\* Where a line is placed, when it may start from `free` on.
LEMMA PlacedAfterIs ==
    ASSUME NEW times \in [Lines -> Int], NEW runs, NEW i \in Lines, NEW free \in Int, Length(runs[i]) \in Int,
           NEW start, start = PlacedAfter(times, runs, i, free)
    PROVE  /\ start \in Int /\ start >= free
           /\ start >= times[i] \/ i + 1 \in Anchors
           /\ i + 1 \notin Anchors => start = times[i] \/ (start = free /\ free > times[i])
<1>1. PICK l \in Int, x \in Int : l = Length(runs[i]) /\ x = times[i]
    BY WordsAre
<1>2. GAP \in Int
    BY VoiceAssumption
<1>3. PICK first \in Int : first = Latest(times[i], free)
    BY <1>1 DEF Latest
<1>4. first >= free /\ first >= x /\ (first = x \/ (first = free /\ free > x))
    BY <1>1, <1>3 DEF Latest
<1>5. CASE i + 1 \in Anchors /\ Ends(first, Length(runs[i])) > times[i + 1]
    <2>1. i + 1 \in Lines
        BY <1>5, VoiceAssumption
    <2>2. PICK y \in Int : y = times[i + 1] - GAP - l
        BY <1>1, <1>2, <2>1
    <2>3. start = Latest(free, y)
        BY <1>1, <1>3, <1>5, <2>2 DEF PlacedAfter
    <2> QED
        BY <1>5, <2>3 DEF Latest
<1>6. CASE ~(i + 1 \in Anchors /\ Ends(first, Length(runs[i])) > times[i + 1])
    <2>1. start = first
        BY <1>3, <1>6 DEF PlacedAfter
    <2> QED
        BY <1>1, <1>4, <2>1
<1> QED
    BY <1>5, <1>6

\* Where a line may start that comes after one that starts at `before`.
Free(runs, i, before) == IF i = 1 THEN 0 ELSE Ends(before, Length(runs[i - 1]))

\* A line may start from some number on.
LEMMA FreeIs ==
    ASSUME NEW runs, \A i \in Lines : Length(runs[i]) \in Int, NEW i \in Lines, NEW before \in Int
    PROVE  Free(runs, i, before) \in Int
<1>1. CASE i = 1
    BY <1>1 DEF Free
<1>2. CASE i # 1
    <2>1. i - 1 \in Lines
        BY <1>2, WordsAre
    <2>2. Length(runs[i - 1]) \in Int /\ GAP \in Int
        BY <2>1, VoiceAssumption
    <2> QED
        BY <1>2, <2>2 DEF Free, Ends
<1> QED
    BY <1>1, <1>2

\* Each line is placed after the one before it.
LEMMA PlacedIs ==
    ASSUME NEW times \in [Lines -> Int], NEW runs, \A i \in Lines : Length(runs[i]) \in Int,
           NEW at, at = Placed(times, runs)
    PROVE  /\ at \in [Lines -> Int]
           /\ \A i \in Lines : at[i] = PlacedAfter(times, runs, i, Free(runs, i, at[i - 1]))
           /\ \A i \in Lines : i # 1 => at[i - 1] \in Int
<1> DEFINE n == Len(Words)
           Place(f) == f = [i \in Lines |->
                          PlacedAfter(times, runs, i, IF i = 1 THEN 0 ELSE Ends(f[i - 1], Length(runs[i - 1])))]
           D == Int
<1>0. n \in Nat /\ n >= 1 /\ Lines = 1..n
    BY WordsAre
<1> HIDE DEF n
<1>1. PICK G : G = [i \in 1..n |-> [x \in D |-> PlacedAfter(times, runs, i, Free(runs, i, x))]]
    OBVIOUS
<1>2. ASSUME NEW i \in 1..n, NEW x \in D PROVE PlacedAfter(times, runs, i, Free(runs, i, x)) \in D
    <2>1. i \in Lines /\ Length(runs[i]) \in Int
        BY <1>0
    <2>2. PICK free \in Int : free = Free(runs, i, x)
        BY <2>1, FreeIs
    <2>3. PICK start : start = PlacedAfter(times, runs, i, free)
        OBVIOUS
    <2>4. start \in Int
        BY <2>1, <2>3, PlacedAfterIs
    <2> QED
        BY <2>2, <2>3, <2>4
<1>3. 0 \in D
    OBVIOUS
<1> HIDE DEF D
<1>4. G \in [1..n -> [D -> D]]
    BY <1>1, <1>2
<1>5. \E p \in [0..n -> D] : p[0] = 0 /\ \A i \in 1..n : p[i] = G[i][p[i - 1]]
    <2>1. n \in Nat
        BY <1>0
    <2> QED
        BY <1>3, <1>4, <2>1, StepsExist
<1>6. PICK p \in [0..n -> D] : p[0] = 0 /\ \A i \in 1..n : p[i] = G[i][p[i - 1]]
    BY <1>5
<1>7. ASSUME NEW i \in 1..n PROVE p[i] = PlacedAfter(times, runs, i, Free(runs, i, p[i - 1]))
    <2>1. p[i - 1] \in D
        BY <1>0
    <2>2. G[i][p[i - 1]] = PlacedAfter(times, runs, i, Free(runs, i, p[i - 1]))
        BY <1>1, <2>1
    <2> QED
        BY <1>6, <2>2
<1>8. PICK f : f = [i \in Lines |-> p[i]]
    OBVIOUS
<1>9. Place(f)
    <2>1. ASSUME NEW i \in Lines
          PROVE  f[i] = PlacedAfter(times, runs, i, IF i = 1 THEN 0 ELSE Ends(f[i - 1], Length(runs[i - 1])))
        <3>1. f[i] = PlacedAfter(times, runs, i, Free(runs, i, p[i - 1]))
            BY <1>0, <1>7, <1>8
        <3>2. i # 1 => f[i - 1] = p[i - 1]
            BY <1>0, <1>8
        <3>3. Free(runs, i, p[i - 1]) = IF i = 1 THEN 0 ELSE Ends(f[i - 1], Length(runs[i - 1]))
            BY <3>2 DEF Free
        <3> QED
            BY <3>1, <3>3
    <2>2. f = [i \in Lines |-> f[i]]
        BY <1>8
    <2> QED
        BY <2>1, <2>2
<1>10. at = CHOOSE g : Place(g)
    BY Zenon DEF Placed
<1>11. Place(at)
    BY <1>9, <1>10
<1>12. \A i \in Lines : at[i] = PlacedAfter(times, runs, i, Free(runs, i, at[i - 1]))
    <2>1. \A i \in Lines : at[i] = PlacedAfter(times, runs, i, IF i = 1 THEN 0 ELSE Ends(at[i - 1], Length(runs[i - 1])))
        BY <1>11
    <2> QED
        BY <2>1 DEF Free
<1>13. at = [i \in Lines |-> at[i]]
    BY <1>11
<1> HIDE DEF Place
<1> DEFINE S == {m \in Nat : m + 1 <= n => at[m + 1] \in Int}
<1>14. 0 \in S
    <2>1. 1 \in Lines
        BY <1>0
    <2>2. at[1] = PlacedAfter(times, runs, 1, 0)
        BY <1>12, <2>1 DEF Free
    <2>3. PICK i \in Lines : i = 1
        BY <2>1
    <2>4. PICK start : start = PlacedAfter(times, runs, i, 0)
        OBVIOUS
    <2>5. start \in Int
        BY <2>4, PlacedAfterIs
    <2> QED
        BY <2>2, <2>3, <2>4, <2>5
<1>15. ASSUME NEW m \in S PROVE m + 1 \in S
    <2> SUFFICES ASSUME (m + 1) + 1 <= n PROVE at[(m + 1) + 1] \in Int
        OBVIOUS
    <2>1. m \in Nat /\ at[m + 1] \in Int /\ (m + 1) + 1 \in Lines
        BY <1>0
    <2>2. PICK i \in Lines : i = (m + 1) + 1
        BY <2>1
    <2>3. i - 1 = m + 1
        BY <2>1, <2>2
    <2>4. PICK free \in Int : free = Free(runs, i, at[i - 1])
        BY <2>1, <2>3, FreeIs
    <2>5. PICK start : start = PlacedAfter(times, runs, i, free)
        OBVIOUS
    <2>6. start \in Int
        BY <2>5, PlacedAfterIs
    <2> QED
        BY <1>12, <2>2, <2>4, <2>5, <2>6
<1>16. S \in SUBSET Nat
    OBVIOUS
<1>17. S = Nat
    <2> HIDE DEF S
    <2> QED
        BY <1>14, <1>15, <1>16, NumbersBySteps
<1>18. \A i \in Lines : at[i] \in Int
    <2> TAKE i \in Lines
    <2>1. i - 1 \in Nat /\ (i - 1) + 1 = i /\ i <= n
        BY <1>0
    <2>2. i - 1 \in S
        BY <1>17, <2>1
    <2> QED
        BY <2>1, <2>2
<1>19. at \in [Lines -> Int]
    BY <1>13, <1>18
<1>20. \A i \in Lines : i # 1 => i - 1 \in Lines
    BY <1>0
<1> QED
    BY <1>12, <1>18, <1>19, <1>20

\* A retiming, when the anchors in `gone` have been moved.
Fits(v, gone) ==
    /\ v.segs \in Seq(Segments) /\ v.cuts \in Groupings(v.segs)
    /\ \A g \in Groupings(v.segs) : Price(v.segs, v.cuts) <= Price(v.segs, g)
    /\ v.at \in [Lines -> Int]
    /\ \A i \in Lines : i + 1 \in Lines => v.at[i] + Length(Runs(v.segs, v.cuts)[i]) + GAP <= v.at[i + 1]
    /\ \A i \in Lines : v.at[i] >= v.script[i] \/ i + 1 \in Anchors
    /\ \A i \in Anchors : v.at[i] = Authored[i] \/ i \in v.late \cup gone

\* Anchors leave their place with a warning only, and the last retiming fits.
VoiceInv ==
    /\ script \in [Lines -> Int]
    /\ \A i \in Anchors : script[i] = Authored[i] \/ i \in moved
    /\ voice # None => Fits(voice, moved)

\* The script starts as it was authored.
LEMMA VoiceStarts == VoiceInit => VoiceInv
<1>1. Authored \in [Lines -> Int]
    BY VoiceAssumption
<1> QED
    BY <1>1 DEF VoiceInit, VoiceInv

\* Where the anchors come to stand.
LEMMA AnchorsStand ==
    ASSUME NEW times \in [Lines -> Int], NEW runs, \A i \in Lines : Length(runs[i]) \in Int,
           NEW at, at = Placed(times, runs), NEW i \in Anchors
    PROVE  at[i] = times[i] \/ i \in {x + 1 : x \in Warned(times, runs, at)}
<1>1. i \in Lines /\ i - 1 \in Lines /\ (i - 1) + 1 = i /\ i + 1 \notin Anchors /\ i # 1
    BY VoiceAssumption, WordsAre
<1>2. at[i - 1] \in Int /\ at[i] = PlacedAfter(times, runs, i, Free(runs, i, at[i - 1]))
    BY <1>1, PlacedIs
<1>3. PICK free \in Int : free = Free(runs, i, at[i - 1])
    BY <1>1, <1>2, FreeIs
<1>4. PICK l \in Lines : l = i
    BY <1>1
<1>5. PICK start : start = PlacedAfter(times, runs, l, free)
    OBVIOUS
<1>6. l + 1 \notin Anchors => start = times[l] \/ (start = free /\ free > times[l])
    BY <1>5, PlacedAfterIs
<1>7. CASE free > times[i]
    <2>1. i - 1 \in Warned(times, runs, at)
        BY <1>1, <1>3, <1>7 DEF Warned, Free
    <2> QED
        BY <1>1, <2>1
<1>8. CASE ~(free > times[i])
    BY <1>1, <1>2, <1>3, <1>4, <1>5, <1>6, <1>8
<1> QED
    BY <1>7, <1>8

\* A read is retimed, and written back or not.
LEMMA RetimeStep ==
    ASSUME VoiceInv, NEW read \in Reads, NEW write \in BOOLEAN, Retime(read, write)
    PROVE  VoiceInv'
<1>1. PICK segs : segs = Speech(read)
    OBVIOUS
<1>2. PICK cuts : cuts = Cheapest(segs)
    OBVIOUS
<1>3. PICK runs : runs = Runs(segs, cuts)
    OBVIOUS
<1>4. PICK at : at = Placed(script, runs)
    OBVIOUS
<1>5. PICK late : late = {i + 1 : i \in Warned(script, runs, at)}
    OBVIOUS
<1>6. /\ Len(segs) >= Len(Words)
      /\ voice' = [script |-> script, segs |-> segs, cuts |-> cuts, at |-> at, late |-> late]
      /\ script' = IF write THEN at ELSE script
      /\ moved' = IF write THEN moved \cup late ELSE moved
    BY <1>1, <1>2, <1>3, <1>4, <1>5, Zenon DEF Retime
<1>7. segs \in Seq(Segments)
    BY <1>1, SpeechIs
<1>8. cuts \in Groupings(segs) /\ \A g \in Groupings(segs) : Price(segs, cuts) <= Price(segs, g)
    BY <1>2, <1>6, <1>7, CheapestIsBest
<1>9. \A i \in Lines : Length(runs[i]) \in Int
    BY <1>3, <1>7, <1>8, RunsAre
<1>10. script \in [Lines -> Int] /\ \A i \in Anchors : script[i] = Authored[i] \/ i \in moved
    BY DEF VoiceInv
<1>11. /\ at \in [Lines -> Int]
       /\ \A i \in Lines : at[i] = PlacedAfter(script, runs, i, Free(runs, i, at[i - 1]))
       /\ \A i \in Lines : i # 1 => at[i - 1] \in Int
    BY <1>4, <1>9, <1>10, PlacedIs
<1>12. ASSUME NEW i \in Lines
       PROVE  /\ at[i] >= script[i] \/ i + 1 \in Anchors
              /\ i # 1 => at[i] >= Ends(at[i - 1], Length(runs[i - 1]))
    <2>1. PICK before \in Int : i # 1 => before = at[i - 1]
        <3>1. CASE i = 1
            BY <3>1
        <3>2. CASE i # 1
            BY <1>11, <3>2
        <3> QED
            BY <3>1, <3>2
    <2>2. PICK free \in Int : free = Free(runs, i, before)
        BY <1>9, FreeIs
    <2>3. free = Free(runs, i, at[i - 1])
        BY <2>1, <2>2 DEF Free
    <2>4. PICK start : start = PlacedAfter(script, runs, i, free)
        OBVIOUS
    <2>5. start \in Int /\ start >= free /\ (start >= script[i] \/ i + 1 \in Anchors)
        BY <1>9, <1>10, <2>4, PlacedAfterIs
    <2>6. at[i] = start
        BY <1>11, <2>3, <2>4
    <2>7. i # 1 => free = Ends(at[i - 1], Length(runs[i - 1]))
        BY <2>3 DEF Free
    <2> QED
        BY <2>5, <2>6, <2>7
<1>13. \A i \in Lines : i + 1 \in Lines => at[i] + Length(runs[i]) + GAP <= at[i + 1]
    <2> SUFFICES ASSUME NEW i \in Lines, i + 1 \in Lines PROVE at[i] + Length(runs[i]) + GAP <= at[i + 1]
        OBVIOUS
    <2>1. i + 1 # 1 /\ (i + 1) - 1 = i
        BY WordsAre
    <2>2. at[i + 1] >= Ends(at[i], Length(runs[i]))
        BY <1>12, <2>1
    <2>3. at[i] \in Int /\ at[i + 1] \in Int /\ Length(runs[i]) \in Int /\ GAP \in Int
        BY <1>9, <1>11, VoiceAssumption
    <2> QED
        BY <2>2, <2>3 DEF Ends
<1>14. \A i \in Anchors : at[i] = script[i] \/ i \in late
    BY <1>4, <1>5, <1>9, <1>10, AnchorsStand
<1>15. \A i \in Anchors : at[i] = Authored[i] \/ i \in late \cup moved
    BY <1>10, <1>14
<1>16. Fits(voice', moved')
    <2>1. PICK v : v = voice'
        OBVIOUS
    <2>2. v.script = script /\ v.segs = segs /\ v.cuts = cuts /\ v.at = at /\ v.late = late
        BY <1>6, <2>1
    <2>3. moved \subseteq moved'
        BY <1>6
    <2>4. \A i \in Anchors : at[i] = Authored[i] \/ i \in late \cup moved'
        BY <1>15, <2>3
    <2>5. \A i \in Lines : i + 1 \in Lines => at[i] + Length(Runs(segs, cuts)[i]) + GAP <= at[i + 1]
        BY <1>3, <1>13
    <2>6. \A i \in Lines : at[i] >= script[i] \/ i + 1 \in Anchors
        BY <1>12
    <2>7. Fits(v, moved')
        BY <1>7, <1>8, <1>11, <2>2, <2>4, <2>5, <2>6 DEF Fits
    <2> QED
        BY <2>1, <2>7
<1>17. script' \in [Lines -> Int]
    BY <1>6, <1>10, <1>11
<1>18. \A i \in Anchors : script'[i] = Authored[i] \/ i \in moved'
    <2>1. CASE write
        BY <1>6, <1>15, <2>1
    <2>2. CASE ~write
        BY <1>6, <1>10, <2>2
    <2> QED
        BY <2>1, <2>2
<1> QED
    BY <1>16, <1>17, <1>18 DEF VoiceInv

\* Every step keeps the anchors accounted for and the retiming right.
LEMMA VoiceStays == VoiceInv /\ (VoiceNext \/ UNCHANGED voiceVars) => VoiceInv'
<1> SUFFICES ASSUME VoiceInv, VoiceNext \/ UNCHANGED voiceVars PROVE VoiceInv'
    OBVIOUS
<1>1. CASE VoiceNext
    BY <1>1, RetimeStep DEF VoiceNext
<1>2. CASE UNCHANGED voiceVars
    BY <1>2 DEF voiceVars, VoiceInv, Fits
<1> QED
    BY <1>1, <1>2

\* What was written back keeps the bed down.
LEMMA VoiceIsHeard == VoiceInv => VoiceFits
<1> SUFFICES ASSUME VoiceInv, voice # None PROVE VoiceFits
    BY DEF VoiceFits
<1>1. Fits(voice, moved) /\ script \in [Lines -> Int]
    BY DEF VoiceInv
<1>2. PICK at : at = voice.at
    OBVIOUS
<1>3. PICK lens : lens = [i \in Lines |-> Length(Runs(voice.segs, voice.cuts)[i])]
    OBVIOUS
<1>4. \A i \in Lines : lens[i] = Length(Runs(voice.segs, voice.cuts)[i]) /\ lens[i] \in Int
    BY <1>1, <1>3, RunsAre DEF Fits
<1>5. at \in [Lines -> Int] /\ GAP \in Nat /\ VO_MAX \in Nat
    BY <1>1, <1>2, VoiceAssumption DEF Fits
<1>6. \A i \in Lines : i + 1 \in Lines => at[i] + lens[i] + GAP <= at[i + 1]
    BY <1>1, <1>2, <1>4 DEF Fits
<1>7. BestCut
    BY <1>1 DEF Fits, BestCut
<1>8. \A i \in Lines : at[i] >= voice.script[i] \/ i + 1 \in Anchors
    BY <1>1, <1>2 DEF Fits
<1>9. \A i \in Anchors : at[i] = Authored[i] \/ i \in voice.late \cup moved
    BY <1>1, <1>2 DEF Fits
<1>10. ASSUME script = at, NEW i \in Lines, NEW t \in at[i]..(at[i] + lens[i]), t < Outro, t <= at[i] + VO_MAX
       PROVE  Ducks(t)
    <2>1. PICK a \in Int, l \in Int : a = at[i] /\ l = lens[i]
        BY <1>4, <1>5
    <2>2. t \in Int /\ a <= t /\ t <= a + l /\ t <= a + VO_MAX
        BY <1>10, <2>1
    <2>3. Window(i).from = a
        BY <1>10, <2>1 DEF Window
    <2>4. CASE i + 1 \in Lines /\ at[i + 1] < a + VO_MAX
        <3>1. PICK b \in Int : b = at[i + 1]
            BY <1>5, <2>4
        <3>2. Window(i).to = b
            BY <1>10, <2>1, <2>4, <3>1 DEF Window
        <3>3. a + l + GAP <= b
            BY <1>6, <2>1, <2>4, <3>1
        <3>4. t \in Window(i).from..Window(i).to
            BY <1>5, <2>2, <2>3, <3>2, <3>3
        <3> QED
            BY <1>10, <3>4 DEF Ducks
    <2>5. CASE ~(i + 1 \in Lines /\ at[i + 1] < a + VO_MAX)
        <3>1. Window(i).to = a + VO_MAX
            BY <1>10, <2>1, <2>5 DEF Window
        <3>2. t \in Window(i).from..Window(i).to
            BY <1>5, <2>2, <2>3, <3>1
        <3> QED
            BY <1>10, <3>2 DEF Ducks
    <2> QED
        BY <2>4, <2>5
<1>11. \A i \in Lines : voice.at[i] + Length(Runs(voice.segs, voice.cuts)[i]) = at[i] + lens[i]
    BY <1>2, <1>4
<1> QED
    BY <1>2, <1>6, <1>7, <1>8, <1>9, <1>10, <1>11 DEF VoiceFits

----------------------------------------------------------------------------
(* A recording and its readers (Recording).                                  *)

\* Of any prefix of a recording, whatever was pruned when and whichever snapshot was skipped: the landing page,
\* the cards, the film, the scrubber's marks and the player tell the same of the attack and of the healing
\* (reel-stats.mjs, parse.ts, timeline.ts, timeline-marks.ts, store.ts).
THEOREM ReadersTellTheSame == Spec => []ReadersAgree
<1>1. Init => TapeInv
    BY TapeStarts DEF Init
<1>2. TapeInv /\ [Next]_vars => TapeInv'
    <2> SUFFICES ASSUME TapeInv, [Next]_vars PROVE TapeInv'
        OBVIOUS
    <2>1. TapeNext \/ UNCHANGED tapeVars
        BY DEF Next, vars, others, LogStep, PlateStep, FilmStep, FootageStep, VoiceStep, StoryStep, NoticeStep,
               TapeStep, ReadoutStep, CutsStep
    <2> QED
        BY <2>1, NextKeepsTape
<1> QED
    BY <1>1, <1>2, TapeTellsTheSame, PTL DEF Spec

----------------------------------------------------------------------------
(* The film, from its parts to its player.                                  *)

\* Whatever is pressed, and in whatever order the film's events come: with none of them under way, the controls
\* show what the film does (DemoFilm.tsx).
THEOREM ControlsAreTold == Spec => []ControlsAgree
<1>1. Init => FilmInv
    BY FilmStarts DEF Init
<1>2. FilmInv /\ [Next]_vars => FilmInv'
    <2> SUFFICES ASSUME FilmInv, [Next]_vars PROVE FilmInv'
        OBVIOUS
    <2>1. FilmNext \/ UNCHANGED filmVars
        BY DEF Next, vars, others, LogStep, PlateStep, FilmStep, FootageStep, VoiceStep, StoryStep, NoticeStep,
               TapeStep, ReadoutStep, CutsStep
    <2> QED
        BY <2>1, FilmStays
<1> QED
    BY <1>1, <1>2, FilmAgrees, PTL DEF Spec

\* However often a recording breaks off, and whatever is left on the disk: the footage that is cut is the shot,
\* frame by frame, and its cursor arrives when the shot clicks (shots.mjs, record.mjs).
THEOREM FootageIsKept == Spec => []FootageIsTheShot
<1>1. Init => FootageInv
    BY FootageStarts DEF Init
<1>2. FootageInv /\ [Next]_vars => FootageInv'
    <2> SUFFICES ASSUME FootageInv, [Next]_vars PROVE FootageInv'
        OBVIOUS
    <2>1. FootageNext \/ UNCHANGED footageVars
        BY DEF Next, vars, others, LogStep, PlateStep, FilmStep, FootageStep, VoiceStep, StoryStep, NoticeStep,
               TapeStep, ReadoutStep, CutsStep
    <2> QED
        BY <2>1, FootageStays
<1>3. FootageInv => FootageIsTheShot
    BY DEF FootageInv
<1> QED
    BY <1>1, <1>2, <1>3, PTL DEF Spec

\* Of every script and at every frame: one scene is drawn, cuts lie under a full seam, and captions, cues and cards
\* keep the script's times to half a frame (timeline.ts, scenes.tsx, Demo.tsx).
THEOREM CutsAreKept == Spec => []CutsHold
<1>1. Init => CutsInv
    BY CutsStart DEF Init
<1>2. CutsInv /\ [Next]_vars => CutsInv'
    <2> SUFFICES ASSUME CutsInv, [Next]_vars PROVE CutsInv'
        OBVIOUS
    <2>1. NextFrame \/ UNCHANGED cutVars
        BY DEF Next, vars, others, LogStep, PlateStep, FilmStep, FootageStep, VoiceStep, StoryStep, NoticeStep,
               TapeStep, ReadoutStep, CutsStep
    <2> QED
        BY <2>1, CutsStay
<1> QED
    BY <1>1, <1>2, CutsAreHeld, PTL DEF Spec

\* However often reads are retimed and written back: each is cut at the least cost there is, its lines do not
\* overlap and start late only, and anchors leave their place with a warning (retime-vo.mjs).
THEOREM VoiceIsKept == Spec => []VoiceFits
<1>1. Init => VoiceInv
    BY VoiceStarts DEF Init
<1>2. VoiceInv /\ [Next]_vars => VoiceInv'
    <2> SUFFICES ASSUME VoiceInv, [Next]_vars PROVE VoiceInv'
        OBVIOUS
    <2>1. VoiceNext \/ UNCHANGED voiceVars
        BY DEF Next, vars, others, LogStep, PlateStep, FilmStep, FootageStep, VoiceStep, StoryStep, NoticeStep,
               TapeStep, ReadoutStep, CutsStep
    <2> QED
        BY <2>1, VoiceStays
<1> QED
    BY <1>1, <1>2, VoiceIsHeard, PTL DEF Spec

\* The film is right in all its parts: for every shot, script and read, and for every order of what happens to them.
THEOREM FilmIsMadeRight == Spec => []FilmIsRight
<1>1. ControlsAgree /\ FootageIsTheShot /\ CutsHold /\ VoiceFits => FilmIsRight
    BY DEF FilmIsRight
<1> QED
    BY <1>1, ControlsAreTold, FootageIsKept, CutsAreKept, VoiceIsKept, PTL
=============================================================================
