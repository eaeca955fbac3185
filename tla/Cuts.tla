--------------------------------- MODULE Cuts ---------------------------------
(* The cut of the demo film (remotion/demo): its script in half frames, the     *)
(* scenes, captions, stamps and sounds each frame of it draws or plays, and the   *)
(* dissolve of Bayer cells that hides the change of scene.  Remotion renders each *)
(* frame by its number alone; the player shows them in order.                     *)
EXTENDS Integers, Sequences, SequencesExt

CONSTANTS Scripts,   \* [scenes : of [at, dur], captions : of [at, until], pruned : landings.allPruned,
                     \*  hit : a sound's hit in its file, cues : of the times of stamp cues]
          HALF,      \* frames a dissolve closes in (12 in the code)
          FALL,      \* frames a stamp falls for (6)
          LEVELS     \* thresholds of the Bayer matrix (64)

ASSUME CutsAssumption ==
    /\ HALF \in Nat \ {0} /\ FALL \in Nat /\ LEVELS \in Nat \ {0}
    /\ \A s \in Scripts :
        \* Scenes follow one another without a pause, captions without an overlap.
        /\ s.scenes \in Seq([at : Nat, dur : Nat]) /\ s.scenes # <<>> /\ s.scenes[1].at = 0
        /\ \A i \in 1..(Len(s.scenes) - 1) : s.scenes[i + 1].at = s.scenes[i].at + s.scenes[i].dur
        /\ s.captions \in Seq([at : Nat, until : Nat])
        /\ \A k \in DOMAIN s.captions : s.captions[k].at < s.captions[k].until
        /\ \A k, m \in DOMAIN s.captions : k < m => s.captions[k].until <= s.captions[m].at
        \* PRUNED lands in footage, as a caption starts.
        /\ \E i \in 2..(Len(s.scenes) - 1) :
               s.scenes[i].at <= s.pruned /\ s.pruned < s.scenes[i].at + s.scenes[i].dur
        /\ \E k \in DOMAIN s.captions : s.captions[k].at = s.pruned
        \* The opening card has a caption, the end card has two.
        /\ \E k \in DOMAIN s.captions : s.captions[k].at < s.scenes[1].dur
        /\ LET last == s.scenes[Len(s.scenes)]
           IN  \E k, m \in DOMAIN s.captions :
                   k # m /\ \A j \in {k, m} : s.captions[j].at \in last.at..(last.at + last.dur - 1)
        /\ s.hit \in Int /\ s.cues \in Seq(Int)

VARIABLES sheet,   \* the script of the film
          frame    \* the one that is shown

cutVars == <<sheet, frame>>

\* Math.round of a time in half frames.
CutFrame(t) == (t + 1) \div 2

EndOf(s) == s.at + s.dur
Scenes == DOMAIN sheet.scenes
Scene(i) == sheet.scenes[i]
Duration == CutFrame(EndOf(Last(sheet.scenes)))
CutsOf == {CutFrame(Scene(i).at) : i \in Scenes \ {1}}

-------------------------------------------------------------------------------
\* One Sequence a scene.
ShownScenes(f) == {i \in Scenes : CutFrame(Scene(i).at) <= f /\ f < CutFrame(EndOf(Scene(i)))}

Shows(i) == i \in ShownScenes(frame)

\* A frame's number within the Sequence of scene i.
Local(i) == frame - CutFrame(Scene(i).at)
LocalAt(i, t) == CutFrame(t - Scene(i).at)

\* The captions that start in scene i, by their numbers.
Captions == DOMAIN sheet.captions
Caption(k) == sheet.captions[k]
CaptionsIn(i) == {k \in Captions : Caption(k).at >= Scene(i).at /\ Caption(k).at < EndOf(Scene(i))}
FirstIn(i) == Caption(Min(CaptionsIn(i)))
SecondIn(i) == Caption(Min(CaptionsIn(i) \ {Min(CaptionsIn(i))}))

\* The first scene is the opening card and the last one the end card; only footage has caption stamps.
Footages == Scenes \ {1, Len(sheet.scenes)}

CaptionShows(i, c) ==
    /\ i \in Footages /\ Shows(i)
    /\ Local(i) >= LocalAt(i, c.at) /\ Local(i) < LocalAt(i, c.until)

\* The captions the frame shows.
Up == {k \in Captions : \E i \in Footages : k \in CaptionsIn(i) /\ CaptionShows(i, Caption(k))}

\* A stamp falls, lands on `at`, and is gone from `until`.
Pressed(i, at, until) == Shows(i) /\ Local(i) >= at - FALL /\ Local(i) < until
Landed(i, at, until) == Pressed(i, at, until) /\ Local(i) >= at

\* PRUNED stands until the end of the caption that starts as it lands, or of the scene.
PrunedUntil(i) ==
    LET its == {k \in Captions : Caption(k).at = sheet.pruned}
    IN  IF its = {} THEN EndOf(Scene(i)) ELSE Caption(Min(its)).until

PrunedScene == CHOOSE i \in Footages : sheet.pruned >= Scene(i).at /\ sheet.pruned < EndOf(Scene(i))

PrunedLanded ==
    LET i == PrunedScene IN Landed(i, LocalAt(i, sheet.pruned), LocalAt(i, PrunedUntil(i)))

\* A line that slides in over some frames and stands from `at`.
Slides(i, at, over) == Shows(i) /\ Local(i) >= at - over

\* The cards: the name lands with the first caption, which slides out under it; the table comes with
\* the first caption of the end card and the address with the second.
NameLanded == Shows(1) /\ Local(1) >= LocalAt(1, FirstIn(1).at)
SubLineShows == Slides(1, LocalAt(1, FirstIn(1).at) + 8, 8)

EndCard == Len(sheet.scenes)
StampAt ==
    LET late == {n \in DOMAIN sheet.cues : sheet.cues[n] >= Scene(EndCard).at}
    IN  IF late = {} THEN FirstIn(EndCard).at ELSE sheet.cues[Min(late)]
TableStands == Shows(EndCard) /\ Local(EndCard) >= LocalAt(EndCard, FirstIn(EndCard).at)
AddressStands == Shows(EndCard) /\ Local(EndCard) >= LocalAt(EndCard, SecondIn(EndCard).at)
EndStampLanded == Shows(EndCard) /\ Local(EndCard) >= LocalAt(EndCard, StampAt)

\* The frame a cue's file starts in.
PlacedAt(t) == CutFrame(t - sheet.hit)

-------------------------------------------------------------------------------
\* The dissolve's coverage in frame f, of 2 * HALF, by the cut that covers most.
HalfFrom(f, c) == IF f >= c THEN 2 * (f - c) + 1 ELSE 2 * (c - f) - 1

Closing(f, least) == {2 * HALF - (HalfFrom(f, c) - least) : c \in CutsOf}

DissolveAt(f) == Max({0} \union Closing(f, 1))

\* The launch film's, which is never full.
LaunchDissolveAt(f) == Max({0} \union Closing(f, 0))

\* A cell of a level is covered when its threshold, (level + 1/2) / LEVELS, is below the coverage.
Covered(level, p) == (2 * level + 1) * 2 * HALF < p * 2 * LEVELS
Hidden(p) == \A level \in 0..(LEVELS - 1) : Covered(level, p)

-------------------------------------------------------------------------------
CutsInit == sheet \in Scripts /\ frame = 0

NextFrame ==
    /\ frame < Duration - 1
    /\ frame' = frame + 1
    /\ UNCHANGED sheet

-------------------------------------------------------------------------------
\* The film's time, in half frames, is that of the frame's start; a thing drawn at a time is a frame off at most.
Within(from, to) == 2 * frame >= from - 2 /\ 2 * frame < to + 2

\* Every frame shows one scene, and the scene changes only between two frames that the dissolve
\* hides; a caption shows at its time, one at once; PRUNED has landed only while its caption shows;
\* a sound is heard to hit within a frame of its cue; and on the cards nothing stands before its
\* caption is due (timeline.ts:49-50, scenes.tsx:192-193).
CutsHold ==
    /\ \E i \in Scenes : ShownScenes(frame) = {i}
    /\ frame > 0 /\ ShownScenes(frame) # ShownScenes(frame - 1) =>
           Hidden(DissolveAt(frame)) /\ Hidden(DissolveAt(frame - 1))
    /\ \A k \in Up : Within(Caption(k).at, Caption(k).until)
    /\ \A k, m \in Up : k = m
    /\ PrunedLanded => \E k \in Up : Caption(k).at = sheet.pruned
    /\ \A n \in DOMAIN sheet.cues :
           LET t == sheet.cues[n] IN 2 * PlacedAt(t) + sheet.hit \in (t - 2)..(t + 2)
    /\ NameLanded => Within(FirstIn(1).at, EndOf(Scene(1)))
    /\ SubLineShows <=> NameLanded
    /\ AddressStands => TableStands
    /\ EndStampLanded => Within(StampAt, EndOf(Scene(EndCard)))

\* Not true of the code: the launch film's dissolve, which "rises to 1 into each cut" (v2/fx.tsx:110), hides it too.
LaunchHidesCuts ==
    frame > 0 /\ ShownScenes(frame) # ShownScenes(frame - 1) => Hidden(LaunchDissolveAt(frame))
===============================================================================
