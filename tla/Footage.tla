-------------------------------- MODULE Footage --------------------------------
(* The demo's footage: the recorder (demo/record.mjs) steps one page of the real *)
(* interface frame by frame and writes each frame to a file; the sidecar with    *)
(* the cursor's path is written once, at the end.  The encoder (demo/encode.mjs) *)
(* makes a clip of both, which the film plays with the cursor drawn over it.  A   *)
(* recording that died is taken up again: the page is stepped from the start,    *)
(* and the frames on disk are kept.                                              *)
(*                                                                               *)
(* Time is in frames.  What a frame shows is the look the shot was taken with    *)
(* (its url, seek, speed and click), how far the page's clock had come and       *)
(* whether the click had landed: Math.random is pinned, so nothing else matters. *)
(* A shot has one click at most, as every shot of demo/shots.mjs has.            *)
EXTENDS Integers, Sequences, Null

CONSTANTS Shots,   \* the versions of the shot: [look, frames, skip, click]
          GLIDE    \* frames a glide to the peer takes (12 in the code)

CursorEvents == [t : Nat, kind : {"move", "click"}]

ASSUME FootageAssumption ==
    /\ GLIDE \in Nat \ {0}
    /\ \A s \in Shots :
        /\ s.frames \in Nat \ {0} /\ s.skip \in 0..(s.frames - 1)
        \* The click lands within the shot.
        /\ s.click # None => s.click \in Nat /\ s.click + GLIDE <= s.frames
    \* The look includes the click.
    /\ \A s, z \in Shots : s.look = z.look => s.click = z.click
    \* null is no frame and no recording.
    /\ None \notin Nat
    /\ None \notin [shot : Shots, at : Nat, clock : Nat, fired : BOOLEAN, glide : Nat \union {None},
                    opened : BOOLEAN, cursor : SUBSET CursorEvents]

VARIABLES shot,      \* the entry of shots.mjs
          disk,      \* the frame files 0..: what each shows
          side,      \* the sidecar: the cursor's events, or None
          recorder,  \* None, or the running recording
          torn,      \* history: a recording died, and none was completed since
          clip       \* None, or the clip of the film with its sidecar

footageVars == <<shot, disk, side, recorder, torn, clip>>

FootageInit ==
    /\ shot \in Shots
    /\ disk = <<>> /\ side = None
    /\ recorder = None /\ torn = FALSE
    /\ clip = None

\* Frame k is file k + 1 of the sequence.
OnDisk(k) == k < Len(disk)

-------------------------------------------------------------------------------
\* The recorder.

\* The page is opened at the shot's url, seeked, its speed set, its clock frozen and Play pressed.
RecordStart ==
    /\ recorder = None
    /\ recorder' = [shot |-> shot, at |-> 0, clock |-> 0, fired |-> FALSE, glide |-> None,
                    opened |-> FALSE, cursor |-> {}]
    /\ UNCHANGED <<shot, disk, side, torn, clip>>

\* The click's action starts its glide in the frame its time has come.
Fired(r) ==
    IF r.fired \/ r.shot.click = None \/ r.at < r.shot.click THEN r
    ELSE [r EXCEPT !.fired = TRUE, !.glide = r.at]

\* One frame of the glide, aimed at where the peer is now; the last one clicks.
Glided(r) ==
    IF r.glide = None THEN r
    ELSE IF r.at - r.glide + 1 < GLIDE
         THEN [r EXCEPT !.cursor = @ \union {[t |-> r.at, kind |-> "move"]}]
         ELSE [r EXCEPT !.cursor = @ \union {[t |-> r.at, kind |-> "click"]},
                        !.glide = None, !.opened = TRUE]

\* Slip: a frame that is there already is skipped before the clock is stepped.
SteppedWhenFilmed(r) == IF r.at > 0 /\ ~OnDisk(r.at) THEN [r EXCEPT !.clock = @ + 1] ELSE r

\* Every frame but the first steps the page's clock.
Stepped(r) == IF r.at > 0 THEN [r EXCEPT !.clock = @ + 1] ELSE r

Picture(r) == [look |-> r.shot.look, clock |-> r.clock, opened |-> r.opened]

\* One turn of the loop over the frames.
FilmFrame ==
    /\ recorder # None /\ recorder.at < recorder.shot.frames
    /\ LET r == Stepped(Glided(Fired(recorder)))
       IN  /\ disk' = IF OnDisk(r.at) THEN disk ELSE Append(disk, Picture(r))
           /\ recorder' = [r EXCEPT !.at = @ + 1]
    /\ UNCHANGED <<shot, side, torn, clip>>

RecordEnd ==
    /\ recorder # None /\ recorder.at = recorder.shot.frames
    /\ side' = recorder.cursor
    /\ recorder' = None /\ torn' = FALSE
    /\ UNCHANGED <<shot, disk, clip>>

\* The browser or the process dies, in any frame or between the last one and the sidecar.
RecordDies ==
    /\ recorder # None
    /\ recorder' = None /\ torn' = TRUE
    /\ UNCHANGED <<shot, disk, side, clip>>

-------------------------------------------------------------------------------
\* The author changes the shot between recordings: its length or its trim, or its look, and
\* then deletes the frames that show the old one (the recorder would keep them).
EditShot ==
    /\ recorder = None
    /\ shot' \in Shots \ {shot}
    /\ disk' = IF shot'.look = shot.look THEN disk ELSE <<>>
    /\ UNCHANGED <<side, recorder, torn, clip>>

\* The encoder refuses a shot whose number of frames is not its length.
Complete == side # None /\ Len(disk) = shot.frames

\* The cursor's events on the clip's clock, those in the trimmed part dropped.
Trimmed(events, skip) == {[e EXCEPT !.t = @ - skip] : e \in {d \in events : d.t >= skip}}

Encode ==
    /\ Complete
    /\ clip' = [of |-> shot, torn |-> torn \/ recorder # None,
                frames |-> SubSeq(disk, shot.skip + 1, Len(disk)),
                cursor |-> Trimmed(side, shot.skip)]
    /\ UNCHANGED <<shot, disk, side, recorder, torn>>

\* The latest of some events, of which no frame has two.
Newest(events) == CHOOSE e \in events : \A d \in events : d.t <= e.t

\* The film: the cursor in frame t of the clip, and how long ago it clicked.
CursorAt(events, t) ==
    LET past   == {e \in events : e.t <= t}
        clicks == {e \in past : e.kind = "click"}
    IN  IF past = {} THEN None
        ELSE [from |-> Newest(past).t, clicked |-> IF clicks = {} THEN None ELSE t - Newest(clicks).t]

FootageNext ==
    \/ RecordStart
    \/ FilmFrame
    \/ RecordEnd
    \/ RecordDies
    \/ EditShot
    \/ Encode

-------------------------------------------------------------------------------
\* What the page shows in frame t of an unbroken recording of s, and the cursor to be drawn over
\* it: nothing before the glide, a point of its own in each of its frames, and then the click.
Lands(s) == s.click + GLIDE - 1

ShotAt(s, t) == [look |-> s.look, clock |-> t, opened |-> s.click # None /\ t >= Lands(s)]

PathAt(s, t) ==
    IF s.click = None \/ t < s.click THEN None
    ELSE IF t < Lands(s) THEN [from |-> t - s.skip, clicked |-> None]
         ELSE [from |-> Lands(s) - s.skip, clicked |-> t - Lands(s)]

\* Whatever died and was taken up again, whatever was lengthened, shortened or trimmed: a clip
\* is the frames of its shot from the trim on, each the one the page showed at that frame of an
\* unbroken recording; and, unless the sidecar may be another recording's (torn) or the trim
\* cuts into the glide, the cursor drawn over each is the one of that frame, its click included
\* (record.mjs:5-9, encode.mjs:24-34).
FootageIsTheShot ==
    clip # None =>
        LET s == clip.of
        IN  /\ Len(clip.frames) = s.frames - s.skip
            /\ \A t \in s.skip..(s.frames - 1) : clip.frames[t - s.skip + 1] = ShotAt(s, t)
            /\ ~clip.torn /\ (s.click # None => s.skip <= s.click) =>
                   \A t \in s.skip..(s.frames - 1) : CursorAt(clip.cursor, t - s.skip) = PathAt(s, t)
===============================================================================
