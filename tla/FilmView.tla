------------------------------- MODULE FilmView -------------------------------
(* The showcase film (VideoPlate.tsx): a media element and the controls drawn   *)
(* around it.  The element answers a call at once and tells its events later,   *)
(* in tasks; the controls keep their own copy of paused, muted and ended, set   *)
(* in the event handlers only (mute also sets it in the click).  The browser's  *)
(* media keys act on the same element behind the controls' back.                *)
EXTENDS Integers, Sequences

CONSTANTS MaxTasks   \* bound: media tasks queued at once

ASSUME FilmAssumption == MaxTasks \in Nat \ {0}

VARIABLES element,  \* [paused, muted, atEnd, broken]; waiting: its last play() is not answered yet
          tasks,    \* queued media tasks, oldest first: [does, rejects]
          ui        \* hydrated, phase "poster"/"dissolve"/"video", paused, ended, muted, missing

filmVars == <<element, tasks, ui>>

Task(does, rejects) == [does |-> does, rejects |-> rejects]

FilmInit ==
    /\ element = [paused |-> TRUE, muted |-> FALSE, atEnd |-> FALSE, broken |-> FALSE, waiting |-> FALSE]
    /\ tasks = <<>>
    /\ ui = [hydrated |-> FALSE, phase |-> "poster", paused |-> TRUE, ended |-> FALSE,
             muted |-> FALSE, missing |-> FALSE]

Room == Len(tasks) <= MaxTasks - 2

-------------------------------------------------------------------------------
\* The element (the browser's; external).

\* `muted` set to m: a volumechange task when that changes it.
SetMuted(e, ts, m) ==
    [element |-> [e EXCEPT !.muted = m],
     tasks   |-> IF e.muted = m THEN ts ELSE Append(ts, Task("volumechange", FALSE))]

\* play(): from the end it starts over; `ask` is FALSE when the caller keeps no promise.
ElementPlay(e, ts, ask) ==
    [element |-> [e EXCEPT !.paused = FALSE, !.atEnd = FALSE, !.waiting = @ \/ ask],
     tasks   |-> IF e.paused THEN Append(ts, Task("play", FALSE)) ELSE ts]

\* pause(): its task also rejects the promises now waiting.
ElementPause(e, ts) ==
    [element |-> [e EXCEPT !.paused = TRUE, !.waiting = FALSE],
     tasks   |-> IF e.paused THEN ts ELSE Append(ts, Task("pause", e.waiting))]

\* What a call leaves of the element and its tasks.
Answers(call) == element' = call.element /\ tasks' = call.tasks

\* Data arrives and the film runs: the promises are kept.
Playing ==
    /\ element.waiting
    /\ element' = [element EXCEPT !.waiting = FALSE]
    /\ UNCHANGED <<tasks, ui>>

\* The film, which runs for a minute, ends: long after the tasks of its start.
ReachesEnd ==
    /\ tasks = <<>> /\ ~element.paused /\ ~element.waiting /\ ~element.atEnd
    /\ element' = [element EXCEPT !.atEnd = TRUE]
    /\ tasks' = <<Task("ended", FALSE)>>
    /\ UNCHANGED ui

\* The film cannot be loaded; before hydration nobody hears the event.
Breaks ==
    /\ Room /\ ~element.broken
    /\ element' = [element EXCEPT !.broken = TRUE, !.waiting = FALSE]
    /\ tasks' = IF ui.hydrated THEN Append(tasks, Task("error", element.waiting)) ELSE tasks
    /\ UNCHANGED ui

\* The browser's media keys and its menu.
MediaKey ==
    /\ Room /\ ui.hydrated /\ ~element.broken
    /\ \/ element.paused /\ Answers(ElementPlay(element, tasks, FALSE))
       \/ ~element.paused /\ Answers(ElementPause(element, tasks))
       \/ Answers(SetMuted(element, tasks, ~element.muted))
    /\ UNCHANGED ui

-------------------------------------------------------------------------------
\* The controls.

\* The mount effect reads the element once: an error may have come before the handlers.
HydrateFilm ==
    /\ ~ui.hydrated
    /\ ui' = [ui EXCEPT !.hydrated = TRUE, !.missing = element.broken]
    /\ UNCHANGED <<element, tasks>>

\* play(): mute as shown, play, and leave the poster (reduced motion skips the dissolve).
Play ==
    LET set == SetMuted(element, tasks, ui.muted)
    IN  /\ ~ui.missing
        /\ Answers(ElementPlay(set.element, set.tasks, TRUE))
        /\ IF ui.phase = "poster"
           THEN \E next \in {"dissolve", "video"} : ui' = [ui EXCEPT !.phase = next]
           ELSE UNCHANGED ui

\* The cover over the poster or over a paused film.
PressCover ==
    /\ Room /\ ui.hydrated
    /\ ui.phase = "poster" \/ (ui.paused /\ ui.phase = "video")
    /\ Play

\* The bar's button, or a click on the film while it runs.
Toggle ==
    /\ Room /\ ui.hydrated /\ ~ui.missing
    /\ \/ /\ ~element.paused
          /\ Answers(ElementPause(element, tasks))
          /\ UNCHANGED ui
       \/ element.paused /\ Play

Mute ==
    /\ Room /\ ui.hydrated
    /\ Answers(SetMuted(element, tasks, ~element.muted))
    /\ ui' = [ui EXCEPT !.muted = ~@]

\* The last cell is cleared, or there was no poster to dissolve.
Dissolved ==
    /\ ui.phase = "dissolve"
    /\ ui' = [ui EXCEPT !.phase = "video"]
    /\ UNCHANGED <<element, tasks>>

\* Slip: the copy is flipped in the click only.
PausedUnheard(u) == u

\* onPause.
Paused(u) == [u EXCEPT !.paused = TRUE]

\* What a task's handlers leave, and whether the promise was rejected.
Heard(task, u) ==
    CASE task.does = "play"         -> [u EXCEPT !.paused = FALSE, !.ended = FALSE]
      [] task.does = "pause"        -> Paused(u)
      [] task.does = "volumechange" -> [u EXCEPT !.muted = element.muted]
      [] task.does = "ended"        -> [IF element.atEnd /\ ~element.paused THEN Paused(u) ELSE u EXCEPT !.ended = TRUE]
      [] task.does = "error"        -> [u EXCEPT !.missing = TRUE]

\* A media task runs; an element that ended pauses itself in it.
RunTask ==
    /\ tasks # <<>>
    /\ LET task  == Head(tasks)
           stops == task.does = "ended" /\ element.atEnd /\ ~element.paused
           u     == Heard(task, ui)
       IN  /\ ui' = IF task.rejects THEN [u EXCEPT !.phase = "poster"] ELSE u
           /\ element' = IF stops THEN [element EXCEPT !.paused = TRUE] ELSE element
    /\ tasks' = Tail(tasks)

FilmNext ==
    \/ Playing
    \/ ReachesEnd
    \/ Breaks
    \/ MediaKey
    \/ HydrateFilm
    \/ PressCover
    \/ Toggle
    \/ Mute
    \/ Dissolved
    \/ RunTask

-------------------------------------------------------------------------------
\* Once the element's tasks have run, the controls show what the element does:
\* whether it plays and whether it is heard, whoever pressed what in between
\* (VideoPlate.tsx:109-111, 90, 95).
ControlsAgree ==
    ui.hydrated /\ tasks = <<>> => ui.paused = element.paused /\ ui.muted = element.muted
===============================================================================
