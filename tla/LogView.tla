------------------------------- MODULE LogView -------------------------------
(* The event log rail (components/sim/LogRail.tsx).  The rail follows the last  *)
(* rows until the user scrolls away; from then on it holds the events it showed *)
(* and reads "paused".  The rail cannot tell a user's scroll from its own: both *)
(* end in one asynchronous scroll event, delivered at the start of a frame,     *)
(* after which that frame's requestAnimationFrame callback runs.                *)
(*                                                                              *)
(* Positions are in rows.  An event is a number; `narrow` is a set of chips     *)
(* that lets every second event through.  A store update is rendered with its   *)
(* effects in one step (React's sync lane); setFrozen, called in a scroll       *)
(* handler, is rendered in a later step, Commit, which batches may precede but   *)
(* not the next scroll event: React's scheduler runs it within the frame.        *)
EXTENDS Integers, FiniteSetsExt, Null

CONSTANTS KEEP,      \* events the store keeps (MAX_EVENTS)
          CAP,       \* rows the rail shows at most (visibleRows' cap)
          FITS,      \* rows that fit in the list's height
          MaxEvents  \* bound: events in one behaviour

ASSUME RailAssumption ==
    /\ {KEEP, CAP, FITS, MaxEvents} \subseteq Nat \ {0}
    /\ None \notin [from : Nat, to : Nat]   \* null is no list of events

VARIABLES live,      \* [from, to]: the store's events from..to-1
          narrow,    \* the chips let only every second event through
          frozen,    \* None, or the events held while paused, as rendered
          held,      \* the same after the setFrozen calls not rendered yet
          pausedNow, \* the ref set in onScroll
          autoTop,   \* the scrollTop the rail last set, -1 once consumed
          top,       \* the list's scrollTop
          reach,     \* the list's largest scrollTop at the last layout
          event,     \* a scroll event is queued
          raf,       \* a follow frame is queued
          byUser     \* history: the user scrolled since the last scroll event

railVars == <<live, narrow, frozen, held, pausedNow, autoTop, top, reach, event, raf, byUser>>

Least(a, b) == IF a < b THEN a ELSE b

Most(a, b) == IF a < b THEN b ELSE a

Events == IF frozen = None THEN live ELSE frozen

Following == frozen = None

\* How many rows the list shows of these events.
VisibleRows(events) ==
    Least(CAP, Cardinality({i \in events.from..(events.to - 1) : narrow => i % 2 = 0}))

\* The largest scrollTop of the rows now rendered.
Reach == Most(0, VisibleRows(Events) - FITS)

\* The last scroll was handled and rendered and the rows laid out: one pointer clicks
\* and scrolls, so that a user's inputs are frames apart.
AtRest == held = frozen /\ reach = Reach /\ (byUser => ~event)

\* The list starts empty and following, its first follow frame queued.
LogInit ==
    /\ live = [from |-> 0, to |-> 0] /\ narrow = FALSE
    /\ frozen = None /\ held = None
    /\ pausedNow = FALSE /\ autoTop = -1
    /\ top = 0 /\ reach = 0 /\ event = FALSE /\ raf = TRUE /\ byUser = FALSE

\* A render runs the follow effect again: it cancels the frame and, when following, asks for one.
Rendered == raf' = Following

\* The store appended k events, the oldest leaving beyond its cap.
Batch(k) ==
    /\ live.to + k <= MaxEvents
    /\ live' = [from |-> Most(live.from, live.to + k - KEEP), to |-> live.to + k]
    /\ Rendered
    /\ UNCHANGED <<narrow, frozen, held, pausedNow, autoTop, top, reach, event, byUser>>

\* resetRun emptied the store's events.
RunReset ==
    /\ live.from < live.to
    /\ live' = [live EXCEPT !.from = live.to]
    /\ Rendered
    /\ UNCHANGED <<narrow, frozen, held, pausedNow, autoTop, top, reach, event, byUser>>

\* A chip was clicked.
ToggleChip ==
    /\ AtRest
    /\ narrow' = ~narrow
    /\ Rendered
    /\ UNCHANGED <<live, frozen, held, pausedNow, autoTop, top, reach, event, byUser>>

\* The user scrolls the list.
UserScroll ==
    /\ AtRest
    /\ \E t \in 0..reach : t # top /\ top' = t
    /\ event' = TRUE /\ byUser' = TRUE
    /\ UNCHANGED <<live, narrow, frozen, held, pausedNow, autoTop, reach, raf>>

\* Slip: the rail forgets that it scrolls too.
OursNever(at) == FALSE

\* onScroll's test: the event answers the scrollTop the rail set itself.
Ours(at) == at = autoTop

\* onScroll: what is held after it (f ?? live).
HeldAfter(at) == IF at = Reach THEN None ELSE IF held = None THEN live ELSE held

\* Slip: the frame is trusted to have been cancelled.
MayFollowStill(paused) == TRUE

\* The follow callback's guard: a queued frame must not yank a list the user just left.
MayFollow(paused) == ~paused

\* A frame: the queued scroll event, then the queued follow callback, then layout.
Frame ==
    LET at      == Least(top, Reach)
        scrolls == event /\ ~Ours(at)
        paused  == IF scrolls THEN at # Reach ELSE pausedNow
        follows == raf /\ MayFollow(paused)
        end     == IF follows THEN Reach ELSE at
    IN  /\ event \/ raf \/ reach # Reach
        /\ event => held = frozen
        /\ pausedNow' = paused
        /\ held' = IF scrolls THEN HeldAfter(at) ELSE held
        /\ top' = end
        /\ autoTop' = IF follows THEN Reach ELSE IF event THEN -1 ELSE autoTop
        /\ event' = (end # top)
        /\ byUser' = (byUser /\ ~event)
        /\ raf' = FALSE
        /\ reach' = Reach
        /\ UNCHANGED <<live, narrow, frozen>>

\* React renders the setFrozen calls and runs the follow effect.
Commit ==
    /\ held # frozen
    /\ frozen' = held
    /\ raf' = (held = None)
    /\ UNCHANGED <<live, narrow, held, pausedNow, autoTop, top, reach, event, byUser>>

LogNext ==
    \/ \E k \in 1..2 : Batch(k)
    \/ RunReset
    \/ ToggleChip
    \/ UserScroll
    \/ Frame
    \/ Commit

-------------------------------------------------------------------------------
\* The rail pauses only when the user scrolled: its own scroll events, which may
\* arrive after new rows grew the list, never pause it.  While it is paused the
\* events it holds do not change, and the list moves only with the user or because
\* it became too short: no batch, no trim at the cap and no follow frame that was
\* already queued moves it (LogRail.tsx:29, 34, 35).
RailHolds ==
    [][/\ held = None /\ held' # None => byUser
       /\ pausedNow' =>
              /\ pausedNow => held' = held
              /\ top' # top => byUser' \/ top' = Least(top, Reach)]_railVars
===============================================================================
