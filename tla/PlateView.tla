------------------------------ MODULE PlateView -------------------------------
(* Figure 1 of the landing page: PlateReplay, the parent that owns the story    *)
(* clock idx (a ref) and the text's mirror of it, and DitherCanvas, its child,  *)
(* which paints idx: coarse steps once in view, then at the final cell in a     *)
(* loop.  React runs a child's effects before its parent's, so a render that    *)
(* changes the motion preference paints before the parent has set idx; what     *)
(* puts the picture right is the first delivery every ResizeObserver makes.     *)
(*                                                                              *)
(* A frame of the recording is a number; the canvas has a size throughout.      *)
EXTENDS Integers

CONSTANTS Frames,   \* frames of the plate
          Still,    \* frameIndexAt(plate, STILL_T)
          Steps     \* reveal steps, the last at the final cell

ASSUME PlateAssumption == Frames \in Nat \ {0} /\ Still \in 0..(Frames - 1) /\ Steps \in Nat \ {0}

VARIABLE plate
\* hydrated  the client has taken over the server's markup
\* reduced   what prefers-reduced-motion says; still: what the plate was rendered with
\* away      focused or off screen (paused, in the code)
\* idx, view the story clock, and the frame the readout shows
\* painted   the frame on the canvas
\* revealed  a final pass was painted
\* step      DitherCanvas: 0 waiting to be seen, then the next reveal step, Steps + 1 settled
\* cell      the cell this effect last painted with: "none", "coarse" or "final"
\* resize    the resize observer's 120 ms timer runs

NOTHING == -1   \* on a canvas not painted yet

Settled == Steps + 1

\* render(c): paint idx; at the final cell onFinal makes the readout follow.
Render(p, cell) ==
    [p EXCEPT !.cell = cell,
              !.painted = p.idx,
              !.view = IF cell = "final" THEN p.idx ELSE @,
              !.revealed = @ \/ cell = "final"]

\* settle: the last step, after which the loop runs (unless still).
Settle(p) == [Render(p, "final") EXCEPT !.step = Settled]

\* Slip: an observer that reports changes only.
ObservedLater(p) == [p EXCEPT !.resize = FALSE]

\* A new resize observer reports the box it starts to observe.
Observed(p) == [p EXCEPT !.resize = TRUE]

\* DitherCanvas's effect, from its cleanup on.
CanvasEffect(p) ==
    LET q == Observed([p EXCEPT !.step = 0, !.cell = "none"])
    IN  IF p.reduced THEN Settle(q) ELSE q

\* PlateReplay's effect on [still, stillIdx].
IndexEffect(p) == [p EXCEPT !.idx = IF p.still THEN Still ELSE 0]

\* A commit that changed `still` (and with it the loop's fps): the child's effect, then the parent's.
Committed(p, still) == IndexEffect(CanvasEffect([p EXCEPT !.still = still]))

\* The server's markup shows the still frame and has painted nothing.
PlateInit ==
    \E reduced \in BOOLEAN :
        plate = [hydrated |-> FALSE, reduced |-> reduced, still |-> FALSE, away |-> FALSE,
                 idx |-> Still, view |-> Still, painted |-> NOTHING, revealed |-> FALSE,
                 step |-> 0, cell |-> "none", resize |-> FALSE]

\* Hydration renders the server's answer (not still) and runs the effects; then
\* useSyncExternalStore notices the client's answer and renders again.
HydratePlate ==
    /\ ~plate.hydrated
    /\ LET p == Committed([plate EXCEPT !.hydrated = TRUE], FALSE)
       IN  plate' = IF p.reduced THEN Committed(p, TRUE) ELSE p

\* The viewer changes the preference.
MotionChanges ==
    /\ plate.hydrated
    /\ plate' = Committed([plate EXCEPT !.reduced = ~@], ~plate.reduced)

\* The canvas comes 30 % into view.
ComesIntoView ==
    /\ plate.hydrated /\ plate.step = 0
    /\ plate' = [plate EXCEPT !.step = 1]

RevealStep ==
    /\ plate.step \in 1..Steps
    /\ plate' = IF plate.step = Steps THEN Settle(plate)
                ELSE [Render(plate, "coarse") EXCEPT !.step = @ + 1]

\* PlateReplay's interval: the story goes on.
Advance ==
    /\ ~plate.still /\ ~plate.away /\ plate.revealed
    /\ plate' = [plate EXCEPT !.idx = (@ + 1) % Frames]

\* DitherCanvas's interval.
LoopPaints ==
    /\ plate.step = Settled /\ ~plate.still /\ ~plate.away
    /\ plate' = Render(plate, "final")

\* The resize timer paints again at the last cell, if anything was painted.
ResizePaints ==
    /\ plate.resize
    /\ LET p == [plate EXCEPT !.resize = FALSE]
       IN  plate' = IF p.cell = "none" THEN p ELSE Render(p, p.cell)

WindowResizes ==
    /\ plate.hydrated /\ ~plate.resize
    /\ plate' = [plate EXCEPT !.resize = TRUE]

\* Focus, or leaving the viewport, and back.
Attend ==
    /\ plate.hydrated
    /\ plate' = [plate EXCEPT !.away = ~@]

PlateNext ==
    \/ HydratePlate
    \/ MotionChanges
    \/ ComesIntoView
    \/ RevealStep
    \/ Advance
    \/ LoopPaints
    \/ ResizePaints
    \/ WindowResizes
    \/ Attend

-------------------------------------------------------------------------------
\* For a viewer who wants reduced motion the canvas comes to show the still frame,
\* under the readout of the still frame, although the first paint, in the child's
\* effect, precedes the parent's choice of frame (PlateReplay.tsx:43, 27).
ShowsStill ==
    <>[](plate.hydrated /\ plate.reduced) => <>[](plate.painted = Still /\ plate.view = Still)
===============================================================================
