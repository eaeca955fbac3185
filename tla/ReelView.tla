------------------------------ MODULE ReelView ------------------------------
(***************************************************************************)
(* What a reel player promises: it is a position in a recording, and what  *)
(* is shown depends on the position alone, not on the way there.  The      *)
(* position moves on its own only while the reel plays, forwards, and      *)
(* playing ends at the end.                                                *)
(***************************************************************************)
EXTENDS Naturals

CONSTANTS
  Reels,       \* the recordings
  Length,      \* Length[r]: how many frames r has
  View,        \* View[r][n]: what is shown after the first n of them
  NoReel       \* none is loaded

VARIABLES reel, pos, shown, playing

viewVars == <<reel, pos, shown, playing>>

Init == reel = NoReel /\ pos = 0 /\ shown = NoReel /\ playing = FALSE

Somewhere(r) == reel' = r /\ pos' \in 0..Length[r]
Stay == UNCHANGED <<reel, pos>>

Load == (\E r \in Reels : Somewhere(r)) /\ playing' = FALSE
Unload == reel' = NoReel /\ pos' = 0 /\ playing' = FALSE
Seek == reel # NoReel /\ Somewhere(reel) /\ playing' \in {playing, FALSE}
\* Played again from its end, a reel starts over.
Play == /\ reel # NoReel /\ ~playing /\ playing' = TRUE
        /\ Stay \/ (pos = Length[reel] /\ Somewhere(reel))
Pause == playing' = FALSE /\ Stay
Advance == /\ playing /\ Somewhere(reel) /\ pos' >= pos
           /\ playing' = (pos' < Length[reel])

Next == /\ Load \/ Unload \/ Seek \/ Play \/ Pause \/ Advance
        /\ shown' = IF reel' = NoReel THEN NoReel ELSE View[reel'][pos']

Spec == Init /\ [][Next]_viewVars
=============================================================================
