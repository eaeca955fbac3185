-------------------------------- MODULE Notices --------------------------------
(* What the simulator page shows for a while and takes away by itself: the       *)
(* narrator's card (components/sim/Narrator.tsx) over the store's caption, the   *)
(* toasts (components/sim/Toasts.tsx) over the store's list of them, and the     *)
(* reveal of the first snapshot (components/sim/CanvasReveal.tsx).               *)
(*                                                                               *)
(* Each has a timer, set and cleared by an effect: what the store holds is on    *)
(* the screen at once, the effects run some time after it, and timers fire late. *)
(* The store outlives the page, the timers do not.                               *)
EXTENDS Integers

CONSTANTS CAPTION, TOAST, REVEAL,  \* how long they are shown
          MaxCaptions, MaxToasts   \* bounds

ASSUME NoticeAssumption == {CAPTION, TOAST, REVEAL, MaxCaptions, MaxToasts} \subseteq Nat \ {0}

VARIABLES page,     \* [up, nodes, reduced]: mounted, there are nodes, reduced motion
          caption,  \* in the store: [seq, last, age]; seq is 0 without a caption
          card,     \* the narrator's: [hidden, timed, timer]; timed: the seq its effect ran for
          toasts,   \* in the store, by id: [age, timer]
          reveal    \* [phase, timer]

noticeVars == <<page, caption, card, toasts, reveal>>

\* A timer is what is left of its time, or Off.
Off == -1

Running(t) == IF t > 0 THEN t - 1 ELSE t

NoCard == [hidden |-> 0, timed |-> 0, timer |-> Off]

NoReveal == [phase |-> "idle", timer |-> Off]

NoticeInit ==
    /\ page \in [up : {FALSE}, nodes : {FALSE}, reduced : BOOLEAN]
    /\ caption = [seq |-> 0, last |-> 0, age |-> 0]
    /\ card = NoCard
    /\ toasts = [id \in {} |-> 0]
    /\ reveal = NoReveal

OnScreen == page.up /\ caption.seq # 0 /\ caption.seq # card.hidden

\* The reveal is armed while it renders, by the first nodes.
Armed(r, p) ==
    IF p.up /\ p.nodes /\ r.phase = "idle"
    THEN [r EXCEPT !.phase = IF p.reduced THEN "done" ELSE "revealing"] ELSE r

-------------------------------------------------------------------------------
\* What happens in the store.
SetCaption ==
    /\ caption.last < MaxCaptions
    /\ caption' = [seq |-> caption.last + 1, last |-> caption.last + 1, age |-> 0]
    /\ UNCHANGED <<page, card, toasts, reveal>>

\* A reset or a new scenario takes the caption away.
ClearCaption ==
    /\ caption.seq # 0
    /\ caption' = [caption EXCEPT !.seq = 0]
    /\ UNCHANGED <<page, card, toasts, reveal>>

\* The ids count up; here they are used again.
PushToast ==
    LET id == 1 + (IF DOMAIN toasts = {} THEN 0 ELSE CHOOSE i \in DOMAIN toasts : \A j \in DOMAIN toasts : j <= i)
    IN  /\ id <= MaxToasts
        /\ toasts' = [i \in DOMAIN toasts \cup {id} |-> IF i = id THEN [age |-> 0, timer |-> Off] ELSE toasts[i]]
        /\ UNCHANGED <<page, caption, card, reveal>>

\* A snapshot brings nodes, a reset of the topology takes them away.
SetNodes ==
    /\ page' = [page EXCEPT !.nodes = ~@]
    /\ reveal' = Armed(reveal, page')
    /\ UNCHANGED <<caption, card, toasts>>

-------------------------------------------------------------------------------
\* The page.
MountNotices ==
    /\ ~page.up
    /\ page' = [page EXCEPT !.up = TRUE]
    /\ reveal' = Armed(reveal, page')
    /\ UNCHANGED <<caption, card, toasts>>

\* Every cleanup runs and the components' own state is lost.
UnmountNotices ==
    /\ page.up
    /\ page' = [page EXCEPT !.up = FALSE]
    /\ card' = NoCard /\ reveal' = NoReveal
    /\ toasts' = [i \in DOMAIN toasts |-> [toasts[i] EXCEPT !.timer = Off]]
    /\ UNCHANGED caption

\* The narrator's effect runs again for a new caption: the old timer is cleared, a new one set.
TimeCaption ==
    /\ page.up /\ card.timed # caption.seq
    /\ card' = [card EXCEPT !.timed = caption.seq, !.timer = IF caption.seq = 0 THEN Off ELSE CAPTION]
    /\ UNCHANGED <<page, caption, toasts, reveal>>

\* Slip: the card hides, whatever it shows by now.
HidesTheCard(c) == caption.seq

\* The timer hides the caption it was set for.
Hides(c) == c.timed

HideCaption ==
    /\ card.timer = 0
    /\ card' = [card EXCEPT !.hidden = Hides(card), !.timer = Off]
    /\ UNCHANGED <<page, caption, toasts, reveal>>

\* A toast's effect runs once, when it is mounted.
TimeToast(id) ==
    /\ page.up /\ toasts[id].timer = Off
    /\ toasts' = [toasts EXCEPT ![id].timer = TOAST]
    /\ UNCHANGED <<page, caption, card, reveal>>

DismissToast(id) ==
    /\ toasts[id].timer = 0
    /\ toasts' = [i \in DOMAIN toasts \ {id} |-> toasts[i]]
    /\ UNCHANGED <<page, caption, card, reveal>>

TimeReveal ==
    /\ reveal.phase = "revealing" /\ reveal.timer = Off
    /\ reveal' = [reveal EXCEPT !.timer = REVEAL]
    /\ UNCHANGED <<page, caption, card, toasts>>

EndReveal ==
    /\ reveal.timer = 0
    /\ reveal' = [phase |-> "done", timer |-> Off]
    /\ UNCHANGED <<page, caption, card, toasts>>

Older(age, most) == IF age < most THEN age + 1 ELSE age

\* A unit of time goes by.
Pass ==
    /\ caption' = [caption EXCEPT !.age = IF caption.seq = 0 THEN 0 ELSE Older(@, CAPTION)]
    /\ card' = [card EXCEPT !.timer = Running(@)]
    /\ toasts' = [i \in DOMAIN toasts |->
                    [age |-> Older(toasts[i].age, TOAST), timer |-> Running(toasts[i].timer)]]
    /\ reveal' = [reveal EXCEPT !.timer = Running(@)]
    /\ UNCHANGED page

NoticeNext ==
    \/ SetCaption
    \/ ClearCaption
    \/ PushToast
    \/ SetNodes
    \/ MountNotices
    \/ UnmountNotices
    \/ TimeCaption
    \/ HideCaption
    \/ \E id \in DOMAIN toasts : TimeToast(id) \/ DismissToast(id)
    \/ TimeReveal
    \/ EndReveal
    \/ Pass

-------------------------------------------------------------------------------
\* Each is shown for its time: a card that hides while its caption stays has shown that caption
\* for CAPTION (not what was left of the time of the one before it), a toast that goes was there for
\* TOAST, the reveal that is over does not come back.  And none stays for ever: what is on the
\* screen, its effect having run, has a timer (Narrator.tsx:10, Toasts.tsx:13, CanvasReveal.tsx:46).
EachHasItsTime ==
    [][/\ OnScreen /\ ~OnScreen' /\ page'.up /\ caption'.seq = caption.seq => caption.age >= CAPTION
       /\ \A id \in DOMAIN toasts \ DOMAIN toasts' : toasts[id].age >= TOAST
       /\ reveal.phase = "done" /\ page'.up => reveal'.phase = "done"
       /\ OnScreen /\ card.timed = caption.seq => card.timer # Off
       /\ reveal.phase = "revealing" => page.up]_noticeVars
===============================================================================
