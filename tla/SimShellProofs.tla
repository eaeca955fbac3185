---------------------------- MODULE SimShellProofs ----------------------------
(***************************************************************************)
(* Proofs about SimShell: the layout goes back to the user's choice, and   *)
(* the address bar is a link to the view; for any peers, any number of     *)
(* operations, requests and failures.                                      *)
(***************************************************************************)
EXTENDS SimShell, TLAPS

----------------------------------------------------------------------------
(* The store.                                                               *)

Fields == {"mainnet", "nodes", "selectedPeer", "layoutMode", "layoutBeforeGeo", "geoAvailable", "geoAutoDone"}
Shape(s) == Fields \subseteq DOMAIN s

\* The fields that the switching of layouts is about.
SameGeo(s, t) ==
    /\ t.mainnet = s.mainnet /\ t.geoAvailable = s.geoAvailable /\ t.geoAutoDone = s.geoAutoDone
SameLayout(s, t) == t.layoutMode = s.layoutMode /\ t.layoutBeforeGeo = s.layoutBeforeGeo

LEMMA InitialFields ==
    /\ Shape(InitialStore)
    /\ InitialStore.mainnet = FALSE /\ InitialStore.selectedPeer = None /\ InitialStore.layoutMode = "force"
    /\ InitialStore.layoutBeforeGeo = None /\ InitialStore.geoAvailable = FALSE
    /\ InitialStore.geoAutoDone = FALSE
BY DEF InitialStore, Shape, Fields

LEMMA KeptFields ==
    ASSUME NEW s
    PROVE  /\ Shape(Kept(s)) /\ SameGeo(s, Kept(s)) /\ SameLayout(s, Kept(s))
           /\ Kept(s).selectedPeer = s.selectedPeer
BY InitialFields DEF Kept, Shape, Fields, SameGeo, SameLayout

\* The automatic switch to geo remembers the layout it left ...
LEMMA SwitchFields ==
    ASSUME NEW s, Shape(s), s.geoAvailable
    PROVE  LET t == SetLayoutMode(s, "geo", TRUE)
           IN  /\ Shape(t) /\ SameGeo(s, t) /\ t.layoutMode = "geo"
               /\ t.layoutBeforeGeo = IF s.layoutMode # "geo" THEN s.layoutMode ELSE s.layoutBeforeGeo
BY DEF SetLayoutMode, Shape, Fields, SameGeo

\* ... and one by hand forgets it.
LEMMA LayoutFields ==
    ASSUME NEW s, Shape(s), NEW mode, mode = "geo" => s.geoAvailable
    PROVE  LET t == SetLayoutMode(s, mode, FALSE)
           IN  Shape(t) /\ SameGeo(s, t) /\ t.layoutMode = mode /\ t.layoutBeforeGeo = None
BY DEF SetLayoutMode, Shape, Fields, SameGeo

LEMMA SelectFields ==
    ASSUME NEW s, Shape(s), NEW p
    PROVE  LET t == SelectPeer(s, p) IN Shape(t) /\ SameGeo(s, t) /\ SameLayout(s, t)
BY DEF SelectPeer, Shape, Fields, SameGeo, SameLayout

LEMMA ResetFields ==
    ASSUME NEW s, Shape(s)
    PROVE  LET t == ResetRun(s) IN Shape(t) /\ SameGeo(s, t) /\ SameLayout(s, t)
BY DEF ResetRun, ResetNarrator, Shape, Fields, SameGeo, SameLayout

LEMMA SnapshotFields ==
    ASSUME NEW s, Shape(s), NEW f
    PROVE  LET t == ApplySnapshot(s, f)
           IN  /\ Shape(t) /\ SameLayout(s, t)
               /\ t.mainnet = s.mainnet /\ t.geoAutoDone = s.geoAutoDone /\ t.geoAvailable \in BOOLEAN
<1> DEFINE taken == TakeState(s, f)
           shown == [taken EXCEPT !.nodes = f.nodes, !.eventCount = f.event_count, !.simTime = f.time,
                                  !.geoAvailable = \E p \in DOMAIN f.nodes : ~IsSimPeer(p)]
<1>1. Shape(taken) /\ SameLayout(s, taken) /\ SameGeo(s, taken)
    BY DEF TakeState, Shape, Fields, SameLayout, SameGeo
<1> HIDE DEF taken
<1>2. /\ Shape(shown) /\ SameLayout(s, shown)
      /\ shown.mainnet = s.mainnet /\ shown.geoAutoDone = s.geoAutoDone /\ shown.geoAvailable \in BOOLEAN
    BY <1>1 DEF Shape, Fields, SameLayout, SameGeo
<1>3. ApplySnapshot(s, f) =
        CASE s.selectedPeer = None -> shown
          [] s.selectedPeer # None /\ s.selectedPeer \notin DOMAIN f.nodes ->
               [shown EXCEPT !.selectedPeer = None, !.scoreHistory = <<>>]
          [] OTHER -> [shown EXCEPT !.scoreHistory = Newest(SCORE_HISTORY, Append(@, f.time))]
    BY DEF ApplySnapshot, taken
<1> HIDE DEF shown
<1>4. QED
    BY <1>2, <1>3 DEF Shape, Fields, SameLayout

LEMMA StatusFields ==
    ASSUME NEW s, Shape(s), NEW f
    PROVE  LET t == ApplyTelemetryStatus(s, f)
           IN  /\ Shape(t) /\ SameLayout(s, t)
               /\ t.mainnet = f.mainnet /\ t.geoAvailable = s.geoAvailable
               /\ t.geoAutoDone = (s.geoAutoDone /\ ~(s.mainnet /\ ~f.mainnet))
BY DEF ApplyTelemetryStatus, Shape, Fields, SameLayout

----------------------------------------------------------------------------
(* The invariant.                                                           *)

UiFields == {"help", "hero", "overlay", "drawer", "menu", "narrow", "focus"}
\* What has the focus is open.
UiShape(u) ==
    /\ UiFields \subseteq DOMAIN u
    /\ u.help \in BOOLEAN /\ u.hero \in BOOLEAN /\ u.overlay \in BOOLEAN /\ u.menu \in BOOLEAN
    /\ u.focus = "menu" => u.menu
    /\ u.focus = "overlay" => u.overlay
    /\ u.focus = "help" => u.help
\* The overlay is opened from the page only.
OpenerOk == {"overlay", "help"} \subseteq DOMAIN opener /\ opener.overlay = "page"
UrlShape(link) == {"peer", "t", "hero"} \subseteq DOMAIN link

\* The user's choices: the layout that h has to go back to, and whether it was chosen over geo.
UserChoices == [layout : {"force", "radial"}, forgot : BOOLEAN, stays : BOOLEAN]
Back(h) == IF h.forgot THEN "force" ELSE h.layout

\* The layout is the one of h, or geo that goes back to it; one chosen over geo stays, as the switch to geo has
\* been made.
LayoutOk(s, h) ==
    /\ IF s.layoutMode = "geo" THEN (IF s.layoutBeforeGeo = None THEN "force" ELSE s.layoutBeforeGeo) = Back(h)
       ELSE s.layoutMode = Back(h)
    /\ h.stays => s.layoutMode # "geo" /\ s.mainnet /\ s.geoAutoDone

Flags(s) == s.mainnet \in BOOLEAN /\ s.geoAvailable \in BOOLEAN /\ s.geoAutoDone \in BOOLEAN
Armed(s) == s.mainnet /\ s.geoAvailable => s.geoAutoDone

IsFrame(f) == f.type = "snapshot" \/ (f.type = "telemetry_status" /\ f.mainnet \in BOOLEAN)

\* What is under way: frames that say what they are, and a switch of the feed that knows which way.
NetworkOk ==
    /\ feed \in BOOLEAN
    /\ wire = <<>> \/ \E f : wire = <<f>> /\ IsFrame(f)
    /\ \A c \in calls : /\ {"op", "done", "data"} \subseteq DOMAIN c /\ c.op \in {"mainnet", "boot"}
                        /\ c.op = "mainnet" /\ c.done # "failed" => c.data \in BOOLEAN

ShellInv ==
    /\ Shape(store) /\ Flags(store)
    /\ home \in UserChoices
    /\ LayoutOk(store, home) /\ Armed(store)
    /\ NetworkOk
    /\ UiShape(ui) /\ OpenerOk /\ UrlShape(url)
    /\ mirrored \in BOOLEAN /\ synced \in BOOLEAN /\ (synced => mirrored)
    /\ LinkIsTheView

\* A store that is about to be set, for a user whose choices are h: the switch is made when it is due.
Good(s, h) ==
    /\ Shape(s) /\ Flags(s)
    /\ h \in UserChoices /\ LayoutOk(s, h)
    /\ s.mainnet = store.mainnet /\ s.geoAvailable = store.geoAvailable => Armed(s)

----------------------------------------------------------------------------
(* A change of the store.                                                   *)

LEMMA MaybeKeeps ==
    ASSUME NEW s, Shape(s), Flags(s), NEW h \in UserChoices, LayoutOk(s, h)
    PROVE  LET t == MaybeAutoGeo(s) IN Shape(t) /\ Flags(t) /\ LayoutOk(t, h) /\ Armed(t)
<1> DEFINE t == MaybeAutoGeo(s)
           geo == SetLayoutMode(s, "geo", TRUE)
<1>1. CASE s.mainnet /\ s.geoAvailable /\ ~s.geoAutoDone
    <2>1. /\ Shape(geo) /\ SameGeo(s, geo) /\ geo.layoutMode = "geo"
          /\ geo.layoutBeforeGeo = IF s.layoutMode # "geo" THEN s.layoutMode ELSE s.layoutBeforeGeo
        BY <1>1, SwitchFields
    <2>2. t = [geo EXCEPT !.geoAutoDone = TRUE]
        BY <1>1 DEF MaybeAutoGeo
    <2> HIDE DEF geo
    <2>3. /\ Shape(t) /\ t.mainnet = s.mainnet /\ t.geoAvailable = s.geoAvailable /\ t.geoAutoDone = TRUE
          /\ t.layoutMode = "geo" /\ t.layoutBeforeGeo = geo.layoutBeforeGeo
        BY <2>1, <2>2 DEF Shape, Fields, SameGeo
    <2> HIDE DEF t
    <2>4. Back(h) # None
        BY NullAssumption DEF Back, UserChoices
    <2>5. Shape(t) /\ Flags(t) /\ LayoutOk(t, h) /\ Armed(t)
        BY <1>1, <2>1, <2>3, <2>4 DEF Flags, Armed, LayoutOk
    <2>6. QED
        BY <2>5 DEF t
<1>2. CASE ~(s.mainnet /\ s.geoAvailable /\ ~s.geoAutoDone)
    <2>1. t = s
        BY <1>2 DEF MaybeAutoGeo
    <2>2. QED
        BY <1>2, <2>1 DEF Armed, Flags
<1>3. QED
    BY <1>1, <1>2

LEMMA AutoGeoKeeps ==
    ASSUME NEW s, NEW h, Good(s, h)
    PROVE  LET t == AutoGeo(s) IN Shape(t) /\ Flags(t) /\ LayoutOk(t, h) /\ Armed(t)
<1>1. CASE <<store.mainnet, store.geoAvailable>> # <<s.mainnet, s.geoAvailable>>
    BY <1>1, MaybeKeeps DEF AutoGeo, Good
<1>2. CASE <<store.mainnet, store.geoAvailable>> = <<s.mainnet, s.geoAvailable>>
    BY <1>2 DEF AutoGeo, Good
<1>3. QED
    BY <1>1, <1>2

LEMMA YieldsShape ==
    ASSUME NEW s, NEW u, UiShape(u)
    PROVE  UiShape(DrawerYields(s, u)) /\ DrawerYields(s, u).hero = u.hero
BY DEF DrawerYields, UiShape, UiFields

\* Whatever changes the store keeps the invariant, if what it sets is good for the user's choices.
LEMMA ChangeInv ==
    ASSUME ShellInv, NEW s, NEW u, Change(s, u), Good(s, home'), UiShape(u),
           NetworkOk', OpenerOk', mirrored' \in {mirrored, TRUE}
    PROVE  ShellInv'
<1>1. PICK new : new = AutoGeo(s)
    OBVIOUS
<1>2. Shape(new) /\ Flags(new) /\ LayoutOk(new, home') /\ Armed(new)
    BY <1>1, AutoGeoKeeps
<1>3. store' = Kept(new)
    BY <1>1 DEF Change
<1>4. /\ Shape(store') /\ SameGeo(new, store') /\ SameLayout(new, store')
      /\ store'.selectedPeer = new.selectedPeer
    BY <1>3, KeptFields
<1>5. Shape(store') /\ Flags(store') /\ LayoutOk(store', home') /\ Armed(store')
    BY <1>2, <1>4 DEF SameGeo, SameLayout, Flags, Armed, LayoutOk
<1>6. PICK link : link = IF u.hero # ui.hero THEN Persist(u.hero, url) ELSE url
    OBVIOUS
<1>7. UrlShape(link) /\ link.hero = u.hero /\ link.peer = url.peer /\ link.t = url.t
    BY <1>6 DEF Persist, UrlShape, ShellInv, LinkIsTheView
<1>8. PICK follows \in BOOLEAN : follows = (mirrored /\ new.selectedPeer # store.selectedPeer)
    BY DEF ShellInv
<1>9. /\ ui' = DrawerYields(new, u) /\ synced' = (synced \/ follows)
      /\ url' = IF follows THEN Moment(new, link) ELSE link
    BY <1>1, <1>6, <1>8 DEF Change
<1>10. UiShape(ui') /\ ui'.hero = u.hero
    BY <1>9, YieldsShape
<1>11. UrlShape(url') /\ url'.hero = u.hero
    BY <1>7, <1>9 DEF Moment, UrlShape
<1>12. CASE follows
    <2>1. url'.peer = new.selectedPeer /\ url'.t = None /\ synced' = TRUE /\ mirrored
        BY <1>7, <1>8, <1>9, <1>12 DEF Moment, UrlShape, ShellInv
    <2>2. QED
        BY <1>4, <1>5, <1>10, <1>11, <2>1 DEF ShellInv, LinkIsTheView, Good
<1>13. CASE ~follows
    <2>1. url'.peer = url.peer /\ url'.t = url.t /\ synced' = synced
        BY <1>7, <1>9, <1>13 DEF ShellInv
    <2>2. synced => store'.selectedPeer = store.selectedPeer
        BY <1>4, <1>8, <1>13 DEF ShellInv
    <2>3. QED
        BY <1>4, <1>5, <1>10, <1>11, <2>1, <2>2 DEF ShellInv, LinkIsTheView, Good
<1>14. QED
    BY <1>12, <1>13

----------------------------------------------------------------------------
(* Stores that are good.                                                    *)

LEMMA GoodStore ==
    ASSUME ShellInv
    PROVE  Good(store, home) /\ UiShape(ui) /\ Shape(store) /\ OpenerOk
BY DEF ShellInv, Good

LEMMA GoodAlike ==
    ASSUME NEW s, NEW h, Good(s, h), NEW t, Shape(t), SameGeo(s, t), SameLayout(s, t)
    PROVE  Good(t, h)
BY DEF Good, SameGeo, SameLayout, Flags, LayoutOk, Armed

LEMMA GoodLeave ==
    ASSUME ShellInv
    PROVE  Good(LeaveGeoForSim(store), home)
<1>1. CASE store.layoutMode # "geo"
    BY <1>1, GoodStore DEF LeaveGeoForSim
<1>2. CASE store.layoutMode = "geo"
    <2>1. PICK mode \in {"force", "radial"} : mode = IF store.layoutBeforeGeo = "radial" THEN "radial" ELSE "force"
        OBVIOUS
    <2>2. PICK t : t = SetLayoutMode(store, mode, FALSE)
        OBVIOUS
    <2>3. LeaveGeoForSim(store) = t
        BY <1>2, <2>1, <2>2 DEF LeaveGeoForSim
    <2>4. Shape(t) /\ SameGeo(store, t) /\ t.layoutMode = mode
        BY <2>1, <2>2, GoodStore, LayoutFields
    <2>5. mode = Back(home)
        <3>1. Back(home) \in {"force", "radial"} /\ Back(home) = IF store.layoutBeforeGeo = None THEN "force" ELSE store.layoutBeforeGeo
            BY <1>2 DEF ShellInv, LayoutOk, UserChoices, Back
        <3>2. CASE store.layoutBeforeGeo = "radial"
            BY <2>1, <3>1, <3>2, NullAssumption
        <3>3. CASE store.layoutBeforeGeo # "radial"
            BY <2>1, <3>1, <3>3
        <3>4. QED
            BY <3>2, <3>3
    <2>6. Shape(t) /\ Flags(t) /\ Armed(t)
        BY <2>4 DEF ShellInv, SameGeo, Flags, Armed
    <2>7. LayoutOk(t, home)
        BY <2>1, <2>4, <2>5 DEF LayoutOk, SameGeo, ShellInv
    <2>8. QED
        BY <2>3, <2>6, <2>7 DEF ShellInv, Good
<1>3. QED
    BY <1>1, <1>2

----------------------------------------------------------------------------
(* The panels.                                                              *)

LEMMA ClosedShape ==
    ASSUME OpenerOk, NEW u, UiShape(u), NEW dialog \in {"help", "overlay"}
    PROVE  UiShape(Closed(u, dialog))
<1>1. CASE ~u[dialog]
    BY <1>1 DEF Closed
<1>2. CASE u[dialog] /\ dialog = "overlay"
    <2>1. ~StillOpen(u, opener[dialog])
        BY <1>2 DEF OpenerOk, StillOpen
    <2>2. QED
        BY <1>2, <2>1 DEF Closed, UiShape, UiFields
<1>3. CASE u[dialog] /\ dialog = "help"
    <2>1. PICK focus : focus = IF StillOpen(u, opener[dialog]) THEN opener[dialog] ELSE "page"
        OBVIOUS
    <2>2. focus = "page" \/ focus = "drawer" \/ (focus = "overlay" /\ u.overlay)
        BY <2>1 DEF StillOpen
    <2>3. Closed(u, dialog) = [u EXCEPT !.help = FALSE, !.focus = focus]
        BY <1>3, <2>1 DEF Closed
    <2>4. QED
        BY <2>2, <2>3 DEF UiShape, UiFields
<1>4. QED
    BY <1>1, <1>2, <1>3

LEMMA OpenedShape ==
    ASSUME NEW u, UiShape(u), NEW dialog \in {"help", "overlay"}
    PROVE  UiShape(Opened(u, dialog))
BY DEF Opened, UiShape, UiFields

\* The page's Escape changes the store and the panels, and nothing else.
LEMMA EscapeChanges ==
    ASSUME ShellInv, NEW u, UiShape(u), EscapeOnPage(u)
    PROVE  \E s, v : Change(s, v) /\ Good(s, home) /\ UiShape(v)
<1>1. Good(store, home) /\ Shape(store)
    BY GoodStore
<1>2. CASE u.overlay
    <2>1. Change(store, Closed(u, "overlay"))
        BY <1>2 DEF EscapeOnPage
    <2>2. UiShape(Closed(u, "overlay"))
        BY GoodStore, ClosedShape
    <2>3. QED
        BY <1>1, <2>1, <2>2
<1>3. CASE ~u.overlay /\ DrawerShown # None
    <2>1. PICK v : v = [u EXCEPT !.drawer = None, !.focus = IF @ = "drawer" THEN "page" ELSE @]
        OBVIOUS
    <2>2. Change(store, v)
        BY <1>3, <2>1 DEF EscapeOnPage
    <2>3. UiShape(v)
        BY <2>1 DEF UiShape, UiFields
    <2>4. QED
        BY <1>1, <2>2, <2>3
<1>4. CASE ~u.overlay /\ ~(DrawerShown # None)
    <2>1. PICK s, v : s = SelectPeer(store, None) /\ v = Closed(u, "help")
        OBVIOUS
    <2>2. Change(s, v)
        BY <1>4, <2>1 DEF EscapeOnPage
    <2>3. Good(s, home)
        BY <1>1, <2>1, SelectFields, GoodAlike
    <2>4. UiShape(v)
        BY <2>1, GoodStore, ClosedShape
    <2>5. QED
        BY <2>2, <2>3, <2>4
<1>5. QED
    BY <1>2, <1>3, <1>4

----------------------------------------------------------------------------
(* What the user does.                                                      *)

\* Operations that leave the network and the user's choice alone.
LEMMA UserChangeInv ==
    ASSUME ShellInv, NEW s, NEW u, Change(s, u), Good(s, home), UiShape(u),
           UNCHANGED <<network, home, mirrored>>, OpenerOk'
    PROVE  ShellInv'
<1>1. NetworkOk'
    BY DEF network, NetworkOk, ShellInv
<1>2. Good(s, home')
    OBVIOUS
<1>3. QED
    BY <1>1, <1>2, ChangeInv

LEMMA PickLayoutInv ==
    ASSUME ShellInv, NEW mode \in {"force", "radial", "geo"}, PickLayout(mode)
    PROVE  ShellInv'
<1>1. PICK s : s = SetLayoutMode(store, mode, FALSE)
    OBVIOUS
<1>2. PICK u : u = [ui EXCEPT !.menu = FALSE]
    OBVIOUS
<1>3. /\ Change(s, u) /\ (mode = "geo" => store.geoAvailable)
      /\ home' = IF mode = "geo" THEN [home EXCEPT !.forgot = TRUE, !.stays = FALSE]
                 ELSE [layout |-> mode, forgot |-> FALSE, stays |-> store.mainnet /\ store.geoAvailable]
      /\ UNCHANGED <<network, mirrored, opener>> /\ ui.focus = "page"
    BY <1>1, <1>2 DEF PickLayout, Act
<1>4. /\ Shape(s) /\ SameGeo(store, s) /\ s.layoutBeforeGeo = None
      /\ s.layoutMode = mode
    BY <1>1, <1>3, GoodStore, LayoutFields
<1>5. LayoutOk(s, home') /\ home' \in UserChoices
    <2>1. CASE mode = "geo"
        <3>1. home' = [home EXCEPT !.forgot = TRUE, !.stays = FALSE]
            BY <1>3, <2>1
        <3>2. home' \in UserChoices /\ Back(home') = "force" /\ home'.stays = FALSE
            BY <3>1 DEF ShellInv, UserChoices, Back
        <3>3. QED
            BY <1>4, <2>1, <3>2 DEF LayoutOk
    <2>2. CASE mode # "geo"
        <3>1. home' = [layout |-> mode, forgot |-> FALSE, stays |-> store.mainnet /\ store.geoAvailable]
            BY <1>3, <2>2
        <3>2. home' \in UserChoices /\ Back(home') = mode /\ (home'.stays => store.mainnet /\ store.geoAvailable)
            BY <2>2, <3>1 DEF UserChoices, Back, ShellInv, Flags
        <3>3. home'.stays => s.mainnet /\ s.geoAutoDone
            BY <1>4, <3>2 DEF ShellInv, Armed, SameGeo
        <3>4. QED
            BY <1>4, <2>2, <3>2, <3>3 DEF LayoutOk
    <2>3. QED
        BY <2>1, <2>2
<1>6. Good(s, home')
    BY <1>4, <1>5 DEF ShellInv, Good, SameGeo, Flags, Armed
<1>7. UiShape(u)
    BY <1>2, <1>3 DEF ShellInv, UiShape, UiFields
<1>8. NetworkOk' /\ OpenerOk'
    BY <1>3 DEF network, NetworkOk, OpenerOk, ShellInv
<1>9. QED
    BY <1>3, <1>6, <1>7, <1>8, ChangeInv

LEMMA ChooseRowInv ==
    ASSUME ShellInv, NEW simulated \in BOOLEAN, ChooseRow(simulated)
    PROVE  ShellInv'
<1>1. PICK u : u = IF ui.focus = "menu" THEN [ui EXCEPT !.menu = FALSE, !.focus = "page"] ELSE Closed(ui, "overlay")
    OBVIOUS
<1>2. PICK s : s = IF simulated THEN LeaveGeoForSim(store) ELSE store
    OBVIOUS
<1>3. Change(s, u) /\ UNCHANGED <<network, home, mirrored, opener>>
    BY <1>1, <1>2 DEF ChooseRow, Act
<1>4. Good(s, home)
    BY <1>2, GoodStore, GoodLeave
<1>5. UiShape(u)
    BY <1>1, GoodStore, ClosedShape DEF UiShape, UiFields
<1>6. OpenerOk'
    BY <1>3, GoodStore DEF OpenerOk
<1>7. QED
    BY <1>3, <1>4, <1>5, <1>6, UserChangeInv

\* A change of the panels alone.
LEMMA PanelInv ==
    ASSUME ShellInv, NEW u, Change(store, u), UiShape(u), UNCHANGED <<network, home, mirrored>>, OpenerOk'
    PROVE  ShellInv'
BY GoodStore, UserChangeInv

LEMMA PanelsInv ==
    ASSUME ShellInv,
           \/ OpenMenu \/ ToggleOverlay \/ \E d \in {"stats", "log"} : OpenDrawer(d)
           \/ CloseDrawer \/ CloseDialog \/ ClickText
    PROVE  ShellInv'
<1>0. UiShape(ui) /\ OpenerOk
    BY GoodStore
<1>1. UNCHANGED <<network, home, mirrored>> /\ OpenerOk'
    <2>1. UNCHANGED <<network, home, mirrored>>
        BY DEF OpenMenu, ToggleOverlay, OpenDrawer, CloseDrawer, CloseDialog, ClickText, Act
    <2>2. opener' = opener \/ opener' = [opener EXCEPT !.overlay = "page"]
        BY DEF OpenMenu, ToggleOverlay, OpenDrawer, CloseDrawer, CloseDialog, ClickText
    <2>3. QED
        BY <1>0, <2>1, <2>2 DEF OpenerOk
<1>2. CASE OpenMenu
    <2>1. PICK u : u = [ui EXCEPT !.menu = TRUE, !.focus = "menu"]
        OBVIOUS
    <2>2. Change(store, u) /\ UiShape(u)
        BY <1>0, <1>2, <2>1 DEF OpenMenu, UiShape, UiFields
    <2>3. QED
        BY <1>1, <2>2, PanelInv
<1>3. CASE ToggleOverlay
    <2>1. PICK u : u = [ui EXCEPT !.menu = FALSE]
        OBVIOUS
    <2>2. UiShape(u)
        BY <1>0, <1>3, <2>1 DEF ToggleOverlay, Reachable, UiShape, UiFields
    <2>3. PICK v \in {Closed(u, "overlay"), Opened(u, "overlay")} : Change(store, v)
        BY <1>3, <2>1 DEF ToggleOverlay
    <2>4. UiShape(v)
        BY <1>0, <2>2, <2>3, ClosedShape, OpenedShape
    <2>5. QED
        BY <1>1, <2>3, <2>4, PanelInv
<1>4. ASSUME NEW d \in {"stats", "log"}, OpenDrawer(d) PROVE ShellInv'
    <2>1. PICK u : u = [ui EXCEPT !.drawer = d, !.menu = FALSE, !.focus = "drawer"]
        OBVIOUS
    <2>2. Change(store, u) /\ UiShape(u)
        BY <1>0, <1>4, <2>1 DEF OpenDrawer, UiShape, UiFields
    <2>3. QED
        BY <1>1, <2>2, PanelInv
<1>5. CASE CloseDrawer
    <2>1. PICK u : u = [ui EXCEPT !.drawer = None, !.focus = "page"]
        OBVIOUS
    <2>2. Change(store, u) /\ UiShape(u)
        BY <1>0, <1>5, <2>1 DEF CloseDrawer, UiShape, UiFields
    <2>3. QED
        BY <1>1, <2>2, PanelInv
<1>6. CASE CloseDialog
    <2>1. PICK dialog \in {"overlay", "help"} : Change(store, Closed(ui, dialog))
        BY <1>6 DEF CloseDialog
    <2>2. PICK u : u = Closed(ui, dialog)
        OBVIOUS
    <2>3. Change(store, u) /\ UiShape(u)
        BY <1>0, <2>1, <2>2, ClosedShape
    <2>4. QED
        BY <1>1, <2>3, PanelInv
<1>7. CASE ClickText
    <2>1. PICK u : u = [ui EXCEPT !.focus = "page"]
        OBVIOUS
    <2>2. Change(store, u) /\ UiShape(u)
        BY <1>0, <1>7, <2>1 DEF ClickText, UiShape, UiFields
    <2>3. QED
        BY <1>1, <2>2, PanelInv
<1>8. QED
    BY <1>2, <1>3, <1>4, <1>5, <1>6, <1>7

LEMMA SelectInv ==
    ASSUME ShellInv, NEW p, Select(p)
    PROVE  ShellInv'
<1>1. PICK s : s = SelectPeer(store, IF store.selectedPeer = p THEN None ELSE p)
    OBVIOUS
<1>2. PICK u : u = [ui EXCEPT !.menu = FALSE]
    OBVIOUS
<1>3. /\ Change(s, u) /\ UNCHANGED <<network, home, mirrored, opener>>
      /\ ui.focus \in {"page", "drawer"}
    BY <1>1, <1>2 DEF Select, Act, Reachable
<1>4. Good(s, home)
    BY <1>1, GoodStore, SelectFields, GoodAlike
<1>5. UiShape(u) /\ OpenerOk'
    BY <1>2, <1>3, GoodStore DEF UiShape, UiFields, OpenerOk
<1>6. QED
    BY <1>3, <1>4, <1>5, UserChangeInv

LEMMA EscapeInv ==
    ASSUME ShellInv, Escape
    PROVE  ShellInv'
<1>1. UNCHANGED <<network, home, mirrored>> /\ OpenerOk'
    BY GoodStore DEF Escape, Act, OpenerOk
<1>2. Good(store, home) /\ UiShape(ui) /\ OpenerOk
    BY GoodStore
<1>3. PICK u : u = [ui EXCEPT !.menu = FALSE, !.focus = "page"]
    OBVIOUS
<1>4. PICK v : v = [ui EXCEPT !.menu = FALSE]
    OBVIOUS
<1>5. UiShape(u) /\ (ui.focus # "menu" => UiShape(v))
    BY <1>2, <1>3, <1>4 DEF UiShape, UiFields
<1>6. UiShape(Closed(ui, "help")) /\ UiShape(Closed(ui, "overlay"))
    BY <1>2, ClosedShape
<1>7. \/ Change(store, u) \/ Change(store, Closed(ui, "overlay")) \/ Change(store, Closed(ui, "help"))
      \/ EscapeOnPage(u) \/ EscapeOnPage(Closed(ui, "help")) \/ (EscapeOnPage(v) /\ ui.focus # "menu")
    BY <1>3, <1>4 DEF Escape
<1>8. \E s, w : Change(s, w) /\ Good(s, home) /\ UiShape(w)
    BY <1>2, <1>5, <1>6, <1>7, EscapeChanges
<1>9. QED
    BY <1>1, <1>8, UserChangeInv

LEMMA KeyInv ==
    ASSUME ShellInv, NEW key \in {"?", "h", "r"}, Key(key)
    PROVE  ShellInv'
<1>2. Good(store, home) /\ UiShape(ui) /\ OpenerOk
    BY GoodStore
<1>1. UNCHANGED <<network, home, mirrored>> /\ OpenerOk'
    <2>1. UNCHANGED <<network, home, mirrored>>
        BY DEF Key, Act
    <2>2. opener' = opener \/ opener' = [opener EXCEPT !.help = ui.focus]
        BY DEF Key, ToggleHelp
    <2>3. QED
        BY <1>2, <2>1, <2>2 DEF OpenerOk
<1>3. CASE key = "?"
    <2>1. PICK u \in {Closed(ui, "help"), Opened(ui, "help")} : Change(store, u)
        BY <1>3 DEF Key, ToggleHelp
    <2>2. UiShape(u)
        BY <1>2, <2>1, ClosedShape, OpenedShape
    <2>3. QED
        BY <1>1, <2>1, <2>2, PanelInv
<1>4. CASE key = "h"
    <2>1. PICK u : u = [ui EXCEPT !.hero = ~@, !.focus = IF ui.hero /\ ui.drawer # None THEN "drawer" ELSE @]
        OBVIOUS
    <2>2. Change(store, u)
        BY <1>4, <2>1 DEF Key
    <2>3. UiShape(u)
        BY <1>2, <2>1 DEF UiShape, UiFields
    <2>4. QED
        BY <1>1, <2>2, <2>3, PanelInv
<1>5. CASE key = "r"
    <2>1. PICK s, t : s = LeaveGeoForSim(store) /\ t = ResetRun(s)
        OBVIOUS
    <2>2. Change(t, ui)
        BY <1>5, <2>1 DEF Key
    <2>3. Good(s, home) /\ Shape(s)
        BY <2>1, GoodLeave DEF Good
    <2>4. Good(t, home)
        BY <2>1, <2>3, ResetFields, GoodAlike
    <2>5. QED
        BY <1>1, <1>2, <2>2, <2>4, UserChangeInv
<1>6. QED
    BY <1>3, <1>4, <1>5

LEMMA ShareInv ==
    ASSUME ShellInv, Share
    PROVE  ShellInv'
<1>1. url' = Moment(store, url) /\ UNCHANGED <<store, ui, opener, network, home, synced, mirrored>>
    BY DEF Share, page, Act
<1>2. UrlShape(url') /\ url'.peer = store.selectedPeer /\ url'.t = None /\ url'.hero = url.hero
    BY <1>1 DEF ShellInv, UrlShape, Moment
<1>3. NetworkOk'
    BY <1>1 DEF network, NetworkOk, ShellInv
<1>4. QED
    BY <1>1, <1>2, <1>3 DEF ShellInv, LinkIsTheView, OpenerOk

\* A switch of the feed is asked for one way or the other.
LEMMA ToggleMainnetInv ==
    ASSUME ShellInv, ToggleMainnet
    PROVE  ShellInv'
<1>1. PICK u : u = [ui EXCEPT !.menu = FALSE]
    OBVIOUS
<1>2. PICK c : c = Post("mainnet", ~store.mainnet)
    OBVIOUS
<1>3. /\ Change(store, u) /\ calls' = calls \union {c} /\ UNCHANGED <<wire, feed, home, mirrored, opener>>
      /\ ui.focus = "page"
    BY <1>1, <1>2 DEF ToggleMainnet, Act, Reachable
<1>4. UiShape(u) /\ OpenerOk'
    BY <1>1, <1>3, GoodStore DEF UiShape, UiFields, OpenerOk
<1>5. {"op", "done", "data"} \subseteq DOMAIN c /\ c.data \in BOOLEAN /\ c.op = "mainnet"
    BY <1>2 DEF Post, ShellInv, Flags
<1>6. NetworkOk'
    BY <1>3, <1>5 DEF NetworkOk, ShellInv
<1>7. QED
    BY <1>3, <1>4, <1>6, GoodStore, ChangeInv

LEMMA NoObserversInv ==
    ASSUME ShellInv, NoObservers
    PROVE  ShellInv'
<1>1. PICK mode : mode = IF store.layoutBeforeGeo = None THEN "force" ELSE store.layoutBeforeGeo
    OBVIOUS
<1>2. mode = Back(home) /\ mode \in {"force", "radial"}
    BY <1>1 DEF NoObservers, ShellInv, LayoutOk, UserChoices, Back
<1>3. PICK s : s = SetLayoutMode(store, mode, FALSE)
    OBVIOUS
<1>4. Change(s, ui) /\ UNCHANGED <<network, home, mirrored>> /\ OpenerOk'
    BY <1>1, <1>3, GoodStore DEF NoObservers, OpenerOk
<1>5. Shape(s) /\ SameGeo(store, s) /\ s.layoutMode = mode
    BY <1>2, <1>3, GoodStore, LayoutFields
<1>6. LayoutOk(s, home)
    BY <1>2, <1>5 DEF LayoutOk, SameGeo, ShellInv
<1>7. Good(s, home)
    BY <1>2, <1>5, <1>6 DEF ShellInv, Good, SameGeo, Flags, Armed
<1>8. QED
    BY <1>4, <1>7, GoodStore, UserChangeInv

----------------------------------------------------------------------------
(* What the network brings.                                                 *)

LEMMA GoodSnapshot ==
    ASSUME ShellInv, NEW f
    PROVE  Good(ApplySnapshot(store, f), home)
<1>1. PICK s : s = ApplySnapshot(store, f)
    OBVIOUS
<1>2. /\ Shape(s) /\ SameLayout(store, s)
      /\ s.mainnet = store.mainnet /\ s.geoAutoDone = store.geoAutoDone /\ s.geoAvailable \in BOOLEAN
    BY <1>1, GoodStore, SnapshotFields
<1>3. Good(s, home)
    BY <1>2 DEF ShellInv, Good, SameLayout, Flags, LayoutOk, Armed
<1>4. QED
    BY <1>1, <1>3

\* The user's choices while the feed is as it is with a store of s.
LEMMA KeptChoices ==
    ASSUME ShellInv, NEW on \in BOOLEAN
    PROVE  LET h == [home EXCEPT !.stays = @ /\ on]
           IN  h \in UserChoices /\ Back(h) = Back(home) /\ (h.stays => home.stays /\ on)
BY DEF ShellInv, UserChoices, Back

LEMMA GoodStatus ==
    ASSUME ShellInv, NEW f, f.mainnet \in BOOLEAN
    PROVE  LET s == ApplyTelemetryStatus(store, f) IN Good(s, [home EXCEPT !.stays = @ /\ s.mainnet])
<1>1. PICK s : s = ApplyTelemetryStatus(store, f)
    OBVIOUS
<1>2. /\ Shape(s) /\ SameLayout(store, s)
      /\ s.mainnet = f.mainnet /\ s.geoAvailable = store.geoAvailable
      /\ s.geoAutoDone = (store.geoAutoDone /\ ~(store.mainnet /\ ~f.mainnet))
    BY <1>1, GoodStore, StatusFields
<1>3. PICK h : h = [home EXCEPT !.stays = @ /\ s.mainnet]
    OBVIOUS
<1>4. h \in UserChoices /\ Back(h) = Back(home) /\ (h.stays => home.stays /\ s.mainnet)
    BY <1>2, <1>3, KeptChoices
<1>5. LayoutOk(s, h)
    BY <1>2, <1>4 DEF ShellInv, SameLayout, LayoutOk
<1>6. Good(s, h)
    BY <1>2, <1>4, <1>5 DEF ShellInv, Good, Flags, Armed
<1>7. QED
    BY <1>1, <1>3, <1>6

\* A store that is good for the user's choices is good for them with the feed as it is.
LEMMA GoodKept ==
    ASSUME ShellInv, NEW s, Good(s, home)
    PROVE  Good(s, [home EXCEPT !.stays = @ /\ s.mainnet])
<1>1. PICK h : h = [home EXCEPT !.stays = @ /\ s.mainnet]
    OBVIOUS
<1>2. s.mainnet \in BOOLEAN
    BY DEF Good, Flags
<1>3. h \in UserChoices /\ Back(h) = Back(home) /\ (h.stays => home.stays)
    BY <1>1, <1>2, KeptChoices
<1>4. LayoutOk(s, h)
    BY <1>3 DEF Good, LayoutOk
<1>5. Good(s, h)
    BY <1>3, <1>4 DEF Good
<1>6. QED
    BY <1>1, <1>5

\* A change that the network brings, where the feed may have gone.
LEMMA FeedChangeInv ==
    ASSUME ShellInv, NEW s, Change(s, ui), FeedKept, Good(s, [home EXCEPT !.stays = @ /\ s.mainnet]),
           NetworkOk', OpenerOk', mirrored' \in {mirrored, TRUE}
    PROVE  ShellInv'
<1>1. PICK h : h = [home EXCEPT !.stays = @ /\ s.mainnet]
    OBVIOUS
<1>2. Good(s, h)
    BY <1>1
<1>3. PICK new : new = AutoGeo(s)
    OBVIOUS
<1>4. new.mainnet = s.mainnet
    <2>1. Shape(s)
        BY <1>2 DEF Good
    <2>2. MaybeAutoGeo(s).mainnet = s.mainnet
        BY <2>1, SwitchFields DEF MaybeAutoGeo, Shape, Fields, SameGeo
    <2>3. QED
        BY <1>3, <2>2 DEF AutoGeo
<1>5. store'.mainnet = s.mainnet
    BY <1>3, <1>4, KeptFields DEF Change, SameGeo
<1>6. home' = h
    BY <1>1, <1>5 DEF FeedKept
<1>7. QED
    BY <1>2, <1>6, GoodStore, ChangeInv

LEMMA ReceiveInv ==
    ASSUME ShellInv, Receive
    PROVE  ShellInv'
<1>1. PICK f : wire = <<f>> /\ IsFrame(f)
    BY DEF Receive, ShellInv, NetworkOk
<1>2. /\ Change(ApplyTyped(store, f), ui) /\ wire' = <<>> /\ UNCHANGED <<calls, feed, mirrored>> /\ OpenerOk'
      /\ FeedKept
    BY <1>1, GoodStore DEF Receive, OpenerOk
<1> DEFINE s == ApplyTyped(store, f)
<1>3. Good(s, [home EXCEPT !.stays = @ /\ s.mainnet])
    <2>1. CASE f.type = "snapshot"
        BY <2>1, GoodSnapshot, GoodKept DEF ApplyTyped
    <2>2. CASE f.type = "telemetry_status" /\ f.mainnet \in BOOLEAN
        BY <2>2, GoodStatus DEF ApplyTyped
    <2>3. QED
        BY <1>1, <2>1, <2>2 DEF IsFrame
<1>4. NetworkOk'
    BY <1>2 DEF NetworkOk, ShellInv
<1>5. QED
    BY <1>2, <1>3, <1>4, FeedChangeInv

\* The automatic switch is good, whatever was there before.
LEMMA GoodMaybe ==
    ASSUME NEW s, Shape(s), Flags(s), NEW h \in UserChoices, LayoutOk(s, h)
    PROVE  Good(MaybeAutoGeo(s), h)
BY MaybeKeeps DEF Good

LEMMA AnswerInv ==
    ASSUME ShellInv, NEW c \in calls, Answer(c)
    PROVE  ShellInv'
<1>1. calls' = calls \ {c} /\ UNCHANGED <<wire, feed>> /\ FeedKept
    BY DEF Answer
<1>2. NetworkOk' /\ OpenerOk'
    BY <1>1, GoodStore DEF Answer, NetworkOk, OpenerOk, ShellInv
<1>3. CASE c.op = "mainnet" /\ c.done = "ok"
    <2>1. PICK s : s = [store EXCEPT !.mainnet = c.data, !.geoAutoDone = @ /\ ~(store.mainnet /\ ~c.data)]
        OBVIOUS
    <2>2. Change(MaybeAutoGeo(s), ui) /\ mirrored' = mirrored
        BY <1>3, <2>1 DEF Answer, MainnetAnswered
    <2>3. c.data \in BOOLEAN
        BY <1>3 DEF ShellInv, NetworkOk
    <2>4. /\ Shape(s) /\ SameLayout(store, s) /\ s.mainnet = c.data /\ s.geoAvailable = store.geoAvailable
          /\ s.geoAutoDone = (store.geoAutoDone /\ ~(store.mainnet /\ ~c.data))
        BY <2>1 DEF ShellInv, Shape, Fields, SameLayout
    <2>5. PICK h : h = [home EXCEPT !.stays = @ /\ s.mainnet]
        OBVIOUS
    <2>6. h \in UserChoices /\ Back(h) = Back(home) /\ (h.stays => home.stays /\ s.mainnet)
        BY <2>3, <2>4, <2>5, KeptChoices
    <2>7. Flags(s) /\ LayoutOk(s, h)
        BY <2>3, <2>4, <2>6 DEF ShellInv, SameLayout, Flags, LayoutOk
    <2>8. Good(MaybeAutoGeo(s), h)
        BY <2>4, <2>6, <2>7, GoodMaybe
    <2>9. MaybeAutoGeo(s).mainnet = s.mainnet
        BY <2>4, SwitchFields DEF MaybeAutoGeo, Shape, Fields, SameGeo
    <2>10. QED
        BY <1>1, <1>2, <2>2, <2>5, <2>8, <2>9, FeedChangeInv
<1>4. CASE c.op = "boot"
    <2>1. PICK s : s = IF c.done = "ok" THEN AutoGeo(ApplySnapshot(store, c.data)) ELSE store
        OBVIOUS
    <2>2. Good(s, home) /\ Shape(s)
        <3>1. CASE c.done = "ok"
            <4>1. Good(ApplySnapshot(store, c.data), home)
                BY GoodSnapshot
            <4>2. PICK t : t = AutoGeo(ApplySnapshot(store, c.data))
                OBVIOUS
            <4>3. Shape(t) /\ Flags(t) /\ LayoutOk(t, home) /\ Armed(t)
                BY <4>1, <4>2, AutoGeoKeeps
            <4>4. QED
                BY <2>1, <3>1, <4>2, <4>3 DEF Good, ShellInv
        <3>2. CASE c.done # "ok"
            BY <2>1, <3>2, GoodStore
        <3>3. QED
            BY <3>1, <3>2
    <2>3. Good(Booted(s), home)
        BY <2>2, SelectFields, GoodAlike DEF Booted
    <2>4. Change(Booted(s), ui) /\ mirrored' = TRUE
        BY <1>4, <2>1 DEF Answer
    <2>5. QED
        BY <1>1, <1>2, <2>3, <2>4, GoodKept, FeedChangeInv
<1>5. CASE ~(c.op = "mainnet" /\ c.done = "ok") /\ c.op # "boot"
    <2>1. UNCHANGED <<store, ui, url, synced, mirrored>>
        BY <1>1, <1>5 DEF Answer
    <2>2. home' = [home EXCEPT !.stays = @ /\ store.mainnet]
        BY <1>1, <2>1 DEF FeedKept
    <2>3. home' \in UserChoices /\ Back(home') = Back(home) /\ (home'.stays => home.stays)
        BY <2>2, KeptChoices DEF ShellInv, Flags
    <2>4. LayoutOk(store', home')
        BY <2>1, <2>3 DEF ShellInv, LayoutOk
    <2>5. QED
        BY <1>2, <2>1, <2>3, <2>4 DEF ShellInv, LinkIsTheView
<1>6. QED
    BY <1>3, <1>4, <1>5

\* What happens to server and network only.
LEMMA RestInv ==
    ASSUME ShellInv, Rest, NetworkOk'
    PROVE  ShellInv'
BY DEF ShellInv, Rest, LinkIsTheView, OpenerOk

LEMMA NetworkInv ==
    ASSUME ShellInv, Network
    PROVE  ShellInv'
<1>1. CASE Receive
    BY <1>1, ReceiveInv
<1>2. ASSUME NEW c \in calls, Answer(c) PROVE ShellInv'
    BY <1>2, AnswerInv
<1>3. CASE Snapshot \/ Status
    <2>1. PICK f : wire' = <<f>> /\ IsFrame(f)
        BY <1>3 DEF Snapshot, Status, SnapshotFrame, StatusFrame, IsFrame, ShellInv, NetworkOk
    <2>2. Rest /\ UNCHANGED <<calls, feed>>
        BY <1>3 DEF Snapshot, Status
    <2>3. NetworkOk'
        BY <2>1, <2>2 DEF ShellInv, NetworkOk
    <2>4. QED
        BY <2>2, <2>3, RestInv
<1>4. ASSUME NEW c \in calls, Fail(c) \/ Serve(c) PROVE ShellInv'
    <2>1. /\ {"op", "done", "data"} \subseteq DOMAIN c /\ c.op \in {"mainnet", "boot"}
          /\ (c.op = "mainnet" /\ c.done # "failed" => c.data \in BOOLEAN)
        BY DEF ShellInv, NetworkOk
    <2>3. CASE Fail(c)
        <3>1. PICK d : d = [c EXCEPT !.done = "failed", !.data = None]
            OBVIOUS
        <3>2. calls' = (calls \ {c}) \union {d} /\ Rest /\ UNCHANGED <<wire, feed>>
            BY <2>3, <3>1 DEF Fail, Done
        <3>3. {"op", "done", "data"} \subseteq DOMAIN d /\ d.done = "failed" /\ d.op = c.op
            BY <2>1, <3>1
        <3>4. NetworkOk'
            BY <3>2, <3>3 DEF ShellInv, NetworkOk
        <3>5. QED
            BY <3>2, <3>4, RestInv
    <2>4. CASE Serve(c) /\ c.op = "mainnet"
        <3>1. PICK d : d = [c EXCEPT !.done = "ok", !.data = c.data]
            OBVIOUS
        <3>2. calls' = (calls \ {c}) \union {d} /\ feed' = c.data /\ Rest /\ wire' = wire /\ c.done = None
            BY <2>4, <3>1 DEF Serve, Done
        <3>3. {"op", "done", "data"} \subseteq DOMAIN d /\ d.data = c.data /\ d.op = c.op
            BY <2>1, <3>1
        <3>4. c.data \in BOOLEAN
            BY <2>1, <2>4, <3>2, NullAssumption
        <3>5. NetworkOk'
            BY <3>2, <3>3, <3>4 DEF ShellInv, NetworkOk
        <3>6. QED
            BY <3>2, <3>5, RestInv
    <2>5. CASE Serve(c) /\ c.op # "mainnet"
        <3>1. c.op = "boot"
            BY <2>1, <2>5
        <3>2. PICK d : d = [c EXCEPT !.done = "ok", !.data = SnapshotFrame]
            OBVIOUS
        <3>3. calls' = (calls \ {c}) \union {d} /\ Rest /\ UNCHANGED <<wire, feed>>
            BY <2>5, <3>1, <3>2 DEF Serve, Done
        <3>4. {"op", "done", "data"} \subseteq DOMAIN d /\ d.op = "boot"
            BY <2>1, <3>1, <3>2
        <3>5. NetworkOk'
            BY <3>3, <3>4 DEF ShellInv, NetworkOk
        <3>6. QED
            BY <3>3, <3>5, RestInv
    <2>6. QED
        BY <1>4, <2>3, <2>4, <2>5
<1>5. CASE Observers \/ OtherViewer
    <2>1. Rest /\ UNCHANGED <<wire, calls>> /\ feed' \in {feed, ~feed}
        BY <1>5 DEF Observers, OtherViewer
    <2>2. NetworkOk'
        BY <2>1 DEF ShellInv, NetworkOk
    <2>3. QED
        BY <2>1, <2>2, RestInv
<1>6. QED
    BY <1>1, <1>2, <1>3, <1>4, <1>5 DEF Network

----------------------------------------------------------------------------
(* The window, a reload, and the whole.                                     *)

LEMMA ResizeInv ==
    ASSUME ShellInv, Resize
    PROVE  ShellInv'
<1>1. UNCHANGED <<network, home, mirrored>> /\ OpenerOk'
    BY GoodStore DEF Resize, OpenerOk
<1>2. PICK u : u = [ui EXCEPT !.narrow = ~@]
    OBVIOUS
<1>3. PICK v : v = [Closed(u, "overlay") EXCEPT !.drawer = None, !.focus = IF @ = "drawer" THEN "page" ELSE @]
    OBVIOUS
<1>4. Change(store, u) \/ Change(store, v)
    BY <1>2, <1>3 DEF Resize
<1>5. UiShape(u)
    BY <1>2, GoodStore DEF UiShape, UiFields
<1>6. UiShape(v)
    BY <1>3, <1>5, GoodStore, ClosedShape DEF UiShape, UiFields
<1>7. QED
    BY <1>1, <1>4, <1>5, <1>6, PanelInv

LEMMA NewPage == Untouched \in UserChoices /\ Back(Untouched) = "force" /\ Untouched.stays = FALSE
BY DEF Untouched, UserChoices, Back

\* A page that has just been loaded shows what its link says, and mirrors nothing yet.
LEMMA ReloadInv ==
    ASSUME ShellInv, Reload
    PROVE  ShellInv'
<1>1. PICK u : u = Loaded(url)
    OBVIOUS
<1>2. /\ store' = Kept(InitialStore) /\ ui' = u /\ url' = Persist(u.hero, url)
      /\ mirrored' = FALSE /\ synced' = FALSE /\ wire' = <<>> /\ calls' = {Post("boot", None)} /\ home' = Untouched
      /\ feed' = feed
    BY <1>1 DEF Reload
<1>3. Shape(store') /\ Flags(store') /\ LayoutOk(store', home') /\ Armed(store') /\ home' \in UserChoices
    BY <1>2, KeptFields, InitialFields, NewPage DEF SameGeo, SameLayout, Flags, LayoutOk, Armed
<1>4. UiShape(u) /\ OpenerOk'
    BY <1>1 DEF Reload, Loaded, UiShape, UiFields, OpenerOk
<1>5. UrlShape(url') /\ url'.hero = u.hero
    BY <1>2 DEF ShellInv, UrlShape, Persist
<1>6. NetworkOk'
    BY <1>2 DEF ShellInv, NetworkOk, Post
<1>7. QED
    BY <1>2, <1>3, <1>4, <1>5, <1>6 DEF ShellInv, LinkIsTheView

LEMMA ShellInit == Init => ShellInv
<1> SUFFICES ASSUME Init PROVE ShellInv
    OBVIOUS
<1>1. store = Kept(InitialStore) /\ home = Untouched /\ mirrored = FALSE /\ synced = FALSE
    BY DEF Init
<1>2. Shape(store) /\ Flags(store) /\ LayoutOk(store, home) /\ Armed(store) /\ home \in UserChoices
    BY <1>1, KeptFields, InitialFields, NewPage DEF SameGeo, SameLayout, Flags, LayoutOk, Armed
<1>3. UiShape(ui) /\ OpenerOk /\ UrlShape(url) /\ url.hero = ui.hero
    BY DEF Init, UiShape, UiFields, OpenerOk, UrlShape
<1>4. NetworkOk
    BY DEF Init, NetworkOk, Post
<1>5. QED
    BY <1>1, <1>2, <1>3, <1>4 DEF ShellInv, LinkIsTheView

LEMMA ShellStep ==
    ASSUME ShellInv, [Next]_vars
    PROVE  ShellInv'
<1>1. CASE User
    <2>1. ASSUME NEW mode \in {"force", "radial", "geo"}, PickLayout(mode) PROVE ShellInv'
        BY <2>1, PickLayoutInv
    <2>2. CASE SetNodePreset \/ InjectPeerFault
        BY <2>2, ChooseRowInv DEF SetNodePreset, InjectPeerFault
    <2>3. CASE ToggleMainnet
        BY <2>3, ToggleMainnetInv
    <2>4. CASE \/ OpenMenu \/ ToggleOverlay \/ \E d \in {"stats", "log"} : OpenDrawer(d)
               \/ CloseDrawer \/ CloseDialog \/ ClickText
        BY <2>4, PanelsInv
    <2>5. ASSUME NEW p, Select(p) PROVE ShellInv'
        BY <2>5, SelectInv
    <2>6. CASE Escape
        BY <2>6, EscapeInv
    <2>7. ASSUME NEW key \in {"?", "h", "r"}, Key(key) PROVE ShellInv'
        BY <2>7, KeyInv
    <2>8. CASE Share
        BY <2>8, ShareInv
    <2>9. QED
        BY <1>1, <2>1, <2>2, <2>3, <2>4, <2>5, <2>6, <2>7, <2>8 DEF User
<1>2. CASE NoObservers
    BY <1>2, NoObserversInv
<1>3. CASE Network
    BY <1>3, NetworkInv
<1>4. CASE Resize
    BY <1>4, ResizeInv
<1>5. CASE Reload
    BY <1>5, ReloadInv
<1>6. CASE UNCHANGED vars
    BY <1>6 DEF vars, page, network, ShellInv, NetworkOk, OpenerOk, LinkIsTheView
<1>7. QED
    BY <1>1, <1>2, <1>3, <1>4, <1>5, <1>6 DEF Next

----------------------------------------------------------------------------
(* The theorems.                                                            *)

LEMMA ShellInvHolds == Spec => []ShellInv
<1>1. ShellInv /\ [Next]_vars => ShellInv'
    BY ShellStep
<1>2. QED
    BY <1>1, ShellInit, PTL DEF Spec

\* Whatever the network, other viewers and the user do, and in which order: the layout is the one other than geo
\* that the user chose last, or geo that goes back to it, unless a GEO picked by hand forgot it (force then); the
\* switch to geo has been made where it is due, and does not undo a choice made over it while the feed is on.
THEOREM LayoutGoesBack == Spec => []LayoutReturns
<1>1. ShellInv => LayoutReturns
    BY DEF ShellInv, LayoutReturns, GeoArmed, LayoutOk, Armed, Return, Back
<1>2. QED
    BY <1>1, ShellInvHolds, PTL

\* Once the mirror has written, the address bar names the selected peer and the layout of the page, whichever
\* of the peer's, the layout's and the network's changes came last.
THEOREM AddressIsTheView == Spec => []LinkIsTheView
<1>1. ShellInv => LinkIsTheView
    BY DEF ShellInv
<1>2. QED
    BY <1>1, ShellInvHolds, PTL

----------------------------------------------------------------------------
(* Escape.                                                                  *)

\* What Open' is after a change that deselects nobody new.
LEMMA OpenAfter ==
    ASSUME ShellInv, NEW s, Shape(s), SameGeo(store, s), NEW u, UiShape(u), Change(s, u),
           s.selectedPeer \in {store.selectedPeer, None}
    PROVE  /\ store'.selectedPeer = s.selectedPeer
           /\ \A x \in {"help", "overlay", "menu"} : ui'[x] = u[x]
           /\ ui'.hero = u.hero /\ ui'.drawer = u.drawer
<1>1. AutoGeo(s) = s
    BY DEF SameGeo, AutoGeo
<1>2. store' = Kept(s) /\ ui' = DrawerYields(s, u)
    BY <1>1 DEF Change
<1>3. ui' = u
    BY <1>2 DEF DrawerYields
<1>4. QED
    BY <1>2, <1>3, KeptFields

\* The page's own handler closes what is on top, or all that is left.
LEMMA EscapeOnPageCloses ==
    ASSUME ShellInv, NEW u, UiShape(u), EscapeOnPage(u),
           u.hero = ui.hero, u.drawer = ui.drawer, u.overlay = ui.overlay
    PROVE  /\ store'.selectedPeer \in {store.selectedPeer, None}
           /\ ui'.hero = ui.hero
           /\ \A x \in {"help", "overlay", "menu"} : ui'[x] => u[x]
           /\ ui'.drawer \in {ui.drawer, None}
           /\ \/ u.overlay /\ ~ui'.overlay
              \/ DrawerShown # None /\ ui'.drawer = None
              \/ /\ ~u.overlay /\ DrawerShown = None
                 /\ store'.selectedPeer = None /\ ~ui'.help
<1>0. Shape(store) /\ SameGeo(store, store) /\ OpenerOk
    BY GoodStore DEF SameGeo
<1>1. CASE u.overlay
    <2>1. PICK v : v = Closed(u, "overlay")
        OBVIOUS
    <2>2. Change(store, v) /\ UiShape(v)
        BY <1>0, <1>1, <2>1, ClosedShape DEF EscapeOnPage
    <2>3. v.hero = u.hero /\ v.drawer = u.drawer /\ v.help = u.help /\ v.menu = u.menu /\ v.overlay = FALSE
        BY <1>1, <2>1 DEF Closed, UiShape, UiFields
    <2>4. /\ store'.selectedPeer = store.selectedPeer
          /\ \A x \in {"help", "overlay", "menu"} : ui'[x] = v[x]
          /\ ui'.hero = v.hero /\ ui'.drawer = v.drawer
        BY <1>0, <2>2, OpenAfter
    <2>5. QED
        BY <1>1, <2>3, <2>4
<1>2. CASE ~u.overlay /\ DrawerShown # None
    <2>1. PICK v : v = [u EXCEPT !.drawer = None, !.focus = IF @ = "drawer" THEN "page" ELSE @]
        OBVIOUS
    <2>2. Change(store, v) /\ UiShape(v)
        BY <1>2, <2>1 DEF EscapeOnPage, UiShape, UiFields
    <2>3. v.hero = u.hero /\ v.drawer = None /\ v.help = u.help /\ v.menu = u.menu /\ v.overlay = u.overlay
        BY <2>1 DEF UiShape, UiFields
    <2>4. /\ store'.selectedPeer = store.selectedPeer
          /\ \A x \in {"help", "overlay", "menu"} : ui'[x] = v[x]
          /\ ui'.hero = v.hero /\ ui'.drawer = v.drawer
        BY <1>0, <2>2, OpenAfter
    <2>5. QED
        BY <1>2, <2>3, <2>4
<1>3. CASE ~u.overlay /\ DrawerShown = None
    <2>1. PICK v, s : v = Closed(u, "help") /\ s = SelectPeer(store, None)
        OBVIOUS
    <2>2. Change(s, v) /\ UiShape(v)
        BY <1>0, <1>3, <2>1, ClosedShape DEF EscapeOnPage
    <2>3. /\ v.hero = u.hero /\ v.drawer = u.drawer /\ v.help = FALSE /\ v.menu = u.menu /\ v.overlay = u.overlay
        BY <2>1 DEF Closed, UiShape, UiFields
    <2>4. Shape(s) /\ SameGeo(store, s) /\ s.selectedPeer = None
        BY <1>0, <2>1, SelectFields DEF SelectPeer, Shape, Fields
    <2>5. /\ store'.selectedPeer = None
          /\ \A x \in {"help", "overlay", "menu"} : ui'[x] = v[x]
          /\ ui'.hero = v.hero /\ ui'.drawer = v.drawer
        BY <2>2, <2>4, OpenAfter
    <2>6. QED
        BY <1>3, <2>3, <2>5
<1>4. QED
    BY <1>1, <1>2, <1>3

\* What is open is gone, and nothing has come: of one panel, or of the drawer, or of everything.
LEMMA LessIsOpen ==
    ASSUME Open # {},
           store'.selectedPeer \in {store.selectedPeer, None},
           ui'.hero = ui.hero, ui'.drawer \in {ui.drawer, None},
           \A x \in {"help", "overlay", "menu"} : ui'[x] => ui[x],
           \/ \E x \in {"help", "overlay", "menu"} : ui[x] /\ ~ui'[x]
           \/ DrawerShown # None /\ ui'.drawer = None
           \/ /\ ~ui'.overlay /\ ~ui'.help /\ ~ui'.menu
              /\ DrawerShown = None /\ store'.selectedPeer = None
    PROVE  Open' \subseteq Open /\ Open' # Open
<1>1. DrawerShown' = None \/ DrawerShown' = DrawerShown
    BY DEF DrawerShown
<1>2. Open' \subseteq Open
    BY <1>1 DEF Open
<1>3. CASE \E x \in {"help", "overlay", "menu"} : ui[x] /\ ~ui'[x]
    <2>1. PICK x \in {"help", "overlay", "menu"} : ui[x] /\ ~ui'[x]
        BY <1>3
    <2>2. x \in Open /\ x \notin Open'
        BY <2>1 DEF Open
    <2>3. QED
        BY <1>2, <2>2
<1>4. CASE DrawerShown # None /\ ui'.drawer = None
    <2>1. DrawerShown' = None
        BY <1>4 DEF DrawerShown
    <2>2. "drawer" \in Open /\ "drawer" \notin Open'
        BY <1>4, <2>1 DEF Open
    <2>3. QED
        BY <1>2, <2>2
<1>5. CASE /\ ~ui'.overlay /\ ~ui'.help /\ ~ui'.menu
           /\ DrawerShown = None /\ store'.selectedPeer = None
    <2>1. DrawerShown' = None
        BY <1>1, <1>5
    <2>2. Open' = {}
        BY <1>5, <2>1 DEF Open
    <2>3. QED
        BY <1>2, <2>2
<1>6. QED
    BY <1>3, <1>4, <1>5

LEMMA EscapeStep ==
    ASSUME ShellInv, Escape, Open # {}
    PROVE  Open' \subseteq Open /\ Open' # Open
<1>0. UiShape(ui) /\ Shape(store) /\ SameGeo(store, store) /\ OpenerOk
    BY GoodStore DEF SameGeo, ShellInv
<1>1. CASE ui.focus = "menu"
    <2>1. PICK u : u = [ui EXCEPT !.menu = FALSE, !.focus = "page"]
        OBVIOUS
    <2>2. Change(store, u) \/ EscapeOnPage(u)
        BY <1>1, <2>1 DEF Escape
    <2>3. /\ UiShape(u) /\ u.hero = ui.hero /\ u.drawer = ui.drawer /\ u.overlay = ui.overlay
          /\ u.help = ui.help /\ u.menu = FALSE /\ ui.menu
        BY <1>0, <1>1, <2>1 DEF UiShape, UiFields
    <2>4. /\ store'.selectedPeer \in {store.selectedPeer, None}
          /\ ui'.hero = ui.hero /\ ui'.drawer \in {ui.drawer, None}
          /\ \A x \in {"help", "overlay", "menu"} : ui'[x] => u[x]
        <3>1. ASSUME Change(store, u)
              PROVE  <2>4!1 /\ <2>4!2 /\ <2>4!3
            BY <1>0, <2>3, <3>1, OpenAfter
        <3>2. ASSUME EscapeOnPage(u)
              PROVE  <2>4!1 /\ <2>4!2 /\ <2>4!3
            BY <2>3, <3>2, EscapeOnPageCloses
        <3>3. QED
            BY <2>2, <3>1, <3>2
    <2>5. /\ \A x \in {"help", "overlay", "menu"} : ui'[x] => ui[x]
          /\ ui["menu"] /\ ~ui'["menu"]
        BY <2>3, <2>4
    <2>6. QED
        BY <2>4, <2>5, LessIsOpen
<1>2. CASE ui.focus = "overlay"
    <2>1. PICK u : u = Closed(ui, "overlay")
        OBVIOUS
    <2>2. Change(store, u)
        BY <1>2, <2>1 DEF Escape
    <2>3. /\ UiShape(u) /\ u.hero = ui.hero /\ u.drawer = ui.drawer /\ ~u.overlay
          /\ u.help = ui.help /\ u.menu = ui.menu /\ ui.overlay
        BY <1>0, <1>2, <2>1, ClosedShape DEF Closed, UiShape, UiFields
    <2>4. /\ store'.selectedPeer = store.selectedPeer
          /\ ui'.hero = ui.hero /\ ui'.drawer \in {ui.drawer, None}
          /\ \A x \in {"help", "overlay", "menu"} : ui'[x] = u[x]
        BY <1>0, <2>2, <2>3, OpenAfter
    <2>5. /\ \A x \in {"help", "overlay", "menu"} : ui'[x] => ui[x]
          /\ ui["overlay"] /\ ~ui'["overlay"]
        BY <2>3, <2>4
    <2>6. QED
        BY <2>4, <2>5, LessIsOpen
<1>3. CASE ui.focus = "help"
    <2>1. PICK u : u = Closed(ui, "help")
        OBVIOUS
    <2>2. Change(store, u) \/ EscapeOnPage(u)
        BY <1>3, <2>1 DEF Escape
    <2>3. /\ UiShape(u) /\ u.hero = ui.hero /\ u.drawer = ui.drawer /\ u.overlay = ui.overlay
          /\ ~u.help /\ u.menu = ui.menu /\ ui.help
        BY <1>0, <1>3, <2>1, ClosedShape DEF Closed, UiShape, UiFields
    <2>4. /\ store'.selectedPeer \in {store.selectedPeer, None}
          /\ ui'.hero = ui.hero /\ ui'.drawer \in {ui.drawer, None}
          /\ \A x \in {"help", "overlay", "menu"} : ui'[x] => u[x]
        <3>1. ASSUME Change(store, u)
              PROVE  <2>4!1 /\ <2>4!2 /\ <2>4!3
            BY <1>0, <2>3, <3>1, OpenAfter
        <3>2. ASSUME EscapeOnPage(u)
              PROVE  <2>4!1 /\ <2>4!2 /\ <2>4!3
            BY <2>3, <3>2, EscapeOnPageCloses
        <3>3. QED
            BY <2>2, <3>1, <3>2
    <2>5. /\ \A x \in {"help", "overlay", "menu"} : ui'[x] => ui[x]
          /\ ui["help"] /\ ~ui'["help"]
        BY <2>3, <2>4
    <2>6. QED
        BY <2>4, <2>5, LessIsOpen
<1>4. CASE ui.focus \notin {"menu", "overlay", "help"}
    <2>1. PICK u : u = [ui EXCEPT !.menu = FALSE]
        OBVIOUS
    <2>2. EscapeOnPage(u)
        BY <1>4, <2>1 DEF Escape
    <2>3. /\ UiShape(u) /\ u.hero = ui.hero /\ u.drawer = ui.drawer /\ u.overlay = ui.overlay
          /\ u.help = ui.help /\ u.menu = FALSE
        BY <1>0, <1>4, <2>1 DEF UiShape, UiFields
    <2>4. /\ store'.selectedPeer \in {store.selectedPeer, None}
          /\ ui'.hero = ui.hero /\ ui'.drawer \in {ui.drawer, None}
          /\ \A x \in {"help", "overlay", "menu"} : ui'[x] => u[x]
          /\ \/ u.overlay /\ ~ui'.overlay
             \/ DrawerShown # None /\ ui'.drawer = None
             \/ /\ ~u.overlay /\ DrawerShown = None
                /\ store'.selectedPeer = None /\ ~ui'.help
        BY <2>2, <2>3, EscapeOnPageCloses
    <2>5. /\ \A x \in {"help", "overlay", "menu"} : ui'[x] => ui[x]
          /\ ~ui'.menu
        BY <2>3, <2>4
    <2>6. \/ \E x \in {"help", "overlay", "menu"} : ui[x] /\ ~ui'[x]
          \/ DrawerShown # None /\ ui'.drawer = None
          \/ /\ ~ui'.overlay /\ ~ui'.help /\ ~ui'.menu
             /\ DrawerShown = None /\ store'.selectedPeer = None
        BY <2>3, <2>4, <2>5
    <2>7. QED
        BY <2>4, <2>5, <2>6, LessIsOpen
<1>5. QED
    BY <1>1, <1>2, <1>3, <1>4

\* Escape closes something of what is open and opens nothing, whatever has the focus, and whether or not
\* the page's own handler runs after the one of the dialog (SimApp.tsx, onKey).
THEOREM EscapeClosesOne == Spec => EscapeGetsOut
<1>1. Spec => []ShellInv
    BY ShellInvHolds
<1>2. ShellInv /\ [Next]_vars => [Escape => Open = {} \/ (Open' \subseteq Open /\ Open' # Open)]_vars
    BY EscapeStep
<1>3. QED
    BY <1>1, <1>2, PTL DEF Spec, EscapeGetsOut

=============================================================================
