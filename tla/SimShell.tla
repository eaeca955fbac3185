------------------------------ MODULE SimShell ------------------------------
(***************************************************************************)
(* The simulator's page on a live server: the layout of the map and what   *)
(* switches it, the selected peer, the panels that open over the page and  *)
(* the keys they own, and the address bar, which mirrors the selection and *)
(* the preferences so that a link opens the same view.                     *)
(*                                                                         *)
(* A change of the store runs its subscribers before anything else does:   *)
(* the automatic switch to the geographic layout, the drawer that yields   *)
(* to a selection, the mirror in the address bar.  React's effects run a   *)
(* step later where a change from the network causes them.                 *)
(*                                                                         *)
(* Frames arrive in order, answers to requests do not.  Of the server is   *)
(* left whether its mainnet feed is on and whether it has observers; of    *)
(* the preferences the hero layout, which the stage theme goes along with. *)
(* A recording has no switches and no layout to return to (ReelPlayer).    *)
(***************************************************************************)
EXTENDS AppStore, FiniteSets

CONSTANTS
  SimPeers,    \* simulated peers
  MaxCalls,    \* bound: requests under way
  MaxOps,      \* bound: what the user does
  MaxUpsets    \* bound: failures, and what others do to server and window

\* null is no layout, and no answer.
ASSUME NullAssumption == None \notin {"force", "radial", "geo", "ok", "failed"}

VARIABLES
  store,       \* the store, of which the layout, the nodes and the selection are kept
  ui,          \* what is open: [help, hero, overlay, drawer, menu], narrow, and where the focus is
  opener,      \* for an open dialog, where the focus was before
  url,         \* the query: [peer, t, hero]
  stored,      \* localStorage: the hero layout
  boot,        \* the peer of the link that bootSim was started with
  mirrored,    \* initUrlMoment has subscribed
  wire,        \* frames under way
  calls,       \* requests: [op, done, data], done is None until it is answered
  feed,        \* the server's mainnet feed is on
  observers,   \* its snapshots hold real peers
  ops, upsets,
  home,        \* history: [layout, forgot, stays], the layout other than geo that the user chose last, whether
               \* GEO was picked by hand since, and whether that choice was made with the feed on since then
  synced       \* history: the mirror has written since it subscribed

page == <<ui, opener, stored>>
network == <<wire, calls, feed, observers>>
vars == <<store, ui, opener, url, stored, boot, mirrored, network, ops, upsets, home, synced>>

Nodes == [p \in SimPeers \union (IF observers THEN RealPeers ELSE {}) |-> "idle"]
SnapshotFrame == [type |-> "snapshot", state |-> "running", time |-> 0, event_count |-> 0, nodes |-> Nodes]
StatusFrame == [type |-> "telemetry_status", mainnet |-> feed]

Kept(s) ==
  [InitialStore EXCEPT !.mainnet = s.mainnet, !.nodes = s.nodes, !.selectedPeer = s.selectedPeer,
     !.layoutMode = s.layoutMode, !.layoutBeforeGeo = s.layoutBeforeGeo,
     !.geoAvailable = s.geoAvailable, !.geoAutoDone = s.geoAutoDone]

Post(op, data) == [op |-> op, done |-> None, data |-> data]

\* isNodeVisible: geo draws the real peers, the other layouts the simulated ones.
IsVisible(s, p) == p \in DOMAIN s.nodes /\ (s.layoutMode = "geo") # IsSimPeer(p)

DrawerShown == IF ui.hero THEN None ELSE ui.drawer

(***************************************************************************)
(* The subscribers.                                                        *)
(***************************************************************************)
\* Slip: the switch is not ticked off.
MaybeAutoGeoAgain(s) ==
  IF s.mainnet /\ s.geoAvailable /\ ~s.geoAutoDone THEN SetLayoutMode(s, "geo", TRUE) ELSE s

\* With the feed on and observers there, the layout switches by itself, once.
MaybeAutoGeo(s) ==
  IF s.mainnet /\ s.geoAvailable /\ ~s.geoAutoDone
  THEN [SetLayoutMode(s, "geo", TRUE) EXCEPT !.geoAutoDone = TRUE] ELSE s

\* initAutoGeo: when whether the feed is on, or whether there are observers, has changed.
AutoGeo(s) ==
  IF <<store.mainnet, store.geoAvailable>> # <<s.mainnet, s.geoAvailable>> THEN MaybeAutoGeo(s) ELSE s

\* A selection closes the drawer of a narrow page.
DrawerYields(s, u) ==
  IF s.selectedPeer # store.selectedPeer /\ s.selectedPeer # None /\ u.narrow
  THEN [u EXCEPT !.drawer = None, !.focus = IF @ = "drawer" THEN "page" ELSE @] ELSE u

\* syncUrlMoment: on a live page the link has a peer and no time.
Moment(s, link) == [link EXCEPT !.peer = s.selectedPeer, !.t = None]

\* Slip: preferences are written over the query that the page came with.
PersistStale(hero, link) == [peer |-> None, t |-> None, hero |-> hero]

\* persistPrefs touches its own part of the query only.
Persist(hero, link) == [link EXCEPT !.hero = hero]

\* A change of the store, and of what is open, with everything that follows at once.
Change(s, u) ==
  LET new == AutoGeo(s)
      link == IF u.hero # ui.hero THEN Persist(u.hero, url) ELSE url
      follows == mirrored /\ new.selectedPeer # store.selectedPeer
  IN  /\ store' = Kept(new)
      /\ ui' = DrawerYields(new, u)
      /\ stored' = u.hero
      /\ url' = IF follows THEN Moment(new, link) ELSE link
      /\ synced' = (synced \/ follows)

Act == ops < MaxOps /\ ops' = ops + 1 /\ UNCHANGED <<boot, mirrored, upsets>>
Upset == upsets < MaxUpsets /\ upsets' = upsets + 1 /\ UNCHANGED ops

(***************************************************************************)
(* The layout.                                                             *)
(***************************************************************************)
\* A simulated action leaves the geographic layout, in which it could not be seen.
LeaveGeoForSim(s) ==
  IF s.layoutMode # "geo" THEN s
  ELSE SetLayoutMode(s, IF s.layoutBeforeGeo = "radial" THEN "radial" ELSE "force", FALSE)

\* What geo goes back to: a GEO picked by hand forgets the choice before it.
Return == IF home.forgot THEN "force" ELSE home.layout

\* Where the feed is off the next one may switch the layout again.
FeedKept == home' = [home EXCEPT !.stays = @ /\ store'.mainnet]

\* A tab of ModeSwitcher; GEO without observers only explains itself.
PickLayout(mode) ==
  /\ Act /\ ui.focus = "page" /\ DrawerShown = None
  /\ mode # store.layoutMode /\ (mode = "geo" => store.geoAvailable)
  /\ Change(SetLayoutMode(store, mode, FALSE), [ui EXCEPT !.menu = FALSE])
  /\ home' = IF mode = "geo" THEN [home EXCEPT !.forgot = TRUE, !.stays = FALSE]
             ELSE [layout |-> mode, forgot |-> FALSE, stays |-> store.mainnet /\ store.geoAvailable]
  /\ UNCHANGED <<opener, network>>

\* Slip: always back to force.
NoObserversForce ==
  /\ ~store.geoAvailable /\ store.layoutMode = "geo"
  /\ Change(SetLayoutMode(store, "force", FALSE), ui)
  /\ UNCHANGED <<opener, boot, mirrored, network, ops, upsets, home>>

\* ModeSwitcher's effect, once the change that took the observers away is on the screen.
NoObservers ==
  /\ ~store.geoAvailable /\ store.layoutMode = "geo"
  /\ Change(SetLayoutMode(store, IF store.layoutBeforeGeo = None THEN "force" ELSE store.layoutBeforeGeo, FALSE), ui)
  /\ UNCHANGED <<opener, boot, mirrored, network, ops, upsets, home>>

(***************************************************************************)
(* Menus, dialogs and keys.  What has the focus owns the keys; a click on  *)
(* a dialog's text gives the focus to the page behind it.                  *)
(***************************************************************************)
\* A dialog that opens takes the focus, one that closes gives it back, to the page if what had it is gone.
StillOpen(u, where) == (where = "overlay" /\ u.overlay) \/ (where = "drawer" /\ u.drawer # None /\ ~u.hero)
Opened(u, dialog) == [u EXCEPT ![dialog] = TRUE, !.focus = dialog]
Closed(u, dialog) ==
  IF ~u[dialog] THEN u
  ELSE [u EXCEPT ![dialog] = FALSE, !.focus = IF StillOpen(u, opener[dialog]) THEN opener[dialog] ELSE "page"]

\* The page behind an open drawer is inert; what is open over it hides it from the pointer only.
Reachable == ui.focus = "page" /\ DrawerShown = None

ToggleHelp ==
  IF ui.help THEN /\ Change(store, Closed(ui, "help")) /\ UNCHANGED opener
  ELSE /\ Change(store, Opened(ui, "help")) /\ opener' = [opener EXCEPT !.help = ui.focus]

\* A row of a menu, and of the overlay, which close before it runs.
ChooseRow(simulated) ==
  /\ Act /\ ui.focus \in {"menu", "overlay"}
  /\ LET u == IF ui.focus = "menu" THEN [ui EXCEPT !.menu = FALSE, !.focus = "page"] ELSE Closed(ui, "overlay")
     IN  Change(IF simulated THEN LeaveGeoForSim(store) ELSE store, u)
  /\ UNCHANGED <<opener, network, home>>

\* What is asked of the server then is Transport's.  Presets, scenarios and topologies are simulated; a
\* fault on a peer needs a simulated one.
SetNodePreset == ChooseRow(TRUE)
InjectPeerFault ==
  IF store.selectedPeer \in DOMAIN store.nodes /\ IsSimPeer(store.selectedPeer)
  THEN ChooseRow(TRUE) ELSE ChooseRow(FALSE)

OpenMenu ==
  /\ Act /\ Reachable
  /\ Change(store, [ui EXCEPT !.menu = TRUE, !.focus = "menu"])
  /\ UNCHANGED <<opener, network, home>>

\* The button Menu + is there on narrow pages only.
ToggleOverlay ==
  /\ Act /\ Reachable /\ ui.narrow
  /\ IF ui.overlay THEN /\ Change(store, Closed([ui EXCEPT !.menu = FALSE], "overlay")) /\ UNCHANGED opener
     ELSE /\ Change(store, Opened([ui EXCEPT !.menu = FALSE], "overlay"))
          /\ opener' = [opener EXCEPT !.overlay = "page"]
  /\ UNCHANGED <<network, home>>

OpenDrawer(d) ==
  /\ Act /\ Reachable /\ ui.narrow /\ ~ui.hero
  /\ Change(store, [ui EXCEPT !.drawer = d, !.menu = FALSE, !.focus = "drawer"])
  /\ UNCHANGED <<opener, network, home>>

CloseDrawer ==
  /\ Act /\ DrawerShown # None /\ ui.focus = "drawer"
  /\ Change(store, [ui EXCEPT !.drawer = None, !.focus = "page"])
  /\ UNCHANGED <<opener, network, home>>

\* The close button of a dialog, or its backdrop.
CloseDialog ==
  /\ Act
  /\ \E dialog \in {"overlay", "help"} : ui[dialog] /\ Change(store, Closed(ui, dialog))
  /\ UNCHANGED <<opener, network, home>>

ClickText ==
  /\ Act /\ ui.focus \in {"overlay", "help", "menu"}
  /\ Change(store, [ui EXCEPT !.focus = "page"])
  /\ UNCHANGED <<opener, network, home>>

\* A peer that is drawn, a row of the log, a chip of the inspector: the selected one is deselected.
Select(p) ==
  /\ Act /\ (Reachable \/ ui.focus = "drawer") /\ IsVisible(store, p)
  /\ Change(SelectPeer(store, IF store.selectedPeer = p THEN None ELSE p), [ui EXCEPT !.menu = FALSE])
  /\ UNCHANGED <<opener, network, home>>

\* Slip: the key deselects the peer and leaves the help open.
EscapeOnPageNoHelp(u) ==
  IF u.overlay THEN Change(store, Closed(u, "overlay"))
  ELSE IF DrawerShown # None THEN Change(store, [u EXCEPT !.drawer = None, !.focus = IF @ = "drawer" THEN "page" ELSE @])
  ELSE Change(SelectPeer(store, None), u)

\* Escape as the page's own handler takes it: one panel, or the selection and the help.
EscapeOnPage(u) ==
  IF u.overlay THEN Change(store, Closed(u, "overlay"))
  ELSE IF DrawerShown # None THEN Change(store, [u EXCEPT !.drawer = None, !.focus = IF @ = "drawer" THEN "page" ELSE @])
  ELSE Change(SelectPeer(store, None), Closed(u, "help"))

\* A menu and a dialog with the focus take Escape themselves and stop it, which only holds up the page's
\* handler where React listens below the document.  The browser closes a menu without the focus.
Escape ==
  /\ Act
  /\ CASE ui.focus = "menu" -> LET u == [ui EXCEPT !.menu = FALSE, !.focus = "page"]
                               IN  Change(store, u) \/ EscapeOnPage(u)
       [] ui.focus = "overlay" -> Change(store, Closed(ui, "overlay"))
       [] ui.focus = "help" -> Change(store, Closed(ui, "help")) \/ EscapeOnPage(Closed(ui, "help"))
       [] OTHER -> EscapeOnPage([ui EXCEPT !.menu = FALSE])
  /\ UNCHANGED <<opener, network, home>>

\* The other keys.  A drawer that the hero layout hid takes the focus when it is back.  Menus and
\* dialogs let none of them through but `?', and a menu not even that.
Key(key) ==
  /\ Act
  /\ key = "?" \/ ui.focus = "page"
  /\ ui.focus # "menu"
  /\ CASE key = "?" -> ToggleHelp
       [] key = "h" -> Change(store, [ui EXCEPT !.hero = ~@, !.focus = IF ui.hero /\ ui.drawer # None THEN "drawer" ELSE @])
                       /\ UNCHANGED opener
       [] key = "r" -> Change(ResetRun(LeaveGeoForSim(store)), ui) /\ UNCHANGED opener
  /\ UNCHANGED <<network, home>>

\* shareMoment.
Share ==
  /\ Act /\ ui.focus = "page"
  /\ url' = Moment(store, url)
  /\ UNCHANGED <<store, page, network, home, synced>>

(***************************************************************************)
(* The window, the network, and a reload.                                  *)
(***************************************************************************)
\* Above the breakpoint the rails are part of the page again.
Resize ==
  /\ Upset
  /\ LET u == [ui EXCEPT !.narrow = ~@]
     IN  IF u.narrow THEN Change(store, u)
         ELSE Change(store, [Closed(u, "overlay") EXCEPT !.drawer = None, !.focus = IF @ = "drawer" THEN "page" ELSE @])
  /\ UNCHANGED <<opener, boot, mirrored, network, home>>

\* A badge: the feed is switched when the server has said so.
ToggleMainnet ==
  /\ Act /\ Reachable /\ Cardinality(calls) < MaxCalls
  /\ calls' = calls \union {Post("mainnet", ~store.mainnet)}
  /\ Change(store, [ui EXCEPT !.menu = FALSE])
  /\ UNCHANGED <<opener, wire, feed, observers, home>>

Receive ==
  /\ wire # <<>> /\ wire' = Tail(wire)
  /\ Change(ApplyTyped(store, Head(wire)), ui) /\ FeedKept
  /\ UNCHANGED <<opener, boot, mirrored, calls, feed, observers, ops, upsets>>

\* The feed is off now: what it had brought is gone, and the next time it may switch the layout again.
MainnetAnswered(c) ==
  LET s == [store EXCEPT !.mainnet = c.data, !.geoAutoDone = @ /\ ~(store.mainnet /\ ~c.data)]
  IN  Change(MaybeAutoGeo(s), ui)

\* bootSim goes on with the topology, or without it: the peer of the link it was started with is selected,
\* whatever the address bar says by now, and the mirror begins.
Booted(s) == IF boot \in DOMAIN s.nodes THEN SelectPeer(s, boot) ELSE s

Answer(c) ==
  /\ c \in calls /\ c.done # None
  /\ calls' = calls \ {c}
  /\ CASE c.op = "mainnet" /\ c.done = "ok" -> MainnetAnswered(c) /\ UNCHANGED <<boot, mirrored>>
       [] c.op = "boot" ->
            /\ Change(Booted(IF c.done = "ok" THEN AutoGeo(ApplySnapshot(store, c.data)) ELSE store), ui)
            /\ boot' = None /\ mirrored' = TRUE
       [] OTHER -> UNCHANGED <<store, ui, stored, url, synced, boot, mirrored>>
  /\ FeedKept
  /\ UNCHANGED <<opener, wire, feed, observers, ops, upsets>>

Rest == UNCHANGED <<store, ui, opener, url, stored, boot, mirrored, home, synced>>

Snapshot == wire = <<>> /\ wire' = <<SnapshotFrame>> /\ Rest /\ UNCHANGED <<calls, feed, observers, ops, upsets>>
Status == wire = <<>> /\ wire' = <<StatusFrame>> /\ Rest /\ UNCHANGED <<calls, feed, observers, ops, upsets>>

Done(c, how, data) == calls' = (calls \ {c}) \union {[c EXCEPT !.done = how, !.data = data]}

Fail(c) == /\ Upset /\ c \in calls /\ c.done = None /\ Done(c, "failed", None)
           /\ Rest /\ UNCHANGED <<wire, feed, observers>>

\* One request does what its endpoint does; without the feed there are no observers of its.
Serve(c) ==
  /\ c \in calls /\ c.done = None
  /\ CASE c.op = "mainnet" -> feed' = c.data /\ observers' = (observers /\ c.data) /\ Done(c, "ok", c.data)
       [] c.op = "boot" -> Done(c, "ok", SnapshotFrame) /\ UNCHANGED <<feed, observers>>
  /\ Rest /\ UNCHANGED <<wire, ops, upsets>>

\* Observers appear and are gone as blocks are reported, or as peers report themselves.
Observers == Upset /\ observers' = ~observers /\ Rest /\ UNCHANGED <<wire, calls, feed>>

\* Another viewer switches the feed.
OtherViewer == Upset /\ feed' = ~feed /\ observers' = (observers /\ feed') /\ Rest /\ UNCHANGED <<wire, calls>>

Untouched == [layout |-> "force", forgot |-> FALSE, stays |-> FALSE]

\* initPrefs: the link wins over what is stored.  A link says nothing of a layout that is off.
Loaded(link) == [help |-> FALSE, hero |-> link.hero \/ stored, overlay |-> FALSE, drawer |-> None, menu |-> FALSE,
                 narrow |-> ui.narrow, focus |-> "page"]

\* The page is loaded anew, at the link that the address bar shows.
Reload ==
  /\ Upset
  /\ store' = Kept(InitialStore)
  /\ ui' = Loaded(url) /\ stored' = ui'.hero /\ url' = Persist(ui'.hero, url)
  /\ opener' = [overlay |-> "page", help |-> "page"]
  /\ boot' = url.peer /\ mirrored' = FALSE /\ synced' = FALSE
  /\ wire' = <<>> /\ calls' = {Post("boot", None)}
  /\ home' = Untouched
  /\ UNCHANGED <<feed, observers>>

Init ==
  /\ store = Kept(InitialStore)
  /\ ui = [help |-> FALSE, hero |-> FALSE, overlay |-> FALSE, drawer |-> None, menu |-> FALSE,
           narrow |-> TRUE, focus |-> "page"]
  /\ opener = [overlay |-> "page", help |-> "page"]
  /\ \E p \in SimPeers \union RealPeers \union {None} : url = [peer |-> p, t |-> None, hero |-> FALSE]
  /\ stored = FALSE /\ boot = url.peer /\ mirrored = FALSE
  /\ wire = <<>> /\ calls = {Post("boot", None)}
  /\ feed \in BOOLEAN /\ observers \in BOOLEAN
  /\ ops = 0 /\ upsets = 0 /\ home = Untouched /\ synced = FALSE

User == \/ \E mode \in {"force", "radial", "geo"} : PickLayout(mode)
        \/ SetNodePreset \/ InjectPeerFault \/ ToggleMainnet
        \/ OpenMenu \/ ToggleOverlay \/ \E d \in {"stats", "log"} : OpenDrawer(d)
        \/ CloseDrawer \/ CloseDialog \/ ClickText
        \/ \E p \in SimPeers \union RealPeers : Select(p)
        \/ Escape \/ \E key \in {"?", "h", "r"} : Key(key)
        \/ Share

Network == \/ Receive \/ \E c \in calls : Answer(c)
           \/ Snapshot \/ Status \/ \E c \in calls : Fail(c) \/ Serve(c)
           \/ Observers \/ OtherViewer

Next == User \/ NoObservers \/ Network \/ Resize \/ Reload

Spec == Init /\ [][Next]_vars

(***************************************************************************)
(* Properties.                                                             *)
(***************************************************************************)
\* With the feed on and observers there the automatic switch has been made.
GeoArmed == store.mainnet /\ store.geoAvailable => store.geoAutoDone

\* The layout is the one other than geo that the user chose last, or geo with that one to go back to, whatever
\* feed, observers and other viewers did since; only a GEO picked by hand forgets it, and goes back to force
\* (store.ts, setLayoutMode).  Geo comes by itself where the feed is on with observers, and does not come
\* back over a choice made then, for as long as the feed is on (actions.ts, maybeAutoGeo).
LayoutReturns ==
  /\ IF store.layoutMode = "geo"
     THEN (IF store.layoutBeforeGeo = None THEN "force" ELSE store.layoutBeforeGeo) = Return
     ELSE store.layoutMode = Return
  /\ home.stays => store.layoutMode # "geo"
  /\ GeoArmed

\* Once the mirror writes, the address bar is a link to the selected peer and to the layout of the page.
LinkIsTheView ==
  /\ synced => url.peer = store.selectedPeer /\ url.t = None
  /\ url.hero = ui.hero

Open == {x \in {"overlay", "help", "menu"} : ui[x]}
          \union (IF DrawerShown # None THEN {"drawer"} ELSE {})
          \union (IF store.selectedPeer # None THEN {"peer"} ELSE {})

\* Escape always closes something of what is open, and never opens anything.
EscapeGetsOut == [][Escape => Open = {} \/ (Open' \subseteq Open /\ Open' # Open)]_vars

=============================================================================
