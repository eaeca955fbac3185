------------------------------- MODULE MapView -------------------------------
(***************************************************************************)
(* The map of the mesh (web/components/map): a module outside React that   *)
(* reads the store in a frame loop, lays the nodes out once per topology,  *)
(* draws a list of layers on a deck, and frames them.  The deck is WebGL's *)
(* or its Canvas 2D stand-in; when the GPU drops the context React mounts  *)
(* a new canvas and the module starts over on it.                          *)
(*                                                                         *)
(* Positions are kept by index into a list of nodes that the next snapshot *)
(* replaces, so which node an index means is the module's to get right.    *)
(* Of a position is kept where it comes from: the layout, the node and, in *)
(* the force layout, when the node was settled.  Colours, glyphs and sizes *)
(* follow from what a layer is given and are left out.                     *)
(***************************************************************************)
EXTENDS Integers, FiniteSets, Sequences

CONSTANTS
  None,
  Scenes,        \* what snapshots hold: [nodes, mesh], nodes a list of [id, real, state, peers]
  EdgeLists,     \* what edges frames hold: sets of pairs of ids
  Hops,          \* the pairs that messages go between
  PARTICLE_CAP,  \* how many particles fly at once
  MaxSteps       \* bound: what the store, the user and the GPU do to the map


VARIABLES
  store,   \* the part of the store that is drawn
  map,     \* the module's variables
  placed,  \* layout memory, which outlives a renderer: [at, edges]
  view,    \* the deck's camera: [at, to, known], what it frames, fits to, and the zoom the module knows of
  drawn,   \* the layers on the deck
  canvas,  \* React's side: [gen, backend, losses, forced, remount]
  fetches, \* renderers whose request for the land is under way
  size,    \* the field has its real size
  reduced, \* reduced motion
  steps,
  moved,   \* history: the user moved the camera since it was last fitted to the layout
  home     \* history: what the force layout last showed, of which edges

frontend == <<store, placed, size, reduced>>
vars == <<store, map, placed, view, drawn, canvas, fetches, size, reduced, steps, moved, home>>

ToSet(seq) == {seq[i] : i \in DOMAIN seq}
IsAttacker(n) == n.state = "attacker"
IsVisible(mode, n) == (mode = "geo") = n.real

Modes == {"force", "radial", "geo"}
Nodes == UNION {ToSet(scene.nodes) : scene \in Scenes}
PeerIds == {n.id : n \in Nodes}

\* A snapshot has each peer once; None is no id, no position, no key, none of what a key is made of, and
\* no sight.
ASSUME MapAssumption ==
  /\ PARTICLE_CAP \in Nat
  /\ \A scene \in Scenes :
       /\ scene.nodes \in Seq(Nodes)
       /\ \A i, j \in DOMAIN scene.nodes : scene.nodes[i].id = scene.nodes[j].id => i = j
  /\ \A n \in Nodes : n.real \in BOOLEAN
  /\ None \notin PeerIds
  /\ None \notin [of : PeerIds, by : Modes, settled : 0..3]
  /\ None \notin [ids : SUBSET (Nat \X PeerIds), edges : EdgeLists \union {{}}, mode : Modes]
  /\ None \notin Seq(Nodes) \X (EdgeLists \union {{}}) \X Modes
  /\ None \notin [what : {"world", "nodes"}, nodes : SUBSET ([of : PeerIds, by : Modes, settled : 0..3] \union {None})]

Blank == [land |-> FALSE, edges |-> {}, attacks |-> {}, mesh |-> {}, hover |-> {}, nodes |-> <<>>,
          halos |-> {}, observers |-> {}, reticle |-> None]

(***************************************************************************)
(* layout.ts                                                               *)
(***************************************************************************)
TopologyKey(s) ==
  [ids |-> {<<i, s.nodes[i].id>> : i \in {j \in DOMAIN s.nodes : IsVisible(s.mode, s.nodes[j])}},
   edges |-> s.edges, mode |-> s.mode]

Spot(p, layout, settled) == [of |-> p, by |-> layout, settled |-> settled]

\* Slip: a new node settles everyone again.
PlaceAllAgain(s, memory) ==
  LET ids == {n.id : n \in {x \in ToSet(s.nodes) : ~x.real}}
      now == (memory.settled + 1) % 4
  IN  IF ids \subseteq DOMAIN memory.at /\ memory.edges = s.edges THEN memory
      ELSE [at |-> [p \in ids |-> Spot(p, "force", now)], edges |-> s.edges, settled |-> now]

\* layoutForce: nodes that it knows are pinned, unless the edges are others or most nodes are new;
\* nodes that are gone are forgotten.  Without a node to place the memory is left alone.
Place(s, memory) ==
  LET ids == {n.id : n \in {x \in ToSet(s.nodes) : ~x.real}}
      known == ids \intersect DOMAIN memory.at
      cold == memory.edges # s.edges \/ 2 * Cardinality(known) < Cardinality(ids)
      kept == IF cold THEN {} ELSE known
      now == IF kept = ids THEN memory.settled ELSE (memory.settled + 1) % 4
  IN  IF ids = {} THEN memory
      ELSE [at |-> [p \in ids |-> IF p \in kept THEN memory.at[p] ELSE Spot(p, "force", now)],
            edges |-> s.edges, settled |-> now]

ForgetLayout == [at |-> <<>>, edges |-> None, settled |-> placed.settled]

\* computeLayout, after Place: a position for every index, hidden nodes are nowhere.
Positions(s, memory) ==
  [i \in DOMAIN s.nodes |->
     LET n == s.nodes[i]
     IN  IF ~IsVisible(s.mode, n) THEN None
         ELSE IF s.mode = "force" THEN memory.at[n.id] ELSE Spot(n.id, s.mode, 0)]

(***************************************************************************)
(* renderLayers, in three parts.                                           *)
(***************************************************************************)
IndexOf(nodes) == [p \in {n.id : n \in ToSet(nodes)} |-> CHOOSE i \in DOMAIN nodes : nodes[i].id = p]

\* The layout is made anew when the key of what is shown has changed, and then the camera is to follow.
Stale(s, m) == <<s.nodes, s.edges, s.mode>> # m.inputs /\ TopologyKey(s) # m.key

LaidOut(s, m, memory) ==
  LET seen == [m EXCEPT !.inputs = <<s.nodes, s.edges, s.mode>>]
  IN  IF ~Stale(s, m) THEN seen
      ELSE [seen EXCEPT !.at = Positions(s, memory), !.index = IndexOf(s.nodes),
                        !.key = TopologyKey(s), !.fit = TRUE]

\* An attacker's graft and prune are changes of its state too.
StateKey(n) == IF IsAttacker(n) THEN <<n.state, n.peers # {}>> ELSE <<n.state>>

\* diffStates: a state that changed, other than to idle, gives a pulse.
Pulsing(s, m) ==
  LET flips == {n.id : n \in {x \in ToSet(s.nodes) : x.id \in DOMAIN m.prev /\ m.prev[x.id] # StateKey(x)
                                                      /\ x.state # "idle"}}
  IN  [m EXCEPT !.pulses = IF reduced \/ s.nodes = m.last THEN @ ELSE @ \union {[id |-> p, age |-> 0] : p \in flips},
                !.prev = [p \in {n.id : n \in ToSet(s.nodes)} |-> StateKey(s.nodes[IndexOf(s.nodes)[p]])],
                !.last = s.nodes]

\* Where a node that is shown is drawn.
PosOf(s, m, p) ==
  IF /\ p \in DOMAIN m.index /\ m.index[p] \in DOMAIN s.nodes
     /\ IsVisible(s.mode, s.nodes[m.index[p]])
  THEN m.at[m.index[p]] ELSE None

\* A line for each pair of which both ends are shown.
Lines(s, m, pairs) ==
  {<<PosOf(s, m, e[1]), PosOf(s, m, e[2])>> :
     e \in {x \in pairs : PosOf(s, m, x[1]) # None /\ PosOf(s, m, x[2]) # None}}

\* Slip: the cache of lines does not notice a new layout.
EdgeInputsUnplaced(s, m) == <<s.edges, s.mode>>

\* memoBy: the topology's lines are kept as long as what they are made from is the same.
EdgeInputs(s, m) == <<s.edges, m.at, s.mode>>

Memoised(s, m) ==
  IF m.memo # None /\ m.memo.inputs = EdgeInputs(s, m) THEN m.memo
  ELSE [inputs |-> EdgeInputs(s, m), lines |-> Lines(s, m, s.edges)]

\* The layers, from what is stored; an attacker's links are not drawn as links of the mesh.
Picture(s, m) ==
  LET visible == {n \in ToSet(s.nodes) : IsVisible(s.mode, n)}
      attackers == {n.id : n \in {x \in ToSet(s.nodes) : IsAttacker(x)}}
      honest == {e \in s.mesh : e[1] \notin attackers /\ e[2] \notin attackers}
      grafts == UNION {{<<n.id, v>> : v \in n.peers} : n \in {x \in visible : IsAttacker(x)}}
  IN  [land      |-> s.mode = "geo" /\ m.land,
       edges     |-> Memoised(s, m).lines,
       attacks   |-> Lines(s, m, grafts),
       mesh      |-> Lines(s, m, honest),
       hover     |-> Lines(s, m, {e \in s.edges : s.hover \in {e[1], e[2]}}),
       nodes     |-> [p \in {n.id : n \in visible} |-> PosOf(s, m, p)],
       halos     |-> {n.id : n \in {x \in visible : ~x.real /\ x.state = "decoded"}},
       observers |-> {n.id : n \in {x \in visible : x.real}},
       reticle   |-> IF s.sel = None THEN None ELSE PosOf(s, m, s.sel)]

\* Slip: a pulse never ends.
StillPulsingOn(s, m) == {x \in m.pulses : PosOf(s, m, x.id) # None}

\* What still moves: pulses and particles of which an end is hidden, or whose time is over, are dropped.
Alive(s, m, flying) == {x \in flying : x.age <= 1 /\ PosOf(s, m, x.from) # None /\ PosOf(s, m, x.to) # None}
StillPulsing(s, m) == {x \in m.pulses : x.age <= 1 /\ PosOf(s, m, x.id) # None}

\* The whole of it.  m is the module with its layout and pulses brought up to date.
Draw(s, m) ==
  LET empty == ~\E n \in ToSet(s.nodes) : IsVisible(s.mode, n)
      asks == ~empty /\ s.mode = "geo" /\ ~m.land /\ m.request = None
  IN  /\ drawn' = IF empty THEN Blank ELSE Picture(s, m)
      /\ map' = [m EXCEPT !.dirty = FALSE,
                          !.memo = IF empty THEN @ ELSE Memoised(s, m),
                          !.observers = ~empty /\ \E n \in ToSet(s.nodes) : n.real /\ IsVisible(s.mode, n),
                          !.particles = IF empty THEN {} ELSE Alive(s, m, @),
                          !.pulses = IF empty THEN {} ELSE StillPulsing(s, m),
                          !.request = IF asks THEN canvas.gen ELSE @]
      /\ fetches' = IF asks THEN fetches \union {canvas.gen} ELSE fetches

(***************************************************************************)
(* The camera.                                                             *)
(***************************************************************************)
Sight(what, nodes) == [what |-> what, nodes |-> nodes]
AtStart == [at |-> Sight("start", {}), to |-> None, known |-> Sight("start", {})]

\* The nodes that the index still means rightly.
Fitted(s, m) ==
  IF s.mode = "geo" THEN Sight("world", {})
  ELSE Sight("nodes", {m.at[i] : i \in {j \in DOMAIN s.nodes :
          /\ s.nodes[j].id \in DOMAIN m.index /\ m.index[s.nodes[j].id] = j
          /\ IsVisible(s.mode, s.nodes[j])}})

CanFit(s, m) ==
  /\ size
  /\ \E j \in DOMAIN s.nodes : /\ s.nodes[j].id \in DOMAIN m.index /\ m.index[s.nodes[j].id] = j
                               /\ IsVisible(s.mode, s.nodes[j])

\* The deck goes there at once under reduced motion; the module takes the zoom for known either way.
Fit(s, m) ==
  LET to == Fitted(s, m)
  IN  view' = IF reduced THEN [at |-> to, to |-> None, known |-> to] ELSE [view EXCEPT !.to = to, !.known = to]

Between == Sight("between", {})

\* Slip: the module does not hear where the camera ends up.
DeckFrameUnheard ==
  /\ view.to # None
  /\ view' = IF view.at # Between THEN [view EXCEPT !.at = Between, !.known = Between]
             ELSE [view EXCEPT !.at = view.to, !.to = None]
  /\ map' = [map EXCEPT !.dirty = TRUE]
  /\ UNCHANGED <<frontend, drawn, canvas, fetches, steps, moved, home>>

\* Canvas2DDeck.draw (and deck.gl's own): a step of the transition, which the module hears of.
DeckFrame ==
  /\ view.to # None
  /\ view' = IF view.at # Between THEN [view EXCEPT !.at = Between, !.known = Between]
             ELSE [at |-> view.to, to |-> None, known |-> view.to]
  /\ map' = [map EXCEPT !.dirty = TRUE]
  /\ UNCHANGED <<frontend, drawn, canvas, fetches, steps, moved, home>>

(***************************************************************************)
(* tick: the frame loop.  It fits first, and draws when something changed  *)
(* or moves.                                                               *)
(***************************************************************************)
Animating(m) == m.particles # {} \/ m.pulses # {} \/ (m.observers /\ ~reduced)

\* An age is 0 when it flies off, 1 on the way, 2 when its time is over.
Older(flying) == {[x EXCEPT !.age = IF @ < 2 THEN @ + 1 ELSE @] : x \in flying}

Tick ==
  LET fits == map.fit /\ CanFit(store, map)
      now == [map EXCEPT !.fit = @ /\ ~fits, !.dirty = @ \/ fits,
                         !.particles = Older(@), !.pulses = Older(@)]
      stale == Stale(store, now)
      memory == IF stale /\ store.mode = "force" THEN Place(store, placed) ELSE placed
  IN  /\ now.dirty \/ Animating(now)
      /\ IF fits THEN Fit(store, map) ELSE UNCHANGED view
      /\ placed' = memory
      /\ Draw(store, Pulsing(store, LaidOut(store, now, memory)))
      /\ moved' = (moved /\ ~stale)
      /\ home' = IF store.mode = "force" /\ DOMAIN drawn'.nodes # {}
                 THEN [at |-> drawn'.nodes, edges |-> store.edges] ELSE home
      /\ UNCHANGED <<store, canvas, size, reduced, steps>>

\* ensureLand's request is answered; only the renderer that asked listens.
LandArrives(gen, ok) ==
  /\ gen \in fetches /\ fetches' = fetches \ {gen}
  /\ map' = IF map.request # gen THEN map
            ELSE [map EXCEPT !.request = None, !.land = @ \/ ok, !.dirty = @ \/ ok]
  /\ UNCHANGED <<frontend, view, drawn, canvas, moved, home>>

LandLoads == \E gen \in fetches : LandArrives(gen, TRUE) /\ UNCHANGED steps

(***************************************************************************)
(* The canvas: a lost context, or a GPU that refuses one, mounts another.  *)
(***************************************************************************)
Loaded ==
  [at |-> <<>>, index |-> <<>>, key |-> None, inputs |-> None, dirty |-> TRUE,
   fit |-> FALSE, prev |-> <<>>, last |-> None, pulses |-> {}, particles |-> {}, observers |-> FALSE,
   land |-> FALSE, request |-> None, memo |-> None]

\* DeckCanvas' effect: destroyRenderer, then initRenderer on the new canvas.
Remount ==
  /\ canvas.remount
  /\ canvas' = [canvas EXCEPT !.gen = @ + 1, !.remount = FALSE, !.lost = FALSE,
                              !.backend = IF canvas.forced THEN "canvas2d" ELSE "webgl"]
  /\ map' = [Loaded EXCEPT !.memo = map.memo]
  /\ view' = AtStart
  /\ drawn' = Blank /\ moved' = FALSE
  /\ UNCHANGED <<frontend, fetches, steps, home>>

Step == steps < MaxSteps /\ steps' = steps + 1

ContextLost ==
  /\ Step /\ canvas.backend = "webgl" /\ ~canvas.lost
  /\ canvas' = [canvas EXCEPT !.lost = TRUE, !.losses = @ + 1, !.forced = @ \/ canvas.losses >= 1, !.remount = TRUE]
  /\ UNCHANGED <<frontend, map, view, drawn, fetches, moved, home>>

\* deck.gl's error may come from a deck that is gone.
ContextRefused ==
  /\ Step /\ (canvas.backend = "webgl" \/ canvas.gen > 1)
  /\ canvas' = [canvas EXCEPT !.forced = TRUE, !.remount = TRUE]
  /\ UNCHANGED <<frontend, map, view, drawn, fetches, moved, home>>

LandFails == Step /\ \E gen \in fetches : LandArrives(gen, FALSE)

(***************************************************************************)
(* The store changes, and the module is told (markDirty).                  *)
(***************************************************************************)
Stored(s) == /\ Step /\ store' = s /\ map' = [map EXCEPT !.dirty = TRUE]
             /\ UNCHANGED <<placed, view, drawn, canvas, fetches, size, reduced, moved, home>>

Holds(nodes, p) == \E n \in ToSet(nodes) : n.id = p

Others == {scene \in Scenes : <<scene.nodes, scene.mesh>> # <<store.nodes, store.mesh>>}

Snapshot(scene) ==
  Stored([store EXCEPT !.nodes = scene.nodes, !.mesh = scene.mesh,
                       !.sel = IF @ # None /\ ~Holds(scene.nodes, @) THEN None ELSE @])

Edges(edges) == edges # store.edges /\ Stored([store EXCEPT !.edges = edges])

\* A selected node of the sort that the layout does not show is deselected.
SetLayoutMode(mode) ==
  /\ mode # store.mode /\ (mode = "geo" => \E n \in ToSet(store.nodes) : n.real)
  /\ LET hides == \E n \in ToSet(store.nodes) : n.id = store.sel /\ ~IsVisible(mode, n)
     IN  Stored([store EXCEPT !.mode = mode, !.sel = IF hides THEN None ELSE @])

\* What is picked is what is drawn; a click on the selected node, or on none, deselects.
Click(p) == p \in DOMAIN drawn.nodes /\ Stored([store EXCEPT !.sel = IF @ = p THEN None ELSE p])
ClickField == store.sel # None /\ Stored([store EXCEPT !.sel = None])
Hover(p) == p \in DOMAIN drawn.nodes \union {None} /\ p # store.hover /\ Stored([store EXCEPT !.hover = p])

\* resetTopology: another topology is to come.
ResetTopology ==
  /\ Step
  /\ placed' = ForgetLayout
  /\ map' = [map EXCEPT !.key = None, !.inputs = None, !.dirty = TRUE]
  /\ home' = None
  /\ UNCHANGED <<store, view, drawn, canvas, fetches, size, reduced, moved>>

\* A message: a particle, when both ends are known and not too many fly.
Message(hop) ==
  /\ Step /\ ~reduced /\ Cardinality(map.particles) < PARTICLE_CAP
  /\ {hop[1], hop[2]} \subseteq DOMAIN map.index
  /\ map' = [map EXCEPT !.particles = @ \union {[from |-> hop[1], to |-> hop[2], age |-> 0]}]
  /\ UNCHANGED <<frontend, view, drawn, canvas, fetches, moved, home>>

\* The user moves the camera, which ends a transition.
Pan ==
  /\ Step
  /\ view' = [at |-> Sight("user", {}), to |-> None, known |-> Sight("user", {})]
  /\ map' = [map EXCEPT !.dirty = TRUE] /\ moved' = TRUE
  /\ UNCHANGED <<frontend, drawn, canvas, fetches, home>>

\* The key F.  Between a change of what is shown and the frame that lays it out, it fits to what is
\* shown as far as the last layout has it, and a layout that this left pending is not fitted to.
FitKey ==
  /\ Step /\ CanFit(store, map)
  /\ Fit(store, map)
  /\ map' = [map EXCEPT !.fit = FALSE, !.dirty = TRUE]
  /\ moved' = (TopologyKey(store) # map.key)
  /\ UNCHANGED <<frontend, drawn, canvas, fetches, home>>

\* resizeRenderer: the field of a canvas that was hidden gets its size.
Resize ==
  /\ ~size /\ size' = TRUE
  /\ map' = [map EXCEPT !.dirty = TRUE]
  /\ UNCHANGED <<store, placed, reduced, view, drawn, canvas, fetches, steps, moved, home>>

Init ==
  /\ store = [nodes |-> <<>>, mesh |-> {}, edges |-> {}, mode |-> "force", sel |-> None, hover |-> None]
  /\ \E backend \in {"webgl", "canvas2d"} :
       /\ canvas = [gen |-> 1, backend |-> backend, losses |-> 0, lost |-> FALSE,
                    forced |-> backend = "canvas2d", remount |-> FALSE]
  /\ map = Loaded
  /\ placed = [at |-> <<>>, edges |-> None, settled |-> 0]
  /\ view = AtStart
  /\ drawn = Blank /\ fetches = {} /\ size \in BOOLEAN /\ reduced \in BOOLEAN
  /\ steps = 0 /\ moved = FALSE /\ home = None

Environment ==
  \/ \E scene \in Others : Snapshot(scene)
  \/ \E edges \in EdgeLists : Edges(edges)
  \/ \E mode \in Modes : SetLayoutMode(mode)
  \/ \E p \in DOMAIN drawn.nodes : Click(p)
  \/ \E p \in DOMAIN drawn.nodes \union {None} : Hover(p)
  \/ ClickField \/ ResetTopology \/ \E hop \in Hops : Message(hop)
  \/ Pan \/ FitKey \/ ContextLost \/ ContextRefused \/ LandFails

\* What the browser and the module do by themselves: the field gets its size, React commits, requests
\* are answered, frames come while the page is shown.
System == Resize \/ Remount \/ LandLoads \/ DeckFrame \/ Tick

Next == System \/ Environment

Spec == Init /\ [][Next]_vars
FairSpec == Spec /\ WF_vars(System)

(***************************************************************************)
(* Properties.                                                             *)
(***************************************************************************)
\* Where a node belongs, whatever its index.
Where(p) == IF store.mode = "force" THEN placed.at[p] ELSE Spot(p, store.mode, 0)

\* A frame after which nothing has changed shows every node of the layout's sort, and no other, at its
\* own place, and the reticle at the selected one: no index of an earlier list is taken for another node.
DrawnWhereTheyBelong ==
  ~map.dirty /\ ~canvas.remount =>
    /\ DOMAIN drawn.nodes = {n.id : n \in {x \in ToSet(store.nodes) : IsVisible(store.mode, x)}}
    /\ \A p \in DOMAIN drawn.nodes : drawn.nodes[p] = Where(p)
    /\ drawn.reticle = IF store.sel \in DOMAIN drawn.nodes THEN Where(store.sel) ELSE None
    /\ drawn.edges = {<<Where(e[1]), Where(e[2])>> : e \in {x \in store.edges : {x[1], x[2]} \subseteq DOMAIN drawn.nodes}}

\* When it is at rest the camera frames what is drawn, unless the user moved it since (or pressed F on
\* something that was not laid out yet), and the module
\* knows its zoom: a fit that a layout, a lost context or a hidden field delayed is not forgotten.
Framed ==
  ~map.dirty /\ ~map.fit /\ view.to = None /\ ~canvas.remount /\ DOMAIN drawn.nodes # {} =>
    /\ view.known = view.at
    /\ moved \/ view.at = IF store.mode = "geo" THEN Sight("world", {})
                           ELSE Sight("nodes", {drawn.nodes[p] : p \in DOMAIN drawn.nodes})

\* The picture that stays on the screen: all that should be seen is, at its place, and in sight.
PictureIsRight == DrawnWhereTheyBelong /\ Framed

\* In the force layout a node stays where it was last seen there, over other layouts, new attackers and
\* lost contexts, as long as the edges are the same and at least half of the nodes are known.
StaysPut ==
  [][home # None /\ home' # None /\ home'.edges = home.edges
     /\ 2 * Cardinality(DOMAIN home.at \intersect DOMAIN home'.at) >= Cardinality(DOMAIN home'.at) =>
       \A p \in DOMAIN home.at \intersect DOMAIN home'.at : home'.at[p] = home.at[p]]_vars

\* When nothing happens any more the map comes to rest, on a canvas that works: nothing flies, nothing
\* is to be drawn, and what is shown is framed.
ComesToRest ==
  <>[](/\ ~map.dirty /\ map.pulses = {} /\ map.particles = {} /\ view.to = None /\ ~canvas.remount
       /\ (DOMAIN drawn.nodes # {} => ~map.fit))

=============================================================================
