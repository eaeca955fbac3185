---------------------------- MODULE MapViewProofs ----------------------------
(***************************************************************************)
(* Proofs about MapView: the picture that stays is the store's, and nodes  *)
(* stay put; for any snapshots, topologies and number of operations.       *)
(***************************************************************************)
EXTENDS MapView, FiniteSetTheorems, TLAPS

----------------------------------------------------------------------------
(* The invariant.                                                           *)

Spots == [of : PeerIds, by : Modes, settled : 0..3]
Keys == [ids : SUBSET (Nat \X PeerIds), edges : EdgeLists \union {{}}, mode : Modes]
Sights == [what : {"world", "nodes"}, nodes : SUBSET (Spots \union {None})]

\* The nodes of a snapshot, each once.
IsList(nodes) ==
    /\ nodes \in Seq(Nodes)
    /\ \A i, j \in DOMAIN nodes : nodes[i].id = nodes[j].id => i = j

StoreType ==
    /\ DOMAIN store = {"nodes", "mesh", "edges", "mode", "sel", "hover"}
    /\ IsList(store.nodes) /\ store.edges \in EdgeLists \union {{}} /\ store.mode \in Modes

MapShape == {"at", "index", "key", "inputs", "dirty", "fit", "prev", "last", "pulses", "particles",
             "observers", "land", "request", "memo"} = DOMAIN map

\* Every index has a place or none, also when the layout is out of date.
PlacesOk(m) ==
    /\ \A i \in DOMAIN m.at : m.at[i] \in Spots \union {None}
    /\ \A p \in DOMAIN m.index : m.index[p] \in DOMAIN m.at

\* The layout memory has force positions, each of the node it is kept for.
MemoryOk(memory) ==
    /\ DOMAIN memory.at \subseteq PeerIds /\ memory.settled \in 0..3
    /\ \A p \in DOMAIN memory.at : memory.at[p] \in [of : {p}, by : {"force"}, settled : 0..3]

\* Where a layout with this key puts a node.
SpotOf(key, memory, p) == IF key.mode = "force" THEN memory.at[p] ELSE Spot(p, key.mode, 0)

\* Positions and index fit the key of what they were computed for, and so does the memory: a node that was
\* shown has its index and its place, an index that was shown is of no other node, the others have no place.
LayoutOk(key, at, index, memory) ==
    /\ key \in Keys
    /\ \A e \in key.ids : /\ e[1] \in DOMAIN at /\ e[2] \in DOMAIN index /\ index[e[2]] = e[1]
                          /\ at[e[1]] = SpotOf(key, memory, e[2])
                          /\ key.mode = "force" => e[2] \in DOMAIN memory.at
    /\ \A i \in DOMAIN at : at[i] # None => <<i, at[i].of>> \in key.ids
    /\ \A p \in DOMAIN index : \A e \in key.ids : e[1] = index[p] => e[2] = p
    /\ key.mode = "force" /\ key.ids # {} =>
         memory.edges = key.edges /\ DOMAIN memory.at = {e[2] : e \in key.ids}

KeyInv ==
    /\ map.key # None => LayoutOk(map.key, map.at, map.index, placed)
    /\ map.inputs # None =>
         map.key = TopologyKey([nodes |-> map.inputs[1], edges |-> map.inputs[2], mode |-> map.inputs[3]])

\* The lines between the places that a layout gives the two ends.
LinesAt(at, pairs) ==
    LET spots == {at[i] : i \in DOMAIN at} \ {None}
    IN  {l \in spots \X spots : \E e \in pairs : l[1].of = e[1] /\ l[2].of = e[2]}

MemoInv == map.memo # None => map.memo.lines = LinesAt(map.memo.inputs[2], map.memo.inputs[1])

Shown == {n.id : n \in {x \in ToSet(store.nodes) : IsVisible(store.mode, x)}}

\* What DrawnWhereTheyBelong says of a frame.
Right ==
    /\ DOMAIN drawn.nodes = Shown
    /\ \A p \in DOMAIN drawn.nodes : drawn.nodes[p] = Where(p)
    /\ drawn.reticle = IF store.sel \in DOMAIN drawn.nodes THEN Where(store.sel) ELSE None
    /\ drawn.edges = {<<Where(e[1]), Where(e[2])>> : e \in {x \in store.edges : {x[1], x[2]} \subseteq DOMAIN drawn.nodes}}

DrawnInv == ~map.dirty => map.key = TopologyKey(store) /\ Right

\* The camera's sight of a whole layout.
WholeOf(key, at) ==
    IF key.mode = "geo" THEN Sight("world", {}) ELSE Sight("nodes", {at[e[1]] : e \in key.ids})

\* The camera frames the last layout, is on its way there, or is to be sent.
CameraOk(m, v, away) ==
    /\ v.to = None => v.known = v.at
    /\ m.key # None /\ m.key.ids # {} =>
         away \/ m.fit \/ (IF v.to = None THEN v.at ELSE v.to) = WholeOf(m.key, m.at)

\* What the force layout showed last is what it remembers.
HomeInv ==
    home # None => /\ DOMAIN home.at = DOMAIN placed.at /\ home.edges = placed.edges
                   /\ \A p \in DOMAIN home.at : home.at[p] = placed.at[p]

MapInv ==
    /\ StoreType /\ MapShape /\ PlacesOk(map) /\ MemoryOk(placed)
    /\ DOMAIN view = {"at", "to", "known"}
    /\ KeyInv /\ MemoInv /\ DrawnInv /\ CameraOk(map, view, moved) /\ HomeInv

----------------------------------------------------------------------------
(* Keys and layouts.                                                        *)

\* None is none of these.
LEMMA NoneApart == None \notin PeerIds /\ None \notin Spots /\ None \notin Keys /\ None \notin Sights
BY MapAssumption DEF Spots, Keys, Sights

LEMMA KeyOf ==
    ASSUME NEW s, IsList(s.nodes), s.edges \in EdgeLists \union {{}}, s.mode \in Modes
    PROVE  TopologyKey(s) \in Keys
<1>1. \A i \in DOMAIN s.nodes : i \in Nat /\ s.nodes[i] \in Nodes
    BY DEF IsList
<1>2. {<<i, s.nodes[i].id>> : i \in {j \in DOMAIN s.nodes : IsVisible(s.mode, s.nodes[j])}} \in SUBSET (Nat \X PeerIds)
    BY <1>1 DEF PeerIds
<1>3. QED
    BY <1>2 DEF TopologyKey, Keys

\* The index that is made of a list.
LEMMA IndexOfList ==
    ASSUME NEW nodes, IsList(nodes)
    PROVE  /\ DOMAIN IndexOf(nodes) = {n.id : n \in ToSet(nodes)}
           /\ \A p \in DOMAIN IndexOf(nodes) : /\ IndexOf(nodes)[p] \in DOMAIN nodes
                                               /\ nodes[IndexOf(nodes)[p]].id = p
           /\ \A i \in DOMAIN nodes : /\ nodes[i].id \in DOMAIN IndexOf(nodes)
                                      /\ IndexOf(nodes)[nodes[i].id] = i
<1>1. DOMAIN IndexOf(nodes) = {n.id : n \in ToSet(nodes)}
    BY DEF IndexOf
<1>2. ASSUME NEW p \in DOMAIN IndexOf(nodes)
      PROVE  IndexOf(nodes)[p] \in DOMAIN nodes /\ nodes[IndexOf(nodes)[p]].id = p
    <2>1. \E i \in DOMAIN nodes : nodes[i].id = p
        BY <1>1, <1>2 DEF ToSet
    <2>2. IndexOf(nodes)[p] = CHOOSE i \in DOMAIN nodes : nodes[i].id = p
        BY <1>1, <1>2 DEF IndexOf
    <2>3. QED
        BY <2>1, <2>2
<1>3. ASSUME NEW i \in DOMAIN nodes
      PROVE  nodes[i].id \in DOMAIN IndexOf(nodes) /\ IndexOf(nodes)[nodes[i].id] = i
    <2>1. nodes[i].id \in DOMAIN IndexOf(nodes)
        BY <1>1, <1>3 DEF ToSet
    <2>2. QED
        BY <1>2, <1>3, <2>1 DEF IsList
<1>4. QED
    BY <1>1, <1>2, <1>3

\* The nodes that are laid out by force are those that are shown then.
Simulated(s) == {n.id : n \in {x \in ToSet(s.nodes) : ~x.real}}

LEMMA PlaceKeeps ==
    ASSUME NEW s, IsList(s.nodes), NEW memory, MemoryOk(memory)
    PROVE  LET m == Place(s, memory)
           IN  /\ MemoryOk(m)
               /\ Simulated(s) = {} => m = memory
               /\ Simulated(s) # {} => DOMAIN m.at = Simulated(s) /\ m.edges = s.edges
<1> DEFINE ids == {n.id : n \in {x \in ToSet(s.nodes) : ~x.real}}
           known == ids \intersect DOMAIN memory.at
           cold == memory.edges # s.edges \/ 2 * Cardinality(known) < Cardinality(ids)
           kept == IF cold THEN {} ELSE known
           now == IF kept = ids THEN memory.settled ELSE (memory.settled + 1) % 4
           at == [p \in ids |-> IF p \in kept THEN memory.at[p] ELSE Spot(p, "force", now)]
<1>1. ids \subseteq PeerIds
    BY DEF IsList, ToSet, PeerIds
<1>2. now \in 0..3
    BY DEF MemoryOk
<1>3. kept \subseteq known
    OBVIOUS
<1>4. Place(s, memory) = IF ids = {} THEN memory ELSE [at |-> at, edges |-> s.edges, settled |-> now]
    BY DEF Place
<1> HIDE DEF ids, now, kept
<1>5. \A p \in ids : at[p] \in [of : {p}, by : {"force"}, settled : 0..3]
    BY <1>2, <1>3 DEF Spot, MemoryOk
<1>6. ids # {} => MemoryOk(Place(s, memory)) /\ DOMAIN Place(s, memory).at = ids /\ Place(s, memory).edges = s.edges
    BY <1>1, <1>2, <1>4, <1>5 DEF MemoryOk
<1>7. QED
    BY <1>4, <1>6 DEF ids, Simulated

\* A layout that was just computed fits its key.
LEMMA NewLayout ==
    ASSUME NEW s, IsList(s.nodes), s.edges \in EdgeLists \union {{}}, s.mode \in Modes,
           NEW memory, MemoryOk(memory),
           s.mode = "force" /\ Simulated(s) # {} => DOMAIN memory.at = Simulated(s) /\ memory.edges = s.edges
    PROVE  LayoutOk(TopologyKey(s), Positions(s, memory), IndexOf(s.nodes), memory)
<1> DEFINE key == TopologyKey(s)
           at == Positions(s, memory)
           index == IndexOf(s.nodes)
           visible == {j \in DOMAIN s.nodes : IsVisible(s.mode, s.nodes[j])}
<1>1. key \in Keys
    BY KeyOf
<1>2. key.ids = {<<i, s.nodes[i].id>> : i \in visible} /\ key.mode = s.mode /\ key.edges = s.edges
    BY DEF TopologyKey
<1>3. \A i \in DOMAIN s.nodes : i \in Nat /\ s.nodes[i] \in Nodes /\ s.nodes[i].id \in PeerIds /\ s.nodes[i].real \in BOOLEAN
    BY MapAssumption DEF IsList, PeerIds
<1>4. /\ DOMAIN at = DOMAIN s.nodes
      /\ \A i \in DOMAIN s.nodes :
            at[i] = IF ~IsVisible(s.mode, s.nodes[i]) THEN None
                    ELSE IF s.mode = "force" THEN memory.at[s.nodes[i].id] ELSE Spot(s.nodes[i].id, s.mode, 0)
    BY DEF Positions
<1>5. /\ \A p \in DOMAIN index : index[p] \in DOMAIN s.nodes /\ s.nodes[index[p]].id = p
      /\ \A i \in DOMAIN s.nodes : s.nodes[i].id \in DOMAIN index /\ index[s.nodes[i].id] = i
    BY IndexOfList
<1>6. s.mode = "force" => \A i \in DOMAIN s.nodes : IsVisible(s.mode, s.nodes[i]) <=> ~s.nodes[i].real
    BY <1>3 DEF IsVisible
<1>7. s.mode = "force" => {e[2] : e \in key.ids} = Simulated(s)
    <2> SUFFICES ASSUME s.mode = "force" PROVE {e[2] : e \in key.ids} = Simulated(s)
        OBVIOUS
    <2>1. {e[2] : e \in key.ids} = {s.nodes[i].id : i \in visible}
        <3>1. \A e \in key.ids : e[2] \in {s.nodes[i].id : i \in visible}
            BY <1>2
        <3>2. \A i \in visible : \E e \in key.ids : e[2] = s.nodes[i].id
            <4> SUFFICES ASSUME NEW i \in visible PROVE \E e \in key.ids : e[2] = s.nodes[i].id
                OBVIOUS
            <4>1. <<i, s.nodes[i].id>> \in key.ids
                BY <1>2
            <4>2. QED
                BY <4>1
        <3> HIDE DEF key, visible
        <3>3. QED
            BY <3>1, <3>2
    <2>2. {s.nodes[i].id : i \in visible} = Simulated(s)
        <3>1. visible = {j \in DOMAIN s.nodes : ~s.nodes[j].real}
            BY <1>6
        <3> HIDE DEF visible
        <3>2. \A i \in visible : s.nodes[i].id \in Simulated(s)
            BY <3>1 DEF Simulated, ToSet
        <3>3. \A p \in Simulated(s) : \E i \in visible : s.nodes[i].id = p
            BY <3>1 DEF Simulated, ToSet
        <3>4. QED
            BY <3>2, <3>3
    <2>3. QED
        BY <2>1, <2>2
<1>8. s.mode = "force" => \A i \in visible : s.nodes[i].id \in DOMAIN memory.at
    <2> SUFFICES ASSUME s.mode = "force", NEW i \in visible PROVE s.nodes[i].id \in DOMAIN memory.at
        OBVIOUS
    <2>1. s.nodes[i].id \in Simulated(s)
        BY <1>6 DEF Simulated, ToSet
    <2>2. QED
        BY <2>1
<1>9. \A i \in visible : at[i] = SpotOf(key, memory, s.nodes[i].id) /\ at[i].of = s.nodes[i].id
    <2> SUFFICES ASSUME NEW i \in visible
                 PROVE  at[i] = SpotOf(key, memory, s.nodes[i].id) /\ at[i].of = s.nodes[i].id
        OBVIOUS
    <2> DEFINE p == s.nodes[i].id
    <2>1. CASE s.mode = "force"
        <3>1. at[i] = memory.at[p] /\ p \in DOMAIN memory.at
            BY <1>4, <1>8, <2>1
        <3>2. memory.at[p].of = p
            BY <3>1 DEF MemoryOk
        <3>3. QED
            BY <1>2, <2>1, <3>1, <3>2 DEF SpotOf
    <2>2. CASE s.mode # "force"
        <3>1. at[i] = Spot(p, s.mode, 0)
            BY <1>4, <2>2
        <3>2. QED
            BY <1>2, <2>2, <3>1 DEF SpotOf, Spot
    <2>3. QED
        BY <2>1, <2>2
<1> HIDE DEF key, at, index
<1>10. \A e \in key.ids : /\ e[1] \in DOMAIN at /\ e[2] \in DOMAIN index /\ index[e[2]] = e[1]
                          /\ at[e[1]] = SpotOf(key, memory, e[2])
                          /\ key.mode = "force" => e[2] \in DOMAIN memory.at
    BY <1>2, <1>4, <1>5, <1>8, <1>9
<1>11. \A i \in DOMAIN at : at[i] # None => <<i, at[i].of>> \in key.ids
    BY <1>2, <1>4, <1>9
<1>12. \A p \in DOMAIN index : \A e \in key.ids : e[1] = index[p] => e[2] = p
    BY <1>2, <1>5
<1>13. key.mode = "force" /\ key.ids # {} =>
         memory.edges = key.edges /\ DOMAIN memory.at = {e[2] : e \in key.ids}
    BY <1>2, <1>7
<1>14. QED
    BY <1>1, <1>10, <1>11, <1>12, <1>13 DEF LayoutOk, key, at, index

\* With a layout that fits, what is shown is drawn where it belongs, and nothing else has a place.
LEMMA PlaceOfNode ==
    ASSUME NEW s, IsList(s.nodes), s.mode \in Modes,
           NEW m, NEW memory, MemoryOk(memory), m.key = TopologyKey(s), LayoutOk(m.key, m.at, m.index, memory)
    PROVE  LET shown == {n.id : n \in {x \in ToSet(s.nodes) : IsVisible(s.mode, x)}}
           IN  /\ \A p \in shown : /\ PosOf(s, m, p) = SpotOf(m.key, memory, p)
                                   /\ PosOf(s, m, p) # None /\ PosOf(s, m, p).of = p
                                   /\ PosOf(s, m, p) \in {m.at[i] : i \in DOMAIN m.at}
               /\ \A p : p \notin shown => PosOf(s, m, p) = None
<1> DEFINE shown == {n.id : n \in {x \in ToSet(s.nodes) : IsVisible(s.mode, x)}}
           visible == {j \in DOMAIN s.nodes : IsVisible(s.mode, s.nodes[j])}
<1>1. m.key.ids = {<<i, s.nodes[i].id>> : i \in visible} /\ m.key.mode = s.mode
    BY DEF TopologyKey
<1>2. \A i \in DOMAIN s.nodes : s.nodes[i] \in Nodes /\ s.nodes[i].id \in PeerIds
    BY DEF IsList, PeerIds
<1>3. ASSUME NEW p \in shown
      PROVE  /\ PosOf(s, m, p) = SpotOf(m.key, memory, p) /\ PosOf(s, m, p) # None
             /\ PosOf(s, m, p).of = p /\ PosOf(s, m, p) \in {m.at[i] : i \in DOMAIN m.at}
    <2>1. PICK i \in visible : s.nodes[i].id = p
        BY DEF ToSet
    <2>2. <<i, p>> \in m.key.ids
        BY <1>1, <2>1
    <2>3. /\ i \in DOMAIN m.at /\ p \in DOMAIN m.index /\ m.index[p] = i
          /\ m.at[i] = SpotOf(m.key, memory, p) /\ (m.key.mode = "force" => p \in DOMAIN memory.at)
        BY <2>2 DEF LayoutOk
    <2>4. p \in PeerIds
        BY <1>2, <2>1
    <2>5. SpotOf(m.key, memory, p) \in Spots /\ SpotOf(m.key, memory, p).of = p
        BY <1>1, <2>3, <2>4 DEF SpotOf, Spot, MemoryOk, Spots, Modes
    <2>6. PosOf(s, m, p) = m.at[i]
        BY <2>1, <2>3 DEF PosOf
    <2>7. QED
        BY <2>3, <2>5, <2>6, NoneApart
<1>4. ASSUME NEW p, PosOf(s, m, p) # None
      PROVE  p \in shown
    <2>1. /\ p \in DOMAIN m.index /\ m.index[p] \in visible
        BY <1>4 DEF PosOf
    <2>2. <<m.index[p], s.nodes[m.index[p]].id>> \in m.key.ids
        BY <1>1, <2>1
    <2>3. s.nodes[m.index[p]].id = p
        BY <2>1, <2>2 DEF LayoutOk
    <2>4. QED
        BY <2>1, <2>3 DEF ToSet
<1>5. QED
    BY <1>3, <1>4

\* The lines of such a layout do not depend on the list of nodes.
LEMMA LinesOfLayout ==
    ASSUME NEW s, IsList(s.nodes), s.mode \in Modes, NEW pairs,
           NEW m, NEW memory, MemoryOk(memory), m.key = TopologyKey(s), LayoutOk(m.key, m.at, m.index, memory)
    PROVE  Lines(s, m, pairs) = LinesAt(m.at, pairs)
<1> DEFINE shown == {n.id : n \in {x \in ToSet(s.nodes) : IsVisible(s.mode, x)}}
           spots == {m.at[i] : i \in DOMAIN m.at} \ {None}
<1>1. /\ \A p \in shown : PosOf(s, m, p) \in spots /\ PosOf(s, m, p).of = p
      /\ \A p : p \notin shown => PosOf(s, m, p) = None
    BY PlaceOfNode
<1>2. \A x \in spots : x.of \in shown /\ PosOf(s, m, x.of) = x
    <2> SUFFICES ASSUME NEW i \in DOMAIN m.at, m.at[i] # None
                 PROVE  m.at[i].of \in shown /\ PosOf(s, m, m.at[i].of) = m.at[i]
        OBVIOUS
    <2>1. <<i, m.at[i].of>> \in m.key.ids
        BY DEF LayoutOk
    <2>2. \E j \in DOMAIN s.nodes : IsVisible(s.mode, s.nodes[j]) /\ j = i /\ s.nodes[j].id = m.at[i].of
        BY <2>1 DEF TopologyKey
    <2>3. m.index[m.at[i].of] = i /\ m.at[i].of \in DOMAIN m.index
        BY <2>1 DEF LayoutOk
    <2>4. QED
        BY <2>2, <2>3 DEF PosOf, ToSet
<1> HIDE DEF shown, spots
<1>3. ASSUME NEW l \in Lines(s, m, pairs) PROVE l \in LinesAt(m.at, pairs)
    <2>1. PICK e \in pairs : /\ PosOf(s, m, e[1]) # None /\ PosOf(s, m, e[2]) # None
                             /\ l = <<PosOf(s, m, e[1]), PosOf(s, m, e[2])>>
        BY <1>3 DEF Lines
    <2>2. e[1] \in shown /\ e[2] \in shown
        BY <1>1, <2>1
    <2>3. QED
        BY <1>1, <2>1, <2>2 DEF LinesAt, spots
<1>4. ASSUME NEW l \in LinesAt(m.at, pairs) PROVE l \in Lines(s, m, pairs)
    <2>1. PICK e \in pairs : l \in spots \X spots /\ l[1].of = e[1] /\ l[2].of = e[2]
        BY <1>4 DEF LinesAt, spots
    <2>2. PosOf(s, m, e[1]) = l[1] /\ PosOf(s, m, e[2]) = l[2] /\ l = <<l[1], l[2]>>
        BY <1>2, <2>1
    <2>3. PosOf(s, m, e[1]) # None /\ PosOf(s, m, e[2]) # None
        BY <2>1, <2>2 DEF spots
    <2>4. QED
        BY <2>1, <2>2, <2>3 DEF Lines
<1>5. QED
    BY <1>3, <1>4

----------------------------------------------------------------------------
(* Steps that lay nothing out.                                              *)

\* What the layouts left in the module.
SameLayout(m, n) ==
    n.at = m.at /\ n.index = m.index /\ n.key = m.key /\ n.inputs = m.inputs /\ n.memo = m.memo

LEMMA Quiet ==
    ASSUME MapInv, StoreType', MapShape', SameLayout(map, map'), UNCHANGED <<placed, home>>,
           DOMAIN view' = {"at", "to", "known"}, CameraOk(map, view, moved)',
           ~map'.dirty => ~map.dirty /\ store' = store /\ drawn' = drawn
    PROVE  MapInv'
<1>1. MemoryOk(placed)' /\ HomeInv'
    BY DEF MapInv, MemoryOk, HomeInv
<1>2. KeyInv'
    BY DEF MapInv, KeyInv, SameLayout, LayoutOk, SpotOf
<1>3. MemoInv'
    BY DEF MapInv, MemoInv, SameLayout
<1>4. DrawnInv'
    BY DEF MapInv, DrawnInv, SameLayout, Right, Where, Shown
<1>5. PlacesOk(map)'
    BY DEF MapInv, PlacesOk, SameLayout
<1>6. QED
    BY <1>1, <1>2, <1>3, <1>4, <1>5 DEF MapInv

\* The module has forgotten its layout.
LEMMA Forgotten ==
    ASSUME MapInv, StoreType', MapShape', PlacesOk(map)', MemoryOk(placed)', HomeInv', map'.key = None, map'.inputs = None,
           map'.memo = map.memo, map'.dirty = TRUE,
           DOMAIN view' = {"at", "to", "known"}, view'.to = None => view'.known = view'.at
    PROVE  MapInv'
<1>1. KeyInv' /\ MemoInv' /\ DrawnInv' /\ CameraOk(map, view, moved)'
    BY DEF MapInv, KeyInv, MemoInv, DrawnInv, CameraOk
<1>2. QED
    BY <1>1 DEF MapInv

LEMMA StoredMap ==
    ASSUME MapInv, NEW s, Stored(s), DOMAIN s = {"nodes", "mesh", "edges", "mode", "sel", "hover"},
           IsList(s.nodes), s.edges \in EdgeLists \union {{}}, s.mode \in Modes
    PROVE  MapInv'
<1>1. store' = s /\ map' = [map EXCEPT !.dirty = TRUE] /\ UNCHANGED <<placed, view, drawn, moved, home>>
    BY DEF Stored
<1>2. StoreType'
    BY <1>1 DEF StoreType
<1>3. MapShape' /\ SameLayout(map, map') /\ map'.dirty = TRUE /\ map'.fit = map.fit
    BY <1>1 DEF MapInv, MapShape, SameLayout
<1>4. CameraOk(map, view, moved)' /\ DOMAIN view' = {"at", "to", "known"}
    BY <1>1, <1>3 DEF MapInv, CameraOk, SameLayout
<1>5. QED
    BY <1>1, <1>2, <1>3, <1>4, Quiet

LEMMA StoreChangeMap ==
    ASSUME MapInv,
           \/ \E scene \in Others : Snapshot(scene)
           \/ \E edges \in EdgeLists : Edges(edges)
           \/ \E mode \in Modes : SetLayoutMode(mode)
           \/ \E p \in DOMAIN drawn.nodes : Click(p)
           \/ \E p \in DOMAIN drawn.nodes \union {None} : Hover(p)
           \/ ClickField
    PROVE  MapInv'
<1> USE DEF MapInv
<1>1. CASE \E scene \in Others : Snapshot(scene)
    <2>1. PICK scene \in Others : Snapshot(scene)
        BY <1>1
    <2>2. IsList(scene.nodes)
        BY MapAssumption DEF Others, IsList
    <2>3. QED
        BY <2>1, <2>2, StoredMap DEF Snapshot, StoreType
<1>2. CASE \E edges \in EdgeLists : Edges(edges)
    BY <1>2, StoredMap DEF Edges, StoreType
<1>3. CASE \E mode \in Modes : SetLayoutMode(mode)
    BY <1>3, StoredMap DEF SetLayoutMode, StoreType
<1>4. CASE \E p \in DOMAIN drawn.nodes : Click(p)
    BY <1>4, StoredMap DEF Click, StoreType
<1>5. CASE \E p \in DOMAIN drawn.nodes \union {None} : Hover(p)
    BY <1>5, StoredMap DEF Hover, StoreType
<1>6. CASE ClickField
    BY <1>6, StoredMap DEF ClickField, StoreType
<1>7. QED
    BY <1>1, <1>2, <1>3, <1>4, <1>5, <1>6

LEMMA CanvasMap ==
    ASSUME MapInv, \/ LandLoads \/ LandFails \/ ContextLost \/ ContextRefused \/ Resize
                   \/ \E hop \in Hops : Message(hop)
    PROVE  MapInv'
<1>1. /\ UNCHANGED <<store, placed, view, drawn, moved, home>> /\ DOMAIN map' = DOMAIN map
      /\ SameLayout(map, map') /\ map'.fit = map.fit /\ (~map'.dirty => ~map.dirty)
    <2> USE DEF SameLayout, MapShape, MapInv, frontend
    <2>1. ASSUME NEW gen, NEW ok \in BOOLEAN, LandArrives(gen, ok) PROVE <1>1!:
        BY <2>1 DEF LandArrives
    <2>2. CASE LandLoads \/ LandFails
        BY <2>1, <2>2 DEF LandLoads, LandFails
    <2>3. CASE ContextLost \/ ContextRefused
        BY <2>3 DEF ContextLost, ContextRefused
    <2>4. CASE Resize
        BY <2>4 DEF Resize
    <2>5. CASE \E hop \in Hops : Message(hop)
        BY <2>5 DEF Message
    <2>6. QED
        BY <2>2, <2>3, <2>4, <2>5
<1>2. StoreType' /\ MapShape' /\ DOMAIN view' = {"at", "to", "known"}
    BY <1>1 DEF MapInv, StoreType, MapShape
<1>3. CameraOk(map, view, moved)'
    BY <1>1 DEF MapInv, CameraOk, SameLayout
<1>4. QED
    BY <1>1, <1>2, <1>3, Quiet

----------------------------------------------------------------------------
(* The camera.                                                              *)

LEMMA SightOfNodes ==
    ASSUME NEW s, NEW m, PlacesOk(m)
    PROVE  Fitted(s, m) \in Sights
<1> DEFINE J == {j \in DOMAIN s.nodes : /\ s.nodes[j].id \in DOMAIN m.index /\ m.index[s.nodes[j].id] = j
                                        /\ IsVisible(s.mode, s.nodes[j])}
<1>1. \A j \in J : m.at[j] \in Spots \union {None}
    BY DEF PlacesOk
<1>2. {m.at[j] : j \in J} \in SUBSET (Spots \union {None})
    BY <1>1
<1>3. Fitted(s, m) = IF s.mode = "geo" THEN Sight("world", {}) ELSE Sight("nodes", {m.at[j] : j \in J})
    BY DEF Fitted
<1> HIDE DEF J
<1>4. QED
    BY <1>2, <1>3 DEF Sights, Sight

\* When the layout is that of what is shown, a fit is to the whole of it.
LEMMA FitIsWhole ==
    ASSUME NEW s, IsList(s.nodes), NEW m, NEW memory, m.key = TopologyKey(s), LayoutOk(m.key, m.at, m.index, memory)
    PROVE  Fitted(s, m) = WholeOf(m.key, m.at)
<1> DEFINE J == {j \in DOMAIN s.nodes : /\ s.nodes[j].id \in DOMAIN m.index /\ m.index[s.nodes[j].id] = j
                                        /\ IsVisible(s.mode, s.nodes[j])}
           visible == {j \in DOMAIN s.nodes : IsVisible(s.mode, s.nodes[j])}
<1>1. m.key.ids = {<<i, s.nodes[i].id>> : i \in visible} /\ m.key.mode = s.mode
    BY DEF TopologyKey
<1>2. \A j \in visible : <<j, s.nodes[j].id>> \in m.key.ids
    BY <1>1
<1>3. \A j \in visible : j \in J
    <2> SUFFICES ASSUME NEW j \in visible PROVE j \in J
        OBVIOUS
    <2>1. <<j, s.nodes[j].id>> \in m.key.ids
        BY <1>2
    <2>2. s.nodes[j].id \in DOMAIN m.index /\ m.index[s.nodes[j].id] = j
        BY <2>1 DEF LayoutOk
    <2>3. QED
        BY <2>2
<1>4. J = visible
    BY <1>3
<1>5. Fitted(s, m) = IF s.mode = "geo" THEN Sight("world", {}) ELSE Sight("nodes", {m.at[j] : j \in J})
    BY DEF Fitted
<1> HIDE DEF J, visible
<1>6. {m.at[j] : j \in visible} = {m.at[e[1]] : e \in m.key.ids}
    <2>1. \A e \in m.key.ids : e[1] \in visible
        BY <1>1
    <2>2. \A j \in visible : \E e \in m.key.ids : e[1] = j
        <3> SUFFICES ASSUME NEW j \in visible PROVE \E e \in m.key.ids : e[1] = j
            OBVIOUS
        <3>1. QED
            BY <1>2
    <2>3. QED
        BY <2>1, <2>2
<1>7. QED
    BY <1>1, <1>4, <1>5, <1>6 DEF WholeOf

\* Where the camera is, or is to be, after a fit.
LEMMA AfterFit ==
    ASSUME DOMAIN view = {"at", "to", "known"}, PlacesOk(map), Fit(store, map)
    PROVE  /\ DOMAIN view' = {"at", "to", "known"}
           /\ view'.to = None => view'.known = view'.at
           /\ (IF view'.to = None THEN view'.at ELSE view'.to) = Fitted(store, map)
<1>1. Fitted(store, map) # None
    BY SightOfNodes, NoneApart
<1>2. QED
    BY <1>1 DEF Fit

LEMMA CameraMap ==
    ASSUME MapInv, DeckFrame \/ Pan \/ FitKey
    PROVE  MapInv'
<1>1. /\ UNCHANGED <<store, placed, home>> /\ DOMAIN map' = DOMAIN map
      /\ SameLayout(map, map') /\ map'.dirty = TRUE
    BY DEF DeckFrame, Pan, FitKey, SameLayout, MapInv, MapShape, frontend
<1>2. StoreType' /\ MapShape'
    BY <1>1 DEF MapInv, StoreType, MapShape
<1>3. CASE DeckFrame
    <2>1. DOMAIN view' = {"at", "to", "known"} /\ moved' = moved /\ map'.fit = map.fit
        BY <1>3 DEF DeckFrame, MapInv, MapShape
    <2>2. (view'.to = None => view'.known = view'.at) /\ (IF view'.to = None THEN view'.at ELSE view'.to) = view.to
        BY <1>3 DEF DeckFrame, MapInv
    <2>3. CameraOk(map, view, moved)'
        BY <1>1, <1>3, <2>1, <2>2 DEF CameraOk, MapInv, SameLayout, DeckFrame
    <2>4. QED
        BY <1>1, <1>2, <2>1, <2>3, Quiet
<1>4. CASE Pan
    <2>1. DOMAIN view' = {"at", "to", "known"} /\ CameraOk(map, view, moved)'
        BY <1>4 DEF Pan, CameraOk
    <2>2. QED
        BY <1>1, <1>2, <2>1, Quiet
<1>5. CASE FitKey
    <2>1. Fit(store, map) /\ moved' = (TopologyKey(store) # map.key)
        BY <1>5 DEF FitKey
    <2>2. /\ DOMAIN view' = {"at", "to", "known"} /\ (view'.to = None => view'.known = view'.at)
          /\ (IF view'.to = None THEN view'.at ELSE view'.to) = Fitted(store, map)
        BY <2>1, AfterFit DEF MapInv
    <2>3. ASSUME map.key # None, ~moved' PROVE Fitted(store, map) = WholeOf(map.key, map.at)
        BY <2>1, <2>3, FitIsWhole DEF MapInv, KeyInv, StoreType
    <2>4. CameraOk(map, view, moved)'
        BY <1>1, <2>2, <2>3 DEF CameraOk, SameLayout
    <2>5. QED
        BY <1>1, <1>2, <2>2, <2>4, Quiet
<1>6. QED
    BY <1>3, <1>4, <1>5

LEMMA RestartMap ==
    ASSUME MapInv, Remount \/ ResetTopology
    PROVE  MapInv'
<1>1. CASE Remount
    <2>1. /\ map' = [Loaded EXCEPT !.memo = map.memo] /\ view' = AtStart
          /\ UNCHANGED <<store, placed, home>>
        BY <1>1 DEF Remount, frontend
    <2>2. MapShape' /\ PlacesOk(map)' /\ map'.key = None /\ map'.inputs = None /\ map'.memo = map.memo /\ map'.dirty = TRUE
        BY <2>1 DEF Loaded, MapShape, PlacesOk
    <2>3. DOMAIN view' = {"at", "to", "known"} /\ view'.known = view'.at
        BY <2>1 DEF AtStart
    <2>4. StoreType' /\ MemoryOk(placed)' /\ HomeInv'
        BY <2>1 DEF MapInv, StoreType, MemoryOk, HomeInv
    <2>5. QED
        BY <2>2, <2>3, <2>4, Forgotten
<1>2. CASE ResetTopology
    <2>1. /\ map' = [map EXCEPT !.key = None, !.inputs = None, !.dirty = TRUE] /\ UNCHANGED <<store, view>>
          /\ placed' = ForgetLayout /\ home' = None
        BY <1>2 DEF ResetTopology
    <2>2. MapShape' /\ PlacesOk(map)' /\ map'.key = None /\ map'.inputs = None /\ map'.memo = map.memo /\ map'.dirty = TRUE
        BY <2>1 DEF MapInv, MapShape, PlacesOk
    <2>3. MemoryOk(placed)' /\ HomeInv'
        BY <2>1 DEF MapInv, MemoryOk, HomeInv, ForgetLayout
    <2>4. StoreType' /\ DOMAIN view' = {"at", "to", "known"} /\ (view'.to = None => view'.known = view'.at)
        BY <2>1 DEF MapInv, StoreType, CameraOk
    <2>5. QED
        BY <2>2, <2>3, <2>4, Forgotten
<1>3. QED
    BY <1>1, <1>2

----------------------------------------------------------------------------
(* The frame loop.                                                          *)

\* What a frame leaves in the module, and what it draws from.
LEMMA TickFields ==
    ASSUME MapShape, Tick
    PROVE  LET stale == Stale(store, map)
               fits == map.fit /\ CanFit(store, map)
               empty == ~\E n \in ToSet(store.nodes) : IsVisible(store.mode, n)
           IN  /\ MapShape' /\ ~map'.dirty
               /\ placed' = IF stale /\ store.mode = "force" THEN Place(store, placed) ELSE placed
               /\ IF fits THEN Fit(store, map) ELSE UNCHANGED view
               /\ moved' <=> moved /\ ~stale
               /\ map'.inputs = <<store.nodes, store.edges, store.mode>>
               /\ stale => /\ map'.at = Positions(store, placed') /\ map'.index = IndexOf(store.nodes)
                           /\ map'.key = TopologyKey(store) /\ map'.fit
               /\ ~stale => /\ map'.at = map.at /\ map'.index = map.index /\ map'.key = map.key
                            /\ (map'.fit <=> map.fit /\ ~fits)
               /\ \E m : /\ m.at = map'.at /\ m.index = map'.index /\ m.key = map'.key /\ m.memo = map.memo
                         /\ drawn' = IF empty THEN Blank ELSE Picture(store, m)
                         /\ map'.memo = IF empty THEN map.memo ELSE Memoised(store, m)
               /\ home' = IF store.mode = "force" /\ DOMAIN drawn'.nodes # {}
                          THEN [at |-> drawn'.nodes, edges |-> store.edges] ELSE home
               /\ UNCHANGED store
<1> DEFINE fits == map.fit /\ CanFit(store, map)
           now == [map EXCEPT !.fit = @ /\ ~fits, !.dirty = @ \/ fits,
                              !.particles = Older(@), !.pulses = Older(@)]
           stale == Stale(store, now)
           memory == IF stale /\ store.mode = "force" THEN Place(store, placed) ELSE placed
           l == LaidOut(store, now, memory)
           m == Pulsing(store, l)
           empty == ~\E n \in ToSet(store.nodes) : IsVisible(store.mode, n)
<1>1. /\ placed' = memory /\ (IF fits THEN Fit(store, map) ELSE UNCHANGED view) /\ Draw(store, m)
      /\ moved' = (moved /\ ~stale) /\ UNCHANGED store
      /\ home' = IF store.mode = "force" /\ DOMAIN drawn'.nodes # {}
                 THEN [at |-> drawn'.nodes, edges |-> store.edges] ELSE home
    BY DEF Tick
<1>2. /\ DOMAIN now = DOMAIN map /\ now.at = map.at /\ now.index = map.index /\ now.key = map.key
      /\ now.inputs = map.inputs /\ now.memo = map.memo /\ (now.fit <=> map.fit /\ ~fits)
    BY DEF MapShape
<1>3. stale <=> Stale(store, map)
    BY <1>2 DEF Stale
<1> HIDE DEF now
<1>4. /\ DOMAIN l = DOMAIN map /\ l.inputs = <<store.nodes, store.edges, store.mode>> /\ l.memo = map.memo
      /\ stale => /\ l.at = Positions(store, memory) /\ l.index = IndexOf(store.nodes)
                  /\ l.key = TopologyKey(store) /\ l.fit = TRUE
      /\ ~stale => l.at = map.at /\ l.index = map.index /\ l.key = map.key /\ l.fit = now.fit
    BY <1>2 DEF LaidOut, MapShape
<1> HIDE DEF l
<1>5. /\ DOMAIN m = DOMAIN map /\ m.inputs = l.inputs /\ m.memo = l.memo
      /\ m.at = l.at /\ m.index = l.index /\ m.key = l.key /\ m.fit = l.fit
    BY <1>4 DEF Pulsing, MapShape
<1> HIDE DEF m
<1>6. /\ DOMAIN map' = DOMAIN map /\ map'.dirty = FALSE /\ map'.inputs = m.inputs
      /\ map'.at = m.at /\ map'.index = m.index /\ map'.key = m.key /\ map'.fit = m.fit
      /\ map'.memo = (IF empty THEN m.memo ELSE Memoised(store, m))
      /\ drawn' = (IF empty THEN Blank ELSE Picture(store, m))
    BY <1>1, <1>5 DEF Draw, MapShape
<1> HIDE DEF stale, empty, memory
<1>7. /\ m.at = map'.at /\ m.index = map'.index /\ m.key = map'.key /\ m.memo = map.memo
    BY <1>4, <1>5, <1>6
<1>8. PICK n : n = m
    OBVIOUS
<1>9. \E x : /\ x.at = map'.at /\ x.index = map'.index /\ x.key = map'.key /\ x.memo = map.memo
             /\ drawn' = (IF empty THEN Blank ELSE Picture(store, x))
             /\ map'.memo = (IF empty THEN map.memo ELSE Memoised(store, x))
    BY <1>6, <1>7, <1>8
<1>10. MapShape'
    BY <1>6 DEF MapShape
<1>11. /\ map'.inputs = <<store.nodes, store.edges, store.mode>>
       /\ stale => /\ map'.at = Positions(store, placed') /\ map'.index = IndexOf(store.nodes)
                   /\ map'.key = TopologyKey(store) /\ map'.fit
       /\ ~stale => /\ map'.at = map.at /\ map'.index = map.index /\ map'.key = map.key
                    /\ (map'.fit <=> map.fit /\ ~fits)
    BY <1>1, <1>2, <1>4, <1>5, <1>6
<1>12. placed' = (IF Stale(store, map) /\ store.mode = "force" THEN Place(store, placed) ELSE placed)
    BY <1>1, <1>3 DEF memory
<1>13. (moved' <=> moved /\ ~Stale(store, map)) /\ ~map'.dirty
    BY <1>1, <1>3, <1>6
<1>14. QED
    BY <1>1, <1>3, <1>9, <1>10, <1>11, <1>12, <1>13 DEF empty

\* A frame leaves a layout of what is in the store.
LEMMA TickLayout ==
    ASSUME MapInv, Tick
    PROVE  /\ StoreType' /\ MemoryOk(placed)' /\ PlacesOk(map)' /\ KeyInv'
           /\ map'.key = TopologyKey(store') /\ LayoutOk(map'.key, map'.at, map'.index, placed')
<1> USE DEF MapInv
<1>1. StoreType' /\ IsList(store.nodes) /\ TopologyKey(store) \in Keys /\ UNCHANGED store
    BY TickFields, KeyOf DEF StoreType
<1>2. CASE Stale(store, map)
    <2>1. /\ placed' = IF store.mode = "force" THEN Place(store, placed) ELSE placed
          /\ map'.at = Positions(store, placed') /\ map'.index = IndexOf(store.nodes)
          /\ map'.key = TopologyKey(store)
        BY <1>2, TickFields
    <2>2. /\ MemoryOk(placed')
          /\ store.mode = "force" /\ Simulated(store) # {} =>
               DOMAIN placed'.at = Simulated(store) /\ placed'.edges = store.edges
        BY <1>1, <2>1, PlaceKeeps
    <2>3. LayoutOk(TopologyKey(store), Positions(store, placed'), IndexOf(store.nodes), placed')
        BY <1>1, <2>2, NewLayout DEF StoreType
    <2>4. \A p \in DOMAIN map'.index : map'.index[p] \in DOMAIN map'.at
        BY <1>1, <2>1, IndexOfList DEF Positions
    <2>5. \A i \in DOMAIN map'.at : map'.at[i] \in Spots \union {None}
        <3> SUFFICES ASSUME NEW i \in DOMAIN map'.at, map'.at[i] # None PROVE map'.at[i] \in Spots
            OBVIOUS
        <3>1. PICK e \in map'.key.ids : e[1] = i /\ e[2] \in PeerIds
            <4>1. <<i, map'.at[i].of>> \in map'.key.ids /\ map'.key \in Keys
                BY <2>1, <2>3 DEF LayoutOk
            <4>2. QED
                BY <4>1 DEF Keys
        <3>2. map'.at[i] = SpotOf(map'.key, placed', e[2]) /\ map'.key.mode \in Modes
              /\ (map'.key.mode = "force" => e[2] \in DOMAIN placed'.at)
            BY <2>1, <2>3, <3>1 DEF LayoutOk, Keys
        <3>3. QED
            BY <2>2, <3>1, <3>2 DEF SpotOf, Spot, Spots, MemoryOk, Modes
    <2>6. QED
        BY <1>1, <2>1, <2>2, <2>3, <2>4, <2>5, TickFields DEF PlacesOk, KeyInv, TopologyKey
<1>3. CASE ~Stale(store, map)
    <2>1. /\ placed' = placed /\ map'.at = map.at /\ map'.index = map.index /\ map'.key = map.key
          /\ map'.inputs = <<store.nodes, store.edges, store.mode>>
        BY <1>3, TickFields
    <2>2. map.key = TopologyKey(store)
        <3>1. CASE map.key = TopologyKey(store)
            BY <3>1
        <3>2. CASE <<store.nodes, store.edges, store.mode>> = map.inputs
            <4>1. map.inputs # None
                <5>1. <<store.nodes, store.edges, store.mode>> \in Seq(Nodes) \X (EdgeLists \union {{}}) \X Modes
                    BY DEF StoreType, IsList
                <5>2. None \notin Seq(Nodes) \X (EdgeLists \union {{}}) \X Modes
                    BY MapAssumption
                <5>3. QED
                    BY <3>2, <5>1, <5>2
            <4>2. map.inputs[1] = store.nodes /\ map.inputs[2] = store.edges /\ map.inputs[3] = store.mode
                BY <3>2
            <4>3. QED
                BY <4>1, <4>2 DEF KeyInv, TopologyKey
        <3>3. QED
            BY <1>3, <3>1, <3>2 DEF Stale
    <2>3. LayoutOk(map.key, map.at, map.index, placed)
        BY <1>1, <2>2, NoneApart DEF KeyInv
    <2>4. QED
        BY <1>1, <2>1, <2>2, <2>3 DEF PlacesOk, MemoryOk, KeyInv, TopologyKey
<1>4. QED
    BY <1>2, <1>3

\* A frame draws what is in the store, from the memo of lines or anew.
LEMMA TickDraws ==
    ASSUME MapInv, Tick
    PROVE  MemoInv' /\ Right'
<1> DEFINE empty == ~\E n \in ToSet(store.nodes) : IsVisible(store.mode, n)
<1>1. PICK x : /\ x.at = map'.at /\ x.index = map'.index /\ x.key = map'.key /\ x.memo = map.memo
               /\ drawn' = (IF empty THEN Blank ELSE Picture(store, x))
               /\ map'.memo = (IF empty THEN map.memo ELSE Memoised(store, x))
    BY TickFields DEF MapInv
<1>2. /\ UNCHANGED store /\ IsList(store.nodes) /\ store.mode \in Modes /\ MemoryOk(placed') /\ x.key = TopologyKey(store)
      /\ LayoutOk(x.key, x.at, x.index, placed') /\ x.key.mode = store.mode
    BY <1>1, TickFields, TickLayout DEF MapInv, StoreType, TopologyKey
<1>3. \A pairs : Lines(store, x, pairs) = LinesAt(x.at, pairs)
    BY <1>2, LinesOfLayout
<1>4. MemoInv /\ (map.memo # None => map.memo.lines = LinesAt(map.memo.inputs[2], map.memo.inputs[1]))
    BY DEF MapInv, MemoInv
<1>5. Memoised(store, x).lines = LinesAt(x.at, store.edges)
    BY <1>1, <1>3, <1>4 DEF Memoised, EdgeInputs
<1>6. MemoInv'
    <2>1. CASE empty
        BY <1>1, <1>4, <2>1 DEF MemoInv
    <2>2. CASE ~empty
        <3>1. map'.memo = map.memo \/ map'.memo = [inputs |-> EdgeInputs(store, x), lines |-> LinesAt(x.at, store.edges)]
            BY <1>1, <1>3, <2>2 DEF Memoised
        <3>2. QED
            BY <1>4, <3>1 DEF MemoInv, EdgeInputs
    <2>3. QED
        BY <2>1, <2>2
<1>7. /\ \A p \in Shown : PosOf(store, x, p) = SpotOf(x.key, placed', p) /\ PosOf(store, x, p) # None
      /\ \A p : p \notin Shown => PosOf(store, x, p) = None
    BY <1>2, PlaceOfNode DEF Shown
<1>8. Shown \subseteq PeerIds /\ Shown' = Shown
    BY <1>2 DEF Shown, IsList, ToSet, PeerIds
<1>9. \A p : Where(p)' = SpotOf(x.key, placed', p)
    BY <1>2 DEF Where, SpotOf
<1>10. Right'
    <2>1. CASE empty
        <3>1. Shown = {} /\ drawn' = Blank
            BY <1>1, <2>1 DEF Shown
        <3>2. DOMAIN drawn'.nodes = {} /\ drawn'.reticle = None /\ drawn'.edges = {}
            BY <3>1 DEF Blank
        <3>3. QED
            BY <1>8, <3>1, <3>2 DEF Right
    <2>2. CASE ~empty
        <3>1. /\ drawn'.nodes = [p \in Shown |-> PosOf(store, x, p)]
              /\ drawn'.reticle = (IF store.sel = None THEN None ELSE PosOf(store, x, store.sel))
              /\ drawn'.edges = LinesAt(x.at, store.edges)
            BY <1>1, <1>5, <2>2 DEF Picture, Shown
        <3>2. drawn'.reticle = (IF store.sel \in Shown THEN Where(store.sel)' ELSE None)
            BY <1>2, <1>7, <1>8, <1>9, <3>1, NoneApart
        <3>3. drawn'.edges = {<<PosOf(store, x, e[1]), PosOf(store, x, e[2])>> :
                   e \in {y \in store.edges : PosOf(store, x, y[1]) # None /\ PosOf(store, x, y[2]) # None}}
            BY <1>3, <3>1 DEF Lines
        <3>4. {y \in store.edges : PosOf(store, x, y[1]) # None /\ PosOf(store, x, y[2]) # None}
                 = {y \in store.edges : {y[1], y[2]} \subseteq Shown}
            BY <1>7
        <3>5. \A e \in {y \in store.edges : {y[1], y[2]} \subseteq Shown} :
                 PosOf(store, x, e[1]) = Where(e[1])' /\ PosOf(store, x, e[2]) = Where(e[2])'
            BY <1>7, <1>9
        <3>6. drawn'.edges = {<<Where(e[1])', Where(e[2])'>> : e \in {y \in store.edges : {y[1], y[2]} \subseteq Shown}}
            BY <3>3, <3>4, <3>5
        <3>7. DOMAIN drawn'.nodes = Shown /\ \A p \in Shown : drawn'.nodes[p] = Where(p)'
            BY <1>7, <1>9, <3>1
        <3>8. QED
            BY <1>2, <1>8, <3>2, <3>6, <3>7 DEF Right
    <2>3. QED
        BY <2>1, <2>2
<1>11. QED
    BY <1>6, <1>10

\* The camera after a frame.
LEMMA TickCamera ==
    ASSUME MapInv, Tick
    PROVE  DOMAIN view' = {"at", "to", "known"} /\ CameraOk(map, view, moved)'
<1> DEFINE fits == map.fit /\ CanFit(store, map)
<1>1. /\ MapShape /\ (IF fits THEN Fit(store, map) ELSE UNCHANGED view) /\ (moved' <=> moved /\ ~Stale(store, map))
      /\ Stale(store, map) => map'.fit
      /\ ~Stale(store, map) => /\ map'.at = map.at /\ map'.index = map.index /\ map'.key = map.key
                               /\ (map'.fit <=> map.fit /\ ~fits)
    BY TickFields DEF MapInv
<1>2. fits => /\ DOMAIN view' = {"at", "to", "known"} /\ (view'.to = None => view'.known = view'.at)
              /\ (IF view'.to = None THEN view'.at ELSE view'.to) = Fitted(store, map)
    BY <1>1, AfterFit DEF MapInv
<1>3. DOMAIN view' = {"at", "to", "known"} /\ (view'.to = None => view'.known = view'.at)
    BY <1>1, <1>2 DEF MapInv, CameraOk
<1>4. CASE Stale(store, map)
    BY <1>1, <1>3, <1>4 DEF CameraOk
<1>5. CASE ~Stale(store, map) /\ fits
    <2>1. map.key = TopologyKey(store) /\ LayoutOk(map.key, map.at, map.index, placed') /\ IsList(store.nodes)
        BY <1>1, <1>5, TickLayout, TickFields DEF MapInv, StoreType
    <2>2. Fitted(store, map) = WholeOf(map.key, map.at)
        BY <2>1, FitIsWhole
    <2>3. QED
        BY <1>1, <1>2, <1>3, <1>5, <2>2 DEF CameraOk
<1>6. CASE ~Stale(store, map) /\ ~fits
    BY <1>1, <1>3, <1>6 DEF CameraOk, MapInv
<1>7. QED
    BY <1>4, <1>5, <1>6

\* Of a topology that it knows the layout of, the memory moves nobody it has.
LEMMA WarmPlace ==
    ASSUME NEW s, IsList(s.nodes), NEW memory, memory.edges = s.edges, Simulated(s) # {},
           2 * Cardinality(Simulated(s) \intersect DOMAIN memory.at) >= Cardinality(Simulated(s))
    PROVE  \A p \in Simulated(s) \intersect DOMAIN memory.at : Place(s, memory).at[p] = memory.at[p]
<1>1. IsFiniteSet(Simulated(s))
    <2>1. PICK n \in Nat : DOMAIN s.nodes = 1..n
        BY DEF IsList
    <2>2. IsFiniteSet(DOMAIN s.nodes)
        BY <2>1, FS_Interval
    <2>3. IsFiniteSet({i \in DOMAIN s.nodes : ~s.nodes[i].real})
        BY <2>2, FS_Subset
    <2> DEFINE D == {i \in DOMAIN s.nodes : ~s.nodes[i].real}
               f == [i \in D |-> s.nodes[i].id]
    <2>4. f \in Surjection(D, Simulated(s))
        <3>1. \A i \in D : f[i] \in Simulated(s)
            BY DEF Simulated, ToSet
        <3>2. \A p \in Simulated(s) : \E i \in D : f[i] = p
            BY DEF Simulated, ToSet
        <3> HIDE DEF D
        <3>3. QED
            BY <3>1, <3>2 DEF Surjection
    <2>5. QED
        BY <2>3, <2>4, FS_Surjection
<1>2. /\ Cardinality(Simulated(s)) \in Nat /\ Cardinality(Simulated(s) \intersect DOMAIN memory.at) \in Nat
    <2>1. IsFiniteSet(Simulated(s) \intersect DOMAIN memory.at)
        BY <1>1, FS_Subset
    <2>2. QED
        BY <1>1, <2>1, FS_CardinalityType
<1>3. ~(2 * Cardinality(Simulated(s) \intersect DOMAIN memory.at) < Cardinality(Simulated(s)))
    BY <1>2
<1> DEFINE ids == {n.id : n \in {x \in ToSet(s.nodes) : ~x.real}}
           known == ids \intersect DOMAIN memory.at
           cold == memory.edges # s.edges \/ 2 * Cardinality(known) < Cardinality(ids)
           kept == IF cold THEN {} ELSE known
           now == IF kept = ids THEN memory.settled ELSE (memory.settled + 1) % 4
<1>4. ids = Simulated(s) /\ ~cold /\ kept = known
    BY <1>3 DEF Simulated
<1>5. Place(s, memory) = IF ids = {} THEN memory
            ELSE [at |-> [p \in ids |-> IF p \in kept THEN memory.at[p] ELSE Spot(p, "force", now)],
                  edges |-> s.edges, settled |-> now]
    BY DEF Place
<1> HIDE DEF now, kept, cold, ids
<1>6. QED
    BY <1>4, <1>5

\* What the force layout shows after a frame, and where it was before.
LEMMA TickHome ==
    ASSUME MapInv, Tick
    PROVE  /\ HomeInv'
           /\ home # None /\ home' # None /\ home'.edges = home.edges
              /\ 2 * Cardinality(DOMAIN home.at \intersect DOMAIN home'.at) >= Cardinality(DOMAIN home'.at) =>
                \A p \in DOMAIN home.at \intersect DOMAIN home'.at : home'.at[p] = home.at[p]
<1>1. /\ UNCHANGED store /\ IsList(store.nodes) /\ MemoryOk(placed) /\ HomeInv /\ Right'
      /\ placed' = (IF Stale(store, map) /\ store.mode = "force" THEN Place(store, placed) ELSE placed)
      /\ home' = (IF store.mode = "force" /\ DOMAIN drawn'.nodes # {}
                  THEN [at |-> drawn'.nodes, edges |-> store.edges] ELSE home)
      /\ map'.key = TopologyKey(store) /\ LayoutOk(map'.key, map'.at, map'.index, placed')
    BY TickFields, TickLayout, TickDraws DEF MapInv, StoreType
<1>2. store.mode = "force" => Shown = Simulated(store) /\ DOMAIN drawn'.nodes = Simulated(store)
    <2>1. \A n \in ToSet(store.nodes) : n.real \in BOOLEAN
        BY <1>1, MapAssumption DEF IsList, ToSet
    <2>2. store.mode = "force" => \A n \in ToSet(store.nodes) : IsVisible(store.mode, n) <=> ~n.real
        BY <2>1 DEF IsVisible
    <2>3. store.mode = "force" => Shown = Simulated(store)
        BY <2>2 DEF Shown, Simulated
    <2>4. Shown' = Shown
        BY <1>1 DEF Shown
    <2>5. QED
        BY <1>1, <2>3, <2>4 DEF Right
<1>3. CASE store.mode = "force" /\ Simulated(store) # {}
    <2>1. home' = [at |-> drawn'.nodes, edges |-> store.edges]
        BY <1>1, <1>2, <1>3
    <2>2. map'.key.ids # {} /\ map'.key.mode = "force" /\ map'.key.edges = store.edges
        <3>1. \E i \in DOMAIN store.nodes : IsVisible(store.mode, store.nodes[i])
            BY <1>2, <1>3 DEF Shown, ToSet
        <3>2. PICK i \in DOMAIN store.nodes : <<i, store.nodes[i].id>> \in map'.key.ids
            BY <1>1, <3>1 DEF TopologyKey
        <3>3. map'.key.mode = store.mode /\ map'.key.edges = store.edges
            BY <1>1 DEF TopologyKey
        <3>4. QED
            BY <1>3, <3>2, <3>3
    <2>3. placed'.edges = store.edges /\ DOMAIN placed'.at = Simulated(store)
        <3>1. placed'.edges = store.edges /\ DOMAIN placed'.at = {e[2] : e \in map'.key.ids}
            BY <1>1, <2>2 DEF LayoutOk
        <3>2. {e[2] : e \in map'.key.ids} = Shown
            <4>1. \A e \in map'.key.ids : e[2] \in Shown
                BY <1>1 DEF TopologyKey, Shown, ToSet
            <4>2. \A p \in Shown : \E e \in map'.key.ids : e[2] = p
                <5> SUFFICES ASSUME NEW p \in Shown PROVE \E e \in map'.key.ids : e[2] = p
                    OBVIOUS
                <5>1. PICK i \in DOMAIN store.nodes : IsVisible(store.mode, store.nodes[i]) /\ store.nodes[i].id = p
                    BY DEF Shown, ToSet
                <5>2. <<i, p>> \in map'.key.ids
                    BY <1>1, <5>1 DEF TopologyKey
                <5>3. QED
                    BY <5>2
            <4>3. QED
                BY <4>1, <4>2
        <3>3. QED
            BY <1>2, <1>3, <3>1, <3>2
    <2>4. \A p \in Simulated(store) : drawn'.nodes[p] = placed'.at[p]
        BY <1>1, <1>2, <1>3 DEF Right, Where
    <2>5. HomeInv'
        BY <1>2, <1>3, <2>1, <2>3, <2>4 DEF HomeInv
    <2>6. ASSUME home # None, home'.edges = home.edges,
                 2 * Cardinality(DOMAIN home.at \intersect DOMAIN home'.at) >= Cardinality(DOMAIN home'.at),
                 NEW p \in DOMAIN home.at \intersect DOMAIN home'.at
          PROVE  home'.at[p] = home.at[p]
        <3>1. DOMAIN home.at = DOMAIN placed.at /\ placed.edges = store.edges /\ home.at[p] = placed.at[p]
            BY <1>1, <2>1, <2>6 DEF HomeInv
        <3>2. DOMAIN home'.at = Simulated(store) /\ home'.at[p] = placed'.at[p]
            BY <1>2, <1>3, <2>1, <2>4, <2>6
        <3>3. DOMAIN home.at \intersect DOMAIN home'.at = Simulated(store) \intersect DOMAIN placed.at
            BY <3>1, <3>2
        <3>4. placed'.at[p] = placed.at[p]
            BY <1>1, <1>3, <2>6, <3>1, <3>2, <3>3, WarmPlace
        <3>5. QED
            BY <3>1, <3>2, <3>4
    <2>7. QED
        BY <2>5, <2>6
<1>4. CASE ~(store.mode = "force" /\ Simulated(store) # {})
    <2>1. home' = home /\ placed' = placed
        BY <1>1, <1>2, <1>4, PlaceKeeps
    <2>2. QED
        BY <1>1, <2>1 DEF HomeInv
<1>5. QED
    BY <1>3, <1>4

----------------------------------------------------------------------------
(* The theorems.                                                            *)

LEMMA MapStart == Init => MapInv
<1> SUFFICES ASSUME Init PROVE MapInv
    OBVIOUS
<1>1. StoreType /\ MapShape /\ PlacesOk(map) /\ DOMAIN view = {"at", "to", "known"}
    <2>1. IsList(<<>>)
        BY DEF IsList
    <2>2. StoreType
        BY <2>1 DEF Init, StoreType, Modes
    <2>3. QED
        BY <2>2 DEF Init, MapShape, PlacesOk, Loaded, AtStart
<1>2. MemoryOk(placed)
    BY DEF Init, MemoryOk
<1>3. KeyInv /\ MemoInv /\ DrawnInv /\ CameraOk(map, view, moved) /\ HomeInv
    BY DEF Init, Loaded, AtStart, KeyInv, MemoInv, DrawnInv, CameraOk, HomeInv
<1>4. QED
    BY <1>1, <1>2, <1>3 DEF MapInv

LEMMA TickMap ==
    ASSUME MapInv, Tick
    PROVE  MapInv'
<1>1. DrawnInv'
    BY TickLayout, TickDraws DEF DrawnInv
<1>2. QED
    BY <1>1, TickFields, TickLayout, TickDraws, TickCamera, TickHome DEF MapInv

LEMMA MapStep == MapInv /\ [Next]_vars => MapInv'
<1> SUFFICES ASSUME MapInv, [Next]_vars PROVE MapInv'
    OBVIOUS
<1>1. CASE UNCHANGED vars
    BY <1>1 DEF vars, frontend, MapInv, StoreType, MapShape, PlacesOk, MemoryOk, KeyInv, MemoInv, DrawnInv, Right, Where,
                Shown, CameraOk, HomeInv
<1>2. CASE System
    BY <1>2, CanvasMap, RestartMap, CameraMap, TickMap DEF System
<1>3. CASE Environment
    BY <1>3, StoreChangeMap, CanvasMap, RestartMap, CameraMap DEF Environment
<1>4. QED
    BY <1>1, <1>2, <1>3 DEF Next

LEMMA MapInvHolds == Spec => []MapInv
BY MapStart, MapStep, PTL DEF Spec

\* Whatever is stored, selected, resized, lost and moved between two frames: the frame after which nothing is to be
\* drawn shows each node that the layout is of at its own place, and the camera frames them (renderer.ts).
THEOREM PictureStaysRight == Spec => []PictureIsRight
<1>1. MapInv => PictureIsRight
    <2> SUFFICES ASSUME MapInv PROVE PictureIsRight
        OBVIOUS
    <2>1. DrawnWhereTheyBelong
        BY DEF MapInv, DrawnInv, DrawnWhereTheyBelong, Right, Shown
    <2>2. ASSUME ~map.dirty, ~map.fit, view.to = None, DOMAIN drawn.nodes # {}, ~moved
          PROVE  view.at = IF store.mode = "geo" THEN Sight("world", {})
                           ELSE Sight("nodes", {drawn.nodes[p] : p \in DOMAIN drawn.nodes})
        <3>1. /\ map.key = TopologyKey(store) /\ Right /\ IsList(store.nodes) /\ map.key.mode = store.mode
            BY <2>2 DEF MapInv, DrawnInv, StoreType, TopologyKey
        <3>2. map.key \in Keys /\ LayoutOk(map.key, map.at, map.index, placed)
            BY <3>1, KeyOf, NoneApart DEF MapInv, KeyInv, StoreType
        <3>3. \A e \in map.key.ids : e[2] \in Shown /\ map.at[e[1]] = Where(e[2])
            BY <3>1, <3>2 DEF LayoutOk, TopologyKey, Shown, ToSet, SpotOf, Where
        <3>4. \A p \in Shown : \E e \in map.key.ids : e[2] = p
            <4> SUFFICES ASSUME NEW p \in Shown PROVE \E e \in map.key.ids : e[2] = p
                OBVIOUS
            <4>1. PICK i \in DOMAIN store.nodes : IsVisible(store.mode, store.nodes[i]) /\ store.nodes[i].id = p
                BY DEF Shown, ToSet
            <4>2. <<i, p>> \in map.key.ids
                BY <3>1, <4>1 DEF TopologyKey
            <4>3. QED
                BY <4>2
        <3>5. DOMAIN drawn.nodes = Shown /\ \A p \in Shown : drawn.nodes[p] = Where(p)
            BY <3>1 DEF Right
        <3>6. {map.at[e[1]] : e \in map.key.ids} = {drawn.nodes[p] : p \in DOMAIN drawn.nodes}
            BY <3>3, <3>4, <3>5
        <3>7. map.key # None /\ map.key.ids # {}
            BY <2>2, <3>2, <3>4, <3>5, NoneApart
        <3>8. view.at = WholeOf(map.key, map.at)
            BY <2>2, <3>7 DEF MapInv, CameraOk
        <3>9. QED
            BY <3>1, <3>6, <3>8 DEF WholeOf
    <2>3. Framed
        BY <2>2 DEF Framed, MapInv, CameraOk
    <2>4. QED
        BY <2>1, <2>3 DEF PictureIsRight
<1>2. QED
    BY <1>1, MapInvHolds, PTL

\* On a topology of which it knows half of the nodes the force layout moves none of those: not for a new attacker, nor
\* after another layout or a lost context (layout.ts, layoutForce).
THEOREM NodesStayPut == Spec => StaysPut
<1> DEFINE Stays == home # None /\ home' # None /\ home'.edges = home.edges
                    /\ 2 * Cardinality(DOMAIN home.at \intersect DOMAIN home'.at) >= Cardinality(DOMAIN home'.at) =>
                      \A p \in DOMAIN home.at \intersect DOMAIN home'.at : home'.at[p] = home.at[p]
<1>1. MapInv /\ [Next]_vars => [Stays]_vars
    <2> SUFFICES ASSUME MapInv, Next PROVE Stays
        OBVIOUS
    <2>1. CASE Tick
        BY <2>1, TickHome
    <2>2. CASE ResetTopology
        BY <2>2 DEF ResetTopology
    <2>3. CASE UNCHANGED home
        BY <2>3
    <2>4. QED
        <3>1. Next => Tick \/ ResetTopology \/ UNCHANGED home
            BY DEF Next, System, Environment, Resize, Remount, LandLoads, LandFails, LandArrives, DeckFrame, Snapshot,
                   Edges, SetLayoutMode, Click, Hover, ClickField, Stored, Message, Pan, FitKey, ContextLost, ContextRefused
        <3>2. QED
            BY <2>1, <2>2, <2>3, <3>1
<1>2. QED
    BY <1>1, MapInvHolds, PTL DEF Spec, StaysPut

=============================================================================
