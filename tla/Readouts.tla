------------------------------- MODULE Readouts -------------------------------
(* What the page says of an attack: the inspector of an attacker and of its      *)
(* target (Inspector.tsx, inspector-peers.ts), the counts of the left rail       *)
(* (StatsRail.tsx) and the ticker's cell (ticker.ts).  All of it is read off the *)
(* latest snapshot and the events so far.  The server's thread puts a snapshot   *)
(* together in several reads (engine.py, get_snapshot), while the simulation's   *)
(* thread injects attackers graft by graft, prunes and clears them.              *)
(*                                                                               *)
(* Of the events only the prunes are kept, and all of them (the store holds the  *)
(* newest 2000).  A read of a mesh is a step; one that finds a dict grown fails, *)
(* and the snapshot is as if it had not been begun.  An id is not cleared and    *)
(* used again within one snapshot.  Every fault has one attacker.                *)
EXTENDS Integers, Sequences, FiniteSets, SequencesExt, Null

CONSTANTS Members,        \* honest peers
          SybilIds,
          EclipseIds,
          MaxBlows        \* bound: injections, crashes and rewirings

VARIABLES sim,      \* the simulation: [mesh, faults, task, bus], and with it [blows, lost]
          taking,   \* the snapshot under way: [ids, holders, victims, gone, eclipsed]
          display     \* the store: [nodes, mesh, events], and of the snapshot [victims, lost, eclipsed]

readoutVars == <<sim, taking, display>>

Attackers == SybilIds \cup EclipseIds

\* Attackers' ids are made up by the injector, of another form than a peer's and one for each fault.
ASSUME ReadoutAssumption ==
    /\ Members \cap Attackers = {} /\ SybilIds \cap EclipseIds = {}
    /\ MaxBlows \in Nat
    /\ \A S \in SUBSET Attackers : S # None
    /\ None \notin [id : Attackers, victims : SUBSET Members, left : SUBSET Members]

LiveIds == {f.id : f \in sim.faults}

Honestly == [p \in Members |-> Members \ {p}]

-------------------------------------------------------------------------------
\* The simulation's thread.  lost: attackers that lost a holder by anything but a prune.
HoldersOf(a) == {p \in Members : a \in sim.mesh[p]}

Begin(a, victims, mesh, hit) ==
    /\ sim.task = None /\ a \notin LiveIds /\ sim.blows < MaxBlows
    /\ taking # None => a \notin taking.gone
    /\ sim' = [sim EXCEPT !.task = [id |-> a, victims |-> victims, left |-> victims],
                          !.mesh = mesh, !.blows = @ + 1, !.lost = (@ \cup hit) \ {a}]
    /\ UNCHANGED display

StartSybil(a, victims) == victims # {} /\ Begin(a, victims, sim.mesh, {}) /\ UNCHANGED taking

\* What a snapshot under way may still show, when attackers are lost or their fault is cleared.
Strike(ids, targets) ==
    taking' = IF taking = None THEN None
              ELSE [taking EXCEPT !.gone = @ \cup ids, !.eclipsed = @ \ targets]

\* Everybody lets the target go; its own mesh is replaced below.
StartEclipse(a, target) ==
    LET hit == sim.mesh[target] \cap Attackers
    IN  /\ Begin(a, {target}, [p \in Members |-> sim.mesh[p] \ {target}], hit)
        /\ Strike(hit, {})

\* An attacker of a sybil joins a mesh, one of an eclipse becomes all of it.
GraftAttacker(p) ==
    /\ sim.task # None /\ p \in sim.task.left
    /\ sim' = [sim EXCEPT !.task.left = @ \ {p},
                          !.mesh[p] = IF sim.task.id \in EclipseIds THEN {sim.task.id} ELSE @ \cup {sim.task.id}]
    /\ UNCHANGED <<taking, display>>

\* Slip: the fault is entered before its attackers are in their meshes.
RegisteredFirst ==
    /\ sim.task # None
    /\ IF sim.task.id \notin LiveIds
       THEN sim' = [sim EXCEPT !.faults = @ \cup {[id |-> sim.task.id, victims |-> sim.task.victims]}]
       ELSE sim.task.left = {} /\ sim' = [sim EXCEPT !.task = None]
    /\ UNCHANGED <<taking, display>>

\* The fault is entered when its attackers are in their meshes.
Registered ==
    /\ sim.task # None /\ sim.task.left = {}
    /\ sim' = [sim EXCEPT !.faults = @ \cup {[id |-> sim.task.id, victims |-> sim.task.victims]}, !.task = None]
    /\ UNCHANGED <<taking, display>>

\* A heartbeat prunes a sybil that p holds.
PrunesAttacker(p, a) ==
    /\ sim.task = None /\ a \in sim.mesh[p] \cap SybilIds
    /\ sim' = [sim EXCEPT !.mesh[p] = @ \ {a}, !.bus = Append(@, [from |-> p, to |-> a])]
    /\ UNCHANGED <<taking, display>>

\* It grafts an honest peer, unless an eclipse separates the two.
SeparatedFrom(p, q) == \E f \in sim.faults : f.id \in EclipseIds /\ f.victims \cap {p, q} # {}

GraftsPeer(p, q) ==
    /\ sim.task = None /\ p # q /\ q \notin sim.mesh[p] /\ ~SeparatedFrom(p, q)
    /\ sim' = [sim EXCEPT !.mesh[p] = @ \cup {q}]
    /\ UNCHANGED <<taking, display>>

ClearAttack(f) ==
    /\ sim.task = None /\ f \in sim.faults
    /\ sim' = [sim EXCEPT !.faults = @ \ {f}, !.mesh = [p \in Members |-> sim.mesh[p] \ {f.id}]]
    /\ Strike({f.id}, f.victims)
    /\ UNCHANGED display

\* A crash takes a peer out of all meshes, with what it held.
CrashMember(p) ==
    /\ sim.task = None /\ sim.blows < MaxBlows
    /\ sim' = [sim EXCEPT !.blows = @ + 1, !.mesh = [q \in Members |-> IF q = p THEN {} ELSE sim.mesh[q] \ {p}],
                          !.lost = @ \cup (sim.mesh[p] \cap Attackers)]
    /\ Strike(sim.mesh[p] \cap Attackers, {p})
    /\ UNCHANGED display

\* The server's thread lays the meshes out anew, without the attackers.
RewireMembers ==
    /\ sim.task = None /\ taking = None /\ sim.blows < MaxBlows
    /\ sim' = [sim EXCEPT !.blows = @ + 1, !.mesh = Honestly, !.lost = @ \cup {a \in Attackers : HoldersOf(a) # {}}]
    /\ UNCHANGED <<taking, display>>
-------------------------------------------------------------------------------
\* The server's thread: the events of a tick, and then, every tenth tick, a snapshot.
TickSends ==
    /\ taking = None /\ sim.bus # <<>>
    /\ display' = [display EXCEPT !.events = @ \o sim.bus]
    /\ sim' = [sim EXCEPT !.bus = <<>>]
    /\ UNCHANGED taking

TakeIds ==
    /\ taking = None
    /\ taking' = [ids |-> LiveIds, holders |-> None,
                  victims |-> [a \in LiveIds |-> UNION {f.victims : f \in {g \in sim.faults : g.id = a}}],
                  gone |-> sim.lost,
                  eclipsed |-> UNION {f.victims : f \in {g \in sim.faults : g.id \in EclipseIds \ sim.lost}}]
    /\ UNCHANGED <<sim, display>>

TakeHolders ==
    /\ taking # None /\ taking.holders = None
    /\ taking' = [taking EXCEPT !.holders = [a \in taking.ids |-> HoldersOf(a)]]
    /\ UNCHANGED <<sim, display>>

\* The mesh is read once more, and the snapshot is sent and applied; above 100 peers it has no mesh.
TakeMesh ==
    /\ taking # None /\ taking.holders # None
    /\ \E mesh \in {sim.mesh, <<>>} :
          display' = [nodes |-> taking.holders, mesh |-> mesh, events |-> display.events,
                    victims |-> taking.victims, lost |-> taking.gone, eclipsed |-> taking.eclipsed]
    /\ taking' = None
    /\ UNCHANGED sim

ReadoutInit ==
    /\ sim = [mesh |-> Honestly, faults |-> {}, task |-> None, bus |-> <<>>, blows |-> 0, lost |-> {}]
    /\ taking = None
    /\ display = [nodes |-> <<>>, mesh |-> <<>>, events |-> <<>>, victims |-> <<>>, lost |-> {}, eclipsed |-> {}]

ReadoutNext ==
    \/ \E a \in SybilIds, victims \in SUBSET Members : StartSybil(a, victims)
    \/ \E a \in EclipseIds, p \in Members : StartEclipse(a, p)
    \/ \E p \in Members : GraftAttacker(p)
    \/ Registered
    \/ \E p \in Members, a \in SybilIds : PrunesAttacker(p, a)
    \/ \E p, q \in Members : GraftsPeer(p, q)
    \/ \E f \in sim.faults : ClearAttack(f)
    \/ \E p \in Members : CrashMember(p)
    \/ RewireMembers
    \/ TickSends
    \/ TakeIds
    \/ TakeHolders
    \/ TakeMesh
-------------------------------------------------------------------------------
\* The page.
IsPruned(a) == display.nodes[a] = {}

MeshHolders(a) == {p \in DOMAIN display.mesh : a \in display.mesh[p]}

\* Who pruned a, each once, in the order in which they did.
PrunedBy(a) ==
    FoldLeft(LAMBDA out, e : IF e.to = a /\ ~Contains(out, e.from) THEN Append(out, e.from) ELSE out,
             <<>>, display.events)

\* The inspector of a peer that is in the snapshot.  Mesh is None when the snapshot has none.
Inspected(id) ==
    LET attacker == id \in DOMAIN display.nodes
        mesh == IF display.mesh = <<>> THEN None ELSE IF attacker THEN MeshHolders(id) ELSE display.mesh[id]
        pruned == attacker /\ IsPruned(id)
    IN  [badges |-> (IF attacker THEN {"attacker"} ELSE {})
                    \cup (IF pruned THEN {"pruned"} ELSE {})
                    \cup (IF ~attacker /\ mesh \notin {None, {}} /\ mesh \subseteq Attackers
                          THEN {"eclipse target"} ELSE {}),
         mesh |-> mesh,
         struck |-> IF pruned /\ mesh # None THEN PrunedBy(id) ELSE <<>>,
         topology |-> IF attacker THEN display.nodes[id] ELSE Members \ {id}]

\* The rail's rows for attackers, and its strip; the ticker's cell.
Roles == [a \in DOMAIN display.nodes |-> IF IsPruned(a) THEN "pruned" ELSE "attacker"]

RowCounts == [role \in {"attacker", "pruned"} |-> Cardinality({a \in DOMAIN Roles : Roles[a] = role})]

AttackersCell == [attackers |-> Cardinality(DOMAIN display.nodes),
                  pruned |-> Cardinality({a \in DOMAIN display.nodes : IsPruned(a)})]
-------------------------------------------------------------------------------
\* Nobody is called pruned who is held in the mesh that is shown beside, and the rail and the ticker count
\* all that are held; an eclipse that outlasted the snapshot shows on its target; and who is called
\* pruned was let go by all its victims, who are struck out as soon as their events are there (for what
\* was not lost by a crash, a rewiring or an eclipse, and not cleared meanwhile).
AttackShown ==
    /\ \A a \in DOMAIN display.nodes : "pruned" \in Inspected(a).badges => Inspected(a).mesh \in {None, {}}
    /\ RowCounts["attacker"] >= Cardinality({a \in DOMAIN display.nodes : MeshHolders(a) # {}})
    /\ AttackersCell.attackers - AttackersCell.pruned = RowCounts["attacker"]
    /\ display.mesh # <<>> => \A p \in display.eclipsed : "eclipse target" \in Inspected(p).badges
    /\ \A a \in DOMAIN display.nodes \ display.lost :
           sim.bus = <<>> /\ IsPruned(a) => display.victims[a] \subseteq ToSet(PrunedBy(a))

\* Not true of the code.  A peer that is called pruned was pruned, by those struck out, "from every honest
\* mesh" (Inspector.tsx:98): a crash or a rewiring also takes it out, and an id that is used again was
\* pruned by others before.
PrunedMeansPruned ==
    display.mesh # <<>> /\ sim.bus = <<>> =>
        \A a \in DOMAIN display.nodes :
            "pruned" \in Inspected(a).badges => ToSet(Inspected(a).struck) = display.victims[a]
===============================================================================
