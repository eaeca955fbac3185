----------------------------- MODULE GossipMesh -----------------------------
(***************************************************************************)
(* The GossipSub mesh of the default topic under the GossipEngine's        *)
(* heartbeat and the FaultInjector's operations.                           *)
(*                                                                         *)
(* EventBus.emit reaches no trio checkpoint, so every coroutine modelled   *)
(* here runs to its end before another trio task runs.  Only the asyncio   *)
(* thread interrupts it: a topology applied from the API rewires the       *)
(* engine while a heartbeat is half done.  A heartbeat is therefore a run  *)
(* of steps (begin, read a peer, write it back, ..., end) that excludes    *)
(* the other trio operations and not the rewiring.                         *)
(*                                                                         *)
(* Scores.  The sum P1 + P2 + P3 of a peer decides only the order among    *)
(* peers that have sent nothing invalid, and is left open.  P4 is kept:    *)
(* `invalid' counts in quarters, as the decay of one half followed by +1   *)
(* yields 1, 1.5, 1.75 and then stays between 1.75 and 2.  A spammer has   *)
(* P2 = 0 and P3 > -0.25 only once P1 >= 2.5, so its score is              *)
(* P1 - 10 * invalid with P1 one of P1Points.                              *)
(*                                                                         *)
(* A definition marked "Slip" is not part of the model: it is a plausible  *)
(* wrong version of the definition it precedes, which a property refutes.  *)
(***************************************************************************)
EXTENDS Integers, FiniteSets

CONSTANTS
    Peers,        \* the NodePool's peers, all of them honest
    MaxIndex,     \* bound: highest number in an attacker's id
    FaultIds,     \* bound: slots for faults that are active at the same time
    D, D_LOW, D_HIGH,   \* mesh degree: target, graft below, prune above
    Fanout,       \* D_SYBIL_FANOUT, honest meshes a sybil is put into
    SybilSizes, EclipseSizes,   \* attackers one injection may add
    Partitions,   \* <<group_a, group_b>> pairs a partition may name
    Topologies,   \* adjacency functions [Peers -> SUBSET Peers]
    P1Points      \* time-in-mesh scores a spammer may have, 0 to the cap 5

Attackers == {"sybil", "eclipse"} \X (0 .. MaxIndex)
Ids == Peers \cup Attackers

ASSUME PeersAssumption == IsFiniteSet(Peers) /\ Peers \cap Attackers = {}
ASSUME DegreeAssumption ==
    /\ D \in Nat /\ D_LOW \in Nat /\ D_HIGH \in Nat /\ Fanout \in Nat
    /\ D_LOW <= D /\ D <= D_HIGH
ASSUME InputAssumption ==
    /\ MaxIndex \in Nat
    /\ SybilSizes \subseteq Nat \ {0} /\ EclipseSizes \subseteq Nat \ {0}
    /\ Partitions \subseteq (SUBSET Peers) \X (SUBSET Peers)
    /\ P1Points \subseteq 0 .. 5 /\ P1Points # {}
ASSUME TopologyAssumption ==
    /\ Topologies \subseteq [Peers -> SUBSET Peers]
    /\ \A t \in Topologies, p, q \in Peers : p \notin t[p] /\ (p \in t[q] <=> q \in t[p])

VARIABLES
    topology,   \* _topology
    mesh,       \* _mesh[topic]; {} for an id that has no entry
    members,    \* the attackers in _subscriptions[topic]; the peers always are
    invalid,    \* invalid_messages of each id, in quarters
    faults,     \* _active_faults
    crashed,    \* the peers whose NodeState is FAILED
    beating,    \* a heartbeat is running
    todo,       \* the peers the running heartbeat has still to maintain
    hand,       \* the peer being maintained: what the heartbeat has read of it
    rewiring    \* the peers subscribe_all has still to give a new mesh

graph == <<topology, rewiring>>
beat  == <<beating, todo, hand>>
fault == <<members, faults, crashed>>
vars  == <<topology, mesh, members, invalid, faults, crashed, beating, todo, hand, rewiring>>

NoFault == [type |-> "none"]
Fault ==
    [type : {"partition"}, group_a : SUBSET Peers, group_b : SUBSET Peers]
        \cup [type : {"drop"}, peer : Peers]
        \cup [type : {"sybil"}, ids : SUBSET Attackers]
        \cup [type : {"eclipse"}, target : Peers, ids : SUBSET Attackers]

Active(type) == {f \in FaultIds : faults[f].type = type}

NotHeld == [peer |-> "none", mesh |-> {}, neighbors |-> {}]

----------------------------------------------------------------------------
(* What the active faults say of a peer, a link or an attacker.             *)

is_peer_failed(p) == \E f \in Active("drop") : faults[f].peer = p

is_partitioned(a, b) ==
    \E f \in Active("partition") :
        \/ a \in faults[f].group_a /\ b \in faults[f].group_b
        \/ a \in faults[f].group_b /\ b \in faults[f].group_a

is_eclipsed(a, b) ==
    \E f \in Active("eclipse") :
        \/ a = faults[f].target /\ b \in Peers
        \/ b = faults[f].target /\ a \in Peers

\* Slip: a partition does not cut the lazy and graft paths.
LinkBlockedByCrash(a, b) == is_peer_failed(a) \/ is_peer_failed(b)
LinkBlocked(a, b) == is_peer_failed(a) \/ is_peer_failed(b) \/ is_partitioned(a, b)

FaultAttackers(f) == IF faults[f].type \in {"sybil", "eclipse"} THEN faults[f].ids ELSE {}
AttackerIds == UNION {FaultAttackers(f) : f \in FaultIds}

\* The n ids an injection of this kind uses: they continue past the live ones.
NextAttackerIds(kind, n, new) ==
    LET live == {i \in 0 .. MaxIndex : <<kind, i>> \in AttackerIds}
    IN  \E base \in 0 .. MaxIndex :
            /\ \A i \in live : i < base
            /\ base = 0 \/ base - 1 \in live
            /\ base + n - 1 <= MaxIndex                       \* bound
            /\ new = {<<kind, i>> : i \in base .. base + n - 1}

TrioIdle == ~beating

\* An active_faults slot for a new fault: fault ids are unique (uuid4).
Free(f) == faults[f] = NoFault

----------------------------------------------------------------------------
(* FaultInjector, run on the trio thread.                                   *)

\* inject_partition: cut every mesh link between the groups.
InjectPartition(f, ga, gb) ==
    /\ TrioIdle /\ Free(f) /\ <<ga, gb>> \in Partitions
    /\ faults' = [faults EXCEPT ![f] =
                    [type |-> "partition", group_a |-> ga, group_b |-> gb]]
    /\ mesh' = [q \in Ids |-> IF q \in ga THEN mesh[q] \ gb
                              ELSE IF q \in gb THEN mesh[q] \ ga
                              ELSE mesh[q]]
    /\ UNCHANGED <<graph, beat, members, invalid, crashed>>

\* drop_peer: FAILED, out of every mesh, its own mesh emptied.
DropPeer(f, p) ==
    /\ TrioIdle /\ Free(f)
    /\ crashed' = crashed \cup {p}
    /\ mesh' = [q \in Ids |-> IF q = p THEN {} ELSE mesh[q] \ {p}]
    /\ faults' = [faults EXCEPT ![f] = [type |-> "drop", peer |-> p]]
    /\ UNCHANGED <<graph, beat, members, invalid>>

Samples(S, n) == {T \in SUBSET S : Cardinality(T) = (IF Cardinality(S) < n THEN Cardinality(S) ELSE n)}

\* inject_sybil: each new sybil is forced into a sample of the honest meshes.
InjectSybil(f, n) ==
    /\ TrioIdle /\ Free(f)
    /\ \E new \in SUBSET Attackers :
        /\ NextAttackerIds("sybil", n, new)
        /\ \E victims \in [new -> Samples(Peers, Fanout)] :
            mesh' = [q \in Ids |->
                        IF q \in new THEN {}
                        ELSE IF q \in Peers
                             THEN mesh[q] \cup {s \in new : q \in victims[s]}
                             ELSE mesh[q]]
        /\ members' = members \cup new
        /\ faults' = [faults EXCEPT ![f] = [type |-> "sybil", ids |-> new]]
    /\ UNCHANGED <<graph, beat, invalid, crashed>>

\* inject_eclipse: the target leaves every mesh and gets the attackers for its own.
InjectEclipse(f, target, n) ==
    /\ TrioIdle /\ Free(f)
    /\ \E new \in SUBSET Attackers :
        /\ NextAttackerIds("eclipse", n, new)
        /\ mesh' = [q \in Ids |-> IF q = target THEN new
                                  ELSE IF q \in new THEN {target}
                                  ELSE mesh[q] \ {target}]
        /\ members' = members \cup new
        /\ faults' = [faults EXCEPT ![f] =
                        [type |-> "eclipse", target |-> target, ids |-> new]]
    /\ UNCHANGED <<graph, beat, invalid, crashed>>

\* Slip: clear_fault forgets to drop the attackers' scores.
UndoKeepScores(fs) ==
    LET gone == UNION {FaultAttackers(f) : f \in fs}
    IN  /\ crashed' = crashed \ {faults[f].peer : f \in fs \cap Active("drop")}
        /\ mesh' = [q \in Ids |-> IF q \in gone THEN {} ELSE mesh[q] \ gone]
        /\ members' = members \ gone
        /\ invalid' = invalid
        /\ faults' = [f \in FaultIds |-> IF f \in fs THEN NoFault ELSE faults[f]]

\* What clear_fault does beside forgetting the faults fs.
Undo(fs) ==
    LET gone == UNION {FaultAttackers(f) : f \in fs}
    IN  /\ crashed' = crashed \ {faults[f].peer : f \in fs \cap Active("drop")}
        /\ mesh' = [q \in Ids |-> IF q \in gone THEN {} ELSE mesh[q] \ gone]
        /\ members' = members \ gone
        /\ invalid' = [q \in Ids |-> IF q \in gone THEN 0 ELSE invalid[q]]
        /\ faults' = [f \in FaultIds |-> IF f \in fs THEN NoFault ELSE faults[f]]

ClearFault(f) ==
    /\ TrioIdle /\ ~Free(f)
    /\ Undo({f})
    /\ UNCHANGED <<graph, beat>>

\* clear_all runs clear_fault on every fault without a checkpoint in between.
ClearAll ==
    /\ TrioIdle
    /\ Undo(FaultIds)
    /\ UNCHANGED <<graph, beat>>

----------------------------------------------------------------------------
(* GossipEngine.heartbeat, run on the trio thread.                          *)

Spammers == {a \in members : a[1] = "sybil"}

\* Slip: the misbehaviour pass runs before the decay.
PenaltyBeforeDecay ==
    /\ TrioIdle
    /\ invalid' = [q \in Ids |-> (invalid[q] + (IF q \in Spammers THEN 4 ELSE 0)) \div 2]
    /\ beating' = TRUE
    /\ todo' = Peers
    /\ UNCHANGED <<graph, mesh, fault, hand>>

\* Slip: the counts do not decay.
PenaltyWithoutDecay ==
    /\ TrioIdle
    /\ invalid' = [q \in Ids |-> invalid[q] + (IF q \in Spammers THEN 4 ELSE 0)]
    /\ beating' = TRUE
    /\ todo' = Peers
    /\ UNCHANGED <<graph, mesh, fault, hand>>

\* decay halves every count, then _misbehave adds one per live sybil.
HeartbeatBegin ==
    /\ TrioIdle
    /\ invalid' = [q \in Ids |-> (invalid[q] \div 2) + (IF q \in Spammers THEN 4 ELSE 0)]
    /\ beating' = TRUE
    /\ todo' = Peers
    /\ UNCHANGED <<graph, mesh, fault, hand>>

\* A crashed peer, or one a partition names on both sides, does no maintenance.
Idle(p) == LinkBlocked(p, p)

HeartbeatSkip(p) ==
    /\ beating /\ hand = NotHeld /\ p \in todo
    /\ Idle(p)
    /\ todo' = todo \ {p}
    /\ UNCHANGED <<graph, mesh, fault, invalid, beating, hand>>

\* Slip: graft candidates are all subscribers, not the topology neighbours.
ReadSubscribers(p) ==
    /\ beating /\ hand = NotHeld /\ p \in todo
    /\ ~Idle(p)
    /\ hand' = [peer |-> p, mesh |-> mesh[p],
                neighbors |-> {n \in (Peers \cup members) \ {p} : ~LinkBlocked(p, n)}]
    /\ todo' = todo \ {p}
    /\ UNCHANGED <<graph, mesh, fault, invalid, beating>>

\* peer_mesh and neighbors are read before the peer's mesh is worked on.
HeartbeatRead(p) ==
    /\ beating /\ hand = NotHeld /\ p \in todo
    /\ ~Idle(p)
    /\ hand' = [peer |-> p, mesh |-> mesh[p],
                neighbors |-> {n \in topology[p] : ~LinkBlocked(p, n)}]
    /\ todo' = todo \ {p}
    /\ UNCHANGED <<graph, mesh, fault, invalid, beating>>

\* compute_score(q) < SCORE_THRESHOLD_PRUNE when q's P1 is x.
BelowPrune(q, x) == 5 * invalid[q] - 2 * x > 20
\* compute_score(q) > SCORE_THRESHOLD_GRAFT for a peer that is in no mesh.
AboveGraft(q) == invalid[q] < 2

\* The score prune: which of a mesh's peers fall below the threshold.
ScorePrune(old, low) ==
    /\ \A q \in low : \E x \in P1Points : BelowPrune(q, x)
    /\ \A q \in old \ low : \E x \in P1Points : ~BelowPrune(q, x)

\* The overflow prune: down to D, the worst scores first.
OverflowPrune(rest, over) ==
    IF Cardinality(rest) > D_HIGH
    THEN /\ Cardinality(over) = Cardinality(rest) - D
         /\ \A q \in over, r \in rest \ over : invalid[q] >= invalid[r]
    ELSE over = {}

\* Slip: the eclipse is not asked about.
CandidatesByLinkOnly(kept) == hand.neighbors \ kept

\* Usable neighbours outside the mesh that no eclipse parts the peer from.
Candidates(kept) == {c \in hand.neighbors \ kept : ~is_eclipsed(hand.peer, c)}

\* Slip: off by one, a mesh one short of D_LOW is left alone.
GraftOffByOne(kept, candidates, grafted) ==
    IF Cardinality(kept) < D_LOW - 1
    THEN /\ grafted \in Samples(candidates, D - Cardinality(kept))
         /\ \A q \in candidates \ grafted, r \in grafted : AboveGraft(q) => AboveGraft(r)
    ELSE grafted = {}

\* The graft: up to D, candidates above the threshold first, then any.
Graft(kept, candidates, grafted) ==
    IF Cardinality(kept) < D_LOW
    THEN /\ grafted \in Samples(candidates, D - Cardinality(kept))
         /\ \A q \in candidates \ grafted, r \in grafted : AboveGraft(q) => AboveGraft(r)
    ELSE grafted = {}

\* PRUNE on the pruner's side only, GRAFT on both, then mesh[peer] = peer_mesh.
Maintained(p, kept, grafted) ==
    [q \in Ids |-> IF q = p THEN kept \cup grafted
                   ELSE IF q \in grafted THEN mesh[q] \cup {p}
                   ELSE mesh[q]]

HeartbeatWrite ==
    /\ hand # NotHeld
    /\ \E low \in SUBSET hand.mesh :
        /\ ScorePrune(hand.mesh, low)
        /\ \E over \in SUBSET (hand.mesh \ low) :
            /\ OverflowPrune(hand.mesh \ low, over)
            /\ LET kept == hand.mesh \ (low \cup over)
               IN  \E grafted \in SUBSET Candidates(kept) :
                    /\ Graft(kept, Candidates(kept), grafted)
                    /\ mesh' = Maintained(hand.peer, kept, grafted)
    /\ hand' = NotHeld
    /\ UNCHANGED <<graph, fault, invalid, beating, todo>>

HeartbeatEnd ==
    /\ beating /\ todo = {} /\ hand = NotHeld
    /\ beating' = FALSE
    /\ UNCHANGED <<graph, mesh, fault, invalid, todo, hand>>

----------------------------------------------------------------------------
(* NodePool.wire_topology, run on the asyncio thread at any point of the    *)
(* above: set_topology, then subscribe_all mesh by mesh.                    *)

SetTopology(t) ==
    /\ rewiring = {}
    /\ topology' = t
    /\ rewiring' = Peers
    /\ UNCHANGED <<mesh, fault, invalid, beat>>

Resubscribe(p) ==
    /\ p \in rewiring
    /\ \E sample \in Samples(topology[p], D) : mesh' = [mesh EXCEPT ![p] = sample]
    /\ rewiring' = rewiring \ {p}
    /\ UNCHANGED <<topology, fault, invalid, beat>>

----------------------------------------------------------------------------
\* The state once __init__ and the first wire_topology have run.
Init ==
    /\ topology \in Topologies
    /\ mesh \in [Ids -> SUBSET Peers]
    /\ \A p \in Peers : mesh[p] \in Samples(topology[p], D)
    /\ \A a \in Attackers : mesh[a] = {}
    /\ members = {}
    /\ invalid = [q \in Ids |-> 0]
    /\ faults = [f \in FaultIds |-> NoFault]
    /\ crashed = {}
    /\ beating = FALSE
    /\ todo = {}
    /\ hand = NotHeld
    /\ rewiring = {}

Heartbeat ==
    \/ HeartbeatBegin
    \/ \E p \in Peers : HeartbeatSkip(p) \/ HeartbeatRead(p)
    \/ HeartbeatWrite
    \/ HeartbeatEnd

Inject(f) ==
    \/ \E g \in Partitions : InjectPartition(f, g[1], g[2])
    \/ \E p \in Peers : DropPeer(f, p)
    \/ \E n \in SybilSizes : InjectSybil(f, n)
    \/ \E p \in Peers, n \in EclipseSizes : InjectEclipse(f, p, n)

TrioNext ==
    \/ Heartbeat
    \/ \E f \in FaultIds : Inject(f) \/ ClearFault(f)
    \/ ClearAll

Rewire ==
    \/ \E t \in Topologies : SetTopology(t)
    \/ \E p \in Peers : Resubscribe(p)

\* A run whose topology stays the one it was started with ...
Spec == Init /\ [][TrioNext]_vars
\* ... and one in which the user also applies topologies.
SpecRewire == Init /\ [][TrioNext \/ Rewire]_vars

\* _heartbeat_loop beats for ever while the clock is not paused, and a thread
\* inside wire_topology finishes; nobody has to inject or clear a fault.
FairSpec == Spec /\ WF_vars(Heartbeat)
FairSpecRewire == SpecRewire /\ WF_vars(Heartbeat) /\ WF_vars(\E p \in Peers : Resubscribe(p))

----------------------------------------------------------------------------
(* Properties.                                                              *)

TypeOK ==
    /\ topology \in [Peers -> SUBSET Peers]
    /\ mesh \in [Ids -> SUBSET Ids]
    /\ members \in SUBSET Attackers
    /\ invalid \in [Ids -> 0 .. 7]
    /\ faults \in [FaultIds -> Fault \cup {NoFault}]
    /\ crashed \in SUBSET Peers
    /\ beating \in BOOLEAN
    /\ todo \in SUBSET Peers
    /\ \/ hand = NotHeld
       \/ hand \in [peer : Peers, mesh : SUBSET Ids, neighbors : SUBSET Peers]
    /\ rewiring \in SUBSET Peers

\* No mesh link crosses an active partition, however many heartbeats, later
\* faults and clearances follow it (inject_partition cuts once; only heartbeat's
\* neighbour filter keeps the cut).
PartitionHolds ==
    \A p, q \in Peers : is_partitioned(p, q) => q \notin mesh[p]

\* While a peer is dropped no honest peer has it in its mesh, and its own mesh
\* holds no honest peer (drop_peer removes it once, heartbeats must not bring
\* it back from either side).
CrashedOutOfMesh ==
    \A p, q \in Peers : is_peer_failed(p) => q \notin mesh[p] /\ p \notin mesh[q]

\* An eclipsed peer and the honest ones are in none of each other's meshes, for
\* as long as the eclipse is active.
EclipseIsolates ==
    \A p, q \in Peers : is_eclipsed(p, q) => q \notin mesh[p]

\* What the faults cut stays cut (the three above), on a topology that is not
\* applied anew.
FaultsIsolate == PartitionHolds /\ CrashedOutOfMesh /\ EclipseIsolates

\* Every trace of an attacker belongs to an active fault: once its fault is
\* cleared it is in no mesh, has none, is not subscribed and has no score, so
\* that a later attacker that gets the same id starts clean.
AttackersBelongToFaults ==
    /\ members = AttackerIds
    /\ \A q \in Ids : mesh[q] \cap Attackers \subseteq members
    /\ \A a \in Attackers \ members : mesh[a] = {} /\ invalid[a] = 0

\* Two active faults never share an attacker, or clearing one would disarm
\* the other (_next_attacker_ids continues past the live ids).
AttackerIdsUnique ==
    \A f, g \in FaultIds : f # g => FaultAttackers(f) \cap FaultAttackers(g) = {}

\* An attacker is there as long as its fault, and is of one fault only.
AttackersAccounted == AttackersBelongToFaults /\ AttackerIdsUnique

\* An attacker is put into an honest mesh by the injection that makes it and
\* never by a heartbeat: a pruned spammer does not come back.
PrunedStaysOut ==
    [][\A p \in Peers, a \in members \cap members' :
            a \notin mesh[p] => a \notin mesh'[p]]_vars

\* A sybil in the mesh of a working peer is pruned, or its fault cleared.
SpammerEvicted ==
    \A p \in Peers, s \in {"sybil"} \X (0 .. MaxIndex) :
        s \in mesh[p] /\ ~Idle(p) ~> s \notin mesh[p] \/ Idle(p)

\* A working peer below D_LOW that has a usable neighbour outside its mesh:
\* after an eclipse or a drop is cleared, and when a partition heals.
Usable(p) == {n \in topology[p] : ~LinkBlocked(p, n) /\ ~is_eclipsed(p, n)}
Starved(p) ==
    ~Idle(p) /\ Cardinality(mesh[p]) < D_LOW /\ Usable(p) \ mesh[p] # {}

\* The mesh heals: such a peer gets its mesh back through heartbeats.
MeshHeals == \A p \in Peers : Starved(p) ~> ~Starved(p)

\* Not true of the code (two drops of one peer, one of them cleared): a dropped
\* peer is FAILED until its last drop is cleared.
DroppedIsFailed == \A p \in Peers : is_peer_failed(p) => p \in crashed

=============================================================================
