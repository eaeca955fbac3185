---------------------------- MODULE GossipProofs ----------------------------
(***************************************************************************)
(* What GossipMesh guarantees for any set of peers, any mesh degrees, any  *)
(* number of simultaneous faults and any topologies; and that GossipRelay  *)
(* implements it, delivers each message once and loses none, and gets none *)
(* past a fault that was there first, for any number of messages as well.  *)
(***************************************************************************)
EXTENDS GossipRelay, FiniteSetTheorems, TLAPS

----------------------------------------------------------------------------
(* The mesh.                                                                *)

LEMMA SampleIsSubset ==
    ASSUME NEW S, NEW n, NEW T \in Samples(S, n)
    PROVE  T \subseteq S
BY DEF Samples

\* Halving and adding a whole penalty keeps a count below two (eight quarters).
LEMMA DecayBound ==
    ASSUME NEW x \in 0 .. 7
    PROVE  /\ (x \div 2) + 4 \in 0 .. 7
           /\ (x \div 2) + 0 \in 0 .. 7
OBVIOUS

\* The type invariant is inductive for a run with and without rewiring.
LEMMA TypeInit == Init => TypeOK
<1> SUFFICES ASSUME Init PROVE TypeOK
    OBVIOUS
<1>1. topology \in [Peers -> SUBSET Peers]
    BY TopologyAssumption DEF Init
<1>2. mesh \in [Ids -> SUBSET Ids]
    BY DEF Init, Ids
<1>3. invalid \in [Ids -> 0 .. 7]
    <2>1. 0 \in 0 .. 7
        OBVIOUS
    <2>2. QED
        BY <2>1 DEF Init
<1>4. faults \in [FaultIds -> Fault \cup {NoFault}]
    BY DEF Init
<1>5. /\ members \in SUBSET Attackers /\ crashed \in SUBSET Peers
      /\ beating \in BOOLEAN /\ todo \in SUBSET Peers
      /\ hand = NotHeld /\ rewiring \in SUBSET Peers
    BY DEF Init
<1>6. QED
    BY <1>1, <1>2, <1>3, <1>4, <1>5 DEF TypeOK

LEMMA TypeInject ==
    ASSUME TypeOK, NEW f \in FaultIds, Inject(f)
    PROVE  TypeOK'
<1> USE DEF TypeOK, graph, beat, fault
<1>1. CASE \E g \in Partitions : InjectPartition(f, g[1], g[2])
    <2>1. PICK g \in Partitions : InjectPartition(f, g[1], g[2])
        BY <1>1
    <2>2. g[1] \in SUBSET Peers /\ g[2] \in SUBSET Peers
        BY InputAssumption
    <2>3. [type |-> "partition", group_a |-> g[1], group_b |-> g[2]] \in Fault
        BY <2>2 DEF Fault
    <2>4. faults' \in [FaultIds -> Fault \cup {NoFault}]
        BY <2>1, <2>3 DEF InjectPartition
    <2>5. mesh' \in [Ids -> SUBSET Ids]
        BY <2>1 DEF InjectPartition
    <2>6. QED
        BY <2>1, <2>4, <2>5 DEF InjectPartition
<1>2. CASE \E p \in Peers : DropPeer(f, p)
    <2>1. PICK p \in Peers : DropPeer(f, p)
        BY <1>2
    <2>2. [type |-> "drop", peer |-> p] \in Fault
        BY DEF Fault
    <2>3. faults' \in [FaultIds -> Fault \cup {NoFault}]
        BY <2>1, <2>2 DEF DropPeer
    <2>4. mesh' \in [Ids -> SUBSET Ids]
        BY <2>1 DEF DropPeer
    <2>5. QED
        BY <2>1, <2>3, <2>4 DEF DropPeer
<1>3. CASE \E n \in SybilSizes : InjectSybil(f, n)
    <2>1. PICK n \in SybilSizes : InjectSybil(f, n)
        BY <1>3
    <2>2. PICK new \in SUBSET Attackers :
             /\ \E victims \in [new -> Samples(Peers, Fanout)] :
                  mesh' = [q \in Ids |->
                            IF q \in new THEN {}
                            ELSE IF q \in Peers
                                 THEN mesh[q] \cup {s \in new : q \in victims[s]}
                                 ELSE mesh[q]]
             /\ members' = members \cup new
             /\ faults' = [faults EXCEPT ![f] = [type |-> "sybil", ids |-> new]]
        BY <2>1 DEF InjectSybil
    <2>3. [type |-> "sybil", ids |-> new] \in Fault
        BY DEF Fault
    <2>4. faults' \in [FaultIds -> Fault \cup {NoFault}]
        BY <2>2, <2>3
    <2>5. mesh' \in [Ids -> SUBSET Ids]
        BY <2>2 DEF Ids
    <2>6. QED
        BY <2>1, <2>2, <2>4, <2>5 DEF InjectSybil
<1>4. CASE \E p \in Peers, n \in EclipseSizes : InjectEclipse(f, p, n)
    <2>1. PICK p \in Peers, n \in EclipseSizes : InjectEclipse(f, p, n)
        BY <1>4
    <2>2. PICK new \in SUBSET Attackers :
             /\ mesh' = [q \in Ids |-> IF q = p THEN new
                                       ELSE IF q \in new THEN {p}
                                       ELSE mesh[q] \ {p}]
             /\ members' = members \cup new
             /\ faults' = [faults EXCEPT ![f] =
                             [type |-> "eclipse", target |-> p, ids |-> new]]
        BY <2>1 DEF InjectEclipse
    <2>3. [type |-> "eclipse", target |-> p, ids |-> new] \in Fault
        BY DEF Fault
    <2>4. faults' \in [FaultIds -> Fault \cup {NoFault}]
        BY <2>2, <2>3
    <2>5. mesh' \in [Ids -> SUBSET Ids]
        BY <2>2 DEF Ids
    <2>6. QED
        BY <2>1, <2>2, <2>4, <2>5 DEF InjectEclipse
<1>5. QED
    BY <1>1, <1>2, <1>3, <1>4 DEF Inject

LEMMA TypeUndo ==
    ASSUME TypeOK, NEW fs \in SUBSET FaultIds, Undo(fs), UNCHANGED <<graph, beat>>
    PROVE  TypeOK'
<1> DEFINE gone == UNION {FaultAttackers(f) : f \in fs}
<1>1. /\ crashed' \in SUBSET Peers
      /\ members' \in SUBSET Attackers
    BY DEF TypeOK, Undo
<1>2. mesh' = [q \in Ids |-> IF q \in gone THEN {} ELSE mesh[q] \ gone]
    BY DEF Undo
<1>3. mesh' \in [Ids -> SUBSET Ids]
    <2> HIDE DEF gone
    <2> QED BY <1>2 DEF TypeOK
<1>4. invalid' = [q \in Ids |-> IF q \in gone THEN 0 ELSE invalid[q]]
    BY DEF Undo
<1>5. invalid' \in [Ids -> 0 .. 7]
    <2> HIDE DEF gone
    <2> QED BY <1>4 DEF TypeOK
<1>6. faults' \in [FaultIds -> Fault \cup {NoFault}]
    BY DEF TypeOK, Undo
<1>7. QED
    BY <1>1, <1>3, <1>5, <1>6 DEF TypeOK, graph, beat

\* What a heartbeat's write does to the mesh, with the scores left out.
LEMMA WriteShape ==
    ASSUME HeartbeatWrite
    PROVE  \E kept \in SUBSET hand.mesh, grafted \in SUBSET hand.neighbors :
             /\ \A c \in grafted : ~is_eclipsed(hand.peer, c)
             /\ mesh' = Maintained(hand.peer, kept, grafted)
<1>1. PICK low \in SUBSET hand.mesh :
        \E over \in SUBSET (hand.mesh \ low) :
            LET kept == hand.mesh \ (low \cup over)
            IN  \E grafted \in SUBSET Candidates(kept) :
                    /\ Graft(kept, Candidates(kept), grafted)
                    /\ mesh' = Maintained(hand.peer, kept, grafted)
    BY DEF HeartbeatWrite
<1>2. PICK over \in SUBSET (hand.mesh \ low) :
            LET kept == hand.mesh \ (low \cup over)
            IN  \E grafted \in SUBSET Candidates(kept) :
                    /\ Graft(kept, Candidates(kept), grafted)
                    /\ mesh' = Maintained(hand.peer, kept, grafted)
    BY <1>1
<1> DEFINE kept == hand.mesh \ (low \cup over)
<1>3. PICK grafted \in SUBSET Candidates(kept) : mesh' = Maintained(hand.peer, kept, grafted)
    BY <1>2
<1>4. /\ kept \in SUBSET hand.mesh
      /\ grafted \in SUBSET hand.neighbors
      /\ \A c \in grafted : ~is_eclipsed(hand.peer, c)
    BY <1>3 DEF Candidates
<1> HIDE DEF kept
<1>5. QED
    BY <1>3, <1>4

LEMMA TypeHeartbeat ==
    ASSUME TypeOK, Heartbeat
    PROVE  TypeOK'
<1> USE DEF TypeOK, graph, beat, fault
<1>1. CASE HeartbeatBegin
    <2>1. \A q \in Ids :
            (invalid[q] \div 2) + (IF q \in Spammers THEN 4 ELSE 0) \in 0 .. 7
        BY DecayBound
    <2>2. invalid' \in [Ids -> 0 .. 7]
        BY <1>1, <2>1 DEF HeartbeatBegin
    <2>3. QED
        BY <1>1, <2>2 DEF HeartbeatBegin
<1>2. ASSUME NEW p \in Peers, HeartbeatSkip(p) PROVE TypeOK'
    BY <1>2 DEF HeartbeatSkip
<1>3. ASSUME NEW p \in Peers, HeartbeatRead(p) PROVE TypeOK'
    <2>1. p \in Ids
        BY DEF Ids
    <2>2. hand' \in [peer : Peers, mesh : SUBSET Ids, neighbors : SUBSET Peers]
        BY <1>3, <2>1 DEF HeartbeatRead
    <2>3. QED
        BY <1>3, <2>2 DEF HeartbeatRead
<1>4. CASE HeartbeatWrite
    <2>1. hand \in [peer : Peers, mesh : SUBSET Ids, neighbors : SUBSET Peers]
        BY <1>4 DEF HeartbeatWrite
    <2>2. PICK kept \in SUBSET hand.mesh, grafted \in SUBSET hand.neighbors :
             mesh' = Maintained(hand.peer, kept, grafted)
        BY <1>4, WriteShape
    <2>3. mesh' \in [Ids -> SUBSET Ids]
        BY <2>1, <2>2 DEF Ids, Maintained
    <2>4. QED
        BY <1>4, <2>3 DEF HeartbeatWrite
<1>5. CASE HeartbeatEnd
    BY <1>5 DEF HeartbeatEnd
<1>6. QED
    BY <1>1, <1>2, <1>3, <1>4, <1>5 DEF Heartbeat

LEMMA TypeRewire ==
    ASSUME TypeOK, Rewire
    PROVE  TypeOK'
<1> USE DEF TypeOK, fault, beat
<1>1. CASE \E t \in Topologies : SetTopology(t)
    BY <1>1, TopologyAssumption DEF SetTopology
<1>2. CASE \E p \in Peers : Resubscribe(p)
    <2>1. PICK p \in Peers : Resubscribe(p)
        BY <1>2
    <2>2. PICK sample \in SUBSET Peers : mesh' = [mesh EXCEPT ![p] = sample]
        BY <2>1, SampleIsSubset DEF Resubscribe
    <2>3. mesh' \in [Ids -> SUBSET Ids]
        BY <2>2 DEF Ids
    <2>4. QED
        BY <2>1, <2>3 DEF Resubscribe
<1>3. QED
    BY <1>1, <1>2 DEF Rewire

LEMMA TypeStep ==
    ASSUME TypeOK, [TrioNext \/ Rewire]_vars
    PROVE  TypeOK'
<1>1. CASE Heartbeat
    BY <1>1, TypeHeartbeat
<1>2. ASSUME NEW f \in FaultIds, Inject(f) PROVE TypeOK'
    BY <1>2, TypeInject
<1>3. ASSUME NEW f \in FaultIds, ClearFault(f) PROVE TypeOK'
    BY <1>3, TypeUndo DEF ClearFault
<1>4. CASE ClearAll
    BY <1>4, TypeUndo DEF ClearAll
<1>5. CASE Rewire
    BY <1>5, TypeRewire
<1>6. CASE UNCHANGED vars
    BY <1>6 DEF vars, TypeOK
<1>7. QED
    BY <1>1, <1>2, <1>3, <1>4, <1>5, <1>6 DEF TrioNext

\* Every value GossipMesh's variables take has its type, rewired or not; in
\* particular a spammer's penalty never reaches two invalid messages.
THEOREM TypeCorrect == SpecRewire => []TypeOK
<1>1. Init => TypeOK
    BY TypeInit
<1>2. TypeOK /\ [TrioNext \/ Rewire]_vars => TypeOK'
    BY TypeStep
<1>3. QED
    BY <1>1, <1>2, PTL DEF SpecRewire

----------------------------------------------------------------------------
(* The cut: which links the active faults forbid in a mesh.                 *)

Cut(p, q) ==
    is_peer_failed(p) \/ is_peer_failed(q) \/ is_partitioned(p, q) \/ is_eclipsed(p, q)

CutBy(r, p, q) ==
    \/ r.type = "drop" /\ (r.peer = p \/ r.peer = q)
    \/ r.type = "partition" /\ \/ p \in r.group_a /\ q \in r.group_b
                               \/ p \in r.group_b /\ q \in r.group_a
    \/ r.type = "eclipse" /\ (r.target = p \/ r.target = q)

\* No mesh holds a forbidden link, and neither does what a heartbeat has in
\* hand: without the second part the write that ends a peer's maintenance could
\* put a cut link back, so the first is not inductive alone.
CutHolds == \A p, q \in Peers : Cut(p, q) => q \notin mesh[p]
HandHolds ==
    hand # NotHeld =>
        /\ beating
        /\ \A q \in Peers : Cut(hand.peer, q) => q \notin hand.mesh
        /\ \A n \in hand.neighbors : ~LinkBlocked(hand.peer, n)
CutInv == TypeOK /\ CutHolds /\ HandHolds

LEMMA CutSymmetric ==
    ASSUME NEW p \in Peers, NEW q \in Peers
    PROVE  Cut(p, q) <=> Cut(q, p)
BY DEF Cut, is_partitioned, is_eclipsed

\* A forbidden link is forbidden by one of the active faults.
LEMMA CutIsByFault ==
    ASSUME NEW p \in Peers, NEW q \in Peers
    PROVE  Cut(p, q) <=> \E f \in FaultIds : CutBy(faults[f], p, q)
<1>1. Cut(p, q) => \E f \in FaultIds : CutBy(faults[f], p, q)
    BY DEF Cut, CutBy, is_peer_failed, is_partitioned, is_eclipsed, Active
<1>2. ASSUME NEW f \in FaultIds, CutBy(faults[f], p, q) PROVE Cut(p, q)
    BY <1>2 DEF Cut, CutBy, is_peer_failed, is_partitioned, is_eclipsed, Active
<1>3. QED
    BY <1>1, <1>2

\* An injection forbids what was forbidden and what the new fault forbids.
LEMMA CutAfterInject ==
    ASSUME TypeOK, NEW f \in FaultIds, NEW r, faults' = [faults EXCEPT ![f] = r],
           NEW p \in Peers, NEW q \in Peers, Cut(p, q)'
    PROVE  Cut(p, q) \/ CutBy(r, p, q)
<1>1. PICK g \in FaultIds : CutBy(faults'[g], p, q)
    <2>1. Cut(p, q)' => \E g \in FaultIds : CutBy(faults'[g], p, q)
        BY DEF Cut, CutBy, is_peer_failed, is_partitioned, is_eclipsed, Active
    <2>2. QED
        BY <2>1
<1>2. faults'[g] = IF g = f THEN r ELSE faults[g]
    BY DEF TypeOK
<1>3. QED
    BY <1>1, <1>2, CutIsByFault

\* Clearing faults forbids nothing new.
LEMMA CutAfterUndo ==
    ASSUME NEW fs, Undo(fs), NEW p \in Peers, NEW q \in Peers, Cut(p, q)'
    PROVE  Cut(p, q)
<1>1. PICK g \in FaultIds : CutBy(faults'[g], p, q)
    <2>1. Cut(p, q)' => \E g \in FaultIds : CutBy(faults'[g], p, q)
        BY DEF Cut, CutBy, is_peer_failed, is_partitioned, is_eclipsed, Active
    <2>2. QED
        BY <2>1
<1>2. faults'[g] = IF g \in fs THEN NoFault ELSE faults[g]
    BY DEF Undo
<1>3. ~CutBy(NoFault, p, q)
    BY DEF CutBy, NoFault
<1>4. QED
    BY <1>1, <1>2, <1>3, CutIsByFault

LEMMA CutInit == Init => CutInv
<1> SUFFICES ASSUME Init PROVE CutInv
    OBVIOUS
<1>1. ASSUME NEW p \in Peers, NEW q \in Peers PROVE ~Cut(p, q)
    BY DEF Cut, is_peer_failed, is_partitioned, is_eclipsed, Active, Init, NoFault
<1>2. CutHolds
    BY <1>1 DEF CutHolds
<1>3. HandHolds
    BY DEF HandHolds, Init
<1>4. QED
    BY <1>2, <1>3, TypeInit DEF CutInv

\* No trio operation runs while a heartbeat has a peer in hand.
LEMMA IdleHand ==
    ASSUME HandHolds, TrioIdle
    PROVE  hand = NotHeld
BY DEF HandHolds, TrioIdle

LEMMA CutInject ==
    ASSUME CutInv, NEW f \in FaultIds, Inject(f),
           \A g \in Partitions : g[1] \cap g[2] = {}
    PROVE  CutHolds' /\ HandHolds'
<1> USE DEF CutInv
<1>1. CASE \E g \in Partitions : InjectPartition(f, g[1], g[2])
    <2>1. PICK g \in Partitions : InjectPartition(f, g[1], g[2])
        BY <1>1
    <2> DEFINE r == [type |-> "partition", group_a |-> g[1], group_b |-> g[2]]
    <2>2. ASSUME NEW p \in Peers, NEW q \in Peers, Cut(p, q)'
          PROVE  q \notin mesh'[p]
        <3>1. Cut(p, q) \/ CutBy(r, p, q)
            BY <2>1, <2>2, CutAfterInject DEF InjectPartition
        <3>2. mesh'[p] = IF p \in g[1] THEN mesh[p] \ g[2]
                         ELSE IF p \in g[2] THEN mesh[p] \ g[1] ELSE mesh[p]
            BY <2>1 DEF InjectPartition, Ids
        <3>3. CASE Cut(p, q)
            BY <3>2, <3>3 DEF CutHolds
        <3>4. CASE CutBy(r, p, q)
            <4>1. g[1] \cap g[2] = {}
                OBVIOUS
            <4>2. \/ p \in g[1] /\ q \in g[2]
                  \/ p \in g[2] /\ q \in g[1]
                BY <3>4 DEF CutBy
            <4>3. QED
                BY <3>2, <4>1, <4>2
        <3>5. QED
            BY <3>1, <3>3, <3>4
    <2>3. hand' = NotHeld
        BY <2>1, IdleHand DEF InjectPartition, beat
    <2>4. QED
        BY <2>2, <2>3 DEF CutHolds, HandHolds
<1>2. CASE \E d \in Peers : DropPeer(f, d)
    <2>1. PICK d \in Peers : DropPeer(f, d)
        BY <1>2
    <2>2. ASSUME NEW p \in Peers, NEW q \in Peers, Cut(p, q)'
          PROVE  q \notin mesh'[p]
        <3>1. Cut(p, q) \/ CutBy([type |-> "drop", peer |-> d], p, q)
            BY <2>1, <2>2, CutAfterInject DEF DropPeer
        <3>2. mesh'[p] = IF p = d THEN {} ELSE mesh[p] \ {d}
            BY <2>1 DEF DropPeer, Ids
        <3>3. QED
            BY <3>1, <3>2 DEF CutHolds, CutBy
    <2>3. hand' = NotHeld
        BY <2>1, IdleHand DEF DropPeer, beat
    <2>4. QED
        BY <2>2, <2>3 DEF CutHolds, HandHolds
<1>3. CASE \E n \in SybilSizes : InjectSybil(f, n)
    <2>1. PICK n \in SybilSizes : InjectSybil(f, n)
        BY <1>3
    <2>2. PICK new \in SUBSET Attackers :
             /\ \E victims \in [new -> Samples(Peers, Fanout)] :
                  mesh' = [q \in Ids |->
                            IF q \in new THEN {}
                            ELSE IF q \in Peers
                                 THEN mesh[q] \cup {s \in new : q \in victims[s]}
                                 ELSE mesh[q]]
             /\ faults' = [faults EXCEPT ![f] = [type |-> "sybil", ids |-> new]]
        BY <2>1 DEF InjectSybil
    <2>3. ASSUME NEW p \in Peers, NEW q \in Peers, Cut(p, q)'
          PROVE  q \notin mesh'[p]
        <3>1. Cut(p, q)
            <4>1. ~CutBy([type |-> "sybil", ids |-> new], p, q)
                BY DEF CutBy
            <4>2. QED
                BY <2>2, <2>3, <4>1, CutAfterInject
        <3>2. p \notin new /\ q \notin new
            BY PeersAssumption
        <3>3. mesh'[p] \subseteq mesh[p] \cup new
            BY <2>2, <3>2 DEF Ids
        <3>4. QED
            BY <3>1, <3>2, <3>3 DEF CutHolds
    <2>4. hand' = NotHeld
        BY <2>1, IdleHand DEF InjectSybil, beat
    <2>5. QED
        BY <2>3, <2>4 DEF CutHolds, HandHolds
<1>4. CASE \E t \in Peers, n \in EclipseSizes : InjectEclipse(f, t, n)
    <2>1. PICK t \in Peers, n \in EclipseSizes : InjectEclipse(f, t, n)
        BY <1>4
    <2>2. PICK new \in SUBSET Attackers :
             /\ mesh' = [q \in Ids |-> IF q = t THEN new
                                       ELSE IF q \in new THEN {t}
                                       ELSE mesh[q] \ {t}]
             /\ faults' = [faults EXCEPT ![f] =
                             [type |-> "eclipse", target |-> t, ids |-> new]]
        BY <2>1 DEF InjectEclipse
    <2>3. ASSUME NEW p \in Peers, NEW q \in Peers, Cut(p, q)'
          PROVE  q \notin mesh'[p]
        <3>1. Cut(p, q) \/ p = t \/ q = t
            <4>1. Cut(p, q) \/ CutBy([type |-> "eclipse", target |-> t, ids |-> new], p, q)
                BY <2>2, <2>3, CutAfterInject
            <4>2. QED
                BY <4>1 DEF CutBy
        <3>2. p \notin new /\ q \notin new
            BY PeersAssumption
        <3>3. mesh'[p] = IF p = t THEN new ELSE mesh[p] \ {t}
            BY <2>2, <3>2 DEF Ids
        <3>4. QED
            BY <3>1, <3>2, <3>3 DEF CutHolds
    <2>4. hand' = NotHeld
        BY <2>1, IdleHand DEF InjectEclipse, beat
    <2>5. QED
        BY <2>3, <2>4 DEF CutHolds, HandHolds
<1>5. QED
    BY <1>1, <1>2, <1>3, <1>4 DEF Inject

LEMMA CutUndo ==
    ASSUME CutInv, NEW fs, Undo(fs), TrioIdle, UNCHANGED beat
    PROVE  CutHolds' /\ HandHolds'
<1>1. ASSUME NEW p \in Peers, NEW q \in Peers, Cut(p, q)'
      PROVE  q \notin mesh'[p]
    <2>1. Cut(p, q)
        BY <1>1, CutAfterUndo
    <2>2. mesh'[p] \subseteq mesh[p]
        BY DEF Undo, Ids
    <2>3. QED
        BY <2>1, <2>2 DEF CutInv, CutHolds
<1>2. hand' = NotHeld
    BY IdleHand DEF CutInv, beat
<1>3. QED
    BY <1>1, <1>2 DEF CutHolds, HandHolds

LEMMA CutHeartbeat ==
    ASSUME CutInv, Heartbeat
    PROVE  CutHolds' /\ HandHolds'
<1>1. \A p, q \in Peers : Cut(p, q)' <=> Cut(p, q)
    BY DEF Heartbeat, HeartbeatBegin, HeartbeatSkip, HeartbeatRead, HeartbeatWrite,
           HeartbeatEnd, fault, Cut, is_peer_failed, is_partitioned, is_eclipsed, Active
<1>2. \A p, q \in Peers : LinkBlocked(p, q)' <=> LinkBlocked(p, q)
    BY DEF Heartbeat, HeartbeatBegin, HeartbeatSkip, HeartbeatRead, HeartbeatWrite,
           HeartbeatEnd, fault, LinkBlocked, is_peer_failed, is_partitioned, Active
<1> USE DEF CutInv
<1>3. CASE HeartbeatBegin
    <2>1. hand' = NotHeld /\ mesh' = mesh
        BY <1>3, IdleHand DEF HeartbeatBegin
    <2>2. QED
        BY <1>1, <2>1 DEF CutHolds, HandHolds
<1>4. ASSUME NEW p \in Peers, HeartbeatSkip(p) PROVE CutHolds' /\ HandHolds'
    <2>1. hand' = NotHeld /\ mesh' = mesh
        BY <1>4 DEF HeartbeatSkip
    <2>2. QED
        BY <1>1, <2>1 DEF CutHolds, HandHolds
<1>5. ASSUME NEW p \in Peers, HeartbeatRead(p) PROVE CutHolds' /\ HandHolds'
    <2>1. mesh' = mesh /\ beating' /\ topology[p] \subseteq Peers
        BY <1>5 DEF HeartbeatRead, TypeOK
    <2>2. /\ hand'.peer = p
          /\ hand'.mesh = mesh[p]
          /\ hand'.neighbors = {n \in topology[p] : ~LinkBlocked(p, n)}
        BY <1>5 DEF HeartbeatRead
    <2>3. \A q \in Peers : Cut(p, q)' => q \notin mesh[p]
        BY <1>1 DEF CutHolds
    <2>4. \A n \in hand'.neighbors : ~LinkBlocked(p, n)'
        BY <1>2, <2>1, <2>2
    <2>5. CutHolds'
        BY <1>1, <2>1 DEF CutHolds
    <2>6. HandHolds'
        BY <2>1, <2>2, <2>3, <2>4 DEF HandHolds
    <2>7. QED
        BY <2>5, <2>6
<1>6. CASE HeartbeatWrite
    <2>1. /\ hand # NotHeld
          /\ hand \in [peer : Peers, mesh : SUBSET Ids, neighbors : SUBSET Peers]
        BY <1>6 DEF HeartbeatWrite, TypeOK
    <2>2. PICK kept \in SUBSET hand.mesh, grafted \in SUBSET hand.neighbors :
             /\ \A c \in grafted : ~is_eclipsed(hand.peer, c)
             /\ mesh' = Maintained(hand.peer, kept, grafted)
        BY <1>6, WriteShape
    <2>3. \A c \in grafted : ~Cut(hand.peer, c) /\ ~Cut(c, hand.peer)
        <3>1. \A c \in grafted : c \in Peers /\ ~LinkBlocked(hand.peer, c)
            BY <2>1, <2>2 DEF HandHolds
        <3>2. \A c \in grafted : ~Cut(hand.peer, c)
            BY <2>2, <3>1 DEF Cut, LinkBlocked
        <3>3. QED
            BY <2>1, <3>1, <3>2, CutSymmetric
    <2>4. ASSUME NEW p \in Peers, NEW q \in Peers, Cut(p, q)
          PROVE  q \notin mesh'[p]
        <3>1. p \in Ids
            BY DEF Ids
        <3>2. CASE p = hand.peer
            <4>1. mesh'[p] = kept \cup grafted
                BY <2>2, <3>1, <3>2 DEF Maintained
            <4>2. q \notin kept
                BY <2>1, <2>2, <2>4, <3>2 DEF HandHolds
            <4>3. QED
                BY <2>3, <2>4, <3>2, <4>1, <4>2
        <3>3. CASE p # hand.peer /\ p \in grafted
            <4>1. mesh'[p] = mesh[p] \cup {hand.peer}
                BY <2>2, <3>1, <3>3 DEF Maintained
            <4>2. QED
                BY <2>3, <2>4, <3>3, <4>1 DEF CutHolds
        <3>4. CASE p # hand.peer /\ p \notin grafted
            <4>1. mesh'[p] = mesh[p]
                BY <2>2, <3>1, <3>4 DEF Maintained
            <4>2. QED
                BY <2>4, <4>1 DEF CutHolds
        <3>5. QED
            BY <3>2, <3>3, <3>4
    <2>5. hand' = NotHeld
        BY <1>6 DEF HeartbeatWrite
    <2>6. QED
        BY <1>1, <2>4, <2>5 DEF CutHolds, HandHolds
<1>7. CASE HeartbeatEnd
    <2>1. hand' = NotHeld /\ mesh' = mesh
        BY <1>7 DEF HeartbeatEnd
    <2>2. QED
        BY <1>1, <2>1 DEF CutHolds, HandHolds
<1>8. QED
    BY <1>3, <1>4, <1>5, <1>6, <1>7 DEF Heartbeat

\* As long as no partition names a peer on both sides and the topology stays,
\* the meshes keep every cut: no link across an active partition, none to or
\* from a dropped peer, none between an eclipsed peer and an honest one,
\* whatever the order of injections, clearances and heartbeats.
THEOREM CutSafety ==
    ASSUME \A g \in Partitions : g[1] \cap g[2] = {}
    PROVE  Spec => []FaultsIsolate
<1>1. Init => CutInv
    BY CutInit
<1>2. CutInv /\ [TrioNext]_vars => CutInv'
    <2> SUFFICES ASSUME CutInv, [TrioNext]_vars PROVE CutInv'
        OBVIOUS
    <2>1. TypeOK'
        BY TypeStep DEF CutInv
    <2>2. CASE Heartbeat
        BY <2>1, <2>2, CutHeartbeat DEF CutInv
    <2>3. ASSUME NEW f \in FaultIds, Inject(f) PROVE CutInv'
        BY <2>1, <2>3, CutInject DEF CutInv
    <2>4. ASSUME NEW f \in FaultIds, ClearFault(f) PROVE CutInv'
        BY <2>1, <2>4, CutUndo DEF CutInv, ClearFault
    <2>5. CASE ClearAll
        BY <2>1, <2>5, CutUndo DEF CutInv, ClearAll
    <2>6. CASE UNCHANGED vars
        BY <2>1, <2>6 DEF vars, CutInv, CutHolds, HandHolds, Cut, LinkBlocked,
                          is_peer_failed, is_partitioned, is_eclipsed, Active
    <2>7. QED
        BY <2>2, <2>3, <2>4, <2>5, <2>6 DEF TrioNext
<1>3. CutInv => FaultsIsolate
    BY DEF FaultsIsolate, CutInv, CutHolds, Cut, PartitionHolds, CrashedOutOfMesh, EclipseIsolates
<1>4. QED
    BY <1>1, <1>2, <1>3, PTL DEF Spec

----------------------------------------------------------------------------
(* The attackers' bookkeeping.                                              *)

\* AttackersBelongToFaults is kept by a clearance only if no other active fault
\* uses the same ids, and by a heartbeat only if what it has in hand names no
\* attacker that is gone.
BookInv ==
    /\ TypeOK
    /\ AttackersBelongToFaults
    /\ AttackerIdsUnique
    /\ hand # NotHeld => beating /\ hand.mesh \cap Attackers \subseteq members

LEMMA BookInit == Init => BookInv
<1> SUFFICES ASSUME Init PROVE BookInv
    OBVIOUS
<1>1. \A f \in FaultIds : FaultAttackers(f) = {}
    BY DEF Init, FaultAttackers, NoFault
<1>2. AttackerIds = {}
    BY <1>1 DEF AttackerIds
<1>3. \A q \in Ids : mesh[q] \cap Attackers = {}
    BY PeersAssumption DEF Init
<1>4. AttackersBelongToFaults
    BY <1>2, <1>3 DEF AttackersBelongToFaults, Init, Ids
<1>5. AttackerIdsUnique
    BY <1>1 DEF AttackerIdsUnique
<1>6. QED
    BY <1>4, <1>5, TypeInit DEF BookInv, Init

\* The ids of an injection are those of no active fault.
LEMMA NewIdsAreNew ==
    ASSUME NEW kind \in {"sybil", "eclipse"}, NEW n \in Nat \ {0}, NEW new,
           NextAttackerIds(kind, n, new)
    PROVE  new \cap AttackerIds = {} /\ new \subseteq Attackers
<1> DEFINE live == {i \in 0 .. MaxIndex : <<kind, i>> \in AttackerIds}
<1>1. PICK base \in 0 .. MaxIndex :
        /\ \A i \in live : i < base
        /\ base + n - 1 <= MaxIndex
        /\ new = {<<kind, i>> : i \in base .. base + n - 1}
    BY DEF NextAttackerIds
<1>2. ASSUME NEW a \in new PROVE a \notin AttackerIds /\ a \in Attackers
    <2>1. PICK i \in base .. base + n - 1 : a = <<kind, i>>
        BY <1>1, <1>2
    <2>2. i \in 0 .. MaxIndex /\ ~(i < base)
        BY <1>1, <2>1, InputAssumption
    <2>3. i \notin live
        BY <1>1, <2>2
    <2>4. QED
        BY <2>1, <2>2, <2>3 DEF Attackers
<1>3. QED
    BY <1>2

\* A fault put into a free slot adds its attackers to the live ones.
LEMMA AttackersAfterInject ==
    ASSUME BookInv, NEW f \in FaultIds, Free(f), NEW r, NEW new,
           faults' = [faults EXCEPT ![f] = r],
           (IF r.type \in {"sybil", "eclipse"} THEN r.ids ELSE {}) = new,
           new \cap AttackerIds = {}
    PROVE  AttackerIds' = AttackerIds \cup new /\ AttackerIdsUnique'
<1>1. ASSUME NEW g \in FaultIds
      PROVE  FaultAttackers(g)' = IF g = f THEN new ELSE FaultAttackers(g)
    <2>1. faults'[g] = IF g = f THEN r ELSE faults[g]
        BY DEF BookInv, TypeOK
    <2>2. FaultAttackers(g)' =
            IF faults'[g].type \in {"sybil", "eclipse"} THEN faults'[g].ids ELSE {}
        BY DEF FaultAttackers
    <2>3. QED
        BY <2>1, <2>2 DEF FaultAttackers
<1>2. FaultAttackers(f) = {}
    BY DEF Free, NoFault, FaultAttackers
<1>3. AttackerIds' = UNION {FaultAttackers(g)' : g \in FaultIds}
    BY DEF AttackerIds
<1>4. \A a : a \in AttackerIds' <=> a \in AttackerIds \/ a \in new
    BY <1>1, <1>2, <1>3 DEF AttackerIds
<1>5. \A g \in FaultIds : FaultAttackers(g) \subseteq AttackerIds
    BY DEF AttackerIds
<1>6. AttackerIdsUnique'
    <2> SUFFICES ASSUME NEW g \in FaultIds, NEW h \in FaultIds, g # h
                 PROVE  FaultAttackers(g)' \cap FaultAttackers(h)' = {}
        BY DEF AttackerIdsUnique
    <2>1. CASE g # f /\ h # f
        BY <1>1, <2>1 DEF BookInv, AttackerIdsUnique
    <2>2. CASE g = f
        BY <1>1, <1>5, <2>2
    <2>3. CASE h = f
        BY <1>1, <1>5, <2>3
    <2>4. QED
        BY <2>1, <2>2, <2>3
<1>7. QED
    BY <1>4, <1>6

LEMMA BookInject ==
    ASSUME BookInv, NEW f \in FaultIds, Inject(f)
    PROVE  AttackersBelongToFaults' /\ AttackerIdsUnique'
<1> USE DEF BookInv
<1>1. CASE \E g \in Partitions : InjectPartition(f, g[1], g[2])
    <2>1. PICK g \in Partitions : InjectPartition(f, g[1], g[2])
        BY <1>1
    <2>2. AttackerIds' = AttackerIds \cup {} /\ AttackerIdsUnique'
        <3> DEFINE r == [type |-> "partition", group_a |-> g[1], group_b |-> g[2]]
        <3>1. (IF r.type \in {"sybil", "eclipse"} THEN r.ids ELSE {}) = {}
            OBVIOUS
        <3>2. faults' = [faults EXCEPT ![f] = r] /\ Free(f)
            BY <2>1 DEF InjectPartition
        <3> HIDE DEF r
        <3>3. QED
            BY <3>1, <3>2, AttackersAfterInject
    <2>3. \A q \in Ids : mesh'[q] \subseteq mesh[q]
        BY <2>1 DEF InjectPartition
    <2>4. invalid' = invalid /\ members' = members
        BY <2>1 DEF InjectPartition
    <2>5. QED
        BY <2>2, <2>3, <2>4 DEF AttackersBelongToFaults, Ids
<1>2. CASE \E d \in Peers : DropPeer(f, d)
    <2>1. PICK d \in Peers : DropPeer(f, d)
        BY <1>2
    <2>2. AttackerIds' = AttackerIds \cup {} /\ AttackerIdsUnique'
        <3> DEFINE r == [type |-> "drop", peer |-> d]
        <3>1. (IF r.type \in {"sybil", "eclipse"} THEN r.ids ELSE {}) = {}
            OBVIOUS
        <3>2. faults' = [faults EXCEPT ![f] = r] /\ Free(f)
            BY <2>1 DEF DropPeer
        <3> HIDE DEF r
        <3>3. QED
            BY <3>1, <3>2, AttackersAfterInject
    <2>3. \A q \in Ids : mesh'[q] \subseteq mesh[q]
        BY <2>1 DEF DropPeer
    <2>4. invalid' = invalid /\ members' = members
        BY <2>1 DEF DropPeer
    <2>5. QED
        BY <2>2, <2>3, <2>4 DEF AttackersBelongToFaults, Ids
<1>3. CASE \E n \in SybilSizes : InjectSybil(f, n)
    <2>1. PICK n \in SybilSizes : InjectSybil(f, n)
        BY <1>3
    <2>2. PICK new \in SUBSET Attackers :
             /\ NextAttackerIds("sybil", n, new)
             /\ \E victims \in [new -> Samples(Peers, Fanout)] :
                  mesh' = [q \in Ids |->
                            IF q \in new THEN {}
                            ELSE IF q \in Peers
                                 THEN mesh[q] \cup {s \in new : q \in victims[s]}
                                 ELSE mesh[q]]
             /\ members' = members \cup new
             /\ faults' = [faults EXCEPT ![f] = [type |-> "sybil", ids |-> new]]
        BY <2>1 DEF InjectSybil
    <2>3. n \in Nat \ {0}
        BY InputAssumption
    <2>4. new \cap AttackerIds = {}
        BY <2>2, <2>3, NewIdsAreNew
    <2>5. AttackerIds' = AttackerIds \cup new /\ AttackerIdsUnique'
        BY <2>1, <2>2, <2>4, AttackersAfterInject DEF InjectSybil
    <2>6. \A q \in Ids : mesh'[q] \subseteq mesh[q] \cup new
        BY <2>2
    <2>7. \A a \in Attackers \ members' : mesh'[a] = mesh[a]
        BY <2>2, PeersAssumption DEF Ids
    <2>8. invalid' = invalid
        BY <2>1 DEF InjectSybil
    <2>9. QED
        BY <2>2, <2>5, <2>6, <2>7, <2>8 DEF AttackersBelongToFaults
<1>4. CASE \E t \in Peers, n \in EclipseSizes : InjectEclipse(f, t, n)
    <2>1. PICK t \in Peers, n \in EclipseSizes : InjectEclipse(f, t, n)
        BY <1>4
    <2>2. PICK new \in SUBSET Attackers :
             /\ NextAttackerIds("eclipse", n, new)
             /\ mesh' = [q \in Ids |-> IF q = t THEN new
                                       ELSE IF q \in new THEN {t}
                                       ELSE mesh[q] \ {t}]
             /\ members' = members \cup new
             /\ faults' = [faults EXCEPT ![f] =
                             [type |-> "eclipse", target |-> t, ids |-> new]]
        BY <2>1 DEF InjectEclipse
    <2>3. n \in Nat \ {0}
        BY InputAssumption
    <2>4. new \cap AttackerIds = {}
        BY <2>2, <2>3, NewIdsAreNew
    <2>5. AttackerIds' = AttackerIds \cup new /\ AttackerIdsUnique'
        BY <2>1, <2>2, <2>4, AttackersAfterInject DEF InjectEclipse
    <2>6. \A q \in Ids : mesh'[q] \cap Attackers \subseteq mesh[q] \cup new
        BY <2>2, PeersAssumption
    <2>7. \A a \in Attackers \ members' : mesh'[a] \subseteq mesh[a]
        BY <2>2, PeersAssumption DEF Ids
    <2>8. invalid' = invalid
        BY <2>1 DEF InjectEclipse
    <2>9. QED
        BY <2>2, <2>5, <2>6, <2>7, <2>8 DEF AttackersBelongToFaults
<1>5. QED
    BY <1>1, <1>2, <1>3, <1>4 DEF Inject

LEMMA BookUndo ==
    ASSUME BookInv, NEW fs \in SUBSET FaultIds, Undo(fs)
    PROVE  AttackersBelongToFaults' /\ AttackerIdsUnique'
<1> DEFINE gone == UNION {FaultAttackers(f) : f \in fs}
<1>1. ASSUME NEW g \in FaultIds
      PROVE  FaultAttackers(g)' = IF g \in fs THEN {} ELSE FaultAttackers(g)
    <2>1. faults'[g] = IF g \in fs THEN NoFault ELSE faults[g]
        BY DEF Undo
    <2>2. FaultAttackers(g)' =
            IF faults'[g].type \in {"sybil", "eclipse"} THEN faults'[g].ids ELSE {}
        BY DEF FaultAttackers
    <2>3. QED
        BY <2>1, <2>2 DEF FaultAttackers, NoFault
<1>2. AttackerIdsUnique'
    BY <1>1 DEF BookInv, AttackerIdsUnique
<1>3. \A a : a \in AttackerIds' <=> a \in AttackerIds \ gone
    <2>1. AttackerIds' = UNION {FaultAttackers(g)' : g \in FaultIds}
        BY DEF AttackerIds
    <2>2. \A a : a \in AttackerIds' <=> \E g \in FaultIds \ fs : a \in FaultAttackers(g)
        BY <1>1, <2>1
    <2>3. \A a : a \in AttackerIds <=> \E g \in FaultIds : a \in FaultAttackers(g)
        BY DEF AttackerIds
    <2>4. \A a : a \in gone <=> \E g \in fs : a \in FaultAttackers(g)
        OBVIOUS
    <2>5. \A g \in FaultIds \ fs, h \in fs : FaultAttackers(g) \cap FaultAttackers(h) = {}
        BY DEF BookInv, AttackerIdsUnique
    <2> HIDE DEF gone
    <2>6. QED
        BY <2>2, <2>3, <2>4, <2>5
<1>4. /\ members' = members \ gone
      /\ mesh' = [q \in Ids |-> IF q \in gone THEN {} ELSE mesh[q] \ gone]
      /\ invalid' = [q \in Ids |-> IF q \in gone THEN 0 ELSE invalid[q]]
    BY DEF Undo
<1> HIDE DEF gone
<1>5. members' = AttackerIds'
    BY <1>3, <1>4 DEF BookInv, AttackersBelongToFaults
<1>6. \A q \in Ids : mesh'[q] \cap Attackers \subseteq members'
    BY <1>4 DEF BookInv, AttackersBelongToFaults
<1>7. \A a \in Attackers \ members' : mesh'[a] = {} /\ invalid'[a] = 0
    BY <1>4 DEF BookInv, AttackersBelongToFaults, Ids
<1>8. QED
    BY <1>2, <1>5, <1>6, <1>7 DEF AttackersBelongToFaults

\* Steps that leave the faults alone keep who is an attacker.
LEMMA BookUnchanged ==
    ASSUME BookInv, UNCHANGED fault
    PROVE  members' = AttackerIds' /\ AttackerIdsUnique'
BY DEF BookInv, fault, AttackersBelongToFaults, AttackerIds, AttackerIdsUnique, FaultAttackers

LEMMA BookHeartbeat ==
    ASSUME BookInv, Heartbeat
    PROVE  BookInv'
<1>1. TypeOK'
    BY TypeHeartbeat DEF BookInv
<1>2. UNCHANGED fault
    BY DEF Heartbeat, HeartbeatBegin, HeartbeatSkip, HeartbeatRead, HeartbeatWrite,
           HeartbeatEnd
<1>3. members' = AttackerIds' /\ AttackerIdsUnique' /\ members' = members
    BY <1>2, BookUnchanged DEF fault
<1> USE DEF BookInv
<1>4. CASE HeartbeatBegin
    <2>1. \A a \in Attackers \ members : invalid'[a] = 0
        BY <1>4 DEF HeartbeatBegin, Spammers, AttackersBelongToFaults, Ids
    <2>2. mesh' = mesh /\ hand' = hand /\ beating'
        BY <1>4 DEF HeartbeatBegin
    <2>3. AttackersBelongToFaults'
        BY <1>3, <2>1, <2>2 DEF AttackersBelongToFaults
    <2>4. QED
        BY <1>1, <1>3, <2>2, <2>3
<1>5. ASSUME NEW p \in Peers, HeartbeatSkip(p) PROVE BookInv'
    BY <1>1, <1>3, <1>5 DEF HeartbeatSkip, AttackersBelongToFaults
<1>6. ASSUME NEW p \in Peers, HeartbeatRead(p) PROVE BookInv'
    <2>1. hand'.mesh = mesh[p] /\ beating' /\ mesh' = mesh /\ invalid' = invalid
        BY <1>6 DEF HeartbeatRead
    <2>2. hand'.mesh \cap Attackers \subseteq members'
        BY <1>3, <2>1 DEF AttackersBelongToFaults, Ids
    <2>3. AttackersBelongToFaults'
        BY <1>3, <2>1 DEF AttackersBelongToFaults
    <2>4. QED
        BY <1>1, <1>3, <2>1, <2>2, <2>3
<1>7. CASE HeartbeatWrite
    <2>1. /\ hand # NotHeld
          /\ hand \in [peer : Peers, mesh : SUBSET Ids, neighbors : SUBSET Peers]
        BY <1>7 DEF HeartbeatWrite, TypeOK
    <2>2. PICK kept \in SUBSET hand.mesh, grafted \in SUBSET hand.neighbors :
             mesh' = Maintained(hand.peer, kept, grafted)
        BY <1>7, WriteShape
    <2>3. \A q \in Ids : mesh'[q] \cap Attackers \subseteq members
        BY <2>1, <2>2, PeersAssumption DEF Maintained, AttackersBelongToFaults
    <2>4. \A a \in Attackers : mesh'[a] = mesh[a]
        BY <2>1, <2>2, PeersAssumption DEF Maintained, Ids
    <2>5. hand' = NotHeld /\ invalid' = invalid
        BY <1>7 DEF HeartbeatWrite
    <2>6. AttackersBelongToFaults'
        BY <1>3, <2>3, <2>4, <2>5 DEF AttackersBelongToFaults
    <2>7. QED
        BY <1>1, <1>3, <2>5, <2>6
<1>8. CASE HeartbeatEnd
    <2>1. hand' = NotHeld /\ mesh' = mesh /\ invalid' = invalid
        BY <1>8 DEF HeartbeatEnd
    <2>2. QED
        BY <1>1, <1>3, <2>1 DEF AttackersBelongToFaults
<1>9. QED
    BY <1>4, <1>5, <1>6, <1>7, <1>8 DEF Heartbeat

LEMMA BookRewire ==
    ASSUME BookInv, Rewire
    PROVE  BookInv'
<1>1. TypeOK'
    BY TypeRewire DEF BookInv
<1>2. UNCHANGED <<fault, invalid, beat>>
    BY DEF Rewire, SetTopology, Resubscribe
<1>3. members' = AttackerIds' /\ AttackerIdsUnique' /\ members' = members
    BY <1>2, BookUnchanged DEF fault
<1>4. CASE \E t \in Topologies : SetTopology(t)
    BY <1>1, <1>2, <1>3, <1>4 DEF SetTopology, BookInv, AttackersBelongToFaults, beat
<1>5. CASE \E p \in Peers : Resubscribe(p)
    <2>1. PICK p \in Peers : Resubscribe(p)
        BY <1>5
    <2>2. PICK sample \in SUBSET Peers : mesh' = [mesh EXCEPT ![p] = sample]
        BY <2>1, SampleIsSubset DEF Resubscribe, BookInv, TypeOK
    <2>3. \A q \in Ids : mesh'[q] \cap Attackers \subseteq members
        BY <2>2, PeersAssumption DEF BookInv, AttackersBelongToFaults, TypeOK
    <2>4. \A a \in Attackers : mesh'[a] = mesh[a]
        BY <2>2, PeersAssumption DEF BookInv, TypeOK, Ids
    <2>5. AttackersBelongToFaults'
        BY <1>2, <1>3, <2>3, <2>4 DEF AttackersBelongToFaults, BookInv
    <2>6. QED
        BY <1>1, <1>2, <1>3, <2>5 DEF BookInv, beat
<1>6. QED
    BY <1>4, <1>5 DEF Rewire

\* An attacker's every trace belongs to an active fault, and no two active
\* faults share an attacker, even when topologies are applied in between or in
\* the middle of a heartbeat.
THEOREM AttackerBookkeeping == SpecRewire => []AttackersAccounted
<1>1. Init => BookInv
    BY BookInit
<1>2. BookInv /\ [TrioNext \/ Rewire]_vars => BookInv'
    <2> SUFFICES ASSUME BookInv, [TrioNext \/ Rewire]_vars PROVE BookInv'
        OBVIOUS
    <2>1. TypeOK'
        BY TypeStep DEF BookInv
    <2>2. CASE Heartbeat
        BY <2>2, BookHeartbeat
    <2>3. CASE Rewire
        BY <2>3, BookRewire
    <2>4. ASSUME TrioIdle, UNCHANGED beat, AttackersBelongToFaults', AttackerIdsUnique'
          PROVE  BookInv'
        BY <2>1, <2>4 DEF BookInv, TrioIdle, beat
    <2>5. ASSUME NEW f \in FaultIds, Inject(f) PROVE BookInv'
        <3>1. TrioIdle /\ UNCHANGED beat
            BY <2>5 DEF Inject, InjectPartition, DropPeer, InjectSybil, InjectEclipse
        <3>2. QED
            BY <2>4, <2>5, <3>1, BookInject
    <2>6. ASSUME NEW f \in FaultIds, ClearFault(f) PROVE BookInv'
        BY <2>4, <2>6, BookUndo DEF ClearFault
    <2>7. CASE ClearAll
        BY <2>4, <2>7, BookUndo DEF ClearAll
    <2>8. CASE UNCHANGED vars
        BY <2>1, <2>8 DEF vars, BookInv, AttackersBelongToFaults, AttackerIdsUnique,
                          AttackerIds, FaultAttackers
    <2>9. QED
        BY <2>2, <2>3, <2>5, <2>6, <2>7, <2>8 DEF TrioNext
<1>3. QED
    <2>1. BookInv => AttackersAccounted
        BY DEF BookInv, AttackersAccounted
    <2>2. QED
        BY <1>1, <1>2, <2>1, PTL DEF SpecRewire

----------------------------------------------------------------------------
(* What is pruned stays out.                                                *)

\* A heartbeat writes back what it read of a mesh: nothing has left it meanwhile, or it would come back.
PrunedInv == BookInv /\ (hand # NotHeld => hand.mesh \subseteq mesh[hand.peer])

LEMMA PrunedStep ==
    ASSUME PrunedInv, [TrioNext]_vars
    PROVE  /\ PrunedInv'
           /\ \A p \in Peers, a \in members \cap members' : a \notin mesh[p] => a \notin mesh'[p]
<1> DEFINE NoneBack == \A p \in Peers, a \in members \cap members' : a \notin mesh[p] => a \notin mesh'[p]
<1>0. \A p \in Peers : p \in Ids /\ p \notin Attackers
    BY PeersAssumption DEF Ids
<1>1. BookInv' /\ members \subseteq Attackers /\ members = AttackerIds
    <2>1. TypeOK'
        BY TypeStep DEF PrunedInv, BookInv
    <2>2. ASSUME NEW f \in FaultIds, Inject(f) PROVE BookInv'
        <3>1. TrioIdle /\ UNCHANGED beat
            BY <2>2 DEF Inject, InjectPartition, DropPeer, InjectSybil, InjectEclipse
        <3>2. QED
            BY <2>1, <2>2, <3>1, BookInject DEF PrunedInv, BookInv, TrioIdle, beat
    <2>3. ASSUME NEW f \in FaultIds, ClearFault(f) PROVE BookInv'
        BY <2>1, <2>3, BookUndo DEF PrunedInv, BookInv, ClearFault, TrioIdle, beat
    <2>4. ASSUME ClearAll PROVE BookInv'
        BY <2>1, <2>4, BookUndo DEF PrunedInv, BookInv, ClearAll, TrioIdle, beat
    <2>5. ASSUME UNCHANGED vars PROVE BookInv'
        BY <2>1, <2>5 DEF PrunedInv, vars, BookInv, AttackersBelongToFaults, AttackerIdsUnique,
                          AttackerIds, FaultAttackers
    <2>6. BookInv'
        BY <2>2, <2>3, <2>4, <2>5, BookHeartbeat DEF PrunedInv, TrioNext
    <2>7. QED
        BY <2>6 DEF PrunedInv, BookInv, TypeOK, AttackersBelongToFaults
<1>2. CASE HeartbeatWrite
    <2>1. /\ hand # NotHeld /\ hand' = NotHeld
          /\ hand \in [peer : Peers, mesh : SUBSET Ids, neighbors : SUBSET Peers]
        BY <1>2 DEF HeartbeatWrite, PrunedInv, BookInv, TypeOK
    <2>2. PICK kept \in SUBSET hand.mesh, grafted \in SUBSET hand.neighbors :
             mesh' = Maintained(hand.peer, kept, grafted)
        BY <1>2, WriteShape
    <2>3. \A p \in Peers : mesh'[p] \cap Attackers \subseteq mesh[p]
        BY <1>0, <2>1, <2>2 DEF Maintained, PrunedInv
    <2>4. QED
        BY <1>1, <2>1, <2>3 DEF PrunedInv
<1>3. ASSUME NEW p \in Peers, HeartbeatRead(p) PROVE PrunedInv' /\ NoneBack
    BY <1>1, <1>3 DEF HeartbeatRead, PrunedInv
<1>4. CASE HeartbeatBegin \/ HeartbeatEnd \/ UNCHANGED vars \/ \E p \in Peers : HeartbeatSkip(p)
    <2>1. mesh' = mesh /\ hand' = hand
        BY <1>4 DEF HeartbeatBegin, HeartbeatEnd, HeartbeatSkip, vars, beat
    <2>2. QED
        BY <1>1, <2>1 DEF PrunedInv
<1>5. ASSUME TrioIdle, hand' = hand, NoneBack PROVE PrunedInv' /\ NoneBack
    BY <1>1, <1>5 DEF PrunedInv, BookInv, TrioIdle
<1>6. ASSUME NEW f \in FaultIds, Inject(f) PROVE PrunedInv' /\ NoneBack
    <2>1. TrioIdle /\ hand' = hand
        BY <1>6 DEF Inject, InjectPartition, DropPeer, InjectSybil, InjectEclipse, beat
    <2>2. ASSUME NEW new, new \cap AttackerIds = {},
                 \A p \in Peers : mesh'[p] \cap Attackers \subseteq mesh[p] \cup new
          PROVE  NoneBack
        BY <1>1, <2>2
    <2>3. CASE \E g \in Partitions : InjectPartition(f, g[1], g[2])
        <3>1. \A p \in Peers : mesh'[p] \subseteq mesh[p]
            BY <1>0, <2>3 DEF InjectPartition
        <3>2. QED
            BY <1>5, <2>1, <3>1
    <2>4. CASE \E d \in Peers : DropPeer(f, d)
        <3>1. \A p \in Peers : mesh'[p] \subseteq mesh[p]
            BY <1>0, <2>4 DEF DropPeer
        <3>2. QED
            BY <1>5, <2>1, <3>1
    <2>5. ASSUME NEW n \in SybilSizes, InjectSybil(f, n) PROVE NoneBack
        <3>1. PICK new \in SUBSET Attackers :
                 /\ NextAttackerIds("sybil", n, new)
                 /\ \E victims \in [new -> Samples(Peers, Fanout)] :
                      mesh' = [q \in Ids |->
                                IF q \in new THEN {}
                                ELSE IF q \in Peers
                                     THEN mesh[q] \cup {s \in new : q \in victims[s]}
                                     ELSE mesh[q]]
            BY <2>5 DEF InjectSybil
        <3>2. new \cap AttackerIds = {}
            BY <3>1, InputAssumption, NewIdsAreNew
        <3>3. \A p \in Peers : mesh'[p] \subseteq mesh[p] \cup new
            BY <1>0, <3>1
        <3>4. QED
            BY <2>2, <3>2, <3>3
    <2>6. ASSUME NEW t \in Peers, NEW n \in EclipseSizes, InjectEclipse(f, t, n) PROVE NoneBack
        <3>1. PICK new \in SUBSET Attackers :
                 /\ NextAttackerIds("eclipse", n, new)
                 /\ mesh' = [q \in Ids |-> IF q = t THEN new
                                           ELSE IF q \in new THEN {t}
                                           ELSE mesh[q] \ {t}]
            BY <2>6 DEF InjectEclipse
        <3>2. new \cap AttackerIds = {}
            BY <3>1, InputAssumption, NewIdsAreNew
        <3>3. \A p \in Peers : mesh'[p] \cap Attackers \subseteq mesh[p] \cup new
            BY <1>0, <3>1
        <3>4. QED
            BY <2>2, <3>2, <3>3
    <2>7. QED
        BY <1>5, <1>6, <2>1, <2>3, <2>4, <2>5, <2>6 DEF Inject
<1>7. ASSUME NEW fs \in SUBSET FaultIds, Undo(fs), TrioIdle, UNCHANGED beat PROVE PrunedInv' /\ NoneBack
    <2>1. \A p \in Peers : mesh'[p] \subseteq mesh[p]
        BY <1>0, <1>7 DEF Undo
    <2>2. QED
        BY <1>5, <1>7, <2>1 DEF beat
<1> HIDE DEF NoneBack
<1>8. PrunedInv' /\ NoneBack
    BY <1>2, <1>3, <1>4, <1>6, <1>7 DEF TrioNext, Heartbeat, ClearFault, ClearAll, NoneBack
<1>9. QED
    BY <1>8 DEF NoneBack

\* A spammer that a heartbeat has pruned from an honest mesh does not come back into it, by no heartbeat and by
\* no later injection or clearance, for as long as it is there.
THEOREM PrunedForGood == Spec => PrunedStaysOut
<1>1. Init => PrunedInv
    BY BookInit DEF Init, PrunedInv
<1>2. PrunedInv /\ [TrioNext]_vars => PrunedInv'
    BY PrunedStep
<1>3. PrunedInv /\ [TrioNext]_vars =>
          [\A p \in Peers, a \in members \cap members' : a \notin mesh[p] => a \notin mesh'[p]]_vars
    BY PrunedStep
<1>4. QED
    BY <1>1, <1>2, <1>3, PTL DEF Spec, PrunedStaysOut

----------------------------------------------------------------------------
(* The relay: its invariant.                                                *)

\* What a relay is made of; there is one run, as RelaySpec has no resets.
RelayTypes ==
    /\ run = 1 /\ ~resetting /\ published \in 0 .. MaxMsgs
    /\ traces \in [Msgs -> Trace \cup {NoTrace}]
    /\ \A m \in Msgs : Live(m) => m <= published /\ traces[m] \in Trace /\ traces[m].run = 1
    /\ \A m \in 1 .. published : Live(m)
    /\ seen \in [Ids -> SUBSET (1 .. published)]
    /\ wanted \in [Ids -> SUBSET (1 .. published)]
    /\ relays \subseteq Relay
    /\ \A r \in relays : r.msg <= published /\ r.run \in {0, 1}
    /\ held # NoRelay => held \in Relay /\ held.run = 1 /\ held.msg <= published /\ TrioIdle
    /\ behind \in [Msgs -> SUBSET FaultIds]

\* Nobody wants what it has, and attackers want nothing.
WantsInv ==
    /\ \A q \in Ids : wanted[q] \cap seen[q] = {}
    /\ \A a \in Attackers : wanted[a] = {}

\* A relay asleep is the only way its message takes to its peer.
AsleepInv ==
    /\ \A r \in Asleep : r.to \in Peers => r.to \notin Delivered(r.msg)
    /\ \A r, s \in Asleep : r.to \in Peers /\ s.to = r.to /\ s.msg = r.msg => s = r

\* Who passes a message on has it.
FromInv ==
    /\ \A r \in relays : r.from \in Peers => r.msg \in seen[r.from]
    /\ held # NoRelay /\ held.from \in Peers => held.msg \in seen[held.from]

RelayInv ==
    TypeOK /\ RelayTypes /\ WantsInv /\ AsleepInv /\ FromInv /\ DeliveredOnce /\ NothingLost

\* Those that have a message, or are about to, are where the fault that it was published behind lets it go.
SideInv ==
    \A m \in Msgs : Live(m) =>
        \A f \in behind[m] :
            /\ \A side \in Sides(f) :
                    traces[m].origin \in side /\ ~Bridged(m) =>
                        \A p \in Peers : m \in seen[p] => p \in side
            /\ faults[f].type = "drop" /\ m \in seen[faults[f].peer] => traces[m].origin = faults[f].peer

\* No relay asleep is between the target of such an eclipse and a peer.
LazyInv ==
    \A r \in Asleep : \A f \in behind[r.msg] :
        faults[f].type = "eclipse" /\ {r.to, r.from} \subseteq Peers => faults[f].target \notin {r.to, r.from}

ContainInv == RelayInv /\ SideInv /\ LazyInv /\ EclipseLeavesLazyOnly

----------------------------------------------------------------------------
(* The mesh below.                                                          *)

\* Whatever it does to messages, a step is one of the mesh or leaves the mesh alone.
LEMMA RelayStepIsMeshStep ==
    ASSUME [RelayNext]_relayVars
    PROVE  [TrioNext]_vars
<1>1. CASE \E o \in Peers : Publish(o)
    BY <1>1 DEF Publish
<1>2. CASE Relaying
    BY <1>2 DEF Relaying, RelayLookUp, RelayTakeOff, RelayLand
<1>3. CASE QuietBeat
    BY <1>3 DEF QuietBeat, TrioNext, Heartbeat
<1>4. CASE MaintainAndAnnounce
    BY <1>4 DEF MaintainAndAnnounce, TrioNext, Heartbeat
<1>5. CASE ServeWants
    BY <1>5 DEF ServeWants, TrioNext, Heartbeat
<1>6. CASE FaultStep(AnyFault)
    BY <1>6 DEF FaultStep, AnyFault, TrioNext
<1>7. CASE UNCHANGED relayVars
    BY <1>7 DEF relayVars
<1>8. QED
    BY <1>1, <1>2, <1>3, <1>4, <1>5, <1>6, <1>7 DEF RelayNext, Beating

LEMMA RelayInitIsMeshInit == RelayInit => Init
BY DEF RelayInit

----------------------------------------------------------------------------
(* Traces.                                                                  *)

LEMMA TraceIsThere ==
    ASSUME NEW t \in Trace
    PROVE  /\ t # NoTrace
           /\ t.origin \in Peers /\ t.run \in Runs /\ t.hops \in SUBSET Hop
           /\ t = [origin |-> t.origin, run |-> t.run, hops |-> t.hops]
<1>1. DOMAIN t = {"origin", "run", "hops"} /\ DOMAIN NoTrace = {"origin"}
    BY DEF Trace, NoTrace
<1>2. "run" \in DOMAIN t /\ "run" \notin DOMAIN NoTrace
    BY <1>1
<1>3. QED
    BY <1>2 DEF Trace

LEMMA SameTrace ==
    ASSUME NEW m, traces'[m] = traces[m]
    PROVE  (Live(m)' <=> Live(m)) /\ Delivered(m)' = Delivered(m)
BY DEF Live, Delivered

\* A trace that hops are added to.
LEMMA LongerTrace ==
    ASSUME NEW m, Live(m), traces[m] \in Trace, NEW new \in SUBSET Hop,
           traces'[m] = [traces[m] EXCEPT !.hops = @ \cup new]
    PROVE  /\ traces'[m] \in Trace /\ Live(m)'
           /\ traces'[m].origin = traces[m].origin /\ traces'[m].run = traces[m].run
           /\ traces'[m].hops = traces[m].hops \cup new
           /\ Delivered(m)' = Delivered(m) \cup {h.to : h \in new}
<1>1. traces'[m] \in Trace
    BY DEF Trace
<1>2. /\ traces'[m].origin = traces[m].origin /\ traces'[m].run = traces[m].run
      /\ traces'[m].hops = traces[m].hops \cup new
    BY DEF Trace
<1>3. traces'[m] # NoTrace
    BY <1>1, TraceIsThere
<1>4. QED
    BY <1>1, <1>2, <1>3 DEF Live, Delivered

\* Hops to peers that have not got the message, one to each, bring it to nobody twice.
LEMMA OnceMore ==
    ASSUME NEW m, Live(m), traces[m] \in Trace, NEW new \in SUBSET Hop,
           traces'[m] = [traces[m] EXCEPT !.hops = @ \cup new],
           \A h \in traces[m].hops :
               /\ h.to # traces[m].origin
               /\ \A g \in traces[m].hops : g.to = h.to /\ g.to \in Peers => g = h,
           \A h \in new : h.to \in Peers => h.to \notin Delivered(m),
           \A g, h \in new : g.to = h.to => g = h
    PROVE  \A h \in traces'[m].hops :
               /\ h.to # traces'[m].origin
               /\ \A g \in traces'[m].hops : g.to = h.to /\ g.to \in Peers => g = h
<1>1. traces'[m].origin = traces[m].origin /\ traces'[m].hops = traces[m].hops \cup new /\ traces[m].origin \in Peers
    BY LongerTrace, TraceIsThere
<1>2. \A h \in new : h.to # traces[m].origin
    BY <1>1 DEF Delivered
<1>3. \A g \in traces[m].hops, h \in new : g.to = h.to => h.to \notin Peers
    BY DEF Delivered
<1>4. QED
    BY <1>1, <1>2, <1>3

LEMMA PeersAreNoAttackers ==
    /\ \A p \in Peers : p \in Ids /\ p \notin Attackers
    /\ \A q \in Ids : q \in Peers \/ q \in Attackers
BY PeersAssumption DEF Ids

----------------------------------------------------------------------------
(* The steps.                                                               *)

LEMMA RelayInitInv == RelayInit => ContainInv
<1> SUFFICES ASSUME RelayInit PROVE ContainInv
    OBVIOUS
<1>1. TypeOK /\ beating = FALSE
    BY TypeInit DEF RelayInit, Init
<1>2. \A m \in Msgs : ~Live(m)
    BY DEF RelayInit, Live
<1>3. RelayTypes
    <2>1. 0 \in 0 .. MaxMsgs
        BY RelayAssumption
    <2>2. 1 .. 0 = {}
        OBVIOUS
    <2>3. QED
        BY <1>2, <2>1, <2>2 DEF RelayInit, RelayTypes
<1>4. WantsInv /\ AsleepInv /\ FromInv /\ LazyInv
    BY PeersAreNoAttackers DEF RelayInit, WantsInv, AsleepInv, FromInv, LazyInv, Asleep, Ids
<1>5. DeliveredOnce /\ NothingLost /\ SideInv /\ EclipseLeavesLazyOnly
    BY <1>2 DEF DeliveredOnce, NothingLost, SideInv, EclipseLeavesLazyOnly
<1>6. QED
    BY <1>1, <1>3, <1>4, <1>5 DEF ContainInv, RelayInv

LEMMA PublishInv ==
    ASSUME RelayInv, TypeOK', NEW o \in Peers, Publish(o)
    PROVE  RelayInv'
<1>0. PICK m \in Msgs : m = published + 1 /\ published \in Nat
    BY RelayAssumption DEF Publish, RelayInv, RelayTypes, Msgs
<1> DEFINE t == [origin |-> o, run |-> run, hops |-> {}]
           new == {[msg |-> m, from |-> o, to |-> n, run |-> 0] : n \in topology[o]}
<1>1. /\ held = NoRelay /\ TrioIdle /\ published < MaxMsgs /\ published' = m
      /\ traces' = [traces EXCEPT ![m] = t] /\ seen' = [seen EXCEPT ![o] = @ \cup {m}]
      /\ relays' = relays \cup new
      /\ behind' = [behind EXCEPT ![m] = {f \in FaultIds : ~Free(f)}]
      /\ UNCHANGED <<vars, run, wanted, held, resetting>>
    BY <1>0 DEF Publish, Settled
<1>2. m \in Msgs /\ m \in 1 .. published' /\ published \in Nat /\ run = 1 /\ 1 \in Runs /\ published' \in 0 .. MaxMsgs
    BY <1>0, <1>1, RelayAssumption DEF RelayInv, RelayTypes, Msgs, Runs
<1>3. t \in Trace /\ t.run = 1 /\ t # NoTrace
    BY <1>2, TraceIsThere DEF Trace
<1>4. new \subseteq Relay /\ \A r \in new : r.msg = m /\ r.run = 0 /\ r.from = o
    <2>1. topology[o] \subseteq Ids /\ o \in Ids
        BY DEF RelayInv, TypeOK, Ids
    <2>2. QED
        BY <1>2, <2>1 DEF Relay
<1>5. /\ traces'[m] = t /\ Live(m)'
      /\ Delivered(m)' = {o}
      /\ \A n \in Msgs \ {m} : traces'[n] = traces[n]
    <2>1. traces \in [Msgs -> Trace \cup {NoTrace}]
        BY DEF RelayInv, RelayTypes
    <2>2. traces'[m] = t /\ \A n \in Msgs \ {m} : traces'[n] = traces[n]
        BY <1>1, <2>1
    <2>3. Live(m)'
        BY <1>3, <2>2 DEF Live
    <2>4. Delivered(m)' = {o}
        BY <2>2, <2>3 DEF Delivered
    <2>5. QED
        BY <2>2, <2>3, <2>4
<1>6. Asleep' = Asleep /\ \A r \in Asleep : r.msg # m /\ r.msg \in Msgs
    <2>1. \A r \in new : r \notin Asleep'
        BY <1>1, <1>4 DEF Asleep, Scheduled
    <2>2. \A r \in relays : r \in Asleep' <=> r \in Asleep
        BY <1>1 DEF Asleep, Scheduled
    <2>3. \A r \in relays : r.msg # m /\ r.msg \in Msgs
        <3>1. \A r \in relays : r.msg \in Msgs /\ r.msg <= published
            BY DEF RelayInv, RelayTypes, Relay
        <3>2. QED
            BY <1>0, <3>1, RelayAssumption DEF Msgs
    <2>4. QED
        BY <1>1, <2>1, <2>2, <2>3 DEF Asleep, Scheduled
<1>7. \A q \in Ids : seen'[q] = (IF q = o THEN seen[q] \cup {m} ELSE seen[q]) /\ m \notin seen[q] /\ m \notin wanted[q]
    <2>1. \A q \in Ids : seen'[q] = IF q = o THEN seen[q] \cup {m} ELSE seen[q]
        BY <1>1 DEF RelayInv, RelayTypes
    <2>2. m \notin 1 .. published
        BY <1>0
    <2>3. QED
        BY <2>1, <2>2 DEF RelayInv, RelayTypes
<1> HIDE DEF t, new
<1>8. RelayTypes'
    <2>1. /\ traces' \in [Msgs -> Trace \cup {NoTrace}]
          /\ \A n \in Msgs : Live(n)' => n <= published' /\ traces'[n] \in Trace /\ traces'[n].run = 1
          /\ \A n \in 1 .. published' : Live(n)'
        <3>1. traces' \in [Msgs -> Trace \cup {NoTrace}]
            BY <1>1, <1>3 DEF RelayInv, RelayTypes
        <3>2. ASSUME NEW n \in Msgs, Live(n)'
              PROVE  n <= published' /\ traces'[n] \in Trace /\ traces'[n].run = 1
            <4>1. CASE n = m
                BY <1>1, <1>2, <1>3, <1>5, <4>1
            <4>2. CASE n # m
                <5>1. Live(n) /\ traces'[n] = traces[n]
                    BY <1>5, <3>2, <4>2, SameTrace
                <5>2. n <= published /\ traces[n] \in Trace /\ traces[n].run = 1
                    BY <5>1 DEF RelayInv, RelayTypes
                <5>3. QED
                    BY <1>0, <1>1, <1>2, <5>1, <5>2 DEF Msgs
            <4>3. QED
                BY <4>1, <4>2
        <3>3. ASSUME NEW n \in 1 .. published' PROVE Live(n)'
            <4>1. CASE n = m
                BY <1>5, <4>1
            <4>2. CASE n # m
                <5>1. n \in 1 .. published /\ n \in Msgs
                    BY <1>0, <1>1, <1>2, <4>2, RelayAssumption DEF Msgs
                <5>2. QED
                    BY <1>5, <4>2, <5>1, SameTrace DEF RelayInv, RelayTypes
            <4>3. QED
                BY <4>1, <4>2
        <3>4. QED
            BY <3>1, <3>2, <3>3
    <2>2. seen' \in [Ids -> SUBSET (1 .. published')] /\ wanted' \in [Ids -> SUBSET (1 .. published')]
        <3>1. 1 .. published \subseteq 1 .. published'
            BY <1>0, <1>1, <1>2
        <3>2. QED
            BY <1>1, <1>2, <3>1 DEF RelayInv, RelayTypes
    <2>3. relays' \subseteq Relay /\ \A r \in relays' : r.msg <= published' /\ r.run \in {0, 1}
        <3>1. \A r \in relays : r \in Relay /\ r.msg <= published /\ r.run \in {0, 1} /\ r.msg \in Nat
            BY DEF RelayInv, RelayTypes, Relay, Msgs
        <3>2. m \in Nat /\ published <= m
            BY <1>0, <1>2
        <3>3. QED
            BY <1>1, <1>2, <1>4, <3>1, <3>2
    <2>4. behind' \in [Msgs -> SUBSET FaultIds]
        BY <1>1 DEF RelayInv, RelayTypes
    <2>5. QED
        BY <1>1, <1>2, <2>1, <2>2, <2>3, <2>4 DEF RelayInv, RelayTypes
<1>9. WantsInv'
    BY <1>1, <1>7 DEF RelayInv, WantsInv
<1>10. AsleepInv'
    BY <1>5, <1>6, SameTrace DEF RelayInv, AsleepInv
<1>11. FromInv'
    <2>1. ASSUME NEW r \in relays', r.from \in Peers PROVE r.msg \in seen'[r.from]
        BY <1>1, <1>4, <1>7, <2>1, PeersAreNoAttackers DEF RelayInv, FromInv
    <2>2. QED
        BY <1>1, <2>1 DEF FromInv
<1>12. DeliveredOnce'
    <2>1. t.hops = {}
        BY DEF t
    <2>2. ASSUME NEW n \in Msgs, n # m, Live(n)'
          PROVE  \A h \in traces'[n].hops :
                    /\ h.to # traces'[n].origin
                    /\ \A g \in traces'[n].hops : g.to = h.to /\ g.to \in Peers => g = h
        BY <1>5, <2>2, SameTrace DEF RelayInv, DeliveredOnce
    <2>3. QED
        BY <1>5, <2>1, <2>2 DEF DeliveredOnce
<1>13. NothingLost'
    <2>1. ASSUME NEW n \in Msgs, Live(n)', NEW p \in Peers
          PROVE  n \in seen'[p] <=> p \in Delivered(n)' \/ \E r \in Asleep' : r.msg = n /\ r.to = p
        <3>1. CASE n = m
            BY <1>5, <1>6, <1>7, <3>1, PeersAreNoAttackers
        <3>2. CASE n # m
            <4>1. Live(n) /\ Delivered(n)' = Delivered(n)
                BY <1>5, <2>1, <3>2, SameTrace
            <4>2. n \in seen'[p] <=> n \in seen[p]
                BY <1>7, <3>2, PeersAreNoAttackers
            <4>3. QED
                BY <1>6, <4>1, <4>2 DEF RelayInv, NothingLost
        <3>3. QED
            BY <3>1, <3>2
    <2>2. QED
        BY <2>1 DEF NothingLost
<1>14. QED
    BY <1>8, <1>9, <1>10, <1>11, <1>12, <1>13 DEF RelayInv

\* A relay starts: it is the same relay, with its trace looked up.
LEMMA LookUpInv ==
    ASSUME RelayInv, TypeOK', NEW r \in relays, RelayLookUp(r)
    PROVE  RelayInv'
<1>1. /\ TrioIdle /\ held = NoRelay /\ r.run = 0 /\ relays' = relays \ {r}
      /\ held' = IF Live(r.msg) THEN [r EXCEPT !.run = traces[r.msg].run] ELSE NoRelay
      /\ UNCHANGED <<vars, ledger, seen, wanted, resetting, behind>>
    BY DEF RelayLookUp, Settled, Scheduled
<1>2. UNCHANGED <<run, published, traces, seen, wanted, resetting, behind, beating>>
    BY <1>1 DEF ledger, vars
<1>3. r \in Relay /\ r.msg <= published /\ r.msg \in Msgs
    BY DEF RelayInv, RelayTypes, Relay
<1>4. held' # NoRelay => /\ held' \in Relay /\ held'.run = 1 /\ held'.msg = r.msg /\ held'.from = r.from
    <2>1. Live(r.msg) => traces[r.msg].run = 1
        BY <1>3 DEF RelayInv, RelayTypes
    <2>2. 1 \in Runs
        BY RelayAssumption DEF Runs
    <2>3. QED
        BY <1>1, <1>3, <2>1, <2>2 DEF Relay
<1>5. Asleep' = Asleep
    BY <1>1 DEF Asleep, Scheduled
<1>6. RelayTypes'
    BY <1>1, <1>2, <1>3, <1>4 DEF RelayInv, RelayTypes, TrioIdle, Live
<1>7. WantsInv' /\ AsleepInv' /\ DeliveredOnce' /\ NothingLost'
    BY <1>2, <1>5 DEF RelayInv, WantsInv, AsleepInv, DeliveredOnce, NothingLost, Delivered, Live
<1>8. FromInv'
    BY <1>1, <1>2, <1>4 DEF RelayInv, FromInv
<1>9. QED
    BY <1>6, <1>7, <1>8 DEF RelayInv

\* It leaves: its receiver has had no other copy and wants none any more.
LEMMA TakeOffInv ==
    ASSUME RelayInv, TypeOK', RelayTakeOff
    PROVE  RelayInv'
<1>1. /\ held # NoRelay /\ held' = NoRelay
      /\ UNCHANGED <<vars, run, published, traces, resetting, behind>>
    BY DEF RelayTakeOff, ledger
<1>2. /\ held \in Relay /\ held.run = 1 /\ held.msg <= published /\ held.msg \in Msgs /\ held.msg \in 1 .. published
      /\ held.to \in Ids /\ held.from \in Ids /\ held.from \in Peers => held.msg \in seen[held.from]
    BY <1>1 DEF RelayInv, RelayTypes, FromInv, Relay, Msgs
<1>3. CASE Refused(held) \/ held.msg \in seen[held.to]
    <2>1. UNCHANGED <<seen, wanted, relays>> /\ Asleep' = Asleep
        BY <1>3 DEF RelayTakeOff, Asleep, Scheduled
    <2>2. RelayTypes'
        BY <1>1, <2>1 DEF RelayInv, RelayTypes, Live
    <2>3. WantsInv' /\ AsleepInv' /\ FromInv' /\ DeliveredOnce' /\ NothingLost'
        BY <1>1, <2>1 DEF RelayInv, WantsInv, AsleepInv, FromInv, DeliveredOnce, NothingLost, Delivered, Live
    <2>4. QED
        BY <2>2, <2>3 DEF RelayInv
<1>4. CASE ~(Refused(held) \/ held.msg \in seen[held.to])
    <2>1. /\ seen' = [seen EXCEPT ![held.to] = @ \cup {held.msg}]
          /\ wanted' = [wanted EXCEPT ![held.to] = @ \ {held.msg}]
          /\ relays' = relays \cup {held} /\ held.msg \notin seen[held.to]
        BY <1>4 DEF RelayTakeOff
    <2>2. Asleep' = Asleep \cup {held}
        BY <1>2, <2>1 DEF Asleep, Scheduled
    <2>3. /\ \A q \in Ids : seen'[q] = IF q = held.to THEN seen[q] \cup {held.msg} ELSE seen[q]
          /\ \A q \in Ids : wanted'[q] = IF q = held.to THEN wanted[q] \ {held.msg} ELSE wanted[q]
        BY <2>1 DEF RelayInv, RelayTypes
    <2>4. \A m \in Msgs : (Live(m)' <=> Live(m)) /\ Delivered(m)' = Delivered(m)
        BY <1>1 DEF Live, Delivered
    <2>5. RelayTypes'
        <3>1. seen' \in [Ids -> SUBSET (1 .. published)] /\ wanted' \in [Ids -> SUBSET (1 .. published)]
            BY <1>2, <2>1 DEF RelayInv, RelayTypes
        <3>2. relays' \subseteq Relay /\ \A r \in relays' : r.msg <= published /\ r.run \in {0, 1}
            BY <1>2, <2>1 DEF RelayInv, RelayTypes
        <3>3. QED
            BY <1>1, <3>1, <3>2 DEF RelayInv, RelayTypes, Live
    <2>6. WantsInv'
        BY <2>3, PeersAreNoAttackers DEF RelayInv, WantsInv, Ids
    <2>7. ASSUME held.to \in Peers
          PROVE  held.to \notin Delivered(held.msg) /\ \A r \in Asleep : ~(r.to = held.to /\ r.msg = held.msg)
        <3>1. Live(held.msg)
            BY <1>2 DEF RelayInv, RelayTypes
        <3>2. QED
            BY <1>2, <2>1, <2>7, <3>1 DEF RelayInv, NothingLost
    <2>8. AsleepInv'
        <3>1. \A r \in Asleep : r.msg \in Msgs
            BY DEF RelayInv, RelayTypes, Relay, Asleep, Scheduled
        <3>2. QED
            BY <1>2, <2>2, <2>4, <2>7, <3>1 DEF RelayInv, AsleepInv
    <2>9. FromInv'
        <3>1. \A q \in Ids : seen[q] \subseteq seen'[q]
            BY <2>3
        <3>2. QED
            BY <1>1, <1>2, <2>1, <3>1, PeersAreNoAttackers DEF RelayInv, FromInv
    <2>10. NothingLost'
        <3>1. ASSUME NEW m \in Msgs, Live(m), NEW p \in Peers
              PROVE  m \in seen'[p] <=> p \in Delivered(m) \/ \E r \in Asleep' : r.msg = m /\ r.to = p
            <4>1. m \in seen'[p] <=> m \in seen[p] \/ (m = held.msg /\ p = held.to)
                BY <2>3, PeersAreNoAttackers
            <4>2. (\E r \in Asleep' : r.msg = m /\ r.to = p)
                        <=> (\E r \in Asleep : r.msg = m /\ r.to = p) \/ (m = held.msg /\ p = held.to)
                BY <2>2
            <4>3. QED
                BY <3>1, <4>1, <4>2 DEF RelayInv, NothingLost
        <3>2. QED
            BY <2>4, <3>1 DEF NothingLost
    <2>11. DeliveredOnce'
        BY <1>1, <2>4 DEF RelayInv, DeliveredOnce
    <2>12. QED
        BY <2>5, <2>6, <2>8, <2>9, <2>10, <2>11 DEF RelayInv
<1>5. QED
    BY <1>3, <1>4

\* It arrives: the one hop to its receiver.
LEMMA LandInv ==
    ASSUME RelayInv, TypeOK', NEW r \in relays, RelayLand(r)
    PROVE  RelayInv'
<1> DEFINE hop == [to |-> r.to, from |-> r.from, via |-> "mesh"]
           new == {[msg |-> r.msg, from |-> r.to, to |-> n, run |-> 0] : n \in mesh[r.to] \ {r.from}}
<1>1. /\ r \in Asleep /\ held = NoRelay /\ UNCHANGED <<vars, run, published, seen, wanted, held, resetting, behind>>
    BY DEF RelayLand, Settled
<1>2. /\ r \in Relay /\ r.run = 1 /\ r.msg <= published /\ r.msg \in 1 .. published /\ r.msg \in Msgs
      /\ r.to \in Ids /\ r.from \in Ids /\ Live(r.msg) /\ traces[r.msg] \in Trace /\ traces[r.msg].run = 1
    <2>1. r \in Relay /\ r.msg <= published /\ r.run \in {0, 1} /\ r.run # 0
        BY <1>1 DEF RelayInv, RelayTypes, Asleep, Scheduled
    <2>2. r.msg \in 1 .. published
        BY <2>1 DEF Relay, Msgs
    <2>3. QED
        BY <2>1, <2>2 DEF RelayInv, RelayTypes, Relay
<1>3. /\ traces' = [traces EXCEPT ![r.msg].hops = @ \cup {hop}]
      /\ relays' = (relays \ {r}) \cup new
    BY <1>2 DEF RelayLand
<1>4. hop \in Hop
    BY <1>2 DEF Hop
<1>5. traces'[r.msg] = [traces[r.msg] EXCEPT !.hops = @ \cup {hop}] /\ \A m \in Msgs \ {r.msg} : traces'[m] = traces[m]
    BY <1>2, <1>3 DEF RelayInv, RelayTypes
<1>6. /\ traces'[r.msg] \in Trace /\ Live(r.msg)'
      /\ traces'[r.msg].origin = traces[r.msg].origin /\ traces'[r.msg].run = 1
      /\ traces'[r.msg].hops = traces[r.msg].hops \cup {hop}
      /\ Delivered(r.msg)' = Delivered(r.msg) \cup {r.to}
    <2>1. {hop} \in SUBSET Hop /\ {h.to : h \in {hop}} = {r.to}
        BY <1>4
    <2> HIDE DEF hop
    <2>2. QED
        BY <1>2, <1>5, <2>1, LongerTrace
<1>7. new \subseteq Relay /\ \A s \in new : s.msg = r.msg /\ s.run = 0 /\ s.from = r.to
    <2>1. mesh[r.to] \subseteq Ids
        BY <1>2 DEF RelayInv, TypeOK
    <2>2. QED
        BY <1>2, <2>1 DEF Relay
<1> HIDE DEF hop, new
<1>8. Asleep' = Asleep \ {r}
    <2>1. \A s \in new : s \notin Asleep'
        BY <1>3, <1>7 DEF Asleep, Scheduled
    <2>2. \A s \in relays \ {r} : s \in Asleep' <=> s \in Asleep
        BY <1>3 DEF Asleep, Scheduled
    <2>3. r \notin Asleep'
        BY <1>2, <1>3, <1>7 DEF Asleep, Scheduled
    <2>4. QED
        BY <1>3, <2>1, <2>2, <2>3 DEF Asleep, Scheduled
<1>9. \A m \in Msgs \ {r.msg} : (Live(m)' <=> Live(m)) /\ Delivered(m)' = Delivered(m)
    BY <1>5, SameTrace
<1>10. RelayTypes'
    <2>1. traces' \in [Msgs -> Trace \cup {NoTrace}]
        <3>1. DOMAIN traces' = Msgs /\ traces' = [m \in Msgs |-> traces'[m]]
            BY <1>3 DEF RelayInv, RelayTypes
        <3>2. \A m \in Msgs : traces'[m] \in Trace \cup {NoTrace}
            BY <1>5, <1>6 DEF RelayInv, RelayTypes
        <3>3. QED
            BY <3>1, <3>2
    <2>2. \A m \in Msgs : Live(m)' => m <= published /\ traces'[m] \in Trace /\ traces'[m].run = 1
        BY <1>2, <1>5, <1>6, <1>9 DEF RelayInv, RelayTypes
    <2>3. \A m \in 1 .. published : Live(m)'
        <3>1. \A m \in 1 .. published : m \in Msgs
            BY RelayAssumption DEF RelayInv, RelayTypes, Msgs
        <3>2. QED
            BY <1>6, <1>9, <3>1 DEF RelayInv, RelayTypes
    <2>4. relays' \subseteq Relay /\ \A s \in relays' : s.msg <= published /\ s.run \in {0, 1}
        BY <1>2, <1>3, <1>7 DEF RelayInv, RelayTypes
    <2>5. QED
        BY <1>1, <2>1, <2>2, <2>3, <2>4 DEF RelayInv, RelayTypes
<1>11. WantsInv'
    BY <1>1 DEF RelayInv, WantsInv
<1>12. AsleepInv'
    <2>1. \A s \in Asleep' : s \in Asleep /\ s # r /\ s.msg \in Msgs
        BY <1>8 DEF RelayInv, RelayTypes, Relay, Asleep, Scheduled
    <2>2. ASSUME NEW s \in Asleep', s.to \in Peers PROVE s.to \notin Delivered(s.msg)'
        <3>1. s \in Asleep /\ s.to \notin Delivered(s.msg) /\ ~(s.to = r.to /\ s.msg = r.msg)
            BY <1>1, <2>1, <2>2 DEF RelayInv, AsleepInv
        <3>2. QED
            BY <1>6, <1>9, <2>1, <3>1
    <2>3. QED
        BY <2>1, <2>2 DEF RelayInv, AsleepInv
<1>13. r.to \in Peers => r.msg \in seen[r.to]
    BY <1>1, <1>2 DEF RelayInv, NothingLost
<1>14. FromInv'
    BY <1>1, <1>3, <1>7, <1>13 DEF RelayInv, FromInv
<1>15. NothingLost'
    <2>1. ASSUME NEW m \in Msgs, Live(m)', NEW p \in Peers
          PROVE  m \in seen[p] <=> p \in Delivered(m)' \/ \E s \in Asleep' : s.msg = m /\ s.to = p
        <3>1. CASE m = r.msg
            <4>1. m \in seen[p] <=> p \in Delivered(m) \/ \E s \in Asleep : s.msg = m /\ s.to = p
                BY <1>2, <3>1 DEF RelayInv, NothingLost
            <4>2. (\E s \in Asleep : s.msg = m /\ s.to = p)
                        <=> p = r.to \/ \E s \in Asleep' : s.msg = m /\ s.to = p
                BY <1>1, <1>8, <3>1
            <4>3. QED
                BY <1>6, <3>1, <4>1, <4>2
        <3>2. CASE m # r.msg
            <4>1. (\E s \in Asleep' : s.msg = m /\ s.to = p) <=> (\E s \in Asleep : s.msg = m /\ s.to = p)
                BY <1>8, <3>2
            <4>2. Live(m) /\ Delivered(m)' = Delivered(m)
                BY <1>9, <2>1, <3>2
            <4>3. QED
                BY <4>1, <4>2 DEF RelayInv, NothingLost
        <3>3. QED
            BY <3>1, <3>2
    <2>2. QED
        BY <1>1, <2>1 DEF NothingLost
<1>16. DeliveredOnce'
    <2>1. hop.to = r.to /\ {hop} \in SUBSET Hop
        BY <1>4 DEF hop
    <2>2. r.to \in Peers => r.to \notin Delivered(r.msg)
        BY <1>1 DEF RelayInv, AsleepInv
    <2>3. \A h \in traces'[r.msg].hops :
             /\ h.to # traces'[r.msg].origin
             /\ \A g \in traces'[r.msg].hops : g.to = h.to /\ g.to \in Peers => g = h
        <3>1. \A h \in traces[r.msg].hops :
                 /\ h.to # traces[r.msg].origin
                 /\ \A g \in traces[r.msg].hops : g.to = h.to /\ g.to \in Peers => g = h
            BY <1>2 DEF RelayInv, DeliveredOnce
        <3>2. /\ \A h \in {hop} : h.to \in Peers => h.to \notin Delivered(r.msg)
              /\ \A g, h \in {hop} : g.to = h.to => g = h
            BY <2>1, <2>2
        <3>3. Live(r.msg) /\ traces[r.msg] \in Trace /\ {hop} \in SUBSET Hop
            BY <1>2, <2>1
        <3>4. traces'[r.msg] = [traces[r.msg] EXCEPT !.hops = @ \cup {hop}]
            BY <1>5
        <3>5. QED
            BY <3>1, <3>2, <3>3, <3>4, OnceMore
    <2>4. ASSUME NEW m \in Msgs, m # r.msg, Live(m)'
          PROVE  \A h \in traces'[m].hops :
                    /\ h.to # traces'[m].origin
                    /\ \A g \in traces'[m].hops : g.to = h.to /\ g.to \in Peers => g = h
        BY <1>5, <1>9, <2>4 DEF RelayInv, DeliveredOnce
    <2>5. QED
        BY <2>3, <2>4 DEF DeliveredOnce
<1>17. QED
    BY <1>10, <1>11, <1>12, <1>14, <1>15, <1>16 DEF RelayInv

\* An announcement makes peers want what they lack.
LEMMA AnnounceInv ==
    ASSUME RelayInv, TypeOK', MaintainAndAnnounce
    PROVE  RelayInv'
<1>1. /\ hand # NotHeld /\ UNCHANGED <<beating, run, published, traces, seen, relays, held, resetting, behind>>
      /\ IHave(hand.peer, mesh'[hand.peer])
    BY DEF MaintainAndAnnounce, HeartbeatWrite, ledger
<1>2. hand.peer \in Ids /\ hand.neighbors \subseteq Peers
    BY <1>1, PeersAreNoAttackers DEF RelayInv, TypeOK
<1>3. PICK targets \in SUBSET Peers :
          wanted' = [q \in Ids |-> IF q \in targets THEN wanted[q] \cup (seen[hand.peer] \ seen[q]) ELSE wanted[q]]
    <2>1. PICK targets \in Samples(hand.neighbors \ mesh'[hand.peer], D_LAZY) :
          wanted' = [q \in Ids |-> IF q \in targets THEN wanted[q] \cup (seen[hand.peer] \ seen[q]) ELSE wanted[q]]
        BY <1>1 DEF IHave
    <2>2. targets \subseteq Peers
        BY <1>2, <2>1, SampleIsSubset
    <2>3. QED
        BY <2>1, <2>2
<1>4. Asleep' = Asleep
    BY <1>1 DEF Asleep, Scheduled
<1>5. RelayTypes'
    <2>1. seen[hand.peer] \subseteq 1 .. published
        BY <1>2 DEF RelayInv, RelayTypes
    <2>2. wanted' \in [Ids -> SUBSET (1 .. published)]
        BY <1>3, <2>1 DEF RelayInv, RelayTypes
    <2>3. QED
        BY <1>1, <2>2 DEF RelayInv, RelayTypes, Live, TrioIdle
<1>6. WantsInv'
    BY <1>1, <1>3, PeersAreNoAttackers DEF RelayInv, WantsInv, Ids
<1>7. AsleepInv' /\ FromInv' /\ DeliveredOnce' /\ NothingLost'
    BY <1>1, <1>4 DEF RelayInv, AsleepInv, FromInv, DeliveredOnce, NothingLost, Delivered, Live
<1>8. QED
    BY <1>5, <1>6, <1>7 DEF RelayInv

\* A pull brings a peer what it neither has nor is about to get, from one neighbour.
LEMMA ServeInv ==
    ASSUME RelayInv, TypeOK', ServeWants
    PROVE  RelayInv'
<1> DEFINE wants  == {w \in Ids \X Msgs : w[2] \in wanted[w[1]]}
           alive  == {w \in wants : Live(w[2])}
           served == {w \in alive : Servers(w[1], w[2]) # {}}
           pulled == {w \in served : w[1] \notin Delivered(w[2])}
<1>1. /\ UNCHANGED <<run, published, relays, held, resetting, behind>> /\ beating' = FALSE
      /\ seen' = [q \in Ids |-> seen[q] \cup {m \in Msgs : <<q, m>> \in pulled}]
      /\ wanted' = [q \in Ids |-> {m \in wanted[q] : <<q, m>> \in alive \ served}]
    BY DEF ServeWants, HeartbeatEnd
<1>2. PICK from \in [pulled -> Peers] :
          /\ \A w \in pulled : from[w] \in Servers(w[1], w[2])
          /\ traces' = [m \in Msgs |->
                 IF \E w \in pulled : w[2] = m
                 THEN [traces[m] EXCEPT !.hops = @ \cup
                         {[to |-> w[1], from |-> from[w], via |-> "iwant"] : w \in {v \in pulled : v[2] = m}}]
                 ELSE traces[m]]
    BY DEF ServeWants
<1> DEFINE hops(m) == {[to |-> w[1], from |-> from[w], via |-> "iwant"] : w \in {v \in pulled : v[2] = m}}
<1>3. \A w \in pulled : /\ w = <<w[1], w[2]>> /\ w[1] \in Peers /\ w[2] \in Msgs /\ w[2] \in wanted[w[1]]
                        /\ w[2] \notin seen[w[1]] /\ Live(w[2]) /\ w[1] \notin Delivered(w[2])
    BY PeersAreNoAttackers DEF RelayInv, WantsInv
<1> HIDE DEF wants, alive, served, pulled
<1>4. \A m \in Msgs : hops(m) \in SUBSET Hop /\ \A g, h \in hops(m) : g.to = h.to => g = h
    <2>1. ASSUME NEW m \in Msgs PROVE hops(m) \in SUBSET Hop
        BY <1>2, <1>3, PeersAreNoAttackers DEF Hop
    <2>2. ASSUME NEW m \in Msgs, NEW g \in hops(m), NEW h \in hops(m), g.to = h.to PROVE g = h
        BY <1>3, <2>2
    <2>3. QED
        BY <2>1, <2>2
<1>5. \A m \in Msgs : \/ /\ \A w \in pulled : w[2] # m
                         /\ traces'[m] = traces[m]
                      \/ /\ Live(m) /\ traces[m] \in Trace
                         /\ traces'[m] = [traces[m] EXCEPT !.hops = @ \cup hops(m)]
    <2>1. \A m \in Msgs : Live(m) => traces[m] \in Trace
        BY DEF RelayInv, RelayTypes
    <2>2. QED
        BY <1>2, <1>3, <2>1
<1>6. \A m \in Msgs : {h.to : h \in hops(m)} = {p \in Peers : <<p, m>> \in pulled}
    <2>1. ASSUME NEW m \in Msgs, NEW h \in hops(m) PROVE h.to \in Peers /\ <<h.to, m>> \in pulled
        BY <1>3
    <2>2. ASSUME NEW m \in Msgs, NEW p \in Peers, <<p, m>> \in pulled PROVE \E h \in hops(m) : h.to = p
        <3>1. [to |-> p, from |-> from[<<p, m>>], via |-> "iwant"] \in hops(m)
            BY <2>2
        <3>2. QED
            BY <3>1
    <2> HIDE DEF hops
    <2>3. QED
        BY <2>1, <2>2
<1> HIDE DEF hops
<1>7. \A m \in Msgs : /\ Live(m)' <=> Live(m)
                      /\ Delivered(m)' = Delivered(m) \cup {p \in Peers : <<p, m>> \in pulled}
                      /\ Live(m) => traces'[m] \in Trace /\ traces'[m].run = 1
    <2>1. ASSUME NEW m \in Msgs
          PROVE  /\ Live(m)' <=> Live(m)
                 /\ Delivered(m)' = Delivered(m) \cup {p \in Peers : <<p, m>> \in pulled}
                 /\ Live(m) => traces'[m] \in Trace /\ traces'[m].run = 1
        <3>1. CASE (\A w \in pulled : w[2] # m) /\ traces'[m] = traces[m]
            BY <3>1, SameTrace DEF RelayInv, RelayTypes
        <3>2. CASE /\ Live(m) /\ traces[m] \in Trace
                   /\ traces'[m] = [traces[m] EXCEPT !.hops = @ \cup hops(m)]
            <4>1. hops(m) \in SUBSET Hop /\ {h.to : h \in hops(m)} = {p \in Peers : <<p, m>> \in pulled}
                BY <1>4, <1>6
            <4>2. /\ traces'[m] \in Trace /\ Live(m)' /\ traces'[m].run = traces[m].run
                  /\ Delivered(m)' = Delivered(m) \cup {h.to : h \in hops(m)}
                BY <3>2, <4>1, LongerTrace
            <4>3. traces[m].run = 1
                BY <3>2 DEF RelayInv, RelayTypes
            <4>4. QED
                BY <3>2, <4>1, <4>2, <4>3
        <3>3. QED
            BY <1>5, <3>1, <3>2
    <2>2. QED
        BY <2>1
<1>8. Asleep' = Asleep
    BY <1>1 DEF Asleep, Scheduled
<1>9. /\ \A q \in Ids : seen'[q] = seen[q] \cup {m \in Msgs : <<q, m>> \in pulled}
      /\ \A q \in Ids : wanted'[q] \subseteq wanted[q]
      /\ \A q \in Ids, m \in Msgs : <<q, m>> \in pulled => m \notin wanted'[q]
    BY <1>1 DEF pulled
<1>10. RelayTypes'
    <2>1. traces' \in [Msgs -> Trace \cup {NoTrace}]
        <3>1. \A m \in Msgs : traces'[m] \in Trace \cup {NoTrace}
            BY <1>7 DEF Live
        <3>2. traces' = [m \in Msgs |-> traces'[m]]
            BY <1>2
        <3>3. QED
            BY <3>1, <3>2
    <2>2. \A m \in Msgs : Live(m)' => m <= published /\ traces'[m] \in Trace /\ traces'[m].run = 1
        BY <1>7 DEF RelayInv, RelayTypes
    <2>3. \A m \in 1 .. published : m \in Msgs
        BY RelayAssumption DEF RelayInv, RelayTypes, Msgs
    <2>4. \A m \in 1 .. published : Live(m)'
        BY <1>7, <2>3 DEF RelayInv, RelayTypes
    <2>5. \A w \in pulled : w[2] \in 1 .. published
        BY <1>3, PeersAreNoAttackers DEF RelayInv, RelayTypes
    <2>6. seen' \in [Ids -> SUBSET (1 .. published)]
        BY <1>1, <2>5 DEF RelayInv, RelayTypes
    <2>7. wanted' \in [Ids -> SUBSET (1 .. published)]
        BY <1>1 DEF RelayInv, RelayTypes
    <2>8. QED
        BY <1>1, <2>1, <2>2, <2>4, <2>6, <2>7 DEF RelayInv, RelayTypes, TrioIdle
<1>11. WantsInv'
    <2>1. \A q \in Ids : wanted[q] \cap seen[q] = {}
        BY DEF RelayInv, WantsInv
    <2>2. \A q \in Ids : wanted'[q] \cap seen'[q] = {}
        BY <1>9, <2>1
    <2>3. \A a \in Attackers : wanted[a] = {} /\ a \in Ids
        BY DEF RelayInv, WantsInv, Ids
    <2>4. QED
        BY <1>9, <2>2, <2>3 DEF WantsInv
<1>12. \A r \in Asleep : r.msg \in Msgs /\ r.to \in Ids /\ Live(r.msg) /\ (r.to \in Peers => r.msg \in seen[r.to])
    <2>1. \A r \in Asleep : r.msg \in 1 .. published /\ r.msg \in Msgs /\ r.to \in Ids
        BY DEF RelayInv, RelayTypes, Relay, Asleep, Scheduled, Msgs
    <2>2. QED
        BY <2>1 DEF RelayInv, RelayTypes, NothingLost
<1>13. AsleepInv'
    <2>1. ASSUME NEW r \in Asleep, r.to \in Peers PROVE r.to \notin Delivered(r.msg)'
        <3>1. <<r.to, r.msg>> \notin pulled
            BY <1>3, <1>12, <2>1
        <3>2. QED
            BY <1>7, <1>12, <2>1, <3>1 DEF RelayInv, AsleepInv
    <2>2. QED
        BY <1>8, <2>1 DEF RelayInv, AsleepInv
<1>14. FromInv'
    <2>1. \A p \in Peers : seen[p] \subseteq seen'[p]
        BY <1>9, PeersAreNoAttackers
    <2>2. QED
        BY <1>1, <2>1 DEF RelayInv, FromInv
<1>15. NothingLost'
    <2>1. ASSUME NEW m \in Msgs, Live(m), NEW p \in Peers
          PROVE  m \in seen'[p] <=> p \in Delivered(m)' \/ \E r \in Asleep : r.msg = m /\ r.to = p
        <3>1. m \in seen'[p] <=> m \in seen[p] \/ <<p, m>> \in pulled
            BY <1>9, PeersAreNoAttackers
        <3>2. p \in Delivered(m)' <=> p \in Delivered(m) \/ <<p, m>> \in pulled
            BY <1>7
        <3>3. QED
            BY <2>1, <3>1, <3>2 DEF RelayInv, NothingLost
    <2>2. QED
        BY <1>7, <1>8, <2>1 DEF NothingLost
<1>16. DeliveredOnce'
    <2>1. ASSUME NEW m \in Msgs, Live(m)
          PROVE  \A h \in traces'[m].hops :
                    /\ h.to # traces'[m].origin
                    /\ \A g \in traces'[m].hops : g.to = h.to /\ g.to \in Peers => g = h
        <3>1. \A h \in traces[m].hops :
                 /\ h.to # traces[m].origin
                 /\ \A g \in traces[m].hops : g.to = h.to /\ g.to \in Peers => g = h
            BY <2>1 DEF RelayInv, DeliveredOnce
        <3>2. \A h \in hops(m) : h.to \notin Delivered(m)
            <4>1. \A p : <<p, m>> \in pulled => p \notin Delivered(m)
                BY <1>3
            <4>2. \A h \in hops(m) : <<h.to, m>> \in pulled
                BY <1>6
            <4>3. QED
                BY <4>1, <4>2
        <3>3. CASE traces'[m] = traces[m]
            BY <3>1, <3>3
        <3>4. CASE traces[m] \in Trace /\ traces'[m] = [traces[m] EXCEPT !.hops = @ \cup hops(m)]
            BY <1>4, <2>1, <3>1, <3>2, <3>4, OnceMore
        <3>5. QED
            BY <1>5, <3>3, <3>4
    <2>2. QED
        BY <1>7, <2>1 DEF DeliveredOnce
<1>17. QED
    BY <1>10, <1>11, <1>13, <1>14, <1>15, <1>16 DEF RelayInv

\* Faults come and go; only attackers forget.
LEMMA FaultStepInv ==
    ASSUME RelayInv, TypeOK', FaultStep(AnyFault)
    PROVE  RelayInv'
<1>1. /\ TrioIdle /\ held = NoRelay /\ UNCHANGED <<run, published, traces, wanted, relays, held, resetting>>
      /\ seen' = [q \in Ids |-> IF (q \in members) = (q \in members') THEN seen[q] ELSE {}]
      /\ behind' = [m \in Msgs |-> {f \in behind[m] : faults'[f] = faults[f]}]
    BY DEF FaultStep, Settled, ForgetAttackers, ledger
<1>2. \A p \in Peers : seen'[p] = seen[p]
    BY <1>1, PeersAreNoAttackers DEF RelayInv, TypeOK
<1>3. \A q \in Ids : seen'[q] \subseteq seen[q]
    BY <1>1
<1>4. Asleep' = Asleep /\ \A m : (Live(m)' <=> Live(m)) /\ Delivered(m)' = Delivered(m)
    BY <1>1 DEF Asleep, Scheduled, Live, Delivered
<1>5. RelayTypes'
    <2>1. seen' \in [Ids -> SUBSET (1 .. published)]
        BY <1>1 DEF RelayInv, RelayTypes
    <2>2. behind' \in [Msgs -> SUBSET FaultIds]
        BY <1>1 DEF RelayInv, RelayTypes
    <2>3. QED
        BY <1>1, <1>4, <2>1, <2>2 DEF RelayInv, RelayTypes
<1>6. WantsInv'
    BY <1>1, <1>3 DEF RelayInv, WantsInv
<1>7. AsleepInv' /\ FromInv' /\ NothingLost'
    BY <1>1, <1>2, <1>4 DEF RelayInv, AsleepInv, FromInv, NothingLost
<1>8. DeliveredOnce'
    BY <1>1, <1>4 DEF RelayInv, DeliveredOnce
<1>9. QED
    BY <1>5, <1>6, <1>7, <1>8 DEF RelayInv

LEMMA QuietInv ==
    ASSUME RelayInv, TypeOK', QuietBeat \/ UNCHANGED relayVars
    PROVE  RelayInv'
<1>1. /\ UNCHANGED <<run, published, traces, seen, wanted, relays, held, resetting, behind>>
      /\ held = NoRelay \/ beating' = beating
    BY DEF QuietBeat, ledger, copies, relayVars, vars
<1>2. Asleep' = Asleep
    BY <1>1 DEF Asleep, Scheduled
<1>3. RelayTypes'
    BY <1>1 DEF RelayInv, RelayTypes, Live, TrioIdle
<1>4. WantsInv' /\ AsleepInv' /\ FromInv' /\ DeliveredOnce' /\ NothingLost'
    BY <1>1, <1>2 DEF RelayInv, WantsInv, AsleepInv, FromInv, DeliveredOnce, NothingLost, Delivered, Live
<1>5. QED
    BY <1>3, <1>4 DEF RelayInv

LEMMA RelayStepInv ==
    ASSUME RelayInv, [RelayNext]_relayVars
    PROVE  RelayInv'
<1>1. TypeOK'
    BY RelayStepIsMeshStep, TypeStep DEF RelayInv
<1>2. ASSUME NEW o \in Peers, Publish(o) PROVE RelayInv'
    BY <1>1, <1>2, PublishInv
<1>3. ASSUME NEW r \in relays, RelayLookUp(r) PROVE RelayInv'
    BY <1>1, <1>3, LookUpInv
<1>4. CASE RelayTakeOff
    BY <1>1, <1>4, TakeOffInv
<1>5. ASSUME NEW r \in relays, RelayLand(r) PROVE RelayInv'
    BY <1>1, <1>5, LandInv
<1>6. CASE QuietBeat \/ UNCHANGED relayVars
    BY <1>1, <1>6, QuietInv
<1>7. CASE MaintainAndAnnounce
    BY <1>1, <1>7, AnnounceInv
<1>8. CASE ServeWants
    BY <1>1, <1>8, ServeInv
<1>9. CASE FaultStep(AnyFault)
    BY <1>1, <1>9, FaultStepInv
<1>10. QED
    BY <1>2, <1>3, <1>4, <1>5, <1>6, <1>7, <1>8, <1>9 DEF RelayNext, Relaying, Beating

----------------------------------------------------------------------------
(* The theorems: the mesh, and delivery.                                    *)

\* Publishing, relaying and the lazy half of the heartbeat do to meshes, faults and scores what GossipMesh
\* says and nothing else: every behaviour of GossipRelay is one of GossipMesh.
THEOREM RelayImplementsMesh == RelaySpec => Spec
<1>1. [RelayNext]_relayVars => [TrioNext]_vars
    BY RelayStepIsMeshStep
<1>2. QED
    BY <1>1, RelayInitIsMeshInit, PTL DEF RelaySpec, Spec

\* Flood, mesh relay and IWANT bring a message to a peer once between them, never back to its origin, and what
\* a peer has marked as seen it has or is about to get, whatever faults come up while a relay sleeps.
THEOREM DeliveryIsExact == RelaySpec => []DeliveredExactlyOnce
<1>1. RelayInit => RelayInv
    BY RelayInitInv DEF ContainInv
<1>2. RelayInv /\ [RelayNext]_relayVars => RelayInv'
    BY RelayStepInv
<1>3. RelayInv => DeliveredExactlyOnce
    BY DEF RelayInv, DeliveredExactlyOnce
<1>4. QED
    BY <1>1, <1>2, <1>3, PTL DEF RelaySpec

----------------------------------------------------------------------------
(* What faults contain.                                                     *)

LEMMA DroppedIsAPeer ==
    ASSUME TypeOK, NEW f \in FaultIds
    PROVE  /\ faults[f].type = "drop" => faults[f].peer \in Peers
           /\ faults[f].type = "eclipse" => faults[f].target \in Peers
           /\ faults[f].type = "partition" => faults[f].group_a \subseteq Peers /\ faults[f].group_b \subseteq Peers
BY DEF TypeOK, Fault, NoFault

\* A message spreads over links only that are not blocked, from those that have it or from an attacker.
LEMMA SpreadKeepsSides ==
    ASSUME RelayInv, SideInv, UNCHANGED <<faults, behind>>,
           \A m \in Msgs : Live(m)' => /\ Live(m) /\ traces'[m].origin = traces[m].origin
                                       /\ Bridged(m) => Bridged(m)',
           \A m \in Msgs, p \in Peers :
               m \in seen'[p] /\ m \notin seen[p] =>
                   \E q \in Ids : /\ ~LinkBlocked(q, p)
                                  /\ \/ q \in Peers /\ m \in seen[q]
                                     \/ q \in Attackers /\ Bridged(m)'
    PROVE  SideInv'
<1> SUFFICES ASSUME NEW m \in Msgs, Live(m)', NEW f \in behind[m]
             PROVE  /\ \A side \in Sides(f)' :
                            traces'[m].origin \in side /\ ~Bridged(m)' =>
                                \A p \in Peers : m \in seen'[p] => p \in side
                    /\ faults'[f].type = "drop" /\ m \in seen'[faults'[f].peer]
                            => traces'[m].origin = faults'[f].peer
    BY DEF SideInv
<1>1. f \in FaultIds /\ TypeOK
    BY DEF RelayInv, RelayTypes
<1>2. Live(m) /\ traces'[m].origin = traces[m].origin /\ (Bridged(m) => Bridged(m)')
    OBVIOUS
<1>3. Sides(f)' = Sides(f)
    BY DEF Sides
<1>4. ASSUME NEW side \in Sides(f), traces[m].origin \in side, ~Bridged(m)', NEW p \in Peers, m \in seen'[p]
      PROVE  p \in side
    <2>1. \A q \in Peers : m \in seen[q] => q \in side
        BY <1>2, <1>4 DEF SideInv
    <2>2. CASE m \in seen[p]
        BY <2>1, <2>2
    <2>3. CASE m \notin seen[p]
        <3>1. PICK q \in Peers : ~LinkBlocked(q, p) /\ m \in seen[q]
            BY <1>4, <2>3
        <3>2. q \in side /\ ~is_partitioned(q, p)
            BY <2>1, <3>1 DEF LinkBlocked
        <3>3. /\ f \in Active("partition") /\ side \in {faults[f].group_a, faults[f].group_b}
              /\ faults[f].group_a \cup faults[f].group_b = Peers
            BY <1>1, <1>4 DEF Sides, Active
        <3>4. QED
            BY <3>2, <3>3 DEF is_partitioned
    <2>4. QED
        BY <2>2, <2>3
<1>5. ASSUME faults[f].type = "drop", m \in seen'[faults[f].peer] PROVE traces[m].origin = faults[f].peer
    <2> DEFINE p == faults[f].peer
    <2>1. p \in Peers /\ is_peer_failed(p)
        BY <1>1, <1>5, DroppedIsAPeer DEF is_peer_failed, Active
    <2>2. m \in seen[p]
        BY <1>5, <2>1 DEF LinkBlocked
    <2>3. QED
        BY <1>2, <1>5, <2>2 DEF SideInv
<1>6. QED
    BY <1>2, <1>3, <1>4, <1>5

\* Where nothing is marked and no relay leaves or lands.
LEMMA NothingSpreads ==
    ASSUME ContainInv, UNCHANGED <<faults, behind, traces, seen>>, Asleep' = Asleep
    PROVE  SideInv' /\ LazyInv' /\ EclipseLeavesLazyOnly'
<1>1. \A m \in Msgs : (Live(m)' <=> Live(m)) /\ (Bridged(m)' <=> Bridged(m))
    BY DEF Live, Bridged
<1>2. SideInv'
    BY <1>1, SpreadKeepsSides DEF ContainInv
<1>3. LazyInv' /\ EclipseLeavesLazyOnly'
    BY <1>1 DEF ContainInv, LazyInv, EclipseLeavesLazyOnly
<1>4. QED
    BY <1>2, <1>3

\* A message that is published is with its origin only, and behind the faults of that moment.
LEMMA PublishContains ==
    ASSUME ContainInv, NEW o \in Peers, Publish(o)
    PROVE  SideInv' /\ LazyInv' /\ EclipseLeavesLazyOnly'
<1>0. PICK m \in Msgs : m = published + 1 /\ published \in Nat
    BY RelayAssumption DEF Publish, ContainInv, RelayInv, RelayTypes, Msgs
<1> DEFINE t == [origin |-> o, run |-> run, hops |-> {}]
           new == {[msg |-> m, from |-> o, to |-> n, run |-> 0] : n \in topology[o]}
<1>1. /\ traces' = [traces EXCEPT ![m] = t] /\ seen' = [seen EXCEPT ![o] = @ \cup {m}]
      /\ relays' = relays \cup new
      /\ behind' = [behind EXCEPT ![m] = {f \in FaultIds : ~Free(f)}] /\ UNCHANGED faults
    BY <1>0 DEF Publish, vars
<1>2. /\ traces'[m] = t /\ t.origin = o /\ t.hops = {}
      /\ \A n \in Msgs \ {m} : traces'[n] = traces[n] /\ behind'[n] = behind[n]
      /\ \A q \in Ids : seen'[q] = IF q = o THEN seen[q] \cup {m} ELSE seen[q]
    BY <1>1 DEF ContainInv, RelayInv, RelayTypes
<1>3. \A q \in Ids : m \notin seen[q]
    BY <1>0 DEF ContainInv, RelayInv, RelayTypes
<1>4. behind'[m] \in SUBSET FaultIds
    BY <1>1 DEF ContainInv, RelayInv, RelayTypes
<1>5. Asleep' = Asleep /\ \A r \in Asleep : r.msg # m /\ r.msg \in Msgs
    <2>1. \A r \in new : r.run = 0
        OBVIOUS
    <2> HIDE DEF new
    <2>2. Asleep' = Asleep
        BY <1>1, <2>1 DEF Asleep, Scheduled
    <2>3. \A r \in relays : r.msg \in Msgs /\ r.msg <= published
        BY DEF ContainInv, RelayInv, RelayTypes, Relay
    <2>4. QED
        BY <1>0, <2>2, <2>3, RelayAssumption DEF Msgs, Asleep, Scheduled
<1> HIDE DEF t, new
<1>6. \A n \in Msgs \ {m} : (Live(n)' <=> Live(n)) /\ (Bridged(n)' <=> Bridged(n))
    BY <1>2, <1>5 DEF Live, Bridged
<1>7. SideInv'
    <2>1. ASSUME NEW n \in Msgs, Live(n)', NEW f \in behind'[n], f \in FaultIds
          PROVE  /\ \A side \in Sides(f)' :
                        traces'[n].origin \in side /\ ~Bridged(n)' =>
                            \A p \in Peers : n \in seen'[p] => p \in side
                 /\ faults'[f].type = "drop" /\ n \in seen'[faults'[f].peer]
                        => traces'[n].origin = faults'[f].peer
        <3>1. Sides(f)' = Sides(f) /\ faults'[f] = faults[f]
            BY <1>1 DEF Sides
        <3>2. faults[f].type = "drop" => faults[f].peer \in Peers
            BY <2>1, DroppedIsAPeer DEF ContainInv, RelayInv
        <3>3. \A p \in Peers : p \in Ids
            BY PeersAreNoAttackers
        <3>4. CASE n = m
            BY <1>2, <1>3, <3>1, <3>2, <3>3, <3>4
        <3>5. CASE n # m
            <4>1. \A p \in Peers : n \in seen'[p] <=> n \in seen[p]
                BY <1>2, <3>3, <3>5
            <4>2. Live(n) /\ traces'[n] = traces[n] /\ f \in behind[n] /\ (Bridged(n)' <=> Bridged(n))
                BY <1>2, <1>6, <2>1, <3>5
            <4>3. QED
                BY <3>1, <3>2, <4>1, <4>2 DEF ContainInv, SideInv
        <3>6. QED
            BY <3>4, <3>5
    <2>2. \A n \in Msgs : behind'[n] \subseteq FaultIds
        BY <1>2, <1>4 DEF ContainInv, RelayInv, RelayTypes
    <2>3. QED
        BY <2>1, <2>2 DEF SideInv
<1>8. LazyInv'
    BY <1>1, <1>2, <1>5 DEF ContainInv, LazyInv
<1>9. EclipseLeavesLazyOnly'
    <2>1. ASSUME NEW n \in Msgs, Live(n)', NEW f \in behind'[n], NEW h \in traces'[n].hops,
                 faults[f].type = "eclipse", faults[f].target \in {h.to, h.from}, {h.to, h.from} \subseteq Peers
          PROVE  h.via = "iwant"
        <3>1. n # m
            BY <1>2, <2>1
        <3>2. Live(n) /\ f \in behind[n] /\ h \in traces[n].hops
            BY <1>2, <1>6, <2>1, <3>1
        <3>3. QED
            BY <2>1, <3>2 DEF ContainInv, EclipseLeavesLazyOnly
    <2>2. QED
        BY <1>1, <2>1 DEF EclipseLeavesLazyOnly
<1>10. QED
    BY <1>7, <1>8, <1>9

\* Where a relay is refused the message does not go.
LEMMA TakeOffContains ==
    ASSUME ContainInv, RelayTakeOff
    PROVE  SideInv' /\ LazyInv' /\ EclipseLeavesLazyOnly'
<1>1. UNCHANGED <<faults, behind, traces>> /\ held # NoRelay
    BY DEF RelayTakeOff, vars, ledger
<1>2. CASE Refused(held) \/ held.msg \in seen[held.to]
    <2>1. UNCHANGED seen /\ Asleep' = Asleep
        BY <1>2 DEF RelayTakeOff, Asleep, Scheduled
    <2>2. QED
        BY <1>1, <2>1, NothingSpreads
<1>3. CASE ~(Refused(held) \/ held.msg \in seen[held.to])
    <2>0. PICK r \in Relay : r = held
        BY <1>1 DEF ContainInv, RelayInv, RelayTypes
    <2>1. seen' = [seen EXCEPT ![r.to] = @ \cup {r.msg}] /\ relays' = relays \cup {r}
        BY <1>3, <2>0 DEF RelayTakeOff
    <2>2. /\ r.run = 1 /\ r.from \in Ids /\ r.to \in Ids /\ r.msg \in Msgs
          /\ r.from \in Peers => r.msg \in seen[r.from]
        BY <1>1, <2>0 DEF ContainInv, RelayInv, RelayTypes, FromInv, Relay
    <2>3. Asleep' = Asleep \cup {r}
        BY <2>1, <2>2 DEF Asleep, Scheduled
    <2>4. ~LinkBlocked(r.from, r.to) /\ ~is_eclipsed(r.from, r.to)
        BY <1>3, <2>0 DEF Refused
    <2>5. \A m \in Msgs : Live(m)' => /\ Live(m) /\ traces'[m].origin = traces[m].origin
                                      /\ Bridged(m) => Bridged(m)'
        BY <1>1, <2>3 DEF Live, Bridged
    <2>6. r.from \in Attackers => Bridged(r.msg)'
        BY <2>3 DEF Bridged
    <2>7. \A m \in Msgs, p \in Peers :
              m \in seen'[p] /\ m \notin seen[p] => p = r.to /\ m = r.msg
        BY <2>1, PeersAreNoAttackers DEF ContainInv, RelayInv, RelayTypes
    <2>8. r.from \in Peers \/ r.from \in Attackers
        BY <2>2, PeersAreNoAttackers
    <2>9. SideInv'
        <3>1. ASSUME NEW m \in Msgs, NEW p \in Peers, m \in seen'[p], m \notin seen[p]
              PROVE  \E q \in Ids : /\ ~LinkBlocked(q, p)
                                    /\ \/ q \in Peers /\ m \in seen[q]
                                       \/ q \in Attackers /\ Bridged(m)'
            <4>1. p = r.to /\ m = r.msg
                BY <2>7, <3>1
            <4>2. r.from \in Attackers => Bridged(m)'
                BY <2>6, <4>1
            <4>3. r.from \in Ids
                BY <2>2
            <4>4. QED
                BY <2>2, <2>4, <2>8, <4>1, <4>2, <4>3
        <3>2. QED
            BY <1>1, <2>5, <3>1, SpreadKeepsSides DEF ContainInv
    <2>10. LazyInv'
        <3>1. ASSUME NEW f \in behind[r.msg], faults[f].type = "eclipse", {r.to, r.from} \subseteq Peers
              PROVE  faults[f].target \notin {r.to, r.from}
            <4>1. f \in Active("eclipse")
                BY <2>2, <3>1 DEF ContainInv, RelayInv, RelayTypes, Active
            <4>2. QED
                BY <2>4, <3>1, <4>1, PeersAreNoAttackers DEF is_eclipsed
        <3>2. QED
            BY <1>1, <2>3, <3>1 DEF ContainInv, LazyInv
    <2>11. EclipseLeavesLazyOnly'
        BY <1>1 DEF ContainInv, EclipseLeavesLazyOnly, Live
    <2>12. QED
        BY <2>9, <2>10, <2>11
<1>4. QED
    BY <1>2, <1>3

LEMMA LandContains ==
    ASSUME ContainInv, NEW r \in relays, RelayLand(r)
    PROVE  SideInv' /\ LazyInv' /\ EclipseLeavesLazyOnly'
<1> DEFINE hop == [to |-> r.to, from |-> r.from, via |-> "mesh"]
           new == {[msg |-> r.msg, from |-> r.to, to |-> n, run |-> 0] : n \in mesh[r.to] \ {r.from}}
<1>1. r \in Asleep /\ UNCHANGED <<faults, behind, seen>>
    BY DEF RelayLand, vars
<1>2. /\ r \in Relay /\ r.run = 1 /\ r.msg \in Msgs /\ Live(r.msg) /\ traces[r.msg] \in Trace /\ traces[r.msg].run = 1
      /\ r.to \in Ids /\ r.from \in Ids
    <2>1. r \in Relay /\ r.msg <= published /\ r.run \in {0, 1} /\ r.run # 0
        BY <1>1 DEF ContainInv, RelayInv, RelayTypes, Asleep, Scheduled
    <2>2. r.msg \in 1 .. published
        BY <2>1 DEF Relay, Msgs
    <2>3. QED
        BY <2>1, <2>2 DEF ContainInv, RelayInv, RelayTypes, Relay
<1>3. /\ traces' = [traces EXCEPT ![r.msg].hops = @ \cup {hop}] /\ relays' = (relays \ {r}) \cup new
    BY <1>2 DEF RelayLand
<1>4. /\ traces'[r.msg] = [traces[r.msg] EXCEPT !.hops = @ \cup {hop}]
      /\ \A m \in Msgs \ {r.msg} : traces'[m] = traces[m]
    BY <1>2, <1>3 DEF ContainInv, RelayInv, RelayTypes
<1>5. {hop} \in SUBSET Hop /\ hop.from = r.from /\ hop.to = r.to /\ hop.via = "mesh"
    BY <1>2 DEF Hop
<1>6. \A s \in new : s.run = 0
    OBVIOUS
<1> HIDE DEF hop, new
<1>7. traces'[r.msg].origin = traces[r.msg].origin /\ traces'[r.msg].hops = traces[r.msg].hops \cup {hop}
    BY <1>2, <1>4, <1>5, LongerTrace
<1>8. Asleep' = Asleep \ {r}
    BY <1>1, <1>2, <1>3, <1>6 DEF Asleep, Scheduled
<1>9. \A m \in Msgs : Live(m)' => Live(m) /\ traces'[m].origin = traces[m].origin
    BY <1>2, <1>4, <1>7 DEF Live
<1>10. \A m \in Msgs : Bridged(m) => Bridged(m)'
    <2>1. ASSUME NEW m \in Msgs, Bridged(m) PROVE Bridged(m)'
        <3>1. PICK h \in traces[m].hops \cup {s \in Asleep : s.msg = m} : h.from \in Attackers
            BY <2>1 DEF Bridged
        <3>2. CASE h = r /\ m = r.msg
            <4>1. hop \in traces'[m].hops /\ hop.from \in Attackers
                BY <1>5, <1>7, <3>1, <3>2
            <4>2. QED
                BY <4>1 DEF Bridged
        <3>3. CASE ~(h = r /\ m = r.msg)
            <4>1. h \in traces'[m].hops \cup {s \in Asleep' : s.msg = m}
                BY <1>4, <1>7, <1>8, <3>1, <3>3
            <4>2. QED
                BY <3>1, <4>1 DEF Bridged
        <3>4. QED
            BY <3>2, <3>3
    <2>2. QED
        BY <2>1
<1>11. SideInv'
    BY <1>1, <1>9, <1>10, SpreadKeepsSides DEF ContainInv
<1>12. LazyInv'
    BY <1>1, <1>8 DEF ContainInv, LazyInv
<1>13. EclipseLeavesLazyOnly'
    <2>1. ASSUME NEW m \in Msgs, Live(m)', NEW f \in behind[m], NEW h \in traces'[m].hops,
                 faults[f].type = "eclipse", faults[f].target \in {h.to, h.from}, {h.to, h.from} \subseteq Peers
          PROVE  h.via = "iwant"
        <3>1. CASE h \in traces[m].hops
            BY <1>9, <2>1, <3>1 DEF ContainInv, EclipseLeavesLazyOnly
        <3>2. CASE h \notin traces[m].hops
            <4>1. m = r.msg /\ h = hop
                BY <1>4, <1>7, <2>1, <3>2
            <4>2. QED
                BY <1>1, <1>5, <2>1, <4>1 DEF ContainInv, LazyInv
        <3>3. QED
            BY <3>1, <3>2
    <2>2. QED
        BY <1>1, <2>1 DEF EclipseLeavesLazyOnly
<1>14. QED
    BY <1>11, <1>12, <1>13

\* IWANT pulls over links that are not blocked, and is the one way to and from an eclipsed peer.
LEMMA ServeContains ==
    ASSUME ContainInv, ServeWants
    PROVE  SideInv' /\ LazyInv' /\ EclipseLeavesLazyOnly'
<1> DEFINE wants  == {w \in Ids \X Msgs : w[2] \in wanted[w[1]]}
           alive  == {w \in wants : Live(w[2])}
           served == {w \in alive : Servers(w[1], w[2]) # {}}
           pulled == {w \in served : w[1] \notin Delivered(w[2])}
<1>1. /\ UNCHANGED <<faults, relays, behind>>
      /\ seen' = [q \in Ids |-> seen[q] \cup {m \in Msgs : <<q, m>> \in pulled}]
    BY DEF ServeWants, HeartbeatEnd, fault
<1>2. PICK from \in [pulled -> Peers] :
          /\ \A w \in pulled : from[w] \in Servers(w[1], w[2])
          /\ traces' = [m \in Msgs |->
                 IF \E w \in pulled : w[2] = m
                 THEN [traces[m] EXCEPT !.hops = @ \cup
                         {[to |-> w[1], from |-> from[w], via |-> "iwant"] : w \in {v \in pulled : v[2] = m}}]
                 ELSE traces[m]]
    BY DEF ServeWants
<1> DEFINE hops(m) == {[to |-> w[1], from |-> from[w], via |-> "iwant"] : w \in {v \in pulled : v[2] = m}}
<1>3. \A w \in pulled : /\ w = <<w[1], w[2]>> /\ w[1] \in Peers /\ w[2] \in Msgs /\ Live(w[2])
    BY PeersAreNoAttackers DEF ContainInv, RelayInv, WantsInv
<1> HIDE DEF wants, alive, served, pulled
<1>4. \A m \in Msgs : hops(m) \in SUBSET Hop /\ \A h \in hops(m) : h.via = "iwant"
    BY <1>2, <1>3, PeersAreNoAttackers DEF Hop
<1>5. \A m \in Msgs : \/ traces'[m] = traces[m]
                      \/ /\ Live(m) /\ traces[m] \in Trace
                         /\ traces'[m] = [traces[m] EXCEPT !.hops = @ \cup hops(m)]
    <2>1. \A m \in Msgs : Live(m) => traces[m] \in Trace
        BY DEF ContainInv, RelayInv, RelayTypes
    <2>2. QED
        BY <1>2, <1>3, <2>1
<1> HIDE DEF hops
<1>6. Asleep' = Asleep
    BY <1>1 DEF Asleep, Scheduled
<1>7. \A m \in Msgs : Live(m)' => /\ Live(m) /\ traces'[m].origin = traces[m].origin
                                  /\ traces[m].hops \subseteq traces'[m].hops
                                  /\ traces'[m].hops \subseteq traces[m].hops \cup hops(m)
    <2>1. ASSUME NEW m \in Msgs, Live(m)'
          PROVE  /\ Live(m) /\ traces'[m].origin = traces[m].origin
                 /\ traces[m].hops \subseteq traces'[m].hops
                 /\ traces'[m].hops \subseteq traces[m].hops \cup hops(m)
        <3>1. CASE traces'[m] = traces[m]
            BY <2>1, <3>1 DEF Live
        <3>2. CASE /\ Live(m) /\ traces[m] \in Trace
                   /\ traces'[m] = [traces[m] EXCEPT !.hops = @ \cup hops(m)]
            <4>1. traces'[m].origin = traces[m].origin /\ traces'[m].hops = traces[m].hops \cup hops(m)
                BY <1>4, <3>2, LongerTrace
            <4>2. QED
                BY <3>2, <4>1
        <3>3. QED
            BY <1>5, <3>1, <3>2
    <2>2. QED
        BY <2>1
<1>8. SideInv'
    <2>1. \A m \in Msgs : Live(m)' => /\ Live(m) /\ traces'[m].origin = traces[m].origin
                                      /\ Bridged(m) => Bridged(m)'
        BY <1>6, <1>7 DEF Bridged
    <2>2. ASSUME NEW m \in Msgs, NEW p \in Peers, m \in seen'[p], m \notin seen[p]
          PROVE  \E q \in Ids : /\ ~LinkBlocked(q, p)
                                /\ \/ q \in Peers /\ m \in seen[q]
                                   \/ q \in Attackers /\ Bridged(m)'
        <3>1. <<p, m>> \in pulled
            BY <1>1, <2>2, PeersAreNoAttackers
        <3>2. from[<<p, m>>] \in Peers /\ from[<<p, m>>] \in Servers(p, m)
            BY <1>2, <3>1
        <3>3. QED
            BY <3>2, PeersAreNoAttackers DEF Servers
    <2>3. QED
        BY <1>1, <2>1, <2>2, SpreadKeepsSides DEF ContainInv
<1>9. LazyInv'
    BY <1>1, <1>6 DEF ContainInv, LazyInv
<1>10. EclipseLeavesLazyOnly'
    <2>1. ASSUME NEW m \in Msgs, Live(m)', NEW f \in behind[m], NEW h \in traces'[m].hops,
                 faults[f].type = "eclipse", faults[f].target \in {h.to, h.from}, {h.to, h.from} \subseteq Peers
          PROVE  h.via = "iwant"
        <3>1. CASE h \in traces[m].hops
            BY <1>7, <2>1, <3>1 DEF ContainInv, EclipseLeavesLazyOnly
        <3>2. CASE h \notin traces[m].hops
            BY <1>4, <1>7, <2>1, <3>2
        <3>3. QED
            BY <3>1, <3>2
    <2>2. QED
        BY <1>1, <2>1 DEF EclipseLeavesLazyOnly
<1>11. QED
    BY <1>8, <1>9, <1>10

\* A message that a fault was there before is behind it until the fault changes.
LEMMA FaultContains ==
    ASSUME ContainInv, FaultStep(AnyFault)
    PROVE  SideInv' /\ LazyInv' /\ EclipseLeavesLazyOnly'
<1>1. /\ UNCHANGED <<traces, relays>>
      /\ seen' = [q \in Ids |-> IF (q \in members) = (q \in members') THEN seen[q] ELSE {}]
      /\ behind' = [m \in Msgs |-> {f \in behind[m] : faults'[f] = faults[f]}]
    BY DEF FaultStep, ForgetAttackers, ledger
<1>2. \A p \in Peers : \A m : m \in seen'[p] => m \in seen[p]
    BY <1>1, PeersAreNoAttackers
<1>3. Asleep' = Asleep /\ \A m \in Msgs : (Live(m)' <=> Live(m)) /\ (Bridged(m)' <=> Bridged(m))
    BY <1>1 DEF Asleep, Scheduled, Live, Bridged
<1>4. \A m \in Msgs : \A f \in behind'[m] :
          /\ f \in behind[m] /\ f \in FaultIds
          /\ faults'[f] = faults[f] /\ Sides(f)' = Sides(f)
    BY <1>1 DEF Sides, ContainInv, RelayInv, RelayTypes
<1>5. SideInv'
    <2> SUFFICES ASSUME NEW m \in Msgs, Live(m)', NEW f \in behind'[m]
                 PROVE  /\ \A side \in Sides(f)' :
                                traces'[m].origin \in side /\ ~Bridged(m)' =>
                                    \A p \in Peers : m \in seen'[p] => p \in side
                        /\ faults'[f].type = "drop" /\ m \in seen'[faults'[f].peer]
                                => traces'[m].origin = faults'[f].peer
        BY DEF SideInv
    <2>1. /\ Live(m) /\ traces' = traces /\ (Bridged(m)' <=> Bridged(m))
          /\ f \in behind[m] /\ f \in FaultIds /\ faults'[f] = faults[f] /\ Sides(f)' = Sides(f)
        BY <1>1, <1>3, <1>4
    <2>2. faults[f].type = "drop" => faults[f].peer \in Peers
        BY <2>1, DroppedIsAPeer DEF ContainInv, RelayInv
    <2>3. QED
        BY <1>2, <2>1, <2>2 DEF ContainInv, SideInv
<1>6. LazyInv'
    <2>1. \A r \in Asleep : r.msg \in Msgs
        BY DEF ContainInv, RelayInv, RelayTypes, Relay, Asleep, Scheduled
    <2>2. QED
        BY <1>3, <1>4, <2>1 DEF ContainInv, LazyInv
<1>7. EclipseLeavesLazyOnly'
    BY <1>1, <1>3, <1>4 DEF ContainInv, EclipseLeavesLazyOnly
<1>8. QED
    BY <1>5, <1>6, <1>7

LEMMA ContainStep ==
    ASSUME ContainInv, [RelayNext]_relayVars
    PROVE  ContainInv'
<1>1. RelayInv'
    BY RelayStepInv DEF ContainInv
<1>2. ASSUME NEW o \in Peers, Publish(o) PROVE SideInv' /\ LazyInv' /\ EclipseLeavesLazyOnly'
    BY <1>2, PublishContains
<1>3. ASSUME NEW r \in relays, RelayLookUp(r) PROVE SideInv' /\ LazyInv' /\ EclipseLeavesLazyOnly'
    <2>1. UNCHANGED <<faults, behind, traces, seen>> /\ Asleep' = Asleep
        BY <1>3 DEF RelayLookUp, vars, fault, ledger, Asleep, Scheduled
    <2>2. QED
        BY <2>1, NothingSpreads
<1>4. CASE RelayTakeOff
    BY <1>1, <1>4, TakeOffContains DEF ContainInv
<1>5. ASSUME NEW r \in relays, RelayLand(r) PROVE SideInv' /\ LazyInv' /\ EclipseLeavesLazyOnly'
    BY <1>5, LandContains
<1>6. CASE QuietBeat \/ MaintainAndAnnounce \/ UNCHANGED relayVars
    <2>1. UNCHANGED <<faults, behind, traces, seen, relays>>
        BY <1>6 DEF QuietBeat, HeartbeatBegin, HeartbeatSkip, HeartbeatRead, MaintainAndAnnounce, HeartbeatWrite,
                    relayVars, vars, fault, ledger, copies
    <2>2. Asleep' = Asleep
        BY <2>1 DEF Asleep, Scheduled
    <2>3. QED
        BY <1>1, <2>1, <2>2, NothingSpreads DEF ContainInv
<1>7. CASE ServeWants
    BY <1>1, <1>7, ServeContains DEF ContainInv
<1>8. CASE FaultStep(AnyFault)
    BY <1>1, <1>8, FaultContains DEF ContainInv
<1>9. QED
    BY <1>1, <1>2, <1>3, <1>4, <1>5, <1>6, <1>7, <1>8 DEF ContainInv, RelayNext, Relaying, Beating

\* What was published behind a partition, a drop or an eclipse does not get past it while it lasts, over
\* flood, mesh relay or IWANT (but for an attacker's id that is used again), in any number and order of faults.
THEOREM FaultsAreKept == RelaySpec => []FaultsContain
<1>1. RelayInit => ContainInv
    BY RelayInitInv
<1>2. ContainInv /\ [RelayNext]_relayVars => ContainInv'
    BY ContainStep
<1>3. ContainInv => FaultsContain
    <2> SUFFICES ASSUME ContainInv PROVE CutsContain /\ EclipseLeavesLazyOnly
        BY DEF FaultsContain
    <2>1. \A m \in Msgs, p \in Peers : Live(m) /\ p \in Delivered(m) => m \in seen[p]
        BY DEF ContainInv, RelayInv, NothingLost
    <2>2. ASSUME NEW m \in Msgs, Live(m), NEW f \in behind[m]
          PROVE  /\ \A side \in Sides(f) :
                        traces[m].origin \in side /\ ~Bridged(m) => Delivered(m) \cap Peers \subseteq side
                 /\ faults[f].type = "drop" => Delivered(m) \cap {faults[f].peer} \subseteq {traces[m].origin}
        <3>1. f \in FaultIds
            BY <2>2 DEF ContainInv, RelayInv, RelayTypes
        <3>2. faults[f].type = "drop" => faults[f].peer \in Peers
            BY <3>1, DroppedIsAPeer DEF ContainInv, RelayInv
        <3>3. QED
            BY <2>1, <2>2, <3>2 DEF ContainInv, SideInv
    <2>3. QED
        BY <2>2 DEF ContainInv, CutsContain
<1>4. QED
    BY <1>1, <1>2, <1>3, PTL DEF RelaySpec

=============================================================================
