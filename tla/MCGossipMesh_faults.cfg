\* Faults and heartbeats on a fixed topology.
SPECIFICATION FairSpec
CONSTANTS
    p1 = p1
    p2 = p2
    p3 = p3
    Peers <- MCPeers
    MaxIndex = 1
    FaultIds = {1, 2}
    D = 2
    D_LOW = 1
    D_HIGH = 2
    Fanout = 2
    SybilSizes = {1}
    EclipseSizes = {1, 2}
    Partitions <- MCPartitions
    Topologies <- MCComplete
    P1Points = {0, 5}
INVARIANTS
    TypeOK
    FaultsIsolate
    AttackersAccounted
PROPERTIES
    PrunedStaysOut
    SpammerEvicted
