\* One message under any two faults.
SPECIFICATION RelaySpec
CONSTANTS
    p1 = p1
    p2 = p2
    p3 = p3
    Peers <- MCPeers
    MaxIndex = 0
    FaultIds = {1, 2}
    D = 1
    D_LOW = 1
    D_HIGH = 1
    Fanout = 1
    SybilSizes = {}
    EclipseSizes = {1}
    Partitions <- MCPartition
    Topologies <- MCBoth
    P1Points = {0}
    MaxMsgs = 1
    MaxRuns = 1
    D_LAZY = 2
INVARIANTS
    DeliveredExactlyOnce
    FaultsContain
