\* Eclipses only: the lazy path under fairness.
SPECIFICATION FairEclipseSpec
CONSTANTS
    p1 = p1
    p2 = p2
    p3 = p3
    Peers <- MCPeers
    MaxIndex = 0
    FaultIds = {1}
    D = 1
    D_LOW = 1
    D_HIGH = 1
    Fanout = 1
    SybilSizes = {}
    EclipseSizes = {1}
    Partitions <- MCPartition
    Topologies <- MCLine
    P1Points = {0}
    MaxMsgs = 1
    MaxRuns = 1
    D_LAZY = 2
PROPERTIES
    EclipsedStaysAlive
