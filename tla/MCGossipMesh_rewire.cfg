\* Topologies applied from the asyncio thread at any point of a heartbeat.
SPECIFICATION FairSpecRewire
CONSTANTS
    p1 = p1
    p2 = p2
    p3 = p3
    Peers <- MCPeers
    MaxIndex = 0
    FaultIds = {1}
    D = 2
    D_LOW = 1
    D_HIGH = 2
    Fanout = 2
    SybilSizes = {1}
    EclipseSizes = {1}
    Partitions <- MCOnePartition
    Topologies <- MCBoth
    P1Points = {0, 5}
PROPERTIES
    MeshHeals
