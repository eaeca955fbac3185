---------------------------- MODULE MCGossipMesh ----------------------------
(* Small instances of GossipMesh for TLC.                                   *)
EXTENDS GossipMesh

CONSTANTS p1, p2, p3

MCPeers == {p1, p2, p3}

\* Everyone next to everyone, and the line p1 - p2 - p3.
Complete == [p \in MCPeers |-> MCPeers \ {p}]
Line == [p \in MCPeers |-> IF p = p2 THEN {p1, p3} ELSE {p2}]
MCComplete == {Complete}
MCLine == {Line}
MCBoth == {Complete, Line}

\* The partitions that split the peers in two, one that leaves a peer out.
MCPartitions == {<<{p1}, {p2, p3}>>, <<{p1}, {p2}>>}
MCOnePartition == {<<{p1}, {p2, p3}>>}

=============================================================================
