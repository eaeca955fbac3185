--------------------------- MODULE MCGossipRelay ---------------------------
(* Small instances of GossipRelay for TLC.                                  *)
EXTENDS GossipRelay

CONSTANTS p1, p2, p3

MCPeers == {p1, p2, p3}
Line == [p \in MCPeers |-> IF p = p2 THEN {p1, p3} ELSE {p2}]
Triangle == [p \in MCPeers |-> MCPeers \ {p}]
MCLine == {Line}

MCBoth == {Line, Triangle}

MCPartition == {<<{p1}, {p2, p3}>>}

=============================================================================
