---------------------------- MODULE MCReelPlayer ----------------------------
(* A recording of a scenario with faults and a recording of the real network, as the recorder and *)
(* scripts/mainnet_to_reel.py write them: edges and an idle scenario first, events, and the first *)
(* snapshot some time later; metrics and analytics come later still.                              *)
EXTENDS ReelPlayer

At(t, frame) == [t |-> t, frame |-> frame]
Snapshot(time, nodes) ==
  [type |-> "snapshot", state |-> "running", time |-> time, event_count |-> time, nodes |-> nodes]
Edges(e) == [type |-> "edges", edges |-> e]
Scenario(active, name) == [type |-> "scenario", active |-> active, name |-> name, duration |-> 3]
Analytics(delivered) == [type |-> "analytics", messages |-> TRUE, delivered |-> delivered]
Ev(kind, at) == [type |-> "event", kind |-> kind, at |-> at]
Fault(kind, at) == [type |-> "event", kind |-> kind, at |-> at, fault |-> "drop"]
Phase(at) == [type |-> "event", kind |-> "ScenarioPhaseFired", at |-> at, label |-> "drop it"]
Block(p, first, at) == [type |-> "event", kind |-> "BlockSeen", peer |-> p, first |-> first, at |-> at]

Sims == [p \in {"a", "b"} |-> "idle"]
Fewer == [p \in {"a"} |-> "decoded"]
Observers == [p \in {"r", "q"} |-> "idle"]

Attack == << At(0, Edges("e1")), At(0, Scenario(FALSE, None)), At(0, Ev("PeerConnected", 0)),
             At(1, Snapshot(0, Sims)), At(1, Scenario(TRUE, "attack")),
             At(2, Ev("ClockTick", 1)), At(2, [type |-> "metrics", totals |-> "m1"]), At(2, Analytics(FALSE)),
             At(3, Phase(1)), At(3, Fault("FaultInjected", 1)), At(3, Ev("SybilPruned", 1)),
             At(3, Ev("SybilPruned", 1)), At(4, Ev("Spam", 2)),
             At(4, Fault("FaultCleared", 2)), At(4, Snapshot(2, Fewer)), At(4, Analytics(TRUE)),
             At(5, [type |-> "gap", dropped |-> 1]), At(5, Ev("ClockTick", 3)) >>

Mainnet == << At(0, Edges("e0")), At(0, Scenario(FALSE, None)),
              At(0, [type |-> "telemetry_status", mainnet |-> TRUE]), At(0, Snapshot(0, Observers)),
              At(1, Block("r", TRUE, 1)), At(1, Block("q", FALSE, 1)),
              At(2, Snapshot(2, Observers)) >>

TwoReels == [name \in {"attack", "mainnet"} |-> IF name = "attack" THEN Attack ELSE Mainnet]
Observing == {"r", "q"}
=============================================================================
