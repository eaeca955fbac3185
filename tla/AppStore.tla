------------------------------ MODULE AppStore ------------------------------
(***************************************************************************)
(* The frontend's store (web/lib/store.ts): one record, and one operator   *)
(* for each of its actions that other parts call.  An operator takes the   *)
(* store before its set() and gives the store after it; when the actions   *)
(* run, and in which order, is up to the modules that extend this one.     *)
(*                                                                         *)
(* Events are records [type |-> "event", kind, at, ...]; the other frames  *)
(* have the types of the wire format.  Of an analytics frame is kept       *)
(* whether it counts messages and whether 95% of them arrived, of a        *)
(* metrics frame an opaque value, of captions and beats what they are      *)
(* about.  Labels, colours and totals that are only displayed are left     *)
(* out.                                                                    *)
(***************************************************************************)
EXTENDS Integers, Sequences, SequencesExt, Null

CONSTANTS
  RealPeers,       \* peers that are observers of the real network, the others are simulated
  MAX_EVENTS,      \* how many events, samples and scores the store keeps
  MAX_SAMPLES,
  SCORE_HISTORY,
  DURATION         \* how long a run is before it pauses, until the user or a scenario says otherwise

ASSUME BoundsAssumption == /\ MAX_EVENTS \in Nat \ {0}
                           /\ MAX_SAMPLES \in Nat \ {0}
                           /\ SCORE_HISTORY \in Nat \ {0}
                           /\ DURATION \in Nat \ {0}

IsSimPeer(p) == p \notin RealPeers

NARRATOR_IDLE == [pruned |-> None, healFrom |-> None, healed |-> FALSE]

InitialStore ==
  [connected |-> FALSE, connecting |-> TRUE, connectScenarioPending |-> FALSE,
   simState |-> "stopped", simTime |-> 0, eventCount |-> 0, playing |-> FALSE,
   nodes |-> <<>>, edges |-> None,
   layoutMode |-> "force", geoAvailable |-> FALSE, layoutBeforeGeo |-> None, geoAutoDone |-> FALSE,
   selectedPeer |-> None, scoreHistory |-> <<>>,
   events |-> <<>>, droppedEvents |-> 0, activeFaults |-> 0,
   activeScenario |-> None, maxDuration |-> DURATION, durationStep |-> DURATION,
   reel |-> None, reelLoad |-> None, mainnet |-> FALSE,
   metrics |-> None, gossipAnalytics |-> None, analyticsHistory |-> <<>>,
   beats |-> <<>>, caption |-> None, phaseLabel |-> None, invalidCount |-> 0,
   narrator |-> NARRATOR_IDLE]

\* seq.slice(-n)
Newest(n, seq) == IF Len(seq) <= n THEN seq ELSE SubSeq(seq, Len(seq) - n + 1, Len(seq))

Caption(kind, label, at) == [kind |-> kind, label |-> label, at |-> at]
Beat(kind, label, time) == [kind |-> kind, label |-> label, time |-> time]

ResetNarrator(s) ==
  [s EXCEPT !.beats = <<>>, !.caption = None, !.phaseLabel = None,
            !.invalidCount = 0, !.narrator = NARRATOR_IDLE]

(***************************************************************************)
(* Typed frames.                                                           *)
(***************************************************************************)
\* Slip: the state is taken over, the button is not.
TakeStateOnly(s, f) == IF s.reel # None THEN s ELSE [s EXCEPT !.simState = f.state]

\* In a reel the state that was recorded does not drive the transport: playing belongs to the player.
TakeState(s, f) ==
  IF s.reel # None THEN s ELSE [s EXCEPT !.simState = f.state, !.playing = (f.state = "running")]

\* A snapshot replaces the nodes.  A selected peer that is gone is deselected.
ApplySnapshot(s, f) ==
  LET shown == [TakeState(s, f) EXCEPT !.nodes = f.nodes, !.eventCount = f.event_count, !.simTime = f.time,
                            !.geoAvailable = \E p \in DOMAIN f.nodes : ~IsSimPeer(p)]
  IN  CASE s.selectedPeer = None -> shown
        [] s.selectedPeer # None /\ s.selectedPeer \notin DOMAIN f.nodes ->
             [shown EXCEPT !.selectedPeer = None, !.scoreHistory = <<>>]
        [] OTHER ->
             [shown EXCEPT !.scoreHistory = Newest(SCORE_HISTORY, Append(@, f.time))]

ApplyMetrics(s, f) == [s EXCEPT !.metrics = f.totals]

\* The first analytics frame with 95% delivered after a fault was cleared announces the healing, once.
Heals(s, f) == s.narrator.healFrom # None /\ ~s.narrator.healed /\ f.delivered

ApplyAnalytics(s, f) ==
  LET known == [s EXCEPT !.gossipAnalytics = f]
      sampled == IF f.messages
                 THEN [known EXCEPT !.analyticsHistory = Newest(MAX_SAMPLES, Append(@, s.simTime))]
                 ELSE known
  IN  IF Heals(s, f)
      THEN [sampled EXCEPT !.narrator.healed = TRUE,
                           !.caption = Caption("healed", s.simTime - s.narrator.healFrom, s.simTime),
                           !.beats = Append(@, Beat("healed", "Mesh healed", s.simTime))]
      ELSE sampled

\* Switching the feed off arms the automatic switch to the geographic layout again.
ApplyTelemetryStatus(s, f) ==
  [s EXCEPT !.mainnet = f.mainnet, !.geoAutoDone = @ /\ ~(s.mainnet /\ ~f.mainnet)]

ApplyEdges(s, f) == [s EXCEPT !.edges = f.edges]

\* A scenario frame starts a run and forgets the faults, but for the one that every connection begins with.
ApplyScenario(s, f) ==
  LET run == [ResetNarrator(s) EXCEPT
                !.activeScenario = IF f.active THEN f.name ELSE None,
                !.maxDuration = IF f.active /\ f.duration > 0 THEN f.duration ELSE @]
  IN  IF s.connectScenarioPending
      THEN [run EXCEPT !.connectScenarioPending = FALSE]
      ELSE [run EXCEPT !.activeFaults = 0]

ApplyGap(s, f) == [s EXCEPT !.droppedEvents = @ + f.dropped]

ApplyTyped(s, f) ==
  CASE f.type = "snapshot"         -> ApplySnapshot(s, f)
    [] f.type = "metrics"          -> ApplyMetrics(s, f)
    [] f.type = "analytics"        -> ApplyAnalytics(s, f)
    [] f.type = "telemetry_status" -> ApplyTelemetryStatus(s, f)
    [] f.type = "edges"            -> ApplyEdges(s, f)
    [] f.type = "scenario"         -> ApplyScenario(s, f)
    [] f.type = "gap"              -> ApplyGap(s, f)

(***************************************************************************)
(* Events.                                                                 *)
(***************************************************************************)
\* An observer reports a block: its first report starts a new wave over all observers.
ShowBlock(s, e) ==
  LET wave == [p \in DOMAIN s.nodes |-> IF e.first /\ p \in RealPeers THEN "idle" ELSE s.nodes[p]]
      seen == [s EXCEPT !.nodes = [wave EXCEPT ![e.peer] = IF e.first THEN "origin" ELSE "decoded"]]
  IN  IF e.first /\ s.layoutMode = "geo"
      THEN [seen EXCEPT !.caption = Caption("block", e.peer, e.at)] ELSE seen

FaultStarts(s, e) ==
  [s EXCEPT !.activeFaults = @ + 1, !.beats = Append(@, Beat("fault", e.fault, e.at))]

FaultEnds(s, e) ==
  [s EXCEPT !.activeFaults = 0, !.beats = Append(@, Beat("cleared", e.fault, e.at)),
            !.narrator = IF @.healFrom = None THEN [@ EXCEPT !.healFrom = e.at, !.healed = FALSE] ELSE @]

PruneSybil(s, e) ==
  [s EXCEPT !.narrator.pruned = e.at, !.caption = Caption("narrator", "pruned", e.at),
            !.beats = Append(@, Beat("prune", "First Sybil pruned", e.at))]

Effect(s, e) ==
  CASE e.kind = "ClockTick" -> [s EXCEPT !.simTime = e.at]
    [] e.kind = "SimulationStateChanged" /\ s.reel = None ->
         [s EXCEPT !.simState = e.state, !.playing = (e.state = "running")]
    [] e.kind = "BlockSeen" /\ e.peer \in DOMAIN s.nodes -> ShowBlock(s, e)
    [] e.kind = "ScenarioPhaseFired" ->
         [s EXCEPT !.phaseLabel = e.label, !.caption = Caption("phase", e.label, e.at),
                   !.beats = Append(@, Beat("phase", e.label, e.at))]
    [] e.kind = "SybilPruned" /\ s.narrator.pruned = None -> PruneSybil(s, e)
    [] e.kind = "Spam" -> [s EXCEPT !.invalidCount = @ + 1]
    [] e.kind = "FaultInjected" -> FaultStarts(s, e)
    [] e.kind = "FaultCleared" -> FaultEnds(s, e)
    [] OTHER -> s

ApplyEvent(s, e) ==
  Effect([s EXCEPT !.events = Newest(MAX_EVENTS, Append(@, e)), !.eventCount = @ + 1], e)

ApplyEvents(s, batch) == FoldLeft(ApplyEvent, s, batch)

(***************************************************************************)
(* dispatch.ts: events wait for the flush, or for the next typed frame.    *)
(* A channel is the store with the events that wait.                       *)
(***************************************************************************)
Channel(s) == [store |-> s, pending |-> <<>>]

FlushEvents(ch) == Channel(ApplyEvents(ch.store, ch.pending))

DispatchFrame(ch, f) ==
  IF f.type = "event"
  THEN [ch EXCEPT !.pending = Append(@, f)]
  ELSE Channel(ApplyTyped(FlushEvents(ch).store, f))

\* Frames in a row, and the flush that ends every burst of them.
DispatchAll(s, frames) == FlushEvents(FoldLeft(DispatchFrame, Channel(s), frames)).store

(***************************************************************************)
(* What the user interface does.                                           *)
(***************************************************************************)
\* Slip: the chart's samples are kept.
ResetRunKeepsSamples(s) ==
  [ResetNarrator(s) EXCEPT !.events = <<>>, !.eventCount = 0, !.droppedEvents = 0,
                           !.selectedPeer = None, !.scoreHistory = <<>>, !.simTime = 0]

ResetRun(s) ==
  [ResetNarrator(s) EXCEPT !.events = <<>>, !.eventCount = 0, !.droppedEvents = 0,
                           !.selectedPeer = None, !.scoreHistory = <<>>,
                           !.analyticsHistory = <<>>, !.simTime = 0]

SelectPeer(s, p) ==
  [s EXCEPT !.selectedPeer = p, !.scoreHistory = IF p = s.selectedPeer THEN @ ELSE <<>>]

SetConnected(s, up) ==
  [s EXCEPT !.connected = up, !.connecting = FALSE, !.connectScenarioPending = @ \/ up]

\* The geographic layout shows real peers only and the others simulated ones only: a selection of the
\* wrong sort is dropped.  An automatic switch remembers the layout it left, a manual one forgets it.
SetLayoutMode(s, mode, remember) ==
  LET next == IF mode = "geo" /\ ~s.geoAvailable THEN "force" ELSE mode
      gone == s.selectedPeer \in DOMAIN s.nodes /\ ((next = "geo") = IsSimPeer(s.selectedPeer))
  IN  [s EXCEPT !.layoutMode = next,
                !.layoutBeforeGeo = CASE ~remember -> None
                                      [] remember /\ s.layoutMode # "geo" -> s.layoutMode
                                      [] OTHER -> @,
                !.selectedPeer = IF gone THEN None ELSE @]

SetDuration(s, sec) == [s EXCEPT !.maxDuration = sec, !.durationStep = sec]

ExtendDuration(s) == [s EXCEPT !.maxDuration = s.simTime + s.durationStep]

Connection(s) ==
  CASE s.reel # None -> "reel"
    [] s.reel = None /\ s.connecting -> "connecting"
    [] s.reel = None /\ ~s.connecting -> IF s.connected THEN "live" ELSE "offline"

=============================================================================
