# Luminar in TLA+

Luminar is a GossipSub teaching simulator: a Python backend simulates a network
of peers on one trio thread and serves it, from an asyncio thread, to a
TypeScript frontend that draws it live or replays a recording.  Around it are a
landing page, the recorder of the recordings, and the pipelines of two films.
This directory models what in them is concurrent or stateful, checks the models
with TLC on small instances, and proves most of their safety properties with TLAPS
for every value of the constants.

## 1. The system

| Component | State | Operations | Talks to | Module |
|---|---|---|---|---|
| gossip mesh (`gossip/engine.py`, `scoring.py`) | topology, meshes, subscriptions, scores | heartbeat (prune, graft, IHAVE/IWANT), `set_topology`, `subscribe_all` | scorer, fault injector, bus | `GossipMesh` |
| fault injector (`fault/injector.py`) | active faults | inject (latency, partition, drop, sybil, eclipse), clear, clear all | writes meshes, subscriptions, scores, node states | `GossipMesh`, `Readouts` |
| message relay (`gossip/engine.py`) | traces, seen and history, pending IWANTs, one trio task per hop | `publish`, `_relay_message`, `_process_iwants`, `reset` | meshes and faults | `GossipRelay` |
| node pool, clock, engine (`simulation/`) | node states, time, pause, speed | peer loop, heartbeat loop, snapshot, `reset` | publish, heartbeat, query | in the modules that use them |
| event bus and websocket (`events/bus.py`, `main.py`) | ring, count; per client: counters | `emit`, `clear`; the 20 Hz stream | written on trio, read and cleared on asyncio | `EventStream` |
| run control (`main.py`, `scenarios/`) | edges, launch generation, lock, phase index | reset, reconfigure, launch, topology, poll and fire | everything, through `trio.from_thread` or directly | `RunControl` |
| stream manager, DHT coordinator (`concurrency/`) | semaphore, open streams, active queries | open, dial, close; query, retry, back off | bus | `StreamManager`, `DHTCoordinator`, `Slots` |
| OTLP exporter (`otel/exporter.py`) | queue, roots, counters | sink, flush, new run, stop | a sink of the bus; a thread of its own | `TraceExport` |
| frontend store (`web/lib/store.ts`, `api/dispatch.ts`) | one record | its actions, frame dispatch | everything in the frontend | `AppStore` |
| reel player (`web/lib/api/replay.ts`) | frames, cursor, clock, loads | load, play, seek, scrub, leave | store | `ReelPlayer`, `ReelView` |
| live link (`web/lib/api/websocket.ts`) | socket, timers, batches | connect, reconnect, disconnect | server, store | `LiveLink` |
| transport (`web/lib/actions.ts`) | optimistic button, duration | play, pause, reset, launch, auto-pause | HTTP API, frames | `Transport` |
| simulator shell (`SimApp.tsx`, `Menus.tsx`, `Overlay.tsx`, ...) | panels, focus, layout, URL | keys, clicks, auto-geo, mirror | store, address bar, storage | `SimShell` |
| map renderer (`components/map`) | layers, positions, camera, animations | frame loop, layout, lost contexts | store | `MapView` |
| log rail, inspector, rails, notices (`components/sim`) | scroll, timers; views of the store | scroll, filter, expire | store | `LogView`, `Readouts`, `Notices` |
| landing page (`components/landing`, `fx`) | animation loops, figure 1, film player | observe, draw, play | recordings' figures | `Stories`, `PlateView`, `FilmView` |
| recorder and readers of recordings | a file of frames | record, read | websocket, landing page, film, scrubber | `Recording` |
| demo film (`demo/`, `web/remotion/demo`) | frames on disk, sidecars, script | record, encode, retime, cut | the interface | `Footage`, `Voice`, `Cuts` |

Not modelled: see section 7.

There are two backend threads.  **trio** runs the simulation: `EventBus.emit` is
a coroutine that reaches no checkpoint, so a heartbeat, an injection or the part
of a relay up to its sleep runs in one piece with respect to other trio tasks.
**asyncio** runs the API; it injects faults by handing a coroutine to trio, and
applies topologies, resets and launches by writing the shared objects itself,
which may happen between any two bytecodes of the trio thread.  The exporter
adds a daemon thread.  The frontend is one event loop: handlers, timers,
animation frames, React's effects and answers to requests, in any order the
browser may run them.

### What is hard

* Faults overlap and are cleared in any order; a relay sleeps while they come
  and go; topologies and resets arrive in the middle of heartbeats and relays.
* The websocket reader reconstructs "what is new" from a counter and a ring
  that another thread appends to and its own thread clears.
* Requests interleave at their awaits; the runner's index has two writers.
* Semaphores, retries, cancellation and partial failure in `concurrency/`; a
  bounded queue with two consumers in the exporter.
* In the frontend: files, sockets, timers and answers that arrive late or for
  something that is gone; optimistic controls; indexes into lists that were
  replaced; events that the page cannot tell from its own.
* Four programs read the same recording and were written apart.
* Recordings that die are taken up again.

`hazards` in PROJECT.json lists these at their lines, with the properties that
are about them.

## 2. Modules

Definitions marked `Slip:` are not part of a model.  Each is a plausible wrong
version of the definition after it (a dropped guard, a swapped order), kept
because some property refutes it.  Definitions marked "Not true of the code"
state what a comment, a doc or a test says and a model refutes (section 6).

`MC*` modules instantiate the others for TLC; `Null` declares the absent value.
`GossipProofs` (about `GossipMesh` and `GossipRelay`), `ServicesProofs` (about
`Services` and `RunControl`), `SimShellProofs`, `MapViewProofs`, `LiveLinkProofs`,
`ReelPlayerProofs` and `PanelsProofs` hold the theorems about the module they are
named for, and their proofs (section 4); `RecordingProofs` holds the lemmas about
`Recording` that a theorem of `PanelsProofs` rests on.

### GossipMesh, GossipProofs

State: `topology`, `mesh`, `members` are `_topology`, `_mesh[topic]` and the
attackers of `_subscriptions[topic]`; `faults` is `_active_faults` with slots
in place of uuids; `crashed` holds the nodes whose state is FAILED; `invalid`
is the scorer's `invalid_messages` in quarters.

A heartbeat is a run of steps: `HeartbeatBegin` (decay, then one penalty for
each sybil), for each subscriber `HeartbeatSkip`, or `HeartbeatRead` and
`HeartbeatWrite`, and `HeartbeatEnd`.  Other trio operations need `TrioIdle`;
`SetTopology` and `Resubscribe`, the two halves of `wire_topology`, run on the
asyncio thread and do not.  That is how a heartbeat can write back a mesh that
was replaced since it was read.

Abstractions.  There is one topic, as in the program.  `latency` faults change
only a delay.  Scores are kept as far as they decide something: a sybil's
`P4 = -10 * invalid` exactly, with its decay, its P1 as any member of
`P1Points`; the order among peers that did nothing invalid is left open, so any
sample may be pruned or grafted.  `Samples` stands for `random.sample`.

### GossipRelay, GossipProofs

Adds `traces` (`_traces`: origin and hops), `seen` (`_seen`, and `_history`,
which has the same ids below the bounds), `wanted` (`_iwant_pending`),
`relays` (the trio tasks, scheduled with run 0 or asleep with the trace they
hold) and `published` (`_msg_counter`).  `RelayLookUp` and `RelayTakeOff`
are the two sides of the only point inside a relay where the asyncio thread's
`reset` matters; `RelayLand` is what follows the sleep.  Every action of
`GossipMesh` is conjoined with what it does to messages: `MaintainAndAnnounce`
is a peer's maintenance followed by its IHAVE, `ServeWants` the end of the
heartbeat with `_process_iwants`, `FaultStep` any fault operation.  `reset` has
two pieces, traces first.  `behind` is a history variable: which faults have
been active ever since a message was published.

### EventStream

State: `ring`, `count` are `_ring` and `_event_count`; `last` is the client's
`last_event_count`; `tick` is where the reader is in lines 262-281 of `main.py`
and what it holds there.  `ReadCount`, `CopyRing` and `SelectWindow` are the
three looks at shared state, `SendNext` one awaited send, `EndTick` the
assignment of `last`.  `clear` is two steps (ring, count), on the reader's own
thread, so it comes only where the reader awaits.  `emit` is two steps too
(`EmitAppend`, `EmitCount`), on the other thread, and they come anywhere: CPython
switches threads at calls and backward jumps, of which there is one between the
append and the count; the `+=` itself is in one piece.  `list(ring)` is one C call,
so its `except RuntimeError` never runs and is left out.

The code is not exact under these switches, and the properties say by how much.
`slips` is history: by how many events this client's windows were off, because the
copy of the ring and the second look at the count disagreed.  `joined` is history:
what the client had counted when it first looked at a run, which is not zero if
the bus was cleared and has counted as many events again (`main.py:263` does not
notice).  `swept` and `start` tell which events were gone with the last clear and
which were counted before it.  `InOrderOrTold` and `LatestArrives` hold up to these;
`NoneTwice` and `ClearsAreNoticed` say that there are none, which the code's
comments do and the model refutes (section 6).

### RunControl, ServicesProofs

State: `size` and `edges` are the pool's node count and `_initial_edges` (for how
many nodes, and by whom); `faults` which runs the active faults are of; `playing`
and `time` the clock; `loops`, `live` the trio threads and the one that
`_trio_token` and `_sim_cancel_scope` name; `lock` is `_reconfigure_lock`;
`scenario`, `idx` are the runner's `_scenario`, `_phase_idx`, and `polled` what a
poll holds between its reads and its write; `gen` is `_launch_gen`, `shown` what a
websocket client drew last.  `handlers` are the requests in flight: at which await
each is, and what it read before.  `arming` is history, and so are `fired` and
`lost`, the phases of the armed scenario that fired and those that were passed over.

A coroutine of the API runs from one await to the next in one step: `ClearForReset`
is the executor call that runs `clear_all` on trio, `ResetRun` the rest of
`_reset_run` and what `launch_scenario` does up to its own executor call,
`WireBuilt` what follows a topology's construction; `CaptureLoop`, `CancelLoop` and
`Rebuild` are `sim_reconfigure` between its awaits.  `ClearForReset` has the two
outcomes a call into a loop that is being cancelled may have.  The runner's poll is
`PollRead` and `PollFire`, between which the asyncio thread may run but no other
trio task: a poll that was overtaken by an arming writes the old index back
(`PassOn`), which loses phases.  The i-th phase is due at time i; what a phase does is
to inject a fault, to clear all of them, or to fail.

Not split: the two assignments of `set_scenario` and `Rebuild`, with which an
executor thread or a poll can interleave in principle.

### Slots, StreamManager, DHTCoordinator

`Slots` is trio's semaphore: a value and a line; a slot that is given back goes to
the first in line at once.  In `StreamManager` the place of each `open_stream`
call is kept in `stream`: in line, let in (the slot is there and the task has not
run yet), dialling, in its body, closing.  `CancelStream` cancels it at any of its
awaits.  `DHTCoordinator` does the same for `query_peer`, with its attempts and
backoffs, which keep the slot.  `announced` and `tidings` are history: the events
of each call in order.  The user of a stream is whatever leaves its body; only the
tests call `open_stream`, with and without a `dial_fn`, so both kinds of call are
there.

### TraceExport

`sink` is a span between the sink's look at the queue's length and its append;
`flush` is where each of the two flushing threads is: taking a batch, posting it,
or between the read and the write of `spans_dropped += len(batch)`.  An answer is
success, "try again" or refusal (an exception is one).  Of sampling is kept that
it is decided per run and message and lifted after a phase, of parents of which
run they are.  `disturbed` is history: one of the three ways in which a drop goes
uncounted has happened.

### Services, ServicesProofs

Puts `EventStream`, `StreamManager`, `DHTCoordinator` and `TraceExport`, which
share no state, into one specification whose behaviours each show one of them.

### AppStore

The frontend's store as a record and one operator per action of `store.ts` that
others call, with `dispatch.ts` as `DispatchAll`.  When the actions run is up to
the modules that extend it.  An event is kept with its kind, time and peer; of an
analytics frame whether it counts messages and whether 95% arrived.

### ReelPlayer, ReelView, ReelPlayerProofs

`loads` are the `loadReel` calls under way with how much of the file they have;
`loaded`, `cursor`, `elapsed`, `playing`, `speed` are the player's variables;
`pendingSeek` is the scrubber's coalesced seek.  `TakeChunk` is a piece of the
file, which primes the map with the first snapshot; `LandReel` its end, after
which the reel stands at its first snapshot or at the link's moment; `DropStale`
a load that finds itself superseded or aborted.  `Step` is the timer, however
late.

`ReelView` is what a reel player promises: a position in a recording, and what is
shown is a function of the position.  `ReelPlayer` implements it by `Promised`
(`pos` is `cursor`, `shown` the parts of the store that the page draws, `View` the
recording played from an empty store).  `ShowsThePosition` is the refinement,
checked as a property: a seek, a rewind or a late timer must leave the same store
as playing through.  Fields that only one type of frame writes count from its
first frame on, because a seek leaves them (section 6).

### LiveLink, LiveLinkProofs

Sockets are identities that go through connecting, open and closing; a socket
whose connection is gone is closing until its close event is handled, and
handlers of a superseded socket run too.  Timeouts are identities as well, so that
one whose handle was lost still fires.  The server sends a new client a scenario
frame and its past events; `murky` is history: a fault came or went, or was
replayed, while the connection was being set up.

### Transport

The store's playing flag, time and limit against the server's clock, with frames
in order on `wire` and requests in `calls`, answered in any order, refused, lost,
or made by other viewers.  `Becomes` is a change of the store together with
`autoPauseIfDue`, which subscribes to it.

### SimShell, SimShellProofs

`ui` is what is open and where the focus is, `url` the query, `stored` what is in
localStorage.  `Change` is one change of the store with all that its subscribers
do at once: auto-geo, the drawer that yields, the mirror in the address bar.
`NoObservers` is React's effect, a step later.  `boot` is the peer of the link at
the time the page was mounted.  `home` is history: the layout other than geo the
user chose last, whether it is forgotten (a GEO picked by hand does that in
`store.ts:327`, and the way back is then force), and whether that choice was made
with the feed on and observers there (`stays`), after which geo may not come back by
itself for as long as the feed is on.

### MapView, MapViewProofs

`map` are the module's variables (what is dirty, cached, animated), `placed` the
layout memory that outlives a renderer, `drawn` the layers on the deck with the
nodes they were made of, `view` the camera, `canvas` React's side (mounts,
lost contexts, the fallback to Canvas 2D).  `Tick` is one animation frame.  A
position is kept as the layout, the node and the settlement it came from, so that
an index taken for another node shows.

### Panels and its parts

Ten parts that share no state are put into one specification whose behaviours
each show one of them.

* `LogView`: the log rail in rows; the scroll event that follows the user's or
  the rail's own scroll, follow frames, the events held while paused.
* `PlateView`: figure 1: React's effects run child first, the canvas is painted
  before its parent has chosen the frame; reveal, resize and motion preference.
* `FilmView`: the media element answers a call at once and tells its events in
  tasks later; the controls keep copies of its state.
* `Footage`: `record.mjs` frame by frame with its resumption after a crash, the
  sidecar written at the end, `encode.mjs` and the film that uses both.
* `Voice`: `retime-vo.mjs`: a dynamic programme that assigns segments to lines
  (proved to be the cheapest of all), the placement with anchors, and the
  write-back, repeated any number of times.
* `Cuts`: the demo film frame by frame from a script in half frames: scenes,
  captions, stamps, sounds and the dissolve.
* `Stories`: what runs while seen: loops of animation frames started and stopped
  by sightings that arrive late and together, of which an observer reads the oldest;
  the mainnet map's story.  `stale` is history: where the newest of those that came
  together said otherwise.
* `Notices`: narrator card, toasts and reveal: each a timer set by an effect.
* `Recording`: the recorder's tape of a sybil scenario, with the connect-time
  frames before the launch, and what the player's narrator (through `AppStore`),
  `reel-stats.mjs`, the film's timeline and the scrubber's marks make of any
  prefix of it.
* `Readouts`: the server's thread takes a snapshot in several reads while the
  simulation's thread injects graft by graft, prunes and clears; what inspector,
  rail and ticker then say of an attacker and its target.

## 3. Runs

| Run | Question | Properties | States |
|---|---|---|---|
| `mesh_faults` | two faults at a time out of one sybil, eclipses with one and two attackers, drops, and partitions that leave a peer out or do not: does every fault keep its promise through every sequence of injections, clearances and heartbeats, and are spammers evicted for good? | `TypeOK`, `FaultsIsolate`, `AttackersAccounted`, `PrunedStaysOut`, `SpammerEvicted` | 68,865 |
| `mesh_rewire` | topologies applied at any point of a heartbeat, one fault: does the mesh heal? | `MeshHeals` | 312,737 |
| `relay_faults` | one message and two faults that come and go at any point of its way: is it delivered once to everybody, and does no fault let it past? | `DeliveredExactlyOnce`, `FaultsContain` | 5,351,005 |
| `relay_eclipse` | do IHAVE and IWANT reach an eclipsed peer? | `EclipsedStaysAlive` | 56,525 |
| `services` | events in order or counted, up to what a thread switch or a missed clear costs; slots given back, queries that end, spans accounted for | `InOrderOrTold`, `LatestArrives`, `SlotsMatch`, `QueriesEnd`, `SpansAccounted` | 135,290 |
| `run_control` | two of three requests at a time: does one loop run, is each scenario on its topology, does each client know what it draws, do all phases fire that no overtaken poll has passed over? | `OneLoop`, `ScenarioOnItsTopology`, `ClientsFollow`, `AllPhasesFire` | 328,492 |
| `reel_play` | is what the page shows a function of the position in the recording, whatever was loaded, sought or scrubbed before? | `ShowsThePosition` (the refinement of `ReelView`), `ScrubberTellsTruth`, `PlayEnds`, `LoadedIsEntered` | 243,200 |
| `live_link` | is there one socket while the live page is open and none otherwise, does the top bar tell the truth, does the link come back? | `LinkOfThePage`, `LinkReadsTrue`, `Reconnects` | 470,672 |
| `transport` | does the optimistic button settle on what the server does, and does the server pause at the limit? | `ButtonSettles`, `PausesAtLimit` | 117,161 |
| `sim_shell` | does the layout return to the user's choice, does the address open the view, does Escape always close something? | `LayoutReturns`, `LinkIsTheView`, `EscapeGetsOut` | 1,375,203 |
| `map_view` | is the picture that stays the store's, do nodes stay put, does the loop come to rest? | `PictureIsRight`, `StaysPut`, `ComesToRest` | 51,114 |
| `panels` | the parts of `Panels`, each through all its behaviours | `FilmIsRight`, `RestsOffScreen`, `ReadersAgree`, `AttackShown`, `RailHolds`, `ShowsStill`, `EachHasItsTime` | 458,167 |

All of them hold.  Properties that are conjunctions name their parts in the module
that states them.

### Bounds, and why they are enough

*Gossip.*  Three peers, on which a line has two ends and a middle and a triangle
has redundant paths; D = 2 or 1, so that meshes overflow and starve; heartbeats,
injections and clearances in any order and number.  One message is enough in the
relay runs: no step reads the state of another message (`_seen`, `_traces` and
`_iwant_pending` are keyed by id, and IHAVE announces up to ten ids, more than are
ever there), so two messages are two independent copies.  The exception is
`reset`, after which an id is used again; the counterexample in section 6 has two
runs for that.  Two fault slots are enough: the injector's operations and link predicates look at
single faults; what two can do to each other (same peer, crossing groups, shared
numbering, an attacker's id used again) is there.

*Services.*  The ring is larger than what one tick sends plus what comes in during
its two looks (`Burst`), as 50,000 is larger than 200; five events in two runs,
with two per tick, make a tick with a gap, one without, one that finds nothing, a
window that slips, and a second run that has counted as much as the first.
Three calls for two slots, so that one has to wait in line; the code's three
attempts per query; a span queue of two and batches of two, so that three spans
overflow it; two runs, so that spans outlive theirs.  `TraceExport` was also
checked with a queue of three and five spans (682 thousand states).

*Run control.*  Two requests in flight are what it takes for one to come between
the steps of another, and the third request (or seek) lets something have been
launched before.  Loops are bounded so that no reconfiguration has to wait.  The
run has one node count, as nothing it checks depends on the count.

*Frontend.*  `reel_play` has a recording of a fault scenario and one of mainnet,
which the player treats differently; two loads, of which one overtakes the other;
three operations of the user; timers late by up to two units; a store that keeps
four events and two samples, fewer than a recording has.  `live_link` has a
socket and its successor, a timer and one whose handle was lost, one fault and two
frames on the wire; without liveness it was also checked with two faults (2.1
million states).  `transport` has two requests in flight or answered in either
order, and a limit of two.  In `sim_shell` one peer can be selected and one observer
can come and go, with four operations of the user, one fetch and one upset
of the feed.  `map_view` has four scenes (nodes that come, go, move, and an
observer that goes in front of them, which shifts indexes), two topologies, and
three operations; its safety properties were also checked with four (536,850
states).

*Panels.*  Each part has the smallest instance in which its cases meet: a log
that keeps fewer rows than come and shows fewer than it keeps; a shot that its
author revises between two recordings; three spoken lines of which the last
is an anchor; one honest and one attacking peer on a recording with every kind of
frame.  `Readouts` was also checked with three blows (7.0 million states).

### Fairness

`FairSpec` of `GossipMesh` asks for weak fairness of heartbeats: `_heartbeat_loop`
beats for ever unless the clock is paused, and a pause stops every other trio
activity too.  `FairSpecRewire` also lets a thread inside `wire_topology` finish.
`FairEclipseSpec` adds strong fairness of relay steps: trio runs a heartbeat in
one piece, while here it has several steps between which no relay is enabled, so
weak fairness of trio's tasks reads as strong fairness.  Nobody is required to
inject, clear or publish.

`ServiceSpec` lets the reader's loop and an emit or a clear that has begun go on, and each
query's task and its timers: a task that was let in runs, a timeout or a backoff
expires.  That a query function answers is not required.  `FairSpec` of
`RunControl` asks for weak fairness of the runner's poll and the clock (tasks of a
running trio loop) and of each request that has begun (asyncio and its executor
serve it); requests, faults and pauses are free.

In the frontend, timers that are set fire and handlers that are due run:
`ReelPlayer` has weak fairness of its interval; `LiveLink` of handlers, timeouts,
connection attempts and requests (`Due`: each ends, one way or the other);
`Transport` of received frames and answers, and strong fairness of the server's
ticks, snapshots and of serving or refusing a request, as other viewers may
disable them for a while; `MapView` of what the browser and the module do by themselves
(`System`); `Panels` of figure 1's hydration, frames and resize paints.  No user
and no peer is ever required to do anything.

Deadlock is checked, except in `services`, `reel_play`, `sim_shell`, `map_view` and
`panels`, where the bounded inputs run out and nothing is left to do.

## 4. Theorems

The proof modules prove what follows for every value of the constants that the
named assumptions allow: any number of peers, faults, messages, requests, calls,
sockets, events and operations.  Each theorem rests on an inductive invariant (its
name is given), for which there are three facts: the initial states have it, every
step keeps it (one step of the proof per action), it implies the property.

| Theorem | Says | Inductive invariant |
|---|---|---|
| `GossipProofs!TypeCorrect` | `SpecRewire => []TypeOK` | itself |
| `CutSafety` | `FaultsIsolate`, on a fixed topology | `HandHolds`, `CutHolds` |
| `AttackerBookkeeping` | `AttackersAccounted`, also while topologies change | `BookInv` |
| `PrunedForGood` | `PrunedStaysOut` | from the above |
| `RelayImplementsMesh` | `RelaySpec => Spec` | step simulation |
| `DeliveryIsExact` | `DeliveredExactlyOnce` | `RelayInv` |
| `FaultsAreKept` | `FaultsContain` | `ContainInv` |
| `ServicesProofs!TypeCorrect` | requests have read what they need | itself |
| `OneLoopRuns` | `OneLoop` | `LoopInv` |
| `ScenariosOnTheirTopology` | `ScenarioOnItsTopology` | itself |
| `ClientsKnow` | `ClientsFollow` | `ClientInv` |
| `EventsInOrder` | the half of `InOrderOrTold` that is about order, wherever the threads switch | `EventInv` |
| `EventsInOrderOrTold`, `ClientsHaveEventsInOrder` | `InOrderOrTold`, by itself and among the services | `EventInv` |
| `SlotsAreGivenBack` | `SlotsMatch` | `StreamInv`, `QueryInv` |
| `SpansAreAccountedFor` | `SpansAccounted` | `ExportInv` |
| `SimShellProofs!LayoutGoesBack`, `AddressIsTheView` | `LayoutReturns`, `LinkIsTheView` | `ShellInv` |
| `EscapeClosesOne` | `EscapeGetsOut` | `ShellInv` |
| `MapViewProofs!PictureStaysRight`, `NodesStayPut` | `PictureIsRight`, `StaysPut` | `MapInv` |
| `LiveLinkProofs!LinkIsOfThePage`, `LinkIsTrue` | `LinkOfThePage`, `LinkReadsTrue` | `LinkInv` |
| `ReelPlayerProofs!PlayerImplementsView` | `ShowsThePosition`, the refinement of `ReelView` | `PlayerInv`, then step simulation |
| `EnteredIsLoaded`, `ScrubberIsRight` | `LoadedIsEntered`, `ScrubberTellsTruth` | `PlayerInv` |
| `PanelsProofs!LoopsRest` | `RestsOffScreen` | `StoryInv`, `ScreenInv` |
| `NoticesKeepTime` | `EachHasItsTime` | `NoticeInv` |
| `RailIsHeld` | `RailHolds` | `RailInv` |
| `AttackIsShown` | `AttackShown` | `AttackInv` |
| `ReadersTellTheSame` | `ReadersAgree` | `TapeInv` |
| `FilmIsMadeRight` | `FilmIsRight` | those of the next four |
| `ControlsAreTold`, `FootageIsKept` | its parts `ControlsAgree`, `FootageIsTheShot` | `FilmInv`, `FootageInv` |
| `CutsAreKept`, `VoiceIsKept` | its parts `CutsHold`, `VoiceFits` | `CutsInv`, `VoiceInv` |
| `CheapestIsBest` | the voice's dynamic programme finds a cheapest reading | induction over the lines (`NextRow`) |

### Why the invariants are what they are

*Mesh.*  The three parts of `FaultsIsolate` are cases of one statement about cut
pairs (`CutHolds`), which is not inductive: a heartbeat writes what it read earlier.
`HandHolds` says that what a running heartbeat holds respects the cuts too and that
no fault can change before it is written back, as injections wait for the heartbeat
to end.  The theorem needs the groups of a partition to be disjoint
(`inject_partition` does not check it, and with a shared peer the loop over the
second group skips it).  `BookInv` adds that what a heartbeat holds of attackers
belongs to active faults.

*Relay.*  That no message is delivered twice needs `AsleepInv`: a relay that sleeps is
the only way its message takes to its peer, as the peer is marked before the sleep.
That none is lost needs the other direction (`NothingLost`).  Containment needs to
know where a message may be when it was published behind a fault (`SideInv`), and
that no relay that sleeps is between an eclipsed peer and another (`LazyInv`).
`FaultsContain` makes one exception, `Bridged`, which came up in this proof: an
attacker's id that is used again while a relay to its predecessor sleeps.

*Run control.*  `LoopInv`: a reconfiguration that has captured a loop holds the lock,
so nobody replaces that loop; a loop that is joined has ended.

*Services.*  Ring and copies hold consecutive events up to a known one
(`HoldsUpTo`), however `emit` and `clear` are cut.  A window is then a block whose end
is off by the slip of that tick, and `LineInv` says of the line that a client will
have at the end of its tick that it never goes back by more than the slips so far,
and reaches no further than what it has counted and these.  Order holds for any
ring and cap.  `AccountInv` counts: what was sent of a run, told of, or taken for
granted since a missed clear is what was counted, up to the slips and the one event
that may be appended before a clear and counted after it.  That needs the ring to
have room for the cap and for what comes in during a tick (`Roomy`): 200 against
50,000 for a live client, but not for a recorder, whose cap of 1,000,000 exceeds the
ring (a finding).  `StreamInv` and `QueryInv` say that every slot is in the semaphore
or with one call, and that the line is of those who wait; both use facts about
`Slots` (`Sound`) that hold for any semaphore of trio's kind.  `ExportInv` orders the
spans of the collector, of the two batches in hand, of the queue and of the sink, and
counts them.

*Shell.*  `LayoutOk` relates layout, remembered layout, the user's choice and whether
it was forgotten, and says that who left geo stays out of it while the feed is on; it
also holds between a change of the store and what its subscribers make of it (`Good`).

*Map.*  A layout fits its key (`LayoutOk`), the memo of the edge lines depends on the
places only, what is drawn is current unless the map is dirty (`DrawnInv`), and the
camera frames the last layout, is on its way there, or is about to be sent
(`CameraOk`).  A snapshot is assumed to have each peer once, as the pool has.

*Link.*  While a connection is set up only the greeting is under way and an answer that
is under way is right; later the events that wait and the frames under way lead the
count to the server's (`InStep`).  `Leads` says in closed form what a sequence of
frames does to the count; that a flush, which is a fold, does just that, is shown by
unfolding it one frame at a time (`FlushBySteps`, `NumbersBySteps`).

*Reel player.*  `PlayerInv` says that every load but the newest is stale, that the
newest is of the reel the page is open for, with nothing loaded before it lands, and
that the store is where the cursor is (`IsAt`): alike, in all that is shown, to the
store that has played the reel from the start to that frame (`ViewAt`).  Alike is not
equal.  A field that only one type of frame writes counts once such a frame was
played (`After`), as a reset leaves it; and the count of faults agrees because
whichever scenario frame comes first, it either clears the count or finds it at zero
(`Begun`: the two stores may differ in the mark of a live connection).  That playing
on from the cursor leads to the same as a rebuild (`GoesOn`, `RebuiltIs`) needs that
events shown late in a flush, or early before a typed frame, come to the same
(`DispatchOneMore`): the store may be flushed after every frame.  For the marks a
second induction goes along the frames, with the scan beside the store
(`ScanOfView`).  Inductions over the frames are made without an induction theorem: the
set of positions at which a statement holds contains 0 and is closed under steps, so
it is all (`NumbersBySteps`, from the order on the naturals).

These proofs assume of a recording what `ReelAssumption` says (`IsRecording`): its
times never decrease (`ReelRecorder.write`, and `build_frames` of
`mainnet_to_reel.py`), its frames have the types of the wire format, a scenario frame
comes before any event that leaves a mark (`main.py:245-254` sends it before events),
and marks before the first snapshot, which the scan leaves out, are followed by the
scenario frame of the launch (`record_reel.py:61`).  The recordings under
`web/public/reels` are so; both recordings of `MCReelPlayer` are, which TLC
evaluates.  Times and speeds are whole numbers: any finite decimals are, in a small
enough unit.

*Panels.*  A loop is one chain of frames (`OneChain`), and the newest sighting that it
has not been told of is how things are (`ScreenInv`), so that one told of the newest
is on exactly while seen; a timer never ends before its
time is over (`ToastInv`, `CardInv`); the rail's position is laid out and its next
scroll event is known to be its own or not (`OwnScroll`); and what a snapshot has taken
so far of an attack is tied to what the simulation did since (`TakingType`,
`HeldByVictims`, `PageTells`).  A sybil's ids and an eclipse's are disjoint, as the
injector's prefixes make them; the observers of `Stories` arrive in order of time.

*Film.*  What the controls show differs from the element only while an event that
says so is queued: the newest play or pause event in the queue, or what is shown if
there is none, tells what the element does (`PauseTold`), likewise for the sound
(`MuteTold`); with a film that ran to its end no such event is queued
(`EndUntouched`).  A recording that stands at frame f, resumed any number of times,
has the clock, the clicks and the cursor events of an unbroken one at f
(`Recorded`), and every frame on disk is the one such a recording puts there
(`FramesKept`).  Of the cuts the state only says that the frame is within the film
(`CutsInv`); the rest is arithmetic about rounding to frames.  An anchored line
leaves its place only with a warning, and what was placed fits what was read
(`VoiceInv`, `Fits`).  That the dynamic programme is right is an induction along its
rows: each cell holds a reading of the lines so far that no other reading undercuts
(`BestRow`, `NextRow`).  The recursive functions it is written with are shown to
exist one step at a time (`StepsExist`).

These proofs assume of a shot that its click lands within it, and that two versions
of the same look have the same click (`FootageAssumption`, as in `shots.mjs`); of
the script that scenes follow one another without a pause, captions without an
overlap, that PRUNED lands in a footage scene as a caption starts, and that opening and
end card have the captions that their stamps wait for (`CutsAssumption`, true of
`script.json`; `timeline.test.ts` tests most of it); of the voice that each line has a
word and that of two lines in a row at most one is anchored (`VoiceAssumption`).

*Recording.*  `TapeInv` is about the lines, those that are not sent yet, the run and
the store of a player that has played the lines.  Each milestone of the scenario is
passed at most once and within `LATE` of when it is due, and is on the tape or about
to be exactly if it has happened (`PassedOnce`, `InjectedFirst`).  Lines are in the
order of time and none is of a later moment than the run's (`InOrderOfTime`).  The
run's mesh is on the tape before any snapshot of a later moment (`MeshOfRun`).  What a
snapshot shows of the attack was emitted by then, though perhaps sent after it, and
heartbeats prune in step (`AttackOnTape`): a snapshot can precede, on the tape, the
event that explains it, which is where the readers could part.  Of the player:
its clock is the run's or one tick behind with that tick first in the queue
(`PlayedClock`), its faults, its healing and its beats are those the lines tell of
(`PlayedFaults`, `PlayedHealing`, `PlayedBeats`).  The store is a fold over the lines,
shown to go on by one step per line (`LeadsOneMore`), of which each kind has its lemma
(`PictureIsShown` to `ClearIsShown`).  The readers search lines by their positions;
what they find follows from the invariant, one lemma per agreement (`HealingsAgree`
to `AllMarksAgree`).  The line of the mesh being whole is dated by the last snapshot
before it (`SimTDated`), which is why the two healings differ by at most the moment of
the clear.

The proof assumes of a scenario that its phases are due within the run and fire
within less than the slack of the marks (`RecordingAssumption`): the runner polls
every 0.2 s (`runner.py:76`), `PHASE_TICK_SLACK_SEC` is 0.5, and recordings are made at
normal speed.  Sybils have ids of their own.

The remaining assumptions are that sets that are counted are finite, that bounds are
naturals, and that the absent value is none of the values it is absent for.  They are
named in the modules that declare the constants, and TLC evaluates them on every run.

### Only model-checked

* All liveness (`MeshHeals`, `SpammerEvicted`, `EclipsedStaysAlive`, `LatestArrives`,
  `QueriesEnd`, `AllPhasesFire`, `PlayEnds`, `Reconnects`, `ButtonSettles`,
  `PausesAtLimit`, `ComesToRest`, `ShowsStill`): outside the prover's reach.

Every safety invariant and action property that a run checks is stated by a theorem.

## 5. Refinement

`ReelView` states what a reel player promises, with two variables: a position and
what is shown; opening, playing, seeking and closing change the position, and what
is shown is always the recording played to that position from an empty store.
`ReelPlayer` has a file that arrives in pieces, a cursor and a clock, a timer that
may be late, a seek that rewinds by resetting and replaying, and the store itself.
`Promised == INSTANCE ReelView WITH ...` maps the cursor to the position and the
part of the store that the page draws to what is shown; `ShowsThePosition` is
`Promised!Spec`, checked as a property of `reel_play` and proved for every recording
(`PlayerImplementsView`).  A step that primes the map
while the file loads, or that only moves the clock, is a stutter.

## 6. Findings

`findings` in PROJECT.json has 27 places where the code does something else than a
comment, a doc or a test of it says, with both quoted.  The runs above all pass: a
property that would be such a sentence is stated as a definition marked "Not true
of the code", and the model shows a counterexample when it is given to TLC as an
INVARIANT in the cfg named here:

| Definition | cfg, with | What happens |
|---|---|---|
| `DroppedIsFailed` | `MCGossipMesh_faults.cfg`, `Spec` | drop a peer twice, clear one: it is IDLE and publishes |
| `FaultsIsolate` | `MCGossipMesh_rewire.cfg`, `SpecRewire` | an applied topology puts cut peers into meshes again |
| `NoGhosts` | `MCGossipRelay_faults.cfg`, `FaultIds = {1}`, `MaxRuns = 2`, `ResetSpec` | a reset between two lines of a relay leaves an old id in the new run |
| `NoneTwice` | `Services_all.cfg` | an emission between the reader's copy and its second count, or cut in two by them, shifts the window: an event is sent twice, another never |
| `ClearsAreNoticed` | `Services_all.cfg` | after a clear and as many events as were counted before it, the reader goes on from its old count: events are neither sent nor told of |
| `NoneSkipped` | `MCRunControl_runs.cfg`, `Spec` | a poll overtaken by an arming writes the old index back: the first phases of the new run never fire |
| `FreshRun` | `MCRunControl_runs.cfg`, `Spec` | a fault between `clear_all` and the rest of a reset survives it |
| `EdgesFitPool` | `MCRunControl_runs.cfg`, `Sizes = {2, 3}`, `Spec` | a reconfiguration while a topology is built gets the wrong one |
| `AlwaysClosed` | `Services_all.cfg` | a cancelled body leaves without `StreamClosed` |
| `SegmentsAreTheCapacity` | `Services_all.cfg` | a query that was let in and has not run is not counted |
| `DropsCounted`, `TracesOfOneRun` | `Services_all.cfg` | spans lost uncounted; spans parented across runs |
| `PausedOffScreen` | `MCPanels_panels.cfg` | of two sightings that come together the older is read: an animation goes on off screen |
| `PlateDrawsTheRun` | `MCPanels_panels.cfg` | figure 1 draws the mesh of before the launch |
| `PrunedMeansPruned` | `MCPanels_panels.cfg`, `MaxBlows = 3` | "pruned" is said of an attacker nobody pruned |
| `LaunchHidesCuts` | `MCPanels_panels.cfg`, also with the code's `HALF = 12`, `LEVELS = 64` | the launch film's dissolve lets the cut be seen |

The others were met while translating the code or proving about it: a relay that
sleeps crosses a partition injected meanwhile; an attacker's id that is free again
goes to the next attacker, and what is still under way to the old one reaches the
other side of a partition through it (`Bridged` of `GossipRelay`);
a recorder's cap lies above the ring's size; a query
that raises has neither end; a reel wound back keeps what one type of frame last
said; a fault replayed at connect time is counted twice; the inspector and a drawer
open at once; keys act on the page behind a dialog; two neighbouring anchors;
frames of an edited shot that are kept; events before the first snapshot that are
"never played" and are.  Where a model's property is true only
apart from such a case, its comment says so (`After` of `ReelPlayer`, `murky` of
`LiveLink`, `slips` and `joined` of `EventStream`, `lost` of `RunControl`, `forgot` of
`SimShell`, `stale` of `Stories`, `disturbed` of `TraceExport`, `VoiceAssumption` of `Voice`).

One thing the models show and no document denies: a message is marked as seen
before it is delivered, so a pull may be served by a peer it has not reached.

## 7. Not modelled

* Prometheus counters: bumped by a sink, nothing reads them in the program.
* Real peer telemetry: a capped table with a TTL that one thread writes; of it the
  frontend models keep whether there are observers.
* Mainnet feed: an HTTP poller; `SimShell` keeps whether it is on.
* Topology generators (networkx graphs; the models quantify over given
  topologies), metrics collector (a read-only summary), scenario library (data:
  its faults are inputs of the models).
* `globe/core.js` (vendored), music and sound synthesis, the launch film's scenes
  (functions of a frame number that draw), toolbars, themes, static sections of the
  landing page, deployment.
* In modelled components: the caps of 2000 on `_seen` and `_traces`; P1 to P3 of the
  score apart from an open order; latencies; speed; the node pool's reset and
  display states; the two assignments of `set_scenario` and a reconfiguration's
  writes one by one; the exporter's attach and reconfigure; colours, glyphs and
  stroke geometry of the map.  The components' notes in PROJECT.json name them.
* Steps that are coarser than the code.  `SetTopology` replaces the adjacency at once,
  while `gossip/engine.py:192-197` clears it and adds edge by edge on the asyncio
  thread, so that a heartbeat may see part of it; `ServeWants` serves all pulls of a
  heartbeat at once (`gossip/engine.py:534-574` does so id by id; no trio task can come
  in between, but a topology can); `FilmFrame` puts a whole frame on disk, while a crash
  inside the screenshot of `record.mjs:143` can leave a torn file, which the resumption
  keeps because it exists (`:142`).
* Left out where a property could be affected: a script without captions
  (the `captions` switch of `scenes.tsx:168`; the models keep it on); in `Recording`
  the drift of the heartbeat's two sleeps (`node_pool.py:212`), on which cues of later beats rest, and overflow
  prunes (`gossip/engine.py:428-438`), which `parse.ts:61` would count and
  `reel-stats.mjs:53` not.

## 8. Plan

Built in this order, most central first: `GossipMesh` and its proofs,
`GossipRelay`, `EventStream`, `RunControl`; `StreamManager`, `DHTCoordinator` and
`TraceExport`; `AppStore` with `ReelPlayer`, `LiveLink`, `Transport`, `SimShell` and
`MapView`; `Panels` with its parts.  What is left:

1. An abstract feed for `EventStream` (a position that advances by blocks, sent or
   skipped) and its refinement.
2. The two writes of `set_scenario` and a poll between them, and the node pool's
   reset, in `RunControl`.
3. The caps of `_seen` and `_traces`, and IHAVE to the first D_LAZY neighbours only,
   which need larger instances than the present ones.
