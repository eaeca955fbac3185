----------------------------- MODULE ReelPlayer -----------------------------
(***************************************************************************)
(* The reel player of the frontend (web/lib/api/replay.ts) with the        *)
(* actions that drive it (web/lib/actions.ts) and the store it fills.      *)
(*                                                                         *)
(* A recording is a sequence of frames, each with the time t at which it   *)
(* is due.  It arrives in pieces; the mesh is shown as soon as the first   *)
(* snapshot is there, and the reel can be played once all of it is.  From  *)
(* then on a timer plays what is due, and a seek rebuilds the store from   *)
(* the start of the recording.                                             *)
(*                                                                         *)
(* Everything runs on the browser's event loop.  What can come in between  *)
(* are the pieces of a file, its failure, the timer, the animation frame   *)
(* that a dragged scrubber waits for, and the user.                        *)
(***************************************************************************)
EXTENDS AppStore, FiniteSets

CONSTANTS
  Recordings,   \* [name -> sequence of [t, frame]]
  Speeds,       \* playback speeds, in recorded units per unit of time
  MaxTick,      \* how late the timer may be (timers are throttled in background tabs)
  MaxLoads,     \* bound: reels entered
  MaxOps        \* bound: plays, pauses, seeks, selections and speed changes

VARIABLES
  store,
  loaded,       \* the reel whose frames the player holds, or None
  cursor,       \* how many of its frames have been dispatched
  elapsed,      \* recorded time played so far
  playing, speed,
  loads,        \* loadReel calls that have not returned
  loadGen,      \* number of the newest of them
  pendingSeek,  \* the scrubber position the next animation frame seeks to
  mounted,      \* the simulator page is up, in reel mode
  ops           \* operations so far, for the bound

playerVars == <<loaded, cursor, elapsed, playing, speed>>
vars == <<store, playerVars, loads, loadGen, pendingSeek, mounted, ops>>

ReelNames == DOMAIN Recordings

FrameTypes == {"event", "snapshot", "metrics", "analytics", "telemetry_status", "edges", "scenario", "gap"}
\* The events that leave a mark on the scrubber.
LeavesMark(f) ==
  f.type = "event" /\ f.kind \in {"ScenarioPhaseFired", "SybilPruned", "FaultInjected", "FaultCleared"}

\* How the recorder and mainnet_to_reel.py write a recording: in order of time, with the scenario frame of the
\* connection ahead of any fault; and what past events a connection begins with, before its first snapshot, are
\* followed by the scenario frame of the launch that is recorded (record_reel.py:61).
IsRecording(seq) ==
  /\ seq \in Seq(ToSet(seq))
  /\ \A i \in DOMAIN seq : seq[i].t \in Nat /\ seq[i].frame.type \in FrameTypes
  /\ \A i, j \in DOMAIN seq : i < j => seq[i].t <= seq[j].t
  /\ \A i \in DOMAIN seq : LeavesMark(seq[i].frame) => seq[i].frame.at \in Nat
  /\ seq # <<>> => \E i \in DOMAIN seq : /\ seq[i].frame.type = "scenario"
                                         /\ \A j \in 1..(i - 1) : ~LeavesMark(seq[j].frame)
  /\ \A i \in DOMAIN seq :
       LeavesMark(seq[i].frame) /\ (\A j \in 1..i : seq[j].frame.type # "snapshot") =>
         \E k \in DOMAIN seq : k > i /\ seq[k].frame.type = "scenario"

ASSUME ReelAssumption == /\ \A r \in ReelNames : IsRecording(Recordings[r])
                         /\ None \notin ReelNames /\ None \notin Nat
                         /\ Speeds \subseteq Nat /\ {MaxTick, MaxLoads, MaxOps} \subseteq Nat

(***************************************************************************)
(* Recordings.                                                             *)
(***************************************************************************)
FramesOf(r) == IF r = None THEN <<>> ELSE Recordings[r]
Duration(r) == IF FramesOf(r) = <<>> THEN 0 ELSE Last(FramesOf(r)).t
\* Slip: < for <=.
DueBefore(r, t) == Cardinality({i \in DOMAIN FramesOf(r) : FramesOf(r)[i].t < t})
DueBy(r, t) == Cardinality({i \in DOMAIN FramesOf(r) : FramesOf(r)[i].t <= t})
Snapshots(r) == {i \in DOMAIN FramesOf(r) : FramesOf(r)[i].frame.type = "snapshot"}
FirstSnapshot(r) == IF Snapshots(r) = {} THEN 0 ELSE FramesOf(r)[Min(Snapshots(r))].t
Unwrapped(seq) == [i \in DOMAIN seq |-> seq[i].frame]

Played(s, r, from, to) == DispatchAll(s, Unwrapped(SubSeq(FramesOf(r), from + 1, to)))

\* The beats and phases of a play-through, read off the frames alone.
ScanStart == [beats |-> <<>>, scenario |-> None, time |-> 0, started |-> FALSE,
              pruned |-> FALSE, heal |-> FALSE, healed |-> FALSE]
ScanTyped(a, f) ==
  CASE f.type = "snapshot" -> [a EXCEPT !.time = f.time, !.started = TRUE]
    [] f.type = "scenario" -> [a EXCEPT !.beats = <<>>, !.pruned = FALSE, !.heal = FALSE, !.healed = FALSE,
                                        !.scenario = IF f.active THEN f.name ELSE None]
    [] f.type = "analytics" /\ a.heal /\ ~a.healed /\ f.delivered ->
         [a EXCEPT !.healed = TRUE, !.beats = Append(@, Beat("healed", "Mesh healed", a.time))]
    [] OTHER -> a
\* Slip: every pruned sybil is a mark, not the first one only.
ScanEachPrune(a, e) ==
  CASE e.kind = "ClockTick" -> [a EXCEPT !.time = e.at]
    [] e.kind = "ScenarioPhaseFired" -> [a EXCEPT !.beats = Append(@, Beat("phase", e.label, e.at))]
    [] e.kind = "SybilPruned" -> [a EXCEPT !.beats = Append(@, Beat("prune", "First Sybil pruned", e.at))]
    [] e.kind = "FaultInjected" -> [a EXCEPT !.beats = Append(@, Beat("fault", e.fault, e.at))]
    [] e.kind = "FaultCleared" -> [a EXCEPT !.heal = TRUE, !.beats = Append(@, Beat("cleared", e.fault, e.at))]
    [] OTHER -> a

ScanEvent(a, e) ==
  CASE e.kind = "ClockTick" -> [a EXCEPT !.time = e.at]
    [] e.kind = "ScenarioPhaseFired" -> [a EXCEPT !.beats = Append(@, Beat("phase", e.label, e.at))]
    [] e.kind = "SybilPruned" /\ ~a.pruned ->
         [a EXCEPT !.pruned = TRUE, !.beats = Append(@, Beat("prune", "First Sybil pruned", e.at))]
    [] e.kind = "FaultInjected" -> [a EXCEPT !.beats = Append(@, Beat("fault", e.fault, e.at))]
    [] e.kind = "FaultCleared" -> [a EXCEPT !.heal = TRUE, !.beats = Append(@, Beat("cleared", e.fault, e.at))]
    [] OTHER -> a
ScanFrame(a, f) == IF f.type # "event" THEN ScanTyped(a, f)
                   ELSE IF a.started THEN ScanEvent(a, f) ELSE a
ScanReel(r) == FoldLeft(ScanFrame, ScanStart, Unwrapped(FramesOf(r)))

(***************************************************************************)
(* Playback.                                                               *)
(***************************************************************************)
Clamp(t, lo, hi) == IF t < lo THEN lo ELSE IF t > hi THEN hi ELSE t

\* seekReel: clear the run, play everything up to the target, keep the inspected peer if it is there.
Rebuilt(s, r, target) ==
  LET after == Played([ResetRun(s) EXCEPT !.activeFaults = 0], r, 0, DueBy(r, target))
  IN  IF s.selectedPeer # None /\ s.selectedPeer \in DOMAIN after.nodes
      THEN [after EXCEPT !.selectedPeer = s.selectedPeer] ELSE after

SeekReel(s, r, ms) ==
  LET target == Clamp(ms, 0, Duration(r))
  IN  /\ store' = Rebuilt(s, r, target)
      /\ cursor' = DueBy(r, target)
      /\ elapsed' = target

\* Where a simulated time is in the recording: at the first snapshot that has reached it.
OffsetOf(r, sec) ==
  LET hits == {i \in Snapshots(r) : FramesOf(r)[i].frame.time >= sec}
  IN  IF hits = {} THEN Duration(r) ELSE FramesOf(r)[Min(hits)].t

Operation == ops < MaxOps /\ ops' = ops + 1

PlayReel ==
  /\ Operation /\ store.reel # None /\ FramesOf(loaded) # <<>> /\ ~playing
  /\ playing' = TRUE
  /\ IF cursor >= Len(FramesOf(loaded))
     THEN SeekReel([store EXCEPT !.playing = TRUE], loaded, 0)
     ELSE store' = [store EXCEPT !.playing = TRUE] /\ UNCHANGED <<cursor, elapsed>>
  /\ UNCHANGED <<loaded, speed, loads, loadGen, pendingSeek, mounted>>

PauseReel ==
  /\ Operation /\ store.reel # None /\ playing
  /\ playing' = FALSE
  /\ store' = [store EXCEPT !.playing = FALSE]
  /\ UNCHANGED <<loaded, cursor, elapsed, speed, loads, loadGen, pendingSeek, mounted>>

\* reset() in a reel: pause and go to the first snapshot.
RewindReel ==
  /\ Operation /\ store.reel # None
  /\ playing' = FALSE
  /\ SeekReel([store EXCEPT !.playing = FALSE], loaded, OffsetOf(loaded, 0))
  /\ UNCHANGED <<loaded, speed, loads, loadGen, pendingSeek, mounted>>

SetSpeed(v) ==
  /\ Operation /\ store.reel # None /\ v # speed
  /\ speed' = v
  /\ UNCHANGED <<store, loaded, cursor, elapsed, playing, loads, loadGen, pendingSeek, mounted>>

InspectPeer(p) ==
  /\ Operation /\ p \in DOMAIN store.nodes \union {None} /\ p # store.selectedPeer
  /\ store' = SelectPeer(store, p)
  /\ UNCHANGED <<playerVars, loads, loadGen, pendingSeek, mounted>>

\* A scrubber drag asks for one seek per animation frame and keeps the latest position.
SeekTo(sec) ==
  /\ Operation /\ store.reel # None
  /\ pendingSeek' = sec
  /\ UNCHANGED <<store, playerVars, loads, loadGen, mounted>>

AnimationFrame ==
  /\ pendingSeek # None
  /\ pendingSeek' = None
  /\ IF store.reel # None
     THEN SeekReel(store, loaded, OffsetOf(loaded, pendingSeek))
     ELSE UNCHANGED <<store, cursor, elapsed>>
  /\ UNCHANGED <<loaded, playing, speed, loads, loadGen, mounted, ops>>

\* Slip: nothing stops the timer at the end.
ClockWithoutEnd(dt) ==
  LET now == Clamp(elapsed + dt * speed, 0, Duration(loaded))
  IN  /\ playing
      /\ cursor' = DueBy(loaded, now)
      /\ elapsed' = now
      /\ UNCHANGED <<playing, loaded, speed>>

\* The timer: play what has become due, and stop at the end.
Clock(dt) ==
  LET now  == elapsed + dt * speed
      upTo == IF DueBy(loaded, now) > cursor THEN DueBy(loaded, now) ELSE cursor
      ends == upTo >= Len(FramesOf(loaded))
  IN  /\ playing
      /\ cursor' = upTo
      /\ elapsed' = IF ends THEN Duration(loaded) ELSE now
      /\ playing' = ~ends
      /\ UNCHANGED <<loaded, speed>>

Step(dt) ==
  /\ Clock(dt)
  /\ LET after == Played(store, loaded, cursor, cursor')
     IN  store' = IF playing' THEN after ELSE [after EXCEPT !.playing = FALSE]
  /\ UNCHANGED <<loads, loadGen, pendingSeek, mounted, ops>>

(***************************************************************************)
(* Loading.                                                                *)
(***************************************************************************)
\* unloadReel: pause, rewind and let go of the frames.
Unloaded(s) == IF playing THEN [s EXCEPT !.playing = FALSE] ELSE s
UnloadReel == loaded' = None /\ cursor' = 0 /\ elapsed' = 0 /\ playing' = FALSE

Aborted(ls) == {[l EXCEPT !.aborted = TRUE] : l \in ls}
\* Slip: only a newer load makes one stale.
StaleByGen(l) == l.gen # loadGen
Stale(l) == l.gen # loadGen \/ l.aborted

\* enterReel up to the fetch: the reel is provisional, older loads are aborted.
EnterReel(r) ==
  /\ ~mounted /\ loadGen < MaxLoads
  /\ mounted' = TRUE
  /\ store' = [Unloaded(SetConnected(store, FALSE)) EXCEPT !.reel = r, !.mainnet = FALSE]
  /\ UnloadReel
  /\ loadGen' = loadGen + 1
  /\ loads' = Aborted(loads) \union
              {[gen |-> loadGen + 1, reel |-> r, answered |-> FALSE, got |-> 0,
                primed |-> FALSE, aborted |-> FALSE]}
  /\ UNCHANGED <<speed, pendingSeek, ops>>

\* What the first snapshot of a file shows at once: the latest edges and scenario before it, and itself.
LatestOf(seq, type) ==
  LET of == {i \in DOMAIN seq : seq[i].frame.type = type}
  IN  IF of = {} THEN <<>> ELSE <<seq[Max(of)].frame>>
PrimedBy(r, n) ==
  LET seq == SubSeq(FramesOf(r), 1, n)
      at  == CHOOSE i \in DOMAIN seq :
               seq[i].frame.type = "snapshot" /\ \A j \in 1..(i - 1) : seq[j].frame.type # "snapshot"
      upTo == SubSeq(seq, 1, at)
  IN  LatestOf(upTo, "edges") \o LatestOf(upTo, "scenario") \o <<seq[at].frame>>
HasSnapshot(r, n) == \E i \in 1..n : FramesOf(r)[i].frame.type = "snapshot"

\* A piece of the file arrives; any number of lines may be complete by now.  The progress bar is drawn now and then.
TakeChunk(l, n) ==
  LET primes == ~l.primed /\ HasSnapshot(l.reel, n)
      shown  == IF primes THEN DispatchAll(store, PrimedBy(l.reel, n)) ELSE store
  IN  /\ ~Stale(l) /\ n \in l.got..Len(FramesOf(l.reel))
      /\ \E drawn \in {store.reelLoad, l.reel} : store' = [shown EXCEPT !.reelLoad = drawn]
      /\ loads' = (loads \ {l}) \union {[l EXCEPT !.answered = TRUE, !.got = n, !.primed = @ \/ primes]}
      /\ UNCHANGED <<playerVars, loadGen, pendingSeek, mounted, ops>>

\* The end of the file: the reel is there, paused at its first snapshot, or at the moment the link names.
LandReel(l) ==
  LET first == Rebuilt(ResetRun(store), l.reel, FirstSnapshot(l.reel))
  IN  /\ ~Stale(l) /\ l.got = Len(FramesOf(l.reel)) /\ l.got > 0
      /\ loads' = loads \ {l}
      /\ loaded' = l.reel
      /\ \E at \in {FirstSnapshot(l.reel), Duration(l.reel)} \union {FramesOf(l.reel)[i].t : i \in Snapshots(l.reel)} :
           SeekReel([first EXCEPT !.playing = FALSE, !.reelLoad = None], l.reel, at)
      /\ UNCHANGED <<playing, speed, loadGen, pendingSeek, mounted, ops>>

\* exitReel: back to the live simulation.
ExitTo(s) == [Unloaded(s) EXCEPT !.reel = None, !.mainnet = FALSE]

\* The file breaks off or is empty, or it is missing (then nothing clears the progress bar): the reel is left.
FailLoad(l) ==
  /\ ~Stale(l)
  /\ \E bar \in {None} \union (IF l.answered THEN {} ELSE {store.reelLoad}) :
       store' = ExitTo([store EXCEPT !.reelLoad = bar])
  /\ loads' = Aborted(loads \ {l})
  /\ UnloadReel
  /\ UNCHANGED <<speed, loadGen, pendingSeek, mounted, ops>>

\* A superseded or aborted load finds out at its next answer and returns without a word.
DropStale(l) ==
  /\ Stale(l)
  /\ loads' = loads \ {l}
  /\ UNCHANGED <<store, playerVars, loadGen, pendingSeek, mounted, ops>>

ExitReel ==
  /\ Operation /\ store.reel # None
  /\ store' = ExitTo(store)
  /\ loads' = Aborted(loads)
  /\ UnloadReel
  /\ UNCHANGED <<speed, loadGen, pendingSeek, mounted>>

\* The page is left, or shows another reel.
TeardownSim ==
  /\ mounted
  /\ mounted' = FALSE
  /\ loads' = Aborted(loads)
  /\ UnloadReel
  /\ store' = [Unloaded(store) EXCEPT !.reel = None, !.reelLoad = None]
  /\ UNCHANGED <<speed, loadGen, pendingSeek, ops>>

\* A live session before this one may have left the mark of its connection.
Init ==
  /\ \E mark \in BOOLEAN : store = [InitialStore EXCEPT !.connectScenarioPending = mark]
  /\ loaded = None /\ cursor = 0 /\ elapsed = 0 /\ playing = FALSE /\ speed = 1
  /\ loads = {} /\ loadGen = 0
  /\ pendingSeek = None
  /\ mounted = FALSE
  /\ ops = 0

SimTimes == UNION {{FramesOf(r)[i].frame.time : i \in Snapshots(r)} : r \in ReelNames}

User ==
  \/ PlayReel \/ PauseReel \/ RewindReel \/ ExitReel
  \/ \E v \in Speeds : SetSpeed(v)
  \/ \E p \in DOMAIN store.nodes \union {None} : InspectPeer(p)
  \/ \E sec \in SimTimes : SeekTo(sec)

Loading ==
  \/ \E r \in ReelNames : EnterReel(r)
  \/ \E l \in loads : \/ \E n \in l.got..Len(FramesOf(l.reel)) : TakeChunk(l, n)
                      \/ LandReel(l) \/ FailLoad(l) \/ DropStale(l)
  \/ TeardownSim

Next == User \/ Loading \/ AnimationFrame \/ \E dt \in 1..MaxTick : Step(dt)

Spec == Init /\ [][Next]_vars

\* setInterval fires again and again; files, animation frames and users may take for ever.
FairSpec == Spec /\ WF_playerVars(\E dt \in 1..MaxTick : Clock(dt))

(***************************************************************************)
(* Properties.                                                             *)
(***************************************************************************)
\* What the interface shows of a moment.  A field that only a frame of some type writes counts
\* from the first such frame on: resetRun clears none of them, so before it a seek leaves what was there.
After(type, r, n, v) == IF \E i \in 1..n : FramesOf(r)[i].frame.type = type THEN v ELSE None
ShownOf(s, r, n) ==
  [time |-> s.simTime, events |-> s.events, count |-> s.eventCount, dropped |-> s.droppedEvents,
   faults |-> s.activeFaults, beats |-> s.beats, caption |-> s.caption, phase |-> s.phaseLabel,
   invalid |-> s.invalidCount, narrator |-> s.narrator, samples |-> s.analyticsHistory,
   nodes |-> After("snapshot", r, n, s.nodes), edges |-> After("edges", r, n, s.edges),
   scenario |-> After("scenario", r, n, s.activeScenario),
   kpis |-> After("analytics", r, n, s.gossipAnalytics), totals |-> After("metrics", r, n, s.metrics),
   mainnet |-> After("telemetry_status", r, n, s.mainnet)]

ViewOf == [r \in ReelNames |-> [n \in 0..Len(Recordings[r]) |->
             ShownOf(Played([InitialStore EXCEPT !.reel = r], r, 0, n), r, n)]]

Promised == INSTANCE ReelView WITH
  Reels <- ReelNames, NoReel <- None, View <- ViewOf,
  Length <- [r \in ReelNames |-> Len(Recordings[r])],
  reel <- loaded, pos <- cursor, playing <- playing,
  shown <- IF loaded = None THEN None ELSE ShownOf(store, loaded, cursor)

\* The player implements the abstract one: whatever was played, sought, inspected, entered and left
\* before, what is shown is the recording up to the cursor (replay.ts:174: "Rebuild the time-dependent
\* state from scratch, so a seek backwards cannot keep the log, chart samples, narrator beats or
\* counters of the later moment it left").
ShowsThePosition == Promised!Spec

\* The time under the scrubber and the frames that were played belong together.
CursorAtClock ==
  loaded # None => \A i \in DOMAIN FramesOf(loaded) : (i <= cursor) <=> (FramesOf(loaded)[i].t <= elapsed)

\* Only the reel that was entered last, and is still open, is ever in the player (replay.ts:88, R33).
LoadedIsEntered == loaded # None => mounted /\ store.reel = loaded

\* The marks that the scrubber draws in advance are those that the reel leaves when it has been
\* played to its end (replay.ts:34), by whatever way.
ScrubberIsPlayThrough ==
  loaded # None /\ cursor = Len(FramesOf(loaded)) =>
    /\ store.beats = ScanReel(loaded).beats
    /\ store.activeScenario = ScanReel(loaded).scenario

\* The scrubber is where the player is, and its marks are where the reel will leave them.
ScrubberTellsTruth == CursorAtClock /\ ScrubberIsPlayThrough

\* Playing comes to an end, by the end of the reel if by nothing else.
PlayEnds == playing ~> ~playing

=============================================================================
