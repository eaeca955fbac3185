------------------------------- MODULE Recording -------------------------------
(* A recording of a scenario, and those who read it.  The recorder's socket      *)
(* writes what it sends, line by line, from the moment it is connected: the      *)
(* topology that was there, and then the run that was launched                   *)
(* (scripts/record_reel.py, backend/main.py).  Four programs read the lines:     *)
(* the player and its narrator (AppStore), the landing page's figures            *)
(* (web/scripts/reel-stats.mjs), the film with its sounds (web/remotion) and the *)
(* scrubber's marks (web/lib/timeline-marks.ts).  They were written apart and    *)
(* should tell the same story.                                                   *)
(*                                                                               *)
(* The scenario injects sybils and clears them again.  Times are whole units.    *)
(* The messages between peers are left out.                                      *)
EXTENDS Integers, Sequences, FiniteSets, SequencesExt, FiniteSetsExt, Null

CONSTANTS Honest, Sybils,   \* the peers
          INJECT, CLEAR,    \* when the scenario's phases are due
          LATE,             \* how much later a phase may fire
          HB, BEAT,         \* the heartbeats are at BEAT, BEAT + HB, ...
          SNAP,             \* from one snapshot to the next, at least
          END,              \* bound: the length of the run
          FROM, TO, STEP,   \* the frames of the plate
          SLACK,            \* how far a phase may be from the beat it leaves
          ACT, RATE         \* an act of the film: [from, offset, frames]; frames per unit

ASSUME RecordingAssumption ==
    \* Sybils have names of their own.
    /\ Honest \cap Sybils = {} /\ IsFiniteSet(Sybils)
    \* Both phases are due within the run.
    /\ INJECT \in Nat \ {0} /\ CLEAR \in (INJECT + 1)..END /\ END \in Nat
    /\ LATE \in Nat /\ SLACK \in Nat /\ LATE < SLACK
    /\ {HB, SNAP, STEP, RATE} \subseteq Nat \ {0} /\ BEAT \in 0..(HB - 1)
    /\ FROM \in Nat /\ TO \in Nat /\ TO >= FROM
    /\ ACT \in [from : Nat, offset : Nat, frames : Nat]
    /\ None \notin Nat /\ None \notin {"flood", "pruned", "cleared"}

App == INSTANCE AppStore WITH RealPeers <- {}, MAX_EVENTS <- 1, MAX_SAMPLES <- 1,
                              SCORE_HISTORY <- 1, DURATION <- END

VARIABLES tape,   \* the lines
          bus,    \* events that are not sent yet
          run     \* [now, launched, told, faults, pruned, snapped, skipped]

tapeVars == <<tape, bus, run>>

-------------------------------------------------------------------------------
\* The backend and its socket.
Edges(layout) == [type |-> "edges", edges |-> layout]

Scenario(active) == [type |-> "scenario", active |-> active, name |-> "sybil", duration |-> END]

Event(kind) == [type |-> "event", kind |-> kind, at |-> run.now]

Phase(label) == [type |-> "event", kind |-> "ScenarioPhaseFired", at |-> run.now, label |-> label]

Fault(kind) == [type |-> "event", kind |-> kind, at |-> run.now, fault |-> "sybil"]

TapeInit ==
    /\ tape = <<Edges("before"), Scenario(FALSE)>>
    /\ bus = <<>>
    /\ run = [now |-> 0, launched |-> FALSE, told |-> FALSE, faults |-> "none", pruned |-> {},
               snapped |-> FALSE, skipped |-> FALSE]

\* A launch lays the mesh out anew and begins at time 0.
Launch ==
    /\ ~run.launched
    /\ run' = [run EXCEPT !.launched = TRUE, !.snapped = FALSE]
    /\ UNCHANGED <<tape, bus>>

\* The next tick of the socket says so, the tick under way may take a snapshot before.
Tell ==
    /\ run.launched /\ ~run.told
    /\ tape' = tape \o <<Edges("run"), Scenario(TRUE)>>
    /\ run' = [run EXCEPT !.told = TRUE]
    /\ UNCHANGED bus

SnapshotDue == run.now % SNAP = 0 /\ ~run.snapped

\* The clock.  What was emitted is sent and the snapshot that is due is taken before it has gone
\* on by a unit, and no phase is overdue.
ClockTick ==
    /\ run.told /\ run.now < END /\ bus = <<>> /\ ~SnapshotDue
    /\ run.faults = "none" => run.now < INJECT + LATE
    /\ run.faults = "on" => run.now < CLEAR + LATE
    /\ run' = [run EXCEPT !.now = @ + 1, !.snapped = FALSE]
    /\ bus' = <<[Event("ClockTick") EXCEPT !.at = @ + 1]>>
    /\ UNCHANGED tape

Inject ==
    /\ run.told /\ run.faults = "none" /\ run.now >= INJECT
    /\ run' = [run EXCEPT !.faults = "on"]
    /\ bus' = bus \o <<Phase("inject"), Fault("FaultInjected")>>
    /\ UNCHANGED tape

\* A heartbeat prunes the sybils whose score it finds below the line.
Heartbeat ==
    /\ run.faults = "on" /\ run.now % HB = BEAT
    /\ \E low \in (SUBSET (Sybils \ run.pruned)) \ {{}} :
          /\ run' = [run EXCEPT !.pruned = @ \cup low]
          /\ bus' = bus \o [i \in 1..Cardinality(low) |-> Event("SybilPruned")]
    /\ UNCHANGED tape

Clear ==
    /\ run.faults = "on" /\ run.now >= CLEAR
    /\ run' = [run EXCEPT !.faults = "off", !.pruned = {}]
    /\ bus' = bus \o <<Phase("clear"), Fault("FaultCleared")>>
    /\ UNCHANGED tape

Send ==
    /\ bus # <<>>
    /\ tape' = tape \o bus /\ bus' = <<>>
    /\ UNCHANGED run

\* A snapshot is of what there is, sent or not.  It is skipped if the pool changed under it; the
\* analytics that come with every few of them are not (bounds: one is skipped at most, after the launch, and
\* analytics are left out until the clear is due).
Analytics(delivered) == [type |-> "analytics", messages |-> TRUE, delivered |-> delivered]

SnapshotNow ==
    LET peers == Honest \cup (IF run.faults = "on" THEN Sybils ELSE {})
    IN  [type |-> "snapshot", state |-> "running", time |-> run.now, event_count |-> 0,
         nodes |-> [p \in peers |-> IF p \in Sybils THEN "attacker" ELSE "idle"],
         layout |-> IF run.launched THEN "run" ELSE "before",
         pruned |-> run.pruned]

Snapshot ==
    /\ SnapshotDue
    /\ \E snap \in {<<>>, <<SnapshotNow>>}, report \in {<<>>, <<Analytics(TRUE)>>, <<Analytics(FALSE)>>} :
          /\ run.now < CLEAR => report = <<>>
          /\ run.skipped \/ ~run.launched => snap # <<>>
          /\ tape' = tape \o snap \o report
          /\ run' = [run EXCEPT !.snapped = TRUE, !.skipped = @ \/ snap = <<>>]
    /\ UNCHANGED bus

TapeNext ==
    \/ Launch
    \/ Tell
    \/ ClockTick
    \/ Inject
    \/ Heartbeat
    \/ Clear
    \/ Send
    \/ Snapshot
-------------------------------------------------------------------------------
\* What all of them look for, by its lines.
LinesOf(type) == {i \in DOMAIN tape : tape[i].type = type}

Snapshots == LinesOf("snapshot")

Happened(kind) == {i \in LinesOf("event") : tape[i].kind = kind}

FirstOf(lines) == tape[Min(lines)]
LastOf(lines) == tape[Max(lines)]

SnapshotAt(t) ==
    LET past == {i \in Snapshots : tape[i].time <= t}
    IN  IF past = {} THEN FirstOf(Snapshots) ELSE LastOf(past)

-------------------------------------------------------------------------------
\* The landing page's figures.  A line without a time has that of the snapshot before it.
SimT(i) ==
    LET before == {j \in Snapshots : j < i}
    IN  IF before = {} THEN 0 ELSE LastOf(before).time

ClearedAt == FirstOf(Happened("FaultCleared")).at

\* Without the beats that it tells of there are no figures.
HasBeats ==
    /\ Snapshots # {}
    /\ \A kind \in {"FaultInjected", "SybilPruned", "FaultCleared"} : Happened(kind) # {}

\* The analytics, dated later than t, with 95 % delivered.
WholeAfter(t) == {i \in LinesOf("analytics") : tape[i].delivered /\ SimT(i) > t}

\* Seconds from the clear to the first of them; 0 if there are none.
HealedIn ==
    LET hits == WholeAfter(ClearedAt)
    IN  IF hits = {} THEN 0 ELSE SimT(Min(hits)) - ClearedAt

\* The card of the partition tells it from when the scenario's clear is due.
PartitionHealedIn ==
    LET hits == WholeAfter(CLEAR)
    IN  IF hits = {} THEN 0 ELSE SimT(Min(hits)) - CLEAR

\* The stamps of the plate.
Stamps ==
    LET pruned == {i \in Snapshots : tape[i].pruned # {}}
        Stamp(at, text) == [at |-> at, text |-> text]
    IN  <<Stamp(FirstOf(Happened("FaultInjected")).at, "flood")>>
        \o (IF pruned = {} THEN <<>> ELSE <<Stamp(FirstOf(pruned).time, "pruned")>>)
        \o <<Stamp(ClearedAt, "cleared")>>

\* The last of the due ones, by time and then as they are listed.
StampOf(due) ==
    LET last == CHOOSE i \in due :
                    \A j \in due : Stamps[j].at < Stamps[i].at \/ (Stamps[j].at = Stamps[i].at /\ j <= i)
    IN  Stamps[last].text

\* A frame of the plate: the latest snapshot, and the stamp nearest to it.  The places of the peers
\* are those of the first snapshot, the lines between them the first ones of the recording.
PlateFrame(t) ==
    LET due == {i \in DOMAIN Stamps : 2 * Stamps[i].at <= 2 * t + STEP}
    IN  [snap |-> SnapshotAt(t),
         stamp |-> IF due = {} THEN None ELSE StampOf(due),
         layout |-> FirstOf(Snapshots).layout,
         edges |-> FirstOf(LinesOf("edges")).edges]

\* A reel's card: the first snapshot at 30 % of the run, and the lines between the peers as they were
\* known when it was taken.
Card ==
    LET card == Min({i \in Snapshots : 10 * tape[i].time >= 3 * LastOf(Snapshots).time})
    IN  [snap |-> tape[card], layout |-> tape[card].layout,
         edges |-> LastOf({i \in LinesOf("edges") : i < card}).edges]

PlateTimes == {t \in FROM..TO : (t - FROM) % STEP = 0}

-------------------------------------------------------------------------------
\* The film.
Prunes == Happened("SybilPruned")

\* The scores of the first of the snapshots that prove a prune, and of the later ones as they come.
ScoresFrom(after, t) ==
    IF Prunes = {} \/ t < FirstOf(Prunes).at \/ after = {} THEN SnapshotAt(t)
    ELSE SnapshotAt(IF FirstOf(after).time > t THEN FirstOf(after).time ELSE t)

\* Slip: those that are not before the prune.
ScoresFromThePrune(t) == ScoresFrom({i \in Snapshots : tape[i].time >= FirstOf(Prunes).at}, t)

\* The snapshot whose scores the film shows: from the first prune on one that was taken after it.
ScoresShown(t) == ScoresFrom({i \in Snapshots : tape[i].time > FirstOf(Prunes).at}, t)

\* The frame in which time t of the recording is played in the act.
FrameAt(t) ==
    LET local == (t - ACT.offset) * RATE
    IN  IF local \in 0..(ACT.frames - 1) THEN ACT.from + local ELSE None

\* Heartbeats are in step with the first prune.
HeartbeatTicks ==
    LET phase == IF Prunes = {} THEN 0 ELSE FirstOf(Prunes).at % HB
    IN  {FrameAt(t) : t \in {t \in ACT.offset..(ACT.offset + ACT.frames) : t % HB = phase}} \ {None}

\* One sweep for a round of prunes.
Sweeps == {FrameAt(tape[i].at) : i \in Prunes} \ {None}

-------------------------------------------------------------------------------
\* The scrubber.
Phases == {[at |-> INJECT, label |-> "inject", injects |-> TRUE],
           [at |-> CLEAR, label |-> "clear", injects |-> FALSE]}

\* A band from every injection to the next clear.
Bands ==
    LET Clears(p) == {q.at : q \in {q \in Phases : ~q.injects /\ q.at > p.at}} \cup {END}
    IN  {[from |-> p.at, to |-> Min(Clears(p))] : p \in {p \in Phases : p.injects}}

Near(b, p) == b.time - p.at < SLACK /\ p.at - b.time < SLACK

\* The beats, each from a place of its own, and the phases that are near to none of them.
Ticks(beats) ==
    LET ahead == {p \in Phases : \A i \in DOMAIN beats : ~Near(beats[i], p)}
    IN  {m \in {[mark |-> beats[i], from |-> i] : i \in DOMAIN beats}
               \cup {[mark |-> App!Beat("phase", p.label, p.at), from |-> 0] : p \in ahead} :
            m.mark.time <= END}

\* What it draws, in advance of what fires.
Track(beats) == [bands |-> Bands, ticks |-> Ticks(beats)]

-------------------------------------------------------------------------------
\* The player, when it has played what there is.
Played == App!DispatchAll(App!InitialStore, tape)

Healings(played) == {i \in DOMAIN played.beats : played.beats[i].kind = "healed"}

\* No snapshot was skipped that should have dated an analytics line.
Dated == \A i \in LinesOf("analytics") : tape[i - 1].type = "snapshot"

\* The narrator and the landing page tell of the same healing, unless the mesh was whole in the
\* very moment of the clear, or a snapshot was skipped that should have dated an analytics line.
HealingAgrees(played) ==
    LET healings == Healings(played)
        told == played.beats[Min(healings)].time
    IN  HasBeats =>
            /\ HealedIn > 0 => healings # {}
            /\ Dated => IF healings = {} THEN HealedIn = 0
                        ELSE HealedIn = told - ClearedAt \/ told = ClearedAt

\* The partition's card counts from an earlier moment, by as much as the clear fired late, and stops at
\* the latest where the other count does.
PartitionAgrees ==
    LET whole == {i \in LinesOf("analytics") : tape[i].delivered}
    IN  HasBeats /\ Dated /\ (\A i \in whole : i > Min(Happened("FaultCleared"))) =>
            /\ PartitionHealedIn # 0 => PartitionHealedIn >= ClearedAt - CLEAR
            /\ HealedIn # 0 => PartitionHealedIn \in 1..(HealedIn + ClearedAt - CLEAR)

\* What a card draws belongs together: the peers' places and the lines between them are those of the run, the
\* attackers those of that moment; once something of the run was seen after its first moment, and what was
\* emitted is sent.
CardAgrees ==
    Snapshots # {} /\ LastOf(Snapshots).time > 0 /\ bus = <<>> =>
        /\ Card.layout = "run" /\ Card.edges = "run"
        /\ Card.snap.pruned # {} => Prunes # {} /\ FirstOf(Prunes).at <= Card.snap.time

\* A frame of the plate that shows sybils is stamped with what they do, if there was a snapshot by then.
PlateTells ==
    HasBeats => \A t \in PlateTimes :
        LET f == PlateFrame(t)
        IN  f.snap.time <= t =>
            /\ Sybils \cap DOMAIN f.snap.nodes # {} => f.stamp # None
            /\ f.snap.pruned # {} => f.stamp \in {"pruned", "cleared"}

\* As soon as it is known, a score that led to a prune is shown as such, also in the snapshot's own moment.
ScoreIsThePruned ==
    Prunes # {} => \A t \in FirstOf(Prunes).at..END :
        LET s == ScoresShown(t)
        IN  (\E i \in Snapshots : tape[i].time > FirstOf(Prunes).at)
               => s.pruned # {} \/ Sybils \cap DOMAIN s.nodes = {}

\* Every round of prunes is heard once, on a beat, in the frame that shows it.
CuesOnTheBeat ==
    \A i \in Prunes : FrameAt(tape[i].at) # None =>
        FrameAt(tape[i].at) \in Sweeps \cap HeartbeatTicks

\* Where a phase is due there is a mark, before it fires and after, and never two for it (what else
\* happens in that moment may stand for it until it has fired); the faults are on within a band only.
MarksAgree(played) ==
    LET track == Track(played.beats)
        Named(p) == {m \in track.ticks : m.mark.kind = "phase" /\ m.mark.label = p.label}
    IN  /\ \A p \in Phases :
               /\ \A m, n \in Named(p) : m = n
               /\ \E m \in track.ticks : Near(m.mark, p)
        /\ played.activeFaults > 0 =>
               \E b \in track.bands : played.simTime \in b.from..(b.to + LATE)

\* Whenever the recording is stopped, its readers tell the same story (reel-stats.mjs:1-2,
\* v2/timeline.ts:68-69 and 91-93, timeline-marks.ts:16).
ReadersAgree ==
    run.told =>
        LET played == Played
        IN  /\ HealingAgrees(played)
            /\ PartitionAgrees
            /\ CardAgrees
            /\ PlateTells
            /\ ScoreIsThePruned
            /\ CuesOnTheBeat
            /\ MarksAgree(played)

\* Not true of the code.  The plate draws the mesh of the run that it replays (PlateReplay.tsx:2):
\* the recording begins before the launch, with the mesh that was there.
PlateDrawsTheRun ==
    HasBeats => \A t \in PlateTimes : PlateFrame(t).layout = "run" /\ PlateFrame(t).edges = "run"
===============================================================================
