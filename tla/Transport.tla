------------------------------ MODULE Transport ------------------------------
(***************************************************************************)
(* The transport of the live simulator (play, pause, reset, launch, the    *)
(* node and duration presets of web/lib/actions.ts) against a server that  *)
(* other viewers use too.  The controls are optimistic: they change the    *)
(* store, post a request, and put things right when its answer is a        *)
(* failure; meanwhile the server's frames say what it is really doing.     *)
(* Frames arrive in order, answers do not.                                 *)
(*                                                                         *)
(* Events that wait for a flush are frames that have not arrived yet: the  *)
(* flush keeps their order.  play and pause are not announced by events    *)
(* (main.py moves the clock alone), only snapshots tell of them.  That     *)
(* these actions leave the geographic layout is in SimShell.               *)
(***************************************************************************)
EXTENDS AppStore, FiniteSets

CONSTANTS
  Durations,   \* the presets of the duration menu
  Length,      \* how long the scenario is
  MaxTime,     \* bound: the server's clock; at this value it stands for every later time
  MaxWire,     \* bound: frames under way
  MaxCalls,    \* bound: requests under way when one more is sent
  MaxOps       \* bound: what the user and other viewers do, and lost requests

ASSUME TransportAssumption == Durations \subseteq Nat \ {0} /\ Length \in Nat \ {0}

VARIABLES
  store,       \* the store
  wire,        \* frames under way
  calls,       \* requests: [op, done, data], done is None until it is answered; two alike are one
  clock,       \* the server's: [running, time]
  token,       \* the viewer may change the server
  ops          \* how much of MaxOps is used up

vars == <<store, wire, calls, clock, token, ops>>

SnapshotFrame == [type |-> "snapshot", state |-> IF clock.running THEN "running" ELSE "paused",
                  time |-> clock.time, event_count |-> 0, nodes |-> [p \in {"peer"} |-> "idle"]]
TickFrame(t) == [type |-> "event", kind |-> "ClockTick", at |-> t]
ScenarioFrame(active) == [type |-> "scenario", active |-> active, name |-> "scenario", duration |-> Length]

\* Only what the transport reads is kept of the store.
Kept(s) ==
  [InitialStore EXCEPT !.playing = s.playing, !.simTime = s.simTime,
                       !.maxDuration = s.maxDuration, !.durationStep = s.durationStep]

Post(op) == [op |-> op, done |-> None, data |-> None]

(***************************************************************************)
(* autoPauseIfDue: SimApp's subscription, inside the change of the time.   *)
(***************************************************************************)
Due(s) == s.playing /\ s.simTime >= s.maxDuration

\* Slip: the button is set, the server is not asked.
BecomesQuietly(s, moved, sent) ==
  /\ store' = Kept(IF moved /\ Due(s) THEN [s EXCEPT !.playing = FALSE] ELSE s)
  /\ calls' = sent

Becomes(s, moved, sent) ==
  IF moved /\ Due(s)
  THEN store' = Kept([s EXCEPT !.playing = FALSE]) /\ calls' = sent \union {Post("autopause")}
  ELSE store' = Kept(s) /\ calls' = sent

(***************************************************************************)
(* The user.                                                               *)
(***************************************************************************)
CanAsk == ops < MaxOps /\ Cardinality(calls) < MaxCalls
Asked(op) == calls' = calls \union {Post(op)} /\ ops' = ops + 1

\* At the limit Play means one more period.
Extended(s) == IF s.simTime >= s.maxDuration THEN ExtendDuration(s) ELSE s

TogglePlay ==
  /\ CanAsk
  /\ IF store.playing
     THEN store' = [store EXCEPT !.playing = FALSE] /\ Asked("pause")
     ELSE store' = [Extended(store) EXCEPT !.playing = TRUE] /\ Asked("play")
  /\ UNCHANGED <<wire, clock, token>>

Reset ==
  /\ CanAsk
  /\ Becomes([ResetRun(store) EXCEPT !.playing = FALSE], FALSE, calls \union {Post("reset")})
  /\ ops' = ops + 1
  /\ UNCHANGED <<wire, clock, token>>

\* launchScenario and setNodePreset.
Launch(op) ==
  /\ CanAsk /\ Asked(op)
  /\ UNCHANGED <<store, wire, clock, token>>

SetDurationPreset(sec) ==
  /\ ops < MaxOps /\ ops' = ops + 1
  /\ store' = SetDuration(store, sec)
  /\ UNCHANGED <<wire, calls, clock, token>>

(***************************************************************************)
(* What arrives.                                                           *)
(***************************************************************************)
Receive ==
  /\ wire # <<>>
  /\ LET f == Head(wire)
         new == IF f.type = "event" THEN ApplyEvent(store, f) ELSE ApplyTyped(store, f)
         ticked == f.type = "event" /\ f.at = MaxTime
     IN  Becomes(new, new.simTime # store.simTime \/ ticked, calls)
  /\ wire' = Tail(wire)
  /\ UNCHANGED <<clock, token, ops>>

\* What the store becomes when a request is answered.  No answer to an automatic pause is looked at.
Answered(s, c) ==
  CASE c.op = "play" /\ c.done = "failed"  -> [s EXCEPT !.playing = FALSE]
    [] c.op = "pause" /\ c.done = "failed" -> [s EXCEPT !.playing = TRUE]
    [] c.op = "topology" /\ c.done = "ok"  -> ApplySnapshot(s, c.data)
    [] OTHER -> s

Answer(c) ==
  /\ c \in calls /\ c.done # None
  /\ LET new == Answered(store, c)
         fetch == IF c.op \in {"launch", "nodes"} /\ c.done = "ok" THEN {Post("topology")} ELSE {}
     IN  Becomes(new, new.simTime # store.simTime, (calls \ {c}) \union fetch)
  /\ UNCHANGED <<wire, clock, token, ops>>

(***************************************************************************)
(* The server.                                                             *)
(***************************************************************************)
Send(f) == wire' = Append(wire, f)
Room == Len(wire) < MaxWire

Tick ==
  /\ Room /\ clock.running
  /\ LET t == IF clock.time < MaxTime THEN clock.time + 1 ELSE MaxTime
     IN  clock' = [clock EXCEPT !.time = t] /\ Send(TickFrame(t))
  /\ UNCHANGED <<store, calls, token, ops>>

Snapshot == Room /\ Send(SnapshotFrame) /\ UNCHANGED <<store, calls, clock, token, ops>>

Done(c, how, data) == calls' = (calls \ {c}) \union {[c EXCEPT !.done = how, !.data = data]}

Refuse(c) ==
  /\ c \in calls /\ c.done = None /\ c.op # "topology" /\ ~token
  /\ Done(c, "failed", None)
  /\ UNCHANGED <<store, wire, clock, token, ops>>

Lose(c) ==
  /\ ops < MaxOps /\ ops' = ops + 1
  /\ c \in calls /\ c.done = None
  /\ Done(c, "failed", None)
  /\ UNCHANGED <<store, wire, clock, token>>

\* A request does what its endpoint does; a new run is announced by a scenario frame.
Run(c) ==
  \/ /\ c.op = "play" /\ clock' = [clock EXCEPT !.running = TRUE]
     /\ Done(c, "ok", None) /\ UNCHANGED wire
  \/ /\ c.op \in {"pause", "autopause"} /\ clock' = [clock EXCEPT !.running = FALSE]
     /\ Done(c, "ok", None) /\ UNCHANGED wire
  \/ /\ c.op \in {"reset", "nodes"} /\ Room /\ Send(ScenarioFrame(FALSE))
     /\ clock' = [running |-> FALSE, time |-> 0] /\ Done(c, "ok", None)
  \/ /\ c.op = "launch" /\ Room /\ Send(ScenarioFrame(TRUE))
     /\ clock' = [running |-> TRUE, time |-> 0] /\ Done(c, "ok", None)

Serve(c) ==
  /\ c \in calls /\ c.done = None
  /\ \/ token /\ Run(c)
     \/ c.op = "topology" /\ Done(c, "ok", SnapshotFrame) /\ UNCHANGED <<clock, wire>>
  /\ UNCHANGED <<store, token, ops>>

\* Another viewer plays or pauses.
OtherViewer ==
  /\ ops < MaxOps /\ ops' = ops + 1
  /\ clock' = [clock EXCEPT !.running = ~@]
  /\ UNCHANGED <<store, wire, calls, token>>

Init ==
  /\ store = InitialStore
  /\ wire = <<>> /\ calls = {Post("topology")}
  /\ clock \in [running : BOOLEAN, time : {0}]
  /\ token \in BOOLEAN
  /\ ops = 0

Next == \/ TogglePlay \/ Reset \/ Launch("launch") \/ Launch("nodes")
        \/ \E sec \in Durations : SetDurationPreset(sec)
        \/ Receive \/ \E c \in calls : Answer(c)
        \/ Tick \/ Snapshot \/ \E c \in calls : Refuse(c) \/ Lose(c) \/ Serve(c)
        \/ OtherViewer

Spec == Init /\ [][Next]_vars

\* Handlers run; the server answers what it is asked, ticks while it runs, and sends snapshots.
Fairness == /\ WF_wire(wire # <<>> /\ wire' = Tail(wire))        \* Receive, and no other step
            /\ WF_vars(\E c \in calls : Answer(c))
            /\ SF_vars(\E c \in calls : Refuse(c) \/ Serve(c))
            /\ SF_vars(Tick) /\ SF_vars(Snapshot)
FairSpec == Spec /\ Fairness

(***************************************************************************)
(* Properties.                                                             *)
(***************************************************************************)
\* Once the server's clock stands for good the button says so; once it runs for good and the viewer
\* may stop it (so that the limit is not reached), the button says that.  The optimistic guess, the
\* answer that takes it back and the frames that overtake both do not leave it wrong.
ButtonSettles ==
  /\ <>[]~clock.running => <>[]~store.playing
  /\ token /\ <>[]clock.running => <>[]store.playing

\* A viewer who may pause the server does not let it run past the limit that the timeline shows.
PausesAtLimit == token => []<>~(clock.running /\ clock.time >= store.maxDuration)

=============================================================================
