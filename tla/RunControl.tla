----------------------------- MODULE RunControl -----------------------------
(***************************************************************************)
(* How runs are started over: _reset_run, launch_scenario, topology_apply  *)
(* and sim_reconfigure, coroutines of the asyncio thread that await and so *)
(* interleave with each other, and ScenarioRunner.run, which polls on the  *)
(* trio thread and fires the phases of the scenario that is armed.         *)
(*                                                                         *)
(* What a coroutine does between two awaits is one step.  The runner's     *)
(* poll reads what is armed in one step and writes the phase index and     *)
(* fires in another, so that the asyncio thread may come in between; no    *)
(* other trio operation may.                                               *)
(*                                                                         *)
(* Of the active faults it matters whether there are some of this run and  *)
(* some of an earlier one, of a topology how many nodes it was built for   *)
(* and who asked for it.  The i-th phase of a scenario is due at time i.   *)
(***************************************************************************)
EXTENDS Integers, Sequences, FiniteSets

CONSTANTS
    Handlers,    \* bound: requests served at the same time
    Scenarios,   \* name -> its phases, each "inject" or "clear"
    Sizes,       \* node counts
    MaxOps,      \* bound: requests and seeks altogether
    MaxLoops,    \* bound: trio loops, one more than the reconfigurations
    MaxTime      \* bound: the clock's time

Names == DOMAIN Scenarios
Longest == CHOOSE n \in {Len(Scenarios[s]) : s \in Names} :
              \A s \in Names : Len(Scenarios[s]) <= n

ASSUME RunAssumption ==
    /\ \A s \in Names : Scenarios[s] \in Seq({"inject", "clear"})
    /\ Names \cap {"none", "initial", "user"} = {} /\ Names # {}
    /\ IsFiniteSet(Names)
    /\ "none" \notin Handlers
    /\ Sizes \subseteq Nat /\ Sizes # {}
    /\ MaxOps \in Nat /\ MaxLoops \in Nat \ {0} /\ MaxTime \in Nat

VARIABLES
    size,      \* engine.node_pool.node_count
    edges,     \* _initial_edges, the topology that is wired
    faults,    \* the runs of the engine's active faults: "this", "earlier"
    playing,   \* the clock is not paused
    time,      \* the clock's time
    loops,     \* the trio threads there have been
    live,      \* the one the globals name
    lock,      \* who holds _reconfigure_lock
    handlers,  \* the requests in flight
    scenario,  \* the runner's _scenario
    idx,       \* its _phase_idx
    polled,    \* what a poll that is half done has read
    gen,       \* _launch_gen
    shown,     \* the last scenario frame of a websocket client
    arming,    \* history: how often the runner was armed or disarmed
    fired,     \* history: which phases have fired since
    lost,      \* history: which were passed over since
    ops        \* how much of MaxOps is used up

engine  == <<size, edges, faults, playing, time>>
threads == <<loops, live, lock>>
runner  == <<scenario, idx, fired, lost>>
frames  == <<gen, shown, arming>>
runVars == <<engine, threads, handlers, runner, polled, frames, ops>>

Free == [op |-> "none"]
NotPolling == [scenario |-> "none", idx |-> 0, arming |-> 0]

At(h, stage) == handlers[h] # Free /\ handlers[h].at = stage

\* The trio thread takes calls: it has not ended and is not inside a poll.
TrioTakesCalls == loops[live] # "ended" /\ polled = NotPolling

----------------------------------------------------------------------------
(* The runner and the clock, on the trio thread.                            *)

Advance ==
    /\ loops[live] = "running" /\ playing
    /\ time < MaxTime                                             \* bound
    /\ time' = time + 1
    /\ UNCHANGED <<size, edges, faults, playing, threads, handlers, runner,
                   polled, frames, ops>>

PhasesLeft == scenario # "none" /\ idx < Len(Scenarios[scenario])

\* A phase of the armed scenario is due.
PollRead ==
    /\ loops[live] = "running" /\ polled = NotPolling
    /\ PhasesLeft /\ playing /\ time > idx
    /\ polled' = [scenario |-> scenario, idx |-> idx, arming |-> arming]
    /\ UNCHANGED <<engine, threads, handlers, runner, frames, ops>>

Fired(kind) == IF kind = "inject" THEN faults \cup {"this"} ELSE {}

\* A poll that was overtaken by an arming writes its index over the new one: the phases up to it are
\* passed over, and what fires is a phase of the scenario that the poll has read.
PassOn ==
    /\ idx' = polled.idx + 1
    /\ IF polled.arming = arming
       THEN fired' = fired \cup {polled.idx + 1} /\ lost' = lost
       ELSE fired' = fired /\ lost' = (lost \cup 1 .. polled.idx + 1) \ fired

\* Slip: a phase whose action fails is tried again.
FireUntilDone ==
    /\ polled # NotPolling
    /\ polled' = NotPolling
    /\ \/ PassOn /\ faults' = Fired(Scenarios[polled.scenario][polled.idx + 1])
       \/ UNCHANGED <<idx, fired, lost, faults>>
    /\ UNCHANGED <<size, edges, playing, time, threads, handlers, scenario, frames, ops>>

\* The index moves on before the phase is executed, which may fail.
PollFire ==
    /\ polled # NotPolling
    /\ polled' = NotPolling
    /\ PassOn
    /\ faults' \in {Fired(Scenarios[polled.scenario][polled.idx + 1]), faults}
    /\ UNCHANGED <<size, edges, playing, time, threads, handlers, scenario, frames, ops>>

----------------------------------------------------------------------------
(* Single requests.                                                         *)

\* A fault route; clear-all is the second one.
UserFault ==
    /\ TrioTakesCalls
    /\ faults' \in {faults \cup {"this"}, {}}
    /\ UNCHANGED <<size, edges, playing, time, threads, handlers, runner,
                   polled, frames, ops>>

PlayPause ==
    /\ playing' = ~playing
    /\ UNCHANGED <<size, edges, faults, time, threads, handlers, runner,
                   polled, frames, ops>>

Seek(t) ==
    /\ ops < MaxOps                                               \* bound
    /\ ops' = ops + 1
    /\ time' = t
    /\ UNCHANGED <<size, edges, faults, playing, threads, handlers, runner,
                   polled, frames>>

\* A websocket client's tick: a scenario frame whenever the generation is new.
ClientTick ==
    /\ gen # shown.gen
    /\ shown' = [gen |-> gen, arming |-> arming]
    /\ UNCHANGED <<engine, threads, handlers, runner, polled, gen, arming, ops>>

----------------------------------------------------------------------------
(* Requests that await.                                                     *)

Begin(h, request) ==
    /\ handlers[h] = Free
    /\ ops < MaxOps                                               \* bound
    /\ ops' = ops + 1
    /\ handlers' = [handlers EXCEPT ![h] = request]
    /\ UNCHANGED <<engine, threads, runner, polled, frames>>

PoolSize == size

sim_reset(h) == Begin(h, [op |-> "reset", at |-> "clearing"])
launch_scenario(h, s) == Begin(h, [op |-> "launch", at |-> "clearing", scenario |-> s])
\* The size is read before the topology is built in the executor.
topology_apply(h) == Begin(h, [op |-> "apply", at |-> "building", size |-> PoolSize])
sim_reconfigure(h, n) == Begin(h, [op |-> "reconfigure", at |-> "waiting", size |-> n])

\* The runner is given another scenario, or its own from the start.
Arm(s) ==
    /\ scenario' = s
    /\ idx' = 0
    /\ arming' = arming + 1
    /\ fired' = {}
    /\ lost' = {}

\* _reset_run awaits clear_all on the trio thread; a loop that has been
\* cancelled may still take the call, or refuse it and fail the request.
ClearForReset(h) ==
    /\ At(h, "clearing") /\ polled = NotPolling
    /\ \/ /\ loops[live] # "ended"
          /\ faults' = {}
          /\ handlers' = [handlers EXCEPT ![h].at = "cleared"]
       \/ /\ loops[live] # "running"
          /\ faults' = faults
          /\ handlers' = [handlers EXCEPT ![h] = Free]
    /\ UNCHANGED <<size, edges, playing, time, threads, runner, polled, frames, ops>>

\* The clock back to zero and paused; the faults there are, are an earlier run's.
StartOver ==
    /\ time' = 0
    /\ playing' = FALSE
    /\ faults' = IF faults = {} THEN {} ELSE {"earlier"}

\* Slip: the websocket clients are not told.
Unannounced == gen' = gen
Announce == gen' = gen + 1

\* Slip: a launch arms its scenario before its topology is built.
ArmedAlready(h) == IF handlers[h].op = "launch" THEN handlers[h].scenario ELSE scenario
ArmedByReset(h) == scenario

\* The rest of _reset_run, and of launch_scenario up to its executor call.
ResetRun(h) ==
    /\ At(h, "cleared")
    /\ StartOver
    /\ Arm(ArmedByReset(h))
    /\ Announce
    /\ handlers' = [handlers EXCEPT ![h] =
         IF @.op = "reset" THEN Free
         ELSE [op |-> "launch", at |-> "building", scenario |-> @.scenario, size |-> PoolSize]]
    /\ UNCHANGED <<size, edges, threads, polled, shown, ops>>

\* The topology has been built: it is wired, and a launch arms and plays.
WireBuilt(h) ==
    /\ At(h, "building")
    /\ handlers' = [handlers EXCEPT ![h] = Free]
    /\ \/ /\ handlers[h].op = "apply"
          /\ edges' = [size |-> handlers[h].size, of |-> "user"]
          /\ UNCHANGED <<runner, gen, arming, playing>>
       \/ /\ handlers[h].op = "launch"
          /\ edges' = [size |-> handlers[h].size, of |-> handlers[h].scenario]
          /\ Arm(handlers[h].scenario)
          /\ Announce
          /\ playing' = TRUE
    /\ UNCHANGED <<size, faults, time, threads, polled, shown, ops>>

----------------------------------------------------------------------------
(* sim_reconfigure.                                                         *)

\* Slip: reconfigurations are not serialised.
CaptureUnlocked(h) ==
    /\ At(h, "waiting")
    /\ lock' = h
    /\ handlers' = [handlers EXCEPT ![h] =
         [op |-> "reconfigure", at |-> "cancelling", size |-> @.size, loop |-> live]]
    /\ UNCHANGED <<engine, loops, live, runner, polled, frames, ops>>

CaptureLoop(h) ==
    /\ At(h, "waiting")
    /\ lock = "none"
    /\ lock' = h
    /\ handlers' = [handlers EXCEPT ![h] =
         [op |-> "reconfigure", at |-> "cancelling", size |-> @.size, loop |-> live]]
    /\ UNCHANGED <<engine, loops, live, runner, polled, frames, ops>>

\* The captured loop is cancelled; an error (it has ended) is logged.
CancelLoop(h) ==
    /\ At(h, "cancelling") /\ polled = NotPolling
    /\ loops' = [loops EXCEPT ![handlers[h].loop] = IF @ = "running" THEN "cancelled" ELSE @]
    /\ handlers' = [handlers EXCEPT ![h].at = "joining"]
    /\ UNCHANGED <<engine, live, lock, runner, polled, frames, ops>>

LoopEnds(l) ==
    /\ loops[l] = "cancelled"
    /\ loops' = [loops EXCEPT ![l] = "ended"]
    /\ UNCHANGED <<engine, live, lock, handlers, runner, polled, frames, ops>>

\* The join has ended or timed out: a new engine and a new loop.
Rebuild(h) ==
    /\ At(h, "joining")
    /\ live < MaxLoops                                            \* bound
    /\ Arm("none")
    /\ Announce
    /\ size' = handlers[h].size
    /\ edges' = [size |-> handlers[h].size, of |-> "initial"]
    /\ faults' = {} /\ playing' = FALSE /\ time' = 0
    /\ live' = live + 1
    /\ loops' = [loops EXCEPT ![live + 1] = "running"]
    /\ lock' = "none"
    /\ handlers' = [handlers EXCEPT ![h] = Free]
    /\ UNCHANGED <<polled, shown, ops>>

----------------------------------------------------------------------------
RunInit ==
    /\ size \in Sizes
    /\ edges = [size |-> size, of |-> "initial"]
    /\ faults = {} /\ playing = FALSE /\ time = 0
    /\ loops = [l \in 1 .. MaxLoops |-> IF l = 1 THEN "running" ELSE "none"]
    /\ live = 1 /\ lock = "none"
    /\ handlers = [h \in Handlers |-> Free]
    /\ scenario = "none" /\ idx = 0 /\ fired = {} /\ lost = {} /\ polled = NotPolling
    /\ gen = 0 /\ shown = [gen |-> 0, arming |-> 0] /\ arming = 0
    /\ ops = 0

Request(h) ==
    \/ sim_reset(h) \/ topology_apply(h)
    \/ \E s \in Names : launch_scenario(h, s)
    \/ \E n \in Sizes : sim_reconfigure(h, n)

Progress(h) ==
    \/ ClearForReset(h) \/ ResetRun(h) \/ WireBuilt(h)
    \/ CaptureLoop(h) \/ CancelLoop(h) \/ Rebuild(h)

Poll == PollRead \/ PollFire

RunNext ==
    \/ Advance \/ Poll \/ UserFault \/ PlayPause \/ ClientTick
    \/ \E t \in 0 .. MaxTime : Seek(t)
    \/ \E h \in Handlers : Request(h) \/ Progress(h)
    \/ \E l \in 1 .. MaxLoops : LoopEnds(l)

RunSpec == RunInit /\ [][RunNext]_runVars
\* The trio loop runs on and requests that have begun are served.
RunFairSpec ==
    /\ RunSpec /\ WF_runVars(Poll) /\ WF_runVars(Advance)
    /\ \A h \in Handlers : WF_runVars(Progress(h))

----------------------------------------------------------------------------
(* Properties.                                                              *)

\* However reconfigurations overlap with each other and with other requests, at
\* most one simulation runs, and it is the one requests go to.
OneLoop ==
    \A l \in 1 .. MaxLoops : loops[l] = "running" => l = live

\* A scenario is armed only on its own topology, or on one the user has applied
\* since, in whatever order launches, applies and reconfigurations end.
ScenarioOnItsTopology ==
    scenario # "none" => edges.of \in {scenario, "user"}

\* A client that has seen the current generation knows which arming it draws.
ClientsFollow == shown.gen = gen => shown.arming = arming

\* A phase of the armed scenario that has neither fired nor been passed over.
Unfired(i) == scenario # "none" /\ i \in 1 .. Len(Scenarios[scenario]) \ (fired \cup lost)

\* Of a scenario that plays on every phase fires, in the time since it was armed and failing ones included,
\* unless a poll that was overtaken by the arming has passed over it.  (The bound on requests lets nobody arm
\* it anew for ever.)
AllPhasesFire == \A i \in 1 .. Longest : playing /\ Unfired(i) ~> ~playing \/ ~Unfired(i)

\* None of the following three is true of the code.

\* "A fresh run replays every phase, not the ones left over."
NoneSkipped == lost = {}

\* "Fresh run ...: clear faults": no fault of an older run is active.
FreshRun == "earlier" \notin faults

\* "Topology must match the live pool."
EdgesFitPool == edges.size = size

=============================================================================
