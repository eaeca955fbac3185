---------------------------- MODULE GossipRelay ----------------------------
(***************************************************************************)
(* How one run's messages travel: GossipEngine.publish, _relay_message and *)
(* the IHAVE/IWANT half of the heartbeat, over the mesh and the faults of  *)
(* GossipMesh.  Every action of GossipMesh happens here too, together with *)
(* what it does to messages.                                               *)
(*                                                                         *)
(* A relay is a trio task: scheduled by start_soon, run up to its latency  *)
(* sleep (which checks the faults and marks the message as seen), and      *)
(* landed after it.  Faults, heartbeats and other relays come in between.  *)
(*                                                                         *)
(* GossipEngine.reset is called on the asyncio thread.  It comes in two    *)
(* pieces, the traces first, at any point of the above, so that a relay    *)
(* also needs a point between looking its trace up and marking the         *)
(* message.                                                                *)
(*                                                                         *)
(* Bounds: MaxMsgs messages a run stay below the 10 ids that IHAVE         *)
(* announces and the 2000 that _seen and _traces keep.  A peer's _history  *)
(* then holds the ids in its _seen, which stands for both.                 *)
(***************************************************************************)
EXTENDS GossipMesh

CONSTANTS
    MaxMsgs,      \* bound: messages published in a run
    MaxRuns,      \* bound: runs, one more than the resets
    D_LAZY        \* neighbours outside the mesh that an IHAVE goes to

ASSUME RelayAssumption ==
    MaxMsgs \in 0 .. 10 /\ MaxRuns \in Nat \ {0} /\ D_LAZY \in Nat

Msgs == 1 .. MaxMsgs
Runs == 1 .. MaxRuns

VARIABLES
    run,        \* which run this is: a trace belongs to the run it was made in
    published,  \* _msg_counter
    traces,     \* _traces: who has received a message, from whom and how
    seen,       \* _seen and _history of each id
    wanted,     \* _iwant_pending of each id
    relays,     \* the relay tasks that are scheduled or asleep
    held,       \* the relay that has looked up its trace and not marked it yet
    resetting,  \* reset() has cleared the traces and not the rest
    behind      \* history variable: the faults active ever since a publish

ledger == <<run, published, traces>>
copies == <<seen, wanted, relays, held>>
relayVars == <<vars, ledger, copies, resetting, behind>>

NoTrace == [origin |-> "none"]
Hop == [to : Ids, from : Ids, via : {"mesh", "iwant"}]
Trace == [origin : Peers, run : Runs, hops : SUBSET Hop]

Relay == [msg : Msgs, from : Ids, to : Ids, run : Runs \cup {0}]
\* A scheduled relay holds no trace yet: its run is 0.
Scheduled == {r \in relays : r.run = 0}
Asleep == relays \ Scheduled
NoRelay == [run |-> 0]

Live(m) == traces[m] # NoTrace
\* delivered_to of a trace.
Delivered(m) ==
    IF Live(m) THEN {traces[m].origin} \cup {h.to : h \in traces[m].hops} ELSE {}

\* No trio operation is half done.
Settled == TrioIdle /\ held = NoRelay

----------------------------------------------------------------------------
(* Publish and relay.                                                       *)

\* _peer_loop publishes; the first hop floods all topology neighbours.
Publish(o) ==
    /\ Settled /\ o \notin crashed
    /\ published < MaxMsgs                                        \* bound
    /\ LET m == published + 1
       IN  /\ published' = m
           /\ traces' = [traces EXCEPT ![m] = [origin |-> o, run |-> run, hops |-> {}]]
           /\ seen' = [seen EXCEPT ![o] = @ \cup {m}]
           /\ relays' = relays \cup
                {[msg |-> m, from |-> o, to |-> n, run |-> 0] : n \in topology[o]}
           /\ behind' = [behind EXCEPT ![m] = {f \in FaultIds : ~Free(f)}]
    /\ UNCHANGED <<vars, run, wanted, held, resetting>>

\* A relay task starts: it looks its message's trace up.
RelayLookUp(r) ==
    /\ Settled /\ r \in Scheduled
    /\ relays' = relays \ {r}
    /\ held' = IF Live(r.msg) THEN [r EXCEPT !.run = traces[r.msg].run] ELSE NoRelay
    /\ UNCHANGED <<vars, ledger, seen, wanted, resetting, behind>>

Refused(r) == LinkBlocked(r.from, r.to) \/ is_eclipsed(r.from, r.to)

\* Slip: the message is marked when it lands, not when it leaves.
TakeOffUnmarked ==
    /\ held # NoRelay
    /\ held' = NoRelay
    /\ IF Refused(held) \/ held.msg \in seen[held.to]
       THEN UNCHANGED <<seen, wanted, relays>>
       ELSE /\ relays' = relays \cup {held}
            /\ UNCHANGED <<seen, wanted>>
    /\ UNCHANGED <<vars, ledger, resetting, behind>>

\* Slip: a message is marked before the faults are looked at.
TakeOffMarkedFirst ==
    /\ held # NoRelay
    /\ held' = NoRelay
    /\ IF held.msg \in seen[held.to]
       THEN UNCHANGED <<seen, wanted, relays>>
       ELSE /\ seen' = [seen EXCEPT ![held.to] = @ \cup {held.msg}]
            /\ wanted' = [wanted EXCEPT ![held.to] = @ \ {held.msg}]
            /\ relays' = IF Refused(held) THEN relays ELSE relays \cup {held}
    /\ UNCHANGED <<vars, ledger, resetting, behind>>

\* It is dropped if a fault is in the way or the message is a duplicate, and
\* otherwise marks the message and goes to sleep for the link's latency.
RelayTakeOff ==
    /\ held # NoRelay
    /\ held' = NoRelay
    /\ IF Refused(held) \/ held.msg \in seen[held.to]
       THEN UNCHANGED <<seen, wanted, relays>>
       ELSE /\ seen' = [seen EXCEPT ![held.to] = @ \cup {held.msg}]
            /\ wanted' = [wanted EXCEPT ![held.to] = @ \ {held.msg}]
            /\ relays' = relays \cup {held}
    /\ UNCHANGED <<vars, ledger, resetting, behind>>

\* It wakes up: unless a reset took the trace away, the message has arrived,
\* and goes on to the receiver's mesh.
RelayLand(r) ==
    /\ Settled /\ r \in Asleep
    /\ IF Live(r.msg) /\ traces[r.msg].run = r.run
       THEN /\ traces' = [traces EXCEPT ![r.msg].hops =
                            @ \cup {[to |-> r.to, from |-> r.from, via |-> "mesh"]}]
            /\ relays' = (relays \ {r}) \cup
                 {[msg |-> r.msg, from |-> r.to, to |-> n, run |-> 0] :
                     n \in mesh[r.to] \ {r.from}}
       ELSE /\ traces' = traces
            /\ relays' = relays \ {r}
    /\ UNCHANGED <<vars, run, published, seen, wanted, held, resetting, behind>>

----------------------------------------------------------------------------
(* The lazy half of the heartbeat.                                          *)

\* Slip: the announcement goes to the mesh.
IHaveToMesh(p, inMesh) ==
    \E targets \in Samples(hand.neighbors \cap inMesh, D_LAZY) :
        wanted' = [q \in Ids |->
                     IF q \in targets THEN wanted[q] \cup (seen[p] \ seen[q]) ELSE wanted[q]]

\* IHAVE to D_LAZY neighbours outside the mesh; each asks for what it lacks.
IHave(p, inMesh) ==
    \E targets \in Samples(hand.neighbors \ inMesh, D_LAZY) :
        wanted' = [q \in Ids |->
                     IF q \in targets THEN wanted[q] \cup (seen[p] \ seen[q]) ELSE wanted[q]]

MaintainAndAnnounce ==
    /\ HeartbeatWrite
    /\ IHave(hand.peer, mesh'[hand.peer])
    /\ UNCHANGED <<ledger, seen, relays, held, resetting, behind>>

\* The neighbours an IWANT of p for m can be served by.
Servers(p, m) == {n \in topology[p] : ~LinkBlocked(n, p) /\ m \in seen[n]}

\* _process_iwants: the wants that are served, at once (what a peer wants was
\* announced by a neighbour that has it, so none waits for another pull).
ServeWants ==
    /\ HeartbeatEnd
    /\ LET wants  == {w \in Ids \X Msgs : w[2] \in wanted[w[1]]}
           alive  == {w \in wants : Live(w[2])}
           served == {w \in alive : Servers(w[1], w[2]) # {}}
           pulled == {w \in served : w[1] \notin Delivered(w[2])}
       IN  /\ \E from \in [pulled -> Peers] :
                /\ \A w \in pulled : from[w] \in Servers(w[1], w[2])
                /\ traces' = [m \in Msgs |->
                     IF \E w \in pulled : w[2] = m
                     THEN [traces[m] EXCEPT !.hops = @ \cup
                             {[to |-> w[1], from |-> from[w], via |-> "iwant"] :
                                 w \in {v \in pulled : v[2] = m}}]
                     ELSE traces[m]]
           /\ seen' = [q \in Ids |-> seen[q] \cup {m \in Msgs : <<q, m>> \in pulled}]
           /\ wanted' = [q \in Ids |->
                           {m \in wanted[q] : <<q, m>> \in alive \ served}]
    /\ UNCHANGED <<run, published, relays, held, resetting, behind>>

----------------------------------------------------------------------------
(* The rest of GossipMesh, and what it does to messages.                    *)

\* An injected attacker starts with an empty _seen, a removed one loses it.
ForgetAttackers ==
    seen' = [q \in Ids |-> IF (q \in members) = (q \in members') THEN seen[q] ELSE {}]

FaultStep(A) ==
    /\ Settled
    /\ A
    /\ ForgetAttackers
    /\ behind' = [m \in Msgs |-> {f \in behind[m] : faults'[f] = faults[f]}]
    /\ UNCHANGED <<ledger, wanted, relays, held, resetting>>

QuietBeat ==
    /\ held = NoRelay
    /\ HeartbeatBegin \/ \E p \in Peers : HeartbeatSkip(p) \/ HeartbeatRead(p)
    /\ UNCHANGED <<ledger, copies, resetting, behind>>

----------------------------------------------------------------------------
(* GossipEngine.reset, on the asyncio thread.                               *)

ResetTraces ==
    /\ ~resetting /\ run < MaxRuns                                \* bound
    /\ resetting' = TRUE
    /\ traces' = [m \in Msgs |-> NoTrace]
    /\ UNCHANGED <<vars, run, published, copies, behind>>

ResetRest ==
    /\ resetting
    /\ resetting' = FALSE
    /\ run' = run + 1
    /\ published' = 0
    /\ seen' = [q \in Ids |-> {}]
    /\ wanted' = [q \in Ids |-> {}]
    /\ invalid' = [q \in Ids |-> 0]
    /\ UNCHANGED <<graph, mesh, fault, beat, traces, relays, held, behind>>

----------------------------------------------------------------------------
RelayInit ==
    /\ Init
    /\ run = 1
    /\ published = 0
    /\ traces = [m \in Msgs |-> NoTrace]
    /\ seen = [q \in Ids |-> {}]
    /\ wanted = [q \in Ids |-> {}]
    /\ relays = {}
    /\ held = NoRelay
    /\ resetting = FALSE
    /\ behind = [m \in Msgs |-> {}]

Relaying ==
    \/ \E r \in relays : RelayLookUp(r) \/ RelayLand(r)
    \/ RelayTakeOff

Beating == QuietBeat \/ MaintainAndAnnounce \/ ServeWants

AnyFault == \E f \in FaultIds : Inject(f) \/ ClearFault(f)
AnyEclipse ==
    \E f \in FaultIds :
        ClearFault(f) \/ \E p \in Peers, n \in EclipseSizes : InjectEclipse(f, p, n)

RelayNext ==
    \/ \E o \in Peers : Publish(o)
    \/ Relaying
    \/ Beating
    \/ FaultStep(AnyFault)

\* No fault but eclipses.
EclipseNext ==
    \/ \E o \in Peers : Publish(o)
    \/ Relaying
    \/ Beating
    \/ FaultStep(AnyEclipse)

Reset == ResetTraces \/ ResetRest

RelaySpec == RelayInit /\ [][RelayNext]_relayVars
ResetSpec == RelayInit /\ [][RelayNext \/ Reset]_relayVars
\* Tasks that are runnable run, sleeping ones wake up, heartbeats go on.  Trio
\* runs a heartbeat in one piece; here it has several steps, between which no
\* relay is enabled, so weak fairness of trio's tasks is strong fairness here.
FairEclipseSpec ==
    /\ RelayInit /\ [][EclipseNext]_relayVars
    /\ SF_relayVars(Relaying) /\ WF_relayVars(Beating)

----------------------------------------------------------------------------
(* Properties.                                                              *)

\* A message reaches a peer once, by whichever of flood, mesh and IWANT comes
\* first, and never returns to its origin.  (An attacker's id that is used again
\* after its fault was cleared starts with nothing seen, and may get it twice.)
DeliveredOnce ==
    \A m \in Msgs : Live(m) =>
        \A h \in traces[m].hops :
            /\ h.to # traces[m].origin
            /\ \A g \in traces[m].hops : g.to = h.to /\ g.to \in Peers => g = h

\* The dedup mark swallows nothing: what a peer has marked as seen it has
\* received or is about to (whatever faults come up meanwhile), and what it has
\* received it has marked.
NothingLost ==
    \A m \in Msgs : Live(m) =>
        \A p \in Peers :
            m \in seen[p] <=>
                \/ p \in Delivered(m)
                \/ \E r \in Asleep : r.msg = m /\ r.to = p

\* What the dedup mark is for (engine.py, _relay_one and handle_iwant).
DeliveredExactlyOnce == DeliveredOnce /\ NothingLost

\* The two sides of a partition that leaves no peer out.
Sides(f) ==
    IF /\ faults[f].type = "partition"
       /\ faults[f].group_a \cup faults[f].group_b = Peers
       /\ faults[f].group_a \cap faults[f].group_b = {}
    THEN {faults[f].group_a, faults[f].group_b} ELSE {}

\* An attacker has passed the message on, or is about to.  Attackers have nobody to pass it on to but a
\* target that they have it from; only if an eclipse ends and another one takes the same id over while a
\* relay to it sleeps does it go on to the new one's target.
Bridged(m) ==
    \E h \in traces[m].hops \cup {r \in Asleep : r.msg = m} : h.from \in Attackers

\* A message published behind a partition stays on its side of it by every
\* route (flood, mesh, IHAVE/IWANT) for as long as the partition lasts, unless
\* an attacker's id is used again meanwhile, and a dropped peer receives nothing
\* that was published since it was dropped.
CutsContain ==
    \A m \in Msgs : Live(m) =>
        \A f \in behind[m] :
            /\ \A side \in Sides(f) :
                    traces[m].origin \in side /\ ~Bridged(m) => Delivered(m) \cap Peers \subseteq side
            /\ faults[f].type = "drop" => Delivered(m) \cap {faults[f].peer} \subseteq {traces[m].origin}

\* What was published since an eclipse began passes between its target and the
\* honest peers by IWANT only.
EclipseLeavesLazyOnly ==
    \A m \in Msgs : Live(m) =>
        \A f \in behind[m], h \in traces[m].hops :
            /\ faults[f].type = "eclipse"
            /\ faults[f].target \in {h.to, h.from}
            /\ {h.to, h.from} \subseteq Peers
            => h.via = "iwant"

\* What was published behind a fault does not get past it (the two above).
FaultsContain == CutsContain /\ EclipseLeavesLazyOnly

\* IHAVE/IWANT still reach an eclipsed peer: it gets what a neighbour of it has
\* received, unless the eclipse ends first.
EclipsedStaysAlive ==
    \A m \in Msgs, t \in Peers :
        (/\ Live(m)
         /\ \E f \in Active("eclipse") : faults[f].target = t
         /\ \E n \in topology[t] : n \in Delivered(m))
        ~> \/ t \in Delivered(m)
           \/ ~ \E f \in Active("eclipse") : faults[f].target = t

\* Not true of the code under ResetSpec (a reset between a relay's look-up and
\* its mark): "a relay scheduled before [a reset] must not write the old run's msg_id into
\* the new run's seen sets."
NoGhosts == ~resetting => \A q \in Ids : \A m \in seen[q] : m <= published

=============================================================================
