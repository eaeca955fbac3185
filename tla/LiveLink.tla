------------------------------ MODULE LiveLink ------------------------------
(***************************************************************************)
(* The websocket of the live simulator (web/lib/api/websocket.ts) with the *)
(* pages that open and close it (bootSim, teardownSim, enterReel and       *)
(* exitReel of web/lib/actions.ts), the batching of events, and the count  *)
(* of active faults, which is put together from three sources: events,     *)
(* scenario frames and a question asked over HTTP.                         *)
(*                                                                         *)
(* Handlers of a socket run later than what caused them: a socket whose    *)
(* connection is gone is "closing" until its close event is handled.  What *)
(* the server does is modelled from its handler (main.py): a new client is *)
(* sent a scenario frame and the newest events of the past, then what      *)
(* happens.  The row "Back to live" of the Reels menu connects once more   *)
(* when it is used while live (Menus.tsx:126): that row is left out.       *)
(***************************************************************************)
EXTENDS AppStore, FiniteSets

CONSTANTS
  Sockets, Timers,   \* identities; one is used again when nothing refers to it
  MaxFaults,         \* bound: faults active at a time, and fault events the server's ring holds
  MaxWire            \* bound: frames under way to a client, or waiting in it, when one more is sent

ASSUME LinkAssumption == /\ None \notin Sockets \union Timers
                         /\ MaxFaults \in Nat \ {0}
                         /\ MaxWire \in Nat \ {0}

VARIABLES
  store, pending,    \* the store, and the events that wait for the next flush
  page,              \* "away", "live" or "reel"
  socket,            \* this.socket
  life,              \* of each socket: "unused", "connecting", "open", "closing"
  wire,              \* of each socket: frames sent and not yet received
  greeted,           \* sockets whose client has been sent its first tick
  closed,            \* this.closed: no reconnection is wanted
  timer, timers,     \* this.reconnectTimer, and the timeouts that will fire
  batchTimer,        \* this.batchTimer is set
  intervals,         \* flush intervals that run
  asks,              \* faultActive calls: [sock, answer]
  up,                \* the server can be reached
  faults, log,       \* the server's active faults, and the fault events in its ring
  murky              \* history: a fault came or went while this connection was being set up

client == <<store, pending, page, socket, closed, timer, timers, batchTimer, intervals>>
server == <<up, faults, log>>
net == <<life, wire, greeted>>
vars == <<client, server, net, asks, murky>>

Holds(s) == life[s] \in {"connecting", "open"}          \* readyState <= OPEN
Idle(s) == life[s] = "unused" /\ \A a \in asks : a.sock # s

ScenarioFrame == [type |-> "scenario", active |-> FALSE, name |-> None, duration |-> 0]
FaultEvent(kind) == [type |-> "event", kind |-> kind, at |-> 0, fault |-> "fault"]
Injected == FaultEvent("FaultInjected")
Cleared == FaultEvent("FaultCleared")

(***************************************************************************)
(* The manager.                                                            *)
(***************************************************************************)
Flushed(ch) == FlushEvents(ch)
Here == [store |-> store, pending |-> pending]

\* Nothing here reads the rest of the store (counters, captions, the log): it is kept as it began.  A
\* count past the bound on faults only ever grows or is replaced, so one such count stands for all.
Becomes(ch) ==
  /\ pending' = ch.pending
  /\ store' = [InitialStore EXCEPT !.connected = ch.store.connected, !.connecting = ch.store.connecting,
                                   !.connectScenarioPending = ch.store.connectScenarioPending,
                                   !.activeFaults = Min({ch.store.activeFaults, MaxFaults + 1}),
                                   !.reel = ch.store.reel]

\* open(): no second socket while one is connecting or open.
Open ==
  IF socket # None /\ Holds(socket)
  THEN UNCHANGED <<socket, life>>
  ELSE \E s \in Sockets : /\ Idle(s)
                          /\ socket' = s
                          /\ life' = [life EXCEPT ![s] = "connecting"]

Connect == closed' = FALSE /\ Open

StopBatchTimer == /\ batchTimer' = FALSE
                  /\ intervals' = IF batchTimer THEN intervals - 1 ELSE intervals

\* Slip: the reconnection that is due stays due.
DisconnectKeepTimer(s0) ==
  /\ closed' = TRUE
  /\ UNCHANGED <<timer, timers>>
  /\ StopBatchTimer
  /\ LET ch == Flushed([store |-> s0, pending |-> pending])
     IN  Becomes([ch EXCEPT !.store = SetConnected(@, FALSE)])
  /\ socket' = None
  /\ life' = IF socket # None /\ Holds(socket) THEN [life EXCEPT ![socket] = "closing"] ELSE life

\* disconnect(), and the change of the store that goes with it.
Disconnect(s0) ==
  /\ closed' = TRUE
  /\ timers' = timers \ {timer} /\ timer' = None
  /\ StopBatchTimer
  /\ LET ch == Flushed([store |-> s0, pending |-> pending])
     IN  Becomes([ch EXCEPT !.store = SetConnected(@, FALSE)])
  /\ socket' = None
  /\ life' = IF socket # None /\ Holds(socket) THEN [life EXCEPT ![socket] = "closing"] ELSE life

ScheduleReconnect ==
  /\ \E t \in Timers \ timers : timer' = t /\ timers' = timers \union {t}

OnOpen(s) ==
  /\ up /\ life[s] = "connecting"
  /\ life' = [life EXCEPT ![s] = "open"]
  /\ wire' = [wire EXCEPT ![s] = <<>>]
  /\ greeted' = greeted \ {s}
  /\ IF s = socket
     THEN /\ store' = SetConnected(store, TRUE)
          /\ batchTimer' = TRUE /\ intervals' = intervals + 1
          /\ asks' = asks \union {[sock |-> s, answer |-> None]}
          /\ murky' = FALSE
     ELSE UNCHANGED <<store, batchTimer, intervals, asks, murky>>
  /\ UNCHANGED <<pending, page, socket, closed, timer, timers, server>>

OnMessage(s) ==
  /\ life[s] = "open" /\ wire[s] # <<>>
  /\ wire' = [wire EXCEPT ![s] = Tail(@)]
  /\ IF s = socket THEN Becomes(DispatchFrame(Here, Head(wire[s]))) ELSE UNCHANGED <<store, pending>>
  /\ UNCHANGED <<page, socket, closed, timer, timers, batchTimer, intervals, life, greeted, asks, server, murky>>

\* Slip: the flush goes on, and the pill goes on saying LIVE.
OnCloseStillLive(s) ==
  /\ life[s] = "closing"
  /\ life' = [life EXCEPT ![s] = "unused"]
  /\ wire' = [wire EXCEPT ![s] = <<>>]
  /\ IF s = socket /\ ~closed THEN ScheduleReconnect ELSE UNCHANGED <<timer, timers>>
  /\ UNCHANGED <<store, pending, batchTimer, intervals, page, socket, closed, greeted, asks, server, murky>>

\* Slip: one lost connection is the end.
OnCloseForGood(s) ==
  /\ life[s] = "closing"
  /\ life' = [life EXCEPT ![s] = "unused"]
  /\ wire' = [wire EXCEPT ![s] = <<>>]
  /\ IF s = socket
     THEN Becomes(Flushed([Here EXCEPT !.store = SetConnected(@, FALSE)])) /\ StopBatchTimer
     ELSE UNCHANGED <<store, pending, batchTimer, intervals>>
  /\ UNCHANGED <<page, socket, closed, timer, timers, greeted, asks, server, murky>>

OnClose(s) ==
  /\ life[s] = "closing"
  /\ life' = [life EXCEPT ![s] = "unused"]
  /\ wire' = [wire EXCEPT ![s] = <<>>]
  /\ IF s = socket
     THEN /\ Becomes(Flushed([Here EXCEPT !.store = SetConnected(@, FALSE)]))
          /\ StopBatchTimer
          /\ IF closed THEN UNCHANGED <<timer, timers>> ELSE ScheduleReconnect
     ELSE UNCHANGED <<store, pending, batchTimer, intervals, timer, timers>>
  /\ UNCHANGED <<page, socket, closed, greeted, asks, server, murky>>

\* The timeout of scheduleReconnect.  It clears the handle, whichever timeout that is by now.
Reconnect(t) ==
  /\ t \in timers
  /\ timers' = timers \ {t} /\ timer' = None
  /\ Open
  /\ UNCHANGED <<store, pending, page, closed, batchTimer, intervals, wire, greeted, asks, server, murky>>

BatchTick ==
  /\ intervals > 0 /\ pending # <<>>
  /\ Becomes(Flushed(Here))
  /\ UNCHANGED <<page, socket, closed, timer, timers, batchTimer, intervals, net, asks, server, murky>>

\* Slip: an answer counts whichever socket asked.
FaultActiveAny(a) ==
  /\ a \in asks /\ a.answer # None
  /\ asks' = asks \ {a}
  /\ store' = [store EXCEPT !.activeFaults = a.answer]
  /\ UNCHANGED <<pending, page, socket, closed, timer, timers, batchTimer, intervals, net, server, murky>>

\* The answer to faultActive, for the socket that asked.
FaultActive(a) ==
  /\ a \in asks /\ a.answer # None
  /\ asks' = asks \ {a}
  /\ store' = IF a.sock = socket THEN [store EXCEPT !.activeFaults = a.answer] ELSE store
  /\ UNCHANGED <<pending, page, socket, closed, timer, timers, batchTimer, intervals, net, server, murky>>

FaultActiveFails(a) ==
  /\ a \in asks /\ ~up
  /\ asks' = asks \ {a}
  /\ murky' = TRUE
  /\ UNCHANGED <<client, net, server>>

(***************************************************************************)
(* Pages.                                                                  *)
(***************************************************************************)
BootLive ==
  /\ page = "away"
  /\ page' = "live"
  /\ Connect
  /\ UNCHANGED <<store, pending, timer, timers, batchTimer, intervals, wire, greeted, asks, server, murky>>

BootReel ==
  /\ page = "away"
  /\ page' = "reel"
  /\ Disconnect([store EXCEPT !.reel = "reel"])
  /\ UNCHANGED <<wire, greeted, asks, server, murky>>

TeardownSim ==
  /\ page # "away"
  /\ page' = "away"
  /\ Disconnect([store EXCEPT !.reel = None])
  /\ UNCHANGED <<wire, greeted, asks, server, murky>>

(***************************************************************************)
(* The server and the network.                                             *)
(***************************************************************************)
Listening(s) == life[s] = "open" /\ s \in greeted
Room == Len(pending) < MaxWire /\ \A s \in Sockets : Len(wire[s]) < MaxWire
Tell(frame) == wire' = [s \in Sockets |-> IF Listening(s) THEN Append(wire[s], frame) ELSE wire[s]]

\* While a connection is being set up, until the first scenario frame has come and the question for the
\* count is answered, its count depends on who is faster.
SettingUp == \/ \E a \in asks : a.sock = socket
             \/ socket # None /\ life[socket] = "open" /\ (socket \notin greeted \/ store.connectScenarioPending)

FirstTick(s) ==
  /\ up /\ life[s] = "open" /\ s \notin greeted
  /\ greeted' = greeted \union {s}
  /\ wire' = [wire EXCEPT ![s] = <<ScenarioFrame>> \o log]
  /\ murky' = (murky \/ (s = socket /\ log # <<>>))
  /\ UNCHANGED <<client, life, asks, server>>

Inject ==
  /\ up /\ Room /\ faults < MaxFaults /\ Len(log) < MaxFaults
  /\ faults' = faults + 1 /\ log' = Append(log, Injected)
  /\ Tell(Injected)
  /\ murky' = (murky \/ SettingUp)
  /\ UNCHANGED <<client, life, greeted, asks, up>>

ClearAll ==
  /\ up /\ Room /\ faults > 0 /\ Len(log) < MaxFaults
  /\ faults' = 0 /\ log' = Append(log, Cleared)
  /\ Tell(Cleared)
  /\ murky' = (murky \/ SettingUp)
  /\ UNCHANGED <<client, life, greeted, asks, up>>

\* A reset, a launch or a reconfiguration: no faults, an empty bus, and a scenario frame to everyone.
NewRun ==
  /\ up /\ Room
  /\ faults' = 0 /\ log' = <<>>
  /\ Tell(ScenarioFrame)
  /\ murky' = (murky \/ SettingUp)
  /\ UNCHANGED <<client, life, greeted, asks, up>>

\* Other events push the oldest out of the ring's newest 200.
Forget ==
  /\ up /\ log # <<>>
  /\ log' = Tail(log)
  /\ UNCHANGED <<client, net, asks, up, faults, murky>>

Answer(a) ==
  /\ up /\ a \in asks /\ a.answer = None
  /\ asks' = (asks \ {a}) \union {[a EXCEPT !.answer = faults]}
  /\ UNCHANGED <<client, net, server, murky>>

\* The server or the network goes away, and with it every connection; it may come back.
GoDown ==
  /\ up
  /\ up' = FALSE
  /\ life' = [s \in Sockets |-> IF Holds(s) THEN "closing" ELSE life[s]]
  /\ UNCHANGED <<client, wire, greeted, asks, faults, log, murky>>

Refuse(s) ==
  /\ ~up /\ life[s] = "connecting"
  /\ life' = [life EXCEPT ![s] = "closing"]
  /\ UNCHANGED <<client, wire, greeted, asks, server, murky>>

ComeUp == ~up /\ up' = TRUE /\ UNCHANGED <<client, net, asks, faults, log, murky>>

Init ==
  /\ store = InitialStore /\ pending = <<>> /\ page = "away"
  /\ socket = None /\ life = [s \in Sockets |-> "unused"] /\ wire = [s \in Sockets |-> <<>>] /\ greeted = {}
  /\ closed = FALSE /\ timer = None /\ timers = {} /\ batchTimer = FALSE /\ intervals = 0
  /\ asks = {}
  /\ up = TRUE /\ faults = 0 /\ log = <<>>
  /\ murky = FALSE

Client == \/ \E s \in Sockets : OnOpen(s) \/ OnMessage(s) \/ OnClose(s)
          \/ \E t \in Timers : Reconnect(t)
          \/ BatchTick \/ \E a \in asks : FaultActive(a) \/ FaultActiveFails(a)
Pages == BootLive \/ BootReel \/ TeardownSim
Server == \/ \E s \in Sockets : FirstTick(s) \/ Refuse(s)
          \/ Inject \/ ClearAll \/ NewRun \/ Forget \/ GoDown \/ ComeUp
          \/ \E a \in asks : Answer(a)

Next == Client \/ Pages \/ Server

Spec == Init /\ [][Next]_vars

\* The browser runs the handlers and timeouts that are due; an attempt to connect and a request end, one
\* way or the other.
Due == \/ \E s \in Sockets : OnOpen(s) \/ OnClose(s) \/ Refuse(s)
       \/ \E t \in Timers : Reconnect(t)
       \/ \E a \in asks : Answer(a) \/ FaultActive(a) \/ FaultActiveFails(a)

FairSpec == Spec /\ WF_vars(Due)

(***************************************************************************)
(* Properties.                                                             *)
(***************************************************************************)
\* At most one socket at a time connects or is open (websocket.ts:55: "Single-socket invariant").  Away
\* from the live page nothing of the link is left: no socket, no timeout that would open one, no flush
\* that runs (actions.ts:225: "Reel: no socket, no API").
LinkOfThePage ==
  /\ Cardinality({s \in Sockets : Holds(s)}) <= (IF page = "live" THEN 1 ELSE 0)
  /\ page # "live" => timers = {} /\ intervals = 0 /\ ~store.connected

\* The pill says LIVE just when the current socket has opened and its close has not been heard of, and
\* events that wait for the flush have an interval that will flush them.
PillTellsTruth ==
  /\ store.connected => socket # None /\ life[socket] \in {"open", "closing"}
  /\ socket # None /\ life[socket] = "open" => store.connected
  /\ pending # <<>> => intervals > 0

\* When everything sent has arrived, the fault badge counts the server's faults, unless a fault came or
\* went, or was replayed, while the connection was being set up.
Quiet == /\ socket # None /\ life[socket] = "open" /\ socket \in greeted
         /\ wire[socket] = <<>> /\ pending = <<>>
         /\ \A a \in asks : a.sock # socket
CountWhenCalm == Quiet /\ ~murky => store.activeFaults = faults

\* What the top bar says of the server, the pill and the fault badge, is so.
LinkReadsTrue == PillTellsTruth /\ CountWhenCalm

\* With the page open and the server up for good, the link comes up and stays.
Reconnects == <>[](page = "live" /\ up) => <>[]store.connected

=============================================================================
