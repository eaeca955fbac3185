------------------------------- MODULE Services -------------------------------
(* Parts of the backend that share nothing with one another: the event bus with a *)
(* websocket client (EventStream), the stream manager (StreamManager), the DHT    *)
(* queries (DHTCoordinator) and the trace exporter (TraceExport).  A behaviour    *)
(* shows one of them; the others stay as they start.                              *)
EXTENDS EventStream, StreamManager, DHTCoordinator, TraceExport

VARIABLE service   \* the one looked at

serviceVars == <<service, vars, streamVars, queryVars, exportVars>>

ServiceInit ==
    /\ service \in {"events", "streams", "queries", "traces"}
    /\ Init /\ StreamInit /\ QueryInit /\ ExportInit
    /\ service # "traces" => scope.chosen = {}

EventStep == service = "events" /\ Next /\ UNCHANGED <<service, streamVars, queryVars, exportVars>>
StreamStep == service = "streams" /\ StreamNext /\ UNCHANGED <<service, vars, queryVars, exportVars>>
QueryStep == service = "queries" /\ QueryNext /\ UNCHANGED <<service, vars, streamVars, exportVars>>
TraceStep == service = "traces" /\ ExportNext /\ UNCHANGED <<service, vars, streamVars, queryVars>>

ServiceNext == EventStep \/ StreamStep \/ QueryStep \/ TraceStep

\* The reader's loop, an emit and a clear that have begun go on, and so does a query.
ServiceSpec ==
    /\ ServiceInit /\ [][ServiceNext]_serviceVars
    /\ WF_serviceVars(EventStep /\ Tick)
    /\ WF_serviceVars(EventStep /\ EmitCount)
    /\ WF_serviceVars(EventStep /\ ClearCount)
    /\ \A q \in Queries : WF_serviceVars(QueryStep /\ GoesOn(q))

\* Slots are given back: see StreamSlotsMatch and QuerySlotsMatch.
SlotsMatch == StreamSlotsMatch /\ QuerySlotsMatch
===============================================================================
