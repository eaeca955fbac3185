---------------------------- MODULE DHTCoordinator ----------------------------
(* The DHT queries of backend/concurrency/dht_coordinator.py: query_peer takes a  *)
(* slot and keeps it for all its attempts, each with a timeout, and for the pauses *)
(* between them.  A query may be cancelled wherever it awaits.                    *)
EXTENDS Integers, FiniteSets, Slots

CONSTANTS Queries,       \* the calls of query_peer, each with its query_id
          MAX_PARALLEL,
          MAX_RETRIES

ASSUME CoordinatorAssumption == {MAX_PARALLEL, MAX_RETRIES} \subseteq Nat \ {0} /\ IsFiniteSet(Queries)

VARIABLES places,   \* _sem
          active,   \* _active_queries
          query,    \* of each call: [at: "out", "waits", "let_in", "asks", "pauses", "done"; attempt]
          tidings   \* history: the events of each call, in order

queryVars == <<places, active, query, tidings>>

QueryInit ==
    /\ places = Full(MAX_PARALLEL)
    /\ active = {}
    /\ query = [q \in Queries |-> [at |-> "out", attempt |-> 0]]
    /\ tidings = [q \in Queries |-> <<>>]

Reports(q, events) == tidings' = [tidings EXCEPT ![q] = @ \o events]

\* The finally block, then the slot: the first in line wakes up with it.
Returns(q) ==
    /\ active' = active \ {q}
    /\ places' = Release(places)
    /\ query' = [r \in Queries |->
                    IF r = q THEN [query[r] EXCEPT !.at = "done"]
                    ELSE IF places.line # <<>> /\ r = Head(places.line) THEN [query[r] EXCEPT !.at = "let_in"]
                    ELSE query[r]]

CallQuery(q) ==
    /\ query[q].at = "out"
    /\ places' = Acquire(places, q)
    /\ query' = [query EXCEPT ![q].at = IF NoneLeft(places) THEN "waits" ELSE "let_in"]
    /\ Reports(q, IF NoneLeft(places) THEN <<"blocked">> ELSE <<>>)
    /\ UNCHANGED active

Starts(q) ==
    /\ query[q].at = "let_in"
    /\ active' = active \union {q}
    /\ Reports(q, <<"started">>)
    /\ query' = [query EXCEPT ![q] = [at |-> "asks", attempt |-> 1]]
    /\ UNCHANGED places

Answered(q) == query[q].at = "asks" /\ Reports(q, <<"completed">>) /\ Returns(q)

\* query_fn raises: the exception passes query_peer, and nothing is reported.
Raises(q) == query[q].at = "asks" /\ Returns(q) /\ UNCHANGED tidings

TimesOut(q) ==
    /\ query[q].at = "asks" /\ query[q].attempt < MAX_RETRIES
    /\ query' = [query EXCEPT ![q].at = "pauses"]
    /\ UNCHANGED <<places, active, tidings>>

Exhausted(q) ==
    /\ query[q].at = "asks" /\ query[q].attempt = MAX_RETRIES
    /\ Reports(q, <<"failed">>)
    /\ Returns(q)

\* Slip: an attempt that timed out is not counted.
AsksAnew(q) ==
    /\ query[q].at = "pauses"
    /\ query' = [query EXCEPT ![q].at = "asks"]
    /\ UNCHANGED <<places, active, tidings>>

AsksAgain(q) ==
    /\ query[q].at = "pauses"
    /\ query' = [query EXCEPT ![q] = [at |-> "asks", attempt |-> @.attempt + 1]]
    /\ UNCHANGED <<places, active, tidings>>

CancelQuery(q) ==
    \/ /\ query[q].at = "out"
       /\ Reports(q, IF NoneLeft(places) THEN <<"blocked">> ELSE <<>>)
       /\ query' = [query EXCEPT ![q].at = "done"]
       /\ UNCHANGED <<places, active>>
    \/ /\ query[q].at = "waits"
       /\ places' = Leave(places, q)
       /\ query' = [query EXCEPT ![q].at = "done"]
       /\ UNCHANGED <<active, tidings>>
    \/ query[q].at \in {"asks", "pauses"} /\ Returns(q) /\ UNCHANGED tidings

\* What a call does without anybody's help: timers fire, and who was let in runs.
GoesOn(q) == Starts(q) \/ TimesOut(q) \/ Exhausted(q) \/ AsksAgain(q)

QueryNext == \E q \in Queries : CallQuery(q) \/ Answered(q) \/ Raises(q) \/ GoesOn(q) \/ CancelQuery(q)

\* Every call is a trio task, which runs, and its timeouts and pauses end.
QueryFairness == \A q \in Queries : WF_queryVars(GoesOn(q))

\* The segments the interface draws for the coordinator: the busy ones and the free ones.
Segments == Cardinality(active) + places.value

-------------------------------------------------------------------------------
QueriesAt(stages) == {q \in Queries : query[q].at \in stages}

\* What may be told of a query: that it was blocked, and then that it started, and was answered or failed.
Tales == {waited \o rest : waited \in {<<>>, <<"blocked">>},
                           rest \in {<<>>, <<"started">>, <<"started", "completed">>, <<"started", "failed">>}}

\* A slot and an entry of the table are held by a query that was let in and has not left, however it
\* leaves, and nobody waits while one is left; a query is answered, or fails, at most once and after
\* it has started, and it has failed only when every attempt has timed out (dht_coordinator.py:4,65).
QuerySlotsMatch ==
    /\ places.value + Cardinality(QueriesAt({"let_in", "asks", "pauses"})) = MAX_PARALLEL
    /\ Waiting(places) = QueriesAt({"waits"})
    /\ places.line # <<>> => NoneLeft(places)
    /\ active = QueriesAt({"asks", "pauses"})
    /\ Segments = MAX_PARALLEL - Cardinality(QueriesAt({"let_in"}))
    /\ \A q \in Queries :
           /\ tidings[q] \in Tales
           /\ "failed" \in ToSet(tidings[q]) => query[q].attempt = MAX_RETRIES

\* Not true of the code (a query has its slot and is not in the table yet): "capacity is busy + free"
\* (StatsRail.tsx:245).
SegmentsAreTheCapacity == Segments = MAX_PARALLEL

\* A call ends, also when no query is ever answered and all slots are taken by such queries: "find_peer
\* hangs forever" was the bug (dht_coordinator.py:3).
QueriesEnd == \A q \in Queries : query[q].at # "out" ~> query[q].at = "done"
===============================================================================
