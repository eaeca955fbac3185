SPECIFICATION ServiceSpec
CONSTANTS
    RingSize = 4
    Cap = 2
    MaxEvents = 5
    MaxRuns = 2
    MaxClients = 2
    Burst = 2
    Streams = {s1, s2, s3}
    Dialled = {s1, s2}
    MAX_STREAMS = 2
    Queries = {q1, q2, q3}
    MAX_PARALLEL = 2
    MAX_RETRIES = 3
    QUEUE_MAX = 2
    BATCH_MAX = 2
    Messages = {m}
    MaxSpans = 3
    MaxScopes = 2
INVARIANTS
    InOrderOrTold
    SlotsMatch
    SpansAccounted
PROPERTIES
    LatestArrives
    QueriesEnd
\* Calls and spans have an end.
CHECK_DEADLOCK FALSE
