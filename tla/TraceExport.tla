----------------------------- MODULE TraceExport ------------------------------
(* The OTLP exporter (backend/otel/exporter.py).  Its sink builds spans on the    *)
(* trio thread and appends them to a bounded deque; a daemon thread flushes it    *)
(* in batches, and stop() once more on the thread that shuts down.  A run starts  *)
(* over on the asyncio thread, with ids that start over.                          *)
(*                                                                                *)
(* Of the spans are kept those of published and forwarded messages, with their    *)
(* number, the run they are of and the run that their parent is of; faults,       *)
(* phases and spam have spans without a parent and go the same way.  Threads may  *)
(* switch at a call, so between reading the deque's length and appending, and     *)
(* inside `spans_dropped += len(batch)`.                                          *)
EXTENDS Integers, Sequences, FiniteSets, SequencesExt

CONSTANTS QUEUE_MAX, BATCH_MAX,
          Messages,
          MaxSpans, MaxScopes  \* bounds

ASSUME ExportAssumption == {QUEUE_MAX, BATCH_MAX, MaxSpans, MaxScopes} \subseteq Nat \ {0}

Workers == {"loop", "stop"}

VARIABLES scope,      \* [run, published, roots, boost, chosen]: the engine's run and what sampling knows
          sink,       \* the span being appended, with the length that was read, or Nothing
          queue,
          flush,      \* [worker -> [at: "idle", "batches", "posts", "counts"; batch, read]]
          stopping,   \* stop() has been called
          counters,   \* spans_emitted and spans_dropped
          received,   \* history: what the collector took: [n, run, parent, label]
          built,      \* history: how many spans were built
          disturbed   \* history: a drop was counted wrongly

exportVars == <<scope, sink, queue, flush, stopping, counters, received, built, disturbed>>

Nothing == [none |-> TRUE]
NoRun == 0
Idle == [at |-> "idle", batch |-> <<>>, read |-> 0]

ExportInit ==
    /\ scope \in [run : {1}, published : {{}}, roots : {[m \in Messages |-> NoRun]}, boost : {FALSE},
                  chosen : SUBSET ((1..MaxScopes) \X Messages)]
    /\ sink = Nothing
    /\ queue = <<>>
    /\ flush = [w \in Workers |-> Idle]
    /\ stopping = FALSE
    /\ counters = [emitted |-> 0, dropped |-> 0]
    /\ received = <<>>
    /\ built = 0
    /\ disturbed = FALSE

-------------------------------------------------------------------------------
(* The sink, on the trio thread.                                                *)

\* The trace id hashes the run and the message; all of a run's are taken for a while after a phase.
Sampled(m) == scope.boost \/ <<scope.run, m>> \in scope.chosen

Builds(parent) ==
    /\ sink = Nothing
    /\ built < MaxSpans                                         \* bound
    /\ built' = built + 1
    /\ sink' = [n |-> built + 1, run |-> scope.run, parent |-> parent, len |-> Len(queue)]
    /\ UNCHANGED <<queue, flush, stopping, counters, received, disturbed>>

Published(m) ==
    /\ m \notin scope.published
    /\ scope' = [scope EXCEPT !.published = @ \union {m},
                              !.roots[m] = IF Sampled(m) THEN scope.run ELSE @]
    /\ IF Sampled(m) THEN Builds(NoRun)
       ELSE UNCHANGED <<sink, queue, flush, stopping, counters, received, built, disturbed>>

\* A forward's parent is what is remembered of its message.
Forwarded(m) ==
    /\ m \in scope.published /\ Sampled(m)
    /\ Builds(scope.roots[m])
    /\ UNCHANGED scope

PhaseFired ==
    /\ ~scope.boost
    /\ scope' = [scope EXCEPT !.boost = TRUE]
    /\ UNCHANGED <<sink, queue, flush, stopping, counters, received, built, disturbed>>

BoostOver ==
    /\ scope.boost
    /\ scope' = [scope EXCEPT !.boost = FALSE]
    /\ UNCHANGED <<sink, queue, flush, stopping, counters, received, built, disturbed>>

\* A full deque loses its oldest span.
Enqueued(q, s) == LET all == Append(q, s) IN IF Len(all) > QUEUE_MAX THEN Tail(all) ELSE all

SinkAppends ==
    /\ sink # Nothing
    /\ LET full == sink.len >= QUEUE_MAX
       IN  /\ counters' = [counters EXCEPT !.dropped = IF full THEN @ + 1 ELSE @]
           /\ disturbed' = \/ disturbed
                           \/ full # (Len(queue) = QUEUE_MAX)
                           \/ full /\ (\E w \in Workers : flush[w].at = "counts")
    /\ queue' = Enqueued(queue, [n |-> sink.n, run |-> sink.run, parent |-> sink.parent])
    /\ sink' = Nothing
    /\ UNCHANGED <<scope, flush, stopping, received, built>>

\* engine.new_run and on_new_run, on the asyncio thread; the messages' ids start over.
NewRunScope ==
    /\ scope.run < MaxScopes                                     \* bound
    /\ scope' = [scope EXCEPT !.run = @ + 1, !.published = {}, !.boost = FALSE]
    /\ UNCHANGED <<sink, queue, flush, stopping, counters, received, built, disturbed>>

-------------------------------------------------------------------------------
(* Flushes, on the daemon thread and the one that stops it.                     *)

Others == <<scope, sink, stopping, built>>

\* Slip: a flush that does not ask for the lock.
FlushUnlocked(w) ==
    /\ flush[w].at = "idle" /\ (stopping <=> w = "stop")
    /\ flush' = [flush EXCEPT ![w].at = "batches"]
    /\ UNCHANGED <<queue, counters, received, disturbed, Others>>

\* The loop starts none once it is told to stop; stop() waits for it, but not for ever.
FlushStarts(w) ==
    /\ flush[w].at = "idle" /\ (stopping <=> w = "stop")
    /\ \A v \in Workers : flush[v].at = "idle"
    /\ flush' = [flush EXCEPT ![w].at = "batches"]
    /\ UNCHANGED <<queue, counters, received, disturbed, Others>>

Ends(w) == flush' = [flush EXCEPT ![w] = Idle]

\* The payload is made with the run of the moment; it posts the oldest spans, or there are none.
TakesBatch(w) ==
    /\ flush[w].at = "batches"
    /\ LET n == IF Len(queue) < BATCH_MAX THEN Len(queue) ELSE BATCH_MAX
           Labelled(s) == [n |-> s.n, run |-> s.run, parent |-> s.parent, label |-> scope.run]
       IN  /\ queue' = SubSeq(queue, n + 1, Len(queue))
           /\ IF n = 0 THEN Ends(w)
              ELSE flush' = [flush EXCEPT ![w] =
                       [at |-> "posts", batch |-> [i \in 1..n |-> Labelled(queue[i])], read |-> 0]]
    /\ UNCHANGED <<counters, received, disturbed, Others>>

Accepted(w) ==
    /\ flush[w].at = "posts"
    /\ received' = received \o flush[w].batch
    /\ counters' = [counters EXCEPT !.emitted = @ + Len(flush[w].batch)]
    /\ flush' = [flush EXCEPT ![w] = [Idle EXCEPT !.at = "batches"]]
    /\ UNCHANGED <<queue, disturbed, Others>>

\* Put back in front, on a bounded deque: what does not fit falls off the other end.
Unlabelled(s) == [n |-> s.n, run |-> s.run, parent |-> s.parent]
PutBack(w) == [i \in DOMAIN flush[w].batch |-> Unlabelled(flush[w].batch[i])] \o queue

\* "Busy": a status of RETRY_STATUSES.
Postponed(w) ==
    /\ flush[w].at = "posts"
    /\ LET all == PutBack(w)
       IN  /\ queue' = SubSeq(all, 1, IF Len(all) < QUEUE_MAX THEN Len(all) ELSE QUEUE_MAX)
           /\ disturbed' = (disturbed \/ Len(all) > QUEUE_MAX)
    /\ Ends(w)
    /\ UNCHANGED <<counters, received, Others>>

\* The post raises, or is refused; spans_dropped is read, and written.
Refused(w) ==
    /\ flush[w].at = "posts"
    /\ flush' = [flush EXCEPT ![w].at = "counts", ![w].read = counters.dropped]
    /\ UNCHANGED <<queue, counters, received, disturbed, Others>>

CountsDrop(w) ==
    /\ flush[w].at = "counts"
    /\ counters' = [counters EXCEPT !.dropped = flush[w].read + Len(flush[w].batch)]
    /\ Ends(w)
    /\ UNCHANGED <<queue, received, disturbed, Others>>

StopCalled ==
    /\ ~stopping
    /\ stopping' = TRUE
    /\ UNCHANGED <<scope, sink, queue, flush, counters, received, built, disturbed>>

FlushStep(w) == FlushStarts(w) \/ TakesBatch(w) \/ Accepted(w) \/ Postponed(w) \/ Refused(w) \/ CountsDrop(w)

ExportNext ==
    \/ \E m \in Messages : Published(m) \/ Forwarded(m)
    \/ PhaseFired \/ BoostOver \/ SinkAppends \/ NewRunScope
    \/ \E w \in Workers : FlushStep(w)
    \/ StopCalled

-------------------------------------------------------------------------------
InHand == flush["loop"].batch \o flush["stop"].batch

Numbers(s) == [i \in DOMAIN s |-> s[i].n]

\* The collector gets each span at most once and in the order they were built, whatever is posted
\* again and whichever thread flushes; spans_emitted counts what it got.  As long as no drop was
\* counted wrongly (`disturbed` has the three ways), spans_dropped counts what was lost.
SpansAccounted ==
    LET all == Numbers(received) \o Numbers(InHand) \o Numbers(queue)
                 \o (IF sink = Nothing THEN <<>> ELSE <<sink.n>>)
    IN  /\ \A i, j \in DOMAIN all : i < j => all[i] < all[j]
        /\ counters.emitted = Len(received)
        /\ ~disturbed => counters.dropped = built - Len(all)

\* Not true of the code: every span that was lost is counted.
DropsCounted == sink = Nothing /\ (\A w \in Workers : flush[w].at = "idle") =>
    counters.dropped = built - Len(received) - Len(queue)

\* Not true of the code: a trace, and the resource it is posted with, are of one run ("so two runs
\* never share trace ids", engine.py:53).
TracesOfOneRun ==
    \A i \in DOMAIN received :
        /\ received[i].parent \in {NoRun, received[i].run}
        /\ received[i].label = received[i].run
===============================================================================
