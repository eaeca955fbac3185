---------------------------- MODULE StreamManager -----------------------------
(* The streams of backend/concurrency/stream_manager.py: open_stream is a context *)
(* manager that takes a slot, dials with a timeout, and closes the stream and     *)
(* gives the slot back however its body ends.  A task may be cancelled wherever   *)
(* it awaits; what stands between two awaits is one step.                         *)
EXTENDS Integers, FiniteSets, Slots

CONSTANTS Streams,      \* the calls of open_stream, each with its stream_id
          Dialled,      \* those of them that are given a dial_fn
          MAX_STREAMS

ASSUME StreamManagerAssumption ==
    MAX_STREAMS \in Nat \ {0} /\ IsFiniteSet(Streams) /\ Dialled \subseteq Streams

VARIABLES slots,   \* _sem
          open,    \* _open_streams
          stream,  \* where each call is: "out", "waits", "let_in", "dials", "body", "closes", "done"
          announced     \* history: the events of each call, in order

streamVars == <<slots, open, stream, announced>>

StreamInit ==
    /\ slots = Full(MAX_STREAMS)
    /\ open = {}
    /\ stream = [s \in Streams |-> "out"]
    /\ announced = [s \in Streams |-> <<>>]

Goes(s, at) == stream' = [stream EXCEPT ![s] = at]
Tells(s, events) == announced' = [announced EXCEPT ![s] = @ \o events]

\* The slot goes back, and the first in line wakes up with it.
Exits(s) ==
    /\ slots' = Release(slots)
    /\ stream' = [t \in Streams |-> IF t = s THEN "done"
                                    ELSE IF slots.line # <<>> /\ t = Head(slots.line) THEN "let_in"
                                    ELSE stream[t]]

\* No await between the look at the semaphore and the attempt to take a slot.
CallStream(s) ==
    /\ stream[s] = "out"
    /\ slots' = Acquire(slots, s)
    /\ Goes(s, IF NoneLeft(slots) THEN "waits" ELSE "let_in")
    /\ Tells(s, IF NoneLeft(slots) THEN <<"blocked">> ELSE <<>>)
    /\ UNCHANGED open

Opens(s) ==
    /\ open' = open \union {s}
    /\ Tells(s, <<"opened">>)
    /\ Goes(s, "body")
    /\ UNCHANGED slots

LetIn(s) ==
    /\ stream[s] = "let_in"
    /\ IF s \in Dialled THEN Goes(s, "dials") /\ UNCHANGED <<slots, open, announced>> ELSE Opens(s)

DialReturns(s) == stream[s] = "dials" /\ Opens(s)

\* Slip: a timeout leaves without the slot, as with acquire and release by hand.
DialTimesOutWithSlot(s) ==
    /\ stream[s] = "dials"
    /\ Tells(s, <<"timeout">>)
    /\ Goes(s, "done")
    /\ UNCHANGED <<slots, open>>

DialTimesOut(s) ==
    /\ stream[s] = "dials"
    /\ Tells(s, <<"timeout">>)
    /\ Exits(s)
    /\ UNCHANGED open

DialRaises(s) == stream[s] = "dials" /\ Exits(s) /\ UNCHANGED <<open, announced>>

\* The body ends or raises.  The record goes first; a dialled stream is then closed,
\* and whether that succeeds does not matter.
BodyEnds(s) ==
    /\ stream[s] = "body"
    /\ open' = open \ {s}
    /\ IF s \in Dialled
       THEN Goes(s, "closes") /\ UNCHANGED <<slots, announced>>
       ELSE Tells(s, <<"closed">>) /\ Exits(s)

CloseReturns(s) == stream[s] = "closes" /\ Tells(s, <<"closed">>) /\ Exits(s) /\ UNCHANGED open

\* Cancelled: before it is called, in line, while dialling, in the body (close is then called in a cancelled
\* scope, and raises at its first checkpoint) or in close.  A task that has been let in
\* is past the checkpoint of acquire; it learns of it at the next one.
CancelStream(s) ==
    \/ /\ stream[s] = "out"
       /\ Tells(s, IF NoneLeft(slots) THEN <<"blocked">> ELSE <<>>)
       /\ Goes(s, "done")
       /\ UNCHANGED <<slots, open>>
    \/ /\ stream[s] = "waits"
       /\ slots' = Leave(slots, s)
       /\ Goes(s, "done")
       /\ UNCHANGED <<open, announced>>
    \/ stream[s] \in {"dials", "closes"} /\ Exits(s) /\ UNCHANGED <<open, announced>>
    \/ /\ stream[s] = "body"
       /\ open' = open \ {s}
       /\ Tells(s, IF s \in Dialled THEN <<>> ELSE <<"closed">>)
       /\ Exits(s)

StreamNext ==
    \E s \in Streams :
        \/ CallStream(s) \/ LetIn(s)
        \/ DialReturns(s) \/ DialTimesOut(s) \/ DialRaises(s)
        \/ BodyEnds(s) \/ CloseReturns(s)
        \/ CancelStream(s)

-------------------------------------------------------------------------------
Inside == {s \in Streams : stream[s] \in {"let_in", "dials", "body", "closes"}}

\* What may be told of a call: that it was blocked, and then that its stream opened, and closed, or
\* that its dial timed out.
Accounts == {waited \o rest : waited \in {<<>>, <<"blocked">>},
                              rest \in {<<>>, <<"opened">>, <<"opened", "closed">>, <<"timeout">>}}

\* A slot is held by a call that was let in and has not left, whichever way it leaves; nobody waits
\* while one is left; the table holds the streams whose body runs; and what is closed was opened,
\* once ("streams never closed on failure path", stream_manager.py:3).
StreamSlotsMatch ==
    /\ slots.value + Cardinality(Inside) = MAX_STREAMS
    /\ Waiting(slots) = {s \in Streams : stream[s] = "waits"}
    /\ slots.line # <<>> => NoneLeft(slots)
    /\ open = {s \in Streams : stream[s] = "body"}
    /\ \A s \in Streams : announced[s] \in Accounts

\* Not true of the code (a body with a dialled stream is cancelled): "ALWAYS close" (stream_manager.py:125).
AlwaysClosed ==
    \A s \in Streams :
        stream[s] = "done" /\ "opened" \in ToSet(announced[s]) => "closed" \in ToSet(announced[s])
===============================================================================
