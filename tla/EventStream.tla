---------------------------- MODULE EventStream ----------------------------
(***************************************************************************)
(* The EventBus's ring and count, written by emit on the trio thread, and  *)
(* one client of websocket_events, which reads them on the asyncio thread  *)
(* twenty times a second.  The client works out what is new from the count *)
(* it read last time: the newest of the ring's events are its window.      *)
(*                                                                         *)
(* EventBus.clear runs on the asyncio thread like the reader, so it comes  *)
(* only where the reader awaits: between two ticks and between two sends.  *)
(* emit comes anywhere, also between the two lines of a clear and between  *)
(* any two looks of the reader at the bus; and it appends and counts in    *)
(* two steps, between which the reader may look.  The reader allows for an *)
(* event that comes in after its look at the count.  What its window is    *)
(* off by otherwise is its slip, of which slips is the sum.                *)
(*                                                                         *)
(* Events are numbered in the order in which they are appended.  Other     *)
(* frames than events and gaps are left out.  list(ring) is one C call     *)
(* under the interpreter's lock (events_since relies on that too), so the  *)
(* reader's `except RuntimeError` never runs and is left out.              *)
(***************************************************************************)
EXTENDS Integers, Sequences, FiniteSets

CONSTANTS
    RingSize,    \* LUMINAR_RING_SIZE
    Cap,         \* event_cap: events a client is sent per tick at most
    MaxEvents,   \* bound: events emitted
    MaxRuns,     \* bound: runs, one more than the clears
    MaxClients,  \* bound: connections, one at a time
    Burst        \* bound: events counted while a tick looks at the ring

ASSUME StreamAssumption ==
    /\ RingSize \in Nat \ {0} /\ Cap \in Nat \ {0}
    /\ MaxEvents \in Nat /\ MaxRuns \in Nat \ {0} /\ MaxClients \in Nat /\ Burst \in Nat \ {0}

VARIABLES
    ring,      \* _ring
    count,     \* _event_count
    appending, \* emit has appended an event and not counted it
    clearing,  \* clear has emptied the ring and not reset the count
    run,       \* which run this is
    emitted,   \* history: events appended, in all runs
    start,     \* history: those of them that were counted before this run
    swept,     \* history: those that were gone when the ring was last emptied
    client,    \* which connection this is
    last,      \* last_event_count
    tick,      \* where the reader is, and what it holds there
    got,       \* history: the events this client was sent
    told,      \* history: how many its gap frames gave as dropped, this run
    joined,    \* history: [run, at, slips] of its first look at a run, with last and slips as they were then
    slips      \* history: by how many events this client's windows were off

bus     == <<ring, count, appending, clearing, run, emitted, start, swept>>
reader  == <<client, last, tick>>
history == <<got, told, joined, slips>>
vars    == <<bus, reader, history>>

Rest == [at |-> "rest"]
Reading == tick.at \in {"counted", "copied"}

Larger(a, b) == IF a < b THEN b ELSE a
Smaller(a, b) == IF a < b THEN a ELSE b
Size(i) == IF i < 0 THEN -i ELSE i

----------------------------------------------------------------------------
(* EventBus, on the trio thread.                                            *)

\* A full ring loses its oldest event.
Appended ==
    LET all == Append(ring, emitted + 1)
    IN  IF Len(all) > RingSize THEN Tail(all) ELSE all

\* emit, in two pieces, as the threads may switch after the append.
EmitAppend ==
    /\ ~appending
    /\ emitted < MaxEvents                                        \* bound
    /\ Reading => count - tick.current < Burst                    \* bound
    /\ ring' = Appended
    /\ emitted' = emitted + 1
    /\ appending' = TRUE
    /\ UNCHANGED <<count, clearing, run, start, swept, reader, history>>

EmitCount ==
    /\ appending
    /\ appending' = FALSE
    /\ count' = count + 1
    /\ UNCHANGED <<ring, clearing, run, emitted, start, swept, reader, history>>

----------------------------------------------------------------------------
(* EventBus.clear, on the asyncio thread.                                   *)

ClearRing ==
    /\ ~Reading /\ ~clearing
    /\ run < MaxRuns                                              \* bound
    /\ clearing' = TRUE
    /\ ring' = <<>>
    /\ swept' = emitted
    /\ UNCHANGED <<count, appending, run, emitted, start, reader, history>>

ClearCount ==
    /\ clearing
    /\ clearing' = FALSE
    /\ count' = 0
    /\ run' = run + 1
    /\ start' = start + count
    /\ UNCHANGED <<ring, appending, emitted, swept, reader, history>>

----------------------------------------------------------------------------
(* The reader, on the asyncio thread.                                       *)

\* The count is read; one that is smaller than last time tells of a cleared bus.  A bus that was cleared
\* and has counted as many events again looks like one that was not.
ReadCount ==
    /\ tick = Rest /\ ~clearing
    /\ LET base == IF count < last THEN 0 ELSE last
       IN  /\ last' = base
           /\ tick' = IF count > base THEN [at |-> "counted", current |-> count] ELSE Rest
           /\ joined' = IF joined.run = run THEN joined ELSE [run |-> run, at |-> base, slips |-> slips]
           /\ told' = IF joined.run = run THEN told ELSE 0
    /\ UNCHANGED <<bus, client, got, slips>>

\* upTo is history: the newest event there was.
CopyRing ==
    /\ tick.at = "counted"
    /\ tick' = [at |-> "copied", current |-> tick.current, snapshot |-> ring, upTo |-> emitted]
    /\ UNCHANGED <<bus, client, last, history>>

\* s[from : to] of Python, where a negative index counts from the end.
Slice(s, from, to) == SubSeq(s, from + 1, IF to < 0 THEN Len(s) + to ELSE to)

\* How many events were counted since the count was read, by a second look at it.
Late == Larger(0, count - tick.current)

\* Slip: events that came in during the copy are taken for the window's.
WindowIgnoringLate ==
    LET end == Len(tick.snapshot)
    IN  Slice(tick.snapshot, Larger(0, end - Smaller(tick.current - last, Cap)), end)

\* What is new: the newest of the copy, without the late ones, and no more than Cap.
Window ==
    LET end == Len(tick.snapshot) - Late
    IN  Slice(tick.snapshot, Larger(0, end - Smaller(tick.current - last, Cap)), end)

\* The copy and the second look agree if every event that was appended before the copy, and no other,
\* is counted by then.  If more are late than were copied the slice wraps around.
Slipped ==
    IF Late > Len(tick.snapshot) THEN Late ELSE Size(tick.upTo - (start + count))

\* Slip: no gap frame is sent.
SelectSilently ==
    /\ tick.at = "copied"
    /\ tick' = [at |-> "sending", current |-> tick.current, batch |-> Window]
    /\ slips' = slips + Slipped
    /\ UNCHANGED <<bus, client, last, got, told, joined>>

\* A gap frame says how many of the new events the window leaves out.
SelectWindow ==
    /\ tick.at = "copied"
    /\ tick' = [at |-> "sending", current |-> tick.current, batch |-> Window]
    /\ told' = told + Larger(0, tick.current - last - Cap)
    /\ slips' = slips + Slipped
    /\ UNCHANGED <<bus, client, last, got, joined>>

SendNext ==
    /\ tick.at = "sending" /\ ~clearing
    /\ tick.batch # <<>>
    /\ got' = Append(got, Head(tick.batch))
    /\ tick' = [tick EXCEPT !.batch = Tail(@)]
    /\ UNCHANGED <<bus, client, last, told, joined, slips>>

\* Slip: the count is read anew after the sends.
EndTickAtCount ==
    /\ tick.at = "sending" /\ ~clearing
    /\ tick.batch = <<>>
    /\ last' = count
    /\ tick' = Rest
    /\ UNCHANGED <<bus, client, history>>

EndTick ==
    /\ tick.at = "sending" /\ ~clearing
    /\ tick.batch = <<>>
    /\ last' = tick.current
    /\ tick' = Rest
    /\ UNCHANGED <<bus, client, history>>

\* The client goes, wherever it is in a tick, and another one connects.
Reconnect ==
    /\ ~Reading /\ ~clearing
    /\ client < MaxClients                                        \* bound
    /\ client' = client + 1
    /\ last' = 0
    /\ tick' = Rest
    /\ got' = <<>>
    /\ told' = 0
    /\ joined' = [run |-> run, at |-> 0, slips |-> 0]
    /\ slips' = 0
    /\ UNCHANGED bus

----------------------------------------------------------------------------
Init ==
    /\ ring = <<>> /\ count = 0 /\ appending = FALSE /\ clearing = FALSE
    /\ run = 1 /\ emitted = 0 /\ start = 0 /\ swept = 0
    /\ client = 1 /\ last = 0 /\ tick = Rest
    /\ got = <<>> /\ told = 0 /\ joined = [run |-> 1, at |-> 0, slips |-> 0] /\ slips = 0

Emit == EmitAppend \/ EmitCount
Clear == ClearRing \/ ClearCount
Tick == ReadCount \/ CopyRing \/ SelectWindow \/ SendNext \/ EndTick

Next == Emit \/ Clear \/ Tick \/ Reconnect

Spec == Init /\ [][Next]_vars
\* The reader's loop, an emit and a clear that have begun go on; nobody has to emit.
FairSpec == Spec /\ WF_vars(Tick) /\ WF_vars(EmitCount) /\ WF_vars(ClearCount)

----------------------------------------------------------------------------
(* Properties.                                                              *)

Sent == {e \in 1 .. MaxEvents : \E i \in 1 .. Len(got) : got[i] = e}

\* A client is sent no event twice and none out of order, whatever is emitted and cleared between its
\* count, its copy and its sends; but as far as its windows were off, it goes back.
InOrder ==
    \A j \in 2 .. Len(got) : got[j - 1] < got[j] + slips

\* By how much a client may be wrong about a run: its windows' slips, and the event, if there is one,
\* that was appended before the clear and counted after it.
Wrong == (slips - joined.slips) + (IF swept > start THEN 1 ELSE 0)

\* After a tick every event of the run, up to the count that the tick has read, was sent or is among
\* those that gap frames gave as dropped, and those are never the newest.  A client that has missed the
\* clear takes as many as it had counted for events that it has.
Accounted ==
    tick = Rest /\ joined.run = run =>
        LET mine  == {n \in 1 .. last : start + n \in Sent}
            known == Cardinality(mine) + told + joined.at
        IN  /\ last - Wrong <= known /\ known <= last + Wrong
            /\ slips = joined.slips /\ last > joined.at /\ start + last > swept => start + last \in Sent

\* Wherever the threads switch, a client has the events in their order and knows how many it has not got,
\* up to what its windows were off by and what it missed with a clear: websocket_events, EventBus.
InOrderOrTold == InOrder /\ Accounted

\* The newest event reaches a client that stays, unless another one is emitted or the bus is cleared
\* first; or the client has missed the last clear, and the event is the one at which the new run's count
\* was what the client had counted of the old.
LatestArrives ==
    \A c \in 1 .. MaxClients, e \in 1 .. MaxEvents :
        (client = c /\ emitted = e)
            ~> \/ e \in Sent
               \/ client # c \/ emitted # e \/ e <= swept \/ e <= start
               \/ joined.run = run /\ e = start + joined.at

\* Neither of the following two is true of the code.

\* "Without this they are sent twice and the oldest of this window never": with it none are.
NoneTwice == \A j \in 2 .. Len(got) : got[j - 1] < got[j]

\* "Bus was cleared (reset / scenario launch) - resync": the client does so in the new run.
ClearsAreNoticed == joined.run = run => joined.at = 0

=============================================================================
