--------------------------- MODULE ServicesProofs ---------------------------
(***************************************************************************)
(* Proofs about the backend's services: first the event bus with its        *)
(* client, by itself (EventStream), then the trace exporter by itself       *)
(* (TraceExport), then the slots of the streams and queries, and the        *)
(* services next to one another (Services).  Last, proofs about the         *)
(* requests that control a run (RunControl).                                *)
(***************************************************************************)
EXTENDS Services, RunControl, FiniteSetTheorems, SequenceTheorems, TLAPS

----------------------------------------------------------------------------
(* The invariant.                                                           *)

Ticks ==
    [at : {"rest"}] \cup [at : {"counted"}, current : Nat]
        \cup [at : {"copied"}, current : Nat, snapshot : Seq(Nat), upTo : Nat]
        \cup [at : {"sending"}, current : Nat, batch : Seq(1 .. MaxEvents)]

StreamTypes ==
    /\ ring \in Seq(Nat) /\ Len(ring) <= RingSize
    /\ appending \in BOOLEAN /\ clearing \in BOOLEAN
    /\ count \in Nat /\ run \in Nat /\ emitted \in Nat /\ start \in Nat /\ swept \in Nat
    /\ last \in Nat /\ tick \in Ticks /\ (tick.at = "rest" => tick = Rest)
    /\ got \in Seq(1 .. MaxEvents) /\ told \in Nat /\ slips \in Nat
    /\ joined \in [run : Nat, at : Nat, slips : Nat]

Pending == IF appending THEN 1 ELSE 0

\* Every event that was appended has been counted, but for the one between the two.  Of those that went
\* with the last clear only that one can count in the new run.
BusInv ==
    /\ emitted <= MaxEvents /\ start + count + Pending = emitted
    /\ swept <= emitted /\ (~clearing => swept <= start + 1)
    /\ clearing => ~Reading

\* s holds the events up to upTo, all that came since the ring was last emptied or as many as it has
\* room for.
HoldsUpTo(s, upTo) ==
    /\ swept + Len(s) <= upTo /\ (swept + Len(s) = upTo \/ Len(s) = RingSize)
    /\ \A i \in 1 .. Len(s) : s[i] = upTo - Len(s) + i

ReadingInv ==
    /\ Reading => /\ joined.run = run /\ last < tick.current /\ tick.current <= count
                  /\ count + Pending - tick.current <= Burst
    /\ tick.at = "copied" => /\ HoldsUpTo(tick.snapshot, tick.upTo) /\ Len(tick.snapshot) <= RingSize
                             /\ start + tick.current <= tick.upTo /\ tick.upTo <= emitted

\* What the client will have got at the end of the tick, and up to which count it then knows its run.
Line == IF tick.at = "sending" THEN got \o tick.batch ELSE got
Upto == IF tick.at = "sending" THEN tick.current ELSE last

\* The events of this run that it will have then, by their number, of the first n.
Has(n) == {k \in 1 .. n : \E i \in 1 .. Len(Line) : Line[i] = start + k}

\* The ring has room for what a client is sent in a tick and what is emitted meanwhile.
Roomy == Cap + Burst <= RingSize

LineInv ==
    /\ \A i \in 1 .. Len(Line) :
           Line[i] <= emitted /\ Line[i] <= (IF joined.run = run THEN start + Upto ELSE start) + slips
    /\ clearing \/ joined.run # run => \A i \in 1 .. Len(Line) : Line[i] <= swept
    /\ \A j \in 2 .. Len(Line) : Line[j - 1] < Line[j] + slips

\* What it will have got, was told of, or takes for granted since a clear it missed, is what was counted,
\* as far as its windows were not off and no event of the run before is counted in this one.
AccountInv ==
    LET off == slips - joined.slips
    IN  /\ Upto <= Cardinality(Has(Upto)) + told + joined.at + off + (IF swept > start /\ Upto > 0 THEN 1 ELSE 0)
        /\ Cardinality(Has(MaxEvents)) + told + joined.at <= Upto + off + (IF swept > start THEN 1 ELSE 0)
        /\ off = 0 /\ Upto > joined.at /\ start + Upto > swept => Upto \in Has(Upto)

\* The client's first look at a run comes after the run's start, and what it knows then it keeps knowing.
JoinInv ==
    /\ joined.run <= run /\ joined.slips <= slips
    /\ joined.run = run => joined.at <= Upto /\ Upto <= count

EventInv ==
    /\ StreamTypes /\ BusInv /\ HoldsUpTo(ring, emitted) /\ ReadingInv
    /\ JoinInv /\ LineInv
    /\ Roomy /\ joined.run = run => AccountInv

----------------------------------------------------------------------------
(* The ring and the line.                                                   *)

LEMMA TickTypes ==
    ASSUME EventInv
    PROVE  /\ tick.at \in {"rest", "counted", "copied", "sending"}
           /\ tick.at # "rest" => tick.current \in Nat
           /\ tick.at = "copied" => tick.snapshot \in Seq(Nat) /\ tick.upTo \in Nat
           /\ tick.at = "sending" => tick.batch \in Seq(1 .. MaxEvents)
           /\ Line \in Seq(1 .. MaxEvents) /\ Len(Line) \in Nat /\ Upto \in Nat
           /\ \A i \in 1 .. Len(Line) : Line[i] \in 1 .. MaxEvents
<1>1. /\ tick.at \in {"rest", "counted", "copied", "sending"}
      /\ tick.at # "rest" => tick.current \in Nat
      /\ tick.at = "copied" => tick.snapshot \in Seq(Nat) /\ tick.upTo \in Nat
      /\ tick.at = "sending" => tick.batch \in Seq(1 .. MaxEvents)
    BY DEF EventInv, StreamTypes, Ticks
<1>2. got \in Seq(1 .. MaxEvents) /\ last \in Nat
    BY DEF EventInv, StreamTypes
<1>3. Line \in Seq(1 .. MaxEvents) /\ Upto \in Nat
    <2>1. CASE tick.at = "sending"
        BY <1>1, <1>2, <2>1, ConcatProperties DEF Line, Upto
    <2>2. CASE tick.at # "sending"
        BY <1>2, <2>2 DEF Line, Upto
    <2>3. QED
        BY <2>1, <2>2
<1>4. Len(Line) \in Nat /\ \A i \in 1 .. Len(Line) : Line[i] \in 1 .. MaxEvents
    BY <1>3, LenProperties, ElementOfSeq
<1>5. QED
    BY <1>1, <1>3, <1>4

LEMMA AppendedRing ==
    ASSUME EventInv, ring' = Appended, emitted' = emitted + 1, UNCHANGED swept
    PROVE  /\ ring' \in Seq(Nat) /\ Len(ring') <= RingSize
           /\ HoldsUpTo(ring, emitted)'
<1> DEFINE all == Append(ring, emitted + 1)
<1>1. /\ ring \in Seq(Nat) /\ Len(ring) \in Nat /\ Len(ring) <= RingSize /\ RingSize \in Nat \ {0}
      /\ emitted \in Nat /\ swept \in Nat /\ HoldsUpTo(ring, emitted)
    BY LenProperties, StreamAssumption DEF EventInv, StreamTypes
<1>2. ring' = IF Len(all) > RingSize THEN Tail(all) ELSE all
    BY DEF Appended
<1>3. /\ all \in Seq(Nat) /\ Len(all) = Len(ring) + 1 /\ all[Len(ring) + 1] = emitted + 1
      /\ \A i \in 1 .. Len(ring) : all[i] = ring[i]
    BY <1>1, AppendProperties
<1> HIDE DEF all
<1>4. \A i \in 1 .. Len(ring) + 1 : all[i] = emitted - Len(ring) + i
    <2> SUFFICES ASSUME NEW i \in 1 .. Len(ring) + 1 PROVE all[i] = emitted - Len(ring) + i
        OBVIOUS
    <2>1. CASE i = Len(ring) + 1
        BY <1>1, <1>3, <2>1
    <2>2. CASE i \in 1 .. Len(ring)
        BY <1>1, <1>3, <2>2 DEF HoldsUpTo
    <2>3. QED
        BY <1>1, <2>1, <2>2
<1>5. CASE Len(all) > RingSize
    <2>1. ring' = Tail(all) /\ all # <<>> /\ Len(ring) = RingSize
        BY <1>1, <1>2, <1>3, <1>5
    <2>2. /\ ring' \in Seq(Nat) /\ Len(ring') = Len(ring)
          /\ \A i \in 1 .. Len(ring') : ring'[i] = all[i + 1]
        BY <1>1, <1>3, <2>1, HeadTailProperties
    <2>3. \A i \in 1 .. Len(ring') : ring'[i] = emitted + 1 - Len(ring') + i
        BY <1>1, <1>4, <2>2
    <2>4. QED
        BY <1>1, <2>1, <2>2, <2>3 DEF HoldsUpTo
<1>6. CASE ~(Len(all) > RingSize)
    <2>1. ring' = all /\ Len(all) \in Nat /\ Len(ring) = Len(all) - 1
        BY <1>1, <1>2, <1>3, <1>6
    <2>2. \A i \in 1 .. Len(all) : all[i] = emitted + 1 - Len(all) + i
        BY <1>1, <1>4, <2>1
    <2>3. Len(all) <= RingSize /\ swept + Len(all) <= emitted + 1
          /\ (swept + Len(all) = emitted + 1 \/ Len(all) = RingSize)
        BY <1>1, <1>6, <2>1 DEF HoldsUpTo
    <2>4. /\ swept' + Len(ring') <= emitted' /\ (swept' + Len(ring') = emitted' \/ Len(ring') = RingSize)
          /\ ring' \in Seq(Nat) /\ emitted' \in Nat /\ Len(ring') \in Nat
        BY <1>1, <1>3, <2>1, <2>3
    <2>5. ASSUME NEW i \in 1 .. Len(ring') PROVE ring'[i] = emitted' - Len(ring') + i
        BY <1>1, <2>1, <2>2
    <2>6. HoldsUpTo(ring, emitted)'
        BY <2>4, <2>5 DEF HoldsUpTo
    <2>7. QED
        BY <1>3, <2>1, <2>3, <2>6
<1>7. QED
    BY <1>5, <1>6

\* What is sent moves from the batch to what the client has: the line stays.
LEMMA SentFromBatch ==
    ASSUME NEW S, NEW s \in Seq(S), NEW b \in Seq(S), b # <<>>
    PROVE  Append(s, Head(b)) \o Tail(b) = s \o b
<1>1. /\ Head(b) \in S /\ Tail(b) \in Seq(S) /\ <<Head(b)>> \in Seq(S)
      /\ Len(b) \in Nat \ {0} /\ Head(b) = b[1]
    BY HeadTailProperties, EmptySeq
<1>2. Append(s, Head(b)) = s \o <<Head(b)>>
    BY <1>1, AppendIsConcat
<1>3. (s \o <<Head(b)>>) \o Tail(b) = s \o (<<Head(b)>> \o Tail(b))
    BY <1>1, ConcatAssociative
<1>4. <<Head(b)>> \o Tail(b) = b
    <2>1. 1 \in 1 .. Len(b) /\ Len(b) \in 1 .. Len(b)
        BY <1>1
    <2>2. SubSeq(b, 1, Len(b)) = <<b[1]>> \o SubSeq(b, 1 + 1, Len(b))
        BY <2>1, SubSeqRecursiveFirst
    <2>3. SubSeq(b, 1, Len(b)) = b /\ Tail(b) = SubSeq(b, 2, Len(b)) /\ 1 + 1 = 2
        BY SubSeqFull, TailIsSubSeq
    <2>4. QED
        BY <1>1, <2>2, <2>3
<1>5. QED
    BY <1>2, <1>3, <1>4

----------------------------------------------------------------------------
(* The window.                                                              *)

\* What the reader takes for the events since last: a block that is at most Slipped away from where they are.
Block(w, lo) == w \in Seq(1 .. MaxEvents) /\ lo \in Nat /\ \A i \in 1 .. Len(w) : w[i] = lo + i

\* One of the new events is in the block, or of those it is off by, or went with the last clear.
Covered(n, lo, k) ==
    \/ start + n \in lo + 1 .. lo + k
    \/ last = 0 /\ n = 1 /\ swept > start

LEMMA SeqOverSubset ==
    ASSUME NEW S, NEW T, NEW s \in Seq(S), \A i \in 1 .. Len(s) : s[i] \in T
    PROVE  s \in Seq(T)
<1>1. Len(s) \in Nat /\ s \in [1 .. Len(s) -> S]
    BY LenProperties
<1>2. s \in [1 .. Len(s) -> T]
    BY <1>1
<1>3. QED
    BY <1>1, <1>2, SeqDef

\* What is known of a window that is the block from lo.
WindowAt(lo) ==
    LET w == Smaller(tick.current - last, Cap)
        k == Len(Window)
    IN  /\ Block(Window, lo) /\ lo + k <= emitted /\ k <= w + Slipped /\ Slipped \in Nat
        /\ k > 0 => start + last < lo + 1 + Slipped /\ lo + k <= start + tick.current + Slipped
        /\ Roomy => /\ \E a \in Int : \A n \in tick.current - w + 1 .. tick.current :
                            n \in a + 1 .. a + Slipped \/ Covered(n, lo, k)
                    /\ Slipped = 0 /\ start + tick.current > swept => Covered(tick.current, lo, k)

LEMMA WindowIs ==
    ASSUME EventInv, tick.at = "copied"
    PROVE  \E lo \in Nat : WindowAt(lo)
<1> DEFINE current == tick.current
           snapshot == tick.snapshot
           upTo == tick.upTo
           m == Len(snapshot)
           late == count - current
           end == m - late
           w == Smaller(current - last, Cap)
           from == Larger(0, end - w)
           to == IF end < 0 THEN m + end ELSE end
           s == upTo - (start + count)
           k == Len(Window)
           S == Slipped
<1>1. /\ current \in Nat /\ last \in Nat /\ emitted \in Nat /\ count \in Nat /\ start \in Nat /\ swept \in Nat
      /\ upTo \in Nat /\ m \in Nat /\ snapshot \in Seq(Nat)
      /\ Cap \in Nat \ {0} /\ RingSize \in Nat \ {0} /\ Burst \in Nat \ {0} /\ MaxEvents \in Nat
    BY TickTypes, LenProperties, StreamAssumption DEF EventInv, StreamTypes
<1>2. /\ last < current /\ current <= count /\ count - current <= Burst
      /\ start + current <= upTo /\ upTo <= emitted /\ m <= RingSize
      /\ emitted <= MaxEvents /\ emitted <= start + count + 1 /\ swept <= start + 1
      /\ swept + m <= upTo /\ (swept + m = upTo \/ m = RingSize)
      /\ \A i \in 1 .. m : snapshot[i] = upTo - m + i
    <2>1. Reading /\ ~clearing /\ Pending \in {0, 1}
        BY DEF Reading, EventInv, BusInv, Pending
    <2>2. /\ last < current /\ current <= count /\ count + Pending - current <= Burst
          /\ start + current <= upTo /\ upTo <= emitted /\ m <= RingSize /\ HoldsUpTo(snapshot, upTo)
        BY <2>1 DEF EventInv, ReadingInv
    <2>3. emitted <= MaxEvents /\ start + count + Pending = emitted /\ swept <= start + 1
        BY <2>1 DEF EventInv, BusInv
    <2>4. /\ swept + m <= upTo /\ (swept + m = upTo \/ m = RingSize)
          /\ \A i \in 1 .. m : snapshot[i] = upTo - m + i
        BY <2>2 DEF HoldsUpTo
    <2>5. count - current <= Burst /\ emitted <= start + count + 1
        BY <1>1, <2>1, <2>2, <2>3
    <2>6. QED
        BY <2>2, <2>3, <2>4, <2>5
<1> HIDE DEF snapshot, m, upTo
<1>3. Late = late /\ late \in Nat
    BY <1>1, <1>2 DEF Late, Larger
<1>4. w \in Nat \ {0} /\ w <= current - last /\ w <= Cap
    BY <1>1, <1>2 DEF Smaller
<1>5. Window = SubSeq(snapshot, from + 1, to)
    BY <1>3 DEF Window, Slice, m, snapshot
<1>6. S = IF late > m THEN late ELSE Size(s)
    BY <1>3 DEF Slipped, m, snapshot, upTo
<1> HIDE DEF current
<1>7. s \in Int /\ s <= 1 /\ 0 <= s + late /\ end \in Int
    BY <1>1, <1>2
<1>8. from \in Nat /\ from = IF 0 < end - w THEN end - w ELSE 0
    BY <1>4, <1>7 DEF Larger
<1>9. to \in Int /\ to <= m /\ (to = IF end < 0 THEN m + end ELSE end)
    BY <1>1, <1>3, <1>7
<1> HIDE DEF w, from, to, k, S
<1> DEFINE lo == upTo - m + from
<1>10. \A i \in from + 1 .. to : snapshot[i] \in Nat /\ snapshot[i] = upTo - m + i
    <2>1. \A i \in from + 1 .. to : i \in 1 .. m
        BY <1>1, <1>8, <1>9
    <2>2. QED
        BY <1>1, <1>2, <2>1, ElementOfSeq
<1>11. /\ k = (IF from + 1 <= to THEN to - from ELSE 0)
       /\ \A i \in 1 .. k : Window[i] = lo + i
    <2>1. /\ Len(Window) = IF from + 1 <= to THEN to - (from + 1) + 1 ELSE 0
          /\ \A i \in 1 .. to - (from + 1) + 1 : Window[i] = snapshot[from + 1 + i - 1]
        BY <1>5, <1>8, <1>9, <1>10, SubSeqProperties
    <2>2. k = (IF from + 1 <= to THEN to - from ELSE 0)
        BY <1>8, <1>9, <2>1 DEF k
    <2>3. ASSUME NEW i \in 1 .. k PROVE Window[i] = lo + i
        <3>1. from + i \in from + 1 .. to /\ from + 1 + i - 1 = from + i /\ i \in 1 .. to - (from + 1) + 1
            BY <1>8, <1>9, <2>2
        <3>2. Window[i] = snapshot[from + i] /\ snapshot[from + i] = upTo - m + (from + i)
            BY <1>10, <2>1, <3>1
        <3>3. QED
            BY <1>1, <1>8, <3>1, <3>2
    <2>4. QED
        BY <2>2, <2>3
<1>12. lo \in Nat /\ k \in Nat /\ lo + k <= emitted
    <2>1. lo \in Nat
        BY <1>1, <1>2, <1>8
    <2>2. k \in Nat /\ (k = 0 \/ k = to - from)
        BY <1>8, <1>9, <1>11
    <2>3. k = 0 => lo + k <= emitted
        BY <1>1, <1>2, <1>4, <1>7, <1>8
    <2>4. k > 0 => lo + k <= emitted
        BY <1>1, <1>2, <1>8, <1>9, <1>11, <2>2
    <2>5. QED
        BY <2>1, <2>2, <2>3, <2>4
<1> HIDE DEF lo
<1>13. Block(Window, lo)
    <2>1. \A i \in 1 .. k : Window[i] \in 1 .. MaxEvents
        BY <1>1, <1>2, <1>11, <1>12
    <2>2. Window \in Seq(Nat)
        BY <1>5, <1>8, <1>9, <1>10, SubSeqProperties
    <2>3. Window \in Seq(1 .. MaxEvents)
        BY <2>1, <2>2, SeqOverSubset DEF k
    <2>4. QED
        BY <1>11, <1>12, <2>3 DEF Block, k
<1>14. CASE late > m
    <2>1. S = late /\ end < 0 /\ from = 0 /\ to = m + end /\ S \in Nat \ {0}
        BY <1>1, <1>3, <1>4, <1>6, <1>7, <1>8, <1>9, <1>14
    <2>2. lo = upTo - m /\ k < late /\ k <= m /\ k <= w + S /\ (k > 0 => k < m)
        <3>1. lo = upTo - m
            BY <1>1, <2>1 DEF lo
        <3>2. k = 0 \/ k = m + end
            BY <1>11, <2>1
        <3>3. k < late /\ k <= m /\ (k > 0 => k < m)
            BY <1>1, <1>3, <1>14, <2>1, <3>2
        <3>4. QED
            BY <1>3, <1>4, <1>12, <2>1, <3>1, <3>3
    <2>3. start + last < lo + 1 + S
        BY <1>1, <1>2, <1>14, <2>1, <2>2
    <2>4. k > 0 => lo + k <= start + current + S
        BY <1>1, <1>2, <1>12, <1>14, <2>1, <2>2
    <2>5. ASSUME Roomy
          PROVE  \A n \in current - w + 1 .. current : n \in current - w + 1 .. current - w + S
        <3>1. m < RingSize
            BY <1>1, <1>2, <1>14, <2>5 DEF Roomy
        <3>2. current <= S /\ w <= S
            BY <1>1, <1>2, <1>4, <1>14, <2>1, <3>1
        <3>3. QED
            BY <1>1, <1>4, <2>1, <3>2
    <2>6. current - w \in Int
        BY <1>1, <1>4
    <2>7. S \in Nat /\ (Roomy /\ S = 0 /\ start + current > swept => Covered(current, lo, k))
        BY <2>1
    <2>8. Roomy => \E a \in Int : \A n \in current - w + 1 .. current :
                       n \in a + 1 .. a + S \/ Covered(n, lo, k)
        BY <2>5, <2>6
    <2>9. WindowAt(lo)
        BY <1>12, <1>13, <2>2, <2>3, <2>4, <2>7, <2>8 DEF w, k, S, current, WindowAt
    <2>10. QED
        BY <1>12, <2>9
<1>15. CASE ~(late > m)
    <2>1. end \in Nat /\ to = end /\ S = Size(s)
        BY <1>1, <1>3, <1>6, <1>7, <1>9, <1>15
    <2>2. S \in Nat /\ s <= S /\ -S <= s /\ (s >= 0 => S = s) /\ (s < 0 => S = -s)
        BY <1>7, <2>1 DEF Size
    <2>3. k = end - from /\ k <= w
        BY <1>4, <1>8, <1>11, <2>1
    <2>4. lo + k = start + current + s
        BY <1>1, <1>3, <1>7, <1>8, <1>12, <2>3 DEF lo
    <2>5. /\ start + last < lo + 1 + S /\ lo + k <= start + current + S
          /\ k <= w + S
        BY <1>1, <1>2, <1>4, <1>12, <2>2, <2>3, <2>4
    <2>6. CASE w <= end
        <3>1. k = w
            BY <1>4, <1>8, <2>1, <2>3, <2>6
        <3> DEFINE a == IF s >= 0 THEN current - w ELSE current + s
        <3>2. ASSUME NEW n \in current - w + 1 .. current
              PROVE  n \in a + 1 .. a + S \/ start + n \in lo + 1 .. lo + k
            BY <1>1, <1>4, <1>7, <1>12, <2>2, <2>4, <3>1
        <3>3. a \in Int
            BY <1>1, <1>4, <1>7
        <3>4. S = 0 => start + current \in lo + 1 .. lo + k
            BY <1>1, <1>4, <1>7, <1>12, <2>2, <2>4, <3>1
        <3> HIDE DEF a
        <3>5. Roomy => \E b \in Int : \A n \in current - w + 1 .. current :
                           n \in b + 1 .. b + S \/ Covered(n, lo, k)
            BY <3>2, <3>3 DEF Covered
        <3>6. Roomy /\ S = 0 /\ start + current > swept => Covered(current, lo, k)
            BY <3>4 DEF Covered
        <3>7. WindowAt(lo)
            BY <1>12, <1>13, <2>2, <2>5, <3>5, <3>6 DEF w, k, S, current, WindowAt
        <3>8. QED
            BY <1>12, <3>7
    <2>7. CASE end < w
        <3>1. from = 0 /\ lo = upTo - m
            BY <1>1, <1>4, <1>8, <2>1, <2>7 DEF lo
        <3> DEFINE a == IF s >= 0 THEN current - w ELSE current + s
        <3>2. ASSUME Roomy PROVE lo = swept
            BY <1>1, <1>2, <1>4, <2>7, <3>1, <3>2 DEF Roomy
        <3>3. ASSUME Roomy, NEW n \in current - w + 1 .. current
              PROVE  n \in a + 1 .. a + S \/ Covered(n, lo, k)
            <4>1. n >= last + 1 /\ n \in Nat /\ start + n >= start + 1
                BY <1>1, <1>4
            <4>2. CASE start + n = swept
                BY <1>1, <1>2, <4>1, <4>2 DEF Covered
            <4>3. CASE start + n > swept
                <5>1. start + n <= lo + k => start + n \in lo + 1 .. lo + k
                    BY <1>1, <1>12, <3>2, <3>3, <4>1, <4>3
                <5>2. start + n > lo + k => n \in a + 1 .. a + S
                    BY <1>1, <1>4, <1>7, <1>12, <2>2, <2>4, <4>1
                <5>3. QED
                    BY <1>1, <1>12, <4>1, <5>1, <5>2 DEF Covered
            <4>4. QED
                BY <1>1, <1>2, <4>1, <4>2, <4>3
        <3>4. a \in Int
            BY <1>1, <1>4, <1>7
        <3>5. Roomy /\ S = 0 /\ start + current > swept => start + current \in lo + 1 .. lo + k
            BY <1>1, <1>7, <1>12, <2>2, <2>4, <3>2
        <3> HIDE DEF a
        <3>6. Roomy => \E b \in Int : \A n \in current - w + 1 .. current :
                           n \in b + 1 .. b + S \/ Covered(n, lo, k)
            BY <3>3, <3>4
        <3>7. Roomy /\ S = 0 /\ start + current > swept => Covered(current, lo, k)
            BY <3>5 DEF Covered
        <3>8. WindowAt(lo)
            BY <1>12, <1>13, <2>2, <2>5, <3>6, <3>7 DEF w, k, S, current, WindowAt
        <3>9. QED
            BY <1>12, <3>8
    <2>8. QED
        BY <1>4, <2>1, <2>6, <2>7
<1>16. QED
    BY <1>1, <1>3, <1>14, <1>15
----------------------------------------------------------------------------
(* What the client has.                                                     *)

LEMMA HasIsFinite ==
    ASSUME NEW n \in Nat
    PROVE  IsFiniteSet(Has(n)) /\ Cardinality(Has(n)) \in Nat
<1>1. IsFiniteSet(1 .. n)
    BY FS_Interval
<1>2. IsFiniteSet(Has(n))
    BY <1>1, FS_Subset DEF Has
<1>3. QED
    BY <1>2, FS_CardinalityType

LEMMA EventNumbers ==
    ASSUME EventInv
    PROVE  /\ count \in Nat /\ run \in Nat /\ emitted \in Nat /\ start \in Nat /\ swept \in Nat
           /\ last \in Nat /\ told \in Nat /\ slips \in Nat /\ Upto \in Nat
           /\ joined.run \in Nat /\ joined.at \in Nat /\ joined.slips \in Nat
           /\ RingSize \in Nat \ {0} /\ Cap \in Nat \ {0} /\ MaxEvents \in Nat /\ Burst \in Nat \ {0}
BY TickTypes, StreamAssumption DEF EventInv, StreamTypes

\* As long as neither the line nor the run changes, and no more is cleared than was counted, what is known
\* of the line stays.
LEMMA SameLine ==
    ASSUME EventInv, UNCHANGED <<Line, Upto, start, run, joined, slips, told>>,
           emitted' \in Nat, emitted <= emitted', count' \in Nat, count <= count', clearing' => clearing, UNCHANGED swept
    PROVE  /\ JoinInv' /\ LineInv'
           /\ (Roomy /\ joined.run = run => AccountInv)'
<1>0. /\ count \in Nat /\ run \in Nat /\ emitted \in Nat /\ start \in Nat /\ swept \in Nat
      /\ last \in Nat /\ told \in Nat /\ slips \in Nat /\ Upto \in Nat
      /\ joined.run \in Nat /\ joined.at \in Nat /\ joined.slips \in Nat
      /\ RingSize \in Nat \ {0} /\ Cap \in Nat \ {0} /\ MaxEvents \in Nat /\ Burst \in Nat \ {0}
    BY EventNumbers
<1>1. JoinInv /\ LineInv /\ (Roomy /\ joined.run = run => AccountInv)
    BY DEF EventInv
<1>2. JoinInv'
    BY <1>1, <1>0 DEF JoinInv
<1>3. LineInv'
    <2>1. /\ \A i \in 1 .. Len(Line) :
                 Line[i] <= emitted /\ Line[i] <= (IF joined.run = run THEN start + Upto ELSE start) + slips
          /\ clearing \/ joined.run # run => \A i \in 1 .. Len(Line) : Line[i] <= swept
          /\ \A j \in 2 .. Len(Line) : Line[j - 1] < Line[j] + slips
        BY <1>1 DEF LineInv
    <2>2. \A i \in 1 .. Len(Line) : Line[i] \in Nat
        BY TickTypes
    <2>3. \A i \in 1 .. Len(Line) : Line[i] <= emitted'
        BY <2>1, <2>2, <1>0
    <2>4. QED
        BY <2>1, <2>3 DEF LineInv
<1>4. Has(Upto)' = Has(Upto) /\ Has(MaxEvents)' = Has(MaxEvents)
    BY DEF Has
<1>5. (Roomy /\ joined.run = run => AccountInv)'
    BY <1>1, <1>4 DEF AccountInv, Roomy
<1>6. QED
    BY <1>2, <1>3, <1>5

----------------------------------------------------------------------------
(* The steps.                                                               *)

LEMMA EventInitInv == Init => EventInv
<1> SUFFICES ASSUME Init PROVE EventInv
    OBVIOUS
<1>1. /\ ring = <<>> /\ count = 0 /\ appending = FALSE /\ clearing = FALSE
      /\ run = 1 /\ emitted = 0 /\ start = 0 /\ swept = 0 /\ last = 0 /\ tick = [at |-> "rest"]
      /\ got = <<>> /\ told = 0 /\ joined = [run |-> 1, at |-> 0, slips |-> 0] /\ slips = 0
    BY DEF Init, Rest
<1>2. Line = <<>> /\ Upto = 0 /\ Has(Upto) = {} /\ Has(MaxEvents) = {} /\ Cardinality({}) = 0
    BY <1>1, FS_EmptySet DEF Line, Upto, Has
<1>3. StreamTypes
    <2>1. tick \in Ticks
        BY <1>1 DEF Ticks
    <2>2. <<>> \in Seq(Nat) /\ <<>> \in Seq(1 .. MaxEvents) /\ Len(<<>>) = 0
        BY EmptySeq
    <2>3. joined \in [run : Nat, at : Nat, slips : Nat]
        BY <1>1
    <2>4. /\ ring \in Seq(Nat) /\ Len(ring) <= RingSize /\ got \in Seq(1 .. MaxEvents)
          /\ count \in Nat /\ run \in Nat /\ emitted \in Nat /\ start \in Nat /\ swept \in Nat
          /\ last \in Nat /\ told \in Nat /\ slips \in Nat
        BY <1>1, <2>2, StreamAssumption
    <2>5. appending \in BOOLEAN /\ clearing \in BOOLEAN /\ tick = Rest
        BY <1>1 DEF Rest
    <2>6. QED
        BY <2>1, <2>3, <2>4, <2>5 DEF StreamTypes
<1>4. BusInv /\ ReadingInv /\ HoldsUpTo(ring, emitted)
    BY <1>1, StreamAssumption DEF BusInv, ReadingInv, Reading, HoldsUpTo, Pending
<1>5. Len(Line) = 0 /\ joined.run = 1 /\ joined.at = 0 /\ joined.slips = 0
    BY <1>1, <1>2
<1>6. JoinInv /\ LineInv
    BY <1>1, <1>2, <1>5 DEF JoinInv, LineInv
<1>7. AccountInv
    <2>1. Cardinality(Has(Upto)) = 0 /\ Cardinality(Has(MaxEvents)) = 0
        BY <1>2
    <2>2. QED
        BY <1>1, <1>2, <1>5, <2>1 DEF AccountInv
<1>8. QED
    BY <1>3, <1>4, <1>6, <1>7 DEF EventInv

LEMMA EmitAppendInv ==
    ASSUME EventInv, EmitAppend
    PROVE  EventInv'
<1>0. /\ count \in Nat /\ run \in Nat /\ emitted \in Nat /\ start \in Nat /\ swept \in Nat
      /\ last \in Nat /\ told \in Nat /\ slips \in Nat /\ Upto \in Nat
      /\ joined.run \in Nat /\ joined.at \in Nat /\ joined.slips \in Nat
      /\ RingSize \in Nat \ {0} /\ Cap \in Nat \ {0} /\ MaxEvents \in Nat /\ Burst \in Nat \ {0}
    BY EventNumbers
<1>1. /\ ~appending /\ emitted < MaxEvents /\ (Reading => count - tick.current < Burst)
      /\ ring' = Appended /\ emitted' = emitted + 1 /\ appending' = TRUE
      /\ UNCHANGED <<count, clearing, run, start, swept, client, last, tick, got, told, joined, slips>>
    BY DEF EmitAppend, reader, history
<1>2. ring' \in Seq(Nat) /\ Len(ring') <= RingSize /\ HoldsUpTo(ring, emitted)'
    BY <1>1, AppendedRing
<1>3. StreamTypes'
    BY <1>1, <1>2 DEF EventInv, StreamTypes, Rest
<1>4. BusInv'
    BY <1>1, <1>0 DEF EventInv, BusInv, Pending, Reading
<1>5. ReadingInv'
    <2>1. Reading => /\ joined.run = run /\ last < tick.current /\ tick.current <= count
                     /\ tick.current \in Nat
        BY TickTypes DEF EventInv, ReadingInv, Reading
    <2>2. Reading => count + 1 - tick.current <= Burst
        BY <1>1, <2>1, <1>0
    <2>3. tick.at = "copied" => /\ HoldsUpTo(tick.snapshot, tick.upTo)' /\ Len(tick.snapshot) <= RingSize
                                /\ start + tick.current <= tick.upTo /\ tick.upTo <= emitted /\ tick.upTo \in Nat
        BY <1>1, TickTypes DEF EventInv, ReadingInv, HoldsUpTo
    <2>4. QED
        BY <1>1, <2>1, <2>2, <2>3, <1>0 DEF ReadingInv, Reading, Pending
<1>6. UNCHANGED <<Line, Upto>> /\ emitted' \in Nat /\ emitted <= emitted' /\ count <= count' /\ count' \in Nat
    BY <1>1, <1>0 DEF Line, Upto
<1>7. QED
    BY <1>1, <1>2, <1>3, <1>4, <1>5, <1>6, SameLine DEF EventInv

LEMMA EmitCountInv ==
    ASSUME EventInv, EmitCount
    PROVE  EventInv'
<1>0. /\ count \in Nat /\ run \in Nat /\ emitted \in Nat /\ start \in Nat /\ swept \in Nat
      /\ last \in Nat /\ told \in Nat /\ slips \in Nat /\ Upto \in Nat
      /\ joined.run \in Nat /\ joined.at \in Nat /\ joined.slips \in Nat
      /\ RingSize \in Nat \ {0} /\ Cap \in Nat \ {0} /\ MaxEvents \in Nat /\ Burst \in Nat \ {0}
    BY EventNumbers
<1>1. /\ appending /\ appending' = FALSE /\ count' = count + 1
      /\ UNCHANGED <<ring, clearing, run, emitted, start, swept, client, last, tick, got, told, joined, slips>>
    BY DEF EmitCount, reader, history
<1>2. StreamTypes'
    <2>1. count' = count + 1
        BY <1>1
    <2>2. count' \in Nat
        BY <1>0, <2>1
    <2>3. appending' \in BOOLEAN
        BY <1>1, Zenon
    <2>4. StreamTypes
        BY DEF EventInv
    <2>5. QED
        BY <1>1, <2>2, <2>3, <2>4 DEF StreamTypes, Rest
<1>3. BusInv' /\ HoldsUpTo(ring, emitted)'
    BY <1>1, <1>0 DEF EventInv, BusInv, Pending, Reading, HoldsUpTo
<1>4. ReadingInv'
    <2>1. Reading => /\ joined.run = run /\ last < tick.current /\ tick.current <= count
                     /\ count + 1 - tick.current <= Burst /\ tick.current \in Nat
        BY <1>1, TickTypes DEF EventInv, ReadingInv, Reading, Pending
    <2>2. tick.at = "copied" => /\ HoldsUpTo(tick.snapshot, tick.upTo)' /\ Len(tick.snapshot) <= RingSize
                                /\ start + tick.current <= tick.upTo /\ tick.upTo <= emitted
        BY <1>1 DEF EventInv, ReadingInv, HoldsUpTo
    <2>3. Reading => tick.current <= count + 1 /\ count + 1 + 0 - tick.current <= Burst
        BY <2>1, <1>0
    <2>4. QED
        BY <1>1, <2>1, <2>2, <2>3 DEF ReadingInv, Reading, Pending
<1>5. UNCHANGED <<Line, Upto>> /\ count <= count' /\ count' \in Nat /\ emitted <= emitted' /\ emitted' \in Nat
    BY <1>1, <1>0 DEF Line, Upto
<1>6. QED
    BY <1>1, <1>2, <1>3, <1>4, <1>5, SameLine DEF EventInv

LEMMA ClearRingInv ==
    ASSUME EventInv, ClearRing
    PROVE  EventInv'
<1>0. /\ count \in Nat /\ run \in Nat /\ emitted \in Nat /\ start \in Nat /\ swept \in Nat
      /\ last \in Nat /\ told \in Nat /\ slips \in Nat /\ Upto \in Nat
      /\ joined.run \in Nat /\ joined.at \in Nat /\ joined.slips \in Nat
      /\ RingSize \in Nat \ {0} /\ Cap \in Nat \ {0} /\ MaxEvents \in Nat /\ Burst \in Nat \ {0}
    BY EventNumbers
<1>1. /\ ~Reading /\ ~clearing /\ clearing' = TRUE /\ ring' = <<>> /\ swept' = emitted
      /\ UNCHANGED <<count, appending, run, emitted, start, client, last, tick, got, told, joined, slips>>
    BY DEF ClearRing, reader, history
<1>2. StreamTypes'
    BY <1>1, <1>0 DEF EventInv, StreamTypes, Rest
<1>3. BusInv' /\ HoldsUpTo(ring, emitted)'
    BY <1>1, <1>0 DEF EventInv, BusInv, Pending, Reading, HoldsUpTo
<1>4. ReadingInv'
    BY <1>1 DEF ReadingInv, Reading
<1>5. UNCHANGED <<Line, Upto>>
    BY <1>1 DEF Line, Upto
<1>6. JoinInv' /\ LineInv'
    BY <1>1, <1>5 DEF EventInv, JoinInv, LineInv
<1>7. ASSUME Roomy, joined.run = run PROVE AccountInv'
    <2>1. Has(Upto)' = Has(Upto) /\ Has(MaxEvents)' = Has(MaxEvents)
        BY <1>1, <1>5 DEF Has
    <2>2. AccountInv /\ swept <= swept' /\ start + Upto <= swept' /\ start + Upto \in Nat
        <3>1. Pending \in {0, 1}
            BY DEF Pending
        <3>2. QED
            <4>1. /\ AccountInv /\ swept <= emitted /\ start + count + Pending = emitted
                  /\ Upto <= count
                BY <1>7 DEF EventInv, BusInv, JoinInv
            <4>2. QED
                BY <1>1, <3>1, <4>1, <1>0
    <2>3. Cardinality(Has(Upto)) \in Nat /\ Cardinality(Has(MaxEvents)) \in Nat
        BY HasIsFinite, <1>0
    <2>4. QED
        <3>1. slips - joined.slips \in Int
            BY <1>0
        <3>2. (IF swept > start /\ Upto > 0 THEN 1 ELSE 0) <= (IF swept' > start /\ Upto > 0 THEN 1 ELSE 0)
            BY <1>1, <2>2, <1>0
        <3>3. (IF swept > start THEN 1 ELSE 0) <= (IF swept' > start THEN 1 ELSE 0)
            BY <1>1, <2>2, <1>0
        <3>4. ~(start + Upto > swept')
            BY <1>1, <2>2, <1>0
        <3>5. Upto <= Cardinality(Has(Upto)) + told + joined.at + (slips - joined.slips)
                      + (IF swept > start /\ Upto > 0 THEN 1 ELSE 0)
              /\ Cardinality(Has(MaxEvents)) + told + joined.at
                      <= Upto + (slips - joined.slips) + (IF swept > start THEN 1 ELSE 0)
            BY <2>2 DEF AccountInv
        <3>6. Upto <= Cardinality(Has(Upto)) + told + joined.at + (slips - joined.slips)
                      + (IF swept' > start /\ Upto > 0 THEN 1 ELSE 0)
            BY <2>3, <3>1, <3>2, <3>5, <1>0
        <3>7. Cardinality(Has(MaxEvents)) + told + joined.at
                      <= Upto + (slips - joined.slips) + (IF swept' > start THEN 1 ELSE 0)
            BY <2>3, <3>1, <3>3, <3>5, <1>0
        <3>8. QED
            BY <1>1, <1>5, <2>1, <3>4, <3>6, <3>7 DEF AccountInv
<1>8. QED
    BY <1>1, <1>2, <1>3, <1>4, <1>6, <1>7 DEF EventInv, Roomy

LEMMA ClearCountInv ==
    ASSUME EventInv, ClearCount
    PROVE  EventInv'
<1>0. /\ count \in Nat /\ run \in Nat /\ emitted \in Nat /\ start \in Nat /\ swept \in Nat
      /\ last \in Nat /\ told \in Nat /\ slips \in Nat /\ Upto \in Nat
      /\ joined.run \in Nat /\ joined.at \in Nat /\ joined.slips \in Nat
      /\ RingSize \in Nat \ {0} /\ Cap \in Nat \ {0} /\ MaxEvents \in Nat /\ Burst \in Nat \ {0}
    BY EventNumbers
<1>1. /\ clearing /\ clearing' = FALSE /\ count' = 0 /\ run' = run + 1 /\ start' = start + count
      /\ UNCHANGED <<ring, appending, emitted, swept, client, last, tick, got, told, joined, slips>>
    BY DEF ClearCount, reader, history
<1>2. StreamTypes'
    <2>1. start' = start + count /\ run' = run + 1 /\ count' = 0
        BY <1>1
    <2>2. start' \in Nat /\ run' \in Nat /\ count' \in Nat
        BY <1>0, <2>1
    <2>3. clearing' \in BOOLEAN
        BY <1>1, Zenon
    <2>4. StreamTypes
        BY DEF EventInv
    <2>5. QED
        BY <1>1, <2>2, <2>3, <2>4 DEF StreamTypes, Rest
<1>3. Pending' = Pending /\ Pending \in {0, 1} /\ Pending <= 1
    BY <1>1 DEF Pending
<1>4. BusInv' /\ HoldsUpTo(ring, emitted)'
    BY <1>1, <1>3, <1>0 DEF EventInv, BusInv, HoldsUpTo
<1>5. ReadingInv'
    BY <1>1 DEF EventInv, BusInv, ReadingInv, Reading
<1>6. UNCHANGED <<Line, Upto>> /\ joined.run # run + 1 /\ joined.run <= run + 1
    BY <1>1, <1>0 DEF EventInv, JoinInv, Line, Upto
<1>7. JoinInv'
    BY <1>1, <1>6 DEF EventInv, JoinInv
<1>8. LineInv'
    <2>1. ASSUME NEW i \in 1 .. Len(Line) PROVE Line[i] <= start + count + slips
        <3>1. Line[i] \in Nat
            BY TickTypes
        <3>2. Line[i] <= (IF joined.run = run THEN start + Upto ELSE start) + slips
            BY DEF EventInv, LineInv
        <3>3. joined.run = run => Upto <= count
            BY DEF EventInv, JoinInv
        <3>4. CASE joined.run = run
            BY <3>1, <3>2, <3>3, <3>4, <1>0
        <3>5. CASE joined.run # run
            BY <3>1, <3>2, <3>5, <1>0
        <3>6. QED
            BY <3>4, <3>5
    <2>2. QED
        BY <1>1, <1>6, <2>1 DEF EventInv, LineInv
<1>9. QED
    BY <1>1, <1>2, <1>4, <1>5, <1>6, <1>7, <1>8 DEF EventInv

LEMMA ReconnectInv ==
    ASSUME EventInv, Reconnect
    PROVE  EventInv'
<1>1. /\ ~Reading /\ ~clearing /\ last' = 0 /\ tick' = [at |-> "rest"] /\ got' = <<>> /\ told' = 0
      /\ joined' = [run |-> run, at |-> 0, slips |-> 0] /\ slips' = 0
      /\ UNCHANGED <<ring, count, appending, clearing, run, emitted, start, swept>>
    BY DEF Reconnect, bus, Rest
<1>2. /\ Line' = <<>> /\ Upto' = 0 /\ Has(Upto)' = {} /\ Has(MaxEvents)' = {} /\ Cardinality({}) = 0
      /\ Len(<<>>) = 0
    BY <1>1, FS_EmptySet, EmptySeq DEF Line, Upto, Has
<1>3. /\ tick'.at = "rest" /\ joined'.run = run /\ joined'.at = 0 /\ joined'.slips = 0
    BY <1>1
<1>4. count \in Nat /\ run \in Nat /\ start \in Nat /\ emitted \in Nat
    BY EventNumbers
<1>5. StreamTypes'
    <2>1. /\ <<>> \in Seq(1 .. MaxEvents) /\ [at |-> "rest"] \in Ticks
          /\ joined' \in [run : Nat, at : Nat, slips : Nat]
        BY <1>1, <1>4, EmptySeq DEF Ticks
    <2>2. QED
        BY <1>1, <2>1 DEF EventInv, StreamTypes, Rest
<1>6. BusInv' /\ HoldsUpTo(ring, emitted)' /\ ReadingInv'
    BY <1>1, <1>3 DEF EventInv, BusInv, Pending, ReadingInv, Reading, HoldsUpTo
<1>7. JoinInv' /\ LineInv'
    BY <1>1, <1>2, <1>3, <1>4 DEF JoinInv, LineInv
<1>8. AccountInv'
    <2>1. Cardinality(Has(Upto))' = 0 /\ Cardinality(Has(MaxEvents))' = 0
        BY <1>2
    <2>2. QED
        BY <1>1, <1>2, <1>3, <2>1 DEF AccountInv
<1>9. QED
    BY <1>5, <1>6, <1>7, <1>8 DEF EventInv

LEMMA CopyRingInv ==
    ASSUME EventInv, CopyRing
    PROVE  EventInv'
<1>1. /\ tick.at = "counted"
      /\ tick' = [at |-> "copied", current |-> tick.current, snapshot |-> ring, upTo |-> emitted]
      /\ UNCHANGED <<ring, count, appending, clearing, run, emitted, start, swept,
                     last, got, told, joined, slips>>
    BY DEF CopyRing, bus, history
<1>2. /\ tick'.at = "copied" /\ tick'.current = tick.current /\ tick'.snapshot = ring /\ tick'.upTo = emitted
    BY <1>1
<1>3. /\ tick.current \in Nat /\ count \in Nat /\ emitted \in Nat /\ start \in Nat
      /\ ring \in Seq(Nat) /\ Len(ring) <= RingSize
    BY <1>1, TickTypes DEF EventInv, StreamTypes
<1>4. UNCHANGED <<Line, Upto>>
    BY <1>1, <1>2 DEF Line, Upto
<1>5. StreamTypes'
    <2>1. tick' \in Ticks
        BY <1>1, <1>3 DEF Ticks
    <2>2. QED
        BY <1>1, <1>2, <2>1 DEF EventInv, StreamTypes, Rest
<1>6. BusInv' /\ HoldsUpTo(ring, emitted)'
    BY <1>1, <1>2 DEF EventInv, BusInv, Pending, Reading, HoldsUpTo
<1>7. ReadingInv'
    <2>1. /\ joined.run = run /\ last < tick.current /\ tick.current <= count
          /\ count + Pending - tick.current <= Burst
        BY <1>1 DEF EventInv, ReadingInv, Reading
    <2>2. start + tick.current <= emitted
        <3>1. start + count + Pending = emitted /\ Pending \in {0, 1}
            BY DEF EventInv, BusInv, Pending
        <3>2. QED
            BY <1>3, <2>1, <3>1
    <2>3. HoldsUpTo(tick.snapshot, tick.upTo)'
        BY <1>1, <1>2 DEF EventInv, HoldsUpTo
    <2>4. QED
        BY <1>1, <1>2, <1>3, <2>1, <2>2, <2>3 DEF ReadingInv, Pending
<1>8. QED
    BY <1>1, <1>3, <1>4, <1>5, <1>6, <1>7, SameLine DEF EventInv

LEMMA SendNextInv ==
    ASSUME EventInv, SendNext
    PROVE  EventInv'
<1>1. /\ tick.at = "sending" /\ ~clearing /\ tick.batch # <<>>
      /\ got' = Append(got, Head(tick.batch)) /\ tick' = [tick EXCEPT !.batch = Tail(@)]
      /\ UNCHANGED <<ring, count, appending, clearing, run, emitted, start, swept, last, told, joined, slips>>
    BY DEF SendNext, bus
<1>2. /\ got \in Seq(1 .. MaxEvents) /\ tick.batch \in Seq(1 .. MaxEvents)
      /\ tick = [at |-> "sending", current |-> tick.current, batch |-> tick.batch] /\ tick.current \in Nat
    BY <1>1 DEF EventInv, StreamTypes, Ticks
<1>3. tick' = [at |-> "sending", current |-> tick.current, batch |-> Tail(tick.batch)]
    BY <1>1, <1>2
<1>4. /\ tick'.at = "sending" /\ tick'.current = tick.current /\ tick'.batch = Tail(tick.batch)
    BY <1>3
<1>5. Line' = Line /\ Upto' = Upto
    BY <1>1, <1>2, <1>4, SentFromBatch DEF Line, Upto
<1>6. StreamTypes'
    <2>1. /\ Head(tick.batch) \in 1 .. MaxEvents /\ Tail(tick.batch) \in Seq(1 .. MaxEvents)
        BY <1>1, <1>2, HeadTailProperties
    <2>2. got' \in Seq(1 .. MaxEvents) /\ tick' \in Ticks
        BY <1>1, <1>2, <1>3, <2>1, AppendProperties DEF Ticks
    <2>3. QED
        BY <1>1, <1>4, <2>2 DEF EventInv, StreamTypes, Rest
<1>7. BusInv' /\ HoldsUpTo(ring, emitted)' /\ ReadingInv'
    BY <1>1, <1>4 DEF EventInv, BusInv, Pending, Reading, ReadingInv, HoldsUpTo
<1>8. count \in Nat /\ emitted \in Nat
    BY EventNumbers
<1>9. QED
    BY <1>1, <1>5, <1>6, <1>7, <1>8, SameLine DEF EventInv

LEMMA EndTickInv ==
    ASSUME EventInv, EndTick
    PROVE  EventInv'
<1>1. /\ tick.at = "sending" /\ ~clearing /\ tick.batch = <<>>
      /\ last' = tick.current /\ tick' = [at |-> "rest"]
      /\ UNCHANGED <<ring, count, appending, clearing, run, emitted, start, swept, got, told, joined, slips>>
    BY DEF EndTick, bus, history, Rest
<1>2. got \in Seq(1 .. MaxEvents) /\ tick.current \in Nat
    BY <1>1, TickTypes DEF EventInv, StreamTypes
<1>3. Line' = Line /\ Upto' = Upto
    BY <1>1, <1>2, ConcatEmptySeq DEF Line, Upto
<1>4. StreamTypes'
    <2>1. tick' \in Ticks
        BY <1>1 DEF Ticks
    <2>2. QED
        BY <1>1, <1>2, <2>1 DEF EventInv, StreamTypes, Rest
<1>5. BusInv' /\ HoldsUpTo(ring, emitted)' /\ ReadingInv'
    BY <1>1 DEF EventInv, BusInv, Pending, Reading, ReadingInv, HoldsUpTo
<1>6. count \in Nat /\ emitted \in Nat
    BY EventNumbers
<1>7. QED
    BY <1>1, <1>3, <1>4, <1>5, <1>6, SameLine DEF EventInv

LEMMA ReadCountInv ==
    ASSUME EventInv, ReadCount
    PROVE  EventInv'
<1> DEFINE base == IF count < last THEN 0 ELSE last
<1>1. /\ tick.at = "rest" /\ ~clearing /\ last' = base
      /\ tick' = (IF count > base THEN [at |-> "counted", current |-> count] ELSE [at |-> "rest"])
      /\ joined' = (IF joined.run = run THEN joined ELSE [run |-> run, at |-> base, slips |-> slips])
      /\ told' = (IF joined.run = run THEN told ELSE 0)
      /\ UNCHANGED <<ring, count, appending, clearing, run, emitted, start, swept, got, slips>>
    BY DEF ReadCount, bus, Rest
<1>2. /\ count \in Nat /\ run \in Nat /\ emitted \in Nat /\ start \in Nat /\ swept \in Nat
      /\ last \in Nat /\ told \in Nat /\ slips \in Nat
      /\ joined.run \in Nat /\ joined.at \in Nat /\ joined.slips \in Nat /\ MaxEvents \in Nat /\ Burst \in Nat \ {0}
    BY EventNumbers
<1>3. base \in Nat /\ base <= count /\ (count > base \/ ~(count > base))
    BY <1>2
<1>4. Line = got /\ Line' = got /\ Upto = last /\ Upto' = base
    BY <1>1 DEF Line, Upto
<1>5. joined'.run = run /\ swept <= start + 1 /\ Pending' = Pending /\ Pending \in {0, 1}
    BY <1>1 DEF EventInv, BusInv, Pending
<1>6. ASSUME joined.run = run
      PROVE  /\ JoinInv' /\ LineInv' /\ (Roomy => AccountInv')
             /\ joined' \in [run : Nat, at : Nat, slips : Nat] /\ told' \in Nat
    <2>1. last <= count /\ base = last /\ joined' = joined /\ told' = told
        BY <1>1, <1>2, <1>4, <1>6 DEF EventInv, JoinInv
    <2>2. JoinInv' /\ LineInv'
        BY <1>1, <1>4, <1>6, <2>1 DEF EventInv, JoinInv, LineInv
    <2>3. Has(Upto)' = Has(Upto) /\ Has(MaxEvents)' = Has(MaxEvents)
        BY <1>1, <1>4, <2>1 DEF Has
    <2>4. Roomy => AccountInv'
        BY <1>1, <1>4, <1>6, <2>1, <2>3 DEF EventInv, AccountInv
    <2>5. joined' \in [run : Nat, at : Nat, slips : Nat] /\ told' \in Nat
        BY <1>2, <2>1 DEF EventInv, StreamTypes
    <2>6. QED
        BY <2>2, <2>4, <2>5
<1>7. ASSUME joined.run # run
      PROVE  /\ JoinInv' /\ LineInv' /\ (Roomy => AccountInv')
             /\ joined' \in [run : Nat, at : Nat, slips : Nat] /\ told' \in Nat
    <2> HIDE DEF base
    <2>1. joined' = [run |-> run, at |-> base, slips |-> slips] /\ told' = 0
        BY <1>1, <1>7
    <2>2. joined'.at = base /\ joined'.slips = slips /\ joined' \in [run : Nat, at : Nat, slips : Nat]
        BY <1>2, <1>3, <2>1
    <2>3. JoinInv'
        BY <1>1, <1>2, <1>3, <1>4, <1>5, <2>2 DEF JoinInv
    <2>4. \A i \in 1 .. Len(Line) : Line[i] \in Nat /\ Line[i] <= swept /\ Line[i] <= start + base + slips
        <3>1. \A i \in 1 .. Len(Line) : Line[i] \in Nat /\ Line[i] <= swept /\ Line[i] <= start + slips
            BY <1>7, TickTypes DEF EventInv, LineInv
        <3>2. QED
            BY <1>2, <1>3, <3>1
    <2>5. LineInv'
        BY <1>1, <1>4, <1>5, <2>4 DEF EventInv, LineInv
    <2>6. AccountInv'
        <3> DEFINE X == IF swept > start THEN {1} ELSE {}
        <3>1. Has(MaxEvents)' \subseteq X
            <4> SUFFICES ASSUME NEW n \in Has(MaxEvents)' PROVE n \in X
                OBVIOUS
            <4>1. n \in 1 .. MaxEvents /\ \E i \in 1 .. Len(Line) : Line[i] = start + n
                BY <1>1, <1>4 DEF Has
            <4>2. start + n <= swept
                BY <2>4, <4>1
            <4>3. QED
                BY <1>2, <1>5, <4>1, <4>2
        <3>2. IsFiniteSet(X) /\ Cardinality(X) = (IF swept > start THEN 1 ELSE 0)
            BY FS_EmptySet, FS_Singleton
        <3> HIDE DEF X
        <3>3. Cardinality(Has(MaxEvents)') <= (IF swept > start THEN 1 ELSE 0)
            BY <3>1, <3>2, FS_Subset
        <3>4. Cardinality(Has(MaxEvents)') \in Nat /\ Cardinality(Has(Upto)') \in Nat
            <4>1. IsFiniteSet(Has(MaxEvents)')
                BY <3>1, <3>2, FS_Subset
            <4>2. IsFiniteSet(Has(Upto)')
                <5>1. IsFiniteSet(1 .. base) /\ Has(Upto)' \subseteq 1 .. base
                    BY <1>3, <1>4, FS_Interval DEF Has
                <5>2. QED
                    BY <5>1, FS_Subset
            <4>3. QED
                BY <4>1, <4>2, FS_CardinalityType
        <3>5. base <= Cardinality(Has(Upto)') + 0 + base + (slips - slips) + (IF swept > start /\ base > 0 THEN 1 ELSE 0)
            BY <1>2, <1>3, <3>4
        <3>6. Cardinality(Has(MaxEvents)') + 0 + base <= base + (slips - slips) + (IF swept > start THEN 1 ELSE 0)
            BY <1>2, <1>3, <3>3, <3>4
        <3>7. ~(base > base)
            BY <1>3
        <3>8. QED
            BY <1>1, <1>4, <2>1, <2>2, <3>5, <3>6, <3>7 DEF AccountInv
    <2>7. QED
        BY <1>2, <2>1, <2>2, <2>3, <2>5, <2>6
<1> HIDE DEF base
<1>8. ASSUME count > base
      PROVE  tick' \in Ticks /\ (tick'.at = "rest" => tick' = Rest') /\ ReadingInv'
    <2>1. /\ tick' = [at |-> "counted", current |-> count] /\ tick'.at = "counted" /\ tick'.current = count
        BY <1>1, <1>8
    <2>2. tick' \in Ticks /\ (tick'.at = "rest" => tick' = Rest')
        BY <1>2, <2>1 DEF Ticks
    <2>3. ReadingInv'
        BY <1>1, <1>2, <1>5, <1>8, <2>1 DEF ReadingInv, Reading
    <2>4. QED
        BY <2>2, <2>3
<1>9. ASSUME ~(count > base)
      PROVE  tick' \in Ticks /\ (tick'.at = "rest" => tick' = Rest') /\ ReadingInv'
    <2>1. tick' = [at |-> "rest"] /\ tick'.at = "rest"
        BY <1>1, <1>9
    <2>2. tick' \in Ticks /\ (tick'.at = "rest" => tick' = Rest')
        BY <2>1 DEF Ticks, Rest
    <2>3. ReadingInv'
        BY <2>1 DEF ReadingInv, Reading
    <2>4. QED
        BY <2>2, <2>3
<1>10. StreamTypes'
    <2>1. tick' \in Ticks /\ (tick'.at = "rest" => tick' = Rest')
        BY <1>3, <1>8, <1>9
    <2>2. joined' \in [run : Nat, at : Nat, slips : Nat] /\ told' \in Nat /\ last' \in Nat
        BY <1>1, <1>2, <1>3, <1>6, <1>7 DEF EventInv, StreamTypes
    <2>3. QED
        BY <1>1, <2>1, <2>2 DEF EventInv, StreamTypes
<1>11. BusInv' /\ HoldsUpTo(ring, emitted)'
    BY <1>1, <1>5 DEF EventInv, BusInv, HoldsUpTo
<1>12. JoinInv' /\ LineInv' /\ (Roomy => AccountInv') /\ ReadingInv'
    BY <1>6, <1>7, <1>8, <1>9
<1>13. QED
    BY <1>10, <1>11, <1>12 DEF EventInv, Roomy

LEMMA UnionAtMost ==
    ASSUME NEW S, NEW T, IsFiniteSet(S), IsFiniteSet(T)
    PROVE  /\ IsFiniteSet(S \cup T)
           /\ Cardinality(S) \in Nat /\ Cardinality(T) \in Nat /\ Cardinality(S \cup T) \in Nat
           /\ Cardinality(S \cup T) <= Cardinality(S) + Cardinality(T)
           /\ S \cap T = {} => Cardinality(S \cup T) = Cardinality(S) + Cardinality(T)
<1>1. /\ IsFiniteSet(S \cup T) /\ IsFiniteSet(S \cap T)
      /\ Cardinality(S \cup T) = Cardinality(S) + Cardinality(T) - Cardinality(S \cap T)
    BY FS_Union, FS_Subset
<1>2. /\ Cardinality(S) \in Nat /\ Cardinality(T) \in Nat /\ Cardinality(S \cap T) \in Nat
      /\ Cardinality(S \cup T) \in Nat /\ (S \cap T = {} => Cardinality(S \cap T) = 0)
    BY <1>1, FS_CardinalityType, FS_EmptySet
<1>3. QED
    BY <1>1, <1>2

\* The line after a window is added to it.
LEMMA LongerLine ==
    ASSUME EventInv, SelectWindow, NEW lo \in Nat, WindowAt(lo)
    PROVE  LET k == Len(Window)
           IN  /\ k \in Nat /\ Line = got /\ Len(got) \in Nat /\ Len(Line)' = Len(got) + k
               /\ \A i \in 1 .. Len(got) + k : Line'[i] = IF i <= Len(got) THEN got[i] ELSE lo + (i - Len(got))
<1>1. tick.at = "copied" /\ tick' = [at |-> "sending", current |-> tick.current, batch |-> Window] /\ got' = got
    BY DEF SelectWindow
<1>2. tick'.at = "sending" /\ tick'.batch = Window
    BY <1>1
<1>3. Line = got /\ Line' = got \o Window
    BY <1>1, <1>2 DEF Line
<1>4. got \in Seq(1 .. MaxEvents) /\ Window \in Seq(1 .. MaxEvents) /\ \A i \in 1 .. Len(Window) : Window[i] = lo + i
    BY DEF EventInv, StreamTypes, WindowAt, Block
<1> HIDE DEF Window
<1>5. Len(got) \in Nat /\ Len(Window) \in Nat
    BY <1>4, LenProperties
<1>6. /\ Len(got \o Window) = Len(got) + Len(Window)
      /\ \A i \in 1 .. Len(got) + Len(Window) :
             (got \o Window)[i] = IF i <= Len(got) THEN got[i] ELSE Window[i - Len(got)]
    BY <1>4, ConcatProperties
<1>7. ASSUME NEW i \in 1 .. Len(got) + Len(Window)
      PROVE  Line'[i] = IF i <= Len(got) THEN got[i] ELSE lo + (i - Len(got))
    <2>1. ~(i <= Len(got)) => i - Len(got) \in 1 .. Len(Window)
        BY <1>5
    <2>2. QED
        BY <1>3, <1>4, <1>6, <2>1
<1>8. QED
    BY <1>3, <1>5, <1>6, <1>7

LEMMA SelectWindowInv ==
    ASSUME EventInv, SelectWindow
    PROVE  EventInv'
<1> DEFINE current == tick.current
           w == Smaller(current - last, Cap)
           drop == Larger(0, current - last - Cap)
           k == Len(Window)
           S == Slipped
<1>1. /\ tick.at = "copied" /\ tick' = [at |-> "sending", current |-> current, batch |-> Window]
      /\ told' = told + drop /\ slips' = slips + S
      /\ UNCHANGED <<ring, count, appending, clearing, run, emitted, start, swept, last, got, joined>>
    BY DEF SelectWindow, bus
<1>2. PICK lo \in Nat : WindowAt(lo)
    BY <1>1, WindowIs
<1>3. /\ tick'.at = "sending" /\ tick'.current = current /\ tick'.batch = Window
    BY <1>1
<1>4. /\ k \in Nat /\ Line = got /\ Len(got) \in Nat /\ Len(Line)' = Len(got) + k
      /\ \A i \in 1 .. Len(got) + k : Line'[i] = IF i <= Len(got) THEN got[i] ELSE lo + (i - Len(got))
    BY <1>2, LongerLine
<1>5. /\ Block(Window, lo) /\ lo + k <= emitted /\ k <= w + S /\ S \in Nat
      /\ k > 0 => start + last < lo + 1 + S /\ lo + k <= start + current + S
    BY <1>2 DEF WindowAt
<1>room. Roomy => /\ \E a \in Int : \A n \in current - w + 1 .. current :
                         n \in a + 1 .. a + S \/ Covered(n, lo, k)
                  /\ S = 0 /\ start + current > swept => Covered(current, lo, k)
    BY <1>2 DEF WindowAt
<1>6. /\ current \in Nat /\ count \in Nat /\ run \in Nat /\ emitted \in Nat /\ start \in Nat /\ swept \in Nat
      /\ last \in Nat /\ told \in Nat /\ slips \in Nat
      /\ joined.run \in Nat /\ joined.at \in Nat /\ joined.slips \in Nat /\ MaxEvents \in Nat
      /\ Cap \in Nat \ {0}
    BY <1>1, TickTypes, EventNumbers
<1>7. /\ Reading /\ ~clearing /\ joined.run = run /\ last < current /\ current <= count
      /\ swept <= start + 1
    BY <1>1 DEF Reading, EventInv, ReadingInv, BusInv
<1>8. w \in Nat \ {0} /\ drop \in Nat /\ current - last = w + drop
    BY <1>6, <1>7 DEF Smaller, Larger
<1> HIDE DEF current, w, drop, k, S
<1>9. Upto = last /\ Upto' = current
    BY <1>1, <1>3 DEF Upto
<1>10. \A i \in 1 .. Len(got) : got[i] \in Nat /\ got[i] <= emitted /\ got[i] <= start + last + slips
    BY <1>4, <1>7, <1>9, TickTypes DEF EventInv, LineInv
<1>11. StreamTypes'
    <2>1. tick' \in Ticks
        BY <1>1, <1>5, <1>6 DEF Ticks, Block
    <2>2. told' \in Nat /\ slips' \in Nat
        BY <1>1, <1>5, <1>6, <1>8
    <2>3. QED
        BY <1>1, <1>3, <2>1, <2>2 DEF EventInv, StreamTypes
<1>12. BusInv' /\ HoldsUpTo(ring, emitted)' /\ ReadingInv'
    BY <1>1, <1>3 DEF EventInv, BusInv, Pending, Reading, ReadingInv, HoldsUpTo
<1>13. JoinInv'
    <2>1. joined.run <= run /\ joined.slips <= slips /\ joined.at <= last
        BY <1>7, <1>9 DEF EventInv, JoinInv
    <2>2. joined.slips <= slips + S /\ joined.at <= current
        BY <1>5, <1>6, <1>7, <2>1
    <2>3. QED
        BY <1>1, <1>7, <1>9, <2>1, <2>2 DEF JoinInv
<1>14. LineInv'
    <2>1. ASSUME NEW i \in 1 .. Len(got) + k
          PROVE  Line'[i] <= emitted /\ Line'[i] <= start + current + (slips + S)
        <3>1. CASE i <= Len(got)
            <4>1. Line'[i] = got[i] /\ i \in 1 .. Len(got)
                BY <1>4, <3>1
            <4>2. got[i] \in Nat /\ got[i] <= emitted /\ got[i] <= start + last + slips
                BY <1>10, <4>1
            <4>3. S \in Nat /\ last <= current
                BY <1>5, <1>6, <1>7
            <4>4. got[i] <= start + current + (slips + S)
                BY <1>6, <4>2, <4>3
            <4>5. QED
                BY <4>1, <4>2, <4>4
        <3>2. CASE ~(i <= Len(got))
            <4>1. k \in Nat /\ Len(got) \in Nat
                BY <1>4
            <4>2. k > 0 /\ i - Len(got) <= k /\ i - Len(got) \in Nat
                BY <3>2, <4>1
            <4>3. Line'[i] = lo + (i - Len(got))
                BY <1>4, <3>2
            <4>4. QED
                BY <1>5, <1>6, <4>1, <4>2, <4>3
        <3>3. QED
            BY <3>1, <3>2
    <2>2. ASSUME NEW j \in 2 .. Len(got) + k
          PROVE  Line'[j - 1] < Line'[j] + (slips + S)
        <3>1. CASE j <= Len(got)
            <4>1. Line'[j] = got[j] /\ Line'[j - 1] = got[j - 1] /\ j \in 2 .. Len(got) /\ j - 1 \in 1 .. Len(got)
                BY <1>4, <3>1
            <4>2. got[j - 1] < got[j] + slips
                BY <1>4, <4>1 DEF EventInv, LineInv
            <4>3. got[j - 1] \in Nat /\ got[j] \in Nat
                BY <1>10, <4>1
            <4>4. QED
                BY <1>5, <1>6, <4>1, <4>2, <4>3
        <3>2. CASE j = Len(got) + 1
            <4>1. Line'[j] = lo + 1 /\ Line'[j - 1] = got[Len(got)] /\ k > 0 /\ Len(got) \in 1 .. Len(got)
                BY <1>4, <3>2
            <4>2. got[Len(got)] \in Nat /\ got[Len(got)] <= start + last + slips
                BY <1>10, <4>1
            <4>3. QED
                BY <1>5, <1>6, <4>1, <4>2
        <3>3. CASE j > Len(got) + 1
            <4>0. /\ j \in 1 .. Len(got) + k /\ j - 1 \in 1 .. Len(got) + k
                  /\ ~(j <= Len(got)) /\ ~(j - 1 <= Len(got))
                BY <1>4, <3>3
            <4>1. Line'[j] = lo + (j - Len(got)) /\ Line'[j - 1] = lo + (j - 1 - Len(got))
                BY <1>4, <4>0
            <4>2. QED
                BY <1>4, <1>5, <1>6, <4>1
        <3>4. QED
            BY <1>4, <3>1, <3>2, <3>3
    <2>3. QED
        BY <1>1, <1>4, <1>7, <1>9, <2>1, <2>2 DEF LineInv
<1>15. ASSUME Roomy PROVE AccountInv'
    <2> DEFINE H == Has(last)
               M == Has(MaxEvents)
               H2 == Has(Upto)'
               M2 == Has(MaxEvents)'
               off == slips - joined.slips
    <2>1. \A n \in Int : (\E i \in 1 .. Len(Line)' : Line'[i] = start + n)
                            <=> (\E i \in 1 .. Len(Line) : Line[i] = start + n) \/ start + n \in lo + 1 .. lo + k
        <3> SUFFICES ASSUME NEW n \in Int
                     PROVE  (\E i \in 1 .. Len(got) + k : Line'[i] = start + n)
                            <=> (\E i \in 1 .. Len(got) : got[i] = start + n) \/ start + n \in lo + 1 .. lo + k
            BY <1>4
        <3>1. ASSUME NEW i \in 1 .. Len(got) + k, Line'[i] = start + n
              PROVE  (\E h \in 1 .. Len(got) : got[h] = start + n) \/ start + n \in lo + 1 .. lo + k
            <4>1. CASE i <= Len(got)
                BY <1>4, <3>1, <4>1
            <4>2. CASE ~(i <= Len(got))
                BY <1>4, <1>6, <3>1, <4>2
            <4>3. QED
                BY <4>1, <4>2
        <3>2. ASSUME NEW i \in 1 .. Len(got), got[i] = start + n
              PROVE  \E h \in 1 .. Len(got) + k : Line'[h] = start + n
            <4>1. i \in 1 .. Len(got) + k /\ Line'[i] = start + n
                BY <1>4, <3>2
            <4>2. QED
                BY <4>1
        <3>3. ASSUME start + n \in lo + 1 .. lo + k
              PROVE  \E h \in 1 .. Len(got) + k : Line'[h] = start + n
            <4> DEFINE h == Len(got) + (start + n - lo)
            <4>1. h \in 1 .. Len(got) + k /\ ~(h <= Len(got)) /\ lo + (h - Len(got)) = start + n
                BY <1>4, <1>6, <3>3
            <4> HIDE DEF h
            <4>2. Line'[h] = start + n
                BY <1>4, <4>1
            <4>3. QED
                BY <4>1, <4>2
        <3>4. QED
            BY <3>1, <3>2, <3>3
    <2> DEFINE New(n) == \E i \in 1 .. Len(Line)' : Line'[i] = start + n
               Old(n) == \E i \in 1 .. Len(Line) : Line[i] = start + n
    <2>0. /\ H2 = {n \in 1 .. current : New(n)} /\ M2 = {n \in 1 .. MaxEvents : New(n)}
          /\ H = {n \in 1 .. last : Old(n)} /\ M = {n \in 1 .. MaxEvents : Old(n)}
        BY <1>1, <1>9 DEF Has
    <2> HIDE DEF H, M, H2, M2
    <2>2. \A n \in Int : New(n) <=> Old(n) \/ start + n \in lo + 1 .. lo + k
        BY <2>1
    <2> HIDE DEF New, Old
    <2>3. /\ IsFiniteSet(H) /\ IsFiniteSet(M) /\ Cardinality(H) \in Nat /\ Cardinality(M) \in Nat
        BY <1>6, HasIsFinite DEF H, M
    <2>4. IsFiniteSet(H2) /\ Cardinality(H2) \in Nat
        <3>1. IsFiniteSet(1 .. current) /\ H2 \subseteq 1 .. current
            <4>1. IsFiniteSet(1 .. current)
                BY <1>6, FS_Interval
            <4>2. H2 \subseteq 1 .. current
                BY <2>0
            <4>3. QED
                BY <4>1, <4>2
        <3>2. QED
            BY <3>1, FS_Subset, FS_CardinalityType
    <2>5. PICK a \in Int : \A n \in current - w + 1 .. current : n \in a + 1 .. a + S \/ Covered(n, lo, k)
        BY <1>room, <1>15
    <2> DEFINE N == {n \in current - w + 1 .. current : start + n \in lo + 1 .. lo + k}
               X == IF last = 0 /\ swept > start THEN {1} ELSE {}
               x == IF last = 0 /\ swept > start THEN 1 ELSE 0
    <2>6. w <= Cardinality(N) + S + x /\ IsFiniteSet(N) /\ Cardinality(N) \in Nat
        <3>1. /\ IsFiniteSet(current - w + 1 .. current) /\ Cardinality(current - w + 1 .. current) = w
              /\ IsFiniteSet(a + 1 .. a + S) /\ Cardinality(a + 1 .. a + S) = S
            <4>1. current - w + 1 \in Int /\ current \in Int /\ a + 1 \in Int /\ a + S \in Int
                BY <1>5, <1>6, <1>8
            <4>2. /\ IsFiniteSet(current - w + 1 .. current) /\ IsFiniteSet(a + 1 .. a + S)
                  /\ Cardinality(current - w + 1 .. current)
                         = IF current - w + 1 > current THEN 0 ELSE current - (current - w + 1) + 1
                  /\ Cardinality(a + 1 .. a + S) = IF a + 1 > a + S THEN 0 ELSE (a + S) - (a + 1) + 1
                BY <4>1, FS_Interval
            <4>3. QED
                BY <1>5, <1>6, <1>8, <4>2
        <3>2. IsFiniteSet(X) /\ Cardinality(X) = x
            BY FS_EmptySet, FS_Singleton
        <3>3. IsFiniteSet(N)
            BY <3>1, FS_Subset
        <3>4. current - w + 1 .. current \subseteq (N \cup (a + 1 .. a + S)) \cup X
            BY <2>5 DEF Covered
        <3> HIDE DEF N, X, x
        <3>5. /\ IsFiniteSet(N \cup (a + 1 .. a + S)) /\ Cardinality(N) \in Nat
              /\ Cardinality(N \cup (a + 1 .. a + S)) \in Nat
              /\ Cardinality(N \cup (a + 1 .. a + S)) <= Cardinality(N) + S
            BY <3>1, <3>3, UnionAtMost
        <3>6. /\ IsFiniteSet((N \cup (a + 1 .. a + S)) \cup X) /\ x \in Nat
              /\ Cardinality((N \cup (a + 1 .. a + S)) \cup X) \in Nat
              /\ Cardinality((N \cup (a + 1 .. a + S)) \cup X) <= Cardinality(N \cup (a + 1 .. a + S)) + x
            BY <3>2, <3>5, UnionAtMost
        <3>7. w <= Cardinality((N \cup (a + 1 .. a + S)) \cup X)
            <4> DEFINE all == (N \cup (a + 1 .. a + S)) \cup X
                       new == current - w + 1 .. current
            <4>1. IsFiniteSet(all) /\ new \in SUBSET all /\ Cardinality(new) = w
                BY <3>1, <3>4, <3>6
            <4> HIDE DEF all, new
            <4>2. Cardinality(new) <= Cardinality(all)
                BY <4>1, FS_Subset
            <4>3. QED
                BY <4>1, <4>2 DEF all
        <3>8. QED
            BY <1>5, <1>8, <3>3, <3>5, <3>6, <3>7
    <2>7. Cardinality(H) + Cardinality(N) <= Cardinality(H2)
        <3>1. H \cup N \subseteq H2
            BY <1>6, <1>7, <1>8, <2>0, <2>2
        <3>2. H \cap N = {}
            BY <1>6, <1>8, <2>0
        <3> HIDE DEF N
        <3>3. Cardinality(H \cup N) = Cardinality(H) + Cardinality(N)
            BY <2>3, <2>6, <3>2, UnionAtMost
        <3>4. QED
            BY <2>4, <3>1, <3>3, FS_Subset
    <2>8. Cardinality(M2) <= Cardinality(M) + k /\ Cardinality(M2) \in Nat
        <3> DEFINE K == lo - start + 1 .. lo - start + k
        <3>1. IsFiniteSet(K) /\ Cardinality(K) = k
            <4>1. lo - start + 1 \in Int /\ lo - start + k \in Int
                BY <1>4, <1>6
            <4>2. IsFiniteSet(K) /\ Cardinality(K) = IF lo - start + 1 > lo - start + k THEN 0
                                                      ELSE (lo - start + k) - (lo - start + 1) + 1
                BY <4>1, FS_Interval
            <4>3. QED
                BY <1>4, <1>6, <4>2
        <3>2. M2 \subseteq M \cup K
            BY <1>4, <1>6, <2>0, <2>2
        <3> HIDE DEF K
        <3>3. /\ IsFiniteSet(M \cup K) /\ Cardinality(M \cup K) \in Nat
              /\ Cardinality(M \cup K) <= Cardinality(M) + k
            BY <2>3, <3>1, UnionAtMost
        <3>4. IsFiniteSet(M2) /\ Cardinality(M2) <= Cardinality(M \cup K)
            BY <3>2, <3>3, FS_Subset
        <3>5. Cardinality(M2) \in Nat
            BY <3>4, FS_CardinalityType
        <3>6. QED
            BY <1>4, <2>3, <3>3, <3>4, <3>5
    <2> HIDE DEF N, X
    <2>9. /\ last <= Cardinality(H) + told + joined.at + off + (IF swept > start /\ last > 0 THEN 1 ELSE 0)
          /\ Cardinality(M) + told + joined.at <= last + off + (IF swept > start THEN 1 ELSE 0)
        BY <1>7, <1>9, <1>15 DEF EventInv, AccountInv, H, M
    <2>10. current <= Cardinality(H2) + (told + drop) + joined.at + ((slips + S) - joined.slips)
                      + (IF swept > start /\ current > 0 THEN 1 ELSE 0)
        <3>1. (IF swept > start /\ current > 0 THEN 1 ELSE 0)
                  = (IF swept > start /\ last > 0 THEN 1 ELSE 0) + x
            BY <1>6, <1>7
        <3>2. x \in Nat /\ off \in Int /\ (slips + S) - joined.slips = off + S
              /\ (IF swept > start /\ last > 0 THEN 1 ELSE 0) \in Nat
            BY <1>5, <1>6
        <3> DEFINE e == IF swept > start /\ last > 0 THEN 1 ELSE 0
        <3>3. last <= Cardinality(H) + told + joined.at + off + e /\ e \in Nat
            BY <2>9, <3>2
        <3> HIDE DEF x, off, e
        <3>4. current = last + w + drop
            BY <1>6, <1>8
        <3>5. current <= Cardinality(H2) + (told + drop) + joined.at + (off + S) + (e + x)
            BY <1>5, <1>6, <1>8, <2>3, <2>4, <2>6, <2>7, <3>2, <3>3, <3>4
        <3>6. QED
            BY <3>1, <3>2, <3>5 DEF e
    <2>11. Cardinality(M2) + (told + drop) + joined.at
               <= current + ((slips + S) - joined.slips) + (IF swept > start THEN 1 ELSE 0)
        <3> DEFINE e == IF swept > start THEN 1 ELSE 0
        <3>1. off \in Int /\ (slips + S) - joined.slips = off + S /\ e \in Nat
            BY <1>5, <1>6
        <3>2. Cardinality(M) + told + joined.at <= last + off + e
            BY <2>9
        <3> HIDE DEF off, e
        <3>3. current = last + w + drop
            BY <1>6, <1>8
        <3>4. k \in Nat /\ k <= w + S /\ S \in Nat /\ w \in Nat /\ drop \in Nat
            BY <1>4, <1>5, <1>8
        <3>5. Cardinality(M2) + (told + drop) + joined.at <= current + (off + S) + e
            BY <1>6, <2>3, <2>8, <3>1, <3>2, <3>3, <3>4
        <3>6. QED
            BY <3>1, <3>5 DEF e
    <2>12. ASSUME (slips + S) - joined.slips = 0, start + current > swept PROVE current \in H2
        <3>1. joined.slips <= slips
            BY DEF EventInv, JoinInv
        <3>2. S = 0
            BY <1>5, <1>6, <2>12, <3>1
        <3>3. Covered(current, lo, k)
            BY <1>room, <1>15, <2>12, <3>2
        <3>4. start + current \in lo + 1 .. lo + k
            BY <1>6, <2>12, <3>3 DEF Covered
        <3>5. QED
            BY <1>6, <1>7, <2>0, <2>2, <3>4
    <2>13. /\ told' = told + drop /\ slips' = slips + S /\ Upto' = current
           /\ UNCHANGED <<swept, start, joined, run>>
        BY <1>1, <1>9
    <2>14. /\ current <= Cardinality(Has(Upto)') + told' + joined'.at + (slips' - joined'.slips)
                             + (IF swept' > start' /\ current > 0 THEN 1 ELSE 0)
           /\ Cardinality(Has(MaxEvents)') + told' + joined'.at
                  <= current + (slips' - joined'.slips) + (IF swept' > start' THEN 1 ELSE 0)
           /\ slips' - joined'.slips = 0 /\ start' + current > swept' => current \in Has(Upto)'
        <3>1. H2 = Has(Upto)' /\ M2 = Has(MaxEvents)'
            BY DEF H2, M2
        <3>2. /\ told + drop = told' /\ slips + S = slips' /\ joined.at = joined'.at
              /\ joined.slips = joined'.slips /\ swept' = swept /\ start' = start
            BY <2>13
        <3>3. current <= Cardinality(Has(Upto)') + told' + joined'.at + (slips' - joined'.slips)
                             + (IF swept' > start' /\ current > 0 THEN 1 ELSE 0)
            BY <2>10, <3>1, <3>2
        <3>4. Cardinality(Has(MaxEvents)') + told' + joined'.at
                  <= current + (slips' - joined'.slips) + (IF swept' > start' THEN 1 ELSE 0)
            BY <2>11, <3>1, <3>2
        <3>5. slips' - joined'.slips = 0 /\ start' + current > swept' => current \in Has(Upto)'
            BY <2>12, <3>1, <3>2
        <3>6. QED
            BY <3>3, <3>4, <3>5
    <2>15. QED
        BY <2>13, <2>14 DEF AccountInv
<1>16. QED
    BY <1>11, <1>12, <1>13, <1>14, <1>15 DEF EventInv, Roomy

LEMMA EventStepInv ==
    EventInv /\ [Next]_vars => EventInv'
<1> SUFFICES ASSUME EventInv, [Next]_vars PROVE EventInv'
    OBVIOUS
<1>1. CASE Next
    <2>1. Emit => EventInv'
        BY EmitAppendInv, EmitCountInv DEF Emit
    <2>2. Clear => EventInv'
        BY ClearRingInv, ClearCountInv DEF Clear
    <2>3. Tick => EventInv'
        BY ReadCountInv, CopyRingInv, SelectWindowInv, SendNextInv, EndTickInv DEF Tick
    <2>4. QED
        BY <1>1, <2>1, <2>2, <2>3, ReconnectInv DEF Next
<1>2. CASE UNCHANGED vars
    <2>1. /\ UNCHANGED <<ring, count, appending, clearing, run, emitted, start, swept, client, last, tick,
                         got, told, joined, slips>>
        BY <1>2 DEF vars, bus, reader, history
    <2>2. StreamTypes' /\ BusInv' /\ HoldsUpTo(ring, emitted)' /\ ReadingInv' /\ UNCHANGED <<Line, Upto>>
        BY <2>1 DEF EventInv, StreamTypes, Rest, BusInv, Pending, Reading, ReadingInv, HoldsUpTo, Line, Upto
    <2>3. emitted \in Nat /\ count \in Nat
        BY EventNumbers
    <2>4. QED
        BY <2>1, <2>2, <2>3, SameLine DEF EventInv
<1>3. QED
    BY <1>1, <1>2

\* What the properties speak of.
LEMMA EventInvHolds ==
    EventInv => InOrder /\ (Roomy => Accounted)
<1> SUFFICES ASSUME EventInv PROVE InOrder /\ (Roomy => Accounted)
    OBVIOUS
<1>0. got \in Seq(1 .. MaxEvents) /\ Len(got) \in Nat /\ \A i \in 1 .. Len(got) : got[i] \in 1 .. MaxEvents
    BY LenProperties, ElementOfSeq DEF EventInv, StreamTypes
<1>1. InOrder
    <2>1. CASE tick.at # "sending"
        BY <2>1 DEF EventInv, LineInv, Line, InOrder
    <2>2. CASE tick.at = "sending"
        <3>1. /\ tick.batch \in Seq(1 .. MaxEvents) /\ Line = got \o tick.batch
            BY <2>2, TickTypes DEF Line
        <3>2. /\ Len(tick.batch) \in Nat /\ Len(Line) = Len(got) + Len(tick.batch)
              /\ \A i \in 1 .. Len(got) + Len(tick.batch) :
                     Line[i] = IF i <= Len(got) THEN got[i] ELSE tick.batch[i - Len(got)]
            BY <1>0, <3>1, ConcatProperties, LenProperties
        <3>3. \A j \in 2 .. Len(Line) : Line[j - 1] < Line[j] + slips
            BY DEF EventInv, LineInv
        <3>4. ASSUME NEW j \in 2 .. Len(got) PROVE got[j - 1] < got[j] + slips
            <4>1. j \in 2 .. Len(Line) /\ j \in 1 .. Len(Line) /\ j - 1 \in 1 .. Len(Line)
                  /\ j <= Len(got) /\ j - 1 <= Len(got)
                BY <1>0, <3>2
            <4>2. Line[j] = got[j] /\ Line[j - 1] = got[j - 1]
                BY <3>2, <4>1
            <4>3. QED
                BY <3>3, <4>1, <4>2
        <3>5. QED
            BY <3>4 DEF InOrder
    <2>3. QED
        BY <2>1, <2>2
<1>2. ASSUME Roomy, tick = Rest, joined.run = run
      PROVE  LET mine  == {n \in 1 .. last : start + n \in Sent}
                 known == Cardinality(mine) + told + joined.at
             IN  /\ last - Wrong <= known /\ known <= last + Wrong
                 /\ slips = joined.slips /\ last > joined.at /\ start + last > swept => start + last \in Sent
    <2> DEFINE H == Has(last)
               M == Has(MaxEvents)
               off == slips - joined.slips
               e == IF swept > start THEN 1 ELSE 0
               e1 == IF swept > start /\ last > 0 THEN 1 ELSE 0
    <2>1. tick.at = "rest" /\ Line = got /\ Upto = last
        BY <1>2 DEF Rest, Line, Upto
    <2>2. /\ last \in Nat /\ told \in Nat /\ slips \in Nat /\ start \in Nat /\ swept \in Nat
          /\ joined.at \in Nat /\ joined.slips \in Nat /\ MaxEvents \in Nat
        BY EventNumbers
    <2>3. {n \in 1 .. last : start + n \in Sent} = H
        <3>1. \A n \in 1 .. last : start + n \in Sent <=> \E i \in 1 .. Len(got) : got[i] = start + n
            BY <1>0 DEF Sent
        <3>2. QED
            BY <2>1, <3>1 DEF Has
    <2>4. H \subseteq M
        <3>1. \A n \in 1 .. last : (\E i \in 1 .. Len(got) : got[i] = start + n) => n <= MaxEvents
            BY <1>0, <2>2
        <3>2. QED
            BY <2>1, <2>2, <3>1 DEF Has
    <2>5. IsFiniteSet(M) /\ Cardinality(M) \in Nat /\ Cardinality(H) \in Nat
        BY <2>2, HasIsFinite
    <2>6. Cardinality(H) <= Cardinality(M)
        BY <2>4, <2>5, FS_Subset
    <2>7. /\ last <= Cardinality(H) + told + joined.at + off + e1
          /\ Cardinality(M) + told + joined.at <= last + off + e
          /\ off = 0 /\ last > joined.at /\ start + last > swept => last \in H
        BY <1>2, <2>1 DEF EventInv, AccountInv
    <2>8. off \in Int /\ e \in Nat /\ e1 \in Nat /\ e1 <= e /\ Wrong = off + e
        BY <2>2 DEF Wrong
    <2> HIDE DEF H, M, off, e, e1
    <2>9. last - Wrong <= Cardinality(H) + told + joined.at /\ Cardinality(H) + told + joined.at <= last + Wrong
        BY <2>2, <2>5, <2>6, <2>7, <2>8
    <2>10. slips = joined.slips => off = 0
        BY <2>2 DEF off
    <2>11. last \in H => start + last \in Sent
        BY <2>3
    <2>12. QED
        BY <2>3, <2>7, <2>9, <2>10, <2>11
<1>3. Roomy => Accounted
    BY <1>2 DEF Accounted
<1>4. QED
    BY <1>1, <1>3

LEMMA EventInvAlways == Spec => []EventInv
<1>1. QED
    BY EventInitInv, EventStepInv, PTL DEF Spec

----------------------------------------------------------------------------
(* The theorems.                                                            *)

\* Whatever is appended, counted and cleared between any two steps of the reader and inside an emit and a
\* clear, and however small the ring is, a client goes back in the order of the events by no more than its
\* windows were off by: EventBus.emit and clear, websocket_events.
THEOREM EventsInOrder == Spec => []InOrder
<1>1. EventInv => InOrder
    BY EventInvHolds
<1>2. QED
    BY <1>1, EventInvAlways, PTL

\* Where the ring has room for an event cap and for what is counted during a tick, as it has for every client
\* but a recorder, the events a client was sent, those it was told of and, if it missed the clear, those it
\* takes for granted are as many as were counted, but for what its windows were off by and the one event that
\* was appended before the clear and counted after it: EventBus.emit and clear, websocket_events.
THEOREM EventsInOrderOrTold ==
    ASSUME Roomy
    PROVE  Spec => []InOrderOrTold
<1>1. EventInv => InOrderOrTold
    BY Roomy, EventInvHolds DEF InOrderOrTold
<1>2. QED
    BY <1>1, EventInvAlways, PTL

----------------------------------------------------------------------------
(* Where the spans are, and in which order.                                 *)

Spans == [n : Nat, run : Nat, parent : Nat]
Scopes == [run : Nat, published : SUBSET Messages, roots : [Messages -> Nat], boost : {FALSE, TRUE},
           chosen : SUBSET ((1 .. MaxScopes) \X Messages)]
Posted == [n : Nat, run : Nat, parent : Nat, label : Nat]

\* The spans of s are in the order they were built in; they are all older than those of t.
Ordered(s) == \A i, j \in 1 .. Len(s) : i < j => s[i].n < s[j].n
Older(s, t) == \A i \in 1 .. Len(s), j \in 1 .. Len(t) : s[i].n < t[j].n
UpTo(s, top) == \A i \in 1 .. Len(s) : s[i].n <= top

InSink == IF sink = Nothing THEN 0 ELSE 1

Held == Len(flush["loop"].batch) + Len(flush["stop"].batch)

ExportTypes ==
    /\ scope \in Scopes
    /\ sink # Nothing => sink \in [n : {built}, run : Nat, parent : Nat, len : Nat]
    /\ queue \in Seq(Spans)
    /\ flush \in [Workers -> [at : {"idle", "batches", "posts", "counts"}, batch : Seq(Posted), read : Int]]
    /\ counters \in [emitted : Nat, dropped : Int]
    /\ received \in Seq(Posted)
    /\ built \in Nat /\ (sink # Nothing => built > 0)

\* One worker flushes at a time, and holds spans while it posts and counts.
OneFlushes ==
    /\ \A v, w \in Workers : flush[v].at # "idle" /\ flush[w].at # "idle" => v = w
    /\ \A w \in Workers : flush[w].at \in {"idle", "batches"} => flush[w].batch = <<>>

SpansInOrder ==
    /\ Ordered(received) /\ Ordered(queue) /\ Older(received, queue)
    /\ UpTo(received, built - InSink) /\ UpTo(queue, built - InSink)
    /\ \A w \in Workers :
           /\ Ordered(flush[w].batch) /\ UpTo(flush[w].batch, built - InSink)
           /\ Older(received, flush[w].batch) /\ Older(flush[w].batch, queue)

Counted ==
    /\ Len(queue) <= QUEUE_MAX
    /\ counters.emitted = Len(received)
    /\ ~disturbed =>
           /\ counters.dropped = built - (Len(received) + Held + Len(queue) + InSink)
           /\ \A w \in Workers : flush[w].at = "counts" => flush[w].read = counters.dropped

ExportInv == ExportTypes /\ OneFlushes /\ SpansInOrder /\ Counted

----------------------------------------------------------------------------
(* Sequences of spans.                                                      *)

\* What is at an index of two sequences put together.
LEMMA Together ==
    ASSUME NEW T, NEW s \in Seq(T), NEW t \in Seq(T)
    PROVE  /\ s \o t \in Seq(T) /\ Len(s \o t) = Len(s) + Len(t)
           /\ \A i \in 1 .. Len(s \o t) :
                  \/ i \in 1 .. Len(s) /\ (s \o t)[i] = s[i]
                  \/ i - Len(s) \in 1 .. Len(t) /\ (s \o t)[i] = t[i - Len(s)]
<1> DEFINE both == s \o t
<1>1. /\ both \in Seq(T) /\ Len(both) = Len(s) + Len(t)
      /\ \A i \in 1 .. Len(s) + Len(t) : both[i] = IF i <= Len(s) THEN s[i] ELSE t[i - Len(s)]
    BY ConcatProperties
<1>2. Len(s) \in Nat /\ Len(t) \in Nat
    BY LenProperties
<1> HIDE DEF both
<1>3. ASSUME NEW i \in 1 .. Len(both)
      PROVE  \/ i \in 1 .. Len(s) /\ both[i] = s[i]
             \/ i - Len(s) \in 1 .. Len(t) /\ both[i] = t[i - Len(s)]
    <2>1. CASE i <= Len(s)
        BY <1>1, <1>2, <2>1
    <2>2. CASE ~(i <= Len(s))
        <3>1. i - Len(s) \in 1 .. Len(t)
            BY <1>1, <1>2, <2>2
        <3>2. QED
            BY <1>1, <2>2, <3>1
    <2>3. QED
        BY <2>1, <2>2
<1>4. QED
    BY <1>1, <1>3 DEF both

LEMMA InOrderTogether ==
    ASSUME NEW T, NEW s \in Seq(T), NEW t \in Seq(T), Ordered(s), Ordered(t), Older(s, t)
    PROVE  Ordered(s \o t)
<1> DEFINE both == s \o t
<1>1. \A i \in 1 .. Len(both) :
          \/ i \in 1 .. Len(s) /\ both[i] = s[i]
          \/ i - Len(s) \in 1 .. Len(t) /\ both[i] = t[i - Len(s)]
    BY Together
<1>2. Len(s) \in Nat /\ Len(t) \in Nat /\ Len(both) \in Nat
    BY Together, LenProperties
<1> HIDE DEF both
<1>3. ASSUME NEW i \in 1 .. Len(both), NEW j \in 1 .. Len(both), i < j
      PROVE  both[i].n < both[j].n
    <2>1. CASE i \in 1 .. Len(s) /\ j \in 1 .. Len(s)
        BY <1>1, <1>2, <1>3, <2>1 DEF Ordered
    <2>2. CASE i \in 1 .. Len(s) /\ ~(j \in 1 .. Len(s))
        BY <1>1, <1>3, <2>2, <1>2 DEF Older
    <2>3. CASE ~(i \in 1 .. Len(s))
        <3>1. both[i] = t[i - Len(s)] /\ i - Len(s) \in 1 .. Len(t) /\ ~(j \in 1 .. Len(s))
            BY <1>1, <1>2, <1>3, <2>3
        <3>2. both[j] = t[j - Len(s)] /\ j - Len(s) \in 1 .. Len(t)
            BY <1>1, <3>1
        <3>3. i - Len(s) < j - Len(s)
            BY <1>2, <1>3
        <3>4. QED
            BY <3>1, <3>2, <3>3 DEF Ordered
    <2>4. QED
        BY <2>1, <2>2, <2>3
<1>4. QED
    BY <1>3 DEF Ordered, both

LEMMA OlderTogether ==
    ASSUME NEW T, NEW s \in Seq(T), NEW t \in Seq(T), NEW u, NEW top
    PROVE  /\ Older(s, u) /\ Older(t, u) => Older(s \o t, u)
           /\ Older(u, s) /\ Older(u, t) => Older(u, s \o t)
           /\ UpTo(s, top) /\ UpTo(t, top) => UpTo(s \o t, top)
<1>1. \A i \in 1 .. Len(s \o t) :
          \/ i \in 1 .. Len(s) /\ (s \o t)[i] = s[i]
          \/ i - Len(s) \in 1 .. Len(t) /\ (s \o t)[i] = t[i - Len(s)]
    BY Together
<1> DEFINE both == s \o t
<1> HIDE DEF both
<1>2. \A i \in 1 .. Len(both) :
          (\E k \in 1 .. Len(s) : both[i] = s[k]) \/ (\E k \in 1 .. Len(t) : both[i] = t[k])
    BY <1>1 DEF both
<1>3. QED
    BY <1>2 DEF Older, UpTo, both

\* The first k of a sequence, and what is behind them.
LEMMA Divided ==
    ASSUME NEW T, NEW s \in Seq(T), NEW k \in 0 .. Len(s)
    PROVE  /\ SubSeq(s, 1, k) \in Seq(T) /\ Len(SubSeq(s, 1, k)) = k
           /\ \A i \in 1 .. k : i \in 1 .. Len(s) /\ SubSeq(s, 1, k)[i] = s[i]
           /\ SubSeq(s, k + 1, Len(s)) \in Seq(T) /\ Len(SubSeq(s, k + 1, Len(s))) = Len(s) - k
           /\ \A i \in 1 .. Len(s) - k : k + i \in 1 .. Len(s) /\ SubSeq(s, k + 1, Len(s))[i] = s[k + i]
<1>1. Len(s) \in Nat /\ k \in Nat /\ k <= Len(s)
    BY LenProperties
<1>2. \A i \in 1 .. k : s[i] \in T
    BY <1>1, ElementOfSeq
<1>3. \A i \in k + 1 .. Len(s) : s[i] \in T
    BY <1>1, ElementOfSeq
<1>4. /\ SubSeq(s, 1, k) \in Seq(T) /\ Len(SubSeq(s, 1, k)) = k
      /\ \A i \in 1 .. k : SubSeq(s, 1, k)[i] = s[i]
    BY <1>1, <1>2, SubSeqProperties
<1>5. /\ SubSeq(s, k + 1, Len(s)) \in Seq(T) /\ Len(SubSeq(s, k + 1, Len(s))) = Len(s) - k
      /\ \A i \in 1 .. Len(s) - k : SubSeq(s, k + 1, Len(s))[i] = s[k + i]
    BY <1>1, <1>3, SubSeqProperties
<1>6. (\A i \in 1 .. k : i \in 1 .. Len(s)) /\ \A i \in 1 .. Len(s) - k : k + i \in 1 .. Len(s)
    BY <1>1
<1>7. QED
    BY <1>4, <1>5, <1>6

\* Sequences drawn from an ordered one, index by index.
LEMMA Drawn ==
    ASSUME NEW s, Ordered(s), NEW t, NEW d \in Nat, Len(t) \in Nat,
           \A i \in 1 .. Len(t) : d + i \in 1 .. Len(s) /\ t[i].n = s[d + i].n
    PROVE  /\ Ordered(t)
           /\ \A u : (Older(s, u) => Older(t, u)) /\ (Older(u, s) => Older(u, t))
           /\ \A top : UpTo(s, top) => UpTo(t, top)
<1>1. Ordered(t)
    <2>1. ASSUME NEW i \in 1 .. Len(t), NEW j \in 1 .. Len(t), i < j PROVE t[i].n < t[j].n
        <3>1. d + i \in 1 .. Len(s) /\ d + j \in 1 .. Len(s) /\ d + i < d + j
            BY <2>1
        <3>2. s[d + i].n < s[d + j].n
            BY <3>1 DEF Ordered
        <3>3. QED
            BY <3>2
    <2>2. QED
        BY <2>1 DEF Ordered
<1>2. ASSUME NEW u PROVE (Older(s, u) => Older(t, u)) /\ (Older(u, s) => Older(u, t))
    BY DEF Older
<1>3. ASSUME NEW top PROVE UpTo(s, top) => UpTo(t, top)
    BY DEF UpTo
<1>4. QED
    BY <1>1, <1>2, <1>3

LEMMA EmptyInOrder ==
    /\ Ordered(<<>>)
    /\ \A u : Older(<<>>, u) /\ Older(u, <<>>) /\ UpTo(<<>>, u)
BY DEF Ordered, Older, UpTo

----------------------------------------------------------------------------
(* The steps.                                                               *)

LEMMA ExportInitInv == ExportInit => ExportInv
<1> SUFFICES ASSUME ExportInit PROVE ExportInv
    OBVIOUS
<1>1. /\ received = <<>> /\ queue = <<>> /\ built = 0 /\ sink = Nothing
      /\ counters = [emitted |-> 0, dropped |-> 0]
      /\ \A w \in Workers : flush[w] = Idle
    BY DEF ExportInit
<1>2. scope \in Scopes
    <2>1. PICK chosen \in SUBSET ((1 .. MaxScopes) \X Messages) :
              scope = [run |-> 1, published |-> {}, roots |-> [m \in Messages |-> 0], boost |-> FALSE, chosen |-> chosen]
        BY DEF ExportInit, NoRun
    <2>2. [m \in Messages |-> 0] \in [Messages -> Nat]
        OBVIOUS
    <2>3. QED
        BY <2>1, <2>2 DEF Scopes
<1>3. flush \in [Workers -> [at : {"idle", "batches", "posts", "counts"}, batch : Seq(Posted), read : Int]]
    <2>1. Idle \in [at : {"idle", "batches", "posts", "counts"}, batch : Seq(Posted), read : Int]
        BY DEF Idle
    <2>2. QED
        BY <2>1 DEF ExportInit
<1>4. ExportTypes
    BY <1>1, <1>2, <1>3 DEF ExportTypes
<1>5. OneFlushes
    BY <1>1 DEF OneFlushes, Idle
<1>6. SpansInOrder
    BY <1>1, EmptyInOrder DEF SpansInOrder, Idle
<1>7. Counted
    <2>1. Len(queue) = 0 /\ Len(received) = 0 /\ InSink = 0
        BY <1>1 DEF InSink
    <2>2. Held = 0
        <3>1. flush["loop"].batch = <<>> /\ flush["stop"].batch = <<>>
            BY <1>1 DEF Idle, Workers
        <3>2. QED
            BY <3>1 DEF Held
    <2>3. \A w \in Workers : flush[w].at # "counts"
        BY <1>1 DEF Idle
    <2>4. QUEUE_MAX \in Nat
        BY ExportAssumption
    <2>5. counters.dropped = built - (Len(received) + Held + Len(queue) + InSink)
        <3>1. counters.dropped = 0
            BY <1>1
        <3>2. built = 0
            BY <1>1
        <3>3. QED
            BY <2>1, <2>2, <3>1, <3>2
    <2>6. counters.emitted = Len(received) /\ Len(queue) <= QUEUE_MAX
        BY <1>1, <2>1, <2>4
    <2>7. QED
        BY <2>3, <2>5, <2>6 DEF Counted
<1>8. QED
    BY <1>4, <1>5, <1>6, <1>7 DEF ExportInv

\* The sizes, and who holds what while a worker flushes.
LEMMA HeldSizes ==
    ASSUME ExportInv
    PROVE  /\ Len(queue) \in Nat /\ Len(received) \in Nat /\ Held \in Nat /\ InSink \in {0, 1}
           /\ built \in Nat /\ built - InSink \in Nat
           /\ \A w \in Workers :
                  /\ flush[w].batch \in Seq(Posted) /\ Len(flush[w].batch) \in Nat
                  /\ flush[w].at # "idle" =>
                         /\ Held = Len(flush[w].batch)
                         /\ \A v \in Workers \ {w} : flush[v].at = "idle" /\ flush[v].batch = <<>>
<1>1. \A w \in Workers : flush[w].batch \in Seq(Posted) /\ Len(flush[w].batch) \in Nat
    BY LenProperties DEF ExportInv, ExportTypes
<1>2. Len(queue) \in Nat /\ Len(received) \in Nat
    BY LenProperties DEF ExportInv, ExportTypes
<1>3. InSink \in {0, 1} /\ built \in Nat /\ built - InSink \in Nat
    BY DEF ExportInv, ExportTypes, InSink
<1>4. ASSUME NEW w \in Workers, flush[w].at # "idle"
      PROVE  \A v \in Workers \ {w} : flush[v].at = "idle" /\ flush[v].batch = <<>>
    BY <1>4 DEF ExportInv, OneFlushes
<1>5. /\ "loop" \in Workers /\ "stop" \in Workers /\ Len(<<>>) = 0
      /\ \A w \in Workers : w = "loop" \/ w = "stop"
    BY DEF Workers
<1> DEFINE looped == Len(flush["loop"].batch)
           stops == Len(flush["stop"].batch)
<1>6. looped \in Nat /\ stops \in Nat
    BY <1>1, <1>5
<1>7. ASSUME NEW w \in Workers, flush[w].at # "idle"
      PROVE  Len(flush[w].batch) = IF w = "loop" THEN looped ELSE stops
    BY <1>5
<1>8. ASSUME NEW w \in Workers, flush[w].at # "idle"
      PROVE  IF w = "loop" THEN stops = 0 ELSE looped = 0
    BY <1>4, <1>5, <1>8
<1>9. Held = looped + stops
    BY DEF Held
<1> HIDE DEF looped, stops
<1>10. Held \in Nat
    BY <1>6, <1>9
<1>11. ASSUME NEW w \in Workers, flush[w].at # "idle" PROVE Held = Len(flush[w].batch)
    BY <1>6, <1>7, <1>8, <1>9, <1>11
<1>12. QED
    BY <1>1, <1>2, <1>3, <1>4, <1>10, <1>11

\* A span is built and not yet appended.
LEMMA BuildsInv ==
    ASSUME ExportInv, NEW parent \in Nat, Builds(parent),
           scope' \in Scopes
    PROVE  ExportInv'
<1> USE DEF ExportInv
<1>1. /\ sink = Nothing /\ built' = built + 1
      /\ sink' = [n |-> built + 1, run |-> scope.run, parent |-> parent, len |-> Len(queue)]
      /\ UNCHANGED <<queue, flush, stopping, counters, received, disturbed>>
    BY DEF Builds
<1>2. sink' # Nothing
    <2>1. "n" \in DOMAIN sink' /\ "n" \notin DOMAIN Nothing
        BY <1>1 DEF Nothing
    <2>2. QED
        BY <2>1
<1>3. InSink = 0 /\ InSink' = 1 /\ built' - InSink' = built - InSink /\ Held' = Held
    BY <1>1, <1>2, HeldSizes DEF InSink, Held
<1>4. ExportTypes'
    <2>1. scope.run \in Nat /\ Len(queue) \in Nat /\ built \in Nat
        BY HeldSizes DEF ExportTypes, Scopes
    <2>2. sink' \in [n : {built'}, run : Nat, parent : Nat, len : Nat] /\ built' \in Nat /\ built' > 0
        BY <1>1, <2>1
    <2>3. QED
        BY <1>1, <2>2 DEF ExportTypes
<1>5. OneFlushes'
    BY <1>1 DEF OneFlushes
<1>6. SpansInOrder'
    BY <1>1, <1>3 DEF SpansInOrder
<1>7. Counted'
    BY <1>1, <1>3, HeldSizes DEF Counted
<1>8. QED
    BY <1>4, <1>5, <1>6, <1>7

\* Appending to a full deque loses the oldest span.
LEMMA EnqueuedSpans ==
    ASSUME NEW q \in Seq(Spans), Len(q) <= QUEUE_MAX, NEW s \in Spans
    PROVE  LET after == Enqueued(q, s)
           IN  /\ after \in Seq(Spans)
               /\ Len(after) = IF Len(q) = QUEUE_MAX THEN QUEUE_MAX ELSE Len(q) + 1
               /\ after[Len(after)] = s
               /\ \E d \in {0, 1} : \A i \in 1 .. Len(after) - 1 : d + i \in 1 .. Len(q) /\ after[i] = q[d + i]
<1> DEFINE all == Append(q, s)
           after == Enqueued(q, s)
<1>1. /\ all \in Seq(Spans) /\ Len(all) = Len(q) + 1 /\ all[Len(q) + 1] = s
      /\ \A i \in 1 .. Len(q) : all[i] = q[i]
    BY AppendProperties
<1>2. Len(q) \in Nat /\ QUEUE_MAX \in Nat \ {0}
    BY LenProperties, ExportAssumption
<1>3. after = IF Len(all) > QUEUE_MAX THEN Tail(all) ELSE all
    BY DEF Enqueued
<1> HIDE DEF all, after
<1>4. CASE Len(q) = QUEUE_MAX
    <2>1. after = Tail(all) /\ all # <<>>
        BY <1>1, <1>2, <1>3, <1>4
    <2>2. /\ after \in Seq(Spans) /\ Len(after) = Len(q)
          /\ \A i \in 1 .. Len(after) : after[i] = all[i + 1]
        BY <1>1, <1>2, <2>1, HeadTailProperties
    <2>3. \A i \in 1 .. Len(after) - 1 : 1 + i \in 1 .. Len(q) /\ after[i] = q[1 + i]
        BY <1>1, <1>2, <2>2
    <2>4. after[Len(after)] = s
        BY <1>1, <1>2, <1>4, <2>2
    <2>5. QED
        BY <1>4, <2>2, <2>3, <2>4 DEF after
<1>5. CASE Len(q) # QUEUE_MAX
    <2>1. after = all
        BY <1>1, <1>2, <1>3, <1>5
    <2>2. \A i \in 1 .. Len(after) - 1 : 0 + i \in 1 .. Len(q) /\ after[i] = q[0 + i]
        BY <1>1, <1>2, <2>1
    <2>3. QED
        BY <1>1, <1>2, <1>5, <2>1, <2>2 DEF after
<1>6. QED
    BY <1>4, <1>5

LEMMA SinkAppendsInv ==
    ASSUME ExportInv, SinkAppends
    PROVE  ExportInv'
<1> USE DEF ExportInv
<1> DEFINE s == [n |-> sink.n, run |-> sink.run, parent |-> sink.parent]
<1>1. s \in Spans /\ s.n = built /\ built > 0
    BY DEF SinkAppends, ExportTypes, Spans
<1>2. /\ InSink = 1 /\ InSink' = 0 /\ Held' = Held
      /\ UNCHANGED <<scope, flush, stopping, received, built>> /\ sink' = Nothing
    BY DEF SinkAppends, InSink, Held
<1>3. queue' = Enqueued(queue, s) /\ queue \in Seq(Spans) /\ Len(queue) <= QUEUE_MAX
    BY DEF SinkAppends, ExportTypes, Counted
<1> HIDE DEF s
<1>4. /\ queue' \in Seq(Spans)
      /\ Len(queue') = IF Len(queue) = QUEUE_MAX THEN QUEUE_MAX ELSE Len(queue) + 1
      /\ queue'[Len(queue')] = s
    BY <1>1, <1>3, EnqueuedSpans
<1>5. PICK d \in {0, 1} :
          \A i \in 1 .. Len(queue') - 1 : d + i \in 1 .. Len(queue) /\ queue'[i] = queue[d + i]
    BY <1>1, <1>3, EnqueuedSpans
<1>6. /\ Len(queue') \in Nat /\ QUEUE_MAX \in Nat \ {0} /\ Len(queue) \in Nat
      /\ UpTo(queue, built - 1) /\ UpTo(received, built - 1) /\ built \in Nat
    BY <1>2, <1>4, HeldSizes, ExportAssumption, LenProperties DEF SpansInOrder
<1>7. ExportTypes'
    <2>1. counters' \in [emitted : Nat, dropped : Int]
        <3>1. counters \in [emitted : Nat, dropped : Int]
            BY DEF ExportTypes
        <3>2. counters' = [counters EXCEPT !.dropped = IF sink.len >= QUEUE_MAX THEN counters.dropped + 1
                                                       ELSE counters.dropped]
            BY DEF SinkAppends
        <3>3. QED
            BY <3>1, <3>2
    <2>2. QED
        BY <1>2, <1>4, <2>1 DEF ExportTypes
<1>8. OneFlushes'
    BY <1>2 DEF OneFlushes
<1>9. \A i \in 1 .. Len(queue') : i = Len(queue') \/ i \in 1 .. Len(queue') - 1
    BY <1>6
<1>10. Ordered(queue') /\ UpTo(queue', built)
    <2>1. ASSUME NEW i \in 1 .. Len(queue') - 1
          PROVE  queue'[i].n \in Nat /\ queue'[i].n <= built - 1
        <3>1. d + i \in 1 .. Len(queue) /\ queue'[i] = queue[d + i]
            BY <1>5
        <3>2. queue[d + i] \in Spans /\ queue[d + i].n <= built - 1
            BY <1>3, <1>6, <3>1, ElementOfSeq DEF UpTo
        <3>3. QED
            BY <3>1, <3>2 DEF Spans
    <2>2. UpTo(queue', built)
        <3>1. ASSUME NEW i \in 1 .. Len(queue') PROVE queue'[i].n <= built
            <4>1. CASE i = Len(queue')
                BY <1>1, <1>4, <1>6, <4>1
            <4>2. CASE i \in 1 .. Len(queue') - 1
                <5>1. queue'[i].n \in Nat /\ queue'[i].n <= built - 1
                    BY <2>1, <4>2
                <5>2. QED
                    BY <1>6, <5>1
            <4>3. QED
                BY <1>9, <4>1, <4>2
        <3>2. QED
            BY <3>1 DEF UpTo
    <2>3. ASSUME NEW i \in 1 .. Len(queue'), NEW j \in 1 .. Len(queue'), i < j
          PROVE  queue'[i].n < queue'[j].n
        <3>1. i \in 1 .. Len(queue') - 1 /\ queue'[i] = queue[d + i]
            BY <1>5, <1>6, <2>3
        <3>2. CASE j = Len(queue')
            <4>1. queue'[i].n \in Nat /\ queue'[i].n <= built - 1 /\ queue'[j].n = built
                BY <1>1, <1>4, <2>1, <3>1, <3>2
            <4>2. QED
                BY <1>6, <4>1
        <3>3. CASE j \in 1 .. Len(queue') - 1
            <4>1. /\ queue'[j] = queue[d + j] /\ d + i < d + j
                  /\ d + i \in 1 .. Len(queue) /\ d + j \in 1 .. Len(queue)
                BY <1>5, <1>6, <2>3, <3>1, <3>3
            <4>2. QED
                BY <3>1, <4>1 DEF SpansInOrder, Ordered
        <3>4. QED
            BY <1>9, <3>2, <3>3
    <2>4. QED
        BY <2>2, <2>3 DEF Ordered
<1>11. ASSUME NEW u \in Seq(Posted), Older(u, queue), UpTo(u, built - 1)
       PROVE  Older(u, queue') /\ UpTo(u, built)
    <2>1. ASSUME NEW i \in 1 .. Len(u) PROVE u[i].n \in Nat /\ u[i].n <= built - 1 /\ u[i].n <= built
        <3>1. u[i] \in Posted /\ u[i].n <= built - 1
            BY <1>11, ElementOfSeq DEF UpTo
        <3>2. u[i].n \in Nat
            BY <3>1 DEF Posted
        <3>3. QED
            BY <1>6, <3>1, <3>2
    <2>2. UpTo(u, built)
        BY <2>1 DEF UpTo
    <2>3. ASSUME NEW i \in 1 .. Len(u), NEW j \in 1 .. Len(queue') PROVE u[i].n < queue'[j].n
        <3>1. CASE j = Len(queue')
            <4>1. u[i].n \in Nat /\ u[i].n <= built - 1 /\ queue'[j].n = built
                BY <1>1, <1>4, <2>1, <3>1
            <4>2. QED
                BY <1>6, <4>1
        <3>2. CASE j \in 1 .. Len(queue') - 1
            BY <1>5, <1>11, <3>2 DEF Older
        <3>3. QED
            BY <1>9, <3>1, <3>2
    <2>4. QED
        BY <2>2, <2>3 DEF Older
<1>13. received \in Seq(Posted) /\ \A w \in Workers : flush[w].batch \in Seq(Posted)
    BY DEF ExportTypes
<1>12. SpansInOrder'
    <2>1. /\ Ordered(received') /\ Older(received', queue') /\ UpTo(received', built' - InSink')
          /\ Ordered(queue') /\ UpTo(queue', built' - InSink')
        BY <1>2, <1>6, <1>10, <1>11, <1>13 DEF SpansInOrder
    <2>2. ASSUME NEW w \in Workers
          PROVE  /\ Ordered(flush'[w].batch) /\ UpTo(flush'[w].batch, built' - InSink')
                 /\ Older(received', flush'[w].batch) /\ Older(flush'[w].batch, queue')
        <3>1. /\ Ordered(flush[w].batch) /\ UpTo(flush[w].batch, built - 1)
              /\ Older(received, flush[w].batch) /\ Older(flush[w].batch, queue)
            BY <1>2 DEF SpansInOrder
        <3>2. UpTo(flush[w].batch, built) /\ Older(flush[w].batch, queue') /\ built' - InSink' = built
            BY <1>2, <1>6, <1>11, <1>13, <3>1
        <3>3. QED
            BY <1>2, <3>1, <3>2
    <2>3. QED
        BY <2>1, <2>2 DEF SpansInOrder
<1>14. Counted'
    <2>1. Len(queue') <= QUEUE_MAX /\ counters'.emitted = Len(received')
        BY <1>2, <1>3, <1>4, <1>6 DEF SinkAppends, Counted, ExportTypes
    <2>2. ASSUME ~disturbed'
          PROVE  /\ counters'.dropped = built' - (Len(received') + Held' + Len(queue') + InSink')
                 /\ \A w \in Workers : flush'[w].at = "counts" => flush'[w].read = counters'.dropped
        <3>1. ~disturbed /\ ((sink.len >= QUEUE_MAX) <=> (Len(queue) = QUEUE_MAX))
            BY <2>2 DEF SinkAppends
        <3>2. sink.len >= QUEUE_MAX => \A w \in Workers : flush[w].at # "counts"
            BY <2>2 DEF SinkAppends
        <3>3. counters'.dropped = IF Len(queue) = QUEUE_MAX THEN counters.dropped + 1 ELSE counters.dropped
            BY <3>1 DEF SinkAppends, ExportTypes
        <3>4. counters.dropped = built - (Len(received) + Held + Len(queue) + 1)
            BY <1>2, <3>1 DEF Counted
        <3>5. Len(received) \in Nat /\ Held \in Nat
            BY HeldSizes
        <3>6. counters'.dropped = built' - (Len(received') + Held' + Len(queue') + InSink')
            BY <1>2, <1>4, <1>6, <3>3, <3>4, <3>5
        <3>7. \A w \in Workers : flush[w].at = "counts" => flush[w].read = counters'.dropped
            BY <3>1, <3>2, <3>3 DEF Counted
        <3>8. QED
            BY <1>2, <3>6, <3>7
    <2>3. QED
        BY <2>1, <2>2 DEF Counted
<1>15. QED
    BY <1>7, <1>8, <1>12, <1>14

\* The one that flushes goes on, and the others hold nothing.
LEMMA FlushTurns ==
    ASSUME ExportInv, NEW w \in Workers, flush[w].at # "idle" \/ \A v \in Workers : flush[v].at = "idle",
           NEW at \in {"idle", "batches", "posts", "counts"}, NEW batch \in Seq(Posted), NEW read \in Int,
           flush' = [flush EXCEPT ![w] = [at |-> at, batch |-> batch, read |-> read]],
           at \in {"idle", "batches"} => batch = <<>>
    PROVE  /\ flush' \in [Workers -> [at : {"idle", "batches", "posts", "counts"}, batch : Seq(Posted), read : Int]]
           /\ OneFlushes'
           /\ Held' = Len(batch)
           /\ flush'[w] = [at |-> at, batch |-> batch, read |-> read]
           /\ \A v \in Workers \ {w} : flush'[v].batch = <<>> /\ flush'[v].at = "idle"
<1>1. /\ flush \in [Workers -> [at : {"idle", "batches", "posts", "counts"}, batch : Seq(Posted), read : Int]]
      /\ \A v \in Workers \ {w} : flush[v].batch = <<>> /\ flush[v].at = "idle"
    BY HeldSizes DEF ExportInv, ExportTypes, OneFlushes
<1>2. /\ flush'[w] = [at |-> at, batch |-> batch, read |-> read]
      /\ \A v \in Workers \ {w} : flush'[v].batch = <<>> /\ flush'[v].at = "idle"
    BY <1>1
<1>3. flush' \in [Workers -> [at : {"idle", "batches", "posts", "counts"}, batch : Seq(Posted), read : Int]]
    BY <1>1
<1>4. OneFlushes'
    BY <1>2 DEF OneFlushes
<1>5. Held' = Len(batch)
    <2>1. flush'["loop"].batch = (IF w = "loop" THEN batch ELSE <<>>) /\ flush'["stop"].batch = (IF w = "stop" THEN batch ELSE <<>>)
        BY <1>2 DEF Workers
    <2>2. Held' = Len(flush'["loop"].batch) + Len(flush'["stop"].batch)
        BY DEF Held
    <2>3. Len(batch) \in Nat /\ Len(<<>>) = 0
        BY LenProperties
    <2>4. w = "loop" \/ w = "stop"
        BY DEF Workers
    <2>5. CASE w = "loop"
        BY <2>1, <2>2, <2>3, <2>5
    <2>6. CASE w = "stop"
        BY <2>1, <2>2, <2>3, <2>6
    <2>7. QED
        BY <2>4, <2>5, <2>6
<1>6. QED
    BY <1>2, <1>3, <1>4, <1>5

\* What is left to show of a step of the one that flushes.
LEMMA FlushInv ==
    ASSUME ExportInv, NEW w \in Workers, flush[w].at # "idle" \/ \A v \in Workers : flush[v].at = "idle",
           NEW at \in {"idle", "batches", "posts", "counts"}, NEW batch \in Seq(Posted), NEW read \in Int,
           flush' = [flush EXCEPT ![w] = [at |-> at, batch |-> batch, read |-> read]],
           at \in {"idle", "batches"} => batch = <<>>,
           UNCHANGED Others,
           counters' \in [emitted : Nat, dropped : Int], received' \in Seq(Posted), queue' \in Seq(Spans),
           Ordered(received'), Ordered(queue'), Older(received', queue'),
           UpTo(received', built - InSink), UpTo(queue', built - InSink),
           Ordered(batch), UpTo(batch, built - InSink), Older(received', batch), Older(batch, queue'),
           Len(queue') <= QUEUE_MAX,
           counters'.emitted = Len(received'),
           ~disturbed' => /\ counters'.dropped = built - (Len(received') + Len(batch) + Len(queue') + InSink)
                          /\ at = "counts" => read = counters'.dropped
    PROVE  ExportInv'
<1>1. /\ flush' \in [Workers -> [at : {"idle", "batches", "posts", "counts"}, batch : Seq(Posted), read : Int]]
      /\ OneFlushes'
      /\ Held' = Len(batch)
      /\ flush'[w] = [at |-> at, batch |-> batch, read |-> read]
      /\ \A v \in Workers \ {w} : flush'[v].batch = <<>> /\ flush'[v].at = "idle"
    BY FlushTurns
<1>2. UNCHANGED <<scope, sink, built>> /\ InSink' = InSink
    BY DEF Others, InSink
<1>3. ExportTypes'
    BY <1>1, <1>2 DEF ExportInv, ExportTypes
<1>4. ASSUME NEW v \in Workers
      PROVE  /\ Ordered(flush'[v].batch) /\ UpTo(flush'[v].batch, built' - InSink')
             /\ Older(received', flush'[v].batch) /\ Older(flush'[v].batch, queue')
    <2>1. CASE v = w
        BY <1>1, <1>2, <2>1
    <2>2. CASE v # w
        BY <1>1, <2>2, EmptyInOrder
    <2>3. QED
        BY <2>1, <2>2
<1>5. SpansInOrder'
    BY <1>2, <1>4 DEF SpansInOrder
<1>6. ~disturbed' => \A v \in Workers : flush'[v].at = "counts" => flush'[v].read = counters'.dropped
    BY <1>1
<1>7. Counted'
    BY <1>1, <1>2, <1>6 DEF Counted
<1>8. QED
    BY <1>1, <1>3, <1>5, <1>7 DEF ExportInv

LEMMA FlushStartsInv ==
    ASSUME ExportInv, NEW w \in Workers, FlushStarts(w)
    PROVE  ExportInv'
<1>1. flush[w] \in [at : {"idle", "batches", "posts", "counts"}, batch : Seq(Posted), read : Int]
    BY DEF ExportInv, ExportTypes
<1>2. flush[w].batch = <<>> /\ flush[w].at = "idle" /\ \A v \in Workers : flush[v].at = "idle"
    BY DEF FlushStarts, ExportInv, OneFlushes
<1>3. flush' = [flush EXCEPT ![w] = [at |-> "batches", batch |-> <<>>, read |-> flush[w].read]]
    <2>1. [flush[w] EXCEPT !.at = "batches"] = [at |-> "batches", batch |-> <<>>, read |-> flush[w].read]
        BY <1>1, <1>2
    <2>2. flush' = [flush EXCEPT ![w] = [flush[w] EXCEPT !.at = "batches"]]
        BY DEF FlushStarts
    <2>3. QED
        BY <2>1, <2>2
<1>4. UNCHANGED <<queue, counters, received, disturbed, Others>>
    BY DEF FlushStarts
<1>5. Held = 0
    <2>1. flush["loop"].batch = <<>> /\ flush["stop"].batch = <<>>
        BY <1>2 DEF Workers, ExportInv, OneFlushes
    <2>2. QED
        BY <2>1 DEF Held
<1>6. <<>> \in Seq(Posted) /\ flush[w].read \in Int /\ Len(<<>>) = 0
    BY <1>1
<1>7. ~disturbed => counters.dropped = built - (Len(received) + 0 + Len(queue) + InSink)
    BY <1>5 DEF ExportInv, Counted
<1>8. /\ counters' \in [emitted : Nat, dropped : Int] /\ received' \in Seq(Posted) /\ queue' \in Seq(Spans)
      /\ Len(queue') <= QUEUE_MAX /\ counters'.emitted = Len(received')
    BY <1>4 DEF ExportInv, ExportTypes, Counted
<1>9. /\ Ordered(received') /\ Ordered(queue') /\ Older(received', queue')
      /\ UpTo(received', built - InSink) /\ UpTo(queue', built - InSink)
    BY <1>4 DEF ExportInv, SpansInOrder
<1>10. QED
    BY <1>2, <1>3, <1>4, <1>6, <1>7, <1>8, <1>9, EmptyInOrder, FlushInv

\* The oldest spans go from the queue to the one that flushes.
LEMMA TakesBatchInv ==
    ASSUME ExportInv, NEW w \in Workers, TakesBatch(w)
    PROVE  ExportInv'
<1> DEFINE n == IF Len(queue) < BATCH_MAX THEN Len(queue) ELSE BATCH_MAX
           Labelled(s) == [n |-> s.n, run |-> s.run, parent |-> s.parent, label |-> scope.run]
           batch == [i \in 1 .. n |-> Labelled(queue[i])]
<1>1. /\ flush[w].at = "batches" /\ flush[w].batch = <<>> /\ Held = 0
      /\ queue \in Seq(Spans) /\ Len(queue) \in Nat
    BY HeldSizes DEF TakesBatch, ExportInv, ExportTypes, OneFlushes
<1>2. n \in 0 .. Len(queue) /\ n \in Nat
    BY <1>1, ExportAssumption
<1>3. /\ queue' = SubSeq(queue, n + 1, Len(queue))
      /\ IF n = 0 THEN Ends(w) ELSE flush' = [flush EXCEPT ![w] = [at |-> "posts", batch |-> batch, read |-> 0]]
      /\ UNCHANGED <<counters, received, disturbed, Others>>
    BY DEF TakesBatch
<1>4. batch \in Seq(Posted) /\ Len(batch) = n /\ \A i \in 1 .. n : batch[i].n = queue[i].n
    <2>1. \A i \in 1 .. n : queue[i] \in Spans
        BY <1>1, <1>2, ElementOfSeq
    <2>2. \A i \in 1 .. n : Labelled(queue[i]) \in Posted
        BY <2>1 DEF Posted, Spans, ExportInv, ExportTypes, Scopes
    <2> HIDE DEF n
    <2>3. batch \in Seq(Posted)
        <3> DEFINE f(i) == Labelled(queue[i])
        <3>1. \A i \in 1 .. n : f(i) \in Posted
            BY <2>2
        <3> HIDE DEF f
        <3>2. [i \in 1 .. n |-> f(i)] \in Seq(Posted)
            BY <1>2, <3>1
        <3>3. QED
            BY <3>2 DEF f
    <2>4. Len(batch) = n
        BY <1>2
    <2>5. QED
        BY <2>3, <2>4
<1> HIDE DEF n, batch
<1>5. /\ queue' \in Seq(Spans) /\ Len(queue') = Len(queue) - n
      /\ \A i \in 1 .. Len(queue') : n + i \in 1 .. Len(queue) /\ queue'[i] = queue[n + i]
    BY <1>1, <1>2, <1>3, Divided
<1>6. /\ Ordered(received) /\ Ordered(queue) /\ Older(received, queue)
      /\ UpTo(received, built - InSink) /\ UpTo(queue, built - InSink)
    BY DEF ExportInv, SpansInOrder
<1>7. Ordered(queue') /\ Older(received, queue') /\ UpTo(queue', built - InSink)
    <2>1. Len(queue') \in Nat /\ \A i \in 1 .. Len(queue') : queue'[i].n = queue[n + i].n
        BY <1>1, <1>2, <1>5
    <2>2. QED
        BY <1>2, <1>5, <1>6, <2>1, Drawn
<1>8. Ordered(batch) /\ Older(received, batch) /\ UpTo(batch, built - InSink)
    <2>1. \A i \in 1 .. Len(batch) : 0 + i \in 1 .. Len(queue) /\ batch[i].n = queue[0 + i].n
        BY <1>1, <1>2, <1>4
    <2>2. QED
        BY <1>2, <1>4, <1>6, <2>1, Drawn
<1>9. Older(batch, queue')
    <2>1. ASSUME NEW i \in 1 .. Len(batch), NEW j \in 1 .. Len(queue') PROVE batch[i].n < queue'[j].n
        <3>1. batch[i].n = queue[i].n /\ queue'[j] = queue[n + j] /\ n + j \in 1 .. Len(queue)
            BY <1>4, <1>5
        <3>2. i \in 1 .. Len(queue) /\ i < n + j
            BY <1>1, <1>2, <1>4, <1>5
        <3>3. QED
            BY <1>6, <3>1, <3>2 DEF Ordered
    <2>2. QED
        BY <2>1 DEF Older
<1>10. ~disturbed' => counters'.dropped = built - (Len(received') + Len(batch) + Len(queue') + InSink)
    <2>1. ~disturbed => counters.dropped = built - (Len(received) + Held + Len(queue) + InSink)
        BY DEF ExportInv, Counted
    <2>2. Len(received) \in Nat /\ InSink \in Nat /\ built \in Nat
        BY HeldSizes
    <2>3. Len(batch) + Len(queue') = Held + Len(queue)
        BY <1>1, <1>2, <1>4, <1>5
    <2>4. UNCHANGED <<counters, received, disturbed>>
        BY <1>3
    <2>5. Len(batch) \in Nat /\ Len(queue') \in Nat /\ Len(queue) \in Nat /\ Held \in Nat
        BY <1>1, <1>2, <1>4, <1>5, LenProperties
    <2>6. QED
        BY <2>1, <2>2, <2>3, <2>4, <2>5
<1>11. /\ counters' \in [emitted : Nat, dropped : Int] /\ received' \in Seq(Posted)
       /\ Len(queue') <= QUEUE_MAX /\ counters'.emitted = Len(received')
    <2>1. QUEUE_MAX \in Nat /\ Len(queue) <= QUEUE_MAX
        BY ExportAssumption DEF ExportInv, Counted
    <2>2. Len(queue') <= QUEUE_MAX
        BY <1>1, <1>2, <1>5, <2>1
    <2>3. QED
        BY <1>3, <2>2 DEF ExportInv, ExportTypes, Counted
<1>12. PICK at \in {"idle", "posts"} :
           /\ flush' = [flush EXCEPT ![w] = [at |-> at, batch |-> batch, read |-> 0]]
           /\ at = "idle" => batch = <<>>
    <2>1. CASE n = 0
        <3>1. batch = <<>>
            BY <1>4, <2>1, EmptySeq
        <3>2. QED
            BY <1>3, <2>1, <3>1 DEF Ends, Idle
    <2>2. CASE n # 0
        BY <1>3, <2>2
    <2>3. QED
        BY <2>1, <2>2
<1>13. at \in {"idle", "batches", "posts", "counts"} /\ (at \in {"idle", "batches"} => batch = <<>>) /\ at # "counts"
    BY <1>12
<1>14. Ordered(received') /\ Older(received', queue') /\ UpTo(received', built - InSink) /\ Older(received', batch)
    BY <1>3, <1>6, <1>7, <1>8
<1>15. flush[w].at # "idle" /\ UNCHANGED Others /\ batch \in Seq(Posted) /\ 0 \in Int /\ queue' \in Seq(Spans)
    BY <1>1, <1>3, <1>4, <1>5
<1>16. QED
    BY <1>7, <1>8, <1>9, <1>10, <1>11, <1>12, <1>13, <1>14, <1>15, FlushInv

\* What is posted joins what the collector has.
LEMMA AcceptedInv ==
    ASSUME ExportInv, NEW w \in Workers, Accepted(w)
    PROVE  ExportInv'
<1> DEFINE batch == flush[w].batch
<1>1. /\ flush[w].at = "posts" /\ received' = received \o batch
      /\ counters' = [counters EXCEPT !.emitted = counters.emitted + Len(batch)]
      /\ flush' = [flush EXCEPT ![w] = [at |-> "batches", batch |-> <<>>, read |-> 0]]
      /\ UNCHANGED <<queue, disturbed, Others>>
    <2>1. [Idle EXCEPT !.at = "batches"] = [at |-> "batches", batch |-> <<>>, read |-> 0]
        BY DEF Idle
    <2>2. QED
        BY <2>1 DEF Accepted
<1>2. batch \in Seq(Posted) /\ Len(batch) \in Nat /\ Held = Len(batch) /\ Len(received) \in Nat /\ received \in Seq(Posted)
    BY <1>1, HeldSizes DEF ExportInv, ExportTypes
<1>3. /\ Ordered(received) /\ Ordered(queue) /\ Older(received, queue)
      /\ UpTo(received, built - InSink) /\ UpTo(queue, built - InSink)
      /\ Ordered(batch) /\ UpTo(batch, built - InSink)
      /\ Older(received, batch) /\ Older(batch, queue)
    BY DEF ExportInv, SpansInOrder
<1> HIDE DEF batch
<1>4. /\ received' \in Seq(Posted) /\ Len(received') = Len(received) + Len(batch)
      /\ Ordered(received') /\ Older(received', queue) /\ UpTo(received', built - InSink)
    BY <1>1, <1>2, <1>3, Together, InOrderTogether, OlderTogether
<1>5. counters' \in [emitted : Nat, dropped : Int] /\ counters'.emitted = Len(received')
    <2>1. counters \in [emitted : Nat, dropped : Int] /\ counters.emitted = Len(received)
        BY DEF ExportInv, ExportTypes, Counted
    <2>2. counters.emitted + Len(batch) \in Nat
        BY <1>2, <2>1
    <2>3. counters' \in [emitted : Nat, dropped : Int] /\ counters'.emitted = counters.emitted + Len(batch)
        BY <1>1, <2>1, <2>2
    <2>4. QED
        BY <1>4, <2>1, <2>3
<1>6. ~disturbed' => counters'.dropped = built - (Len(received') + 0 + Len(queue) + InSink)
    <2>1. ~disturbed => counters.dropped = built - (Len(received) + Held + Len(queue) + InSink)
        BY DEF ExportInv, Counted
    <2>2. counters'.dropped = counters.dropped
        BY <1>1 DEF ExportInv, ExportTypes
    <2>3. built \in Nat /\ InSink \in Nat /\ Len(queue) \in Nat
        BY HeldSizes
    <2>4. QED
        BY <1>1, <1>2, <1>4, <2>1, <2>2, <2>3
<1>7. queue \in Seq(Spans) /\ Len(queue) <= QUEUE_MAX
    BY DEF ExportInv, ExportTypes, Counted
<1>8. <<>> \in Seq(Posted) /\ Len(<<>>) = 0
    OBVIOUS
<1>9. /\ queue' \in Seq(Spans) /\ Len(queue') <= QUEUE_MAX /\ Ordered(queue') /\ UpTo(queue', built - InSink)
      /\ Older(received', queue')
      /\ ~disturbed' => counters'.dropped = built - (Len(received') + Len(<<>>) + Len(queue') + InSink)
    BY <1>1, <1>3, <1>4, <1>6, <1>7, <1>8
<1>10. UNCHANGED Others /\ flush[w].at # "idle" /\ 0 \in Int
    BY <1>1
<1>11. flush' = [flush EXCEPT ![w] = [at |-> "batches", batch |-> <<>>, read |-> 0]]
    BY <1>1
<1>12. QED
    BY <1>4, <1>5, <1>8, <1>9, <1>10, <1>11, EmptyInOrder, FlushInv

\* What was posted goes back in front of the queue, as far as there is room.
LEMMA PostponedInv ==
    ASSUME ExportInv, NEW w \in Workers, Postponed(w)
    PROVE  ExportInv'
<1> DEFINE batch == flush[w].batch
           back == [i \in DOMAIN flush[w].batch |-> Unlabelled(flush[w].batch[i])]
           all == back \o queue
           n == IF Len(all) < QUEUE_MAX THEN Len(all) ELSE QUEUE_MAX
<1>1. /\ flush[w].at = "posts" /\ queue' = SubSeq(all, 1, n)
      /\ disturbed' = (disturbed \/ Len(all) > QUEUE_MAX)
      /\ flush' = [flush EXCEPT ![w] = [at |-> "idle", batch |-> <<>>, read |-> 0]]
      /\ UNCHANGED <<counters, received, Others>>
    BY DEF Postponed, PutBack, Ends, Idle
<1>2. batch \in Seq(Posted) /\ Len(batch) \in Nat /\ Held = Len(batch) /\ queue \in Seq(Spans) /\ Len(queue) \in Nat
    BY <1>1, HeldSizes DEF ExportInv, ExportTypes
<1>3. back \in Seq(Spans) /\ Len(back) = Len(batch) /\ \A i \in 1 .. Len(back) : back[i].n = batch[i].n
    <2>1. DOMAIN batch = 1 .. Len(batch)
        BY <1>2
    <2>2. \A i \in 1 .. Len(batch) : batch[i] \in Posted
        BY <1>2, ElementOfSeq
    <2>3. \A i \in 1 .. Len(batch) : Unlabelled(batch[i]) \in Spans
        BY <2>2 DEF Posted, Spans, Unlabelled
    <2>4. back = [i \in 1 .. Len(batch) |-> Unlabelled(batch[i])]
        BY <2>1
    <2>5. \A i \in 1 .. Len(batch) : Unlabelled(batch[i]).n = batch[i].n
        BY DEF Unlabelled
    <2> DEFINE f(i) == Unlabelled(batch[i])
               k == Len(batch)
    <2>6. /\ \A i \in 1 .. k : f(i) \in Spans /\ f(i).n = batch[i].n
          /\ back = [i \in 1 .. k |-> f(i)] /\ k \in Nat
        BY <1>2, <2>3, <2>4, <2>5
    <2> HIDE DEF f, k, back, batch
    <2>7. back \in Seq(Spans) /\ Len(back) = k
        BY <2>6
    <2>8. \A i \in 1 .. Len(back) : back[i].n = batch[i].n
        BY <2>6, <2>7
    <2>9. QED
        BY <2>7, <2>8 DEF k
<1>4. /\ Ordered(received) /\ Ordered(queue) /\ Older(received, queue)
      /\ UpTo(received, built - InSink) /\ UpTo(queue, built - InSink)
      /\ Ordered(batch) /\ UpTo(batch, built - InSink)
      /\ Older(received, batch) /\ Older(batch, queue)
    BY DEF ExportInv, SpansInOrder
<1> HIDE DEF batch, back, all, n
<1>5. Ordered(back) /\ UpTo(back, built - InSink) /\ Older(received, back) /\ Older(back, queue)
    <2>1. \A i \in 1 .. Len(back) : 0 + i \in 1 .. Len(batch) /\ back[i].n = batch[0 + i].n
        BY <1>2, <1>3
    <2>2. QED
        BY <1>2, <1>3, <1>4, <2>1, Drawn
<1>6. /\ all \in Seq(Spans) /\ Len(all) = Len(back) + Len(queue)
      /\ Ordered(all) /\ Older(received, all) /\ UpTo(all, built - InSink)
    BY <1>2, <1>3, <1>4, <1>5, Together, InOrderTogether, OlderTogether DEF all
<1>7. QUEUE_MAX \in Nat /\ n \in 0 .. Len(all) /\ n <= QUEUE_MAX /\ n \in Nat
    BY <1>2, <1>3, <1>6, ExportAssumption DEF n
<1>8. queue' \in Seq(Spans) /\ Len(queue') = n /\ \A i \in 1 .. n : i \in 1 .. Len(all) /\ queue'[i] = all[i]
    BY <1>1, <1>6, <1>7, Divided
<1>9. Ordered(queue') /\ Older(received, queue') /\ UpTo(queue', built - InSink)
    <2>1. \A i \in 1 .. Len(queue') : 0 + i \in 1 .. Len(all) /\ queue'[i].n = all[0 + i].n
        BY <1>7, <1>8
    <2>2. QED
        BY <1>6, <1>7, <1>8, <2>1, Drawn
<1>10. ~disturbed' => counters'.dropped = built - (Len(received') + Len(<<>>) + Len(queue') + InSink)
    <2>1. ~disturbed => counters.dropped = built - (Len(received) + Held + Len(queue) + InSink)
        BY DEF ExportInv, Counted
    <2>2. ~disturbed' => ~disturbed /\ ~(Len(all) > QUEUE_MAX) /\ UNCHANGED <<counters, received>>
        BY <1>1
    <2>3. ~(Len(all) > QUEUE_MAX) => n = Len(all)
        <3>1. Len(all) \in Nat
            BY <1>2, <1>3, <1>6
        <3>2. QED
            BY <1>7, <3>1 DEF n
    <2>4. built \in Nat /\ InSink \in Nat /\ Len(received) \in Nat /\ Len(<<>>) = 0
        BY HeldSizes
    <2>5. QED
        BY <1>2, <1>3, <1>6, <1>8, <2>1, <2>2, <2>3, <2>4
<1>11. /\ counters' \in [emitted : Nat, dropped : Int] /\ received' \in Seq(Posted)
       /\ Len(queue') <= QUEUE_MAX /\ counters'.emitted = Len(received')
    BY <1>1, <1>7, <1>8 DEF ExportInv, ExportTypes, Counted
<1>12. /\ flush[w].at # "idle" /\ UNCHANGED Others /\ <<>> \in Seq(Posted) /\ 0 \in Int
       /\ Ordered(received') /\ UpTo(received', built - InSink) /\ Older(received', queue')
    BY <1>1, <1>4, <1>9
<1>13. flush' = [flush EXCEPT ![w] = [at |-> "idle", batch |-> <<>>, read |-> 0]]
    BY <1>1
<1>14. QED
    BY <1>8, <1>9, <1>10, <1>11, <1>12, <1>13, EmptyInOrder, FlushInv

\* The count of drops is read.
LEMMA RefusedInv ==
    ASSUME ExportInv, NEW w \in Workers, Refused(w)
    PROVE  ExportInv'
<1> DEFINE batch == flush[w].batch
           read == counters.dropped
<1>1. /\ flush[w].at = "posts" /\ UNCHANGED <<queue, counters, received, disturbed, Others>>
      /\ batch \in Seq(Posted) /\ Held = Len(batch)
    BY HeldSizes DEF Refused
<1>2. flush' = [flush EXCEPT ![w] = [at |-> "counts", batch |-> batch, read |-> read]]
    <2>1. flush[w] \in [at : {"idle", "batches", "posts", "counts"}, batch : Seq(Posted), read : Int]
        BY DEF ExportInv, ExportTypes
    <2> DEFINE after == [flush[w] EXCEPT !.at = "counts", !.read = read]
    <2>2. after = [at |-> "counts", batch |-> batch, read |-> read]
        <3>1. read \in Int
            BY DEF ExportInv, ExportTypes
        <3> HIDE DEF read
        <3>2. /\ after \in [at : {"idle", "batches", "posts", "counts"}, batch : Seq(Posted), read : Int]
              /\ after.at = "counts" /\ after.batch = batch /\ after.read = read
            BY <2>1, <3>1
        <3> HIDE DEF after
        <3>3. after = [at |-> after.at, batch |-> after.batch, read |-> after.read]
            BY <3>2
        <3>4. QED
            BY <3>2, <3>3
    <2>3. flush' = [flush EXCEPT ![w] = [flush[w] EXCEPT !.at = "counts", !.read = read]]
        <3>1. flush \in [Workers -> [at : {"idle", "batches", "posts", "counts"}, batch : Seq(Posted), read : Int]]
            BY DEF ExportInv, ExportTypes
        <3>2. QED
            BY <3>1 DEF Refused
    <2>4. QED
        BY <2>2, <2>3
<1>3. /\ Ordered(received') /\ Ordered(queue') /\ Older(received', queue')
      /\ UpTo(received', built - InSink) /\ UpTo(queue', built - InSink)
      /\ Ordered(batch) /\ UpTo(batch, built - InSink)
      /\ Older(received', batch) /\ Older(batch, queue')
    BY <1>1 DEF ExportInv, SpansInOrder
<1>4. /\ counters' \in [emitted : Nat, dropped : Int] /\ received' \in Seq(Posted) /\ queue' \in Seq(Spans)
      /\ Len(queue') <= QUEUE_MAX /\ counters'.emitted = Len(received') /\ read \in Int
    BY <1>1 DEF ExportInv, ExportTypes, Counted
<1> HIDE DEF batch
<1>5. ~disturbed' => counters'.dropped = built - (Len(received') + Len(batch) + Len(queue') + InSink)
    BY <1>1 DEF ExportInv, Counted
<1>6. read = counters'.dropped /\ UNCHANGED Others /\ flush[w].at # "idle"
    BY <1>1
<1> HIDE DEF read
<1>7. QED
    BY <1>1, <1>2, <1>3, <1>4, <1>5, <1>6, FlushInv

\* The drop is counted.
LEMMA CountsDropInv ==
    ASSUME ExportInv, NEW w \in Workers, CountsDrop(w)
    PROVE  ExportInv'
<1> DEFINE batch == flush[w].batch
<1>1. /\ flush[w].at = "counts" /\ UNCHANGED <<queue, received, disturbed, Others>>
      /\ counters' = [counters EXCEPT !.dropped = flush[w].read + Len(batch)]
      /\ flush' = [flush EXCEPT ![w] = [at |-> "idle", batch |-> <<>>, read |-> 0]]
    BY DEF CountsDrop, Ends, Idle
<1>2. batch \in Seq(Posted) /\ Held = Len(batch) /\ Len(batch) \in Nat /\ flush[w].read \in Int
    BY <1>1, HeldSizes DEF ExportInv, ExportTypes
<1> HIDE DEF batch
<1>3. /\ Ordered(received') /\ Ordered(queue') /\ Older(received', queue')
      /\ UpTo(received', built - InSink) /\ UpTo(queue', built - InSink)
    BY <1>1 DEF ExportInv, SpansInOrder
<1>4. /\ counters' \in [emitted : Nat, dropped : Int] /\ counters'.emitted = Len(received')
      /\ counters'.dropped = flush[w].read + Len(batch)
    <2>1. counters \in [emitted : Nat, dropped : Int] /\ counters.emitted = Len(received)
        BY DEF ExportInv, ExportTypes, Counted
    <2>2. flush[w].read + Len(batch) \in Int
        BY <1>2
    <2>3. QED
        BY <1>1, <2>1, <2>2
<1>5. received' \in Seq(Posted) /\ queue' \in Seq(Spans) /\ Len(queue') <= QUEUE_MAX
    BY <1>1 DEF ExportInv, ExportTypes, Counted
<1>6. ~disturbed' => counters'.dropped = built - (Len(received') + Len(<<>>) + Len(queue') + InSink)
    <2>1. ~disturbed => /\ counters.dropped = built - (Len(received) + Held + Len(queue) + InSink)
                        /\ flush[w].read = counters.dropped
        BY <1>1 DEF ExportInv, Counted
    <2>2. built \in Nat /\ InSink \in Nat /\ Len(received) \in Nat /\ Len(queue) \in Nat /\ Len(<<>>) = 0
        BY HeldSizes
    <2>3. ~disturbed' => counters'.dropped = built - (Len(received) + Len(batch) + Len(queue) + InSink) + Len(batch)
        BY <1>1, <1>2, <1>4, <2>1
    <2>4. received' = received /\ queue' = queue
        BY <1>1
    <2>5. QED
        BY <1>2, <2>2, <2>3, <2>4
<1>7. UNCHANGED Others /\ flush[w].at # "idle" /\ <<>> \in Seq(Posted) /\ 0 \in Int
    BY <1>1
<1>8. flush' = [flush EXCEPT ![w] = [at |-> "idle", batch |-> <<>>, read |-> 0]]
    BY <1>1
<1>9. QED
    BY <1>3, <1>4, <1>5, <1>6, <1>7, <1>8, EmptyInOrder, FlushInv

\* A step that no span takes part in.
LEMMA SpansAside ==
    ASSUME ExportInv, UNCHANGED <<sink, queue, flush, counters, received, built, disturbed>>,
           scope' \in Scopes
    PROVE  ExportInv'
<1>1. InSink' = InSink /\ Held' = Held
    BY DEF InSink, Held
<1>2. ExportTypes'
    BY DEF ExportInv, ExportTypes
<1>3. OneFlushes'
    BY DEF ExportInv, OneFlushes
<1>4. SpansInOrder'
    BY <1>1 DEF ExportInv, SpansInOrder
<1>5. Counted'
    BY <1>1 DEF ExportInv, Counted
<1>6. QED
    BY <1>2, <1>3, <1>4, <1>5 DEF ExportInv

LEMMA ExportStepInv ==
    ASSUME ExportInv, ExportNext
    PROVE  ExportInv'
<1>1. scope \in Scopes
    BY DEF ExportInv, ExportTypes
<1>2. CASE \E m \in Messages : Published(m) \/ Forwarded(m)
    <2>1. PICK m \in Messages : Published(m) \/ Forwarded(m)
        BY <1>2
    <2>2. CASE Published(m)
        <3>1. scope' \in Scopes
            <4>1. PICK root \in Nat : scope' = [scope EXCEPT !.published = @ \union {m}, !.roots[m] = root]
                BY <1>1, <2>2 DEF Published, Scopes
            <4>2. QED
                BY <1>1, <4>1 DEF Scopes
        <3>2. NoRun \in Nat
            BY DEF NoRun
        <3>3. QED
            BY <2>2, <3>1, <3>2, BuildsInv, SpansAside DEF Published
    <2>3. CASE Forwarded(m)
        BY <1>1, <2>3, BuildsInv DEF Forwarded, Scopes
    <2>4. QED
        BY <2>1, <2>2, <2>3
<1>3. CASE PhaseFired \/ BoostOver \/ NewRunScope \/ StopCalled
    <2>1. UNCHANGED <<sink, queue, flush, counters, received, built, disturbed>>
        BY <1>3 DEF PhaseFired, BoostOver, NewRunScope, StopCalled
    <2>2. CASE PhaseFired \/ BoostOver
        <3>1. PICK boost \in {FALSE, TRUE} : scope' = [scope EXCEPT !.boost = boost]
            BY <2>2 DEF PhaseFired, BoostOver
        <3>2. QED
            BY <1>1, <2>1, <3>1, SpansAside DEF Scopes
    <2>3. CASE NewRunScope
        <3>1. scope' = [scope EXCEPT !.run = scope.run + 1, !.published = {}, !.boost = FALSE]
            BY <2>3 DEF NewRunScope
        <3>2. scope.run + 1 \in Nat
            BY <1>1 DEF Scopes
        <3>3. QED
            BY <1>1, <2>1, <3>1, <3>2, SpansAside DEF Scopes
    <2>4. CASE StopCalled
        BY <1>1, <2>1, <2>4, SpansAside DEF StopCalled
    <2>5. QED
        BY <1>3, <2>2, <2>3, <2>4
<1>4. CASE SinkAppends
    BY <1>4, SinkAppendsInv
<1>5. CASE \E w \in Workers : FlushStep(w)
    BY <1>5, FlushStartsInv, TakesBatchInv, AcceptedInv, PostponedInv, RefusedInv, CountsDropInv DEF FlushStep
<1>6. QED
    BY <1>2, <1>3, <1>4, <1>5 DEF ExportNext

----------------------------------------------------------------------------
(* What the collector has, what is posted, what waits and what is being     *)
(* appended, as one sequence of numbers.                                    *)

Rising(s) == \A i, j \in 1 .. Len(s) : i < j => s[i] < s[j]

\* t takes the numbers of s on.
Continues(s, t) == \A i \in 1 .. Len(s), j \in 1 .. Len(t) : s[i] < t[j]

LEMMA RisingTogether ==
    ASSUME NEW s \in Seq(Nat), NEW t \in Seq(Nat), Rising(s), Rising(t), Continues(s, t)
    PROVE  /\ s \o t \in Seq(Nat) /\ Len(s \o t) = Len(s) + Len(t) /\ Rising(s \o t)
           /\ \A u : Continues(s, u) /\ Continues(t, u) => Continues(s \o t, u)
<1> DEFINE both == s \o t
<1>1. /\ both \in Seq(Nat) /\ Len(both) = Len(s) + Len(t)
      /\ \A i \in 1 .. Len(both) :
             \/ i \in 1 .. Len(s) /\ both[i] = s[i]
             \/ i - Len(s) \in 1 .. Len(t) /\ both[i] = t[i - Len(s)]
    BY Together
<1>2. Len(s) \in Nat /\ Len(t) \in Nat /\ Len(both) \in Nat
    BY <1>1, LenProperties
<1> HIDE DEF both
<1>3. ASSUME NEW i \in 1 .. Len(both), NEW j \in 1 .. Len(both), i < j
      PROVE  both[i] < both[j]
    <2>1. CASE i \in 1 .. Len(s) /\ j \in 1 .. Len(s)
        <3>1. both[i] = s[i] /\ both[j] = s[j]
            BY <1>1, <1>2, <2>1
        <3>2. QED
            BY <1>3, <2>1, <3>1 DEF Rising
    <2>2. CASE i \in 1 .. Len(s) /\ ~(j \in 1 .. Len(s))
        <3>1. both[i] = s[i] /\ both[j] = t[j - Len(s)] /\ j - Len(s) \in 1 .. Len(t)
            BY <1>1, <1>2, <2>2
        <3>2. QED
            BY <2>2, <3>1 DEF Continues
    <2>3. CASE ~(i \in 1 .. Len(s))
        <3>1. both[i] = t[i - Len(s)] /\ i - Len(s) \in 1 .. Len(t) /\ ~(j \in 1 .. Len(s))
            BY <1>1, <1>2, <1>3, <2>3
        <3>2. both[j] = t[j - Len(s)] /\ j - Len(s) \in 1 .. Len(t)
            BY <1>1, <3>1
        <3>3. i - Len(s) < j - Len(s)
            BY <1>2, <1>3
        <3>4. QED
            BY <3>1, <3>2, <3>3 DEF Rising
    <2>4. QED
        BY <2>1, <2>2, <2>3
<1>4. \A i \in 1 .. Len(both) :
          (\E k \in 1 .. Len(s) : both[i] = s[k]) \/ (\E k \in 1 .. Len(t) : both[i] = t[k])
    BY <1>1
<1>5. \A u : Continues(s, u) /\ Continues(t, u) => Continues(both, u)
    BY <1>4 DEF Continues
<1>6. QED
    BY <1>1, <1>3, <1>5 DEF Rising, both

LEMMA NumbersOf ==
    ASSUME NEW T, NEW s \in Seq(T), \A e \in T : e.n \in Nat
    PROVE  /\ Numbers(s) \in Seq(Nat) /\ Len(Numbers(s)) = Len(s)
           /\ \A i \in 1 .. Len(s) : Numbers(s)[i] = s[i].n
<1> DEFINE k == Len(s)
           f(i) == s[i].n
<1>1. k \in Nat /\ DOMAIN s = 1 .. k
    BY LenProperties
<1>2. \A i \in 1 .. k : s[i] \in T
    BY ElementOfSeq
<1>3. \A i \in 1 .. k : f(i) \in Nat
    BY <1>2
<1>4. Numbers(s) = [i \in 1 .. k |-> f(i)]
    BY <1>1 DEF Numbers
<1>5. \A i \in 1 .. k : f(i) = s[i].n
    OBVIOUS
<1> HIDE DEF k, f
<1>6. Numbers(s) \in Seq(Nat) /\ Len(Numbers(s)) = k
    BY <1>1, <1>3, <1>4
<1>7. \A i \in 1 .. k : Numbers(s)[i] = s[i].n
    BY <1>1, <1>4, <1>5
<1>8. QED
    BY <1>6, <1>7 DEF k

LEMMA NumbersKeepOrder ==
    ASSUME NEW S, NEW s \in Seq(S), NEW T, NEW t \in Seq(T), NEW top,
           \A e \in S : e.n \in Nat, \A e \in T : e.n \in Nat
    PROVE  /\ Ordered(s) => Rising(Numbers(s))
           /\ Older(s, t) => Continues(Numbers(s), Numbers(t))
           /\ UpTo(s, top) => \A i \in 1 .. Len(Numbers(s)) : Numbers(s)[i] <= top
<1> DEFINE f == Numbers(s)
           g == Numbers(t)
<1>1. /\ Len(f) = Len(s) /\ \A i \in 1 .. Len(s) : f[i] = s[i].n
      /\ Len(g) = Len(t) /\ \A i \in 1 .. Len(t) : g[i] = t[i].n
    BY NumbersOf
<1> HIDE DEF f, g
<1>2. ASSUME Ordered(s), NEW i \in 1 .. Len(f), NEW j \in 1 .. Len(f), i < j PROVE f[i] < f[j]
    <2>1. f[i] = s[i].n /\ f[j] = s[j].n /\ s[i].n < s[j].n
        BY <1>1, <1>2 DEF Ordered
    <2>2. QED
        BY <2>1
<1>3. ASSUME Older(s, t), NEW i \in 1 .. Len(f), NEW j \in 1 .. Len(g) PROVE f[i] < g[j]
    <2>1. f[i] = s[i].n /\ g[j] = t[j].n /\ s[i].n < t[j].n
        BY <1>1, <1>3 DEF Older
    <2>2. QED
        BY <2>1
<1>4. ASSUME UpTo(s, top), NEW i \in 1 .. Len(f) PROVE f[i] <= top
    <2>1. f[i] = s[i].n /\ s[i].n <= top
        BY <1>1, <1>4 DEF UpTo
    <2>2. QED
        BY <2>1
<1>5. QED
    BY <1>2, <1>3, <1>4 DEF Rising, Continues, f, g

LEMMA SpansAccountedFor == ExportInv => SpansAccounted
<1> SUFFICES ASSUME ExportInv PROVE SpansAccounted
    OBVIOUS
<1> DEFINE mine == Numbers(received)
           hand == Numbers(InHand)
           waiting == Numbers(queue)
           coming == IF sink = Nothing THEN <<>> ELSE <<sink.n>>
<1>1. \A e \in Posted : e.n \in Nat
    BY DEF Posted
<1>2. \A e \in Spans : e.n \in Nat
    BY DEF Spans
<1>3. /\ received \in Seq(Posted) /\ queue \in Seq(Spans)
      /\ flush["loop"].batch \in Seq(Posted) /\ flush["stop"].batch \in Seq(Posted)
    BY DEF ExportInv, ExportTypes, Workers
<1>4. /\ Ordered(flush["loop"].batch) /\ Ordered(flush["stop"].batch)
      /\ Older(flush["loop"].batch, flush["stop"].batch)
      /\ Older(flush["loop"].batch, queue) /\ Older(flush["stop"].batch, queue)
      /\ Older(received, flush["loop"].batch) /\ Older(received, flush["stop"].batch)
      /\ UpTo(flush["loop"].batch, built - InSink) /\ UpTo(flush["stop"].batch, built - InSink)
    <2>1. flush["loop"].batch = <<>> \/ flush["stop"].batch = <<>>
        BY DEF ExportInv, ExportTypes, OneFlushes, Workers
    <2>2. QED
        BY <2>1, EmptyInOrder DEF ExportInv, SpansInOrder, Workers
<1>5. /\ InHand \in Seq(Posted) /\ Len(InHand) = Held
      /\ Ordered(InHand) /\ Older(received, InHand) /\ Older(InHand, queue) /\ UpTo(InHand, built - InSink)
    BY <1>3, <1>4, Together, InOrderTogether, OlderTogether DEF InHand, Held
<1>6. /\ mine \in Seq(Nat) /\ Len(mine) = Len(received) /\ \A i \in 1 .. Len(received) : mine[i] = received[i].n
      /\ hand \in Seq(Nat) /\ Len(hand) = Len(InHand) /\ \A i \in 1 .. Len(InHand) : hand[i] = InHand[i].n
      /\ waiting \in Seq(Nat) /\ Len(waiting) = Len(queue) /\ \A i \in 1 .. Len(queue) : waiting[i] = queue[i].n
    BY <1>1, <1>2, <1>3, <1>5, NumbersOf
<1>7. /\ coming \in Seq(Nat) /\ Len(coming) = InSink
      /\ \A i \in 1 .. Len(coming) : coming[i] = built /\ i = 1 /\ InSink = 1
    <2>1. CASE sink = Nothing
        BY <2>1 DEF InSink
    <2>2. CASE sink # Nothing
        <3>1. sink.n = built /\ built \in Nat
            BY <2>2 DEF ExportInv, ExportTypes
        <3>2. coming = <<built>> /\ InSink = 1
            BY <2>2, <3>1 DEF InSink
        <3> HIDE DEF coming
        <3>3. coming \in Seq(Nat) /\ Len(coming) = 1 /\ coming[1] = built
            BY <3>1, <3>2
        <3>4. QED
            BY <3>2, <3>3
    <2>3. QED
        BY <2>1, <2>2
<1> HIDE DEF mine, hand, waiting, coming
<1>8. Rising(mine) /\ Rising(hand) /\ Rising(waiting) /\ Rising(coming)
    <2>1. Ordered(received) /\ Ordered(queue)
        BY DEF ExportInv, SpansInOrder
    <2>2. Rising(mine) /\ Rising(hand) /\ Rising(waiting)
        BY <1>1, <1>2, <1>3, <1>5, <2>1, NumbersKeepOrder DEF mine, hand, waiting
    <2>3. Rising(coming)
        BY <1>7 DEF Rising
    <2>4. QED
        BY <2>2, <2>3
<1>9. /\ Continues(mine, hand) /\ Continues(mine, waiting) /\ Continues(mine, coming)
      /\ Continues(hand, waiting) /\ Continues(hand, coming) /\ Continues(waiting, coming)
    <2>1. Older(received, queue) /\ UpTo(received, built - InSink) /\ UpTo(queue, built - InSink)
        BY DEF ExportInv, SpansInOrder
    <2>2. Continues(mine, hand) /\ Continues(mine, waiting) /\ Continues(hand, waiting)
        BY <1>1, <1>2, <1>3, <1>5, <2>1, NumbersKeepOrder DEF mine, hand, waiting
    <2>3. ASSUME NEW s \in Seq(Nat), \A i \in 1 .. Len(s) : s[i] <= built - InSink PROVE Continues(s, coming)
        <3>1. ASSUME NEW i \in 1 .. Len(s), NEW j \in 1 .. Len(coming) PROVE s[i] < coming[j]
            <4>1. s[i] \in Nat /\ s[i] <= built - InSink /\ coming[j] = built /\ InSink = 1
                BY <1>7, <2>3, ElementOfSeq
            <4>2. built \in Nat
                BY HeldSizes
            <4>3. QED
                BY <4>1, <4>2
        <3>2. QED
            BY <3>1 DEF Continues
    <2>4. /\ \A i \in 1 .. Len(mine) : mine[i] <= built - InSink
          /\ \A i \in 1 .. Len(hand) : hand[i] <= built - InSink
          /\ \A i \in 1 .. Len(waiting) : waiting[i] <= built - InSink
        BY <1>1, <1>2, <1>3, <1>5, <2>1, NumbersKeepOrder DEF mine, hand, waiting
    <2>5. QED
        BY <1>6, <2>2, <2>3, <2>4
<1>10. /\ mine \o hand \in Seq(Nat) /\ Len(mine \o hand) = Len(received) + Held /\ Rising(mine \o hand)
       /\ Continues(mine \o hand, waiting) /\ Continues(mine \o hand, coming)
    BY <1>5, <1>6, <1>8, <1>9, RisingTogether
<1>11. /\ (mine \o hand) \o waiting \in Seq(Nat) /\ Len((mine \o hand) \o waiting) = Len(received) + Held + Len(queue)
       /\ Rising((mine \o hand) \o waiting) /\ Continues((mine \o hand) \o waiting, coming)
    BY <1>6, <1>8, <1>9, <1>10, RisingTogether
<1> DEFINE all == ((mine \o hand) \o waiting) \o coming
<1>12. all \in Seq(Nat) /\ Rising(all) /\ Len(all) = Len(received) + Held + Len(queue) + InSink
    BY <1>7, <1>8, <1>11, RisingTogether
<1>13. DOMAIN all = 1 .. Len(all)
    BY <1>12
<1>14. /\ counters.emitted = Len(received)
       /\ ~disturbed => counters.dropped = built - (Len(received) + Held + Len(queue) + InSink)
    BY DEF ExportInv, Counted
<1> HIDE DEF all
<1>15. /\ \A i, j \in DOMAIN all : i < j => all[i] < all[j]
       /\ ~disturbed => counters.dropped = built - Len(all)
    BY <1>12, <1>13, <1>14 DEF Rising
<1>16. QED
    BY <1>14, <1>15 DEF SpansAccounted, all, mine, hand, waiting, coming

----------------------------------------------------------------------------
(* The semaphore.                                                           *)

\* Nobody is in line twice.
Once(line) == \A i, j \in 1 .. Len(line) : line[i] = line[j] => i = j

LEMMA WaitingIsRange ==
    ASSUME NEW T, NEW line \in Seq(T)
    PROVE  ToSet(line) = {line[i] : i \in 1 .. Len(line)}
BY DEF ToSet

LEMMA JoinsLine ==
    ASSUME NEW T, NEW line \in Seq(T), Once(line), NEW t \in T, t \notin ToSet(line)
    PROVE  /\ Append(line, t) \in Seq(T)
           /\ Once(Append(line, t))
           /\ ToSet(Append(line, t)) = ToSet(line) \cup {t}
<1> DEFINE longer == Append(line, t)
<1>1. /\ longer \in Seq(T)
      /\ Len(longer) = Len(line) + 1
      /\ \A i \in 1 .. Len(line) : longer[i] = line[i]
      /\ longer[Len(line) + 1] = t
    BY AppendProperties
<1>2. \A i \in 1 .. Len(line) : line[i] # t
    BY WaitingIsRange
<1>3. Len(line) \in Nat
    BY LenProperties
<1> HIDE DEF longer
<1>4. Once(longer)
    BY <1>1, <1>2, <1>3 DEF Once
<1>5. ToSet(longer) = ToSet(line) \cup {t}
    BY <1>1, <1>3, WaitingIsRange
<1>6. QED
    BY <1>1, <1>4, <1>5 DEF longer

LEMMA FirstGoesIn ==
    ASSUME NEW T, NEW line \in Seq(T), Once(line), line # <<>>
    PROVE  /\ Tail(line) \in Seq(T)
           /\ Once(Tail(line))
           /\ ToSet(Tail(line)) = ToSet(line) \ {Head(line)}
           /\ Head(line) \in ToSet(line)
<1> DEFINE rest == Tail(line)
<1>1. /\ rest \in Seq(T)
      /\ Len(rest) = Len(line) - 1
      /\ \A i \in 1 .. Len(rest) : rest[i] = line[i + 1]
      /\ Head(line) = line[1]
    BY HeadTailProperties
<1>2. Len(line) \in Nat \ {0}
    BY EmptySeq
<1> HIDE DEF rest
<1>3. Once(rest)
    BY <1>1, <1>2 DEF Once
<1>4. \A i \in 1 .. Len(line) : line[i] # line[1] => i - 1 \in 1 .. Len(rest) /\ rest[i - 1] = line[i]
    BY <1>1, <1>2
<1>5. \A i \in 1 .. Len(rest) : rest[i] # line[1]
    BY <1>1, <1>2 DEF Once
<1>6. ToSet(rest) = ToSet(line) \ {line[1]}
    <2>1. ASSUME NEW x \in ToSet(rest) PROVE x \in ToSet(line) \ {line[1]}
        BY <1>1, <1>2, <1>5, WaitingIsRange
    <2>2. ASSUME NEW x \in ToSet(line) \ {line[1]} PROVE x \in ToSet(rest)
        BY <1>1, <1>2, <1>4, WaitingIsRange
    <2>3. QED
        BY <2>1, <2>2
<1>7. QED
    BY <1>1, <1>2, <1>3, <1>6, WaitingIsRange DEF rest

LEMMA LeavesLine ==
    ASSUME NEW T, NEW line \in Seq(T), Once(line), NEW t \in ToSet(line)
    PROVE  /\ RemoveFirst(line, t) \in Seq(T)
           /\ Once(RemoveFirst(line, t))
           /\ ToSet(RemoveFirst(line, t)) = ToSet(line) \ {t}
<1> DEFINE n == Len(line)
<1>1. n \in Nat
    BY LenProperties
<1>2. PICK k \in 1 .. n : line[k] = t
    BY WaitingIsRange
<1>3. RemoveFirst(line, t) = RemoveAt(line, k)
    <2>1. SelectInSeq(line, LAMBDA v : v = t) = k
        <3>1. {i \in 1 .. n : line[i] = t} = {k}
            BY <1>2 DEF Once
        <3>2. Min({k}) = k
            BY <1>1, <1>2 DEF Min
        <3>3. QED
            BY <3>1, <3>2 DEF SelectInSeq
    <2>2. QED
        BY <1>2, <2>1 DEF RemoveFirst
<1> DEFINE left == SubSeq(line, 1, k - 1)
           right == SubSeq(line, k + 1, n)
           rest == left \o right
<1>4. /\ left \in Seq(T) /\ Len(left) = k - 1
      /\ \A i \in 1 .. k - 1 : left[i] = line[i]
    <2>1. \A i \in 1 .. k - 1 : line[i] \in T
        BY <1>1, ElementOfSeq
    <2>2. QED
        BY <1>1, <2>1, SubSeqProperties
<1>5. /\ right \in Seq(T) /\ Len(right) = n - k
      /\ \A i \in 1 .. n - k : right[i] = line[k + i]
    <2>1. \A i \in k + 1 .. n : line[i] \in T
        BY <1>1, ElementOfSeq
    <2>2. QED
        BY <1>1, <2>1, SubSeqProperties
<1>6. /\ rest \in Seq(T) /\ Len(rest) = n - 1
      /\ \A i \in 1 .. n - 1 : rest[i] = IF i < k THEN line[i] ELSE line[i + 1]
    <2> HIDE DEF left, right
    <2>1. /\ rest \in Seq(T) /\ Len(rest) = Len(left) + Len(right)
          /\ \A i \in 1 .. Len(left) + Len(right) :
                 rest[i] = IF i <= Len(left) THEN left[i] ELSE right[i - Len(left)]
        BY <1>4, <1>5, ConcatProperties
    <2> HIDE DEF rest
    <2>2. Len(left) + Len(right) = n - 1
        BY <1>1, <1>4, <1>5
    <2>3. ASSUME NEW i \in 1 .. n - 1 PROVE rest[i] = IF i < k THEN line[i] ELSE line[i + 1]
        <3>1. CASE i < k
            BY <1>1, <1>4, <2>1, <2>2, <3>1
        <3>2. CASE i >= k
            <4>1. i - (k - 1) \in 1 .. n - k /\ ~(i <= k - 1) /\ k + (i - (k - 1)) = i + 1
                BY <1>1, <3>2
            <4>2. rest[i] = right[i - (k - 1)]
                BY <1>4, <2>1, <2>2, <4>1
            <4>3. right[i - (k - 1)] = line[k + (i - (k - 1))]
                BY <1>5, <4>1
            <4>4. QED
                BY <3>2, <4>1, <4>2, <4>3
        <3>3. QED
            BY <1>1, <3>1, <3>2
    <2>4. QED
        BY <2>1, <2>2, <2>3
<1> HIDE DEF left, right, rest, n
<1>7. Once(rest)
    BY <1>1, <1>6 DEF Once, n
<1>8. ASSUME NEW x \in ToSet(rest) PROVE x \in ToSet(line) \ {t}
    <2>1. PICK i \in 1 .. n - 1 : x = rest[i]
        BY <1>6, WaitingIsRange
    <2>2. PICK j \in 1 .. n : x = line[j] /\ j # k
        BY <1>1, <1>6, <2>1
    <2>3. QED
        BY <1>2, <2>2, WaitingIsRange DEF Once, n
<1>9. ASSUME NEW x \in ToSet(line) \ {t} PROVE x \in ToSet(rest)
    <2>1. PICK j \in 1 .. n : x = line[j] /\ j # k
        BY <1>2, WaitingIsRange DEF n
    <2>2. CASE j < k
        <3>1. j \in 1 .. n - 1 /\ rest[j] = x
            BY <1>1, <1>6, <2>1, <2>2
        <3>2. QED
            BY <3>1, <1>6, WaitingIsRange
    <2>3. CASE j > k
        <3>1. j - 1 \in 1 .. n - 1 /\ rest[j - 1] = x
            BY <1>1, <1>6, <2>1, <2>3
        <3>2. QED
            BY <3>1, <1>6, WaitingIsRange
    <2>4. QED
        BY <1>1, <2>1, <2>2, <2>3
<1>10. RemoveFirst(line, t) = rest
    BY <1>3 DEF RemoveAt, rest, left, right, n
<1>11. QED
    BY <1>6, <1>7, <1>8, <1>9, <1>10


\* The three operations keep the line in order; and while nobody waits for a
\* slot that is left, they hand out no slot twice.
Sound(sem, T) == sem \in [value : Nat, line : Seq(T)] /\ Once(sem.line)

LEMMA AcquireSound ==
    ASSUME NEW T, NEW sem, Sound(sem, T), NEW t \in T, t \notin Waiting(sem)
    PROVE  /\ Sound(Acquire(sem, t), T)
           /\ NoneLeft(sem) =>
                /\ Acquire(sem, t).value = sem.value
                /\ Waiting(Acquire(sem, t)) = Waiting(sem) \cup {t}
           /\ ~NoneLeft(sem) =>
                /\ Acquire(sem, t).value = sem.value - 1
                /\ Acquire(sem, t).line = sem.line
<1> USE DEF Sound, Waiting, Acquire
<1>1. CASE NoneLeft(sem)
    BY <1>1, JoinsLine
<1>2. CASE ~NoneLeft(sem)
    BY <1>2 DEF NoneLeft
<1>3. QED
    BY <1>1, <1>2

LEMMA ReleaseSound ==
    ASSUME NEW T, NEW sem, Sound(sem, T)
    PROVE  /\ Sound(Release(sem), T)
           /\ sem.line # <<>> =>
                /\ Release(sem).value = sem.value
                /\ Head(sem.line) \in Waiting(sem)
                /\ Waiting(Release(sem)) = Waiting(sem) \ {Head(sem.line)}
           /\ sem.line = <<>> =>
                /\ Release(sem).value = sem.value + 1
                /\ Release(sem).line = <<>>
<1> USE DEF Sound, Waiting, Release
<1>1. CASE sem.line # <<>>
    BY <1>1, FirstGoesIn
<1>2. CASE sem.line = <<>>
    BY <1>2
<1>3. QED
    BY <1>1, <1>2

LEMMA LeaveSound ==
    ASSUME NEW T, NEW sem, Sound(sem, T), NEW t \in Waiting(sem)
    PROVE  /\ Sound(Leave(sem, t), T)
           /\ Leave(sem, t).value = sem.value
           /\ Waiting(Leave(sem, t)) = Waiting(sem) \ {t}
BY LeavesLine DEF Sound, Waiting, Leave

----------------------------------------------------------------------------
(* StreamManager.                                                           *)

\* What has been told of a call, by where it is.
ToldAt(at) ==
    IF at = "out" THEN {<<>>}
    ELSE IF at = "waits" THEN {<<"blocked">>}
    ELSE IF at \in {"let_in", "dials"} THEN {<<>>, <<"blocked">>}
    ELSE IF at \in {"body", "closes"} THEN {<<"opened">>, <<"blocked", "opened">>}
    ELSE Accounts

StreamInv ==
    /\ Sound(slots, Streams)
    /\ stream \in [Streams -> {"out", "waits", "let_in", "dials", "body", "closes", "done"}]
    /\ announced \in [Streams -> Accounts]
    /\ \A s \in Streams : announced[s] \in ToldAt(stream[s])
    /\ StreamSlotsMatch

\* Accounts, one by one.
LEMMA AccountsListed ==
    Accounts = {<<>>, <<"opened">>, <<"opened", "closed">>, <<"timeout">>,
                <<"blocked">>, <<"blocked", "opened">>, <<"blocked", "opened", "closed">>, <<"blocked", "timeout">>}
BY DEF Accounts

LEMMA InsideFinite == IsFiniteSet(Inside) /\ Cardinality(Inside) \in Nat
BY StreamManagerAssumption, FS_Subset, FS_CardinalityType DEF Inside

LEMMA StreamInitInv == StreamInit => StreamInv
<1> SUFFICES ASSUME StreamInit PROVE StreamInv
    OBVIOUS
<1>1. Sound(slots, Streams) /\ Waiting(slots) = {} /\ slots.line = <<>> /\ slots.value = MAX_STREAMS
    BY StreamManagerAssumption DEF StreamInit, Full, Sound, Once, Waiting, ToSet
<1>2. Inside = {} /\ Cardinality({}) = 0
    BY FS_EmptySet DEF StreamInit, Inside
<1>3. QED
    BY <1>1, <1>2, AccountsListed, StreamManagerAssumption DEF StreamInit, StreamInv, StreamSlotsMatch, ToldAt

\* The slot that a call gives back goes to the first in line, or is left.
LEMMA ExitsInv ==
    ASSUME StreamInv, NEW s \in Inside, Exits(s)
    PROVE  /\ Sound(slots', Streams)
           /\ stream' \in [Streams -> {"out", "waits", "let_in", "dials", "body", "closes", "done"}]
           /\ stream'[s] = "done"
           /\ \A t \in Streams \ {s} : stream'[t] = stream[t] \/ (stream[t] = "waits" /\ stream'[t] = "let_in")
           /\ slots'.value + Cardinality(Inside') = MAX_STREAMS
           /\ Waiting(slots)' = {t \in Streams : stream'[t] = "waits"}
           /\ slots'.line # <<>> => NoneLeft(slots')
<1> USE DEF StreamInv, StreamSlotsMatch
<1>1. s \in Streams /\ stream[s] # "waits"
    BY DEF Inside
<1>2. slots' = Release(slots)
    BY DEF Exits
<1>3. CASE slots.line # <<>>
    <2> DEFINE first == Head(slots.line)
    <2>1. first \in Streams /\ stream[first] = "waits" /\ first # s
        BY <1>1, <1>3, ReleaseSound
    <2>2. /\ Sound(slots', Streams) /\ slots'.value = slots.value
          /\ Waiting(slots)' = Waiting(slots) \ {first}
        BY <1>2, <1>3, ReleaseSound DEF Waiting
    <2>3. \A t \in Streams : stream'[t] = IF t = s THEN "done" ELSE IF t = first THEN "let_in" ELSE stream[t]
        BY <1>3 DEF Exits
    <2>4. Inside' = (Inside \ {s}) \cup {first}
        BY <1>1, <2>1, <2>3 DEF Inside
    <2>5. Cardinality(Inside') = Cardinality(Inside)
        <3>1. first \notin Inside
            BY <2>1 DEF Inside
        <3>2. /\ IsFiniteSet(Inside \ {s}) /\ Cardinality(Inside \ {s}) = Cardinality(Inside) - 1
            BY InsideFinite, FS_RemoveElement
        <3>3. Cardinality((Inside \ {s}) \cup {first}) = Cardinality(Inside \ {s}) + 1
            BY <3>1, <3>2, FS_AddElement
        <3>4. QED
            BY <2>4, <3>2, <3>3, InsideFinite
    <2>6. stream' \in [Streams -> {"out", "waits", "let_in", "dials", "body", "closes", "done"}]
        BY DEF Exits
    <2>7. Waiting(slots)' = {t \in Streams : stream'[t] = "waits"}
        BY <1>1, <2>1, <2>2, <2>3
    <2>8. NoneLeft(slots')
        BY <1>3, <2>2 DEF NoneLeft
    <2> HIDE DEF first
    <2>9. QED
        BY <1>1, <2>1, <2>2, <2>3, <2>5, <2>6, <2>7, <2>8
<1>4. CASE slots.line = <<>>
    <2>1. Sound(slots', Streams) /\ slots'.value = slots.value + 1 /\ slots'.line = <<>>
        BY <1>2, <1>4, ReleaseSound
    <2>2. \A t \in Streams : stream'[t] = IF t = s THEN "done" ELSE stream[t]
        BY <1>4 DEF Exits
    <2>3. Inside' = Inside \ {s}
        BY <1>1, <2>2 DEF Inside
    <2>4. Cardinality(Inside') = Cardinality(Inside) - 1
        BY <2>3, InsideFinite, FS_RemoveElement
    <2>5. stream' \in [Streams -> {"out", "waits", "let_in", "dials", "body", "closes", "done"}]
        BY DEF Exits
    <2>6. Waiting(slots) = {} /\ Waiting(slots)' = {}
        BY <1>4, <2>1 DEF Waiting, ToSet
    <2>7. Waiting(slots)' = {t \in Streams : stream'[t] = "waits"}
        BY <1>1, <2>2, <2>6
    <2>8. slots.value \in Nat
        BY DEF Sound
    <2>9. QED
        BY <1>1, <2>1, <2>2, <2>4, <2>5, <2>7, <2>8, InsideFinite
<1>5. QED
    BY <1>3, <1>4

\* The account of one call grows by what it tells.
LEMMA TellsInv ==
    ASSUME StreamInv, NEW s \in Streams, NEW events, Tells(s, events),
           announced[s] \o events \in ToldAt(stream'[s]), ToldAt(stream'[s]) \subseteq Accounts,
           \A t \in Streams \ {s} : stream'[t] = stream[t] \/ (stream[t] = "waits" /\ stream'[t] = "let_in")
    PROVE  /\ announced' \in [Streams -> Accounts]
           /\ \A t \in Streams : announced'[t] \in ToldAt(stream'[t])
<1>1. announced'[s] = announced[s] \o events /\ \A t \in Streams \ {s} : announced'[t] = announced[t]
    BY DEF Tells, StreamInv
<1>2. announced' \in [Streams -> Accounts]
    BY DEF Tells, StreamInv
<1>3. ASSUME NEW t \in Streams \ {s} PROVE announced'[t] \in ToldAt(stream'[t])
    BY <1>1, <1>3 DEF StreamInv, ToldAt
<1>4. QED
    BY <1>1, <1>2, <1>3

\* One event more.
LEMMA OneMore ==
    ASSUME NEW a, NEW b, NEW c
    PROVE  /\ <<>> \o <<a>> = <<a>>
           /\ <<a>> \o <<b>> = <<a, b>>
           /\ <<a, b>> \o <<c>> = <<a, b, c>>
           /\ <<a>> \o <<>> = <<a>>
           /\ <<a, b>> \o <<>> = <<a, b>>
<1> DEFINE T == {a, b, c}
<1>1. <<>> \in Seq(T)
    OBVIOUS
<1>2. <<a>> \in Seq(T)
    OBVIOUS
<1>3. <<a, b>> \in Seq(T)
    OBVIOUS
<1>4. a \in T /\ b \in T /\ c \in T
    OBVIOUS
<1>5. <<a>> \o <<b>> = Append(<<a>>, b) /\ <<a, b>> \o <<c>> = Append(<<a, b>>, c)
    <2> HIDE DEF T
    <2>1. QED
        BY <1>2, <1>3, <1>4, AppendIsConcat
<1>6. <<a, b>> = Append(<<a>>, b)
    OBVIOUS
<1>7. <<a, b, c>> = Append(<<a, b>>, c)
    OBVIOUS
<1>8. <<>> \o <<a>> = <<a>> /\ <<a>> \o <<>> = <<a>> /\ <<a, b>> \o <<>> = <<a, b>>
    <2> HIDE DEF T
    <2>1. QED
        BY <1>1, <1>2, <1>3, ConcatEmptySeq
<1>9. QED
    BY <1>5, <1>6, <1>7, <1>8

\* What a call may still tell.
LEMMA MayTell ==
    /\ <<>> \o <<"blocked">> \in ToldAt("waits") /\ <<>> \o <<>> \in ToldAt("let_in")
    /\ <<>> \o <<"blocked">> \in ToldAt("done") /\ <<>> \o <<>> \in ToldAt("done")
    /\ \A a \in ToldAt("dials") : a \o <<"opened">> \in ToldAt("body") /\ a \o <<"timeout">> \in ToldAt("done")
    /\ \A a \in ToldAt("closes") : a \o <<"closed">> \in ToldAt("done") /\ a \o <<>> \in ToldAt("done")
    /\ \A at \in {"out", "waits", "let_in", "dials", "body", "closes", "done"} :
           ToldAt(at) \subseteq Accounts
    /\ ToldAt("let_in") = ToldAt("dials") /\ ToldAt("body") = ToldAt("closes")
<1>1. ASSUME NEW a \in ToldAt("dials")
      PROVE  a \o <<"opened">> \in ToldAt("body") /\ a \o <<"timeout">> \in Accounts
    <2>1. /\ <<>> \o <<"opened">> = <<"opened">> /\ <<>> \o <<"timeout">> = <<"timeout">>
          /\ <<"blocked">> \o <<"opened">> = <<"blocked", "opened">>
          /\ <<"blocked">> \o <<"timeout">> = <<"blocked", "timeout">>
        BY OneMore
    <2>2. a = <<>> \/ a = <<"blocked">>
        BY DEF ToldAt
    <2>3. QED
        BY <2>1, <2>2, AccountsListed DEF ToldAt
<1>2. ASSUME NEW a \in ToldAt("closes")
      PROVE  a \o <<"closed">> \in Accounts /\ a \o <<>> \in Accounts
    <2>1. /\ <<"opened">> \o <<"closed">> = <<"opened", "closed">> /\ <<"opened">> \o <<>> = <<"opened">>
          /\ <<"blocked", "opened">> \o <<"closed">> = <<"blocked", "opened", "closed">>
          /\ <<"blocked", "opened">> \o <<>> = <<"blocked", "opened">>
        BY OneMore
    <2>2. a = <<"opened">> \/ a = <<"blocked", "opened">>
        BY DEF ToldAt
    <2>3. QED
        BY <2>1, <2>2, AccountsListed
<1>3. /\ ToldAt("out") \subseteq Accounts /\ ToldAt("waits") \subseteq Accounts
      /\ ToldAt("let_in") \subseteq Accounts /\ ToldAt("body") \subseteq Accounts
    BY AccountsListed DEF ToldAt
<1>4. /\ ToldAt("let_in") = ToldAt("dials") /\ ToldAt("body") = ToldAt("closes")
      /\ ToldAt("done") = Accounts
    BY DEF ToldAt
<1>5. /\ <<>> \o <<"blocked">> \in ToldAt("waits") /\ <<>> \o <<>> \in ToldAt("let_in")
      /\ <<>> \o <<"blocked">> \in Accounts /\ <<>> \o <<>> \in Accounts
    BY AccountsListed DEF ToldAt
<1>6. QED
    BY <1>1, <1>2, <1>3, <1>4, <1>5

LEMMA TellsNothing ==
    ASSUME StreamInv, NEW s \in Streams, UNCHANGED announced
    PROVE  announced[s] \o <<>> = announced[s] /\ Tells(s, <<>>)
<1>1. announced[s] \in Accounts /\ announced \in [Streams -> Accounts]
    BY DEF StreamInv
<1>2. announced[s] \o <<>> = announced[s]
    <2>1. Accounts \subseteq Seq({"blocked", "opened", "closed", "timeout"})
        BY AccountsListed
    <2>2. QED
        BY <1>1, <2>1, ConcatEmptySeq
<1>3. QED
    BY <1>1, <1>2 DEF Tells

LEMMA StreamStepInv ==
    ASSUME StreamInv, StreamNext
    PROVE  StreamInv'
<1> USE DEF StreamInv, StreamSlotsMatch
<1>1. PICK s \in Streams :
          \/ CallStream(s) \/ LetIn(s)
          \/ DialReturns(s) \/ DialTimesOut(s) \/ DialRaises(s)
          \/ BodyEnds(s) \/ CloseReturns(s)
          \/ CancelStream(s)
    BY DEF StreamNext
\* What is left to show of a call that goes its way: of a step that leaves the slots alone, and of one
\* that gives the slot back.
<1>2. ASSUME NEW at \in {"dials", "body", "closes", "done"}, NEW events,
             stream[s] \in {"let_in", "dials", "body"} \/ (stream[s] = "out" /\ at = "done"),
             at = "done" <=> stream[s] = "out",
             Goes(s, at), Tells(s, events), UNCHANGED slots,
             announced[s] \o events \in ToldAt(at),
             open' = {t \in Streams : stream'[t] = "body"}
      PROVE  StreamInv'
    <2>1. stream'[s] = at /\ \A t \in Streams \ {s} : stream'[t] = stream[t]
        BY <1>2 DEF Goes
    <2>2. Inside' = Inside /\ Waiting(slots)' = {t \in Streams : stream'[t] = "waits"}
        BY <1>2, <2>1 DEF Inside, Waiting
    <2>3. stream' \in [Streams -> {"out", "waits", "let_in", "dials", "body", "closes", "done"}]
        BY <1>2 DEF Goes
    <2>4. /\ announced' \in [Streams -> Accounts]
          /\ \A t \in Streams : announced'[t] \in ToldAt(stream'[t])
        BY <1>2, <2>1, MayTell, TellsInv
    <2>5. Sound(slots', Streams)
        BY <1>2
    <2>6. QED
        BY <1>2, <2>2, <2>3, <2>4, <2>5 DEF NoneLeft
<1>3. ASSUME NEW events, s \in Inside, Exits(s), Tells(s, events),
             announced[s] \o events \in Accounts, open' = open \ {s}
      PROVE  StreamInv'
    <2>1. /\ Sound(slots', Streams)
          /\ stream' \in [Streams -> {"out", "waits", "let_in", "dials", "body", "closes", "done"}]
          /\ stream'[s] = "done"
          /\ \A t \in Streams \ {s} : stream'[t] = stream[t] \/ (stream[t] = "waits" /\ stream'[t] = "let_in")
          /\ slots'.value + Cardinality(Inside') = MAX_STREAMS
          /\ Waiting(slots)' = {t \in Streams : stream'[t] = "waits"}
          /\ slots'.line # <<>> => NoneLeft(slots')
        BY <1>3, ExitsInv
    <2>2. /\ announced' \in [Streams -> Accounts]
          /\ \A t \in Streams : announced'[t] \in ToldAt(stream'[t])
        BY <1>3, <2>1, MayTell, TellsInv DEF ToldAt
    <2>3. open' = {t \in Streams : stream'[t] = "body"}
        BY <1>3, <2>1
    <2>4. QED
        BY <2>1, <2>2, <2>3
<1>4. CASE CallStream(s)
    <2>1. /\ s \notin Waiting(slots) /\ s \notin Inside /\ announced[s] = <<>>
          /\ \A t \in Streams \ {s} : stream'[t] = stream[t]
          /\ open' = {t \in Streams : stream'[t] = "body"}
        BY <1>4 DEF CallStream, Inside, ToldAt, Goes
    <2>2. Sound(slots', Streams)
        BY <1>4, <2>1, AcquireSound DEF CallStream
    <2>3. CASE NoneLeft(slots)
        <3>1. slots'.value = slots.value /\ Waiting(slots)' = Waiting(slots) \cup {s}
            <4>1. slots' = Acquire(slots, s) /\ Waiting(slots)' = Waiting(slots')
                BY <1>4 DEF CallStream, Waiting
            <4>2. /\ Acquire(slots, s).value = slots.value
                  /\ Waiting(Acquire(slots, s)) = Waiting(slots) \cup {s}
                BY <2>1, <2>3, AcquireSound
            <4>3. QED
                BY <4>1, <4>2
        <3>2. Goes(s, "waits") /\ Tells(s, <<"blocked">>) /\ stream'[s] = "waits"
            BY <1>4, <2>3 DEF CallStream, Goes
        <3>3. Inside' = Inside /\ Waiting(slots)' = {t \in Streams : stream'[t] = "waits"}
            BY <2>1, <3>1, <3>2 DEF Inside
        <3>4. stream' \in [Streams -> {"out", "waits", "let_in", "dials", "body", "closes", "done"}]
            BY <3>2 DEF Goes
        <3>5. /\ announced' \in [Streams -> Accounts]
              /\ \A t \in Streams : announced'[t] \in ToldAt(stream'[t])
            BY <2>1, <3>2, MayTell, TellsInv
        <3>6. NoneLeft(slots')
            BY <2>3, <3>1 DEF NoneLeft
        <3>7. QED
            BY <2>1, <2>2, <3>1, <3>3, <3>4, <3>5, <3>6
    <2>4. CASE ~NoneLeft(slots)
        <3>1. slots'.value = slots.value - 1 /\ slots'.line = slots.line /\ slots.line = <<>>
            BY <1>4, <2>1, <2>4, AcquireSound DEF CallStream
        <3>2. Goes(s, "let_in") /\ Tells(s, <<>>) /\ stream'[s] = "let_in"
            BY <1>4, <2>4 DEF CallStream, Goes
        <3>3. Inside' = Inside \cup {s} /\ Waiting(slots)' = {t \in Streams : stream'[t] = "waits"}
            BY <1>4, <2>1, <3>1, <3>2 DEF Inside, Waiting, CallStream
        <3>4. Cardinality(Inside') = Cardinality(Inside) + 1
            BY <2>1, <3>3, InsideFinite, FS_AddElement
        <3>5. stream' \in [Streams -> {"out", "waits", "let_in", "dials", "body", "closes", "done"}]
            BY <3>2 DEF Goes
        <3>6. /\ announced' \in [Streams -> Accounts]
              /\ \A t \in Streams : announced'[t] \in ToldAt(stream'[t])
            BY <2>1, <3>2, MayTell, TellsInv
        <3>7. slots'.value + Cardinality(Inside') = MAX_STREAMS
            BY <3>1, <3>4, InsideFinite, StreamManagerAssumption DEF Sound
        <3>8. QED
            BY <2>1, <2>2, <3>1, <3>3, <3>5, <3>6, <3>7
    <2>5. QED
        BY <2>3, <2>4
<1>5. ASSUME Opens(s), stream[s] \in {"let_in", "dials"} PROVE StreamInv'
    <2>1. announced[s] \o <<"opened">> \in ToldAt("body")
        BY <1>5, MayTell
    <2>2. open' = {t \in Streams : stream'[t] = "body"}
        BY <1>5 DEF Opens, Goes
    <2>3. QED
        BY <1>2, <1>5, <2>1, <2>2 DEF Opens
<1>6. CASE LetIn(s)
    <2>1. CASE s \in Dialled
        <3>1. Goes(s, "dials") /\ UNCHANGED <<slots, open, announced>> /\ stream[s] = "let_in"
            BY <1>6, <2>1 DEF LetIn
        <3>2. open' = {t \in Streams : stream'[t] = "body"}
            BY <3>1 DEF Goes
        <3>3. announced[s] \o <<>> = announced[s] /\ Tells(s, <<>>)
            BY <3>1, TellsNothing
        <3>4. announced[s] \o <<>> \in ToldAt("dials")
            BY <3>1, <3>3, MayTell
        <3>5. QED
            BY <1>2, <3>1, <3>2, <3>3, <3>4
    <2>2. QED
        BY <1>5, <1>6, <2>1 DEF LetIn
<1>7. CASE DialReturns(s)
    BY <1>5, <1>7 DEF DialReturns
<1>8. CASE DialTimesOut(s)
    <2>1. announced[s] \o <<"timeout">> \in Accounts
        BY <1>8, MayTell DEF DialTimesOut, ToldAt
    <2>2. s \in Inside /\ open' = open \ {s}
        BY <1>8 DEF DialTimesOut, Inside
    <2>3. QED
        BY <1>3, <1>8, <2>1, <2>2 DEF DialTimesOut
<1>9. CASE DialRaises(s)
    <2>1. announced[s] \o <<>> = announced[s] /\ Tells(s, <<>>)
        BY <1>9, TellsNothing DEF DialRaises
    <2>2. s \in Inside /\ open' = open \ {s}
        BY <1>9 DEF DialRaises, Inside
    <2>3. QED
        BY <1>3, <1>9, <2>1, <2>2 DEF DialRaises
<1>10. CASE BodyEnds(s)
    <2>1. CASE s \in Dialled
        <3>1. Goes(s, "closes") /\ UNCHANGED <<slots, announced>> /\ stream[s] = "body"
            BY <1>10, <2>1 DEF BodyEnds
        <3>2. open' = {t \in Streams : stream'[t] = "body"}
            BY <1>10, <3>1 DEF BodyEnds, Goes
        <3>3. announced[s] \o <<>> = announced[s] /\ Tells(s, <<>>)
            BY <3>1, TellsNothing
        <3>4. announced[s] \o <<>> \in ToldAt("closes")
            BY <3>1, <3>3, MayTell
        <3>5. QED
            BY <1>2, <3>1, <3>2, <3>3, <3>4
    <2>2. CASE s \notin Dialled
        <3>1. Tells(s, <<"closed">>) /\ Exits(s) /\ s \in Inside /\ open' = open \ {s}
            BY <1>10, <2>2 DEF BodyEnds, Inside
        <3>2. announced[s] \o <<"closed">> \in Accounts
            BY <1>10, MayTell DEF BodyEnds, ToldAt
        <3>3. QED
            BY <1>3, <3>1, <3>2
    <2>3. QED
        BY <2>1, <2>2
<1>11. CASE CloseReturns(s)
    <2>1. announced[s] \o <<"closed">> \in Accounts
        BY <1>11, MayTell DEF CloseReturns, ToldAt
    <2>2. s \in Inside /\ open' = open \ {s}
        BY <1>11 DEF CloseReturns, Inside
    <2>3. QED
        BY <1>3, <1>11, <2>1, <2>2 DEF CloseReturns
<1>12. CASE CancelStream(s)
    <2>1. CASE stream[s] = "out"
        <3>1. PICK events \in {<<"blocked">>, <<>>} : Tells(s, events)
            BY <1>12, <2>1 DEF CancelStream
        <3>2. Goes(s, "done") /\ UNCHANGED <<slots, open>> /\ announced[s] = <<>>
            BY <1>12, <2>1 DEF CancelStream, ToldAt
        <3>3. open' = {t \in Streams : stream'[t] = "body"}
            BY <2>1, <3>2 DEF Goes
        <3>4. announced[s] \o events \in ToldAt("done")
            BY <3>2, MayTell
        <3>5. QED
            BY <1>2, <2>1, <3>1, <3>2, <3>3, <3>4
    <2>2. CASE stream[s] = "waits"
        <3>1. slots' = Leave(slots, s) /\ Goes(s, "done") /\ UNCHANGED <<open, announced>>
            BY <1>12, <2>2 DEF CancelStream
        <3>2. s \in Waiting(slots)
            BY <2>2
        <3>3. /\ Sound(slots', Streams) /\ slots'.value = slots.value
              /\ Waiting(slots)' = Waiting(slots) \ {s}
            BY <3>1, <3>2, LeaveSound DEF Waiting
        <3>4. stream'[s] = "done" /\ \A t \in Streams \ {s} : stream'[t] = stream[t]
            BY <3>1 DEF Goes
        <3>5. Inside' = Inside /\ Waiting(slots)' = {t \in Streams : stream'[t] = "waits"}
            BY <2>2, <3>3, <3>4 DEF Inside
        <3>6. slots.line # <<>> /\ NoneLeft(slots')
            BY <3>2, <3>3 DEF Waiting, ToSet, NoneLeft
        <3>7. stream' \in [Streams -> {"out", "waits", "let_in", "dials", "body", "closes", "done"}]
            BY <3>1 DEF Goes
        <3>8. open' = {t \in Streams : stream'[t] = "body"}
            BY <2>2, <3>1, <3>4
        <3>9. \A t \in Streams : announced'[t] \in ToldAt(stream'[t])
            BY <3>1, <3>4 DEF ToldAt
        <3>10. QED
            BY <3>1, <3>3, <3>5, <3>6, <3>7, <3>8, <3>9
    <2>3. CASE stream[s] \in {"dials", "closes"}
        <3>1. Exits(s) /\ UNCHANGED <<open, announced>> /\ s \in Inside /\ open' = open \ {s}
            BY <1>12, <2>3 DEF CancelStream, Inside
        <3>2. announced[s] \o <<>> = announced[s] /\ Tells(s, <<>>)
            BY <3>1, TellsNothing
        <3>3. QED
            BY <1>3, <3>1, <3>2
    <2>4. CASE stream[s] = "body"
        <3>1. /\ open' = open \ {s} /\ Exits(s) /\ s \in Inside
              /\ Tells(s, IF s \in Dialled THEN <<>> ELSE <<"closed">>)
            BY <1>12, <2>4 DEF CancelStream, Inside
        <3>2. announced[s] \o <<>> \in Accounts /\ announced[s] \o <<"closed">> \in Accounts
            BY <2>4, MayTell DEF ToldAt
        <3>3. QED
            BY <1>3, <3>1, <3>2
    <2>5. QED
        BY <1>12, <2>1, <2>2, <2>3, <2>4 DEF CancelStream
<1>13. QED
    BY <1>1, <1>4, <1>6, <1>7, <1>8, <1>9, <1>10, <1>11, <1>12

----------------------------------------------------------------------------
(* DHTCoordinator.                                                          *)

\* What has been told of a query, by where it is.
TaleAt(at) ==
    IF at = "out" THEN {<<>>}
    ELSE IF at = "waits" THEN {<<"blocked">>}
    ELSE IF at = "let_in" THEN {<<>>, <<"blocked">>}
    ELSE IF at \in {"asks", "pauses"} THEN {<<"started">>, <<"blocked", "started">>}
    ELSE Tales

Stages == {"out", "waits", "let_in", "asks", "pauses", "done"}
Holders == QueriesAt({"let_in", "asks", "pauses"})

QueryInv ==
    /\ Sound(places, Queries)
    /\ query \in [Queries -> [at : Stages, attempt : 0 .. MAX_RETRIES]]
    /\ \A q \in Queries : query[q].at = "pauses" => query[q].attempt < MAX_RETRIES
    /\ tidings \in [Queries -> Tales]
    /\ \A q \in Queries : tidings[q] \in TaleAt(query[q].at)
    /\ \A q \in Queries : "failed" \in ToSet(tidings[q]) => query[q].attempt = MAX_RETRIES
    /\ places.value + Cardinality(Holders) = MAX_PARALLEL
    /\ Waiting(places) = QueriesAt({"waits"})
    /\ places.line # <<>> => NoneLeft(places)
    /\ active = QueriesAt({"asks", "pauses"})

LEMMA TalesListed ==
    Tales = {<<>>, <<"started">>, <<"started", "completed">>, <<"started", "failed">>,
             <<"blocked">>, <<"blocked", "started">>, <<"blocked", "started", "completed">>,
             <<"blocked", "started", "failed">>}
BY DEF Tales

\* How a tale goes on.
LEMMA MayReport ==
    /\ <<>> \o <<"blocked">> = <<"blocked">> /\ <<>> \o <<>> = <<>>
    /\ \A a \in TaleAt("let_in") : a \o <<"started">> \in TaleAt("asks")
    /\ \A a \in TaleAt("asks") : /\ a \o <<"completed">> \in Tales /\ "failed" \notin ToSet(a \o <<"completed">>)
                                 /\ a \o <<"failed">> \in Tales
    /\ \A at \in Stages : TaleAt(at) \subseteq Tales
    /\ \A at \in Stages \ {"done"} : \A a \in TaleAt(at) : "failed" \notin ToSet(a)
<1>1. <<>> \o <<"blocked">> = <<"blocked">> /\ <<>> \o <<>> = <<>>
    <2>1. <<>> \in Seq(STRING)
        OBVIOUS
    <2>2. QED
        BY <2>1, OneMore, ConcatEmptySeq
<1>2. ASSUME NEW a \in TaleAt("let_in") PROVE a \o <<"started">> \in TaleAt("asks")
    <2>1. /\ <<>> \o <<"started">> = <<"started">>
          /\ <<"blocked">> \o <<"started">> = <<"blocked", "started">>
        BY OneMore
    <2>2. QED
        BY <2>1 DEF TaleAt
<1>3. ASSUME NEW a \in TaleAt("asks")
      PROVE  /\ a \o <<"completed">> \in {<<"started", "completed">>, <<"blocked", "started", "completed">>}
             /\ a \o <<"failed">> \in {<<"started", "failed">>, <<"blocked", "started", "failed">>}
    <2>1. /\ <<"started">> \o <<"completed">> = <<"started", "completed">>
          /\ <<"blocked", "started">> \o <<"completed">> = <<"blocked", "started", "completed">>
          /\ <<"started">> \o <<"failed">> = <<"started", "failed">>
          /\ <<"blocked", "started">> \o <<"failed">> = <<"blocked", "started", "failed">>
        BY OneMore
    <2>2. a = <<"started">> \/ a = <<"blocked", "started">>
        BY DEF TaleAt
    <2>3. QED
        BY <2>1, <2>2
<1>4. /\ "failed" \notin ToSet(<<>>) /\ "failed" \notin ToSet(<<"blocked">>)
      /\ "failed" \notin ToSet(<<"started">>) /\ "failed" \notin ToSet(<<"blocked", "started">>)
    BY DEF ToSet
<1>5. "failed" \notin ToSet(<<"started", "completed">>)
    BY DEF ToSet
<1>6. "failed" \notin ToSet(<<"blocked", "started", "completed">>)
    BY DEF ToSet
<1>7. /\ TaleAt("out") \subseteq Tales /\ TaleAt("waits") \subseteq Tales
      /\ TaleAt("let_in") \subseteq Tales /\ TaleAt("asks") \subseteq Tales
    BY TalesListed DEF TaleAt
<1>8. TaleAt("pauses") = TaleAt("asks") /\ TaleAt("done") = Tales
    BY DEF TaleAt
<1>9. \A at \in Stages : TaleAt(at) \subseteq Tales
    BY <1>7, <1>8 DEF Stages
<1>10. ASSUME NEW at \in Stages \ {"done"}, NEW a \in TaleAt(at) PROVE "failed" \notin ToSet(a)
    <2>1. a \in {<<>>, <<"blocked">>, <<"started">>, <<"blocked", "started">>}
        BY DEF TaleAt, Stages
    <2>2. QED
        BY <1>4, <2>1
<1>11. ASSUME NEW a \in TaleAt("asks")
       PROVE  /\ a \o <<"completed">> \in Tales /\ "failed" \notin ToSet(a \o <<"completed">>)
              /\ a \o <<"failed">> \in Tales
    BY <1>3, <1>5, <1>6, TalesListed
<1>12. QED
    BY <1>1, <1>2, <1>9, <1>10, <1>11

LEMMA HoldersFinite ==
    /\ IsFiniteSet(Holders) /\ Cardinality(Holders) \in Nat
    /\ \A stages : IsFiniteSet(QueriesAt(stages)) /\ Cardinality(QueriesAt(stages)) \in Nat
BY CoordinatorAssumption, FS_Subset, FS_CardinalityType DEF Holders, QueriesAt

\* Every holder is in the table, or was just let in.
LEMMA TableAndHolders ==
    Cardinality(QueriesAt({"asks", "pauses"})) = Cardinality(Holders) - Cardinality(QueriesAt({"let_in"}))
<1> DEFINE table == QueriesAt({"asks", "pauses"})
           fresh == QueriesAt({"let_in"})
<1>1. table \cup fresh = Holders /\ table \cap fresh = {}
    BY DEF QueriesAt, Holders
<1>2. /\ IsFiniteSet(table) /\ IsFiniteSet(fresh)
      /\ Cardinality(table) \in Nat /\ Cardinality(fresh) \in Nat /\ Cardinality(Holders) \in Nat
    BY HoldersFinite
<1> HIDE DEF table, fresh
<1>3. Cardinality(table \cup fresh) = Cardinality(table) + Cardinality(fresh) - Cardinality(table \cap fresh)
    BY <1>2, FS_Union
<1>4. Cardinality(table) = Cardinality(Holders) - Cardinality(fresh)
    <2>1. Cardinality(table \cap fresh) = 0
        BY <1>1, FS_EmptySet
    <2>2. Cardinality(Holders) = Cardinality(table) + Cardinality(fresh) - Cardinality(table \cap fresh)
        BY <1>1, <1>3
    <2>3. QED
        BY <1>2, <2>1, <2>2
<1>5. QED
    BY <1>4 DEF table, fresh

LEMMA QueryInvHolds == QueryInv => QuerySlotsMatch
<1> SUFFICES ASSUME QueryInv PROVE QuerySlotsMatch
    OBVIOUS
<1>1. Segments = MAX_PARALLEL - Cardinality(QueriesAt({"let_in"}))
    <2>1. Segments = Cardinality(QueriesAt({"asks", "pauses"})) + places.value
        BY DEF Segments, QueryInv
    <2>2. places.value + Cardinality(Holders) = MAX_PARALLEL /\ places.value \in Nat
        BY DEF QueryInv, Sound
    <2>3. Cardinality(Holders) \in Nat /\ Cardinality(QueriesAt({"let_in"})) \in Nat
        BY HoldersFinite
    <2>4. QED
        BY <2>1, <2>2, <2>3, TableAndHolders
<1>2. QED
    BY <1>1 DEF QueryInv, QuerySlotsMatch, Holders

LEMMA QueryInitInv == QueryInit => QueryInv
<1> SUFFICES ASSUME QueryInit PROVE QueryInv
    OBVIOUS
<1>1. Sound(places, Queries) /\ Waiting(places) = {} /\ places.line = <<>> /\ places.value = MAX_PARALLEL
    BY CoordinatorAssumption DEF QueryInit, Full, Sound, Once, Waiting, ToSet
<1>2. query \in [Queries -> [at : Stages, attempt : 0 .. MAX_RETRIES]] /\ \A q \in Queries : query[q].at = "out"
    BY CoordinatorAssumption DEF QueryInit, Stages
<1>3. /\ QueriesAt({"let_in", "asks", "pauses"}) = {} /\ QueriesAt({"waits"}) = {}
      /\ QueriesAt({"asks", "pauses"}) = {} /\ Cardinality({}) = 0
    BY <1>2, FS_EmptySet DEF QueriesAt
<1>4. tidings \in [Queries -> Tales] /\ \A q \in Queries : tidings[q] \in TaleAt(query[q].at)
    BY <1>2, TalesListed DEF QueryInit, TaleAt
<1>5. \A q \in Queries : "failed" \notin ToSet(tidings[q])
    BY <1>2, <1>4, MayReport DEF Stages
<1>6. places.value + Cardinality(Holders) = MAX_PARALLEL
    <2>1. MAX_PARALLEL \in Nat
        BY CoordinatorAssumption
    <2>2. Cardinality(Holders) = 0
        BY <1>3 DEF Holders
    <2>3. QED
        BY <1>1, <2>1, <2>2
<1>7. active = QueriesAt({"asks", "pauses"}) /\ Waiting(places) = QueriesAt({"waits"})
    BY <1>1, <1>3 DEF QueryInit
<1>8. QED
    BY <1>1, <1>2, <1>4, <1>5, <1>6, <1>7 DEF QueryInv

\* The place that a query gives back goes to the first in line, or is left.
LEMMA ReturnsInv ==
    ASSUME QueryInv, NEW q \in Holders, Returns(q)
    PROVE  /\ Sound(places', Queries)
           /\ query' \in [Queries -> [at : Stages, attempt : 0 .. MAX_RETRIES]]
           /\ query'[q].at = "done"
           /\ \A r \in Queries : query'[r].attempt = query[r].attempt
           /\ \A r \in Queries \ {q} : \/ query'[r].at = query[r].at
                                       \/ query[r].at = "waits" /\ query'[r].at = "let_in"
           /\ places'.value + Cardinality(Holders') = MAX_PARALLEL
           /\ Waiting(places)' = QueriesAt({"waits"})'
           /\ places'.line # <<>> => NoneLeft(places')
           /\ active' = QueriesAt({"asks", "pauses"})'
<1> USE DEF QueryInv
<1>1. q \in Queries /\ query[q].at \in {"let_in", "asks", "pauses"}
    BY DEF Holders, QueriesAt
<1>2. places' = Release(places) /\ Waiting(places)' = Waiting(places') /\ active' = active \ {q}
    BY DEF Returns, Waiting
<1>3. query' \in [Queries -> [at : Stages, attempt : 0 .. MAX_RETRIES]]
    <2>1. \A r \in Queries : query[r] \in [at : Stages, attempt : 0 .. MAX_RETRIES]
        OBVIOUS
    <2>2. \A r \in Queries, at \in {"done", "let_in"} :
              [query[r] EXCEPT !.at = at] \in [at : Stages, attempt : 0 .. MAX_RETRIES]
        BY <2>1 DEF Stages
    <2>3. QED
        BY <2>1, <2>2 DEF Returns
<1>4. CASE places.line # <<>>
    <2> DEFINE first == Head(places.line)
    <2>1. first \in Queries /\ query[first].at = "waits" /\ first # q
        BY <1>1, <1>4, ReleaseSound DEF QueriesAt
    <2>2. /\ Sound(places', Queries) /\ places'.value = places.value
          /\ Waiting(places)' = Waiting(places) \ {first}
        BY <1>2, <1>4, ReleaseSound
    <2>3. \A r \in Queries :
              /\ query'[r].at = IF r = q THEN "done" ELSE IF r = first THEN "let_in" ELSE query[r].at
              /\ query'[r].attempt = query[r].attempt
        BY <1>4 DEF Returns
    <2> HIDE DEF first
    <2>4. Holders' = (Holders \ {q}) \cup {first}
        BY <1>1, <2>1, <2>3 DEF Holders, QueriesAt
    <2>5. Cardinality(Holders') = Cardinality(Holders)
        <3>1. first \notin Holders
            BY <2>1 DEF Holders, QueriesAt
        <3>2. IsFiniteSet(Holders \ {q}) /\ Cardinality(Holders \ {q}) = Cardinality(Holders) - 1
            BY HoldersFinite, FS_RemoveElement
        <3>3. Cardinality((Holders \ {q}) \cup {first}) = Cardinality(Holders \ {q}) + 1
            BY <3>1, <3>2, FS_AddElement
        <3>4. QED
            BY <2>4, <3>2, <3>3, HoldersFinite
    <2>6. Waiting(places)' = QueriesAt({"waits"})'
        BY <1>1, <2>1, <2>2, <2>3 DEF QueriesAt
    <2>7. active' = QueriesAt({"asks", "pauses"})'
        BY <1>1, <1>2, <2>1, <2>3 DEF QueriesAt
    <2>8. NoneLeft(places')
        BY <1>4, <2>2 DEF NoneLeft
    <2>9. places'.value + Cardinality(Holders') = MAX_PARALLEL
        BY <2>2, <2>5
    <2>10. /\ query'[q].at = "done" /\ \A r \in Queries : query'[r].attempt = query[r].attempt
           /\ \A r \in Queries \ {q} : \/ query'[r].at = query[r].at
                                       \/ query[r].at = "waits" /\ query'[r].at = "let_in"
        BY <1>1, <2>1, <2>3
    <2> HIDE DEF QueryInv
    <2>11. QED
        BY <1>3, <2>2, <2>6, <2>7, <2>8, <2>9, <2>10
<1>5. CASE places.line = <<>>
    <2>1. Sound(places', Queries) /\ places'.value = places.value + 1 /\ places'.line = <<>>
        BY <1>2, <1>5, ReleaseSound
    <2>2. \A r \in Queries :
              /\ query'[r].at = IF r = q THEN "done" ELSE query[r].at
              /\ query'[r].attempt = query[r].attempt
        BY <1>5 DEF Returns
    <2>3. Holders' = Holders \ {q}
        BY <1>1, <2>2 DEF Holders, QueriesAt
    <2>4. Cardinality(Holders') = Cardinality(Holders) - 1
        BY <2>3, HoldersFinite, FS_RemoveElement
    <2>5. Waiting(places) = {} /\ Waiting(places)' = {}
        BY <1>5, <2>1 DEF Waiting, ToSet
    <2>6. Waiting(places)' = QueriesAt({"waits"})'
        BY <1>1, <2>2, <2>5 DEF QueriesAt
    <2>7. active' = QueriesAt({"asks", "pauses"})'
        BY <1>1, <1>2, <2>2 DEF QueriesAt
    <2>8. places'.value + Cardinality(Holders') = MAX_PARALLEL
        <3>1. places.value \in Nat /\ places.value + Cardinality(Holders) = MAX_PARALLEL
            BY DEF Sound
        <3>2. Cardinality(Holders) \in Nat
            BY HoldersFinite
        <3> HIDE DEF QueryInv
        <3>3. QED
            BY <2>1, <2>4, <3>1, <3>2
    <2>9. /\ query'[q].at = "done" /\ \A r \in Queries : query'[r].attempt = query[r].attempt
          /\ \A r \in Queries \ {q} : query'[r].at = query[r].at
        BY <1>1, <2>2
    <2> HIDE DEF QueryInv
    <2>10. QED
        BY <1>3, <2>1, <2>6, <2>7, <2>8, <2>9
<1>6. QED
    BY <1>4, <1>5

\* The tale of one query grows by what is reported of it.
LEMMA ReportsInv ==
    ASSUME QueryInv, NEW q \in Queries, NEW events, Reports(q, events),
           query' \in [Queries -> [at : Stages, attempt : 0 .. MAX_RETRIES]],
           tidings[q] \o events \in TaleAt(query'[q].at),
           "failed" \in ToSet(tidings[q] \o events) => query'[q].attempt = MAX_RETRIES,
           \A r \in Queries \ {q} : query'[r].attempt = query[r].attempt,
           \A r \in Queries \ {q} : \/ query'[r].at = query[r].at
                                    \/ query[r].at = "waits" /\ query'[r].at = "let_in"
    PROVE  /\ tidings' \in [Queries -> Tales]
           /\ \A r \in Queries : tidings'[r] \in TaleAt(query'[r].at)
           /\ \A r \in Queries : "failed" \in ToSet(tidings'[r]) => query'[r].attempt = MAX_RETRIES
<1>1. tidings'[q] = tidings[q] \o events /\ \A r \in Queries \ {q} : tidings'[r] = tidings[r]
    BY DEF Reports, QueryInv
<1>2. tidings[q] \o events \in Tales
    BY MayReport
<1>3. tidings' \in [Queries -> Tales]
    BY <1>2 DEF Reports, QueryInv
<1>4. ASSUME NEW r \in Queries \ {q} PROVE tidings'[r] \in TaleAt(query'[r].at)
    BY <1>1, <1>4 DEF QueryInv, TaleAt
<1>5. ASSUME NEW r \in Queries \ {q}, "failed" \in ToSet(tidings'[r]) PROVE query'[r].attempt = MAX_RETRIES
    BY <1>1, <1>5 DEF QueryInv
<1>6. QED
    BY <1>1, <1>3, <1>4, <1>5

LEMMA ReportsNothing ==
    ASSUME QueryInv, NEW q \in Queries, UNCHANGED tidings
    PROVE  tidings[q] \o <<>> = tidings[q] /\ Reports(q, <<>>)
<1>1. tidings[q] \in Tales /\ tidings \in [Queries -> Tales]
    BY DEF QueryInv
<1>2. tidings[q] \o <<>> = tidings[q]
    <2>1. Tales \subseteq Seq({"blocked", "started", "completed", "failed"})
        BY TalesListed
    <2>2. QED
        BY <1>1, <2>1, ConcatEmptySeq
<1>3. QED
    BY <1>1, <1>2 DEF Reports

LEMMA QueryStepInv ==
    ASSUME QueryInv, QueryNext
    PROVE  QueryInv'
<1> USE DEF QueryInv
<1>1. PICK q \in Queries : CallQuery(q) \/ Answered(q) \/ Raises(q) \/ GoesOn(q) \/ CancelQuery(q)
    BY DEF QueryNext
<1>2. query[q] \in [at : Stages, attempt : 0 .. MAX_RETRIES]
    OBVIOUS
\* A step that leaves the places alone, and one that gives the place back.
<1>3. ASSUME NEW at \in Stages, NEW attempt \in 0 .. MAX_RETRIES, NEW events,
             query' = [query EXCEPT ![q] = [at |-> at, attempt |-> attempt]],
             \/ query[q].at = "out" /\ at = "done"
             \/ query[q].at \in {"let_in", "asks", "pauses"} /\ at \in {"asks", "pauses"},
             at = "pauses" => attempt < MAX_RETRIES,
             Reports(q, events), tidings[q] \o events \in TaleAt(at),
             "failed" \notin ToSet(tidings[q] \o events),
             active' = QueriesAt({"asks", "pauses"})', UNCHANGED places
      PROVE  QueryInv'
    <2>1. query' \in [Queries -> [at : Stages, attempt : 0 .. MAX_RETRIES]]
        BY <1>3
    <2>2. query'[q] = [at |-> at, attempt |-> attempt] /\ \A r \in Queries \ {q} : query'[r] = query[r]
        BY <1>3
    <2>3. /\ tidings' \in [Queries -> Tales]
          /\ \A r \in Queries : tidings'[r] \in TaleAt(query'[r].at)
          /\ \A r \in Queries : "failed" \in ToSet(tidings'[r]) => query'[r].attempt = MAX_RETRIES
        BY <1>3, <2>1, <2>2, ReportsInv
    <2>4. Holders' = Holders /\ QueriesAt({"waits"})' = QueriesAt({"waits"})
        BY <1>3, <2>2 DEF Holders, QueriesAt
    <2>5. \A r \in Queries : query'[r].at = "pauses" => query'[r].attempt < MAX_RETRIES
        BY <1>3, <2>2
    <2>6. /\ Sound(places', Queries) /\ places'.value + Cardinality(Holders') = MAX_PARALLEL
          /\ Waiting(places)' = QueriesAt({"waits"})'
          /\ places'.line # <<>> => NoneLeft(places')
        BY <1>3, <2>4 DEF Waiting
    <2>7. QED
        BY <1>3, <2>1, <2>3, <2>5, <2>6
<1>4. ASSUME NEW events, q \in Holders, Returns(q), Reports(q, events),
             tidings[q] \o events \in Tales,
             "failed" \in ToSet(tidings[q] \o events) => query[q].attempt = MAX_RETRIES
      PROVE  QueryInv'
    <2>1. /\ Sound(places', Queries)
          /\ query' \in [Queries -> [at : Stages, attempt : 0 .. MAX_RETRIES]]
          /\ query'[q].at = "done"
          /\ \A r \in Queries : query'[r].attempt = query[r].attempt
          /\ \A r \in Queries \ {q} : \/ query'[r].at = query[r].at
                                      \/ query[r].at = "waits" /\ query'[r].at = "let_in"
          /\ places'.value + Cardinality(Holders') = MAX_PARALLEL
          /\ Waiting(places)' = QueriesAt({"waits"})'
          /\ places'.line # <<>> => NoneLeft(places')
          /\ active' = QueriesAt({"asks", "pauses"})'
        BY <1>4, ReturnsInv
    <2>2. tidings[q] \o events \in TaleAt(query'[q].at)
        BY <1>4, <2>1 DEF TaleAt
    <2>3. /\ tidings' \in [Queries -> Tales]
          /\ \A r \in Queries : tidings'[r] \in TaleAt(query'[r].at)
          /\ \A r \in Queries : "failed" \in ToSet(tidings'[r]) => query'[r].attempt = MAX_RETRIES
        BY <1>4, <2>1, <2>2, ReportsInv
    <2>4. \A r \in Queries : query'[r].at = "pauses" => query'[r].attempt < MAX_RETRIES
        BY <2>1
    <2>5. QED
        BY <2>1, <2>3, <2>4
<1>5. query[q].at # "done" => "failed" \notin ToSet(tidings[q])
    BY <1>2, MayReport
<1>6. CASE CallQuery(q)
    <2>1. /\ query[q].at = "out" /\ tidings[q] = <<>> /\ q \notin Holders /\ q \notin Waiting(places)
          /\ UNCHANGED active /\ places' = Acquire(places, q) /\ Waiting(places)' = Waiting(places')
        BY <1>6 DEF CallQuery, Holders, QueriesAt, TaleAt, Waiting
    <2>2. PICK at \in {"waits", "let_in"} :
              /\ query' = [query EXCEPT ![q].at = at]
              /\ at = "waits" <=> NoneLeft(places)
              /\ Reports(q, IF at = "waits" THEN <<"blocked">> ELSE <<>>)
        BY <1>6 DEF CallQuery
    <2>3. query'[q].at = at /\ \A r \in Queries \ {q} : query'[r] = query[r]
        BY <2>2
    <2>4. query' \in [Queries -> [at : Stages, attempt : 0 .. MAX_RETRIES]]
        BY <2>2 DEF Stages
    <2>5. \A r \in Queries : query'[r].at = "pauses" => query'[r].attempt < MAX_RETRIES
        BY <2>3
    <2>6. active' = QueriesAt({"asks", "pauses"})'
        BY <2>1, <2>3 DEF QueriesAt
    <2>7. /\ tidings' \in [Queries -> Tales]
          /\ \A r \in Queries : tidings'[r] \in TaleAt(query'[r].at)
          /\ \A r \in Queries : "failed" \in ToSet(tidings'[r]) => query'[r].attempt = MAX_RETRIES
        <3> DEFINE events == IF at = "waits" THEN <<"blocked">> ELSE <<>>
        <3>1. tidings[q] \o events = events
            BY <2>1, MayReport
        <3>2. events \in TaleAt(at)
            BY DEF TaleAt
        <3>3. "failed" \notin ToSet(events)
            BY <3>2, MayReport DEF Stages
        <3> HIDE DEF events
        <3>4. Reports(q, events)
            BY <2>2 DEF events
        <3>5. QED
            BY <2>3, <2>4, <3>1, <3>2, <3>3, <3>4, ReportsInv
    <2>8. Sound(places', Queries)
        BY <2>1, AcquireSound
    <2>9. CASE at = "waits"
        <3>1. /\ Acquire(places, q).value = places.value
              /\ Waiting(Acquire(places, q)) = Waiting(places) \cup {q}
            BY <2>1, <2>2, <2>9, AcquireSound
        <3>2. Holders' = Holders /\ QueriesAt({"waits"})' = QueriesAt({"waits"}) \cup {q}
            BY <2>1, <2>3, <2>9 DEF Holders, QueriesAt
        <3>3. NoneLeft(places')
            BY <2>1, <2>2, <2>9, <3>1 DEF NoneLeft
        <3>4. places'.value + Cardinality(Holders') = MAX_PARALLEL /\ Waiting(places)' = QueriesAt({"waits"})'
            BY <2>1, <3>1, <3>2
        <3> HIDE DEF QueryInv
        <3>5. QED
            BY <2>4, <2>5, <2>6, <2>7, <2>8, <3>3, <3>4 DEF QueryInv
    <2>10. CASE at = "let_in"
        <3>1. /\ Acquire(places, q).value = places.value - 1
              /\ Acquire(places, q).line = places.line
            BY <2>1, <2>2, <2>10, AcquireSound
        <3>2. Holders' = Holders \cup {q} /\ QueriesAt({"waits"})' = QueriesAt({"waits"})
            BY <2>1, <2>3, <2>10 DEF Holders, QueriesAt
        <3>3. Cardinality(Holders') = Cardinality(Holders) + 1
            BY <2>1, <3>2, HoldersFinite, FS_AddElement
        <3>4. places'.value + Cardinality(Holders') = MAX_PARALLEL
            <4>1. places'.value = places.value - 1 /\ places.value \in Nat
                BY <2>1, <3>1 DEF Sound
            <4>2. Cardinality(Holders) \in Nat /\ places.value + Cardinality(Holders) = MAX_PARALLEL
                BY HoldersFinite
            <4> HIDE DEF QueryInv
            <4>3. QED
                BY <3>3, <4>1, <4>2
        <3>5. Waiting(places)' = QueriesAt({"waits"})' /\ places'.line = <<>>
            BY <2>1, <2>2, <2>10, <3>1, <3>2 DEF Waiting
        <3> HIDE DEF QueryInv
        <3>6. QED
            BY <2>4, <2>5, <2>6, <2>7, <2>8, <3>4, <3>5 DEF QueryInv
    <2>11. QED
        BY <2>9, <2>10
<1>7. CASE Answered(q)
    <2>1. q \in Holders /\ tidings[q] \in TaleAt("asks")
        BY <1>7 DEF Answered, Holders, QueriesAt
    <2>2. QED
        BY <1>4, <1>7, <2>1, MayReport DEF Answered
<1>8. CASE Raises(q)
    <2>1. q \in Holders /\ "failed" \notin ToSet(tidings[q])
        BY <1>5, <1>8 DEF Raises, Holders, QueriesAt
    <2>2. tidings[q] \o <<>> = tidings[q] /\ Reports(q, <<>>)
        BY <1>8, ReportsNothing DEF Raises
    <2>3. QED
        BY <1>4, <1>8, <2>1, <2>2 DEF Raises
<1>9. CASE Starts(q)
    <2>1. query' = [query EXCEPT ![q] = [at |-> "asks", attempt |-> 1]] /\ query[q].at = "let_in"
        BY <1>9 DEF Starts
    <2>2. 1 \in 0 .. MAX_RETRIES
        BY CoordinatorAssumption
    <2>3. active' = QueriesAt({"asks", "pauses"})'
        BY <1>9, <2>1 DEF Starts, QueriesAt
    <2>4. tidings[q] \o <<"started">> \in TaleAt("asks")
        BY <2>1, MayReport
    <2>5. "failed" \notin ToSet(tidings[q] \o <<"started">>)
        BY <2>4, MayReport DEF Stages
    <2>6. QED
        BY <1>3, <1>9, <2>1, <2>2, <2>3, <2>4, <2>5 DEF Starts, Stages
<1>10. CASE TimesOut(q) \/ AsksAgain(q)
    <2>1. query[q].at \in {"asks", "pauses"} /\ UNCHANGED <<places, active, tidings>>
        BY <1>10 DEF TimesOut, AsksAgain
    <2>2. PICK at \in {"asks", "pauses"}, attempt \in 0 .. MAX_RETRIES :
              /\ query' = [query EXCEPT ![q] = [at |-> at, attempt |-> attempt]]
              /\ at = "pauses" => attempt < MAX_RETRIES
        <3>1. CASE TimesOut(q)
            <4>1. query' = [query EXCEPT ![q] = [at |-> "pauses", attempt |-> query[q].attempt]]
                <5>1. [query[q] EXCEPT !.at = "pauses"] = [at |-> "pauses", attempt |-> query[q].attempt]
                    BY <1>2
                <5>2. query' = [query EXCEPT ![q] = [query[q] EXCEPT !.at = "pauses"]]
                    BY <3>1 DEF TimesOut
                <5>3. QED
                    BY <5>1, <5>2
            <4>2. query[q].attempt \in 0 .. MAX_RETRIES /\ query[q].attempt < MAX_RETRIES
                BY <1>2, <3>1 DEF TimesOut
            <4>3. QED
                BY <4>1, <4>2
        <3>2. CASE AsksAgain(q)
            <4>1. query' = [query EXCEPT ![q] = [at |-> "asks", attempt |-> query[q].attempt + 1]]
                BY <3>2 DEF AsksAgain
            <4>2. query[q].attempt \in 0 .. MAX_RETRIES /\ query[q].attempt < MAX_RETRIES
                BY <1>2, <3>2 DEF AsksAgain
            <4>3. query[q].attempt + 1 \in 0 .. MAX_RETRIES
                BY <4>2, CoordinatorAssumption
            <4>4. QED
                BY <4>1, <4>3
        <3>3. QED
            BY <1>10, <3>1, <3>2
    <2>3. tidings[q] \o <<>> = tidings[q] /\ Reports(q, <<>>)
        BY <2>1, ReportsNothing
    <2>4. tidings[q] \in TaleAt(at) /\ "failed" \notin ToSet(tidings[q])
        BY <1>5, <2>1 DEF TaleAt
    <2>5. active' = QueriesAt({"asks", "pauses"})'
        BY <2>1, <2>2 DEF QueriesAt
    <2>6. at \in Stages
        BY DEF Stages
    <2>7. QED
        BY <1>3, <2>1, <2>2, <2>3, <2>4, <2>5, <2>6
<1>11. CASE Exhausted(q)
    <2>1. q \in Holders /\ tidings[q] \in TaleAt("asks")
        BY <1>11 DEF Exhausted, Holders, QueriesAt
    <2>2. QED
        BY <1>4, <1>11, <2>1, MayReport DEF Exhausted
<1>12. CASE CancelQuery(q)
    <2>1. CASE query[q].at = "out"
        <3>1. query' = [query EXCEPT ![q] = [at |-> "done", attempt |-> query[q].attempt]]
            BY <1>2, <1>12, <2>1 DEF CancelQuery
        <3>2. PICK events \in {<<"blocked">>, <<>>} : Reports(q, events)
            BY <1>12, <2>1 DEF CancelQuery
        <3>3. tidings[q] \o events = events /\ events \in TaleAt("waits") \cup TaleAt("out")
            BY <2>1, MayReport DEF TaleAt
        <3>4. events \in Tales /\ "failed" \notin ToSet(events)
            BY <3>3, MayReport DEF Stages
        <3>5. UNCHANGED <<places, active>> /\ active' = QueriesAt({"asks", "pauses"})'
            BY <1>12, <2>1, <3>1 DEF CancelQuery, QueriesAt
        <3>6. query[q].attempt \in 0 .. MAX_RETRIES /\ TaleAt("done") = Tales /\ "done" \in Stages
            BY <1>2 DEF TaleAt, Stages
        <3>7. QED
            BY <1>3, <2>1, <3>1, <3>2, <3>3, <3>4, <3>5, <3>6
    <2>2. CASE query[q].at = "waits"
        <3>1. /\ places' = Leave(places, q) /\ query' = [query EXCEPT ![q].at = "done"]
              /\ UNCHANGED <<active, tidings>>
            BY <1>12, <2>2 DEF CancelQuery
        <3>2. q \in Waiting(places)
            BY <2>2 DEF QueriesAt
        <3>3. /\ Sound(places', Queries) /\ places'.value = places.value
              /\ Waiting(places') = Waiting(places) \ {q} /\ Waiting(places)' = Waiting(places')
            BY <3>1, <3>2, LeaveSound DEF Waiting
        <3>4. /\ query'[q].at = "done" /\ query'[q].attempt = query[q].attempt
              /\ \A r \in Queries \ {q} : query'[r] = query[r]
            BY <3>1
        <3>5. query' \in [Queries -> [at : Stages, attempt : 0 .. MAX_RETRIES]]
            BY <3>1 DEF Stages
        <3>6. Holders' = Holders /\ QueriesAt({"waits"})' = QueriesAt({"waits"}) \ {q}
            BY <2>2, <3>4 DEF Holders, QueriesAt
        <3>7. places.line # <<>> /\ NoneLeft(places')
            BY <3>2, <3>3 DEF Waiting, ToSet, NoneLeft
        <3>8. active' = QueriesAt({"asks", "pauses"})'
            BY <2>2, <3>1, <3>4 DEF QueriesAt
        <3>9. /\ \A r \in Queries : tidings'[r] \in TaleAt(query'[r].at)
              /\ \A r \in Queries : "failed" \in ToSet(tidings'[r]) => query'[r].attempt = MAX_RETRIES
              /\ \A r \in Queries : query'[r].at = "pauses" => query'[r].attempt < MAX_RETRIES
            BY <3>1, <3>4 DEF TaleAt
        <3>10. /\ places'.value + Cardinality(Holders') = MAX_PARALLEL
               /\ Waiting(places)' = QueriesAt({"waits"})' /\ tidings' \in [Queries -> Tales]
            BY <3>1, <3>3, <3>6
        <3> HIDE DEF QueryInv
        <3>11. QED
            BY <3>3, <3>5, <3>7, <3>8, <3>9, <3>10 DEF QueryInv
    <2>3. CASE query[q].at \in {"asks", "pauses"}
        <3>1. Returns(q) /\ UNCHANGED tidings /\ q \in Holders /\ "failed" \notin ToSet(tidings[q])
            BY <1>5, <1>12, <2>3 DEF CancelQuery, Holders, QueriesAt
        <3>2. tidings[q] \o <<>> = tidings[q] /\ Reports(q, <<>>)
            BY <3>1, ReportsNothing
        <3>3. QED
            BY <1>4, <3>1, <3>2
    <2>4. QED
        BY <1>12, <2>1, <2>2, <2>3 DEF CancelQuery
<1>13. QED
    BY <1>1, <1>6, <1>7, <1>8, <1>9, <1>10, <1>11, <1>12 DEF GoesOn

----------------------------------------------------------------------------
(* The services.                                                            *)

SlotsInv == StreamInv /\ QueryInv

LEMMA SlotsInvInductive == SlotsInv /\ [ServiceNext]_serviceVars => SlotsInv'
<1> SUFFICES ASSUME SlotsInv, [ServiceNext]_serviceVars PROVE SlotsInv'
    OBVIOUS
<1>1. UNCHANGED streamVars => StreamInv'
    BY DEF SlotsInv, StreamInv, StreamSlotsMatch, streamVars, Inside, Waiting
<1>2. UNCHANGED queryVars => QueryInv'
    BY DEF SlotsInv, QueryInv, queryVars, Holders, QueriesAt, Waiting
<1>3. CASE StreamStep
    BY <1>2, <1>3, StreamStepInv DEF StreamStep, SlotsInv
<1>4. CASE QueryStep
    BY <1>1, <1>4, QueryStepInv DEF QueryStep, SlotsInv
<1>5. CASE EventStep \/ TraceStep \/ UNCHANGED serviceVars
    BY <1>1, <1>2, <1>5 DEF EventStep, TraceStep, serviceVars, SlotsInv
<1>6. QED
    BY <1>3, <1>4, <1>5 DEF ServiceNext

\* Slots of the stream manager and places of the DHT coordinator are never lost and never given
\* twice, however a stream or a query ends and wherever it is cancelled, for every number of calls,
\* of slots and of attempts.
THEOREM SlotsAreGivenBack == ServiceSpec => []SlotsMatch
<1>1. ServiceInit => SlotsInv
    BY StreamInitInv, QueryInitInv DEF ServiceInit, SlotsInv
<1>2. SlotsInv => SlotsMatch
    BY QueryInvHolds DEF SlotsInv, StreamInv, SlotsMatch
<1>3. QED
    BY <1>1, <1>2, SlotsInvInductive, PTL DEF ServiceSpec

\* The collector has every span at most once and in the order they were built, spans_emitted counts
\* them, and spans_dropped counts the others unless threads met in one of three ways: for every size
\* of the queue and of a batch, whatever is refused, posted again or flushed by the thread that stops.
THEOREM SpansAreAccountedFor == ServiceSpec => []SpansAccounted
<1>1. ServiceInit => ExportInv
    BY ExportInitInv DEF ServiceInit
<1>2. ExportInv /\ [ServiceNext]_serviceVars => ExportInv'
    <2> SUFFICES ASSUME ExportInv, [ServiceNext]_serviceVars PROVE ExportInv'
        OBVIOUS
    <2>1. CASE TraceStep
        BY <2>1, ExportStepInv DEF TraceStep
    <2>2. CASE UNCHANGED exportVars
        <3>1. UNCHANGED <<sink, queue, flush, counters, received, built, disturbed>> /\ UNCHANGED scope
            BY <2>2 DEF exportVars
        <3>2. QED
            BY <3>1, SpansAside DEF ExportInv, ExportTypes
    <2>3. QED
        BY <2>1, <2>2 DEF ServiceNext, EventStep, StreamStep, QueryStep, serviceVars
<1>3. ExportInv => SpansAccounted
    BY SpansAccountedFor
<1>4. QED
    BY <1>1, <1>2, <1>3, PTL DEF ServiceSpec

\* The same of a websocket client next to the other services: it goes back by no more than its windows were
\* off by, and where the ring has room for a tick it has the other events told, up to that and to a clear it
\* has missed.
THEOREM ClientsHaveEventsInOrder ==
    /\ ServiceSpec => []InOrder
    /\ Roomy => (ServiceSpec => []InOrderOrTold)
<1>1. ServiceInit => EventInv
    BY EventInitInv DEF ServiceInit
<1>2. EventInv /\ [ServiceNext]_serviceVars => EventInv'
    BY EventStepInv DEF ServiceNext, EventStep, StreamStep, QueryStep, TraceStep, serviceVars
<1>3. EventInv => InOrder /\ (Roomy => InOrderOrTold)
    BY EventInvHolds DEF InOrderOrTold
<1>4. ServiceSpec => []EventInv
    BY <1>1, <1>2, PTL DEF ServiceSpec
<1>5. EventInv => InOrder
    BY <1>3
<1>6. ServiceSpec => []InOrder
    BY <1>4, <1>5, PTL
<1>7. ASSUME Roomy PROVE ServiceSpec => []InOrderOrTold
    <2>1. EventInv => InOrderOrTold
        BY <1>3, <1>7
    <2>2. QED
        BY <1>4, <2>1, PTL
<1>8. QED
    BY <1>6, <1>7

----------------------------------------------------------------------------
(* Run control: for any number of requests at a time, any scenarios and any *)
(* node counts one loop runs, a scenario is armed on its own topology, and  *)
(* a client knows what it draws.                                            *)

----------------------------------------------------------------------------
(* Types.                                                                   *)

\* The requests in flight, by what they have read so far.
Resets       == [op : {"reset"}, at : {"clearing", "cleared"}]
Launches     == [op : {"launch"}, at : {"clearing", "cleared"}, scenario : Names]
Built        == [op : {"launch"}, at : {"building"}, scenario : Names, size : Sizes]
Applied      == [op : {"apply"}, at : {"building"}, size : Sizes]
Queued       == [op : {"reconfigure"}, at : {"waiting"}, size : Sizes]
Reconfigures == [op : {"reconfigure"}, at : {"cancelling", "joining"}, size : Sizes, loop : 1 .. MaxLoops]

InFlight == Resets \cup Launches \cup Built \cup Applied \cup Queued \cup Reconfigures

TypeOK ==
    /\ size \in Sizes
    /\ edges \in [size : Sizes, of : Names \cup {"initial", "user"}]
    /\ faults \in SUBSET {"this", "earlier"}
    /\ playing \in BOOLEAN
    /\ time \in Nat
    /\ loops \in [1 .. MaxLoops -> {"none", "running", "cancelled", "ended"}]
    /\ live \in 1 .. MaxLoops
    /\ lock \in Handlers \cup {"none"}
    /\ handlers \in [Handlers -> InFlight \cup {Free}]
    /\ scenario \in Names \cup {"none"}
    /\ idx \in Nat /\ fired \in SUBSET Nat /\ lost \in SUBSET Nat
    /\ polled \in [scenario : Names \cup {"none"}, idx : Nat, arming : Nat]
    /\ gen \in Nat /\ arming \in Nat
    /\ shown \in [gen : Nat, arming : Nat]
    /\ ops \in Nat

\* A handler that is at some stage has the fields of that stage.
LEMMA StageFields ==
    ASSUME TypeOK, NEW h \in Handlers
    PROVE  /\ At(h, "clearing") \/ At(h, "cleared") => handlers[h] \in Resets \cup Launches
           /\ At(h, "building") => handlers[h] \in Built \cup Applied
           /\ At(h, "waiting") => handlers[h] \in Queued
           /\ At(h, "cancelling") \/ At(h, "joining") => handlers[h] \in Reconfigures
BY DEF TypeOK, At, InFlight, Resets, Launches, Built, Applied, Queued, Reconfigures, Free

LEMMA TypeInit == RunInit => TypeOK
<1> SUFFICES ASSUME RunInit PROVE TypeOK
    OBVIOUS
<1>1. 1 \in 1 .. MaxLoops
    BY RunAssumption
<1>2. /\ loops \in [1 .. MaxLoops -> {"none", "running", "cancelled", "ended"}]
      /\ handlers \in [Handlers -> InFlight \cup {Free}]
    BY DEF RunInit
<1>3. /\ edges \in [size : Sizes, of : Names \cup {"initial", "user"}]
      /\ polled \in [scenario : Names \cup {"none"}, idx : Nat, arming : Nat]
      /\ shown \in [gen : Nat, arming : Nat]
    BY DEF RunInit, NotPolling
<1>4. playing \in BOOLEAN /\ faults \in SUBSET {"this", "earlier"}
    BY DEF RunInit
<1>5. QED
    BY <1>1, <1>2, <1>3, <1>4 DEF RunInit, TypeOK

\* Requests that begin, and what they do from one await to the next.
LEMMA TypeRequest ==
    ASSUME TypeOK, NEW h \in Handlers, Request(h)
    PROVE  TypeOK'
<1>1. ASSUME NEW r \in InFlight, Begin(h, r) PROVE TypeOK'
    BY <1>1 DEF TypeOK, Begin, engine, threads, runner, frames
<1>2. CASE sim_reset(h)
    BY <1>1, <1>2 DEF sim_reset, InFlight, Resets
<1>3. CASE topology_apply(h)
    BY <1>1, <1>3 DEF topology_apply, InFlight, Applied, PoolSize, TypeOK
<1>4. CASE \E s \in Names : launch_scenario(h, s)
    BY <1>1, <1>4 DEF launch_scenario, InFlight, Launches
<1>5. CASE \E n \in Sizes : sim_reconfigure(h, n)
    BY <1>1, <1>5 DEF sim_reconfigure, InFlight, Queued
<1>6. QED
    BY <1>2, <1>3, <1>4, <1>5 DEF Request

LEMMA TypeProgress ==
    ASSUME TypeOK, NEW h \in Handlers, Progress(h)
    PROVE  TypeOK'
<1> USE DEF engine, threads, runner, frames
<1>0. Free \in InFlight \cup {Free}
    OBVIOUS
<1>1. CASE ClearForReset(h)
    <2>1. handlers[h] \in Resets \cup Launches
        BY <1>1, StageFields DEF ClearForReset
    <2>2. [handlers[h] EXCEPT !.at = "cleared"] \in InFlight
        BY <2>1 DEF InFlight, Resets, Launches
    <2>3. handlers' \in [Handlers -> InFlight \cup {Free}]
        BY <1>1, <2>2 DEF ClearForReset, TypeOK
    <2>4. QED
        BY <1>1, <2>3 DEF ClearForReset, TypeOK
<1>2. CASE ResetRun(h)
    <2>1. handlers[h] \in Resets \cup Launches
        BY <1>2, StageFields DEF ResetRun
    <2>2. handlers[h].op # "reset" =>
            [op |-> "launch", at |-> "building", scenario |-> handlers[h].scenario, size |-> PoolSize] \in InFlight
        BY <2>1 DEF InFlight, Resets, Launches, Built, PoolSize, TypeOK
    <2>3. handlers' \in [Handlers -> InFlight \cup {Free}]
        BY <1>2, <2>2 DEF ResetRun, TypeOK
    <2>4. playing' \in BOOLEAN
        BY <1>2 DEF ResetRun, StartOver
    <2>5. QED
        BY <1>2, <2>3, <2>4 DEF ResetRun, TypeOK, StartOver, Arm, Announce, ArmedByReset
<1>3. CASE WireBuilt(h)
    <2>1. handlers[h] \in Built \cup Applied
        BY <1>3, StageFields DEF WireBuilt
    <2>2. handlers' \in [Handlers -> InFlight \cup {Free}]
        BY <1>3 DEF WireBuilt, TypeOK
    <2>3. CASE handlers[h].op = "apply"
        <3>1. UNCHANGED <<runner, gen, arming, playing>> /\ edges' = [size |-> handlers[h].size, of |-> "user"]
            BY <1>3, <2>3 DEF WireBuilt
        <3>2. QED
            BY <1>3, <2>1, <2>2, <2>3, <3>1 DEF WireBuilt, TypeOK, Applied, Built
    <2>4. CASE handlers[h].op = "launch"
        <3>1. playing' \in BOOLEAN
            BY <1>3, <2>4 DEF WireBuilt
        <3>2. QED
            BY <1>3, <2>1, <2>2, <2>4, <3>1 DEF WireBuilt, TypeOK, Applied, Built, Arm, Announce
    <2>5. QED
        BY <1>3, <2>3, <2>4 DEF WireBuilt
<1>4. CASE CaptureLoop(h)
    <2>1. handlers[h] \in Queued
        BY <1>4, StageFields DEF CaptureLoop
    <2>2. [op |-> "reconfigure", at |-> "cancelling", size |-> handlers[h].size, loop |-> live] \in InFlight
        BY <2>1 DEF InFlight, Queued, Reconfigures, TypeOK
    <2>3. handlers' \in [Handlers -> InFlight \cup {Free}]
        BY <1>4, <2>2 DEF CaptureLoop, TypeOK
    <2>4. QED
        BY <1>4, <2>3 DEF CaptureLoop, TypeOK
<1>5. CASE CancelLoop(h)
    <2>1. handlers[h] \in Reconfigures
        BY <1>5, StageFields DEF CancelLoop
    <2>2. [handlers[h] EXCEPT !.at = "joining"] \in InFlight
        BY <2>1 DEF InFlight, Reconfigures
    <2>3. handlers' \in [Handlers -> InFlight \cup {Free}]
        BY <1>5, <2>2 DEF CancelLoop, TypeOK
    <2>4. QED
        BY <1>5, <2>3 DEF CancelLoop, TypeOK
<1>6. CASE Rebuild(h)
    <2>1. handlers[h] \in Reconfigures
        BY <1>6, StageFields DEF Rebuild
    <2>2. handlers' \in [Handlers -> InFlight \cup {Free}]
        BY <1>6 DEF Rebuild, TypeOK
    <2>3. live' \in 1 .. MaxLoops
        BY <1>6, RunAssumption DEF Rebuild, TypeOK
    <2>4. playing' \in BOOLEAN
        BY <1>6 DEF Rebuild
    <2>5. edges' \in [size : Sizes, of : Names \cup {"initial", "user"}] /\ size' \in Sizes
        BY <1>6, <2>1 DEF Rebuild, Reconfigures
    <2>6. QED
        BY <1>6, <2>2, <2>3, <2>4, <2>5 DEF Rebuild, TypeOK, Arm, Announce
<1>7. QED
    BY <1>1, <1>2, <1>3, <1>4, <1>5, <1>6 DEF Progress

LEMMA TypeNext == TypeOK /\ [RunNext]_runVars => TypeOK'
<1> SUFFICES ASSUME TypeOK, [RunNext]_runVars PROVE TypeOK'
    OBVIOUS
<1> USE DEF engine, threads, runner, frames
<1>1. CASE Advance
    BY <1>1 DEF Advance, TypeOK
<1>2. CASE PollRead
    BY <1>2 DEF PollRead, TypeOK
<1>3. CASE PollFire
    <2>1. faults' \in SUBSET {"this", "earlier"}
        BY <1>3 DEF PollFire, TypeOK, Fired
    <2>2. idx' \in Nat /\ fired' \in SUBSET Nat /\ lost' \in SUBSET Nat
        <3>1. polled.idx + 1 \in Nat /\ fired \in SUBSET Nat /\ lost \in SUBSET Nat
            BY DEF TypeOK
        <3>2. idx' = polled.idx + 1 /\ fired' \in {fired, fired \cup {polled.idx + 1}}
              /\ lost' \in {lost, (lost \cup 1 .. polled.idx + 1) \ fired}
            BY <1>3 DEF PollFire, PassOn
        <3>3. 1 .. polled.idx + 1 \in SUBSET Nat
            BY <3>1
        <3>4. QED
            BY <3>1, <3>2, <3>3
    <2>3. QED
        BY <1>3, <2>1, <2>2 DEF PollFire, TypeOK, NotPolling
<1>4. CASE UserFault
    BY <1>4 DEF UserFault, TypeOK
<1>5. CASE PlayPause
    <2>1. playing' \in BOOLEAN
        BY <1>5 DEF PlayPause
    <2>2. QED
        BY <1>5, <2>1 DEF PlayPause, TypeOK
<1>6. CASE ClientTick
    BY <1>6 DEF ClientTick, TypeOK
<1>7. CASE \E t \in 0 .. MaxTime : Seek(t)
    BY <1>7, RunAssumption DEF Seek, TypeOK
<1>8. CASE \E l \in 1 .. MaxLoops : LoopEnds(l)
    BY <1>8 DEF LoopEnds, TypeOK
<1>9. CASE UNCHANGED runVars
    BY <1>9 DEF runVars, TypeOK
<1>10. QED
    BY <1>1, <1>2, <1>3, <1>4, <1>5, <1>6, <1>7, <1>8, <1>9, TypeRequest, TypeProgress DEF RunNext, Poll

\* Whatever requests overlap, each variable keeps its type; in particular a
\* request in flight has read what its next step needs.
THEOREM TypeCorrect == RunSpec => []TypeOK
BY TypeInit, TypeNext, PTL DEF RunSpec

----------------------------------------------------------------------------
(* One loop.                                                                *)

\* A reconfiguration that has captured a loop holds the lock, so that nobody
\* replaces that loop; once it joins it, the loop does not run; and the loops
\* after the live one have not begun.
LoopInv ==
    /\ \A h \in Handlers :
         /\ At(h, "cancelling") \/ At(h, "joining") => lock = h /\ handlers[h].loop = live
         /\ At(h, "joining") => loops[live] # "running"
    /\ \A l \in 1 .. MaxLoops : loops[l] = "running" => l = live

LEMMA LoopInit == RunInit => LoopInv
BY DEF RunInit, LoopInv, At

LEMMA LoopProgress ==
    ASSUME TypeOK, LoopInv, NEW h \in Handlers, Progress(h)
    PROVE  LoopInv'
<1> USE DEF engine, threads, runner, frames
<1>1. CASE ClearForReset(h)
    <2>1. handlers[h] \in Resets \cup Launches
        BY <1>1, StageFields DEF ClearForReset
    <2>2. /\ UNCHANGED <<live, loops, lock>>
          /\ \A g \in Handlers \ {h} : handlers'[g] = handlers[g]
          /\ handlers'[h] = Free \/ handlers'[h].at = "cleared"
        BY <1>1, <2>1 DEF ClearForReset, TypeOK, Resets, Launches
    <2>3. QED
        BY <2>2 DEF LoopInv, At
<1>2. CASE ResetRun(h)
    <2>1. /\ UNCHANGED <<live, loops, lock>>
          /\ \A g \in Handlers \ {h} : handlers'[g] = handlers[g]
          /\ handlers'[h] = Free \/ handlers'[h].at = "building"
        BY <1>2 DEF ResetRun, TypeOK
    <2>2. QED
        BY <2>1 DEF LoopInv, At
<1>3. CASE WireBuilt(h)
    <2>1. /\ UNCHANGED <<live, loops, lock>>
          /\ \A g \in Handlers \ {h} : handlers'[g] = handlers[g]
          /\ handlers'[h] = Free
        BY <1>3 DEF WireBuilt, TypeOK
    <2>2. QED
        BY <2>1 DEF LoopInv, At
<1>4. CASE CaptureLoop(h)
    <2>1. /\ UNCHANGED <<live, loops>> /\ lock = "none" /\ lock' = h
          /\ \A g \in Handlers \ {h} : handlers'[g] = handlers[g]
          /\ handlers'[h].at = "cancelling" /\ handlers'[h].loop = live
        BY <1>4 DEF CaptureLoop, TypeOK
    <2>2. \A g \in Handlers : ~At(g, "cancelling") /\ ~At(g, "joining")
        BY <2>1, RunAssumption DEF LoopInv
    <2>3. QED
        BY <2>1, <2>2 DEF LoopInv, At
<1>5. CASE CancelLoop(h)
    <2>1. handlers[h] \in Reconfigures /\ lock = h /\ handlers[h].loop = live
        BY <1>5, StageFields DEF CancelLoop, LoopInv
    <2>2. /\ UNCHANGED <<live, lock>>
          /\ \A g \in Handlers \ {h} : handlers'[g] = handlers[g]
          /\ handlers'[h].at = "joining" /\ handlers'[h].loop = live
        BY <1>5, <2>1 DEF CancelLoop, TypeOK, Reconfigures
    <2>3. \A l \in 1 .. MaxLoops : loops'[l] = "running" => loops[l] = "running" /\ l # live
        BY <1>5, <2>1 DEF CancelLoop, TypeOK
    <2>4. live \in 1 .. MaxLoops /\ loops'[live] # "running"
        BY <2>3 DEF TypeOK
    <2>5. ASSUME NEW g \in Handlers, (At(g, "cancelling") \/ At(g, "joining"))'
          PROVE  lock' = g /\ handlers'[g].loop = live'
        BY <2>1, <2>2, <2>5 DEF LoopInv, At
    <2>6. \A l \in 1 .. MaxLoops : loops'[l] = "running" => l = live'
        BY <2>2, <2>3 DEF LoopInv
    <2>7. QED
        BY <2>2, <2>4, <2>5, <2>6 DEF LoopInv
<1>6. CASE Rebuild(h)
    <2>1. lock = h /\ loops[live] # "running"
        BY <1>6 DEF Rebuild, LoopInv
    <2>2. /\ \A g \in Handlers \ {h} : handlers'[g] = handlers[g]
          /\ handlers'[h] = Free
        BY <1>6 DEF Rebuild, TypeOK
    <2>3. \A g \in Handlers : ~At(g, "cancelling")' /\ ~At(g, "joining")'
        BY <2>1, <2>2 DEF LoopInv, At
    <2>4. \A l \in 1 .. MaxLoops : loops'[l] = "running" => l = live'
        BY <1>6, <2>1 DEF Rebuild, TypeOK, LoopInv
    <2>5. QED
        BY <2>3, <2>4 DEF LoopInv
<1>7. QED
    BY <1>1, <1>2, <1>3, <1>4, <1>5, <1>6 DEF Progress

LEMMA LoopNext == TypeOK /\ LoopInv /\ [RunNext]_runVars => LoopInv'
<1> SUFFICES ASSUME TypeOK, LoopInv, [RunNext]_runVars PROVE LoopInv'
    OBVIOUS
<1> USE DEF engine, threads, runner, frames
<1>1. ASSUME UNCHANGED <<loops, live, lock, handlers>> PROVE LoopInv'
    BY <1>1 DEF LoopInv, At
<1>2. CASE Advance \/ Poll \/ UserFault \/ PlayPause \/ ClientTick \/ \E t \in 0 .. MaxTime : Seek(t)
    BY <1>1, <1>2 DEF Advance, Poll, PollRead, PollFire, UserFault, PlayPause, ClientTick, Seek
<1>3. CASE \E l \in 1 .. MaxLoops : LoopEnds(l)
    BY <1>3 DEF LoopEnds, LoopInv, At, TypeOK
<1>4. ASSUME NEW h \in Handlers, Request(h) PROVE LoopInv'
    <2>1. ASSUME NEW r, Begin(h, r), r.at \in {"clearing", "building", "waiting"} PROVE LoopInv'
        BY <2>1 DEF Begin, TypeOK, LoopInv, At
    <2>2. QED
        BY <1>4, <2>1 DEF Request, sim_reset, launch_scenario, topology_apply, sim_reconfigure
<1>5. CASE UNCHANGED runVars
    BY <1>1, <1>5 DEF runVars
<1>6. QED
    BY <1>2, <1>3, <1>4, <1>5, LoopProgress DEF RunNext

\* However many reconfigurations overlap, with each other and with other
\* requests, at most one simulation runs, and it is the one requests go to.
THEOREM OneLoopRuns == RunSpec => []OneLoop
<1>1. LoopInv => OneLoop
    BY DEF LoopInv, OneLoop
<1>2. QED
    BY <1>1, LoopInit, LoopNext, TypeCorrect, PTL DEF RunSpec

----------------------------------------------------------------------------
(* Scenarios and their topologies.                                          *)

LEMMA ScenarioNext == TypeOK /\ ScenarioOnItsTopology /\ [RunNext]_runVars => ScenarioOnItsTopology'
<1> SUFFICES ASSUME TypeOK, ScenarioOnItsTopology, [RunNext]_runVars PROVE ScenarioOnItsTopology'
    OBVIOUS
<1> USE DEF engine, threads, runner, frames, ScenarioOnItsTopology
<1>1. ASSUME UNCHANGED <<edges, scenario>> PROVE ScenarioOnItsTopology'
    BY <1>1
<1>2. CASE Advance \/ Poll \/ UserFault \/ PlayPause \/ ClientTick \/ \E t \in 0 .. MaxTime : Seek(t)
    BY <1>2 DEF Advance, Poll, PollRead, PollFire, UserFault, PlayPause, ClientTick, Seek
<1>3. CASE \E l \in 1 .. MaxLoops : LoopEnds(l)
    BY <1>3 DEF LoopEnds
<1>4. ASSUME NEW h \in Handlers, Request(h) PROVE ScenarioOnItsTopology'
    BY <1>4 DEF Request, sim_reset, launch_scenario, topology_apply, sim_reconfigure, Begin
<1>5. ASSUME NEW h \in Handlers, Progress(h) PROVE ScenarioOnItsTopology'
    <2>1. CASE ClearForReset(h) \/ CaptureLoop(h) \/ CancelLoop(h)
        BY <2>1 DEF ClearForReset, CaptureLoop, CancelLoop
    <2>2. CASE ResetRun(h)
        BY <2>2 DEF ResetRun, Arm, ArmedByReset
    <2>3. CASE WireBuilt(h)
        BY <2>3 DEF WireBuilt, Arm
    <2>4. CASE Rebuild(h)
        BY <2>4 DEF Rebuild, Arm
    <2>5. QED
        BY <1>5, <2>1, <2>2, <2>3, <2>4 DEF Progress
<1>6. CASE UNCHANGED runVars
    BY <1>6 DEF runVars
<1>7. QED
    BY <1>2, <1>3, <1>4, <1>5, <1>6 DEF RunNext

\* In whatever order launches, topologies and reconfigurations end, a scenario
\* is armed on the topology it was written for or on one the user chose.
THEOREM ScenariosOnTheirTopology == RunSpec => []ScenarioOnItsTopology
<1>1. RunInit => ScenarioOnItsTopology
    BY DEF RunInit, ScenarioOnItsTopology
<1>2. QED
    BY <1>1, ScenarioNext, TypeCorrect, PTL DEF RunSpec

----------------------------------------------------------------------------
(* Clients.                                                                 *)

\* Every arming has a generation of its own, and no client is ahead of it.
ClientInv == shown.gen <= gen /\ ClientsFollow

LEMMA ClientNext == TypeOK /\ ClientInv /\ [RunNext]_runVars => ClientInv'
<1> SUFFICES ASSUME TypeOK, ClientInv, [RunNext]_runVars PROVE ClientInv'
    OBVIOUS
<1> USE DEF engine, threads, runner, frames, ClientInv, ClientsFollow
<1>1. CASE Advance \/ Poll \/ UserFault \/ PlayPause \/ \E t \in 0 .. MaxTime : Seek(t)
    BY <1>1 DEF Advance, Poll, PollRead, PollFire, UserFault, PlayPause, Seek
<1>2. CASE ClientTick
    BY <1>2 DEF ClientTick, TypeOK
<1>3. CASE \E l \in 1 .. MaxLoops : LoopEnds(l)
    BY <1>3 DEF LoopEnds
<1>4. ASSUME NEW h \in Handlers, Request(h) PROVE ClientInv'
    BY <1>4 DEF Request, sim_reset, launch_scenario, topology_apply, sim_reconfigure, Begin
<1>5. ASSUME NEW h \in Handlers, Progress(h) PROVE ClientInv'
    <2>1. \/ UNCHANGED <<gen, arming, shown>>
          \/ gen' = gen + 1 /\ UNCHANGED shown
        <3>1. CASE ClearForReset(h) \/ CaptureLoop(h) \/ CancelLoop(h)
            BY <3>1 DEF ClearForReset, CaptureLoop, CancelLoop
        <3>2. CASE ResetRun(h)
            BY <3>2 DEF ResetRun, Announce
        <3>3. CASE WireBuilt(h)
            BY <3>3 DEF WireBuilt, Announce
        <3>4. CASE Rebuild(h)
            BY <3>4 DEF Rebuild, Announce
        <3>5. QED
            BY <1>5, <3>1, <3>2, <3>3, <3>4 DEF Progress
    <2>2. QED
        BY <2>1 DEF TypeOK
<1>6. CASE UNCHANGED runVars
    BY <1>6 DEF runVars
<1>7. QED
    BY <1>1, <1>2, <1>3, <1>4, <1>5, <1>6 DEF RunNext

\* Nothing arms or disarms the runner without a new generation, so a client
\* that has the current one knows what is armed.
THEOREM ClientsKnow == RunSpec => []ClientsFollow
<1>1. RunInit => ClientInv
    BY DEF RunInit, ClientInv, ClientsFollow
<1>2. ClientInv => ClientsFollow
    BY DEF ClientInv
<1>3. QED
    BY <1>1, <1>2, ClientNext, TypeCorrect, PTL DEF RunSpec
=============================================================================
