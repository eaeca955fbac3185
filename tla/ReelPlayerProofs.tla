--------------------------- MODULE ReelPlayerProofs ---------------------------
(***************************************************************************)
(* Proofs about the reel player: it implements ReelView, whatever was      *)
(* loaded, played, sought and left before; for any recordings.             *)
(***************************************************************************)
EXTENDS ReelPlayer, TLAPS, FiniteSetTheorems, SequenceTheorems, WellFoundedInduction

----------------------------------------------------------------------------
(* Folds, step by step.  Induction is over the set of the numbers that      *)
(* satisfy a predicate.                                                     *)

LEMMA NumbersBySteps ==
    ASSUME NEW S \in SUBSET Nat, 0 \in S, \A n \in S : n + 1 \in S
    PROVE  S = Nat
<1> DEFINE T == Nat \ S
<1>1. ASSUME T # {} PROVE FALSE
    <2>1. PICK x \in T : \A y \in T : ~(<<y, x>> \in OpToRel(<, Nat))
        BY <1>1, WFMin, NatLessThanWellFounded
    <2>2. x - 1 \in Nat /\ x - 1 < x /\ (x - 1) + 1 = x
        OBVIOUS
    <2>3. <<x - 1, x>> \in OpToRel(<, Nat) /\ x - 1 \in S
        BY <2>1, <2>2 DEF OpToRel
    <2>4. QED
        BY <2>2, <2>3
<1>2. QED
    BY <1>1

\* What the program folds over sequences: events into the store, frames into a channel, frames into a scan.
Does(k, x, y) ==
    CASE k = "event" -> ApplyEvent(x, y)
      [] k = "frame" -> DispatchFrame(x, y)
      [] k = "scan"  -> ScanFrame(x, y)

Dispatched(ch, q) == FoldLeft(DispatchFrame, ch, q)
Scanned(a, q) == FoldLeft(ScanFrame, a, q)

\* The fold over the first n elements, as the library computes it.
Folded(k, it, s, q, n) ==
    /\ it = [t \in SUBSET (1..n) |-> it[t]]
    /\ \A t \in SUBSET (1..n) : it[t] = IF t = {} THEN s ELSE Does(k, it[t \ {Max(t)}], q[Max(t)])

LEMMA LastIsMax ==
    ASSUME NEW n \in Nat, NEW t, t \subseteq 1..(n + 1), n + 1 \in t
    PROVE  Max(t) = n + 1
<1>1. \E x \in t : \A y \in t : x >= y
    OBVIOUS
<1>2. Max(t) \in t /\ \A y \in t : Max(t) >= y
    BY <1>1, Zenon DEF Max
<1>3. PICK m : m = Max(t)
    OBVIOUS
<1>4. m \in 1..(n + 1) /\ m >= n + 1
    BY <1>2, <1>3
<1>5. QED
    BY <1>3, <1>4

LEMMA FoldExists ==
    ASSUME NEW k, NEW s, NEW q
    PROVE  \A n \in Nat : \E it : Folded(k, it, s, q, n)
<1> DEFINE S == {n \in Nat : \E it : Folded(k, it, s, q, n)}
<1>1. 0 \in S
    <2>1. PICK it : it = [t \in SUBSET (1..0) |-> s]
        OBVIOUS
    <2>2. \A t \in SUBSET (1..0) : t = {}
        OBVIOUS
    <2>3. Folded(k, it, s, q, 0)
        BY <2>1, <2>2 DEF Folded
    <2>4. QED
        BY <2>3
<1>2. ASSUME NEW n \in S PROVE n + 1 \in S
    <2>1. PICK old : Folded(k, old, s, q, n)
        OBVIOUS
    <2>2. PICK it : it = [t \in SUBSET (1..(n + 1)) |->
                            IF n + 1 \in t THEN Does(k, old[t \ {n + 1}], q[n + 1]) ELSE old[t]]
        OBVIOUS
    <2>3. \A t \in SUBSET (1..n) : t \in SUBSET (1..(n + 1)) /\ n + 1 \notin t /\ it[t] = old[t]
        BY <2>2
    <2>4. ASSUME NEW t \in SUBSET (1..(n + 1))
          PROVE  it[t] = IF t = {} THEN s ELSE Does(k, it[t \ {Max(t)}], q[Max(t)])
        <3>1. CASE n + 1 \in t
            <4>1. Max(t) = n + 1
                BY <3>1, LastIsMax
            <4>2. t \ {n + 1} \in SUBSET (1..n) /\ t # {}
                BY <3>1
            <4>3. it[t] = Does(k, old[t \ {n + 1}], q[n + 1])
                BY <2>2, <3>1
            <4>4. QED
                BY <2>3, <4>1, <4>2, <4>3
        <3>2. CASE n + 1 \notin t
            <4>1. t \in SUBSET (1..n) /\ t \ {Max(t)} \in SUBSET (1..n)
                <5>1. n \in Nat
                    OBVIOUS
                <5>2. ASSUME NEW i \in t PROVE i \in 1..n
                    BY <3>2, <5>1
                <5>3. QED
                    BY <5>2
            <4>2. old[t] = IF t = {} THEN s ELSE Does(k, old[t \ {Max(t)}], q[Max(t)])
                BY <2>1, <4>1 DEF Folded
            <4>3. QED
                BY <2>3, <4>1, <4>2
        <3>3. QED
            BY <3>1, <3>2
    <2>5. Folded(k, it, s, q, n + 1)
        <3>1. it = [t \in SUBSET (1..(n + 1)) |-> it[t]]
            BY <2>2
        <3>2. QED
            BY <2>4, <3>1 DEF Folded
    <2>6. QED
        BY <2>5
<1>3. S = Nat
    <2> HIDE DEF S
    <2>1. S \in SUBSET Nat
        BY DEF S
    <2>2. QED
        BY <1>1, <1>2, <2>1, NumbersBySteps
<1>4. QED
    BY <1>3

\* x comes of s by the elements of q, one after the other; g has what there is after each.
Walks(k, g, s, q) ==
    g[0] = s /\ \A n \in 0..(Len(q) - 1) : g[n + 1] = Does(k, g[n], q[n + 1])
LeadsTo(k, s, q, x) == \E g : Walks(k, g, s, q) /\ x = g[Len(q)]

LEMMA FoldedLeads ==
    ASSUME NEW k, NEW s, NEW E, NEW q \in Seq(E), NEW it, Folded(k, it, s, q, Len(q))
    PROVE  LeadsTo(k, s, q, it[1..Len(q)])
<1> DEFINE N == Len(q)
<1>1. N \in Nat
    OBVIOUS
<1>2. PICK g : g = [n \in Nat |-> it[1..n]]
    OBVIOUS
<1> HIDE DEF N
<1>3. g[0] = s
    <2>1. 1..0 = {} /\ {} \in SUBSET (1..N)
        OBVIOUS
    <2>2. QED
        BY <1>2, <2>1 DEF Folded, N
<1>4. ASSUME NEW n \in 0..(N - 1) PROVE g[n + 1] = Does(k, g[n], q[n + 1])
    <2>1. /\ n \in Nat /\ n + 1 \in Nat
          /\ 1..(n + 1) \in SUBSET (1..N) /\ 1..(n + 1) # {} /\ (1..(n + 1)) \ {n + 1} = 1..n
        <3>1. n \in Nat /\ n + 1 \in 1..N
            BY <1>1
        <3>2. \A i \in 1..(n + 1) : i \in 1..N
            BY <1>1, <3>1
        <3>3. n + 1 \in 1..(n + 1) /\ n + 1 \in Nat
            BY <3>1
        <3>4. (1..(n + 1)) \ {n + 1} = 1..n
            BY <3>1
        <3>5. QED
            BY <3>1, <3>2, <3>3, <3>4
    <2>2. Max(1..(n + 1)) = n + 1
        BY <2>1, LastIsMax
    <2>3. it[1..(n + 1)] = Does(k, it[(1..(n + 1)) \ {Max(1..(n + 1))}], q[Max(1..(n + 1))])
        BY <2>1 DEF Folded, N
    <2>4. QED
        BY <1>2, <2>1, <2>2, <2>3
<1>5. g[N] = it[1..N]
    BY <1>1, <1>2
<1>6. QED
    BY <1>3, <1>4, <1>5 DEF LeadsTo, Walks, N

LEMMA EventsFold ==
    ASSUME NEW s, NEW E, NEW q \in Seq(E)
    PROVE  LeadsTo("event", s, q, ApplyEvents(s, q))
<1>1. Len(q) \in Nat /\ DOMAIN q = 1..Len(q)
    OBVIOUS
<1>2. PICK any : any = CHOOSE it :
                 it = [t \in SUBSET (1..Len(q)) |-> IF t = {} THEN s ELSE ApplyEvent(it[t \ {Max(t)}], q[Max(t)])]
    OBVIOUS
<1>3. ApplyEvents(s, q) = any[1..Len(q)]
    BY <1>1, <1>2, Zenon DEF ApplyEvents, FoldLeft, MapThenFoldSet
<1>4. \A x, y : Does("event", x, y) = ApplyEvent(x, y)
    BY DEF Does
<1>5. PICK it : Folded("event", it, s, q, Len(q))
    BY <1>1, FoldExists
<1>6. it = [t \in SUBSET (1..Len(q)) |-> IF t = {} THEN s ELSE ApplyEvent(it[t \ {Max(t)}], q[Max(t)])]
    BY <1>4, <1>5 DEF Folded
<1>7. any = [t \in SUBSET (1..Len(q)) |-> IF t = {} THEN s ELSE ApplyEvent(any[t \ {Max(t)}], q[Max(t)])]
    BY <1>2, <1>6, Zenon
<1>8. Folded("event", any, s, q, Len(q))
    BY <1>4, <1>7 DEF Folded
<1>9. QED
    BY <1>3, <1>8, FoldedLeads

LEMMA FramesFold ==
    ASSUME NEW s, NEW E, NEW q \in Seq(E)
    PROVE  LeadsTo("frame", s, q, Dispatched(s, q))
<1>1. Len(q) \in Nat /\ DOMAIN q = 1..Len(q)
    OBVIOUS
<1>2. PICK any : any = CHOOSE it :
                 it = [t \in SUBSET (1..Len(q)) |-> IF t = {} THEN s ELSE DispatchFrame(it[t \ {Max(t)}], q[Max(t)])]
    OBVIOUS
<1>3. Dispatched(s, q) = any[1..Len(q)]
    BY <1>1, <1>2, Zenon DEF Dispatched, FoldLeft, MapThenFoldSet
<1>4. \A x, y : Does("frame", x, y) = DispatchFrame(x, y)
    BY DEF Does
<1>5. PICK it : Folded("frame", it, s, q, Len(q))
    BY <1>1, FoldExists
<1>6. it = [t \in SUBSET (1..Len(q)) |-> IF t = {} THEN s ELSE DispatchFrame(it[t \ {Max(t)}], q[Max(t)])]
    BY <1>4, <1>5 DEF Folded
<1>7. any = [t \in SUBSET (1..Len(q)) |-> IF t = {} THEN s ELSE DispatchFrame(any[t \ {Max(t)}], q[Max(t)])]
    BY <1>2, <1>6, Zenon
<1>8. Folded("frame", any, s, q, Len(q))
    BY <1>4, <1>7 DEF Folded
<1>9. QED
    BY <1>3, <1>8, FoldedLeads

LEMMA ScansFold ==
    ASSUME NEW s, NEW E, NEW q \in Seq(E)
    PROVE  LeadsTo("scan", s, q, Scanned(s, q))
<1>1. Len(q) \in Nat /\ DOMAIN q = 1..Len(q)
    OBVIOUS
<1>2. PICK any : any = CHOOSE it :
                 it = [t \in SUBSET (1..Len(q)) |-> IF t = {} THEN s ELSE ScanFrame(it[t \ {Max(t)}], q[Max(t)])]
    OBVIOUS
<1>3. Scanned(s, q) = any[1..Len(q)]
    BY <1>1, <1>2, Zenon DEF Scanned, FoldLeft, MapThenFoldSet
<1>4. \A x, y : Does("scan", x, y) = ScanFrame(x, y)
    BY DEF Does
<1>5. PICK it : Folded("scan", it, s, q, Len(q))
    BY <1>1, FoldExists
<1>6. it = [t \in SUBSET (1..Len(q)) |-> IF t = {} THEN s ELSE ScanFrame(it[t \ {Max(t)}], q[Max(t)])]
    BY <1>4, <1>5 DEF Folded
<1>7. any = [t \in SUBSET (1..Len(q)) |-> IF t = {} THEN s ELSE ScanFrame(any[t \ {Max(t)}], q[Max(t)])]
    BY <1>2, <1>6, Zenon
<1>8. Folded("scan", any, s, q, Len(q))
    BY <1>4, <1>7 DEF Folded
<1>9. QED
    BY <1>3, <1>8, FoldedLeads

\* There is one result.
LEMMA LeadsToOne ==
    ASSUME NEW k, NEW s, NEW E, NEW q \in Seq(E), NEW x, NEW y, LeadsTo(k, s, q, x), LeadsTo(k, s, q, y)
    PROVE  x = y
<1>1. PICK g : Walks(k, g, s, q) /\ x = g[Len(q)]
    BY DEF LeadsTo
<1>2. PICK h : Walks(k, h, s, q) /\ y = h[Len(q)]
    BY DEF LeadsTo
<1> DEFINE S == {n \in Nat : n <= Len(q) => g[n] = h[n]}
<1>3. 0 \in S
    BY <1>1, <1>2 DEF Walks
<1>4. ASSUME NEW n \in S PROVE n + 1 \in S
    <2>1. SUFFICES ASSUME n + 1 <= Len(q) PROVE g[n + 1] = h[n + 1]
        OBVIOUS
    <2>2. n \in 0..(Len(q) - 1) /\ g[n] = h[n]
        BY <2>1
    <2>3. QED
        BY <1>1, <1>2, <2>2 DEF Walks
<1>5. S = Nat
    <2>1. S \in SUBSET Nat
        OBVIOUS
    <2> HIDE DEF S
    <2>2. QED
        BY <1>3, <1>4, <2>1, NumbersBySteps
<1>6. Len(q) \in S
    BY <1>5
<1>7. QED
    BY <1>1, <1>2, <1>6

LEMMA LeadsNowhere ==
    ASSUME NEW k, NEW s, NEW x
    PROVE  LeadsTo(k, s, <<>>, x) => x = s
BY DEF LeadsTo, Walks

LEMMA LeadsOneMore ==
    ASSUME NEW k, NEW s, NEW E, NEW q \in Seq(E), NEW e \in E, NEW x, LeadsTo(k, s, q, x)
    PROVE  LeadsTo(k, s, Append(q, e), Does(k, x, e))
<1>1. PICK g : Walks(k, g, s, q) /\ x = g[Len(q)]
    BY DEF LeadsTo
<1> DEFINE N == Len(q)
<1>2. N \in Nat /\ Len(Append(q, e)) = N + 1
    OBVIOUS
<1>3. Append(q, e)[N + 1] = e /\ \A n \in 1..N : Append(q, e)[n] = q[n]
    OBVIOUS
<1> HIDE DEF N
<1>4. PICK h : h = [n \in Nat |-> IF n <= N THEN g[n] ELSE Does(k, x, e)]
    OBVIOUS
<1>5. h[0] = s
    BY <1>1, <1>2, <1>4 DEF Walks
<1>6. ASSUME NEW n \in 0..N PROVE h[n + 1] = Does(k, h[n], Append(q, e)[n + 1])
    <2>1. CASE n = N
        <3>1. h[n] = x
            BY <1>1, <1>2, <1>4, <2>1 DEF N
        <3>2. h[n + 1] = Does(k, x, e)
            BY <1>2, <1>4, <2>1
        <3>3. QED
            BY <1>3, <2>1, <3>1, <3>2
    <2>2. CASE n # N
        <3>1. n \in 0..(N - 1) /\ n + 1 \in 1..N /\ n \in Nat /\ n <= N
            BY <1>2, <2>2
        <3>2. h[n] = g[n] /\ h[n + 1] = g[n + 1]
            BY <1>2, <1>4, <3>1
        <3>3. g[n + 1] = Does(k, g[n], q[n + 1])
            BY <1>1, <3>1 DEF Walks, N
        <3>4. QED
            BY <1>3, <3>1, <3>2, <3>3
    <2>3. QED
        BY <2>1, <2>2
<1>7. h[N + 1] = Does(k, x, e)
    BY <1>2, <1>4
<1>8. Walks(k, h, s, Append(q, e))
    <2>1. (N + 1) - 1 = N
        BY <1>2
    <2>2. QED
        BY <1>2, <1>5, <1>6, <2>1 DEF Walks
<1>9. QED
    BY <1>2, <1>7, <1>8 DEF LeadsTo

\* So each of the three starts with nothing done and goes on by one step.
LEMMA NothingDone ==
    ASSUME NEW s
    PROVE  ApplyEvents(s, <<>>) = s /\ Dispatched(s, <<>>) = s /\ Scanned(s, <<>>) = s
<1>1. <<>> \in Seq({})
    OBVIOUS
<1>2. ApplyEvents(s, <<>>) = s
    BY <1>1, EventsFold, LeadsNowhere
<1>3. Dispatched(s, <<>>) = s
    BY <1>1, FramesFold, LeadsNowhere
<1>4. Scanned(s, <<>>) = s
    BY <1>1, ScansFold, LeadsNowhere
<1>5. QED
    BY <1>2, <1>3, <1>4

LEMMA EventsOneMore ==
    ASSUME NEW s, NEW E, NEW q \in Seq(E), NEW e \in E
    PROVE  ApplyEvents(s, Append(q, e)) = ApplyEvent(ApplyEvents(s, q), e)
<1>1. <<>> \in Seq(E) /\ Append(q, e) \in Seq(E)
    OBVIOUS
<1>3. LeadsTo("event", s, Append(q, e), Does("event", ApplyEvents(s, q), e))
    BY EventsFold, LeadsOneMore
<1>4. LeadsTo("event", s, Append(q, e), ApplyEvents(s, Append(q, e)))
    BY <1>1, EventsFold
<1>5. ApplyEvents(s, Append(q, e)) = Does("event", ApplyEvents(s, q), e)
    <2>1. PICK x, y : x = ApplyEvents(s, Append(q, e)) /\ y = Does("event", ApplyEvents(s, q), e)
        OBVIOUS
    <2>2. PICK p : p = Append(q, e)
        OBVIOUS
    <2>3. p \in Seq(E) /\ LeadsTo("event", s, p, x) /\ LeadsTo("event", s, p, y)
        BY <1>1, <1>3, <1>4, <2>1, <2>2
    <2>4. x = y
        BY <2>3, LeadsToOne
    <2>5. QED
        BY <2>1, <2>4
<1>6. QED
    BY <1>5 DEF Does

LEMMA FramesOneMore ==
    ASSUME NEW s, NEW E, NEW q \in Seq(E), NEW e \in E
    PROVE  Dispatched(s, Append(q, e)) = DispatchFrame(Dispatched(s, q), e)
<1>1. <<>> \in Seq(E) /\ Append(q, e) \in Seq(E)
    OBVIOUS
<1>3. LeadsTo("frame", s, Append(q, e), Does("frame", Dispatched(s, q), e))
    BY FramesFold, LeadsOneMore
<1>4. LeadsTo("frame", s, Append(q, e), Dispatched(s, Append(q, e)))
    BY <1>1, FramesFold
<1>5. Dispatched(s, Append(q, e)) = Does("frame", Dispatched(s, q), e)
    <2>1. PICK x, y : x = Dispatched(s, Append(q, e)) /\ y = Does("frame", Dispatched(s, q), e)
        OBVIOUS
    <2>2. PICK p : p = Append(q, e)
        OBVIOUS
    <2>3. p \in Seq(E) /\ LeadsTo("frame", s, p, x) /\ LeadsTo("frame", s, p, y)
        BY <1>1, <1>3, <1>4, <2>1, <2>2
    <2>4. x = y
        BY <2>3, LeadsToOne
    <2>5. QED
        BY <2>1, <2>4
<1>6. QED
    BY <1>5 DEF Does

LEMMA ScansOneMore ==
    ASSUME NEW s, NEW E, NEW q \in Seq(E), NEW e \in E
    PROVE  Scanned(s, Append(q, e)) = ScanFrame(Scanned(s, q), e)
<1>1. <<>> \in Seq(E) /\ Append(q, e) \in Seq(E)
    OBVIOUS
<1>3. LeadsTo("scan", s, Append(q, e), Does("scan", Scanned(s, q), e))
    BY ScansFold, LeadsOneMore
<1>4. LeadsTo("scan", s, Append(q, e), Scanned(s, Append(q, e)))
    BY <1>1, ScansFold
<1>5. Scanned(s, Append(q, e)) = Does("scan", Scanned(s, q), e)
    <2>1. PICK x, y : x = Scanned(s, Append(q, e)) /\ y = Does("scan", Scanned(s, q), e)
        OBVIOUS
    <2>2. PICK p : p = Append(q, e)
        OBVIOUS
    <2>3. p \in Seq(E) /\ LeadsTo("scan", s, p, x) /\ LeadsTo("scan", s, p, y)
        BY <1>1, <1>3, <1>4, <2>1, <2>2
    <2>4. x = y
        BY <2>3, LeadsToOne
    <2>5. QED
        BY <2>1, <2>4
<1>6. QED
    BY <1>5 DEF Does

\* Induction over sequences, over the set of those that satisfy a predicate.
LEMMA SequencesBySteps ==
    ASSUME NEW E, NEW T \in SUBSET Seq(E), <<>> \in T, \A q \in T, e \in E : Append(q, e) \in T
    PROVE  T = Seq(E)
<1> DEFINE S == {n \in Nat : \A q \in Seq(E) : Len(q) = n => q \in T}
<1>1. 0 \in S
    BY EmptySeq
<1>2. ASSUME NEW n \in S PROVE n + 1 \in S
    <2>1. SUFFICES ASSUME NEW q \in Seq(E), Len(q) = n + 1 PROVE q \in T
        OBVIOUS
    <2>2. q # <<>> /\ n \in Nat
        BY <2>1
    <2>3. PICK p \in Seq(E), e \in E : q = Append(p, e)
        BY <2>2, SequenceEmptyOrAppend
    <2>4. Len(p) = n
        BY <2>1, <2>2, <2>3, AppendProperties
    <2>5. p \in T
        BY <2>2, <2>4
    <2>6. QED
        BY <2>3, <2>5
<1>3. S = Nat
    <2>1. S \in SUBSET Nat
        OBVIOUS
    <2> HIDE DEF S
    <2>2. QED
        BY <1>1, <1>2, <2>1, NumbersBySteps
<1>4. ASSUME NEW q \in Seq(E) PROVE q \in T
    <2>1. Len(q) \in S
        BY <1>3
    <2>2. QED
        BY <2>1
<1>5. QED
    BY <1>4

----------------------------------------------------------------------------
(* Frames one after the other: when the events are flushed does not matter. *)

\* What a frame does once its turn comes.
Shows(s, f) == IF f.type = "event" THEN ApplyEvent(s, f) ELSE ApplyTyped(s, f)

LEMMA ChannelShape ==
    ASSUME NEW s, NEW E, NEW q \in Seq(E)
    PROVE  LET ch == Dispatched(Channel(s), q)
           IN  ch = [store |-> ch.store, pending |-> ch.pending] /\ ch.pending \in Seq(E)
<1> DEFINE Fits(ch) == ch = [store |-> ch.store, pending |-> ch.pending] /\ ch.pending \in Seq(E)
           T == {p \in Seq(E) : Fits(Dispatched(Channel(s), p))}
<1>1. <<>> \in T
    <2>1. Dispatched(Channel(s), <<>>) = Channel(s)
        BY NothingDone
    <2>2. Fits(Channel(s))
        BY DEF Channel
    <2>3. QED
        BY <2>1, <2>2
<1>2. ASSUME NEW p \in T, NEW e \in E PROVE Append(p, e) \in T
    <2>1. PICK ch : ch = Dispatched(Channel(s), p)
        OBVIOUS
    <2>2. p \in Seq(E) /\ Fits(ch)
        BY <2>1
    <2>3. Dispatched(Channel(s), Append(p, e)) = DispatchFrame(ch, e)
        BY <2>1, <2>2, FramesOneMore
    <2>4. Fits(DispatchFrame(ch, e))
        <3>1. CASE e.type = "event"
            <4>1. DispatchFrame(ch, e) = [store |-> ch.store, pending |-> Append(ch.pending, e)]
                BY <2>2, <3>1 DEF DispatchFrame
            <4>2. QED
                BY <2>2, <4>1
        <3>2. CASE e.type # "event"
            BY <3>2 DEF DispatchFrame, Channel
        <3>3. QED
            BY <3>1, <3>2
    <2>5. QED
        BY <2>2, <2>3, <2>4
<1>3. T = Seq(E)
    <2> HIDE DEF T
    <2>1. T \in SUBSET Seq(E)
        BY DEF T
    <2>2. QED
        BY <1>1, <1>2, <2>1, SequencesBySteps
<1>4. QED
    BY <1>3

LEMMA DispatchIs ==
    ASSUME NEW s, NEW q
    PROVE  DispatchAll(s, q) = FlushEvents(Dispatched(Channel(s), q)).store
BY Zenon DEF DispatchAll, Dispatched

\* Playing nothing changes nothing, and one frame more is shown after all before it.
LEMMA DispatchNothing ==
    ASSUME NEW s
    PROVE  DispatchAll(s, <<>>) = s
<1>1. Dispatched(Channel(s), <<>>) = Channel(s)
    BY NothingDone
<1>2. ApplyEvents(s, <<>>) = s
    BY NothingDone
<1>3. QED
    BY <1>1, <1>2, DispatchIs DEF FlushEvents, Channel

LEMMA DispatchOneMore ==
    ASSUME NEW s, NEW E, NEW q \in Seq(E), NEW f \in E
    PROVE  DispatchAll(s, Append(q, f)) = Shows(DispatchAll(s, q), f)
<1>2. PICK ch : ch = Dispatched(Channel(s), q)
    OBVIOUS
<1>3. ch = [store |-> ch.store, pending |-> ch.pending] /\ ch.pending \in Seq(E)
    BY <1>2, ChannelShape
<1>4. DispatchAll(s, q) = ApplyEvents(ch.store, ch.pending)
    BY <1>2, DispatchIs DEF FlushEvents, Channel
<1>5. DispatchAll(s, Append(q, f)) = FlushEvents(DispatchFrame(ch, f)).store
    BY <1>2, FramesOneMore, DispatchIs
<1>6. CASE f.type = "event"
    <2>1. DispatchFrame(ch, f) = [store |-> ch.store, pending |-> Append(ch.pending, f)]
        BY <1>3, <1>6 DEF DispatchFrame
    <2>2. FlushEvents(DispatchFrame(ch, f)).store = ApplyEvents(ch.store, Append(ch.pending, f))
        BY <2>1 DEF FlushEvents, Channel
    <2>3. ApplyEvents(ch.store, Append(ch.pending, f)) = ApplyEvent(ApplyEvents(ch.store, ch.pending), f)
        BY <1>3, EventsOneMore
    <2>4. QED
        BY <1>4, <1>5, <1>6, <2>2, <2>3 DEF Shows
<1>7. CASE f.type # "event"
    <2>1. PICK t : t = ApplyTyped(ApplyEvents(ch.store, ch.pending), f)
        OBVIOUS
    <2>2. DispatchFrame(ch, f) = Channel(t)
        BY <1>7, <2>1 DEF DispatchFrame, FlushEvents, Channel
    <2>3. FlushEvents(Channel(t)).store = ApplyEvents(t, <<>>)
        BY DEF FlushEvents, Channel
    <2>4. ApplyEvents(t, <<>>) = t
        BY NothingDone
    <2>5. QED
        BY <1>4, <1>5, <1>7, <2>1, <2>2, <2>3, <2>4 DEF Shows
<1>8. QED
    BY <1>6, <1>7

----------------------------------------------------------------------------
(* Recordings.                                                              *)

Frame(r, i) == FramesOf(r)[i].frame
Length(r) == Len(FramesOf(r))

LEMMA FramesAre ==
    ASSUME NEW r \in ReelNames
    PROVE  /\ FramesOf(r) = Recordings[r] /\ IsRecording(FramesOf(r)) /\ r # None
           /\ Length(r) \in Nat /\ DOMAIN FramesOf(r) = 1..Length(r)
           /\ \A i \in 1..Length(r) : Frame(r, i).type \in FrameTypes /\ FramesOf(r)[i].t \in Nat
<1>1. r # None /\ IsRecording(Recordings[r])
    BY ReelAssumption
<1>2. FramesOf(r) = Recordings[r]
    BY <1>1 DEF FramesOf
<1>3. FramesOf(r) \in Seq(ToSet(FramesOf(r)))
    BY <1>1, <1>2 DEF IsRecording
<1>4. Length(r) \in Nat /\ DOMAIN FramesOf(r) = 1..Length(r)
    BY <1>3 DEF Length
<1>5. QED
    BY <1>1, <1>2, <1>4 DEF IsRecording, Frame

\* The frames of a stretch of a recording.
LEMMA StretchOf ==
    ASSUME NEW r \in ReelNames, NEW a \in 0..Length(r), NEW b \in a..Length(r)
    PROVE  LET q == Unwrapped(SubSeq(FramesOf(r), a + 1, b))
           IN  /\ q \in Seq({Frame(r, i) : i \in 1..Length(r)})
               /\ a = b => q = <<>>
               /\ b < Length(r) => Unwrapped(SubSeq(FramesOf(r), a + 1, b + 1)) = Append(q, Frame(r, b + 1))
<1> DEFINE E == {Frame(r, i) : i \in 1..Length(r)}
           X == {FramesOf(r)[i] : i \in 1..Length(r)}
           F == FramesOf(r)
           N == Length(r)
           q == Unwrapped(SubSeq(F, a + 1, b))
<1>1. N \in Nat /\ F \in Seq(X) /\ Len(F) = N
    <2>1. F \in Seq(ToSet(F)) /\ ToSet(F) = X
        BY FramesAre DEF IsRecording, ToSet
    <2>2. QED
        BY <2>1, FramesAre DEF Length
<1>2. \A i \in 1..N : F[i].frame \in E
    BY DEF Frame
<1> HIDE DEF E, X, F, N
<1>3. ASSUME NEW c \in Nat, a <= c, c <= N
      PROVE  /\ Unwrapped(SubSeq(F, a + 1, c)) = [i \in 1..(c - a) |-> F[a + i].frame]
             /\ Unwrapped(SubSeq(F, a + 1, c)) \in Seq(E)
    <2>0. a \in Nat
        OBVIOUS
    <2>1. SubSeq(F, a + 1, c) = [i \in 1..(c - a) |-> F[a + i]]
        BY <1>1, <1>3, <2>0
    <2>2. DOMAIN SubSeq(F, a + 1, c) = 1..(c - a) /\ c - a \in Nat
        BY <1>3, <2>0, <2>1
    <2>3. Unwrapped(SubSeq(F, a + 1, c)) = [i \in 1..(c - a) |-> F[a + i].frame]
        BY <2>1, <2>2 DEF Unwrapped
    <2>4. \A i \in 1..(c - a) : a + i \in 1..N
        BY <1>1, <1>3, <2>0
    <2>5. [i \in 1..(c - a) |-> F[a + i].frame] \in Seq(E)
        <3>1. PICK n : n = c - a /\ n \in Nat
            BY <2>2
        <3>2. \A i \in 1..n : F[a + i].frame \in E
            BY <1>2, <2>4, <3>1
        <3>3. [i \in 1..n |-> F[a + i].frame] \in Seq(E)
            BY <3>1, <3>2
        <3>4. QED
            BY <3>1, <3>3
    <2>6. QED
        BY <2>3, <2>5
<1>4. a \in Nat /\ b \in Nat /\ a <= b /\ b <= N
    BY <1>1 DEF N
<1>5. q = [i \in 1..(b - a) |-> F[a + i].frame] /\ q \in Seq(E)
    BY <1>3, <1>4
<1>6. a = b => q = <<>>
    <2>1. SUFFICES ASSUME a = b PROVE q = <<>>
        OBVIOUS
    <2>2. DOMAIN q = {}
        BY <1>4, <1>5, <2>1
    <2>3. QED
        BY <1>5, <2>2
<1>7. ASSUME b < N PROVE Unwrapped(SubSeq(F, a + 1, b + 1)) = Append(q, F[b + 1].frame)
    <2>1. PICK n, c : /\ n = b - a /\ n \in Nat /\ c = b + 1 /\ c \in Nat /\ a <= c /\ c <= N
                      /\ a + (n + 1) = c /\ c - a = n + 1
        BY <1>1, <1>4, <1>7
    <2>2. PICK p, x, u : p = q /\ x = F[b + 1].frame /\ u = Unwrapped(SubSeq(F, a + 1, c))
        OBVIOUS
    <2>3. u = [i \in 1..(n + 1) |-> F[a + i].frame] /\ u \in Seq(E)
        <3>1. u = [i \in 1..(c - a) |-> F[a + i].frame] /\ u \in Seq(E)
            BY <1>3, <2>1, <2>2
        <3>2. QED
            BY <2>1, <3>1
    <2>4. p \in Seq(E) /\ Len(p) = n /\ \A i \in 1..n : p[i] = F[a + i].frame
        <3>1. p = [i \in 1..n |-> F[a + i].frame] /\ p \in Seq(E)
            BY <1>5, <2>1, <2>2
        <3>2. QED
            BY <2>1, <3>1
    <2>5. x \in E /\ x = F[a + (n + 1)].frame
        BY <1>1, <1>2, <1>4, <1>7, <2>1, <2>2
    <2>6. Append(p, x) \in Seq(E) /\ Len(Append(p, x)) = n + 1
        BY <2>4, <2>5, AppendProperties
    <2>7. \A i \in 1..(n + 1) : Append(p, x)[i] = F[a + i].frame
        <3>1. \A i \in 1..n : Append(p, x)[i] = p[i]
            BY <2>4, <2>5
        <3>2. Append(p, x)[n + 1] = x
            BY <2>4, <2>5
        <3>3. \A i \in 1..(n + 1) : i \in 1..n \/ i = n + 1
            BY <2>1
        <3>4. QED
            BY <2>4, <2>5, <3>1, <3>2, <3>3
    <2>8. Len(u) = n + 1 /\ \A i \in 1..(n + 1) : u[i] = F[a + i].frame
        BY <2>1, <2>3
    <2>9. u = Append(p, x)
        BY <2>3, <2>6, <2>7, <2>8, SeqEqual
    <2>10. QED
        BY <2>1, <2>2, <2>9
<1>8. QED
    BY <1>5, <1>6, <1>7 DEF E, F, N, Frame

LEMMA PlayedOneMore ==
    ASSUME NEW s, NEW r \in ReelNames, NEW a \in 0..Length(r), NEW b \in a..Length(r)
    PROVE  /\ Played(s, r, a, a) = s
           /\ b < Length(r) => Played(s, r, a, b + 1) = Shows(Played(s, r, a, b), Frame(r, b + 1))
<1> DEFINE E == {Frame(r, i) : i \in 1..Length(r)}
<1>1. Length(r) \in Nat /\ a \in a..Length(r)
    BY FramesAre
<1>2. Unwrapped(SubSeq(FramesOf(r), a + 1, a)) = <<>>
    BY <1>1, StretchOf
<1>3. Played(s, r, a, a) = s
    BY <1>2, DispatchNothing DEF Played
<1>4. ASSUME b < Length(r) PROVE Played(s, r, a, b + 1) = Shows(Played(s, r, a, b), Frame(r, b + 1))
    <2>1. PICK q : q = Unwrapped(SubSeq(FramesOf(r), a + 1, b))
        OBVIOUS
    <2>2. q \in Seq(E) /\ Frame(r, b + 1) \in E
        <3>1. q \in Seq(E)
            BY <2>1, StretchOf
        <3>2. b + 1 \in 1..Length(r)
            BY <1>1, <1>4
        <3>3. QED
            BY <3>1, <3>2
    <2>3. Unwrapped(SubSeq(FramesOf(r), a + 1, b + 1)) = Append(q, Frame(r, b + 1))
        BY <1>4, <2>1, StretchOf
    <2>4. DispatchAll(s, Append(q, Frame(r, b + 1))) = Shows(DispatchAll(s, q), Frame(r, b + 1))
        BY <2>2, DispatchOneMore
    <2>5. QED
        BY <2>1, <2>3, <2>4 DEF Played
<1>5. QED
    BY <1>3, <1>4

----------------------------------------------------------------------------
(* What a frame shows: stores that show the same go on showing the same.    *)

Shaped(s) == DOMAIN s = DOMAIN InitialStore

LEMMA ShapeOfStore ==
    {"connected", "connecting", "connectScenarioPending", "simState", "simTime", "eventCount", "playing",
     "nodes", "edges", "layoutMode", "geoAvailable", "geoAutoDone", "selectedPeer", "scoreHistory", "events",
     "droppedEvents", "activeFaults", "activeScenario", "maxDuration", "reel", "reelLoad", "mainnet", "metrics",
     "gossipAnalytics", "analyticsHistory", "beats", "caption", "phaseLabel", "invalidCount", "narrator"}
      \subseteq DOMAIN InitialStore
BY DEF InitialStore

\* The store of a page that plays r: its layout is the first one.
Plain(s, r) == Shaped(s) /\ s.layoutMode = "force" /\ s.reel = r

\* s and v show the same, of the fields that only frames of one type write if such a frame was among those of T.
Alike(s, v, T) ==
    /\ s.simTime = v.simTime /\ s.events = v.events /\ s.eventCount = v.eventCount
    /\ s.droppedEvents = v.droppedEvents /\ s.activeFaults = v.activeFaults
    /\ s.beats = v.beats /\ s.caption = v.caption /\ s.phaseLabel = v.phaseLabel
    /\ s.invalidCount = v.invalidCount /\ s.narrator = v.narrator
    /\ s.analyticsHistory = v.analyticsHistory
    /\ "snapshot" \in T => s.nodes = v.nodes
    /\ "edges" \in T => s.edges = v.edges
    /\ "scenario" \in T => s.activeScenario = v.activeScenario
    /\ "analytics" \in T => s.gossipAnalytics = v.gossipAnalytics
    /\ "metrics" \in T => s.metrics = v.metrics
    /\ "telemetry_status" \in T => s.mainnet = v.mainnet

\* All the rest of a store is as it was, the mark of the connection and the count of faults included.
Quiet(t, s) ==
    /\ Shaped(t) /\ t.layoutMode = s.layoutMode /\ t.reel = s.reel
    /\ t.connectScenarioPending = s.connectScenarioPending

Wave(nodes, e) ==
    [[p \in DOMAIN nodes |-> IF e.first /\ p \in RealPeers THEN "idle" ELSE nodes[p]]
        EXCEPT ![e.peer] = IF e.first THEN "origin" ELSE "decoded"]

LEMMA BlockShown ==
    ASSUME NEW s, NEW e, s.layoutMode = "force"
    PROVE  ShowBlock(s, e) = [s EXCEPT !.nodes = Wave(s.nodes, e)]
<1>1. ~(s.layoutMode = "geo")
    OBVIOUS
<1>2. QED
    BY <1>1, Zenon DEF ShowBlock, Wave

LEMMA EventShown ==
    ASSUME NEW r, r # None, NEW s, NEW v, Plain(s, r), Plain(v, r), NEW T, Alike(s, v, T), NEW e
    PROVE  /\ Quiet(ApplyEvent(s, e), s)
           /\ Alike(ApplyEvent(s, e), ApplyEvent(v, e), T)
           /\ ~LeavesMark(e) /\ e.type = "event" => ApplyEvent(s, e).activeFaults = s.activeFaults
<1>1. PICK a : a = [s EXCEPT !.events = Newest(MAX_EVENTS, Append(@, e)), !.eventCount = @ + 1]
    OBVIOUS
<1>2. PICK b : b = [v EXCEPT !.events = Newest(MAX_EVENTS, Append(@, e)), !.eventCount = @ + 1]
    OBVIOUS
<1>3. Quiet(a, s) /\ Quiet(b, v) /\ a.activeFaults = s.activeFaults
    BY <1>1, <1>2, ShapeOfStore DEF Plain, Shaped, Quiet
<1>4. Alike(a, b, T)
    BY <1>1, <1>2, ShapeOfStore DEF Plain, Shaped, Alike
<1>5. ApplyEvent(s, e) = Effect(a, e) /\ ApplyEvent(v, e) = Effect(b, e)
    BY <1>1, <1>2 DEF ApplyEvent
<1>6. Plain(a, r) /\ Plain(b, r)
    BY <1>3 DEF Plain, Quiet
<1> SUFFICES /\ Quiet(Effect(a, e), a)
             /\ Alike(Effect(a, e), Effect(b, e), T)
             /\ ~LeavesMark(e) /\ e.type = "event" => Effect(a, e).activeFaults = a.activeFaults
    BY <1>3, <1>5 DEF Quiet
<1>7. CASE e.kind = "ClockTick"
    <2>1. Effect(a, e) = [a EXCEPT !.simTime = e.at] /\ Effect(b, e) = [b EXCEPT !.simTime = e.at]
        BY <1>7 DEF Effect
    <2>2. QED
        BY <1>4, <1>6, <2>1, ShapeOfStore DEF Plain, Shaped, Quiet, Alike
<1>8. CASE e.kind = "BlockSeen"
    <2>1. \A x \in {a, b} : Effect(x, e) = IF e.peer \in DOMAIN x.nodes THEN ShowBlock(x, e) ELSE x
        BY <1>8 DEF Effect
    <2>2. \A x \in {a, b} : ShowBlock(x, e) = [x EXCEPT !.nodes = Wave(x.nodes, e)]
        BY <1>6, BlockShown DEF Plain
    <2>3. a.nodes = b.nodes => ShowBlock(a, e).nodes = ShowBlock(b, e).nodes
        BY <1>6, <2>2, ShapeOfStore DEF Plain, Shaped
    <2>4. \A x \in {a, b} : \E n : Effect(x, e) = [x EXCEPT !.nodes = n] \/ Effect(x, e) = x
        BY <2>1, <2>2
    <2>5. a.nodes = b.nodes => Effect(a, e).nodes = Effect(b, e).nodes
        BY <2>1, <2>3
    <2>6. Quiet(Effect(a, e), a) /\ Effect(a, e).activeFaults = a.activeFaults
        BY <1>6, <2>4, ShapeOfStore DEF Plain, Shaped, Quiet
    <2>7. Alike(Effect(a, e), Effect(b, e), T)
        BY <1>4, <1>6, <2>4, <2>5, ShapeOfStore DEF Plain, Shaped, Alike
    <2>8. QED
        BY <2>6, <2>7
<1>9. CASE e.kind = "ScenarioPhaseFired"
    <2>1. PICK l, cap, beat : l = e.label /\ cap = Caption("phase", e.label, e.at) /\ beat = Beat("phase", e.label, e.at)
        OBVIOUS
    <2>2. /\ Effect(a, e) = [a EXCEPT !.phaseLabel = l, !.caption = cap, !.beats = Append(@, beat)]
          /\ Effect(b, e) = [b EXCEPT !.phaseLabel = l, !.caption = cap, !.beats = Append(@, beat)]
        BY <1>9, <2>1 DEF Effect
    <2>3. Quiet(Effect(a, e), a)
        BY <1>6, <2>2, ShapeOfStore DEF Plain, Shaped, Quiet
    <2>4. PICK x, y : x = Effect(a, e) /\ y = Effect(b, e)
        OBVIOUS
    <2>5. /\ x.phaseLabel = l /\ y.phaseLabel = l /\ x.caption = cap /\ y.caption = cap
          /\ x.beats = Append(a.beats, beat) /\ y.beats = Append(b.beats, beat)
        BY <1>6, <2>2, <2>4, ShapeOfStore DEF Plain, Shaped
    <2>6. \A k \in DOMAIN InitialStore \ {"phaseLabel", "caption", "beats"} : x[k] = a[k] /\ y[k] = b[k]
        BY <1>6, <2>2, <2>4 DEF Plain, Shaped
    <2>7. Alike(x, y, T)
        BY <1>4, <2>5, <2>6, ShapeOfStore DEF Alike
    <2>8. QED
        BY <1>9, <2>3, <2>4, <2>6, <2>7, ShapeOfStore DEF LeavesMark
<1>10. CASE e.kind = "SybilPruned"
    <2>1. CASE a.narrator.pruned = None
        <3>1. PICK at, cap, beat : /\ at = e.at /\ cap = Caption("narrator", "pruned", e.at)
                                   /\ beat = Beat("prune", "First Sybil pruned", e.at)
            OBVIOUS
        <3>2. /\ Effect(a, e) = [a EXCEPT !.narrator.pruned = at, !.caption = cap, !.beats = Append(@, beat)]
              /\ Effect(b, e) = [b EXCEPT !.narrator.pruned = at, !.caption = cap, !.beats = Append(@, beat)]
            BY <1>4, <1>10, <2>1, <3>1 DEF Effect, PruneSybil, Alike
        <3>3. Quiet(Effect(a, e), a)
            BY <1>6, <3>2, ShapeOfStore DEF Plain, Shaped, Quiet
        <3>4. PICK x, y : x = Effect(a, e) /\ y = Effect(b, e)
            OBVIOUS
        <3>5. /\ x.narrator = [a.narrator EXCEPT !.pruned = at] /\ y.narrator = [b.narrator EXCEPT !.pruned = at]
              /\ x.caption = cap /\ y.caption = cap
              /\ x.beats = Append(a.beats, beat) /\ y.beats = Append(b.beats, beat)
            BY <1>6, <3>2, <3>4, ShapeOfStore DEF Plain, Shaped
        <3>6. \A k \in DOMAIN InitialStore \ {"narrator", "caption", "beats"} : x[k] = a[k] /\ y[k] = b[k]
            BY <1>6, <3>2, <3>4 DEF Plain, Shaped
        <3>7. Alike(x, y, T)
            BY <1>4, <3>5, <3>6, ShapeOfStore DEF Alike
        <3>8. QED
            BY <1>10, <3>3, <3>4, <3>7 DEF LeavesMark
    <2>2. CASE a.narrator.pruned # None
        <3>1. Effect(a, e) = a /\ Effect(b, e) = b
            BY <1>4, <1>10, <2>2 DEF Effect, Alike
        <3>2. QED
            BY <1>4, <1>6, <3>1 DEF Plain, Quiet
    <2>3. QED
        BY <2>1, <2>2
<1>11. CASE e.kind = "Spam"
    <2>1. \A x \in {a, b} : Effect(x, e) = [x EXCEPT !.invalidCount = @ + 1]
        BY <1>11 DEF Effect
    <2>2. QED
        BY <1>4, <1>6, <2>1, ShapeOfStore DEF Plain, Shaped, Quiet, Alike
<1>12. CASE e.kind = "FaultInjected"
    <2>1. Effect(a, e) = FaultStarts(a, e) /\ Effect(b, e) = FaultStarts(b, e)
        BY <1>12 DEF Effect
    <2>2. QED
        BY <1>4, <1>6, <1>12, <2>1, ShapeOfStore DEF FaultStarts, Plain, Shaped, Quiet, Alike, LeavesMark
<1>13. CASE e.kind = "FaultCleared"
    <2>1. Effect(a, e) = FaultEnds(a, e) /\ Effect(b, e) = FaultEnds(b, e)
        BY <1>13 DEF Effect
    <2>2. QED
        BY <1>4, <1>6, <1>13, <2>1, ShapeOfStore DEF FaultEnds, Plain, Shaped, Quiet, Alike, LeavesMark
<1>14. CASE e.kind \notin {"ClockTick", "BlockSeen", "ScenarioPhaseFired", "SybilPruned", "Spam",
                          "FaultInjected", "FaultCleared"}
    <2>1. Effect(a, e) = a /\ Effect(b, e) = b
        BY <1>6, <1>14 DEF Effect, Plain
    <2>2. QED
        BY <1>4, <1>6, <2>1 DEF Plain, Quiet
<1>15. QED
    BY <1>7, <1>8, <1>9, <1>10, <1>11, <1>12, <1>13, <1>14

\* A scenario frame clears the narration.
RunBegun(a, s, f) ==
    /\ ~a.connectScenarioPending
    /\ a.activeFaults = IF s.connectScenarioPending THEN s.activeFaults ELSE 0
    /\ a.activeScenario = IF f.active THEN f.name ELSE None
    /\ a.beats = <<>> /\ a.caption = None /\ a.phaseLabel = None /\ a.invalidCount = 0
    /\ a.narrator = NARRATOR_IDLE
    /\ \A k \in {"simTime", "events", "eventCount", "droppedEvents", "analyticsHistory", "nodes", "edges",
                 "gossipAnalytics", "metrics", "mainnet"} : a[k] = s[k]

LEMMA ScenarioShown ==
    ASSUME NEW r, NEW s, Plain(s, r), NEW f, NEW a, a = ApplyScenario(s, f)
    PROVE  Plain(a, r) /\ RunBegun(a, s, f)
<1>1. PICK n : n = ResetNarrator(s)
    OBVIOUS
<1>2. PICK run : run = [n EXCEPT !.activeScenario = IF f.active THEN f.name ELSE None,
                                 !.maxDuration = IF f.active /\ f.duration > 0 THEN f.duration ELSE @]
    OBVIOUS
<1>3. /\ Plain(n, r) /\ n.activeFaults = s.activeFaults
      /\ n.connectScenarioPending = s.connectScenarioPending
      /\ n.beats = <<>> /\ n.caption = None /\ n.phaseLabel = None /\ n.invalidCount = 0
      /\ n.narrator = NARRATOR_IDLE
      /\ \A k \in {"simTime", "events", "eventCount", "droppedEvents", "analyticsHistory", "nodes", "edges",
                   "gossipAnalytics", "metrics", "mainnet"} : n[k] = s[k]
    BY <1>1, ShapeOfStore DEF ResetNarrator, Plain, Shaped
<1>4. /\ Plain(run, r) /\ run.activeFaults = n.activeFaults
      /\ run.connectScenarioPending = n.connectScenarioPending
      /\ run.activeScenario = IF f.active THEN f.name ELSE None
      /\ \A k \in {"simTime", "events", "eventCount", "droppedEvents", "analyticsHistory", "nodes", "edges",
                   "gossipAnalytics", "metrics", "mainnet", "beats", "caption", "phaseLabel", "invalidCount",
                   "narrator"} : run[k] = n[k]
    BY <1>2, <1>3, ShapeOfStore DEF Plain, Shaped
<1>5. a = IF s.connectScenarioPending THEN [run EXCEPT !.connectScenarioPending = FALSE]
                                      ELSE [run EXCEPT !.activeFaults = 0]
    BY <1>1, <1>2, Zenon DEF ApplyScenario
<1>6. CASE s.connectScenarioPending
    <2>1. a = [run EXCEPT !.connectScenarioPending = FALSE]
        BY <1>5, <1>6
    <2>2. Plain(a, r) /\ a.connectScenarioPending = FALSE
        BY <1>4, <2>1, ShapeOfStore DEF Plain, Shaped
    <2>3. \A k \in DOMAIN InitialStore \ {"connectScenarioPending"} : a[k] = run[k]
        BY <1>4, <2>1 DEF Plain, Shaped
    <2>4. QED
        BY <1>3, <1>4, <1>6, <2>2, <2>3, ShapeOfStore DEF RunBegun
<1>7. CASE ~s.connectScenarioPending
    <2>1. a = [run EXCEPT !.activeFaults = 0]
        BY <1>5, <1>7
    <2>2. Plain(a, r) /\ a.activeFaults = 0
        BY <1>4, <2>1, ShapeOfStore DEF Plain, Shaped
    <2>3. \A k \in DOMAIN InitialStore \ {"activeFaults"} : a[k] = run[k]
        BY <1>4, <2>1 DEF Plain, Shaped
    <2>4. QED
        BY <1>3, <1>4, <1>7, <2>2, <2>3, ShapeOfStore DEF RunBegun
<1>8. QED
    BY <1>6, <1>7

LEMMA AnalyticsShown ==
    ASSUME NEW r, NEW s, NEW v, Plain(s, r), Plain(v, r), NEW T, Alike(s, v, T), NEW f
    PROVE  /\ Quiet(ApplyAnalytics(s, f), s) /\ ApplyAnalytics(s, f).activeFaults = s.activeFaults
           /\ Alike(ApplyAnalytics(s, f), ApplyAnalytics(v, f), T \union {"analytics"})
<1>1. PICK sk : sk = [s EXCEPT !.gossipAnalytics = f]
    OBVIOUS
<1>2. PICK vk : vk = [v EXCEPT !.gossipAnalytics = f]
    OBVIOUS
<1>3. PICK sx : sx = IF f.messages THEN [sk EXCEPT !.analyticsHistory = Newest(MAX_SAMPLES, Append(@, s.simTime))]
                     ELSE sk
    OBVIOUS
<1>4. PICK vx : vx = IF f.messages THEN [vk EXCEPT !.analyticsHistory = Newest(MAX_SAMPLES, Append(@, v.simTime))]
                     ELSE vk
    OBVIOUS
<1>5. /\ Quiet(sk, s) /\ Plain(sk, r) /\ Plain(vk, r) /\ sk.activeFaults = s.activeFaults
      /\ Alike(sk, vk, T \union {"analytics"})
    BY <1>1, <1>2, ShapeOfStore DEF Plain, Shaped, Quiet, Alike
<1>6. /\ Quiet(sx, s) /\ Plain(sx, r) /\ Plain(vx, r) /\ sx.activeFaults = s.activeFaults
      /\ Alike(sx, vx, T \union {"analytics"})
    <2>1. CASE f.messages
        <3>1. sx = [sk EXCEPT !.analyticsHistory = Newest(MAX_SAMPLES, Append(@, s.simTime))]
            BY <1>3, <2>1
        <3>2. vx = [vk EXCEPT !.analyticsHistory = Newest(MAX_SAMPLES, Append(@, v.simTime))]
            BY <1>4, <2>1
        <3>3. s.simTime = v.simTime
            BY DEF Alike
        <3>4. Quiet(sx, s) /\ Plain(sx, r) /\ Plain(vx, r) /\ sx.activeFaults = s.activeFaults
            BY <1>5, <3>1, <3>2, ShapeOfStore DEF Plain, Shaped, Quiet
        <3>5. Alike(sx, vx, T \union {"analytics"})
            BY <1>5, <3>1, <3>2, <3>3, ShapeOfStore DEF Plain, Shaped, Alike
        <3>6. QED
            BY <3>4, <3>5
    <2>2. CASE ~f.messages
        BY <1>3, <1>4, <1>5, <2>2
    <2>3. QED
        BY <2>1, <2>2
<1>7. s.simTime = v.simTime /\ s.narrator = v.narrator
    BY DEF Alike
<1>8. CASE Heals(s, f)
    <2>1. Heals(v, f)
        BY <1>7, <1>8 DEF Heals
    <2>2. PICK cap, beat : /\ cap = Caption("healed", s.simTime - s.narrator.healFrom, s.simTime)
                           /\ beat = Beat("healed", "Mesh healed", s.simTime)
        OBVIOUS
    <2>3. ApplyAnalytics(s, f) = [sx EXCEPT !.narrator.healed = TRUE, !.caption = cap, !.beats = Append(@, beat)]
        BY <1>1, <1>3, <1>8, <2>2, Zenon DEF ApplyAnalytics
    <2>4. ApplyAnalytics(v, f) = [vx EXCEPT !.narrator.healed = TRUE, !.caption = cap, !.beats = Append(@, beat)]
        BY <1>2, <1>4, <1>7, <2>1, <2>2, Zenon DEF ApplyAnalytics
    <2>5. Quiet(ApplyAnalytics(s, f), s) /\ ApplyAnalytics(s, f).activeFaults = s.activeFaults
        BY <1>6, <2>3, ShapeOfStore DEF Plain, Shaped, Quiet
    <2>6. Alike(ApplyAnalytics(s, f), ApplyAnalytics(v, f), T \union {"analytics"})
        BY <1>6, <2>3, <2>4, ShapeOfStore DEF Plain, Shaped, Alike
    <2>7. QED
        BY <2>5, <2>6
<1>9. CASE ~Heals(s, f)
    <2>1. ~Heals(v, f)
        BY <1>7, <1>9 DEF Heals
    <2>2. ApplyAnalytics(s, f) = sx
        BY <1>1, <1>3, <1>9, Zenon DEF ApplyAnalytics
    <2>3. ApplyAnalytics(v, f) = vx
        BY <1>2, <1>4, <2>1, Zenon DEF ApplyAnalytics
    <2>4. QED
        BY <1>6, <2>2, <2>3
<1>10. QED
    BY <1>8, <1>9

\* A typed frame.  The scenario frame of a connection keeps the count of faults, of which there is none yet.
LEMMA TypedShown ==
    ASSUME NEW r, r # None, NEW s, NEW v, Plain(s, r), Plain(v, r), NEW T, Alike(s, v, T),
           NEW f, f.type \in FrameTypes, f.type # "event"
    PROVE  /\ Plain(ApplyTyped(s, f), r)
           /\ (s.connectScenarioPending \/ v.connectScenarioPending => s.activeFaults = 0) =>
                Alike(ApplyTyped(s, f), ApplyTyped(v, f), T \union {f.type})
           /\ f.type # "scenario" => /\ ApplyTyped(s, f).activeFaults = s.activeFaults
                                     /\ ApplyTyped(s, f).connectScenarioPending = s.connectScenarioPending
           /\ f.type = "scenario" => ~ApplyTyped(s, f).connectScenarioPending
<1> DEFINE a == ApplyTyped(s, f)
           b == ApplyTyped(v, f)
<1>1. CASE f.type = "snapshot"
    <2>1. a = ApplySnapshot(s, f) /\ b = ApplySnapshot(v, f)
        BY <1>1 DEF ApplyTyped
    <2>2. ASSUME NEW x, Plain(x, r)
          PROVE  /\ Quiet(ApplySnapshot(x, f), x)
                 /\ ApplySnapshot(x, f).nodes = f.nodes
                 /\ ApplySnapshot(x, f).eventCount = f.event_count
                 /\ ApplySnapshot(x, f).simTime = f.time
                 /\ \A k \in {"events", "droppedEvents", "activeFaults", "beats", "caption", "phaseLabel", "invalidCount",
                              "narrator", "analyticsHistory", "edges", "activeScenario", "gossipAnalytics",
                              "metrics", "mainnet"} : ApplySnapshot(x, f)[k] = x[k]
        <3>1. PICK y : y = [x EXCEPT !.nodes = f.nodes, !.eventCount = f.event_count, !.simTime = f.time,
                                     !.geoAvailable = \E p \in DOMAIN f.nodes : ~IsSimPeer(p)]
            OBVIOUS
        <3>2. \/ ApplySnapshot(x, f) = y
              \/ ApplySnapshot(x, f) = [y EXCEPT !.selectedPeer = None, !.scoreHistory = <<>>]
              \/ ApplySnapshot(x, f) = [y EXCEPT !.scoreHistory = Newest(SCORE_HISTORY, Append(@, f.time))]
            BY <2>2, <3>1 DEF ApplySnapshot, TakeState, Plain
        <3>3. PICK z : z = ApplySnapshot(x, f)
            OBVIOUS
        <3>4. DOMAIN z = DOMAIN y
            BY <3>2, <3>3
        <3>5. \A k \in DOMAIN InitialStore \ {"selectedPeer", "scoreHistory"} : z[k] = y[k]
            BY <2>2, <3>1, <3>2, <3>3, ShapeOfStore DEF Plain, Shaped
        <3>6. y.nodes = f.nodes /\ y.eventCount = f.event_count /\ y.simTime = f.time /\ Quiet(y, x)
            BY <2>2, <3>1, ShapeOfStore DEF Plain, Shaped, Quiet
        <3>7. \A k \in DOMAIN InitialStore \ {"nodes", "eventCount", "simTime", "geoAvailable"} : y[k] = x[k]
            BY <2>2, <3>1 DEF Plain, Shaped
        <3>8. Quiet(z, x) /\ z.nodes = f.nodes /\ z.eventCount = f.event_count /\ z.simTime = f.time
            BY <3>4, <3>5, <3>6, ShapeOfStore DEF Shaped, Quiet
        <3>9. QED
            BY <3>3, <3>5, <3>7, <3>8, ShapeOfStore
    <2>3. QED
        BY <1>1, <2>1, <2>2 DEF Alike, Plain, Quiet
<1>2. CASE f.type = "metrics"
    <2>1. a = ApplyMetrics(s, f) /\ b = ApplyMetrics(v, f)
        BY <1>2 DEF ApplyTyped
    <2>2. QED
        BY <1>2, <2>1, ShapeOfStore DEF ApplyMetrics, Plain, Shaped, Alike
<1>3. CASE f.type = "analytics"
    <2>1. a = ApplyAnalytics(s, f) /\ b = ApplyAnalytics(v, f)
        BY <1>3 DEF ApplyTyped
    <2>2. QED
        BY <1>3, <2>1, AnalyticsShown DEF Plain, Quiet
<1>4. CASE f.type = "telemetry_status"
    <2>1. a = ApplyTelemetryStatus(s, f) /\ b = ApplyTelemetryStatus(v, f)
        BY <1>4 DEF ApplyTyped
    <2>2. QED
        BY <1>4, <2>1, ShapeOfStore DEF ApplyTelemetryStatus, Plain, Shaped, Alike
<1>5. CASE f.type = "edges"
    <2>1. a = ApplyEdges(s, f) /\ b = ApplyEdges(v, f)
        BY <1>5 DEF ApplyTyped
    <2>2. QED
        BY <1>5, <2>1, ShapeOfStore DEF ApplyEdges, Plain, Shaped, Alike
<1>6. CASE f.type = "scenario"
    <2>1. a = ApplyScenario(s, f) /\ b = ApplyScenario(v, f)
        BY <1>6 DEF ApplyTyped
    <2>2. s.activeFaults = v.activeFaults
        BY DEF Alike
    <2>3. PICK x : x = ApplyScenario(s, f)
        OBVIOUS
    <2>4. PICK y : y = ApplyScenario(v, f)
        OBVIOUS
    <2>5. Plain(x, r) /\ RunBegun(x, s, f) /\ RunBegun(y, v, f)
        BY <2>3, <2>4, ScenarioShown
    <2>6. ASSUME s.connectScenarioPending \/ v.connectScenarioPending => s.activeFaults = 0
          PROVE  Alike(x, y, T \union {"scenario"})
        <3>1. x.activeFaults = y.activeFaults
            BY <2>2, <2>5, <2>6 DEF RunBegun
        <3>2. QED
            BY <2>5, <3>1 DEF Alike, RunBegun
    <2>7. QED
        BY <1>6, <2>1, <2>3, <2>4, <2>5, <2>6 DEF RunBegun
<1>7. CASE f.type = "gap"
    <2>1. a = ApplyGap(s, f) /\ b = ApplyGap(v, f)
        BY <1>7 DEF ApplyTyped
    <2>2. QED
        BY <1>7, <2>1, ShapeOfStore DEF ApplyGap, Plain, Shaped, Alike
<1>8. QED
    BY <1>1, <1>2, <1>3, <1>4, <1>5, <1>6, <1>7 DEF FrameTypes

----------------------------------------------------------------------------
(* A place in a recording: the store there shows what the view of that      *)
(* place shows, by whatever way it got there.                               *)

TypesIn(r, n) == {Frame(r, i).type : i \in 1..n}
ViewAt(r, n) == Played([InitialStore EXCEPT !.reel = r], r, 0, n)

\* Before the first scenario frame no fault is counted; the mark of the connection is gone after it.
Begun(s, T) == IF "scenario" \in T THEN ~s.connectScenarioPending ELSE s.activeFaults = 0

IsAt(s, r, n) ==
    /\ Plain(s, r) /\ Begun(s, TypesIn(r, n))
    /\ Alike(s, ViewAt(r, n), TypesIn(r, n))

LEMMA FaultsComeLater ==
    ASSUME NEW r \in ReelNames, NEW n \in 0..Length(r), n < Length(r), "scenario" \notin TypesIn(r, n)
    PROVE  n + 1 \in 1..Length(r) /\ (Frame(r, n + 1).type = "scenario" \/ ~LeavesMark(Frame(r, n + 1)))
<1>1. Length(r) \in Nat /\ Length(r) # 0 /\ n \in Nat /\ n + 1 \in 1..Length(r)
    BY FramesAre
<1>2. FramesOf(r) # <<>>
    BY <1>1 DEF Length
<1>3. PICK i \in 1..Length(r) : Frame(r, i).type = "scenario" /\ \A j \in 1..(i - 1) : ~LeavesMark(Frame(r, j))
    BY <1>2, FramesAre DEF IsRecording, Frame
<1>4. i > n
    BY <1>1, <1>3 DEF TypesIn
<1>5. i = n + 1 \/ n + 1 \in 1..(i - 1)
    BY <1>1, <1>4
<1>6. QED
    BY <1>1, <1>3, <1>5

LEMMA TypesOneMore ==
    ASSUME NEW r, NEW n \in Nat
    PROVE  TypesIn(r, n + 1) = TypesIn(r, n) \union {Frame(r, n + 1).type}
<1>1. 1..(n + 1) = (1..n) \union {n + 1}
    OBVIOUS
<1>2. QED
    BY <1>1 DEF TypesIn

\* One frame more, of two stores that show the same.
LEMMA ShownTogether ==
    ASSUME NEW r \in ReelNames, NEW n \in 0..Length(r), n < Length(r), NEW s, NEW v,
           Plain(s, r), Begun(s, TypesIn(r, n)), Plain(v, r), ~v.connectScenarioPending,
           Alike(s, v, TypesIn(r, n))
    PROVE  LET f == Frame(r, n + 1)
           IN  /\ Plain(Shows(s, f), r) /\ Begun(Shows(s, f), TypesIn(r, n + 1))
               /\ Alike(Shows(s, f), Shows(v, f), TypesIn(r, n + 1))
<1>1. PICK f : f = Frame(r, n + 1)
    OBVIOUS
<1>2. r # None /\ n \in Nat /\ n + 1 \in 1..Length(r) /\ f.type \in FrameTypes
    BY <1>1, FramesAre
<1>3. PICK T, U : T = TypesIn(r, n) /\ U = TypesIn(r, n + 1)
    OBVIOUS
<1>4. U = T \union {f.type}
    BY <1>1, <1>2, <1>3, TypesOneMore
<1>5. CASE f.type = "event"
    <2>1. PICK x, y : x = ApplyEvent(s, f) /\ y = ApplyEvent(v, f)
        OBVIOUS
    <2>2. Quiet(x, s) /\ Alike(x, y, T) /\ (~LeavesMark(f) => x.activeFaults = s.activeFaults)
        BY <1>2, <1>3, <1>5, <2>1, EventShown
    <2>3. "scenario" \in U <=> "scenario" \in T
        BY <1>4, <1>5
    <2>4. "scenario" \notin T => ~LeavesMark(f)
        BY <1>1, <1>3, <1>5, FaultsComeLater
    <2>5. Plain(x, r) /\ Begun(x, U)
        BY <1>3, <2>2, <2>3, <2>4 DEF Plain, Quiet, Begun
    <2>6. Alike(x, y, U)
        BY <1>4, <1>5, <2>2 DEF Alike
    <2>7. QED
        BY <1>1, <1>3, <1>5, <2>1, <2>5, <2>6 DEF Shows
<1>6. CASE f.type # "event"
    <2>1. PICK x, y : x = ApplyTyped(s, f) /\ y = ApplyTyped(v, f)
        OBVIOUS
    <2>2. s.connectScenarioPending \/ v.connectScenarioPending => s.activeFaults = 0
        BY DEF Begun
    <2>3. /\ Plain(x, r) /\ Alike(x, y, U)
          /\ f.type # "scenario" => /\ x.activeFaults = s.activeFaults
                                    /\ x.connectScenarioPending = s.connectScenarioPending
          /\ f.type = "scenario" => ~x.connectScenarioPending
        <3>1. Alike(s, v, T)
            BY <1>3
        <3>2. /\ Plain(x, r)
              /\ (s.connectScenarioPending \/ v.connectScenarioPending => s.activeFaults = 0) => Alike(x, y, T \union {f.type})
              /\ f.type # "scenario" => /\ x.activeFaults = s.activeFaults
                                        /\ x.connectScenarioPending = s.connectScenarioPending
              /\ f.type = "scenario" => ~x.connectScenarioPending
            BY <1>2, <1>6, <2>1, <3>1, TypedShown
        <3>3. Alike(x, y, T \union {f.type})
            BY <2>2, <3>2
        <3>4. QED
            BY <1>4, <3>2, <3>3
    <2>4. Begun(x, U)
        BY <1>3, <1>4, <2>3 DEF Begun
    <2>5. QED
        BY <1>1, <1>3, <1>6, <2>1, <2>3, <2>4 DEF Shows
<1>7. QED
    BY <1>5, <1>6

LEMMA StaysUnmarked ==
    ASSUME NEW r \in ReelNames, NEW n \in 0..Length(r), n < Length(r), NEW v, Plain(v, r), ~v.connectScenarioPending
    PROVE  ~Shows(v, Frame(r, n + 1)).connectScenarioPending
<1>1. PICK f : f = Frame(r, n + 1)
    OBVIOUS
<1>2. r # None /\ n + 1 \in 1..Length(r) /\ f.type \in FrameTypes
    BY <1>1, FramesAre
<1>3. Alike(v, v, {})
    BY DEF Alike
<1>4. CASE f.type = "event"
    <2>1. Quiet(ApplyEvent(v, f), v)
        BY <1>2, <1>3, EventShown
    <2>2. QED
        BY <1>1, <1>4, <2>1 DEF Shows, Quiet
<1>5. CASE f.type # "event"
    <2>1. /\ f.type # "scenario" => ApplyTyped(v, f).connectScenarioPending = v.connectScenarioPending
          /\ f.type = "scenario" => ~ApplyTyped(v, f).connectScenarioPending
        <3>1. PICK w, T : w = v /\ T = {}
            OBVIOUS
        <3>2. v.connectScenarioPending \/ w.connectScenarioPending => v.activeFaults = 0
            BY <3>1
        <3>3. Plain(w, r) /\ Alike(v, w, T)
            BY <1>3, <3>1
        <3>4. QED
            BY <1>2, <1>5, <3>2, <3>3, TypedShown
    <2>2. QED
        BY <1>1, <1>5, <2>1 DEF Shows
<1>6. QED
    BY <1>4, <1>5

LEMMA ViewIs ==
    ASSUME NEW r \in ReelNames
    PROVE  \A n \in 0..Length(r) : /\ Plain(ViewAt(r, n), r) /\ ~ViewAt(r, n).connectScenarioPending
                                   /\ Begun(ViewAt(r, n), TypesIn(r, n))
<1> DEFINE Fits(v, n) == Plain(v, r) /\ ~v.connectScenarioPending /\ Begun(v, TypesIn(r, n))
           S == {n \in Nat : n <= Length(r) => Fits(ViewAt(r, n), n)}
<1>1. Length(r) \in Nat /\ 0 \in 0..Length(r)
    BY FramesAre
<1>2. 0 \in S
    <2>1. PICK v : v = [InitialStore EXCEPT !.reel = r]
        OBVIOUS
    <2>2. ViewAt(r, 0) = v
        BY <1>1, <2>1, PlayedOneMore DEF ViewAt
    <2>3. Plain(v, r)
        BY <2>1, ShapeOfStore DEF Plain, Shaped, InitialStore
    <2>4. v.connectScenarioPending = FALSE /\ v.activeFaults = 0
        BY <2>1 DEF InitialStore
    <2>5. TypesIn(r, 0) = {}
        BY DEF TypesIn
    <2>6. QED
        BY <2>2, <2>3, <2>4, <2>5 DEF Begun
<1>3. ASSUME NEW n \in S PROVE n + 1 \in S
    <2>1. SUFFICES ASSUME n + 1 <= Length(r) PROVE Fits(ViewAt(r, n + 1), n + 1)
        OBVIOUS
    <2>2. n \in 0..Length(r) /\ n < Length(r) /\ Fits(ViewAt(r, n), n)
        BY <1>1, <2>1
    <2>3. PICK v, f : v = ViewAt(r, n) /\ f = Frame(r, n + 1)
        OBVIOUS
    <2>4. ViewAt(r, n + 1) = Shows(v, f)
        BY <1>1, <2>2, <2>3, PlayedOneMore DEF ViewAt
    <2>5. Alike(v, v, TypesIn(r, n))
        BY DEF Alike
    <2>6. Plain(Shows(v, f), r) /\ Begun(Shows(v, f), TypesIn(r, n + 1))
        BY <2>2, <2>3, <2>5, ShownTogether
    <2>7. ~Shows(v, f).connectScenarioPending
        BY <2>2, <2>3, StaysUnmarked
    <2>8. QED
        BY <2>4, <2>6, <2>7
<1>4. S = Nat
    <2> HIDE DEF S
    <2>1. S \in SUBSET Nat
        BY DEF S
    <2>2. QED
        BY <1>2, <1>3, <2>1, NumbersBySteps
<1>5. QED
    BY <1>1, <1>4

\* A store at a place goes on to any later place.
LEMMA GoesOn ==
    ASSUME NEW r \in ReelNames, NEW a \in 0..Length(r), NEW s, IsAt(s, r, a)
    PROVE  \A b \in a..Length(r) : IsAt(Played(s, r, a, b), r, b)
<1> DEFINE S == {n \in Nat : a + n <= Length(r) => IsAt(Played(s, r, a, a + n), r, a + n)}
<1>1. Length(r) \in Nat /\ a \in Nat /\ a \in a..Length(r) /\ a + 0 = a /\ 0 \in 0..Length(r)
    BY FramesAre
<1>2. 0 \in S
    BY <1>1, PlayedOneMore
<1>3. ASSUME NEW n \in S PROVE n + 1 \in S
    <2>1. SUFFICES ASSUME a + (n + 1) <= Length(r) PROVE IsAt(Played(s, r, a, a + (n + 1)), r, a + (n + 1))
        OBVIOUS
    <2>2. PICK b : /\ b = a + n /\ b \in a..Length(r) /\ b \in 0..Length(r) /\ b < Length(r) /\ a + (n + 1) = b + 1
        BY <1>1, <2>1
    <2>3. PICK x, v, f : x = Played(s, r, a, b) /\ v = ViewAt(r, b) /\ f = Frame(r, b + 1)
        OBVIOUS
    <2>4. IsAt(x, r, b)
        BY <2>2, <2>3
    <2>5. Played(s, r, a, b + 1) = Shows(x, f)
        BY <2>2, <2>3, PlayedOneMore
    <2>6. ViewAt(r, b + 1) = Shows(v, f)
        BY <1>1, <2>2, <2>3, PlayedOneMore DEF ViewAt
    <2>7. Plain(v, r) /\ ~v.connectScenarioPending
        BY <2>2, <2>3, ViewIs
    <2>8. /\ Plain(Shows(x, f), r) /\ Begun(Shows(x, f), TypesIn(r, b + 1))
          /\ Alike(Shows(x, f), Shows(v, f), TypesIn(r, b + 1))
        BY <2>2, <2>3, <2>4, <2>7, ShownTogether DEF IsAt
    <2>9. QED
        BY <2>2, <2>5, <2>6, <2>8 DEF IsAt
<1>4. S = Nat
    <2> HIDE DEF S
    <2>1. S \in SUBSET Nat
        BY DEF S
    <2>2. QED
        BY <1>2, <1>3, <2>1, NumbersBySteps
<1>5. ASSUME NEW b \in a..Length(r) PROVE IsAt(Played(s, r, a, b), r, b)
    <2>1. PICK n \in Nat : a + n = b /\ b <= Length(r)
        BY <1>1
    <2>2. n \in S
        BY <1>4, <2>1
    <2>3. QED
        BY <2>1, <2>2
<1>6. QED
    BY <1>5

----------------------------------------------------------------------------
(* Time in a recording.                                                     *)

LEMMA LeastIs ==
    ASSUME NEW S \in SUBSET Nat, S # {}
    PROVE  Min(S) \in S /\ \A y \in S : Min(S) <= y
<1>1. PICK x \in S : \A y \in S : ~(<<y, x>> \in OpToRel(<, Nat))
    BY WFMin, NatLessThanWellFounded
<1>2. ASSUME NEW y \in S, ~(x <= y) PROVE FALSE
    <2>1. y \in Nat /\ x \in Nat /\ y < x
        BY <1>2
    <2>2. <<y, x>> \in OpToRel(<, Nat)
        BY <2>1 DEF OpToRel
    <2>3. QED
        BY <1>1, <2>2
<1>3. \A y \in S : x <= y
    BY <1>2
<1>4. QED
    BY <1>3, Zenon DEF Min

\* What is due by t are the first frames, as many as there are.
LEMMA DueIs ==
    ASSUME NEW r \in ReelNames, NEW t \in Nat
    PROVE  /\ DueBy(r, t) \in 0..Length(r)
           /\ \A i \in 1..Length(r) : i <= DueBy(r, t) <=> FramesOf(r)[i].t <= t
<1> DEFINE F == FramesOf(r)
           N == Length(r)
           Due(n) == {i \in 1..n : F[i].t <= t}
           S == {n \in Nat : n <= N => \E m \in 0..n : Due(n) = 1..m}
<1>1. /\ N \in Nat /\ \A i \in 1..N : F[i].t \in Nat
      /\ \A i, j \in 1..N : i < j => F[i].t <= F[j].t
    BY FramesAre DEF IsRecording
<1>2. 0 \in S
    <2>1. Due(0) = 1..0
        OBVIOUS
    <2>2. QED
        BY <2>1
<1>3. ASSUME NEW n \in S PROVE n + 1 \in S
    <2>1. SUFFICES ASSUME n + 1 <= N PROVE \E m \in 0..(n + 1) : Due(n + 1) = 1..m
        OBVIOUS
    <2>2. n \in Nat /\ n + 1 \in 1..N /\ n <= N
        BY <1>1, <2>1
    <2>3. PICK m \in 0..n : Due(n) = 1..m
        BY <2>2
    <2> HIDE DEF F, N
    <2>4. CASE F[n + 1].t <= t
        <3>1. \A i \in 1..(n + 1) : F[i].t <= t
            <4>1. ASSUME NEW i \in 1..(n + 1) PROVE F[i].t <= t
                <5>1. i \in 1..N /\ (i = n + 1 \/ i < n + 1)
                    BY <1>1, <2>1, <2>2
                <5>2. i < n + 1 => F[i].t <= F[n + 1].t
                    BY <1>1, <2>2, <5>1
                <5>3. QED
                    BY <1>1, <2>2, <2>4, <5>1, <5>2
            <4>2. QED
                BY <4>1
        <3>2. Due(n + 1) = 1..(n + 1)
            BY <3>1
        <3>3. QED
            BY <2>2, <3>2
    <2>5. CASE ~(F[n + 1].t <= t)
        <3>1. Due(n + 1) = Due(n)
            BY <2>2, <2>5
        <3>2. QED
            BY <2>2, <2>3, <3>1
    <2>6. QED
        BY <2>4, <2>5
<1>4. S = Nat
    <2> HIDE DEF S
    <2>1. S \in SUBSET Nat
        BY DEF S
    <2>2. QED
        BY <1>2, <1>3, <2>1, NumbersBySteps
<1>5. PICK m \in 0..N : Due(N) = 1..m
    BY <1>1, <1>4
<1>6. DueBy(r, t) = Cardinality(1..m)
    BY <1>5, FramesAre DEF DueBy
<1>7. Cardinality(1..m) = m
    BY <1>1, <1>5, FS_Interval
<1> HIDE DEF F, N
<1>8. \A i \in 1..N : i <= m <=> F[i].t <= t
    BY <1>1, <1>5
<1>9. QED
    BY <1>5, <1>6, <1>7, <1>8 DEF F, N

\* Where a reel ends, and where a seek may go.
LEMMA TimesAre ==
    ASSUME NEW r \in ReelNames
    PROVE  /\ Duration(r) \in Nat /\ \A i \in 1..Length(r) : FramesOf(r)[i].t <= Duration(r)
           /\ \A i \in Snapshots(r) : FramesOf(r)[i].t \in Nat
           /\ FirstSnapshot(r) \in Nat
           /\ \A sec : OffsetOf(r, sec) \in Nat
<1> DEFINE F == FramesOf(r)
           N == Length(r)
<1>1. /\ N \in Nat /\ DOMAIN F = 1..N /\ Len(F) = N
      /\ \A i \in 1..N : F[i].t \in Nat
      /\ \A i, j \in 1..N : i < j => F[i].t <= F[j].t
    BY FramesAre DEF IsRecording, Length
<1>2. Snapshots(r) \subseteq 1..N
    BY <1>1 DEF Snapshots
<1>3. Duration(r) \in Nat /\ \A i \in 1..N : F[i].t <= Duration(r)
    <2>1. CASE F = <<>>
        BY <1>1, <2>1 DEF Duration
    <2>2. CASE F # <<>>
        <3>1. N # 0
            BY <1>1, <2>2
        <3>2. Duration(r) = F[N].t
            BY <1>1, <2>2, Zenon DEF Duration, Last
        <3>3. N \in 1..N
            BY <1>1, <3>1
        <3>4. \A i \in 1..N : i = N \/ i < N
            BY <1>1
        <3>5. QED
            BY <1>1, <3>2, <3>3, <3>4
    <2>3. QED
        BY <2>1, <2>2
<1> HIDE DEF F, N
<1>4. \A i \in Snapshots(r) : F[i].t \in Nat
    BY <1>1, <1>2
<1>5. ASSUME NEW S \in SUBSET Snapshots(r), S # {} PROVE F[Min(S)].t \in Nat
    <2>1. S \in SUBSET Nat
        BY <1>1, <1>2
    <2>2. Min(S) \in S
        BY <1>5, <2>1, LeastIs
    <2>3. QED
        BY <1>4, <2>2
<1>6. FirstSnapshot(r) \in Nat
    BY <1>5 DEF FirstSnapshot, F
<1>7. ASSUME NEW sec PROVE OffsetOf(r, sec) \in Nat
    <2>1. PICK S : S = {i \in Snapshots(r) : FramesOf(r)[i].frame.time >= sec}
        OBVIOUS
    <2>2. OffsetOf(r, sec) = IF S = {} THEN Duration(r) ELSE FramesOf(r)[Min(S)].t
        BY <2>1, Zenon DEF OffsetOf
    <2>3. S \in SUBSET Snapshots(r)
        BY <2>1
    <2>4. QED
        BY <1>3, <1>5, <2>2, <2>3 DEF F
<1>8. QED
    BY <1>3, <1>4, <1>6, <1>7 DEF F, N

LEMMA NothingLoaded ==
    /\ FramesOf(None) = <<>> /\ Duration(None) = 0 /\ DueBy(None, 0) = 0
    /\ \A sec : OffsetOf(None, sec) = 0
    /\ \A s : Played(s, None, 0, 0) = s
<1>1. FramesOf(None) = <<>>
    BY DEF FramesOf
<1>2. DOMAIN FramesOf(None) = {}
    BY <1>1
<1>3. Duration(None) = 0
    BY <1>1 DEF Duration
<1>4. DueBy(None, 0) = 0
    <2>1. {i \in DOMAIN FramesOf(None) : FramesOf(None)[i].t <= 0} = {}
        BY <1>2
    <2>2. QED
        BY <2>1, FS_EmptySet DEF DueBy
<1>5. ASSUME NEW sec PROVE OffsetOf(None, sec) = 0
    <2>1. {i \in Snapshots(None) : FramesOf(None)[i].frame.time >= sec} = {}
        BY <1>2 DEF Snapshots
    <2>2. QED
        BY <1>3, <2>1, Zenon DEF OffsetOf
<1>6. ASSUME NEW s PROVE Played(s, None, 0, 0) = s
    <2>1. SubSeq(<<>>, 0 + 1, 0) = <<>>
        OBVIOUS
    <2>2. Unwrapped(<<>>) = <<>>
        <3>1. DOMAIN <<>> = {}
            OBVIOUS
        <3>2. Unwrapped(<<>>) = [i \in {} |-> <<>>[i].frame]
            BY <3>1, Zenon DEF Unwrapped
        <3>3. QED
            BY <3>2
    <2>3. Unwrapped(SubSeq(FramesOf(None), 0 + 1, 0)) = <<>>
        BY <1>1, <2>1, <2>2
    <2>4. QED
        BY <2>3, DispatchNothing DEF Played
<1>7. QED
    BY <1>1, <1>3, <1>4, <1>5, <1>6

----------------------------------------------------------------------------
(* A seek.                                                                  *)

\* What the player itself and the inspector write in the store is not shown of a place.
LEMMA StaysAt ==
    ASSUME NEW r, NEW n, NEW s, IsAt(s, r, n), NEW t, DOMAIN t = DOMAIN s,
           \A k \in DOMAIN InitialStore \ {"playing", "reelLoad", "selectedPeer", "scoreHistory"} : t[k] = s[k]
    PROVE  IsAt(t, r, n)
<1>1. Plain(t, r)
    BY ShapeOfStore DEF IsAt, Plain, Shaped
<1>2. Begun(t, TypesIn(r, n))
    BY ShapeOfStore DEF IsAt, Begun
<1>3. Alike(t, ViewAt(r, n), TypesIn(r, n))
    BY ShapeOfStore DEF IsAt, Alike
<1>4. QED
    BY <1>1, <1>2, <1>3 DEF IsAt

LEMMA ResetIsPlain ==
    ASSUME NEW r, NEW s, Plain(s, r)
    PROVE  Plain(ResetRun(s), r) /\ Plain([ResetRun(s) EXCEPT !.activeFaults = 0], r)
<1>1. PICK n : n = ResetNarrator(s)
    OBVIOUS
<1>2. Plain(n, r)
    BY <1>1, ShapeOfStore DEF ResetNarrator, Plain, Shaped
<1>3. Plain(ResetRun(s), r)
    BY <1>1, <1>2, ShapeOfStore DEF ResetRun, Plain, Shaped
<1>4. QED
    BY <1>3, ShapeOfStore DEF Plain, Shaped

LEMMA StartsAt ==
    ASSUME NEW r \in ReelNames, NEW s, Plain(s, r)
    PROVE  IsAt([ResetRun(s) EXCEPT !.activeFaults = 0], r, 0)
<1>1. PICK n, x, y, v : /\ n = ResetNarrator(s) /\ x = ResetRun(s) /\ y = [x EXCEPT !.activeFaults = 0]
                        /\ v = [InitialStore EXCEPT !.reel = r]
    OBVIOUS
<1>2. 0 \in 0..Length(r) /\ 0 \in Nat
    BY FramesAre
<1>3. ViewAt(r, 0) = v
    BY <1>1, <1>2, PlayedOneMore DEF ViewAt
<1>4. TypesIn(r, 0) = {}
    BY DEF TypesIn
<1>5. /\ v.simTime = 0 /\ v.events = <<>> /\ v.eventCount = 0 /\ v.droppedEvents = 0 /\ v.activeFaults = 0
      /\ v.beats = <<>> /\ v.caption = None /\ v.phaseLabel = None /\ v.invalidCount = 0
      /\ v.narrator = NARRATOR_IDLE /\ v.analyticsHistory = <<>>
    BY <1>1 DEF InitialStore
<1>6. /\ Plain(n, r) /\ n.beats = <<>> /\ n.caption = None /\ n.phaseLabel = None /\ n.invalidCount = 0
      /\ n.narrator = NARRATOR_IDLE
    BY <1>1, ShapeOfStore DEF ResetNarrator, Plain, Shaped
<1>7. x = [n EXCEPT !.events = <<>>, !.eventCount = 0, !.droppedEvents = 0, !.selectedPeer = None,
                    !.scoreHistory = <<>>, !.analyticsHistory = <<>>, !.simTime = 0]
    BY <1>1 DEF ResetRun
<1>8. /\ Plain(x, r) /\ x.simTime = 0 /\ x.events = <<>> /\ x.eventCount = 0 /\ x.droppedEvents = 0
      /\ x.analyticsHistory = <<>>
      /\ \A k \in {"beats", "caption", "phaseLabel", "invalidCount", "narrator"} : x[k] = n[k]
    BY <1>6, <1>7, ShapeOfStore DEF Plain, Shaped
<1>9. Plain(y, r) /\ y.activeFaults = 0 /\ \A k \in DOMAIN InitialStore \ {"activeFaults"} : y[k] = x[k]
    BY <1>1, <1>8, ShapeOfStore DEF Plain, Shaped
<1>10. Alike(y, v, {})
    BY <1>5, <1>6, <1>8, <1>9, ShapeOfStore DEF Alike
<1>11. QED
    BY <1>1, <1>3, <1>4, <1>9, <1>10 DEF IsAt, Begun

LEMMA RebuiltIs ==
    ASSUME NEW r \in ReelNames, NEW s, Plain(s, r), NEW t \in Nat
    PROVE  IsAt(Rebuilt(s, r, t), r, DueBy(r, t))
<1>1. PICK x, n : x = [ResetRun(s) EXCEPT !.activeFaults = 0] /\ n = DueBy(r, t)
    OBVIOUS
<1>2. IsAt(x, r, 0) /\ n \in 0..Length(r) /\ 0 \in 0..Length(r)
    BY <1>1, StartsAt, DueIs, FramesAre
<1>3. PICK y : y = Played(x, r, 0, n)
    OBVIOUS
<1>4. IsAt(y, r, n)
    BY <1>2, <1>3, GoesOn
<1>5. Rebuilt(s, r, t) \in {y, [y EXCEPT !.selectedPeer = s.selectedPeer]}
    BY <1>1, <1>3 DEF Rebuilt
<1>6. PICK z : z = [y EXCEPT !.selectedPeer = s.selectedPeer]
    OBVIOUS
<1>7. IsAt(z, r, n)
    <2>1. DOMAIN z = DOMAIN y /\ \A k \in DOMAIN InitialStore \ {"selectedPeer"} : z[k] = y[k]
        BY <1>4, <1>6 DEF IsAt, Plain, Shaped
    <2>2. QED
        BY <1>4, <2>1, StaysAt
<1>8. QED
    BY <1>1, <1>4, <1>5, <1>6, <1>7

\* What is shown at a place is what the view of that place says.
LEMMA ShownIs ==
    ASSUME NEW r \in ReelNames, NEW n \in 0..Length(r), NEW s, IsAt(s, r, n)
    PROVE  ShownOf(s, r, n) = ViewOf[r][n]
<1>1. PICK v : v = ViewAt(r, n)
    OBVIOUS
<1>2. ViewOf[r][n] = ShownOf(v, r, n)
    BY <1>1, FramesAre DEF ViewOf, ViewAt, Length
<1>3. \A type : (\E i \in 1..n : FramesOf(r)[i].frame.type = type) <=> type \in TypesIn(r, n)
    BY DEF TypesIn, Frame
<1>4. Alike(s, v, TypesIn(r, n))
    BY <1>1 DEF IsAt
<1>5. /\ After("snapshot", r, n, s.nodes) = After("snapshot", r, n, v.nodes)
      /\ After("edges", r, n, s.edges) = After("edges", r, n, v.edges)
      /\ After("scenario", r, n, s.activeScenario) = After("scenario", r, n, v.activeScenario)
      /\ After("analytics", r, n, s.gossipAnalytics) = After("analytics", r, n, v.gossipAnalytics)
      /\ After("metrics", r, n, s.metrics) = After("metrics", r, n, v.metrics)
      /\ After("telemetry_status", r, n, s.mainnet) = After("telemetry_status", r, n, v.mainnet)
    BY <1>3, <1>4 DEF After, Alike
<1>6. ShownOf(s, r, n) = ShownOf(v, r, n)
    BY <1>4, <1>5 DEF ShownOf, Alike
<1>7. QED
    BY <1>2, <1>6

----------------------------------------------------------------------------
(* The scan of a recording, beside the view of each of its places.          *)

ScanAt(r, n) == Scanned(ScanStart, Unwrapped(SubSeq(FramesOf(r), 0 + 1, n)))

LEMMA ScanOneMore ==
    ASSUME NEW r \in ReelNames
    PROVE  /\ ScanAt(r, 0) = ScanStart /\ ScanReel(r) = ScanAt(r, Length(r))
           /\ \A n \in 0..Length(r) : n < Length(r) => ScanAt(r, n + 1) = ScanFrame(ScanAt(r, n), Frame(r, n + 1))
<1> DEFINE E == {Frame(r, i) : i \in 1..Length(r)}
<1>1. Length(r) \in Nat /\ 0 \in 0..Length(r) /\ 0 \in 0..0
    BY FramesAre
<1>2. ScanAt(r, 0) = ScanStart
    <2>1. Unwrapped(SubSeq(FramesOf(r), 0 + 1, 0)) = <<>>
        BY <1>1, StretchOf
    <2>2. QED
        BY <2>1, NothingDone DEF ScanAt
<1>3. ScanReel(r) = ScanAt(r, Length(r))
    <2>1. SubSeq(FramesOf(r), 0 + 1, Length(r)) = FramesOf(r)
        BY FramesAre DEF IsRecording, Length
    <2>2. QED
        BY <2>1, Zenon DEF ScanReel, ScanAt, Scanned
<1>4. ASSUME NEW n \in 0..Length(r), n < Length(r)
      PROVE  ScanAt(r, n + 1) = ScanFrame(ScanAt(r, n), Frame(r, n + 1))
    <2>1. PICK q : q = Unwrapped(SubSeq(FramesOf(r), 0 + 1, n))
        OBVIOUS
    <2>2. q \in Seq(E) /\ Unwrapped(SubSeq(FramesOf(r), 0 + 1, n + 1)) = Append(q, Frame(r, n + 1))
        BY <1>1, <1>4, <2>1, StretchOf
    <2>3. Frame(r, n + 1) \in E
        BY <1>1, <1>4
    <2>4. Scanned(ScanStart, Append(q, Frame(r, n + 1))) = ScanFrame(Scanned(ScanStart, q), Frame(r, n + 1))
        BY <2>2, <2>3, ScansOneMore
    <2>5. QED
        BY <2>1, <2>2, <2>4 DEF ScanAt
<1>5. QED
    BY <1>2, <1>3, <1>4

\* What x shows of the story after the event e, v being the store before it.
Told(x, v, e) ==
    /\ x.activeScenario = v.activeScenario
    /\ x.simTime = IF e.kind = "ClockTick" THEN e.at ELSE v.simTime
    /\ x.beats = CASE e.kind = "ScenarioPhaseFired" -> Append(v.beats, Beat("phase", e.label, e.at))
                    [] e.kind = "SybilPruned" /\ v.narrator.pruned = None ->
                         Append(v.beats, Beat("prune", "First Sybil pruned", e.at))
                    [] e.kind = "FaultInjected" -> Append(v.beats, Beat("fault", e.fault, e.at))
                    [] e.kind = "FaultCleared" -> Append(v.beats, Beat("cleared", e.fault, e.at))
                    [] OTHER -> v.beats
    /\ x.narrator = CASE e.kind = "SybilPruned" /\ v.narrator.pruned = None -> [v.narrator EXCEPT !.pruned = e.at]
                       [] e.kind = "FaultCleared" /\ v.narrator.healFrom = None ->
                            [v.narrator EXCEPT !.healFrom = e.at, !.healed = FALSE]
                       [] OTHER -> v.narrator

LEMMA EventTold ==
    ASSUME NEW r, r # None, NEW v, Plain(v, r), NEW e
    PROVE  Told(ApplyEvent(v, e), v, e)
<1>1. PICK a : a = [v EXCEPT !.events = Newest(MAX_EVENTS, Append(@, e)), !.eventCount = @ + 1]
    OBVIOUS
<1>2. PICK x : x = Effect(a, e)
    OBVIOUS
<1>3. ApplyEvent(v, e) = x
    BY <1>1, <1>2 DEF ApplyEvent
<1>4. Plain(a, r) /\ \A k \in DOMAIN InitialStore \ {"events", "eventCount"} : a[k] = v[k]
    BY <1>1, ShapeOfStore DEF Plain, Shaped
<1>5. a.activeScenario = v.activeScenario /\ a.simTime = v.simTime /\ a.beats = v.beats /\ a.narrator = v.narrator
    BY <1>4, ShapeOfStore
<1> SUFFICES Told(x, a, e)
    BY <1>3, <1>5 DEF Told
<1>6. CASE e.kind = "ClockTick"
    <2>1. x = [a EXCEPT !.simTime = e.at]
        BY <1>2, <1>6 DEF Effect
    <2>2. QED
        BY <1>4, <1>6, <2>1, ShapeOfStore DEF Plain, Shaped, Told
<1>7. CASE e.kind = "BlockSeen"
    <2>1. x = IF e.peer \in DOMAIN a.nodes THEN [a EXCEPT !.nodes = Wave(a.nodes, e)] ELSE a
        BY <1>2, <1>4, <1>7, BlockShown DEF Effect, Plain
    <2>2. QED
        BY <1>4, <1>7, <2>1, ShapeOfStore DEF Plain, Shaped, Told
<1>8. CASE e.kind = "ScenarioPhaseFired"
    <2>1. PICK beat : beat = Beat("phase", e.label, e.at)
        OBVIOUS
    <2>2. x = [a EXCEPT !.phaseLabel = e.label, !.caption = Caption("phase", e.label, e.at), !.beats = Append(@, beat)]
        BY <1>2, <1>8, <2>1 DEF Effect
    <2>3. x.beats = Append(a.beats, beat) /\ x.narrator = a.narrator /\ x.simTime = a.simTime
          /\ x.activeScenario = a.activeScenario
        BY <1>4, <2>2, ShapeOfStore DEF Plain, Shaped
    <2>4. QED
        BY <1>8, <2>1, <2>3 DEF Told
<1>9. CASE e.kind = "SybilPruned"
    <2>1. CASE a.narrator.pruned = None
        <3>1. PICK beat : beat = Beat("prune", "First Sybil pruned", e.at)
            OBVIOUS
        <3>2. x = [a EXCEPT !.narrator.pruned = e.at, !.caption = Caption("narrator", "pruned", e.at),
                            !.beats = Append(@, beat)]
            BY <1>2, <1>9, <2>1, <3>1 DEF Effect, PruneSybil
        <3>3. x.beats = Append(a.beats, beat) /\ x.narrator = [a.narrator EXCEPT !.pruned = e.at]
              /\ x.simTime = a.simTime /\ x.activeScenario = a.activeScenario
            BY <1>4, <3>2, ShapeOfStore DEF Plain, Shaped
        <3>4. QED
            BY <1>9, <2>1, <3>1, <3>3 DEF Told
    <2>2. CASE a.narrator.pruned # None
        <3>1. x = a
            BY <1>2, <1>9, <2>2 DEF Effect
        <3>2. QED
            BY <1>9, <2>2, <3>1 DEF Told
    <2>3. QED
        BY <2>1, <2>2
<1>10. CASE e.kind = "Spam"
    <2>1. x = [a EXCEPT !.invalidCount = @ + 1]
        BY <1>2, <1>10 DEF Effect
    <2>2. QED
        BY <1>4, <1>10, <2>1, ShapeOfStore DEF Plain, Shaped, Told
<1>11. CASE e.kind = "FaultInjected"
    <2>1. PICK beat : beat = Beat("fault", e.fault, e.at)
        OBVIOUS
    <2>2. x = [a EXCEPT !.activeFaults = @ + 1, !.beats = Append(@, beat)]
        BY <1>2, <1>11, <2>1 DEF Effect, FaultStarts
    <2>3. x.beats = Append(a.beats, beat) /\ x.narrator = a.narrator /\ x.simTime = a.simTime
          /\ x.activeScenario = a.activeScenario
        BY <1>4, <2>2, ShapeOfStore DEF Plain, Shaped
    <2>4. QED
        BY <1>11, <2>1, <2>3 DEF Told
<1>12. CASE e.kind = "FaultCleared"
    <2>1. PICK beat, n : /\ beat = Beat("cleared", e.fault, e.at)
                         /\ n = IF a.narrator.healFrom = None
                                THEN [a.narrator EXCEPT !.healFrom = e.at, !.healed = FALSE] ELSE a.narrator
        OBVIOUS
    <2>2. x = [a EXCEPT !.activeFaults = 0, !.beats = Append(@, beat), !.narrator = n]
        BY <1>2, <1>12, <2>1 DEF Effect, FaultEnds
    <2>3. x.beats = Append(a.beats, beat) /\ x.narrator = n /\ x.simTime = a.simTime
          /\ x.activeScenario = a.activeScenario
        BY <1>4, <2>2, ShapeOfStore DEF Plain, Shaped
    <2>4. QED
        BY <1>12, <2>1, <2>3 DEF Told
<1>13. CASE e.kind \notin {"ClockTick", "BlockSeen", "ScenarioPhaseFired", "SybilPruned", "Spam",
                          "FaultInjected", "FaultCleared"}
    <2>1. x = a
        BY <1>2, <1>4, <1>13 DEF Effect, Plain
    <2>2. QED
        BY <1>13, <2>1 DEF Told
<1>14. QED
    BY <1>6, <1>7, <1>8, <1>9, <1>10, <1>11, <1>12, <1>13

\* And after a frame that is not an event.
TypedTold(x, v, f) ==
    /\ x.activeScenario = IF f.type = "scenario" THEN IF f.active THEN f.name ELSE None ELSE v.activeScenario
    /\ x.simTime = IF f.type = "snapshot" THEN f.time ELSE v.simTime
    /\ x.beats = CASE f.type = "scenario" -> <<>>
                    [] f.type = "analytics" /\ Heals(v, f) -> Append(v.beats, Beat("healed", "Mesh healed", v.simTime))
                    [] OTHER -> v.beats
    /\ x.narrator = CASE f.type = "scenario" -> NARRATOR_IDLE
                       [] f.type = "analytics" /\ Heals(v, f) -> [v.narrator EXCEPT !.healed = TRUE]
                       [] OTHER -> v.narrator

LEMMA FrameTold ==
    ASSUME NEW r, r # None, NEW v, Plain(v, r), NEW f, f.type \in FrameTypes, f.type # "event"
    PROVE  TypedTold(ApplyTyped(v, f), v, f)
<1>1. PICK x : x = ApplyTyped(v, f)
    OBVIOUS
<1>2. CASE f.type = "snapshot"
    <2>1. x = ApplySnapshot(v, f)
        BY <1>1, <1>2 DEF ApplyTyped
    <2>2. PICK y : y = [v EXCEPT !.nodes = f.nodes, !.eventCount = f.event_count, !.simTime = f.time,
                                 !.geoAvailable = \E p \in DOMAIN f.nodes : ~IsSimPeer(p)]
        OBVIOUS
    <2>3. \/ x = y
          \/ x = [y EXCEPT !.selectedPeer = None, !.scoreHistory = <<>>]
          \/ x = [y EXCEPT !.scoreHistory = Newest(SCORE_HISTORY, Append(@, f.time))]
        BY <2>1, <2>2 DEF ApplySnapshot, TakeState, Plain
    <2>4. \A k \in DOMAIN InitialStore \ {"selectedPeer", "scoreHistory"} : x[k] = y[k]
        BY <2>2, <2>3 DEF Plain, Shaped
    <2>5. y.simTime = f.time /\ y.beats = v.beats /\ y.narrator = v.narrator /\ y.activeScenario = v.activeScenario
        BY <2>2, ShapeOfStore DEF Plain, Shaped
    <2>6. x.simTime = f.time /\ x.beats = v.beats /\ x.narrator = v.narrator /\ x.activeScenario = v.activeScenario
        BY <2>4, <2>5, ShapeOfStore
    <2>7. QED
        BY <1>1, <1>2, <2>6 DEF TypedTold
<1>3. CASE f.type = "analytics"
    <2>1. PICK k, y : /\ k = [v EXCEPT !.gossipAnalytics = f]
                      /\ y = IF f.messages THEN [k EXCEPT !.analyticsHistory = Newest(MAX_SAMPLES, Append(@, v.simTime))]
                             ELSE k
        OBVIOUS
    <2>2. Plain(k, r) /\ k.simTime = v.simTime /\ k.beats = v.beats /\ k.narrator = v.narrator
          /\ k.activeScenario = v.activeScenario
        BY <2>1, ShapeOfStore DEF Plain, Shaped
    <2>3. Plain(y, r) /\ y.simTime = v.simTime /\ y.beats = v.beats /\ y.narrator = v.narrator
          /\ y.activeScenario = v.activeScenario
        BY <2>1, <2>2, ShapeOfStore DEF Plain, Shaped
    <2>4. PICK cap, beat : /\ cap = Caption("healed", v.simTime - v.narrator.healFrom, v.simTime)
                           /\ beat = Beat("healed", "Mesh healed", v.simTime)
        OBVIOUS
    <2>5. x = IF Heals(v, f) THEN [y EXCEPT !.narrator.healed = TRUE, !.caption = cap, !.beats = Append(@, beat)] ELSE y
        <3>1. x = ApplyAnalytics(v, f)
            BY <1>1, <1>3 DEF ApplyTyped
        <3>2. QED
            BY <2>1, <2>4, <3>1, Zenon DEF ApplyAnalytics
    <2>6. CASE Heals(v, f)
        <3>1. x = [y EXCEPT !.narrator.healed = TRUE, !.caption = cap, !.beats = Append(@, beat)]
            BY <2>5, <2>6
        <3>2. x.narrator = [y.narrator EXCEPT !.healed = TRUE] /\ x.beats = Append(y.beats, beat)
              /\ x.simTime = y.simTime /\ x.activeScenario = y.activeScenario
            BY <2>3, <3>1, ShapeOfStore DEF Plain, Shaped
        <3>3. QED
            BY <1>1, <1>3, <2>3, <2>4, <2>6, <3>2 DEF TypedTold
    <2>7. CASE ~Heals(v, f)
        <3>1. x = y
            BY <2>5, <2>7
        <3>2. QED
            BY <1>1, <1>3, <2>3, <2>7, <3>1 DEF TypedTold
    <2>8. QED
        BY <2>6, <2>7
<1>4. CASE f.type = "scenario"
    <2>1. x = ApplyScenario(v, f)
        BY <1>1, <1>4 DEF ApplyTyped
    <2>2. RunBegun(x, v, f)
        BY <2>1, ScenarioShown
    <2>3. QED
        BY <1>1, <1>4, <2>2 DEF TypedTold, RunBegun
<1>5. CASE f.type \in {"metrics", "telemetry_status", "edges", "gap"}
    <2>1. x \in {ApplyMetrics(v, f), ApplyTelemetryStatus(v, f), ApplyEdges(v, f), ApplyGap(v, f)}
        BY <1>1, <1>5 DEF ApplyTyped
    <2>2. x.simTime = v.simTime /\ x.beats = v.beats /\ x.narrator = v.narrator /\ x.activeScenario = v.activeScenario
        BY <2>1, ShapeOfStore DEF Plain, Shaped, ApplyMetrics, ApplyTelemetryStatus, ApplyEdges, ApplyGap
    <2>3. QED
        BY <1>1, <1>5, <2>2 DEF TypedTold
<1>6. QED
    BY <1>2, <1>3, <1>4, <1>5 DEF FrameTypes

\* The scan has told what the store has, or a scenario frame is still to come that lets both begin again.
SameTale(a, v) ==
    /\ a.beats = v.beats
    /\ a.pruned <=> v.narrator.pruned # None
    /\ a.heal <=> v.narrator.healFrom # None
    /\ a.healed <=> v.narrator.healed
BeginsAgain(r, n) == \E k \in 1..Length(r) : k > n /\ Frame(r, k).type = "scenario"

ScanShaped(a) == DOMAIN a = DOMAIN ScanStart /\ (a.heal => a.started) /\ (a.healed => a.heal)
\* The clocks agree once there was a snapshot, and the scenario does all along.
SameClock(a, v) == a.scenario = v.activeScenario /\ (a.started => a.time = v.simTime)

Scans(a, v, r, n) ==
    /\ ScanShaped(a) /\ DOMAIN v.narrator = DOMAIN NARRATOR_IDLE
    /\ SameClock(a, v) /\ (a.started <=> "snapshot" \in TypesIn(r, n))
    /\ SameTale(a, v) \/ BeginsAgain(r, n)

LEMMA ShapeOfScan ==
    {"beats", "scenario", "time", "started", "pruned", "heal", "healed"} \subseteq DOMAIN ScanStart
BY DEF ScanStart

LEMMA EventScanned ==
    ASSUME NEW a, NEW v, ScanShaped(a), SameClock(a, v), DOMAIN v.narrator = DOMAIN NARRATOR_IDLE, a.started,
           NEW e, e.type = "event", LeavesMark(e) => e.at # None, NEW x, Told(x, v, e)
    PROVE  LET b == ScanEvent(a, e)
           IN  ScanShaped(b) /\ SameClock(b, x) /\ b.started /\ (SameTale(a, v) => SameTale(b, x))
<1>1. PICK b : b = ScanEvent(a, e)
    OBVIOUS
<1>2. {"pruned", "healFrom", "healed"} \subseteq DOMAIN v.narrator
    BY DEF NARRATOR_IDLE
<1>3. CASE e.kind = "ClockTick"
    <2>1. b = [a EXCEPT !.time = e.at]
        BY <1>1, <1>3 DEF ScanEvent
    <2>2. QED
        BY <1>1, <1>3, <2>1, ShapeOfScan DEF ScanShaped, SameClock, SameTale, Told
<1>4. CASE e.kind = "ScenarioPhaseFired"
    <2>1. PICK beat : beat = Beat("phase", e.label, e.at)
        OBVIOUS
    <2>2. b = [a EXCEPT !.beats = Append(@, beat)]
        BY <1>1, <1>4, <2>1 DEF ScanEvent
    <2>3. x.beats = Append(v.beats, beat) /\ x.narrator = v.narrator /\ x.simTime = v.simTime
          /\ x.activeScenario = v.activeScenario
        BY <1>4, <2>1 DEF Told
    <2>4. QED
        BY <1>1, <2>2, <2>3, ShapeOfScan DEF ScanShaped, SameClock, SameTale
<1>5. CASE e.kind = "SybilPruned"
    <2>1. PICK beat : beat = Beat("prune", "First Sybil pruned", e.at)
        OBVIOUS
    <2>2. b = IF a.pruned THEN a ELSE [a EXCEPT !.pruned = TRUE, !.beats = Append(@, beat)]
        BY <1>1, <1>5, <2>1 DEF ScanEvent
    <2>3. /\ x.beats = IF v.narrator.pruned = None THEN Append(v.beats, beat) ELSE v.beats
          /\ x.narrator = IF v.narrator.pruned = None THEN [v.narrator EXCEPT !.pruned = e.at] ELSE v.narrator
          /\ x.simTime = v.simTime /\ x.activeScenario = v.activeScenario
        BY <1>5, <2>1 DEF Told
    <2>4. e.at # None
        BY <1>5 DEF LeavesMark
    <2>5. ScanShaped(b) /\ SameClock(b, x) /\ b.started
        BY <2>2, <2>3, ShapeOfScan DEF ScanShaped, SameClock
    <2>6. ASSUME SameTale(a, v) PROVE SameTale(b, x)
        BY <1>2, <2>2, <2>3, <2>4, <2>6, ShapeOfScan DEF ScanShaped, SameTale
    <2>7. QED
        BY <1>1, <2>5, <2>6
<1>6. CASE e.kind = "FaultInjected"
    <2>1. PICK beat : beat = Beat("fault", e.fault, e.at)
        OBVIOUS
    <2>2. b = [a EXCEPT !.beats = Append(@, beat)]
        BY <1>1, <1>6, <2>1 DEF ScanEvent
    <2>3. x.beats = Append(v.beats, beat) /\ x.narrator = v.narrator /\ x.simTime = v.simTime
          /\ x.activeScenario = v.activeScenario
        BY <1>6, <2>1 DEF Told
    <2>4. QED
        BY <1>1, <2>2, <2>3, ShapeOfScan DEF ScanShaped, SameClock, SameTale
<1>7. CASE e.kind = "FaultCleared"
    <2>1. PICK beat : beat = Beat("cleared", e.fault, e.at)
        OBVIOUS
    <2>2. b = [a EXCEPT !.heal = TRUE, !.beats = Append(@, beat)]
        BY <1>1, <1>7, <2>1 DEF ScanEvent
    <2>3. /\ x.beats = Append(v.beats, beat)
          /\ x.narrator = IF v.narrator.healFrom = None THEN [v.narrator EXCEPT !.healFrom = e.at, !.healed = FALSE]
                          ELSE v.narrator
          /\ x.simTime = v.simTime /\ x.activeScenario = v.activeScenario
        BY <1>7, <2>1 DEF Told
    <2>4. e.at # None
        BY <1>7 DEF LeavesMark
    <2>5. ScanShaped(b) /\ SameClock(b, x) /\ b.started
        BY <2>2, <2>3, ShapeOfScan DEF ScanShaped, SameClock
    <2>6. ASSUME SameTale(a, v) PROVE SameTale(b, x)
        BY <1>2, <2>2, <2>3, <2>4, <2>6, ShapeOfScan DEF ScanShaped, SameTale
    <2>7. QED
        BY <1>1, <2>5, <2>6
<1>8. CASE e.kind \notin {"ClockTick", "ScenarioPhaseFired", "SybilPruned", "FaultInjected", "FaultCleared"}
    <2>1. b = a
        BY <1>1, <1>8 DEF ScanEvent
    <2>2. x.beats = v.beats /\ x.narrator = v.narrator /\ x.simTime = v.simTime /\ x.activeScenario = v.activeScenario
        BY <1>8 DEF Told
    <2>3. QED
        BY <1>1, <2>1, <2>2 DEF SameClock, SameTale
<1>9. QED
    BY <1>3, <1>4, <1>5, <1>6, <1>7, <1>8

LEMMA FrameScanned ==
    ASSUME NEW a, NEW v, ScanShaped(a), SameClock(a, v), DOMAIN v.narrator = DOMAIN NARRATOR_IDLE,
           NEW f, f.type # "event", NEW x, TypedTold(x, v, f)
    PROVE  LET b == ScanTyped(a, f)
           IN  /\ ScanShaped(b) /\ SameClock(b, x) /\ (b.started <=> a.started \/ f.type = "snapshot")
               /\ SameTale(a, v) \/ f.type = "scenario" => SameTale(b, x)
<1>1. PICK b : b = ScanTyped(a, f)
    OBVIOUS
<1>2. {"pruned", "healFrom", "healed"} \subseteq DOMAIN v.narrator
    BY DEF NARRATOR_IDLE
<1>3. CASE f.type = "snapshot"
    <2>1. b = [a EXCEPT !.time = f.time, !.started = TRUE]
        BY <1>1, <1>3 DEF ScanTyped
    <2>2. x.beats = v.beats /\ x.narrator = v.narrator /\ x.simTime = f.time /\ x.activeScenario = v.activeScenario
        BY <1>3 DEF TypedTold
    <2>3. QED
        BY <1>1, <1>3, <2>1, <2>2, ShapeOfScan DEF ScanShaped, SameClock, SameTale
<1>4. CASE f.type = "scenario"
    <2>1. PICK name : name = IF f.active THEN f.name ELSE None
        OBVIOUS
    <2>2. b = [a EXCEPT !.beats = <<>>, !.pruned = FALSE, !.heal = FALSE, !.healed = FALSE, !.scenario = name]
        BY <1>1, <1>4, <2>1 DEF ScanTyped
    <2>3. x.beats = <<>> /\ x.narrator = NARRATOR_IDLE /\ x.simTime = v.simTime /\ x.activeScenario = name
        BY <1>4, <2>1 DEF TypedTold
    <2>4. QED
        BY <1>1, <1>4, <2>2, <2>3, ShapeOfScan DEF ScanShaped, SameClock, SameTale, NARRATOR_IDLE
<1>5. CASE f.type = "analytics"
    <2>1. PICK beat, own : beat = Beat("healed", "Mesh healed", v.simTime) /\ own = Beat("healed", "Mesh healed", a.time)
        OBVIOUS
    <2>2. b = IF a.heal /\ ~a.healed /\ f.delivered THEN [a EXCEPT !.healed = TRUE, !.beats = Append(@, own)] ELSE a
        BY <1>1, <1>5, <2>1 DEF ScanTyped
    <2>3. /\ x.beats = IF Heals(v, f) THEN Append(v.beats, beat) ELSE v.beats
          /\ x.narrator = IF Heals(v, f) THEN [v.narrator EXCEPT !.healed = TRUE] ELSE v.narrator
          /\ x.simTime = v.simTime /\ x.activeScenario = v.activeScenario
        BY <1>5, <2>1 DEF TypedTold
    <2>4. ScanShaped(b) /\ SameClock(b, x) /\ (b.started <=> a.started)
        BY <2>2, <2>3, ShapeOfScan DEF ScanShaped, SameClock
    <2>5. ASSUME SameTale(a, v) PROVE SameTale(b, x)
        <3>1. Heals(v, f) <=> a.heal /\ ~a.healed /\ f.delivered
            BY <2>5 DEF SameTale, Heals
        <3>2. CASE Heals(v, f)
            <4>1. own = beat
                BY <2>1, <3>1, <3>2 DEF ScanShaped, SameClock
            <4>2. QED
                BY <1>2, <2>2, <2>3, <2>5, <3>1, <3>2, <4>1, ShapeOfScan DEF ScanShaped, SameTale
        <3>3. CASE ~Heals(v, f)
            BY <2>2, <2>3, <2>5, <3>1, <3>3 DEF SameTale
        <3>4. QED
            BY <3>2, <3>3
    <2>6. QED
        BY <1>1, <1>5, <2>4, <2>5
<1>6. CASE f.type \notin {"snapshot", "scenario", "analytics"}
    <2>1. b = a
        BY <1>1, <1>6 DEF ScanTyped
    <2>2. x.beats = v.beats /\ x.narrator = v.narrator /\ x.simTime = v.simTime /\ x.activeScenario = v.activeScenario
        BY <1>6 DEF TypedTold
    <2>3. QED
        BY <1>1, <1>6, <2>1, <2>2 DEF SameClock, SameTale
<1>7. QED
    BY <1>3, <1>4, <1>5, <1>6

LEMMA NarratorShaped ==
    ASSUME NEW v, DOMAIN v.narrator = DOMAIN NARRATOR_IDLE, NEW f, NEW x, Told(x, v, f) \/ TypedTold(x, v, f)
    PROVE  DOMAIN x.narrator = DOMAIN NARRATOR_IDLE
<1>1. \E at : x.narrator \in {v.narrator, NARRATOR_IDLE, [v.narrator EXCEPT !.pruned = at],
                              [v.narrator EXCEPT !.healFrom = at, !.healed = FALSE], [v.narrator EXCEPT !.healed = TRUE]}
    <2>1. CASE Told(x, v, f)
        <3>1. x.narrator \in {v.narrator, [v.narrator EXCEPT !.pruned = f.at],
                              [v.narrator EXCEPT !.healFrom = f.at, !.healed = FALSE]}
            BY <2>1 DEF Told
        <3>2. QED
            BY <3>1
    <2>2. CASE TypedTold(x, v, f)
        <3>1. x.narrator \in {v.narrator, NARRATOR_IDLE, [v.narrator EXCEPT !.healed = TRUE]}
            BY <2>2 DEF TypedTold
        <3>2. QED
            BY <3>1
    <2>3. QED
        BY <2>1, <2>2
<1>2. QED
    BY <1>1

LEMMA ScanOfView ==
    ASSUME NEW r \in ReelNames
    PROVE  \A n \in 0..Length(r) : Scans(ScanAt(r, n), ViewAt(r, n), r, n)
<1> DEFINE S == {n \in Nat : n <= Length(r) => Scans(ScanAt(r, n), ViewAt(r, n), r, n)}
<1>1. Length(r) \in Nat /\ r # None /\ 0 \in 0..Length(r)
    BY FramesAre
<1>2. 0 \in S
    <2>1. PICK v : v = [InitialStore EXCEPT !.reel = r]
        OBVIOUS
    <2>2. ViewAt(r, 0) = v /\ ScanAt(r, 0) = ScanStart
        BY <1>1, <2>1, PlayedOneMore, ScanOneMore DEF ViewAt
    <2>3. v.beats = <<>> /\ v.narrator = NARRATOR_IDLE /\ v.activeScenario = None
        BY <2>1 DEF InitialStore
    <2>4. TypesIn(r, 0) = {}
        BY DEF TypesIn
    <2>5. SameTale(ScanStart, v)
        BY <2>3 DEF SameTale, ScanStart, NARRATOR_IDLE
    <2>6. ScanShaped(ScanStart) /\ SameClock(ScanStart, v) /\ ~ScanStart.started
        BY <2>3 DEF ScanShaped, SameClock, ScanStart
    <2>7. QED
        BY <2>2, <2>3, <2>4, <2>5, <2>6 DEF Scans
<1>3. ASSUME NEW n \in S PROVE n + 1 \in S
    <2>1. SUFFICES ASSUME n + 1 <= Length(r) PROVE Scans(ScanAt(r, n + 1), ViewAt(r, n + 1), r, n + 1)
        OBVIOUS
    <2>2. n \in Nat /\ n \in 0..Length(r) /\ n < Length(r) /\ n + 1 \in 1..Length(r)
        BY <1>1, <2>1
    <2>3. PICK a, v, f, b, x : /\ a = ScanAt(r, n) /\ v = ViewAt(r, n) /\ f = Frame(r, n + 1)
                               /\ b = ScanFrame(a, f) /\ x = Shows(v, f)
        OBVIOUS
    <2>4. ScanAt(r, n + 1) = b /\ ViewAt(r, n + 1) = x
        BY <1>1, <2>2, <2>3, ScanOneMore, PlayedOneMore DEF ViewAt
    <2>5. Scans(a, v, r, n) /\ Plain(v, r) /\ f.type \in FrameTypes
        BY <2>2, <2>3, ViewIs, FramesAre
    <2>6. TypesIn(r, n + 1) = TypesIn(r, n) \union {f.type}
        BY <2>2, <2>3, TypesOneMore
    <2>7. BeginsAgain(r, n) /\ f.type # "scenario" => BeginsAgain(r, n + 1)
        <3>1. SUFFICES ASSUME NEW k \in 1..Length(r), k > n, Frame(r, k).type = "scenario", f.type # "scenario"
                       PROVE  k > n + 1
            BY DEF BeginsAgain
        <3>2. k # n + 1
            BY <2>3, <3>1
        <3>3. QED
            BY <1>1, <2>2, <3>1, <3>2
    <2>8. CASE f.type = "event"
        <3>1. Told(x, v, f)
            BY <1>1, <2>3, <2>5, <2>8, EventTold DEF Shows
        <3>2. DOMAIN x.narrator = DOMAIN NARRATOR_IDLE
            BY <2>5, <3>1, NarratorShaped DEF Scans
        <3>3. LeavesMark(f) => f.at # None
            BY <2>2, <2>3, FramesAre, ReelAssumption DEF IsRecording, Frame
        <3>4. CASE a.started
            <4>1. b = ScanEvent(a, f)
                BY <2>3, <2>8, <3>4 DEF ScanFrame
            <4>2. ScanShaped(b) /\ SameClock(b, x) /\ b.started /\ (SameTale(a, v) => SameTale(b, x))
                BY <2>5, <2>8, <3>1, <3>3, <3>4, <4>1, EventScanned DEF Scans
            <4>3. QED
                BY <2>4, <2>5, <2>6, <2>7, <2>8, <3>2, <3>4, <4>2 DEF Scans
        <3>5. CASE ~a.started
            <4>1. b = a
                BY <2>3, <2>8, <3>5 DEF ScanFrame
            <4>2. x.activeScenario = v.activeScenario
                BY <3>1 DEF Told
            <4>3. "snapshot" \notin TypesIn(r, n + 1)
                BY <2>5, <2>6, <2>8, <3>5 DEF Scans
            <4>4. LeavesMark(f) => BeginsAgain(r, n + 1)
                <5>1. \A j \in 1..(n + 1) : FramesOf(r)[j].frame.type # "snapshot"
                    BY <4>3 DEF TypesIn, Frame
                <5>2. QED
                    BY <2>2, <2>3, <5>1, FramesAre DEF IsRecording, Frame, BeginsAgain
            <4>5. ~LeavesMark(f) => x.beats = v.beats /\ x.narrator = v.narrator
                BY <2>8, <3>1 DEF Told, LeavesMark
            <4>6. SameTale(a, v) /\ ~LeavesMark(f) => SameTale(a, x)
                BY <4>5 DEF SameTale
            <4>7. SameClock(a, x)
                BY <2>5, <3>5, <4>2 DEF Scans, SameClock
            <4>8. QED
                BY <2>4, <2>5, <2>7, <2>8, <3>2, <3>5, <4>1, <4>3, <4>4, <4>6, <4>7 DEF Scans
        <3>6. QED
            BY <3>4, <3>5
    <2>9. CASE f.type # "event"
        <3>1. TypedTold(x, v, f)
            BY <1>1, <2>3, <2>5, <2>9, FrameTold DEF Shows
        <3>2. DOMAIN x.narrator = DOMAIN NARRATOR_IDLE
            BY <2>5, <3>1, NarratorShaped DEF Scans
        <3>3. b = ScanTyped(a, f)
            BY <2>3, <2>9 DEF ScanFrame
        <3>4. /\ ScanShaped(b) /\ SameClock(b, x) /\ (b.started <=> a.started \/ f.type = "snapshot")
              /\ SameTale(a, v) \/ f.type = "scenario" => SameTale(b, x)
            BY <2>5, <2>9, <3>1, <3>3, FrameScanned DEF Scans
        <3>5. QED
            BY <2>4, <2>5, <2>6, <2>7, <3>2, <3>4 DEF Scans
    <2>10. QED
        BY <2>8, <2>9
<1>4. S = Nat
    <2> HIDE DEF S
    <2>1. S \in SUBSET Nat
        BY DEF S
    <2>2. QED
        BY <1>2, <1>3, <2>1, NumbersBySteps
<1>5. QED
    BY <1>1, <1>4

\* So at the end of a recording both have the same beats and the same scenario, and it has one.
LEMMA ScanIsPlayThrough ==
    ASSUME NEW r \in ReelNames, Length(r) # 0, NEW s, IsAt(s, r, Length(r))
    PROVE  s.beats = ScanReel(r).beats /\ s.activeScenario = ScanReel(r).scenario
<1>1. PICK n, v, a : n = Length(r) /\ v = ViewAt(r, n) /\ a = ScanReel(r)
    OBVIOUS
<1>2. n \in Nat /\ n \in 0..Length(r) /\ FramesOf(r) # <<>>
    BY <1>1, FramesAre DEF Length
<1>3. Scans(a, v, r, n) /\ ~BeginsAgain(r, n)
    BY <1>1, <1>2, ScanOfView, ScanOneMore DEF BeginsAgain
<1>4. "scenario" \in TypesIn(r, n)
    BY <1>1, <1>2, FramesAre DEF IsRecording, TypesIn, Frame
<1>5. QED
    BY <1>1, <1>3, <1>4 DEF IsAt, Alike, Scans, SameTale, SameClock

----------------------------------------------------------------------------
(* Before the recording is there: the mesh of its first snapshot.           *)

LEMMA PlainShows ==
    ASSUME NEW r, r # None, NEW s, Plain(s, r), NEW f, f.type \in FrameTypes
    PROVE  Plain(Shows(s, f), r)
<1>1. PICK v, T : v = s /\ T = {}
    OBVIOUS
<1>2. Plain(v, r) /\ Alike(s, v, T)
    BY <1>1 DEF Alike
<1>3. CASE f.type = "event"
    <2>1. Quiet(ApplyEvent(s, f), s)
        BY <1>2, EventShown
    <2>2. QED
        BY <1>3, <2>1 DEF Shows, Quiet, Plain
<1>4. CASE f.type # "event"
    BY <1>2, <1>4, TypedShown DEF Shows
<1>5. QED
    BY <1>3, <1>4

LEMMA PlainDispatched ==
    ASSUME NEW r, r # None, NEW s, Plain(s, r), NEW E, \A f \in E : f.type \in FrameTypes, NEW q \in Seq(E)
    PROVE  Plain(DispatchAll(s, q), r)
<1> DEFINE T == {p \in Seq(E) : Plain(DispatchAll(s, p), r)}
<1>1. <<>> \in T
    BY DispatchNothing
<1>2. ASSUME NEW p \in T, NEW f \in E PROVE Append(p, f) \in T
    <2>1. PICK x : x = DispatchAll(s, p)
        OBVIOUS
    <2>2. p \in Seq(E) /\ Append(p, f) \in Seq(E) /\ Plain(x, r)
        BY <2>1
    <2>3. DispatchAll(s, Append(p, f)) = Shows(x, f)
        BY <2>1, <2>2, DispatchOneMore
    <2>4. QED
        BY <2>2, <2>3, PlainShows
<1>3. T = Seq(E)
    <2> HIDE DEF T
    <2>1. T \in SUBSET Seq(E)
        BY DEF T
    <2>2. QED
        BY <1>1, <1>2, <2>1, SequencesBySteps
<1>4. QED
    BY <1>3

LEMMA GreatestIs ==
    ASSUME NEW n \in Nat, NEW S \in SUBSET (1..n), S # {}
    PROVE  Max(S) \in S
<1> DEFINE T == {k \in Nat : n - k \in S}
<1>1. T # {}
    <2>1. PICK i \in S : TRUE
        OBVIOUS
    <2>2. n - i \in Nat /\ n - (n - i) = i
        BY <2>1
    <2>3. n - i \in T
        BY <2>1, <2>2
    <2>4. QED
        BY <2>3
<1>2. PICK k : k = Min(T)
    OBVIOUS
<1>3. k \in T /\ \A j \in T : k <= j
    <2>1. T \in SUBSET Nat
        OBVIOUS
    <2> HIDE DEF T
    <2>2. QED
        BY <1>1, <1>2, <2>1, LeastIs
<1>4. ASSUME NEW i \in S PROVE n - k >= i
    <2>1. n - i \in Nat /\ n - (n - i) = i /\ i \in Nat /\ k \in Nat
        BY <1>3
    <2>2. n - i \in T
        BY <2>1
    <2>3. k <= n - i
        BY <1>3, <2>2
    <2>4. QED
        BY <2>1, <2>3
<1>5. n - k \in S
    BY <1>3
<1>6. QED
    BY <1>4, <1>5, Zenon DEF Max

LEMMA LatestIs ==
    ASSUME NEW X, NEW q \in Seq(X), NEW type
    PROVE  LatestOf(q, type) \in Seq({x.frame : x \in X})
<1>1. PICK of : of = {i \in DOMAIN q : q[i].frame.type = type}
    OBVIOUS
<1>2. LatestOf(q, type) = IF of = {} THEN <<>> ELSE <<q[Max(of)].frame>>
    BY <1>1, Zenon DEF LatestOf
<1>3. DOMAIN q = 1..Len(q) /\ Len(q) \in Nat
    OBVIOUS
<1>4. CASE of = {}
    BY <1>2, <1>4
<1>5. CASE of # {}
    <2>1. of \in SUBSET (1..Len(q))
        BY <1>1, <1>3
    <2>2. Max(of) \in of
        BY <1>3, <1>5, <2>1, GreatestIs
    <2>3. PICK m : m = Max(of)
        OBVIOUS
    <2>4. PICK x \in X : x = q[m]
        <3>1. m \in 1..Len(q)
            BY <2>1, <2>2, <2>3
        <3>2. q[m] \in X
            BY <3>1
        <3>3. QED
            BY <3>2
    <2>5. LatestOf(q, type) = <<x.frame>>
        BY <1>2, <1>5, <2>3, <2>4, Zenon
    <2>6. <<x.frame>> \in Seq({y.frame : y \in X})
        OBVIOUS
    <2>7. QED
        BY <2>5, <2>6
<1>6. QED
    BY <1>4, <1>5

LEMMA PrimedPlain ==
    ASSUME NEW r \in ReelNames, NEW n \in 0..Length(r), HasSnapshot(r, n), NEW s, Plain(s, r)
    PROVE  Plain(DispatchAll(s, PrimedBy(r, n)), r)
<1> DEFINE X == {FramesOf(r)[i] : i \in 1..Length(r)}
           E == {x.frame : x \in X}
<1>1. Length(r) \in Nat /\ n \in Nat /\ n <= Length(r)
    BY FramesAre
<1>2. FramesOf(r) \in Seq(X) /\ Len(FramesOf(r)) = Length(r)
    <2>1. FramesOf(r) \in Seq(ToSet(FramesOf(r))) /\ ToSet(FramesOf(r)) = X
        BY FramesAre DEF IsRecording, ToSet
    <2>2. QED
        BY <2>1 DEF Length
<1>3. \A f \in E : f.type \in FrameTypes
    BY FramesAre DEF Frame
<1> HIDE DEF X
<1>4. PICK seq : seq = SubSeq(FramesOf(r), 1, n)
    OBVIOUS
<1>5. seq \in Seq(X) /\ DOMAIN seq = 1..n /\ Len(seq) = n /\ \A i \in 1..n : seq[i] = FramesOf(r)[i]
    BY <1>1, <1>2, <1>4
<1> DEFINE First(i) == seq[i].frame.type = "snapshot" /\ \A j \in 1..(i - 1) : seq[j].frame.type # "snapshot"
<1>6. \E i \in DOMAIN seq : First(i)
    <2>1. PICK S : S = {i \in 1..n : seq[i].frame.type = "snapshot"}
        OBVIOUS
    <2>2. S # {} /\ S \in SUBSET Nat
        BY <1>1, <1>5, <2>1 DEF HasSnapshot
    <2>3. PICK m : m = Min(S)
        OBVIOUS
    <2>4. m \in S /\ \A i \in S : m <= i
        BY <2>2, <2>3, LeastIs
    <2>5. \A j \in 1..(m - 1) : j \in 1..n /\ ~(m <= j)
        BY <1>1, <2>1, <2>4
    <2>6. First(m) /\ m \in DOMAIN seq
        BY <1>5, <2>1, <2>4, <2>5
    <2>7. QED
        BY <2>6
<1>7. PICK at : at = CHOOSE i \in DOMAIN seq : First(i)
    OBVIOUS
<1>8. at \in 1..n
    BY <1>5, <1>6, <1>7
<1>9. PICK upTo : upTo = SubSeq(seq, 1, at)
    OBVIOUS
<1>10. upTo \in Seq(X) /\ seq[at].frame \in E
    BY <1>1, <1>5, <1>8, <1>9
<1>11. PrimedBy(r, n) = LatestOf(upTo, "edges") \o LatestOf(upTo, "scenario") \o <<seq[at].frame>>
    BY <1>4, <1>7, <1>9, Zenon DEF PrimedBy
<1>12. LatestOf(upTo, "edges") \in Seq(E) /\ LatestOf(upTo, "scenario") \in Seq(E) /\ <<seq[at].frame>> \in Seq(E)
    BY <1>10, LatestIs
<1> HIDE DEF E
<1>13. PrimedBy(r, n) \in Seq(E)
    BY <1>11, <1>12
<1>14. QED
    BY <1>3, <1>13, FramesAre, PlainDispatched

----------------------------------------------------------------------------
(* The inductive invariant.                                                 *)

Load == [gen : Nat, reel : ReelNames, answered : BOOLEAN, got : Nat, primed : BOOLEAN, aborted : BOOLEAN]

PlayerTypes ==
    /\ Shaped(store) /\ store.layoutMode = "force"
    /\ loads \in SUBSET Load /\ loadGen \in Nat /\ speed \in Nat
    /\ playing \in BOOLEAN /\ mounted \in BOOLEAN
    /\ \A l \in loads : l.gen <= loadGen /\ l.got <= Length(l.reel)
    /\ \A l, m \in loads : l.gen = m.gen => l = m

\* A load that is not stale is the one of the reel that the page is open for, and nothing is loaded before it lands.
LoadsInv == \A l \in loads : ~Stale(l) => mounted /\ store.reel = l.reel /\ loaded = None

\* What is loaded is what was entered, the clock and the cursor agree, and the store is where the cursor is.
PlaceInv ==
    IF loaded = None THEN ~playing /\ cursor = 0 /\ elapsed = 0
    ELSE /\ loaded \in ReelNames /\ Length(loaded) # 0
         /\ mounted /\ elapsed \in Nat /\ cursor \in 0..Length(loaded)
         /\ CursorAtClock /\ IsAt(store, loaded, cursor)

PlayerInv == PlayerTypes /\ LoadsInv /\ PlaceInv

LEMMA PlayerInit == Init => PlayerInv
<1> SUFFICES ASSUME Init PROVE PlayerInv
    OBVIOUS
<1>1. PICK mark \in BOOLEAN : store = [InitialStore EXCEPT !.connectScenarioPending = mark]
    BY DEF Init
<1>2. Shaped(store) /\ store.layoutMode = "force"
    BY <1>1, ShapeOfStore DEF Shaped, InitialStore
<1>3. QED
    BY <1>2 DEF Init, PlayerInv, PlayerTypes, LoadsInv, PlaceInv

\* Loads that are told to stop are stale, and as many and as shaped as they were.
LEMMA AbortedAre ==
    ASSUME PlayerTypes, NEW ls, ls \subseteq loads
    PROVE  /\ Aborted(ls) \in SUBSET Load
           /\ \A l \in Aborted(ls) : l.aborted /\ l.gen <= loadGen /\ l.got <= Length(l.reel)
           /\ \A l, m \in Aborted(ls) : l.gen = m.gen => l = m
<1>1. ASSUME NEW l \in ls
      PROVE  \E m \in Load : /\ m = [l EXCEPT !.aborted = TRUE] /\ m.aborted
                             /\ m.gen = l.gen /\ m.got = l.got /\ m.reel = l.reel
    <2>1. l \in Load
        BY DEF PlayerTypes
    <2>2. PICK m : m = [l EXCEPT !.aborted = TRUE]
        OBVIOUS
    <2>3. m \in Load /\ m.aborted /\ m.gen = l.gen /\ m.got = l.got /\ m.reel = l.reel
        BY <2>1, <2>2 DEF Load
    <2>4. QED
        BY <2>2, <2>3, Zenon
<1>2. ASSUME NEW l \in Aborted(ls)
      PROVE  \E m \in ls : /\ l = [m EXCEPT !.aborted = TRUE]
                           /\ l \in Load /\ l.aborted /\ l.gen = m.gen /\ l.got = m.got /\ l.reel = m.reel
    <2>1. PICK m \in ls : l = [m EXCEPT !.aborted = TRUE]
        BY Zenon DEF Aborted
    <2>2. QED
        BY <1>1, <2>1
<1>3. Aborted(ls) \in SUBSET Load
    BY <1>2
<1>4. ASSUME NEW l \in Aborted(ls)
      PROVE  l.aborted /\ l.gen <= loadGen /\ l.got <= Length(l.reel)
    <2>1. PICK m \in ls : l.aborted /\ l.gen = m.gen /\ l.got = m.got /\ l.reel = m.reel
        BY <1>2
    <2>2. QED
        BY <2>1 DEF PlayerTypes
<1>5. ASSUME NEW l \in Aborted(ls), NEW m \in Aborted(ls), l.gen = m.gen
      PROVE  l = m
    <2>1. PICK x \in ls : l = [x EXCEPT !.aborted = TRUE] /\ l.gen = x.gen
        BY <1>2
    <2>2. PICK y \in ls : m = [y EXCEPT !.aborted = TRUE] /\ m.gen = y.gen
        BY <1>2
    <2>3. x = y
        BY <1>5, <2>1, <2>2 DEF PlayerTypes
    <2>4. QED
        BY <2>1, <2>2, <2>3
<1>6. QED
    BY <1>3, <1>4, <1>5

\* A seek, whether there is a reel or not.
LEMMA SeekIs ==
    ASSUME NEW r \in ReelNames \union {None}, NEW reel, NEW s, Plain(s, reel), r # None => reel = r, NEW ms,
           IF r = None THEN ms = 0 ELSE ms \in Nat, SeekReel(s, r, ms)
    PROVE  /\ Plain(store', reel)
           /\ r = None => cursor' = 0 /\ elapsed' = 0
           /\ r # None => /\ elapsed' \in Nat /\ cursor' \in 0..Length(r) /\ IsAt(store', r, cursor')
                          /\ \A i \in 1..Length(r) : i <= cursor' <=> FramesOf(r)[i].t <= elapsed'
<1>1. PICK target : target = Clamp(ms, 0, Duration(r))
    OBVIOUS
<1>2. store' = Rebuilt(s, r, target) /\ cursor' = DueBy(r, target) /\ elapsed' = target
    BY <1>1, Zenon DEF SeekReel
<1>3. CASE r = None
    <2>1. target = 0
        BY <1>1, <1>3, NothingLoaded DEF Clamp
    <2>2. PICK x : x = [ResetRun(s) EXCEPT !.activeFaults = 0]
        OBVIOUS
    <2>3. Plain(x, reel)
        BY <2>2, ResetIsPlain
    <2>4. Played(x, r, 0, DueBy(r, target)) = x
        BY <1>3, <2>1, NothingLoaded
    <2>5. Rebuilt(s, r, target) \in {x, [x EXCEPT !.selectedPeer = s.selectedPeer]}
        BY <2>2, <2>4 DEF Rebuilt
    <2>6. Plain(store', reel)
        BY <1>2, <2>3, <2>5, ShapeOfStore DEF Plain, Shaped
    <2>7. QED
        BY <1>2, <1>3, <2>1, <2>6, NothingLoaded
<1>4. CASE r # None
    <2>1. target \in Nat /\ r \in ReelNames
        BY <1>1, <1>4, TimesAre DEF Clamp
    <2>2. IsAt(store', r, cursor')
        BY <1>2, <1>4, <2>1, RebuiltIs
    <2>3. QED
        BY <1>2, <1>4, <2>1, <2>2, DueIs DEF IsAt
<1>5. QED
    BY <1>3, <1>4

\* What is left of the invariant when neither the loads nor the page change.
LEMMA PlayerKeeps ==
    ASSUME PlayerInv, UNCHANGED <<loads, loadGen, mounted, loaded>>, Plain(store', store.reel),
           speed' \in Nat, playing' \in BOOLEAN, PlaceInv'
    PROVE  PlayerInv'
<1>1. PlayerTypes'
    BY DEF PlayerInv, PlayerTypes, Plain
<1>2. LoadsInv'
    BY DEF PlayerInv, LoadsInv, Stale, Plain
<1>3. QED
    BY <1>1, <1>2 DEF PlayerInv

\* A seek keeps the invariant if the player does not start with nothing loaded.
LEMMA SeekKeeps ==
    ASSUME PlayerInv, UNCHANGED <<loads, loadGen, mounted, loaded, speed>>, NEW s, Plain(s, store.reel), NEW ms,
           IF loaded = None THEN ms = 0 ELSE ms \in Nat, SeekReel(s, loaded, ms),
           playing' \in BOOLEAN, loaded = None => ~playing'
    PROVE  PlayerInv'
<1>1. loaded \in ReelNames \union {None} /\ (loaded # None => store.reel = loaded)
    BY DEF PlayerInv, PlaceInv, IsAt, Plain
<1>2. /\ Plain(store', store.reel)
      /\ loaded = None => cursor' = 0 /\ elapsed' = 0
      /\ loaded # None => /\ elapsed' \in Nat /\ cursor' \in 0..Length(loaded) /\ IsAt(store', loaded, cursor')
                          /\ \A i \in 1..Length(loaded) : i <= cursor' <=> FramesOf(loaded)[i].t <= elapsed'
    BY <1>1, SeekIs
<1>3. CASE loaded = None
    BY <1>2, <1>3, PlayerKeeps DEF PlayerInv, PlayerTypes, PlaceInv
<1>4. CASE loaded # None
    <2>1. CursorAtClock'
        BY <1>1, <1>2, <1>4, FramesAre DEF CursorAtClock
    <2>2. PlaceInv'
        BY <1>2, <1>4, <2>1 DEF PlayerInv, PlaceInv
    <2>3. QED
        BY <1>2, <2>2, PlayerKeeps DEF PlayerInv, PlayerTypes
<1>5. QED
    BY <1>3, <1>4

\* A change of the store that no place shows.
LEMMA RetouchKeeps ==
    ASSUME PlayerInv, UNCHANGED <<loads, loadGen, mounted, loaded, cursor, elapsed>>,
           DOMAIN store' = DOMAIN store,
           \A k \in DOMAIN InitialStore \ {"playing", "reelLoad", "selectedPeer", "scoreHistory"} : store'[k] = store[k],
           speed' \in Nat, playing' \in BOOLEAN, loaded = None => ~playing'
    PROVE  PlayerInv'
<1>1. Plain(store', store.reel)
    BY ShapeOfStore DEF PlayerInv, PlayerTypes, Plain, Shaped
<1>2. loaded # None => IsAt(store', loaded, cursor)
    BY StaysAt DEF PlayerInv, PlaceInv
<1>3. CursorAtClock => CursorAtClock'
    BY DEF CursorAtClock
<1>4. PlaceInv'
    BY <1>2, <1>3 DEF PlayerInv, PlaceInv
<1>5. QED
    BY <1>1, <1>4, PlayerKeeps

----------------------------------------------------------------------------
(* Every action keeps the invariant.                                        *)

LEMMA PlayKeeps ==
    ASSUME PlayerInv, PlayReel
    PROVE  PlayerInv'
<1>1. loaded # None
    BY DEF PlayReel, FramesOf
<1>2. PICK s : s = [store EXCEPT !.playing = TRUE]
    OBVIOUS
<1>3. Plain(store, store.reel)
    BY DEF PlayerInv, PlayerTypes, Plain
<1>4. Plain(s, store.reel)
    BY <1>2, <1>3, ShapeOfStore DEF Plain, Shaped
<1>5. CASE cursor >= Len(FramesOf(loaded))
    <2>1. SeekReel(s, loaded, 0)
        BY <1>2, <1>5 DEF PlayReel
    <2>2. QED
        BY <1>1, <1>4, <2>1, SeekKeeps DEF PlayReel
<1>6. CASE ~(cursor >= Len(FramesOf(loaded)))
    <2>1. store' = s /\ UNCHANGED <<cursor, elapsed>>
        BY <1>2, <1>6 DEF PlayReel
    <2>2. Shaped(s) /\ \A k \in DOMAIN InitialStore \ {"playing"} : s[k] = store[k]
        BY <1>2, <1>3, ShapeOfStore DEF Plain, Shaped
    <2>3. QED
        BY <1>1, <1>3, <2>1, <2>2, RetouchKeeps DEF PlayReel, Shaped, Plain, PlayerInv, PlayerTypes
<1>7. QED
    BY <1>5, <1>6

LEMMA PauseKeeps ==
    ASSUME PlayerInv, PauseReel
    PROVE  PlayerInv'
<1>1. Shaped(store)
    BY DEF PlayerInv, PlayerTypes
<1>2. Shaped(store') /\ \A k \in DOMAIN InitialStore \ {"playing"} : store'[k] = store[k]
    BY <1>1, ShapeOfStore DEF PauseReel, Shaped
<1>3. QED
    BY <1>1, <1>2, RetouchKeeps DEF PauseReel, Shaped, PlayerInv, PlayerTypes

LEMMA OffsetsAre ==
    ASSUME PlayerInv
    PROVE  \A sec : IF loaded = None THEN OffsetOf(loaded, sec) = 0 ELSE OffsetOf(loaded, sec) \in Nat
    BY NothingLoaded, TimesAre DEF PlayerInv, PlaceInv

LEMMA RewindKeeps ==
    ASSUME PlayerInv, RewindReel
    PROVE  PlayerInv'
<1>1. PICK s : s = [store EXCEPT !.playing = FALSE]
    OBVIOUS
<1>2. Plain(s, store.reel)
    BY <1>1, ShapeOfStore DEF PlayerInv, PlayerTypes, Plain, Shaped
<1>3. PICK ms : ms = OffsetOf(loaded, 0)
    OBVIOUS
<1>4. SeekReel(s, loaded, ms)
    BY <1>1, <1>3 DEF RewindReel
<1>5. QED
    BY <1>2, <1>3, <1>4, OffsetsAre, SeekKeeps DEF RewindReel

LEMMA FrameKeeps ==
    ASSUME PlayerInv, AnimationFrame
    PROVE  PlayerInv'
<1>1. Plain(store, store.reel)
    BY DEF PlayerInv, PlayerTypes, Plain
<1>2. CASE store.reel # None
    <2>1. PICK ms : ms = OffsetOf(loaded, pendingSeek)
        OBVIOUS
    <2>2. SeekReel(store, loaded, ms)
        BY <1>2, <2>1 DEF AnimationFrame
    <2>3. QED
        BY <1>1, <2>1, <2>2, OffsetsAre, SeekKeeps DEF AnimationFrame, PlayerInv, PlayerTypes, PlaceInv
<1>3. CASE store.reel = None
    BY <1>3, RetouchKeeps DEF AnimationFrame, PlayerInv, PlayerTypes, PlaceInv
<1>4. QED
    BY <1>2, <1>3

LEMMA InspectKeeps ==
    ASSUME PlayerInv, NEW p, InspectPeer(p)
    PROVE  PlayerInv'
<1>1. Shaped(store)
    BY DEF PlayerInv, PlayerTypes
<1>2. PICK h : store' = [store EXCEPT !.selectedPeer = p, !.scoreHistory = h]
    BY DEF InspectPeer, SelectPeer
<1>3. /\ DOMAIN store' = DOMAIN store
      /\ \A k \in DOMAIN InitialStore \ {"selectedPeer", "scoreHistory"} : store'[k] = store[k]
    BY <1>1, <1>2, ShapeOfStore DEF Shaped
<1>4. QED
    BY <1>3, RetouchKeeps DEF InspectPeer, playerVars, PlayerInv, PlayerTypes, PlaceInv

LEMMA OthersKeep ==
    ASSUME PlayerInv, (\E v \in Speeds : SetSpeed(v)) \/ (\E sec \in SimTimes : SeekTo(sec)) \/ UNCHANGED vars
    PROVE  PlayerInv'
<1>1. UNCHANGED <<store, loads, loadGen, mounted, loaded, cursor, elapsed, playing>> /\ speed' \in Nat
    BY ReelAssumption DEF SetSpeed, SeekTo, vars, playerVars, PlayerInv, PlayerTypes
<1>2. QED
    BY <1>1, RetouchKeeps DEF PlayerInv, PlayerTypes, PlaceInv

\* The timer: what it plays is what has become due.
LEMMA ClockIs ==
    ASSUME PlayerInv, NEW dt \in Nat, Clock(dt)
    PROVE  /\ loaded # None /\ playing /\ UNCHANGED <<loaded, speed>>
           /\ cursor' \in cursor..Length(loaded) /\ elapsed' \in Nat
           /\ playing' = (cursor' < Length(loaded))
           /\ \A i \in 1..Length(loaded) : i <= cursor' <=> FramesOf(loaded)[i].t <= elapsed'
<1>1. loaded \in ReelNames /\ loaded # None /\ playing /\ UNCHANGED <<loaded, speed>>
    BY DEF Clock, PlayerInv, PlaceInv
<1>2. /\ elapsed \in Nat /\ speed \in Nat /\ cursor \in 0..Length(loaded) /\ Length(loaded) \in Nat
      /\ \A i \in 1..Length(loaded) : FramesOf(loaded)[i].t \in Nat
      /\ \A i \in 1..Length(loaded) : i <= cursor <=> FramesOf(loaded)[i].t <= elapsed
    BY <1>1, FramesAre DEF PlayerInv, PlayerTypes, PlaceInv, CursorAtClock
<1>3. PICK now : now = elapsed + dt * speed
    OBVIOUS
<1>4. dt * speed \in Nat
    BY <1>2
<1>5. now \in Nat /\ now >= elapsed
    BY <1>2, <1>3, <1>4
<1>6. PICK due : due = DueBy(loaded, now)
    OBVIOUS
<1>7. due \in 0..Length(loaded) /\ \A i \in 1..Length(loaded) : i <= due <=> FramesOf(loaded)[i].t <= now
    BY <1>1, <1>5, <1>6, DueIs
<1>8. due >= cursor
    <2>1. CASE cursor = 0
        BY <1>7, <2>1
    <2>2. CASE cursor # 0
        <3>1. cursor \in 1..Length(loaded) /\ FramesOf(loaded)[cursor].t <= elapsed
            BY <1>2, <2>2
        <3>2. FramesOf(loaded)[cursor].t <= now
            BY <1>2, <1>5, <3>1
        <3>3. QED
            BY <1>2, <1>7, <3>1, <3>2
    <2>3. QED
        BY <2>1, <2>2
<1>9. PICK upTo : upTo = (IF due > cursor THEN due ELSE cursor)
    OBVIOUS
<1>10. upTo = due
    BY <1>2, <1>7, <1>8, <1>9
<1>11. /\ cursor' = due /\ playing' = ~(due >= Length(loaded))
       /\ elapsed' = IF due >= Length(loaded) THEN Duration(loaded) ELSE now
    BY <1>3, <1>6, <1>9, <1>10, Zenon DEF Clock, Length
<1>12. CASE due >= Length(loaded)
    <2>1. due = Length(loaded) /\ elapsed' = Duration(loaded)
        BY <1>2, <1>7, <1>11, <1>12
    <2>2. QED
        BY <1>1, <1>2, <1>7, <1>8, <1>11, <2>1, TimesAre
<1>13. CASE ~(due >= Length(loaded))
    BY <1>1, <1>2, <1>5, <1>7, <1>8, <1>11, <1>13
<1>14. QED
    BY <1>12, <1>13

LEMMA StepKeeps ==
    ASSUME PlayerInv, NEW dt \in Nat, Step(dt)
    PROVE  PlayerInv'
<1>1. /\ loaded # None /\ playing /\ UNCHANGED <<loaded, speed>>
      /\ cursor' \in cursor..Length(loaded) /\ elapsed' \in Nat
      /\ playing' = (cursor' < Length(loaded))
      /\ \A i \in 1..Length(loaded) : i <= cursor' <=> FramesOf(loaded)[i].t <= elapsed'
    BY ClockIs DEF Step
<1>2. loaded \in ReelNames /\ cursor \in 0..Length(loaded) /\ IsAt(store, loaded, cursor) /\ Length(loaded) \in Nat
    BY <1>1, FramesAre DEF PlayerInv, PlaceInv
<1>3. PICK after : after = Played(store, loaded, cursor, cursor')
    OBVIOUS
<1>4. IsAt(after, loaded, cursor')
    BY <1>1, <1>2, <1>3, GoesOn
<1>5. store' = after \/ store' = [after EXCEPT !.playing = FALSE]
    BY <1>3, Zenon DEF Step
<1>6. Shaped(after)
    BY <1>4 DEF IsAt, Plain
<1>7. IsAt([after EXCEPT !.playing = FALSE], loaded, cursor')
    <2>1. PICK x : x = [after EXCEPT !.playing = FALSE]
        OBVIOUS
    <2>2. Shaped(x) /\ \A k \in DOMAIN InitialStore \ {"playing"} : x[k] = after[k]
        BY <1>6, <2>1, ShapeOfStore DEF Shaped
    <2>3. IsAt(x, loaded, cursor')
        BY <1>4, <1>6, <2>2, StaysAt DEF Shaped
    <2>4. QED
        BY <2>1, <2>3
<1>8. IsAt(store', loaded, cursor')
    BY <1>4, <1>5, <1>7
<1>9. Plain(store', store.reel)
    BY <1>2, <1>8 DEF IsAt, Plain
<1>10. CursorAtClock'
    BY <1>1, <1>2, FramesAre DEF CursorAtClock
<1>11. cursor' \in 0..Length(loaded)
    BY <1>1, <1>2
<1>12. PlaceInv'
    BY <1>1, <1>8, <1>10, <1>11 DEF PlayerInv, PlaceInv, Step
<1>13. QED
    BY <1>1, <1>9, <1>12, PlayerKeeps DEF Step, PlayerInv, PlayerTypes

\* When the reel is let go, nobody who is still loading will bring it back.
LEMMA LeavingKeeps ==
    ASSUME PlayerInv, UnloadReel, NEW ls, ls \subseteq loads, loads' = Aborted(ls),
           Shaped(store'), store'.layoutMode = "force", UNCHANGED <<speed, loadGen>>, mounted' \in BOOLEAN
    PROVE  PlayerInv'
<1>1. PlayerTypes
    BY DEF PlayerInv
<1>2. /\ Aborted(ls) \in SUBSET Load
      /\ \A l \in Aborted(ls) : l.aborted /\ l.gen <= loadGen /\ l.got <= Length(l.reel)
      /\ \A l, m \in Aborted(ls) : l.gen = m.gen => l = m
    BY <1>1, AbortedAre
<1>3. PlayerTypes'
    BY <1>1, <1>2 DEF PlayerTypes, UnloadReel
<1>4. LoadsInv'
    BY <1>2 DEF LoadsInv, Stale
<1>5. PlaceInv'
    BY DEF PlaceInv, UnloadReel
<1>6. QED
    BY <1>3, <1>4, <1>5 DEF PlayerInv

LEMMA LeftPlain ==
    ASSUME NEW s, Shaped(s), s.layoutMode = "force"
    PROVE  /\ Shaped(Unloaded(s)) /\ Unloaded(s).layoutMode = "force"
           /\ Shaped(ExitTo(s)) /\ ExitTo(s).layoutMode = "force"
<1>1. PICK u : u = Unloaded(s)
    OBVIOUS
<1>2. Shaped(u) /\ u.layoutMode = "force"
    BY <1>1, ShapeOfStore DEF Unloaded, Shaped
<1>3. PICK x : x = [u EXCEPT !.reel = None, !.mainnet = FALSE]
    OBVIOUS
<1>4. Shaped(x) /\ x.layoutMode = "force"
    BY <1>2, <1>3, ShapeOfStore DEF Shaped
<1>5. x = ExitTo(s)
    BY <1>1, <1>3, Zenon DEF ExitTo
<1>6. QED
    BY <1>1, <1>2, <1>4, <1>5, Zenon

LEMMA FailKeeps ==
    ASSUME PlayerInv, NEW l \in loads, FailLoad(l)
    PROVE  PlayerInv'
<1>1. PICK bar : store' = ExitTo([store EXCEPT !.reelLoad = bar])
    BY DEF FailLoad
<1>2. PICK s : s = [store EXCEPT !.reelLoad = bar]
    OBVIOUS
<1>3. Shaped(s) /\ s.layoutMode = "force"
    BY <1>2, ShapeOfStore DEF PlayerInv, PlayerTypes, Shaped
<1>4. store' = ExitTo(s)
    BY <1>1, <1>2, Zenon
<1>5. Shaped(store') /\ store'.layoutMode = "force"
    BY <1>3, <1>4, LeftPlain
<1>6. loads \ {l} \subseteq loads /\ mounted' \in BOOLEAN
    BY DEF FailLoad, PlayerInv, PlayerTypes
<1>7. QED
    BY <1>5, <1>6, LeavingKeeps DEF FailLoad

LEMMA ExitKeeps ==
    ASSUME PlayerInv, ExitReel
    PROVE  PlayerInv'
<1>1. Shaped(store') /\ store'.layoutMode = "force"
    BY LeftPlain DEF ExitReel, PlayerInv, PlayerTypes
<1>2. QED
    BY <1>1, LeavingKeeps DEF ExitReel, PlayerInv, PlayerTypes

LEMMA TeardownKeeps ==
    ASSUME PlayerInv, TeardownSim
    PROVE  PlayerInv'
<1>1. PICK u : u = Unloaded(store)
    OBVIOUS
<1>2. Shaped(u) /\ u.layoutMode = "force"
    BY <1>1, LeftPlain DEF PlayerInv, PlayerTypes
<1>3. store' = [u EXCEPT !.reel = None, !.reelLoad = None]
    BY <1>1 DEF TeardownSim
<1>4. Shaped(store') /\ store'.layoutMode = "force"
    BY <1>2, <1>3, ShapeOfStore DEF Shaped
<1>5. QED
    BY <1>4, LeavingKeeps DEF TeardownSim

LEMMA EnterKeeps ==
    ASSUME PlayerInv, NEW r \in ReelNames, EnterReel(r)
    PROVE  PlayerInv'
<1>1. PICK s : s = SetConnected(store, FALSE)
    OBVIOUS
<1>2. Shaped(s) /\ s.layoutMode = "force"
    BY <1>1, ShapeOfStore DEF SetConnected, PlayerInv, PlayerTypes, Shaped
<1>3. store' = [Unloaded(s) EXCEPT !.reel = r, !.mainnet = FALSE]
    BY <1>1, Zenon DEF EnterReel
<1>4. Shaped(store') /\ store'.layoutMode = "force" /\ store'.reel = r
    <2>1. PICK u : u = Unloaded(s)
        OBVIOUS
    <2>2. Shaped(u) /\ u.layoutMode = "force"
        BY <1>2, <2>1, LeftPlain
    <2>3. store' = [u EXCEPT !.reel = r, !.mainnet = FALSE]
        BY <1>3, <2>1
    <2>4. QED
        BY <2>2, <2>3, ShapeOfStore DEF Shaped
<1>5. PICK new : new = [gen |-> loadGen + 1, reel |-> r, answered |-> FALSE, got |-> 0,
                        primed |-> FALSE, aborted |-> FALSE]
    OBVIOUS
<1>6. PlayerTypes /\ loadGen \in Nat
    BY DEF PlayerInv, PlayerTypes
<1>7. /\ new \in Load /\ new.gen = loadGen + 1 /\ new.reel = r /\ new.got <= Length(new.reel)
    BY <1>5, <1>6, FramesAre DEF Load
<1>8. /\ Aborted(loads) \in SUBSET Load
      /\ \A l \in Aborted(loads) : l.aborted /\ l.gen <= loadGen /\ l.got <= Length(l.reel)
      /\ \A l, m \in Aborted(loads) : l.gen = m.gen => l = m
    BY <1>6, AbortedAre
<1>9. loads' = Aborted(loads) \union {new} /\ loadGen' = loadGen + 1
    BY <1>5 DEF EnterReel
<1>10. \A l \in Aborted(loads) : l.gen \in Nat
    BY <1>8 DEF Load
<1>11. \A l \in loads' : l.gen <= loadGen' /\ l.got <= Length(l.reel)
    BY <1>6, <1>7, <1>8, <1>9, <1>10
<1>12. \A l, m \in loads' : l.gen = m.gen => l = m
    BY <1>6, <1>7, <1>8, <1>9, <1>10
<1>13. PlayerTypes'
    <2>1. loads' \in SUBSET Load /\ loadGen' \in Nat
        BY <1>6, <1>7, <1>8, <1>9
    <2>2. mounted' = TRUE /\ playing' = FALSE /\ speed' = speed
        BY DEF EnterReel, UnloadReel
    <2>3. speed' \in Nat
        BY <1>6, <2>2 DEF PlayerTypes
    <2>4. QED
        BY <1>4, <1>11, <1>12, <2>1, <2>2, <2>3 DEF PlayerTypes
<1>14. LoadsInv'
    BY <1>4, <1>7, <1>8, <1>9 DEF LoadsInv, Stale, EnterReel, UnloadReel
<1>15. PlaceInv'
    BY DEF PlaceInv, EnterReel, UnloadReel
<1>16. QED
    BY <1>13, <1>14, <1>15 DEF PlayerInv

LEMMA DropKeeps ==
    ASSUME PlayerInv, NEW l \in loads, DropStale(l)
    PROVE  PlayerInv'
<1>1. PlayerTypes'
    BY DEF DropStale, playerVars, PlayerInv, PlayerTypes
<1>2. LoadsInv'
    BY DEF DropStale, playerVars, PlayerInv, LoadsInv, Stale
<1>3. PlaceInv'
    BY DEF DropStale, playerVars, PlayerInv, PlaceInv, CursorAtClock
<1>4. QED
    BY <1>1, <1>2, <1>3 DEF PlayerInv

LEMMA ChunkKeeps ==
    ASSUME PlayerInv, NEW l \in loads, NEW n, TakeChunk(l, n)
    PROVE  PlayerInv'
<1>1. /\ l \in Load /\ ~Stale(l) /\ mounted /\ store.reel = l.reel /\ loaded = None
      /\ l.reel \in ReelNames /\ l.got \in Nat
    BY DEF TakeChunk, PlayerInv, PlayerTypes, LoadsInv, Load
<1>2. n \in Nat /\ n <= Length(l.reel) /\ n \in 0..Length(l.reel)
    BY <1>1, FramesAre DEF TakeChunk, Length
<1>3. PICK primes \in BOOLEAN : primes = (~l.primed /\ HasSnapshot(l.reel, n))
    OBVIOUS
<1>4. PICK shown : shown = IF primes THEN DispatchAll(store, PrimedBy(l.reel, n)) ELSE store
    OBVIOUS
<1>5. Plain(store, l.reel)
    BY <1>1 DEF PlayerInv, PlayerTypes, Plain
<1>6. Plain(shown, l.reel)
    BY <1>1, <1>2, <1>3, <1>4, <1>5, PrimedPlain
<1>7. \E drawn : store' = [shown EXCEPT !.reelLoad = drawn]
    BY <1>3, <1>4, Zenon DEF TakeChunk
<1>8. Plain(store', l.reel)
    BY <1>6, <1>7, ShapeOfStore DEF Plain, Shaped
<1>9. PICK m : m = [l EXCEPT !.answered = TRUE, !.got = n, !.primed = @ \/ primes]
    OBVIOUS
<1>10. loads' = (loads \ {l}) \union {m}
    BY <1>3, <1>9, Zenon DEF TakeChunk
<1>11. m \in Load /\ m.gen = l.gen /\ m.reel = l.reel /\ m.aborted = l.aborted /\ m.got = n
    BY <1>1, <1>2, <1>9 DEF Load
<1>12. UNCHANGED <<loadGen, mounted, loaded, cursor, elapsed, playing, speed>>
    BY DEF TakeChunk, playerVars
<1>13. \A x \in loads' : x \in Load /\ x.gen <= loadGen' /\ x.got <= Length(x.reel)
    BY <1>2, <1>10, <1>11, <1>12 DEF PlayerInv, PlayerTypes
<1>14. \A x, y \in loads' : x.gen = y.gen => x = y
    BY <1>10, <1>11 DEF PlayerInv, PlayerTypes
<1>15. PlayerTypes'
    BY <1>8, <1>12, <1>13, <1>14 DEF PlayerInv, PlayerTypes, Plain
<1>16. LoadsInv'
    BY <1>1, <1>8, <1>10, <1>11, <1>12 DEF PlayerInv, LoadsInv, Stale, Plain
<1>17. PlaceInv'
    BY <1>1, <1>12 DEF PlayerInv, PlaceInv
<1>18. QED
    BY <1>15, <1>16, <1>17 DEF PlayerInv

LEMMA LandKeeps ==
    ASSUME PlayerInv, NEW l \in loads, LandReel(l)
    PROVE  PlayerInv' /\ ~playing' /\ loaded' = l.reel /\ l.reel \in ReelNames
<1>1. /\ l \in Load /\ ~Stale(l) /\ mounted /\ store.reel = l.reel /\ loaded = None /\ ~playing
      /\ l.reel \in ReelNames /\ l.reel # None
    BY FramesAre DEF LandReel, PlayerInv, PlayerTypes, LoadsInv, PlaceInv, Load
<1>2. UNCHANGED <<loadGen, mounted, playing, speed>> /\ loaded' = l.reel /\ loads' = loads \ {l}
    BY DEF LandReel
<1>3. Length(l.reel) # 0
    BY DEF LandReel, Length
<1>4. PICK x : x = ResetRun(store)
    OBVIOUS
<1>5. Plain(x, l.reel)
    BY <1>1, <1>4, ResetIsPlain DEF PlayerInv, PlayerTypes, Plain
<1>6. PICK first : first = Rebuilt(x, l.reel, FirstSnapshot(l.reel))
    OBVIOUS
<1>7. Plain(first, l.reel)
    BY <1>1, <1>5, <1>6, TimesAre, RebuiltIs DEF IsAt
<1>8. PICK s : s = [first EXCEPT !.playing = FALSE, !.reelLoad = None]
    OBVIOUS
<1>9. Plain(s, l.reel)
    BY <1>7, <1>8, ShapeOfStore DEF Plain, Shaped
<1>10. PICK at \in {FirstSnapshot(l.reel), Duration(l.reel)} \union {FramesOf(l.reel)[i].t : i \in Snapshots(l.reel)} :
         SeekReel(s, l.reel, at)
    BY <1>4, <1>6, <1>8, Zenon DEF LandReel
<1>11. at \in Nat
    BY <1>1, <1>10, TimesAre
<1>12. /\ Plain(store', l.reel) /\ elapsed' \in Nat /\ cursor' \in 0..Length(l.reel) /\ IsAt(store', l.reel, cursor')
       /\ \A i \in 1..Length(l.reel) : i <= cursor' <=> FramesOf(l.reel)[i].t <= elapsed'
    BY <1>1, <1>9, <1>10, <1>11, SeekIs
<1>13. PlayerTypes'
    BY <1>2, <1>12 DEF PlayerInv, PlayerTypes, Plain
<1>14. LoadsInv'
    BY <1>1, <1>2 DEF PlayerInv, PlayerTypes, LoadsInv, Stale
<1>15. CursorAtClock'
    BY <1>1, <1>2, <1>12, FramesAre DEF CursorAtClock
<1>16. PlaceInv'
    BY <1>1, <1>2, <1>3, <1>12, <1>15 DEF PlaceInv
<1>17. QED
    BY <1>1, <1>2, <1>13, <1>14, <1>16 DEF PlayerInv

LEMMA PlayerStep == PlayerInv /\ [Next]_vars => PlayerInv'
<1> SUFFICES ASSUME PlayerInv, [Next]_vars PROVE PlayerInv'
    OBVIOUS
<1>1. CASE User
    BY <1>1, PlayKeeps, PauseKeeps, RewindKeeps, ExitKeeps, InspectKeeps, OthersKeep DEF User
<1>2. CASE Loading
    BY <1>2, EnterKeeps, ChunkKeeps, LandKeeps, FailKeeps, DropKeeps, TeardownKeeps DEF Loading
<1>3. CASE AnimationFrame
    BY <1>3, FrameKeeps
<1>4. CASE \E dt \in 1..MaxTick : Step(dt)
    BY <1>4, StepKeeps, ReelAssumption
<1>5. CASE UNCHANGED vars
    BY <1>5, OthersKeep
<1>6. QED
    BY <1>1, <1>2, <1>3, <1>4, <1>5 DEF Next

\* In every state of a player, what it holds is what was entered, and the store is where the cursor is.
THEOREM PlayerStaysInPlace == Spec => []PlayerInv
<1>1. QED
    BY PlayerInit, PlayerStep, PTL DEF Spec

----------------------------------------------------------------------------
(* What follows for those who look.                                         *)

\* A reel is only in the player while its page is up, and it is the one that was entered last (replay.ts:88).
THEOREM EnteredIsLoaded == Spec => []LoadedIsEntered
<1>1. PlayerInv => LoadedIsEntered
    BY DEF PlayerInv, PlaceInv, IsAt, Plain, LoadedIsEntered
<1>2. QED
    BY <1>1, PlayerStaysInPlace, PTL

\* The scrubber's time is that of the frames that were played, and the marks it was given in advance are those that
\* the store has at the end of the reel, however the end was reached (replay.ts:34).
THEOREM ScrubberIsRight == Spec => []ScrubberTellsTruth
<1>1. ASSUME PlayerInv PROVE ScrubberTellsTruth
    <2>1. CursorAtClock
        BY <1>1, FramesAre DEF PlayerInv, PlaceInv, CursorAtClock
    <2>2. ScrubberIsPlayThrough
        <3> SUFFICES ASSUME loaded # None, cursor = Length(loaded)
                     PROVE  store.beats = ScanReel(loaded).beats /\ store.activeScenario = ScanReel(loaded).scenario
            BY DEF ScrubberIsPlayThrough, Length
        <3>1. loaded \in ReelNames /\ Length(loaded) # 0 /\ IsAt(store, loaded, Length(loaded))
            BY <1>1 DEF PlayerInv, PlaceInv
        <3>2. QED
            BY <3>1, ScanIsPlayThrough
    <2>3. QED
        BY <2>1, <2>2 DEF ScrubberTellsTruth
<1>2. QED
    BY <1>1, PlayerStaysInPlace, PTL

----------------------------------------------------------------------------
(* The player implements ReelView.                                          *)

\* The moves of the abstract player, without what is shown.
Moves ==
    \/ Promised!Load \/ Promised!Unload \/ Promised!Seek \/ Promised!Play \/ Promised!Pause \/ Promised!Advance
    \/ UNCHANGED <<loaded, cursor, playing>>

\* Another cursor in the same reel.
LEMMA SomewhereIs ==
    ASSUME PlayerInv, PlayerInv', loaded # None, UNCHANGED loaded
    PROVE  Promised!Somewhere(loaded)
    BY FramesAre DEF PlayerInv, PlaceInv, Promised!Somewhere, Length

\* A seek is a seek of the abstract player if there is a reel, and nothing otherwise.
LEMMA SoughtMoves ==
    ASSUME PlayerInv, PlayerInv', UNCHANGED loaded, playing' \in {playing, FALSE}
    PROVE  Moves
<1>1. CASE loaded = None
    <2>1. cursor = 0 /\ cursor' = 0
        BY <1>1 DEF PlayerInv, PlaceInv
    <2>2. playing = FALSE /\ playing' = FALSE
        BY <1>1 DEF PlayerInv, PlayerTypes, PlaceInv
    <2>3. QED
        BY <2>1, <2>2 DEF Moves
<1>2. CASE loaded # None
    BY <1>2, SomewhereIs DEF Moves, Promised!Seek
<1>3. QED
    BY <1>1, <1>2

LEMMA UserMoves ==
    ASSUME PlayerInv, PlayerInv', User
    PROVE  Moves
<1>1. CASE PlayReel
    <2>1. loaded # None /\ ~playing /\ playing' = TRUE /\ UNCHANGED loaded
        BY <1>1 DEF PlayReel, FramesOf
    <2>2. loaded \in ReelNames /\ cursor \in 0..Length(loaded) /\ Length(loaded) \in Nat
        BY <2>1, FramesAre DEF PlayerInv, PlaceInv
    <2>3. CASE cursor >= Length(loaded)
        <3>1. cursor = [r \in ReelNames |-> Len(Recordings[r])][loaded]
            BY <2>2, <2>3, FramesAre DEF Length
        <3>2. QED
            BY <2>1, <3>1, SomewhereIs DEF Moves, Promised!Play
    <2>4. CASE ~(cursor >= Length(loaded))
        BY <1>1, <2>1, <2>4 DEF PlayReel, Length, Moves, Promised!Play, Promised!Stay
    <2>5. QED
        BY <2>3, <2>4
<1>2. CASE PauseReel
    BY <1>2 DEF PauseReel, Moves, Promised!Pause, Promised!Stay
<1>3. CASE RewindReel
    BY <1>3, SoughtMoves DEF RewindReel
<1>4. CASE ExitReel
    BY <1>4 DEF ExitReel, UnloadReel, Moves, Promised!Unload
<1>5. CASE \E v \in Speeds : SetSpeed(v)
    BY <1>5 DEF SetSpeed, Moves
<1>6. CASE \E p \in DOMAIN store.nodes \union {None} : InspectPeer(p)
    BY <1>6 DEF InspectPeer, playerVars, Moves
<1>7. CASE \E sec \in SimTimes : SeekTo(sec)
    BY <1>7 DEF SeekTo, playerVars, Moves
<1>8. QED
    BY <1>1, <1>2, <1>3, <1>4, <1>5, <1>6, <1>7 DEF User

LEMMA LoadingMoves ==
    ASSUME PlayerInv, PlayerInv', Loading
    PROVE  Moves
<1>1. CASE \E r \in ReelNames : EnterReel(r)
    BY <1>1 DEF EnterReel, UnloadReel, Moves, Promised!Unload
<1>2. ASSUME NEW l \in loads, NEW n, TakeChunk(l, n) PROVE Moves
    BY <1>2 DEF TakeChunk, playerVars, Moves
<1>3. ASSUME NEW l \in loads, LandReel(l) PROVE Moves
    <2>1. ~playing' /\ loaded' = l.reel /\ l.reel \in ReelNames /\ l.reel # None
        BY <1>3, LandKeeps, FramesAre
    <2>2. cursor' \in 0..Length(l.reel) /\ playing' = FALSE
        BY <2>1 DEF PlayerInv, PlayerTypes, PlaceInv
    <2>3. Promised!Somewhere(l.reel)
        BY <2>1, <2>2, FramesAre DEF Promised!Somewhere, Length
    <2>4. QED
        BY <2>1, <2>2, <2>3 DEF Moves, Promised!Load
<1>4. ASSUME NEW l \in loads, FailLoad(l) PROVE Moves
    BY <1>4 DEF FailLoad, UnloadReel, Moves, Promised!Unload
<1>5. ASSUME NEW l \in loads, DropStale(l) PROVE Moves
    BY <1>5 DEF DropStale, playerVars, Moves
<1>6. CASE TeardownSim
    BY <1>6 DEF TeardownSim, UnloadReel, Moves, Promised!Unload
<1>7. QED
    BY <1>1, <1>2, <1>3, <1>4, <1>5, <1>6 DEF Loading

LEMMA StepMoves ==
    ASSUME PlayerInv, PlayerInv', NEW dt \in Nat, Step(dt)
    PROVE  Moves
<1>1. /\ loaded # None /\ playing /\ UNCHANGED loaded
      /\ cursor' \in cursor..Length(loaded) /\ playing' = (cursor' < Length(loaded))
    BY ClockIs DEF Step
<1>2. loaded \in ReelNames /\ cursor \in 0..Length(loaded) /\ Length(loaded) \in Nat
    BY <1>1, FramesAre DEF PlayerInv, PlaceInv
<1>3. [r \in ReelNames |-> Len(Recordings[r])][loaded] = Length(loaded) /\ cursor' >= cursor
    BY <1>1, <1>2, FramesAre DEF Length
<1>4. Promised!Advance
    BY <1>1, <1>3, SomewhereIs DEF Promised!Advance
<1>5. QED
    BY <1>4 DEF Moves

LEMMA PlayerMoves ==
    ASSUME PlayerInv, PlayerInv', [Next]_vars
    PROVE  Moves
<1>1. CASE AnimationFrame
    BY <1>1, SoughtMoves DEF AnimationFrame
<1>2. CASE \E dt \in 1..MaxTick : Step(dt)
    BY <1>2, StepMoves, ReelAssumption
<1>3. CASE UNCHANGED vars
    BY <1>3 DEF vars, playerVars, Moves
<1>4. QED
    BY <1>1, <1>2, <1>3, UserMoves, LoadingMoves DEF Next

\* What is shown, by what the store holds and by the recording.
Showing == IF loaded = None THEN None ELSE ShownOf(store, loaded, cursor)
ByTheReel == IF loaded = None THEN None ELSE ViewOf[loaded][cursor]

\* Whatever was played, sought, inspected, entered and left before, the page shows the recording up to the cursor.
THEOREM PlayerImplementsView == Spec => ShowsThePosition
<1>1. Init => Promised!Init
    BY DEF Init, Promised!Init
<1>2. PlayerInv => Showing = ByTheReel
    BY ShownIs DEF PlayerInv, PlaceInv, Showing, ByTheReel
<1>3. PlayerInv /\ PlayerInv' /\ [Next]_vars /\ Showing = ByTheReel /\ (Showing = ByTheReel)'
        => [Promised!Next]_(Promised!viewVars)
    <2> SUFFICES ASSUME PlayerInv, PlayerInv', [Next]_vars, Showing = ByTheReel, Showing' = ByTheReel'
                 PROVE  [Promised!Next]_(Promised!viewVars)
        OBVIOUS
    <2>1. Moves
        BY PlayerMoves
    <2>2. CASE UNCHANGED <<loaded, cursor, playing>>
        <3>1. ByTheReel' = ByTheReel
            BY <2>2 DEF ByTheReel
        <3>2. Showing' = Showing
            BY <3>1
        <3>3. QED
            BY <2>2, <3>2 DEF Promised!viewVars, Showing
    <2>3. CASE \/ Promised!Load \/ Promised!Unload \/ Promised!Seek \/ Promised!Play
               \/ Promised!Pause \/ Promised!Advance
        <3>1. Showing' = IF loaded' = None THEN None ELSE ViewOf[loaded'][cursor']
            BY DEF ByTheReel
        <3>2. QED
            BY <2>3, <3>1 DEF Promised!Next, Showing
    <2>4. QED
        BY <2>1, <2>2, <2>3 DEF Moves
<1>4. QED
    BY <1>1, <1>2, <1>3, PlayerStaysInPlace, PTL DEF Spec, ShowsThePosition, Promised!Spec

=============================================================================
