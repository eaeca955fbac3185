---------------------------- MODULE LiveLinkProofs ----------------------------
(***************************************************************************)
(* Proofs about the websocket of the live simulator (LiveLink).            *)
(***************************************************************************)
EXTENDS LiveLink, TLAPS, FiniteSetTheorems, SequenceTheorems, WellFoundedInduction

----------------------------------------------------------------------------
(* Frames that follow one another, and the count they lead to.              *)

Events == {Injected, Cleared}
Frames == {ScenarioFrame, Injected, Cleared}

\* The count after a frame, when it was x.
After(f, x) == IF f = Injected THEN x + 1 ELSE 0

\* q brings the count from x to y: what came before the last frame that forgets the faults is nothing to it.
Leads(q, x, y) ==
    \/ (\A i \in 1..Len(q) : q[i] = Injected) /\ y = x + Len(q)
    \/ \E k \in 1..Len(q) : /\ q[k] # Injected
                            /\ \A i \in (k + 1)..Len(q) : q[i] = Injected
                            /\ y = Len(q) - k

LEMMA FramesDiffer ==
    /\ Injected # Cleared /\ ScenarioFrame \notin Events
    /\ ScenarioFrame.type = "scenario" /\ Injected.type = "event" /\ Cleared.type = "event"
<1>1. Injected.kind # Cleared.kind
    BY DEF Injected, Cleared, FaultEvent
<1>2. ScenarioFrame.type = "scenario" /\ Injected.type = "event" /\ Cleared.type = "event"
    BY DEF Injected, Cleared, FaultEvent, ScenarioFrame
<1>3. QED
    BY <1>1, <1>2 DEF Events

LEMMA LeadsNowhere ==
    ASSUME NEW x \in Int, NEW y
    PROVE  Leads(<<>>, x, y) <=> y = x
BY DEF Leads

LEMMA LeadsOnce ==
    ASSUME NEW q \in Seq(Frames), NEW x \in Nat, NEW y, NEW z, Leads(q, x, y), Leads(q, x, z)
    PROVE  y = z /\ y \in Nat
<1>1. Len(q) \in Nat
    OBVIOUS
<1>2. CASE \A i \in 1..Len(q) : q[i] = Injected
    BY <1>1, <1>2 DEF Leads
<1>3. CASE \E i \in 1..Len(q) : q[i] # Injected
    <2>1. PICK k \in 1..Len(q) : q[k] # Injected /\ (\A i \in (k + 1)..Len(q) : q[i] = Injected) /\ y = Len(q) - k
        BY <1>3 DEF Leads
    <2>2. PICK l \in 1..Len(q) : q[l] # Injected /\ (\A i \in (l + 1)..Len(q) : q[i] = Injected) /\ z = Len(q) - l
        BY <1>3 DEF Leads
    <2>3. k = l
        BY <1>1, <2>1, <2>2
    <2>4. QED
        BY <1>1, <2>1, <2>2, <2>3
<1>4. QED
    BY <1>2, <1>3

LEMMA LeadsOneMore ==
    ASSUME NEW q \in Seq(Frames), NEW f \in Frames, NEW x \in Nat, NEW y, Leads(q, x, y)
    PROVE  Leads(Append(q, f), x, After(f, y))
<1>1. PICK r : r = Append(q, f)
    OBVIOUS
<1>2. Len(q) \in Nat /\ Len(r) = Len(q) + 1 /\ r[Len(q) + 1] = f /\ \A i \in 1..Len(q) : r[i] = q[i]
    BY <1>1
<1>3. CASE f # Injected
    <2>1. Len(q) + 1 \in 1..Len(r) /\ \A i \in (Len(q) + 2)..Len(r) : r[i] = Injected
        BY <1>2
    <2>2. After(f, y) = Len(r) - (Len(q) + 1)
        BY <1>2, <1>3 DEF After
    <2>3. (Len(q) + 1) + 1 = Len(q) + 2
        BY <1>2
    <2>4. QED
        BY <1>1, <1>2, <1>3, <2>1, <2>2, <2>3 DEF Leads
<1>4. CASE f = Injected
    <2>1. CASE (\A i \in 1..Len(q) : q[i] = Injected) /\ y = x + Len(q)
        <3>1. \A i \in 1..Len(r) : r[i] = Injected
            BY <1>2, <1>4, <2>1
        <3>2. After(f, y) = x + Len(r)
            BY <1>2, <1>4, <2>1 DEF After
        <3>3. QED
            BY <1>1, <3>1, <3>2 DEF Leads
    <2>2. CASE \E k \in 1..Len(q) : q[k] # Injected /\ (\A i \in (k + 1)..Len(q) : q[i] = Injected) /\ y = Len(q) - k
        <3>1. PICK k \in 1..Len(q) : q[k] # Injected /\ (\A i \in (k + 1)..Len(q) : q[i] = Injected) /\ y = Len(q) - k
            BY <2>2
        <3>2. k \in 1..Len(r) /\ r[k] # Injected /\ \A i \in (k + 1)..Len(r) : r[i] = Injected
            BY <1>2, <1>4, <3>1
        <3>3. After(f, y) = Len(r) - k
            BY <1>2, <1>4, <3>1 DEF After
        <3>4. QED
            BY <1>1, <3>2, <3>3 DEF Leads
    <2>3. QED
        BY <2>1, <2>2 DEF Leads
<1>5. QED
    BY <1>3, <1>4

LEMMA LeadsOneLess ==
    ASSUME NEW q \in Seq(Frames), q # <<>>, NEW x \in Nat, NEW y, Leads(q, x, y)
    PROVE  Leads(Tail(q), After(Head(q), x), y)
<1>1. PICK r : r = Tail(q)
    OBVIOUS
<1>2. Len(q) \in Nat \ {0} /\ Len(r) = Len(q) - 1 /\ Head(q) = q[1] /\ \A i \in 1..Len(r) : r[i] = q[i + 1]
    BY <1>1
<1>3. CASE (\A i \in 1..Len(q) : q[i] = Injected) /\ y = x + Len(q)
    <2>1. \A i \in 1..Len(r) : r[i] = Injected
        BY <1>2, <1>3
    <2>2. After(Head(q), x) = x + 1
        BY <1>2, <1>3 DEF After
    <2>3. y = (x + 1) + Len(r)
        BY <1>2, <1>3
    <2>4. QED
        BY <1>1, <2>1, <2>2, <2>3 DEF Leads
<1>4. CASE \E k \in 1..Len(q) : q[k] # Injected /\ (\A i \in (k + 1)..Len(q) : q[i] = Injected) /\ y = Len(q) - k
    <2>1. PICK k \in 1..Len(q) : q[k] # Injected /\ (\A i \in (k + 1)..Len(q) : q[i] = Injected) /\ y = Len(q) - k
        BY <1>4
    <2>2. CASE k = 1
        <3>1. \A i \in 1..Len(r) : r[i] = Injected
            BY <1>2, <2>1, <2>2
        <3>2. After(Head(q), x) = 0 /\ y = 0 + Len(r)
            BY <1>2, <2>1, <2>2 DEF After
        <3>3. QED
            BY <1>1, <3>1, <3>2 DEF Leads
    <2>3. CASE k # 1
        <3>1. k - 1 \in 1..Len(r) /\ (k - 1) + 1 = k /\ y = Len(r) - (k - 1)
            BY <1>2, <2>1, <2>3
        <3>2. r[k - 1] # Injected
            BY <1>2, <2>1, <3>1
        <3>3. \A i \in ((k - 1) + 1)..Len(r) : r[i] = Injected
            BY <1>2, <2>1, <3>1
        <3>4. QED
            BY <1>1, <3>1, <3>2, <3>3 DEF Leads
    <2>4. QED
        BY <2>2, <2>3
<1>5. QED
    BY <1>3, <1>4 DEF Leads

\* A count is capped where none of the server's faults can lead to it.
Capped(x) == IF x <= MaxFaults + 1 THEN x ELSE MaxFaults + 1

LEMMA LeadsCapped ==
    ASSUME NEW q \in Seq(Frames), NEW x \in Nat, NEW y \in Nat, y <= MaxFaults, Leads(q, x, y)
    PROVE  Leads(q, Capped(x), y)
<1>1. Len(q) \in Nat /\ MaxFaults \in Nat
    BY LinkAssumption
<1>2. CASE (\A i \in 1..Len(q) : q[i] = Injected) /\ y = x + Len(q)
    <2>1. x <= MaxFaults + 1
        BY <1>1, <1>2
    <2>2. QED
        BY <2>1 DEF Capped
<1>3. CASE \E k \in 1..Len(q) : q[k] # Injected /\ (\A i \in (k + 1)..Len(q) : q[i] = Injected) /\ y = Len(q) - k
    BY <1>3 DEF Leads
<1>4. QED
    BY <1>2, <1>3 DEF Leads

LEMMA MinOfTwo ==
    ASSUME NEW a \in Nat
    PROVE  Min({a, MaxFaults + 1}) = Capped(a)
<1>1. MaxFaults + 1 \in Nat
    BY LinkAssumption
<1>2. PICK m : m = MaxFaults + 1
    OBVIOUS
<1>3. \E x \in {a, m} : \A y \in {a, m} : x <= y
    BY <1>1, <1>2
<1>4. Min({a, m}) \in {a, m} /\ \A y \in {a, m} : Min({a, m}) <= y
    BY <1>3, Zenon DEF Min
<1>5. PICK n : n = Min({a, m})
    OBVIOUS
<1>6. n \in {a, m} /\ n <= a /\ n <= m
    BY <1>4, <1>5
<1>7. QED
    BY <1>1, <1>2, <1>5, <1>6 DEF Capped

----------------------------------------------------------------------------
(* The store.  What the link reads of it are four of its fields.            *)

Shaped(s) == DOMAIN s = DOMAIN InitialStore

LEMMA ShapeOfStore ==
    {"connected", "connecting", "connectScenarioPending", "activeFaults", "reel", "events", "eventCount",
     "beats", "narrator", "caption", "phaseLabel", "invalidCount", "activeScenario", "maxDuration"}
      \subseteq DOMAIN InitialStore
BY DEF InitialStore

\* r shows of the link what s shows, with another count of faults.
SameButCount(r, s) ==
    /\ Shaped(r)
    /\ r.connected = s.connected
    /\ r.connectScenarioPending = s.connectScenarioPending

LEMMA EventShown ==
    ASSUME NEW s, Shaped(s), NEW e \in Events
    PROVE  /\ SameButCount(ApplyEvent(s, e), s)
           /\ ApplyEvent(s, e).activeFaults = After(e, s.activeFaults)
<1>1. PICK a : a = [s EXCEPT !.events = Newest(MAX_EVENTS, Append(@, e)), !.eventCount = @ + 1]
    OBVIOUS
<1>2. /\ SameButCount(a, s) /\ a.activeFaults = s.activeFaults
    BY <1>1, ShapeOfStore DEF Shaped, SameButCount
<1>3. ApplyEvent(s, e) = Effect(a, e)
    BY <1>1 DEF ApplyEvent
<1>4. CASE e = Injected
    <2>1. Effect(a, e) = FaultStarts(a, e)
        <3>1. e.kind = "FaultInjected"
            BY <1>4 DEF Injected, FaultEvent
        <3>2. QED
            BY <3>1 DEF Effect
    <2>2. PICK b : b = FaultStarts(a, e)
        OBVIOUS
    <2>3. SameButCount(b, a) /\ b.activeFaults = a.activeFaults + 1
        BY <1>2, <2>2, ShapeOfStore DEF FaultStarts, SameButCount, Shaped
    <2>4. QED
        BY <1>2, <1>3, <1>4, <2>1, <2>2, <2>3 DEF After, SameButCount
<1>5. CASE e = Cleared
    <2>1. Effect(a, e) = FaultEnds(a, e)
        <3>1. e.kind = "FaultCleared"
            BY <1>5 DEF Cleared, FaultEvent
        <3>2. QED
            BY <3>1 DEF Effect
    <2>2. PICK b : b = FaultEnds(a, e)
        OBVIOUS
    <2>3. SameButCount(b, a) /\ b.activeFaults = 0
        BY <1>2, <2>2, ShapeOfStore DEF FaultEnds, SameButCount, Shaped
    <2>4. QED
        BY <1>2, <1>3, <1>5, <2>1, <2>2, <2>3, FramesDiffer DEF After, SameButCount
<1>6. QED
    BY <1>4, <1>5 DEF Events

LEMMA ScenarioShown ==
    ASSUME NEW s, Shaped(s)
    PROVE  LET r == ApplyTyped(s, ScenarioFrame)
           IN  /\ Shaped(r) /\ r.connected = s.connected
               /\ r.connectScenarioPending = FALSE
               /\ r.activeFaults = IF s.connectScenarioPending THEN s.activeFaults ELSE 0
<1>1. PICK r : r = ApplyTyped(s, ScenarioFrame)
    OBVIOUS
<1>2. r = ApplyScenario(s, ScenarioFrame)
    BY <1>1, FramesDiffer DEF ApplyTyped
<1>3. PICK a : a = [ResetNarrator(s) EXCEPT
                !.activeScenario = IF ScenarioFrame.active THEN ScenarioFrame.name ELSE None,
                !.maxDuration = IF ScenarioFrame.active /\ ScenarioFrame.duration > 0 THEN ScenarioFrame.duration ELSE @]
    OBVIOUS
<1>4. SameButCount(a, s) /\ a.activeFaults = s.activeFaults
    BY <1>3, ShapeOfStore DEF ResetNarrator, SameButCount, Shaped
<1>5. r = IF s.connectScenarioPending
          THEN [a EXCEPT !.connectScenarioPending = FALSE]
          ELSE [a EXCEPT !.activeFaults = 0]
    BY <1>2, <1>3 DEF ApplyScenario
<1>6. CASE s.connectScenarioPending
    BY <1>1, <1>4, <1>5, <1>6, ShapeOfStore DEF SameButCount, Shaped
<1>7. CASE ~s.connectScenarioPending
    <2>1. r = [a EXCEPT !.activeFaults = 0]
        BY <1>5, <1>7
    <2>2. Shaped(r) /\ r.connected = s.connected /\ r.connectScenarioPending = s.connectScenarioPending
        BY <1>4, <2>1, ShapeOfStore DEF SameButCount, Shaped
    <2>3. r.activeFaults = 0
        BY <1>4, <2>1, ShapeOfStore DEF SameButCount, Shaped
    <2>4. QED
        BY <1>1, <1>7, <2>2, <2>3
<1>8. QED
    BY <1>6, <1>7

LEMMA ConnectedShown ==
    ASSUME NEW s, Shaped(s), NEW on \in BOOLEAN
    PROVE  LET r == SetConnected(s, on)
           IN  /\ Shaped(r)
               /\ r.connected = on
               /\ r.connectScenarioPending <=> s.connectScenarioPending \/ on
               /\ r.activeFaults = s.activeFaults
<1>1. PICK r : r = SetConnected(s, on)
    OBVIOUS
<1>2. Shaped(r) /\ r.connected = on /\ r.activeFaults = s.activeFaults
    BY <1>1, ShapeOfStore DEF SetConnected, Shaped
<1>3. r.connectScenarioPending <=> s.connectScenarioPending \/ on
    BY <1>1, ShapeOfStore DEF SetConnected, Shaped
<1>4. QED
    BY <1>1, <1>2, <1>3

----------------------------------------------------------------------------
(* A flush: the fold over the events that wait, step by step.  Induction is *)
(* over the set of the numbers that satisfy a predicate.                    *)

LEMMA NumbersBySteps ==
    ASSUME NEW S \in SUBSET Nat, 0 \in S, \A n \in S : n + 1 \in S
    PROVE  S = Nat
<1> DEFINE T == Nat \ S
<1>1. ASSUME T # {} PROVE FALSE
    <2>1. PICK x \in T : \A y \in T : ~(<<y, x>> \in OpToRel(<, Nat))
        BY <1>1, WFMin, NatLessThanWellFounded
    <2>2. x - 1 \in Nat /\ x - 1 < x /\ (x - 1) + 1 = x
        OBVIOUS
    <2>3. <<x - 1, x>> \in OpToRel(<, Nat) /\ x - 1 \in S
        BY <2>1, <2>2 DEF OpToRel
    <2>4. QED
        BY <2>2, <2>3
<1>2. QED
    BY <1>1

\* The fold over the first n events.
Folded(it, s, batch, n) ==
    it = [t \in SUBSET (1..n) |-> IF t = {} THEN s ELSE ApplyEvent(it[t \ {Max(t)}], batch[Max(t)])]

LEMMA LastIsMax ==
    ASSUME NEW n \in Nat, NEW t, t \subseteq 1..(n + 1), n + 1 \in t
    PROVE  Max(t) = n + 1
<1>1. \E x \in t : \A y \in t : x >= y
    OBVIOUS
<1>2. Max(t) \in t /\ \A y \in t : Max(t) >= y
    BY <1>1, Zenon DEF Max
<1>3. PICK m : m = Max(t)
    OBVIOUS
<1>4. m \in 1..(n + 1) /\ m >= n + 1
    BY <1>2, <1>3
<1>5. QED
    BY <1>3, <1>4

LEMMA FoldExists ==
    ASSUME NEW s, NEW batch
    PROVE  \A n \in Nat : \E it : Folded(it, s, batch, n)
<1> DEFINE S == {n \in Nat : \E it : Folded(it, s, batch, n)}
<1>1. 0 \in S
    <2>1. PICK it : it = [t \in SUBSET (1..0) |-> s]
        OBVIOUS
    <2>2. \A t \in SUBSET (1..0) : t = {}
        OBVIOUS
    <2>3. Folded(it, s, batch, 0)
        BY <2>1, <2>2 DEF Folded
    <2>4. QED
        BY <2>3
<1>2. ASSUME NEW n \in S PROVE n + 1 \in S
    <2>1. PICK old : Folded(old, s, batch, n)
        OBVIOUS
    <2>2. PICK it : it = [t \in SUBSET (1..(n + 1)) |->
                            IF n + 1 \in t THEN ApplyEvent(old[t \ {n + 1}], batch[n + 1]) ELSE old[t]]
        OBVIOUS
    <2>3. \A t \in SUBSET (1..n) : t \in SUBSET (1..(n + 1)) /\ n + 1 \notin t /\ it[t] = old[t]
        BY <2>2
    <2>4. ASSUME NEW t \in SUBSET (1..(n + 1))
          PROVE  it[t] = IF t = {} THEN s ELSE ApplyEvent(it[t \ {Max(t)}], batch[Max(t)])
        <3>1. CASE n + 1 \in t
            <4>1. Max(t) = n + 1
                BY <3>1, LastIsMax
            <4>2. t \ {n + 1} \in SUBSET (1..n) /\ t # {}
                BY <3>1
            <4>3. it[t] = ApplyEvent(old[t \ {n + 1}], batch[n + 1])
                BY <2>2, <3>1
            <4>4. QED
                BY <2>3, <4>1, <4>2, <4>3
        <3>2. CASE n + 1 \notin t
            <4>1. t \in SUBSET (1..n) /\ t \ {Max(t)} \in SUBSET (1..n)
                <5>1. n \in Nat
                    OBVIOUS
                <5>2. ASSUME NEW i \in t PROVE i \in 1..n
                    BY <3>2, <5>1
                <5>3. QED
                    BY <5>2
            <4>2. old[t] = IF t = {} THEN s ELSE ApplyEvent(old[t \ {Max(t)}], batch[Max(t)])
                BY <2>1, <4>1 DEF Folded
            <4>3. QED
                BY <2>3, <4>1, <4>2
        <3>3. QED
            BY <3>1, <3>2
    <2>5. Folded(it, s, batch, n + 1)
        <3>1. it = [t \in SUBSET (1..(n + 1)) |-> it[t]]
            BY <2>2
        <3>2. QED
            BY <2>4, <3>1 DEF Folded
    <2>6. QED
        BY <2>5
<1>3. S = Nat
    <2> HIDE DEF S
    <2>1. S \in SUBSET Nat
        BY DEF S
    <2>2. QED
        BY <1>1, <1>2, <2>1, NumbersBySteps
<1>4. QED
    BY <1>3

\* The flush applies one event after the other.
LEMMA FlushBySteps ==
    ASSUME NEW s, NEW batch \in Seq(Events)
    PROVE  \E g : /\ g[0] = s
                  /\ \A n \in Nat : n < Len(batch) => g[n + 1] = ApplyEvent(g[n], batch[n + 1])
                  /\ ApplyEvents(s, batch) = g[Len(batch)]
<1> DEFINE N == Len(batch)
<1>1. N \in Nat /\ DOMAIN batch = 1..N
    OBVIOUS
<1>2. PICK it : Folded(it, s, batch, N) /\ ApplyEvents(s, batch) = it[1..N]
    <2>1. PICK any : any = CHOOSE it : Folded(it, s, batch, N)
        OBVIOUS
    <2>2. Folded(any, s, batch, N)
        BY <1>1, <2>1, FoldExists
    <2>3. ApplyEvents(s, batch) = any[1..N]
        BY <1>1, <2>1, Zenon DEF ApplyEvents, FoldLeft, MapThenFoldSet, Folded
    <2>4. QED
        BY <2>2, <2>3
<1> HIDE DEF N
<1>3. PICK g : g = [n \in Nat |-> it[1..n]]
    OBVIOUS
<1>4. g[0] = s
    <2>1. 1..0 = {} /\ {} \in SUBSET (1..N)
        OBVIOUS
    <2>2. QED
        BY <1>2, <1>3, <2>1 DEF Folded
<1>5. ASSUME NEW n \in Nat, n < N PROVE g[n + 1] = ApplyEvent(g[n], batch[n + 1])
    <2>1. 1..(n + 1) \in SUBSET (1..N) /\ 1..(n + 1) # {} /\ (1..(n + 1)) \ {n + 1} = 1..n
        BY <1>1, <1>5
    <2>2. Max(1..(n + 1)) = n + 1
        BY LastIsMax
    <2>3. it[1..(n + 1)] = ApplyEvent(it[(1..(n + 1)) \ {Max(1..(n + 1))}], batch[Max(1..(n + 1))])
        BY <1>2, <2>1 DEF Folded
    <2>4. n + 1 \in Nat
        OBVIOUS
    <2>5. QED
        BY <1>3, <2>1, <2>2, <2>3, <2>4
<1>6. ApplyEvents(s, batch) = g[N]
    BY <1>1, <1>2, <1>3
<1>7. QED
    BY <1>4, <1>5, <1>6 DEF N

\* A flush leaves the pill alone and leads the count where the events lead it.
LEMMA FlushShown ==
    ASSUME NEW s, Shaped(s), s.activeFaults \in Nat, NEW batch \in Seq(Events)
    PROVE  /\ SameButCount(ApplyEvents(s, batch), s)
           /\ ApplyEvents(s, batch).activeFaults \in Nat
           /\ Leads(batch, s.activeFaults, ApplyEvents(s, batch).activeFaults)
<1> DEFINE N == Len(batch)
           Right(n, r) == /\ SameButCount(r, s) /\ r.activeFaults \in Nat
                          /\ Leads(SubSeq(batch, 1, n), s.activeFaults, r.activeFaults)
<1>1. N \in Nat /\ DOMAIN batch = 1..N /\ Events \subseteq Frames
    BY DEF Events, Frames
<1>2. PICK g : /\ g[0] = s
               /\ \A n \in Nat : n < N => g[n + 1] = ApplyEvent(g[n], batch[n + 1])
               /\ ApplyEvents(s, batch) = g[N]
    BY FlushBySteps
<1> HIDE DEF N
<1> DEFINE S == {n \in Nat : n <= N => Right(n, g[n])}
<1>3. 0 \in S
    <2>1. SubSeq(batch, 1, 0) = <<>>
        BY SubSeqEmpty
    <2>2. Leads(<<>>, s.activeFaults, s.activeFaults)
        BY LeadsNowhere
    <2>3. SameButCount(s, s)
        BY DEF SameButCount
    <2>4. QED
        BY <1>2, <2>1, <2>2, <2>3
<1>4. ASSUME NEW n \in S PROVE n + 1 \in S
    <2>1. SUFFICES ASSUME n + 1 <= N PROVE Right(n + 1, g[n + 1])
        OBVIOUS
    <2>2. n \in Nat /\ n < N /\ n <= N /\ n + 1 \in 1..N /\ 1..n \subseteq 1..N
        BY <1>1, <2>1
    <2>3. PICK r, e : r = g[n] /\ e = batch[n + 1]
        OBVIOUS
    <2>4. e \in Events /\ Right(n, r) /\ g[n + 1] = ApplyEvent(r, e)
        BY <1>1, <1>2, <2>2, <2>3, ElementOfSeq DEF N
    <2>5. SameButCount(g[n + 1], r) /\ g[n + 1].activeFaults = After(e, r.activeFaults)
        BY <2>4, EventShown DEF SameButCount
    <2>6. SameButCount(g[n + 1], s) /\ g[n + 1].activeFaults \in Nat
        BY <2>4, <2>5 DEF SameButCount, After
    <2>7. SubSeq(batch, 1, n) \in Seq(Frames) /\ SubSeq(batch, 1, n + 1) = Append(SubSeq(batch, 1, n), e)
        BY <1>1, <2>2, <2>3 DEF N
    <2>8. Leads(SubSeq(batch, 1, n + 1), s.activeFaults, After(e, r.activeFaults))
        BY <1>1, <2>4, <2>7, LeadsOneMore
    <2>9. QED
        BY <2>5, <2>6, <2>8
<1>5. S = Nat
    <2> HIDE DEF S
    <2>1. S \in SUBSET Nat
        BY DEF S
    <2>2. QED
        BY <1>3, <1>4, <2>1, NumbersBySteps
<1>6. Right(N, g[N])
    <2>1. N \in S /\ N <= N
        BY <1>1, <1>5
    <2>2. QED
        BY <2>1
<1>7. SubSeq(batch, 1, N) = batch
    BY SubSeqFull DEF N
<1>8. QED
    BY <1>2, <1>6, <1>7

----------------------------------------------------------------------------
(* The invariant.                                                           *)

LinkType ==
    /\ page \in {"away", "live", "reel"}
    /\ socket \in Sockets \union {None}
    /\ life \in [Sockets -> {"unused", "connecting", "open", "closing"}]
    /\ wire \in [Sockets -> Seq(Frames)]
    /\ pending \in Seq(Events) /\ log \in Seq(Events)
    /\ Shaped(store) /\ store.activeFaults \in 0..(MaxFaults + 1)
    /\ asks \subseteq [sock : Sockets, answer : (0..MaxFaults) \union {None}]
    /\ faults \in 0..MaxFaults

\* One socket, and what goes with it: the interval with the pill, the reconnection only once the close of
\* the socket has been handled, nothing away from the live page.
OneLink ==
    /\ \A s \in Sockets : Holds(s) => s = socket
    /\ page # "live" => socket = None /\ timers = {}
    /\ page = "live" => socket # None /\ ~closed
    /\ timers \subseteq {timer}
    /\ timers # {} => socket # None /\ life[socket] = "unused"
    /\ store.connected <=> batchTimer
    /\ intervals = IF batchTimer THEN 1 ELSE 0
    /\ batchTimer => socket # None /\ life[socket] \in {"open", "closing"}
    /\ socket # None /\ life[socket] = "open" => batchTimer
    /\ pending # <<>> => batchTimer

\* A socket asks once, when it opens.
OneAsk ==
    /\ \A a \in asks : life[a.sock] # "connecting"
    /\ \A a, b \in asks : a.sock = b.sock => a = b

Opened == socket # None /\ life[socket] = "open"
Asking == \E a \in asks : a.sock = socket
Nothing == wire[socket] = <<>> /\ pending = <<>>

\* While a connection is set up nothing but the greeting is under way, and an answer that is under way is
\* right.  Later the events that wait and the frames under way lead the count to the server's.
InStep ==
    Opened /\ ~murky =>
      /\ socket \notin greeted => store.connectScenarioPending /\ Nothing
      /\ socket \in greeted /\ store.connectScenarioPending => wire[socket] = <<ScenarioFrame>> /\ pending = <<>>
      /\ Asking /\ ~store.connectScenarioPending => Nothing
      /\ \A a \in asks : a.sock = socket /\ a.answer # None => a.answer = faults
      /\ ~Asking /\ store.connectScenarioPending => store.activeFaults = faults
      /\ ~Asking /\ ~store.connectScenarioPending =>
           \E r \in Nat : Leads(pending, store.activeFaults, r) /\ Leads(wire[socket], r, faults)

LinkInv == LinkType /\ OneLink /\ OneAsk /\ InStep

LEMMA InitLink == Init => LinkInv
<1> SUFFICES ASSUME Init PROVE LinkInv
    OBVIOUS
<1> USE DEF Init
<1>1. LinkType
    <2>1. Shaped(store) /\ store.activeFaults = 0
        BY DEF Shaped, InitialStore
    <2>2. 0 \in 0..MaxFaults /\ 0 \in 0..(MaxFaults + 1)
        BY LinkAssumption
    <2>3. QED
        BY <2>1, <2>2 DEF LinkType
<1>2. OneLink
    <2>1. store.connected = FALSE
        BY DEF InitialStore
    <2>2. QED
        BY <2>1 DEF OneLink, Holds
<1>3. OneAsk /\ InStep
    BY DEF OneAsk, InStep, Opened
<1>4. QED
    BY <1>1, <1>2, <1>3 DEF LinkInv

\* What the store becomes: all that the link reads, and the count capped.
LEMMA StoreBecomes ==
    ASSUME NEW ch, Becomes(ch), Shaped(ch.store), ch.store.activeFaults \in Nat
    PROVE  /\ pending' = ch.pending
           /\ Shaped(store')
           /\ store'.connected = ch.store.connected
           /\ store'.connectScenarioPending = ch.store.connectScenarioPending
           /\ store'.activeFaults = Capped(ch.store.activeFaults)
           /\ store'.activeFaults \in 0..(MaxFaults + 1)
<1>1. PICK n : n = Min({ch.store.activeFaults, MaxFaults + 1})
    OBVIOUS
<1>2. n = Capped(ch.store.activeFaults) /\ n \in 0..(MaxFaults + 1)
    BY <1>1, MinOfTwo, LinkAssumption DEF Capped
<1>3. store' = [InitialStore EXCEPT !.connected = ch.store.connected, !.connecting = ch.store.connecting,
                                    !.connectScenarioPending = ch.store.connectScenarioPending,
                                    !.activeFaults = n, !.reel = ch.store.reel]
    BY <1>1 DEF Becomes
<1>4. PICK i : i = InitialStore
    OBVIOUS
<1>5. Shaped(store') /\ store'.connected = ch.store.connected /\ store'.activeFaults = n
      /\ store'.connectScenarioPending = ch.store.connectScenarioPending
    BY <1>3, <1>4, ShapeOfStore DEF Shaped
<1>6. QED
    BY <1>2, <1>5 DEF Becomes

\* A flush, and the change of the pill that goes with it.
LEMMA FlushBecomes ==
    ASSUME NEW s, Shaped(s), s.activeFaults \in Nat, NEW batch \in Seq(Events)
    PROVE  LET ch == Flushed([store |-> s, pending |-> batch])
           IN  /\ ch.pending = <<>> /\ SameButCount(ch.store, s) /\ ch.store.activeFaults \in Nat
               /\ Leads(batch, s.activeFaults, ch.store.activeFaults)
<1>1. PICK r : r = ApplyEvents(s, batch)
    OBVIOUS
<1>2. Flushed([store |-> s, pending |-> batch]) = [store |-> r, pending |-> <<>>]
    BY <1>1 DEF Flushed, FlushEvents, Channel
<1>3. QED
    BY <1>1, <1>2, FlushShown

LEMMA DisconnectShown ==
    ASSUME LinkType, NEW s, Shaped(s), s.activeFaults \in 0..(MaxFaults + 1), Disconnect(s)
    PROVE  pending' = <<>> /\ Shaped(store') /\ store'.connected = FALSE /\ store'.activeFaults \in 0..(MaxFaults + 1)
<1>1. PICK ch : ch = Flushed([store |-> s, pending |-> pending])
    OBVIOUS
<1>2. ch.pending = <<>> /\ SameButCount(ch.store, s) /\ ch.store.activeFaults \in Nat
    BY <1>1, FlushBecomes, LinkAssumption DEF LinkType
<1>3. PICK on : on = SetConnected(ch.store, FALSE)
    OBVIOUS
<1>4. Shaped(on) /\ on.connected = FALSE /\ on.activeFaults = ch.store.activeFaults
    BY <1>2, <1>3, ConnectedShown DEF SameButCount
<1>5. PICK ch2 : ch2 = [ch EXCEPT !.store = SetConnected(@, FALSE)]
    OBVIOUS
<1>6. ch2.store = on /\ ch2.pending = <<>>
    BY <1>1, <1>2, <1>3, <1>5 DEF Flushed, FlushEvents, Channel
<1>7. Becomes(ch2)
    BY <1>1, <1>5 DEF Disconnect
<1>8. QED
    BY <1>2, <1>4, <1>6, <1>7, StoreBecomes

LEMMA CloseShown ==
    ASSUME LinkType, Becomes(Flushed([Here EXCEPT !.store = SetConnected(@, FALSE)]))
    PROVE  pending' = <<>> /\ Shaped(store') /\ store'.connected = FALSE /\ store'.activeFaults \in 0..(MaxFaults + 1)
<1>1. PICK off : off = SetConnected(store, FALSE)
    OBVIOUS
<1>2. Shaped(off) /\ off.connected = FALSE /\ off.activeFaults \in Nat
    <2>1. Shaped(store) /\ store.activeFaults \in Nat
        BY LinkAssumption DEF LinkType
    <2>2. QED
        BY <1>1, <2>1, ConnectedShown
<1>3. [Here EXCEPT !.store = SetConnected(@, FALSE)] = [store |-> off, pending |-> pending]
    <2>1. PICK h : h = [store |-> store, pending |-> pending]
        OBVIOUS
    <2>2. h.store = store /\ [h EXCEPT !.store = off] = [store |-> off, pending |-> pending]
        BY <2>1
    <2>3. SetConnected(h.store, FALSE) = off
        BY <1>1, <2>2
    <2>4. [h EXCEPT !.store = SetConnected(@, FALSE)] = [h EXCEPT !.store = off]
        BY <2>3, Zenon
    <2>5. QED
        BY <2>1, <2>2, <2>4 DEF Here
<1>4. PICK ch : ch = Flushed([store |-> off, pending |-> pending])
    OBVIOUS
<1>5. ch.pending = <<>> /\ SameButCount(ch.store, off) /\ ch.store.activeFaults \in Nat
    BY <1>2, <1>4, FlushBecomes DEF LinkType
<1>6. QED
    BY <1>2, <1>3, <1>4, <1>5, StoreBecomes DEF SameButCount

\* An event that arrives waits.
LEMMA EventArrives ==
    ASSUME LinkType, NEW f \in Events, Becomes(DispatchFrame(Here, f))
    PROVE  /\ pending' = Append(pending, f)
           /\ Shaped(store') /\ store'.connected = store.connected
           /\ store'.connectScenarioPending = store.connectScenarioPending
           /\ store'.activeFaults = store.activeFaults /\ store'.activeFaults \in 0..(MaxFaults + 1)
<1>1. f.type = "event"
    BY FramesDiffer DEF Events
<1>2. DispatchFrame(Here, f) = [store |-> store, pending |-> Append(pending, f)]
    BY <1>1 DEF DispatchFrame, Here
<1>3. QED
    BY <1>2, StoreBecomes, LinkAssumption DEF LinkType, Capped

\* A scenario frame flushes the events before it.
LEMMA ScenarioArrives ==
    ASSUME LinkType, Becomes(DispatchFrame(Here, ScenarioFrame))
    PROVE  /\ pending' = <<>>
           /\ Shaped(store') /\ store'.connected = store.connected /\ store'.activeFaults \in 0..(MaxFaults + 1)
           /\ store'.connectScenarioPending = FALSE
           /\ \E r \in Nat : /\ Leads(pending, store.activeFaults, r)
                             /\ store'.activeFaults = IF store.connectScenarioPending THEN Capped(r) ELSE 0
<1>1. PICK ch : ch = Flushed([store |-> store, pending |-> pending])
    OBVIOUS
<1>2. ch.pending = <<>> /\ SameButCount(ch.store, store) /\ ch.store.activeFaults \in Nat
      /\ Leads(pending, store.activeFaults, ch.store.activeFaults)
    BY <1>1, FlushBecomes, LinkAssumption DEF LinkType
<1>3. PICK t : t = ApplyTyped(ch.store, ScenarioFrame)
    OBVIOUS
<1>4. /\ Shaped(t) /\ t.connected = ch.store.connected /\ t.connectScenarioPending = FALSE
      /\ t.activeFaults = IF ch.store.connectScenarioPending THEN ch.store.activeFaults ELSE 0
    BY <1>2, <1>3, ScenarioShown DEF SameButCount
<1>5. DispatchFrame(Here, ScenarioFrame) = [store |-> t, pending |-> <<>>]
    BY <1>1, <1>3, FramesDiffer DEF DispatchFrame, Here, Flushed, Channel
<1>6. t.activeFaults \in Nat
    BY <1>2, <1>4
<1>7. /\ pending' = <<>> /\ Shaped(store') /\ store'.connected = t.connected /\ store'.activeFaults \in 0..(MaxFaults + 1)
      /\ store'.connectScenarioPending = t.connectScenarioPending /\ store'.activeFaults = Capped(t.activeFaults)
    BY <1>4, <1>5, <1>6, StoreBecomes
<1>8. Capped(0) = 0
    BY LinkAssumption DEF Capped
<1>9. QED
    BY <1>2, <1>4, <1>7, <1>8 DEF SameButCount

----------------------------------------------------------------------------
(* Every step keeps the invariant.                                          *)

\* A connection that is opened takes an idle socket when none connects or is open.
LEMMA OpenShown ==
    ASSUME LinkType, OneLink, Open, ~(socket # None /\ Holds(socket))
    PROVE  \E s \in Sockets : /\ socket' = s /\ life' = [life EXCEPT ![s] = "connecting"]
                              /\ \A a \in asks : a.sock # s
                              /\ \A q \in Sockets : ~Holds(q)
                              /\ \A q \in Sockets : Holds(q)' => q = s
<1>1. PICK s \in Sockets : Idle(s) /\ socket' = s /\ life' = [life EXCEPT ![s] = "connecting"]
    BY Zenon DEF Open
<1>2. \A q \in Sockets : ~Holds(q)
    BY LinkAssumption DEF OneLink
<1>3. \A q \in Sockets : Holds(q)' => q = s
    BY <1>1, <1>2 DEF Holds, LinkType
<1>4. QED
    BY <1>1, <1>2, <1>3 DEF Idle

LEMMA OnOpenKeeps ==
    ASSUME LinkInv, NEW s \in Sockets, OnOpen(s)
    PROVE  LinkInv'
<1> USE DEF LinkInv
<1>1. s = socket /\ s # None /\ life[s] = "connecting"
    BY LinkAssumption DEF OnOpen, OneLink, Holds
<1>2. /\ life' = [life EXCEPT ![s] = "open"] /\ wire' = [wire EXCEPT ![s] = <<>>] /\ greeted' = greeted \ {s}
      /\ store' = SetConnected(store, TRUE) /\ batchTimer' = TRUE /\ intervals' = intervals + 1
      /\ asks' = asks \union {[sock |-> s, answer |-> None]} /\ murky' = FALSE
      /\ pending' = pending /\ page' = page /\ socket' = socket /\ closed' = closed
      /\ timer' = timer /\ timers' = timers /\ faults' = faults /\ log' = log
    BY <1>1 DEF OnOpen, server
<1>3. /\ Shaped(store') /\ store'.connected = TRUE /\ store'.connectScenarioPending
      /\ store'.activeFaults = store.activeFaults
    BY <1>2, ConnectedShown DEF LinkType
<1>4. ~batchTimer /\ intervals = 0 /\ pending = <<>>
    BY <1>1 DEF OneLink
<1>5. LinkType'
    <2>1. life' \in [Sockets -> {"unused", "connecting", "open", "closing"}]
        BY <1>2 DEF LinkType
    <2>2. wire' \in [Sockets -> Seq(Frames)]
        BY <1>2 DEF LinkType
    <2>3. asks' \subseteq [sock : Sockets, answer : (0..MaxFaults) \union {None}]
        BY <1>2 DEF LinkType
    <2>4. QED
        BY <1>2, <1>3, <2>1, <2>2, <2>3 DEF LinkType
<1>6. life'[s] = "open" /\ wire'[s] = <<>> /\ \A q \in Sockets : q # s => life'[q] = life[q]
    BY <1>2 DEF LinkType
<1>7. OneLink'
    <2>1. \A q \in Sockets : Holds(q)' => q = socket'
        BY <1>1, <1>2, <1>6 DEF OneLink, Holds
    <2>2. timers' = {} /\ page' = "live" /\ socket' # None /\ ~closed'
        BY <1>1, <1>2 DEF OneLink
    <2>3. life'[socket'] = "open"
        BY <1>1, <1>2, <1>6
    <2>4. intervals' = 1
        BY <1>2, <1>4
    <2>5. store'.connected /\ batchTimer'
        BY <1>2, <1>3
    <2>6. QED
        BY <2>1, <2>2, <2>3, <2>4, <2>5 DEF OneLink
<1>8. OneAsk'
    <2>1. \A a \in asks : a.sock \in Sockets /\ a.sock # s
        BY <1>1 DEF OneAsk, LinkType
    <2>2. \A a \in asks' : a \in asks \/ a.sock = s
        BY <1>2
    <2>3. \A a \in asks' : a.sock = s => a = [sock |-> s, answer |-> None]
        BY <1>2, <2>1
    <2>4. \A a \in asks' : life'[a.sock] # "connecting"
        BY <1>6, <2>1, <2>2 DEF OneAsk
    <2>5. QED
        BY <2>1, <2>2, <2>3, <2>4 DEF OneAsk
<1>9. InStep'
    <2>1. Asking' /\ Nothing'
        <3>1. PICK a : a = [sock |-> s, answer |-> None]
            OBVIOUS
        <3>2. a \in asks' /\ a.sock = s
            BY <1>2, <3>1
        <3>3. socket' = s /\ wire'[s] = <<>> /\ pending' = <<>>
            BY <1>1, <1>2, <1>4, <1>6
        <3>4. QED
            BY <3>2, <3>3 DEF Asking, Nothing
    <2>2. \A a \in asks' : a.sock = socket' => a.answer = None
        BY <1>1, <1>2 DEF OneAsk
    <2>3. socket' \notin greeted'
        BY <1>1, <1>2
    <2>4. QED
        BY <1>3, <2>1, <2>2, <2>3 DEF InStep
<1>10. QED
    BY <1>5, <1>7, <1>8, <1>9

LEMMA OnMessageKeeps ==
    ASSUME LinkInv, NEW s \in Sockets, OnMessage(s)
    PROVE  LinkInv'
<1> USE DEF LinkInv
<1>1. s = socket /\ s # None /\ life[s] = "open" /\ wire[s] # <<>>
    BY LinkAssumption DEF OnMessage, OneLink, Holds
<1>2. /\ wire' = [wire EXCEPT ![s] = Tail(@)] /\ Becomes(DispatchFrame(Here, Head(wire[s])))
      /\ page' = page /\ socket' = socket /\ closed' = closed /\ timer' = timer /\ timers' = timers
      /\ batchTimer' = batchTimer /\ intervals' = intervals /\ life' = life /\ greeted' = greeted
      /\ asks' = asks /\ faults' = faults /\ log' = log /\ murky' = murky
    BY <1>1 DEF OnMessage, server
<1>3. PICK f, q : f = Head(wire[s]) /\ q = wire[s]
    OBVIOUS
<1>4. q \in Seq(Frames) /\ q # <<>> /\ f = Head(q) /\ f \in Frames /\ Tail(q) \in Seq(Frames) /\ wire'[s] = Tail(q)
    <2>1. q \in Seq(Frames) /\ q # <<>> /\ f = Head(q) /\ wire'[s] = Tail(q)
        BY <1>1, <1>2, <1>3 DEF LinkType
    <2>2. QED
        BY <2>1, HeadTailProperties
<1>5. wire' \in [Sockets -> Seq(Frames)]
    BY <1>2, <1>3, <1>4 DEF LinkType
<1>6. batchTimer
    BY <1>1 DEF OneLink
<1>7. Events \subseteq Frames /\ Frames = Events \union {ScenarioFrame}
    BY DEF Events, Frames
<1>8. ASSUME pending' \in Seq(Events), Shaped(store'), store'.connected = store.connected,
             store'.activeFaults \in 0..(MaxFaults + 1)
      PROVE  LinkType' /\ OneLink' /\ OneAsk'
    <2>1. LinkType'
        BY <1>2, <1>5, <1>8 DEF LinkType
    <2>2. OneLink'
        BY <1>2, <1>6, <1>8 DEF OneLink, Holds
    <2>3. OneAsk'
        BY <1>2 DEF OneAsk
    <2>4. QED
        BY <2>1, <2>2, <2>3
<1>9. Asking' <=> Asking
    BY <1>2 DEF Asking
<1>10. CASE f \in Events
    <2>1. /\ pending' = Append(pending, f)
          /\ Shaped(store') /\ store'.connected = store.connected
          /\ store'.connectScenarioPending = store.connectScenarioPending
          /\ store'.activeFaults = store.activeFaults /\ store'.activeFaults \in 0..(MaxFaults + 1)
        BY <1>2, <1>3, <1>10, EventArrives
    <2>2. pending \in Seq(Frames) /\ pending' \in Seq(Events)
        BY <1>7, <1>10, <2>1, SeqMonotonic DEF LinkType
    <2>3. ASSUME ~murky PROVE ~store.connectScenarioPending /\ ~Asking
        <3>1. wire[socket] # <<>> /\ wire[socket] # <<ScenarioFrame>>
            BY <1>1, <1>3, <1>4, <1>10, FramesDiffer
        <3>2. QED
            BY <1>1, <2>3, <3>1 DEF InStep, Opened, Nothing
    <2>4. ASSUME ~murky
          PROVE  \E r \in Nat : Leads(pending', store'.activeFaults, r) /\ Leads(wire'[socket], r, faults)
        <3>1. PICK r \in Nat : Leads(pending, store.activeFaults, r) /\ Leads(wire[socket], r, faults)
            BY <1>1, <2>3, <2>4 DEF InStep, Opened
        <3>2. store.activeFaults \in Nat
            BY LinkAssumption DEF LinkType
        <3>3. Leads(pending', store'.activeFaults, After(f, r))
            BY <1>7, <1>10, <2>1, <2>2, <3>1, <3>2, LeadsOneMore
        <3>4. Leads(wire'[socket], After(f, r), faults)
            BY <1>1, <1>3, <1>4, <3>1, LeadsOneLess
        <3>5. After(f, r) \in Nat
            BY DEF After
        <3>6. QED
            BY <3>3, <3>4, <3>5
    <2>5. ASSUME ~murky PROVE socket \in greeted
        BY <1>1, <2>3, <2>5 DEF InStep, Opened
    <2>6. InStep'
        BY <1>2, <1>9, <2>1, <2>3, <2>4, <2>5 DEF InStep, Opened
    <2>7. QED
        BY <1>8, <2>1, <2>2, <2>6
<1>11. CASE f = ScenarioFrame
    <2>1. /\ pending' = <<>>
          /\ Shaped(store') /\ store'.connected = store.connected /\ store'.activeFaults \in 0..(MaxFaults + 1)
          /\ store'.connectScenarioPending = FALSE
          /\ \E r \in Nat : /\ Leads(pending, store.activeFaults, r)
                            /\ store'.activeFaults = IF store.connectScenarioPending THEN Capped(r) ELSE 0
        BY <1>2, <1>3, <1>11, ScenarioArrives
    <2>2. pending' \in Seq(Events)
        BY <2>1
    <2>3. store.activeFaults \in 0..(MaxFaults + 1) /\ store.activeFaults \in Nat /\ faults \in Nat
        BY LinkAssumption DEF LinkType
    <2>4. CASE store.connectScenarioPending /\ ~murky
        <3>1. socket \in greeted /\ wire[socket] = <<ScenarioFrame>> /\ pending = <<>>
            BY <1>1, <2>4 DEF InStep, Opened, Nothing
        <3>2. wire'[socket] = <<>>
            BY <1>1, <1>3, <1>4, <3>1
        <3>3. store'.activeFaults = store.activeFaults
            <4>1. PICK r \in Nat : Leads(pending, store.activeFaults, r) /\ store'.activeFaults = Capped(r)
                BY <2>1, <2>4
            <4>2. r = store.activeFaults
                BY <2>3, <3>1, <4>1, LeadsNowhere
            <4>3. QED
                BY <2>3, <4>1, <4>2, LinkAssumption DEF Capped
        <3>4. ~Asking => store.activeFaults = faults
            BY <1>1, <2>4 DEF InStep, Opened
        <3>5. ~Asking => Leads(pending', store'.activeFaults, store.activeFaults)
                         /\ Leads(wire'[socket], store.activeFaults, faults)
            BY <2>1, <2>3, <3>2, <3>3, <3>4, LeadsNowhere
        <3>6. Nothing'
            BY <1>2, <2>1, <3>2 DEF Nothing
        <3>7. \A a \in asks : a.sock = socket /\ a.answer # None => a.answer = faults
            BY <1>1, <2>4 DEF InStep, Opened
        <3>8. InStep'
            BY <1>2, <1>9, <2>1, <2>3, <3>1, <3>5, <3>6, <3>7 DEF InStep, Opened
        <3>9. QED
            BY <1>8, <2>1, <2>2, <3>8
    <2>5. CASE ~store.connectScenarioPending /\ ~murky
        <3>1. ~Asking /\ socket \in greeted
            BY <1>1, <2>5 DEF InStep, Opened, Nothing
        <3>2. PICK r \in Nat : Leads(pending, store.activeFaults, r) /\ Leads(wire[socket], r, faults)
            BY <1>1, <2>5, <3>1 DEF InStep, Opened
        <3>3. After(f, r) = 0
            BY <1>11, FramesDiffer DEF After, Events
        <3>4. Leads(wire'[socket], 0, faults)
            BY <1>1, <1>3, <1>4, <3>2, <3>3, LeadsOneLess
        <3>5. store'.activeFaults = 0
            BY <2>1, <2>5
        <3>6. Leads(pending', store'.activeFaults, 0)
            <4>1. Leads(<<>>, 0, 0)
                BY LeadsNowhere
            <4>2. QED
                BY <2>1, <3>5, <4>1
        <3>7. InStep'
            BY <1>2, <1>9, <2>1, <3>1, <3>4, <3>6 DEF InStep, Opened, Asking
        <3>8. QED
            BY <1>8, <2>1, <2>2, <3>7
    <2>6. CASE murky
        <3>1. InStep'
            BY <1>2, <2>6 DEF InStep
        <3>2. QED
            BY <1>8, <2>1, <2>2, <3>1
    <2>7. QED
        BY <2>4, <2>5, <2>6
<1>12. QED
    BY <1>4, <1>7, <1>10, <1>11

LEMMA OnCloseKeeps ==
    ASSUME LinkInv, NEW s \in Sockets, OnClose(s)
    PROVE  LinkInv'
<1> USE DEF LinkInv
<1>1. /\ life[s] = "closing" /\ life' = [life EXCEPT ![s] = "unused"] /\ wire' = [wire EXCEPT ![s] = <<>>]
      /\ page' = page /\ socket' = socket /\ closed' = closed /\ greeted' = greeted /\ asks' = asks
      /\ faults' = faults /\ log' = log /\ murky' = murky
    BY DEF OnClose, server
<1>2. life'[s] = "unused" /\ \A q \in Sockets : q # s => life'[q] = life[q] /\ wire'[q] = wire[q]
    BY <1>1 DEF LinkType
<1>3. wire' \in [Sockets -> Seq(Frames)] /\ life' \in [Sockets -> {"unused", "connecting", "open", "closing"}]
    BY <1>1 DEF LinkType
<1>4. \A q \in Sockets : Holds(q)' => Holds(q)
    BY <1>1, <1>2 DEF Holds
<1>5. OneAsk'
    <2>1. \A a \in asks : a.sock \in Sockets
        BY DEF LinkType
    <2>2. QED
        BY <1>1, <1>2, <2>1 DEF OneAsk
<1>6. CASE s = socket
    <2>1. pending' = <<>> /\ Shaped(store') /\ store'.connected = FALSE /\ store'.activeFaults \in 0..(MaxFaults + 1)
        BY <1>6, CloseShown DEF OnClose
    <2>2. socket # None /\ page = "live" /\ ~closed /\ timers = {}
        BY <1>1, <1>6, LinkAssumption DEF OneLink
    <2>3. batchTimer' = FALSE /\ intervals' = 0 /\ \E t \in Timers : timer' = t /\ timers' = {t}
        <3>1. batchTimer' = FALSE /\ intervals' = 0
            BY <1>6 DEF OnClose, StopBatchTimer, OneLink
        <3>2. ScheduleReconnect
            BY <1>6, <2>2 DEF OnClose
        <3>3. QED
            BY <2>2, <3>1, <3>2 DEF ScheduleReconnect
    <2>4. LinkType'
        BY <1>1, <1>3, <2>1 DEF LinkType
    <2>5. OneLink'
        BY <1>1, <1>2, <1>4, <1>6, <2>1, <2>2, <2>3 DEF OneLink
    <2>6. InStep'
        BY <1>1, <1>2, <1>6 DEF InStep, Opened
    <2>7. QED
        BY <1>5, <2>4, <2>5, <2>6
<1>7. CASE s # socket
    <2>1. /\ store' = store /\ pending' = pending /\ batchTimer' = batchTimer /\ intervals' = intervals
          /\ timer' = timer /\ timers' = timers
        BY <1>7 DEF OnClose
    <2>2. socket # None => life'[socket] = life[socket] /\ wire'[socket] = wire[socket]
        BY <1>2, <1>7 DEF LinkType
    <2>3. LinkType'
        BY <1>1, <1>3, <2>1 DEF LinkType
    <2>4. OneLink'
        BY <1>1, <1>4, <2>1, <2>2 DEF OneLink
    <2>5. InStep'
        BY <1>1, <2>1, <2>2 DEF InStep, Opened, Asking, Nothing
    <2>6. QED
        BY <1>5, <2>3, <2>4, <2>5
<1>8. QED
    BY <1>6, <1>7

\* A connection that is begun: the client knows nothing of it yet.
LEMMA BegunKeeps ==
    ASSUME LinkInv, Open, ~(socket # None /\ Holds(socket)), timers' = {},
           page' = "live", ~closed', ~batchTimer,
           UNCHANGED <<store, pending, batchTimer, intervals, wire, asks, log, faults>>
    PROVE  LinkInv'
<1> USE DEF LinkInv
<1>1. PICK s \in Sockets : /\ socket' = s /\ life' = [life EXCEPT ![s] = "connecting"]
                           /\ \A a \in asks : a.sock # s
                           /\ \A q \in Sockets : ~Holds(q)
                           /\ \A q \in Sockets : Holds(q)' => q = s
    BY OpenShown
<1>2. life' \in [Sockets -> {"unused", "connecting", "open", "closing"}] /\ life'[s] = "connecting"
      /\ \A q \in Sockets : q # s => life'[q] = life[q]
    BY <1>1 DEF LinkType
<1>3. LinkType'
    BY <1>1, <1>2 DEF LinkType
<1>4. OneLink'
    <2>1. s # None
        BY LinkAssumption
    <2>2. QED
        BY <1>1, <1>2, <2>1 DEF OneLink
<1>5. OneAsk'
    <2>1. \A a \in asks : a.sock \in Sockets
        BY DEF LinkType
    <2>2. QED
        BY <1>1, <1>2, <2>1 DEF OneAsk
<1>6. InStep'
    BY <1>1, <1>2 DEF InStep, Opened
<1>7. QED
    BY <1>3, <1>4, <1>5, <1>6

LEMMA ReconnectKeeps ==
    ASSUME LinkInv, NEW t \in Timers, Reconnect(t)
    PROVE  LinkInv'
<1> USE DEF LinkInv
<1>1. /\ t \in timers /\ timers' = timers \ {t} /\ Open /\ page' = page /\ closed' = closed
      /\ UNCHANGED <<store, pending, batchTimer, intervals, wire, asks, log, faults>>
    BY DEF Reconnect, server
<1>2. timers = {t} /\ life[socket] = "unused" /\ page = "live" /\ ~closed
    BY <1>1 DEF OneLink, LinkType
<1>3. ~Holds(socket) /\ ~batchTimer
    BY <1>2 DEF Holds, OneLink
<1>4. QED
    BY <1>1, <1>2, <1>3, BegunKeeps

LEMMA BootLiveKeeps ==
    ASSUME LinkInv, BootLive
    PROVE  LinkInv'
<1> USE DEF LinkInv
<1>1. /\ page = "away" /\ page' = "live" /\ ~closed' /\ Open /\ timers' = timers
      /\ UNCHANGED <<store, pending, batchTimer, intervals, wire, asks, log, faults>>
    BY DEF BootLive, Connect, server
<1>2. socket = None /\ timers = {} /\ ~batchTimer
    BY <1>1 DEF OneLink
<1>3. QED
    BY <1>1, <1>2, BegunKeeps

\* disconnect() leaves nothing behind.
LEMMA DisconnectKeeps ==
    ASSUME LinkInv, NEW s, Shaped(s), s.activeFaults \in 0..(MaxFaults + 1), Disconnect(s),
           page' \in {"away", "reel"}, UNCHANGED <<wire, greeted, asks, server, murky>>
    PROVE  LinkInv'
<1> USE DEF LinkInv
<1>1. pending' = <<>> /\ Shaped(store') /\ store'.connected = FALSE /\ store'.activeFaults \in 0..(MaxFaults + 1)
    BY DisconnectShown
<1>2. /\ timers' = {} /\ batchTimer' = FALSE /\ socket' = None
      /\ life' = IF socket # None /\ Holds(socket) THEN [life EXCEPT ![socket] = "closing"] ELSE life
    BY DEF Disconnect, StopBatchTimer, OneLink
<1>3. intervals' = 0
    BY DEF Disconnect, StopBatchTimer, OneLink
<1>4. life' \in [Sockets -> {"unused", "connecting", "open", "closing"}]
      /\ \A q \in Sockets : life'[q] = "connecting" => life[q] = "connecting"
    BY <1>2 DEF LinkType
<1>5. \A q \in Sockets : ~Holds(q)'
    <2> SUFFICES ASSUME NEW q \in Sockets PROVE ~Holds(q)'
        OBVIOUS
    <2>1. CASE Holds(q)
        <3>1. q = socket /\ q # None
            BY <2>1, LinkAssumption DEF OneLink
        <3>2. life'[q] = "closing"
            BY <1>2, <2>1, <3>1 DEF LinkType
        <3>3. QED
            BY <3>2 DEF Holds
    <2>2. CASE ~Holds(q)
        BY <1>2, <2>2 DEF Holds, LinkType
    <2>3. QED
        BY <2>1, <2>2
<1>6. LinkType'
    <2>1. wire' = wire /\ log' = log /\ asks' = asks /\ faults' = faults
        BY DEF server
    <2>2. page' \in {"away", "live", "reel"} /\ socket' \in Sockets \union {None} /\ pending' \in Seq(Events)
        BY <1>1, <1>2
    <2>3. QED
        BY <1>1, <1>4, <2>1, <2>2 DEF LinkType
<1>7. OneLink'
    BY <1>1, <1>2, <1>3, <1>5 DEF OneLink
<1>8. OneAsk'
    <2>1. \A a \in asks : a.sock \in Sockets
        BY DEF LinkType
    <2>2. QED
        BY <1>4, <2>1 DEF OneAsk
<1>9. InStep'
    BY <1>2 DEF InStep, Opened
<1>10. QED
    BY <1>6, <1>7, <1>8, <1>9

LEMMA LeaveKeeps ==
    ASSUME LinkInv, BootReel \/ TeardownSim
    PROVE  LinkInv'
<1>1. Shaped(store) /\ store.activeFaults \in 0..(MaxFaults + 1)
    BY DEF LinkInv, LinkType
<1>2. CASE BootReel
    <2>1. PICK s : s = [store EXCEPT !.reel = "reel"]
        OBVIOUS
    <2>2. Shaped(s) /\ s.activeFaults = store.activeFaults
        BY <1>1, <2>1, ShapeOfStore DEF Shaped
    <2>3. Disconnect(s) /\ page' = "reel" /\ UNCHANGED <<wire, greeted, asks, server, murky>>
        BY <1>2, <2>1 DEF BootReel
    <2>4. QED
        BY <1>1, <2>2, <2>3, DisconnectKeeps
<1>3. CASE TeardownSim
    <2>1. PICK s : s = [store EXCEPT !.reel = None]
        OBVIOUS
    <2>2. Shaped(s) /\ s.activeFaults = store.activeFaults
        BY <1>1, <2>1, ShapeOfStore DEF Shaped
    <2>3. Disconnect(s) /\ page' = "away" /\ UNCHANGED <<wire, greeted, asks, server, murky>>
        BY <1>3, <2>1 DEF TeardownSim
    <2>4. QED
        BY <1>1, <2>2, <2>3, DisconnectKeeps
<1>4. QED
    BY <1>2, <1>3

LEMMA BatchTickKeeps ==
    ASSUME LinkInv, BatchTick
    PROVE  LinkInv'
<1> USE DEF LinkInv
<1>1. /\ pending # <<>> /\ Becomes(Flushed(Here))
      /\ page' = page /\ socket' = socket /\ closed' = closed /\ timer' = timer /\ timers' = timers
      /\ batchTimer' = batchTimer /\ intervals' = intervals /\ life' = life /\ wire' = wire /\ greeted' = greeted
      /\ asks' = asks /\ faults' = faults /\ log' = log /\ murky' = murky
    BY DEF BatchTick, server, net
<1>2. Shaped(store) /\ store.activeFaults \in Nat /\ pending \in Seq(Events) /\ faults \in Nat /\ faults <= MaxFaults
    BY LinkAssumption DEF LinkType
<1>3. PICK ch : ch = Flushed(Here)
    OBVIOUS
<1>4. ch.pending = <<>> /\ SameButCount(ch.store, store) /\ ch.store.activeFaults \in Nat
      /\ Leads(pending, store.activeFaults, ch.store.activeFaults)
    BY <1>2, <1>3, FlushBecomes DEF Here
<1>5. /\ pending' = <<>> /\ Shaped(store') /\ store'.connected = store.connected
      /\ store'.connectScenarioPending = store.connectScenarioPending
      /\ store'.activeFaults = Capped(ch.store.activeFaults) /\ store'.activeFaults \in 0..(MaxFaults + 1)
    BY <1>1, <1>3, <1>4, StoreBecomes DEF SameButCount
<1>6. LinkType'
    BY <1>1, <1>5 DEF LinkType
<1>7. OneLink'
    BY <1>1, <1>5 DEF OneLink, Holds
<1>8. OneAsk'
    BY <1>1 DEF OneAsk
<1>9. InStep'
    <2>1. SUFFICES ASSUME Opened', ~murky' PROVE InStep'
        BY DEF InStep
    <2>2. Opened /\ ~murky
        BY <1>1, <2>1 DEF Opened
    <2>3. ~store.connectScenarioPending /\ ~Asking /\ socket \in greeted
        BY <1>1, <2>2 DEF InStep, Nothing
    <2>4. PICK r \in Nat : Leads(pending, store.activeFaults, r) /\ Leads(wire[socket], r, faults)
        BY <2>2, <2>3 DEF InStep
    <2>5. pending \in Seq(Frames)
        <3>1. Events \subseteq Frames
            BY DEF Events, Frames
        <3>2. QED
            BY <1>2, <3>1, SeqMonotonic
    <2>6. r = ch.store.activeFaults
        BY <1>2, <1>4, <2>4, <2>5, LeadsOnce
    <2>7. wire[socket] \in Seq(Frames)
        BY <2>2 DEF Opened, LinkType
    <2>8. Leads(wire[socket], store'.activeFaults, faults)
        BY <1>2, <1>5, <2>4, <2>6, <2>7, LeadsCapped
    <2>9. store'.activeFaults \in Nat
        BY <1>5, LinkAssumption
    <2>10. Leads(pending', store'.activeFaults, store'.activeFaults)
        BY <1>5, <2>9, LeadsNowhere
    <2>11. ~store'.connectScenarioPending /\ ~Asking' /\ socket' \in greeted'
        BY <1>1, <1>5, <2>3 DEF Asking
    <2>12. \E n \in Nat : Leads(pending', store'.activeFaults, n) /\ Leads(wire'[socket'], n, faults')
        BY <1>1, <2>8, <2>9, <2>10
    <2>13. QED
        BY <2>11, <2>12 DEF InStep, Asking
<1>10. QED
    BY <1>6, <1>7, <1>8, <1>9

LEMMA FaultActiveKeeps ==
    ASSUME LinkInv, NEW a \in asks, FaultActive(a)
    PROVE  LinkInv'
<1> USE DEF LinkInv
<1>1. /\ a.answer # None /\ asks' = asks \ {a}
      /\ store' = IF a.sock = socket THEN [store EXCEPT !.activeFaults = a.answer] ELSE store
      /\ pending' = pending
      /\ page' = page /\ socket' = socket /\ closed' = closed /\ timer' = timer /\ timers' = timers
      /\ batchTimer' = batchTimer /\ intervals' = intervals /\ life' = life /\ wire' = wire /\ greeted' = greeted
      /\ faults' = faults /\ log' = log /\ murky' = murky
    BY DEF FaultActive, server, net
<1>2. a.answer \in 0..MaxFaults /\ a.answer \in 0..(MaxFaults + 1) /\ faults \in Nat
    <2>1. a.answer \in 0..MaxFaults
        BY <1>1 DEF LinkType
    <2>2. QED
        BY <2>1, LinkAssumption DEF LinkType
<1>3. /\ Shaped(store') /\ store'.connected = store.connected
      /\ store'.connectScenarioPending = store.connectScenarioPending
      /\ store'.activeFaults = IF a.sock = socket THEN a.answer ELSE store.activeFaults
    BY <1>1, ShapeOfStore DEF LinkType, Shaped
<1>4. LinkType'
    <2>1. asks' \subseteq [sock : Sockets, answer : (0..MaxFaults) \union {None}]
        BY <1>1 DEF LinkType
    <2>2. store'.activeFaults \in 0..(MaxFaults + 1)
        BY <1>2, <1>3 DEF LinkType
    <2>3. QED
        BY <1>1, <1>3, <2>1, <2>2 DEF LinkType
<1>5. OneLink'
    BY <1>1, <1>3 DEF OneLink, Holds
<1>6. OneAsk'
    BY <1>1 DEF OneAsk
<1>7. InStep'
    <2>1. SUFFICES ASSUME Opened', ~murky' PROVE InStep'
        BY DEF InStep
    <2>2. Opened /\ ~murky
        BY <1>1, <2>1 DEF Opened
    <2>3. CASE a.sock = socket
        <3>1. a.answer = faults /\ Asking
            BY <1>1, <2>2, <2>3 DEF InStep, Asking
        <3>2. ~store.connectScenarioPending => Nothing
            BY <2>2, <3>1 DEF InStep
        <3>3. store'.activeFaults = faults
            BY <1>3, <2>3, <3>1
        <3>4. ~store'.connectScenarioPending =>
                Leads(pending', store'.activeFaults, faults) /\ Leads(wire'[socket'], faults, faults)
            BY <1>1, <1>2, <1>3, <3>2, <3>3, LeadsNowhere DEF Nothing
        <3>5. ~Asking'
            BY <1>1, <2>3 DEF Asking, OneAsk
        <3>6. /\ socket \notin greeted => store.connectScenarioPending /\ Nothing
              /\ socket \in greeted /\ store.connectScenarioPending => wire[socket] = <<ScenarioFrame>> /\ pending = <<>>
            BY <2>2 DEF InStep
        <3>7. \A b \in asks' : b.sock # socket'
            BY <3>5 DEF Asking
        <3>8. QED
            BY <1>1, <1>2, <1>3, <3>3, <3>4, <3>5, <3>6, <3>7 DEF InStep, Nothing
    <2>4. CASE a.sock # socket
        <3>1. Asking' <=> Asking
            BY <1>1, <2>4 DEF Asking
        <3>2. QED
            BY <1>1, <1>3, <2>2, <2>4, <3>1 DEF InStep, Nothing
    <2>5. QED
        BY <2>3, <2>4
<1>8. QED
    BY <1>4, <1>5, <1>6, <1>7

LEMMA FaultActiveFailsKeeps ==
    ASSUME LinkInv, NEW a \in asks, FaultActiveFails(a)
    PROVE  LinkInv'
<1> USE DEF LinkInv
<1>1. asks' = asks \ {a} /\ murky' = TRUE /\ UNCHANGED <<client, net, server>>
    BY DEF FaultActiveFails
<1>2. LinkType'
    BY <1>1 DEF LinkType, client, net, server
<1>3. OneLink'
    BY <1>1 DEF OneLink, Holds, client, net, server
<1>4. OneAsk'
    BY <1>1 DEF OneAsk, net
<1>5. InStep'
    BY <1>1 DEF InStep
<1>6. QED
    BY <1>2, <1>3, <1>4, <1>5

\* A frame that tells everyone how the server's faults changed.
LEMMA TellKeeps ==
    ASSUME LinkInv, NEW f \in Frames, Tell(f), faults' = After(f, faults), faults' \in 0..MaxFaults,
           log' \in Seq(Events), murky' = (murky \/ SettingUp), UNCHANGED <<client, life, greeted, asks>>
    PROVE  LinkInv'
<1> USE DEF LinkInv
<1>1. /\ wire' = [s \in Sockets |-> IF Listening(s) THEN Append(wire[s], f) ELSE wire[s]]
      /\ UNCHANGED <<client, life, greeted, asks>>
    BY DEF Tell
<1>2. wire' \in [Sockets -> Seq(Frames)]
    BY <1>1 DEF LinkType
<1>3. LinkType'
    BY <1>1, <1>2 DEF LinkType, client
<1>4. OneLink'
    BY <1>1 DEF OneLink, Holds, client
<1>5. OneAsk'
    BY <1>1 DEF OneAsk
<1>6. InStep'
    <2>1. SUFFICES ASSUME Opened', ~murky' PROVE InStep'
        BY DEF InStep
    <2>2. Opened /\ ~murky /\ ~SettingUp
        BY <1>1, <2>1 DEF Opened, client
    <2>3. ~Asking /\ socket \in greeted /\ ~store.connectScenarioPending
        BY <2>2 DEF SettingUp, Asking, Opened
    <2>4. PICK r \in Nat : Leads(pending, store.activeFaults, r) /\ Leads(wire[socket], r, faults)
        BY <2>2, <2>3 DEF InStep
    <2>5. socket \in Sockets /\ wire[socket] \in Seq(Frames)
        BY <2>2 DEF Opened, LinkType
    <2>6. wire'[socket] = Append(wire[socket], f)
        BY <1>1, <2>2, <2>3, <2>5 DEF Listening, Opened
    <2>7. Leads(wire'[socket], r, faults')
        BY <2>4, <2>5, <2>6, LeadsOneMore
    <2>8. socket' = socket /\ pending' = pending /\ store' = store /\ greeted' = greeted /\ asks' = asks
        BY <1>1 DEF client
    <2>9. ~Asking'
        BY <2>3, <2>8 DEF Asking
    <2>10. QED
        BY <2>3, <2>4, <2>7, <2>8, <2>9 DEF InStep, Asking
<1>7. QED
    BY <1>3, <1>4, <1>5, <1>6

LEMMA FaultsKeep ==
    ASSUME LinkInv, Inject \/ ClearAll \/ NewRun
    PROVE  LinkInv'
<1>1. Injected \in Frames /\ Cleared \in Frames /\ ScenarioFrame \in Frames
      /\ Injected \in Events /\ Cleared \in Events /\ Injected # Cleared /\ ScenarioFrame # Injected
    BY FramesDiffer DEF Frames, Events
<1>2. faults \in 0..MaxFaults /\ log \in Seq(Events) /\ MaxFaults \in Nat
    BY LinkAssumption DEF LinkInv, LinkType
<1>3. CASE Inject
    <2>1. faults' = After(Injected, faults) /\ faults' \in 0..MaxFaults
        BY <1>2, <1>3 DEF Inject, After
    <2>2. log' \in Seq(Events)
        BY <1>1, <1>2, <1>3 DEF Inject
    <2>3. Tell(Injected) /\ murky' = (murky \/ SettingUp) /\ UNCHANGED <<client, life, greeted, asks>>
        BY <1>3 DEF Inject
    <2>4. QED
        BY <1>1, <2>1, <2>2, <2>3, TellKeeps
<1>4. CASE ClearAll
    <2>1. faults' = After(Cleared, faults) /\ faults' \in 0..MaxFaults
        BY <1>1, <1>2, <1>4 DEF ClearAll, After
    <2>2. log' \in Seq(Events)
        BY <1>1, <1>2, <1>4 DEF ClearAll
    <2>3. Tell(Cleared) /\ murky' = (murky \/ SettingUp) /\ UNCHANGED <<client, life, greeted, asks>>
        BY <1>4 DEF ClearAll
    <2>4. QED
        BY <1>1, <2>1, <2>2, <2>3, TellKeeps
<1>5. CASE NewRun
    <2>1. faults' = After(ScenarioFrame, faults) /\ faults' \in 0..MaxFaults
        BY <1>1, <1>2, <1>5 DEF NewRun, After
    <2>2. log' \in Seq(Events)
        BY <1>5 DEF NewRun
    <2>3. Tell(ScenarioFrame) /\ murky' = (murky \/ SettingUp) /\ UNCHANGED <<client, life, greeted, asks>>
        BY <1>5 DEF NewRun
    <2>4. QED
        BY <1>1, <2>1, <2>2, <2>3, TellKeeps
<1>6. QED
    BY <1>3, <1>4, <1>5

LEMMA FirstTickKeeps ==
    ASSUME LinkInv, NEW s \in Sockets, FirstTick(s)
    PROVE  LinkInv'
<1> USE DEF LinkInv
<1>1. /\ life[s] = "open" /\ s \notin greeted /\ greeted' = greeted \union {s}
      /\ wire' = [wire EXCEPT ![s] = <<ScenarioFrame>> \o log]
      /\ murky' = (murky \/ (s = socket /\ log # <<>>))
      /\ UNCHANGED <<client, life, asks, server>>
    BY DEF FirstTick
<1>2. s = socket /\ s # None
    BY <1>1, LinkAssumption DEF OneLink, Holds
<1>3. <<ScenarioFrame>> \o log \in Seq(Frames)
    <2>1. log \in Seq(Frames) /\ <<ScenarioFrame>> \in Seq(Frames)
        <3>1. Events \subseteq Frames /\ ScenarioFrame \in Frames
            BY DEF Events, Frames
        <3>2. log \in Seq(Events)
            BY DEF LinkType
        <3>3. QED
            BY <3>1, <3>2, SeqMonotonic
    <2>2. QED
        BY <2>1, ConcatProperties
<1>4. wire' \in [Sockets -> Seq(Frames)] /\ wire'[s] = <<ScenarioFrame>> \o log
    BY <1>1, <1>3 DEF LinkType
<1>5. LinkType'
    BY <1>1, <1>4 DEF LinkType, client, server
<1>6. OneLink'
    BY <1>1 DEF OneLink, Holds, client
<1>7. OneAsk'
    BY <1>1 DEF OneAsk
<1>8. InStep'
    <2>1. SUFFICES ASSUME ~murky' PROVE InStep'
        BY DEF InStep
    <2>2. ~murky /\ log = <<>>
        BY <1>1, <1>2, <2>1
    <2>3. /\ store.connectScenarioPending /\ Nothing
          /\ \A a \in asks : a.sock = socket /\ a.answer # None => a.answer = faults
          /\ ~Asking => store.activeFaults = faults
        BY <1>1, <1>2, <2>2 DEF InStep, Opened
    <2>4. wire'[s] = <<ScenarioFrame>>
        <3>1. ScenarioFrame \in Frames
            BY DEF Frames
        <3>2. <<ScenarioFrame>> \in Seq(Frames)
            BY <3>1
        <3>3. QED
            BY <1>4, <2>2, <3>2, ConcatEmptySeq
    <2>5. socket' = s /\ pending' = <<>> /\ store' = store /\ asks' = asks /\ faults' = faults /\ socket' \in greeted'
        BY <1>1, <1>2, <2>3 DEF client, server, Nothing
    <2>6. Asking' <=> Asking
        BY <1>2, <2>5 DEF Asking
    <2>7. QED
        BY <1>2, <2>3, <2>4, <2>5, <2>6 DEF InStep
<1>9. QED
    BY <1>5, <1>6, <1>7, <1>8

\* The server or the network goes away.
LEMMA LossKeeps ==
    ASSUME LinkInv,
           life' = [s \in Sockets |-> IF s = socket /\ Holds(s) THEN "closing" ELSE life[s]]
             \/ \E s \in Sockets : life[s] = "connecting" /\ life' = [life EXCEPT ![s] = "closing"],
           UNCHANGED <<client, wire, greeted, asks, faults, log, murky>>
    PROVE  LinkInv'
<1> USE DEF LinkInv
<1>1. /\ life' \in [Sockets -> {"unused", "connecting", "open", "closing"}]
      /\ \A q \in Sockets : life'[q] = life[q] \/ (Holds(q) /\ life'[q] = "closing")
    BY DEF LinkType, Holds
<1>2. LinkType'
    BY <1>1 DEF LinkType, client
<1>3. OneLink'
    <2>1. \A q \in Sockets : Holds(q)' => Holds(q)
        BY <1>1 DEF Holds
    <2>2. socket # None => socket \in Sockets
        BY DEF LinkType
    <2>3. socket # None => life'[socket] = life[socket] \/ (Holds(socket) /\ life'[socket] = "closing")
        BY <1>1, <2>2
    <2>4. /\ timers # {} => life'[socket] = "unused"
          /\ batchTimer => life'[socket] \in {"open", "closing"}
          /\ socket # None /\ life'[socket] = "open" => batchTimer
        BY <2>3 DEF OneLink, Holds
    <2>5. QED
        BY <2>1, <2>4 DEF OneLink, client
<1>4. OneAsk'
    <2>1. \A a \in asks : a.sock \in Sockets
        BY DEF LinkType
    <2>2. QED
        BY <1>1, <2>1 DEF OneAsk
<1>5. InStep'
    <2>1. Opened' => Opened
        BY <1>1 DEF Opened, client, LinkType
    <2>2. QED
        BY <2>1 DEF InStep, Asking, Nothing, client
<1>6. QED
    BY <1>2, <1>3, <1>4, <1>5

LEMMA NetKeeps ==
    ASSUME LinkInv, GoDown \/ (\E s \in Sockets : Refuse(s)) \/ ComeUp \/ Forget \/ UNCHANGED vars
    PROVE  LinkInv'
<1> USE DEF LinkInv
<1>1. CASE GoDown
    <2>1. \A s \in Sockets : Holds(s) => s = socket
        BY DEF OneLink
    <2>2. life' = [s \in Sockets |-> IF s = socket /\ Holds(s) THEN "closing" ELSE life[s]]
        BY <1>1, <2>1, Zenon DEF GoDown
    <2>3. UNCHANGED <<client, wire, greeted, asks, faults, log, murky>>
        BY <1>1 DEF GoDown
    <2>4. QED
        BY <2>2, <2>3, LossKeeps
<1>2. CASE \E s \in Sockets : Refuse(s)
    <2>1. PICK s \in Sockets : Refuse(s)
        BY <1>2
    <2>2. UNCHANGED <<client, wire, greeted, asks, faults, log, murky>>
        BY <2>1 DEF Refuse, server
    <2>3. QED
        BY <2>1, <2>2, LossKeeps DEF Refuse
<1>3. CASE ComeUp \/ Forget \/ UNCHANGED vars
    <2>1. UNCHANGED <<client, net, asks, faults, murky>> /\ log' \in Seq(Events)
        <3>1. log \in Seq(Events)
            BY DEF LinkType
        <3>2. Forget => Tail(log) \in Seq(Events)
            BY <3>1, HeadTailProperties DEF Forget
        <3>3. QED
            BY <1>3, <3>1, <3>2 DEF ComeUp, Forget, vars, server
    <2>2. LinkType'
        BY <2>1 DEF LinkType, client, net
    <2>3. OneLink'
        BY <2>1 DEF OneLink, Holds, client, net
    <2>4. OneAsk' /\ InStep'
        BY <2>1 DEF OneAsk, InStep, Opened, Asking, Nothing, client, net
    <2>5. QED
        BY <2>2, <2>3, <2>4
<1>4. QED
    BY <1>1, <1>2, <1>3

LEMMA AnswerKeeps ==
    ASSUME LinkInv, NEW a \in asks, Answer(a)
    PROVE  LinkInv'
<1> USE DEF LinkInv
<1>1. PICK b : b = [a EXCEPT !.answer = faults]
    OBVIOUS
<1>2. a.answer = None /\ asks' = (asks \ {a}) \union {b} /\ UNCHANGED <<client, net, server, murky>>
    BY <1>1 DEF Answer
<1>3. b \in [sock : Sockets, answer : (0..MaxFaults) \union {None}] /\ b.sock = a.sock /\ b.answer = faults
    BY <1>1 DEF LinkType
<1>4. LinkType'
    <2>1. asks' \subseteq [sock : Sockets, answer : (0..MaxFaults) \union {None}]
        BY <1>2, <1>3 DEF LinkType
    <2>2. QED
        BY <1>2, <2>1 DEF LinkType, client, net, server
<1>5. OneLink'
    BY <1>2 DEF OneLink, Holds, client, net
<1>6. \A x \in asks' : x = b \/ (x \in asks /\ x # a)
    BY <1>2
<1>7. OneAsk'
    <2>1. \A x \in asks' : x # b => x.sock # b.sock
        BY <1>3, <1>6 DEF OneAsk
    <2>2. \A x \in asks' : life[x.sock] # "connecting"
        BY <1>3, <1>6 DEF OneAsk
    <2>3. QED
        BY <1>2, <1>6, <2>1, <2>2 DEF OneAsk, net
<1>8. InStep'
    <2>1. Asking' <=> Asking
        BY <1>2, <1>3, <1>6 DEF Asking, client
    <2>2. SUFFICES ASSUME Opened', ~murky' PROVE InStep'
        BY DEF InStep
    <2>3. Opened /\ ~murky
        BY <1>2, <2>2 DEF Opened, client, net
    <2>4. \A x \in asks' : x.sock = socket /\ x.answer # None => x.answer = faults
        BY <1>3, <1>6, <2>3 DEF InStep
    <2>5. QED
        BY <1>2, <2>1, <2>3, <2>4 DEF InStep, Nothing, client, net, server
<1>9. QED
    BY <1>4, <1>5, <1>7, <1>8

LEMMA LinkStep == LinkInv /\ [Next]_vars => LinkInv'
<1> SUFFICES ASSUME LinkInv, [Next]_vars PROVE LinkInv'
    OBVIOUS
<1>1. CASE Client
    BY <1>1, OnOpenKeeps, OnMessageKeeps, OnCloseKeeps, ReconnectKeeps, BatchTickKeeps, FaultActiveKeeps,
       FaultActiveFailsKeeps DEF Client
<1>2. CASE Pages
    BY <1>2, BootLiveKeeps, LeaveKeeps DEF Pages
<1>3. CASE Server
    BY <1>3, FirstTickKeeps, FaultsKeep, NetKeeps, AnswerKeeps DEF Server
<1>4. CASE UNCHANGED vars
    BY <1>4, NetKeeps
<1>5. QED
    BY <1>1, <1>2, <1>3, <1>4 DEF Next

----------------------------------------------------------------------------
(* What follows.                                                            *)

LEMMA LinkAlways == Spec => []LinkInv
BY InitLink, LinkStep, PTL DEF Spec

\* One socket while the live page is open, and away from it no socket, no timeout that would open one and
\* no flush that runs, however late closes, timeouts and answers come (websocket.ts:55, actions.ts:225).
THEOREM LinkIsOfThePage == Spec => []LinkOfThePage
<1>1. LinkInv => LinkOfThePage
    <2> SUFFICES ASSUME LinkInv PROVE LinkOfThePage
        OBVIOUS
    <2>1. PICK H : H = {s \in Sockets : Holds(s)}
        OBVIOUS
    <2>2. H \subseteq {socket} /\ (page # "live" => H = {})
        BY <2>1, LinkAssumption DEF LinkInv, OneLink
    <2>3. Cardinality(H) <= (IF page = "live" THEN 1 ELSE 0)
        <3>1. Cardinality({socket}) = 1 /\ Cardinality({}) = 0
            BY FS_Singleton, FS_EmptySet
        <3>2. H = {} \/ H = {socket}
            BY <2>2
        <3>3. QED
            BY <2>2, <3>1, <3>2
    <2>4. page # "live" => timers = {} /\ intervals = 0 /\ ~store.connected
        BY DEF LinkInv, OneLink
    <2>5. QED
        BY <2>1, <2>3, <2>4 DEF LinkOfThePage
<1>2. QED
    BY <1>1, LinkAlways, PTL

\* The pill says LIVE just while the connection is open as far as the page can know, and when all that was
\* sent has arrived the badge counts the server's faults, for any number of frames under way and faults.
THEOREM LinkIsTrue == Spec => []LinkReadsTrue
<1>1. LinkInv => LinkReadsTrue
    <2> SUFFICES ASSUME LinkInv PROVE LinkReadsTrue
        OBVIOUS
    <2>1. PillTellsTruth
        BY DEF LinkInv, OneLink, PillTellsTruth
    <2>2. ASSUME Quiet, ~murky PROVE store.activeFaults = faults
        <3>1. Opened /\ ~Asking /\ socket \in greeted /\ wire[socket] = <<>> /\ pending = <<>>
            BY <2>2 DEF Quiet, Opened, Asking
        <3>2. ~store.connectScenarioPending
            BY <2>2, <3>1 DEF LinkInv, InStep
        <3>3. PICK r \in Nat : Leads(pending, store.activeFaults, r) /\ Leads(wire[socket], r, faults)
            BY <2>2, <3>1, <3>2 DEF LinkInv, InStep
        <3>4. store.activeFaults \in Nat
            BY LinkAssumption DEF LinkInv, LinkType
        <3>5. r = store.activeFaults /\ faults = r
            BY <3>1, <3>3, <3>4, LeadsNowhere
        <3>6. QED
            BY <3>5
    <2>3. QED
        BY <2>1, <2>2 DEF LinkReadsTrue, CountWhenCalm
<1>2. QED
    BY <1>1, LinkAlways, PTL

=============================================================================
