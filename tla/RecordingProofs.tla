----------------------------- MODULE RecordingProofs -----------------------------
(***************************************************************************)
(* What a recording holds and what its readers make of it (Recording), for *)
(* any peers, times, frames and acts: the invariant of the lines with the  *)
(* player that has played them (TapeInv), and from it, one by one, that    *)
(* the readers agree.  The theorem is in PanelsProofs.                     *)
(***************************************************************************)
EXTENDS Recording, TLAPS, FiniteSetTheorems, SequenceTheorems, WellFoundedInduction

----------------------------------------------------------------------------
(* Induction.  The library's induction theorems take a predicate; here one  *)
(* is given as the set of the numbers that satisfy it.                      *)

\* Numbers that include 0 and are closed under steps are all.
LEMMA NumbersBySteps ==
    ASSUME NEW S \in SUBSET Nat, 0 \in S, \A n \in S : n + 1 \in S
    PROVE  S = Nat
<1> DEFINE T == Nat \ S
<1>1. ASSUME T # {} PROVE FALSE
    <2>1. PICK x \in T : \A y \in T : ~(<<y, x>> \in OpToRel(<, Nat))
        BY <1>1, WFMin, NatLessThanWellFounded
    <2>2. x \in Nat /\ x # 0
        OBVIOUS
    <2>3. x - 1 \in Nat /\ x - 1 < x /\ (x - 1) + 1 = x
        BY <2>2
    <2>4. <<x - 1, x>> \in OpToRel(<, Nat)
        BY <2>2, <2>3 DEF OpToRel
    <2>5. x - 1 \in S
        BY <2>1, <2>3, <2>4
    <2>6. QED
        BY <2>3, <2>5
<1>2. QED
    BY <1>1

\* Some numbers have a least one.
LEMMA LeastNumber ==
    ASSUME NEW S \in SUBSET Nat, S # {}
    PROVE  \E x \in S : \A y \in S : x <= y
<1>1. PICK x \in S : \A y \in S : ~(<<y, x>> \in OpToRel(<, Nat))
    BY WFMin, NatLessThanWellFounded
<1>2. ASSUME NEW y \in S PROVE x <= y
    <2>1. x \in Nat /\ y \in Nat
        OBVIOUS
    <2>2. ~(y < x)
        BY <1>1, <2>1 DEF OpToRel
    <2>3. QED
        BY <2>1, <2>2
<1>3. QED
    BY <1>2

\* Some numbers up to n have a greatest one.
LEMMA GreatestNumber ==
    ASSUME NEW n \in Nat, NEW S \in SUBSET (0..n), S # {}
    PROVE  \E x \in S : \A y \in S : y <= x
<1> DEFINE T == {n - x : x \in S}
<1>1. T \in SUBSET Nat /\ T # {}
    <2>1. \A x \in S : n - x \in Nat
        OBVIOUS
    <2>2. \A t \in T : t \in Nat
        BY <2>1
    <2>3. T # {}
        OBVIOUS
    <2>4. QED
        BY <2>2, <2>3
<1>2. PICK t \in T : \A y \in T : t <= y
    BY <1>1, LeastNumber
<1>3. PICK x \in S : t = n - x
    OBVIOUS
<1>4. ASSUME NEW y \in S PROVE y <= x
    <2>1. n - y \in T
        OBVIOUS
    <2>2. t <= n - y /\ x \in Int /\ y \in Int
        BY <1>2, <2>1
    <2>3. QED
        BY <1>3, <2>2
<1>5. QED
    BY <1>4

\* Their Min is the least of some numbers.
LEMMA LeastIsMin ==
    ASSUME NEW S \in SUBSET Nat, S # {}
    PROVE  Min(S) \in S /\ \A y \in S : Min(S) <= y
<1>1. \E x \in S : \A y \in S : x <= y
    BY LeastNumber
<1>2. QED
    BY <1>1, Zenon DEF Min

\* The last of some numbers up to n + 1, n + 1 among them.
LEMMA LastIsMax ==
    ASSUME NEW n \in Nat, NEW s, s \subseteq 1..(n + 1), n + 1 \in s
    PROVE  Max(s) = n + 1
<1>1. \A y \in s : n + 1 >= y
    OBVIOUS
<1>2. \E x \in s : \A y \in s : x >= y
    BY <1>1
<1>3. Max(s) \in s /\ \A y \in s : Max(s) >= y
    BY <1>2, Zenon DEF Max
<1>4. PICK m : m = Max(s)
    OBVIOUS
<1>5. m \in 1..(n + 1) /\ m >= n + 1
    BY <1>3, <1>4
<1>6. QED
    BY <1>4, <1>5

\* A sequence with one element more.
LEMMA Appended ==
    ASSUME NEW S, NEW s \in Seq(S), NEW x \in S
    PROVE  /\ Append(s, x) \in Seq(S)
           /\ Len(Append(s, x)) = Len(s) + 1 /\ Len(s) \in Nat
           /\ Append(s, x)[Len(s) + 1] = x
           /\ \A i \in 1..Len(s) : Append(s, x)[i] = s[i]
    OBVIOUS

----------------------------------------------------------------------------
(* The store as a fold over the lines.                                      *)

\* What the player folds over sequences: events into the store, frames into a channel.
Does(k, x, y) ==
    CASE k = "event" -> App!ApplyEvent(x, y)
      [] k = "frame" -> App!DispatchFrame(x, y)

Dispatched(ch, q) == App!FoldLeft(App!DispatchFrame, ch, q)

\* The fold over the first n elements, as the library computes it.
PlayFold(k, it, s, q, n) ==
    /\ it = [t \in SUBSET (1..n) |-> it[t]]
    /\ \A t \in SUBSET (1..n) : it[t] = IF t = {} THEN s ELSE Does(k, it[t \ {Max(t)}], q[Max(t)])

\* Folding from any start has a result.
LEMMA PlayFoldExists ==
    ASSUME NEW k, NEW s, NEW q
    PROVE  \A n \in Nat : \E it : PlayFold(k, it, s, q, n)
<1> DEFINE S == {n \in Nat : \E it : PlayFold(k, it, s, q, n)}
<1>1. 0 \in S
    <2>1. PICK it : it = [t \in SUBSET (1..0) |-> s]
        OBVIOUS
    <2>2. \A t \in SUBSET (1..0) : t = {}
        OBVIOUS
    <2>3. PlayFold(k, it, s, q, 0)
        BY <2>1, <2>2 DEF PlayFold
    <2>4. QED
        BY <2>3
<1>2. ASSUME NEW n \in S PROVE n + 1 \in S
    <2>1. PICK old : PlayFold(k, old, s, q, n)
        OBVIOUS
    <2>2. PICK it : it = [t \in SUBSET (1..(n + 1)) |->
                            IF n + 1 \in t THEN Does(k, old[t \ {n + 1}], q[n + 1]) ELSE old[t]]
        OBVIOUS
    <2>3. \A t \in SUBSET (1..n) : t \in SUBSET (1..(n + 1)) /\ n + 1 \notin t /\ it[t] = old[t]
        BY <2>2
    <2>4. ASSUME NEW t \in SUBSET (1..(n + 1))
          PROVE  it[t] = IF t = {} THEN s ELSE Does(k, it[t \ {Max(t)}], q[Max(t)])
        <3>1. CASE n + 1 \in t
            <4>1. Max(t) = n + 1
                BY <3>1, LastIsMax
            <4>2. t \ {n + 1} \in SUBSET (1..n) /\ t # {}
                BY <3>1
            <4>3. it[t] = Does(k, old[t \ {n + 1}], q[n + 1])
                BY <2>2, <3>1
            <4>4. QED
                BY <2>3, <4>1, <4>2, <4>3
        <3>2. CASE n + 1 \notin t
            <4>1. t \in SUBSET (1..n) /\ t \ {Max(t)} \in SUBSET (1..n)
                <5>1. n \in Nat
                    OBVIOUS
                <5>2. ASSUME NEW i \in t PROVE i \in 1..n
                    BY <3>2, <5>1
                <5>3. QED
                    BY <5>2
            <4>2. old[t] = IF t = {} THEN s ELSE Does(k, old[t \ {Max(t)}], q[Max(t)])
                BY <2>1, <4>1 DEF PlayFold
            <4>3. QED
                BY <2>3, <4>1, <4>2
        <3>3. QED
            BY <3>1, <3>2
    <2>5. PlayFold(k, it, s, q, n + 1)
        <3>1. it = [t \in SUBSET (1..(n + 1)) |-> it[t]]
            BY <2>2
        <3>2. QED
            BY <2>4, <3>1 DEF PlayFold
    <2>6. QED
        BY <2>5
<1>3. S = Nat
    <2> HIDE DEF S
    <2>1. S \in SUBSET Nat
        BY DEF S
    <2>2. QED
        BY <1>1, <1>2, <2>1, NumbersBySteps
<1>4. QED
    BY <1>3

\* x comes of s by the elements of q, one after the other; g has what there is after each.
Walks(k, g, s, q) ==
    g[0] = s /\ \A n \in 0..(Len(q) - 1) : g[n + 1] = Does(k, g[n], q[n + 1])
LeadsTo(k, s, q, x) == \E g : Walks(k, g, s, q) /\ x = g[Len(q)]

\* The library's fold is what f leads to.
LEMMA FoldedLeads ==
    ASSUME NEW k, NEW s, NEW E, NEW q \in Seq(E), NEW it, PlayFold(k, it, s, q, Len(q))
    PROVE  LeadsTo(k, s, q, it[1..Len(q)])
<1> DEFINE N == Len(q)
<1>1. N \in Nat
    OBVIOUS
<1>2. PICK g : g = [n \in Nat |-> it[1..n]]
    OBVIOUS
<1> HIDE DEF N
<1>3. g[0] = s
    <2>1. 1..0 = {} /\ {} \in SUBSET (1..N)
        OBVIOUS
    <2>2. QED
        BY <1>2, <2>1 DEF PlayFold, N
<1>4. ASSUME NEW n \in 0..(N - 1) PROVE g[n + 1] = Does(k, g[n], q[n + 1])
    <2>1. /\ n \in Nat /\ n + 1 \in Nat
          /\ 1..(n + 1) \in SUBSET (1..N) /\ 1..(n + 1) # {} /\ (1..(n + 1)) \ {n + 1} = 1..n
        <3>1. n \in Nat /\ n + 1 \in 1..N
            BY <1>1
        <3>2. \A i \in 1..(n + 1) : i \in 1..N
            BY <1>1, <3>1
        <3>3. n + 1 \in 1..(n + 1) /\ n + 1 \in Nat
            BY <3>1
        <3>4. (1..(n + 1)) \ {n + 1} = 1..n
            BY <3>1
        <3>5. QED
            BY <3>1, <3>2, <3>3, <3>4
    <2>2. Max(1..(n + 1)) = n + 1
        BY <2>1, LastIsMax
    <2>3. it[1..(n + 1)] = Does(k, it[(1..(n + 1)) \ {Max(1..(n + 1))}], q[Max(1..(n + 1))])
        BY <2>1 DEF PlayFold, N
    <2>4. QED
        BY <1>2, <2>1, <2>2, <2>3
<1>5. g[N] = it[1..N]
    BY <1>1, <1>2
<1>6. QED
    BY <1>3, <1>4, <1>5 DEF LeadsTo, Walks, N

LEMMA EventsFold ==
    ASSUME NEW s, NEW E, NEW q \in Seq(E)
    PROVE  LeadsTo("event", s, q, App!ApplyEvents(s, q))
<1>1. Len(q) \in Nat /\ DOMAIN q = 1..Len(q)
    OBVIOUS
<1>2. PICK any : any = CHOOSE it :
                 it = [t \in SUBSET (1..Len(q)) |-> IF t = {} THEN s ELSE App!ApplyEvent(it[t \ {Max(t)}], q[Max(t)])]
    OBVIOUS
<1>3. App!ApplyEvents(s, q) = any[1..Len(q)]
    BY <1>1, <1>2, Zenon DEF App!ApplyEvents, App!FoldLeft, App!MapThenFoldSet, App!Max, Max
<1>4. \A x, y : Does("event", x, y) = App!ApplyEvent(x, y)
    BY DEF Does
<1>5. PICK it : PlayFold("event", it, s, q, Len(q))
    BY <1>1, PlayFoldExists
<1>6. it = [t \in SUBSET (1..Len(q)) |-> IF t = {} THEN s ELSE App!ApplyEvent(it[t \ {Max(t)}], q[Max(t)])]
    BY <1>4, <1>5 DEF PlayFold
<1>7. any = [t \in SUBSET (1..Len(q)) |-> IF t = {} THEN s ELSE App!ApplyEvent(any[t \ {Max(t)}], q[Max(t)])]
    BY <1>2, <1>6, Zenon
<1>8. PlayFold("event", any, s, q, Len(q))
    BY <1>4, <1>7 DEF PlayFold
<1>9. QED
    BY <1>3, <1>8, FoldedLeads

LEMMA FramesFold ==
    ASSUME NEW s, NEW E, NEW q \in Seq(E)
    PROVE  LeadsTo("frame", s, q, Dispatched(s, q))
<1>1. Len(q) \in Nat /\ DOMAIN q = 1..Len(q)
    OBVIOUS
<1>2. PICK any : any = CHOOSE it :
                 it = [t \in SUBSET (1..Len(q)) |-> IF t = {} THEN s ELSE App!DispatchFrame(it[t \ {Max(t)}], q[Max(t)])]
    OBVIOUS
<1>3. Dispatched(s, q) = any[1..Len(q)]
    BY <1>1, <1>2, Zenon DEF Dispatched, App!FoldLeft, App!MapThenFoldSet, App!Max, Max
<1>4. \A x, y : Does("frame", x, y) = App!DispatchFrame(x, y)
    BY DEF Does
<1>5. PICK it : PlayFold("frame", it, s, q, Len(q))
    BY <1>1, PlayFoldExists
<1>6. it = [t \in SUBSET (1..Len(q)) |-> IF t = {} THEN s ELSE App!DispatchFrame(it[t \ {Max(t)}], q[Max(t)])]
    BY <1>4, <1>5 DEF PlayFold
<1>7. any = [t \in SUBSET (1..Len(q)) |-> IF t = {} THEN s ELSE App!DispatchFrame(any[t \ {Max(t)}], q[Max(t)])]
    BY <1>2, <1>6, Zenon
<1>8. PlayFold("frame", any, s, q, Len(q))
    BY <1>4, <1>7 DEF PlayFold
<1>9. QED
    BY <1>3, <1>8, FoldedLeads

\* There is one result.
LEMMA LeadsToOne ==
    ASSUME NEW k, NEW s, NEW E, NEW q \in Seq(E), NEW x, NEW y, LeadsTo(k, s, q, x), LeadsTo(k, s, q, y)
    PROVE  x = y
<1>1. PICK g : Walks(k, g, s, q) /\ x = g[Len(q)]
    BY DEF LeadsTo
<1>2. PICK h : Walks(k, h, s, q) /\ y = h[Len(q)]
    BY DEF LeadsTo
<1> DEFINE S == {n \in Nat : n <= Len(q) => g[n] = h[n]}
<1>3. 0 \in S
    BY <1>1, <1>2 DEF Walks
<1>4. ASSUME NEW n \in S PROVE n + 1 \in S
    <2>1. SUFFICES ASSUME n + 1 <= Len(q) PROVE g[n + 1] = h[n + 1]
        OBVIOUS
    <2>2. n \in 0..(Len(q) - 1) /\ g[n] = h[n]
        BY <2>1
    <2>3. QED
        BY <1>1, <1>2, <2>2 DEF Walks
<1>5. S = Nat
    <2>1. S \in SUBSET Nat
        OBVIOUS
    <2> HIDE DEF S
    <2>2. QED
        BY <1>3, <1>4, <2>1, NumbersBySteps
<1>6. Len(q) \in S
    BY <1>5
<1>7. QED
    BY <1>1, <1>2, <1>6

LEMMA LeadsNowhere ==
    ASSUME NEW k, NEW s, NEW x
    PROVE  LeadsTo(k, s, <<>>, x) => x = s
BY DEF LeadsTo, Walks

LEMMA LeadsOneMore ==
    ASSUME NEW k, NEW s, NEW E, NEW q \in Seq(E), NEW e \in E, NEW x, LeadsTo(k, s, q, x)
    PROVE  LeadsTo(k, s, Append(q, e), Does(k, x, e))
<1>1. PICK g : Walks(k, g, s, q) /\ x = g[Len(q)]
    BY DEF LeadsTo
<1> DEFINE N == Len(q)
<1>2. N \in Nat /\ Len(Append(q, e)) = N + 1
    OBVIOUS
<1>3. Append(q, e)[N + 1] = e /\ \A n \in 1..N : Append(q, e)[n] = q[n]
    OBVIOUS
<1> HIDE DEF N
<1>4. PICK h : h = [n \in Nat |-> IF n <= N THEN g[n] ELSE Does(k, x, e)]
    OBVIOUS
<1>5. h[0] = s
    BY <1>1, <1>2, <1>4 DEF Walks
<1>6. ASSUME NEW n \in 0..N PROVE h[n + 1] = Does(k, h[n], Append(q, e)[n + 1])
    <2>1. CASE n = N
        <3>1. h[n] = x
            BY <1>1, <1>2, <1>4, <2>1 DEF N
        <3>2. h[n + 1] = Does(k, x, e)
            BY <1>2, <1>4, <2>1
        <3>3. QED
            BY <1>3, <2>1, <3>1, <3>2
    <2>2. CASE n # N
        <3>1. n \in 0..(N - 1) /\ n + 1 \in 1..N /\ n \in Nat /\ n <= N
            BY <1>2, <2>2
        <3>2. h[n] = g[n] /\ h[n + 1] = g[n + 1]
            BY <1>2, <1>4, <3>1
        <3>3. g[n + 1] = Does(k, g[n], q[n + 1])
            BY <1>1, <3>1 DEF Walks, N
        <3>4. QED
            BY <1>3, <3>1, <3>2, <3>3
    <2>3. QED
        BY <2>1, <2>2
<1>7. h[N + 1] = Does(k, x, e)
    BY <1>2, <1>4
<1>8. Walks(k, h, s, Append(q, e))
    <2>1. (N + 1) - 1 = N
        BY <1>2
    <2>2. QED
        BY <1>2, <1>5, <1>6, <2>1 DEF Walks
<1>9. QED
    BY <1>2, <1>7, <1>8 DEF LeadsTo

\* So each of the two starts with nothing done and goes on by one step.
LEMMA NothingPlayed ==
    ASSUME NEW s
    PROVE  App!ApplyEvents(s, <<>>) = s /\ Dispatched(s, <<>>) = s
<1>1. <<>> \in Seq({})
    OBVIOUS
<1>2. App!ApplyEvents(s, <<>>) = s
    BY <1>1, EventsFold, LeadsNowhere
<1>3. Dispatched(s, <<>>) = s
    BY <1>1, FramesFold, LeadsNowhere
<1>4. QED
    BY <1>2, <1>3

\* One event more is applied to what those before it made.
LEMMA EventsOneMore ==
    ASSUME NEW s, NEW E, NEW q \in Seq(E), NEW e \in E
    PROVE  App!ApplyEvents(s, Append(q, e)) = App!ApplyEvent(App!ApplyEvents(s, q), e)
<1>1. <<>> \in Seq(E) /\ Append(q, e) \in Seq(E)
    OBVIOUS
<1>3. LeadsTo("event", s, Append(q, e), Does("event", App!ApplyEvents(s, q), e))
    BY EventsFold, LeadsOneMore
<1>4. LeadsTo("event", s, Append(q, e), App!ApplyEvents(s, Append(q, e)))
    BY <1>1, EventsFold
<1>5. App!ApplyEvents(s, Append(q, e)) = Does("event", App!ApplyEvents(s, q), e)
    <2>1. PICK x, y : x = App!ApplyEvents(s, Append(q, e)) /\ y = Does("event", App!ApplyEvents(s, q), e)
        OBVIOUS
    <2>2. PICK p : p = Append(q, e)
        OBVIOUS
    <2>3. p \in Seq(E) /\ LeadsTo("event", s, p, x) /\ LeadsTo("event", s, p, y)
        BY <1>1, <1>3, <1>4, <2>1, <2>2
    <2>4. x = y
        BY <2>3, LeadsToOne
    <2>5. QED
        BY <2>1, <2>4
<1>6. QED
    BY <1>5 DEF Does

\* One frame more is shown after those before it.
LEMMA FramesOneMore ==
    ASSUME NEW s, NEW E, NEW q \in Seq(E), NEW e \in E
    PROVE  Dispatched(s, Append(q, e)) = App!DispatchFrame(Dispatched(s, q), e)
<1>1. <<>> \in Seq(E) /\ Append(q, e) \in Seq(E)
    OBVIOUS
<1>3. LeadsTo("frame", s, Append(q, e), Does("frame", Dispatched(s, q), e))
    BY FramesFold, LeadsOneMore
<1>4. LeadsTo("frame", s, Append(q, e), Dispatched(s, Append(q, e)))
    BY <1>1, FramesFold
<1>5. Dispatched(s, Append(q, e)) = Does("frame", Dispatched(s, q), e)
    <2>1. PICK x, y : x = Dispatched(s, Append(q, e)) /\ y = Does("frame", Dispatched(s, q), e)
        OBVIOUS
    <2>2. PICK p : p = Append(q, e)
        OBVIOUS
    <2>3. p \in Seq(E) /\ LeadsTo("frame", s, p, x) /\ LeadsTo("frame", s, p, y)
        BY <1>1, <1>3, <1>4, <2>1, <2>2
    <2>4. x = y
        BY <2>3, LeadsToOne
    <2>5. QED
        BY <2>1, <2>4
<1>6. QED
    BY <1>5 DEF Does

\* Induction over sequences, over the set of those that satisfy a predicate.
LEMMA SequencesBySteps ==
    ASSUME NEW E, NEW T \in SUBSET Seq(E), <<>> \in T, \A q \in T, e \in E : Append(q, e) \in T
    PROVE  T = Seq(E)
<1> DEFINE S == {n \in Nat : \A q \in Seq(E) : Len(q) = n => q \in T}
<1>1. 0 \in S
    BY EmptySeq
<1>2. ASSUME NEW n \in S PROVE n + 1 \in S
    <2>1. SUFFICES ASSUME NEW q \in Seq(E), Len(q) = n + 1 PROVE q \in T
        OBVIOUS
    <2>2. q # <<>> /\ n \in Nat
        BY <2>1
    <2>3. PICK p \in Seq(E), e \in E : q = Append(p, e)
        BY <2>2, SequenceEmptyOrAppend
    <2>4. Len(p) = n
        BY <2>1, <2>2, <2>3, AppendProperties
    <2>5. p \in T
        BY <2>2, <2>4
    <2>6. QED
        BY <2>3, <2>5
<1>3. S = Nat
    <2>1. S \in SUBSET Nat
        OBVIOUS
    <2> HIDE DEF S
    <2>2. QED
        BY <1>1, <1>2, <2>1, NumbersBySteps
<1>4. ASSUME NEW q \in Seq(E) PROVE q \in T
    <2>1. Len(q) \in S
        BY <1>3
    <2>2. QED
        BY <2>1
<1>5. QED
    BY <1>4

\* What a frame does once its turn comes.
Displays(s, f) == IF f.type = "event" THEN App!ApplyEvent(s, f) ELSE App!ApplyTyped(s, f)

\* A channel stays a store with events that wait, whatever comes.
LEMMA ChannelShape ==
    ASSUME NEW s, NEW E, NEW q \in Seq(E)
    PROVE  LET ch == Dispatched(App!Channel(s), q)
           IN  ch = [store |-> ch.store, pending |-> ch.pending] /\ ch.pending \in Seq(E)
<1> DEFINE WellMade(ch) == ch = [store |-> ch.store, pending |-> ch.pending] /\ ch.pending \in Seq(E)
           T == {p \in Seq(E) : WellMade(Dispatched(App!Channel(s), p))}
<1>1. <<>> \in T
    <2>1. Dispatched(App!Channel(s), <<>>) = App!Channel(s)
        BY NothingPlayed
    <2>2. WellMade(App!Channel(s))
        BY DEF App!Channel
    <2>3. QED
        BY <2>1, <2>2
<1>2. ASSUME NEW p \in T, NEW e \in E PROVE Append(p, e) \in T
    <2>1. PICK ch : ch = Dispatched(App!Channel(s), p)
        OBVIOUS
    <2>2. p \in Seq(E) /\ WellMade(ch)
        BY <2>1
    <2>3. Dispatched(App!Channel(s), Append(p, e)) = App!DispatchFrame(ch, e)
        BY <2>1, <2>2, FramesOneMore
    <2>4. WellMade(App!DispatchFrame(ch, e))
        <3>1. CASE e.type = "event"
            <4>1. App!DispatchFrame(ch, e) = [store |-> ch.store, pending |-> Append(ch.pending, e)]
                BY <2>2, <3>1 DEF App!DispatchFrame
            <4>2. QED
                BY <2>2, <4>1
        <3>2. CASE e.type # "event"
            BY <3>2 DEF App!DispatchFrame, App!Channel
        <3>3. QED
            BY <3>1, <3>2
    <2>5. QED
        BY <2>2, <2>3, <2>4
<1>3. T = Seq(E)
    <2> HIDE DEF T
    <2>1. T \in SUBSET Seq(E)
        BY DEF T
    <2>2. QED
        BY <1>1, <1>2, <2>1, SequencesBySteps
<1>4. QED
    BY <1>3

\* Dispatching lines is folding them and flushing what waits.
LEMMA DispatchIs ==
    ASSUME NEW s, NEW q
    PROVE  App!DispatchAll(s, q) = App!FlushEvents(Dispatched(App!Channel(s), q)).store
BY Zenon DEF App!DispatchAll, Dispatched

\* Playing nothing changes nothing, and one frame more is shown after all before it.
LEMMA DispatchNothing ==
    ASSUME NEW s
    PROVE  App!DispatchAll(s, <<>>) = s
<1>1. Dispatched(App!Channel(s), <<>>) = App!Channel(s)
    BY NothingPlayed
<1>2. App!ApplyEvents(s, <<>>) = s
    BY NothingPlayed
<1>3. QED
    BY <1>1, <1>2, DispatchIs DEF App!FlushEvents, App!Channel

\* Dispatching one line more is showing it after the others and flushing.
LEMMA DispatchOneMore ==
    ASSUME NEW s, NEW E, NEW q \in Seq(E), NEW f \in E
    PROVE  App!DispatchAll(s, Append(q, f)) = Displays(App!DispatchAll(s, q), f)
<1>2. PICK ch : ch = Dispatched(App!Channel(s), q)
    OBVIOUS
<1>3. ch = [store |-> ch.store, pending |-> ch.pending] /\ ch.pending \in Seq(E)
    BY <1>2, ChannelShape
<1>4. App!DispatchAll(s, q) = App!ApplyEvents(ch.store, ch.pending)
    BY <1>2, DispatchIs DEF App!FlushEvents, App!Channel
<1>5. App!DispatchAll(s, Append(q, f)) = App!FlushEvents(App!DispatchFrame(ch, f)).store
    BY <1>2, FramesOneMore, DispatchIs
<1>6. CASE f.type = "event"
    <2>1. App!DispatchFrame(ch, f) = [store |-> ch.store, pending |-> Append(ch.pending, f)]
        BY <1>3, <1>6 DEF App!DispatchFrame
    <2>2. App!FlushEvents(App!DispatchFrame(ch, f)).store = App!ApplyEvents(ch.store, Append(ch.pending, f))
        BY <2>1 DEF App!FlushEvents, App!Channel
    <2>3. App!ApplyEvents(ch.store, Append(ch.pending, f)) = App!ApplyEvent(App!ApplyEvents(ch.store, ch.pending), f)
        BY <1>3, EventsOneMore
    <2>4. QED
        BY <1>4, <1>5, <1>6, <2>2, <2>3 DEF Displays
<1>7. CASE f.type # "event"
    <2>1. PICK t : t = App!ApplyTyped(App!ApplyEvents(ch.store, ch.pending), f)
        OBVIOUS
    <2>2. App!DispatchFrame(ch, f) = App!Channel(t)
        BY <1>7, <2>1 DEF App!DispatchFrame, App!FlushEvents, App!Channel
    <2>3. App!FlushEvents(App!Channel(t)).store = App!ApplyEvents(t, <<>>)
        BY DEF App!FlushEvents, App!Channel
    <2>4. App!ApplyEvents(t, <<>>) = t
        BY NothingPlayed
    <2>5. QED
        BY <1>4, <1>5, <1>7, <2>1, <2>2, <2>3, <2>4 DEF Displays
<1>8. QED
    BY <1>6, <1>7

----------------------------------------------------------------------------
(* What the lines do to the player's store.                                 *)

TapeEvents ==
    [type : {"event"}, kind : {"ClockTick", "SybilPruned"}, at : Nat]
    \cup [type : {"event"}, kind : {"ScenarioPhaseFired"}, at : Nat, label : {"inject", "clear"}]
    \cup [type : {"event"}, kind : {"FaultInjected", "FaultCleared"}, at : Nat, fault : {"sybil"}]

Pictured == {[p \in peers |-> IF p \in Sybils THEN "attacker" ELSE "idle"] : peers \in {Honest, Honest \cup Sybils}}

SnapshotLines == [type : {"snapshot"}, state : {"running"}, time : Nat, event_count : {0}, nodes : Pictured,
             layout : {"before", "run"}, pruned : SUBSET Sybils]

Statements == {Edges("before"), Edges("run"), Scenario(FALSE), Scenario(TRUE), Analytics(TRUE), Analytics(FALSE)}

TapeLines == TapeEvents \cup SnapshotLines \cup Statements

TapeBeats == [kind : {"fault", "cleared", "phase", "prune", "healed"},
              label : {"sybil", "First Sybil pruned", "inject", "clear", "Mesh healed"}, time : Nat]

\* A store as the player of a tape may have it.
Watches(s) ==
    /\ DOMAIN s = DOMAIN App!InitialStore
    /\ s.reel = None /\ s.selectedPeer = None /\ ~s.connectScenarioPending
    /\ DOMAIN s.narrator = {"pruned", "healFrom", "healed"} /\ s.narrator.healed \in BOOLEAN
    /\ s.beats \in Seq(TapeBeats) /\ s.activeFaults \in Nat /\ s.simTime \in Nat

\* What of it the readers compare is the same in t, but for the fields in `but`.
SameBut(t, s, but) ==
    /\ Watches(t)
    /\ "simTime" \notin but => t.simTime = s.simTime
    /\ "activeFaults" \notin but => t.activeFaults = s.activeFaults
    /\ "beats" \notin but => t.beats = s.beats
    /\ "healFrom" \notin but => t.narrator.healFrom = s.narrator.healFrom
    /\ "healed" \notin but => t.narrator.healed = s.narrator.healed

\* The fields of a store that a player of tapes has.
LEMMA ShapeOfStore ==
    {"connected", "connecting", "connectScenarioPending", "simState", "simTime", "eventCount", "playing",
     "nodes", "edges", "layoutMode", "geoAvailable", "geoAutoDone", "selectedPeer", "scoreHistory", "events",
     "droppedEvents", "activeFaults", "activeScenario", "maxDuration", "reel", "reelLoad", "mainnet", "metrics",
     "gossipAnalytics", "analyticsHistory", "beats", "caption", "phaseLabel", "invalidCount", "narrator"}
      \subseteq DOMAIN App!InitialStore
BY DEF App!InitialStore

LEMMA IdleIs ==
    LET n == App!NARRATOR_IDLE
    IN  DOMAIN n = {"pruned", "healFrom", "healed"} /\ n.healFrom = None /\ ~n.healed /\ n.healed \in BOOLEAN
BY DEF App!NARRATOR_IDLE

\* The empty store is one of them.
LEMMA StartsToWatch ==
    /\ Watches(App!InitialStore)
    /\ App!InitialStore.simTime = 0 /\ App!InitialStore.activeFaults = 0 /\ App!InitialStore.beats = <<>>
    /\ App!InitialStore.narrator.healFrom = None /\ ~App!InitialStore.narrator.healed
<1>1. PICK s : s = App!InitialStore
    OBVIOUS
<1>2. /\ s.reel = None /\ s.selectedPeer = None /\ s.connectScenarioPending = FALSE
      /\ s.simTime = 0 /\ s.activeFaults = 0 /\ s.beats = <<>> /\ s.narrator = App!NARRATOR_IDLE
    BY <1>1 DEF App!InitialStore
<1>3. QED
    BY <1>1, <1>2, IdleIs DEF Watches

LEMMA TapeLineIs ==
    ASSUME NEW l \in TapeLines
    PROVE  /\ l \in TapeEvents => l.type = "event" /\ l.at \in Nat
           /\ l \in SnapshotLines => l.type = "snapshot" /\ l.time \in Nat
           /\ l \in Statements => l.type \in {"edges", "scenario", "analytics"}
           /\ l.type = "event" => l \in TapeEvents
           /\ l.type = "snapshot" => l \in SnapshotLines
           /\ l.type = "edges" => l \in {Edges("before"), Edges("run")}
           /\ l.type = "scenario" => l \in {Scenario(FALSE), Scenario(TRUE)}
           /\ l.type = "analytics" => l \in {Analytics(TRUE), Analytics(FALSE)}
BY DEF TapeLines, TapeEvents, SnapshotLines, Statements, Edges, Scenario, Analytics

\* Edges: nothing the readers compare changes.
LEMMA EdgesAreShown ==
    ASSUME NEW s, Watches(s), NEW l \in TapeLines, l.type = "edges"
    PROVE  SameBut(Displays(s, l), s, {})
<1>1. Displays(s, l) = [s EXCEPT !.edges = l.edges]
    BY DEF Displays, App!ApplyTyped, App!ApplyEdges
<1>2. QED
    BY <1>1, ShapeOfStore DEF Watches, SameBut

\* A snapshot sets the clock.
LEMMA PictureIsShown ==
    ASSUME NEW s, Watches(s), NEW l \in TapeLines, l.type = "snapshot"
    PROVE  SameBut(Displays(s, l), s, {"simTime"}) /\ Displays(s, l).simTime = l.time
<1>1. PICK a : a = [s EXCEPT !.simState = l.state, !.playing = (l.state = "running")]
    OBVIOUS
<1>2. Displays(s, l) = [a EXCEPT !.nodes = l.nodes, !.eventCount = l.event_count, !.simTime = l.time,
                              !.geoAvailable = \E p \in DOMAIN l.nodes : ~App!IsSimPeer(p)]
    BY <1>1, Zenon DEF Displays, App!ApplyTyped, App!ApplySnapshot, App!TakeState, Watches
<1>3. l.time \in Nat
    BY TapeLineIs
<1>4. SameBut(a, s, {})
    BY <1>1, ShapeOfStore DEF Watches, SameBut
<1>5. QED
    BY <1>2, <1>3, <1>4, ShapeOfStore DEF Watches, SameBut

\* A scenario clears the beats and the narrator.
LEMMA ScenarioIsShown ==
    ASSUME NEW s, Watches(s), NEW l \in TapeLines, l.type = "scenario"
    PROVE  LET t == Displays(s, l)
           IN  /\ SameBut(t, s, {"activeFaults", "beats", "healFrom", "healed"})
               /\ t.activeFaults = 0 /\ t.beats = <<>> /\ t.narrator.healFrom = None /\ ~t.narrator.healed
<1>1. PICK n : n = App!ResetNarrator(s)
    OBVIOUS
<1>2. PICK r : r = [n EXCEPT !.activeScenario = IF l.active THEN l.name ELSE None,
                             !.maxDuration = IF l.active /\ l.duration > 0 THEN l.duration ELSE @]
    OBVIOUS
<1>3. /\ SameBut(n, s, {"beats", "healFrom", "healed"}) /\ n.beats = <<>>
      /\ n.narrator.healFrom = None /\ ~n.narrator.healed
    <2>1. PICK idle : idle = App!NARRATOR_IDLE
        OBVIOUS
    <2>2. n = [s EXCEPT !.beats = <<>>, !.caption = None, !.phaseLabel = None, !.invalidCount = 0,
                        !.narrator = idle]
        BY <1>1, <2>1 DEF App!ResetNarrator
    <2>3. DOMAIN idle = {"pruned", "healFrom", "healed"} /\ idle.healFrom = None /\ ~idle.healed /\ idle.healed \in BOOLEAN
        BY <2>1, IdleIs
    <2>4. QED
        BY <2>2, <2>3, ShapeOfStore DEF Watches, SameBut
<1>4. SameBut(r, n, {})
    BY <1>2, <1>3, ShapeOfStore DEF Watches, SameBut
<1>5. Displays(s, l) = [r EXCEPT !.activeFaults = 0]
    BY <1>1, <1>2, Zenon DEF Displays, App!ApplyTyped, App!ApplyScenario, Watches
<1>6. SameBut(Displays(s, l), r, {"activeFaults"}) /\ Displays(s, l).activeFaults = 0
    BY <1>4, <1>5, ShapeOfStore DEF Watches, SameBut
<1>7. QED
    BY <1>3, <1>4, <1>6 DEF SameBut

\* Analytics: the first whole mesh after a clear is a beat, at the clock's time.
LEMMA ReportIsShown ==
    ASSUME NEW s, Watches(s), NEW l \in TapeLines, l.type = "analytics"
    PROVE  LET t    == Displays(s, l)
               heal == s.narrator.healFrom # None /\ ~s.narrator.healed /\ l.delivered
           IN  /\ SameBut(t, s, {"beats", "healed"})
               /\ heal => t.narrator.healed /\ t.beats = Append(s.beats, App!Beat("healed", "Mesh healed", s.simTime))
               /\ ~heal => t.narrator.healed = s.narrator.healed /\ t.beats = s.beats
<1>1. PICK k : k = [s EXCEPT !.gossipAnalytics = l]
    OBVIOUS
<1>2. l.messages = TRUE
    <2>1. l = Analytics(TRUE) \/ l = Analytics(FALSE)
        BY TapeLineIs
    <2>2. QED
        BY <2>1 DEF Analytics
<1>3. PICK x : x = [k EXCEPT !.analyticsHistory = App!Newest(1, Append(@, s.simTime))]
    OBVIOUS
<1>4. SameBut(k, s, {})
    BY <1>1, ShapeOfStore DEF Watches, SameBut
<1>5. SameBut(x, k, {})
    BY <1>3, <1>4, ShapeOfStore DEF Watches, SameBut
<1>6. PICK b, c : b = App!Beat("healed", "Mesh healed", s.simTime)
                  /\ c = App!Caption("healed", s.simTime - s.narrator.healFrom, s.simTime)
    OBVIOUS
<1>7. Displays(s, l) = IF App!Heals(s, l)
                    THEN [x EXCEPT !.narrator.healed = TRUE, !.caption = c, !.beats = Append(@, b)]
                    ELSE x
    BY <1>1, <1>2, <1>3, <1>6, Zenon DEF Displays, App!ApplyTyped, App!ApplyAnalytics
<1>8. CASE App!Heals(s, l)
    <2>1. b \in TapeBeats
        BY <1>6 DEF App!Beat, TapeBeats, Watches
    <2>2. Displays(s, l) = [x EXCEPT !.narrator.healed = TRUE, !.caption = c, !.beats = Append(@, b)]
        BY <1>7, <1>8
    <2>3. PICK n : n = [x.narrator EXCEPT !.healed = TRUE]
        OBVIOUS
    <2>4. Displays(s, l) = [x EXCEPT !.narrator = n, !.caption = c, !.beats = Append(@, b)]
        BY <2>2, <2>3
    <2>5. DOMAIN n = {"pruned", "healFrom", "healed"} /\ n.healFrom = x.narrator.healFrom /\ n.healed /\ n.healed \in BOOLEAN
        BY <1>5, <2>3 DEF SameBut, Watches
    <2>6. /\ SameBut(Displays(s, l), x, {"beats", "healed"})
          /\ Displays(s, l).narrator.healed /\ Displays(s, l).beats = Append(x.beats, b)
        <3>1. PICK t : t = Displays(s, l)
            OBVIOUS
        <3>2. Watches(x)
            BY <1>5 DEF SameBut
        <3>3. /\ t.narrator = n /\ t.beats = Append(x.beats, b) /\ t.activeFaults = x.activeFaults
              /\ t.simTime = x.simTime /\ Append(x.beats, b) \in Seq(TapeBeats)
            BY <2>1, <2>4, <3>1, <3>2, ShapeOfStore DEF Watches
        <3>4. Watches(t)
            BY <2>4, <2>5, <3>1, <3>2, <3>3, ShapeOfStore DEF Watches
        <3>5. QED
            BY <2>5, <3>1, <3>3, <3>4 DEF SameBut
    <2>7. QED
        BY <1>4, <1>5, <1>6, <1>8, <2>6 DEF SameBut, App!Heals
<1>9. CASE ~App!Heals(s, l)
    BY <1>4, <1>5, <1>7, <1>9 DEF SameBut, App!Heals
<1>10. QED
    BY <1>8, <1>9

\* An event is logged and counted, whatever it is, and has its effect.
LEMMA EventIsShown ==
    ASSUME NEW s, Watches(s), NEW l \in TapeLines, l.type = "event"
    PROVE  \E a : SameBut(a, s, {}) /\ Displays(s, l) = App!Effect(a, l)
<1>1. PICK a : a = [s EXCEPT !.events = App!Newest(1, Append(@, l)), !.eventCount = @ + 1]
    OBVIOUS
<1>2. SameBut(a, s, {})
    BY <1>1, ShapeOfStore DEF Watches, SameBut
<1>3. Displays(s, l) = App!Effect(a, l)
    BY <1>1, Zenon DEF Displays, App!ApplyEvent
<1>4. QED
    BY <1>2, <1>3

\* A tick sets the clock.
LEMMA TickIsShown ==
    ASSUME NEW s, Watches(s), NEW l \in TapeLines, l.type = "event", l.kind = "ClockTick"
    PROVE  SameBut(Displays(s, l), s, {"simTime"}) /\ Displays(s, l).simTime = l.at
<1>1. PICK a : SameBut(a, s, {}) /\ Displays(s, l) = App!Effect(a, l)
    BY EventIsShown
<1>2. Displays(s, l) = [a EXCEPT !.simTime = l.at] /\ l.at \in Nat
    BY <1>1, TapeLineIs DEF App!Effect
<1>3. QED
    BY <1>1, <1>2, ShapeOfStore DEF Watches, SameBut

\* A phase that fires is a beat.
LEMMA PhaseIsShown ==
    ASSUME NEW s, Watches(s), NEW l \in TapeLines, l.type = "event", l.kind = "ScenarioPhaseFired"
    PROVE  /\ SameBut(Displays(s, l), s, {"beats"})
           /\ Displays(s, l).beats = Append(s.beats, App!Beat("phase", l.label, l.at))
<1>1. PICK a : SameBut(a, s, {}) /\ Displays(s, l) = App!Effect(a, l)
    BY EventIsShown
<1>2. PICK b, c : b = App!Beat("phase", l.label, l.at) /\ c = App!Caption("phase", l.label, l.at)
    OBVIOUS
<1>3. Displays(s, l) = [a EXCEPT !.phaseLabel = l.label, !.caption = c, !.beats = Append(@, b)]
    BY <1>1, <1>2, Zenon DEF App!Effect
<1>4. b \in TapeBeats
    BY <1>2, TapeLineIs DEF App!Beat, TapeBeats, TapeEvents
<1>5. QED
    BY <1>1, <1>2, <1>3, <1>4, ShapeOfStore DEF Watches, SameBut

\* The first prune is a beat.
LEMMA PruneIsShown ==
    ASSUME NEW s, Watches(s), NEW l \in TapeLines, l.type = "event", l.kind = "SybilPruned"
    PROVE  /\ SameBut(Displays(s, l), s, {"beats"})
           /\ \/ Displays(s, l).beats = s.beats
              \/ Displays(s, l).beats = Append(s.beats, App!Beat("prune", "First Sybil pruned", l.at))
<1>1. PICK a : SameBut(a, s, {}) /\ Displays(s, l) = App!Effect(a, l)
    BY EventIsShown
<1>2. PICK b, c : b = App!Beat("prune", "First Sybil pruned", l.at) /\ c = App!Caption("narrator", "pruned", l.at)
    OBVIOUS
<1>3. b \in TapeBeats
    BY <1>2, TapeLineIs DEF App!Beat, TapeBeats
<1>4. CASE a.narrator.pruned = None
    <2>1. Displays(s, l) = [a EXCEPT !.narrator.pruned = l.at, !.caption = c, !.beats = Append(@, b)]
        BY <1>1, <1>2, <1>4, Zenon DEF App!Effect, App!PruneSybil
    <2>2. SameBut(Displays(s, l), a, {"beats"}) /\ Displays(s, l).beats = Append(a.beats, b)
        BY <1>1, <1>3, <2>1, ShapeOfStore DEF Watches, SameBut
    <2>3. QED
        BY <1>1, <1>2, <2>2 DEF SameBut
<1>5. CASE a.narrator.pruned # None
    <2>1. Displays(s, l) = a
        BY <1>1, <1>5 DEF App!Effect
    <2>2. QED
        BY <1>1, <2>1 DEF SameBut
<1>6. QED
    BY <1>4, <1>5

\* An injected fault is counted.
LEMMA FaultIsShown ==
    ASSUME NEW s, Watches(s), NEW l \in TapeLines, l.type = "event", l.kind = "FaultInjected"
    PROVE  /\ SameBut(Displays(s, l), s, {"beats", "activeFaults"})
           /\ Displays(s, l).beats = Append(s.beats, App!Beat("fault", "sybil", l.at))
<1>1. PICK a : SameBut(a, s, {}) /\ Displays(s, l) = App!Effect(a, l)
    BY EventIsShown
<1>2. PICK b : b = App!Beat("fault", "sybil", l.at)
    OBVIOUS
<1>3. l.fault = "sybil" /\ l.at \in Nat
    BY TapeLineIs DEF TapeEvents
<1>4. Displays(s, l) = [a EXCEPT !.activeFaults = @ + 1, !.beats = Append(@, b)]
    BY <1>1, <1>2, <1>3, Zenon DEF App!Effect, App!FaultStarts
<1>5. b \in TapeBeats
    BY <1>2, <1>3 DEF App!Beat, TapeBeats
<1>6. QED
    BY <1>1, <1>2, <1>4, <1>5, ShapeOfStore DEF Watches, SameBut

\* A cleared fault is counted off, and the narrator waits for the mesh to heal.
LEMMA ClearIsShown ==
    ASSUME NEW s, Watches(s), NEW l \in TapeLines, l.type = "event", l.kind = "FaultCleared",
           s.narrator.healFrom = None
    PROVE  LET t == Displays(s, l)
           IN  /\ SameBut(t, s, {"beats", "activeFaults", "healFrom", "healed"})
               /\ t.beats = Append(s.beats, App!Beat("cleared", "sybil", l.at))
               /\ t.activeFaults = 0 /\ t.narrator.healFrom = l.at /\ ~t.narrator.healed
<1>1. PICK a : SameBut(a, s, {}) /\ Displays(s, l) = App!Effect(a, l)
    BY EventIsShown
<1>2. PICK b : b = App!Beat("cleared", "sybil", l.at)
    OBVIOUS
<1>3. l.fault = "sybil" /\ l.at \in Nat
    BY TapeLineIs DEF TapeEvents
<1>4. PICK n : n = [a.narrator EXCEPT !.healFrom = l.at, !.healed = FALSE]
    OBVIOUS
<1>5. Displays(s, l) = [a EXCEPT !.activeFaults = 0, !.beats = Append(@, b), !.narrator = n]
    <2>1. a.narrator.healFrom = None
        BY <1>1 DEF SameBut
    <2>2. QED
        BY <1>1, <1>2, <1>3, <1>4, <2>1, Zenon DEF App!Effect, App!FaultEnds
<1>6. b \in TapeBeats
    BY <1>2, <1>3 DEF App!Beat, TapeBeats
<1>7. /\ DOMAIN n = {"pruned", "healFrom", "healed"} /\ n.healFrom = l.at /\ ~n.healed /\ n.healed \in BOOLEAN
    BY <1>1, <1>4 DEF SameBut, Watches
<1>8. PICK t : t = Displays(s, l)
    OBVIOUS
<1>9. Watches(a) /\ a.beats = s.beats /\ a.simTime = s.simTime
    BY <1>1 DEF SameBut
<1>10. t.narrator = n /\ t.beats = Append(s.beats, b) /\ t.activeFaults = 0 /\ t.simTime = s.simTime
    BY <1>5, <1>8, <1>9, ShapeOfStore DEF Watches
<1>11. Watches(t)
    BY <1>5, <1>6, <1>7, <1>8, <1>9, <1>10, ShapeOfStore DEF Watches
<1>12. QED
    BY <1>2, <1>7, <1>8, <1>10, <1>11 DEF SameBut

----------------------------------------------------------------------------
(* What is known of a recording.  The definitions have the lines sent (tp), *)
(* those that wait (b) and the run (r) as parameters: a tick of the socket  *)
(* sends many lines.                                                        *)

PlayerOf(tp) == App!DispatchAll(App!InitialStore, tp)

Emitted(tp, b) == {tp[i] : i \in 1..Len(tp)} \cup {b[i] : i \in 1..Len(b)}

Timed(l) == l.type \in {"event", "snapshot"}
When(l) == IF l.type = "snapshot" THEN l.time ELSE l.at

IsPrune(l) == l.type = "event" /\ l.kind = "SybilPruned"
Whole(l) == l.type = "analytics" /\ l.delivered

\* What happens once in a run, when it is due, and whether it has happened.
Milestones == {"inject", "injected", "clear", "cleared"}

Marks(l, w) ==
    /\ l.type = "event"
    /\ \/ w = "injected" /\ l.kind = "FaultInjected"
       \/ w = "cleared" /\ l.kind = "FaultCleared"
       \/ w \in {"inject", "clear"} /\ l.kind = "ScenarioPhaseFired" /\ l.label = w

DueAt(w) == IF w \in {"inject", "injected"} THEN INJECT ELSE CLEAR

HasHappened(w, r) == IF w \in {"inject", "injected"} THEN r.faults # "none" ELSE r.faults = "off"

TapeRuns == [now : 0..END, launched : BOOLEAN, told : BOOLEAN, faults : {"none", "on", "off"},
         pruned : SUBSET Sybils, snapped : BOOLEAN, skipped : BOOLEAN]

TapeTypes(tp, b, r) ==
    /\ tp \in Seq(TapeLines) /\ b \in Seq(TapeEvents) /\ r \in TapeRuns
    /\ r.told => r.launched
    /\ ~r.told => r.now = 0 /\ r.faults = "none" /\ b = <<>>
    /\ r.faults # "on" => r.pruned = {}
    /\ r.faults = "none" => r.now <= INJECT + LATE
    /\ r.faults = "on" => r.now <= CLEAR + LATE

\* Each milestone is passed at most once, in time, and sent or about to be.
PassedOnce(tp, b, r) ==
    \A w \in Milestones :
        /\ \A i, j \in 1..Len(tp) : Marks(tp[i], w) /\ Marks(tp[j], w) => i = j
        /\ \A i, j \in 1..Len(b) : Marks(b[i], w) /\ Marks(b[j], w) => i = j
        /\ \A i \in 1..Len(tp), j \in 1..Len(b) : ~(Marks(tp[i], w) /\ Marks(b[j], w))
        /\ HasHappened(w, r) <=> \E l \in Emitted(tp, b) : Marks(l, w)
        /\ \A l \in Emitted(tp, b) : Marks(l, w) => l.at \in DueAt(w)..(DueAt(w) + LATE)

InjectedFirst(tp, b) ==
    \A j \in 1..Len(b) : Marks(b[j], "injected") =>
        /\ \A i \in 1..Len(tp) : ~Marks(tp[i], "cleared")
        /\ \A k \in 1..Len(b) : Marks(b[k], "cleared") => j < k

InOrderOfTime(tp, b, r) ==
    /\ \A i \in 1..Len(tp) : Timed(tp[i]) => When(tp[i]) <= r.now
    /\ \A i, j \in 1..Len(tp) : i < j /\ Timed(tp[i]) /\ Timed(tp[j]) => When(tp[i]) <= When(tp[j])
    /\ \A j \in 1..Len(b) : b[j].at = r.now /\ (b[j].kind = "ClockTick" => j = 1)

\* The mesh of the run is on the tape before the run's first moment is over.
MeshOfRun(tp, r) ==
    /\ Len(tp) >= 2
    /\ \A i \in 2..Len(tp) : tp[i].type = "edges" => tp[i].edges = "run"
    /\ \A i \in 1..Len(tp) : tp[i].type = "snapshot" /\ tp[i].time > 0 =>
           tp[i].layout = "run" /\ \E j \in 2..(i - 1) : tp[j].type = "edges"
    /\ r.told => \E j \in 2..Len(tp) : tp[j].type = "edges"

\* What a snapshot shows of an attack was emitted by then.
ShowsAttack(l, ls) ==
    /\ Sybils \cap DOMAIN l.nodes # {} => \E x \in ls : Marks(x, "injected") /\ x.at <= l.time
    /\ l.pruned # {} => /\ \E x \in ls : Marks(x, "injected") /\ x.at <= l.time
                        /\ \E x \in ls : IsPrune(x) /\ x.at <= l.time
    /\ l.pruned # {} \/ Sybils \cap DOMAIN l.nodes = {} \/ \A x \in ls : IsPrune(x) => l.time <= x.at

AttackOnTape(tp, b, r) ==
    /\ \A i \in 1..Len(tp) : tp[i].type = "snapshot" => ShowsAttack(tp[i], Emitted(tp, b))
    /\ r.pruned # {} => \E l \in Emitted(tp, b) : IsPrune(l)
    /\ \A l \in Emitted(tp, b) : IsPrune(l) => (r.pruned # {} \/ r.faults = "off") /\ l.at % HB = BEAT

\* The first line after the clear that says that the mesh is whole.
FirstWhole(tp, i, j) ==
    /\ i < j /\ Marks(tp[i], "cleared") /\ Whole(tp[j])
    /\ \A m \in 1..Len(tp) : i < m /\ m < j => ~Whole(tp[m])

PlayedClock(s, tp, b, r) ==
    /\ s.simTime <= r.now
    /\ s.simTime = r.now \/ (b # <<>> /\ b[1].kind = "ClockTick")
    /\ \A i \in 1..Len(tp) : Timed(tp[i]) => When(tp[i]) <= s.simTime
    /\ tp[Len(tp)].type = "snapshot" => s.simTime = tp[Len(tp)].time

PlayedFaults(s, tp) ==
    /\ s.activeFaults > 0 => /\ \E i \in 1..Len(tp) : Marks(tp[i], "injected")
                             /\ \A i \in 1..Len(tp) : ~Marks(tp[i], "cleared")
    /\ (\A i \in 1..Len(tp) : ~Marks(tp[i], "cleared")) => s.narrator.healFrom = None
    /\ \A i \in 1..Len(tp) : Marks(tp[i], "cleared") => s.narrator.healFrom = tp[i].at

HealedAt(t, tp) ==
    \E i, j \in 1..Len(tp) :
        FirstWhole(tp, i, j) /\ t >= tp[i].at /\ (tp[j - 1].type = "snapshot" => t = tp[j - 1].time)

PlayedHealing(s, tp) ==
    /\ s.narrator.healed <=> \E i, j \in 1..Len(tp) : i < j /\ Marks(tp[i], "cleared") /\ Whole(tp[j])
    /\ s.narrator.healed <=> \E k \in 1..Len(s.beats) : s.beats[k].kind = "healed"
    /\ \A k \in 1..Len(s.beats) : s.beats[k].kind = "healed" => HealedAt(s.beats[k].time, tp)

PlayedBeats(s, tp, r) ==
    /\ \A k \in 1..Len(s.beats) :
           /\ s.beats[k].time <= r.now
           /\ s.beats[k].kind = "phase" =>
                  /\ s.beats[k].label \in {"inject", "clear"}
                  /\ \E i \in 1..Len(tp) : Marks(tp[i], s.beats[k].label) /\ tp[i].at = s.beats[k].time
    /\ \A k, m \in 1..Len(s.beats) :
           s.beats[k].kind = "phase" /\ s.beats[m].kind = "phase" /\ s.beats[k].label = s.beats[m].label => k = m

PlayedTape(s, tp, b, r) ==
    /\ Watches(s)
    /\ PlayedClock(s, tp, b, r)
    /\ PlayedFaults(s, tp)
    /\ PlayedHealing(s, tp)
    /\ PlayedBeats(s, tp, r)

\* What a tape holds, whoever reads it.
OnTape(tp, b, r) ==
    /\ TapeTypes(tp, b, r)
    /\ PassedOnce(tp, b, r)
    /\ InjectedFirst(tp, b)
    /\ InOrderOfTime(tp, b, r)
    /\ MeshOfRun(tp, r)
    /\ AttackOnTape(tp, b, r)

TapeOk(tp, b, r) == OnTape(tp, b, r) /\ PlayedTape(PlayerOf(tp), tp, b, r)

TapeInv == TapeOk(tape, bus, run)

----------------------------------------------------------------------------
(* An event is sent, and played.                                            *)

\* q is tp with l after it.
Grown(q, tp, l) ==
    /\ q \in Seq(TapeLines) /\ Len(q) = Len(tp) + 1 /\ Len(tp) \in Nat
    /\ q[Len(tp) + 1] = l /\ \A i \in 1..Len(tp) : q[i] = tp[i]

LEMMA Grows ==
    ASSUME NEW tp \in Seq(TapeLines), NEW l \in TapeLines
    PROVE  Grown(Append(tp, l), tp, l)
BY Appended DEF Grown

LEMMA BoundsAre ==
    /\ INJECT \in Nat /\ CLEAR \in Nat /\ LATE \in Nat /\ END \in Nat /\ HB \in Nat \ {0}
    /\ INJECT > 0 /\ CLEAR > INJECT /\ CLEAR <= END
    /\ Honest \cap Sybils = {}
BY RecordingAssumption

LEMMA EventsAre ==
    ASSUME NEW e \in TapeEvents
    PROVE  /\ e \in TapeLines /\ e.type = "event" /\ e.at \in Nat
           /\ e.kind \in {"ClockTick", "SybilPruned", "ScenarioPhaseFired", "FaultInjected", "FaultCleared"}
           /\ e.kind = "ScenarioPhaseFired" => e.label \in {"inject", "clear"}
BY DEF TapeLines, TapeEvents

\* A line that is no event passes no milestone and starts no prune.
LEMMA OtherLine ==
    ASSUME NEW l, l.type # "event"
    PROVE  ~IsPrune(l) /\ \A w : ~Marks(l, w)
BY DEF IsPrune, Marks

\* The head of what waits is sent: e, before the events of c.
Waits(b, e, c) ==
    /\ c \in Seq(TapeEvents) /\ Len(c) \in Nat /\ Len(b) = Len(c) + 1
    /\ b[1] = e /\ \A j \in 1..Len(c) : b[j + 1] = c[j]

LEMMA SentIsEmitted ==
    ASSUME NEW tp, NEW b, NEW e, NEW c, NEW q, Grown(q, tp, e), Waits(b, e, c)
    PROVE  Emitted(q, c) = Emitted(tp, b)
<1> DEFINE N == Len(tp)
           M == Len(c)
<1>1. N \in Nat /\ M \in Nat
    BY DEF Grown, Waits
<1>2. ASSUME NEW x \in Emitted(q, c) PROVE x \in Emitted(tp, b)
    <2>1. CASE \E i \in 1..(N + 1) : x = q[i]
        <3>1. PICK i \in 1..(N + 1) : x = q[i]
            BY <2>1
        <3>2. CASE i = N + 1
            <4>1. x = b[1] /\ 1 \in 1..Len(b)
                BY <1>1, <3>1, <3>2 DEF Grown, Waits
            <4>2. QED
                BY <4>1 DEF Emitted
        <3>3. CASE i # N + 1
            <4>1. i \in 1..N /\ x = tp[i]
                BY <1>1, <3>1, <3>3 DEF Grown
            <4>2. QED
                BY <4>1 DEF Emitted
        <3>4. QED
            BY <3>2, <3>3
    <2>2. CASE \E j \in 1..M : x = c[j]
        <3>1. PICK j \in 1..M : x = c[j]
            BY <2>2
        <3>2. j + 1 \in 1..Len(b) /\ x = b[j + 1]
            BY <1>1, <3>1 DEF Waits
        <3>3. QED
            BY <3>2 DEF Emitted
    <2>3. QED
        BY <2>1, <2>2 DEF Emitted, Grown
<1>3. ASSUME NEW x \in Emitted(tp, b) PROVE x \in Emitted(q, c)
    <2>1. CASE \E i \in 1..N : x = tp[i]
        <3>1. PICK i \in 1..N : x = tp[i]
            BY <2>1
        <3>2. i \in 1..Len(q) /\ x = q[i]
            BY <1>1, <3>1 DEF Grown
        <3>3. QED
            BY <3>2 DEF Emitted
    <2>2. CASE \E j \in 1..(M + 1) : x = b[j]
        <3>1. PICK j \in 1..(M + 1) : x = b[j]
            BY <2>2
        <3>2. CASE j = 1
            <4>1. N + 1 \in 1..Len(q) /\ x = q[N + 1]
                BY <1>1, <3>1, <3>2 DEF Grown, Waits
            <4>2. QED
                BY <4>1 DEF Emitted
        <3>3. CASE j # 1
            <4>1. j - 1 \in 1..M /\ (j - 1) + 1 = j
                BY <1>1, <3>3
            <4>2. x = c[j - 1]
                BY <3>1, <4>1 DEF Waits
            <4>3. QED
                BY <4>1, <4>2 DEF Emitted
        <3>4. QED
            BY <3>2, <3>3
    <2>3. QED
        BY <2>1, <2>2 DEF Emitted, Waits
<1>4. QED
    BY <1>2, <1>3

\* Sending passes no milestone a second time.
LEMMA SendingKeepsOnce ==
    ASSUME NEW tp, NEW b, NEW r, NEW e, NEW c, NEW q, Grown(q, tp, e), Waits(b, e, c), PassedOnce(tp, b, r)
    PROVE  PassedOnce(q, c, r)
<1> DEFINE N == Len(tp)
           M == Len(c)
<1>1. N \in Nat /\ M \in Nat /\ Len(q) = N + 1 /\ Len(b) = M + 1
    BY DEF Grown, Waits
<1>2. q[N + 1] = b[1] /\ (\A i \in 1..N : q[i] = tp[i]) /\ \A j \in 1..M : c[j] = b[j + 1]
    BY DEF Grown, Waits
<1>3. Emitted(q, c) = Emitted(tp, b)
    BY SentIsEmitted
<1> SUFFICES ASSUME NEW w \in Milestones
             PROVE  /\ \A i, j \in 1..Len(q) : Marks(q[i], w) /\ Marks(q[j], w) => i = j
                    /\ \A i, j \in 1..Len(c) : Marks(c[i], w) /\ Marks(c[j], w) => i = j
                    /\ \A i \in 1..Len(q), j \in 1..Len(c) : ~(Marks(q[i], w) /\ Marks(c[j], w))
    BY <1>3 DEF PassedOnce
<1>4. /\ \A i, j \in 1..N : Marks(tp[i], w) /\ Marks(tp[j], w) => i = j
      /\ \A i, j \in 1..(M + 1) : Marks(b[i], w) /\ Marks(b[j], w) => i = j
      /\ \A i \in 1..N, j \in 1..(M + 1) : ~(Marks(tp[i], w) /\ Marks(b[j], w))
    BY <1>1 DEF PassedOnce
<1> HIDE DEF N, M
<1>5. ASSUME NEW i \in 1..(N + 1), NEW j \in 1..(N + 1), Marks(q[i], w), Marks(q[j], w) PROVE i = j
    <2>0. 1 \in 1..(M + 1)
        BY <1>1
    <2>1. CASE i = N + 1 /\ j = N + 1
        BY <2>1
    <2>2. CASE i # N + 1 /\ j = N + 1
        <3>1. i \in 1..N
            BY <1>1, <2>2
        <3>2. QED
            BY <1>2, <1>4, <1>5, <2>0, <2>2, <3>1
    <2>3. CASE i = N + 1 /\ j # N + 1
        <3>1. j \in 1..N
            BY <1>1, <2>3
        <3>2. QED
            BY <1>2, <1>4, <1>5, <2>0, <2>3, <3>1
    <2>4. CASE i # N + 1 /\ j # N + 1
        <3>1. i \in 1..N /\ j \in 1..N
            BY <1>1, <2>4
        <3>2. QED
            BY <1>2, <1>4, <1>5, <3>1
    <2>5. QED
        BY <2>1, <2>2, <2>3, <2>4
<1>6. ASSUME NEW i \in 1..M, NEW j \in 1..M, Marks(c[i], w), Marks(c[j], w) PROVE i = j
    <2>1. i + 1 \in 1..(M + 1) /\ j + 1 \in 1..(M + 1)
        BY <1>1
    <2>2. i + 1 = j + 1
        BY <1>2, <1>4, <1>6, <2>1
    <2>3. QED
        BY <2>2
<1>7. ASSUME NEW i \in 1..(N + 1), NEW j \in 1..M, Marks(q[i], w), Marks(c[j], w) PROVE FALSE
    <2>1. j + 1 \in 1..(M + 1) /\ j + 1 # 1 /\ 1 \in 1..(M + 1)
        BY <1>1
    <2>2. CASE i = N + 1
        <3>1. Marks(b[1], w) /\ Marks(b[j + 1], w)
            BY <1>2, <1>7, <2>2
        <3>2. QED
            BY <1>4, <2>1, <3>1
    <2>3. CASE i # N + 1
        <3>1. i \in 1..N
            BY <1>1, <2>3
        <3>2. Marks(tp[i], w) /\ Marks(b[j + 1], w)
            BY <1>2, <1>7, <3>1
        <3>3. QED
            BY <1>4, <2>1, <3>1, <3>2
    <2>4. QED
        BY <2>2, <2>3
<1>8. QED
    BY <1>1, <1>5, <1>6, <1>7 DEF M

\* What is sent leaves the injection before the clear.
LEMMA SendingKeepsOrder ==
    ASSUME NEW tp, NEW b, NEW e, NEW c, NEW q, Grown(q, tp, e), Waits(b, e, c), InjectedFirst(tp, b)
    PROVE  InjectedFirst(q, c)
<1> DEFINE N == Len(tp)
           M == Len(c)
<1>1. N \in Nat /\ M \in Nat /\ Len(q) = N + 1 /\ Len(b) = M + 1
    BY DEF Grown, Waits
<1>2. q[N + 1] = b[1] /\ (\A i \in 1..N : q[i] = tp[i]) /\ \A j \in 1..M : c[j] = b[j + 1]
    BY DEF Grown, Waits
<1> SUFFICES ASSUME NEW j \in 1..M, Marks(c[j], "injected")
             PROVE  /\ \A i \in 1..Len(q) : ~Marks(q[i], "cleared")
                    /\ \A k \in 1..M : Marks(c[k], "cleared") => j < k
    BY DEF InjectedFirst
<1> HIDE DEF N, M
<1>3. j + 1 \in 1..(M + 1) /\ 1 \in 1..(M + 1)
    BY <1>1
<1>4. /\ \A i \in 1..N : ~Marks(tp[i], "cleared")
      /\ \A k \in 1..(M + 1) : Marks(b[k], "cleared") => j + 1 < k
    BY <1>1, <1>2, <1>3 DEF InjectedFirst, N
<1>5. ~Marks(b[1], "cleared")
    BY <1>1, <1>3, <1>4
<1>6. ASSUME NEW i \in 1..(N + 1) PROVE ~Marks(q[i], "cleared")
    <2>1. CASE i = N + 1
        BY <1>2, <1>5, <2>1
    <2>2. CASE i # N + 1
        <3>1. i \in 1..N
            BY <1>1, <2>2
        <3>2. QED
            BY <1>2, <1>4, <3>1
    <2>3. QED
        BY <2>1, <2>2
<1>7. ASSUME NEW k \in 1..M, Marks(c[k], "cleared") PROVE j < k
    <2>1. k + 1 \in 1..(M + 1) /\ Marks(b[k + 1], "cleared")
        BY <1>1, <1>2, <1>7
    <2>2. j + 1 < k + 1
        BY <1>4, <2>1
    <2>3. QED
        BY <1>1, <2>2
<1>8. QED
    BY <1>1, <1>6, <1>7

\* A line of this moment at the end leaves the tape in the order of time.
LEMMA LineKeepsTime ==
    ASSUME NEW tp \in Seq(TapeLines), NEW l \in TapeLines, NEW q, Grown(q, tp, l), NEW now \in Nat,
           \A i \in 1..Len(tp) : Timed(tp[i]) => When(tp[i]) <= now,
           \A i, j \in 1..Len(tp) : i < j /\ Timed(tp[i]) /\ Timed(tp[j]) => When(tp[i]) <= When(tp[j]),
           Timed(l) => When(l) = now
    PROVE  /\ \A i \in 1..Len(q) : Timed(q[i]) => When(q[i]) <= now
           /\ \A i, j \in 1..Len(q) : i < j /\ Timed(q[i]) /\ Timed(q[j]) => When(q[i]) <= When(q[j])
<1> DEFINE N == Len(tp)
<1>1. N \in Nat /\ Len(q) = N + 1
    BY DEF Grown
<1>2. q[N + 1] = l /\ \A i \in 1..N : q[i] = tp[i]
    BY DEF Grown
<1>3. \A i \in 1..N : Timed(tp[i]) => When(tp[i]) <= now
    OBVIOUS
<1>4. \A i, j \in 1..N : i < j /\ Timed(tp[i]) /\ Timed(tp[j]) => When(tp[i]) <= When(tp[j])
    OBVIOUS
<1> HIDE DEF N
<1>5. ASSUME NEW i \in 1..(N + 1), Timed(q[i]) PROVE When(q[i]) <= now
    <2>1. CASE i = N + 1
        BY <1>2, <1>5, <2>1
    <2>2. CASE i # N + 1
        <3>1. i \in 1..N
            BY <1>1, <2>2
        <3>2. QED
            BY <1>2, <1>3, <1>5, <3>1
    <2>3. QED
        BY <2>1, <2>2
<1>6. ASSUME NEW i \in 1..(N + 1), NEW j \in 1..(N + 1), i < j, Timed(q[i]), Timed(q[j])
      PROVE  When(q[i]) <= When(q[j])
    <2>1. i \in 1..N
        BY <1>1, <1>6
    <2>2. CASE j = N + 1
        BY <1>2, <1>5, <1>6, <2>2
    <2>3. CASE j # N + 1
        <3>1. j \in 1..N
            BY <1>1, <2>3
        <3>2. QED
            BY <1>2, <1>4, <1>6, <2>1, <3>1
    <2>4. QED
        BY <2>2, <2>3
<1>7. QED
    BY <1>1, <1>5, <1>6

\* What is sent is of its own moment, so the order of time stays.
LEMMA SendingKeepsTime ==
    ASSUME NEW tp \in Seq(TapeLines), NEW b, NEW r \in TapeRuns, NEW e \in TapeEvents, NEW c, NEW q,
           Grown(q, tp, e), Waits(b, e, c), InOrderOfTime(tp, b, r)
    PROVE  InOrderOfTime(q, c, r) /\ \A j \in 1..Len(c) : c[j].kind # "ClockTick"
<1>1. e \in TapeLines /\ e.type = "event" /\ r.now \in Nat
    BY EventsAre, BoundsAre DEF TapeRuns
<1>2. \A j \in 1..Len(b) : b[j].at = r.now /\ (b[j].kind = "ClockTick" => j = 1)
    BY DEF InOrderOfTime
<1>3. When(e) = r.now
    <2>1. 1 \in 1..Len(b) /\ b[1] = e
        BY DEF Waits
    <2>2. QED
        BY <1>1, <1>2, <2>1 DEF When
<1>4. /\ \A i \in 1..Len(q) : Timed(q[i]) => When(q[i]) <= r.now
      /\ \A i, j \in 1..Len(q) : i < j /\ Timed(q[i]) /\ Timed(q[j]) => When(q[i]) <= When(q[j])
    <2>1. PICK now : now = r.now
        OBVIOUS
    <2>2. /\ now \in Nat /\ (Timed(e) => When(e) = now)
          /\ \A i \in 1..Len(tp) : Timed(tp[i]) => When(tp[i]) <= now
          /\ \A i, j \in 1..Len(tp) : i < j /\ Timed(tp[i]) /\ Timed(tp[j]) => When(tp[i]) <= When(tp[j])
        BY <1>1, <1>3, <2>1 DEF InOrderOfTime
    <2>3. QED
        BY <1>1, <2>1, <2>2, LineKeepsTime
<1>5. ASSUME NEW j \in 1..Len(c) PROVE c[j].at = r.now /\ c[j].kind # "ClockTick"
    <2>1. j + 1 \in 1..Len(b) /\ c[j] = b[j + 1] /\ j + 1 # 1
        BY DEF Waits
    <2>2. QED
        BY <1>2, <2>1
<1>6. QED
    BY <1>4, <1>5 DEF InOrderOfTime

\* A line that is neither edges nor a snapshot leaves what is known of the mesh; edges are the run's, a snapshot of
\* a later moment comes after them.
LEMMA LineKeepsMesh ==
    ASSUME NEW tp \in Seq(TapeLines), NEW l \in TapeLines, NEW q, Grown(q, tp, l), NEW r, NEW z, MeshOfRun(tp, r),
           z.told => r.told \/ l.type = "edges",
           l.type = "edges" => l.edges = "run",
           l.type = "snapshot" /\ l.time > 0 => l.layout = "run" /\ r.told
    PROVE  MeshOfRun(q, z)
<1> DEFINE N == Len(tp)
<1>1. N \in Nat /\ Len(q) = N + 1 /\ N >= 2
    BY DEF Grown, MeshOfRun
<1>2. q[N + 1] = l /\ \A i \in 1..N : q[i] = tp[i]
    BY DEF Grown
<1>3. /\ \A i \in 2..N : tp[i].type = "edges" => tp[i].edges = "run"
      /\ \A i \in 1..N : tp[i].type = "snapshot" /\ tp[i].time > 0 =>
             tp[i].layout = "run" /\ \E j \in 2..(i - 1) : tp[j].type = "edges"
      /\ r.told => \E j \in 2..N : tp[j].type = "edges"
    BY DEF MeshOfRun
<1> HIDE DEF N
<1>4. ASSUME NEW i \in 2..(N + 1), q[i].type = "edges" PROVE q[i].edges = "run"
    <2>1. CASE i = N + 1
        BY <1>2, <1>4, <2>1
    <2>2. CASE i # N + 1
        <3>1. i \in 2..N /\ i \in 1..N
            BY <1>1, <2>2
        <3>2. QED
            BY <1>2, <1>3, <1>4, <3>1
    <2>3. QED
        BY <2>1, <2>2
<1>5. ASSUME NEW i \in 1..(N + 1), q[i].type = "snapshot", q[i].time > 0
      PROVE  q[i].layout = "run" /\ \E j \in 2..(i - 1) : q[j].type = "edges"
    <2>1. CASE i = N + 1
        <3>1. l.layout = "run" /\ \E j \in 2..N : tp[j].type = "edges"
            BY <1>2, <1>3, <1>5, <2>1
        <3>2. PICK j \in 2..N : tp[j].type = "edges"
            BY <3>1
        <3>3. j \in 1..N /\ j \in 2..(i - 1)
            BY <1>1, <2>1
        <3>4. QED
            BY <1>2, <2>1, <3>1, <3>2, <3>3
    <2>2. CASE i # N + 1
        <3>1. i \in 1..N
            BY <1>1, <2>2
        <3>2. tp[i].layout = "run" /\ \E j \in 2..(i - 1) : tp[j].type = "edges"
            BY <1>2, <1>3, <1>5, <3>1
        <3>3. \A j \in 2..(i - 1) : j \in 1..N
            BY <1>1, <3>1
        <3>4. QED
            BY <1>2, <3>1, <3>2, <3>3
    <2>3. QED
        BY <2>1, <2>2
<1>6. ASSUME z.told PROVE \E j \in 2..(N + 1) : q[j].type = "edges"
    <2>1. CASE r.told
        <3>1. PICK j \in 2..N : tp[j].type = "edges"
            BY <1>3, <2>1
        <3>2. j \in 1..N /\ j \in 2..(N + 1)
            BY <1>1
        <3>3. QED
            BY <1>2, <3>1, <3>2
    <2>2. CASE l.type = "edges"
        BY <1>1, <1>2, <2>2
    <2>3. QED
        BY <1>6, <2>1, <2>2
<1>7. QED
    BY <1>1, <1>4, <1>5, <1>6 DEF MeshOfRun

\* More is emitted in this moment: what the snapshots show was emitted by then all the same.
LEMMA MoreIsEmitted ==
    ASSUME NEW l, NEW ls, NEW ms, ls \subseteq ms, ShowsAttack(l, ls),
           \A x \in ms \ ls : IsPrune(x) => l.time <= x.at
    PROVE  ShowsAttack(l, ms)
BY DEF ShowsAttack

\* An event that was emitted is sent: nothing changes but that it is on the tape.
LEMMA SendingKeepsTape ==
    ASSUME NEW tp, NEW b, NEW r, OnTape(tp, b, r), NEW e \in TapeEvents, NEW c, NEW q,
           Grown(q, tp, e), Waits(b, e, c)
    PROVE  OnTape(q, c, r) /\ \A j \in 1..Len(c) : c[j].kind # "ClockTick"
<1>1. tp \in Seq(TapeLines) /\ r \in TapeRuns /\ e.type = "event" /\ e \in TapeLines
    BY EventsAre DEF OnTape, TapeTypes
<1>2. TapeTypes(q, c, r)
    <2>1. b # <<>>
        BY DEF Waits
    <2>2. q \in Seq(TapeLines) /\ c \in Seq(TapeEvents)
        BY DEF Grown, Waits
    <2>3. QED
        BY <2>1, <2>2 DEF OnTape, TapeTypes
<1>3. PassedOnce(q, c, r)
    BY SendingKeepsOnce DEF OnTape
<1>4. InjectedFirst(q, c)
    BY SendingKeepsOrder DEF OnTape
<1>5. InOrderOfTime(q, c, r) /\ \A j \in 1..Len(c) : c[j].kind # "ClockTick"
    BY <1>1, SendingKeepsTime DEF OnTape
<1>6. MeshOfRun(q, r)
    BY <1>1, LineKeepsMesh DEF OnTape
<1>7. AttackOnTape(q, c, r)
    <2>1. Emitted(q, c) = Emitted(tp, b)
        BY SentIsEmitted
    <2>2. ASSUME NEW i \in 1..Len(q), q[i].type = "snapshot" PROVE i \in 1..Len(tp) /\ q[i] = tp[i]
        BY <1>1, <2>2 DEF Grown
    <2>3. QED
        BY <2>1, <2>2 DEF OnTape, AttackOnTape
<1>8. QED
    BY <1>2, <1>3, <1>4, <1>5, <1>6, <1>7 DEF OnTape

LEMMA PlayerGoesOn ==
    ASSUME NEW tp \in Seq(TapeLines), NEW l \in TapeLines
    PROVE  PlayerOf(Append(tp, l)) = Displays(PlayerOf(tp), l)
BY DispatchOneMore DEF PlayerOf

\* The beats are as they were, but for one that may be new.
NewBeat(t, s, x) ==
    /\ t.beats \in Seq(TapeBeats)
    /\ t.beats = s.beats \/ t.beats = Append(s.beats, x)

LEMMA BeatsGrow ==
    ASSUME NEW t, NEW s, NEW x, Watches(s), NewBeat(t, s, x)
    PROVE  /\ Len(s.beats) \in Nat
           /\ \A k \in 1..Len(t.beats) : \/ k \in 1..Len(s.beats) /\ t.beats[k] = s.beats[k]
                                         \/ k = Len(s.beats) + 1 /\ t.beats[k] = x
           /\ \A k \in 1..Len(s.beats) : k \in 1..Len(t.beats) /\ t.beats[k] = s.beats[k]
<1>1. PICK old, new : old = s.beats /\ new = t.beats
    OBVIOUS
<1>2. old \in Seq(TapeBeats) /\ new \in Seq(TapeBeats) /\ (new = old \/ new = Append(old, x))
    BY <1>1 DEF Watches, NewBeat
<1>3. Len(old) \in Nat
    BY <1>2
<1>4. CASE new = old
    BY <1>1, <1>3, <1>4
<1>5. CASE new = Append(old, x)
    <2>1. Len(new) = Len(old) + 1 /\ new[Len(old) + 1] = x /\ \A k \in 1..Len(old) : new[k] = old[k]
        BY <1>2, <1>5
    <2>2. \A k \in 1..(Len(old) + 1) : k \in 1..Len(old) \/ k = Len(old) + 1
        BY <1>3
    <2>3. \A k \in 1..Len(old) : k \in 1..(Len(old) + 1)
        BY <1>3
    <2>4. QED
        BY <1>1, <1>3, <2>1, <2>2, <2>3
<1>6. QED
    BY <1>2, <1>4, <1>5

\* A clock that stands at the run's moment is in time.
LEMMA PlaysInTime ==
    ASSUME NEW t, NEW q, NEW c, NEW r \in TapeRuns, InOrderOfTime(q, c, r), t.simTime = r.now,
           q[Len(q)].type = "snapshot" => q[Len(q)].time = r.now
    PROVE  PlayedClock(t, q, c, r)
<1>1. r.now \in Nat
    BY BoundsAre DEF TapeRuns
<1>2. QED
    BY <1>1 DEF PlayedClock, InOrderOfTime

LEMMA ClockStays ==
    ASSUME NEW s, NEW t, NEW tp, NEW b, NEW r, NEW q, NEW l, Grown(q, tp, l), ~Timed(l), t.simTime = s.simTime,
           PlayedClock(s, tp, b, r)
    PROVE  PlayedClock(t, q, b, r)
<1> DEFINE N == Len(tp)
<1>1. N \in Nat /\ Len(q) = N + 1 /\ q[N + 1] = l /\ \A i \in 1..N : q[i] = tp[i]
    BY DEF Grown
<1>2. \A i \in 1..N : Timed(tp[i]) => When(tp[i]) <= s.simTime
    BY DEF PlayedClock
<1> HIDE DEF N
<1>3. ASSUME NEW i \in 1..(N + 1), Timed(q[i]) PROVE When(q[i]) <= t.simTime
    <2>1. i \in 1..N
        BY <1>1, <1>3
    <2>2. QED
        BY <1>1, <1>2, <1>3, <2>1
<1>4. q[N + 1].type # "snapshot"
    BY <1>1 DEF Timed
<1>5. s.simTime <= r.now /\ (s.simTime = r.now \/ (b # <<>> /\ b[1].kind = "ClockTick"))
    BY DEF PlayedClock
<1>6. QED
    BY <1>1, <1>3, <1>4, <1>5 DEF PlayedClock

LEMMA FaultsStay ==
    ASSUME NEW s, NEW t, NEW tp, NEW q, NEW l, Grown(q, tp, l), PlayedFaults(s, tp),
           ~Marks(l, "injected"), ~Marks(l, "cleared"),
           t.activeFaults = s.activeFaults, t.narrator.healFrom = s.narrator.healFrom
    PROVE  PlayedFaults(t, q)
<1> DEFINE N == Len(tp)
<1>1. N \in Nat /\ Len(q) = N + 1 /\ q[N + 1] = l /\ \A i \in 1..N : q[i] = tp[i]
    BY DEF Grown
<1>2. /\ s.activeFaults > 0 => /\ \E i \in 1..N : Marks(tp[i], "injected")
                               /\ \A i \in 1..N : ~Marks(tp[i], "cleared")
      /\ (\A i \in 1..N : ~Marks(tp[i], "cleared")) => s.narrator.healFrom = None
      /\ \A i \in 1..N : Marks(tp[i], "cleared") => s.narrator.healFrom = tp[i].at
    BY DEF PlayedFaults
<1> HIDE DEF N
<1>3. \A i \in 1..(N + 1) : i \in 1..N \/ i = N + 1
    BY <1>1
<1>4. \A i \in 1..N : i \in 1..(N + 1)
    BY <1>1
<1>5. t.activeFaults > 0 => /\ \E i \in 1..(N + 1) : Marks(q[i], "injected")
                            /\ \A i \in 1..(N + 1) : ~Marks(q[i], "cleared")
    <2>1. SUFFICES ASSUME s.activeFaults > 0
                   PROVE  /\ \E i \in 1..(N + 1) : Marks(q[i], "injected")
                          /\ \A i \in 1..(N + 1) : ~Marks(q[i], "cleared")
        OBVIOUS
    <2>2. PICK i \in 1..N : Marks(tp[i], "injected")
        BY <1>2, <2>1
    <2>3. Marks(q[i], "injected")
        BY <1>1, <2>2
    <2>4. QED
        BY <1>1, <1>2, <1>3, <1>4, <2>1, <2>3
<1>6. (\A i \in 1..(N + 1) : ~Marks(q[i], "cleared")) => t.narrator.healFrom = None
    BY <1>1, <1>2, <1>4
<1>7. \A i \in 1..(N + 1) : Marks(q[i], "cleared") => t.narrator.healFrom = q[i].at
    BY <1>1, <1>2, <1>3
<1>8. QED
    BY <1>1, <1>5, <1>6, <1>7 DEF PlayedFaults

LEMMA InjectionPlays ==
    ASSUME NEW s, NEW t, NEW tp, NEW q, NEW l, Grown(q, tp, l), PlayedFaults(s, tp),
           Marks(l, "injected"), ~Marks(l, "cleared"), \A i \in 1..Len(tp) : ~Marks(tp[i], "cleared"),
           t.narrator.healFrom = s.narrator.healFrom
    PROVE  PlayedFaults(t, q)
<1> DEFINE N == Len(tp)
<1>1. N \in Nat /\ Len(q) = N + 1 /\ q[N + 1] = l /\ \A i \in 1..N : q[i] = tp[i]
    BY DEF Grown
<1>2. \A i \in 1..N : ~Marks(q[i], "cleared")
    BY <1>1
<1>3. s.narrator.healFrom = None
    BY DEF PlayedFaults
<1> HIDE DEF N
<1>4. \A i \in 1..(N + 1) : ~Marks(q[i], "cleared")
    <2>1. \A i \in 1..(N + 1) : i \in 1..N \/ i = N + 1
        BY <1>1
    <2>2. QED
        BY <1>1, <1>2, <2>1
<1>5. N + 1 \in 1..(N + 1) /\ Marks(q[N + 1], "injected")
    BY <1>1
<1>6. QED
    BY <1>1, <1>3, <1>4, <1>5 DEF PlayedFaults

LEMMA ClearPlays ==
    ASSUME NEW s, NEW t, NEW tp, NEW q, NEW l, Grown(q, tp, l),
           Marks(l, "cleared"), \A i \in 1..Len(tp) : ~Marks(tp[i], "cleared"),
           t.activeFaults = 0, t.narrator.healFrom = l.at
    PROVE  PlayedFaults(t, q)
<1> DEFINE N == Len(tp)
<1>1. N \in Nat /\ Len(q) = N + 1 /\ q[N + 1] = l /\ \A i \in 1..N : q[i] = tp[i]
    BY DEF Grown
<1>2. \A i \in 1..N : ~Marks(q[i], "cleared")
    BY <1>1
<1> HIDE DEF N
<1>3. \A i \in 1..(N + 1) : i \in 1..N \/ i = N + 1
    BY <1>1
<1>4. N + 1 \in 1..(N + 1)
    BY <1>1
<1>5. \A i \in 1..(N + 1) : Marks(q[i], "cleared") => t.narrator.healFrom = q[i].at
    BY <1>1, <1>2, <1>3
<1>6. ~(t.activeFaults > 0)
    OBVIOUS
<1>7. QED
    BY <1>1, <1>4, <1>5, <1>6 DEF PlayedFaults

\* Something was healed: the mesh was said to be whole after the clear.
HealingOn(tp) == \E i, j \in 1..Len(tp) : i < j /\ Marks(tp[i], "cleared") /\ Whole(tp[j])

\* A line that tells of no whole mesh neither heals the tape nor takes a healing back.
LEMMA HealingStaysOn ==
    ASSUME NEW tp, NEW q, NEW l, Grown(q, tp, l), ~Whole(l)
    PROVE  HealingOn(q) <=> HealingOn(tp)
<1> DEFINE N == Len(tp)
<1>1. N \in Nat /\ Len(q) = N + 1 /\ q[N + 1] = l /\ \A i \in 1..N : q[i] = tp[i]
    BY DEF Grown
<1> HIDE DEF N
<1>2. ASSUME NEW i \in 1..(N + 1), NEW j \in 1..(N + 1), i < j, Marks(q[i], "cleared"), Whole(q[j])
      PROVE  \E k, m \in 1..N : k < m /\ Marks(tp[k], "cleared") /\ Whole(tp[m])
    <2>1. i \in 1..N /\ j \in 1..N
        BY <1>1, <1>2
    <2>2. QED
        BY <1>1, <1>2, <2>1
<1>3. ASSUME NEW i \in 1..N, NEW j \in 1..N, i < j, Marks(tp[i], "cleared"), Whole(tp[j])
      PROVE  \E k, m \in 1..(N + 1) : k < m /\ Marks(q[k], "cleared") /\ Whole(q[m])
    <2>1. i \in 1..(N + 1) /\ j \in 1..(N + 1) /\ Marks(q[i], "cleared") /\ Whole(q[j])
        BY <1>1, <1>3
    <2>2. QED
        BY <1>3, <2>1
<1>4. QED
    BY <1>1, <1>2, <1>3 DEF HealingOn, N

LEMMA HealedAtStays ==
    ASSUME NEW time, NEW tp, NEW q, NEW l, Grown(q, tp, l), HealedAt(time, tp)
    PROVE  HealedAt(time, q)
<1> DEFINE N == Len(tp)
<1>1. N \in Nat /\ Len(q) = N + 1 /\ \A i \in 1..N : q[i] = tp[i]
    BY DEF Grown
<1>2. PICK i, j \in 1..N : FirstWhole(tp, i, j) /\ time >= tp[i].at
                           /\ (tp[j - 1].type = "snapshot" => time = tp[j - 1].time)
    BY DEF HealedAt
<1> HIDE DEF N
<1>3. i \in 1..(N + 1) /\ j \in 1..(N + 1) /\ j - 1 \in 1..N /\ i < j
    BY <1>1, <1>2 DEF FirstWhole
<1>4. q[i] = tp[i] /\ q[j] = tp[j] /\ q[j - 1] = tp[j - 1]
    BY <1>1, <1>3
<1>5. ASSUME NEW m \in 1..(N + 1), i < m, m < j PROVE ~Whole(q[m])
    <2>1. m \in 1..N
        BY <1>1, <1>2, <1>5
    <2>2. ~Whole(tp[m])
        BY <1>2, <1>5, <2>1 DEF FirstWhole, N
    <2>3. QED
        BY <1>1, <2>1, <2>2
<1>6. FirstWhole(q, i, j)
    BY <1>1, <1>2, <1>4, <1>5 DEF FirstWhole
<1>7. QED
    BY <1>1, <1>2, <1>3, <1>4, <1>6 DEF HealedAt

\* A line that heals nothing leaves the player's healing as it was.
LEMMA HealingStays ==
    ASSUME NEW s, NEW t, NEW tp, NEW q, NEW l, Grown(q, tp, l), Watches(s), PlayedHealing(s, tp),
           HealingOn(q) <=> HealingOn(tp), t.narrator.healed = s.narrator.healed,
           NEW x, NewBeat(t, s, x), x.kind = "healed" => t.beats = s.beats
    PROVE  PlayedHealing(t, q)
<1>1. /\ s.narrator.healed <=> HealingOn(tp)
      /\ s.narrator.healed <=> \E k \in 1..Len(s.beats) : s.beats[k].kind = "healed"
      /\ \A k \in 1..Len(s.beats) : s.beats[k].kind = "healed" => HealedAt(s.beats[k].time, tp)
    BY DEF PlayedHealing, HealingOn
<1>2. /\ \A k \in 1..Len(t.beats) : t.beats[k].kind = "healed" => k \in 1..Len(s.beats) /\ t.beats[k] = s.beats[k]
      /\ \A k \in 1..Len(s.beats) : k \in 1..Len(t.beats) /\ t.beats[k] = s.beats[k]
    BY BeatsGrow
<1>3. \A k \in 1..Len(t.beats) : t.beats[k].kind = "healed" => HealedAt(t.beats[k].time, q)
    BY <1>1, <1>2, HealedAtStays
<1>4. QED
    BY <1>1, <1>2, <1>3 DEF PlayedHealing, HealingOn

\* Analytics heal in the player exactly if they do on the tape.
LEMMA ReportPlays ==
    ASSUME NEW s, NEW tp \in Seq(TapeLines), NEW b, NEW r, NEW l \in TapeLines, l.type = "analytics",
           NEW q, Grown(q, tp, l), Watches(s),
           PlayedClock(s, tp, b, r), PlayedFaults(s, tp), PlayedHealing(s, tp)
    PROVE  PlayedHealing(Displays(s, l), q)
<1> DEFINE N == Len(tp)
           t == Displays(s, l)
           heal == s.narrator.healFrom # None /\ ~s.narrator.healed /\ l.delivered
<1>1. N \in Nat /\ Len(q) = N + 1 /\ q[N + 1] = l /\ \A i \in 1..N : q[i] = tp[i]
    BY DEF Grown
<1>2. /\ SameBut(t, s, {"beats", "healed"})
      /\ heal => t.narrator.healed /\ t.beats = Append(s.beats, App!Beat("healed", "Mesh healed", s.simTime))
      /\ ~heal => t.narrator.healed = s.narrator.healed /\ t.beats = s.beats
    BY ReportIsShown
<1>3. t.beats \in Seq(TapeBeats)
    BY <1>2 DEF SameBut, Watches
<1>4. \A i \in 1..N : Marks(tp[i], "cleared") => tp[i].type = "event" /\ tp[i].at \in Nat
    <2>1. \A i \in 1..N : tp[i] \in TapeLines
        OBVIOUS
    <2>2. QED
        BY <2>1, TapeLineIs DEF Marks
<1>5. s.narrator.healFrom # None <=> \E i \in 1..N : Marks(tp[i], "cleared")
    <2>1. None \notin Nat
        BY RecordingAssumption
    <2>2. QED
        BY <1>4, <2>1 DEF PlayedFaults
<1>6. s.narrator.healed <=> HealingOn(tp)
    BY DEF PlayedHealing, HealingOn
<1> HIDE DEF N, t, heal
<1>7. CASE heal
    <2>1. PICK x : x = App!Beat("healed", "Mesh healed", s.simTime)
        OBVIOUS
    <2>2. x.kind = "healed" /\ x.time = s.simTime
        BY <2>1 DEF App!Beat
    <2>3. PICK i \in 1..N : Marks(tp[i], "cleared")
        BY <1>5, <1>7 DEF heal
    <2>4. ~HealingOn(tp)
        BY <1>6, <1>7 DEF heal
    <2>5. N \in 1..N /\ N + 1 \in 1..(N + 1) /\ i \in 1..(N + 1) /\ i < N + 1 /\ (N + 1) - 1 = N
        BY <1>1, <2>3
    <2>6. Whole(q[N + 1]) /\ Marks(q[i], "cleared")
        BY <1>1, <1>7, <2>3 DEF heal, Whole
    <2>7. FirstWhole(q, i, N + 1)
        <3>1. ASSUME NEW m \in 1..(N + 1), i < m, m < N + 1 PROVE ~Whole(q[m])
            <4>1. m \in 1..N
                BY <1>1, <3>1
            <4>2. QED
                BY <1>1, <2>3, <2>4, <3>1, <4>1 DEF HealingOn, N
        <3>2. QED
            BY <1>1, <2>5, <2>6, <3>1 DEF FirstWhole
    <2>8. HealedAt(s.simTime, q)
        <3>1. tp[i].at <= s.simTime
            <4>1. Timed(tp[i]) /\ When(tp[i]) = tp[i].at
                BY <1>4, <2>3 DEF Timed, When
            <4>2. QED
                BY <2>3, <4>1 DEF PlayedClock, N
        <3>2. s.simTime >= q[i].at
            <4>1. tp[i].at \in Nat /\ s.simTime \in Nat
                BY <1>4, <2>3 DEF Watches
            <4>2. QED
                BY <1>1, <2>3, <3>1, <4>1
        <3>3. q[N].type = "snapshot" => s.simTime = q[N].time
            BY <1>1, <2>5 DEF PlayedClock, N
        <3>4. QED
            BY <1>1, <2>5, <2>7, <3>2, <3>3 DEF HealedAt
    <2>9. HealingOn(q)
        BY <1>1, <2>5, <2>6 DEF HealingOn
    <2>10. t.narrator.healed /\ t.beats = Append(s.beats, x)
        BY <1>2, <1>7, <2>1
    <2>11. /\ Len(s.beats) + 1 \in 1..Len(t.beats) /\ t.beats[Len(s.beats) + 1].kind = "healed"
           /\ \A k \in 1..Len(t.beats) : t.beats[k].kind = "healed" => HealedAt(t.beats[k].time, q)
        <3>1. \A k \in 1..Len(s.beats) : s.beats[k].kind # "healed"
            BY <1>7 DEF PlayedHealing, heal
        <3>2. s.beats \in Seq(TapeBeats)
            BY DEF Watches
        <3>3. /\ Len(t.beats) = Len(s.beats) + 1 /\ t.beats[Len(s.beats) + 1] = x /\ Len(s.beats) \in Nat
            BY <1>3, <2>10, <3>2
        <3>4. \A k \in 1..Len(t.beats) : \/ k \in 1..Len(s.beats) /\ t.beats[k] = s.beats[k]
                                         \/ k = Len(s.beats) + 1 /\ t.beats[k] = x
            BY <1>3, <2>10, BeatsGrow DEF NewBeat
        <3>5. Len(s.beats) + 1 \in 1..Len(t.beats)
            BY <3>3
        <3>6. t.beats[Len(s.beats) + 1].kind = "healed"
            BY <2>2, <3>3
        <3>7. ASSUME NEW k \in 1..Len(t.beats), t.beats[k].kind = "healed" PROVE HealedAt(t.beats[k].time, q)
            BY <2>2, <2>8, <3>1, <3>4, <3>7
        <3>8. QED
            BY <3>5, <3>6, <3>7
    <2>12. QED
        BY <2>9, <2>10, <2>11 DEF PlayedHealing, HealingOn, t
<1>8. CASE ~heal
    <2>1. t.narrator.healed = s.narrator.healed /\ t.beats = s.beats
        BY <1>2, <1>8
    <2>2. HealingOn(q) <=> HealingOn(tp)
        <3>1. CASE ~l.delivered
            <4>1. ~Whole(l)
                BY <3>1 DEF Whole
            <4>2. QED
                BY <4>1, HealingStaysOn
        <3>2. CASE \A i \in 1..N : ~Marks(tp[i], "cleared")
            <4>1. ~HealingOn(tp)
                BY <3>2 DEF HealingOn, N
            <4>2. ~Marks(l, "cleared")
                BY DEF Marks
            <4>3. ASSUME NEW i \in 1..(N + 1) PROVE ~Marks(q[i], "cleared")
                <5>1. i \in 1..N \/ i = N + 1
                    BY <1>1
                <5>2. QED
                    BY <1>1, <3>2, <4>2, <5>1
            <4>4. QED
                BY <1>1, <4>1, <4>3 DEF HealingOn
        <3>3. CASE HealingOn(tp)
            <4>1. PICK i, j \in 1..N : i < j /\ Marks(tp[i], "cleared") /\ Whole(tp[j])
                BY <3>3 DEF HealingOn, N
            <4>2. i \in 1..(N + 1) /\ j \in 1..(N + 1) /\ Marks(q[i], "cleared") /\ Whole(q[j])
                BY <1>1, <4>1
            <4>3. QED
                BY <1>1, <3>3, <4>1, <4>2 DEF HealingOn
        <3>4. QED
            BY <1>5, <1>6, <1>8, <3>1, <3>2, <3>3 DEF heal
    <2>3. NewBeat(t, s, s)
        BY <1>3, <2>1 DEF NewBeat
    <2>4. QED
        BY <2>1, <2>2, <2>3, HealingStays DEF t
<1>9. QED
    BY <1>7, <1>8

\* Without a phase there is no new beat of one.
LEMMA BeatsStay ==
    ASSUME NEW s, NEW t, NEW tp, NEW q, NEW l, Grown(q, tp, l), NEW r, Watches(s), PlayedBeats(s, tp, r),
           NEW x, NewBeat(t, s, x),
           t.beats # s.beats => x.time <= r.now /\ x.kind # "phase"
    PROVE  PlayedBeats(t, q, r)
<1> DEFINE N == Len(tp)
<1>1. N \in Nat /\ Len(q) = N + 1 /\ \A i \in 1..N : i \in 1..(N + 1) /\ q[i] = tp[i]
    BY DEF Grown
<1>2. /\ \A k \in 1..Len(s.beats) :
           /\ s.beats[k].time <= r.now
           /\ s.beats[k].kind = "phase" =>
                  /\ s.beats[k].label \in {"inject", "clear"}
                  /\ \E i \in 1..N : Marks(tp[i], s.beats[k].label) /\ tp[i].at = s.beats[k].time
      /\ \A k, m \in 1..Len(s.beats) :
           s.beats[k].kind = "phase" /\ s.beats[m].kind = "phase" /\ s.beats[k].label = s.beats[m].label => k = m
    BY DEF PlayedBeats
<1> HIDE DEF N
<1>3. \A k \in 1..Len(t.beats) : \/ k \in 1..Len(s.beats) /\ t.beats[k] = s.beats[k]
                                 \/ t.beats[k] = x /\ x.time <= r.now /\ x.kind # "phase"
    <2>1. CASE t.beats = s.beats
        BY <2>1
    <2>2. CASE t.beats # s.beats
        BY <2>2, BeatsGrow
    <2>3. QED
        BY <2>1, <2>2
<1>4. \A k \in 1..Len(t.beats) : t.beats[k].time <= r.now
    BY <1>2, <1>3
<1>5. \A k \in 1..Len(t.beats) : t.beats[k].kind = "phase" => k \in 1..Len(s.beats) /\ t.beats[k] = s.beats[k]
    BY <1>3
<1>6. ASSUME NEW k \in 1..Len(t.beats), t.beats[k].kind = "phase"
      PROVE  /\ t.beats[k].label \in {"inject", "clear"}
             /\ \E i \in 1..(N + 1) : Marks(q[i], t.beats[k].label) /\ q[i].at = t.beats[k].time
    <2>1. k \in 1..Len(s.beats) /\ t.beats[k] = s.beats[k]
        BY <1>5, <1>6
    <2>2. PICK i \in 1..N : Marks(tp[i], s.beats[k].label) /\ tp[i].at = s.beats[k].time
        BY <1>2, <1>6, <2>1
    <2>3. i \in 1..(N + 1) /\ q[i] = tp[i]
        BY <1>1
    <2>4. QED
        BY <1>2, <1>6, <2>1, <2>2, <2>3
<1>7. ASSUME NEW k \in 1..Len(t.beats), NEW m \in 1..Len(t.beats),
             t.beats[k].kind = "phase", t.beats[m].kind = "phase", t.beats[k].label = t.beats[m].label
      PROVE  k = m
    BY <1>2, <1>5, <1>7
<1>8. QED
    BY <1>1, <1>4, <1>6, <1>7 DEF PlayedBeats

\* A phase is one beat, in its time.
LEMMA PhasePlays ==
    ASSUME NEW s, NEW t, NEW tp, NEW q, NEW l, Grown(q, tp, l), NEW r, Watches(s), PlayedBeats(s, tp, r),
           NewBeat(t, s, App!Beat("phase", l.label, l.at)), l.at <= r.now,
           l.label \in {"inject", "clear"}, Marks(l, l.label), \A i \in 1..Len(tp) : ~Marks(tp[i], l.label)
    PROVE  PlayedBeats(t, q, r)
<1> DEFINE N == Len(tp)
<1>1. N \in Nat /\ Len(q) = N + 1 /\ q[N + 1] = l /\ \A i \in 1..N : i \in 1..(N + 1) /\ q[i] = tp[i]
    BY DEF Grown
<1>2. /\ \A k \in 1..Len(s.beats) :
           /\ s.beats[k].time <= r.now
           /\ s.beats[k].kind = "phase" =>
                  /\ s.beats[k].label \in {"inject", "clear"}
                  /\ \E i \in 1..N : Marks(tp[i], s.beats[k].label) /\ tp[i].at = s.beats[k].time
      /\ \A k, m \in 1..Len(s.beats) :
           s.beats[k].kind = "phase" /\ s.beats[m].kind = "phase" /\ s.beats[k].label = s.beats[m].label => k = m
    BY DEF PlayedBeats
<1>3. \A i \in 1..N : ~Marks(tp[i], l.label)
    OBVIOUS
<1> HIDE DEF N
<1>4. PICK x : x = App!Beat("phase", l.label, l.at)
    OBVIOUS
<1>5. x.kind = "phase" /\ x.label = l.label /\ x.time = l.at
    BY <1>4 DEF App!Beat
<1>6. \A k \in 1..Len(t.beats) : \/ k \in 1..Len(s.beats) /\ t.beats[k] = s.beats[k]
                                 \/ k = Len(s.beats) + 1 /\ t.beats[k] = x
    BY <1>4, BeatsGrow
<1>7. \A k \in 1..Len(t.beats) : t.beats[k].time <= r.now
    BY <1>2, <1>5, <1>6
<1>8. ASSUME NEW k \in 1..Len(t.beats), t.beats[k].kind = "phase"
      PROVE  /\ t.beats[k].label \in {"inject", "clear"}
             /\ \E i \in 1..(N + 1) : Marks(q[i], t.beats[k].label) /\ q[i].at = t.beats[k].time
    <2>1. CASE k \in 1..Len(s.beats) /\ t.beats[k] = s.beats[k]
        <3>1. PICK i \in 1..N : Marks(tp[i], s.beats[k].label) /\ tp[i].at = s.beats[k].time
            BY <1>2, <1>8, <2>1
        <3>2. i \in 1..(N + 1) /\ q[i] = tp[i]
            BY <1>1
        <3>3. QED
            BY <1>2, <1>8, <2>1, <3>1, <3>2
    <2>2. CASE t.beats[k] = x
        <3>1. N + 1 \in 1..(N + 1)
            BY <1>1
        <3>2. QED
            BY <1>1, <1>5, <2>2, <3>1
    <2>3. QED
        BY <1>6, <2>1, <2>2
<1>9. ASSUME NEW k \in 1..Len(s.beats), s.beats[k].kind = "phase" PROVE s.beats[k].label # l.label
    BY <1>2, <1>3, <1>9
<1>10. ASSUME NEW k \in 1..Len(t.beats), NEW m \in 1..Len(t.beats),
              t.beats[k].kind = "phase", t.beats[m].kind = "phase", t.beats[k].label = t.beats[m].label
       PROVE  k = m
    <2>1. CASE k \in 1..Len(s.beats) /\ m \in 1..Len(s.beats) /\ t.beats[k] = s.beats[k] /\ t.beats[m] = s.beats[m]
        BY <1>2, <1>10, <2>1
    <2>2. CASE k \in 1..Len(s.beats) /\ t.beats[k] = s.beats[k] /\ t.beats[m] = x
        BY <1>5, <1>9, <1>10, <2>2
    <2>3. CASE m \in 1..Len(s.beats) /\ t.beats[m] = s.beats[m] /\ t.beats[k] = x
        BY <1>5, <1>9, <1>10, <2>3
    <2>4. CASE k = Len(s.beats) + 1 /\ m = Len(s.beats) + 1
        BY <2>4
    <2>5. QED
        BY <1>6, <2>1, <2>2, <2>3, <2>4
<1>11. QED
    BY <1>1, <1>7, <1>8, <1>10 DEF PlayedBeats

\* An event is played, by its kind.
LEMMA EventPlays ==
    ASSUME NEW s, Watches(s), NEW e \in TapeEvents
    PROVE  LET t == Displays(s, e)
           IN  /\ Watches(t)
               /\ t.simTime = IF e.kind = "ClockTick" THEN e.at ELSE s.simTime
               /\ e.kind \in {"ClockTick", "SybilPruned", "ScenarioPhaseFired"} => t.activeFaults = s.activeFaults
               /\ e.kind # "FaultCleared" =>
                      t.narrator.healFrom = s.narrator.healFrom /\ t.narrator.healed = s.narrator.healed
               /\ e.kind = "ScenarioPhaseFired" => NewBeat(t, s, App!Beat("phase", e.label, e.at))
               /\ e.kind # "FaultCleared" /\ e.kind # "ScenarioPhaseFired" =>
                      \E x : NewBeat(t, s, x) /\ x.time = e.at /\ x.kind \in {"fault", "prune"}
<1> DEFINE t == Displays(s, e)
<1>1. e \in TapeLines /\ e.type = "event"
    BY EventsAre
<1>2. \A label : App!Beat("prune", label, e.at).kind = "prune" /\ App!Beat("prune", label, e.at).time = e.at
    BY DEF App!Beat
<1>3. App!Beat("fault", "sybil", e.at).kind = "fault" /\ App!Beat("fault", "sybil", e.at).time = e.at
    BY DEF App!Beat
<1>4. CASE e.kind = "ClockTick"
    <2>1. SameBut(t, s, {"simTime"}) /\ t.simTime = e.at
        BY <1>1, <1>4, TickIsShown
    <2>2. NewBeat(t, s, App!Beat("fault", "sybil", e.at))
        BY <2>1 DEF SameBut, NewBeat, Watches
    <2>3. QED
        BY <1>3, <1>4, <2>1, <2>2 DEF SameBut
<1>5. CASE e.kind = "ScenarioPhaseFired"
    <2>1. /\ SameBut(t, s, {"beats"})
          /\ t.beats = Append(s.beats, App!Beat("phase", e.label, e.at))
        BY <1>1, <1>5, PhaseIsShown
    <2>2. NewBeat(t, s, App!Beat("phase", e.label, e.at))
        BY <2>1 DEF SameBut, NewBeat, Watches
    <2>3. QED
        BY <1>5, <2>1, <2>2 DEF SameBut
<1>6. CASE e.kind = "SybilPruned"
    <2>1. /\ SameBut(t, s, {"beats"})
          /\ \/ t.beats = s.beats
             \/ t.beats = Append(s.beats, App!Beat("prune", "First Sybil pruned", e.at))
        BY <1>1, <1>6, PruneIsShown
    <2>2. NewBeat(t, s, App!Beat("prune", "First Sybil pruned", e.at))
        BY <2>1 DEF SameBut, NewBeat, Watches
    <2>3. QED
        BY <1>2, <1>6, <2>1, <2>2 DEF SameBut
<1>7. CASE e.kind = "FaultInjected"
    <2>1. /\ SameBut(t, s, {"beats", "activeFaults"})
          /\ t.beats = Append(s.beats, App!Beat("fault", "sybil", e.at))
        BY <1>1, <1>7, FaultIsShown
    <2>2. NewBeat(t, s, App!Beat("fault", "sybil", e.at))
        BY <2>1 DEF SameBut, NewBeat, Watches
    <2>3. QED
        BY <1>3, <1>7, <2>1, <2>2 DEF SameBut
<1>8. CASE e.kind = "FaultCleared"
    <2>1. PICK a : SameBut(a, s, {}) /\ t = App!Effect(a, e)
        BY <1>1, EventIsShown
    <2>2. CASE s.narrator.healFrom = None
        <3>1. SameBut(t, s, {"beats", "activeFaults", "healFrom", "healed"})
            BY <1>1, <1>8, <2>2, ClearIsShown
        <3>2. QED
            BY <1>8, <3>1 DEF SameBut
    <2>3. CASE s.narrator.healFrom # None
        <3>1. PICK b : b = App!Beat("cleared", "sybil", e.at)
            OBVIOUS
        <3>2. e.fault = "sybil" /\ e.at \in Nat
            BY <1>1, <1>8, TapeLineIs DEF TapeEvents
        <3>3. t = [a EXCEPT !.activeFaults = 0, !.beats = Append(@, b)]
            <4>1. a.narrator.healFrom # None
                BY <2>1, <2>3 DEF SameBut
            <4>2. [a EXCEPT !.activeFaults = 0, !.beats = Append(@, b), !.narrator = @]
                      = [a EXCEPT !.activeFaults = 0, !.beats = Append(@, b)]
                OBVIOUS
            <4>3. QED
                BY <1>8, <2>1, <3>1, <3>2, <4>1 DEF App!Effect, App!FaultEnds
        <3>4. b \in TapeBeats
            BY <3>1, <3>2 DEF App!Beat, TapeBeats
        <3>5. QED
            BY <1>8, <2>1, <3>3, <3>4, ShapeOfStore DEF Watches, SameBut
    <2>4. QED
        BY <2>2, <2>3
<1>9. QED
    BY <1>4, <1>5, <1>6, <1>7, <1>8, EventsAre

LEMMA MarkedBy ==
    ASSUME NEW e \in TapeEvents
    PROVE  /\ Marks(e, "injected") <=> e.kind = "FaultInjected"
           /\ Marks(e, "cleared") <=> e.kind = "FaultCleared"
           /\ e.kind = "ScenarioPhaseFired" => Marks(e, e.label)
           /\ ~Whole(e)
BY EventsAre DEF Marks, Whole

\* One event is sent, and played.
LEMMA SendOne ==
    ASSUME NEW tp, NEW b, NEW r, TapeOk(tp, b, r), NEW e \in TapeEvents, NEW c, Waits(b, e, c)
    PROVE  TapeOk(Append(tp, e), c, r)
<1> DEFINE s == PlayerOf(tp)
           t == Displays(s, e)
           q == Append(tp, e)
<1>1. /\ tp \in Seq(TapeLines) /\ r \in TapeRuns /\ e \in TapeLines /\ e.type = "event" /\ e.at \in Nat /\ r.now \in Nat
    BY EventsAre, BoundsAre DEF TapeOk, OnTape, TapeTypes, TapeRuns
<1>2. Grown(q, tp, e) /\ PlayerOf(q) = t
    BY <1>1, Grows, PlayerGoesOn
<1>3. /\ Watches(s) /\ PlayedClock(s, tp, b, r) /\ PlayedFaults(s, tp) /\ PlayedHealing(s, tp) /\ PlayedBeats(s, tp, r)
    BY DEF TapeOk, PlayedTape
<1>4. PICK p : p = q
    OBVIOUS
<1>5. OnTape(p, c, r)
    BY <1>2, <1>4, SendingKeepsTape DEF TapeOk
<1>6. /\ 1 \in 1..Len(b) /\ b[1] = e /\ e.at = r.now
    BY DEF Waits, TapeOk, OnTape, InOrderOfTime
<1> HIDE DEF s, t, q
<1>7. /\ Watches(t)
      /\ t.simTime = IF e.kind = "ClockTick" THEN e.at ELSE s.simTime
      /\ e.kind \in {"ClockTick", "SybilPruned", "ScenarioPhaseFired"} => t.activeFaults = s.activeFaults
      /\ e.kind # "FaultCleared" =>
             t.narrator.healFrom = s.narrator.healFrom /\ t.narrator.healed = s.narrator.healed
      /\ e.kind = "ScenarioPhaseFired" => NewBeat(t, s, App!Beat("phase", e.label, e.at))
      /\ e.kind # "FaultCleared" /\ e.kind # "ScenarioPhaseFired" =>
             \E x : NewBeat(t, s, x) /\ x.time = e.at /\ x.kind \in {"fault", "prune"}
    BY <1>3, EventPlays DEF t
<1>8. e.kind \in {"ClockTick", "SybilPruned", "ScenarioPhaseFired", "FaultInjected", "FaultCleared"}
    BY EventsAre
<1>9. PlayedClock(t, p, c, r)
    <2>1. t.simTime = r.now
        BY <1>3, <1>6, <1>7 DEF PlayedClock
    <2>2. p[Len(p)] = e
        <3>1. Len(tp) \in Nat
            BY <1>1
        <3>2. QED
            BY <1>2, <1>4, <3>1 DEF Grown
    <2>3. QED
        BY <1>1, <1>5, <2>1, <2>2, PlaysInTime DEF OnTape
<1>10. Grown(p, tp, e)
    BY <1>2, <1>4
<1>11. \A w \in Milestones : Marks(e, w) => \A i \in 1..Len(tp) : ~Marks(tp[i], w)
    BY <1>6 DEF TapeOk, OnTape, PassedOnce
<1>12. e.kind = "FaultCleared" => s.narrator.healFrom = None /\ ~s.narrator.healed /\ \A i \in 1..Len(tp) : ~Marks(tp[i], "cleared")
    <2>1. ASSUME e.kind = "FaultCleared" PROVE \A i \in 1..Len(tp) : ~Marks(tp[i], "cleared")
        BY <1>11, <2>1, MarkedBy DEF Milestones
    <2>2. QED
        BY <1>3, <2>1 DEF PlayedFaults, PlayedHealing
<1>13. e.kind = "FaultCleared" =>
            /\ t.activeFaults = 0 /\ t.narrator.healFrom = e.at /\ ~t.narrator.healed
            /\ t.beats = Append(s.beats, App!Beat("cleared", "sybil", e.at))
    BY <1>1, <1>3, <1>12, ClearIsShown DEF t
<1>14. PlayedFaults(t, p)
    <2>1. CASE e.kind \in {"ClockTick", "SybilPruned", "ScenarioPhaseFired"}
        <3>1. ~Marks(e, "injected") /\ ~Marks(e, "cleared")
            BY <2>1, MarkedBy
        <3>2. t.activeFaults = s.activeFaults /\ t.narrator.healFrom = s.narrator.healFrom
            BY <1>7, <2>1
        <3>3. QED
            BY <1>3, <1>10, <3>1, <3>2, FaultsStay
    <2>2. CASE e.kind = "FaultInjected"
        <3>1. Marks(e, "injected") /\ ~Marks(e, "cleared")
            BY <2>2, MarkedBy
        <3>2. \A i \in 1..Len(tp) : ~Marks(tp[i], "cleared")
            BY <1>6, <3>1 DEF TapeOk, OnTape, InjectedFirst
        <3>3. t.narrator.healFrom = s.narrator.healFrom
            BY <1>7, <2>2
        <3>4. QED
            BY <1>3, <1>10, <3>1, <3>2, <3>3, InjectionPlays
    <2>3. CASE e.kind = "FaultCleared"
        <3>1. Marks(e, "cleared")
            BY <2>3, MarkedBy
        <3>2. QED
            BY <1>10, <1>12, <1>13, <2>3, <3>1, ClearPlays
    <2>4. QED
        BY <1>8, <2>1, <2>2, <2>3
<1>15. \E x : NewBeat(t, s, x) /\ x.kind # "healed" /\ (e.kind # "ScenarioPhaseFired" => x.time = e.at /\ x.kind # "phase")
    <2>1. CASE e.kind = "ScenarioPhaseFired"
        <3>1. App!Beat("phase", e.label, e.at).kind = "phase"
            BY DEF App!Beat
        <3>2. QED
            BY <1>7, <2>1, <3>1
    <2>2. CASE e.kind = "FaultCleared"
        <3>1. App!Beat("cleared", "sybil", e.at).kind = "cleared" /\ App!Beat("cleared", "sybil", e.at).time = e.at
            BY DEF App!Beat
        <3>2. NewBeat(t, s, App!Beat("cleared", "sybil", e.at))
            BY <1>7, <1>13, <2>2 DEF NewBeat, Watches
        <3>3. QED
            BY <2>2, <3>1, <3>2
    <2>3. CASE e.kind # "FaultCleared" /\ e.kind # "ScenarioPhaseFired"
        BY <1>7, <2>3
    <2>4. QED
        BY <2>1, <2>2, <2>3
<1>16. PICK x : NewBeat(t, s, x) /\ x.kind # "healed" /\ (e.kind # "ScenarioPhaseFired" => x.time = e.at /\ x.kind # "phase")
    BY <1>15
<1>17. PlayedHealing(t, p)
    <2>1. HealingOn(p) <=> HealingOn(tp)
        BY <1>10, HealingStaysOn, MarkedBy
    <2>2. t.narrator.healed = s.narrator.healed
        BY <1>3, <1>7, <1>12, <1>13 DEF Watches
    <2>3. QED
        BY <1>3, <1>10, <1>16, <2>1, <2>2, HealingStays
<1>18. PlayedBeats(t, p, r)
    <2>1. CASE e.kind = "ScenarioPhaseFired"
        <3>1. Marks(e, e.label) /\ e.label \in {"inject", "clear"}
            BY <2>1, MarkedBy, EventsAre
        <3>2. \A i \in 1..Len(tp) : ~Marks(tp[i], e.label)
            BY <1>11, <3>1 DEF Milestones
        <3>3. NewBeat(t, s, App!Beat("phase", e.label, e.at)) /\ e.at <= r.now
            BY <1>1, <1>6, <1>7, <2>1
        <3>4. QED
            BY <1>3, <1>10, <3>1, <3>2, <3>3, PhasePlays
    <2>2. CASE e.kind # "ScenarioPhaseFired"
        <3>1. x.time <= r.now /\ x.kind # "phase"
            BY <1>1, <1>6, <1>16, <2>2
        <3>2. QED
            BY <1>3, <1>10, <1>16, <3>1, BeatsStay
    <2>3. QED
        BY <2>1, <2>2
<1>19. PlayedTape(t, p, c, r)
    BY <1>7, <1>9, <1>14, <1>17, <1>18 DEF PlayedTape
<1>20. QED
    <2>1. TapeOk(p, c, r)
        BY <1>2, <1>4, <1>5, <1>19 DEF TapeOk
    <2>2. QED
        BY <1>4, <2>1 DEF q

\* What waits is sent, one after the other.
LEMMA SendAll ==
    \A n \in Nat : \A tp, b, r : TapeOk(tp, b, r) /\ Len(b) = n => TapeOk(tp \o b, <<>>, r)
<1> DEFINE S == {n \in Nat : \A tp, b, r : TapeOk(tp, b, r) /\ Len(b) = n => TapeOk(tp \o b, <<>>, r)}
<1>1. 0 \in S
    <2>1. SUFFICES ASSUME NEW tp, NEW b, NEW r, TapeOk(tp, b, r), Len(b) = 0 PROVE TapeOk(tp \o b, <<>>, r)
        OBVIOUS
    <2>2. b \in Seq(TapeEvents) /\ tp \in Seq(TapeLines)
        BY <2>1 DEF TapeOk, OnTape, TapeTypes
    <2>3. b = <<>>
        BY <2>1, <2>2, EmptySeq
    <2>4. tp \o b = tp
        BY <2>2, <2>3, ConcatEmptySeq
    <2>5. QED
        BY <2>1, <2>3, <2>4
<1>2. ASSUME NEW n \in S PROVE n + 1 \in S
    <2>1. SUFFICES ASSUME NEW tp, NEW b, NEW r, TapeOk(tp, b, r), Len(b) = n + 1 PROVE TapeOk(tp \o b, <<>>, r)
        OBVIOUS
    <2>2. b \in Seq(TapeEvents) /\ tp \in Seq(TapeLines) /\ n \in Nat
        BY <2>1 DEF TapeOk, OnTape, TapeTypes
    <2>3. b # <<>>
        BY <2>1, <2>2
    <2>4. PICK e, c : e = Head(b) /\ c = Tail(b)
        OBVIOUS
    <2>5. e \in TapeEvents /\ c \in Seq(TapeEvents) /\ Len(c) = n /\ b[1] = e /\ \A j \in 1..n : b[j + 1] = c[j]
        BY <2>1, <2>2, <2>3, <2>4
    <2>6. Waits(b, e, c)
        BY <2>1, <2>2, <2>5 DEF Waits
    <2>7. TapeOk(Append(tp, e), c, r)
        BY <2>1, <2>5, <2>6, SendOne
    <2>8. PICK q : q = Append(tp, e)
        OBVIOUS
    <2>9. TapeOk(q \o c, <<>>, r)
        BY <2>5, <2>7, <2>8
    <2>10. q \o c = tp \o b
        <3>1. e \in TapeLines
            BY <2>5, EventsAre
        <3>2. q \in Seq(TapeLines) /\ Len(q) = Len(tp) + 1 /\ q[Len(tp) + 1] = e /\ (\A i \in 1..Len(tp) : q[i] = tp[i])
              /\ Len(tp) \in Nat
            BY <2>2, <2>8, <3>1
        <3>3. PICK u, v : u = q \o c /\ v = tp \o b
            OBVIOUS
        <3>4. /\ c \in Seq(TapeLines) /\ b \in Seq(TapeLines)
            <4>1. TapeEvents \subseteq TapeLines
                BY DEF TapeLines
            <4>2. QED
                BY <2>2, <2>5, <4>1
        <3>5. /\ u \in Seq(TapeLines) /\ Len(u) = Len(tp) + 1 + n
              /\ \A i \in 1..(Len(tp) + 1 + n) : u[i] = IF i <= Len(tp) + 1 THEN q[i] ELSE c[i - (Len(tp) + 1)]
            <4>1. /\ u \in Seq(TapeLines) /\ Len(u) = Len(q) + Len(c)
                  /\ \A i \in 1..(Len(q) + Len(c)) : u[i] = IF i <= Len(q) THEN q[i] ELSE c[i - Len(q)]
                <5>1. q \in Seq(TapeLines) /\ c \in Seq(TapeLines)
                    BY <3>2, <3>4
                <5>2. /\ q \o c \in Seq(TapeLines) /\ Len(q \o c) = Len(q) + Len(c)
                      /\ \A i \in 1..(Len(q) + Len(c)) : (q \o c)[i] = IF i <= Len(q) THEN q[i] ELSE c[i - Len(q)]
                    BY <5>1, ConcatProperties, Zenon
                <5>3. QED
                    BY <3>3, <5>2, Zenon
            <4>2. QED
                BY <2>5, <3>2, <4>1
        <3>6. /\ v \in Seq(TapeLines) /\ Len(v) = Len(tp) + 1 + n
              /\ \A i \in 1..(Len(tp) + 1 + n) : v[i] = IF i <= Len(tp) THEN tp[i] ELSE b[i - Len(tp)]
            <4>1. /\ v \in Seq(TapeLines) /\ Len(v) = Len(tp) + Len(b)
                  /\ \A i \in 1..(Len(tp) + Len(b)) : v[i] = IF i <= Len(tp) THEN tp[i] ELSE b[i - Len(tp)]
                <5>1. tp \in Seq(TapeLines) /\ b \in Seq(TapeLines)
                    BY <2>2, <3>4
                <5>2. /\ tp \o b \in Seq(TapeLines) /\ Len(tp \o b) = Len(tp) + Len(b)
                      /\ \A i \in 1..(Len(tp) + Len(b)) : (tp \o b)[i] = IF i <= Len(tp) THEN tp[i] ELSE b[i - Len(tp)]
                    BY <5>1, ConcatProperties, Zenon
                <5>3. QED
                    BY <3>3, <5>2, Zenon
            <4>2. Len(tp) + Len(b) = Len(tp) + 1 + n
                BY <2>1, <2>2, <3>2
            <4>3. QED
                BY <4>1, <4>2
        <3>7. ASSUME NEW i \in 1..(Len(tp) + 1 + n) PROVE u[i] = v[i]
            <4>1. CASE i <= Len(tp)
                <5>1. i \in 1..Len(tp) /\ i <= Len(tp) + 1
                    BY <3>2, <4>1
                <5>2. QED
                    BY <3>2, <3>5, <3>6, <4>1, <5>1
            <4>2. CASE i = Len(tp) + 1
                <5>1. ~(i <= Len(tp)) /\ i <= Len(tp) + 1 /\ i - Len(tp) = 1
                    BY <3>2, <4>2
                <5>2. u[i] = q[i] /\ v[i] = b[1]
                    BY <3>5, <3>6, <5>1
                <5>3. QED
                    BY <2>5, <3>2, <4>2, <5>2
            <4>3. CASE i > Len(tp) + 1
                <5>1. PICK j : j = i - (Len(tp) + 1)
                    OBVIOUS
                <5>2. ~(i <= Len(tp)) /\ ~(i <= Len(tp) + 1) /\ i - Len(tp) = j + 1 /\ j \in 1..n
                    BY <2>2, <3>2, <4>3, <5>1
                <5>3. u[i] = c[j] /\ v[i] = b[j + 1]
                    BY <3>5, <3>6, <5>1, <5>2
                <5>4. QED
                    BY <2>5, <5>2, <5>3
            <4>4. QED
                BY <3>2, <4>1, <4>2, <4>3
        <3>8. u = v
            BY <3>5, <3>6, <3>7, SeqEqual
        <3>9. QED
            BY <3>3, <3>8
    <2>11. QED
        BY <2>9, <2>10
<1>3. S = Nat
    <2> HIDE DEF S
    <2>1. S \in SUBSET Nat
        BY DEF S
    <2>2. QED
        BY <1>1, <1>2, <2>1, NumbersBySteps
<1>4. QED
    BY <1>3

\* A line that is no event, after the others, leaves what was emitted.
LEMMA OtherIsEmitted ==
    ASSUME NEW tp, NEW b, NEW q, NEW l, Grown(q, tp, l), l.type # "event"
    PROVE  /\ Emitted(tp, b) \subseteq Emitted(q, b)
           /\ \A x \in Emitted(q, b) : x \in Emitted(tp, b) \/ x = l
           /\ \A i \in 1..Len(q) : \A w : Marks(q[i], w) => i \in 1..Len(tp) /\ q[i] = tp[i]
           /\ \A i \in 1..Len(tp) : i \in 1..Len(q) /\ q[i] = tp[i]
<1> DEFINE N == Len(tp)
<1>1. N \in Nat /\ Len(q) = N + 1 /\ q[N + 1] = l /\ \A i \in 1..N : q[i] = tp[i]
    BY DEF Grown
<1> HIDE DEF N
<1>2. \A i \in 1..(N + 1) : i \in 1..N \/ i = N + 1
    BY <1>1
<1>3. \A i \in 1..N : i \in 1..(N + 1)
    BY <1>1
<1>4. Emitted(tp, b) \subseteq Emitted(q, b)
    BY <1>1, <1>3 DEF Emitted, N
<1>5. \A x \in Emitted(q, b) : x \in Emitted(tp, b) \/ x = l
    BY <1>1, <1>2 DEF Emitted, N
<1>6. \A i \in 1..(N + 1) : \A w : Marks(q[i], w) => i \in 1..N /\ q[i] = tp[i]
    BY <1>1, <1>2, OtherLine
<1>7. QED
    BY <1>1, <1>3, <1>4, <1>5, <1>6 DEF N

LEMMA OtherKeepsOnce ==
    ASSUME NEW tp, NEW b, NEW r, NEW q, NEW l, Grown(q, tp, l), l.type # "event", PassedOnce(tp, b, r)
    PROVE  PassedOnce(q, b, r)
<1> SUFFICES ASSUME NEW w \in Milestones
             PROVE  /\ \A i, j \in 1..Len(q) : Marks(q[i], w) /\ Marks(q[j], w) => i = j
                    /\ \A i, j \in 1..Len(b) : Marks(b[i], w) /\ Marks(b[j], w) => i = j
                    /\ \A i \in 1..Len(q), j \in 1..Len(b) : ~(Marks(q[i], w) /\ Marks(b[j], w))
                    /\ HasHappened(w, r) <=> \E x \in Emitted(q, b) : Marks(x, w)
                    /\ \A x \in Emitted(q, b) : Marks(x, w) => x.at \in DueAt(w)..(DueAt(w) + LATE)
    BY DEF PassedOnce
<1>1. /\ \A i, j \in 1..Len(tp) : Marks(tp[i], w) /\ Marks(tp[j], w) => i = j
      /\ \A i, j \in 1..Len(b) : Marks(b[i], w) /\ Marks(b[j], w) => i = j
      /\ \A i \in 1..Len(tp), j \in 1..Len(b) : ~(Marks(tp[i], w) /\ Marks(b[j], w))
      /\ HasHappened(w, r) <=> \E x \in Emitted(tp, b) : Marks(x, w)
      /\ \A x \in Emitted(tp, b) : Marks(x, w) => x.at \in DueAt(w)..(DueAt(w) + LATE)
    BY DEF PassedOnce
<1>2. /\ \A i \in 1..Len(q) : Marks(q[i], w) => i \in 1..Len(tp) /\ q[i] = tp[i]
      /\ Emitted(tp, b) \subseteq Emitted(q, b)
      /\ \A x \in Emitted(q, b) : Marks(x, w) => x \in Emitted(tp, b)
    <2>1. ~Marks(l, w)
        BY OtherLine
    <2>2. \A i \in 1..Len(q) : Marks(q[i], w) => i \in 1..Len(tp) /\ q[i] = tp[i]
        BY OtherIsEmitted, Zenon
    <2>3. Emitted(tp, b) \subseteq Emitted(q, b) /\ \A x \in Emitted(q, b) : x \in Emitted(tp, b) \/ x = l
        BY OtherIsEmitted, Zenon
    <2>4. QED
        BY <2>1, <2>2, <2>3
<1>3. QED
    BY <1>1, <1>2

----------------------------------------------------------------------------
(* Other lines are written, and played.                                     *)

\* What may be written besides the events.
Writes(l, tp, b, r) ==
    /\ l \in TapeLines /\ l.type # "event"
    /\ l.type = "edges" => l.edges = "run"
    /\ l.type = "scenario" => ~r.told
    /\ l.type = "snapshot" => /\ l.time = r.now /\ (l.time > 0 => l.layout = "run" /\ r.told)
                              /\ ShowsAttack(l, Emitted(tp, b))

LEMMA WritingKeepsTape ==
    ASSUME NEW tp, NEW b, NEW r, OnTape(tp, b, r), NEW l, Writes(l, tp, b, r), NEW q, Grown(q, tp, l)
    PROVE  OnTape(q, b, r)
<1>1. /\ tp \in Seq(TapeLines) /\ b \in Seq(TapeEvents) /\ r \in TapeRuns /\ r.now \in Nat
      /\ l \in TapeLines /\ l.type # "event"
    BY BoundsAre DEF OnTape, TapeTypes, TapeRuns, Writes
<1>2. TapeTypes(q, b, r)
    BY DEF OnTape, TapeTypes, Grown
<1>3. PassedOnce(q, b, r)
    BY <1>1, OtherKeepsOnce DEF OnTape
<1>4. InjectedFirst(q, b)
    <2>1. \A i \in 1..Len(q) : Marks(q[i], "cleared") => i \in 1..Len(tp) /\ q[i] = tp[i]
        BY <1>1, OtherIsEmitted
    <2>2. QED
        BY <2>1 DEF OnTape, InjectedFirst
<1>5. InOrderOfTime(q, b, r)
    <2>1. PICK now : now = r.now
        OBVIOUS
    <2>2. /\ now \in Nat /\ (Timed(l) => When(l) = now)
          /\ \A i \in 1..Len(tp) : Timed(tp[i]) => When(tp[i]) <= now
          /\ \A i, j \in 1..Len(tp) : i < j /\ Timed(tp[i]) /\ Timed(tp[j]) => When(tp[i]) <= When(tp[j])
        BY <1>1, <2>1 DEF OnTape, InOrderOfTime, Writes, Timed, When
    <2>3. /\ \A i \in 1..Len(q) : Timed(q[i]) => When(q[i]) <= now
          /\ \A i, j \in 1..Len(q) : i < j /\ Timed(q[i]) /\ Timed(q[j]) => When(q[i]) <= When(q[j])
        BY <1>1, <2>2, LineKeepsTime
    <2>4. QED
        BY <2>1, <2>3 DEF OnTape, InOrderOfTime
<1>6. MeshOfRun(q, r)
    BY <1>1, LineKeepsMesh DEF OnTape, Writes
<1>7. AttackOnTape(q, b, r)
    <2>1. /\ Emitted(tp, b) \subseteq Emitted(q, b)
          /\ \A x \in Emitted(q, b) : IsPrune(x) => x \in Emitted(tp, b)
        BY <1>1, OtherIsEmitted, OtherLine
    <2>2. \A i \in 1..Len(q) : (i \in 1..Len(tp) /\ q[i] = tp[i]) \/ q[i] = l
        <3>1. \A i \in 1..(Len(tp) + 1) : i \in 1..Len(tp) \/ i = Len(tp) + 1
            BY <1>1
        <3>2. QED
            BY <3>1 DEF Grown
    <2>3. \A i \in 1..Len(q) : q[i].type = "snapshot" => ShowsAttack(q[i], Emitted(tp, b))
        BY <2>2 DEF OnTape, AttackOnTape, Writes
    <2>4. ASSUME NEW i \in 1..Len(q), q[i].type = "snapshot" PROVE ShowsAttack(q[i], Emitted(q, b))
        BY <2>1, <2>3, <2>4, MoreIsEmitted
    <2>5. QED
        BY <2>1, <2>4 DEF OnTape, AttackOnTape
<1>8. QED
    BY <1>2, <1>3, <1>4, <1>5, <1>6, <1>7 DEF OnTape

\* One line is written, and played.
LEMMA WriteOne ==
    ASSUME NEW tp, NEW b, NEW r, TapeOk(tp, b, r), NEW l, Writes(l, tp, b, r)
    PROVE  TapeOk(Append(tp, l), b, r)
<1> DEFINE s == PlayerOf(tp)
           t == Displays(s, l)
<1>1. /\ tp \in Seq(TapeLines) /\ r \in TapeRuns /\ l \in TapeLines /\ r.now \in Nat
    BY BoundsAre DEF TapeOk, OnTape, TapeTypes, TapeRuns, Writes
<1>2. PICK q : q = Append(tp, l)
    OBVIOUS
<1>3. Grown(q, tp, l) /\ PlayerOf(q) = t
    BY <1>1, <1>2, Grows, PlayerGoesOn
<1>4. /\ Watches(s) /\ PlayedClock(s, tp, b, r) /\ PlayedFaults(s, tp) /\ PlayedHealing(s, tp) /\ PlayedBeats(s, tp, r)
    BY DEF TapeOk, PlayedTape
<1> HIDE DEF s, t
<1>5. OnTape(q, b, r)
    BY <1>3, WritingKeepsTape DEF TapeOk
<1>6. /\ l.type # "event" /\ ~Marks(l, "injected") /\ ~Marks(l, "cleared")
    BY OtherLine DEF Writes
<1>7. l.type \in {"edges", "scenario", "analytics", "snapshot"}
    BY <1>1, <1>6 DEF TapeLines, TapeEvents, SnapshotLines, Statements, Edges, Scenario, Analytics
<1>8. ASSUME NEW x, NewBeat(t, s, x), t.beats = s.beats, Watches(t), ~Whole(l),
             t.activeFaults = s.activeFaults, t.narrator.healFrom = s.narrator.healFrom,
             t.narrator.healed = s.narrator.healed
      PROVE  PlayedFaults(t, q) /\ PlayedHealing(t, q) /\ PlayedBeats(t, q, r)
    <2>1. PlayedFaults(t, q)
        BY <1>3, <1>4, <1>6, <1>8, FaultsStay
    <2>2. HealingOn(q) <=> HealingOn(tp)
        BY <1>3, <1>8, HealingStaysOn
    <2>3. PlayedHealing(t, q)
        BY <1>3, <1>4, <1>8, <2>2, HealingStays
    <2>4. PlayedBeats(t, q, r)
        BY <1>3, <1>4, <1>8, BeatsStay
    <2>5. QED
        BY <2>1, <2>3, <2>4
<1>9. CASE l.type = "edges"
    <2>1. SameBut(t, s, {})
        BY <1>1, <1>4, <1>9, EdgesAreShown DEF t
    <2>2. /\ Watches(t) /\ NewBeat(t, s, s) /\ t.beats = s.beats /\ t.simTime = s.simTime
          /\ t.activeFaults = s.activeFaults /\ t.narrator.healFrom = s.narrator.healFrom
          /\ t.narrator.healed = s.narrator.healed
        BY <2>1 DEF SameBut, NewBeat, Watches
    <2>3. ~Whole(l) /\ ~Timed(l)
        BY <1>9 DEF Whole, Timed
    <2>4. PlayedClock(t, q, b, r)
        BY <1>3, <1>4, <2>2, <2>3, ClockStays
    <2>5. PlayedFaults(t, q) /\ PlayedHealing(t, q) /\ PlayedBeats(t, q, r)
        BY <1>8, <2>2, <2>3
    <2>6. QED
        BY <1>2, <1>3, <1>5, <2>2, <2>4, <2>5 DEF TapeOk, PlayedTape
<1>10. CASE l.type = "snapshot"
    <2>1. SameBut(t, s, {"simTime"}) /\ t.simTime = l.time
        BY <1>1, <1>4, <1>10, PictureIsShown DEF t
    <2>2. /\ Watches(t) /\ NewBeat(t, s, s) /\ t.beats = s.beats
          /\ t.activeFaults = s.activeFaults /\ t.narrator.healFrom = s.narrator.healFrom
          /\ t.narrator.healed = s.narrator.healed
        BY <2>1 DEF SameBut, NewBeat, Watches
    <2>3. ~Whole(l) /\ l.time = r.now
        BY <1>10 DEF Whole, Writes
    <2>4. PlayedClock(t, q, b, r)
        <3>1. q[Len(q)] = l
            BY <1>3 DEF Grown
        <3>2. InOrderOfTime(q, b, r) /\ t.simTime = r.now
            BY <1>5, <2>1, <2>3 DEF OnTape
        <3>3. q[Len(q)].type = "snapshot" => q[Len(q)].time = r.now
            BY <2>3, <3>1
        <3>4. QED
            BY <1>1, <3>2, <3>3, PlaysInTime
    <2>5. PlayedFaults(t, q) /\ PlayedHealing(t, q) /\ PlayedBeats(t, q, r)
        BY <1>8, <2>2, <2>3
    <2>6. QED
        BY <1>2, <1>3, <1>5, <2>2, <2>4, <2>5 DEF TapeOk, PlayedTape
<1>11. CASE l.type = "analytics"
    <2>1. /\ SameBut(t, s, {"beats", "healed"})
          /\ \/ t.beats = s.beats
             \/ t.beats = Append(s.beats, App!Beat("healed", "Mesh healed", s.simTime))
        <3>1. PICK heal \in BOOLEAN : heal = (s.narrator.healFrom # None /\ ~s.narrator.healed /\ l.delivered)
            OBVIOUS
        <3>2. /\ SameBut(t, s, {"beats", "healed"})
              /\ heal => t.beats = Append(s.beats, App!Beat("healed", "Mesh healed", s.simTime))
              /\ ~heal => t.beats = s.beats
            BY <1>1, <1>4, <1>11, <3>1, ReportIsShown DEF t
        <3>3. QED
            BY <3>2
    <2>2. PICK x : x = App!Beat("healed", "Mesh healed", s.simTime)
        OBVIOUS
    <2>3. /\ Watches(t) /\ NewBeat(t, s, x) /\ t.simTime = s.simTime
          /\ t.activeFaults = s.activeFaults /\ t.narrator.healFrom = s.narrator.healFrom
        BY <2>1, <2>2 DEF SameBut, NewBeat, Watches
    <2>4. x.time <= r.now /\ x.kind # "phase"
        BY <1>4, <2>2 DEF PlayedClock, App!Beat
    <2>5. PlayedClock(t, q, b, r)
        <3>1. ~Timed(l)
            BY <1>11 DEF Timed
        <3>2. QED
            BY <1>3, <1>4, <2>3, <3>1, ClockStays
    <2>6. PlayedFaults(t, q)
        BY <1>3, <1>4, <1>6, <2>3, FaultsStay
    <2>7. PlayedHealing(t, q)
        BY <1>1, <1>3, <1>4, <1>11, ReportPlays DEF t
    <2>8. PlayedBeats(t, q, r)
        BY <1>3, <1>4, <2>3, <2>4, BeatsStay
    <2>9. QED
        BY <1>2, <1>3, <1>5, <2>3, <2>5, <2>6, <2>7, <2>8 DEF TapeOk, PlayedTape
<1>12. CASE l.type = "scenario"
    <2>1. /\ SameBut(t, s, {"activeFaults", "beats", "healFrom", "healed"})
          /\ t.activeFaults = 0 /\ t.beats = <<>> /\ t.narrator.healFrom = None /\ ~t.narrator.healed
        BY <1>1, <1>4, <1>12, ScenarioIsShown DEF t
    <2>2. Watches(t) /\ t.simTime = s.simTime /\ Len(t.beats) = 0
        BY <2>1 DEF SameBut
    <2>3. ~Timed(l)
        BY <1>12 DEF Timed
    <2>4. PlayedClock(t, q, b, r)
        BY <1>3, <1>4, <2>2, <2>3, ClockStays
    <2>5. \A i \in 1..Len(q) : ~Marks(q[i], "cleared")
        <3>1. r.faults = "none"
            BY <1>12 DEF Writes, TapeOk, OnTape, TapeTypes
        <3>2. ~HasHappened("cleared", r)
            BY <3>1 DEF HasHappened
        <3>3. \A x \in Emitted(q, b) : ~Marks(x, "cleared")
            BY <1>5, <3>2 DEF OnTape, PassedOnce, Milestones
        <3>4. QED
            BY <3>3 DEF Emitted
    <2>6. PlayedFaults(t, q)
        BY <2>1, <2>5 DEF PlayedFaults
    <2>7. 1..Len(t.beats) = {}
        BY <2>2
    <2>8. PlayedHealing(t, q)
        BY <2>1, <2>5, <2>7 DEF PlayedHealing
    <2>9. PlayedBeats(t, q, r)
        BY <2>7 DEF PlayedBeats
    <2>10. QED
        BY <1>2, <1>3, <1>5, <2>2, <2>4, <2>6, <2>8, <2>9 DEF TapeOk, PlayedTape
<1>13. QED
    BY <1>7, <1>9, <1>10, <1>11, <1>12

----------------------------------------------------------------------------
(* The run goes on and emits events.                                        *)

\* The run goes from r to z in its moment, and d is emitted.
Emits(d, r, z) ==
    /\ d \in Seq(TapeEvents) /\ z \in TapeRuns
    /\ r.told /\ z.told /\ z.launched /\ z.now = r.now
    /\ z.faults # "on" => z.pruned = {}
    /\ z.faults = "none" => z.now <= INJECT + LATE
    /\ z.faults = "on" => z.now <= CLEAR + LATE
    /\ \A j \in 1..Len(d) : d[j].at = r.now /\ d[j].kind # "ClockTick"

\* A milestone is passed now, or it is not touched.
PassesNow(w, d, r, z) ==
    \/ /\ \A j \in 1..Len(d) : ~Marks(d[j], w)
       /\ HasHappened(w, z) <=> HasHappened(w, r)
    \/ /\ ~HasHappened(w, r) /\ HasHappened(w, z)
       /\ r.now \in DueAt(w)..(DueAt(w) + LATE)
       /\ \E j \in 1..Len(d) : Marks(d[j], w)
       /\ \A i, j \in 1..Len(d) : Marks(d[i], w) /\ Marks(d[j], w) => i = j

\* c is b with d after it.
Joins(c, b, d) == c = b \o d /\ b \in Seq(TapeEvents) /\ d \in Seq(TapeEvents)

LEMMA Joined ==
    ASSUME NEW c, NEW b, NEW d, Joins(c, b, d)
    PROVE  /\ c \in Seq(TapeEvents) /\ Len(c) = Len(b) + Len(d) /\ Len(b) \in Nat /\ Len(d) \in Nat
           /\ \A j \in 1..Len(b) : j \in 1..Len(c) /\ c[j] = b[j]
           /\ \A j \in 1..Len(d) : j + Len(b) \in 1..Len(c) /\ c[j + Len(b)] = d[j]
           /\ \A j \in 1..Len(c) : \/ j \in 1..Len(b) /\ c[j] = b[j]
                                   \/ j - Len(b) \in 1..Len(d) /\ c[j] = d[j - Len(b)]
<1>1. /\ c \in Seq(TapeEvents) /\ Len(c) = Len(b) + Len(d)
      /\ \A j \in 1..(Len(b) + Len(d)) : c[j] = IF j <= Len(b) THEN b[j] ELSE d[j - Len(b)]
    BY ConcatProperties, Zenon DEF Joins
<1>2. Len(b) \in Nat /\ Len(d) \in Nat
    BY DEF Joins
<1>3. \A j \in 1..Len(b) : j \in 1..Len(c) /\ c[j] = b[j]
    BY <1>1, <1>2
<1>4. ASSUME NEW j \in 1..Len(d) PROVE j + Len(b) \in 1..Len(c) /\ c[j + Len(b)] = d[j]
    <2>1. j + Len(b) \in 1..(Len(b) + Len(d)) /\ ~(j + Len(b) <= Len(b)) /\ (j + Len(b)) - Len(b) = j
        BY <1>2
    <2>2. QED
        BY <1>1, <2>1
<1>5. ASSUME NEW j \in 1..Len(c)
      PROVE  \/ j \in 1..Len(b) /\ c[j] = b[j]
             \/ j - Len(b) \in 1..Len(d) /\ c[j] = d[j - Len(b)]
    <2>1. j \in 1..(Len(b) + Len(d))
        BY <1>1
    <2>2. CASE j <= Len(b)
        BY <1>1, <1>2, <2>1, <2>2
    <2>3. CASE ~(j <= Len(b))
        <3>1. j - Len(b) \in 1..Len(d)
            BY <1>2, <2>1, <2>3
        <3>2. QED
            BY <1>1, <2>1, <2>3, <3>1
    <2>4. QED
        BY <2>2, <2>3
<1>6. QED
    BY <1>1, <1>2, <1>3, <1>4, <1>5

\* With c, what is in d is emitted besides.
AlsoEmitted(tp, c, b, d) ==
    /\ Emitted(tp, b) \subseteq Emitted(tp, c)
    /\ \A j \in 1..Len(d) : d[j] \in Emitted(tp, c)
    /\ \A x \in Emitted(tp, c) : x \in Emitted(tp, b) \/ \E j \in 1..Len(d) : x = d[j]

LEMMA JoinedIsEmitted ==
    ASSUME NEW tp, NEW c, NEW b, NEW d, Joins(c, b, d)
    PROVE  AlsoEmitted(tp, c, b, d)
<1>1. \A j \in 1..Len(b) : j \in 1..Len(c) /\ c[j] = b[j]
    BY Joined
<1>2. \A j \in 1..Len(d) : j + Len(b) \in 1..Len(c) /\ c[j + Len(b)] = d[j]
    BY Joined
<1>3. \A j \in 1..Len(c) : \/ j \in 1..Len(b) /\ c[j] = b[j]
                           \/ j - Len(b) \in 1..Len(d) /\ c[j] = d[j - Len(b)]
    BY Joined
<1>4. Emitted(tp, b) \subseteq Emitted(tp, c)
    BY <1>1 DEF Emitted
<1>5. \A j \in 1..Len(d) : d[j] \in Emitted(tp, c)
    BY <1>2 DEF Emitted
<1>6. ASSUME NEW x \in Emitted(tp, c) PROVE x \in Emitted(tp, b) \/ \E j \in 1..Len(d) : x = d[j]
    <2>1. CASE x \in {tp[i] : i \in 1..Len(tp)}
        BY <2>1 DEF Emitted
    <2>2. CASE \E j \in 1..Len(c) : x = c[j]
        <3>1. PICK j \in 1..Len(c) : x = c[j]
            BY <2>2
        <3>2. QED
            BY <1>3, <3>1 DEF Emitted
    <2>3. QED
        BY <2>1, <2>2 DEF Emitted
<1>7. QED
    BY <1>4, <1>5, <1>6 DEF AlsoEmitted

PassNow(d, r, z) == \A w \in Milestones : PassesNow(w, d, r, z)

\* A milestone that happens now, and only now, is emitted once and in time.
LEMMA PassingNow ==
    ASSUME NEW tp, NEW b, NEW r, NEW d, NEW z, Emits(d, r, z), NEW c, Joins(c, b, d),
           PassedOnce(tp, b, r), PassNow(d, r, z)
    PROVE  PassedOnce(tp, c, z)
<1>1. d \in Seq(TapeEvents) /\ \A j \in 1..Len(d) : d[j].at = r.now
    BY DEF Emits
<1>2. /\ Emitted(tp, b) \subseteq Emitted(tp, c)
      /\ \A j \in 1..Len(d) : d[j] \in Emitted(tp, c)
      /\ \A x \in Emitted(tp, c) : x \in Emitted(tp, b) \/ \E j \in 1..Len(d) : x = d[j]
    <2>1. AlsoEmitted(tp, c, b, d)
        BY JoinedIsEmitted
    <2>2. QED
        BY <2>1 DEF AlsoEmitted
<1>3. /\ Len(b) \in Nat /\ Len(d) \in Nat
      /\ \A j \in 1..Len(c) : \/ j \in 1..Len(b) /\ c[j] = b[j]
                              \/ j - Len(b) \in 1..Len(d) /\ c[j] = d[j - Len(b)]
    BY Joined
<1>4. ASSUME NEW w \in Milestones
      PROVE  /\ \A i, j \in 1..Len(tp) : Marks(tp[i], w) /\ Marks(tp[j], w) => i = j
             /\ \A i, j \in 1..Len(c) : Marks(c[i], w) /\ Marks(c[j], w) => i = j
             /\ \A i \in 1..Len(tp), j \in 1..Len(c) : ~(Marks(tp[i], w) /\ Marks(c[j], w))
             /\ HasHappened(w, z) <=> \E x \in Emitted(tp, c) : Marks(x, w)
             /\ \A x \in Emitted(tp, c) : Marks(x, w) => x.at \in DueAt(w)..(DueAt(w) + LATE)
    <2>1. /\ \A i, j \in 1..Len(tp) : Marks(tp[i], w) /\ Marks(tp[j], w) => i = j
          /\ \A i, j \in 1..Len(b) : Marks(b[i], w) /\ Marks(b[j], w) => i = j
          /\ \A i \in 1..Len(tp), j \in 1..Len(b) : ~(Marks(tp[i], w) /\ Marks(b[j], w))
          /\ HasHappened(w, r) <=> \E x \in Emitted(tp, b) : Marks(x, w)
          /\ \A x \in Emitted(tp, b) : Marks(x, w) => x.at \in DueAt(w)..(DueAt(w) + LATE)
        BY DEF PassedOnce
    <2>2. CASE /\ \A j \in 1..Len(d) : ~Marks(d[j], w)
               /\ HasHappened(w, z) <=> HasHappened(w, r)
        <3>1. \A j \in 1..Len(c) : Marks(c[j], w) => j \in 1..Len(b) /\ c[j] = b[j]
            BY <1>3, <2>2
        <3>2. \A x \in Emitted(tp, c) : Marks(x, w) => x \in Emitted(tp, b)
            BY <1>2, <2>2
        <3>3. Emitted(tp, b) \subseteq Emitted(tp, c)
            BY <1>2
        <3>4. \A i, j \in 1..Len(c) : Marks(c[i], w) /\ Marks(c[j], w) => i = j
            BY <2>1, <3>1
        <3>5. \A i \in 1..Len(tp), j \in 1..Len(c) : ~(Marks(tp[i], w) /\ Marks(c[j], w))
            BY <2>1, <3>1
        <3>6. HasHappened(w, z) <=> \E x \in Emitted(tp, c) : Marks(x, w)
            BY <2>1, <2>2, <3>2, <3>3
        <3>7. QED
            BY <2>1, <3>2, <3>4, <3>5, <3>6
    <2>3. CASE /\ ~HasHappened(w, r) /\ HasHappened(w, z)
               /\ r.now \in DueAt(w)..(DueAt(w) + LATE)
               /\ \E j \in 1..Len(d) : Marks(d[j], w)
               /\ \A i, j \in 1..Len(d) : Marks(d[i], w) /\ Marks(d[j], w) => i = j
        <3>1. \A x \in Emitted(tp, b) : ~Marks(x, w)
            BY <2>1, <2>3
        <3>2. (\A i \in 1..Len(tp) : ~Marks(tp[i], w)) /\ \A j \in 1..Len(b) : ~Marks(b[j], w)
            BY <3>1 DEF Emitted
        <3>3. \A j \in 1..Len(c) : Marks(c[j], w) => j - Len(b) \in 1..Len(d) /\ c[j] = d[j - Len(b)]
            BY <1>3, <3>2
        <3>4. ASSUME NEW i \in 1..Len(c), NEW j \in 1..Len(c), Marks(c[i], w), Marks(c[j], w) PROVE i = j
            <4>1. i - Len(b) = j - Len(b)
                BY <2>3, <3>3, <3>4
            <4>2. QED
                BY <1>3, <4>1
        <3>5. \A x \in Emitted(tp, c) : Marks(x, w) => x.at = r.now
            BY <1>1, <1>2, <3>1
        <3>6. \E x \in Emitted(tp, c) : Marks(x, w)
            BY <1>2, <2>3
        <3>7. QED
            BY <2>3, <3>2, <3>4, <3>5, <3>6
    <2>4. QED
        BY <2>2, <2>3 DEF PassesNow, PassNow
<1>5. QED
    BY <1>4, Zenon DEF PassedOnce

\* What a step of the run emits keeps the invariant, if it tells of what it changes.
LEMMA EmitMore ==
    ASSUME NEW tp, NEW b, NEW r, TapeOk(tp, b, r), NEW d, NEW z, Emits(d, r, z),
           PassNow(d, r, z),
           \A j \in 1..Len(d) : Marks(d[j], "injected") =>
               ~HasHappened("cleared", r) /\ \A k \in 1..Len(d) : ~Marks(d[k], "cleared"),
           z.pruned # {} => r.pruned # {} \/ \E j \in 1..Len(d) : IsPrune(d[j]),
           \A j \in 1..Len(d) : IsPrune(d[j]) => z.pruned # {} /\ r.now % HB = BEAT,
           r.pruned # {} => z.pruned # {} \/ z.faults = "off",
           r.faults = "off" => z.faults = "off"
    PROVE  TapeOk(tp, b \o d, z)
<1>1. /\ tp \in Seq(TapeLines) /\ b \in Seq(TapeEvents) /\ d \in Seq(TapeEvents)
      /\ z \in TapeRuns /\ r \in TapeRuns /\ r.now \in Nat /\ r.told /\ z.now = r.now
      /\ \A j \in 1..Len(d) : d[j].at = r.now /\ d[j].kind # "ClockTick"
    BY BoundsAre DEF TapeOk, OnTape, TapeTypes, Emits, TapeRuns
<1>2. PICK c : c = b \o d /\ Joins(c, b, d)
    BY <1>1 DEF Joins
<1>3. /\ c \in Seq(TapeEvents) /\ Len(c) = Len(b) + Len(d) /\ Len(b) \in Nat /\ Len(d) \in Nat
      /\ \A j \in 1..Len(b) : j \in 1..Len(c) /\ c[j] = b[j]
      /\ \A j \in 1..Len(c) : \/ j \in 1..Len(b) /\ c[j] = b[j]
                              \/ j - Len(b) \in 1..Len(d) /\ c[j] = d[j - Len(b)]
    BY <1>1, <1>2, Joined
<1>4. /\ Emitted(tp, b) \subseteq Emitted(tp, c)
      /\ \A j \in 1..Len(d) : d[j] \in Emitted(tp, c)
      /\ \A x \in Emitted(tp, c) : x \in Emitted(tp, b) \/ \E j \in 1..Len(d) : x = d[j]
    <2>1. AlsoEmitted(tp, c, b, d)
        BY <1>2, JoinedIsEmitted
    <2>2. QED
        BY <2>1 DEF AlsoEmitted
<1>5. TapeTypes(tp, c, z)
    BY <1>1, <1>3 DEF TapeTypes, Emits
<1>6. PassedOnce(tp, c, z)
    <2>1. PassedOnce(tp, b, r)
        BY DEF TapeOk, OnTape
    <2>2. QED
        BY <1>2, <2>1, PassingNow
<1>7. InjectedFirst(tp, c)
    <2>1. SUFFICES ASSUME NEW j \in 1..Len(c), Marks(c[j], "injected")
                   PROVE  /\ \A i \in 1..Len(tp) : ~Marks(tp[i], "cleared")
                          /\ \A k \in 1..Len(c) : Marks(c[k], "cleared") => j < k
        BY DEF InjectedFirst
    <2>2. CASE j \in 1..Len(b) /\ c[j] = b[j]
        <3>1. /\ \A i \in 1..Len(tp) : ~Marks(tp[i], "cleared")
              /\ \A k \in 1..Len(b) : Marks(b[k], "cleared") => j < k
            BY <2>1, <2>2 DEF TapeOk, OnTape, InjectedFirst
        <3>2. ASSUME NEW k \in 1..Len(c), Marks(c[k], "cleared") PROVE j < k
            <4>1. CASE k \in 1..Len(b) /\ c[k] = b[k]
                BY <3>1, <3>2, <4>1
            <4>2. CASE k - Len(b) \in 1..Len(d)
                BY <1>3, <2>2, <4>2
            <4>3. QED
                BY <1>3, <4>1, <4>2
        <3>3. QED
            BY <3>1, <3>2
    <2>3. CASE j - Len(b) \in 1..Len(d) /\ c[j] = d[j - Len(b)]
        <3>1. ~HasHappened("cleared", r) /\ \A k \in 1..Len(d) : ~Marks(d[k], "cleared")
            BY <2>1, <2>3
        <3>2. \A x \in Emitted(tp, b) : ~Marks(x, "cleared")
            BY <3>1 DEF TapeOk, OnTape, PassedOnce, Milestones
        <3>3. (\A i \in 1..Len(tp) : ~Marks(tp[i], "cleared")) /\ \A k \in 1..Len(b) : ~Marks(b[k], "cleared")
            BY <3>2 DEF Emitted
        <3>4. \A k \in 1..Len(c) : ~Marks(c[k], "cleared")
            BY <1>3, <3>1, <3>3
        <3>5. QED
            BY <3>3, <3>4
    <2>4. QED
        BY <1>3, <2>2, <2>3
<1>8. InOrderOfTime(tp, c, z)
    <2>1. /\ \A i \in 1..Len(tp) : Timed(tp[i]) => When(tp[i]) <= r.now
          /\ \A i, j \in 1..Len(tp) : i < j /\ Timed(tp[i]) /\ Timed(tp[j]) => When(tp[i]) <= When(tp[j])
          /\ \A j \in 1..Len(b) : b[j].at = r.now /\ (b[j].kind = "ClockTick" => j = 1)
        BY DEF TapeOk, OnTape, InOrderOfTime
    <2>2. \A j \in 1..Len(c) : c[j].at = z.now /\ (c[j].kind = "ClockTick" => j = 1)
        BY <1>1, <1>3, <2>1
    <2>3. QED
        BY <1>1, <2>1, <2>2 DEF InOrderOfTime
<1>9. MeshOfRun(tp, z)
    BY <1>1 DEF TapeOk, OnTape, MeshOfRun
<1>10. AttackOnTape(tp, c, z)
    <2>1. /\ \A i \in 1..Len(tp) : tp[i].type = "snapshot" => ShowsAttack(tp[i], Emitted(tp, b))
          /\ r.pruned # {} => \E l \in Emitted(tp, b) : IsPrune(l)
          /\ \A l \in Emitted(tp, b) : IsPrune(l) => (r.pruned # {} \/ r.faults = "off") /\ l.at % HB = BEAT
        BY DEF TapeOk, OnTape, AttackOnTape
    <2>2. ASSUME NEW i \in 1..Len(tp), tp[i].type = "snapshot" PROVE ShowsAttack(tp[i], Emitted(tp, c))
        <3>1. tp[i].time <= r.now
            BY <2>2 DEF TapeOk, OnTape, InOrderOfTime, Timed, When
        <3>2. Emitted(tp, b) \subseteq Emitted(tp, c) /\ \A x \in Emitted(tp, c) \ Emitted(tp, b) : tp[i].time <= x.at
            BY <1>1, <1>4, <3>1
        <3>3. QED
            BY <2>1, <2>2, <3>2, MoreIsEmitted
    <2>3. z.pruned # {} => \E l \in Emitted(tp, c) : IsPrune(l)
        BY <1>4, <2>1
    <2>4. ASSUME NEW l \in Emitted(tp, c), IsPrune(l) PROVE (z.pruned # {} \/ z.faults = "off") /\ l.at % HB = BEAT
        <3>1. CASE l \in Emitted(tp, b)
            BY <2>1, <2>4, <3>1
        <3>2. CASE l \notin Emitted(tp, b)
            BY <1>1, <1>4, <2>4, <3>2
        <3>3. QED
            BY <3>1, <3>2
    <2>5. QED
        BY <2>2, <2>3, <2>4 DEF AttackOnTape
<1>11. PlayedTape(PlayerOf(tp), tp, c, z)
    <2>1. PICK s : s = PlayerOf(tp)
        OBVIOUS
    <2>2. /\ Watches(s) /\ PlayedClock(s, tp, b, r) /\ PlayedFaults(s, tp) /\ PlayedHealing(s, tp) /\ PlayedBeats(s, tp, r)
        BY <2>1 DEF TapeOk, PlayedTape
    <2>3. b # <<>> => c # <<>> /\ c[1] = b[1]
        BY <1>1, <1>3
    <2>4. PlayedClock(s, tp, c, z)
        BY <1>1, <2>2, <2>3 DEF PlayedClock
    <2>5. PlayedBeats(s, tp, z)
        BY <1>1, <2>2 DEF PlayedBeats
    <2>6. QED
        BY <2>1, <2>2, <2>4, <2>5 DEF PlayedTape
<1>12. QED
    <2>1. TapeOk(tp, c, z)
        BY <1>5, <1>6, <1>7, <1>8, <1>9, <1>10, <1>11 DEF TapeOk, OnTape
    <2>2. QED
        BY <1>2, <2>1

\* Only what the recording does not know of changes; a run is told of when its mesh is on the tape.
LEMMA RunGoesOn ==
    ASSUME NEW tp, NEW b, NEW r, TapeOk(tp, b, r), NEW z \in TapeRuns,
           z.now = r.now, z.faults = r.faults, z.pruned = r.pruned,
           r.told => z.told, z.told => z.launched,
           z.told => r.told \/ \E j \in 2..Len(tp) : tp[j].type = "edges"
    PROVE  TapeOk(tp, b, z)
<1>1. TapeTypes(tp, b, z)
    BY DEF TapeOk, OnTape, TapeTypes
<1>2. PassedOnce(tp, b, z)
    <2>1. \A w : HasHappened(w, z) <=> HasHappened(w, r)
        BY DEF HasHappened
    <2>2. QED
        BY <2>1 DEF TapeOk, OnTape, PassedOnce
<1>3. InjectedFirst(tp, b) /\ InOrderOfTime(tp, b, z) /\ AttackOnTape(tp, b, z)
    BY DEF TapeOk, OnTape, InOrderOfTime, AttackOnTape
<1>4. MeshOfRun(tp, z)
    BY DEF TapeOk, OnTape, MeshOfRun
<1>5. PlayedTape(PlayerOf(tp), tp, b, z)
    <2>1. PICK s : s = PlayerOf(tp)
        OBVIOUS
    <2>2. /\ Watches(s) /\ PlayedClock(s, tp, b, r) /\ PlayedFaults(s, tp) /\ PlayedHealing(s, tp) /\ PlayedBeats(s, tp, r)
        BY <2>1 DEF TapeOk, PlayedTape
    <2>3. PlayedClock(s, tp, b, z)
        BY <2>2 DEF PlayedClock
    <2>4. PlayedBeats(s, tp, z)
        BY <2>2 DEF PlayedBeats
    <2>5. QED
        BY <2>1, <2>2, <2>3, <2>4 DEF PlayedTape
<1>6. QED
    BY <1>1, <1>2, <1>3, <1>4, <1>5 DEF TapeOk, OnTape

\* A tick of the clock is emitted first in its moment.
LEMMA TimeGoesOn ==
    ASSUME NEW tp, NEW r, TapeOk(tp, <<>>, r), NEW z \in TapeRuns, r.told,
           z.now = r.now + 1, z.faults = r.faults, z.pruned = r.pruned, z.told, z.launched,
           z.faults = "none" => r.now < INJECT + LATE, z.faults = "on" => r.now < CLEAR + LATE,
           NEW e \in TapeEvents, e.kind = "ClockTick", e.at = z.now
    PROVE  TapeOk(tp, <<e>>, z)
<1>1. /\ tp \in Seq(TapeLines) /\ r \in TapeRuns /\ r.now \in Nat /\ z.now \in Nat
    BY BoundsAre DEF TapeOk, OnTape, TapeTypes, TapeRuns
<1>2. PICK c : c = <<e>>
    OBVIOUS
<1>3. c \in Seq(TapeEvents) /\ Len(c) = 1 /\ c[1] = e /\ c # <<>> /\ \A j \in 1..Len(c) : j = 1
    BY <1>2
<1>4. ~IsPrune(e) /\ \A w : ~Marks(e, w)
    BY DEF IsPrune, Marks
<1>5. Emitted(tp, <<>>) \subseteq Emitted(tp, c) /\ \A x \in Emitted(tp, c) : x \in Emitted(tp, <<>>) \/ x = e
    BY <1>3 DEF Emitted
<1>6. TapeTypes(tp, c, z)
    BY <1>1, <1>3, BoundsAre DEF TapeOk, OnTape, TapeTypes
<1>7. PassedOnce(tp, c, z)
    <2>1. \A w : HasHappened(w, z) <=> HasHappened(w, r)
        BY DEF HasHappened
    <2>2. ASSUME NEW w \in Milestones
          PROVE  /\ \A i, j \in 1..Len(tp) : Marks(tp[i], w) /\ Marks(tp[j], w) => i = j
                 /\ \A i, j \in 1..Len(c) : Marks(c[i], w) /\ Marks(c[j], w) => i = j
                 /\ \A i \in 1..Len(tp), j \in 1..Len(c) : ~(Marks(tp[i], w) /\ Marks(c[j], w))
                 /\ HasHappened(w, z) <=> \E x \in Emitted(tp, c) : Marks(x, w)
                 /\ \A x \in Emitted(tp, c) : Marks(x, w) => x.at \in DueAt(w)..(DueAt(w) + LATE)
        <3>1. /\ \A i, j \in 1..Len(tp) : Marks(tp[i], w) /\ Marks(tp[j], w) => i = j
              /\ HasHappened(w, r) <=> \E x \in Emitted(tp, <<>>) : Marks(x, w)
              /\ \A x \in Emitted(tp, <<>>) : Marks(x, w) => x.at \in DueAt(w)..(DueAt(w) + LATE)
            BY DEF TapeOk, OnTape, PassedOnce
        <3>2. \A j \in 1..Len(c) : ~Marks(c[j], w)
            BY <1>3, <1>4
        <3>3. QED
            BY <1>4, <1>5, <2>1, <3>1, <3>2
    <2>3. QED
        BY <2>2, Zenon DEF PassedOnce
<1>8. InjectedFirst(tp, c)
    BY <1>3, <1>4 DEF InjectedFirst
<1>9. InOrderOfTime(tp, c, z)
    <2>1. /\ \A i \in 1..Len(tp) : Timed(tp[i]) => When(tp[i]) <= r.now
          /\ \A i, j \in 1..Len(tp) : i < j /\ Timed(tp[i]) /\ Timed(tp[j]) => When(tp[i]) <= When(tp[j])
        BY DEF TapeOk, OnTape, InOrderOfTime
    <2>2. ASSUME NEW i \in 1..Len(tp), Timed(tp[i]) PROVE When(tp[i]) <= z.now
        <3>1. When(tp[i]) \in Nat
            <4>1. tp[i] \in TapeLines
                BY <1>1
            <4>2. QED
                BY <2>2, <4>1, TapeLineIs DEF Timed, When
        <3>2. When(tp[i]) <= r.now
            BY <2>1, <2>2
        <3>3. QED
            BY <1>1, <3>1, <3>2
    <2>3. QED
        BY <1>3, <2>1, <2>2 DEF InOrderOfTime
<1>10. MeshOfRun(tp, z)
    BY DEF TapeOk, OnTape, MeshOfRun
<1>11. AttackOnTape(tp, c, z)
    <2>1. /\ \A i \in 1..Len(tp) : tp[i].type = "snapshot" => ShowsAttack(tp[i], Emitted(tp, <<>>))
          /\ r.pruned # {} => \E l \in Emitted(tp, <<>>) : IsPrune(l)
          /\ \A l \in Emitted(tp, <<>>) : IsPrune(l) => (r.pruned # {} \/ r.faults = "off") /\ l.at % HB = BEAT
        BY DEF TapeOk, OnTape, AttackOnTape
    <2>2. ASSUME NEW i \in 1..Len(tp), tp[i].type = "snapshot" PROVE ShowsAttack(tp[i], Emitted(tp, c))
        BY <1>4, <1>5, <2>1, <2>2, MoreIsEmitted
    <2>3. QED
        BY <1>4, <1>5, <2>1, <2>2 DEF AttackOnTape
<1>12. PlayedTape(PlayerOf(tp), tp, c, z)
    <2>1. PICK s : s = PlayerOf(tp)
        OBVIOUS
    <2>2. /\ Watches(s) /\ PlayedClock(s, tp, <<>>, r) /\ PlayedFaults(s, tp) /\ PlayedHealing(s, tp) /\ PlayedBeats(s, tp, r)
        BY <2>1 DEF TapeOk, PlayedTape
    <2>3. PlayedClock(s, tp, c, z)
        <3>1. s.simTime <= z.now
            BY <1>1, <2>2 DEF PlayedClock, Watches
        <3>2. QED
            BY <1>3, <2>2, <3>1 DEF PlayedClock
    <2>4. PlayedBeats(s, tp, z)
        <3>1. ASSUME NEW k \in 1..Len(s.beats) PROVE s.beats[k].time <= z.now
            <4>1. s.beats[k].time \in Nat /\ s.beats[k].time <= r.now
                <5>1. s.beats[k] \in TapeBeats
                    BY <2>2 DEF Watches
                <5>2. QED
                    BY <2>2, <5>1 DEF PlayedBeats, TapeBeats
            <4>2. QED
                BY <1>1, <4>1
        <3>2. QED
            BY <2>2, <3>1 DEF PlayedBeats
    <2>5. QED
        BY <2>1, <2>2, <2>3, <2>4 DEF PlayedTape
<1>13. QED
    <2>1. TapeOk(tp, c, z)
        BY <1>6, <1>7, <1>8, <1>9, <1>10, <1>11, <1>12 DEF TapeOk, OnTape
    <2>2. QED
        BY <1>2, <2>1

LEMMA TapeStarts == TapeInit => TapeInv
<1> SUFFICES ASSUME TapeInit PROVE TapeInv
    OBVIOUS
<1> DEFINE e == Edges("before")
           l == Scenario(FALSE)
<1>1. tape = <<e, l>> /\ bus = <<>> /\ run.now = 0 /\ ~run.launched /\ ~run.told /\ run.faults = "none"
      /\ run.pruned = {} /\ ~run.snapped /\ ~run.skipped /\ run \in TapeRuns
    BY BoundsAre DEF TapeInit, TapeRuns
<1>2. e \in TapeLines /\ l \in TapeLines /\ e.type = "edges" /\ l.type = "scenario"
    BY DEF TapeLines, Statements, Edges, Scenario
<1> HIDE DEF e, l
<1>3. tape \in Seq(TapeLines) /\ Len(tape) = 2 /\ tape[1] = e /\ tape[2] = l
    BY <1>1, <1>2
<1>4. \A i \in 1..2 : i = 1 \/ i = 2
    OBVIOUS
<1>5. \A i \in 1..Len(tape) : tape[i].type \notin {"event", "snapshot", "analytics"}
    BY <1>2, <1>3, <1>4
<1>6. \A j \in 1..Len(bus) : FALSE
    BY <1>1
<1>7. \A x \in Emitted(tape, bus) : ~IsPrune(x) /\ \A w : ~Marks(x, w)
    BY <1>5, <1>6, OtherLine DEF Emitted
<1>8. OnTape(tape, bus, run)
    <2>1. TapeTypes(tape, bus, run)
        BY <1>1, <1>3, BoundsAre DEF TapeTypes
    <2>2. PassedOnce(tape, bus, run)
        <3>1. \A w \in Milestones : ~HasHappened(w, run)
            BY <1>1 DEF Milestones, HasHappened
        <3>2. \A i \in 1..Len(tape) : \A w : ~Marks(tape[i], w)
            BY <1>5, OtherLine
        <3>3. QED
            BY <1>6, <1>7, <3>1, <3>2, Zenon DEF PassedOnce
    <2>3. InjectedFirst(tape, bus)
        BY <1>6 DEF InjectedFirst
    <2>4. InOrderOfTime(tape, bus, run)
        BY <1>5, <1>6 DEF InOrderOfTime, Timed
    <2>5. MeshOfRun(tape, run)
        <3>1. \A i \in 2..Len(tape) : tape[i].type # "edges"
            BY <1>2, <1>3
        <3>2. QED
            BY <1>1, <1>3, <1>5, <3>1 DEF MeshOfRun
    <2>6. AttackOnTape(tape, bus, run)
        BY <1>1, <1>5, <1>7 DEF AttackOnTape
    <2>7. QED
        BY <2>1, <2>2, <2>3, <2>4, <2>5, <2>6 DEF OnTape
<1>9. PICK none, one : none = <<>> /\ one = Append(none, e)
    OBVIOUS
<1>10. none \in Seq(TapeLines) /\ one \in Seq(TapeLines) /\ tape = Append(one, l)
    BY <1>1, <1>2, <1>9
<1>11. PICK s, t, u : s = PlayerOf(none) /\ t = PlayerOf(one) /\ u = PlayerOf(tape)
    OBVIOUS
<1>12. s = App!InitialStore
    BY <1>9, <1>11, DispatchNothing DEF PlayerOf
<1>13. t = Displays(s, e) /\ u = Displays(t, l)
    BY <1>2, <1>9, <1>10, <1>11, PlayerGoesOn
<1>14. Watches(s) /\ s.simTime = 0
    BY <1>12, StartsToWatch
<1>15. Watches(t) /\ t.simTime = 0
    <2>1. SameBut(t, s, {})
        BY <1>2, <1>13, <1>14, EdgesAreShown
    <2>2. QED
        BY <1>14, <2>1 DEF SameBut
<1>16. /\ Watches(u) /\ u.simTime = 0
       /\ u.activeFaults = 0 /\ u.beats = <<>> /\ u.narrator.healFrom = None /\ ~u.narrator.healed
    <2>1. /\ SameBut(u, t, {"activeFaults", "beats", "healFrom", "healed"})
          /\ u.activeFaults = 0 /\ u.beats = <<>> /\ u.narrator.healFrom = None /\ ~u.narrator.healed
        BY <1>2, <1>13, <1>15, ScenarioIsShown
    <2>2. QED
        BY <1>15, <2>1 DEF SameBut
<1>17. PlayedTape(u, tape, bus, run)
    <2>1. \A i \in 1..Len(tape) : ~Marks(tape[i], "cleared") /\ ~Timed(tape[i]) /\ ~Whole(tape[i])
        BY <1>5, OtherLine DEF Timed, Whole
    <2>2. 1..Len(u.beats) = {}
        BY <1>16
    <2>3. PlayedClock(u, tape, bus, run)
        BY <1>1, <1>3, <1>5, <1>16, <2>1 DEF PlayedClock
    <2>4. PlayedFaults(u, tape)
        BY <1>16, <2>1 DEF PlayedFaults
    <2>5. PlayedHealing(u, tape)
        BY <1>16, <2>1, <2>2 DEF PlayedHealing
    <2>6. PlayedBeats(u, tape, run)
        BY <2>2 DEF PlayedBeats
    <2>7. QED
        BY <1>16, <2>3, <2>4, <2>5, <2>6 DEF PlayedTape
<1>18. QED
    BY <1>8, <1>11, <1>17 DEF TapeInv, TapeOk

LEMMA LaunchKeepsTape == TapeInv /\ Launch => TapeInv'
<1> SUFFICES ASSUME TapeInv, Launch PROVE TapeInv'
    OBVIOUS
<1>1. TapeOk(tape, bus, run) /\ run \in TapeRuns /\ ~run.told
    BY DEF TapeInv, TapeOk, OnTape, TapeTypes, Launch
<1>2. PICK z : z = run'
    OBVIOUS
<1>3. /\ z \in TapeRuns /\ z.now = run.now /\ z.faults = run.faults /\ z.pruned = run.pruned
      /\ z.told = run.told /\ z.launched
    BY <1>1, <1>2 DEF Launch, TapeRuns
<1>4. TapeOk(tape, bus, z)
    BY <1>1, <1>3, RunGoesOn
<1>5. QED
    BY <1>2, <1>4 DEF TapeInv, Launch

LEMMA TellKeepsTape == TapeInv /\ Tell => TapeInv'
<1> SUFFICES ASSUME TapeInv, Tell PROVE TapeInv'
    OBVIOUS
<1> DEFINE e == Edges("run")
           l == Scenario(TRUE)
<1>1. TapeOk(tape, bus, run) /\ tape \in Seq(TapeLines) /\ run \in TapeRuns /\ ~run.told /\ run.launched
    BY DEF TapeInv, TapeOk, OnTape, TapeTypes, Tell
<1>2. e \in TapeLines /\ l \in TapeLines /\ e.type = "edges" /\ e.edges = "run" /\ l.type = "scenario"
    BY DEF TapeLines, Statements, Edges, Scenario
<1>3. tape' = tape \o <<e, l>>
    BY DEF Tell
<1> HIDE DEF e, l
<1>4. PICK one, two : one = Append(tape, e) /\ two = Append(one, l)
    OBVIOUS
<1>5. Grown(one, tape, e)
    BY <1>1, <1>2, <1>4, Grows
<1>6. one \in Seq(TapeLines) /\ Len(one) = Len(tape) + 1 /\ one[Len(tape) + 1] = e /\ Len(tape) \in Nat
    BY <1>5 DEF Grown
<1>7. Grown(two, one, l)
    BY <1>2, <1>4, <1>6, Grows
<1>8. TapeOk(one, bus, run)
    BY <1>1, <1>2, <1>4, WriteOne DEF Writes
<1>9. TapeOk(two, bus, run)
    BY <1>1, <1>2, <1>4, <1>8, WriteOne DEF Writes
<1>10. \E j \in 2..Len(two) : two[j].type = "edges"
    <2>1. Len(tape) >= 2
        BY <1>1 DEF TapeOk, OnTape, MeshOfRun
    <2>2. Len(tape) + 1 \in 2..Len(two) /\ two[Len(tape) + 1] = e
        BY <1>6, <1>7, <2>1 DEF Grown
    <2>3. QED
        BY <1>2, <2>2
<1>11. PICK z : z = run'
    OBVIOUS
<1>12. /\ z \in TapeRuns /\ z.now = run.now /\ z.faults = run.faults /\ z.pruned = run.pruned
       /\ z.told /\ z.launched
    BY <1>1, <1>11 DEF Tell, TapeRuns
<1>13. TapeOk(two, bus, z)
    BY <1>9, <1>10, <1>12, RunGoesOn
<1>14. tape' = two
    <2>1. tape \o <<e, l>> = Append(Append(tape, e), l)
        BY <1>1, <1>2
    <2>2. QED
        BY <1>3, <1>4, <2>1
<1>15. QED
    BY <1>11, <1>13, <1>14 DEF TapeInv, Tell

LEMMA ClockKeepsTape == TapeInv /\ ClockTick => TapeInv'
<1> SUFFICES ASSUME TapeInv, ClockTick PROVE TapeInv'
    OBVIOUS
<1>1. TapeOk(tape, <<>>, run) /\ run \in TapeRuns /\ run.told /\ run.launched /\ run.now \in Nat
    BY BoundsAre DEF TapeInv, TapeOk, OnTape, TapeTypes, ClockTick, TapeRuns
<1>2. PICK z, e : z = run' /\ e = [Event("ClockTick") EXCEPT !.at = @ + 1]
    OBVIOUS
<1>3. /\ z \in TapeRuns /\ z.now = run.now + 1 /\ z.faults = run.faults /\ z.pruned = run.pruned
      /\ z.told /\ z.launched
    <2>1. z = [run EXCEPT !.now = run.now + 1, !.snapped = FALSE] /\ run.now < END
        BY <1>2 DEF ClockTick
    <2>2. run.now + 1 \in 0..END
        BY <1>1, <2>1, BoundsAre
    <2>3. QED
        BY <1>1, <2>1, <2>2 DEF TapeRuns
<1>4. e \in TapeEvents /\ e.kind = "ClockTick" /\ e.at = z.now
    BY <1>1, <1>2, <1>3 DEF Event, TapeEvents
<1>5. (z.faults = "none" => run.now < INJECT + LATE) /\ (z.faults = "on" => run.now < CLEAR + LATE)
    BY <1>3 DEF ClockTick
<1>6. TapeOk(tape, <<e>>, z)
    BY <1>1, <1>3, <1>4, <1>5, TimeGoesOn
<1>7. QED
    BY <1>2, <1>6 DEF TapeInv, ClockTick

LEMMA SendKeepsTape == TapeInv /\ Send => TapeInv'
<1> SUFFICES ASSUME TapeInv, Send PROVE TapeInv'
    OBVIOUS
<1>1. TapeOk(tape, bus, run) /\ Len(bus) \in Nat
    BY DEF TapeInv, TapeOk, OnTape, TapeTypes
<1>2. TapeOk(tape \o bus, <<>>, run)
    BY <1>1, SendAll
<1>3. QED
    BY <1>2 DEF TapeInv, Send

\* Two events are emitted as the run goes from one state of its faults to the next.
LEMMA InjectKeepsTape == TapeInv /\ Inject => TapeInv'
<1> SUFFICES ASSUME TapeInv, Inject PROVE TapeInv'
    OBVIOUS
<1>1. /\ TapeOk(tape, bus, run) /\ run \in TapeRuns /\ run.told /\ run.launched /\ run.now \in Nat
      /\ run.faults = "none" /\ run.now >= INJECT /\ run.now <= INJECT + LATE /\ run.pruned = {}
    BY BoundsAre DEF TapeInv, TapeOk, OnTape, TapeTypes, Inject, TapeRuns
<1>2. PICK z, e, f, d : z = run' /\ e = Phase("inject") /\ f = Fault("FaultInjected") /\ d = <<e, f>>
    OBVIOUS
<1>3. /\ z \in TapeRuns /\ z.now = run.now /\ z.faults = "on" /\ z.pruned = {} /\ z.told /\ z.launched
    BY <1>1, <1>2 DEF Inject, TapeRuns
<1>4. /\ e \in TapeEvents /\ e.type = "event" /\ e.kind = "ScenarioPhaseFired" /\ e.label = "inject" /\ e.at = run.now
      /\ f \in TapeEvents /\ f.type = "event" /\ f.kind = "FaultInjected" /\ f.at = run.now
    BY <1>1, <1>2 DEF Phase, Fault, TapeEvents
<1>5. d \in Seq(TapeEvents) /\ Len(d) = 2 /\ d[1] = e /\ d[2] = f /\ \A j \in 1..Len(d) : j = 1 \/ j = 2
    BY <1>2, <1>4
<1>6. Emits(d, run, z)
    <2>1. run.now <= CLEAR + LATE
        BY <1>1, BoundsAre
    <2>2. QED
        BY <1>1, <1>3, <1>4, <1>5, <2>1 DEF Emits
<1>7. /\ \A w : Marks(e, w) <=> w = "inject"
      /\ \A w : Marks(f, w) <=> w = "injected"
    BY <1>4 DEF Marks
<1>8. PassNow(d, run, z)
    <2>1. 1 \in 1..Len(d) /\ 2 \in 1..Len(d)
        BY <1>5
    <2>2. run.now \in INJECT..(INJECT + LATE)
        BY <1>1, BoundsAre
    <2>3. PassesNow("inject", d, run, z)
        <3>1. ~HasHappened("inject", run) /\ HasHappened("inject", z) /\ DueAt("inject") = INJECT
            BY <1>1, <1>3 DEF HasHappened, DueAt
        <3>2. /\ \E j \in 1..Len(d) : Marks(d[j], "inject")
              /\ \A j \in 1..Len(d) : Marks(d[j], "inject") => j = 1
            BY <1>5, <1>7, <2>1
        <3>3. QED
            BY <2>2, <3>1, <3>2 DEF PassesNow
    <2>4. PassesNow("injected", d, run, z)
        <3>1. ~HasHappened("injected", run) /\ HasHappened("injected", z) /\ DueAt("injected") = INJECT
            BY <1>1, <1>3 DEF HasHappened, DueAt
        <3>2. /\ \E j \in 1..Len(d) : Marks(d[j], "injected")
              /\ \A j \in 1..Len(d) : Marks(d[j], "injected") => j = 2
            BY <1>5, <1>7, <2>1
        <3>3. QED
            BY <2>2, <3>1, <3>2 DEF PassesNow
    <2>5. ASSUME NEW w \in {"clear", "cleared"} PROVE PassesNow(w, d, run, z)
        <3>1. HasHappened(w, z) <=> HasHappened(w, run)
            BY <1>1, <1>3 DEF HasHappened
        <3>2. \A j \in 1..Len(d) : ~Marks(d[j], w)
            BY <1>5, <1>7
        <3>3. QED
            BY <3>1, <3>2 DEF PassesNow
    <2>6. QED
        BY <2>3, <2>4, <2>5 DEF PassNow, Milestones
<1>9. TapeOk(tape, bus \o d, z)
    <2>1. \A j \in 1..Len(d) : ~IsPrune(d[j]) /\ ~Marks(d[j], "cleared")
        BY <1>4, <1>5, <1>7 DEF IsPrune
    <2>2. ~HasHappened("cleared", run)
        BY <1>1 DEF HasHappened
    <2>3. QED
        BY <1>1, <1>3, <1>6, <1>8, <2>1, <2>2, EmitMore
<1>10. QED
    BY <1>2, <1>9 DEF TapeInv, Inject

LEMMA ClearKeepsTape == TapeInv /\ Clear => TapeInv'
<1> SUFFICES ASSUME TapeInv, Clear PROVE TapeInv'
    OBVIOUS
<1>1. /\ TapeOk(tape, bus, run) /\ run \in TapeRuns /\ run.told /\ run.launched /\ run.now \in Nat
      /\ run.faults = "on" /\ run.now >= CLEAR /\ run.now <= CLEAR + LATE
    BY BoundsAre DEF TapeInv, TapeOk, OnTape, TapeTypes, Clear, TapeRuns
<1>2. PICK z, e, f, d : z = run' /\ e = Phase("clear") /\ f = Fault("FaultCleared") /\ d = <<e, f>>
    OBVIOUS
<1>3. /\ z \in TapeRuns /\ z.now = run.now /\ z.faults = "off" /\ z.pruned = {} /\ z.told /\ z.launched
    BY <1>1, <1>2 DEF Clear, TapeRuns
<1>4. /\ e \in TapeEvents /\ e.type = "event" /\ e.kind = "ScenarioPhaseFired" /\ e.label = "clear" /\ e.at = run.now
      /\ f \in TapeEvents /\ f.type = "event" /\ f.kind = "FaultCleared" /\ f.at = run.now
    BY <1>1, <1>2 DEF Phase, Fault, TapeEvents
<1>5. d \in Seq(TapeEvents) /\ Len(d) = 2 /\ d[1] = e /\ d[2] = f /\ \A j \in 1..Len(d) : j = 1 \/ j = 2
    BY <1>2, <1>4
<1>6. Emits(d, run, z)
    BY <1>1, <1>3, <1>4, <1>5 DEF Emits
<1>7. /\ \A w : Marks(e, w) <=> w = "clear"
      /\ \A w : Marks(f, w) <=> w = "cleared"
    BY <1>4 DEF Marks
<1>8. PassNow(d, run, z)
    <2>1. 1 \in 1..Len(d) /\ 2 \in 1..Len(d)
        BY <1>5
    <2>2. run.now \in CLEAR..(CLEAR + LATE)
        BY <1>1, BoundsAre
    <2>3. PassesNow("clear", d, run, z)
        <3>1. ~HasHappened("clear", run) /\ HasHappened("clear", z) /\ DueAt("clear") = CLEAR
            BY <1>1, <1>3 DEF HasHappened, DueAt
        <3>2. /\ \E j \in 1..Len(d) : Marks(d[j], "clear")
              /\ \A j \in 1..Len(d) : Marks(d[j], "clear") => j = 1
            BY <1>5, <1>7, <2>1
        <3>3. QED
            BY <2>2, <3>1, <3>2 DEF PassesNow
    <2>4. PassesNow("cleared", d, run, z)
        <3>1. ~HasHappened("cleared", run) /\ HasHappened("cleared", z) /\ DueAt("cleared") = CLEAR
            BY <1>1, <1>3 DEF HasHappened, DueAt
        <3>2. /\ \E j \in 1..Len(d) : Marks(d[j], "cleared")
              /\ \A j \in 1..Len(d) : Marks(d[j], "cleared") => j = 2
            BY <1>5, <1>7, <2>1
        <3>3. QED
            BY <2>2, <3>1, <3>2 DEF PassesNow
    <2>5. ASSUME NEW w \in {"inject", "injected"} PROVE PassesNow(w, d, run, z)
        <3>1. HasHappened(w, z) <=> HasHappened(w, run)
            BY <1>1, <1>3 DEF HasHappened
        <3>2. \A j \in 1..Len(d) : ~Marks(d[j], w)
            BY <1>5, <1>7
        <3>3. QED
            BY <3>1, <3>2 DEF PassesNow
    <2>6. QED
        BY <2>3, <2>4, <2>5 DEF PassNow, Milestones
<1>9. TapeOk(tape, bus \o d, z)
    <2>1. \A j \in 1..Len(d) : ~IsPrune(d[j]) /\ ~Marks(d[j], "injected")
        BY <1>4, <1>5, <1>7 DEF IsPrune
    <2>2. QED
        BY <1>1, <1>3, <1>6, <1>8, <2>1, EmitMore
<1>10. QED
    BY <1>2, <1>9 DEF TapeInv, Clear

LEMMA HeartbeatKeepsTape == TapeInv /\ Heartbeat => TapeInv'
<1> SUFFICES ASSUME TapeInv, Heartbeat PROVE TapeInv'
    OBVIOUS
<1>1. /\ TapeOk(tape, bus, run) /\ run \in TapeRuns /\ run.told /\ run.launched /\ run.now \in Nat
      /\ run.faults = "on" /\ run.now % HB = BEAT /\ run.now <= CLEAR + LATE
    BY BoundsAre DEF TapeInv, TapeOk, OnTape, TapeTypes, Heartbeat, TapeRuns
<1>2. PICK low \in (SUBSET (Sybils \ run.pruned)) \ {{}} :
          /\ run' = [run EXCEPT !.pruned = @ \cup low]
          /\ bus' = bus \o [i \in 1..Cardinality(low) |-> Event("SybilPruned")]
    BY DEF Heartbeat
<1>15. low # {} /\ \A p \in low : p \in Sybils
    OBVIOUS
<1>3. PICK z, e, n : z = run' /\ e = Event("SybilPruned") /\ n = Cardinality(low)
    OBVIOUS
<1>4. n \in Nat \ {0}
    <2>1. low \in SUBSET Sybils /\ low # {} /\ IsFiniteSet(Sybils)
        BY <1>15, RecordingAssumption
    <2>2. IsFiniteSet(low)
        BY <2>1, FS_Subset
    <2>3. QED
        BY <1>3, <2>1, <2>2, FS_CardinalityType, FS_EmptySet
<1>5. PICK d : d = [i \in 1..n |-> e]
    OBVIOUS
<1>6. /\ z \in TapeRuns /\ z.now = run.now /\ z.faults = "on" /\ z.pruned # {} /\ z.told /\ z.launched
    <2>1. PICK all : all = run.pruned \cup low
        OBVIOUS
    <2>2. all \in SUBSET Sybils /\ all # {}
        BY <1>1, <1>15, <2>1 DEF TapeRuns
    <2>3. z = [run EXCEPT !.pruned = all]
        BY <1>2, <1>3, <2>1
    <2>4. QED
        BY <1>1, <2>2, <2>3 DEF TapeRuns
<1>7. e \in TapeEvents /\ e.type = "event" /\ e.kind = "SybilPruned" /\ e.at = run.now
    BY <1>1, <1>3 DEF Event, TapeEvents
<1>8. d \in Seq(TapeEvents) /\ Len(d) = n /\ \A j \in 1..n : d[j] = e
    BY <1>4, <1>5, <1>7
<1>9. Emits(d, run, z)
    BY <1>1, <1>6, <1>7, <1>8 DEF Emits
<1>10. IsPrune(e) /\ \A w : ~Marks(e, w)
    BY <1>7 DEF IsPrune, Marks
<1>11. PassNow(d, run, z)
    <2>1. \A w : HasHappened(w, z) <=> HasHappened(w, run)
        BY <1>1, <1>6 DEF HasHappened
    <2>2. QED
        BY <1>8, <1>10, <2>1 DEF PassNow, PassesNow
<1>12. TapeOk(tape, bus \o d, z)
    <2>1. \A j \in 1..Len(d) : IsPrune(d[j]) /\ \A w : ~Marks(d[j], w)
        BY <1>8, <1>10
    <2>2. 1 \in 1..Len(d)
        BY <1>4, <1>8
    <2>3. QED
        BY <1>1, <1>6, <1>9, <1>11, <2>1, <2>2, EmitMore
<1>13. bus' = bus \o d /\ tape' = tape
    BY <1>2, <1>3, <1>5 DEF Heartbeat
<1>14. QED
    BY <1>3, <1>12, <1>13 DEF TapeInv

LEMMA TakenNow ==
    ASSUME TapeInv
    PROVE  Writes(SnapshotNow, tape, bus, run)
<1> DEFINE peers == Honest \cup (IF run.faults = "on" THEN Sybils ELSE {})
           nodes == [p \in peers |-> IF p \in Sybils THEN "attacker" ELSE "idle"]
<1>1. /\ tape \in Seq(TapeLines) /\ bus \in Seq(TapeEvents) /\ run \in TapeRuns /\ run.now \in Nat
      /\ run.pruned \in SUBSET Sybils /\ run.launched \in BOOLEAN
      /\ (run.told => run.launched) /\ (~run.told => run.now = 0) /\ (run.faults # "on" => run.pruned = {})
    BY BoundsAre DEF TapeInv, TapeOk, OnTape, TapeTypes, TapeRuns
<1>2. PICK l : l = SnapshotNow
    OBVIOUS
<1>3. l = [type |-> "snapshot", state |-> "running", time |-> run.now, event_count |-> 0, nodes |-> nodes,
           layout |-> IF run.launched THEN "run" ELSE "before", pruned |-> run.pruned]
    BY <1>2 DEF SnapshotNow
<1>4. nodes \in Pictured /\ DOMAIN nodes = peers
    <2>1. peers \in {Honest, Honest \cup Sybils}
        OBVIOUS
    <2>2. QED
        BY <2>1 DEF Pictured
<1>5. Sybils \cap peers # {} => run.faults = "on"
    BY BoundsAre
<1> HIDE DEF peers, nodes
<1>6. l \in TapeLines /\ l.type = "snapshot" /\ l.time = run.now /\ l.nodes = nodes /\ l.pruned = run.pruned
      /\ l.layout = IF run.launched THEN "run" ELSE "before"
    <2>1. l \in SnapshotLines
        BY <1>1, <1>3, <1>4 DEF SnapshotLines
    <2>2. QED
        BY <1>3, <2>1 DEF TapeLines
<1>7. \A x \in Emitted(tape, bus) : x.type = "event" => x.at <= run.now
    <2>1. \A i \in 1..Len(tape) : tape[i].type = "event" => tape[i].at <= run.now
        BY DEF TapeInv, TapeOk, OnTape, InOrderOfTime, Timed, When
    <2>2. \A j \in 1..Len(bus) : bus[j].at = run.now
        BY DEF TapeInv, TapeOk, OnTape, InOrderOfTime
    <2>3. QED
        BY <1>1, <2>1, <2>2 DEF Emitted
<1>8. run.faults = "on" => \E x \in Emitted(tape, bus) : Marks(x, "injected") /\ x.at <= run.now
    <2>1. ASSUME run.faults = "on" PROVE \E x \in Emitted(tape, bus) : Marks(x, "injected")
        <3>1. HasHappened("injected", run)
            BY <2>1 DEF HasHappened
        <3>2. QED
            BY <3>1 DEF TapeInv, TapeOk, OnTape, PassedOnce, Milestones
    <2>2. QED
        BY <1>7, <2>1 DEF Marks
<1>9. run.pruned # {} => \E x \in Emitted(tape, bus) : IsPrune(x) /\ x.at <= run.now
    BY <1>7 DEF TapeInv, TapeOk, OnTape, AttackOnTape, IsPrune
<1>10. run.pruned = {} /\ run.faults = "on" => \A x \in Emitted(tape, bus) : ~IsPrune(x)
    BY DEF TapeInv, TapeOk, OnTape, AttackOnTape
<1>11. ShowsAttack(l, Emitted(tape, bus))
    BY <1>1, <1>4, <1>5, <1>6, <1>8, <1>9, <1>10 DEF ShowsAttack
<1>12. Writes(l, tape, bus, run)
    BY <1>1, <1>6, <1>11 DEF Writes
<1>13. QED
    BY <1>2, <1>12

LEMMA SnapshotKeepsTape == TapeInv /\ Snapshot => TapeInv'
<1> SUFFICES ASSUME TapeInv, Snapshot PROVE TapeInv'
    OBVIOUS
<1>1. TapeOk(tape, bus, run) /\ tape \in Seq(TapeLines) /\ run \in TapeRuns /\ (run.told => run.launched)
    BY DEF TapeInv, TapeOk, OnTape, TapeTypes
<1>2. PICK snap \in {<<>>, <<SnapshotNow>>}, report \in {<<>>, <<Analytics(TRUE)>>, <<Analytics(FALSE)>>} :
          /\ tape' = tape \o snap \o report
          /\ run' = [run EXCEPT !.snapped = TRUE, !.skipped = @ \/ snap = <<>>]
    BY DEF Snapshot
<1>3. PICK l, one : l = SnapshotNow /\ one = tape \o snap
    OBVIOUS
<1>4. Writes(l, tape, bus, run) /\ l \in TapeLines
    BY <1>3, TakenNow DEF Writes
<1>5. one = tape \/ one = Append(tape, l)
    <2>1. snap = <<>> \/ snap = <<l>>
        BY <1>2, <1>3
    <2>2. tape \o <<>> = tape /\ tape \o <<l>> = Append(tape, l)
        BY <1>1, <1>4
    <2>3. QED
        BY <1>3, <2>1, <2>2
<1>6. TapeOk(one, bus, run) /\ one \in Seq(TapeLines)
    <2>1. TapeOk(one, bus, run)
        BY <1>1, <1>4, <1>5, WriteOne
    <2>2. QED
        BY <2>1 DEF TapeOk, OnTape, TapeTypes
<1>7. Analytics(TRUE) \in TapeLines /\ Analytics(FALSE) \in TapeLines
      /\ Analytics(TRUE).type = "analytics" /\ Analytics(FALSE).type = "analytics"
    BY DEF TapeLines, Statements, Analytics
<1>8. PICK a, f, two : a = Analytics(TRUE) /\ f = Analytics(FALSE) /\ two = one \o report
    OBVIOUS
<1>9. two = one \/ two = Append(one, a) \/ two = Append(one, f)
    <2>1. a \in TapeLines /\ f \in TapeLines /\ report \in {<<>>, <<a>>, <<f>>}
        BY <1>7, <1>8
    <2>2. one \o <<>> = one /\ one \o <<a>> = Append(one, a) /\ one \o <<f>> = Append(one, f)
        BY <1>6, <2>1
    <2>3. QED
        BY <1>8, <2>1, <2>2
<1>10. Writes(a, one, bus, run) /\ Writes(f, one, bus, run)
    BY <1>7, <1>8 DEF Writes
<1>11. TapeOk(two, bus, run)
    BY <1>6, <1>9, <1>10, WriteOne
<1>12. PICK z : z = run'
    OBVIOUS
<1>13. /\ z \in TapeRuns /\ z.now = run.now /\ z.faults = run.faults /\ z.pruned = run.pruned
       /\ z.told = run.told /\ z.launched = run.launched
    <2>1. PICK skipped \in BOOLEAN : z = [run EXCEPT !.snapped = TRUE, !.skipped = skipped]
        <3>1. PICK skipped : skipped = (run.skipped \/ snap = <<>>)
            OBVIOUS
        <3>2. skipped \in BOOLEAN
            BY <3>1
        <3>3. QED
            BY <1>2, <1>12, <3>1, <3>2
    <2>2. QED
        BY <1>1, <2>1 DEF TapeRuns
<1>14. TapeOk(two, bus, z)
    BY <1>1, <1>11, <1>13, RunGoesOn
<1>15. QED
    BY <1>2, <1>3, <1>8, <1>12, <1>14 DEF TapeInv, Snapshot

LEMMA RestKeepsTape == TapeInv /\ UNCHANGED tapeVars => TapeInv'
BY DEF TapeInv, tapeVars

LEMMA NextKeepsTape == TapeInv /\ [TapeNext]_tapeVars => TapeInv'
BY LaunchKeepsTape, TellKeepsTape, ClockKeepsTape, InjectKeepsTape, HeartbeatKeepsTape, ClearKeepsTape,
   SendKeepsTape, SnapshotKeepsTape, RestKeepsTape DEF TapeNext

----------------------------------------------------------------------------
(* What the readers make of it.                                             *)

\* The first and the last of some lines are among them.
LEMMA FirstAndLast ==
    ASSUME NEW n \in Nat, NEW S \in SUBSET (1..n), S # {}
    PROVE  /\ Min(S) \in S /\ \A y \in S : Min(S) <= y
           /\ Max(S) \in S /\ \A y \in S : y <= Max(S)
<1>1. S \in SUBSET Nat /\ S \in SUBSET (0..n)
    OBVIOUS
<1>2. Min(S) \in S /\ \A y \in S : Min(S) <= y
    BY <1>1, LeastIsMin
<1>3. Max(S) \in S /\ \A y \in S : Max(S) >= y
    <2>1. \E x \in S : \A y \in S : x >= y
        BY <1>1, GreatestNumber
    <2>2. QED
        BY <2>1, Zenon DEF Max
<1>4. QED
    BY <1>1, <1>2, <1>3

\* The lines a reader looks for, and their order in time.
LEMMA LinesAre ==
    ASSUME TapeInv
    PROVE  /\ Len(tape) \in Nat /\ DOMAIN tape = 1..Len(tape)
           /\ \A type : LinesOf(type) \in SUBSET (1..Len(tape)) /\ \A i \in LinesOf(type) : tape[i].type = type
           /\ \A i \in Snapshots : i \in 1..Len(tape) /\ tape[i] \in SnapshotLines /\ tape[i].time \in Nat
                                   /\ tape[i].type = "snapshot"
           /\ Snapshots \in SUBSET (1..Len(tape))
           /\ \A kind : Happened(kind) \in SUBSET (1..Len(tape))
           /\ \A kind : \A i \in Happened(kind) : /\ i \in 1..Len(tape) /\ tape[i].kind = kind
                                                  /\ tape[i].type = "event" /\ tape[i].at \in Nat
<1>1. tape \in Seq(TapeLines)
    BY DEF TapeInv, TapeOk, OnTape, TapeTypes
<1>2. Len(tape) \in Nat /\ DOMAIN tape = 1..Len(tape) /\ \A i \in 1..Len(tape) : tape[i] \in TapeLines
    BY <1>1
<1>3. \A type : LinesOf(type) \in SUBSET (1..Len(tape)) /\ \A i \in LinesOf(type) : tape[i].type = type
    BY <1>2 DEF LinesOf
<1>4. \A i \in Snapshots : i \in 1..Len(tape) /\ tape[i] \in SnapshotLines /\ tape[i].time \in Nat
                           /\ tape[i].type = "snapshot"
    BY <1>2, <1>3, TapeLineIs DEF Snapshots
<1>5. \A kind : \A i \in Happened(kind) : /\ i \in 1..Len(tape) /\ tape[i].kind = kind
                                          /\ tape[i].type = "event" /\ tape[i].at \in Nat
    BY <1>2, <1>3, TapeLineIs DEF Happened
<1>6. QED
    BY <1>2, <1>3, <1>4, <1>5

\* Lines with a time are in its order.
LEMMA TimesGoUp ==
    ASSUME TapeInv, NEW i \in 1..Len(tape), NEW j \in 1..Len(tape), i <= j, Timed(tape[i]), Timed(tape[j])
    PROVE  When(tape[i]) <= When(tape[j])
<1>1. i \in Nat /\ j \in Nat /\ tape[j] \in TapeLines
    <2>1. tape \in Seq(TapeLines)
        BY DEF TapeInv, TapeOk, OnTape, TapeTypes
    <2>2. QED
        BY <2>1
<1>2. CASE i = j
    <2>1. When(tape[j]) \in Nat
        BY <1>1, TapeLineIs DEF Timed, When
    <2>2. QED
        BY <1>2, <2>1
<1>3. CASE i < j
    BY <1>3 DEF TapeInv, TapeOk, OnTape, InOrderOfTime
<1>4. QED
    BY <1>1, <1>2, <1>3

\* So are snapshots among themselves.
LEMMA SnapshotsGoUp ==
    ASSUME TapeInv, NEW i \in Snapshots, NEW j \in Snapshots, i <= j
    PROVE  tape[i].time <= tape[j].time
BY LinesAre, TimesGoUp DEF Timed, When

\* And the ones among the others.
LEMMA EventThenSnapshot ==
    ASSUME TapeInv, NEW kind, NEW i \in Happened(kind), NEW j \in Snapshots
    PROVE  /\ i # j /\ (i < j \/ j < i)
           /\ i < j => tape[i].at <= tape[j].time
           /\ j < i => tape[j].time <= tape[i].at
<1>1. /\ i \in 1..Len(tape) /\ tape[i].type = "event" /\ j \in 1..Len(tape) /\ tape[j].type = "snapshot"
    BY LinesAre
<1>2. Timed(tape[i]) /\ When(tape[i]) = tape[i].at /\ Timed(tape[j]) /\ When(tape[j]) = tape[j].time
    BY <1>1 DEF Timed, When
<1>3. i \in Nat /\ j \in Nat /\ i # j
    BY <1>1
<1>4. QED
    BY <1>1, <1>2, <1>3, TimesGoUp

\* What happens once.
LEMMA HappenedOnce ==
    ASSUME TapeInv
    PROVE  /\ \A i \in 1..Len(tape) : Marks(tape[i], "injected") <=> i \in Happened("FaultInjected")
           /\ \A i \in 1..Len(tape) : Marks(tape[i], "cleared") <=> i \in Happened("FaultCleared")
           /\ \A i \in 1..Len(tape) : IsPrune(tape[i]) <=> i \in Prunes
           /\ \A i, j \in Happened("FaultInjected") : i = j
           /\ \A i, j \in Happened("FaultCleared") : i = j
<1>1. DOMAIN tape = 1..Len(tape)
    BY LinesAre
<1>2. /\ \A i \in 1..Len(tape) : Marks(tape[i], "injected") <=> i \in Happened("FaultInjected")
      /\ \A i \in 1..Len(tape) : Marks(tape[i], "cleared") <=> i \in Happened("FaultCleared")
      /\ \A i \in 1..Len(tape) : IsPrune(tape[i]) <=> i \in Prunes
    BY <1>1 DEF Marks, IsPrune, Prunes, Happened, LinesOf
<1>3. \A w \in Milestones : \A i, j \in 1..Len(tape) : Marks(tape[i], w) /\ Marks(tape[j], w) => i = j
    BY DEF TapeInv, TapeOk, OnTape, PassedOnce
<1>4. \A kind : \A i \in Happened(kind) : i \in 1..Len(tape)
    BY LinesAre
<1>5. QED
    BY <1>2, <1>3, <1>4 DEF Milestones

\* The time of a line that has none.
LEMMA SimTIs ==
    ASSUME TapeInv, NEW i \in 1..Len(tape), SimT(i) # 0
    PROVE  \E j \in Snapshots : j < i /\ SimT(i) = tape[j].time
<1> DEFINE before == {j \in Snapshots : j < i}
<1>1. before # {} /\ SimT(i) = tape[Max(before)].time
    BY DEF SimT, LastOf
<1>2. before \in SUBSET (1..Len(tape)) /\ Len(tape) \in Nat
    BY LinesAre
<1>3. Max(before) \in before
    BY <1>1, <1>2, FirstAndLast
<1>4. QED
    BY <1>1, <1>3

\* After a snapshot a line is dated by it.
LEMMA SimTDated ==
    ASSUME TapeInv, NEW i \in 1..Len(tape), i - 1 \in Snapshots
    PROVE  SimT(i) = tape[i - 1].time /\ SimT(i) \in Nat
<1> DEFINE before == {j \in Snapshots : j < i}
<1>1. before \in SUBSET (1..Len(tape)) /\ Len(tape) \in Nat /\ i - 1 \in before
    BY LinesAre
<1>2. Max(before) \in before /\ i - 1 <= Max(before)
    BY <1>1, FirstAndLast
<1>3. Max(before) = i - 1
    <2>1. PICK m : m = Max(before)
        OBVIOUS
    <2>2. m \in 1..Len(tape) /\ m < i /\ i - 1 <= m
        BY <1>1, <1>2, <2>1
    <2>3. m = i - 1
        BY <1>1, <2>2
    <2>4. QED
        BY <2>1, <2>3
<1>4. SimT(i) = tape[i - 1].time
    BY <1>1, <1>3 DEF SimT, LastOf
<1>5. QED
    BY <1>4, LinesAre

\* What the landing page finds after a time are whole lines of later snapshots.
LEMMA WholeAfterIs ==
    ASSUME TapeInv, NEW t \in Nat, NEW i \in WholeAfter(t)
    PROVE  /\ i \in 1..Len(tape) /\ i \in LinesOf("analytics") /\ Whole(tape[i])
           /\ \E j \in Snapshots : j < i /\ SimT(i) = tape[j].time /\ SimT(i) \in Nat /\ SimT(i) > t
<1>1. i \in 1..Len(tape) /\ i \in LinesOf("analytics") /\ Whole(tape[i]) /\ SimT(i) > t
    BY LinesAre DEF WholeAfter, Whole
<1>2. SimT(i) # 0
    BY <1>1
<1>3. QED
    BY <1>1, <1>2, SimTIs, LinesAre

\* There is one line of the clear, and the page dates it as the run does.
LEMMA ClearIs ==
    ASSUME TapeInv, HasBeats
    PROVE  \E c \in Happened("FaultCleared") :
               /\ c = Min(Happened("FaultCleared")) /\ ClearedAt = tape[c].at /\ Marks(tape[c], "cleared")
               /\ ClearedAt \in Nat /\ ClearedAt \in CLEAR..(CLEAR + LATE) /\ c \in 1..Len(tape)
               /\ \A i \in 1..Len(tape) : Marks(tape[i], "cleared") => i = c
<1>1. Happened("FaultCleared") # {} /\ Happened("FaultCleared") \in SUBSET (1..Len(tape)) /\ Len(tape) \in Nat
    BY LinesAre DEF HasBeats
<1>2. PICK c : c = Min(Happened("FaultCleared"))
    OBVIOUS
<1>3. c \in Happened("FaultCleared") /\ c \in 1..Len(tape)
    BY <1>1, <1>2, FirstAndLast
<1>4. ClearedAt = tape[c].at /\ ClearedAt \in Nat
    BY <1>2, <1>3, LinesAre DEF ClearedAt, FirstOf
<1>5. Marks(tape[c], "cleared") /\ \A i \in 1..Len(tape) : Marks(tape[i], "cleared") => i = c
    BY <1>3, HappenedOnce
<1>6. tape[c].at \in CLEAR..(CLEAR + LATE)
    <2>1. tape[c] \in Emitted(tape, bus)
        BY <1>3 DEF Emitted
    <2>2. DueAt("cleared") = CLEAR
        BY DEF DueAt
    <2>3. QED
        BY <1>5, <2>1, <2>2 DEF TapeInv, TapeOk, OnTape, PassedOnce, Milestones
<1>7. QED
    BY <1>2, <1>3, <1>4, <1>5, <1>6

\* The page's first whole line after the clear is the one the narrator heals by.
LEMMA HealingsAgree == TapeInv => HealingAgrees(PlayerOf(tape))
<1> SUFFICES ASSUME TapeInv, HasBeats
             PROVE  LET p       == PlayerOf(tape)
                        told    == p.beats[Min(Healings(p))].time
                    IN  /\ HealedIn > 0 => Healings(p) # {}
                        /\ Dated => IF Healings(p) = {} THEN HealedIn = 0
                                    ELSE HealedIn = told - ClearedAt \/ told = ClearedAt
    BY DEF HealingAgrees
<1>1. PICK p, hs, hits : p = PlayerOf(tape) /\ hs = Healings(p) /\ hits = WholeAfter(ClearedAt)
    OBVIOUS
<1>2. PICK c \in Happened("FaultCleared") :
          /\ ClearedAt = tape[c].at /\ Marks(tape[c], "cleared") /\ ClearedAt \in Nat /\ c \in 1..Len(tape)
          /\ \A i \in 1..Len(tape) : Marks(tape[i], "cleared") => i = c
    BY ClearIs
<1>3. /\ Watches(p) /\ PlayedHealing(p, tape) /\ Len(p.beats) \in Nat /\ DOMAIN p.beats = 1..Len(p.beats)
    <2>1. Watches(p) /\ PlayedHealing(p, tape)
        BY <1>1 DEF TapeInv, TapeOk, PlayedTape
    <2>2. p.beats \in Seq(TapeBeats)
        BY <2>1 DEF Watches
    <2>3. QED
        BY <2>1, <2>2
<1>4. hs = {k \in 1..Len(p.beats) : p.beats[k].kind = "healed"}
    BY <1>1, <1>3 DEF Healings
<1>5. HealedIn = IF hits = {} THEN 0 ELSE SimT(Min(hits)) - ClearedAt
    BY <1>1 DEF HealedIn
<1>6. ASSUME NEW m \in hits PROVE m \in 1..Len(tape) /\ c < m /\ Whole(tape[m]) /\ SimT(m) > ClearedAt
    <2>1. /\ m \in 1..Len(tape) /\ Whole(tape[m])
          /\ \E j \in Snapshots : j < m /\ SimT(m) = tape[j].time /\ SimT(m) \in Nat /\ SimT(m) > ClearedAt
        BY <1>1, <1>2, <1>6, WholeAfterIs
    <2>2. PICK j \in Snapshots : j < m /\ SimT(m) = tape[j].time /\ SimT(m) \in Nat /\ SimT(m) > ClearedAt
        BY <2>1
    <2>3. j \in 1..Len(tape) /\ Len(tape) \in Nat /\ tape[j].time \in Nat
        BY LinesAre
    <2>4. ~(j < c)
        <3>1. j < c => tape[j].time <= tape[c].at
            BY EventThenSnapshot
        <3>2. QED
            BY <1>2, <2>2, <2>3, <3>1
    <2>5. QED
        BY <1>2, <2>1, <2>2, <2>3, <2>4
<1>7. hits # {} => hs # {}
    <2>1. SUFFICES ASSUME NEW m \in hits PROVE hs # {}
        OBVIOUS
    <2>2. m \in 1..Len(tape) /\ c < m /\ Whole(tape[m]) /\ Marks(tape[c], "cleared") /\ c \in 1..Len(tape)
        BY <1>2, <1>6
    <2>3. p.narrator.healed
        BY <1>3, <2>2 DEF PlayedHealing
    <2>4. \E k \in 1..Len(p.beats) : p.beats[k].kind = "healed"
        BY <1>3, <2>3 DEF PlayedHealing
    <2>5. QED
        BY <1>4, <2>4
<1>8. HealedIn > 0 => hs # {}
    BY <1>5, <1>7
<1>9. hs = {} => HealedIn = 0
    BY <1>5, <1>7
<1>10. ASSUME Dated, hs # {}
       PROVE  HealedIn = p.beats[Min(hs)].time - ClearedAt \/ p.beats[Min(hs)].time = ClearedAt
    <2>1. PICK k : k = Min(hs)
        OBVIOUS
    <2>2. k \in 1..Len(p.beats) /\ p.beats[k].kind = "healed"
        <3>1. hs \in SUBSET (1..Len(p.beats))
            BY <1>4
        <3>2. k \in hs
            BY <1>3, <1>10, <2>1, <3>1, FirstAndLast
        <3>3. QED
            BY <1>4, <3>2
    <2>3. PICK told : told = p.beats[k].time
        OBVIOUS
    <2>4. PICK i, j \in 1..Len(tape) :
              FirstWhole(tape, i, j) /\ told >= tape[i].at /\ (tape[j - 1].type = "snapshot" => told = tape[j - 1].time)
        BY <1>3, <2>2, <2>3 DEF PlayedHealing, HealedAt
    <2>5. i = c /\ c < j /\ Whole(tape[j]) /\ \A m \in 1..Len(tape) : c < m /\ m < j => ~Whole(tape[m])
        BY <1>2, <2>4 DEF FirstWhole
    <2>6. Len(tape) \in Nat /\ DOMAIN tape = 1..Len(tape) /\ tape[c].at \in Nat
        BY <1>2, LinesAre
    <2>7. j \in LinesOf("analytics") /\ tape[j].delivered
        BY <2>5, <2>6 DEF LinesOf, Whole
    <2>8. j - 1 \in Snapshots /\ told = tape[j - 1].time
        <3>1. tape[j - 1].type = "snapshot"
            BY <1>10, <2>7 DEF Dated
        <3>2. j - 1 \in 1..Len(tape)
            BY <2>5, <2>6
        <3>3. QED
            BY <2>4, <2>6, <3>1, <3>2 DEF Snapshots, LinesOf
    <2>9. SimT(j) = told /\ told \in Nat
        BY <2>8, SimTDated
    <2>10. CASE told # ClearedAt
        <3>1. told > ClearedAt
            BY <1>2, <2>4, <2>5, <2>6, <2>9, <2>10
        <3>2. j \in hits
            BY <1>1, <2>7, <2>9, <3>1 DEF WholeAfter
        <3>3. ASSUME NEW m \in hits PROVE j <= m
            <4>1. m \in 1..Len(tape) /\ c < m /\ Whole(tape[m])
                BY <1>6
            <4>2. ~(m < j)
                BY <2>5, <4>1
            <4>3. QED
                BY <2>6, <4>1, <4>2
        <3>4. Min(hits) = j
            <4>1. hits \in SUBSET (1..Len(tape))
                BY <1>6
            <4>2. Min(hits) \in hits /\ \A y \in hits : Min(hits) <= y
                BY <2>6, <3>2, <4>1, FirstAndLast
            <4>3. PICK m : m = Min(hits)
                OBVIOUS
            <4>4. m \in hits /\ m <= j /\ j <= m /\ m \in 1..Len(tape)
                BY <3>2, <3>3, <4>1, <4>2, <4>3
            <4>5. m = j
                BY <2>6, <4>4
            <4>6. QED
                BY <4>3, <4>5
        <3>5. QED
            BY <1>5, <2>1, <2>3, <2>9, <3>2, <3>4
    <2>11. QED
        BY <2>1, <2>3, <2>10
<1>11. QED
    BY <1>1, <1>8, <1>9, <1>10

\* The partition's card looks from the due time on, so it finds that line or an earlier one.
LEMMA PartitionsAgree == TapeInv => PartitionAgrees
<1> DEFINE whole == {i \in LinesOf("analytics") : tape[i].delivered}
<1> SUFFICES ASSUME TapeInv, HasBeats, Dated, \A i \in whole : i > Min(Happened("FaultCleared"))
             PROVE  /\ PartitionHealedIn # 0 => PartitionHealedIn >= ClearedAt - CLEAR
                    /\ HealedIn # 0 => PartitionHealedIn \in 1..(HealedIn + ClearedAt - CLEAR)
    BY DEF PartitionAgrees
<1>1. PICK hits, late : hits = WholeAfter(CLEAR) /\ late = WholeAfter(ClearedAt)
    OBVIOUS
<1>2. PICK c \in Happened("FaultCleared") :
          /\ c = Min(Happened("FaultCleared")) /\ ClearedAt = tape[c].at /\ ClearedAt \in Nat
          /\ ClearedAt \in CLEAR..(CLEAR + LATE) /\ c \in 1..Len(tape)
    BY ClearIs
<1>3. CLEAR \in Nat /\ ClearedAt >= CLEAR /\ Len(tape) \in Nat
    BY <1>2, BoundsAre, LinesAre
<1>4. ASSUME NEW m, m \in hits \/ m \in late
      PROVE  /\ m \in 1..Len(tape) /\ m - 1 \in Snapshots /\ SimT(m) = tape[m - 1].time /\ SimT(m) \in Nat /\ c < m
             /\ m \in whole
    <2>1. m \in 1..Len(tape) /\ m \in LinesOf("analytics") /\ Whole(tape[m])
          /\ \E j \in Snapshots : j < m
        BY <1>1, <1>2, <1>3, <1>4, WholeAfterIs
    <2>2. m \in whole /\ c < m
        BY <1>2, <2>1 DEF Whole
    <2>3. m - 1 \in Snapshots
        <3>1. m - 1 \in 1..Len(tape) /\ DOMAIN tape = 1..Len(tape)
            BY <1>2, <1>3, <2>1, <2>2, LinesAre
        <3>2. QED
            BY <2>1, <3>1 DEF Dated, Snapshots, LinesOf
    <2>4. QED
        BY <2>1, <2>2, <2>3, SimTDated
<1>5. hits \in SUBSET (1..Len(tape)) /\ late \in SUBSET (1..Len(tape))
    BY <1>4
<1>6. /\ PartitionHealedIn = IF hits = {} THEN 0 ELSE SimT(Min(hits)) - CLEAR
      /\ HealedIn = IF late = {} THEN 0 ELSE SimT(Min(late)) - ClearedAt
    BY <1>1 DEF PartitionHealedIn, HealedIn
<1>7. ASSUME hits # {} PROVE SimT(Min(hits)) - CLEAR >= ClearedAt - CLEAR
    <2>1. PICK m : m = Min(hits)
        OBVIOUS
    <2>2. m \in hits
        BY <1>3, <1>5, <1>7, <2>1, FirstAndLast
    <2>3. m - 1 \in Snapshots /\ SimT(m) = tape[m - 1].time /\ SimT(m) \in Nat /\ c < m /\ m \in 1..Len(tape)
        BY <1>4, <2>2
    <2>4. /\ (c < m - 1 \/ m - 1 < c) /\ (c < m - 1 => tape[c].at <= tape[m - 1].time)
        BY <2>3, EventThenSnapshot
    <2>5. SimT(m) >= ClearedAt
        BY <1>2, <1>3, <2>3, <2>4
    <2>6. PICK at, x : at = ClearedAt /\ x = SimT(m)
        OBVIOUS
    <2>7. x \in Nat /\ at \in Nat /\ x >= at
        BY <1>2, <2>3, <2>5, <2>6
    <2>8. x - CLEAR >= at - CLEAR
        BY <1>3, <2>7
    <2>9. QED
        BY <2>1, <2>6, <2>8
<1>8. ASSUME late # {} PROVE hits # {} /\ SimT(Min(hits)) - CLEAR \in 1..(SimT(Min(late)) - CLEAR)
    <2>1. PICK h : h = Min(late)
        OBVIOUS
    <2>2. h \in late
        BY <1>3, <1>5, <1>8, <2>1, FirstAndLast
    <2>3. h - 1 \in Snapshots /\ SimT(h) = tape[h - 1].time /\ SimT(h) \in Nat /\ h \in whole /\ h \in 1..Len(tape)
        BY <1>4, <2>2
    <2>4. h \in hits
        <3>1. PICK at, x : at = ClearedAt /\ x = SimT(h)
            OBVIOUS
        <3>2. h \in LinesOf("analytics") /\ tape[h].delivered /\ x > at
            BY <1>1, <2>2, <3>1 DEF WholeAfter
        <3>3. x \in Nat /\ at \in Nat /\ at >= CLEAR
            BY <1>2, <1>3, <2>3, <3>1
        <3>4. x > CLEAR
            BY <1>3, <3>2, <3>3
        <3>5. QED
            BY <1>1, <3>1, <3>2, <3>4 DEF WholeAfter
    <2>5. PICK m : m = Min(hits)
        OBVIOUS
    <2>6. m \in hits /\ m <= h
        BY <1>3, <1>5, <2>4, <2>5, FirstAndLast
    <2>7. m - 1 \in Snapshots /\ SimT(m) = tape[m - 1].time /\ SimT(m) \in Nat /\ m \in 1..Len(tape)
        BY <1>4, <2>6
    <2>8. SimT(m) > CLEAR
        BY <1>1, <2>6 DEF WholeAfter
    <2>9. tape[m - 1].time <= tape[h - 1].time
        <3>1. m - 1 <= h - 1
            BY <2>3, <2>6, <2>7
        <3>2. QED
            BY <2>3, <2>7, <3>1, SnapshotsGoUp
    <2>10. SimT(m) - CLEAR \in 1..(SimT(h) - CLEAR)
        BY <1>3, <2>3, <2>7, <2>8, <2>9
    <2>11. QED
        BY <2>1, <2>4, <2>5, <2>10
<1>9. late # {} => SimT(Min(late)) \in Nat
    <2>1. late # {} => Min(late) \in late
        BY <1>3, <1>5, FirstAndLast
    <2>2. QED
        BY <1>4, <2>1
<1>10. PartitionHealedIn # 0 => PartitionHealedIn >= ClearedAt - CLEAR
    BY <1>6, <1>7
<1>11. HealedIn # 0 => PartitionHealedIn \in 1..(HealedIn + ClearedAt - CLEAR)
    <2>1. SUFFICES ASSUME late # {} PROVE PartitionHealedIn \in 1..(HealedIn + ClearedAt - CLEAR)
        BY <1>6
    <2>2. HealedIn + ClearedAt - CLEAR = SimT(Min(late)) - CLEAR
        <3>1. PICK at, x, y : at = ClearedAt /\ x = SimT(Min(late)) /\ y = HealedIn
            OBVIOUS
        <3>2. x \in Nat /\ at \in Nat /\ y = x - at
            BY <1>2, <1>6, <1>9, <2>1, <3>1
        <3>3. y + at - CLEAR = x - CLEAR
            BY <1>3, <3>2
        <3>4. QED
            BY <3>1, <3>3
    <2>3. QED
        BY <1>6, <1>8, <2>1, <2>2
<1>12. QED
    BY <1>10, <1>11

\* An event that a snapshot shows was emitted; if it is on the tape, it is one of the lines looked for.
LEMMA AttackIsOnTape ==
    ASSUME TapeInv, NEW i \in Snapshots
    PROVE  /\ ShowsAttack(tape[i], Emitted(tape, bus))
           /\ Happened("FaultInjected") # {} /\ (\E x \in Emitted(tape, bus) : Marks(x, "injected") /\ x.at <= tape[i].time)
                  => FirstOf(Happened("FaultInjected")).at <= tape[i].time
<1>1. i \in 1..Len(tape) /\ tape[i].type = "snapshot"
    BY LinesAre
<1>2. ShowsAttack(tape[i], Emitted(tape, bus))
    BY <1>1 DEF TapeInv, TapeOk, OnTape, AttackOnTape
<1>3. ASSUME Happened("FaultInjected") # {}, NEW x \in Emitted(tape, bus), Marks(x, "injected"), x.at <= tape[i].time
      PROVE  FirstOf(Happened("FaultInjected")).at <= tape[i].time
    <2>1. PICK f : f = Min(Happened("FaultInjected"))
        OBVIOUS
    <2>2. f \in Happened("FaultInjected")
        <3>1. Happened("FaultInjected") \in SUBSET (1..Len(tape)) /\ Len(tape) \in Nat
            BY LinesAre
        <3>2. QED
            BY <1>3, <2>1, <3>1, FirstAndLast
    <2>3. f \in 1..Len(tape) /\ Marks(tape[f], "injected")
        BY <2>2, HappenedOnce, LinesAre
    <2>4. /\ \A k \in 1..Len(tape) : Marks(tape[k], "injected") => k = f
          /\ \A k \in 1..Len(bus) : ~Marks(bus[k], "injected")
        BY <2>3 DEF TapeInv, TapeOk, OnTape, PassedOnce, Milestones
    <2>5. x = tape[f]
        BY <1>3, <2>4 DEF Emitted
    <2>6. QED
        BY <1>3, <2>1, <2>5 DEF FirstOf
<1>4. QED
    BY <1>2, <1>3

\* The first prune is the earliest one.
LEMMA FirstPruneIs ==
    ASSUME TapeInv, Prunes # {}
    PROVE  /\ Min(Prunes) \in Prunes /\ FirstOf(Prunes) \in Emitted(tape, bus) /\ IsPrune(FirstOf(Prunes))
           /\ FirstOf(Prunes).at \in Nat
           /\ \A i \in Prunes : /\ tape[i] \in Emitted(tape, bus) /\ IsPrune(tape[i]) /\ tape[i].at \in Nat
                                /\ FirstOf(Prunes).at <= tape[i].at
<1>1. Prunes \in SUBSET (1..Len(tape)) /\ Len(tape) \in Nat
    BY LinesAre DEF Prunes
<1>2. PICK f : f = Min(Prunes)
    OBVIOUS
<1>3. f \in Prunes /\ \A i \in Prunes : f <= i
    BY <1>1, <1>2, FirstAndLast
<1>4. \A i \in Prunes : /\ i \in 1..Len(tape) /\ tape[i] \in Emitted(tape, bus) /\ IsPrune(tape[i])
                        /\ tape[i].at \in Nat /\ tape[i].type = "event"
    BY <1>1, HappenedOnce, LinesAre DEF Prunes, Emitted
<1>5. ASSUME NEW i \in Prunes PROVE tape[f].at <= tape[i].at
    <2>1. Timed(tape[f]) /\ Timed(tape[i]) /\ When(tape[f]) = tape[f].at /\ When(tape[i]) = tape[i].at
        BY <1>3, <1>4 DEF Timed, When
    <2>2. QED
        BY <1>3, <1>4, <2>1, TimesGoUp
<1>6. QED
    BY <1>2, <1>3, <1>4, <1>5 DEF FirstOf

\* A card is taken of the run, between its mesh and the end.
LEMMA CardsAgree == TapeInv => CardAgrees
<1> SUFFICES ASSUME TapeInv, Snapshots # {}, LastOf(Snapshots).time > 0, bus = <<>>
             PROVE  /\ Card.layout = "run" /\ Card.edges = "run"
                    /\ Card.snap.pruned # {} => Prunes # {} /\ FirstOf(Prunes).at <= Card.snap.time
    BY DEF CardAgrees
<1>1. Len(tape) \in Nat /\ Snapshots \in SUBSET (1..Len(tape)) /\ DOMAIN tape = 1..Len(tape)
    BY LinesAre
<1>2. PICK last, late : last = Max(Snapshots) /\ late = {i \in Snapshots : 10 * tape[i].time >= 3 * LastOf(Snapshots).time}
    OBVIOUS
<1>3. last \in Snapshots /\ tape[last].time \in Nat /\ tape[last].time > 0 /\ LastOf(Snapshots) = tape[last]
    BY <1>1, <1>2, FirstAndLast, LinesAre DEF LastOf
<1>4. \A i \in Snapshots : i \in late <=> 10 * tape[i].time >= 3 * tape[last].time
    BY <1>2, <1>3
<1>5. last \in late /\ late \in SUBSET (1..Len(tape))
    <2>1. 10 * tape[last].time >= 3 * tape[last].time
        BY <1>3
    <2>2. QED
        BY <1>1, <1>2, <1>3, <1>4, <2>1
<1>6. PICK cut : cut = Min(late)
    OBVIOUS
<1>7. cut \in late /\ cut \in Snapshots
    BY <1>1, <1>2, <1>5, <1>6, FirstAndLast
<1>8. tape[cut].time \in Nat /\ tape[cut].time > 0 /\ tape[cut].type = "snapshot" /\ cut \in 1..Len(tape)
    BY <1>3, <1>4, <1>7, LinesAre
<1>9. tape[cut].layout = "run" /\ \E j \in 2..(cut - 1) : tape[j].type = "edges"
    BY <1>8 DEF TapeInv, TapeOk, OnTape, MeshOfRun
<1>10. PICK edges, e : edges = {i \in LinesOf("edges") : i < cut} /\ e = Max(edges)
    OBVIOUS
<1>11. Card = [snap |-> tape[cut], layout |-> tape[cut].layout, edges |-> tape[e].edges]
    BY <1>2, <1>6, <1>10 DEF Card, LastOf
<1>12. tape[e].edges = "run"
    <2>1. PICK j \in 2..(cut - 1) : tape[j].type = "edges"
        BY <1>9
    <2>2. j \in edges /\ edges \in SUBSET (1..Len(tape))
        <3>1. j \in 1..Len(tape) /\ j < cut
            BY <1>1, <1>8, <2>1
        <3>2. QED
            BY <1>1, <1>10, <2>1, <3>1 DEF LinesOf
    <2>3. e \in edges /\ j <= e
        BY <1>1, <1>10, <2>2, FirstAndLast
    <2>4. e \in 2..Len(tape) /\ tape[e].type = "edges"
        BY <1>1, <1>10, <2>1, <2>2, <2>3 DEF LinesOf
    <2>5. QED
        BY <2>4 DEF TapeInv, TapeOk, OnTape, MeshOfRun
<1>13. ASSUME tape[cut].pruned # {} PROVE Prunes # {} /\ FirstOf(Prunes).at <= tape[cut].time
    <2>1. PICK x \in Emitted(tape, bus) : IsPrune(x) /\ x.at <= tape[cut].time
        BY <1>7, <1>13, AttackIsOnTape DEF ShowsAttack
    <2>2. PICK i \in 1..Len(tape) : x = tape[i]
        BY DEF Emitted
    <2>3. i \in Prunes
        BY <2>1, <2>2, HappenedOnce
    <2>4. FirstOf(Prunes).at <= tape[i].at /\ FirstOf(Prunes).at \in Nat /\ tape[i].at \in Nat
        BY <2>3, FirstPruneIs
    <2>5. QED
        BY <1>8, <2>1, <2>2, <2>3, <2>4
<1>14. QED
    BY <1>9, <1>11, <1>12, <1>13

\* The snapshot at a time is the last one until then, if there is any.
LEMMA SnapshotAtIs ==
    ASSUME TapeInv, Snapshots # {}, NEW t \in Int
    PROVE  \E s \in Snapshots : /\ SnapshotAt(t) = tape[s]
                                /\ \A i \in Snapshots : tape[i].time <= t => tape[i].time <= tape[s].time
<1> DEFINE past == {i \in Snapshots : tape[i].time <= t}
<1>1. Len(tape) \in Nat /\ Snapshots \in SUBSET (1..Len(tape)) /\ past \in SUBSET (1..Len(tape))
    BY LinesAre
<1>2. CASE past = {}
    <2>1. SnapshotAt(t) = tape[Min(Snapshots)]
        BY <1>2 DEF SnapshotAt, FirstOf
    <2>2. Min(Snapshots) \in Snapshots
        BY <1>1, FirstAndLast
    <2>3. QED
        BY <1>2, <2>1, <2>2
<1>3. CASE past # {}
    <2>1. SnapshotAt(t) = tape[Max(past)]
        BY <1>3 DEF SnapshotAt, LastOf
    <2>2. Max(past) \in past /\ \A i \in past : i <= Max(past)
        BY <1>1, <1>3, FirstAndLast
    <2>3. \A i \in Snapshots : tape[i].time <= t => tape[i].time <= tape[Max(past)].time
        BY <2>2, SnapshotsGoUp
    <2>4. QED
        BY <2>1, <2>2, <2>3
<1>4. QED
    BY <1>2, <1>3

\* A snapshot after the first prune still shows it, or the attack is over.
LEMMA ScoresAgree == TapeInv => ScoreIsThePruned
<1> SUFFICES ASSUME TapeInv, Prunes # {}, NEW t \in FirstOf(Prunes).at..END,
                    \E i \in Snapshots : tape[i].time > FirstOf(Prunes).at
             PROVE  ScoresShown(t).pruned # {} \/ Sybils \cap DOMAIN ScoresShown(t).nodes = {}
    BY DEF ScoreIsThePruned
<1>1. PICK first, after : first = FirstOf(Prunes) /\ after = {i \in Snapshots : tape[i].time > FirstOf(Prunes).at}
    OBVIOUS
<1>2. first \in Emitted(tape, bus) /\ IsPrune(first) /\ first.at \in Nat /\ t >= first.at /\ t \in Int
    BY <1>1, FirstPruneIs, BoundsAre
<1>3. Len(tape) \in Nat /\ after \in SUBSET (1..Len(tape)) /\ after # {} /\ Snapshots # {}
    BY <1>1, LinesAre
<1>4. PICK a : a = Min(after)
    OBVIOUS
<1>5. a \in Snapshots /\ tape[a].time > first.at /\ tape[a].time \in Nat /\ FirstOf(after) = tape[a]
    BY <1>1, <1>3, <1>4, FirstAndLast, LinesAre DEF FirstOf
<1>6. PICK u : u = IF tape[a].time > t THEN tape[a].time ELSE t
    OBVIOUS
<1>7. ScoresShown(t) = SnapshotAt(u)
    <2>1. ~(t < first.at)
        BY <1>2
    <2>2. QED
        BY <1>1, <1>3, <1>5, <1>6, <2>1 DEF ScoresShown, ScoresFrom
<1>8. u \in Int /\ tape[a].time <= u
    BY <1>2, <1>5, <1>6
<1>9. PICK s \in Snapshots : SnapshotAt(u) = tape[s] /\ \A i \in Snapshots : tape[i].time <= u => tape[i].time <= tape[s].time
    BY <1>3, <1>8, SnapshotAtIs
<1>10. tape[s].time > first.at
    <2>1. tape[a].time <= tape[s].time /\ tape[s].time \in Nat
        BY <1>5, <1>8, <1>9, LinesAre
    <2>2. QED
        BY <1>2, <1>5, <2>1
<1>11. ShowsAttack(tape[s], Emitted(tape, bus))
    BY AttackIsOnTape
<1>12. ~(tape[s].time <= first.at)
    <2>1. tape[s].time \in Nat
        BY LinesAre
    <2>2. QED
        BY <1>2, <1>10, <2>1
<1>13. QED
    BY <1>2, <1>7, <1>9, <1>11, <1>12 DEF ShowsAttack

\* All prunes are in step with the first.
LEMMA CuesAgree == TapeInv => CuesOnTheBeat
<1> SUFFICES ASSUME TapeInv, NEW i \in Prunes, FrameAt(tape[i].at) # None
             PROVE  FrameAt(tape[i].at) \in Sweeps /\ FrameAt(tape[i].at) \in HeartbeatTicks
    BY DEF CuesOnTheBeat
<1>1. PICK at, first : at = tape[i].at /\ first = FirstOf(Prunes).at
    OBVIOUS
<1>2. /\ at \in Nat /\ first \in Nat /\ at % HB = BEAT /\ first % HB = BEAT
    BY <1>1, FirstPruneIs DEF TapeInv, TapeOk, OnTape, AttackOnTape
<1>3. FrameAt(at) # None
    BY <1>1
<1>4. FrameAt(at) \in Sweeps
    BY <1>1, <1>3 DEF Sweeps
<1>5. PICK o, f, k : o = ACT.offset /\ f = ACT.frames /\ k = at - ACT.offset
    OBVIOUS
<1>6. o \in Nat /\ f \in Nat /\ k \in Int /\ at = o + k /\ RATE \in Nat /\ RATE > 0
    BY <1>2, <1>5, RecordingAssumption
<1>7. k * RATE \in 0..(f - 1)
    BY <1>1, <1>3, <1>5 DEF FrameAt
<1>8. k >= 0 /\ k <= f
    <2>1. k * RATE >= 0 /\ k * RATE <= f - 1
        BY <1>6, <1>7
    <2>2. k >= 0
        <3>1. ASSUME k < 0 PROVE FALSE
            <4>1. k * RATE < 0
                BY <1>6, <3>1
            <4>2. QED
                BY <1>6, <2>1, <4>1
        <3>2. QED
            BY <1>6, <3>1
    <2>3. k <= k * RATE
        BY <1>6, <2>2
    <2>4. QED
        BY <1>6, <2>1, <2>2, <2>3
<1>9. at \in o..(o + f)
    BY <1>2, <1>6, <1>8
<1>10. FrameAt(at) \in HeartbeatTicks
    <2>1. Prunes # {}
        OBVIOUS
    <2>2. at \in {t \in ACT.offset..(ACT.offset + ACT.frames) : t % HB = first % HB}
        BY <1>2, <1>5, <1>9
    <2>3. QED
        BY <1>1, <1>3, <2>1, <2>2 DEF HeartbeatTicks
<1>11. QED
    BY <1>1, <1>4, <1>10

\* The last of up to three stamps, by time and then as they are listed.
LEMMA LastStamp ==
    ASSUME NEW at, NEW D \in SUBSET {1, 2, 3}, D # {}, \A i \in D : at[i] \in Nat
    PROVE  \E i \in D : \A j \in D : at[j] < at[i] \/ (at[j] = at[i] /\ j <= i)
<1> DEFINE Best(E, i) == i \in E /\ \A j \in E : at[j] < at[i] \/ (at[j] = at[i] /\ j <= i)
<1>1. ASSUME NEW E \in SUBSET D, NEW i, Best(E, i), NEW k \in D, \A j \in E : j < k
      PROVE  \E m : Best(E \cup {k}, m)
    <2>1. i \in E /\ i < k /\ i \in Nat /\ k \in Nat /\ at[i] \in Nat /\ at[k] \in Nat /\ \A j \in E : at[j] \in Nat /\ j \in Nat
        BY <1>1
    <2>2. CASE at[i] <= at[k]
        <3>1. Best(E \cup {k}, k)
            BY <1>1, <2>1, <2>2
        <3>2. QED
            BY <3>1
    <2>3. CASE at[k] < at[i]
        <3>1. Best(E \cup {k}, i)
            BY <1>1, <2>1, <2>3
        <3>2. QED
            BY <3>1
    <2>4. QED
        BY <2>1, <2>2, <2>3
<1>2. ASSUME NEW i \in D PROVE Best({i}, i)
    BY <1>2
<1> DEFINE A == D \cap {1}
           B == D \cap {1, 2}
<1>3. A # {} => \E i : Best(A, i)
    <2>1. ASSUME 1 \in D PROVE \E i : Best({1}, i)
        BY <1>2, <2>1
    <2>2. A # {} => A = {1} /\ 1 \in D
        OBVIOUS
    <2>3. QED
        BY <2>1, <2>2
<1> HIDE DEF Best
<1>4. B # {} => \E i : Best(B, i)
    <2>1. CASE 2 \notin D
        <3>1. B = A
            BY <2>1
        <3>2. QED
            BY <1>3, <3>1
    <2>2. CASE 2 \in D /\ A = {}
        <3>1. B = {2}
            BY <2>2
        <3>2. QED
            BY <1>2, <2>2, <3>1
    <2>3. CASE 2 \in D /\ A # {}
        <3>1. B = A \cup {2} /\ A \in SUBSET D /\ \A j \in A : j < 2
            BY <2>3
        <3>2. PICK i : Best(A, i)
            BY <1>3, <2>3
        <3>3. QED
            BY <1>1, <2>3, <3>1, <3>2
    <2>4. QED
        BY <2>1, <2>2, <2>3
<1>5. \E i : Best(D, i)
    <2>1. CASE 3 \notin D
        <3>1. B = D
            BY <2>1
        <3>2. QED
            BY <1>4, <3>1
    <2>2. CASE 3 \in D /\ B = {}
        <3>1. D = {3}
            BY <2>2
        <3>2. QED
            BY <1>2, <2>2, <3>1
    <2>3. CASE 3 \in D /\ B # {}
        <3>1. D = B \cup {3} /\ B \in SUBSET D /\ \A j \in B : j < 3
            <4>1. D = B \cup {3}
                BY <2>3
            <4>2. B \in SUBSET D
                OBVIOUS
            <4>3. \A j \in B : j < 3
                OBVIOUS
            <4>4. QED
                BY <4>1, <4>2, <4>3
        <3>2. PICK i : Best(B, i)
            BY <1>4, <2>3
        <3>3. QED
            BY <1>1, <2>3, <3>1, <3>2
    <2>4. QED
        BY <2>1, <2>2, <2>3
<1>6. QED
    BY <1>5 DEF Best

\* What sequences of one, put end to end, make.
LEMMA TwoInARow ==
    ASSUME NEW x, NEW y
    PROVE  <<x>> \o <<y>> = <<x, y>>
<1> DEFINE s == <<x>> \o <<y>>
<1>1. <<x>> \in Seq({x, y}) /\ <<y>> \in Seq({x, y}) /\ <<x, y>> \in Seq({x, y})
    OBVIOUS
<1>2. /\ s \in Seq({x, y}) /\ Len(s) = 1 + 1
      /\ \A i \in 1..(1 + 1) : s[i] = IF i <= 1 THEN <<x>>[i] ELSE <<y>>[i - 1]
    <2>1. Len(<<x>>) = 1 /\ Len(<<y>>) = 1
        OBVIOUS
    <2>2. /\ s \in Seq({x, y}) /\ Len(s) = Len(<<x>>) + Len(<<y>>)
          /\ \A i \in 1..(Len(<<x>>) + Len(<<y>>)) :
                s[i] = IF i <= Len(<<x>>) THEN <<x>>[i] ELSE <<y>>[i - Len(<<x>>)]
        BY <1>1, ConcatProperties, Zenon
    <2> HIDE DEF s
    <2>3. QED
        BY <2>1, <2>2, Zenon
<1> HIDE DEF s
<1>3. Len(s) = 2 /\ s[1] = x /\ s[2] = y
    BY <1>2
<1>4. Len(<<x, y>>) = 2 /\ \A i \in 1..2 : s[i] = <<x, y>>[i]
    BY <1>3
<1>5. s = <<x, y>>
    BY <1>1, <1>2, <1>3, <1>4, SeqEqual
<1>6. QED
    BY <1>5 DEF s

LEMMA ThreeInARow ==
    ASSUME NEW x, NEW y, NEW z
    PROVE  <<x>> \o <<y>> \o <<z>> = <<x, y, z>>
<1> DEFINE s == <<x, y>> \o <<z>>
           T == {x, y, z}
<1>1. <<x, y>> \in Seq(T) /\ <<z>> \in Seq(T) /\ <<x, y, z>> \in Seq(T)
    OBVIOUS
<1>2. /\ s \in Seq(T) /\ Len(s) = 2 + 1
      /\ \A i \in 1..(2 + 1) : s[i] = IF i <= 2 THEN <<x, y>>[i] ELSE <<z>>[i - 2]
    <2>1. Len(<<x, y>>) = 2 /\ Len(<<z>>) = 1
        OBVIOUS
    <2>2. /\ s \in Seq(T) /\ Len(s) = Len(<<x, y>>) + Len(<<z>>)
          /\ \A i \in 1..(Len(<<x, y>>) + Len(<<z>>)) :
                s[i] = IF i <= Len(<<x, y>>) THEN <<x, y>>[i] ELSE <<z>>[i - Len(<<x, y>>)]
        BY <1>1, ConcatProperties, Zenon
    <2> HIDE DEF s
    <2>3. QED
        BY <2>1, <2>2, Zenon
<1> HIDE DEF s
<1>3. Len(s) = 3 /\ s[1] = x /\ s[2] = y /\ s[3] = z
    BY <1>2
<1>4. Len(<<x, y, z>>) = 3 /\ \A i \in 1..3 : s[i] = <<x, y, z>>[i]
    BY <1>3
<1>5. s = <<x, y, z>>
    BY <1>1, <1>2, <1>3, <1>4, SeqEqual
<1>6. QED
    BY <1>5, TwoInARow, Zenon DEF s

LEMMA NoneInARow ==
    ASSUME NEW x
    PROVE  <<x>> \o <<>> = <<x>>
OBVIOUS

\* The plate's stamps: the flood, the first picture of a prune, if there is one, and the clear.
LEMMA StampsAre ==
    ASSUME TapeInv, HasBeats
    PROVE  LET first == FirstOf({i \in Snapshots : tape[i].pruned # {}})
               pruned == {i \in Snapshots : tape[i].pruned # {}} # {}
           IN  /\ DOMAIN Stamps = 1..(IF pruned THEN 3 ELSE 2)
               /\ \A i \in DOMAIN Stamps : Stamps[i].at \in Nat /\ Stamps[i].text \in {"flood", "pruned", "cleared"}
               /\ Stamps[1].at = FirstOf(Happened("FaultInjected")).at
               /\ pruned => Stamps[2].at = first.time
               /\ \A i \in DOMAIN Stamps : i # 1 => Stamps[i].text \in {"pruned", "cleared"}
<1> DEFINE S == {i \in Snapshots : tape[i].pruned # {}}
<1>1. PICK a, b, c : a = FirstOf(Happened("FaultInjected")).at /\ b = FirstOf(S).time /\ c = ClearedAt
    OBVIOUS
<1>2. a \in Nat
    <2>1. Happened("FaultInjected") # {} /\ Happened("FaultInjected") \in SUBSET (1..Len(tape)) /\ Len(tape) \in Nat
        BY LinesAre DEF HasBeats
    <2>2. Min(Happened("FaultInjected")) \in Happened("FaultInjected")
        BY <2>1, FirstAndLast
    <2>3. QED
        BY <1>1, <2>2, LinesAre DEF FirstOf
<1>3. S # {} => b \in Nat
    <2>1. S \in SUBSET (1..Len(tape)) /\ Len(tape) \in Nat
        BY LinesAre
    <2>2. S # {} => Min(S) \in S
        BY <2>1, FirstAndLast
    <2>3. QED
        BY <1>1, <2>2, LinesAre DEF FirstOf
<1>4. c \in Nat
    BY <1>1, ClearIs
<1>5. PICK x, y, z : /\ x = [at |-> a, text |-> "flood"] /\ y = [at |-> b, text |-> "pruned"]
                     /\ z = [at |-> c, text |-> "cleared"]
    OBVIOUS
<1>6. Stamps = <<x>> \o (IF S = {} THEN <<>> ELSE <<y>>) \o <<z>>
    BY <1>1, <1>5 DEF Stamps
<1> HIDE DEF S
<1>7. CASE S = {}
    <2>1. Stamps = <<x, z>>
        <3>1. Stamps = <<x>> \o <<>> \o <<z>>
            BY <1>6, <1>7, Zenon
        <3>2. <<x>> \o <<>> \o <<z>> = <<x, z>>
            BY NoneInARow, TwoInARow, Zenon
        <3>3. QED
            BY <3>1, <3>2, Zenon
    <2>2. DOMAIN Stamps = 1..2 /\ Stamps[1] = x /\ Stamps[2] = z /\ \A i \in 1..2 : i = 1 \/ i = 2
        BY <2>1
    <2>3. QED
        BY <1>1, <1>2, <1>4, <1>5, <1>7, <2>2 DEF S
<1>8. CASE S # {}
    <2>1. Stamps = <<x, y, z>>
        <3>1. Stamps = <<x>> \o <<y>> \o <<z>>
            BY <1>6, <1>8, Zenon
        <3>2. <<x>> \o <<y>> \o <<z>> = <<x, y, z>>
            BY ThreeInARow, Zenon
        <3>3. QED
            BY <3>1, <3>2, Zenon
    <2>2. /\ DOMAIN Stamps = 1..3 /\ Stamps[1] = x /\ Stamps[2] = y /\ Stamps[3] = z
          /\ \A i \in 1..3 : i = 1 \/ i = 2 \/ i = 3
        BY <2>1
    <2>3. QED
        BY <1>1, <1>2, <1>3, <1>4, <1>5, <1>8, <2>2 DEF S
<1>9. QED
    BY <1>7, <1>8

\* When sybils are on a frame of the plate their injection is stamped, when pruned ones are, the prune.
LEMMA PlatesAgree == TapeInv => PlateTells
<1> SUFFICES ASSUME TapeInv, HasBeats, NEW t \in PlateTimes, PlateFrame(t).snap.time <= t
             PROVE  /\ Sybils \cap DOMAIN PlateFrame(t).snap.nodes # {} => PlateFrame(t).stamp # None
                    /\ PlateFrame(t).snap.pruned # {} => PlateFrame(t).stamp \in {"pruned", "cleared"}
    BY DEF PlateTells
<1> DEFINE S == {i \in Snapshots : tape[i].pruned # {}}
<1>1. t \in Nat /\ STEP \in Nat
    BY RecordingAssumption DEF PlateTimes
<1>2. PICK due, f : due = {i \in DOMAIN Stamps : 2 * Stamps[i].at <= 2 * t + STEP} /\ f = PlateFrame(t)
    OBVIOUS
<1>3. f.snap = SnapshotAt(t) /\ f.stamp = IF due = {} THEN None ELSE StampOf(due)
    BY <1>2 DEF PlateFrame
<1>4. PICK s \in Snapshots : SnapshotAt(t) = tape[s]
    BY <1>1, SnapshotAtIs DEF HasBeats
<1>5. tape[s].time \in Nat /\ tape[s].time <= t
    BY <1>2, <1>3, <1>4, LinesAre
<1>6. /\ DOMAIN Stamps = 1..(IF S # {} THEN 3 ELSE 2)
      /\ \A i \in DOMAIN Stamps : Stamps[i].at \in Nat /\ Stamps[i].text \in {"flood", "pruned", "cleared"}
      /\ Stamps[1].at = FirstOf(Happened("FaultInjected")).at
      /\ S # {} => Stamps[2].at = FirstOf(S).time
      /\ \A i \in DOMAIN Stamps : i # 1 => Stamps[i].text \in {"pruned", "cleared"}
    BY StampsAre
<1> HIDE DEF S
<1>7. ASSUME NEW i \in DOMAIN Stamps, Stamps[i].at <= t PROVE i \in due
    <2>1. PICK at : at = Stamps[i].at
        OBVIOUS
    <2>2. at \in Nat /\ at <= t
        BY <1>6, <1>7, <2>1
    <2>3. 2 * at <= 2 * t + STEP
        BY <1>1, <2>2
    <2>4. QED
        BY <1>2, <1>7, <2>1, <2>3
<1>8. ASSUME due # {}
      PROVE  \E i \in due : /\ f.stamp = Stamps[i].text
                            /\ \A j \in due : Stamps[j].at < Stamps[i].at \/ (Stamps[j].at = Stamps[i].at /\ j <= i)
    <2>1. PICK at : at = [i \in DOMAIN Stamps |-> Stamps[i].at]
        OBVIOUS
    <2>2. due \in SUBSET {1, 2, 3} /\ \A i \in due : i \in DOMAIN Stamps /\ at[i] = Stamps[i].at /\ at[i] \in Nat
        <3>1. \A i \in due : i \in DOMAIN Stamps /\ i \in {1, 2, 3}
            BY <1>2, <1>6
        <3>2. QED
            BY <1>6, <2>1, <3>1
    <2>3. \E i \in due : \A j \in due : at[j] < at[i] \/ (at[j] = at[i] /\ j <= i)
        BY <1>8, <2>2, LastStamp
    <2>4. \E i \in due : \A j \in due : Stamps[j].at < Stamps[i].at \/ (Stamps[j].at = Stamps[i].at /\ j <= i)
        BY <2>2, <2>3
    <2>5. PICK last : last = CHOOSE i \in due :
                         \A j \in due : Stamps[j].at < Stamps[i].at \/ (Stamps[j].at = Stamps[i].at /\ j <= i)
        OBVIOUS
    <2>6. last \in due /\ \A j \in due : Stamps[j].at < Stamps[last].at \/ (Stamps[j].at = Stamps[last].at /\ j <= last)
        BY <2>4, <2>5, Zenon
    <2>7. StampOf(due) = Stamps[last].text
        BY <2>5, Zenon DEF StampOf
    <2>8. QED
        BY <1>3, <1>8, <2>6, <2>7
<1>9. ASSUME NEW i \in Snapshots, \E x \in Emitted(tape, bus) : Marks(x, "injected") /\ x.at <= tape[i].time
      PROVE  Stamps[1].at <= tape[i].time
    BY <1>6, <1>9, AttackIsOnTape DEF HasBeats
<1>10. ASSUME Sybils \cap DOMAIN f.snap.nodes # {} PROVE f.stamp # None
    <2>1. \E x \in Emitted(tape, bus) : Marks(x, "injected") /\ x.at <= tape[s].time
        BY <1>3, <1>4, <1>10, AttackIsOnTape DEF ShowsAttack
    <2>2. Stamps[1].at <= tape[s].time /\ 1 \in DOMAIN Stamps
        BY <1>6, <1>9, <2>1
    <2>3. Stamps[1].at <= t
        <3>1. Stamps[1].at \in Nat
            BY <1>6, <2>2
        <3>2. QED
            BY <1>1, <1>5, <2>2, <3>1
    <2>4. 1 \in due
        BY <1>7, <2>2, <2>3
    <2>5. PICK i \in due : f.stamp = Stamps[i].text
        BY <1>8, <2>4
    <2>6. Stamps[i].text \in {"flood", "pruned", "cleared"}
        BY <1>2, <1>6
    <2>7. QED
        BY <2>5, <2>6, RecordingAssumption
<1>11. ASSUME f.snap.pruned # {} PROVE f.stamp \in {"pruned", "cleared"}
    <2>1. s \in S
        BY <1>3, <1>4, <1>11 DEF S
    <2>2. PICK p : p = Min(S)
        OBVIOUS
    <2>3. p \in S /\ p <= s
        <3>1. S \in SUBSET (1..Len(tape)) /\ Len(tape) \in Nat
            BY LinesAre DEF S
        <3>2. QED
            BY <2>1, <2>2, <3>1, FirstAndLast
    <2>4. p \in Snapshots /\ tape[p].pruned # {} /\ tape[p].time \in Nat /\ tape[p].time <= tape[s].time
        BY <2>3, SnapshotsGoUp, LinesAre DEF S
    <2>5. Stamps[2].at = tape[p].time /\ 2 \in DOMAIN Stamps /\ 1 \in DOMAIN Stamps
        BY <1>6, <2>1, <2>2 DEF FirstOf
    <2>6. 2 \in due
        BY <1>1, <1>5, <1>7, <2>4, <2>5
    <2>7. Stamps[1].at <= tape[p].time
        BY <1>9, <2>4, AttackIsOnTape DEF ShowsAttack
    <2>8. PICK i \in due : /\ f.stamp = Stamps[i].text
                           /\ \A j \in due : Stamps[j].at < Stamps[i].at \/ (Stamps[j].at = Stamps[i].at /\ j <= i)
        BY <1>8, <2>6
    <2>9. i # 1
        <3>1. Stamps[1].at \in Nat /\ Stamps[2].at \in Nat /\ Stamps[1].at <= Stamps[2].at
            BY <1>6, <2>5, <2>7
        <3>2. ~(Stamps[2].at < Stamps[1].at)
            BY <3>1
        <3>3. QED
            BY <2>6, <2>8, <3>2
    <2>10. QED
        BY <1>2, <1>6, <2>8, <2>9
<1>12. QED
    BY <1>2, <1>10, <1>11

\* The two phases, and the beats that stand for them.
LEMMA PhasesAre ==
    /\ \A p \in Phases : /\ p.at \in Nat /\ p.at <= END /\ p.label \in {"inject", "clear"} /\ DueAt(p.label) = p.at
                         /\ p.injects => p.at = INJECT
    /\ \A p, q \in Phases : p.label = q.label => p = q
BY BoundsAre DEF Phases, DueAt

\* A phase's beat is near to when it was due.
LEMMA PhaseBeatIsNear ==
    ASSUME TapeInv, NEW p \in Phases, NEW k \in 1..Len(PlayerOf(tape).beats),
           PlayerOf(tape).beats[k].kind = "phase", PlayerOf(tape).beats[k].label = p.label
    PROVE  Near(PlayerOf(tape).beats[k], p)
<1>1. PICK b : b = PlayerOf(tape).beats[k]
    OBVIOUS
<1>2. PICK i \in 1..Len(tape) : Marks(tape[i], p.label) /\ tape[i].at = b.time
    BY <1>1 DEF TapeInv, TapeOk, PlayedTape, PlayedBeats
<1>3. p.label \in Milestones /\ DueAt(p.label) = p.at /\ p.at \in Nat
    BY PhasesAre DEF Milestones
<1>4. tape[i] \in Emitted(tape, bus)
    BY DEF Emitted
<1>5. tape[i].at \in DueAt(p.label)..(DueAt(p.label) + LATE)
    BY <1>2, <1>3, <1>4 DEF TapeInv, TapeOk, OnTape, PassedOnce
<1>6. LATE \in Nat /\ SLACK \in Nat /\ LATE < SLACK
    BY RecordingAssumption
<1>7. b.time \in p.at..(p.at + LATE)
    BY <1>2, <1>3, <1>5
<1>8. b.time - p.at < SLACK /\ p.at - b.time < SLACK
    BY <1>3, <1>6, <1>7
<1>9. QED
    BY <1>1, <1>8 DEF Near

\* A phase has its own mark, its beat or what stands for it, within the slack.
LEMMA AllMarksAgree == TapeInv => MarksAgree(PlayerOf(tape))
<1> SUFFICES ASSUME TapeInv PROVE MarksAgree(PlayerOf(tape))
    OBVIOUS
<1>1. PICK s : s = PlayerOf(tape)
    OBVIOUS
<1>2. /\ Watches(s) /\ PlayedClock(s, tape, bus, run) /\ PlayedFaults(s, tape) /\ PlayedBeats(s, tape, run)
      /\ run \in TapeRuns
    BY <1>1 DEF TapeInv, TapeOk, PlayedTape, OnTape, TapeTypes
<1>3. DOMAIN s.beats = 1..Len(s.beats) /\ \A k \in 1..Len(s.beats) : s.beats[k].time \in Nat
    <2>1. s.beats \in Seq(TapeBeats)
        BY <1>2 DEF Watches
    <2>2. \A k \in 1..Len(s.beats) : s.beats[k] \in TapeBeats
        BY <2>1
    <2>3. DOMAIN s.beats = 1..Len(s.beats)
        BY <2>1
    <2>4. \A x \in TapeBeats : x.time \in Nat
        BY DEF TapeBeats
    <2>5. QED
        BY <2>2, <2>3, <2>4
<1>4. PICK ahead : ahead = {p \in Phases : \A i \in DOMAIN s.beats : ~Near(s.beats[i], p)}
    OBVIOUS
<1>5. PICK ticks : ticks = Track(s.beats).ticks
    OBVIOUS
<1>6. ticks = {m \in {[mark |-> s.beats[i], from |-> i] : i \in DOMAIN s.beats}
                     \cup {[mark |-> App!Beat("phase", p.label, p.at), from |-> 0] : p \in ahead} :
                  m.mark.time <= END}
    BY <1>4, <1>5 DEF Track, Ticks
<1>7. ASSUME NEW p \in Phases, NEW m \in ticks, m.mark.kind = "phase", m.mark.label = p.label
      PROVE  \/ \E k \in 1..Len(s.beats) : m = [mark |-> s.beats[k], from |-> k] /\ Near(s.beats[k], p)
                                           /\ s.beats[k].kind = "phase" /\ s.beats[k].label = p.label
             \/ p \in ahead /\ m = [mark |-> App!Beat("phase", p.label, p.at), from |-> 0]
    <2>1. CASE \E k \in DOMAIN s.beats : m = [mark |-> s.beats[k], from |-> k]
        <3>1. PICK k \in 1..Len(s.beats) : m = [mark |-> s.beats[k], from |-> k]
            BY <1>3, <2>1
        <3>2. s.beats[k].kind = "phase" /\ s.beats[k].label = p.label
            BY <1>7, <3>1
        <3>3. Near(s.beats[k], p)
            BY <1>1, <3>2, PhaseBeatIsNear
        <3>4. QED
            BY <3>1, <3>2, <3>3
    <2>2. CASE \E q \in ahead : m = [mark |-> App!Beat("phase", q.label, q.at), from |-> 0]
        <3>1. PICK q \in ahead : m = [mark |-> App!Beat("phase", q.label, q.at), from |-> 0]
            BY <2>2
        <3>2. m.mark.label = q.label
            BY <3>1 DEF App!Beat
        <3>3. q = p
            BY <1>4, <1>7, <3>2, PhasesAre
        <3>4. QED
            BY <3>1, <3>3
    <2>3. QED
        BY <1>6, <2>1, <2>2
<1>8. ASSUME NEW p \in Phases, NEW m \in ticks, NEW n \in ticks, m.mark.kind = "phase", m.mark.label = p.label,
             n.mark.kind = "phase", n.mark.label = p.label
      PROVE  m = n
    <2>1. ASSUME NEW k \in 1..Len(s.beats), NEW j \in 1..Len(s.beats),
                 s.beats[k].kind = "phase", s.beats[j].kind = "phase", s.beats[k].label = s.beats[j].label
          PROVE  k = j
        BY <1>2, <2>1 DEF PlayedBeats
    <2>2. p \in ahead => \A k \in 1..Len(s.beats) : ~Near(s.beats[k], p)
        BY <1>3, <1>4
    <2>3. /\ \/ \E k \in 1..Len(s.beats) : m = [mark |-> s.beats[k], from |-> k] /\ Near(s.beats[k], p)
                                           /\ s.beats[k].kind = "phase" /\ s.beats[k].label = p.label
             \/ p \in ahead /\ m = [mark |-> App!Beat("phase", p.label, p.at), from |-> 0]
          /\ \/ \E k \in 1..Len(s.beats) : n = [mark |-> s.beats[k], from |-> k] /\ Near(s.beats[k], p)
                                           /\ s.beats[k].kind = "phase" /\ s.beats[k].label = p.label
             \/ p \in ahead /\ n = [mark |-> App!Beat("phase", p.label, p.at), from |-> 0]
        BY <1>7, <1>8
    <2>4. CASE p \in ahead
        BY <2>2, <2>3, <2>4
    <2>5. CASE p \notin ahead
        <3>1. PICK k \in 1..Len(s.beats) : m = [mark |-> s.beats[k], from |-> k]
                                           /\ s.beats[k].kind = "phase" /\ s.beats[k].label = p.label
            BY <2>3, <2>5
        <3>2. PICK j \in 1..Len(s.beats) : n = [mark |-> s.beats[j], from |-> j]
                                           /\ s.beats[j].kind = "phase" /\ s.beats[j].label = p.label
            BY <2>3, <2>5
        <3>3. k = j
            BY <2>1, <3>1, <3>2
        <3>4. QED
            BY <3>1, <3>2, <3>3
    <2>6. QED
        BY <2>4, <2>5
<1>9. ASSUME NEW p \in Phases PROVE \E m \in ticks : Near(m.mark, p)
    <2>1. CASE p \in ahead
        <3>1. PICK b, m : b = App!Beat("phase", p.label, p.at) /\ m = [mark |-> b, from |-> 0]
            OBVIOUS
        <3>2. b.time = p.at /\ p.at \in Nat /\ p.at <= END /\ m.mark = b
            BY <3>1, PhasesAre DEF App!Beat
        <3>3. m \in ticks
            BY <1>6, <2>1, <3>1, <3>2
        <3>4. p.at - p.at < SLACK
            BY <3>2, RecordingAssumption
        <3>5. Near(b, p)
            BY <3>2, <3>4 DEF Near
        <3>6. QED
            BY <3>2, <3>3, <3>5
    <2>2. CASE p \notin ahead
        <3>1. PICK k \in 1..Len(s.beats) : Near(s.beats[k], p)
            BY <1>3, <1>4, <2>2
        <3>2. s.beats[k].time <= END
            <4>1. s.beats[k].time <= run.now /\ s.beats[k].time \in Nat
                BY <1>2, <1>3 DEF PlayedBeats
            <4>2. run.now \in 0..END
                BY <1>2 DEF TapeRuns
            <4>3. QED
                BY <4>1, <4>2, BoundsAre
        <3>3. PICK m : m = [mark |-> s.beats[k], from |-> k]
            OBVIOUS
        <3>4. m \in ticks /\ m.mark = s.beats[k]
            BY <1>3, <1>6, <3>2, <3>3
        <3>5. QED
            BY <3>1, <3>4
    <2>3. QED
        BY <2>1, <2>2
<1>10. ASSUME s.activeFaults > 0 PROVE s.simTime \in INJECT..(CLEAR + LATE)
    <2>1. PICK i \in 1..Len(tape) : Marks(tape[i], "injected")
        BY <1>2, <1>10 DEF PlayedFaults
    <2>2. tape[i] \in Emitted(tape, bus) /\ tape[i].type = "event" /\ DueAt("injected") = INJECT
        BY <2>1 DEF Emitted, Marks, DueAt
    <2>3. tape[i].at \in INJECT..(INJECT + LATE)
        BY <2>1, <2>2 DEF TapeInv, TapeOk, OnTape, PassedOnce, Milestones
    <2>4. tape[i].at <= s.simTime
        BY <1>2, <2>2 DEF PlayedClock, Timed, When
    <2>5. s.simTime \in Nat /\ s.simTime <= run.now /\ run.now \in Nat
        BY <1>2, BoundsAre DEF Watches, PlayedClock, TapeRuns
    <2>6. run.now <= CLEAR + LATE
        <3>1. HasHappened("injected", run)
            BY <2>1, <2>2 DEF TapeInv, TapeOk, OnTape, PassedOnce, Milestones
        <3>2. run.faults \in {"on", "off"}
            BY <1>2, <3>1 DEF HasHappened, TapeRuns
        <3>3. CASE run.faults = "on"
            BY <3>3 DEF TapeInv, TapeOk, OnTape, TapeTypes
        <3>4. CASE run.faults = "off"
            <4>1. HasHappened("cleared", run)
                BY <3>4 DEF HasHappened
            <4>2. PICK x \in Emitted(tape, bus) : Marks(x, "cleared")
                BY <4>1 DEF TapeInv, TapeOk, OnTape, PassedOnce, Milestones
            <4>3. \A k \in 1..Len(tape) : ~Marks(tape[k], "cleared")
                BY <1>2, <1>10 DEF PlayedFaults
            <4>4. PICK j \in 1..Len(bus) : x = bus[j]
                BY <4>2, <4>3 DEF Emitted
            <4>5. x.at = run.now
                BY <4>4 DEF TapeInv, TapeOk, OnTape, InOrderOfTime
            <4>6. x.at \in DueAt("cleared")..(DueAt("cleared") + LATE) /\ DueAt("cleared") = CLEAR
                BY <4>2 DEF TapeInv, TapeOk, OnTape, PassedOnce, Milestones, DueAt
            <4>7. QED
                BY <4>5, <4>6, BoundsAre
        <3>5. QED
            BY <3>2, <3>3, <3>4
    <2>7. QED
        BY <2>3, <2>4, <2>5, <2>6, BoundsAre
<1>11. \E b \in Bands : b.from = INJECT /\ b.to = CLEAR
    <2>1. PICK p : p = [at |-> INJECT, label |-> "inject", injects |-> TRUE]
        OBVIOUS
    <2>2. p \in Phases /\ p.injects /\ p.at = INJECT
        BY <2>1 DEF Phases
    <2>3. PICK clears : clears = {q.at : q \in {q \in Phases : ~q.injects /\ q.at > p.at}} \cup {END}
        OBVIOUS
    <2>4. CLEAR \in clears /\ \A x \in clears : x \in Nat /\ CLEAR <= x
        <3>1. PICK c : c = [at |-> CLEAR, label |-> "clear", injects |-> FALSE]
            OBVIOUS
        <3>2. c \in Phases /\ ~c.injects /\ c.at = CLEAR /\ \A q \in Phases : ~q.injects => q = c
            BY <3>1 DEF Phases
        <3>3. CLEAR > INJECT /\ CLEAR \in Nat /\ END \in Nat /\ CLEAR <= END
            BY BoundsAre
        <3>4. CLEAR \in clears
            BY <2>2, <2>3, <3>2, <3>3
        <3>5. ASSUME NEW x \in clears PROVE x \in Nat /\ CLEAR <= x
            BY <2>3, <3>2, <3>3
        <3>6. QED
            BY <3>4, <3>5
    <2>5. Min(clears) = CLEAR
        <3>1. clears \in SUBSET Nat /\ clears # {}
            BY <2>4
        <3>2. Min(clears) \in clears /\ Min(clears) <= CLEAR
            BY <2>4, <3>1, LeastIsMin
        <3>3. PICK m : m = Min(clears)
            OBVIOUS
        <3>4. m \in clears /\ m <= CLEAR
            BY <3>2, <3>3
        <3>5. m \in Nat /\ CLEAR <= m /\ CLEAR \in Nat
            BY <2>4, <3>4
        <3>6. m = CLEAR
            BY <3>4, <3>5
        <3>7. QED
            BY <3>3, <3>6
    <2>6. [from |-> p.at, to |-> Min(clears)] \in Bands
        BY <2>2, <2>3 DEF Bands
    <2>7. QED
        BY <2>2, <2>5, <2>6
<1>12. Track(s.beats).bands = Bands
    BY DEF Track
<1>13. ASSUME s.activeFaults > 0 PROVE \E b \in Bands : s.simTime \in b.from..(b.to + LATE)
    BY <1>10, <1>11, <1>13
<1>14. MarksAgree(s)
    BY <1>5, <1>8, <1>9, <1>12, <1>13 DEF MarksAgree
<1>15. QED
    BY <1>1, <1>14

\* All of them together.
LEMMA TapeTellsTheSame == TapeInv => ReadersAgree
<1>1. Played = PlayerOf(tape)
    BY DEF Played, PlayerOf
<1>2. QED
    BY <1>1, HealingsAgree, PartitionsAgree, CardsAgree, PlatesAgree, ScoresAgree, CuesAgree, AllMarksAgree
       DEF ReadersAgree
===============================================================================
