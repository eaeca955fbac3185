------------------------------- MODULE MCPanels -------------------------------
(* A small instance of the panels.                                              *)
EXTENDS Panels

\* Shots that are lengthened or shortened, trimmed or not, and one with another look.
TwoLooks ==
    [look : {"a"}, frames : {4, 6}, skip : {0, 1}, click : {1}]
    \cup {[look |-> "b", frames |-> 4, skip |-> 0, click |-> None]}

\* Three lines, the last one anchored.
ThreeLines == <<1, 2, 1>>
AtTheCuts == <<0, 4, 9>>
TheLast == {3}

\* A read that begins at first, and then talks and pauses in turn.
Read(first, pauses, talks) ==
    LET from[i \in DOMAIN talks] == IF i = 1 THEN first ELSE from[i - 1] + talks[i - 1] + pauses[i - 1]
    IN  [total |-> from[Len(talks)] + talks[Len(talks)],
         silences |-> (IF first > 0 THEN <<[from |-> 0, to |-> first]>> ELSE <<>>)
                      \o [i \in DOMAIN pauses |-> [from |-> from[i] + talks[i], to |-> from[i + 1]]]]

\* Reads of three and of four segments, and one of too few.
SomeReads ==
    {Read(f, <<1, 2>>, t) : f \in {0, 1}, t \in [1..3 -> {1, 4}]}
    \cup {Read(0, p, t \o <<2>>) : p \in {<<1, 1, 2>>, <<2, 1, 1>>}, t \in [1..3 -> {1, 3}]}
    \cup {Read(0, <<1>>, <<3, 3>>)}

\* Four sites, two of them at once.
FourSites == << [ms |-> 5, observers |-> 2], [ms |-> 6, observers |-> 1],
                [ms |-> 6, observers |-> 1], [ms |-> 8, observers |-> 3] >>

\* An opening card of a, a shot of b half frames with captions from c after its start on (the first of
\* them lands PRUNED), and an end card; sounds hit d half frames into their files.
Cut(a, b, c, d) ==
    [scenes   |-> << [at |-> 0, dur |-> a], [at |-> a, dur |-> b], [at |-> a + b, dur |-> 8] >>,
     captions |-> << [at |-> 2, until |-> a],
                     [at |-> a + c, until |-> a + c + 4], [at |-> a + c + 4, until |-> a + b],
                     [at |-> a + b + 1, until |-> a + b + 4], [at |-> a + b + 4, until |-> a + b + 8] >>,
     pruned   |-> a + c,
     hit      |-> d,
     cues     |-> <<a + c, a + b + 2>>]

SomeCuts == {Cut(a, b, c, d) : a \in {9, 10}, b \in {12, 13}, c \in {1, 4, 5}, d \in {0, 3}}

AnAct == [from |-> 10, offset |-> 1, frames |-> 6]
===============================================================================
