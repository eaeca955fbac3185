--------------------------------- MODULE Voice ---------------------------------
(* The demo's voiceover (demo/retime-vo.mjs).  A read of the script comes back   *)
(* with its pauses changed: it is cut at its silences, the segments are grouped  *)
(* into one run per line, and each run is placed on the film's clock.  The       *)
(* placed starts may be written back into script.json, which the music bed ducks *)
(* under (web/remotion/demo/timeline.ts).                                        *)
(*                                                                               *)
(* Times are whole units.  A run's cost is in the code a fraction; it is         *)
(* multiplied out here (by 2 * total words * speech * LCM).                      *)
EXTENDS Integers, Sequences, Null

CONSTANTS Words,      \* words of each line
          Authored,   \* the timecode of each line in the script
          Anchors,    \* lines that keep their timecode
          Reads,      \* the reads to be retimed: [silences, total]
          GAP,        \* pause kept between two lines
          VO_MAX,     \* the longest the bed stays down under a line
          Outro,      \* from here on the bed swells whatever is said
          LCM         \* a common multiple of the words of a line

Lines == DOMAIN Words

ASSUME VoiceAssumption ==
    /\ Words \in Seq(Nat \ {0}) /\ Words # <<>>
    /\ LCM \in Nat /\ \A i \in Lines : LCM % Words[i] = 0
    /\ Anchors \subseteq Lines \ {1}
    \* Of two anchors in a row the first would be moved.
    /\ \A i \in Anchors : i + 1 \notin Anchors
    /\ Authored \in [Lines -> Nat] /\ GAP \in Nat /\ VO_MAX \in Nat
    /\ \A read \in Reads : read.silences \in Seq([from : Nat, to : Nat]) /\ read.total \in Nat

VARIABLES script,   \* the timecodes in script.json
          voice,    \* None, or the last retiming: [script, segs, cuts, at, late]
          moved     \* history: anchors that were written back elsewhere, with the warning

voiceVars == <<script, voice, moved>>

VoiceInit == script = Authored /\ voice = None /\ moved = {}

Latest(a, b) == IF a < b THEN b ELSE a

\* The sum of the first n values.
Total(f, n) ==
    LET sum[i \in 0..n] == IF i = 0 THEN 0 ELSE sum[i - 1] + f[i] IN sum[n]

-------------------------------------------------------------------------------
\* Speech is what lies before, between and after the silences.
Speech(read) ==
    LET sil == read.silences
        Talk(i) == [from |-> IF i = 1 THEN 0 ELSE sil[i - 1].to,
                    to   |-> IF i \in DOMAIN sil THEN sil[i].from ELSE read.total]
        segs[i \in 0..(Len(sil) + 1)] ==
            IF i = 0 THEN <<>>
            ELSE IF Talk(i).from < Talk(i).to THEN Append(segs[i - 1], Talk(i)) ELSE segs[i - 1]
    IN  segs[Len(sil) + 1]

Length(s) == s.to - s.from

\* Segments k+1..i as one run.
Run(segs, k, i) == [from |-> segs[k + 1].from, to |-> segs[i].to]

GapBefore(segs, k) == IF k = 0 THEN 0 ELSE segs[k + 1].from - segs[k].to

Spoken(segs) == Total([s \in DOMAIN segs |-> Length(segs[s])], Len(segs))

\* What it costs to read line j from segments k+1..i: the error in its length against its share
\* of the words, less a bonus for starting after a long pause.
Cost(segs, spoken, j, k, i) ==
    LET words == Total(Words, Len(Words))
        error == Length(Run(segs, k, i)) * words - Words[j] * spoken
    IN  2 * (LCM \div Words[j]) * error * error - 3 * LCM * words * spoken * GapBefore(segs, k)

\* The cheapest of some readings of the first j lines, at the earliest cut before the last of them.
CheapestOf(readings, j) ==
    CHOOSE r \in readings : \A q \in readings :
        r.cost < q.cost \/ (r.cost = q.cost /\ r.cuts[j] <= q.cuts[j])

\* From the cheapest readings of j - 1 lines from the first k segments, for each k, those of j lines
\* from the first i.
NextLine(segs, j, best) ==
    LET Firsts(i) == IF j = 1 THEN {0} ELSE (j - 1)..(i - 1)
        After(k, i) == [cost |-> best[k].cost + Cost(segs, Spoken(segs), j, k, i), cuts |-> Append(best[k].cuts, i)]
    IN  [i \in j..Len(segs) |-> CheapestOf({After(k, i) : k \in Firsts(i)}, j)]

\* The dynamic program: line l is read from the segments after cuts[l] up to cuts[l + 1].
Cheapest(segs) ==
    LET best[j \in 0..Len(Words)] ==
            IF j = 0 THEN [i \in {0} |-> [cost |-> 0, cuts |-> <<0>>]] ELSE NextLine(segs, j, best[j - 1])
    IN  best[Len(Words)][Len(segs)].cuts

Runs(segs, cuts) == [j \in Lines |-> Run(segs, cuts[j], cuts[j + 1])]

-------------------------------------------------------------------------------
\* Slip: a line may start the moment the one before it ends.
EndsWithoutGap(at, length) == at + length

\* The earliest the next line may start.
Ends(at, length) == at + length + GAP

\* Line i, which may start from `free` on: on its timecode or later; a line before an anchor is pulled
\* early enough to clear it, if it can be.
PlacedAfter(times, runs, i, free) ==
    LET start == Latest(times[i], free)
    IN  IF i + 1 \in Anchors /\ Ends(start, Length(runs[i])) > times[i + 1]
        THEN Latest(free, times[i + 1] - GAP - Length(runs[i])) ELSE start

\* The lines are placed forward.
Placed(times, runs) ==
    LET at[i \in Lines] == PlacedAfter(times, runs, i, IF i = 1 THEN 0 ELSE Ends(at[i - 1], Length(runs[i - 1])))
    IN  at

\* The lines that cannot clear the anchor after them.
Warned(times, runs, at) ==
    {i \in Lines : i + 1 \in Anchors /\ Ends(at[i], Length(runs[i])) > times[i + 1]}

\* A read with too few segments is refused.  The placed starts are written back or not.
Retime(read, write) ==
    LET segs == Speech(read)
        cuts == Cheapest(segs)
        runs == Runs(segs, cuts)
        at   == Placed(script, runs)
        late == {i + 1 : i \in Warned(script, runs, at)}
    IN  /\ Len(segs) >= Len(Words)
        /\ voice' = [script |-> script, segs |-> segs, cuts |-> cuts, at |-> at, late |-> late]
        /\ script' = IF write THEN at ELSE script
        /\ moved' = IF write THEN moved \cup late ELSE moved

VoiceNext == \E read \in Reads, write \in BOOLEAN : Retime(read, write)

-------------------------------------------------------------------------------
\* The bed's windows, from the script: from a line's start to the next one's, VO_MAX at most.
Window(i) ==
    LET most == script[i] + VO_MAX
    IN  [from |-> script[i],
         to   |-> IF i + 1 \in Lines /\ script[i + 1] < most THEN script[i + 1] ELSE most]

\* The bed is all the way down at time t (its ramps lie outside the windows).
Ducks(t) == t < Outro /\ \E i \in Lines : t \in Window(i).from..Window(i).to

\* All ways to read the lines from the segments, for comparison.
Groupings(segs) ==
    {cuts \in [1..(Len(Words) + 1) -> 0..Len(segs)] :
        /\ cuts[1] = 0 /\ cuts[Len(Words) + 1] = Len(segs)
        /\ \A j \in Lines : cuts[j] < cuts[j + 1]}

Price(segs, cuts) ==
    Total([j \in Lines |-> Cost(segs, Spoken(segs), j, cuts[j], cuts[j + 1])], Len(Words))

BestCut ==
    /\ voice.cuts \in Groupings(voice.segs)
    /\ \A cuts \in Groupings(voice.segs) : Price(voice.segs, voice.cuts) <= Price(voice.segs, cuts)

\* However often reads are retimed and written back: every read is cut the cheapest way there is;
\* no line starts before the one before it and its pause are over, nor before its timecode but to
\* clear an anchor; an anchor is where the script first had it unless a warning said that it would
\* not be; and what was written back keeps the bed down while a line is read (retime-vo.mjs:6-12).
VoiceFits ==
    voice # None =>
        LET at == voice.at
            End(i) == at[i] + Length(Runs(voice.segs, voice.cuts)[i])
        IN  /\ BestCut
            /\ \A i \in Lines : i + 1 \in Lines => End(i) + GAP <= at[i + 1]
            /\ \A i \in Lines : at[i] >= voice.script[i] \/ i + 1 \in Anchors
            /\ \A i \in Anchors : at[i] = Authored[i] \/ i \in voice.late \cup moved
            /\ script = at =>
                   \A i \in Lines : \A t \in at[i]..End(i) :
                       t < Outro /\ t <= at[i] + VO_MAX => Ducks(t)
===============================================================================
