---------------------------- MODULE RunSequence ----------------------------
(***************************************************************************)
(* From a graph of a player's points to the sequence that run analysis     *)
(* works on: the three ways a graph comes in, alignment to the interval,   *)
(* interpolation and differences (sequence_util.cc, parser.cc).            *)
(***************************************************************************)
EXTENDS Integers, Sequences, SequencesExt

CONSTANTS
    Interval,   \* kInterval: the distance of two samples
    MaxGap,     \* kMaxSegmentGap: samples further apart are not connected
    FreedBlocks \* what a vector's old block may hold once it is freed: the
                \* samples at some positions are overwritten

ASSUME IntervalAssumption ==
    Interval \in Nat \ {0} /\ MaxGap \in Nat /\ MaxGap >= Interval

Snapshot(t, p) == [time |-> t, points |-> p, diff |-> 0]
Snapshots == [time : Int, points : Int, diff : Int]

ASSUME FreedAssumption ==
    \A freed \in FreedBlocks : \A k \in DOMAIN freed : freed[k] \in Snapshots
Kept == <<>>    \* nothing is overwritten

Abs(n) == IF n < 0 THEN -n ELSE n
Truncate(a, b) == IF (a < 0) = (b < 0) THEN Abs(a) \div Abs(b) ELSE -(Abs(a) \div Abs(b))

(***************************************************************************)
(* A graph is read by the sax parser (a stream of keys and numbers), from  *)
(* lines of a csv file, or is part of a request.  Failed marks an error.   *)
(***************************************************************************)
Failed == [ok |-> FALSE, timestamps |-> <<>>, points |-> <<>>]
Graph(ts, ps) == [ok |-> TRUE, timestamps |-> ts, points |-> ps]

\* A number goes to the list that the current key names; the end of an object
\* clears the key; anything else the format does not expect is an error.
ParseRunDataV2(tokens) ==
    LET Read(st, tok) ==
          IF ~st.graph.ok THEN st
          ELSE CASE tok.kind = "key" -> [st EXCEPT !.key = tok.value]
                 [] tok.kind = "end_object" -> [st EXCEPT !.key = ""]
                 [] tok.kind = "number" /\ st.key = "x" ->
                      [st EXCEPT !.graph.timestamps = Append(@, tok.value)]
                 [] tok.kind = "number" /\ st.key = "y" ->
                      [st EXCEPT !.graph.points = Append(@, tok.value)]
                 [] OTHER -> [st EXCEPT !.graph = Failed]
    IN FoldLeft(Read, [key |-> "", graph |-> Graph(<<>>, <<>>)], tokens).graph

\* Lines without two fields and the header are skipped.
ParseRunDataCsv(rows) ==
    LET Read(g, row) ==
          IF ~g.ok THEN g
          ELSE CASE row.kind \in {"header", "short"} -> g
                 [] row.kind = "sample" ->
                      Graph(Append(g.timestamps, row.time), Append(g.points, row.points))
                 [] OTHER -> Failed
    IN FoldLeft(Read, Graph(<<>>, <<>>), rows)

ReadGraph(input) ==
    CASE input.source = "v2" -> ParseRunDataV2(input.tokens)
      [] input.source = "csv" -> ParseRunDataCsv(input.rows)
      [] input.source = "request" -> Graph(input.timestamps, input.points)

ValidGraph(g) == g.ok /\ Len(g.timestamps) = Len(g.points) /\ g.timestamps # <<>>

\* Times are relative to the first timestamp.
CreateSequence(g) ==
    [k \in 1..Len(g.timestamps) |-> Snapshot(g.timestamps[k] - g.timestamps[1], g.points[k])]

-----------------------------------------------------------------------------
\* The quotient is cut to tenths before it is rounded, half away from zero.
Intervals(t) == IF t < 0 THEN -(((-t * 10) \div Interval + 5) \div 10)
                         ELSE ((t * 10) \div Interval + 5) \div 10

\* Of samples that fall on one interval the first is kept.
AlignSample(acc, pt) ==
    LET t == Intervals(pt.time) * Interval
    IN IF acc # <<>> /\ Last(acc).time = t THEN acc ELSE Append(acc, Snapshot(t, pt.points))
AlignSequence(s) == FoldLeft(AlignSample, <<>>, s)

\* The samples between two, unless they are too far apart.  The code keeps a
\* reference to the first across the insertion of the others: once there is no
\* room and the vector grows, it reads what the freed block holds there.
Gap(a, b) == IF b.time - a.time > MaxGap THEN 1 ELSE Intervals(b.time - a.time)
Between(a, b, room, stale) ==
    LET step == Truncate(b.points - a.points, Gap(a, b))
        last(k) == IF k <= room + 1 THEN a ELSE stale
    IN [k \in 1..(Gap(a, b) - 1) |-> Snapshot(last(k).time + Interval * k, last(k).points + step * k)]

\* A vector made for n elements doubles whenever it is full.
Capacity(n, len) == FoldLeft(LAMBDA c, k : IF k > c THEN 2 * c ELSE c, n, [k \in 1..len |-> k])

InterpolateSample(acc, pt, s, freed) ==
    LET len == Len(acc)
        stale == IF len \in DOMAIN freed THEN freed[len] ELSE Last(acc)
    IN IF acc = <<>> THEN <<pt>>
       ELSE acc \o Between(Last(acc), pt, Capacity(Len(s), len) - len, stale) \o <<pt>>
InterpolateSequence(s, freed) ==
    FoldLeft(LAMBDA acc, pt : InterpolateSample(acc, pt, s, freed), <<>>, s)

ProcessSequence(s, freed) ==
    LET p == InterpolateSequence(AlignSequence(s), freed)
        Connected(k) == k > 1 /\ p[k].time - p[k - 1].time <= MaxGap
    IN [k \in 1..Len(p) |->
          IF Connected(k) THEN [p[k] EXCEPT !.diff = p[k].points - p[k - 1].points] ELSE p[k]]
=============================================================================
