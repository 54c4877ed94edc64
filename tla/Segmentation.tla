---------------------------- MODULE Segmentation ----------------------------
(***************************************************************************)
(* AnalyzeGraph: a graph of points is cut into runs of steady play and     *)
(* each run is analysed (segmentation.cc, analyze_graph_handler.cc).       *)
(*                                                                         *)
(* The detector reads the samples in order and keeps the run it is in.  A  *)
(* run ends at a gap between samples, at a step that is many times larger  *)
(* or smaller than the one before, or when too many of the last samples    *)
(* fit none of the run's clusters; then it goes back to where the change   *)
(* began and reads those samples again.                                    *)
(***************************************************************************)
EXTENDS SegmentAnalysis

CONSTANTS
    Inputs,             \* the graphs that requests carry
    Window,             \* kWindow
    MinSegmentLength,   \* kMinSegmentLength
    ChangeRatio,        \* 1 / kBreakpointThresholdHigh
    Width               \* of int, in bits

VARIABLES
    input,      \* the request
    stage,      \* how far the handler is
    seq,        \* the processed samples
    i,          \* the next sample to read
    run,        \* current_run_, the samples run.from .. run.to
    minLength,  \* min_segment_length_ of the detector
    outliers,   \* last_outliers_
    segments,   \* the runs found
    totals,     \* the durations of the answer
    analysed    \* the results for active segments

vars == <<input, stage, seq, i, run, minLength, outliers, segments, totals, analysed>>

kDetectionDelay == 2
kOutlierTrackingWindow == 6

ASSUME SegmentationAssumption ==
    /\ Window \in Nat \ {0}
    /\ MinSegmentLength \in Nat /\ MinSegmentLength >= 2
    /\ ChangeRatio \in Nat \ {0} /\ Width \in Nat \ {0}

ASSUME InputsAssumption ==
    \A g \in Inputs : /\ ReadGraph(g).timestamps \in Seq(Int)
                      /\ ReadGraph(g).points \in Seq(Int)

Stages == {"received", "detecting", "classifying", "answered", "invalid", "internal"}
Span(from, to) == [from |-> from, to |-> to]
Spans == [from : Int, to : Int]
Larger(a, b) == IF a > b THEN a ELSE b
Size(r) == r.to - r.from + 1
NoTotals == [observed |-> 0, uptime |-> 0, downtime |-> 0, auto |-> 0]

TypeOK ==
    /\ input \in Inputs
    /\ stage \in Stages
    /\ seq \in Seq(Snapshots)
    /\ i \in Nat \ {0} /\ run \in Spans /\ minLength \in Nat
    /\ outliers \in Seq(BOOLEAN)
    /\ segments \in Seq(Spans)
    /\ totals \in [observed : Int, uptime : Int, downtime : Int, auto : Int]

-----------------------------------------------------------------------------
Init ==
    /\ input \in Inputs
    /\ stage = "received"
    /\ seq = <<>> /\ i = 1 /\ run = Span(1, 0)
    /\ minLength = MinSegmentLength /\ outliers = <<>>
    /\ segments = <<>> /\ totals = NoTotals /\ analysed = <<>>

\* The product of two steps wraps around; a product of 0 says the steps
\* differ unless they are equal.
Wrapped(n) == ((n + 2^(Width - 1)) % 2^Width) - 2^(Width - 1)
Changed(a, b) ==
    IF Wrapped(a.diff * b.diff) = 0 THEN a.diff # b.diff
    ELSE \/ (a.diff < 0) # (b.diff < 0)
         \/ ChangeRatio * Abs(a.diff) < Abs(b.diff)
         \/ ChangeRatio * Abs(b.diff) < Abs(a.diff)

\* What AddPoint says of sample k after the run r.
VerdictOfTwo(r, min, k) ==
    IF Size(r) = 0 THEN "add"
    ELSE IF seq[k].time - seq[r.to].time > MaxGap THEN "gap"
    ELSE IF Changed(seq[r.to], seq[k]) THEN "change"
    ELSE IF Size(r) < min THEN "add" ELSE "track"
Verdict(r, min, k) ==
    IF Size(r) = 0 THEN "add"
    ELSE IF seq[k].time - seq[r.to].time > MaxGap THEN "gap"
    ELSE IF Size(r) >= 2 /\ Changed(seq[r.to], seq[k]) THEN "change"
    ELSE IF Size(r) < min THEN "add" ELSE "track"

\* A new detector that reads the samples from .. to at once; it must not
\* break again.
Restart(from, to) ==
    LET again == \E k \in from..to : Verdict(Span(from, k - 1), MinSegmentLength, k) # "add"
    IN /\ run' = Span(from, to)
       /\ minLength' = MinSegmentLength
       /\ outliers' = <<>>
       /\ stage' = IF again THEN "internal" ELSE stage
       /\ i' = to + 1

-----------------------------------------------------------------------------
\* CreateSequence, ProcessSequence and GetSmoothedDiffs, which pads a
\* sequence that is shorter than its window.
Samples(freed) == ProcessSequence(CreateSequence(ReadGraph(input)), freed)
Prepare ==
    \E freed \in FreedBlocks :
       /\ stage = "received"
       /\ IF ValidGraph(ReadGraph(input)) /\ Len(Samples(freed)) >= Window
          THEN stage' = "detecting" /\ seq' = Samples(freed)
          ELSE stage' = "invalid" /\ UNCHANGED seq
       /\ UNCHANGED <<input, i, run, minLength, outliers, segments, totals, analysed>>

Reading(verdict) ==
    /\ stage = "detecting" /\ i <= Len(seq)
    /\ Verdict(run, minLength, i) = verdict
    /\ UNCHANGED <<input, seq, totals, analysed>>

Grow ==
    /\ Reading("add")
    /\ run' = [run EXCEPT !.to = i]
    /\ i' = i + 1
    /\ UNCHANGED <<stage, minLength, outliers, segments>>

\* The next run starts at the sample after the gap.
BreakAtGap ==
    /\ Reading("gap")
    /\ segments' = Append(segments, run)
    /\ Restart(i, i)

\* The next run starts where this one ended.
BreakAtChangeAfter ==
    /\ Reading("change")
    /\ segments' = Append(segments, run)
    /\ Restart(i, i)
BreakAtChange ==
    /\ Reading("change")
    /\ segments' = Append(segments, run)
    /\ Restart(i - 1, i)

OutlierRun(s) == LET steady == {k \in DOMAIN s : ~s[k]}
                 IN IF steady = {} THEN Len(s) ELSE Len(s) - (CHOOSE k \in steady : \A j \in steady : j <= k)
MayBreak(s) ==
    /\ Last(s)
    /\ \/ OutlierRun(s) > kDetectionDelay
       \/ 10 * Cardinality({k \in DOMAIN s : s[k]}) > 4 * Len(s)

LastOutliers(s) == IF Len(s) > kOutlierTrackingWindow THEN Tail(s) ELSE s

\* Whether a sample is an outlier of the clusters, and whether the decayed
\* score of the outliers reaches the threshold, is left open.
Track ==
    /\ Reading("track")
    /\ run' = [run EXCEPT !.to = i]
    /\ \E outlier \in BOOLEAN : outliers' = LastOutliers(Append(outliers, outlier))
    /\ i' = i + 1
    /\ UNCHANGED <<stage, minLength, segments>>

\* "Roll back time by detection delay and start over."  The loop adds one to
\* the index after it; a detector that may not break within the delay.
ResumeAtOneLater(k) == k - kDetectionDelay + 1
ResumeAt(k) == k - (kDetectionDelay + 1) + 1
AnyLength == MinSegmentLength
DelayedLength == Larger(MinSegmentLength, kDetectionDelay + 1)

\* The sample is an outlier too many: the segment ends before the last two
\* samples, and a detector that may not break at once reads from there.
BreakAtShift ==
    /\ Reading("track")
    /\ MayBreak(LastOutliers(Append(outliers, TRUE)))
    /\ LET to == i - kDetectionDelay
       IN IF Size(run) + 1 < kDetectionDelay
          THEN stage' = "internal" /\ UNCHANGED <<run, minLength, outliers, segments, i>>
          ELSE /\ segments' = Append(segments, [run EXCEPT !.to = to])
               /\ run' = Span(ResumeAt(i), ResumeAt(i) - 1)
               /\ i' = ResumeAt(i)
               /\ minLength' = DelayedLength
               /\ outliers' = <<>>
               /\ UNCHANGED stage

FinishDetection ==
    /\ stage = "detecting" /\ i > Len(seq)
    /\ segments' = Append(segments, run)
    /\ stage' = "classifying"
    /\ i' = 1
    /\ UNCHANGED <<input, seq, run, minLength, outliers, totals, analysed>>

-----------------------------------------------------------------------------
Duration(r) == IF Size(r) = 0 THEN 0 ELSE seq[r.to].time - seq[r.from].time
Points(r) == IF Size(r) = 0 THEN 0 ELSE seq[r.to].points - seq[r.from].points

\* The durations with one more segment.
Counted(d, active, auto) ==
    [observed |-> totals.observed + d,
     uptime   |-> IF active THEN totals.uptime + d ELSE totals.uptime,
     downtime |-> IF active THEN totals.downtime ELSE totals.downtime + d,
     auto     |-> IF auto THEN totals.auto + d ELSE totals.auto]

\* Segment i of RunSegments: time without points is downtime, the others are
\* analysed.
Classify ==
    LET r == segments[i]
        active == Points(r) # 0
        result == AnalyzeSegment(SubSeq(seq, r.from, r.to))
    IN /\ stage = "classifying" /\ i <= Len(segments)
       /\ totals' = Counted(Duration(r), active,
                            active /\ result.is_confident /\ result.is_auto)
       /\ analysed' = IF active THEN Append(analysed, [segment |-> r, result |-> result])
                                ELSE analysed
       /\ i' = i + 1
       /\ UNCHANGED <<input, stage, seq, run, minLength, outliers, segments>>

Answer ==
    /\ stage = "classifying" /\ i > Len(segments)
    /\ stage' = "answered"
    /\ UNCHANGED <<input, seq, i, run, minLength, outliers, segments, totals, analysed>>

Next ==
    \/ Prepare \/ Grow \/ BreakAtGap \/ BreakAtChange \/ Track \/ BreakAtShift
    \/ FinishDetection \/ Classify \/ Answer

Spec == Init /\ [][Next]_vars

-----------------------------------------------------------------------------
Consecutive == {k \in DOMAIN seq : k > 1}
Connected(k) == seq[k].time - seq[k - 1].time <= MaxGap
InOrder == LET ts == ReadGraph(input).timestamps
           IN \A a, b \in DOMAIN ts : a <= b => ts[a] <= ts[b]
\* No sample depends on what a freed block holds.
ReadsNothingFreed == \A freed \in FreedBlocks : Samples(freed) = Samples(Kept)

\* The runs cover every sample: each run is not empty and continues the one
\* before, with the sample it ended at or after a gap (BreakpointDetection's
\* indices and its rollback).
SegmentsTile ==
    /\ \A n \in DOMAIN segments :
          /\ 1 <= segments[n].from /\ segments[n].from <= segments[n].to
          /\ segments[n].to <= Len(seq)
    /\ segments # <<>> => segments[1].from = 1
    /\ \A n \in 2..Len(segments) :
          LET end == segments[n - 1].to
              start == segments[n].from
          IN start = end \/ (start = end + 1 /\ ~Connected(start))
    /\ stage \in {"classifying", "answered"} =>
          segments # <<>> /\ segments[Len(segments)].to = Len(seq)

\* The detector does not run in circles: after a shift it may start again where
\* it started (a run shorter than its delay), but not twice, so it has at most
\* two segments for each sample (the rollback of the loop index).
NoThirdStart == \A n \in 3..Len(segments) : segments[n].from > segments[n - 2].from

StartsRise ==
    /\ \A n \in 2..Len(segments) : segments[n - 1].from <= segments[n].from
    /\ NoThirdStart

\* What holds while the detector reads: the run ends before the sample that
\* is read next and continues the last segment, and is empty only when there
\* is a sample to begin it with.
RunInv ==
    /\ stage = "received" =>
         i = 1 /\ run = Span(1, 0) /\ segments = <<>> /\ minLength = MinSegmentLength
    /\ stage = "detecting" =>
        /\ run.to = i - 1 /\ 1 <= run.from /\ run.from <= i /\ i <= Len(seq) + 1
        /\ run.from = i => i <= Len(seq)
        /\ minLength >= 2
        /\ IF segments = <<>> THEN run.from = 1
           ELSE LET end == segments[Len(segments)].to
                IN run.from = end \/ (run.from = end + 1 /\ ~Connected(run.from))
        /\ segments # <<>> =>
             LET before == segments[Len(segments)].from
             IN before <= run.from /\ (before = run.from => minLength > kDetectionDelay)
        /\ Len(segments) >= 2 /\ segments[Len(segments) - 1].from = segments[Len(segments)].from
             => segments[Len(segments)].from < run.from

\* Every second observed is counted as up- or as downtime.
TimeIsSplit == totals.observed = totals.uptime + totals.downtime

SegmentationInv == TypeOK /\ RunInv /\ SegmentsTile /\ StartsRise /\ stage # "internal" /\ TimeIsSplit

\* A detector that was just started never breaks again on the samples it is
\* given ("Attempted to break immediately after major gap / change").
NeverBreaksTwice == stage # "internal"

\* All observed time is up- or downtime.  Unless interpolation read from a
\* freed block, it is the time between connected samples, each counted once,
\* and time on auto is uptime.
DurationsAddUp ==
    stage = "answered" =>
        /\ TimeIsSplit
        /\ InOrder /\ ReadsNothingFreed =>
             /\ totals.observed = Interval * Cardinality({k \in Consecutive : Connected(k)})
             /\ totals.auto \in 0..totals.uptime

\* An answer is called confident only if samples that count games cover
\* kConfidentDuration (segment_length minus the rejected samples' time), unless
\* interpolation read from a freed block.
ConfidentIsMeasured ==
    \A n \in DOMAIN analysed :
        analysed[n].result.is_confident /\ ReadsNothingFreed =>
            analysed[n].result.accepted * Interval >= ConfidentDuration
=============================================================================
