-------------------------- MODULE SegmentAnalysis --------------------------
(***************************************************************************)
(* What run analysis concludes from one segment: clusters of the steps     *)
(* (clustering.cc), the points a game earns and the games per hour         *)
(* (segment_analysis.cc), and whether the answer can be trusted.           *)
(*                                                                         *)
(* Floats are fixed-point numbers, Scale units to one; squares of them     *)
(* have Scale * Scale units to one.                                        *)
(***************************************************************************)
EXTENDS RunSequence, FiniteSets

CONSTANTS
    Scale,
    NaN,                \* the mean of a cluster that lost all its points
    MinStdev,           \* kMinStdev
    MinRss,             \* kMinRss
    TruncateAbove,      \* samples above which the extremes are cut
    AutoStdev,          \* kAutoStdevThreshold
    ConfidentDuration   \* kConfidentDuration

ASSUME AnalysisAssumption == ConfidentDuration \in Nat

Total(s) == FoldLeft(LAMBDA a, b : a + b, 0, s)
Mean(s) == IF s = <<>> THEN 0 ELSE (Total(s) * Scale) \div Len(s)
Square(n) == n * n
SquaredDeviations(s, mu) == Total([k \in DOMAIN s |-> Square(s[k] * Scale - mu)])
Variance(s) == IF s = <<>> THEN 0 ELSE SquaredDeviations(s, Mean(s)) \div Len(s)

-----------------------------------------------------------------------------
(* Clusters of the differences between samples.                            *)

Truncated(sorted) ==
    LET n == Len(sorted)
    IN IF n <= TruncateAbove THEN sorted ELSE SubSeq(sorted, n \div 20 + 1, n \div 20 + (9 * n) \div 10)

InitialMeans(sorted, k) ==
    LET means == <<sorted[1], Last(sorted), sorted[Len(sorted) \div 2 + 1]>>
    IN [c \in 1..k |-> means[c] * Scale]

\* The first of the closest; nothing is closer than a mean that is no number.
GetClusterAssignment(val, means) ==
    LET numbers == {c \in DOMAIN means : means[c] # NaN}
        Distance(c) == Abs(means[c] - val * Scale)
    IN IF 1 \notin numbers THEN 1
       ELSE CHOOSE c \in numbers : \A d \in numbers :
              Distance(c) < Distance(d) \/ (Distance(c) = Distance(d) /\ c <= d)

\* Values cut from the extremes are in no cluster (0).
AssignValues(diffs, vals, means) ==
    [j \in DOMAIN diffs |-> IF diffs[j] < vals[1] \/ diffs[j] > Last(vals) THEN 0
                            ELSE GetClusterAssignment(diffs[j], means)]

Members(diffs, a, c) ==
    LET idx == SelectSeq([j \in DOMAIN diffs |-> j], LAMBDA j : a[j] = c)
    IN [j \in DOMAIN idx |-> diffs[idx[j]]]

ClusterMean(s) == IF s = <<>> THEN NaN ELSE Mean(s)
MeansOf(diffs, a, k) == [c \in 1..k |-> ClusterMean(Members(diffs, a, c))]

\* Assigns and averages until no assignment changes.
Settle(diffs, vals, k, first) ==
    LET settled[a \in [DOMAIN diffs -> 0..k]] ==
          LET b == AssignValues(diffs, vals, MeansOf(diffs, a, k))
          IN IF b = a THEN a ELSE settled[b]
    IN IF first = [j \in DOMAIN diffs |-> 1] THEN first ELSE settled[first]

ClustersOfSorted(diffs, vals, k) ==
    LET final == Settle(diffs, vals, k, AssignValues(diffs, vals, InitialMeans(vals, k)))
    IN [c \in 1..k |-> Members(diffs, final, c)]
AssignClusters(diffs, k) == ClustersOfSorted(diffs, Truncated(SortSeq(diffs, <)), k)

RssMetric(clusters, n) ==
    Total([c \in DOMAIN clusters |-> SquaredDeviations(clusters[c], Mean(clusters[c]))]) \div n

\* Three clusters if that explains a fifth more and leaves none too small.
BetterClusters(n, two, three) ==
    LET Worthwhile ==
            /\ RssMetric(two, n) > MinRss
            /\ 5 * RssMetric(three, n) < 4 * RssMetric(two, n)
            /\ \A c \in 1..3 : 10 * Len(three[c]) >= n
    IN IF Worthwhile THEN three ELSE two

\* One cluster if the steps hardly differ.
FindBestClusters(diffs) ==
    IF diffs = <<>> \/ SquaredDeviations(diffs, Mean(diffs)) <= MinRss THEN <<diffs>>
    ELSE BetterClusters(Len(diffs), AssignClusters(diffs, 2), AssignClusters(diffs, 3))

\* Drops what is more than two deviations from the mean.
Trimmed(s, mu, variance) ==
    SelectSeq(s, LAMBDA v : Square(v * Scale - mu)
                              <= 4 * (IF variance < Square(MinStdev) THEN Square(MinStdev)
                                                                     ELSE variance))
Trim(s) == Trimmed(s, Mean(s), Variance(s))
RemoveOutliers(vals) == Trim(Trim(Trim(vals)))

\* The last cluster holds the outliers; its mean is a sentinel.
WithOutliers(found, kept) ==
    Append([c \in DOMAIN found |-> [mean |-> Mean(kept[c]), size |-> Len(kept[c])]],
           [mean |-> -Scale, size |-> Total([c \in DOMAIN found |-> Len(found[c]) - Len(kept[c])])])
TrimmedClusters(found) == WithOutliers(found, [c \in DOMAIN found |-> RemoveOutliers(found[c])])
FindClusters(diffs) == TrimmedClusters(FindBestClusters(diffs))

-----------------------------------------------------------------------------
(* Games: 0 if the ratio of two means says nothing.                        *)
InferMinClusterGameCount(hi, lo) ==
    CASE lo > 0 /\ 13 * lo < 10 * hi /\ 10 * hi < 17 * lo -> 2
      [] lo > 0 /\ 18 * lo < 10 * hi /\ 10 * hi < 22 * lo -> 1
      [] OTHER -> 0

\* Of the pairs with a meaning the last one counts, by descending means: the
\* size of the best pair so far is compared with but never set.
EpEstimate(byMean) ==
    LET Hi(p) == byMean[IF p[1] < p[2] THEN p[1] ELSE p[2]].mean
        Lo(p) == byMean[IF p[1] < p[2] THEN p[2] ELSE p[1]].mean
        pairs == {p \in (DOMAIN byMean) \X (DOMAIN byMean) :
                    /\ InferMinClusterGameCount(Hi(p), Lo(p)) # 0
                    /\ byMean[p[1]].size + byMean[p[2]].size > 0}
        last == CHOOSE p \in pairs : \A q \in pairs : p[1] > q[1] \/ (p[1] = q[1] /\ p[2] >= q[2])
    IN IF pairs = {} THEN 0 ELSE Lo(last) \div InferMinClusterGameCount(Hi(last), Lo(last))
FindInitialEpEstimate(clusters) == EpEstimate(SortSeq(clusters, LAMBDA a, b : a.mean > b.mean))

\* How many games of est points a difference is, or 0 if it is none.
GameCount(diff, est) ==
    LET n == (2 * diff * Scale + est) \div (2 * est)
    IN IF n \in 1..3 /\ 5 * Abs(diff * Scale - n * est) <= est THEN n ELSE 0

RunGameCountAnalysis(est, diffs) ==
    LET At(n) == {k \in DOMAIN diffs : GameCount(diffs[k], est) = n}
        Of(n) == SelectSeq(diffs, LAMBDA d : GameCount(d, est) = n)
        games == Total([k \in DOMAIN diffs |-> GameCount(diffs[k], est)])
        Spread(n) == IF Len(Of(n)) <= 1 THEN 0 ELSE SquaredDeviations(Of(n), Mean(Of(n)))
    IN [games    |-> games,
        accepted |-> Cardinality(At(1) \cup At(2) \cup At(3)),
        rejected |-> Cardinality(At(0)),
        steady   |-> games = 0 \/ Spread(1) + Spread(2) + Spread(3) < Square(AutoStdev) * games]

Results == [ok : BOOLEAN, is_auto : BOOLEAN, is_confident : BOOLEAN, games : Nat, accepted : Nat]

\* The part of a segment that samples with games cover.
WholeLength(length, rejected) == length
MeasuredLength(length, rejected) == length - rejected * Interval

Conclude(count, length) ==
    [ok           |-> TRUE,
     is_auto      |-> count.steady,
     is_confident |-> count.games > 0 /\ MeasuredLength(length, count.rejected) >= ConfidentDuration,
     games        |-> count.games,
     accepted     |-> count.accepted]
ConcludeFrom(est, diffs, length) ==
    IF est <= 0 THEN [ok |-> FALSE, is_confident |-> FALSE, is_auto |-> FALSE,
                      games |-> 0, accepted |-> 0]
    ELSE Conclude(RunGameCountAnalysis(est, diffs), length)

\* points are those of the segment; its first difference belongs to the one before.
AnalyzeSegment(points) ==
    LET diffs == [k \in 1..(Len(points) - 1) |-> points[k + 1].diff]
    IN ConcludeFrom(FindInitialEpEstimate(FindClusters(diffs)), diffs,
                    Last(points).time - points[1].time)
=============================================================================
