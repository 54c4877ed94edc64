--------------------------- MODULE MCSegmentation ---------------------------
EXTENDS Segmentation

\* Times in minutes, an interval of 2; steps of 3 and 6 are one and two games.
Sample(t, p) == <<t, p>>
Request(ts, ps) == [source |-> "request", timestamps |-> ts, points |-> ps]
Key(name) == [kind |-> "key", value |-> name]
Number(n) == [kind |-> "number", value |-> n]
V2(tokens) == [source |-> "v2", tokens |-> tokens]
Row(kind, t, p) == [kind |-> kind, time |-> t, points |-> p]
Csv(rows) == [source |-> "csv", rows |-> rows]

\* All graphs of four samples, after a first one, with these distances.
Distances == {1, 4, 8}
Earned == {0, 6, 20}
Requests == {Request(<<10, 10 + a, 10 + a + b, 10 + a + b + c>>, <<0, p, p + q, p + q + r>>) :
               a, b, c \in Distances, p, q, r \in Earned}

\* Longer ones, which the clusters and the outliers need, and odd ones.
Steady(n) == Request([k \in 1..n |-> 2 * k], [k \in 1..n |-> 3 * k + 3 * (k \div 3)])
Odd == {
    Request(<<>>, <<>>), Request(<<1>>, <<0>>), Request(<<1, 2>>, <<0>>),
    Request(<<5, 3, 9, 4, 11>>, <<0, 3, 6, 9, 12>>),
    Request(<<4, 8, 6, 6, 10>>, <<0, 6, 3, 6, 12>>),
    Request(<<0, 2, 4, 6>>, <<0, 8, 16, 24>>),
    Request(<<0, 2, 4, 6, 8, 10>>, <<0, 10, 21, 41, 51, 72>>),
    Request(<<0, 4, 10, 14, 18>>, <<0, 6, 15, 21, 27>>), Request(<<0, 4, 12, 18>>, <<0, 6, 30, 39>>),
    V2(<<Key("x"), Number(0), Number(2), Number(4), Key("y"), Number(0), Number(3), Number(9),
         [kind |-> "end_object", value |-> ""]>>),
    V2(<<Key("x"), Number(0), Key("z"), Number(1)>>),
    Csv(<<Row("header", 0, 0), Row("sample", 0, 0), Row("short", 0, 0), Row("sample", 4, 9)>>),
    Csv(<<Row("sample", 0, 0), Row("bad", 0, 0)>>)}

\* A freed block keeps its contents, loses the first samples, or all of them.
MCFreedBlocks == {Kept, <<Snapshot(-4, 50)>>, [k \in 1..30 |-> Snapshot(17, 33)]}

MCInputs == Requests \cup Odd \cup {Steady(n) : n \in 5..11}
=============================================================================
