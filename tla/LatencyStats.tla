---------------------------- MODULE LatencyStats ----------------------------
(***************************************************************************)
(* latencyStats, the summary that both load clients print: the smallest    *)
(* sample, the average, the median and a nearest-rank percentile, computed *)
(* with integers.  How often each latency was measured is all that matters *)
(* to it.                                                                  *)
(***************************************************************************)
EXTENDS Integers, Sequences, SequencesExt

CONSTANTS Latency,     \* the latencies that occur
          Percent      \* 95 in the code

ASSUME StatsAssumption ==
  Latency \subseteq Nat /\ IsFiniteSet(Latency) /\ Percent \in 1 .. 100

VARIABLE measured  \* how often each was measured

Unmeasured == [v \in Latency |-> 0]

-----------------------------------------------------------------------------
\* sort.Slice: each latency as often as it was measured.
Sorted ==
  FlattenSeq([i \in 1 .. Cardinality(Latency) |->
    LET v == SetToSortSeq(Latency, <)[i] IN [j \in 1 .. measured[v] |-> v]])

\* samples[i]: Go counts from zero.
Sample(i) == Sorted[i + 1]

Size == Len(Sorted)
Middle == Size \div 2

\* The middle sample, or the midpoint of the two, without adding them.
p50 == IF Size % 2 = 0
       THEN Sample(Middle - 1) + (Sample(Middle) - Sample(Middle - 1)) \div 2
       ELSE Sample(Middle)

\* Mutant: the rank is rounded to the nearest.
RankRounded ==
  LET rank == (Percent * Size + 50) \div 100 IN IF rank = 0 THEN 0 ELSE rank - 1

\* The nearest rank, ceil(Percent / 100 * count), from zero.
Index == (Percent * Size + 99) \div 100 - 1

p95 == Sample(Index)
min == Sample(0)
avg == FoldLeft(+, 0, Sorted) \div Size

-----------------------------------------------------------------------------
\* How many samples are at most v, and at least v.
AtMost(v) == Cardinality({i \in 1 .. Size : Sorted[i] <= v})
AtLeast(v) == Cardinality({i \in 1 .. Size : Sorted[i] >= v})
Seen == {v \in Latency : measured[v] > 0}

\* Every index is inside the samples, whatever their number, and what is printed
\* as p95 is by definition the percentile: the least sample that Percent of 100
\* samples do not exceed (queue/client main.go:160-162).
NearestRank ==
  Seen # {} =>
    /\ Index \in 0 .. Size - 1
    /\ p95 \in Seen /\ 100 * AtMost(p95) >= Percent * Size
    /\ \A v \in Seen : v < p95 => 100 * AtMost(v) < Percent * Size

\* p50 is the midpoint, rounded down, of the least and the greatest value that
\* halve the samples (queue/client main.go:153-159).
MedianHalves ==
  Seen # {} =>
    LET halves == {v \in Seen : 2 * AtMost(v) >= Size /\ 2 * AtLeast(v) >= Size}
        low  == CHOOSE v \in halves : \A w \in halves : v <= w
        high == CHOOSE v \in halves : \A w \in halves : v >= w
    IN p50 = (low + high) \div 2

\* The four numbers never contradict each other: neither the median nor the
\* percentile, nor the average rounded down, leaves the range of the samples.
StatsOrdered ==
  Seen # {} => min <= p50 /\ p50 <= p95 /\ min <= avg /\ avg <= Sample(Size - 1)

=============================================================================
