---------------------------- MODULE MCStatistics ----------------------------
(***************************************************************************)
(* The statistics of every short sequence of small values.  The values     *)
(* come one by one, as AddMetric appends them.                             *)
(***************************************************************************)
EXTENDS Statistics, TLC

CONSTANTS
  MaxLen,       \* bound: the number of values
  MaxValue      \* bound: values are 0..MaxValue

ASSUME ValuesAssumption == MaxLen \in Nat /\ MaxValue \in Nat

VARIABLE values

NoValues == values = <<>>

AddMetric ==
  /\ Len(values) < MaxLen
  /\ \E v \in 0..MaxValue : values' = Append(values, v)
-----------------------------------------------------------------------------
Percents == {50, 90, 95, 99}

CountOf(P(_)) == Cardinality({i \in DOMAIN values : P(values[i])})

(* An interpolated percentile is where it belongs: no more values are      *)
(* below it than its rank says, rounded up, and no more above it than come *)
(* after that rank, rounded down.                                          *)
Ranked ==
  values # <<>> =>
    LET sorted == ExchangeSort(values)
        n == Len(values)
    IN  \A p \in Percents :
          LET r == Percentile(sorted, p)
              rank == p * (n - 1)
          IN  /\ CountOf(LAMBDA v : 100 * v < r) <= (rank + 99) \div 100
              /\ CountOf(LAMBDA v : 100 * v > r) <= n - 1 - rank \div 100

(* The statistics of a key never contradict each other: the percentiles    *)
(* come in order between the least and the greatest value.                 *)
Ordered ==
  values # <<>> =>
    LET m == AggregatedMetric(values)
    IN  /\ 100 * m.min <= m.p50 /\ m.p50 <= m.p90 /\ m.p90 <= m.p95
        /\ m.p95 <= m.p99 /\ m.p99 <= 100 * m.max
        /\ m.count * m.min <= m.sum /\ m.sum <= m.count * m.max

(* The two ways to a percentile agree up to the rounding of the rank: the  *)
(* worker's is the greatest value not above the aggregator's.              *)
Agree ==
  values # <<>> =>
    LET m == AggregatedMetric(values)
        s == CalculateStats(values)
    IN  \A v \in ToSet(values) :
          /\ 100 * s.p95 <= m.p95 /\ (100 * v <= m.p95 => v <= s.p95)
          /\ 100 * s.p99 <= m.p99 /\ (100 * v <= m.p99 => v <= s.p99)
=============================================================================
