----------------------------- MODULE Statistics -----------------------------
(***************************************************************************)
(* The statistics the program computes: percentile and the body of         *)
(* aggregate in pkg/metrics/aggregator.go, CalculatePercentile and         *)
(* CalculateStats in internal/common/utils.go.  Values are integers, a     *)
(* fraction p is given in percent, and what the code computes in floating  *)
(* point is computed exactly: percentile in hundredths, a quotient as its  *)
(* numerator and denominator.                                              *)
(***************************************************************************)
EXTENDS Integers, SequencesExt

(* Mutants of percentile: the rank is taken of n; the value above is not   *)
(* weighed against the one below.                                          *)
Percentile_OfAll(values, p) ==
  LET n == Len(values)
      rank == p * n
      rankInt == rank \div 100
      rankFrac == rank % 100
  IN  IF n = 0 THEN 0
      ELSE IF rankInt >= n - 1 THEN 100 * values[n]
      ELSE 100 * values[rankInt + 1]
             + rankFrac * (values[rankInt + 2] - values[rankInt + 1])

Percentile_Sum(values, p) ==
  LET n == Len(values)
      rank == p * (n - 1)
      rankInt == rank \div 100
      rankFrac == rank % 100
  IN  IF n = 0 THEN 0
      ELSE IF rankInt >= n - 1 THEN 100 * values[n]
      ELSE 100 * values[rankInt + 1] + rankFrac * values[rankInt + 2]

(* percentile: the value at the exact rank p/100 * (n-1), counted from 0,  *)
(* of n sorted values, interpolated between its neighbours; in hundredths. *)
Percentile(values, p) ==
  LET n == Len(values)
      rank == p * (n - 1)
      rankInt == rank \div 100
      rankFrac == rank % 100
  IN  IF n = 0 THEN 0
      ELSE IF rankInt >= n - 1 THEN 100 * values[n]
      ELSE 100 * values[rankInt + 1]
             + rankFrac * (values[rankInt + 2] - values[rankInt + 1])

(* The exchange sort of CalculatePercentile: its inner loop puts the least *)
(* of the values from position i on there, its outer loop does so for one  *)
(* position after the other.                                               *)
Exchange(s, i, j) ==
  IF s[i] > s[j] THEN [s EXCEPT ![i] = s[j], ![j] = s[i]] ELSE s

LeastFirst(s, i) ==
  LET after[j \in i..Len(s)] ==
        IF j = i THEN s ELSE Exchange(after[j - 1], i, j)
  IN  after[Len(s)]

ExchangeSort(durations) ==
  LET n == Len(durations)
      after[i \in 0..(n - 1)] ==
        IF i = 0 THEN durations ELSE LeastFirst(after[i - 1], i)
  IN  IF n = 0 THEN durations ELSE after[n - 1]

(* CalculatePercentile: the value at the rank rounded down.                *)
CalculatePercentile_Next(durations, p) ==  \* mutant: one place further
  LET n == Len(durations)
  IN  IF n = 0 THEN 0
      ELSE ExchangeSort(durations)[(n * p) \div 100 + 1]

CalculatePercentile(durations, p) ==
  LET n == Len(durations)
  IN  IF n = 0 THEN 0
      ELSE ExchangeSort(durations)[((n - 1) * p) \div 100 + 1]

(* CalculateStats: avg is an integer division of durations.                *)
SumOf(values) == SumFunction(values)

CalculateStats(durations) ==
  LET n == Len(durations)
  IN  IF n = 0 THEN [avg |-> 0, p95 |-> 0, p99 |-> 0]
      ELSE [avg |-> SumOf(durations) \div n,
            p95 |-> CalculatePercentile(durations, 95),
            p99 |-> CalculatePercentile(durations, 99)]

(* sort.Float64s: at each position the value that fewer values are below,  *)
(* and at least so many are not above.                                     *)
Sorted(collected) ==
  [k \in DOMAIN collected |->
     CHOOSE v \in ToSet(collected) :
       /\ Cardinality({i \in DOMAIN collected : collected[i] < v}) < k
       /\ Cardinality({i \in DOMAIN collected : collected[i] <= v}) >= k]

(* What aggregate makes of the values of a key: sorted, they become an     *)
(* AggregatedMetric; mean is sum / count.                                  *)
AggregatedMetric(collected) ==
  LET values == Sorted(collected)
      n == Len(values)
  IN  [count |-> n, sum |-> SumOf(values),
       min |-> values[1], max |-> values[n],
       p50 |-> Percentile(values, 50), p90 |-> Percentile(values, 90),
       p95 |-> Percentile(values, 95), p99 |-> Percentile(values, 99)]
=============================================================================
