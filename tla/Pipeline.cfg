SPECIFICATION Spec
CONSTANTS
  TestIDs = {t1, t2}
  ResultsSize = 2
  MetricsSize = 1
  BatchSize = 2
  MaxResults = 2
  MaxRounds = 2
INVARIANTS TypeOK Conserved RatesAreRates
PROPERTIES BatchesSent ShutsDown
CHECK_DEADLOCK FALSE
