SPECIFICATION Spec
CONSTANTS
  TestIDs = {t1, t2}
  ResultsSize = 2
  MetricsSize = 2
  BatchSize = 2
  MaxResults = 3
  MaxRounds = 2
PROPERTY ForwardsAll
CHECK_DEADLOCK FALSE
