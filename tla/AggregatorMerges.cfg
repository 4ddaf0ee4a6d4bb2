SPECIFICATION Spec
CONSTANTS
  Aggregators = {a, b}
  Keys = {k}
  Many = 1
  MaxMerges = 2
PROPERTY AlwaysReturns
CHECK_DEADLOCK FALSE
