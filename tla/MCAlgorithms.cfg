CONSTANTS
  Workers = {w1, w2, w3}
  MaxCapacity = 6
  MaxLen = 6
  MaxValue = 4
SPECIFICATION AlgorithmsSpec
INVARIANTS AllServed WithinCapacity Proportional Fair Ranked Ordered Agree
CHECK_DEADLOCK FALSE
