CONSTANTS
  WorkerIDs = {w1, w2, w3}
  TestIDs = {t1, t2}
  NoTest = NoTest
  Capacities = {2}
  UserCounts = {1, 3}
  MaxWorkers = 2
SPECIFICATION FreshSpec
INVARIANTS WorkerBacked
PROPERTIES NoRevival
SYMMETRY Symmetry
