CONSTANTS
  NoTest = NoTest
  WorkerIDs = {w1, w2, w3}
  TestIDs = {t1, t2}
  Capacities = {1, 2}
  UserCounts = {1, 3}
  MaxWorkers = 2
SPECIFICATION Spec
INVARIANTS TypeOK Staffed LoadFitsStatus
PROPERTIES NeverReassigned RemovalFailsTest
SYMMETRY Symmetry
