CONSTANTS
  WorkerIDs = {w1, w2, w3}
  TestIDs = {t1, t2}
  NoTest = NoTest
  Capacities = {1, 2}
  UserCounts = {1, 2, 4}
  MaxWorkers = 2
SPECIFICATION CarefulSpec
INVARIANTS TestBacked
PROPERTIES Undisturbed KeepsLeases
SYMMETRY Symmetry
