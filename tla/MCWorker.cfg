CONSTANTS
  TestIDs = {t1, t2}
  Users = {u1}
  StepCount = 2
  Thinking = {2}
  Asserting = {1}
  Supported = {t1}
  WebSocket = {t1}
  ChannelSize = 1
  MaxExecutions = 2
  Clients = {v1, v2}
  URLs = {a}
  MaxRequests = 1
  MaxDials = 2
  MaxInbox = 1
SPECIFICATION WorkerSpec
INVARIANTS TypesOK CleanupPending Reachable OpenAreListed Attended
PROPERTIES RunsItsTime AllReturn ExecuteReturns
CHECK_DEADLOCK FALSE
