CONSTANTS
  TestIDs = {t1, t2}
  Users = {u1, u2}
  StepCount = 2
  Thinking = {2}
  Asserting = {1}
  Supported = {t1}
  WebSocket = {t1}
  ChannelSize = 1
  MaxExecutions = 2
SPECIFICATION Spec
PROPERTIES StopsAllUsers
CHECK_DEADLOCK FALSE
