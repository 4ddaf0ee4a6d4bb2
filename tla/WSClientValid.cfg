SPECIFICATION Spec
CONSTANTS
  Users = {v1, v2}
  URLs = {a}
  MaxRequests = 1
  MaxDials = 2
  MaxInbox = 1
PROPERTIES GivenValid
CHECK_DEADLOCK FALSE
