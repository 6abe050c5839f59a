CONSTANTS
  NumMsgs = 3
  Cap = 1
  Ids = {1, 2, 3, 4, 5, 6}
SPECIFICATION Spec
INVARIANT OneIdInTransit
CHECK_DEADLOCK FALSE
