CONSTANTS
  BufLen = 3
  ValidMin = 1
  QueueNum = 1
  SendLens = {1, 2}
  SendCnts = {1, 2}
  NotifMax = 2
  Discipline = {"open", "close", "restart", "protocol"}
SPECIFICATION Spec
INVARIANTS SendBlocksAlways
CHECK_DEADLOCK FALSE
