CONSTANTS
  None = None
  ReceiptIds = {i1, i2}
  Workspaces = {w1, w2}
  Records = {d1, d2}
  Timeout = 5
  PollInterval = 2
  RetryAfters = {0, 1, 9}
  Lag = 1
SPECIFICATION FairSpec
INVARIANTS
  ReceiptAskedFor
  EndsInTime
  NoEarlyGiveUp
  PollsOnSchedule
PROPERTIES
  PollingEnds
CHECK_DEADLOCK FALSE
