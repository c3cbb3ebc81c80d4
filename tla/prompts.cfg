CONSTANTS
  None = None
  Confirmations = {c}
  Escalations = {e, f}
  Legacy = {f}
  Reviewers = {r, t}
SPECIFICATION FairSpec
INVARIANTS
  ConclusionIsTrue
PROPERTIES
  WaiterSettles
CHECK_DEADLOCK FALSE
