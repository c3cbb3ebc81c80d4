CONSTANTS
  None = None
  Calls = {c1, c2, c3}
  Requests = {r1, w1}
  WitnessedRequests = {w1}
  ApprovalIds = {a1}
  Modes = {"receipt", "witnessed"}
  Reviews = {v1}
SPECIFICATION FairSpec
PROPERTIES
  WitnessedRunEnds
  ImplementsDurableDispatch
CHECK_DEADLOCK FALSE
