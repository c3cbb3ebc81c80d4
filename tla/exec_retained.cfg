CONSTANTS
  None = None
  Calls = {c1, c2}
  Requests = {r1}
  WitnessedRequests = {}
  ApprovalIds = {a1}
  Modes = {"receipt"}
  Reviews = {v1}
SPECIFICATION Spec
INVARIANTS
  OutcomeRetained
CHECK_DEADLOCK FALSE
