CONSTANTS
  None = None
  Calls = {c1, c2, c3, c4}
  Requests = {r1, w1}
  WitnessedRequests = {w1}
  ApprovalIds = {a1, a2}
  Modes = {"receipt", "witnessed"}
  Reviews = {v1, v2}
SPECIFICATION Spec
SYMMETRY CallSymmetry
INVARIANTS
  IInv
  AtMostOneSend
  NoFalseObservation
  CompleteMeansReported
  SendBoundToRequest
  NoSendAfterDeadClaim
  AttemptNamesSavedApproval
PROPERTIES
  NeverReopened
  ContinuationKeyStable
CHECK_DEADLOCK FALSE
