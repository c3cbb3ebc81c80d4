CONSTANTS
  None = None
  Calls = {c1, c2, c3}
  Requests = {r1}
  WitnessedRequests = {}
  ApprovalIds = {a1, a2}
  Modes = {"receipt", "witnessed"}
  Reviews = {v1}
  Readers = {e1}
SPECIFICATION EvidenceSpec
SYMMETRY EvidenceSymmetry
INVARIANTS
  PackageIsOneAnswer
  AttemptCanBeEvidenced
CHECK_DEADLOCK FALSE
