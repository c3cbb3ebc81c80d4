CONSTANTS
  None = None
  Calls = {c1, c2, c3}
  Workspaces = {w1}
  Versions = {v1, v2}
  Pins <- MCPins
  TTLs = {1, 2}
  MaxTime = 1
SPECIFICATION Spec
SYMMETRY CallSymmetry
INVARIANTS
  FreshEnough
  CacheIsolated
  AnswersTheCall
  CacheInv
