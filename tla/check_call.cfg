CONSTANTS
  None = None
  Auths = {g1, g2}
  Actions = {a1, a2}
  FailOpen = {a1}
SPECIFICATION FairSpec
INVARIANTS
  AllowIsEarned
  ToolRunsOnlyIfGranted
  WritesNeverReplayed
PROPERTIES
  CheckEnds
