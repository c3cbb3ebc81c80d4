CONSTANTS
  None = None
  Events = {e, f}
  Keyed = {e}
  Detailed = {e}
  OldRuntime = TRUE
  MaxSends = 2
SPECIFICATION FairSpec
INVARIANTS
  SealedOnce
  AnswerIsOwn
PROPERTIES
  EventSettles
CHECK_DEADLOCK FALSE
