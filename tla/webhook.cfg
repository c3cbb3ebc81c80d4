CONSTANTS
  Prompts = {p1}
  Tolerance = 2
  Skew = 1
  Delay = 1
  MaxTime = 4
  MaxCalls = 2
  MaxAttempts = 2
  MaxWire = 1
SPECIFICATION Spec
INVARIANTS
  SecretIsCurrent
  AcceptedIsGenuine
  PromptDeliveryAccepted
CHECK_DEADLOCK FALSE
