CONSTANTS
  Nil = Nil
  Reporters = {r, t}
  Subjects = {x, y}
  Contents = {c, d}
  Keys = {k, l}
  MaxTries = 2
SYMMETRY Perms
SPECIFICATION LedgerSpec
INVARIANTS
  ObservedAsReported
  AcknowledgmentIsOwn
  SettledOnce
CHECK_DEADLOCK FALSE
