CONSTANTS
  None = None
  Authors = {x, y}
  PolicyIds = {p, q}
  Definitions = {d1, d2}
  MaxVersion = 3
  MaxReads = 1
SPECIFICATION Spec
SYMMETRY PolicySymmetry
INVARIANTS
  PublishedAsSubmitted
  GrantedAsPreviewed
  NoLostUpdate
CHECK_DEADLOCK FALSE
