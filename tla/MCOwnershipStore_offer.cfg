SPECIFICATION Spec
CONSTANTS
  Sessions = {s1, s2}
  Edits = {e1, e2, e3}
  MaxRevision = 6
  NoSession = NoSession
SYMMETRY Symmetry
PROPERTY
  OfferedRecoveryReplacesDamaged
CHECK_DEADLOCK FALSE
