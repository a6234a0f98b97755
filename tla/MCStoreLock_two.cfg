SPECIFICATION Spec
CONSTANTS
  Processes = {p1, p2, p3}
  Nobody = Nobody
  Expired = Expired
  MaxIncidents = 2
SYMMETRY Symmetry
PROPERTY
  NewLockIsNeverReaped
CHECK_DEADLOCK FALSE
