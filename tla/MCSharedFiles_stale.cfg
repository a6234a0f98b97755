SPECIFICATION SharedSpec
CONSTANTS
  Processes = {p1, p2, p3}
  Nobody = Nobody
  Expired = Expired
  MaxIncidents = 2
  Windows = {w1, w2}
  Languages = {english, french}
  LastBuild = 2
  MaxReads = 2
  Nothing = Nothing
  Version = 10
  Invalid = NoText
  fact1 = fact1
  fact2 = fact2
INVARIANT
  NeverStale
CHECK_DEADLOCK FALSE
