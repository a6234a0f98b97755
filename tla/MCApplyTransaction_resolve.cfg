SPECIFICATION EitherSpec
CONSTANTS
  Sessions = {s1, s2}
  NoSession = NoSession
  Prepared = {p1}
  Foreign = {f1}
  Stock = Stock
  Missing = Missing
  Keep = 1
  MaxWrites = 3
  MaxBackups = 3
  GapWrites = FALSE
  ResolveInFlight = TRUE
  LongPrepared = {}
  LongForeign = {}
  LongKeep = 1
  LongWrites = 1
  LongBackups = 1
SYMMETRY Symmetry
PROPERTIES
  JournalCoversReplacement
CHECK_DEADLOCK FALSE
