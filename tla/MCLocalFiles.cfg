SPECIFICATION LocalSpec
CONSTANTS
  Sessions = {s1, s2}
  NoSession = NoSession
  Prepared = {p1}
  Foreign = {}
  Stock = Stock
  Missing = Missing
  Keep = 1
  MaxWrites = 3
  MaxBackups = 2
  GapWrites = FALSE
  ResolveInFlight = FALSE
  LongPrepared = {q1, q2}
  LongForeign = {f1}
  LongKeep = 2
  LongWrites = 4
  LongBackups = 3
  DataRoots = {Home, Elsewhere, Beside}
  Home = Home
  Beside = Beside
  Parents <- OnlyBesideIsApart
  FileContents = {a, b}
  LastMoved = 2
  LastRestored = 2
  MaxSaves = 1
  Nowhere = Nowhere
  Nothing = Nothing
  OldFile = OldFile
  OwnFile = OwnFile
  NewFile = NewFile
SYMMETRY LocalSymmetry
INVARIANTS
  UndoIsKept
  RestoreIsUndoable
PROPERTIES
  SharedReplacesWhatWasReviewed
  JournalCoversReplacement
  SwitchesAsReviewed
CHECK_DEADLOCK FALSE
