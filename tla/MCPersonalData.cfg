SPECIFICATION DataSpec
CONSTANTS
  Sessions = {s1, s2}
  Edits = {e1, e2, e3}
  MaxRevision = 6
  NoSession = NoSession
  Keys = {k1, k2}
  Texts = {a, b}
  AText = a
  NoText = NoText
  Absent = Absent
  Retention = 1
  MaxHistory = 2
  MaxEdits = 3
  MaxOutside = 1
  EditorScopes = {s1, s2}
  EditorTexts = {a}
  NoScope = NoScope
  Nothing = Nothing
  MaxUndo = 1
SYMMETRY Symmetry
INVARIANTS
  RevisionNamesContent
  OneEditFromRecovery
  UndoReturnsToThePast
  AuthoredMeansAuthored
  NoOtherChannelsLayer
PROPERTIES
  ImplementsRegister
  SnapshotBeforeReplace
  DeliveryLosesOnlyLaterEdits
CHECK_DEADLOCK FALSE
