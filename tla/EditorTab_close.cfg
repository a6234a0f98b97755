SPECIFICATION Spec
CONSTANTS
  Scopes = {s1, s2}
  NoScope = NoScope
  Texts = {a}
  NoOverride = NoOverride
  Nothing = Nothing
  MaxUndo = 1
  MaxOutside = 1
INVARIANTS
  SaveOnCloseSaves
CHECK_DEADLOCK FALSE
