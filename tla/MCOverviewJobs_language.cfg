SPECIFICATION Spec
CONSTANTS
  Installs = {i1, i2}
  Languages = {english, french}
  DefaultLanguage = english
  Slots = {1, 2, 3}
  None = None
SYMMETRY Symmetry
INVARIANT
  WritesKeepToLanguage
CHECK_DEADLOCK FALSE
