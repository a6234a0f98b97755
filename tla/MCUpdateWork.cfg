SPECIFICATION UpdateSpec
CONSTANTS
  Installs = {i1, i2}
  Languages = {english, french}
  DefaultLanguage = english
  Slots = {1, 2, 3}
  None = None
  Unstated = Unstated
  Unknown = Unknown
  Absent = Absent
  Rejected = Rejected
  EntryTexts <- AnyText
  Normal <- Spelled
  Placeholder = Placeholder
  Refused = Refused
  Broken = Broken
  Wrong = Wrong
  Width <- PartWidth
  short = short
  long = long
  game1 = game1
  game2 = game2
  Updating = {updating}
  Others = {other}
  MaxUpdates = 2
  MaxOthers = 1
  MaxOutside = 2
INVARIANTS
  OneWorkerAtATime
  ContractsMatchSelection
  WritesKeepToChannel
  FactsStayTogether
  DetailsAgree
  OnlyAgreedIsShown
  ReviewedIsWritten
  MarkedIsOwned
PROPERTIES
  ConfirmedIsSettled
  CloseEnds
  OnlySuccessChanges
  ExpectedPlanIsWritten
CHECK_DEADLOCK FALSE
