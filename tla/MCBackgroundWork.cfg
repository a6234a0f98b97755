SPECIFICATION BackgroundSpec
CONSTANTS
  PipeCapacity = 2
  MaxProgress = 3
  log1 = log1
  log2 = log2
  log3 = log3
  bp1 = bp1
  bp2 = bp2
  Nothing = Nothing
  Null = Null
  Unreadable = Unreadable
  Sentinel = Sentinel
  Garbage = Garbage
  Kept = Kept
INVARIANTS
  NothingLeftBehind
  StoppedRunReturnsNothing
  CursorsStayBehindEvidence
  ChannelsStayApart
  ReadsAreFaithful
  RewardsAreTraced
  StatedIsAgreed
PROPERTIES
  RunEnds
  EvidenceIsKept
  DecisionIsTheReviewedOne
CHECK_DEADLOCK FALSE
