SPECIFICATION FairSpec
CONSTANTS
  PipeCapacity = 2
  MaxProgress = 3
PROPERTY
  DeadHelperEndsRun
CHECK_DEADLOCK FALSE
