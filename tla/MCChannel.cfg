SPECIFICATION FairSpec
CONSTANTS
  m1 = m1
  m2 = m2
  None = None
  Messages = {m1, m2}
  Fast = TRUE
  DegradeAfter = 1
  Faults = {"presence", "parked", "cancel", "mesh", "stdio"}
INVARIANTS
  LiveIsNotBounced
  ConsumedIsRecorded
PROPERTIES
  EveryMessageSettled
  DeadIsBounced
CHECK_DEADLOCK FALSE
