SPECIFICATION FairSpec
CONSTANTS
  j1 = j1
  j2 = j2
  j3 = j3
  Jobs = {j1,j2,j3}
  Foreign = {j3}
  MaxDeliver = 3
  Faults = {"crash", "reboot", "bus", "lag", "docker", "inspect", "race"}
  MaxFaults = 2
  NoJob = NoJob
  InlineCap = 22
  FrameOverhead = 6
  FlagLength = 2
CHECK_DEADLOCK FALSE
INVARIANTS
  JobInv
  ReportsAreRight
PROPERTIES
  NothingIsUndone
  EveryJobAnswered
