SPECIFICATION FairSpec
CONSTANTS
  a = a
  Workers = {a}
  Requests = {"prompt"}
  Faults = {{"stop", "raise"}}
  Slots = 1
  KillLooks = 5
  MaxTurns = 2
  MaxRows = 0
  MaxGen = 2
  NoRunner = NoRunner
CHECK_DEADLOCK FALSE
INVARIANTS
  RunnersApart
PROPERTIES
  QueuedIsRun
