SPECIFICATION Spec
CONSTANTS
  a = a
  Workers = {a}
  Requests = {"prompt"}
  Faults = {}
  Slots = 1
  KillLooks = 5
  MaxTurns = 2
  MaxRows = 0
  MaxGen = 1
  NoRunner = NoRunner
CHECK_DEADLOCK FALSE
PROPERTIES
  KilledIsTerminal
