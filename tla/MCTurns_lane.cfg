SPECIFICATION Spec
CONSTANTS
  a = a
  Workers = {a}
  Requests = {"prompt", "cycle_handover", "retire_handover"}
  Faults = {{"stop", "crash"}, {"stop", "second", "raise"}}
  Slots = 1
  KillLooks = 5
  MaxTurns = 2
  MaxRows = 5
  MaxGen = 1
  NoRunner = NoRunner
CHECK_DEADLOCK FALSE
INVARIANTS
  LaneInv
  NoTurnStranded
  CycledIsRestored
PROPERTIES
  BreakerHolds
  EndsAreFinal
