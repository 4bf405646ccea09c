SPECIFICATION FairSpec
CONSTANTS
  MaxNesting = 2
  MaxQuestions = 2
  MaxReboots = 1
  Lanes <- MCLanes
  Denial <- CeilingDenial
INVARIANTS VerdictIsRight GateInv
PROPERTY EveryAskEnds
CHECK_DEADLOCK FALSE
