SPECIFICATION FairSpec
CONSTANTS
  Messages = {1, 2}
  MaxConcurrent = 1
  Page = 1
  ApprovalHook = TRUE
  Faults = {"crash", "stop", "session", "refusal", "auth", "relay", "broadcast", "others"}
  Nothing = Nothing
  ReplyMax = 24
  Overhead = 7
  StderrTail = 2
  ShrinkStep = 3
  OutputCap = 3
  Resolved <- Directories
CHECK_DEADLOCK FALSE
INVARIANTS
  SlotInv
  RepliesAreRight
PROPERTIES
  WorkersInHand
  ClaimedIsAnswered
  BridgeNeverWedges
