SPECIFICATION FairSpec
CONSTANTS
  p1 = p1
  p2 = p2
  s1 = s1
  Peers = {p1, p2}
  Tokenless = {s1}
  Window = 2
  Faults = {"network", "crash"}
  Nobody = Nobody
  Anonymous = Anonymous
CHECK_DEADLOCK FALSE
INVARIANTS
  SoleClaimer
PROPERTIES
  Succession
  TheDeadDropOff
