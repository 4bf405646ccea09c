SPECIFICATION Spec
CONSTANTS
  m1 = m1
  m2 = m2
  w1 = w1
  w2 = w2
  c1 = c1
  s1 = s1
  Messages = {m1, m2}
  Workers = {w1, w2}
  Watchers = {}
  Sessions = {s1}
  Anyone = Anyone
  Session <- SameSession
  Target <- NoWatcher
  Sweeper = Sweeper
  Free = Free
  MaxAge = 1
  Nothing = Nothing
CHECK_DEADLOCK FALSE
SYMMETRY WorkerSymmetry
INVARIANTS
  IInv
  FirstWaitMissesNothing
PROPERTIES
  HandedOnce
  HandedInOrder
