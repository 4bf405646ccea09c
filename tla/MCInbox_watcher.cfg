SPECIFICATION FairSpec
CONSTANTS
  m1 = m1
  m2 = m2
  w1 = w1
  w2 = w2
  c1 = c1
  s1 = s1
  Messages = {m1}
  Workers = {w1}
  Watchers = {c1}
  Sessions = {s1}
  Anyone = Anyone
  Session <- OneWorker
  Target <- FirstMessage
  Sweeper = Sweeper
  Free = Free
  MaxAge = 2
  Nothing = Nothing
CHECK_DEADLOCK FALSE
INVARIANTS
  ControllerInv
PROPERTIES
  OutcomeIsFinal
  ImplementsLifecycle
  ResolvedIsTold
  QueuedIsTaken
