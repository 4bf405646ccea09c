SPECIFICATION FairSpec
CONSTANTS
  a1 = a1
  a2 = a2
  a3 = a3
  a4 = a4
  t1 = t1
  s1 = s1
  h1 = h1
  h2 = h2
  Hooked = {a1, a2}
  Direct = {a3}
  Channelled = {a4}
  TeamsSends = {t1}
  SessionOps = {s1}
  Hubs = {h1, h2}
  Permits = 1
  Chunks = 2
  MaxAsked = 2
  Faults = {"call", "launcher", "hub"}
  Nothing = Nothing
CHECK_DEADLOCK FALSE
INVARIANTS
  AnswerIsTheVerdict
  CarriedOutOnce
PROPERTIES
  ImplementsLifecycle
  NothingIsLeft
