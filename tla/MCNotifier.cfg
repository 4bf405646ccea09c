SPECIFICATION Spec
CONSTANTS
  t1 = t1
  t2 = t2
  k1 = k1
  k2 = k2
  k3 = k3
  k4 = k4
  Tasks = {t1, t2}
  Keys = {k1, k2, k3, k4}
  InboxKeys = {k1, k2}
  MaxEvents = 2
  NoKey = NoKey
INVARIANTS
  Inv
