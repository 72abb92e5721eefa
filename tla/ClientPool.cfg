SPECIFICATION Spec
CONSTANTS
  p1 = p1
  p2 = p2
  p3 = p3
  p4 = p4
  p5 = p5
  p6 = p6
  k1 = k1
  k2 = k2
  k3 = k3
  k4 = k4
  k5 = k5
  None = None
  Callers = {p1, p2, p3, p4, p5, p6}
  Keys = {k1, k2, k3, k4, k5}
  Configs = {p1, p2, p3, p4, p5, p6}
  KeyOf <- FiveKeys
  ConfigOf <- OwnConfig
  Reuse = {p1, p2, p3, p4, p5, p6}
  MaxPool = 4
  MaxAge = 0
  MaxClock = 1
  MaxClients = 5
INVARIANTS
  TypeOK
  PoolBounded
  ServedUnderKey
PROPERTIES
  EntryNotReplaced
SYMMETRY Alike
