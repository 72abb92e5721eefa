SPECIFICATION Spec
CONSTANTS
  k1 = k1
  k2 = k2
  k3 = k3
  k4 = k4
  Keys = {k1, k2, k3, k4}
  N = 4
  MaxCount = 5
  Times = {0, 1, 2, 3}
INVARIANTS
  TypeOK
  EvictsOldest
  EvictsAsPromised
SYMMETRY AnyKey
