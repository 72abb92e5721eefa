SPECIFICATION Spec
CONSTANTS
  r1 = r1
  r2 = r2
  r3 = r3
  a1 = a1
  a2 = a2
  None = None
  Plain = Plain
  Requests = {r1, r2, r3}
  Addrs = {a1}
  AddrOf <- OneAddr
  KeptAddr <- PlainThird
  Secure = {r1, r2}
  Dispatched = {r3}
  H2Addrs = {a1}
  AutoRetry = FALSE
  MaxConns = 2
  MaxSems = 2
  CacheLimit = 0
INVARIANTS
  TypeOK
  SemaphoreConserved
  CreationSerialised
PROPERTIES
  TransportNotReplaced
