SPECIFICATION Spec
CONSTANTS
  r1 = r1
  r2 = r2
  r3 = r3
  a1 = a1
  a2 = a2
  None = None
  Plain = Plain
  Requests = {r1, r2, r3}
  Addrs = {a1}
  AddrOf <- OneAddr
  KeptAddr <- OneAddr
  Secure = {r1, r2, r3}
  Dispatched = {}
  H2Addrs = {}
  AutoRetry = FALSE
  MaxConns = 3
  MaxSems = 2
  CacheLimit = 2
INVARIANTS
  NoConnectionForgotten
