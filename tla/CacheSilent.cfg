SPECIFICATION FairSpec
CONSTANTS
  r1 = r1
  r2 = r2
  r3 = r3
  a1 = a1
  a2 = a2
  None = None
  Plain = Plain
  Requests = {r1, r2}
  Addrs = {a1}
  AddrOf <- SameAddr
  KeptAddr <- SameAddr
  Secure = {r1, r2}
  Dispatched = {r1, r2}
  H2Addrs = {}
  AutoRetry = FALSE
  MaxConns = 2
  MaxSems = 2
  CacheLimit = 1
PROPERTIES
  DeadlineEndsRequest
