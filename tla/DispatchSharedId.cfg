SPECIFICATION Spec
CONSTANTS
  r1 = r1
  r2 = r2
  i1 = i1
  i2 = i2
  c1 = c1
  c2 = c2
  Requests = {r1, r2}
  Ids = {i1, i2}
  Conns = {c1, c2}
  RequestID <- SameId
  Protocol <- HttpAndWs
  ConnOf <- TwoConns
  NoRequest = NoRequest
  MaxChunks = 1
  MaxControls = 1
INVARIANTS
  NoStaleEntry
  CancelStopsChunks
PROPERTIES
  StreamContract
  ServesAsAssumed
