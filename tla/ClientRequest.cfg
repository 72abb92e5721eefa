SPECIFICATION FairSpec
CONSTANTS
  r1 = r1
  r2 = r2
  i1 = i1
  i2 = i2
  c1 = c1
  c2 = c2
  None = None
  Requests = {r1, r2}
  Ids = {i1, i2}
  Clients = {c1, c2}
  RequestId <- OwnIds
  ClientOf <- TwoClients
  Streamed = {r2}
  Endless = {r2}
  MaxChunks <- TwoAndOne
CHECK_DEADLOCK FALSE
INVARIANTS
  TypeOK
  OwnBody
  NoListenerLeak
PROPERTIES
  DeliveryContract
  Settles
  CancelReachesServer
