SPECIFICATION FairSpec
CONSTANTS
  r1 = r1
  r2 = r2
  i1 = i1
  i2 = i2
  c1 = c1
  c2 = c2
  Requests = {r1, r2}
  Ids = {i1, i2}
  Conns = {c1}
  RequestID <- OwnIds
  Protocol <- HttpAndSse
  ConnOf <- OneConn
  NoRequest = NoRequest
  MaxChunks = 2
  MaxControls = 1
INVARIANTS
  TypeOK
  RegistryTracksLive
  HttpAnswered
PROPERTIES
  HttpCompletes
  HttpTerminates
