SPECIFICATION FairSpec
CONSTANTS
  d1 = d1
  d2 = d2
  d3 = d3
  None = None
  Dials = {d1, d2, d3}
  MaxConns = 2
  MaxStreams = 2
INVARIANTS
  TypeOK
  EveryConnectionOwned
PROPERTIES
  TunnelFallsBySharing
  SocksRespectsContext
  AbandonedDialClosed
