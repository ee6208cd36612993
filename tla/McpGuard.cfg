SPECIFICATION FairSpec
CONSTANTS
  g1 = g1
  g2 = g2
  p1 = p1
  p2 = p2
  k1 = k1
  k2 = k2
  Nobody = Nobody
  Conns = {g1, g2}
  Tokens = {k1, k2}
  TokenOf <- OneEach
  Posts = {p1}
  MAX_MCP_CONNECTIONS = 2
CHECK_DEADLOCK FALSE
INVARIANTS DisabledIsQuiet SlotsAreOwned
PROPERTIES RefinesRegistry ClosedForCause RevokedIsClosed
