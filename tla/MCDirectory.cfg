SPECIFICATION MCSpec
CONSTANTS
  Exits = {e1, e2}
  FreeExits = {e1}
  Slow = {e2}
  Wanted = {e1, e2}
  Levels = {"Plus", "Free"}
  ROW = 2
  GC = 1
  LIST = 1
  DIALER = 1
  MaxFaults = 1
  Bridges = {b1, b2}
  BRIDGE_ROW = 1
  QUERY = 2
  ROUTE = 3
  MAPPING = 4
  MaxRouteFaults = 2
INVARIANTS
  RecentlyAlive
  RouteHasListener
PROPERTIES
  FreeAccepted
  DialerRecovers
  RoutesRecover
