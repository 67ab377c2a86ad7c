CONSTANTS
  Conn = {c1, c2, c3}
  NoConn = NoConn
  Name = {n}
  MaxConnections = 1
SPECIFICATION FairSpec
INVARIANTS SlotsConserved EndedHoldsNothing CatalogClosed
PROPERTIES QueuedServed StopsOnSignal
CHECK_DEADLOCK FALSE
