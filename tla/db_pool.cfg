\* Three connections in a pool of two, three goroutines; every connection edited once.
CONSTANTS
  Conns = {c1, c2, c3}
  Users = {u1, u2, u3}
  PoolSize = 2
  Dbs = {d1, d2, d3, d4}
  EditBound = 2
  None = None
SPECIFICATION PoolSpec
SYMMETRY Symmetry
INVARIANTS
  OrderListsPool
  PooledIsOpen
  NoLeak
  OpenBounded
  StaleWasMissed
PROPERTIES
  ClosedInUseHasReason
