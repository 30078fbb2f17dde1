\* Requests on two hosts, with the keepalive goroutine, up to three connections.
CONSTANTS
  Hosts = {h1, h2}
  Callers = {r1, r2}
  Keeper = keeper
  ConnBound = 3
SPECIFICATION Spec
INVARIANTS
  TypeOK
  PoolInvariant
  UseCounted
  ClosedIsDead
  LiveIsPooled
  NoLeak
PROPERTIES
  MarkersSpareSessions
SYMMETRY Symmetry
