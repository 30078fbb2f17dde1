\* Two requests on one host, with the keepalive goroutine.
CONSTANTS
  Hosts = {h1}
  Callers = {r1, r2}
  Keeper = keeper
  ConnBound = 2
SPECIFICATION Spec
INVARIANTS
  InUseIsOpen
SYMMETRY Symmetry
