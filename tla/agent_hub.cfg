\* One host and the agent on it, two sockets, one push of a request beside the wake loop.
CONSTANTS
  Hosts = {h1}
  Sockets = {s1, s2}
  Agents = {a1}
  Waker = waker
  Pushers = {p1}
  None = None
SPECIFICATION LiveSpec
INVARIANTS
  EntryHasReader
  CacheHasReader
PROPERTIES
  DroppedOpenHasRival
  OfflineIsWoken
  DeadGoesDark
