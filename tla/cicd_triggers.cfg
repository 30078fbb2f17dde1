\* Two callers of Trigger race on two pipelines for one slot and a queue of one.
CONSTANTS
  p1 = p1
  p2 = p2
  c1 = c1
  c2 = c2
  a1 = a1
  Pipelines = {p1, p2}
  Callers = {c1, c2}
  Approvers = {a1}
  Gates <- GateOrNot
  Timed = {}
  MaxParallel = 1
  QueueSize = 1
  MaxRuns = 1
  DefaultMaxRuns = 2
  StageBound = 1
  RunBound = 2
  CrashBound = 0
SPECIFICATION Spec
INVARIANTS
  ActivesBounded
  SlotsCounted
  ConcurrencyBounded
  SettledStages
PROPERTIES
  TerminalIsFinal
SYMMETRY Symmetry
\* The run numbers are used up after RunBound runs: the instance then stops.
CHECK_DEADLOCK FALSE
