\* One gated run and one operator who answers twice.
CONSTANTS
  p1 = p1
  p2 = p2
  c1 = c1
  c2 = c2
  a1 = a1
  Pipelines = {p1, p2}
  Callers = {c1}
  Approvers = {a1}
  Gates <- GateOrNot
  Timed = {}
  MaxParallel = 1
  QueueSize = 1
  MaxRuns = 1
  DefaultMaxRuns = 2
  StageBound = 1
  RunBound = 2
  CrashBound = 0
SPECIFICATION Spec
INVARIANTS
  RejectionHonoured
\* The run numbers are used up after RunBound runs: the instance then stops.
CHECK_DEADLOCK FALSE
