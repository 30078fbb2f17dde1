\* One caller, a pipeline of two gated stages with a deadline, one restart.
CONSTANTS
  p1 = p1
  p2 = p2
  c1 = c1
  c2 = c2
  a1 = a1
  Pipelines = {p1}
  Callers = {c1}
  Approvers = {a1}
  Gates <- TwoGates
  Timed = {p1}
  MaxParallel = 1
  QueueSize = 1
  MaxRuns = 1
  DefaultMaxRuns = 2
  StageBound = 2
  RunBound = 2
  CrashBound = 1
SPECIFICATION Spec
INVARIANTS
  EngineInvariant
  HistoryOnDisk
  NoZombieRun
  SuccessMeansAllStages
  StagesInOrder
  GateRespected
  ActiveInHistory
CONSTRAINT AnswersBound
PROPERTIES
  ImplementsLifecycle
  StageResultsFinal
\* The run numbers are used up after RunBound runs: the instance then stops.
CHECK_DEADLOCK FALSE
