\* One job of two tables beside one request that uses and edits the job's connections.
CONSTANTS
  Conns = {source, target}
  Users = {r1, j1}
  Requests = {r1}
  Jobs = {j1}
  Source = source
  Target = target
  PoolSize = 2
  Dbs = {d1, d2, d3, d4, d5}
  EditBound = 1
  Tables = 2
  Modes <- MCModes
  SourceRows = 4
  MaxRows = 3
  BatchRows = 2
  None = None
CONSTRAINT ShortSecond
SPECIFICATION LiveSpec
INVARIANTS
  JobTypeOK
  ProgressIsTrue
  DoneIsComplete
PROPERTIES
  SettledWritesNothing
  EndIsFinal
  JobSettles
