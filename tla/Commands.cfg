SPECIFICATION Spec
CONSTANTS
  Calls <- MCCalls
  Args <- MCArgs
  Sweeps <- MCSweeps
  EnvArgs <- MCEnvArgs
  EnvSweeps <- MCEnvSweeps
  Apps = {w}
  MaxDims = 2
  MaxLinks = 2
  MaxTok = 6
  MaxValues = 4
  Suites <- MCSuites
  TaskLists <- MCTaskLists
  NaN = NaN
INVARIANTS
  SweepIsProduct
  WrappersReachHandles
  FirstBatchSafe
  ScoresFollowDefinition
PROPERTY
  SegmentsStay
\* A command ends.
CHECK_DEADLOCK FALSE
