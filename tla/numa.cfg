CONSTANTS
  t1 = t1
  t2 = t2
  Tasks = {t1, t2}
  Producers = {p1}
  NoTask = NoTask
  NodeCount = 2
  HardwareConcurrency = 2
  ExpandThreshold = 1
  Policies = {"WaitForAll"}
  TasksMayThrow = FALSE
  BindMayFail = FALSE
  SpawnMayFail = FALSE
  SpuriousWakeups = TRUE
  MaxStarts = 1
SPECIFICATION Spec
SYMMETRY Symmetry
INVARIANTS TypeOK TasksStayOnNode StoppedIsQuiescent CountExact NodeWithinLimit NoWakeupLost OneMissesStop LateTasksBounded SkippedWorkersLeave LeftoverTasksBounded StaleInOldBuffer
PROPERTIES NodesImplementExecutor NoThreadAbandoned
CHECK_DEADLOCK FALSE
