CONSTANTS
  t1 = t1
  Tasks = {t1}
  Producers = {p1}
  NoTask = NoTask
  NodeCount = 2
  HardwareConcurrency = 2
  ExpandThreshold = 5
  Policies = {"Immediate"}
  TasksMayThrow = FALSE
  BindMayFail = FALSE
  SpawnMayFail = FALSE
  SpuriousWakeups = FALSE
  MaxStarts = 1
SPECIFICATION Spec
INVARIANT NodeHasWorkers
CHECK_DEADLOCK FALSE
