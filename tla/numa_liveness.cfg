CONSTANTS
  t1 = t1
  Tasks = {t1}
  Producers = {p1}
  NoTask = NoTask
  NodeCount = 2
  HardwareConcurrency = 2
  ExpandThreshold = 0
  Policies = {}
  TasksMayThrow = TRUE
  BindMayFail = TRUE
  SpawnMayFail = TRUE
  SpuriousWakeups = FALSE
  MaxStarts = 1
SPECIFICATION FairSpec
PROPERTY QueuedTaskStarts
CHECK_DEADLOCK FALSE
