CONSTANTS
  t1 = t1
  t2 = t2
  Tasks = {t1, t2}
  Producers = {p1}
  NoTask = NoTask
  HardwareConcurrency = 1
  ExpandThreshold = 5
  Policies = {"WaitForAll"}
  TasksMayThrow = FALSE
  SpawnMayFail = FALSE
  SpuriousWakeups = FALSE
  MaxStarts = 1
SPECIFICATION Spec
INVARIANT WaitForAllCanFinish
CHECK_DEADLOCK FALSE
