CONSTANTS
  t1 = t1
  t2 = t2
  Tasks = {t1, t2}
  Producers = {p1}
  NoTask = NoTask
  HardwareConcurrency = 1
  ExpandThreshold = 1
  Policies = {"Immediate"}
  TasksMayThrow = FALSE
  SpawnMayFail = FALSE
  SpuriousWakeups = FALSE
  MaxStarts = 1
SPECIFICATION Spec
INVARIANT MinThreadsKept
CHECK_DEADLOCK FALSE
