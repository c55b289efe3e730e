CONSTANTS
  t1 = t1
  t2 = t2
  Tasks = {t1, t2}
  Producers = {p1}
  NoTask = NoTask
  HardwareConcurrency = 1
  ExpandThreshold = 1
  Policies = {"WaitForAll", "WaitForTimeout"}
  TasksMayThrow = TRUE
  SpawnMayFail = TRUE
  SpuriousWakeups = TRUE
  MaxStarts = 2
SPECIFICATION Spec
SYMMETRY Symmetry
INVARIANTS TypeOK TasksAccounted StoppedIsQuiescent CountExact SlotsJoinable StaleAfterFirstGrowth LateTasksBounded NoWakeupLost OneMissesStop LeftoverTasksBounded
PROPERTIES ImplementsExecutor NoThreadAbandoned
CHECK_DEADLOCK FALSE
