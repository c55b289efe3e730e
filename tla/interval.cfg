CONSTANTS
  MinInterval = 100
  MaxInterval = 5000
  ExpandThreshold = 5
  MaxTasks = 12
  MaxWorkers = 6
SPECIFICATION Spec
INVARIANT IntervalBounded
PROPERTY HeavierLoadSleepsLess
