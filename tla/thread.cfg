CONSTANTS
  Objects = {a, b}
  Callers = {c1}
  NoObject = NoObject
  MaxRuns = 2
  DtorActions = {"DETACH", "CANCEL"}
  Attributes = {"joinable", "detached"}
  TasksMayExit = TRUE
  EndedIsGone = TRUE
  Shared = FALSE
SPECIFICATION FairSpec
INVARIANTS TypeOK NoThreadLost JoinedOnce DetachedIsAlive TerminatedIsOver
PROPERTIES JoinsReturn DetachedIsReported
CHECK_DEADLOCK FALSE
