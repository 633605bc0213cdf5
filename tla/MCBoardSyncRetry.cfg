SPECIFICATION Spec
CONSTANTS
  t1 = t1
  t2 = t2
  NoMessage = NoMessage
  Tasks <- MCTasks
  Misconfigured = {}
  Paged = {}
  Own = {t2}
  MaxConcurrent = 1
  MaxSize = 1
  MaxSent <- One
  MaxBreaks = 0
  MaxInFlight = 1
INVARIANT RetriedTasksAreShown
