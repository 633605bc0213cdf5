SPECIFICATION Spec
CONSTANTS
  t1 = t1
  t2 = t2
  NoMessage = NoMessage
  Tasks <- MCTasks
  Misconfigured = {t2}
  Paged = {"completed"}
  Own = {}
  MaxConcurrent = 1
  MaxSize = 1
  MaxSent <- One
  MaxBreaks = 1
  MaxInFlight = 1
INVARIANT ActiveTasksAreFollowed
