SPECIFICATION Spec
CONSTANTS
  t1 = t1
  t2 = t2
  NoMessage = NoMessage
  Tasks <- MCTasks
  Misconfigured = {t2}
  Paged = {"completed", "queued"}
  Own = {t2}
  MaxConcurrent = 1
  MaxSize = 2
  MaxSent <- Four
  MaxBreaks = 1
  MaxInFlight = 1
CONSTRAINT Scenarios
INVARIANTS
  TypeOK
  BuffersHoldTheLatest
  CaughtUp
  BoardIsRight
  CountsAreRight
