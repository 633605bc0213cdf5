SPECIFICATION Spec
CONSTANTS
  t1 = t1
  t2 = t2
  t3 = t3
  t4 = t4
  Tasks <- MCTasks
  Misconfigured <- MCMisconfigured
  MaxConcurrent = 2
INVARIANT
  RunsWithinBound
