\* The run ends.
CHECK_DEADLOCK FALSE
SPECIFICATION DisplaySpec
CONSTANTS
  Subtasks = {1, 2, 3}
  Strangers = {9}
  Plans <- MCPlans
  MaxConcurrency = 2
  MaxAttempts = 2
  MaxRetries = 1
  MaxStatus = 3
INVARIANTS OutcomesStay ScreenIsRight
