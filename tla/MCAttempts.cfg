\* A run may end for good, and processes with it.
CHECK_DEADLOCK FALSE
CONSTANTS
  Subtasks = {1, 2}
  Plans <- MCPlans
  Complex = 2
  MaxAttempts = 2
  MaxRetries = 1
  MaxDepth = 1
  Runs = {1, 2, 3}
  MaxStrays = 1
SPECIFICATION FairSpec
INVARIANTS AttemptsAreUsedUp SuccessIsTraceable Supervised
PROPERTY EventuallySettles
