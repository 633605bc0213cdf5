SPECIFICATION Spec
CONSTANTS
  Subtasks <- MCSubtasks
  Strangers <- MCStrangers
  Plans <- MCPlans
  MaxConcurrency = 2
  MaxAttempts = 2
INVARIANTS
  DepsDoneBeforeRun
  ConcurrencyBound
  NoIdleSlot
  SkipsAreCascades
  ReturnsWhenSettled
PROPERTIES
  EventuallyReturns
  ImplementsContract
