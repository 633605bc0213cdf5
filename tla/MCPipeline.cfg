SPECIFICATION Spec
CONSTANTS
  NoPlan = NoPlan
  NoVerdict = NoVerdict
  Subtasks <- MCSubtasks
  Strangers <- MCStrangers
  Pipelines <- MCPipelines
  Proposals <- MCProposals
  Verdicts <- MCVerdicts
  AutoApprove = FALSE
  MaxConcurrency = 2
  MaxRetries = 2
INVARIANTS
  SuccessIsVerified
  NothingRunsUnapproved
  NoSkipLeftBehind
  GivesUpOnlyWhenDone
PROPERTIES
  EventuallySettles
  ImplementsRunContract
