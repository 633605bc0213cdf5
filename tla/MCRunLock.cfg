SPECIFICATION Spec
CONSTANTS
  r1 = r1
  r2 = r2
  r3 = r3
  r4 = r4
  backend = backend
  cli = cli
  laterCli = laterCli
  Runs <- MixedRuns
  Processes <- MixedProcesses
  ProcOf <- MixedProcOf
INVARIANTS
  LockIsAccountedFor
  LoneRunGetsTheLock
  ExclusiveUnlessRobbed
