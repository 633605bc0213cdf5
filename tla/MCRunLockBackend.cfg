SPECIFICATION Spec
CONSTANTS
  r1 = r1
  r2 = r2
  r3 = r3
  r4 = r4
  backend = backend
  cli = cli
  laterCli = laterCli
  Runs <- BackendRuns
  Processes <- BackendProcesses
  ProcOf <- BackendProcOf
INVARIANT
  MutualExclusion
