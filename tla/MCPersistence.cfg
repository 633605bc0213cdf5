SPECIFICATION Spec
CONSTANTS
  t1 = t1
  t2 = t2
  t3 = t3
  c1 = c1
  Tasks <- MCTasks
  Misconfigured <- MCMisconfigured
  Unnumbered <- MCUnnumbered
  CliRuns <- MCCliRuns
  CliOutcomes = {"completed"}
  MaxConcurrent = 1
  MaxNumber = 3
SYMMETRY MCSymmetry
INVARIANTS
  TypeOK
  WorkIsSavedOnce
  OutcomesAreSaved
  NumbersAreDistinct
PROPERTIES
  NumbersAreKept
  ShutdownReachesAll
