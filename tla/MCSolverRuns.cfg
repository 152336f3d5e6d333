SPECIFICATION FairSpec
CONSTANTS
  Runs = {r1, r2, r3}
  Solvers = {s1, s2, s3}
  Callbacks = {r3}
  RequireGpu = {r1}
  OptionalGpu = {r2}
  NoSolver = nil
  NoRun = free
INVARIANTS
  TypeOK
  SolversKept
  CancelIsOwn
PROPERTIES
  Answered
\* Every run ends.
CHECK_DEADLOCK FALSE
