SPECIFICATION FairSpec
CONSTANTS
  Initial = initial
  Blocks = {b1, b2}
  Threads = {t1, t2}
  Targets = {0, 2}
  Interim = TRUE
  NoBlock = nil
INVARIANTS
  TypeOK
  ClosedLast
  ResultsTold
  NoneLeftRunning
PROPERTIES
  ResultsEnd
\* The job ends.
CHECK_DEADLOCK FALSE
