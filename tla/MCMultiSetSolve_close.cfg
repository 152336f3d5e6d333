SPECIFICATION Spec
CONSTANTS
  Initial = initial
  Blocks = {b1, b2}
  Threads = {t1, t2}
  Targets = {0, 2}
  Interim = TRUE
  NoBlock = nil
INVARIANT
  NeverPanics
\* The job ends.
CHECK_DEADLOCK FALSE
