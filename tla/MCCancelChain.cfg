SPECIFICATION FairSpec
CONSTANTS
  job = job
  limit = limit
  outer = outer
  inner = inner
  other = other
  key = key
  timer = timer
  Signals = {job, limit}
  Futures = {outer, inner, other}
  Links <- MCLinks
  Maps <- MCMaps
  Solved = {inner, other}
  Cancellers = {key, timer}
  Target <- MCTarget
  Rank <- MCRank
  NoThread = none
INVARIANTS
  TypeOK
  WaitsDownwards
  CancelExact
  ClosedAfterHandlers
PROPERTIES
  AllSettle
\* Every call returns in the end, and then nothing is left to do.
CHECK_DEADLOCK FALSE
