SPECIFICATION Spec
CONSTANTS
  sim = sim
  solve = solve
  t1 = t1
  t2 = t2
  t3 = t3
  Clients = {sim, solve}
  Tasks = {t1, t2, t3}
  Owner <- MCOwner
  ContinueOnError = {solve}
  Workers = {w1, w2, w3}
  MaxThreads = 1
  Control = control
  NoThread = none
  NoTask = nothing
SYMMETRY Symmetric
INVARIANTS
  WaitMeansComplete
CHECK_DEADLOCK FALSE
