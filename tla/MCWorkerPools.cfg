SPECIFICATION PoolsSpec
CONSTANTS
  sim = sim
  solve = solve
  t1 = t1
  t2 = t2
  t3 = t3
  Clients = {sim, solve}
  Tasks = {t1, t2, t3}
  Owner <- MCOwner
  ContinueOnError = {solve}
  Workers = {w1, w2, w3}
  MaxThreads = 1
  Control = control
  NoThread = none
  NoTask = nothing
  Threads = {main, x, y}
  MainThread = main
  StartCount = 2
  TypeCount = 1
  MaxNodeDepth = 2
  MaxFollowups = 2
  Objects = {b1, b2, b3, b4, b5, b6}
  FirstBound = b1
  NoBound = nobound
  Unlocked = unlocked
  CullThreads = {c1, c2}
  Target = 4
  PoolThreads = {p1, p2}
  InputCount = 3
  g1 = g1
  g2 = g2
  g3 = g3
  g4 = g4
  Candidates = {g1, g2, g3, g4}
  Ratings <- MCRatings
  Rankings = {r1, r2}
  Limit = 2
  MaxOffers = 5
SYMMETRY PoolsSymmetric
INVARIANTS
  PoolsTypeOK
  TasksRight
  OnePlace
  NothingLeft
  LockOrder
  CullInRange
  PoolReturns
  PoolGoesOn
  BestAreKept
