SPECIFICATION Spec
CONSTANTS
  run1 = run1
  run2 = run2
  more = more
  prep = prep
  solve1 = solve1
  solve2 = solve2
  setup = setup
  prepare = prepare
  final = final
  early = early
  Collectors = {run1, run2, more, prep}
  Errors = {solve1, solve2, setup, prepare}
  At <- MCAt
  Links <- PlainLinks
  Readers = {final}
  ReadAt <- PlainReadAt
  Careless = {}
  NoThread = none
  NoCollector = nil
INVARIANTS
  ForwardedKeepsNothing
CHECK_DEADLOCK FALSE
