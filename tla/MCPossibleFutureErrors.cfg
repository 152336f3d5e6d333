SPECIFICATION FairSpec
CONSTANTS
  run1 = run1
  run2 = run2
  more = more
  prep = prep
  solve1 = solve1
  solve2 = solve2
  setup = setup
  prepare = prepare
  final = final
  early = early
  Collectors = {run1, run2, more, prep}
  Errors = {solve1, solve2, setup, prepare}
  At <- MCAt
  Links <- MCLinks
  Readers = {final, early}
  ReadAt <- MCReadAt
  Careless <- MCCareless
  NoThread = none
  NoCollector = nil
INVARIANTS
  TypeOK
  Conserved
  ReportIsFinal
PROPERTIES
  CallsReturn
\* Every call is made once, and then nothing is left to do; a panic stops the
\* program.
CHECK_DEADLOCK FALSE
