SPECIFICATION MCSpec
CONSTANTS
  p1 = p1
  p2 = p2
  p3 = p3
  tank = tank
  dps = dps
  Proposals = {p1, p2, p3}
  Labels = {tank, dps}
  SimJob <- MCSimJob
  Mergers = {m1, m2}
  Simulators = {s1, s2}
  Free = free
  Nil = nil
SYMMETRY Symmetric
INVARIANTS
  TypeOK
  MergedRight
  ReportComplete
  NeverStuck
