SPECIFICATION FairSpec
CONSTANTS
  s1 = s1
  s2 = s2
  gear = gear
  extra = extra
  Solves = {s1, s2}
  Values = {gear}
  Extras = {extra}
  GroupOf <- MCGroupOf
  Most = 1
  Shutdown = shutdown
  Free = free
INVARIANTS
  TypeOK
  ShutdownLast
PROPERTIES
  CountTold
  Ends
\* The program stops when both channels are closed, on a panic or in a deadlock.
CHECK_DEADLOCK FALSE
