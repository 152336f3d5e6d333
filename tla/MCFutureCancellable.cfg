SPECIFICATION FairSpec
CONSTANTS
  Setters = {s1, s2}
  Cancellers = {c1, c2}
  Handlers = {h1, h2}
  Waiter = w
  WaitModes = {"wait", "poll", "key"}
  Values = {v}
  Empty = empty
  NoThread = none
  NoResult = nothing
INVARIANTS
  TypeOK
  ChannelNeverBlocksHolder
  HandlersFire
PROPERTIES
  Answered
  ImplementsOneShot
\* Every call returns and the program goes on elsewhere: CallsReturn and
\* WaiterServed say what must not hang.
CHECK_DEADLOCK FALSE
