SPECIFICATION RSpec
CONSTANTS
  a1 = a1  t1 = t1  t2 = t2  t3 = t3
  None = None
  Agent = {a1}
  Session = {a1}
  Trace <- MCTrace
  AgentOf <- MCAgentOf
  SessionOf <- MCAgentOf
  Sent <- MCSent
  Retention = 1
  RetentionFloor = None
  Every = None
  Interval = None
  Faults = {}
  MaxClock = 0
  MaxLines = 5
  Reader = a1
  PageLimit = 2
SYMMETRY MCSymmetry
INVARIANTS
  PagesExact
  ReadsAgree
PROPERTY
  OnlyMovedEventsMissing
