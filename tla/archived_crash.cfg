SPECIFICATION Spec
CONSTANTS
  a1 = a1  a2 = a2  s1 = s1  s2 = s2  s3 = s3
  t1 = t1  t2 = t2  t3 = t3  t4 = t4  t5 = t5
  None = None
  Agent <- MCAgent
  Session <- MCSession
  Trace <- Four
  AgentOf <- AgentOfAll
  SessionOf <- SessionOfAll
  Sent <- SentEarly
  Retention = 1
  RetentionFloor = None
  Every = None
  Interval = None
  Faults = {}
  MaxClock = 0
  MaxLines = 6
INVARIANT
  LiveEventsLinked
