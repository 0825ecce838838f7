SPECIFICATION Spec
CONSTANTS
  a1 = a1  a2 = a2  s1 = s1  s2 = s2  s3 = s3
  t1 = t1  t2 = t2  t3 = t3  t4 = t4  t5 = t5
  None = None
  Agent <- MCAgent
  Session <- MCSession
  Trace <- Three
  AgentOf <- AgentOfThree
  SessionOf <- SessionOfThree
  Sent <- SentEarly
  Retention = None
  RetentionFloor = None
  Every = 2
  Interval = 2
  Faults = {}
  MaxClock = 2
  MaxLines = 4
INVARIANTS
  LiveEventsLinked
  OneEntryPerEvent
  ChainFollowsLog
  NoFalseAnomaly
