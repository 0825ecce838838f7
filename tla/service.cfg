SPECIFICATION Spec
CONSTANTS
  b1 = b1  b2 = b2  other = other
  t1 = t1  t2 = t2  a1 = a1  a2 = a2  s1 = s1  s2 = s2
  None = None  Err = Err
  Batch <- MCBatch
  Trace <- MCTrace
  Body <- MCBody
  AgentOf <- MCAgentOf
  SessionOf <- MCSessionOf
  Sent <- MCSent
  PoolSizes <- MCPoolSizes
  Request <- MCRequest
  Limit = 1
INVARIANTS
  BatchesWhole
  MetricsExact
  AcknowledgedAreCovered
  ListsAlike
PROPERTIES
  ImplementsContract
  EveryRequestAnswered
CHECK_DEADLOCK FALSE
