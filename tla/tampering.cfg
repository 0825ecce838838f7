SPECIFICATION Spec
CONSTANTS
  a1 = a1  a2 = a2  t1 = t1  t2 = t2  t3 = t3
  None = None
  Agent <- MCAgent
  Trace <- MCTrace
  AgentOf <- MCAgentOf
  key1 = key1  key2 = key2
  StoreKeys <- MCStoreKeys
  OtherKey = OtherKey
  Settings <- MCSettings
  MaxClock = 1
  MaxEdits = 2
  MaxCheckpoints = 2
SYMMETRY MCSymmetry
VIEW MCView
INVARIANTS
  ArchivedHeadPins
  EditLocated
  OnlyTheEndMayBeMissing
  SignedOnlyIfIssued
  
