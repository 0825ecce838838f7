SPECIFICATION Spec
CONSTANTS
  c1 = c1
  None = None
  Checker = {c1}
  Event <- MCEvent
  Rules <- MCRules
  Sample <- MCSample
  Question <- MCQuestion
  Capacity = 2
  MaxEdits = 3
INVARIANTS
  VerdictWhole
  PairDiffersOnlyOnNumbers
  PolicyInForceDecides
PROPERTIES
  NeverRegresses
  EditsTakeEffect
  ReloadsEnd
