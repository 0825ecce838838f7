SPECIFICATION Spec
CONSTANTS
  c1 = c1  c2 = c2
  strict = strict  lax = lax  other = other
  None = None  Fallback = Fallback
  Call <- MCCall
  Sdks = {"python"}
  Policy <- MCPolicy
  Ruling <- MCRuling
  Asked <- MCAsked
INVARIANTS
  AcceptedIsStored
  RecordNamesTheRuler
  OnlyTheGuardianDecides
CHECK_DEADLOCK FALSE
