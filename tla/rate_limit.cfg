SPECIFICATION Spec
CONSTANTS
  r1 = r1  r2 = r2
  Thread = {r1, r2}
  Limit = 2
  LastSecond = 2
  MaxRequests = 12
SYMMETRY MCSymmetry
INVARIANTS
  SlackBounded
\* A second and a number of requests are all that is modelled: they run out.
CHECK_DEADLOCK FALSE
