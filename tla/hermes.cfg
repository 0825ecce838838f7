SPECIFICATION Spec
CONSTANTS
  k1 = k1  k2 = k2  odd = odd  bare = bare
  f1 = f1  f2 = f2  f3 = f3
  t1 = t1  t2 = t2  t3 = t3  t4 = t4
  Invalid = Invalid  None = None  Torn = Torn
  Proc = {p1}
  Key <- MCKey
  File <- MCFile
  FileOf <- MCFileOf
  NamedBy <- MCNamedBy
  Trace <- MCTrace
  KeyOf <- MCKeyOf
  Limits = {"cut"}
  MaxCached = 1
  Feeds <- MCFeeds
  MaxRuns = 6
INVARIANTS
  CacheIsDerived
  IngestedIsSaved
PROPERTIES
  IngestedIsNoted
  ReflectionCounts
CHECK_DEADLOCK FALSE
