SPECIFICATION FairSpec
CONSTANTS
  k1 = k1
  k2 = k2
  k3 = k3
  k4 = k4
  k5 = k5
  k6 = k6
  v1 = v1
  n1 = n1
  NULL = NULL
  Plain = {n1}
  Ref <- MCRef
  Content <- MCContent
  HashOf <- MCHash
  Keys <- MCKeys
  Vals <- MCVals
  Released <- MCReleased
  InitSize = 4
INVARIANTS
  HashtabTypeOK
  EntriesReachable
  ReferencesBalance
  NoUseAfterFree
  RehashDoesNotNest
PROPERTIES
  ImplementsDictionary
  CallsReturn
