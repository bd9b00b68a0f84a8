SPECIFICATION Spec
CONSTANTS
  Keys <- MCKeys
  Values = {1, 2}
  Hash <- MCHash
  InitAllocated = 2
  NoKey = NoKey
  NoValue = NoValue
INVARIANTS
  TypeOK
  FoundWhereLooked
  EverySearchEnds
PROPERTY IsDictionary
