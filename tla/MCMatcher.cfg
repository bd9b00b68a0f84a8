SPECIFICATION Spec
CONSTANTS
  Programs <- MCPrograms
  Strings <- MCStrings
  CapAllocated = 1
  Viable <- MCViable
  Reached <- MCReached
INVARIANTS
  TypeOK
  PathInOrder
  NoRevisit
  NothingLost
  Leftmost
  NoMissedMatch
  MatchIsReal
  CapturesWithin
PROPERTIES
  Returns
  ImplementsContract
