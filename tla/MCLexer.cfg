SPECIFICATION LexSpec
CONSTANTS
  DfsAllocated = 10
  Texts = {}
  Atoms <- MCAtoms
  Escapes <- NoEscapes
  Counts <- MCCounts
  Classes <- NoClasses
  Scanners <- MCScanners
  Inputs <- MCInputs
INVARIANTS
  LexTypeOK
  StatesExclusive
  PositionsAgree
PROPERTIES
  IsTokenStream
  LexEnds
