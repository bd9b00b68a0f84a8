SPECIFICATION CompileSpec
CONSTANTS
  Texts <- LazyTexts
  Atoms <- MCAtoms
  Escapes <- MCEscapes
  Counts <- MCCounts
  Classes <- MCClasses
  RawLen = 4
  DfsAllocated = 2
INVARIANTS
  CopyFaithful
