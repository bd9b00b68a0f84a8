SPECIFICATION CompileSpec
CONSTANTS
  Texts <- MCTexts
  Atoms <- MCAtoms
  Escapes <- MCEscapes
  Counts <- MCCounts
  Classes <- MCClasses
  RawLen = 4
  DfsAllocated = 2
INVARIANTS
  CompileTypeOK
  OnlyOpenEndsDangle
  EveryPathMatches
  CapturesPaired
  NothingDropped
  CopyFaithful
  CopiesCanBeNumbered
PROPERTIES
  Compiles
