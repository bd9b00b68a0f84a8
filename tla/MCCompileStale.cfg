SPECIFICATION CompileSpec
CONSTANTS
  Texts <- StaleTexts
  Atoms <- MCAtoms
  Escapes <- MCEscapes
  Counts <- MCCounts
  Classes <- MCClasses
  RawLen = 4
  DfsAllocated = 2
PROPERTIES
  Compiles
CHECK_DEADLOCK FALSE
