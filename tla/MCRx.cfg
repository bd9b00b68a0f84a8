SPECIFICATION RxSpec
CONSTANTS
  DfsAllocated = 10
  Texts = {}
  Atoms <- MCAtoms
  Escapes <- MCEscapes
  Counts <- MCCounts
  Classes <- NoClasses
  Expressions <- MCExpressions
  Subjects <- MCSubjects
INVARIANTS
  ResultIsMeaning
PROPERTIES
  CallsReturn
