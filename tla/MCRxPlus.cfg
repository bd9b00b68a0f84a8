SPECIFICATION RxSpec
CONSTANTS
  DfsAllocated = 10
  Texts = {}
  Atoms <- MCAtoms
  Escapes <- MCEscapes
  Counts <- MCCounts
  Classes <- NoClasses
  Expressions <- PlusExpressions
  Subjects <- MCSubjects
INVARIANTS
  ResultIsMeaning
