SPECIFICATION Spec
CONSTANTS
  ClassTexts <- TwoByteTexts
  ClassTests <- MCTests
  Literals <- MCLiterals
  UnicodeDigits <- TwoByteUnicode
  NamedSets <- MCSets
  QuantTexts <- MCQuantTexts
  Digits <- MCDigits
  IntMax = 127
  ClassLen = 2
  QuantLen = 4
INVARIANTS
  ClassMeans
