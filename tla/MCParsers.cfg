SPECIFICATION Spec
CONSTANTS
  ClassTexts <- MCClassTexts
  ClassTests <- MCTests
  Literals <- MCLiterals
  UnicodeDigits <- MCUnicode
  NamedSets <- MCSets
  QuantTexts <- MCQuantTexts
  Digits <- MCDigits
  IntMax = 127
  ClassLen = 2
  QuantLen = 4
INVARIANTS
  ParsersTypeOK
  SecondPassFits
  ClassMeans
  QuantMeans
