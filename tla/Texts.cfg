SPECIFICATION Spec
CONSTANTS
  Texts <- MCTexts
  MaxDigits = 2
CHECK_DEADLOCK FALSE
INVARIANTS
  LexerTypeOK
  LineCountersAgree
  CommentsNest
  CharsAreWhole
  ThrowsOnConversions
  StringsEndAtQuotes
PROPERTY
  ScanEnds
