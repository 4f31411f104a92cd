SPECIFICATION Spec
CONSTANTS
  Vocabularies <- MCVocabularies
  MaxTokens = 20
CHECK_DEADLOCK FALSE
INVARIANTS
  ParserTypeOK
  TreeIsTheProgram
