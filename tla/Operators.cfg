SPECIFICATION Spec
CONSTANTS
  Vars <- MCVars
  DeclTypes <- MixedTypes
  UninitSize = {0, 1}
  MaxNodes = 8
  MaxStack = 3
CHECK_DEADLOCK FALSE
INVARIANTS
  ExpressionsTypeOK
  ElementsConform
  AnyStaysNested
  CompiledToItsType
  FailsOnlyOn
