SPECIFICATION Spec
CONSTANTS
  Vars <- OneVar
  DeclTypes <- TwoDeep
  UninitSize = {0}
  MaxNodes = 9
  MaxStack = 3
CHECK_DEADLOCK FALSE
INVARIANT VariablesConform
