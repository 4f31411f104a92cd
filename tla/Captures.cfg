SPECIFICATION Spec
CONSTANTS
  x = x
  y = y
  main = main
  p = p
  putb = putb
  VarNames <- MCVarNames
  FunNames <- MCFunNames
  ProgramNames <- MCProgramNames
  DataTypes = {"bool"}
  Library <- MCLibrary
  Headers <- CaptureHeaders
  IdLists <- CaptureIdLists
  Operands <- CaptureOperands
  ArgLists <- CaptureArgLists
  StmtKinds <- CaptureKinds
  UninitBool = {TRUE, FALSE}
  None = None
  Uninit = Uninit
  MaxNodes = 7
  MaxDepth = 3
INVARIANTS TypeOK CapturesVisible ScopesAreLinked NoUninitialisedAccess OneBodyPerFunction
PROPERTY CapturesAreFinal
