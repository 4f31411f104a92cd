SPECIFICATION CompilerSpec
CONSTANTS
  x = x
  y = y
  main = main
  p = p
  q = q
  putb = putb
  VarNames <- MCVarNames
  NameOrder <- MCNameOrder
  FunNames <- PutbFunNames
  ProgramNames <- MCProgramNames
  DataTypes = {"bool", "int"}
  Library <- PutbLibrary
  Headers <- WideHeaders
  IdLists <- WideIdLists
  Operands <- WideOperands
  ArgLists <- WideArgLists
  StmtKinds <- WideKinds
  UninitBool = {TRUE, FALSE}
  None = None
  Uninit = Uninit
  MaxNodes = 6
  MaxDepth = 3
INVARIANTS CompilerTypeOK FunctionsAgree
  ReturnsMatchFunctions
