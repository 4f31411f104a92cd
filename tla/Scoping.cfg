SPECIFICATION CompilerSpec
CONSTANTS
  x = x
  y = y
  main = main
  p = p
  q = q
  putb = putb
  VarNames <- OneVarName
  NameOrder <- OneNameOrder
  FunNames <- MCFunNames
  ProgramNames <- MCProgramNames
  DataTypes = {"bool"}
  Library <- MCLibrary
  Headers <- NestingHeaders
  IdLists <- NestingIdLists
  Operands <- NestingOperands
  ArgLists <- NestingArgLists
  StmtKinds <- NestingKinds
  UninitBool = {FALSE}
  None = None
  Uninit = Uninit
  MaxNodes = 11
  MaxDepth = 4
INVARIANTS FunctionsAgree WellBehavedCompiles
  CallsAreClosed
