SPECIFICATION CompilerSpec
CONSTANTS
  x = x
  y = y
  main = main
  p = p
  q = q
  putb = putb
  VarNames <- MCVarNames
  NameOrder <- MCNameOrder
  FunNames <- TwoFunNames
  ProgramNames <- MCProgramNames
  DataTypes = {"bool"}
  Library <- MCLibrary
  Headers <- SignatureHeaders
  IdLists <- SignatureIdLists
  Operands <- SignatureOperands
  ArgLists <- SignatureArgLists
  StmtKinds <- SignatureKinds
  UninitBool = {FALSE}
  None = None
  Uninit = Uninit
  MaxNodes = 8
  MaxDepth = 3
INVARIANTS WellBehavedCompiles LexicalWithoutShadowing
