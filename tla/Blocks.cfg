SPECIFICATION Spec
CONSTANTS
  MaxNodes = 8
  MaxDepth = 4
CHECK_DEADLOCK FALSE
INVARIANTS
  TypeOK
  BlocksAreClosed
  BranchesStayInside
PROPERTIES
  PerformsStatements
  Implements
