SPECIFICATION Spec
CONSTANTS
  W = 6
  Literal = {0, 1, 2, 3}
  Programs <- MCPrograms
  Book <- MCBook
  Pubs <- MCPubs
  Locals <- MCLocals
  Shapes = {"join"}
INVARIANT Agrees
CHECK_DEADLOCK FALSE
