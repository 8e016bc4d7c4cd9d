SPECIFICATION Spec
CONSTANTS
  W = 6
  Literal = {0, 1, 2, 3}
  Programs <- MCPrograms
  Book <- MCBook
  Pubs <- MCPubs
  Locals <- MCLocals
  Shapes = {}
INVARIANT Agrees
INVARIANT Defined
CHECK_DEADLOCK FALSE
