SPECIFICATION Spec
CONSTANTS
  Programs <- Compiled
  Nesting = 2
  Shapes = {}
  Limit = 2
  Returns = {0, 1, 2}
  Features = {}
INVARIANTS CodeFits ScopeMatches ReturnsOwn CaughtInside NativeSees RecurseCounts
