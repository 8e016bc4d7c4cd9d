SPECIFICATION Spec
CONSTANTS
  Views = {v1, v2}
  World = World
  Ents = {e1, e2, e3, e4}
  None = None
  MarkDepth = 1
  Recurse = 2
  MaxDepth = 1
  MaxRefs = 2
  MaxLoad = 4
  Features = {}
INVARIANTS NothingDangles CountsCover MarkingEnds
PROPERTY ImplementsStore
SYMMETRY Symmetry
