SPECIFICATION Spec
CONSTANTS
  Views = {v1, v2, v3}
  Runners = {v1, v2, v3}
  NoView = NoView
  Features = {"cfunction", "exclusive"}
INVARIANTS OneOwner WorldStopped WorldInv
PROPERTY ImplementsWorldLock
SYMMETRY Symmetry
CHECK_DEADLOCK FALSE
