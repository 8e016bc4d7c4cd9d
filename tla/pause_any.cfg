SPECIFICATION Spec
CONSTANTS
  Views = {v1, v2}
  Runners = {v1, v2}
  NoView = NoView
  Features = {"cfunction", "block", "exclusive", "callback", "halt", "hostcollect", "spread"}
INVARIANT PauseHasOwner
SYMMETRY Symmetry
CHECK_DEADLOCK FALSE
