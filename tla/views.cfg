SPECIFICATION Spec
CONSTANTS
  Views = {v0, w1, t1, t2}
  Threads = {t1, t2}
  Main = v0
  None = None
  MaxHeld = 2
  Features = {"daemon", "drop"}
INVARIANTS IdsSorted CountsViews FreedLast WaitedFor WorldUsed
SYMMETRY Symmetry
CHECK_DEADLOCK FALSE
