SPECIFICATION FairSpec
CONSTANTS
  Threads = {t1, t2}
  Coros = {a, b}
  NoOne = NoOne
  Values = {"value"}
  Lengths = {1}
  MaxCalls = 4
  MaxRuns = 2
  Features = {}
INVARIANTS HeldByRuns Awaited FramesMatch Delivered
PROPERTY Ends
