SPECIFICATION FairSpec
CONSTANTS
  lock = lock
  rlock = rlock
  semaphore = semaphore
  monitor = monitor
  thread = thread
  Threads = {t1, t2}
  Locks = {}
  RLocks = {rlock}
  Semaphores = {semaphore}
  Monitors = {monitor}
  Joined = {thread}
  Over <- MCOwn
  Permits = 1
  MaxCount = 2
  MaxCalls = 2
  None = None
  Features = {"untimed"}
INVARIANTS HoldsExactly PermitsConserved
PROPERTY CallsEnd
CHECK_DEADLOCK FALSE
