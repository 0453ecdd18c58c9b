SPECIFICATION FairSpec
CONSTANTS
  f0 = f0
  f1 = f1
  s1 = s1
  n1 = n1
  n2 = n2
  timerTag = timerTag
  h1 = h1
  a = a
  b = b
  none = none
  freed = freed
  FastFds = {f0, f1}
  SlowFds = {s1}
  Nodes = {n1, n2}
  Callbacks = {h1}
  TimerFd = f0
  TimerTag = timerTag
  Tasks = {a, b}
  Timeouts <- MCTimeouts
  MaxEvents = 2
  MaxQueue = 2
  None = none
  Freed = freed
INVARIANT InterestHasHandler
PROPERTIES
  NoFastCallAfterRemove
  TasksAreFifo
  RunOnceTerminates
  ReadyIsServed
CHECK_DEADLOCK FALSE
