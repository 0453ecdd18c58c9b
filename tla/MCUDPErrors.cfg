SPECIFICATION FairUdpSpec
CONSTANTS
  f0 = f0
  f1 = f1
  f2 = f2
  r1 = r1
  r2 = r2
  timerTag = timerTag
  none = none
  freed = freed
  FastFds = {f0, f1, f2}
  SlowFds = {}
  Nodes = {}
  Callbacks <- MCCallbacks
  TimerFd = f0
  TimerTag = timerTag
  Tasks = {}
  Timeouts <- MCTimeouts
  MaxEvents = 2
  MaxQueue = 0
  None = none
  Freed = freed
  Receivers = {r1, r2}
  Ports = {1}
  Sizes = {1}
  BufferSize = 1
  BatchSize = 1
  MaxFds = 0
  EpollErrors = {TRUE, FALSE}
  SharedPorts = TRUE
  MaxSubs = 3
  MaxPackets = 2
INVARIANT SocketsOwned
PROPERTY EveryPacketReceived
CHECK_DEADLOCK FALSE
