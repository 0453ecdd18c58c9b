SPECIFICATION UdpSpec
CONSTANTS
  f0 = f0
  f1 = f1
  f2 = f2
  r1 = r1
  r2 = r2
  timerTag = timerTag
  none = none
  freed = freed
  FastFds = {f0, f1, f2}
  SlowFds = {}
  Nodes = {}
  Callbacks <- MCCallbacks
  TimerFd = f0
  TimerTag = timerTag
  Tasks = {}
  Timeouts <- MCTimeouts
  MaxEvents = 2
  MaxQueue = 0
  None = none
  Freed = freed
  Receivers = {r1, r2}
  Ports = {1, 2}
  Sizes = {0, 2}
  BufferSize = 1
  BatchSize = 2
  MaxFds = 2
  EpollErrors = {FALSE}
  SharedPorts = FALSE
  MaxSubs = 3
  MaxPackets = 3
SYMMETRY MCSymmetry
INVARIANTS
  UdpTypeOK
  ReceiverAlive
  ReadsOwnSocket
  DeliveredInOrder
CHECK_DEADLOCK FALSE
