SPECIFICATION FairSpec
CONSTANTS
  Files <- MCFiles
  Modes = {"TIMED", "FLOOD", "STEP"}
  TicksPerMs = 2
  SpeedNum = 2
  SpeedDen = 3
  BatchSize = 2
  FloodBatch = 2
  FloodRest = 1
  Span = 7
  MaxCalls = 3
INVARIANT OneFloodPerStart
CHECK_DEADLOCK FALSE
