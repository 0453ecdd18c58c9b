SPECIFICATION FairSpec
CONSTANTS
  Delays <- MCDelays
  Intervals <- MCIntervals
  Callbacks = {TRUE, FALSE}
  StartTimes <- MCStartTimes
  MaxTime = 5
  MaxTimers = 3
INVARIANTS
  TypeOK
  IndexConsistent
  TimersDistinct
  NoLostWakeup
  NeverEarly
  FiresInOrder
  CancelledNeverFires
PROPERTIES
  NoTimerLost
  EventuallyRuns
  ImplementsService
CHECK_DEADLOCK FALSE
