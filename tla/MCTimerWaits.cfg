SPECIFICATION Spec
CONSTANTS
  Delays <- MCDelays
  Intervals <- MCIntervals
  Callbacks = {TRUE}
  StartTimes <- MCStartTimes
  MaxTime = 5
  MaxTimers = 3
INVARIANT HardwareTimerWaits
CHECK_DEADLOCK FALSE
