SPECIFICATION Spec
CONSTANTS
  Requester = {"poll", "timer"}
  RequestTimeout = 1
  StopGuardTTL = 2
  StartMayBeAbsent = FALSE
  MaxRuns = 1
  MaxFrames = 0
  MaxStops = 1
INVARIANTS StoppedRunStaysOff
CHECK_DEADLOCK FALSE
