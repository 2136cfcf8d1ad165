SPECIFICATION FairSpec
CONSTANTS
  Requester = {"poll", "timer"}
  RequestTimeout = 1
  StopGuardTTL = 1
  StartMayBeAbsent = TRUE
  MaxRuns = 2
  MaxFrames = 1
  MaxStops = 1
INVARIANTS AnswersNeverUndoAFrame StopHoldsWithOneReader
PROPERTIES ShowsTheConsole
CHECK_DEADLOCK FALSE
