SPECIFICATION LiveSpec
CONSTANTS
  MaxTampers = 3
  MaxTamperTime = 3
  Caller = {"poll", "timer", "reconnect"}
  Timer = "timer"
  Reconnect = "reconnect"
  MaxLoops = 2
  Fire = {"fire1", "fire2"}
  Poll = "poll"
  Remote = "remote"
  Notice = "notice"
  Unload = "unload"
INVARIANTS NothingOwedIsForgotten NoReadAfterClose
PROPERTIES TamperIsShown CallersAreServed StopsSettleAndReturn
CHECK_DEADLOCK FALSE
