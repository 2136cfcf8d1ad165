SPECIFICATION PollsSpec
CONSTANTS
  Group = {"door"}
  Door = "door"
  MaxWsRecencyPreservePolls = 2
  MaxDoorStatePreservePolls = 1
  MaxChanges = 2
  MaxTime = 2
  Outlet = {o1, o2}
  Cycling = {o1}
  Guard = 1
  MaxLag = 0
  MaxOutletChanges = 2
  Device = {d1, d2}
  MaxMissing = 2
PROPERTIES RestNeverUndoesAFrame CacheKeepsCatchingUp
  WritesKeepEachOther ShowsTheController RemovalNeedsEvidence GoneDevicesLeave
