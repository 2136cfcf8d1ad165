SPECIFICATION OutletSpec
CONSTANTS
  Outlet = {o1, o2}
  Cycling = {o1}
  Guard = 2
  MaxLag = 1
  MaxOutletChanges = 2
PROPERTY CycleKeepsTheRelay
CHECK_DEADLOCK FALSE
