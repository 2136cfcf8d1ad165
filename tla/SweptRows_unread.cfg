SPECIFICATION SweptSpec
CONSTANTS
  NetSite = {s1, s2}
  RuleName = {q1, q2}
  Prefix = {s1}
  PortDevice = {d1}
  PortIndex = {1, 2}
  MaxLoads = 2
PROPERTY UnreadPortsAreKept
CHECK_DEADLOCK FALSE
