SPECIFICATION FairSpec
CONSTANTS
  Device = {d1, d2}
  Family = {"sensors", "sirens"}
  MaxEmptyFetches = 1
  MaxMissingPolls = 2
  MaxChanges = 1
  MaxFaults = 3
  MaxReloads = 1
PROPERTIES RemovalsAreEarned CacheConverges StaleDevicesLeave
