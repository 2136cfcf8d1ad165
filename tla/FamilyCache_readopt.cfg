SPECIFICATION FairSpec
CONSTANTS
  Device = {d1}
  Family = {"cameras"}
  MaxEmptyFetches = 1
  MaxMissingPolls = 1
  MaxChanges = 2
  MaxFaults = 0
  MaxReloads = 0
PROPERTIES ObservedDevicesAreAdded
