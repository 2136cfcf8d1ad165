SPECIFICATION Spec
CONSTANTS
  Device = {d1, d2}
  Family = {"cameras"}
  MaxEmptyFetches = 3
  MaxMissingPolls = 3
  MaxChanges = 0
  MaxFaults = 5
  MaxReloads = 0
PROPERTIES FailedFetchIsNoEvidence
