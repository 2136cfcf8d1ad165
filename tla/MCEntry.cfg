SPECIFICATION EntrySpec
CONSTANTS
  Entry = {e1, e2}
  Key = {k1, k2}
  None = None
  MaxAccounts = 4
  MaxRekeys = 2
  RemoteEntries = 3
  CloudKey = {k1, k2}
  NoKey = NoKey
  MaxUserChanges = 2
  Retries = 3
  MaxRefreshFailures = 1
  LocalEntry = {e1, e2}
  Console = {c1, c2}
  Host = {h1, h2}
  NoId = NoId
  MaxEdits = 4
  Row = {r1, r2}
  Namespace = {n1, n2}
  Unset = Unset
  MaxFaults = 2
  MaxTransitions = 2
INVARIANTS RowsFollowTheEntry
PROPERTIES AccountsAreLeased ImplementsSolePoller HandedOver SetupIsSound IdentityIsKept
CHECK_DEADLOCK FALSE
