SPECIFICATION StepsSpec
CONSTANTS
  StaleEventTimeout = 3
  PollInterval = 2
  PollTime = 2
  Event = {"e1", "e2"}
  Timeline = 2
  Margin = 2
  SweepInterval = 1
  MaxTime = 7
  Asker = {"poll", "timer"}
  Punctual = "timer"
  Reprobe = 3
  Backoff = 1
  AskInterval = 2
  Timeout = 2
  Command = {"c1", "c2"}
  NoCommand = "none"
  Delivery = {"d1", "d2"}
  CacheSize = 1
  MaxAge = 2
  FutureSkew = 1
  MaxSecond = 4
  Id = {"i1", "i2", "i3"}
  Url = {"u1", "u2"}
  NoId = "none"
  Voucher = {v1, v2}
  None = None
  Poll = {p}
  VoucherCommand = {k1, k2}
  MaxFetches = 3
  MaxChanges = 3
  Writer = {w1, w2}
  Cooldown = 2
  MaxLookups = 4
  MaxTicks = 4
  ToggledRule = {r}
  MaxWrites = 2
  Rule = {r1, r2}
  Content = {on}
  NoRule = NoRule
  Refresh = {f1, f2}
  BufferSize = 2
  MaxEdits = 2
  MaxEmptyAnswers = 1
  MaxReports = 3
  NetDevice = {n1}
  MaxReuse = 1
  RadioInterval = 2
  ReadTime = 1
  Speed = 1
  MaxClock = 4
  NetSite = {s1, s2}
  RuleName = {q1, q2}
  Prefix = {s1}
  PortDevice = {d1}
  PortIndex = {1, 2}
  MaxLoads = 2
  Mac = {m1}
  MaxSetups = 3
  Nothing = Nothing
  Pending = Pending
INVARIANTS
  StuckSensorHeals PanelIsTrueAgain DeliveredOnce OneEndpoint
  LookupsAreSpaced UnreadWriteIsRetried EventsReplayTheRules
  ReadingsAreHonest
PROPERTIES StoredAsLongAsNeeded OtherModeIsKept VouchersNeverGoBack
  EntitiesAreKept
CHECK_DEADLOCK FALSE
