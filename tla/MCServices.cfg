SPECIFICATION ServiceSpec
CONSTANTS
  ProtectConsole = {p1, p2}
  Chime = {h1}
  Camera = {a1, a2}
  RingOnly = {a2}
  Title = {t1}
  TitleOf <- SameTitle
  Nowhere = Nowhere
  MaxMoves = 1
  NetConsole = {n1, n2}
  Site = {s1, s2}
  Device = {d1}
  Client = {x1}
  Unread = Unread
  NoSite = NoSite
  MaxNetMoves = 1
  Guest = {g1, g2}
  Spot = {s1, s2}
  SpotOf <- SpotNo
  MaxChanges = 2
  PlanSite = {s1, s2}
  AnySite = AnySite
  NoMatch = NoMatch
  MaxPublished = 2
  CarrierEntry = {f1, f2}
  Subscriber = {u1, u2}
  NoEntry = NoEntry
  MaxCarrierWork = 3
  Stream = {b1, b2}
  KindsOf <- KindsShown
  Gear = {w0, w1}
  Gateways = {w0}
  DeviceLists <- SomeLists
  Roamer = {r1}
  Hole = {o1, o2}
  NoUplink = NoUplink
  MaxDashboardWork = 2
INVARIANTS CallsAreRouted
PROPERTIES BatchesAreComplete ViewIsCurrent StreamsAreTrue CarrierCallsAreSound
CHECK_DEADLOCK FALSE
