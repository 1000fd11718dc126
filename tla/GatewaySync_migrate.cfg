SPECIFICATION UsageSpec
CONSTANTS
  NoTask = NoTask
  Leaked = Leaked
  NoKey = NoKey
  Missing = Missing
  NoUrl = NoUrl
  NoRecord = NoRecord
  Tasks = {t1, t2}
  Keys = {conda, sdist, imported, other}
  Pools = {"conda", "pip"}
  conda = conda
  sdist = sdist
  imported = imported
  other = other
  c1 = c1
  c2 = c2
  u1 = u1
  s1 = s1
  w1 = w1
  Contents = {c1, c2}
  Urls = {u1, s1, w1}
  KindOf <- TheKind
  PoolOf <- ThePool
  UrlsOf <- TheUrls
  FinalsOf <- TheFinals
  FallsBack = {}
  ZeroTtl = {}
  Methods = {"GET"}
  Archives <- Honest
  Imports = {imported, other}
  Faults = {"crash"}
  MaxMisses = 2
SYMMETRY Interchangeable
INVARIANTS
  RecordHasBlob
  ReplyIsFromUrl
  MissesAreFills
PROPERTIES
  StaysCached
