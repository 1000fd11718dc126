SPECIFICATION Spec
CONSTANTS
  NoTask = NoTask
  Leaked = Leaked
  NoKey = NoKey
  Missing = Missing
  NoUrl = NoUrl
  NoRecord = NoRecord
  Tasks = {t1}
  Contents = {c1, c2}
  Pools = {"conda"}
  theKey = theKey
  u1 = u1
  u2 = u2
  Keys <- TheKeys
  Urls <- TheUrls
  KindOf <- TheKind
  PoolOf <- ThePool
  UrlsOf <- TheUrlsOf
  FinalsOf <- TheFinals
  kind = "index"
  redirects = FALSE
  FallsBack = {}
  ZeroTtl = {}
  Methods = {"GET"}
  Faults = {}
PROPERTIES
  FreshnessIsEarned
