SPECIFICATION LiveSpec
CONSTANTS
  NoTask = NoTask
  Leaked = Leaked
  NoKey = NoKey
  Missing = Missing
  NoUrl = NoUrl
  NoRecord = NoRecord
  Tasks = {t1, t2, t3}
  Contents = {c1}
  Pools = {"conda"}
  theKey = theKey
  u1 = u1
  u2 = u2
  Keys <- TheKeys
  Urls <- TheUrls
  KindOf <- TheKind
  PoolOf <- ThePool
  UrlsOf <- TheUrlsOf
  FinalsOf <- TheFinals
  kind = "conda"
  redirects = FALSE
  FallsBack = {}
  ZeroTtl = {}
  Methods = {"GET"}
  Faults = {}
PROPERTIES
  EveryWaiterAnswered
