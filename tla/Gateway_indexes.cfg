SPECIFICATION LiveSpec
CONSTANTS
  NoTask = NoTask
  Leaked = Leaked
  NoKey = NoKey
  Missing = Missing
  NoUrl = NoUrl
  NoRecord = NoRecord
  Tasks = {t1, t2}
  Contents = {c1}
  Pools = {"conda"}
  page = page
  now = now
  u1 = u1
  u2 = u2
  cdn = cdn
  Keys <- TheKeys
  Urls <- TheUrls
  KindOf <- TheKind
  PoolOf <- ThePool
  UrlsOf <- TheUrlsOf
  FinalsOf <- TheFinals
  FallsBack = {}
  ZeroTtl = {now}
  Methods = {"GET"}
  Faults = {"commit", "loss"}
PROPERTIES
  RenewedAlongUrls
  EveryWaiterAnswered
