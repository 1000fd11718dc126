SPECIFICATION Spec
CONSTANTS
  NoTask = NoTask
  Leaked = Leaked
  NoKey = NoKey
  Missing = Missing
  NoUrl = NoUrl
  NoRecord = NoRecord
  Tasks = {t1, t2}
  Contents = {c1, c2}
  Pools = {"conda"}
  main = main
  legacy = legacy
  u1 = u1
  u2 = u2
  Keys <- TheKeys
  Urls <- TheUrls
  KindOf <- TheKind
  PoolOf <- ThePool
  UrlsOf <- TheUrlsOf
  FinalsOf <- TheFinals
  FallsBack = {main}
  ZeroTtl = {}
  Methods = {"GET"}
  Faults = {"crash", "commit", "abandon"}
SYMMETRY Interchangeable
INVARIANTS
  TypeOK
  SingleFlight
  Provenance
  RecordHasBlob
  FetchOnlyMissing
  ReplyMatchesRow
PROPERTIES
  ImmutableArchive
  KeepsArchives
