SPECIFICATION ImportSpec
CONSTANTS
  NoTask = NoTask
  Leaked = Leaked
  NoKey = NoKey
  Missing = Missing
  NoUrl = NoUrl
  NoRecord = NoRecord
  NoImport = NoImport
  Tasks = {t1, t2}
  c1 = c1
  c2 = c2
  Contents = {c1, c2}
  Pools = {"conda", "pip"}
  simple = simple
  wheel = wheel
  twin = twin
  conda = conda
  import = import
  u1 = u1
  cdn = cdn
  channel = channel
  file1 = file1
  file2 = file2
  Keys <- TheKeys
  Urls <- TheUrls
  KindOf <- TheKind
  PoolOf <- ThePool
  UrlsOf <- TheUrlsOf
  FinalsOf <- TheFinals
  FallsBack = {}
  ZeroTtl = {}
  Methods = {"GET"}
  Faults = {"crash"}
  Imports = {import}
  LinksIn <- TheLinks
  NameOf <- TheNames
  Files = {wheel, twin, import}
  MaxRendered = 1
  CondaImports = {conda}
  ContentOf <- TheContent
  FileUrl <- TheFile
SYMMETRY Interchangeable
VIEW Essentials
INVARIANTS
  PagesTypeOK
  PageLinksWork
  ImportsAreShown
  ImportsAreLocal
  FinishedIsServed
