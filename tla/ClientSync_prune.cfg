SPECIFICATION LiveSpec
CONSTANTS
  Scripts = {"s1", "s2"}
  Archives = {"w1", "w2", "h", "p"}
  Late = {"w2", "p"}
  Listed = {"w1", "w2", "p"}
  Accepted = {"w1", "w2", "h", "p"}
  SameSdist = TRUE
  Faults = {"lost", "stop"}
  Prune = TRUE
  None = None
  CacheOf <- Mine
  KindOf <- Kinds
  ShaOf <- Itself
  KeyOf <- Itself
  OriginOf <- FromUrl
INVARIANTS
  TypeOK
  NothingLost
  PrunedIsServed
PROPERTIES
  EveryRunEnds
