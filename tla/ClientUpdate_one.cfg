SPECIFICATION StagingSpec
CONSTANTS
  Shells = {"s1"}
  v1 = v1
  v2 = v2
  v3 = v3
  Versions = {v1, v2, v3}
  History <- Forward
  Faults = {"network", "interrupt", "reset", "install"}
  Absent = Absent
INVARIANTS
  TypeOK
  CurrentIsComplete
  FreshStart
