SPECIFICATION LiveStagingSpec
CONSTANTS
  Shells = {"s1", "s2"}
  v1 = v1
  v2 = v2
  v3 = v3
  Versions = {v1, v2, v3}
  History <- Forward
  Faults = {}
  Absent = Absent
INVARIANTS
  GateAdmitsCurrent
  CleanWhenIdle
PROPERTIES
  ShellsCatchUp
