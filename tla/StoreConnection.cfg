SPECIFICATION LiveSpec
CONSTANTS
  hit = hit
  usage = usage
  page = page
  other = other
  archive = archive
  OnLoop = {hit, usage}
  Renders = {page, other}
  Imports = {archive}
  Rows <- TheRows
  RowsOf <- TheRowsOf
  Faults = {"crash"}
  NoCall = NoCall
INVARIANTS
  TypeOK
  AckedIsCommitted
PROPERTIES
  EveryCallEnds
