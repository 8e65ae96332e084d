SPECIFICATION FairSpec
CONSTANTS
  SECTOR_SIZE = 14
  MAX_FOBJ_SIZE = 1
  Ids = {1, 3}
  PayloadsOf <- Settings
  ReadSizes = {1, 2}
  TornSizes = {1, 3, 6}
  Vals = {"a", "b"}
  NoVal = "none"
VIEW LiveFlash
INVARIANTS TypeOK WritesErasedFlash PackNeverGrows
PROPERTIES  CallsReturn
