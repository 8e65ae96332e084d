SPECIFICATION Spec
CONSTANTS
  SECTOR_SIZE = 21
  MAX_FOBJ_SIZE = 6
  Ids = {1, 2, 3}
  PayloadsOf <- Named
  ReadSizes = {6}
  TornSizes = {}
  Vals = {"a"}
  NoVal = "none"
PROPERTIES RepackKeepsObjects
