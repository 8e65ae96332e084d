SPECIFICATION Spec
CONSTANTS
  MAX_DEV_NAME_LEN = 3
  DEV_NAME_STR <- DefaultName
  NEW_VER <- ThisVersion
  BOARD = 1
  NewNames <- None
  NewCfgs <- None
  NewTempCfgs <- None
  NewPincodes <- SomePincodes
  Keys = {k1}
  Addresses = {a1}
  InitialStores <- StoresFound
  NoVal = NoVal
PROPERTIES BootKeepsPincode
