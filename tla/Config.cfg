SPECIFICATION Spec
CONSTANTS
  MAX_DEV_NAME_LEN = 3
  DEV_NAME_STR <- DefaultName
  NEW_VER <- ThisVersion
  BOARD = 1
  NewNames <- FewNames
  NewCfgs <- SomeCfgs
  NewTempCfgs <- SomeTempCfgs
  NewPincodes <- FewPincodes
  Keys = {k1, k2}
  Addresses = {a1, a2}
  InitialStores <- StoresFound
  NoVal = NoVal
SYMMETRY Symmetry
INVARIANTS TypeOK InForceIsSaved ConfigUsable StackIsCurrent SettingsAreOwn
PROPERTIES BootKeepsSettings
