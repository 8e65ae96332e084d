SPECIFICATION Spec
CONSTANTS
  Blocks = 2
  ErasedBlocks = 1
  Versions = {1, 2}
  Offered = 1
  Found <- NewDevices
  OTA_RETRY_MAX = 2
  MSG_QUEUE_LEN = 4
  MaxLost = 1
  Tolerated = 1
  MaxPowerLosses = 0
PROPERTIES OnlyForward
