SPECIFICATION FairSpec
CONSTANTS
  Blocks = 2
  ErasedBlocks = 1
  Versions = {0, 1}
  Offered = 1
  Found <- OldDevices
  OTA_RETRY_MAX = 2
  MSG_QUEUE_LEN = 4
  MaxLost = 1
  Tolerated = 1
  MaxPowerLosses = 1
INVARIANTS ReceivedInOrder StopAndWait
PROPERTIES ImplementsSlot UpdateCompletes BothStop
