SPECIFICATION FairSpec
CONSTANTS
  Blocks = 2
  ErasedBlocks = 1
  Versions = {0, 1, 2}
  Offered = 1
  Found <- Blanked
  FW_UPDATE_RETRY_MAX = 1
  MSG_QUEUE_LEN = 3
  PHY_RX_BUF_NUM = 2
  MaxLost = 1
  MaxRaces = 1
  AfterMisread = FALSE
INVARIANTS ReceivedInOrder
PROPERTIES ImplementsSlot OnlyForward UpdateCompletes
