SPECIFICATION FairSpec
CONSTANTS
  Inputs = {VBAT, TEMPERATURE}
  ADC_BUF_COUNT = 8
  Good = {3}
  Disturbed <- LowOrHigh
  MaxDisturbed = 2
  None = None
INVARIANTS SamplesAreFresh MiddleResists
PROPERTIES Returns
