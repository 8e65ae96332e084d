SPECIFICATION FairSpec
CONSTANTS
  Wrap = 6
  HOLD = 3
  WINDOW = 2
  MaxSleep = 2
  Stall = 1
  Intervals = {1, 3}
  Volts = {1}
  Temps = {1}
  Subscriptions <- NoSubscription
  MaxPresses = 2
  Hands <- Button
INVARIANTS TypeOK HoldResets MeasuredInTime
PROPERTIES ResetOnlyAfterHold OneResetPerHold FastAdvEnds
