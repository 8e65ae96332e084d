SPECIFICATION Spec
CONSTANTS
  Wrap = 4
  HOLD = 2
  WINDOW = 1
  MaxSleep = 1
  Stall = 0
  Intervals = {0}
  Volts = {1, 2}
  Temps = {1, 2}
  Subscriptions <- AnySubscription
  MaxPresses = 1
  Hands <- Button
INVARIANTS BeaconCurrent NotifiedNewest EventShowsKey
