SPECIFICATION FairAverageSpec
CONSTANTS
  COUNT = 4
  Lo <- Below
  Hi <- Above
INVARIANTS TypeOK SumBounded AverageInRange
PROPERTIES Converges
