SPECIFICATION QueriesSpec
CONSTANTS
  Pod = {p1, p2}
  Container = {c1, c2}
  Day = 24
  Hour = 8
  Minute = 2
  Lookback = 4
  Scrapes = {1, 3}
  Counts = {1, 5, 12, 24}
  Lifetimes <- MCLifetimes
  BusyTimes <- MCBusyTimes
  ObservabilityDays = {1, 2, 3}
  Nows = {100, 103}
INVARIANTS SampledThroughout DuplicatesOnlyAtBorders AverageBounded
SYMMETRY Symmetry
