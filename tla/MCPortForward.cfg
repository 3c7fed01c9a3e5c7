SPECIFICATION FairSpec
CONSTANTS
  Query = {q1, q2, q3}
  Catalogs <- MCCatalogs
  MaxAttempts = 5
  MaxFailures = 2
INVARIANTS GateMeansConnected OneConnection TargetIsBestService
PROPERTY QueriesPass
CHECK_DEADLOCK FALSE
