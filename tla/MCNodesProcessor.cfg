SPECIFICATION FairSpec
CONSTANTS
  Worker = {w1, w2, w3}
  Node = {"n1", "n2", "n3"}
  Managed = {"n1", "n2"}
  Readers = 4
  MaxRetry = 1
INVARIANTS WholeListing CostsAreNotLost
PROPERTY ReadersProceed
CHECK_DEADLOCK FALSE
