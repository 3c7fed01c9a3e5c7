SPECIFICATION Spec
CONSTANTS
  d = d
  r1 = r1
  r2 = r2
  r3 = r3
  bare = bare
  p1 = p1
  p2 = p2
  p3 = p3
  Pod = {p1, p2}
  Deployment = {d}
  StatefulSet = {s1}
  DaemonSet = {ds1}
  Job = {j1}
  ReplicaSet = {r1, r2, r3, bare}
  RSOwner <- MCKinds
  OtherOwner = {rc}
  NoOwner = NoOwner
  Days = {3}
  MaxDays = 1
INVARIANTS QuietReads HistoryIsRecent SteadyPodsCountedOnce
CONSTRAINT SmallCluster
SYMMETRY Symmetry
CHECK_DEADLOCK FALSE
