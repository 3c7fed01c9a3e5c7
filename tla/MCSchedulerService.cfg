SPECIFICATION FairServiceSpec
CONSTANTS
  Node <- MCNode
  NodeSpec <- MCNodeSpec
  NodeOrder <- MCNodeOrder
  Template <- MCTemplate
  PodSpec <- MCPodSpec
  Pdb = {}
  PdbSpec = {}
  HeadroomPct = {85, 60}
  MaxReplicas = 2
  Workload = {"web", "webRightSized", "db", "batch"}
  WorkloadSpec <- MCWorkloadSpec
  Kinds <- MCKinds
CONSTRAINT SmallInstance
ACTION_CONSTRAINT HeadroomFalls
CHECK_DEADLOCK FALSE
INVARIANTS NodesPartitioned PlacedOrReported CapacityRespected
PROPERTY ImplementsNodeRemoval SimulationReturns
