SPECIFICATION Spec
CONSTANTS
  Node <- MCNode
  NodeSpec <- MCNodeSpec
  Template <- MCTemplate
  PodSpec <- MCPodSpec
  Pdb <- MCPdb
  PdbSpec <- MCPdbSpec
  HeadroomPct = {85}
  MaxReplicas = 2
INVARIANTS CapacityRespected PlacementAllowed AccountingExact
PROPERTIES DrainSound FullestNodeFirst
CHECK_DEADLOCK FALSE
